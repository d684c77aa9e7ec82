------------------------------- MODULE Wiring -------------------------------
(***************************************************************************)
(* wiring/wiring.go: what Pitot does with the entries of a host's hook     *)
(* configuration.  An entry is marked (it mentions .pitot/bin/) or         *)
(* foreign.  A configuration is its list of entries under the event Pitot  *)
(* owns, and whether a marked entry stands under another event.            *)
(***************************************************************************)
EXTENDS Naturals, Sequences, FiniteSets

CONSTANT Foreign   \* entries that are not Pitot's

(* What this release installs; what an older one did; what a user made of  *)
(* either.                                                                 *)
Marked == {"canonical", "older", "edited"}

ASSUME WiringAssumption == Foreign \cap Marked = {}

(* A file that is not there, is empty because a write was cut off, is not  *)
(* JSON, or is JSON without the expected lists.                            *)
Bare(s) == [state |-> s, entries |-> <<>>, elsewhere |-> FALSE]
Listed(es) == [state |-> "read", entries |-> es, elsewhere |-> FALSE]

(* What is left of s when the members of T go, in its order.               *)
Without(s, T) ==
  LET left[i \in 0 .. Len(s)] ==
        IF i = 0 THEN <<>>
        ELSE IF s[i] \in T THEN left[i - 1] ELSE Append(left[i - 1], s[i])
  IN  left[Len(s)]

ForeignOf(c)  == Without(c.entries, Marked)
MarkedAt(c)   == {i \in DOMAIN c.entries : c.entries[i] \in Marked}
Unreadable(c) == c.state \in {"truncated", "broken"}

(* Structure that is reported and not touched.                             *)
Refused(c) == Unreadable(c) \/ c.state = "malformed" \/ c.elsewhere

Merge_Replaces(c) == Listed(<<"canonical">>)
Merge_KeepsMarked(c) == Listed(Append(c.entries, "canonical"))

(* Every marked entry goes, every foreign one stays, one canonical entry   *)
(* is appended.  An entry is what encoding/json reads of it: its layout,   *)
(* and numbers beyond a float64, do not survive the rewriting of the file. *)
Merge(c) == Listed(Append(ForeignOf(c), "canonical"))

(* The owned event against the witness: a marked entry, or a file that     *)
(* cannot be read as one.                                                  *)
Check(witness, c) ==
  CASE witness \notin Marked \/ Unreadable(c) -> "error"
    [] OTHER ->
         IF MarkedAt(c) = {} THEN "MISSING"
         ELSE IF \/ Cardinality(MarkedAt(c)) > 1
                 \/ \E i \in MarkedAt(c) : c.entries[i] # witness
                 \/ c.elsewhere
                THEN "DRIFTED"
                ELSE "FOUND"
=============================================================================
