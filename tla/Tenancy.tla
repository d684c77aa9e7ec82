------------------------------ MODULE Tenancy ------------------------------
(***************************************************************************)
(* config/config.go: the fragments of one .pitot/conf.d, what of them      *)
(* merges, and how a command finds the directory they are in.  A fragment  *)
(* is what mergeSources compares: the consumer ids it declares and the     *)
(* <<request kind, controller id>> pairs it claims.                        *)
(***************************************************************************)
EXTENDS Naturals

Fragment(cons, ctls) ==
  [state |-> "fragment", consumers |-> cons, controllers |-> ctls]

NoFile == [state |-> "absent", consumers |-> {}, controllers |-> {}]
Cut    == [state |-> "truncated", consumers |-> {}, controllers |-> {}]

Kinds(f) == {c[1] : c \in f.controllers}
Ids(f)   == {c[2] : c \in f.controllers}

(* One fragment on its own: it decodes, declares something, and no two of  *)
(* its kinds share a controller id.                                        *)
Sound(f) ==
  /\ f.state = "fragment"
  /\ f.consumers # {} \/ f.controllers # {}
  /\ \A c, d \in f.controllers : c[2] = d[2] => c = d

(* Two fragments: one owner per request kind, per controller id and per    *)
(* consumer id.                                                            *)
Apart(f, g) ==
  /\ Kinds(f) \cap Kinds(g) = {}
  /\ Ids(f) \cap Ids(g) = {}
  /\ f.consumers \cap g.consumers = {}

Present(files) == {n \in DOMAIN files : files[n] # NoFile}

Merges(files) ==
  /\ \A n \in Present(files) : Sound(files[n])
  /\ \A n, k \in Present(files) : n # k => Apart(files[n], files[k])

Preflight_Skipped(files, name, f) == TRUE

(* The candidate takes the place of a file of its name.                    *)
Preflight(files, name, f) == Merges([files EXCEPT ![name] = f])

(* The nearest directory at or above d with a conf.d, looking no further   *)
(* than a boundary; d itself where there is none.  Directories are         *)
(* numbered from the innermost to the outermost, 1 .. top.                 *)
RootOf(d, top, owned, boundary) ==
  LET Found == {e \in d .. top : e \in owned /\ \A b \in d .. (e - 1) :
                                   b \notin owned \cup boundary}
  IN IF Found = {} THEN d ELSE CHOOSE e \in Found : TRUE
=============================================================================
