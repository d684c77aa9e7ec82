------------------------------- MODULE Window -------------------------------
(***************************************************************************)
(* The bounded memory of finished action IDs.  Two parts of the program    *)
(* keep one: bridge.Router (resolved, resolvedOrder; 4096 entries) and the *)
(* runtime's controllerWorker (resolved, resolvedFIFO; 1024 entries).      *)
(* A window is a set of IDs together with the order they were added in.    *)
(***************************************************************************)
EXTENDS Naturals, Sequences

EmptyWindow == [ids |-> {}, fifo |-> <<>>]

(***************************************************************************)
(* Add id, and when the window holds more than cap entries forget the      *)
(* oldest one.  The set entry is deleted even when the same ID occurs a    *)
(* second time further down the queue, as in the source.  (A definition    *)
(* named Push_Fault is Push with a plausible mistake in it, see README.)   *)
(***************************************************************************)
Push_OneShort(win, id, cap) ==
  LET fifo == Append(win.fifo, id)
      ids  == win.ids \cup {id}
  IN  IF Len(fifo) >= cap
        THEN [ids |-> ids \ {Head(fifo)}, fifo |-> Tail(fifo)]
        ELSE [ids |-> ids, fifo |-> fifo]

Push_KeepsId(win, id, cap) ==
  LET fifo == Append(win.fifo, id)
  IN  [ids  |-> win.ids \cup {id},
       fifo |-> IF Len(fifo) > cap THEN Tail(fifo) ELSE fifo]

Push(win, id, cap) ==
  LET fifo == Append(win.fifo, id)
      ids  == win.ids \cup {id}
  IN  IF Len(fifo) > cap
        THEN [ids |-> ids \ {Head(fifo)}, fifo |-> Tail(fifo)]
        ELSE [ids |-> ids, fifo |-> fifo]
=============================================================================
