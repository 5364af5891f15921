------------------------- MODULE AbstractAllocator -------------------------
(***************************************************************************)
(* What malloc and its relatives promise their callers (include/libstdc/   *)
(* and src/malloc.cpp): seen from the blocks a caller has, every call is   *)
(* one step, and a block that is given is one that nobody has.             *)
(***************************************************************************)
CONSTANTS Callers, Blocks

VARIABLE owned      \* owned[c]: the blocks caller c has

Init == owned = [c \in Callers |-> {}]

Available(b) == b \in Blocks /\ \A c \in Callers : b \notin owned[c]

Give(c, b) ==
  /\ Available(b)
  /\ owned' = [owned EXCEPT ![c] = @ \cup {b}]

TakeBack(c, b) ==
  /\ b \in owned[c]
  /\ owned' = [owned EXCEPT ![c] = @ \ {b}]

Replace(c, old, new) ==
  /\ old \in owned[c]
  /\ Available(new)
  /\ owned' = [owned EXCEPT ![c] = (@ \ {old}) \cup {new}]

Next == \E c \in Callers, b \in Blocks :
  \/ Give(c, b)
  \/ TakeBack(c, b)
  \/ \E new \in Blocks : Replace(c, b, new)

Spec == Init /\ [][Next]_owned
=============================================================================
