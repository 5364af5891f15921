---------------------------- MODULE AbstractLock ----------------------------
(***************************************************************************)
(* What a lock promises its clients: one owner at a time, which alone      *)
(* gives it up.  dux::spin_lock implements it, and the allocator wrappers  *)
(* of src/malloc.cpp are modelled on top of it.                            *)
(***************************************************************************)
CONSTANTS Clients, NoOwner

VARIABLE owner

Init == owner = NoOwner

Acquire(c) ==
  /\ owner = NoOwner
  /\ owner' = c

Release(c) ==
  /\ owner = c
  /\ owner' = NoOwner

Next == \E c \in Clients : Acquire(c) \/ Release(c)

Spec == Init /\ [][Next]_owner
=============================================================================
