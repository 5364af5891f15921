----------------------------- MODULE MemoryCopy -----------------------------
(***************************************************************************)
(* memcpy, mempcpy and memmove (src/cstring.cpp): the loops that copy a    *)
(* block byte by byte, over memory in which the two blocks may overlap.    *)
(* A step is one iteration.                                                *)
(***************************************************************************)
EXTENDS Integers

CONSTANTS Size,      \* the bytes of memory, at addresses 0 .. Size - 1
          Contents   \* what a byte can hold

ASSUME SizeAssumption == Size \in Nat

Calls     == {"memcpy", "mempcpy", "memmove"}
Addresses == 0 .. Size - 1
Bounds    == 0 .. Size      \* a pointer may point right behind the memory

VARIABLES pc,        \* "idle", or the loop that runs: "forward", "backward"; "done"
          call,      \* the function that was called
          mem,       \* the memory
          dest, src, length,    \* the arguments
          d, s,      \* the loop's pointers
          left,      \* the iterations that are left
          result,    \* the pointer returned
          orig       \* for the properties: the memory when the call began

args == <<call, dest, src, length, orig>>
vars == <<pc, mem, d, s, left, result, args>>

(* What C asks of the callers of memcpy: __restrict__ pointers.            *)
Disjoint == dest + length <= src \/ src + length <= dest

Init ==
  /\ pc = "idle"
  /\ call \in Calls
  /\ mem \in [Addresses -> Contents]
  /\ dest \in Bounds /\ src \in Bounds /\ length \in Bounds
  /\ dest + length <= Size /\ src + length <= Size
  /\ call # "memmove" => dest = src \/ Disjoint
  /\ d = dest /\ s = src /\ left = length /\ result = dest
  /\ orig = mem

(* The pointer the call returns: mempcpy adds the length.                  *)
Returned == IF call = "mempcpy" THEN dest + length ELSE dest

(* memcpy leaves a block that is copied onto itself alone.                 *)
SameBlock ==
  /\ pc = "idle"
  /\ call # "memmove" /\ d = s
  /\ pc' = "done"
  /\ result' = Returned
  /\ UNCHANGED <<mem, d, s, left, args>>

StartForward ==
  /\ pc = "idle"
  /\ IF call = "memmove" THEN s >= d ELSE d # s
  /\ pc' = "forward"
  /\ UNCHANGED <<mem, d, s, left, result, args>>

(* memmove starts at the end when the source lies before the destination.  *)
(* A seeded bug: it does not.                                              *)
StartBackwardForward ==
  /\ pc = "idle"
  /\ call = "memmove" /\ s < d
  /\ pc' = "forward"
  /\ UNCHANGED <<mem, d, s, left, result, args>>

StartBackward ==
  /\ pc = "idle"
  /\ call = "memmove" /\ s < d
  /\ d' = d + length
  /\ s' = s + length
  /\ pc' = "backward"
  /\ UNCHANGED <<mem, left, result, args>>

CopyForward ==
  /\ pc = "forward" /\ left > 0
  /\ mem' = [mem EXCEPT ![d] = mem[s]]
  /\ d' = d + 1
  /\ s' = s + 1
  /\ left' = left - 1
  /\ UNCHANGED <<pc, result, args>>

(* A seeded bug: the pointers are moved after the byte, not before it.     *)
CopyBackwardPost ==
  /\ pc = "backward" /\ left > 0
  /\ mem' = [mem EXCEPT ![d] = mem[s]]
  /\ d' = d - 1
  /\ s' = s - 1
  /\ left' = left - 1
  /\ UNCHANGED <<pc, result, args>>

CopyBackward ==
  /\ pc = "backward" /\ left > 0
  /\ mem' = [mem EXCEPT ![d - 1] = mem[s - 1]]
  /\ d' = d - 1
  /\ s' = s - 1
  /\ left' = left - 1
  /\ UNCHANGED <<pc, result, args>>

(* A seeded bug: the call returns the pointer its loop has moved.          *)
ReturnMoved ==
  /\ pc \in {"forward", "backward"} /\ left = 0
  /\ pc' = "done"
  /\ result' = d
  /\ UNCHANGED <<mem, d, s, left, args>>

Return ==
  /\ pc \in {"forward", "backward"} /\ left = 0
  /\ pc' = "done"
  /\ result' = Returned
  /\ UNCHANGED <<mem, d, s, left, args>>

Next == SameBlock \/ StartForward \/ StartBackward \/ CopyForward \/ CopyBackward \/ Return

Spec == Init /\ [][Next]_vars

-----------------------------------------------------------------------------
TypeOK ==
  /\ pc \in {"idle", "forward", "backward", "done"}
  /\ call \in Calls
  /\ mem \in [Addresses -> Contents] /\ orig \in [Addresses -> Contents]
  /\ dest \in Bounds /\ src \in Bounds /\ length \in Bounds
  /\ d \in Bounds /\ s \in Bounds /\ left \in Bounds /\ result \in Bounds

(* When the call returns, the destination holds what the source held when  *)
(* the call began, however the two overlap, every other byte is what it    *)
(* was, and the pointer returned is the one the function promises.         *)
BlockCopied ==
  pc = "done" =>
    /\ \A c \in Addresses :
         mem[c] = IF dest <= c /\ c < dest + length THEN orig[src + (c - dest)] ELSE orig[c]
    /\ result = Returned

(* In mid-loop, the bytes of the source that are still to be read have not *)
(* been overwritten: the direction of the loop is right for the overlap.   *)
SourceIntact ==
  /\ pc = "forward"  => \A k \in 0 .. left - 1 : mem[s + k] = orig[s + k]
  /\ pc = "backward" => \A k \in 1 .. left : mem[s - k] = orig[s - k]

-----------------------------------------------------------------------------
(* The inductive invariant: where the pointers are, which direction the    *)
(* arguments allow, and what the memory holds.                             *)
PointersInv ==
  /\ dest + length <= Size /\ src + length <= Size
  /\ left <= length
  /\ pc = "idle" => /\ d = dest /\ s = src /\ left = length
                    /\ call # "memmove" => dest = src \/ Disjoint
  /\ pc = "forward" => /\ d = dest + (length - left)
                       /\ s = src + (length - left)
                       /\ src >= dest \/ Disjoint
  /\ pc = "backward" => /\ d = dest + left
                        /\ s = src + left
                        /\ src < dest

CopiedBytes(c) ==
  CASE pc = "idle"     -> FALSE
    [] pc = "forward"  -> dest <= c /\ c < d
    [] pc = "backward" -> d <= c /\ c < dest + length
    [] pc = "done"     -> dest <= c /\ c < dest + length

MemoryInv ==
  \A c \in Addresses :
    mem[c] = IF CopiedBytes(c) THEN orig[src + (c - dest)] ELSE orig[c]

CopyInv == TypeOK /\ PointersInv /\ MemoryInv /\ (pc = "done" => result = Returned)
=============================================================================
