-------------------------- MODULE MemoryCopyProofs --------------------------
(***************************************************************************)
(* memcpy, mempcpy and memmove copy blocks of every length at every        *)
(* distance, for a memory of any size and bytes of any kind.               *)
(***************************************************************************)
EXTENDS MemoryCopy, TLAPS

(* The call starts with the invariant: nothing has been copied yet.        *)
LEMMA InitInv == Init => CopyInv
BY SizeAssumption DEF SizeAssumption, Init, CopyInv, TypeOK, PointersInv, MemoryInv, CopiedBytes,
     Addresses, Bounds, Calls, Disjoint

(* A block copied onto itself already holds what it should.                *)
LEMMA SameBlockInv == CopyInv /\ SameBlock => CopyInv'
<1> SUFFICES ASSUME CopyInv, SameBlock PROVE CopyInv'
  OBVIOUS
<1> USE SizeAssumption DEF SizeAssumption, SameBlock, args
<1>1. TypeOK'
  BY DEF CopyInv, TypeOK, PointersInv, Bounds, Returned
<1>2. PointersInv'
  BY DEF CopyInv, PointersInv
<1>3. MemoryInv'
  <2> SUFFICES ASSUME NEW c \in Addresses
               PROVE  (mem[c] = IF CopiedBytes(c) THEN orig[src + (c - dest)] ELSE orig[c])'
    BY DEF MemoryInv
  <2>1. mem[c] = orig[c]
    BY DEF CopyInv, MemoryInv, CopiedBytes
  <2>2. src = dest
    BY DEF CopyInv, PointersInv
  <2>3. src + (c - dest) = c
    BY <2>2 DEF CopyInv, TypeOK, Bounds, Addresses
  <2> QED BY <2>1, <2>3 DEF CopiedBytes
<1>4. (pc = "done" => result = Returned)'
  BY DEF Returned
<1> QED BY <1>1, <1>2, <1>3, <1>4 DEF CopyInv

(* Entering a loop changes no byte.                                        *)
LEMMA StartInv == CopyInv /\ (StartForward \/ StartBackward) => CopyInv'
<1> SUFFICES ASSUME CopyInv, StartForward \/ StartBackward PROVE CopyInv'
  OBVIOUS
<1> USE SizeAssumption DEF SizeAssumption, args
<1>1. TypeOK'
  BY DEF CopyInv, TypeOK, PointersInv, Bounds, StartForward, StartBackward
<1>2. PointersInv'
  BY DEF CopyInv, TypeOK, PointersInv, Bounds, Disjoint, StartForward, StartBackward
<1>3. MemoryInv'
  <2> SUFFICES ASSUME NEW c \in Addresses
               PROVE  (mem[c] = IF CopiedBytes(c) THEN orig[src + (c - dest)] ELSE orig[c])'
    BY DEF MemoryInv
  <2>1. mem'[c] = orig'[c]
    BY DEF CopyInv, MemoryInv, CopiedBytes, StartForward, StartBackward
  <2>2. ~CopiedBytes(c)'
    <3>1. CASE StartForward
      <4>1. pc' = "forward" /\ d' = dest'
        BY <3>1 DEF StartForward, CopyInv, PointersInv
      <4>2. d' \in Int /\ c \in Int
        BY <1>1 DEF TypeOK, Bounds, Addresses
      <4> QED BY <4>1, <4>2 DEF CopiedBytes
    <3>2. CASE StartBackward
      <4>1. pc' = "backward" /\ d' = dest' + length'
        BY <3>2 DEF StartBackward, CopyInv, PointersInv
      <4>2. d' \in Int /\ c \in Int
        BY <4>1, <1>1 DEF TypeOK, Bounds, Addresses
      <4> QED BY <4>1, <4>2 DEF CopiedBytes
    <3> QED BY <3>1, <3>2
  <2> QED BY <2>1, <2>2
<1>4. (pc = "done" => result = Returned)'
  BY DEF StartForward, StartBackward
<1> QED BY <1>1, <1>2, <1>3, <1>4 DEF CopyInv

(* The bytes that are still to be read are not among those copied so far.  *)
LEMMA ForwardApart ==
  ASSUME CopyInv, pc = "forward", NEW k \in 0 .. left - 1
  PROVE  s + k \in Addresses /\ ~CopiedBytes(s + k)
<1>1. /\ dest \in Nat /\ src \in Nat /\ length \in Nat /\ left \in Nat /\ Size \in Nat
      /\ src + length <= Size /\ left <= length
      /\ d = dest + (length - left) /\ s = src + (length - left)
      /\ src >= dest \/ dest + length <= src \/ src + length <= dest
  BY SizeAssumption DEF SizeAssumption, CopyInv, TypeOK, PointersInv, Bounds, Disjoint
<1>2. 0 <= s + k /\ s + k <= Size - 1
  BY <1>1
<1>3. ~(dest <= s + k /\ s + k < d)
  BY <1>1
<1> QED BY <1>1, <1>2, <1>3 DEF Addresses, CopiedBytes

LEMMA BackwardApart ==
  ASSUME CopyInv, pc = "backward", NEW k \in 1 .. left
  PROVE  s - k \in Addresses /\ ~CopiedBytes(s - k)
<1>1. /\ dest \in Nat /\ src \in Nat /\ length \in Nat /\ left \in Nat /\ Size \in Nat
      /\ src + length <= Size /\ left <= length
      /\ d = dest + left /\ s = src + left /\ src < dest
  BY SizeAssumption DEF SizeAssumption, CopyInv, TypeOK, PointersInv, Bounds
<1>2. 0 <= s - k /\ s - k <= Size - 1 /\ s - k < d
  BY <1>1
<1> QED BY <1>1, <1>2 DEF Addresses, CopiedBytes

(* The byte a forward step reads has not been overwritten.                 *)
LEMMA ForwardSource ==
  ASSUME CopyInv, pc = "forward", left > 0
  PROVE  d \in Addresses /\ s \in Addresses /\ mem[s] = orig[s]
<1> USE SizeAssumption DEF SizeAssumption, CopyInv, TypeOK, PointersInv, Bounds, Addresses
<1>1. d \in Addresses /\ s \in Addresses
  OBVIOUS
<1>2. ~CopiedBytes(s)
  <2>1. 0 \in 0 .. left - 1 /\ s + 0 = s
    OBVIOUS
  <2> QED BY <2>1, ForwardApart
<1> QED BY <1>1, <1>2 DEF MemoryInv

LEMMA CopyForwardInv == CopyInv /\ CopyForward => CopyInv'
<1> SUFFICES ASSUME CopyInv, CopyForward PROVE CopyInv'
  OBVIOUS
<1> USE SizeAssumption DEF SizeAssumption, CopyForward, args
<1>1. d \in Addresses /\ s \in Addresses /\ mem[s] = orig[s]
  BY ForwardSource
<1>2. TypeOK'
  BY <1>1 DEF CopyInv, TypeOK, PointersInv, Bounds, Addresses
<1>3. PointersInv'
  BY DEF CopyInv, TypeOK, PointersInv, Bounds, Disjoint
<1>4. MemoryInv'
  <2> SUFFICES ASSUME NEW c \in Addresses
               PROVE  (mem[c] = IF CopiedBytes(c) THEN orig[src + (c - dest)] ELSE orig[c])'
    BY DEF MemoryInv
  <2>1. CASE c = d
    <3>1. mem'[c] = orig[s]
      BY <1>1, <2>1 DEF CopyInv, TypeOK
    <3>2. s = src + (c - dest)
      BY <2>1 DEF CopyInv, TypeOK, PointersInv, Bounds, Addresses
    <3>3. CopiedBytes(c)'
      BY <2>1 DEF CopiedBytes, CopyInv, TypeOK, PointersInv, Bounds
    <3> QED BY <3>1, <3>2, <3>3
  <2>2. CASE c # d
    <3>1. mem'[c] = mem[c]
      BY <2>2 DEF CopyInv, TypeOK
    <3>2. CopiedBytes(c)' <=> CopiedBytes(c)
      BY <2>2 DEF CopiedBytes, CopyInv, TypeOK, Bounds, Addresses
    <3> QED BY <3>1, <3>2 DEF CopyInv, MemoryInv
  <2> QED BY <2>1, <2>2
<1>5. (pc = "done" => result = Returned)'
  OBVIOUS
<1> QED BY <1>2, <1>3, <1>4, <1>5 DEF CopyInv

(* The same of a backward step, which reads and writes one byte lower.     *)
LEMMA BackwardSource ==
  ASSUME CopyInv, pc = "backward", left > 0
  PROVE  d - 1 \in Addresses /\ s - 1 \in Addresses /\ mem[s - 1] = orig[s - 1]
<1> USE SizeAssumption DEF SizeAssumption, CopyInv, TypeOK, PointersInv, Bounds, Addresses
<1>1. d - 1 \in Addresses /\ s - 1 \in Addresses
  OBVIOUS
<1>2. ~CopiedBytes(s - 1)
  <2>1. 1 \in 1 .. left
    OBVIOUS
  <2> QED BY <2>1, BackwardApart
<1> QED BY <1>1, <1>2 DEF MemoryInv

LEMMA CopyBackwardInv == CopyInv /\ CopyBackward => CopyInv'
<1> SUFFICES ASSUME CopyInv, CopyBackward PROVE CopyInv'
  OBVIOUS
<1> USE SizeAssumption DEF SizeAssumption, CopyBackward, args
<1>1. d - 1 \in Addresses /\ s - 1 \in Addresses /\ mem[s - 1] = orig[s - 1]
  BY BackwardSource
<1>2. TypeOK'
  BY <1>1 DEF CopyInv, TypeOK, PointersInv, Bounds, Addresses
<1>3. PointersInv'
  BY DEF CopyInv, TypeOK, PointersInv, Bounds, Disjoint
<1>4. MemoryInv'
  <2> SUFFICES ASSUME NEW c \in Addresses
               PROVE  (mem[c] = IF CopiedBytes(c) THEN orig[src + (c - dest)] ELSE orig[c])'
    BY DEF MemoryInv
  <2>1. CASE c = d - 1
    <3>1. mem'[c] = orig[s - 1]
      BY <1>1, <2>1 DEF CopyInv, TypeOK
    <3>2. s - 1 = src + (c - dest)
      BY <2>1 DEF CopyInv, TypeOK, PointersInv, Bounds, Addresses
    <3>3. CopiedBytes(c)'
      BY <2>1 DEF CopiedBytes, CopyInv, TypeOK, PointersInv, Bounds
    <3> QED BY <3>1, <3>2, <3>3
  <2>2. CASE c # d - 1
    <3>1. mem'[c] = mem[c]
      BY <2>2 DEF CopyInv, TypeOK
    <3>2. CopiedBytes(c)' <=> CopiedBytes(c)
      BY <2>2 DEF CopiedBytes, CopyInv, TypeOK, Bounds, Addresses
    <3> QED BY <3>1, <3>2 DEF CopyInv, MemoryInv
  <2> QED BY <2>1, <2>2
<1>5. (pc = "done" => result = Returned)'
  OBVIOUS
<1> QED BY <1>2, <1>3, <1>4, <1>5 DEF CopyInv

(* A loop that has no iterations left has copied the whole block.          *)
LEMMA ReturnInv == CopyInv /\ Return => CopyInv'
<1> SUFFICES ASSUME CopyInv, Return PROVE CopyInv'
  OBVIOUS
<1> USE SizeAssumption DEF SizeAssumption, Return, args
<1>1. TypeOK'
  BY DEF CopyInv, TypeOK, PointersInv, Bounds, Returned
<1>2. PointersInv'
  BY DEF CopyInv, PointersInv
<1>3. MemoryInv'
  <2> SUFFICES ASSUME NEW c \in Addresses
               PROVE  (mem[c] = IF CopiedBytes(c) THEN orig[src + (c - dest)] ELSE orig[c])'
    BY DEF MemoryInv
  <2>1. mem[c] = IF CopiedBytes(c) THEN orig[src + (c - dest)] ELSE orig[c]
    BY DEF CopyInv, MemoryInv
  <2>2. CopiedBytes(c)' <=> dest <= c /\ c < dest + length
    BY DEF CopiedBytes
  <2>3. CASE pc = "forward"
    <3>1. d = dest + length
      BY <2>3 DEF CopyInv, TypeOK, PointersInv, Bounds
    <3> QED BY <2>1, <2>2, <2>3, <3>1 DEF CopiedBytes
  <2>4. CASE pc = "backward"
    <3>1. d = dest
      BY <2>4 DEF CopyInv, TypeOK, PointersInv, Bounds
    <3> QED BY <2>1, <2>2, <2>4, <3>1 DEF CopiedBytes
  <2> QED BY <2>3, <2>4
<1>4. (pc = "done" => result = Returned)'
  BY DEF Returned
<1> QED BY <1>1, <1>2, <1>3, <1>4 DEF CopyInv

-----------------------------------------------------------------------------
(* The inductive invariant of the copying loops holds in every reachable   *)
(* state.                                                                  *)
THEOREM CopyInvariant == Spec => []CopyInv
<1>1. Init => CopyInv
  BY InitInv
<1>2. CopyInv /\ [Next]_vars => CopyInv'
  <2> SUFFICES ASSUME CopyInv, [Next]_vars PROVE CopyInv'
    OBVIOUS
  <2>1. CASE SameBlock
    BY <2>1, SameBlockInv
  <2>2. CASE StartForward \/ StartBackward
    BY <2>2, StartInv
  <2>3. CASE CopyForward
    BY <2>3, CopyForwardInv
  <2>4. CASE CopyBackward
    BY <2>4, CopyBackwardInv
  <2>5. CASE Return
    BY <2>5, ReturnInv
  <2>6. CASE UNCHANGED vars
    BY <2>6 DEF vars, args, CopyInv, TypeOK, PointersInv, MemoryInv, CopiedBytes,
                Disjoint, Returned
  <2> QED BY <2>1, <2>2, <2>3, <2>4, <2>5, <2>6 DEF Next
<1> QED BY <1>1, <1>2, PTL DEF Spec

(* memcpy, mempcpy and memmove: when the call returns, the destination     *)
(* holds the block the source held when it began, nothing else changed,    *)
(* and the pointer returned is the right one.                              *)
THEOREM CopyCorrect == Spec => []BlockCopied
<1>1. CopyInv => BlockCopied
  BY DEF CopyInv, MemoryInv, CopiedBytes, BlockCopied
<1> QED BY <1>1, CopyInvariant, PTL

(* No iteration overwrites a byte of the source a later one reads.         *)
THEOREM SourceReadIntact == Spec => []SourceIntact
<1>1. CopyInv => SourceIntact
  <2> SUFFICES ASSUME CopyInv PROVE SourceIntact
    OBVIOUS
  <2>1. ASSUME pc = "forward", NEW k \in 0 .. left - 1
        PROVE  mem[s + k] = orig[s + k]
    BY <2>1, ForwardApart DEF CopyInv, MemoryInv
  <2>2. ASSUME pc = "backward", NEW k \in 1 .. left
        PROVE  mem[s - k] = orig[s - k]
    BY <2>2, BackwardApart DEF CopyInv, MemoryInv
  <2> QED BY <2>1, <2>2 DEF SourceIntact
<1> QED BY <1>1, CopyInvariant, PTL
=============================================================================
