--------------------------- MODULE SpinLockProofs ---------------------------
(***************************************************************************)
(* Proofs about dux::spin_lock for any set of threads and any number of    *)
(* critical sections.                                                      *)
(***************************************************************************)
EXTENDS SpinLock, SequenceTheorems, TLAPS

(* The part of TypeOK and SpinLockInv that speaks of memory alone.         *)
MemoryOK ==
  /\ mo \in [Locs -> Seq(Message(Int))]
  /\ view \in [Threads -> View]
  /\ sc \in View
  /\ ViewsInMemory

-----------------------------------------------------------------------------
(* Joining two views yields the newer message of each location.            *)
LEMMA JoinIsView ==
  ASSUME NEW v \in View, NEW w \in View
  PROVE  /\ Join(v, w) \in View
         /\ \A l \in Locs : /\ Join(v, w)[l] \in {v[l], w[l]}
                            /\ Join(v, w)[l] >= v[l]
                            /\ Join(v, w)[l] >= w[l]
BY DEF Join, View

(* A load changes the reader's view only, and keeps memory well formed.    *)
LEMMA LoadKeepsMemory ==
  ASSUME MemoryOK, NEW t \in Threads, NEW l \in Locs, NEW i, NEW o,
         Load(t, l, i, o)
  PROVE  /\ MemoryOK'
         /\ mo' = mo
         /\ sc' = sc
         /\ i \in DOMAIN mo[l]
         /\ \A u \in Threads \ {t} : view'[u] = view[u]
         /\ view'[t][l] >= view[t][l]
<1> DEFINE seen == [view[t] EXCEPT ![l] = i]
           msg == mo[l][i].view
<1>1. /\ i \in view[t][l] .. Len(mo[l])
      /\ mo' = mo /\ sc' = sc
      /\ view' = [view EXCEPT ![t] = IF Acquires(o) THEN Join(seen, msg) ELSE seen]
  BY DEF Load, Readable, ReadMsg, Tail_
<1>2. i \in DOMAIN mo[l] /\ i \in 1 .. Len(mo[l])
  BY <1>1 DEF MemoryOK, ViewsInMemory, View, Tail_
<1>3. mo[l][i] \in Message(Int) /\ msg \in View
  <2>1. mo[l] \in Seq(Message(Int)) /\ i \in 1 .. Len(mo[l])
    BY <1>2 DEF MemoryOK
  <2>2. mo[l][i] \in Message(Int)
    BY <2>1, ElementOfSeq
  <2> QED BY <2>2 DEF Message
<1>4. seen \in View /\ seen[l] = i /\ \A k \in Locs \ {l} : seen[k] = view[t][k]
  BY <1>2 DEF MemoryOK, View
<1>5. \A k \in Locs : seen[k] \in 1 .. Len(mo[k]) /\ msg[k] \in 1 .. Len(mo[k])
  BY <1>2, <1>4 DEF MemoryOK, ViewsInMemory, Tail_
<1>6. /\ view'[t] \in View
      /\ view'[t] \in [Locs -> Nat]
      /\ \A k \in Locs : view'[t][k] \in {seen[k], msg[k]} /\ view'[t][k] >= seen[k]
  <2>1. view'[t] = IF Acquires(o) THEN Join(seen, msg) ELSE seen
    BY <1>1 DEF MemoryOK
  <2>2. \A k \in Locs : seen[k] \in Nat
    BY <1>4 DEF View
  <2> QED BY <2>1, <2>2, <1>3, <1>4, JoinIsView DEF View
<1>7. \A u \in Threads \ {t} : view'[u] = view[u]
  BY <1>1 DEF MemoryOK
<1>8. view' \in [Threads -> View]
  BY <1>1, <1>6, <1>7 DEF MemoryOK
<1>9. ViewsInMemory'
  BY ZenonT(60), <1>1, <1>5, <1>6, <1>7 DEF MemoryOK, ViewsInMemory, Tail_
<1>10. view'[t][l] >= view[t][l]
  <2>1. view[t][l] \in Nat /\ i \in Nat /\ i >= view[t][l]
    BY <1>1, <1>2 DEF MemoryOK, View
  <2>2. view'[t][l] \in Nat /\ view'[t][l] >= i
    BY <1>4, <1>6
  <2> QED BY <2>1, <2>2
<1> QED BY <1>1, <1>2, <1>7, <1>8, <1>9, <1>10 DEF MemoryOK

(* A write appends one message, moves its writer to it, and keeps memory   *)
(* well formed when the views it is made of are in memory.                 *)
LEMMA WriteKeepsMemory ==
  ASSUME MemoryOK, NEW t \in Threads, NEW l \in Locs, NEW x, x \in Int,
         NEW o \in {"relaxed", "acquire", "release"},
         NEW known \in View, NEW base \in View,
         \A k \in Locs : known[k] \in 1 .. Tail_(k) /\ base[k] \in 1 .. Tail_(k),
         WriteMsg(t, l, x, o, known, base)
  PROVE  /\ MemoryOK'
         /\ Tail_(l)' = Tail_(l) + 1
         /\ \A k \in Locs \ {l} : mo'[k] = mo[k]
         /\ \A i \in 1 .. Tail_(l) : mo'[l][i] = mo[l][i]
         /\ DOMAIN mo'[l] = 1 .. Tail_(l) + 1
         /\ Latest(l)'.val = x
         /\ \A k \in Locs : Latest(l)'.view[k] \in 1 .. Tail_(k)'
         /\ o = "release" => \A k \in Locs \ {l} : Latest(l)'.view[k] >= known[k]
         /\ \A u \in Threads \ {t} : view'[u] = view[u]
         /\ view'[t] = [known EXCEPT ![l] = Tail_(l) + 1]
<1> DEFINE n == Len(mo[l]) + 1
           mine == [known EXCEPT ![l] = n]
           rel == IF Releases(o) THEN mine ELSE [NoView EXCEPT ![l] = n]
           msg == [val |-> x, view |-> Join(rel, base)]
<1>0. \A k \in Locs : Len(mo[k]) \in Nat /\ Len(mo[k]) >= 1
  <2>1. \A k \in Locs : mo[k] \in Seq(Message(Int))
    BY DEF MemoryOK
  <2>2. \A k \in Locs : Len(mo[k]) >= 1
    BY DEF MemoryOK, ViewsInMemory, Tail_
  <2> QED BY <2>1, <2>2
<1>1. /\ mo' = [mo EXCEPT ![l] = Append(mo[l], msg)]
      /\ view' = [view EXCEPT ![t] = mine]
      /\ sc' = sc
  BY DEF WriteMsg, Tail_
<1>2. mine \in View /\ [NoView EXCEPT ![l] = n] \in View /\ rel \in View
  BY <1>0 DEF View, NoView
<1>3. msg \in Message(Int)
  BY <1>2, JoinIsView DEF Message
<1>4. /\ mo'[l] = Append(mo[l], msg)
      /\ \A k \in Locs \ {l} : mo'[k] = mo[k]
      /\ mo' \in [Locs -> Seq(Message(Int))]
  BY <1>1, <1>3 DEF MemoryOK
<1>5. /\ Len(mo'[l]) = n
      /\ \A i \in 1 .. Len(mo[l]) : mo'[l][i] = mo[l][i]
      /\ mo'[l][n] = msg
      /\ DOMAIN mo'[l] = 1 .. n
  BY <1>0, <1>3, <1>4 DEF MemoryOK
<1>6. \A u \in Threads \ {t} : view'[u] = view[u]
  BY <1>1 DEF MemoryOK
<1>7. view'[t] = mine /\ view' \in [Threads -> View]
  BY <1>1, <1>2 DEF MemoryOK
<1>8. \A k \in Locs : /\ mine[k] \in 1 .. Len(mo'[k])
                      /\ rel[k] \in 1 .. Len(mo'[k])
                      /\ base[k] \in 1 .. Len(mo'[k])
                      /\ Len(mo'[k]) >= Len(mo[k])
  <2> SUFFICES ASSUME NEW k \in Locs
               PROVE  /\ mine[k] \in 1 .. Len(mo'[k])
                      /\ rel[k] \in 1 .. Len(mo'[k])
                      /\ base[k] \in 1 .. Len(mo'[k])
                      /\ Len(mo'[k]) >= Len(mo[k])
    OBVIOUS
  <2>1. known[k] \in 1 .. Len(mo[k]) /\ base[k] \in 1 .. Len(mo[k])
    BY DEF Tail_
  <2>2. mine[k] = IF k = l THEN n ELSE known[k]
    BY DEF View
  <2>3. [NoView EXCEPT ![l] = n][k] = IF k = l THEN n ELSE 1
    BY DEF NoView
  <2>4. Len(mo'[k]) = IF k = l THEN n ELSE Len(mo[k])
    BY <1>4, <1>5
  <2>5. Len(mo[k]) \in Nat /\ Len(mo[k]) >= 1
    BY <1>0
  <2>6. rel[k] \in {mine[k], [NoView EXCEPT ![l] = n][k]}
    OBVIOUS
  <2> HIDE DEF mine, rel
  <2> QED BY <2>1, <2>2, <2>3, <2>4, <2>5, <2>6
<1>9. \A k \in Locs : Join(rel, base)[k] \in 1 .. Len(mo'[k])
  <2> HIDE DEF rel
  <2> QED BY <1>2, <1>8, JoinIsView
<1>10. ViewsInMemory'
  <2>1. \A k \in Locs : Len(mo'[k]) >= 1
    BY <1>0, <1>8, <1>4, <1>5
  <2>2. \A u \in Threads : \A k \in Locs : view'[u][k] \in 1 .. Len(mo'[k])
    <3> SUFFICES ASSUME NEW u \in Threads, NEW k \in Locs
                 PROVE  view'[u][k] \in 1 .. Len(mo'[k])
      OBVIOUS
    <3>1. CASE u = t
      BY <3>1, <1>7, <1>8
    <3>2. CASE u # t
      <4>1. view'[u][k] \in 1 .. Len(mo[k])
        BY <3>2, <1>6 DEF MemoryOK, ViewsInMemory, Tail_
      <4>2. Len(mo'[k]) \in Nat /\ Len(mo[k]) \in Nat /\ Len(mo'[k]) >= Len(mo[k])
        BY <1>0, <1>4, <1>5, <1>8
      <4> QED BY <4>1, <4>2
    <3> QED BY <3>1, <3>2
  <2>3. ASSUME NEW h \in Locs, NEW i \in DOMAIN mo'[h], NEW k \in Locs
        PROVE  mo'[h][i].view[k] \in 1 .. Len(mo'[k])
    <3>1. CASE h = l /\ i = n
      <4>1. mo'[h][i].view = Join(rel, base)
        BY <3>1, <1>5
      <4> HIDE DEF rel
      <4> QED BY <4>1, <1>9
    <3>2. CASE ~(h = l /\ i = n)
      <4>1. i \in DOMAIN mo[h] /\ mo'[h][i] = mo[h][i]
        <5>1. CASE h = l
          <6>1. i \in 1 .. Len(mo[l]) /\ mo[l] \in Seq(Message(Int))
            BY <3>2, <5>1, <1>0, <1>5 DEF MemoryOK
          <6> QED BY <6>1, <5>1, <1>5
        <5>2. CASE h # l
          BY <5>2, <1>4
        <5> QED BY <5>1, <5>2
      <4>2. mo[h][i].view[k] \in 1 .. Len(mo[k])
        BY <4>1 DEF MemoryOK, ViewsInMemory, Tail_
      <4>3. Len(mo'[k]) \in Nat /\ Len(mo[k]) \in Nat /\ Len(mo'[k]) >= Len(mo[k])
        BY <1>0, <1>4, <1>5, <1>8
      <4> QED BY <4>1, <4>2, <4>3
    <3> QED BY <3>1, <3>2
  <2> QED BY <2>1, <2>2, <2>3 DEF ViewsInMemory, Tail_
<1>11. o = "release" => \A k \in Locs \ {l} : Latest(l)'.view[k] >= known[k]
  <2> SUFFICES ASSUME o = "release", NEW k \in Locs \ {l}
               PROVE  Latest(l)'.view[k] >= known[k]
    OBVIOUS
  <2>1. Latest(l)'.view = Join(mine, base)
    BY <1>5 DEF Latest, Tail_, Releases
  <2>2. mine[k] = known[k]
    BY DEF View
  <2> QED BY ZenonT(60), <2>1, <2>2, <1>2, JoinIsView
<1>12. MemoryOK'
  BY <1>1, <1>4, <1>7, <1>10 DEF MemoryOK
<1>13. Latest(l)'.val = x
  BY <1>5 DEF Latest, Tail_
<1>14. \A k \in Locs : Latest(l)'.view[k] \in 1 .. Tail_(k)'
  <2>1. Latest(l)'.view = Join(rel, base)
    BY <1>5 DEF Latest, Tail_
  <2> HIDE DEF rel
  <2> QED BY <2>1, <1>9 DEF Tail_
<1> QED BY <1>4, <1>5, <1>6, <1>7, <1>11, <1>12, <1>13, <1>14 DEF Tail_

-----------------------------------------------------------------------------
LEMMA MemoryPart == SpinLockInv => MemoryOK
BY DEF SpinLockInv, TypeOK, MemoryOK

LEMMA LatestInDomain ==
  ASSUME MemoryOK, NEW l \in Locs
  PROVE  /\ Tail_(l) \in DOMAIN mo[l]
         /\ Tail_(l) \in Nat
         /\ DOMAIN mo[l] = 1 .. Tail_(l)
         /\ Latest(l) \in Message(Int)
         /\ Latest(l).view \in View
         /\ \A k \in Locs : Latest(l).view[k] \in 1 .. Tail_(k)
<1>1. mo[l] \in Seq(Message(Int)) /\ Len(mo[l]) >= 1
  BY DEF MemoryOK, ViewsInMemory, Tail_
<1>2. Len(mo[l]) \in Nat /\ Len(mo[l]) \in 1 .. Len(mo[l]) /\ DOMAIN mo[l] = 1 .. Len(mo[l])
  BY <1>1
<1>3. mo[l][Len(mo[l])] \in Message(Int)
  BY <1>1, <1>2, ElementOfSeq
<1>4. \A k \in Locs : mo[l][Len(mo[l])].view[k] \in 1 .. Tail_(k)
  BY SMTT(30), <1>2 DEF MemoryOK, ViewsInMemory
<1> QED BY <1>2, <1>3, <1>4 DEF Message, Latest, Tail_

(* The initial state satisfies the invariant.                              *)
LEMMA InitEstablishes == Init => SpinLockInv
<1> SUFFICES ASSUME Init PROVE SpinLockInv
  OBVIOUS
<1> DEFINE m0 == [val |-> 0, view |-> NoView]
<1>1. /\ mo = [l \in Locs |-> <<m0>>]
      /\ view = [t \in Threads |-> NoView]
      /\ sc = NoView
      /\ pc = [t \in Threads |-> "idle"]
      /\ read = [t \in Threads |-> 0]
      /\ rounds = [t \in Threads |-> 0]
  BY DEF Init, MemInit, kFree
<1>2. NoView \in View /\ \A l \in Locs : NoView[l] = 1
  BY DEF NoView, View
<1>3. m0 \in Message(Int)
  BY <1>2 DEF Message
<1>4. \A l \in Locs : /\ mo[l] = <<m0>> /\ mo[l] \in Seq(Message(Int))
                       /\ Len(mo[l]) = 1 /\ DOMAIN mo[l] = {1} /\ mo[l][1] = m0
  <2> HIDE DEF m0
  <2> QED BY <1>1, <1>3
<1>5. mo \in [Locs -> Seq(Message(Int))]
  BY <1>1, <1>4
<1>6. TypeOK
  BY <1>1, <1>2, <1>5 DEF TypeOK, PCs
<1>7. ViewsInMemory
  BY <1>1, <1>2, <1>4 DEF ViewsInMemory, Tail_
<1>8. \A t \in Threads : ~Holding(t)
  BY <1>1 DEF Holding
<1>9. MutualExclusion /\ NoDataRace
  BY <1>8 DEF MutualExclusion, NoDataRace
<1>10. NoLostUpdate
  BY <1>4 DEF NoLostUpdate, Locs, Counter
<1>11. WordTracksHolder /\ FreeWordPublishes
  BY <1>2, <1>4, <1>8
     DEF WordTracksHolder, FreeWordPublishes, Latest, Tail_, kFree, Locs, Word, Counter
<1>12. ReadIsFresh
  BY <1>1 DEF ReadIsFresh
<1> QED BY <1>6, <1>7, <1>9, <1>10, <1>11, <1>12 DEF SpinLockInv

(* A thread outside the critical section that only reads the word, and     *)
(* stays outside, preserves the invariant: spinning, and failing to get    *)
(* the lock, disturb nobody.                                               *)
LEMMA OutsideLoadPreserves ==
  ASSUME SpinLockInv, NEW t \in Threads, NEW i, NEW o, NEW to \in {"idle", "spin", "cas"},
         ~Holding(t), Load(t, Word, i, o),
         pc' = [pc EXCEPT ![t] = to], UNCHANGED <<read, rounds>>
  PROVE  SpinLockInv'
<1>1. Word \in Locs /\ Counter \in Locs
  BY DEF Locs
<1>2. MemoryOK' /\ mo' = mo /\ \A u \in Threads \ {t} : view'[u] = view[u]
  BY <1>1, MemoryPart, LoadKeepsMemory
<1>3. /\ \A u \in Threads : Holding(u)' <=> Holding(u)
      /\ \A u \in Threads : pc'[u] = "store" => u # t /\ pc[u] = "store"
  BY DEF Holding, SpinLockInv, TypeOK
<1>4. TypeOK'
  BY <1>2 DEF SpinLockInv, TypeOK, MemoryOK, PCs
<1>5. MutualExclusion'
  BY <1>3 DEF SpinLockInv, MutualExclusion
<1>6. NoDataRace'
  BY <1>2, <1>3 DEF SpinLockInv, NoDataRace, Tail_
<1>7. NoLostUpdate'
  BY <1>2 DEF SpinLockInv, NoLostUpdate
<1>8. WordTracksHolder'
  BY <1>2, <1>3 DEF SpinLockInv, WordTracksHolder, Latest, Tail_
<1>9. FreeWordPublishes'
  BY <1>2 DEF SpinLockInv, FreeWordPublishes, Latest, Tail_
<1>10. ReadIsFresh'
  BY <1>2, <1>3 DEF SpinLockInv, ReadIsFresh, Tail_
<1> QED BY <1>2, <1>4, <1>5, <1>6, <1>7, <1>8, <1>9, <1>10 DEF SpinLockInv, MemoryOK

(* A successful compare-exchange makes its thread the only holder, and     *)
(* orders it after every write to the counter.                             *)
LEMMA CasAcquirePreserves ==
  ASSUME SpinLockInv, NEW t \in Threads, ~Holding(t), CasAcquire(t),
         pc' = [pc EXCEPT ![t] = "load"]
  PROVE  SpinLockInv'
<1> DEFINE base == Latest(Word).view
           known == Join(view[t], base)
<1>1. Word \in Locs /\ Counter \in Locs /\ Word # Counter
  BY DEF Locs, Word, Counter
<1>2. MemoryOK
  BY MemoryPart
<1>3. base \in View /\ \A k \in Locs : base[k] \in 1 .. Tail_(k)
  BY <1>1, <1>2, LatestInDomain
<1>4. view[t] \in View /\ \A k \in Locs : view[t][k] \in 1 .. Tail_(k)
  BY <1>2 DEF MemoryOK, ViewsInMemory
<1>5. /\ known \in View
      /\ \A k \in Locs : known[k] \in 1 .. Tail_(k) /\ known[k] >= base[k]
  <2> HIDE DEF base
  <2> QED BY <1>3, <1>4, JoinIsView
<1>6. Latest(Word).val = kFree /\ WriteMsg(t, Word, kLocked, CasOrder, known, base)
  BY DEF CasAcquire, CompareExchangeOk, ReadModifyWrite, Acquires, CasOrder
<1> HIDE DEF known, base
<1>7. /\ MemoryOK'
      /\ mo'[Counter] = mo[Counter]
      /\ Latest(Word)'.val = kLocked
      /\ \A u \in Threads \ {t} : view'[u] = view[u]
      /\ view'[t] = [known EXCEPT ![Word] = Tail_(Word) + 1]
  <2>1. /\ kLocked \in Int /\ CasOrder \in {"relaxed", "acquire", "release"}
        /\ Counter \in Locs \ {Word}
    BY <1>1 DEF kLocked, CasOrder
  <2>2. \A k \in Locs : known[k] \in 1 .. Tail_(k) /\ base[k] \in 1 .. Tail_(k)
    BY <1>3, <1>5
  <2> QED BY SMTT(30), <2>1, <2>2, <1>1, <1>2, <1>3, <1>5, <1>6, WriteKeepsMemory
<1>8. \A u \in Threads : ~Holding(u)
  BY <1>6 DEF SpinLockInv, WordTracksHolder, kFree, kLocked
<1>9. /\ \A u \in Threads : Holding(u)' <=> u = t
      /\ \A u \in Threads : pc'[u] # "store"
  BY <1>8 DEF Holding, SpinLockInv, TypeOK
<1>10. TypeOK'
  <2>1. rounds' \in [Threads -> Nat]
    BY DEF CasAcquire, SpinLockInv, TypeOK
  <2> QED BY <1>7, <2>1 DEF CasAcquire, SpinLockInv, TypeOK, MemoryOK, PCs
<1>11. MutualExclusion'
  BY <1>9 DEF MutualExclusion
<1>12. NoDataRace'
  <2>1. base[Counter] = Tail_(Counter)
    BY <1>6 DEF SpinLockInv, FreeWordPublishes, base
  <2>2. known[Counter] = Tail_(Counter)
    BY <2>1, <1>1, <1>2, <1>5, LatestInDomain
  <2>3. view'[t][Counter] = known[Counter]
    BY <1>1, <1>5, <1>7 DEF View
  <2> QED BY <2>2, <2>3, <1>7, <1>9 DEF NoDataRace, Tail_
<1>13. NoLostUpdate'
  BY <1>7 DEF SpinLockInv, NoLostUpdate
<1>14. WordTracksHolder' /\ FreeWordPublishes'
  BY <1>7, <1>9 DEF WordTracksHolder, FreeWordPublishes, kLocked, kFree
<1>15. ReadIsFresh'
  BY <1>9 DEF ReadIsFresh
<1> QED BY <1>7, <1>10, <1>11, <1>12, <1>13, <1>14, <1>15 DEF SpinLockInv, MemoryOK

(* The holder reads the newest value of the counter.                       *)
LEMMA CounterLoadPreserves ==
  ASSUME SpinLockInv, NEW t \in Threads, NEW i, CounterLoad(t, i)
  PROVE  SpinLockInv'
<1>1. Word \in Locs /\ Counter \in Locs
  BY DEF Locs
<1>2. /\ pc[t] = "load" /\ pc' = [pc EXCEPT ![t] = "store"]
      /\ Load(t, Counter, i, "relaxed")
      /\ read' = [read EXCEPT ![t] = mo[Counter][i].val]
      /\ rounds' = rounds
  BY DEF CounterLoad, Goto
<1>3. MemoryOK
  BY MemoryPart
<1>4. /\ MemoryOK' /\ mo' = mo /\ i \in DOMAIN mo[Counter]
      /\ \A u \in Threads \ {t} : view'[u] = view[u]
  BY <1>1, <1>2, <1>3, LoadKeepsMemory
<1>5. Holding(t)
  BY <1>2 DEF Holding
<1>6. i = Tail_(Counter)
  <2>1. view[t][Counter] = Tail_(Counter)
    BY <1>5 DEF SpinLockInv, NoDataRace
  <2>2. i \in view[t][Counter] .. Tail_(Counter)
    BY <1>2 DEF Load, Readable
  <2> QED BY <2>1, <2>2, <1>1, <1>3, LatestInDomain
<1>7. mo[Counter][i].val = i - 1
  BY <1>4 DEF SpinLockInv, NoLostUpdate
<1>8. /\ \A u \in Threads : Holding(u)' <=> Holding(u)
      /\ \A u \in Threads : pc'[u] = "store" => u = t \/ (u # t /\ pc[u] = "store")
  BY <1>2 DEF Holding, SpinLockInv, TypeOK
<1>9. TypeOK'
  <2>1. read' \in [Threads -> Int]
    BY <1>1, <1>2, <1>3, <1>6, <1>7, LatestInDomain DEF SpinLockInv, TypeOK
  <2> QED BY <1>2, <1>4, <2>1 DEF SpinLockInv, TypeOK, MemoryOK, PCs
<1>10. MutualExclusion'
  BY <1>8 DEF SpinLockInv, MutualExclusion
<1>11. NoDataRace'
  <2>1. view'[t][Counter] = Tail_(Counter)
    <3>1. view'[t] = [view[t] EXCEPT ![Counter] = i]
      BY <1>2, <1>3 DEF Load, ReadMsg, Acquires, MemoryOK
    <3> QED BY <3>1, <1>1, <1>3, <1>6 DEF MemoryOK, View
  <2> QED BY <2>1, <1>4, <1>8 DEF SpinLockInv, NoDataRace, Tail_
<1>12. NoLostUpdate'
  BY <1>4 DEF SpinLockInv, NoLostUpdate
<1>13. WordTracksHolder' /\ FreeWordPublishes'
  BY <1>4, <1>8 DEF SpinLockInv, WordTracksHolder, FreeWordPublishes, Latest, Tail_
<1>14. ReadIsFresh'
  <2>1. read'[t] = Tail_(Counter) - 1
    BY <1>2, <1>6, <1>7 DEF SpinLockInv, TypeOK
  <2>2. \A u \in Threads \ {t} : read'[u] = read[u]
    BY <1>2 DEF SpinLockInv, TypeOK
  <2> QED BY <2>1, <2>2, <1>4, <1>8 DEF SpinLockInv, ReadIsFresh, Tail_
<1> QED BY <1>4, <1>9, <1>10, <1>11, <1>12, <1>13, <1>14 DEF SpinLockInv, MemoryOK

(* The holder writes the successor of the newest value.                    *)
LEMMA CounterStorePreserves ==
  ASSUME SpinLockInv, NEW t \in Threads, CounterStore(t)
  PROVE  SpinLockInv'
<1>1. Word \in Locs /\ Counter \in Locs /\ Word # Counter
  BY DEF Locs, Word, Counter
<1>2. /\ pc[t] = "store" /\ pc' = [pc EXCEPT ![t] = "unlock"]
      /\ WriteMsg(t, Counter, read[t] + 1, "relaxed", view[t], NoView)
      /\ read' = read /\ rounds' = rounds
  BY DEF CounterStore, Goto, Store
<1>3. MemoryOK
  BY MemoryPart
<1>4. view[t] \in View /\ \A k \in Locs : view[t][k] \in 1 .. Tail_(k)
  BY <1>3 DEF MemoryOK, ViewsInMemory
<1>5. NoView \in View /\ \A k \in Locs : NoView[k] \in 1 .. Tail_(k)
  <2>1. \A k \in Locs : Tail_(k) \in Nat /\ Tail_(k) >= 1
    BY <1>3, LatestInDomain DEF MemoryOK, ViewsInMemory
  <2> QED BY <2>1 DEF NoView, View
<1>6. read[t] + 1 \in Int
  BY DEF SpinLockInv, TypeOK
<1>7. /\ MemoryOK'
      /\ Tail_(Counter)' = Tail_(Counter) + 1
      /\ mo'[Word] = mo[Word]
      /\ \A i \in 1 .. Tail_(Counter) : mo'[Counter][i] = mo[Counter][i]
      /\ DOMAIN mo'[Counter] = 1 .. Tail_(Counter) + 1
      /\ Latest(Counter)'.val = read[t] + 1
      /\ view'[t] = [view[t] EXCEPT ![Counter] = Tail_(Counter) + 1]
  BY SMTT(30), <1>1, <1>2, <1>3, <1>4, <1>5, <1>6, WriteKeepsMemory
<1>8. Holding(t)
  BY <1>2 DEF Holding
<1>9. \A u \in Threads : Holding(u)' <=> u = t
  BY <1>2, <1>8 DEF Holding, SpinLockInv, TypeOK, MutualExclusion
<1>10. \A u \in Threads : pc'[u] # "store"
  BY <1>2, <1>9 DEF Holding, SpinLockInv, TypeOK
<1>11. TypeOK'
  BY <1>2, <1>7 DEF SpinLockInv, TypeOK, MemoryOK, PCs
<1>12. MutualExclusion'
  BY <1>9 DEF MutualExclusion
<1>13. NoDataRace'
  <2>1. view'[t][Counter] = Tail_(Counter)'
    BY <1>1, <1>4, <1>7 DEF View
  <2> QED BY <2>1, <1>9 DEF NoDataRace
<1>14. NoLostUpdate'
  <2> SUFFICES ASSUME NEW i \in DOMAIN mo'[Counter]
               PROVE  mo'[Counter][i].val = i - 1
    BY DEF NoLostUpdate
  <2>1. Tail_(Counter) \in Nat /\ DOMAIN mo[Counter] = 1 .. Tail_(Counter)
    BY <1>1, <1>3, LatestInDomain
  <2>2. CASE i = Tail_(Counter) + 1
    <3>1. mo'[Counter][i].val = read[t] + 1
      BY <2>2, <1>7 DEF Latest
    <3>2. read[t] = Tail_(Counter) - 1
      BY <1>2 DEF SpinLockInv, ReadIsFresh
    <3> QED BY <3>1, <3>2, <2>1, <2>2
  <2>3. CASE i # Tail_(Counter) + 1
    <3>1. i \in DOMAIN mo[Counter] /\ mo'[Counter][i] = mo[Counter][i]
      BY <2>1, <2>3, <1>7
    <3> QED BY <3>1 DEF SpinLockInv, NoLostUpdate
  <2> QED BY <2>2, <2>3
<1>15. WordTracksHolder' /\ FreeWordPublishes'
  <2>1. Latest(Word)' = Latest(Word)
    BY <1>7 DEF Latest, Tail_
  <2>2. Latest(Word).val = kLocked
    BY <1>8 DEF SpinLockInv, WordTracksHolder
  <2> QED BY <2>1, <2>2, <1>9 DEF WordTracksHolder, FreeWordPublishes, kLocked, kFree
<1>16. ReadIsFresh'
  BY <1>10 DEF ReadIsFresh
<1> QED BY <1>7, <1>11, <1>12, <1>13, <1>14, <1>15, <1>16 DEF SpinLockInv, MemoryOK

(* The holder frees the word and publishes its view with it.               *)
LEMMA UnlockPreserves ==
  ASSUME SpinLockInv, NEW t \in Threads, Unlock(t)
  PROVE  SpinLockInv'
<1>1. Word \in Locs /\ Counter \in Locs /\ Word # Counter
  BY DEF Locs, Word, Counter
<1>2. /\ pc[t] = "unlock" /\ pc' = [pc EXCEPT ![t] = "idle"]
      /\ WriteMsg(t, Word, kFree, UnlockOrder, view[t], NoView)
      /\ read' = read /\ rounds' = rounds
  BY DEF Unlock, Goto, Store
<1>3. MemoryOK
  BY MemoryPart
<1>4. view[t] \in View /\ \A k \in Locs : view[t][k] \in 1 .. Tail_(k)
  BY <1>3 DEF MemoryOK, ViewsInMemory
<1>5. NoView \in View /\ \A k \in Locs : NoView[k] \in 1 .. Tail_(k)
  <2>1. \A k \in Locs : Tail_(k) \in Nat /\ Tail_(k) >= 1
    BY <1>3, LatestInDomain DEF MemoryOK, ViewsInMemory
  <2> QED BY <2>1 DEF NoView, View
<1>6. /\ MemoryOK'
      /\ mo'[Counter] = mo[Counter]
      /\ Latest(Word)'.val = kFree
      /\ Latest(Word)'.view[Counter] \in 1 .. Tail_(Counter)'
      /\ Latest(Word)'.view[Counter] >= view[t][Counter]
  <2>1. /\ kFree \in Int /\ UnlockOrder \in {"relaxed", "acquire", "release"}
        /\ UnlockOrder = "release" /\ Counter \in Locs \ {Word}
    BY <1>1 DEF kFree, UnlockOrder
  <2> DEFINE known == view[t]
  <2>5. /\ known \in View /\ WriteMsg(t, Word, kFree, UnlockOrder, known, NoView)
        /\ \A k \in Locs : known[k] \in 1 .. Tail_(k) /\ NoView[k] \in 1 .. Tail_(k)
    BY <1>2, <1>4, <1>5
  <2> HIDE DEF known
  <2>2. /\ MemoryOK'
        /\ \A k \in Locs \ {Word} : mo'[k] = mo[k]
        /\ \A k \in Locs : Latest(Word)'.view[k] \in 1 .. Tail_(k)'
        /\ UnlockOrder = "release" =>
             \A k \in Locs \ {Word} : Latest(Word)'.view[k] >= known[k]
    BY ZenonT(60), <2>1, <2>5, <1>1, <1>3, <1>5, WriteKeepsMemory
  <2>4. Latest(Word)'.val = kFree
    <3>1. PICK v : mo'[Word] = Append(mo[Word], [val |-> kFree, view |-> v])
      BY <1>1, <1>2, <1>3 DEF WriteMsg, MemoryOK
    <3>2. mo[Word] \in Seq(Message(Int))
      BY <1>1, <1>3 DEF MemoryOK
    <3> DEFINE m == [val |-> kFree, view |-> v]
    <3>3. m.val = kFree
      OBVIOUS
    <3> HIDE DEF m
    <3>4. mo'[Word][Len(mo'[Word])] = m
      BY <3>1, <3>2 DEF m
    <3> QED BY <3>3, <3>4 DEF Latest, Tail_
  <2> QED BY <2>1, <2>2, <2>4 DEF known
<1>7. Holding(t)
  BY <1>2 DEF Holding
<1>8. \A u \in Threads : ~Holding(u)'
  BY <1>2, <1>7 DEF Holding, SpinLockInv, TypeOK, MutualExclusion
<1>9. TypeOK'
  BY <1>2, <1>6 DEF SpinLockInv, TypeOK, MemoryOK, PCs
<1>10. MutualExclusion' /\ NoDataRace'
  BY <1>8 DEF MutualExclusion, NoDataRace
<1>11. NoLostUpdate'
  BY <1>6 DEF SpinLockInv, NoLostUpdate
<1>12. WordTracksHolder'
  BY <1>6, <1>8 DEF WordTracksHolder, kFree
<1>13. FreeWordPublishes'
  <2>1. view[t][Counter] = Tail_(Counter) /\ Tail_(Counter)' = Tail_(Counter)
    BY <1>6, <1>7 DEF SpinLockInv, NoDataRace, Tail_
  <2>2. Tail_(Counter) \in Nat
    BY <1>1, <1>3, LatestInDomain
  <2> QED BY <2>1, <2>2, <1>6 DEF FreeWordPublishes
<1>14. ReadIsFresh'
  BY <1>8 DEF ReadIsFresh, Holding
<1> QED BY <1>6, <1>9, <1>10, <1>11, <1>12, <1>13, <1>14 DEF SpinLockInv, MemoryOK

-----------------------------------------------------------------------------
(* Every step preserves the invariant.                                     *)
LEMMA NextPreserves == SpinLockInv /\ [Next]_vars => SpinLockInv'
<1> SUFFICES ASSUME SpinLockInv, [Next]_vars PROVE SpinLockInv'
  OBVIOUS
<1>1. ASSUME NEW t \in Threads, Lock(t) PROVE SpinLockInv'
  <2>1. /\ pc[t] = "idle" /\ pc' = [pc EXCEPT ![t] = "spin"]
        /\ UNCHANGED <<mo, view, sc, read, rounds>>
    BY <1>1 DEF Lock, Goto
  <2>2. /\ \A u \in Threads : Holding(u)' <=> Holding(u)
        /\ \A u \in Threads : pc'[u] = "store" => pc[u] = "store"
    BY <2>1 DEF Holding, SpinLockInv, TypeOK
  <2>3. TypeOK'
    BY <2>1 DEF SpinLockInv, TypeOK, PCs
  <2>4. ViewsInMemory' /\ NoLostUpdate' /\ FreeWordPublishes'
    BY <2>1 DEF SpinLockInv, ViewsInMemory, NoLostUpdate, FreeWordPublishes, Latest, Tail_
  <2>5. MutualExclusion' /\ NoDataRace' /\ WordTracksHolder' /\ ReadIsFresh'
    BY <2>1, <2>2 DEF SpinLockInv, MutualExclusion, NoDataRace, WordTracksHolder,
                      ReadIsFresh, Latest, Tail_
  <2> QED BY <2>3, <2>4, <2>5 DEF SpinLockInv
<1>2. ASSUME NEW t \in Threads, NEW i \in DOMAIN mo[Word], SpinLoad(t, i)
      PROVE  SpinLockInv'
  BY <1>2, OutsideLoadPreserves DEF SpinLoad, Goto, Holding
<1>3. ASSUME NEW t \in Threads, LockCasOk(t) PROVE SpinLockInv'
  BY <1>3, CasAcquirePreserves DEF LockCasOk, Goto, Holding
<1>4. ASSUME NEW t \in Threads, NEW i \in DOMAIN mo[Word], LockCasFail(t, i)
      PROVE  SpinLockInv'
  BY <1>4, OutsideLoadPreserves
     DEF LockCasFail, CasFail, CompareExchangeStrongFail, Goto, Holding
<1>5. ASSUME NEW t \in Threads, TryLockOk(t) PROVE SpinLockInv'
  BY <1>5, CasAcquirePreserves DEF TryLockOk, Goto, Holding
<1>6. ASSUME NEW t \in Threads, NEW i \in DOMAIN mo[Word], TryLockFail(t, i)
      PROVE  SpinLockInv'
  BY <1>6, OutsideLoadPreserves
     DEF TryLockFail, CasFail, CompareExchangeStrongFail, Goto, Holding
<1>7. ASSUME NEW t \in Threads, NEW i, CounterLoad(t, i) PROVE SpinLockInv'
  BY <1>7, CounterLoadPreserves
<1>8. ASSUME NEW t \in Threads, CounterStore(t) PROVE SpinLockInv'
  BY <1>8, CounterStorePreserves
<1>9. ASSUME NEW t \in Threads, Unlock(t) PROVE SpinLockInv'
  BY <1>9, UnlockPreserves
<1>10. CASE UNCHANGED vars
  BY <1>10 DEF vars, SpinLockInv, TypeOK, ViewsInMemory, MutualExclusion, NoDataRace,
       NoLostUpdate, WordTracksHolder, FreeWordPublishes, ReadIsFresh, Holding,
       Latest, Tail_
<1> QED BY <1>1, <1>2, <1>3, <1>4, <1>5, <1>6, <1>7, <1>8, <1>9, <1>10
        DEF Next, Step, Finished

-----------------------------------------------------------------------------
(* The invariant holds in every reachable state.                           *)
THEOREM InvariantHolds == Spec => []SpinLockInv
BY InitEstablishes, NextPreserves, PTL DEF Spec

(* The variables stay in their types.                                      *)
THEOREM TypeCorrect == Spec => []TypeOK
<1>1. SpinLockInv => TypeOK
  BY DEF SpinLockInv
<1> QED BY <1>1, InvariantHolds, PTL

(* lock(), try_lock() and unlock() exclude: at most one thread holds the   *)
(* lock, whatever the interleaving and the stale values loads return.      *)
THEOREM Exclusion == Spec => []MutualExclusion
<1>1. SpinLockInv => MutualExclusion
  BY DEF SpinLockInv
<1> QED BY <1>1, InvariantHolds, PTL

(* The release of unlock() and the acquire of the compare-exchange order   *)
(* the critical sections: plain data under the lock is never raced on.     *)
THEOREM DataRaceFreedom == Spec => []NoDataRace
<1>1. SpinLockInv => NoDataRace
  BY DEF SpinLockInv
<1> QED BY <1>1, InvariantHolds, PTL

(* Increments of the protected counter are never lost.                     *)
THEOREM CounterExact == Spec => []NoLostUpdate
<1>1. SpinLockInv => NoLostUpdate
  BY DEF SpinLockInv
<1> QED BY <1>1, InvariantHolds, PTL

-----------------------------------------------------------------------------
LEMMA HolderIs ==
  ASSUME SpinLockInv
  PROVE  /\ \A t \in Threads : Holding(t) => Holder = t
         /\ (\A t \in Threads : ~Holding(t)) => Holder = NoOwner
         /\ Latest(Word).val = kFree => \A t \in Threads : ~Holding(t)
<1>1. \A t \in Threads : Holding(t) => Holder = t
  BY DEF SpinLockInv, MutualExclusion, Holder
<1>2. (\A t \in Threads : ~Holding(t)) => Holder = NoOwner
  BY DEF Holder
<1>3. Latest(Word).val = kFree => \A t \in Threads : ~Holding(t)
  <2>1. (\E t \in Threads : Holding(t)) => Latest(Word).val = kLocked
    BY DEF SpinLockInv, WordTracksHolder
  <2>2. kLocked # kFree
    BY DEF kFree, kLocked
  <2> QED BY <2>1, <2>2
<1> QED BY <1>1, <1>2, <1>3

(* Every step is a step of the abstract lock, or leaves its owner alone.   *)
LEMMA StepRefines == SpinLockInv /\ SpinLockInv' /\ [Next]_vars => [AL!Next]_Holder
<1> SUFFICES ASSUME SpinLockInv, SpinLockInv', [Next]_vars PROVE [AL!Next]_Holder
  OBVIOUS
<1>1. ASSUME \A u \in Threads : Holding(u)' <=> Holding(u)
      PROVE  Holder' = Holder
  BY <1>1 DEF Holder
<1>2. ASSUME NEW t \in Threads, CasAcquire(t), pc' = [pc EXCEPT ![t] = "load"]
      PROVE  AL!Acquire(t)
  <2>1. Holder = NoOwner
    BY <1>2, HolderIs DEF CasAcquire, CompareExchangeOk
  <2>2. Holding(t)'
    BY <1>2 DEF Holding, SpinLockInv, TypeOK
  <2>3. Holder' = t
    BY <2>2 DEF Holder, SpinLockInv, MutualExclusion
  <2> QED BY <2>1, <2>3 DEF AL!Acquire
<1>3. ASSUME NEW t \in Threads, Unlock(t) PROVE AL!Release(t)
  <2>1. Holding(t) /\ Holder = t
    BY <1>3, HolderIs DEF Unlock, Goto, Holding
  <2>2. \A u \in Threads : ~Holding(u)'
    BY <1>3, <2>1 DEF Unlock, Goto, Holding, SpinLockInv, TypeOK, MutualExclusion
  <2>3. Holder' = NoOwner
    BY <2>2 DEF Holder
  <2> QED BY <2>1, <2>3 DEF AL!Release
<1>4. ASSUME NEW t \in Threads, NEW from \in PCs, NEW to \in PCs, Goto(t, from, to),
             from \in {"load", "store", "unlock"} <=> to \in {"load", "store", "unlock"}
      PROVE  Holder' = Holder
  <2>1. \A u \in Threads : Holding(u)' <=> Holding(u)
    BY <1>4 DEF Goto, Holding, SpinLockInv, TypeOK
  <2> QED BY <2>1, <1>1
<1>5. ASSUME NEW t \in Threads, Step(t) PROVE AL!Next \/ Holder' = Holder
  <2>1. CASE Lock(t)
    BY <2>1, <1>4 DEF Lock, PCs
  <2>2. ASSUME NEW i, SpinLoad(t, i) PROVE Holder' = Holder
    BY <2>2, <1>4 DEF SpinLoad, PCs
  <2>3. CASE LockCasOk(t)
    BY <2>3, <1>2 DEF LockCasOk, Goto, AL!Next
  <2>4. ASSUME NEW i, LockCasFail(t, i) PROVE Holder' = Holder
    BY <2>4, <1>4 DEF LockCasFail, PCs
  <2>5. CASE TryLockOk(t)
    BY <2>5, <1>2 DEF TryLockOk, Goto, AL!Next
  <2>6. ASSUME NEW i, TryLockFail(t, i) PROVE Holder' = Holder
    BY <2>6, <1>4 DEF TryLockFail, PCs
  <2>7. ASSUME NEW i, CounterLoad(t, i) PROVE Holder' = Holder
    BY <2>7, <1>4 DEF CounterLoad, PCs
  <2>8. CASE CounterStore(t)
    BY <2>8, <1>4 DEF CounterStore, PCs
  <2>9. CASE Unlock(t)
    BY <2>9, <1>3 DEF AL!Next
  <2> QED BY <1>5, <2>1, <2>2, <2>3, <2>4, <2>5, <2>6, <2>7, <2>8, <2>9 DEF Step
<1>6. CASE UNCHANGED vars
  BY <1>6, <1>1 DEF vars, Holding
<1> QED BY <1>5, <1>6 DEF Next, Finished

(* spin_lock implements the abstract lock: seen from its holder, only      *)
(* acquisitions of a free lock and releases by the owner happen.           *)
THEOREM ImplementsLock == Spec => ALSpec
<1>1. Init => AL!Init
  <2>1. Init => \A t \in Threads : ~Holding(t)
    BY DEF Init, Holding
  <2> QED BY <2>1 DEF AL!Init, Holder
<1> QED BY <1>1, InvariantHolds, StepRefines, PTL DEF Spec, ALSpec, AL!Spec
=============================================================================
