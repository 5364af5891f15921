------------------------ MODULE AtomicClientsProofs ------------------------
(***************************************************************************)
(* Proofs about the programs over std::atomic for any number of threads,   *)
(* however long the locks spin.                                            *)
(***************************************************************************)
EXTENDS AtomicClients, SequenceTheorems, TLAPS

(* The parts of TypeOK and ViewsPositive that speak of memory.             *)
MemoryOK ==
  /\ mo \in [Locs -> Seq(Message(Nat))]
  /\ view \in [Threads -> View]
  /\ sc \in View
  /\ ViewsPositive

-----------------------------------------------------------------------------
(* Joining two views yields the newer message of each location.            *)
LEMMA JoinCovers ==
  ASSUME NEW v \in View, NEW w \in View
  PROVE  /\ Join(v, w) \in View
         /\ \A l \in Locs : Join(v, w)[l] >= v[l] /\ Join(v, w)[l] >= w[l]
BY DEF Join, View

(* A message of the memory.                                                *)
LEMMA MessageOfMemory ==
  ASSUME MemoryOK, NEW l \in Locs, NEW i \in DOMAIN mo[l]
  PROVE  mo[l][i].val \in Nat /\ mo[l][i].view \in View /\ i \in Nat /\ i >= 1
<1>1. mo[l] \in Seq(Message(Nat))
  BY DEF MemoryOK
<1>2. i \in 1 .. Len(mo[l]) /\ mo[l][i] \in Message(Nat)
  BY <1>1, ElementOfSeq
<1> QED BY <1>2 DEF Message

(* The last message of a location.                                         *)
LEMMA LatestIs ==
  ASSUME MemoryOK, NEW l \in Locs
  PROVE  /\ Tail_(l) \in DOMAIN mo[l] /\ Tail_(l) \in Nat /\ Tail_(l) >= 1
         /\ DOMAIN mo[l] = 1 .. Tail_(l)
         /\ Latest(l) = mo[l][Tail_(l)]
         /\ Latest(l).val \in Nat /\ Latest(l).view \in View
<1>1. mo[l] \in Seq(Message(Nat)) /\ mo[l] # <<>>
  BY DEF MemoryOK, ViewsPositive
<1>2. Tail_(l) \in Nat /\ Tail_(l) >= 1 /\ DOMAIN mo[l] = 1 .. Tail_(l)
  BY <1>1, EmptySeq, LenProperties DEF Tail_
<1>3. Latest(l) = mo[l][Tail_(l)]
  BY DEF Latest
<1> QED BY <1>2, <1>3, MessageOfMemory

(* A load changes the reader's view only, and only forward; an acquiring   *)
(* load joins the view of what it read.                                    *)
LEMMA LoadKeeps ==
  ASSUME MemoryOK, NEW t \in Threads, NEW l \in Locs, NEW i, NEW o,
         Load(t, l, i, o)
  PROVE  /\ MemoryOK'
         /\ mo' = mo /\ sc' = sc
         /\ i \in DOMAIN mo[l] /\ i >= view[t][l]
         /\ o = "seq_cst" => i >= sc[l]
         /\ \A u \in Threads : u # t => view'[u] = view[u]
         /\ \A k \in Locs : view'[t][k] >= view[t][k]
         /\ Acquires(o) => \A k \in Locs : view'[t][k] >= mo[l][i].view[k]
<1> DEFINE seen == [view[t] EXCEPT ![l] = i]
           msg == mo[l][i].view
<1>1. /\ i \in view[t][l] .. Tail_(l) /\ (o = "seq_cst" => i >= sc[l])
      /\ mo' = mo /\ sc' = sc
      /\ view' = [view EXCEPT ![t] = IF Acquires(o) THEN Join(seen, msg) ELSE seen]
  BY DEF Load, Readable, ReadMsg
<1>2. view[t] \in View /\ \A k \in Locs : view[t][k] \in Nat /\ view[t][k] >= 1
  BY DEF MemoryOK, ViewsPositive, View
<1>3. i \in DOMAIN mo[l] /\ i \in Nat /\ i >= view[t][l]
  BY <1>1, <1>2, LatestIs
<1>4. msg \in View
  BY <1>3, MessageOfMemory
<1>5. seen \in View /\ \A k \in Locs : seen[k] \in Nat /\ seen[k] >= view[t][k]
  BY <1>2, <1>3 DEF View
<1>6. \A k \in Locs : msg[k] \in Nat
  BY <1>4 DEF View
<1>7. /\ view'[t] \in View
      /\ \A k \in Locs : view'[t][k] >= seen[k] /\ (Acquires(o) => view'[t][k] >= msg[k])
  <2>1. view'[t] = IF Acquires(o) THEN Join(seen, msg) ELSE seen
    BY <1>1 DEF MemoryOK
  <2> HIDE DEF seen, msg
  <2> QED BY <1>4, <1>5, <2>1, JoinCovers
<1>8. \A u \in Threads : u # t => view'[u] = view[u]
  BY <1>1 DEF MemoryOK
<1>9. view' \in [Threads -> View]
  BY <1>1, <1>7, <1>8 DEF MemoryOK
<1>10. \A k \in Locs : view'[t][k] \in Nat /\ view'[t][k] >= view[t][k] /\ view'[t][k] >= 1
  <2> HIDE DEF seen, msg
  <2> QED BY <1>2, <1>5, <1>7 DEF View
<1>11. MemoryOK'
  <2>1. \A u \in Threads, k \in Locs : view'[u][k] >= 1
    BY <1>8, <1>10 DEF MemoryOK, ViewsPositive
  <2> QED BY <1>1, <1>9, <2>1 DEF MemoryOK, ViewsPositive
<1> QED BY <1>1, <1>3, <1>7, <1>8, <1>10, <1>11

(* The modification order of l grows by the value v, and no other changes. *)
Grows(l, v) ==
  /\ \A k \in Locs : k # l => mo'[k] = mo[k]
  /\ DOMAIN mo'[l] = 1 .. Tail_(l) + 1 /\ Len(mo'[l]) = Tail_(l) + 1
  /\ \A i \in DOMAIN mo[l] : mo'[l][i] = mo[l][i]
  /\ mo'[l][Tail_(l) + 1].val = v

(* The writer t of a message to l knew of known, and what follows from it. *)
Knows(t, l, o, known) ==
  /\ Releases(o) => \A k \in Locs : k # l => mo'[l][Tail_(l) + 1].view[k] >= known[k]
  /\ \A u \in Threads : u # t => view'[u] = view[u]
  /\ \A k \in Locs : k # l => view'[t][k] = known[k]
  /\ view'[t][l] = Tail_(l) + 1
  /\ \A k \in Locs : k # l => sc'[k] = sc[k]
  /\ o = "seq_cst" => sc'[l] = Tail_(l) + 1

(* A write appends one message to one location; the writer knows what it   *)
(* knew and its own message, and a release message says what else it knew. *)
LEMMA WriteKeeps ==
  ASSUME MemoryOK, NEW t \in Threads, NEW l \in Locs, NEW v \in Nat, NEW o,
         NEW known \in View, \A k \in Locs : known[k] >= 1, NEW base \in View,
         WriteMsg(t, l, v, o, known, base)
  PROVE  MemoryOK' /\ Grows(l, v) /\ Knows(t, l, o, known)
<1> DEFINE n    == Tail_(l) + 1
           mine == [known EXCEPT ![l] = n]
           rel  == IF Releases(o) THEN mine ELSE [NoView EXCEPT ![l] = n]
           msg  == [val |-> v, view |-> Join(rel, base)]
<1>1. /\ mo' = [mo EXCEPT ![l] = Append(mo[l], msg)]
      /\ view' = [view EXCEPT ![t] = mine]
      /\ sc' = IF o = "seq_cst" THEN [sc EXCEPT ![l] = n] ELSE sc
  BY DEF WriteMsg
<1>2. n \in Nat /\ n >= 1
  BY LatestIs
<1>3. /\ mine \in View /\ \A k \in Locs : mine[k] >= 1
      /\ mine[l] = n /\ \A k \in Locs : k # l => mine[k] = known[k]
  BY <1>2 DEF View
<1>4. rel \in View /\ (Releases(o) => rel = mine)
  BY <1>2, <1>3 DEF View, NoView
<1>5. Join(rel, base) \in View /\ \A k \in Locs : Join(rel, base)[k] >= rel[k]
  <2> HIDE DEF rel
  <2> QED BY <1>4, JoinCovers
<1>6. msg \in Message(Nat) /\ msg.val = v /\ msg.view = Join(rel, base)
  <2> HIDE DEF rel
  <2> QED BY <1>5 DEF Message
<1> HIDE DEF msg, rel, mine, n
<1>7. /\ mo'[l] = Append(mo[l], msg) /\ \A k \in Locs : k # l => mo'[k] = mo[k]
      /\ mo[l] \in Seq(Message(Nat)) /\ Tail_(l) = Len(mo[l])
  BY <1>1 DEF MemoryOK, Tail_
<1>8. /\ mo'[l] \in Seq(Message(Nat)) /\ Len(mo'[l]) = n
      /\ \A i \in 1 .. Len(mo[l]) : mo'[l][i] = mo[l][i]
      /\ mo'[l][n] = msg
  BY <1>6, <1>7, AppendProperties DEF n
<1>9. Grows(l, v)
  <2>1. DOMAIN mo'[l] = 1 .. n /\ DOMAIN mo[l] = 1 .. Len(mo[l])
    BY <1>7, <1>8, LenProperties
  <2> QED BY <1>6, <1>7, <1>8, <2>1 DEF Grows, n
<1>10. Releases(o) => \A k \in Locs : k # l => mo'[l][n].view[k] >= known[k]
  BY <1>3, <1>4, <1>5, <1>6, <1>8
<1>11. /\ \A u \in Threads : u # t => view'[u] = view[u]
       /\ view'[t] = mine /\ view' \in [Threads -> View]
  BY <1>1, <1>3 DEF MemoryOK
<1>12. /\ sc' \in View
       /\ \A k \in Locs : k # l => sc'[k] = sc[k]
       /\ o = "seq_cst" => sc'[l] = n
  BY <1>1, <1>2 DEF MemoryOK, View
<1>13. MemoryOK'
  <2>1. mo' \in [Locs -> Seq(Message(Nat))]
    BY <1>1, <1>7, <1>8 DEF MemoryOK
  <2>2. \A k \in Locs : mo'[k] # <<>>
    <3>1. mo'[l] # <<>>
      BY <1>2, <1>8, EmptySeq
    <3> QED BY <1>7, <3>1 DEF MemoryOK, ViewsPositive
  <2>3. \A u \in Threads, k \in Locs : view'[u][k] >= 1
    BY <1>3, <1>11 DEF MemoryOK, ViewsPositive
  <2> QED BY <1>11, <1>12, <2>1, <2>2, <2>3 DEF MemoryOK, ViewsPositive
<1> QED BY <1>3, <1>9, <1>10, <1>11, <1>12, <1>13 DEF n, Knows

(* A store by a thread leaves what the thread knew of other locations.     *)
LEMMA StoreKeeps ==
  ASSUME MemoryOK, NEW t \in Threads, NEW l \in Locs, NEW v \in Nat, NEW o,
         Store(t, l, v, o)
  PROVE  /\ MemoryOK'
         /\ Grows(l, v)
         /\ Releases(o) =>
              \A k \in Locs : k # l => mo'[l][Tail_(l) + 1].view[k] >= view[t][k]
         /\ \A u \in Threads : u # t => view'[u] = view[u]
         /\ \A k \in Locs : k # l => view'[t][k] = view[t][k]
         /\ view'[t][l] = Tail_(l) + 1
         /\ \A k \in Locs : k # l => sc'[k] = sc[k]
         /\ o = "seq_cst" => sc'[l] = Tail_(l) + 1
<1>1. view[t] \in View /\ \A k \in Locs : view[t][k] >= 1
  BY DEF MemoryOK, ViewsPositive
<1>2. NoView \in View
  BY DEF NoView, View
<1>3. WriteMsg(t, l, v, o, view[t], NoView)
  BY DEF Store
<1>4. MemoryOK' /\ Grows(l, v) /\ Knows(t, l, o, view[t])
  BY SMTT(30), <1>1, <1>2, <1>3, WriteKeeps
<1> QED BY <1>4 DEF Knows

(* A read-modify-write that acquires knows what the message it replaced    *)
(* published.                                                              *)
LEMMA ReadModifyWriteKeeps ==
  ASSUME MemoryOK, NEW t \in Threads, NEW l \in Locs, NEW v \in Nat, NEW o,
         ReadModifyWrite(t, l, v, o)
  PROVE  /\ MemoryOK'
         /\ Grows(l, v)
         /\ \A u \in Threads : u # t => view'[u] = view[u]
         /\ \A k \in Locs : k # l => view'[t][k] >= view[t][k]
         /\ Acquires(o) => \A k \in Locs : k # l => view'[t][k] >= Latest(l).view[k]
         /\ \A k \in Locs : k # l => sc'[k] = sc[k]
<1> DEFINE base  == Latest(l).view
           known == IF Acquires(o) THEN Join(view[t], base) ELSE view[t]
<1>1. view[t] \in View /\ \A k \in Locs : view[t][k] \in Nat /\ view[t][k] >= 1
  BY DEF MemoryOK, ViewsPositive, View
<1>2. base \in View
  BY LatestIs
<1>3. WriteMsg(t, l, v, o, known, base)
  BY DEF ReadModifyWrite
<1> HIDE DEF base
<1>4. /\ known \in View
      /\ \A k \in Locs : known[k] >= view[t][k] /\ (Acquires(o) => known[k] >= base[k])
  BY <1>1, <1>2, JoinCovers
<1> HIDE DEF known
<1>5. \A k \in Locs : known[k] >= 1
  BY <1>1, <1>4 DEF View
<1>6. MemoryOK' /\ Grows(l, v) /\ Knows(t, l, o, known)
  BY <1>2, <1>3, <1>4, <1>5, WriteKeeps
<1> QED BY <1>4, <1>6 DEF base, Knows

-----------------------------------------------------------------------------
(* What a thread may call, program by program.                             *)
LEMMA BufferingCalls ==
  ASSUME prog = StoreBuffering, NEW t \in Threads, pc[t] \in DOMAIN prog[t]
  PROVE  /\ t = First \/ t = Second
         /\ \/ /\ pc[t] = 1 /\ ThisCall(t).fn = "assign" /\ ThisCall(t).val = 1
               /\ ThisCall(t).loc = IF t = First THEN "data" ELSE "flag"
            \/ /\ pc[t] = 2 /\ ThisCall(t).fn = "convert"
               /\ ThisCall(t).loc = IF t = First THEN "flag" ELSE "data"
<1>1. CASE t = First
  <2>1. prog[t] = <<[fn |-> "assign", loc |-> "data", val |-> 1],
                    [fn |-> "convert", loc |-> "flag"]>>
    BY <1>1, ThreadsAssumption DEF StoreBuffering
  <2>2. pc[t] \in {1, 2}
    BY <2>1
  <2> QED BY <1>1, <2>1, <2>2 DEF ThisCall
<1>2. CASE t = Second
  <2>1. prog[t] = <<[fn |-> "assign", loc |-> "flag", val |-> 1],
                    [fn |-> "convert", loc |-> "data"]>>
    BY <1>2, ThreadsAssumption DEF StoreBuffering
  <2>2. pc[t] \in {1, 2}
    BY <2>1
  <2> QED BY <1>2, <2>1, <2>2, ThreadsAssumption DEF ThisCall
<1>3. CASE t # First /\ t # Second
  <2>1. prog[t] = <<>>
    BY <1>3 DEF StoreBuffering
  <2> QED BY <2>1
<1> QED BY <1>1, <1>2, <1>3

LEMMA PassingCalls ==
  ASSUME NEW s \in StoreOrders, NEW c \in Orders, prog = MessagePassingBy(s, c),
         NEW t \in Threads, pc[t] \in DOMAIN prog[t]
  PROVE  \/ /\ t = First /\ pc[t] = 1 /\ ThisCall(t).fn = "store" /\ ThisCall(t).loc = "data"
            /\ ThisCall(t).val = 1 /\ ThisCall(t).order = "relaxed"
         \/ /\ t = First /\ pc[t] = 2 /\ ThisCall(t).fn = "store" /\ ThisCall(t).loc = "flag"
            /\ ThisCall(t).val = 1 /\ ThisCall(t).order = s
         \/ /\ t = Second /\ pc[t] = 1 /\ ThisCall(t).fn = "cas_strong" /\ ThisCall(t).loc = "flag"
            /\ ThisCall(t).val = 2 /\ ThisCall(t).order = c
         \/ /\ t = Second /\ pc[t] = 2 /\ ThisCall(t).fn = "load" /\ ThisCall(t).loc = "data"
            /\ ThisCall(t).order = "relaxed"
<1>1. CASE t = First
  <2>1. prog[t] = <<[fn |-> "store", loc |-> "data", val |-> 1, order |-> "relaxed"],
                    [fn |-> "store", loc |-> "flag", val |-> 1, order |-> s]>>
    BY <1>1, ThreadsAssumption DEF MessagePassingBy
  <2>2. pc[t] \in {1, 2}
    BY <2>1
  <2> QED BY <1>1, <2>1, <2>2 DEF ThisCall
<1>2. CASE t = Second
  <2>1. prog[t] = <<[fn |-> "cas_strong", loc |-> "flag", val |-> 2, order |-> c],
                    [fn |-> "load", loc |-> "data", order |-> "relaxed"]>>
    BY <1>2, ThreadsAssumption DEF MessagePassingBy
  <2>2. pc[t] \in {1, 2}
    BY <2>1
  <2> QED BY <1>2, <2>1, <2>2 DEF ThisCall
<1>3. CASE t # First /\ t # Second
  <2>1. prog[t] = <<>>
    BY <1>3 DEF MessagePassingBy
  <2> QED BY <2>1
<1> QED BY <1>1, <1>2, <1>3

LEMMA IncrementCalls ==
  ASSUME NEW o \in Orders, prog = IncrementingBy(o), NEW t \in Threads, pc[t] \in DOMAIN prog[t]
  PROVE  /\ ThisCall(t).fn = "increment" /\ ThisCall(t).loc = "data"
         /\ ThisCall(t).order = o
<1>1. prog[t] = <<[fn |-> "increment", loc |-> "data", order |-> o],
                  [fn |-> "increment", loc |-> "data", order |-> o]>>
  BY DEF IncrementingBy
<1>2. pc[t] \in {1, 2}
  BY <1>1
<1> QED BY <1>1, <1>2 DEF ThisCall

LEMMA RaceCalls ==
  ASSUME NEW o \in Orders, prog = RacingBy(o), NEW t \in Threads
  PROVE  /\ DOMAIN prog[t] = {1}
         /\ pc[t] = 1 => /\ ThisCall(t).fn = "exchange" /\ ThisCall(t).loc = "flag"
                         /\ ThisCall(t).val = 1 /\ ThisCall(t).order = o
<1>1. prog[t] = <<[fn |-> "exchange", loc |-> "flag", val |-> 1, order |-> o]>>
  BY DEF RacingBy
<1> QED BY <1>1 DEF ThisCall

(* The calls that count follow one another under the lock; looking and     *)
(* locking lead into them only by taking the lock.                         *)
FollowsIn(t) ==
  \/ /\ ThisCall(t).fn = "look" /\ ThisCall(t).loc = "flag"
     /\ pc[t] + 1 \in DOMAIN prog[t] /\ prog[t][pc[t] + 1].fn = "lock"
  \/ /\ ThisCall(t).fn = "lock" /\ ThisCall(t).loc = "flag"
     /\ pc[t] + 1 \in DOMAIN prog[t] /\ prog[t][pc[t] + 1].fn = "load"
     /\ ThisCall(t).otherwise \in Nat
     /\ ThisCall(t).otherwise \in DOMAIN prog[t]
          => prog[t][ThisCall(t).otherwise].fn \in {"look", "lock"}
  \/ /\ ThisCall(t).fn = "load" /\ ThisCall(t).loc = "data" /\ ThisCall(t).order = "relaxed"
     /\ pc[t] + 1 \in DOMAIN prog[t] /\ prog[t][pc[t] + 1].fn = "add_one"
  \/ /\ ThisCall(t).fn = "add_one" /\ ThisCall(t).loc = "data"
     /\ pc[t] + 1 \in DOMAIN prog[t] /\ prog[t][pc[t] + 1].fn = "store"
  \/ /\ ThisCall(t).fn = "store" /\ ThisCall(t).loc = "flag" /\ ThisCall(t).val = 0
     /\ ThisCall(t).order = "release" /\ pc[t] + 1 \notin DOMAIN prog[t]

LEMMA CountingIs ==
  ASSUME NEW S, NEW attempt \in Seq(S)
  PROVE  /\ DOMAIN Counting(attempt) = 1 .. Len(attempt) + 3
         /\ \A i \in 1 .. Len(attempt) : Counting(attempt)[i] = attempt[i]
         /\ Counting(attempt)[Len(attempt) + 1]
              = [fn |-> "load", loc |-> "data", order |-> "relaxed"]
         /\ Counting(attempt)[Len(attempt) + 2] = [fn |-> "add_one", loc |-> "data"]
         /\ Counting(attempt)[Len(attempt) + 3]
              = [fn |-> "store", loc |-> "flag", val |-> 0, order |-> "release"]
<1> DEFINE load    == [fn |-> "load", loc |-> "data", order |-> "relaxed"]
           add_one == [fn |-> "add_one", loc |-> "data"]
           store   == [fn |-> "store", loc |-> "flag", val |-> 0, order |-> "release"]
           rest    == <<load, add_one, store>>
           Calling == S \cup {load, add_one, store}
<1>1. Counting(attempt) = attempt \o rest
  BY DEF Counting
<1> HIDE DEF load, add_one, store
<1>2. /\ rest \in Seq(Calling) /\ Len(rest) = 3
      /\ rest[1] = load /\ rest[2] = add_one /\ rest[3] = store
  OBVIOUS
<1>3. attempt \in Seq(Calling) /\ Len(attempt) \in Nat
  OBVIOUS
<1> HIDE DEF rest, Calling
<1>4. /\ attempt \o rest \in Seq(Calling)
      /\ Len(attempt \o rest) = Len(attempt) + 3
      /\ \A i \in 1 .. Len(attempt) + 3 :
           (attempt \o rest)[i] = IF i <= Len(attempt) THEN attempt[i]
                                                      ELSE rest[i - Len(attempt)]
  <2>1. /\ attempt \o rest \in Seq(Calling)
        /\ Len(attempt \o rest) = Len(attempt) + Len(rest)
        /\ \A i \in 1 .. Len(attempt) + Len(rest) :
             (attempt \o rest)[i] = IF i <= Len(attempt) THEN attempt[i]
                                                        ELSE rest[i - Len(attempt)]
    BY <1>2, <1>3, ConcatProperties
  <2> QED BY <1>2, <2>1
<1>5. DOMAIN Counting(attempt) = 1 .. Len(attempt) + 3
  BY <1>1, <1>4, LenProperties
<1>6. \A i \in 1 .. Len(attempt) : Counting(attempt)[i] = attempt[i]
  BY <1>1, <1>3, <1>4
<1>7. \A j \in 1 .. 3 : Counting(attempt)[Len(attempt) + j] = rest[j]
  BY <1>1, <1>3, <1>4
<1> QED BY <1>2, <1>5, <1>6, <1>7 DEF load, add_one, store

LEMMA LockCalls ==
  ASSUME prog \in LockPrograms, NEW t \in Threads
  PROVE  /\ 1 \in DOMAIN prog[t] /\ prog[t][1].fn \in {"look", "lock"}
         /\ pc[t] \in DOMAIN prog[t] => FollowsIn(t)
<1> DEFINE load    == [fn |-> "load", loc |-> "data", order |-> "relaxed"]
           add_one == [fn |-> "add_one", loc |-> "data"]
           store   == [fn |-> "store", loc |-> "flag", val |-> 0, order |-> "release"]
           look    == [fn |-> "look", loc |-> "flag"]
           lock(k) == [fn |-> "lock", loc |-> "flag", otherwise |-> k]
<1>1. /\ DOMAIN TasLock = 1 .. 4 /\ TasLock[1] = lock(1)
      /\ TasLock[2] = load /\ TasLock[3] = add_one /\ TasLock[4] = store
  <2> DEFINE attempt == <<lock(1)>>
             Attempts == {lock(1)}
  <2>1. attempt \in Seq(Attempts) /\ Len(attempt) = 1 /\ attempt[1] = lock(1)
    OBVIOUS
  <2>2. TasLock = Counting(attempt)
    BY DEF TasLock
  <2> HIDE DEF attempt, Attempts
  <2>3. /\ DOMAIN TasLock = 1 .. Len(attempt) + 3
        /\ \A i \in 1 .. Len(attempt) : TasLock[i] = attempt[i]
        /\ TasLock[Len(attempt) + 1] = load
        /\ TasLock[Len(attempt) + 2] = add_one
        /\ TasLock[Len(attempt) + 3] = store
    BY <2>1, <2>2, CountingIs
  <2> QED BY <2>1, <2>3
<1>2. /\ DOMAIN TtasLock = 1 .. 5 /\ TtasLock[1] = look /\ TtasLock[2] = lock(1)
      /\ TtasLock[3] = load /\ TtasLock[4] = add_one /\ TtasLock[5] = store
  <2> DEFINE attempt == <<look, lock(1)>>
             Attempts == {look, lock(1)}
  <2>1. attempt \in Seq(Attempts) /\ Len(attempt) = 2 /\ attempt[1] = look /\ attempt[2] = lock(1)
    OBVIOUS
  <2>2. TtasLock = Counting(attempt)
    BY DEF TtasLock
  <2> HIDE DEF attempt, Attempts
  <2>3. /\ DOMAIN TtasLock = 1 .. Len(attempt) + 3
        /\ \A i \in 1 .. Len(attempt) : TtasLock[i] = attempt[i]
        /\ TtasLock[Len(attempt) + 1] = load
        /\ TtasLock[Len(attempt) + 2] = add_one
        /\ TtasLock[Len(attempt) + 3] = store
    BY <2>1, <2>2, CountingIs
  <2> QED BY <2>1, <2>3
<1>3. /\ DOMAIN TryLock = 1 .. 4 /\ TryLock[1] = lock(5)
      /\ TryLock[2] = load /\ TryLock[3] = add_one /\ TryLock[4] = store
  <2> DEFINE attempt == <<lock(5)>>
             Attempts == {lock(5)}
  <2>1. attempt \in Seq(Attempts) /\ Len(attempt) = 1 /\ attempt[1] = lock(5)
    OBVIOUS
  <2>2. TryLock = Counting(attempt)
    BY DEF TryLock
  <2> HIDE DEF attempt, Attempts
  <2>3. /\ DOMAIN TryLock = 1 .. Len(attempt) + 3
        /\ \A i \in 1 .. Len(attempt) : TryLock[i] = attempt[i]
        /\ TryLock[Len(attempt) + 1] = load
        /\ TryLock[Len(attempt) + 2] = add_one
        /\ TryLock[Len(attempt) + 3] = store
    BY <2>1, <2>2, CountingIs
  <2> QED BY <2>1, <2>3
<1>4. CASE prog[t] = TasLock
  <2>1. pc[t] \in DOMAIN prog[t] => pc[t] \in {1, 2, 3, 4}
    BY <1>1, <1>4
  <2> QED BY <1>1, <1>4, <2>1 DEF FollowsIn, ThisCall
<1>5. CASE prog[t] = TtasLock
  <2>1. pc[t] \in DOMAIN prog[t] => pc[t] \in {1, 2, 3, 4, 5}
    BY <1>2, <1>5
  <2> QED BY <1>2, <1>5, <2>1 DEF FollowsIn, ThisCall
<1>6. CASE prog[t] = TryLock
  <2>1. pc[t] \in DOMAIN prog[t] => pc[t] \in {1, 2, 3, 4}
    BY <1>3, <1>6
  <2> QED BY <1>3, <1>6, <2>1 DEF FollowsIn, ThisCall
<1> QED BY <1>4, <1>5, <1>6 DEF LockPrograms

(* Calls of every program are well typed.                                  *)
LEMMA CallTyped ==
  ASSUME TypeOK, NEW t \in Threads, pc[t] \in DOMAIN prog[t]
  PROVE  LET call == ThisCall(t) IN
         /\ call.fn \in {"look", "lock", "add_one"} => prog \in LockPrograms
         /\ call.fn \in {"assign", "convert", "store", "load", "exchange",
                         "cas_strong", "increment"} => call.loc \in Locs
         /\ call.fn \in {"assign", "store", "exchange", "cas_strong"} => call.val \in Nat
         /\ call.fn \in {"cas_strong", "increment"} => call.order \in Orders
         /\ call.fn = "lock" => call.otherwise \in Nat
<1>1. CASE prog = StoreBuffering
  BY <1>1, BufferingCalls DEF Locs
<1>2. CASE \E s \in StoreOrders, c \in Orders : prog = MessagePassingBy(s, c)
  BY <1>2, PassingCalls DEF Locs
<1>3. CASE \E o \in Orders : prog = IncrementingBy(o)
  BY <1>3, IncrementCalls DEF Locs
<1>4. CASE \E o \in Orders : prog = RacingBy(o)
  BY <1>4, RaceCalls DEF Locs
<1>5. CASE prog \in LockPrograms
  BY <1>5, LockCalls DEF Locs, FollowsIn
<1> QED BY <1>1, <1>2, <1>3, <1>4, <1>5 DEF TypeOK, Programs

-----------------------------------------------------------------------------
(* What every step leaves alone.                                           *)
Untouched(t) ==
  /\ prog' = prog
  /\ \A u \in Threads : u # t =>
       pc'[u] = pc[u] /\ got'[u] = got[u] /\ expected'[u] = expected[u]

(* A call that returns v.                                                  *)
Returned(t, v) ==
  /\ pc'[t] = pc[t] + 1
  /\ got'[t] \in Seq(Nat) /\ Len(got'[t]) = Len(got[t]) + 1
  /\ \A i \in 1 .. Len(got[t]) : got'[t][i] = got[t][i]
  /\ got'[t][Len(got[t]) + 1] = v

LEMMA ReturnKeeps ==
  ASSUME TypeOK, NEW t \in Threads, NEW v \in Nat, Returns(t, v),
         UNCHANGED <<expected, failure>>
  PROVE  /\ Untouched(t) /\ Returned(t, v)
         /\ prog' \in Programs /\ pc' \in [Threads -> Nat] /\ got' \in [Threads -> Seq(Nat)]
         /\ expected' \in [Threads -> Nat]
         /\ failure' \in [Threads -> {"none", "relaxed", "acquire", "seq_cst"}]
<1>1. /\ pc' = [pc EXCEPT ![t] = pc[t] + 1]
      /\ got' = [got EXCEPT ![t] = Append(got[t], v)]
      /\ prog' = prog /\ expected' = expected /\ failure' = failure
  BY DEF Returns
<1>2. got[t] \in Seq(Nat) /\ pc[t] \in Nat
  BY DEF TypeOK
<1>3. /\ Append(got[t], v) \in Seq(Nat) /\ Len(Append(got[t], v)) = Len(got[t]) + 1
      /\ \A i \in 1 .. Len(got[t]) : Append(got[t], v)[i] = got[t][i]
      /\ Append(got[t], v)[Len(got[t]) + 1] = v
  BY <1>2, AppendProperties
<1>4. got'[t] = Append(got[t], v) /\ got' \in [Threads -> Seq(Nat)]
  BY <1>1, <1>3 DEF TypeOK
<1>5. Untouched(t)
  BY <1>1 DEF Untouched, TypeOK
<1>6. Returned(t, v)
  BY <1>1, <1>2, <1>3, <1>4 DEF Returned, TypeOK
<1> QED BY SMTT(30), <1>1, <1>2, <1>4, <1>5, <1>6 DEF TypeOK

LEMMA OneResultMore ==
  ASSUME TypeOK, OneResultPerCall, NEW t \in Threads, NEW v, Untouched(t), Returned(t, v)
  PROVE  OneResultPerCall'
<1> SUFFICES ASSUME NEW u \in Threads PROVE Len(got'[u]) = pc'[u] - 1
  BY DEF OneResultPerCall
<1>1. Len(got[u]) = pc[u] - 1 /\ pc[u] \in Nat
  BY DEF OneResultPerCall, TypeOK
<1>2. CASE u = t
  BY SMTT(30), <1>1, <1>2 DEF Returned
<1>3. CASE u # t
  BY <1>1, <1>3 DEF Untouched
<1> QED BY <1>2, <1>3

LEMMA TypesGiveMemory == TypeOK /\ ViewsPositive => MemoryOK
BY DEF TypeOK, MemoryOK

LEMMA MemoryPart == ClientsInv => MemoryOK
BY TypesGiveMemory DEF ClientsInv

LEMMA TypesAgain ==
  ASSUME MemoryOK',
         prog' \in Programs, pc' \in [Threads -> Nat], got' \in [Threads -> Seq(Nat)],
         expected' \in [Threads -> Nat],
         failure' \in [Threads -> {"none", "relaxed", "acquire", "seq_cst"}]
  PROVE  TypeOK' /\ ViewsPositive'
BY DEF TypeOK, MemoryOK

(* Every step keeps the types, and leaves the other threads alone.         *)
LEMMA StepTypes ==
  ASSUME ClientsInv, NEW t \in Threads, Step(t)
  PROVE  TypeOK' /\ ViewsPositive' /\ Untouched(t)
<1>1. TypeOK /\ MemoryOK
  BY MemoryPart DEF ClientsInv
<1>2. ASSUME pc[t] \in DOMAIN prog[t], NEW v \in Nat, Returns(t, v),
             UNCHANGED <<expected, failure>>, MemoryOK'
      PROVE  TypeOK' /\ ViewsPositive' /\ Untouched(t)
  BY <1>1, <1>2, ReturnKeeps, TypesAgain
<1>3. CASE Assign(t)
  <2>1. ThisCall(t).loc \in Locs /\ ThisCall(t).val \in Nat /\ pc[t] \in DOMAIN prog[t]
    BY <1>1, <1>3, CallTyped DEF Assign, Calls, ThisCall
  <2>2. MemoryOK'
    BY <1>1, <1>3, <2>1, StoreKeeps DEF Assign
  <2> QED BY <1>2, <1>3, <2>1, <2>2 DEF Assign
<1>4. CASE StoreCall(t)
  <2>1. ThisCall(t).loc \in Locs /\ ThisCall(t).val \in Nat /\ pc[t] \in DOMAIN prog[t]
    BY <1>1, <1>4, CallTyped DEF StoreCall, Calls, ThisCall
  <2>2. MemoryOK'
    BY <1>1, <1>4, <2>1, StoreKeeps DEF StoreCall
  <2>3. Returns(t, 0) /\ UNCHANGED <<expected, failure>>
    BY <1>4 DEF StoreCall
  <2> QED BY SMTT(30), <1>2, <2>1, <2>2, <2>3
<1>5. CASE ExchangeCall(t)
  <2>1. ThisCall(t).loc \in Locs /\ ThisCall(t).val \in Nat /\ pc[t] \in DOMAIN prog[t]
    BY <1>1, <1>5, CallTyped DEF ExchangeCall, Calls, ThisCall
  <2>2. MemoryOK'
    BY <1>1, <1>5, <2>1, ReadModifyWriteKeeps DEF ExchangeCall, Exchange
  <2>3. Latest(ThisCall(t).loc).val \in Nat
    BY <1>1, <2>1, LatestIs
  <2>4. Returns(t, Latest(ThisCall(t).loc).val) /\ UNCHANGED <<expected, failure>>
    BY <1>5 DEF ExchangeCall
  <2> QED BY SMTT(30), <1>2, <2>1, <2>2, <2>3, <2>4
<1>6. CASE CasStrongOk(t)
  <2>1. ThisCall(t).loc \in Locs /\ ThisCall(t).val \in Nat /\ pc[t] \in DOMAIN prog[t]
    BY <1>1, <1>6, CallTyped DEF CasStrongOk, Calls, ThisCall
  <2>2. MemoryOK'
    BY <1>1, <1>6, <2>1, ReadModifyWriteKeeps DEF CasStrongOk, CompareExchangeOk
  <2>3. Returns(t, 1) /\ UNCHANGED <<expected, failure>>
    BY <1>6 DEF CasStrongOk
  <2> QED BY SMTT(30), <1>2, <2>1, <2>2, <2>3
<1>7. CASE CasWeakOk(t)
  <2>1. ThisCall(t).loc \in Locs /\ pc[t] \in DOMAIN prog[t]
    BY <1>1, <1>7, CallTyped DEF CasWeakOk, Calls, ThisCall
  <2>2. expected[t] + 1 \in Nat
    BY <1>1 DEF TypeOK
  <2>3. MemoryOK'
    BY <1>1, <1>7, <2>1, <2>2, ReadModifyWriteKeeps DEF CasWeakOk, CompareExchangeOk
  <2>4. Returns(t, 1) /\ UNCHANGED <<expected, failure>>
    BY <1>7 DEF CasWeakOk
  <2> QED BY SMTT(30), <1>2, <2>1, <2>3, <2>4
<1>8. CASE LockExchange(t)
  <2>1. ThisCall(t).otherwise \in Nat /\ pc[t] \in DOMAIN prog[t]
    BY <1>1, <1>8, CallTyped DEF LockExchange, Locking, Calls, ThisCall
  <2>2. MemoryOK'
    BY <1>1, <1>8, ReadModifyWriteKeeps DEF LockExchange, Locking, Exchange, Locs
  <2>3. CASE Returns(t, 1)
    BY <1>2, <1>8, <2>1, <2>2, <2>3 DEF LockExchange, Locking
  <2>4. CASE pc' = [pc EXCEPT ![t] = ThisCall(t).otherwise] /\ UNCHANGED <<prog, got>>
    <3>1. UNCHANGED <<expected, failure>>
      BY <1>8 DEF LockExchange, Locking
    <3>2. pc' \in [Threads -> Nat]
      BY <1>1, <2>1, <2>4 DEF TypeOK
    <3>3. TypeOK' /\ ViewsPositive'
      BY <1>1, <2>2, <2>4, <3>1, <3>2, TypesAgain DEF TypeOK
    <3> QED BY <1>1, <2>4, <3>1, <3>3 DEF Untouched, TypeOK
  <2> QED BY <1>8, <2>3, <2>4 DEF LockExchange, Locking
<1>9. CASE AddOne(t)
  <2>1. Calls(t, "add_one") /\ pc[t] \in DOMAIN prog[t] /\ prog \in LockPrograms
    BY <1>1, <1>9, CallTyped DEF AddOne, Calls, ThisCall
  <2>2. got[t][Len(got[t])] + 1 \in Nat
    <3>1. got[t] \in Seq(Nat) /\ got[t] # <<>>
      BY <1>1, <2>1 DEF ClientsInv, LockInv, TypeOK
    <3>2. Len(got[t]) \in 1 .. Len(got[t])
      BY <3>1, EmptySeq, LenProperties
    <3> QED BY <3>1, <3>2, ElementOfSeq
  <2>3. MemoryOK'
    BY <1>1, <1>9, <2>2, StoreKeeps DEF AddOne, Locs
  <2> QED BY <1>2, <1>9, <2>1, <2>3 DEF AddOne
<1>10. ASSUME NEW i, Convert(t, i) PROVE TypeOK' /\ ViewsPositive' /\ Untouched(t)
  <2>1. ThisCall(t).loc \in Locs /\ pc[t] \in DOMAIN prog[t]
    BY <1>1, <1>10, CallTyped DEF Convert, Calls, ThisCall
  <2>2. MemoryOK' /\ i \in DOMAIN mo[ThisCall(t).loc]
    BY <1>1, <1>10, <2>1, LoadKeeps DEF Convert
  <2>3. mo[ThisCall(t).loc][i].val \in Nat
    BY <1>1, <2>1, <2>2, MessageOfMemory
  <2>4. Returns(t, mo[ThisCall(t).loc][i].val) /\ UNCHANGED <<expected, failure>>
    BY <1>10 DEF Convert
  <2> QED BY SMTT(30), <1>2, <2>1, <2>2, <2>3, <2>4
<1>11. ASSUME NEW i, LoadCall(t, i) PROVE TypeOK' /\ ViewsPositive' /\ Untouched(t)
  <2>1. ThisCall(t).loc \in Locs /\ pc[t] \in DOMAIN prog[t]
    BY <1>1, <1>11, CallTyped DEF LoadCall, Calls, ThisCall
  <2>2. MemoryOK' /\ i \in DOMAIN mo[ThisCall(t).loc]
    BY <1>1, <1>11, <2>1, LoadKeeps DEF LoadCall
  <2>3. mo[ThisCall(t).loc][i].val \in Nat
    BY <1>1, <2>1, <2>2, MessageOfMemory
  <2>4. Returns(t, mo[ThisCall(t).loc][i].val) /\ UNCHANGED <<expected, failure>>
    BY <1>11 DEF LoadCall
  <2> QED BY SMTT(30), <1>2, <2>1, <2>2, <2>3, <2>4
<1>12. ASSUME NEW o \in Orders
       PROVE  CasFailureOrder(o) \in {"relaxed", "acquire", "seq_cst"}
  BY DEF Orders, CasFailureOrder
<1>13. ASSUME NEW v \in Nat, NEW f \in {"relaxed", "acquire", "seq_cst"}, MemoryOK',
              expected' = [expected EXCEPT ![t] = v], failure' = [failure EXCEPT ![t] = f],
              \/ Returns(t, 0)
              \/ UNCHANGED <<prog, pc, got>>
       PROVE  TypeOK' /\ ViewsPositive' /\ Untouched(t)
  <2>1. expected' \in [Threads -> Nat] /\ failure' \in [Threads -> {"none", "relaxed", "acquire", "seq_cst"}]
    BY <1>1, <1>13 DEF TypeOK
  <2>2. prog' \in Programs /\ pc' \in [Threads -> Nat] /\ got' \in [Threads -> Seq(Nat)]
    <3>1. CASE Returns(t, 0)
      <4>1. Append(got[t], 0) \in Seq(Nat)
        BY <1>1 DEF TypeOK
      <4> QED BY <1>1, <3>1, <4>1 DEF TypeOK, Returns
    <3> QED BY <1>1, <1>13, <3>1 DEF TypeOK
  <2>3. Untouched(t)
    BY <1>1, <1>13 DEF Untouched, TypeOK, Returns
  <2> QED BY <1>13, <2>1, <2>2, <2>3, TypesAgain
<1>14. ASSUME NEW i, CasStrongFail(t, i) PROVE TypeOK' /\ ViewsPositive' /\ Untouched(t)
  <2>1. ThisCall(t).loc \in Locs /\ ThisCall(t).order \in Orders /\ pc[t] \in DOMAIN prog[t]
    BY <1>1, <1>14, CallTyped DEF CasStrongFail, Calls, ThisCall
  <2>2. MemoryOK' /\ i \in DOMAIN mo[ThisCall(t).loc]
    BY <1>1, <1>14, <2>1, LoadKeeps DEF CasStrongFail, CompareExchangeStrongFail
  <2>3. mo[ThisCall(t).loc][i].val \in Nat
    BY <1>1, <2>1, <2>2, MessageOfMemory
  <2> QED BY <1>12, <1>13, <1>14, <2>1, <2>2, <2>3 DEF CasStrongFail
<1>15. ASSUME NEW i, CasWeakFail(t, i) PROVE TypeOK' /\ ViewsPositive' /\ Untouched(t)
  <2>1. ThisCall(t).loc \in Locs /\ ThisCall(t).order \in Orders /\ pc[t] \in DOMAIN prog[t]
    BY <1>1, <1>15, CallTyped DEF CasWeakFail, Calls, ThisCall
  <2>2. MemoryOK' /\ i \in DOMAIN mo[ThisCall(t).loc]
    BY <1>1, <1>15, <2>1, LoadKeeps DEF CasWeakFail, CompareExchangeWeakFail
  <2>3. mo[ThisCall(t).loc][i].val \in Nat
    BY <1>1, <2>1, <2>2, MessageOfMemory
  <2>4. UNCHANGED <<prog, pc, got>>
    BY <1>15 DEF CasWeakFail
  <2> QED BY <1>12, <1>13, <1>15, <2>1, <2>2, <2>3, <2>4 DEF CasWeakFail
<1>16. ASSUME NEW i, Look(t, i) PROVE TypeOK' /\ ViewsPositive' /\ Untouched(t)
  <2>1. pc[t] \in DOMAIN prog[t]
    BY <1>16 DEF Look, Calls
  <2>2. MemoryOK'
    BY <1>1, <1>16, LoadKeeps DEF Look, Locs
  <2>3. UNCHANGED <<expected, failure>>
    BY <1>16 DEF Look
  <2>4. CASE UNCHANGED <<prog, pc, got>>
    <3>1. TypeOK' /\ ViewsPositive'
      BY <1>1, <2>2, <2>3, <2>4, TypesAgain DEF TypeOK
    <3> QED BY <2>3, <2>4, <3>1 DEF Untouched
  <2> QED BY <1>2, <1>16, <2>1, <2>2, <2>3, <2>4 DEF Look
<1> QED
  BY <1>3, <1>4, <1>5, <1>6, <1>7, <1>8, <1>9, <1>10, <1>11, <1>14, <1>15, <1>16 DEF Step

-----------------------------------------------------------------------------
LEMMA GrowsOnly ==
  ASSUME MemoryOK, NEW l \in Locs, NEW w, Grows(l, w),
         NEW k \in Locs, NEW v, OnlyStores(k, v), k = l => w = v
  PROVE  OnlyStores(k, v)'
<1>1. CASE k # l
  BY <1>1 DEF OnlyStores, Grows
<1>2. CASE k = l
  <2>1. DOMAIN mo[l] = 1 .. Tail_(l) /\ Tail_(l) \in Nat
    BY LatestIs
  <2>2. \A i \in 1 .. Tail_(l) + 1 : i \in 1 .. Tail_(l) \/ i = Tail_(l) + 1
    BY <2>1
  <2> QED BY SMTT(30), <1>2, <2>1, <2>2 DEF OnlyStores, Grows
<1> QED BY <1>1, <1>2

LEMMA LatestGrown ==
  ASSUME MemoryOK, NEW l \in Locs, NEW v, Grows(l, v)
  PROVE  /\ Tail_(l)' = Tail_(l) + 1
         /\ Latest(l)' = mo'[l][Tail_(l) + 1] /\ Latest(l)'.val = v
         /\ \A k \in Locs : k # l => Tail_(k)' = Tail_(k) /\ Latest(k)' = Latest(k)
BY DEF Grows, Tail_, Latest

(* Storing and loading crosswise.                                          *)
LEMMA BufferingKeeps ==
  ASSUME ClientsInv, NEW t \in Threads, Step(t)
  PROVE  BufferingInv' /\ SeqCstAgrees'
<1>1. /\ TypeOK /\ MemoryOK /\ Untouched(t) /\ prog' = prog
      /\ First \in Threads /\ Second \in Threads /\ First # Second
  BY MemoryPart, StepTypes, ThreadsAssumption DEF ClientsInv, Untouched
<1> SUFFICES ASSUME prog = StoreBuffering PROVE BufferingInv' /\ SeqCstAgrees'
  BY <1>1 DEF BufferingInv, SeqCstAgrees
<1>2. OneResultPerCall /\ Assigned(First, "data") /\ Assigned(Second, "flag") /\ SeqCstAgrees
  BY DEF ClientsInv, BufferingInv
<1>3. \A u \in Threads : pc[u] \in Nat /\ got[u] \in Seq(Nat) /\ Len(got[u]) \in Nat
  BY <1>1 DEF TypeOK
<1>4. ASSUME NEW v \in Nat, Returned(t, v) PROVE OneResultPerCall'
  BY <1>1, <1>2, <1>4, OneResultMore
<1>5. "data" \in Locs /\ "flag" \in Locs
  BY DEF Locs
<1>6. CASE Assign(t)
  <2>1. pc[t] \in DOMAIN prog[t] /\ ThisCall(t).fn = "assign"
    BY <1>6 DEF Assign, Calls, ThisCall
  <2> DEFINE mine == IF t = First THEN "data" ELSE "flag"
  <2>2. /\ pc[t] = 1 /\ ThisCall(t).val = 1 /\ ThisCall(t).loc = mine
        /\ t = First \/ t = Second
    BY <2>1, BufferingCalls
  <2>3. Store(t, mine, 1, "seq_cst") /\ Returned(t, 1)
    BY <1>1, <1>6, <2>2, ReturnKeeps DEF Assign
  <2>4. mine \in Locs
    BY <1>5
  <2>5. /\ Grows(mine, 1) /\ sc'[mine] = Tail_(mine) + 1
        /\ \A k \in Locs : k # mine => sc'[k] = sc[k]
    BY <1>1, <2>3, <2>4, StoreKeeps
  <2>6. Tail_(mine) \in Nat /\ Tail_(mine) >= 1
    BY <1>1, <2>4, LatestIs
  <2>7. OnlyStores("data", 1)' /\ OnlyStores("flag", 1)'
    BY <1>1, <1>2, <1>5, <2>4, <2>5, GrowsOnly DEF Assigned
  <2>8. /\ pc'[First] >= 2 => sc'["data"] >= 2
        /\ pc'[Second] >= 2 => sc'["flag"] >= 2
    BY <1>1, <1>2, <1>5, <2>2, <2>5, <2>6 DEF Assigned, Untouched
  <2>9. SeqCstAgrees'
    <3>1. pc'[t] = 2
      BY <2>2, <2>3 DEF Returned
    <3>2. DOMAIN prog[t] = 1 .. 2
      BY <1>1, <2>2 DEF StoreBuffering
    <3>3. ~ Done(t)'
      BY <1>1, <3>1, <3>2 DEF Done
    <3> QED BY <2>2, <3>3 DEF SeqCstAgrees
  <2> QED BY <1>4, <2>3, <2>7, <2>8, <2>9 DEF BufferingInv, Assigned
<1>7. ASSUME NEW i, Convert(t, i) PROVE BufferingInv' /\ SeqCstAgrees'
  <2>1. pc[t] \in DOMAIN prog[t] /\ ThisCall(t).fn = "convert"
    BY <1>7 DEF Convert, Calls, ThisCall
  <2> DEFINE other == IF t = First THEN "flag" ELSE "data"
  <2>2. pc[t] = 2 /\ ThisCall(t).loc = other /\ (t = First \/ t = Second)
    BY <2>1, BufferingCalls
  <2>3. Load(t, other, i, "seq_cst") /\ Returns(t, mo[other][i].val)
        /\ UNCHANGED <<expected, failure>>
    BY <1>7, <2>2 DEF Convert
  <2>4. other \in Locs
    BY <1>5
  <2>5. mo' = mo /\ sc' = sc /\ i \in DOMAIN mo[other] /\ i >= sc[other]
    BY <1>1, <2>3, <2>4, LoadKeeps
  <2>6. mo[other][i].val \in Nat /\ i \in Nat
    BY <1>1, <2>4, <2>5, MessageOfMemory
  <2>7. Returned(t, mo[other][i].val)
    BY <1>1, <2>3, <2>6, ReturnKeeps
  <2>8. BufferingInv'
    <3>1. pc'[t] = 3
      BY <2>2, <2>7 DEF Returned
    <3>2. Assigned(First, "data")' /\ Assigned(Second, "flag")'
      BY <1>1, <1>2, <2>2, <2>5, <3>1 DEF Assigned, OnlyStores, Untouched
    <3> QED BY <1>4, <2>6, <2>7, <3>2 DEF BufferingInv
  <2>9. SeqCstAgrees'
    <3> DEFINE u == IF t = First THEN Second ELSE First
    <3> SUFFICES ASSUME Done(u)' PROVE got'[t][2] = 1
      BY <2>2 DEF SeqCstAgrees
    <3>1. u \in Threads /\ u # t
      BY <1>1, <2>2
    <3>2. DOMAIN prog[u] = 1 .. 2 /\ pc[u] = pc'[u]
      BY <1>1, <2>2, <3>1 DEF StoreBuffering, Untouched
    <3>3. pc[u] >= 2
      <4>1. pc[u] \notin 1 .. 2
        BY <1>1, <3>2 DEF Done
      <4>2. pc[u] >= 1 /\ pc[u] \in Nat
        BY <1>2, <1>3, <3>1 DEF OneResultPerCall
      <4> QED BY <4>1, <4>2
    <3>4. sc[other] >= 2 /\ OnlyStores(other, 1)
      BY <1>1, <1>2, <2>2, <3>3 DEF Assigned
    <3>5. mo[other][i].val = 1
      <4>1. sc[other] \in Nat
        BY <1>1, <2>4 DEF MemoryOK, View
      <4> HIDE DEF other
      <4>2. i >= 2
        BY <2>5, <2>6, <3>4, <4>1
      <4> QED BY <2>5, <3>4, <4>2 DEF OnlyStores
    <3>6. Len(got[t]) = 1
      <4>1. Len(got[t]) = pc[t] - 1
        BY <1>2 DEF OneResultPerCall
      <4>2. pc[t] = 2
        BY <2>2
      <4> QED BY <4>1, <4>2
    <3> QED BY <2>7, <3>5, <3>6 DEF Returned
  <2> QED BY <2>8, <2>9
<1>8. ASSUME NEW fn, Calls(t, fn) PROVE fn \in {"assign", "convert"}
  BY <1>8, BufferingCalls DEF Calls, ThisCall
<1>9. Assign(t) \/ \E i : Convert(t, i)
  <2>1. ~StoreCall(t) /\ ~ExchangeCall(t) /\ ~CasStrongOk(t) /\ ~CasWeakOk(t)
    BY <1>8 DEF StoreCall, ExchangeCall, CasStrongOk, CasWeakOk
  <2>2. ~LockExchange(t) /\ ~AddOne(t)
    BY <1>8 DEF LockExchange, Locking, AddOne
  <2>3. \A i : ~LoadCall(t, i) /\ ~CasStrongFail(t, i) /\ ~CasWeakFail(t, i) /\ ~Look(t, i)
    BY <1>8 DEF LoadCall, CasStrongFail, CasWeakFail, Look
  <2> QED BY <2>1, <2>2, <2>3 DEF Step
<1> QED BY <1>6, <1>7, <1>9

(* Publishing and finding out by a compare-exchange.                       *)
LEMMA PassingKeeps ==
  ASSUME ClientsInv, NEW t \in Threads, Step(t)
  PROVE  PassingInv' /\ FailureAcquires'
<1>1. /\ TypeOK /\ MemoryOK /\ Untouched(t) /\ prog' = prog
      /\ First \in Threads /\ Second \in Threads /\ First # Second
      /\ "data" \in Locs /\ "flag" \in Locs
  BY MemoryPart, StepTypes, ThreadsAssumption DEF ClientsInv, Untouched, Locs
<1> SUFFICES ASSUME NEW s \in StoreOrders, NEW c \in Orders, prog = MessagePassingBy(s, c)
             PROVE  /\ DataPublished(s, c)'
                    /\ Releases(s) /\ Acquires(c) /\ Done(Second)' /\ expected'[Second] = 1
                         => got'[Second][2] = 1
  BY <1>1 DEF PassingInv, FailureAcquires
<1>2. /\ DataPublished(s, c)
      /\ Releases(s) /\ Acquires(c) /\ Done(Second) /\ expected[Second] = 1
           => got[Second][2] = 1
  BY DEF ClientsInv, PassingInv, FailureAcquires
<1>3. /\ OneResultPerCall /\ OnlyStores("data", 1)
      /\ pc[First] >= 2 => view[First]["data"] >= 2
      /\ \A i \in DOMAIN mo["flag"] :
           mo["flag"][i].val = 1 /\ Releases(s) => mo["flag"][i].view["data"] >= 2
      /\ pc[Second] = 1 => expected[Second] = 0
      /\ pc[Second] >= 2 /\ expected[Second] = 1 /\ Releases(s) /\ Acquires(c)
           => view[Second]["data"] >= 2
  BY <1>2 DEF DataPublished
<1>4. DOMAIN prog[Second] = 1 .. 2
  BY <1>1 DEF MessagePassingBy
<1>5. \A u \in Threads : view[u]["data"] \in Nat /\ view[u]["flag"] \in Nat /\ pc[u] \in Nat
  BY <1>1 DEF MemoryOK, View, TypeOK
<1>6. ASSUME t = First PROVE got'[Second] = got[Second] /\ (Done(Second)' <=> Done(Second))
                             /\ expected'[Second] = expected[Second] /\ pc'[Second] = pc[Second]
  BY <1>1, <1>6 DEF Untouched, Done
<1>7. CASE StoreCall(t) /\ pc[t] = 1
  <2>1. pc[t] \in DOMAIN prog[t] /\ ThisCall(t).fn = "store"
    BY <1>7 DEF StoreCall, Calls, ThisCall
  <2>2. t = First /\ ThisCall(t).loc = "data" /\ ThisCall(t).val = 1 /\ ThisCall(t).order = "relaxed"
    BY <1>7, <2>1, PassingCalls
  <2>3. Store(t, "data", 1, "relaxed") /\ Returned(t, 0)
    BY <1>1, <1>7, <2>2, ReturnKeeps DEF StoreCall
  <2>4. /\ Grows("data", 1) /\ view'[t]["data"] = Tail_("data") + 1
        /\ \A u \in Threads : u # t => view'[u] = view[u]
    BY <1>1, <2>3, StoreKeeps
  <2>5. Tail_("data") \in Nat /\ Tail_("data") >= 1
    BY <1>1, LatestIs
  <2>6. OneResultPerCall' /\ OnlyStores("data", 1)'
    BY <1>1, <1>3, <2>3, <2>4, OneResultMore, GrowsOnly
  <2>7. mo'["flag"] = mo["flag"] /\ view'[First]["data"] >= 2 /\ view'[Second] = view[Second]
    BY <1>1, <2>2, <2>4, <2>5 DEF Grows
  <2> QED BY <1>2, <1>3, <1>6, <2>2, <2>6, <2>7 DEF DataPublished
<1>8. CASE StoreCall(t) /\ pc[t] # 1
  <2>1. pc[t] \in DOMAIN prog[t] /\ ThisCall(t).fn = "store"
    BY <1>8 DEF StoreCall, Calls, ThisCall
  <2>2. /\ t = First /\ pc[t] = 2 /\ ThisCall(t).loc = "flag"
        /\ ThisCall(t).val = 1 /\ ThisCall(t).order = s
    BY <1>8, <2>1, PassingCalls
  <2>3. Store(t, "flag", 1, s) /\ Returned(t, 0)
    BY <1>1, <1>8, <2>2, ReturnKeeps DEF StoreCall
  <2>4. /\ Grows("flag", 1) /\ view'[t]["data"] = view[t]["data"]
        /\ \A u \in Threads : u # t => view'[u] = view[u]
        /\ Releases(s) => mo'["flag"][Tail_("flag") + 1].view["data"] >= view[t]["data"]
    BY <1>1, <2>3, StoreKeeps
  <2>5. OneResultPerCall' /\ OnlyStores("data", 1)'
    BY <1>1, <1>3, <2>3, <2>4, OneResultMore, GrowsOnly
  <2>6. view[t]["data"] >= 2
    BY <1>3, <2>2
  <2>7. ASSUME Releases(s), NEW i \in DOMAIN mo'["flag"], mo'["flag"][i].val = 1
        PROVE  mo'["flag"][i].view["data"] >= 2
    <3>1. /\ DOMAIN mo["flag"] = 1 .. Tail_("flag") /\ Tail_("flag") \in Nat
          /\ DOMAIN mo'["flag"] = 1 .. Tail_("flag") + 1
      BY <1>1, <2>4, LatestIs DEF Grows
    <3>2. CASE i \in DOMAIN mo["flag"]
      BY <1>3, <2>4, <2>7, <3>2 DEF Grows
    <3>3. CASE i = Tail_("flag") + 1
      <4>1. mo'["flag"][i].view \in View
        <5>1. MemoryOK'
          BY <1>1, <2>3, StoreKeeps
        <5>2. mo'["flag"] \in Seq(Message(Nat)) /\ i \in 1 .. Len(mo'["flag"])
          BY <1>1, <2>7, <5>1, LenProperties DEF MemoryOK
        <5>3. mo'["flag"][i] \in Message(Nat)
          BY <5>2, ElementOfSeq
        <5> QED BY <5>3 DEF Message
      <4>2. mo'["flag"][i].view["data"] \in Nat
        BY <1>1, <4>1 DEF View
      <4> QED BY <1>1, <1>5, <2>4, <2>6, <2>7, <3>3, <4>2
    <3> QED BY <3>1, <3>2, <3>3
  <2>8. view'[First]["data"] >= 2 /\ view'[Second] = view[Second]
    BY <1>1, <2>2, <2>4, <2>6
  <2> QED BY <1>2, <1>3, <1>6, <2>2, <2>5, <2>7, <2>8 DEF DataPublished
<1>9. CASE CasStrongOk(t)
  <2>1. pc[t] \in DOMAIN prog[t] /\ ThisCall(t).fn = "cas_strong"
    BY <1>9 DEF CasStrongOk, Calls, ThisCall
  <2>2. /\ t = Second /\ pc[t] = 1 /\ ThisCall(t).loc = "flag"
        /\ ThisCall(t).val = 2 /\ ThisCall(t).order = c
    BY <2>1, PassingCalls
  <2>3. ReadModifyWrite(t, "flag", 2, c) /\ Returned(t, 1) /\ expected' = expected
    BY <1>1, <1>9, <2>2, ReturnKeeps DEF CasStrongOk, CompareExchangeOk
  <2>4. Grows("flag", 2) /\ \A u \in Threads : u # t => view'[u] = view[u]
    BY <1>1, <2>3, ReadModifyWriteKeeps
  <2>5. OneResultPerCall' /\ OnlyStores("data", 1)'
    BY <1>1, <1>3, <2>3, <2>4, OneResultMore, GrowsOnly
  <2>6. ASSUME Releases(s), NEW i \in DOMAIN mo'["flag"], mo'["flag"][i].val = 1
        PROVE  mo'["flag"][i].view["data"] >= 2
    <3>1. /\ DOMAIN mo["flag"] = 1 .. Tail_("flag") /\ Tail_("flag") \in Nat
          /\ DOMAIN mo'["flag"] = 1 .. Tail_("flag") + 1
      BY <1>1, <2>4, LatestIs DEF Grows
    <3>2. i # Tail_("flag") + 1
      BY <2>4, <2>6 DEF Grows
    <3>3. i \in DOMAIN mo["flag"]
      BY <3>1, <3>2
    <3> QED BY <1>3, <2>4, <2>6, <3>3 DEF Grows
  <2>7. pc'[Second] = 2 /\ expected'[Second] = 0 /\ ~Done(Second)'
    BY <1>1, <1>3, <1>4, <2>2, <2>3 DEF Returned, Done
  <2>8. pc'[First] = pc[First] /\ view'[First] = view[First]
    BY <1>1, <2>2, <2>4 DEF Untouched
  <2> QED BY <1>3, <2>5, <2>6, <2>7, <2>8 DEF DataPublished
<1>10. ASSUME NEW i, CasStrongFail(t, i)
       PROVE  DataPublished(s, c)' /\ ~Done(Second)'
  <2> DEFINE order == CasFailureOrder(c)
  <2>1. pc[t] \in DOMAIN prog[t] /\ ThisCall(t).fn = "cas_strong"
    BY <1>10 DEF CasStrongFail, Calls, ThisCall
  <2>2. t = Second /\ pc[t] = 1 /\ ThisCall(t).loc = "flag" /\ ThisCall(t).order = c
    BY <2>1, PassingCalls
  <2>3. /\ Load(t, "flag", i, order) /\ Returns(t, 0)
        /\ expected' = [expected EXCEPT ![t] = mo["flag"][i].val]
    BY <1>10, <2>2 DEF CasStrongFail, CompareExchangeStrongFail
  <2>4. /\ mo' = mo /\ i \in DOMAIN mo["flag"]
        /\ \A u \in Threads : u # t => view'[u] = view[u]
        /\ Acquires(order) => view'[t]["data"] >= mo["flag"][i].view["data"]
        /\ MemoryOK'
    BY <1>1, <2>3, LoadKeeps
  <2>5. Acquires(c) => Acquires(order)
    BY DEF Acquires, CasFailureOrder
  <2>6. pc' = [pc EXCEPT ![t] = 2] /\ got' = [got EXCEPT ![t] = Append(got[t], 0)]
    BY <1>1, <2>2, <2>3 DEF Returns, TypeOK
  <2>7. OneResultPerCall'
    <3>1. got[t] \in Seq(Nat) /\ Len(got[t]) = 0
      BY <1>1, <1>3, <2>2 DEF TypeOK, OneResultPerCall
    <3>2. Len(Append(got[t], 0)) = 1
      BY <3>1, AppendProperties
    <3>3. got'[t] = Append(got[t], 0) /\ pc'[t] = 2
      BY <1>1, <2>6 DEF TypeOK
    <3>4. \A u \in Threads : u # t => Len(got'[u]) = pc'[u] - 1
      BY <1>1, <1>3 DEF Untouched, OneResultPerCall
    <3> QED BY <3>2, <3>3, <3>4 DEF OneResultPerCall
  <2>8. OnlyStores("data", 1)' /\ pc'[Second] = 2 /\ expected'[Second] = mo["flag"][i].val
    BY <1>1, <1>3, <2>2, <2>3, <2>4, <2>6 DEF OnlyStores, TypeOK
  <2>9. pc'[First] = pc[First] /\ view'[First] = view[First]
    BY <1>1, <2>2, <2>4 DEF Untouched
  <2>10. expected'[Second] = 1 /\ Releases(s) /\ Acquires(c) => view'[Second]["data"] >= 2
    <3>1. mo["flag"][i].view["data"] \in Nat /\ view'[Second]["data"] \in Nat
      <4>1. mo["flag"][i].view \in View
        BY <1>1, <2>4, MessageOfMemory
      <4> QED BY <1>1, <2>4, <4>1 DEF MemoryOK, View
    <3>2. mo["flag"][i].val = 1 /\ Releases(s) => mo["flag"][i].view["data"] >= 2
      BY <1>3, <2>4
    <3>3. Acquires(c) => view'[Second]["data"] >= mo["flag"][i].view["data"]
      BY <2>2, <2>4, <2>5
    <3> QED BY <2>8, <3>1, <3>2, <3>3
  <2>11. ~Done(Second)'
    BY <1>1, <1>4, <2>8 DEF Done
  <2> QED BY SMTT(30), <1>3, <2>4, <2>7, <2>8, <2>9, <2>10, <2>11 DEF DataPublished
<1>11. ASSUME NEW i, LoadCall(t, i)
       PROVE  /\ DataPublished(s, c)'
              /\ Releases(s) /\ Acquires(c) /\ expected'[Second] = 1 => got'[Second][2] = 1
  <2>1. pc[t] \in DOMAIN prog[t] /\ ThisCall(t).fn = "load"
    BY <1>11 DEF LoadCall, Calls, ThisCall
  <2>2. t = Second /\ pc[t] = 2 /\ ThisCall(t).loc = "data" /\ ThisCall(t).order = "relaxed"
    BY <2>1, PassingCalls
  <2>3. /\ Load(t, "data", i, "relaxed") /\ Returns(t, mo["data"][i].val)
        /\ UNCHANGED <<expected, failure>>
    BY <1>11, <2>2 DEF LoadCall
  <2>4. /\ mo' = mo /\ i \in DOMAIN mo["data"] /\ i >= view[t]["data"]
        /\ \A u \in Threads : u # t => view'[u] = view[u]
        /\ view'[t]["data"] >= view[t]["data"] /\ MemoryOK'
    BY <1>1, <2>3, LoadKeeps
  <2>5. mo["data"][i].val \in Nat /\ i \in Nat /\ view'[t]["data"] \in Nat
    <3>1. mo["data"][i].val \in Nat /\ i \in Nat
      BY <1>1, <2>4, MessageOfMemory
    <3> QED BY <1>1, <2>4, <3>1 DEF MemoryOK, View
  <2>6. Returned(t, mo["data"][i].val)
    BY <1>1, <2>3, <2>5, ReturnKeeps
  <2>7. OneResultPerCall' /\ OnlyStores("data", 1)'
    BY <1>1, <1>3, <2>4, <2>6, OneResultMore DEF OnlyStores
  <2>8. pc'[First] = pc[First] /\ view'[First] = view[First] /\ expected'[Second] = expected[Second]
    BY <1>1, <2>2, <2>3, <2>4 DEF Untouched
  <2>9. pc'[Second] = 3
    BY <2>2, <2>6 DEF Returned
  <2>10. expected[Second] = 1 /\ Releases(s) /\ Acquires(c) => view[Second]["data"] >= 2
    BY <1>3, <2>2
  <2>11. expected[Second] = 1 /\ Releases(s) /\ Acquires(c) => view'[Second]["data"] >= 2
    BY <1>1, <1>5, <2>2, <2>4, <2>5, <2>10
  <2>12. DataPublished(s, c)'
    BY <1>3, <2>4, <2>7, <2>8, <2>9, <2>11 DEF DataPublished
  <2>13. expected[Second] = 1 /\ Releases(s) /\ Acquires(c) => mo["data"][i].val = 1
    BY <1>1, <1>3, <1>5, <2>2, <2>4, <2>5, <2>10 DEF OnlyStores
  <2>14. got'[Second][2] = mo["data"][i].val
    <3>1. Len(got[t]) = pc[t] - 1
      BY <1>3 DEF OneResultPerCall
    <3>2. Len(got[t]) = 1
      BY <2>2, <3>1
    <3> QED BY <2>2, <2>6, <3>2 DEF Returned
  <2> QED BY <2>8, <2>12, <2>13, <2>14
<1>12. ASSUME NEW fn, Calls(t, fn) PROVE fn \in {"store", "cas_strong", "load"}
  BY <1>12, PassingCalls DEF Calls, ThisCall
<1>13. StoreCall(t) \/ CasStrongOk(t) \/ \E i : CasStrongFail(t, i) \/ LoadCall(t, i)
  <2>1. ~Assign(t) /\ ~ExchangeCall(t) /\ ~CasWeakOk(t)
    BY <1>12 DEF Assign, ExchangeCall, CasWeakOk
  <2>2. ~LockExchange(t) /\ ~AddOne(t)
    BY <1>12 DEF LockExchange, Locking, AddOne
  <2>3. \A i : ~Convert(t, i) /\ ~CasWeakFail(t, i) /\ ~Look(t, i)
    BY <1>12 DEF Convert, CasWeakFail, Look
  <2> QED BY <2>1, <2>2, <2>3 DEF Step
<1> QED BY <1>7, <1>8, <1>9, <1>10, <1>11, <1>13

(* Counting by a compare-exchange loop: what is stored is one more than    *)
(* the last value, which is what was expected.                             *)
LEMMA IncrementsKeep ==
  ASSUME ClientsInv, NEW t \in Threads, Step(t)
  PROVE  IncrementsExact'
<1>1. /\ TypeOK /\ MemoryOK /\ prog' = prog /\ "data" \in Locs
  BY MemoryPart, StepTypes DEF ClientsInv, Untouched, Locs
<1> SUFFICES ASSUME NEW o \in Orders, prog = IncrementingBy(o)
             PROVE  \A i \in DOMAIN mo'["data"] : mo'["data"][i].val = i - 1
  BY <1>1 DEF IncrementsExact
<1>2. \A i \in DOMAIN mo["data"] : mo["data"][i].val = i - 1
  BY DEF ClientsInv, IncrementsExact
<1>3. CASE CasWeakOk(t)
  <2>1. pc[t] \in DOMAIN prog[t]
    BY <1>3 DEF CasWeakOk, Calls
  <2>2. ThisCall(t).loc = "data"
    BY <2>1, IncrementCalls
  <2>3. /\ ReadModifyWrite(t, "data", expected[t] + 1, ThisCall(t).order)
        /\ Latest("data").val = expected[t]
    BY <1>3, <2>2 DEF CasWeakOk, CompareExchangeOk
  <2>4. expected[t] + 1 \in Nat
    BY <1>1 DEF TypeOK
  <2>5. Grows("data", expected[t] + 1)
    BY <1>1, <2>3, <2>4, ReadModifyWriteKeeps
  <2>6. /\ DOMAIN mo["data"] = 1 .. Tail_("data") /\ Tail_("data") \in Nat
        /\ Latest("data").val = Tail_("data") - 1
    BY <1>1, <1>2, LatestIs
  <2>7. mo'["data"][Tail_("data") + 1].val = Tail_("data")
    BY <2>3, <2>5, <2>6 DEF Grows
  <2>8. ASSUME NEW i \in DOMAIN mo'["data"] PROVE mo'["data"][i].val = i - 1
    <3>1. i \in DOMAIN mo["data"] \/ i = Tail_("data") + 1
      BY <2>5, <2>6 DEF Grows
    <3>2. CASE i \in DOMAIN mo["data"]
      BY <1>2, <2>5, <3>2 DEF Grows
    <3>3. CASE i = Tail_("data") + 1
      BY <2>6, <2>7, <3>3
    <3> QED BY <3>1, <3>2, <3>3
  <2> QED BY <2>8
<1>4. ASSUME NEW i, CasWeakFail(t, i) PROVE mo' = mo
  BY <1>4 DEF CasWeakFail
<1>5. ASSUME NEW fn, Calls(t, fn) PROVE fn = "increment"
  BY <1>5, IncrementCalls DEF Calls, ThisCall
<1>6. CasWeakOk(t) \/ \E i : CasWeakFail(t, i)
  <2>1. ~Assign(t) /\ ~StoreCall(t) /\ ~ExchangeCall(t) /\ ~CasStrongOk(t)
    BY <1>5 DEF Assign, StoreCall, ExchangeCall, CasStrongOk
  <2>2. ~LockExchange(t) /\ ~AddOne(t)
    BY <1>5 DEF LockExchange, Locking, AddOne
  <2>3. \A i : ~Convert(t, i) /\ ~LoadCall(t, i) /\ ~CasStrongFail(t, i) /\ ~Look(t, i)
    BY <1>5 DEF Convert, LoadCall, CasStrongFail, Look
  <2> QED BY <2>1, <2>2, <2>3 DEF Step
<1> QED BY <1>2, <1>3, <1>4, <1>6

(* Exchanging the same value in: the first to do it wins.                  *)
LEMMA RaceKeeps ==
  ASSUME ClientsInv, NEW t \in Threads, Step(t)
  PROVE  RaceInv'
<1>1. /\ TypeOK /\ MemoryOK /\ Untouched(t) /\ prog' = prog /\ "flag" \in Locs
  BY MemoryPart, StepTypes DEF ClientsInv, Untouched, Locs
<1> SUFFICES ASSUME NEW o \in Orders, prog = RacingBy(o) PROVE RaceInv'
  BY <1>1 DEF RaceInv
<1>2. /\ OneResultPerCall /\ OnlyStores("flag", 1) /\ mo["flag"][1].val = 0
      /\ \/ Len(mo["flag"]) = 1 /\ \A u \in Threads : got[u] = <<>>
         \/ /\ Len(mo["flag"]) > 1
            /\ \E winner \in Threads :
                 /\ got[winner] # <<>>
                 /\ \A u \in Threads :
                      got[u] # <<>> => got[u][1] = IF u = winner THEN 0 ELSE 1
  BY DEF ClientsInv, RaceInv
<1>3. ExchangeCall(t)
  <2>1. ASSUME NEW fn, Calls(t, fn) PROVE fn = "exchange"
    BY <2>1, RaceCalls DEF Calls, ThisCall
  <2>2. ~Assign(t) /\ ~StoreCall(t) /\ ~CasWeakOk(t) /\ ~CasStrongOk(t)
    BY <2>1 DEF Assign, StoreCall, CasWeakOk, CasStrongOk
  <2>3. ~LockExchange(t) /\ ~AddOne(t)
    BY <2>1 DEF LockExchange, Locking, AddOne
  <2>4. \A i : ~Convert(t, i) /\ ~LoadCall(t, i) /\ ~CasStrongFail(t, i)
               /\ ~CasWeakFail(t, i) /\ ~Look(t, i)
    BY <2>1 DEF Convert, LoadCall, CasStrongFail, CasWeakFail, Look
  <2> QED BY <2>2, <2>3, <2>4 DEF Step
<1>4. pc[t] = 1 /\ ThisCall(t).loc = "flag" /\ ThisCall(t).val = 1
  <2>1. pc[t] \in DOMAIN prog[t]
    BY <1>3 DEF ExchangeCall, Calls
  <2> QED BY <2>1, RaceCalls
<1>5. ReadModifyWrite(t, "flag", 1, ThisCall(t).order)
  BY <1>3, <1>4 DEF ExchangeCall, Exchange
<1>6. Grows("flag", 1)
  BY <1>1, <1>5, ReadModifyWriteKeeps
<1>7. /\ Latest("flag").val \in Nat /\ Tail_("flag") \in Nat /\ Tail_("flag") >= 1
      /\ DOMAIN mo["flag"] = 1 .. Tail_("flag") /\ Tail_("flag") = Len(mo["flag"])
      /\ Latest("flag") = mo["flag"][Tail_("flag")]
  BY <1>1, LatestIs DEF Tail_
<1>8. Returned(t, Latest("flag").val)
  BY <1>1, <1>3, <1>4, <1>7, ReturnKeeps DEF ExchangeCall
<1>9. OneResultPerCall' /\ OnlyStores("flag", 1)'
  BY <1>1, <1>2, <1>6, <1>8, OneResultMore, GrowsOnly
<1>10. mo'["flag"][1].val = 0 /\ Len(mo'["flag"]) > 1
  BY SMTT(30), <1>2, <1>6, <1>7 DEF Grows
<1>11. got[t] = <<>> /\ got'[t] # <<>> /\ got'[t][1] = Latest("flag").val
  <2>1. got[t] \in Seq(Nat) /\ Len(got[t]) = 0
    BY <1>1, <1>2, <1>4 DEF TypeOK, OneResultPerCall
  <2>2. got'[t] \in Seq(Nat) /\ Len(got'[t]) = 1 /\ got'[t][1] = Latest("flag").val
    BY <1>8, <2>1 DEF Returned
  <2> QED BY <2>1, <2>2, EmptySeq
<1>12. \A u \in Threads : u # t => got'[u] = got[u]
  BY <1>1 DEF Untouched
<1>13. \E winner \in Threads :
         /\ got'[winner] # <<>>
         /\ \A u \in Threads :
              got'[u] # <<>> => got'[u][1] = IF u = winner THEN 0 ELSE 1
  <2>1. CASE Len(mo["flag"]) = 1 /\ \A u \in Threads : got[u] = <<>>
    <3>1. Latest("flag").val = 0
      BY <1>2, <1>7, <2>1
    <3>2. \A u \in Threads : got'[u] # <<>> => u = t
      BY <1>12, <2>1
    <3> QED BY <1>11, <3>1, <3>2
  <2>2. CASE ~(Len(mo["flag"]) = 1 /\ \A u \in Threads : got[u] = <<>>)
    <3>1. PICK winner \in Threads :
            /\ got[winner] # <<>>
            /\ \A u \in Threads :
                 got[u] # <<>> => got[u][1] = IF u = winner THEN 0 ELSE 1
      BY <1>2, <2>2
    <3>2. Latest("flag").val = 1
      <4>1. Len(mo["flag"]) > 1
        BY <1>2, <2>2
      <4> QED BY <1>2, <1>7, <4>1 DEF OnlyStores
    <3>3. winner # t
      BY <1>11, <3>1
    <3>4. got'[winner] # <<>>
      BY <1>12, <3>1, <3>3
    <3>5. \A u \in Threads : got'[u] # <<>> => got'[u][1] = IF u = winner THEN 0 ELSE 1
      BY <1>11, <1>12, <3>1, <3>2, <3>3
    <3> QED BY <3>4, <3>5
  <2> QED BY <2>1, <2>2
<1> QED BY <1>9, <1>10, <1>13 DEF RaceInv

(* LockInv and LockedCountExact of a lock program, in one.                 *)
LockFacts ==
  /\ \A u, w \in Threads : Owner(u) /\ Owner(w) => u = w
  /\ \A u \in Threads :
       Owner(u) => Latest("flag").val = 1 /\ view[u]["data"] >= Tail_("data")
  /\ \A u \in Threads :
       Calls(u, "add_one") => got[u] # <<>> /\ got[u][Len(got[u])] = Latest("data").val
  /\ Latest("flag").val = 0 => Latest("flag").view["data"] >= Tail_("data")
  /\ \A i \in DOMAIN mo["data"] : mo["data"][i].val = i - 1

(* What the steps of a lock program start from.                            *)
LEMMA LockStart ==
  ASSUME ClientsInv, NEW t \in Threads, Step(t), prog \in LockPrograms
  PROVE  /\ TypeOK /\ MemoryOK /\ MemoryOK' /\ Untouched(t) /\ prog' = prog /\ LockFacts
         /\ "flag" \in Locs /\ "data" \in Locs
         /\ Tail_("data") \in Nat /\ Tail_("flag") \in Nat
         /\ DOMAIN mo["data"] = 1 .. Tail_("data") /\ DOMAIN mo["flag"] = 1 .. Tail_("flag")
         /\ Latest("data").val = Tail_("data") - 1
         /\ Latest("flag").view["data"] \in Nat
         /\ \A u \in Threads : view[u]["data"] \in Nat /\ view'[u]["data"] \in Nat
<1>1. /\ TypeOK /\ MemoryOK /\ MemoryOK' /\ Untouched(t) /\ prog' = prog
      /\ "flag" \in Locs /\ "data" \in Locs
  BY MemoryPart, StepTypes, TypesGiveMemory DEF ClientsInv, Untouched, Locs, TypeOK, MemoryOK
<1>2. LockFacts
  BY DEF ClientsInv, LockInv, LockedCountExact, LockFacts
<1>3. /\ Tail_("data") \in Nat /\ Tail_("flag") \in Nat
      /\ DOMAIN mo["data"] = 1 .. Tail_("data") /\ DOMAIN mo["flag"] = 1 .. Tail_("flag")
      /\ Tail_("data") \in DOMAIN mo["data"] /\ Latest("data") = mo["data"][Tail_("data")]
      /\ Latest("flag").view \in View
  BY <1>1, LatestIs
<1>4. Latest("data").val = Tail_("data") - 1
  BY <1>2, <1>3 DEF LockFacts
<1>5. Latest("flag").view["data"] \in Nat
  BY <1>1, <1>3 DEF View
<1>6. \A u \in Threads : view[u]["data"] \in Nat /\ view'[u]["data"] \in Nat
  BY <1>1 DEF MemoryOK, View
<1> QED BY <1>1, <1>2, <1>3, <1>4, <1>5, <1>6

(* A step moves no other thread in or out of the lock.                     *)
LEMMA LockFrame ==
  ASSUME NEW t \in Threads, Untouched(t), NEW u \in Threads, u # t
  PROVE  /\ Owner(u)' <=> Owner(u)
         /\ Calls(u, "add_one")' <=> Calls(u, "add_one")
         /\ got'[u] = got[u]
BY DEF Untouched, Owner, Calls

(* The call a thread is at, before and after a step.                       *)
LEMMA OwnerCalls ==
  ASSUME NEW t \in Threads, pc[t] \in DOMAIN prog[t]
  PROVE  /\ Owner(t) <=> ThisCall(t).fn \in {"load", "add_one", "store"}
         /\ Calls(t, "add_one") <=> ThisCall(t).fn = "add_one"
BY DEF Owner, Calls, ThisCall

LEMMA OwnerAfter ==
  ASSUME NEW t \in Threads, NEW k, prog' = prog, pc'[t] = k
  PROVE  /\ Owner(t)' <=> k \in DOMAIN prog[t] /\ prog[t][k].fn \in {"load", "add_one", "store"}
         /\ Calls(t, "add_one")' <=> k \in DOMAIN prog[t] /\ prog[t][k].fn = "add_one"
BY DEF Owner, Calls

(* Looking takes nothing.                                                  *)
LEMMA LookKeeps ==
  ASSUME ClientsInv, NEW t \in Threads, Step(t), prog \in LockPrograms, NEW i, Look(t, i)
  PROVE  LockFacts'
<1>1. /\ TypeOK /\ MemoryOK /\ Untouched(t) /\ prog' = prog /\ LockFacts /\ "flag" \in Locs
  BY LockStart
<1>2. pc[t] \in DOMAIN prog[t] /\ ThisCall(t).fn = "look"
  BY DEF Look, Calls, ThisCall
<1>3. mo' = mo /\ \A u \in Threads : u # t => view'[u] = view[u]
  BY <1>1, LoadKeeps DEF Look
<1>4. ~Owner(t)' /\ ~Calls(t, "add_one")'
  <2>1. CASE Returns(t, 0)
    <3>1. pc'[t] = pc[t] + 1
      BY <1>1, <2>1 DEF Returns, TypeOK
    <3>2. pc[t] + 1 \in DOMAIN prog[t] => prog[t][pc[t] + 1].fn = "lock"
      BY <1>2, LockCalls DEF FollowsIn
    <3> QED BY <1>1, <3>1, <3>2, OwnerAfter
  <2>2. CASE UNCHANGED <<prog, pc, got>>
    <3>1. ~Owner(t) /\ ~Calls(t, "add_one")
      BY <1>2, OwnerCalls
    <3> QED BY <2>2, <3>1 DEF Owner, Calls
  <2> QED BY <2>1, <2>2 DEF Look
<1>5. \A u \in Threads : Owner(u)' => u # t /\ Owner(u)
  BY <1>1, <1>4, LockFrame
<1>6. \A u \in Threads : Calls(u, "add_one")' => u # t /\ Calls(u, "add_one") /\ got'[u] = got[u]
  BY <1>1, <1>4, LockFrame
<1> QED BY <1>1, <1>3, <1>5, <1>6 DEF LockFacts, Latest, Tail_

(* Exchanging takes the lock if it is free.                                *)
LEMMA LockExchangeKeeps ==
  ASSUME ClientsInv, NEW t \in Threads, Step(t), prog \in LockPrograms, LockExchange(t)
  PROVE  LockFacts'
<1>1. /\ TypeOK /\ MemoryOK /\ Untouched(t) /\ prog' = prog /\ LockFacts
      /\ "flag" \in Locs /\ "data" \in Locs
      /\ Tail_("data") \in Nat /\ Latest("flag").view["data"] \in Nat
      /\ \A u \in Threads : view[u]["data"] \in Nat /\ view'[u]["data"] \in Nat
  BY LockStart
<1>2. pc[t] \in DOMAIN prog[t] /\ ThisCall(t).fn = "lock"
  BY DEF LockExchange, Locking, Calls, ThisCall
<1>3. ReadModifyWrite(t, "flag", 1, "acquire")
  BY DEF LockExchange, Locking, Exchange
<1>4. /\ Grows("flag", 1)
      /\ \A u \in Threads : u # t => view'[u] = view[u]
      /\ view'[t]["data"] >= Latest("flag").view["data"]
  BY <1>1, <1>3, ReadModifyWriteKeeps DEF Acquires
<1>5. /\ Latest("flag")'.val = 1 /\ Latest("data")' = Latest("data")
      /\ Tail_("data")' = Tail_("data") /\ mo'["data"] = mo["data"]
  BY <1>1, <1>4, LatestGrown DEF Grows
<1>6. ~Calls(t, "add_one")' /\ (Owner(t)' => Latest("flag").val = 0)
  <2>1. CASE Latest("flag").val = 0 /\ Returns(t, 1)
    <3>1. pc'[t] = pc[t] + 1
      BY <1>1, <2>1 DEF Returns, TypeOK
    <3>2. prog[t][pc[t] + 1].fn = "load"
      BY <1>2, LockCalls DEF FollowsIn
    <3> QED BY <1>1, <2>1, <3>1, <3>2, OwnerAfter
  <2>2. CASE pc' = [pc EXCEPT ![t] = ThisCall(t).otherwise]
    <3>1. pc'[t] = ThisCall(t).otherwise
      BY <1>1, <2>2 DEF TypeOK
    <3>2. ThisCall(t).otherwise \in DOMAIN prog[t]
            => prog[t][ThisCall(t).otherwise].fn \in {"look", "lock"}
      BY <1>2, LockCalls DEF FollowsIn
    <3> QED BY <1>1, <3>1, <3>2, OwnerAfter
  <2> QED BY <2>1, <2>2 DEF LockExchange, Locking
<1>7. \A u \in Threads : u # t /\ Owner(u)' => Owner(u)
  BY <1>1, LockFrame
<1>8. \A u \in Threads : Calls(u, "add_one")' => Calls(u, "add_one") /\ got'[u] = got[u]
  BY <1>1, <1>6, LockFrame
<1>9. \A u, w \in Threads : Owner(u)' /\ Owner(w)' => u = w
  <2>1. CASE Owner(t)'
    <3>1. \A u \in Threads : ~Owner(u)
      BY <1>1, <1>6, <2>1 DEF LockFacts
    <3> QED BY <1>7, <3>1
  <2>2. CASE ~Owner(t)'
    BY <1>1, <1>7, <2>2 DEF LockFacts
  <2> QED BY <2>1, <2>2
<1>10. ASSUME NEW u \in Threads, Owner(u)' PROVE view'[u]["data"] >= Tail_("data")
  <2>1. CASE u = t
    <3>1. Latest("flag").view["data"] >= Tail_("data")
      BY <1>1, <1>6, <1>10, <2>1 DEF LockFacts
    <3> QED BY <1>1, <1>4, <2>1, <3>1
  <2>2. CASE u # t
    BY <1>1, <1>4, <1>7, <1>10, <2>2 DEF LockFacts
  <2> QED BY <2>1, <2>2
<1> QED BY <1>1, <1>5, <1>8, <1>9, <1>10 DEF LockFacts

(* Under the lock the count that is loaded is the last one.                *)
LEMMA LoadCallKeeps ==
  ASSUME ClientsInv, NEW t \in Threads, Step(t), prog \in LockPrograms, NEW i, LoadCall(t, i)
  PROVE  LockFacts'
<1>1. /\ TypeOK /\ MemoryOK /\ Untouched(t) /\ prog' = prog /\ LockFacts /\ "data" \in Locs
      /\ Tail_("data") \in Nat /\ DOMAIN mo["data"] = 1 .. Tail_("data")
      /\ \A u \in Threads : view[u]["data"] \in Nat /\ view'[u]["data"] \in Nat
  BY LockStart
<1>2. pc[t] \in DOMAIN prog[t] /\ ThisCall(t).fn = "load"
  BY DEF LoadCall, Calls, ThisCall
<1>3. /\ ThisCall(t).loc = "data" /\ ThisCall(t).order = "relaxed"
      /\ pc[t] + 1 \in DOMAIN prog[t] /\ prog[t][pc[t] + 1].fn = "add_one"
  BY <1>2, LockCalls DEF FollowsIn
<1>4. /\ Load(t, "data", i, "relaxed") /\ Returns(t, mo["data"][i].val)
      /\ UNCHANGED <<expected, failure>>
  BY <1>3 DEF LoadCall
<1>5. /\ mo' = mo /\ i \in DOMAIN mo["data"] /\ i >= view[t]["data"]
      /\ \A u \in Threads : u # t => view'[u] = view[u]
      /\ view'[t]["data"] >= view[t]["data"]
  BY <1>1, <1>4, LoadKeeps
<1>6. Owner(t) /\ Latest("flag").val = 1 /\ view[t]["data"] >= Tail_("data")
  BY <1>1, <1>2, OwnerCalls DEF LockFacts
<1>7. mo["data"][i].val = Latest("data").val /\ mo["data"][i].val \in Nat
  <2>1. i = Tail_("data")
    BY <1>1, <1>5, <1>6
  <2>2. mo["data"][i].val \in Nat
    BY <1>1, <1>5, MessageOfMemory
  <2> QED BY <2>1, <2>2 DEF Latest
<1>8. Returned(t, Latest("data").val)
  BY <1>1, <1>4, <1>7, ReturnKeeps
<1>9. got'[t] # <<>> /\ got'[t][Len(got'[t])] = Latest("data").val
  <2>1. got[t] \in Seq(Nat) /\ Len(got[t]) \in Nat
    BY <1>1 DEF TypeOK
  <2> QED BY <1>8, <2>1, EmptySeq DEF Returned
<1>10. \A u \in Threads : u # t => ~Owner(u)' /\ ~Calls(u, "add_one")'
  <2>1. \A u \in Threads : u # t => ~Owner(u) /\ ~Calls(u, "add_one")
    BY <1>1, <1>6 DEF LockFacts, Owner
  <2> QED BY <1>1, <2>1, LockFrame
<1>11. view'[t]["data"] >= Tail_("data")
  BY <1>1, <1>5, <1>6
<1>12. Tail_("data")' = Tail_("data") /\ Latest("data")' = Latest("data")
       /\ Latest("flag")' = Latest("flag")
  BY <1>5 DEF Tail_, Latest
<1> QED BY SMTT(30), <1>1, <1>5, <1>6, <1>9, <1>10, <1>11, <1>12 DEF LockFacts

(* What is stored under the lock is one more than the last count.          *)
LEMMA AddOneKeeps ==
  ASSUME ClientsInv, NEW t \in Threads, Step(t), prog \in LockPrograms, AddOne(t)
  PROVE  LockFacts'
<1>1. /\ TypeOK /\ MemoryOK /\ Untouched(t) /\ prog' = prog /\ LockFacts
      /\ "data" \in Locs /\ "flag" \in Locs
      /\ Tail_("data") \in Nat /\ DOMAIN mo["data"] = 1 .. Tail_("data")
      /\ Latest("data").val = Tail_("data") - 1
  BY LockStart
<1>2. pc[t] \in DOMAIN prog[t] /\ ThisCall(t).fn = "add_one"
  BY DEF AddOne, Calls, ThisCall
<1>3. prog[t][pc[t] + 1].fn = "store"
  BY <1>2, LockCalls DEF FollowsIn
<1>4. Owner(t) /\ Latest("flag").val = 1 /\ got[t][Len(got[t])] = Latest("data").val
  BY <1>1, <1>2, OwnerCalls DEF LockFacts
<1>5. Store(t, "data", Tail_("data"), "relaxed") /\ Returns(t, 0)
  <2>1. got[t][Len(got[t])] + 1 = Tail_("data")
    BY <1>1, <1>4
  <2> QED BY <2>1 DEF AddOne
<1>6. /\ Grows("data", Tail_("data")) /\ view'[t]["data"] = Tail_("data") + 1
  BY <1>1, <1>5, StoreKeeps
<1>7. /\ Tail_("data")' = Tail_("data") + 1
      /\ Latest("flag")' = Latest("flag")
  BY <1>1, <1>6, LatestGrown
<1>8. ~Calls(t, "add_one")'
  <2>1. pc'[t] = pc[t] + 1
    BY <1>1, <1>5 DEF Returns, TypeOK
  <2> QED BY <1>1, <1>3, <2>1, OwnerAfter
<1>9. \A u \in Threads : u # t => ~Owner(u)' /\ ~Calls(u, "add_one")'
  <2>1. \A u \in Threads : u # t => ~Owner(u) /\ ~Calls(u, "add_one")
    BY <1>1, <1>4 DEF LockFacts, Owner
  <2> QED BY <1>1, <2>1, LockFrame
<1>10. ASSUME NEW i \in DOMAIN mo'["data"] PROVE mo'["data"][i].val = i - 1
  <2>1. i \in DOMAIN mo["data"] \/ i = Tail_("data") + 1
    BY <1>1, <1>6 DEF Grows
  <2>2. CASE i \in DOMAIN mo["data"]
    BY SMTT(30), <1>1, <1>6, <2>2 DEF Grows, LockFacts
  <2>3. CASE i = Tail_("data") + 1
    BY <1>1, <1>6, <2>3 DEF Grows
  <2> QED BY <2>1, <2>2, <2>3
<1>11. view'[t]["data"] >= Tail_("data")'
  BY <1>1, <1>6, <1>7
<1> QED BY <1>4, <1>7, <1>8, <1>9, <1>10, <1>11 DEF LockFacts

(* Unlocking publishes the count.                                          *)
LEMMA StoreCallKeeps ==
  ASSUME ClientsInv, NEW t \in Threads, Step(t), prog \in LockPrograms, StoreCall(t)
  PROVE  LockFacts'
<1>1. /\ TypeOK /\ MemoryOK /\ MemoryOK' /\ Untouched(t) /\ prog' = prog /\ LockFacts
      /\ "data" \in Locs /\ "flag" \in Locs
      /\ Tail_("data") \in Nat
      /\ \A u \in Threads : view[u]["data"] \in Nat
  BY LockStart
<1>2. pc[t] \in DOMAIN prog[t] /\ ThisCall(t).fn = "store"
  BY DEF StoreCall, Calls, ThisCall
<1>3. /\ ThisCall(t).loc = "flag" /\ ThisCall(t).val = 0 /\ ThisCall(t).order = "release"
      /\ pc[t] + 1 \notin DOMAIN prog[t]
  BY <1>2, LockCalls DEF FollowsIn
<1>4. Owner(t) /\ view[t]["data"] >= Tail_("data")
  BY <1>1, <1>2, OwnerCalls DEF LockFacts
<1>5. Store(t, "flag", 0, "release") /\ Returns(t, 0)
  BY <1>3 DEF StoreCall
<1>6. /\ Grows("flag", 0)
      /\ mo'["flag"][Tail_("flag") + 1].view["data"] >= view[t]["data"]
  BY <1>1, <1>5, StoreKeeps DEF Releases
<1>7. /\ Latest("flag")' = mo'["flag"][Tail_("flag") + 1]
      /\ Tail_("data")' = Tail_("data") /\ mo'["data"] = mo["data"]
  BY <1>1, <1>6, LatestGrown DEF Grows
<1>8. \A u \in Threads : ~Owner(u)' /\ ~Calls(u, "add_one")'
  <2>1. pc'[t] = pc[t] + 1
    BY <1>1, <1>5 DEF Returns, TypeOK
  <2>2. ~Owner(t)' /\ ~Calls(t, "add_one")'
    BY <1>1, <1>3, <2>1, OwnerAfter
  <2>3. \A u \in Threads : u # t => ~Owner(u) /\ ~Calls(u, "add_one")
    BY <1>1, <1>4 DEF LockFacts, Owner
  <2> QED BY <1>1, <2>2, <2>3, LockFrame
<1>9. Latest("flag")'.view["data"] >= Tail_("data")'
  <2>1. Latest("flag")'.view["data"] \in Nat
    <3>1. Latest("flag")'.view \in View
      <4>1. mo'["flag"] \in Seq(Message(Nat)) /\ mo'["flag"] # <<>>
        BY <1>1 DEF MemoryOK, ViewsPositive
      <4>2. mo'["flag"][Len(mo'["flag"])] \in Message(Nat)
        <5>1. Len(mo'["flag"]) \in 1 .. Len(mo'["flag"])
          BY <4>1, EmptySeq, LenProperties
        <5> QED BY <4>1, <5>1, ElementOfSeq
      <4> QED BY <4>2 DEF Latest, Tail_, Message
    <3> QED BY <1>1, <3>1 DEF View
  <2> QED BY <1>1, <1>4, <1>6, <1>7, <2>1
<1> QED BY <1>1, <1>7, <1>8, <1>9 DEF LockFacts

LEMMA LockKeeps ==
  ASSUME ClientsInv, NEW t \in Threads, Step(t)
  PROVE  LockInv' /\ LockedCountExact'
<1>1. prog' = prog
  BY StepTypes DEF Untouched
<1> SUFFICES ASSUME prog \in LockPrograms PROVE LockFacts'
  BY SMTT(30), <1>1 DEF LockInv, LockedCountExact, LockFacts
<1>2. ASSUME NEW fn, Calls(t, fn) PROVE fn \in {"look", "lock", "load", "add_one", "store"}
  BY <1>2, LockCalls DEF Calls, ThisCall, FollowsIn
<1>3. StoreCall(t) \/ LockExchange(t) \/ AddOne(t) \/ \E i : LoadCall(t, i) \/ Look(t, i)
  <2>1. ~Assign(t) /\ ~ExchangeCall(t) /\ ~CasStrongOk(t) /\ ~CasWeakOk(t)
    BY <1>2 DEF Assign, ExchangeCall, CasStrongOk, CasWeakOk
  <2>2. \A i : ~Convert(t, i) /\ ~CasStrongFail(t, i) /\ ~CasWeakFail(t, i)
    BY <1>2 DEF Convert, CasStrongFail, CasWeakFail
  <2> QED BY <2>1, <2>2 DEF Step
<1> QED
  BY <1>3, LookKeeps, LockExchangeKeeps, LoadCallKeeps, AddOneKeeps, StoreCallKeeps

-----------------------------------------------------------------------------
LEMMA InitEstablishes == Init => ClientsInv
<1> SUFFICES ASSUME Init PROVE ClientsInv
  OBVIOUS
<1> DEFINE first == [val |-> 0, view |-> NoView]
<1>1. /\ mo = [l \in Locs |-> <<first>>] /\ view = [t \in Threads |-> NoView] /\ sc = NoView
      /\ prog \in Programs /\ pc = [t \in Threads |-> 1] /\ got = [t \in Threads |-> <<>>]
      /\ expected = [t \in Threads |-> 0] /\ failure = [t \in Threads |-> "none"]
  BY DEF Init, MemInit
<1>2. NoView \in View /\ \A l \in Locs : NoView[l] = 1
  BY DEF NoView, View
<1>3. first \in Message(Nat) /\ first.val = 0 /\ first.view = NoView
  BY <1>2 DEF Message
<1> HIDE DEF first
<1>4. /\ <<first>> \in Seq(Message(Nat)) /\ <<first>> # <<>> /\ Len(<<first>>) = 1
      /\ DOMAIN <<first>> = {1} /\ <<first>>[1] = first
  BY <1>3
<1>5. TypeOK /\ ViewsPositive
  <2>1. TypeOK
    BY <1>1, <1>2, <1>4 DEF TypeOK
  <2> QED BY <1>1, <1>2, <1>4, <2>1 DEF ViewsPositive
<1>6. \A l \in Locs : DOMAIN mo[l] = {1} /\ Len(mo[l]) = 1 /\ mo[l][1] = first
  BY <1>1, <1>4
<1>7. "data" \in Locs /\ "flag" \in Locs
  BY DEF Locs
<1>8. OneResultPerCall /\ \A l \in Locs : \A v : OnlyStores(l, v)
  BY <1>1, <1>6 DEF OneResultPerCall, OnlyStores
<1>9. First \in Threads /\ Second \in Threads
  BY ThreadsAssumption
<1>10. BufferingInv /\ SeqCstAgrees
  <2>1. BufferingInv
    BY <1>1, <1>7, <1>8, <1>9 DEF BufferingInv, Assigned
  <2>2. SeqCstAgrees
    <3> SUFFICES ASSUME prog = StoreBuffering PROVE ~Done(First)
      BY DEF SeqCstAgrees
    <3>1. DOMAIN prog[First] = 1 .. 2
      BY <1>9 DEF StoreBuffering
    <3> QED BY <1>1, <1>9, <3>1 DEF Done
  <2> QED BY <2>1, <2>2
<1>11. PassingInv /\ FailureAcquires
  <2>1. ASSUME NEW s \in StoreOrders, NEW c \in Orders PROVE DataPublished(s, c)
    BY <1>1, <1>3, <1>6, <1>7, <1>8, <1>9 DEF DataPublished
  <2>2. FailureAcquires
    BY <1>1, <1>9 DEF FailureAcquires
  <2> QED BY <2>1, <2>2 DEF PassingInv
<1>12. IncrementsExact
  BY <1>3, <1>6, <1>7 DEF IncrementsExact
<1>13. RaceInv
  BY <1>1, <1>3, <1>6, <1>7, <1>8 DEF RaceInv
<1>14. LockInv /\ LockedCountExact
  <2> SUFFICES ASSUME prog \in LockPrograms PROVE LockInv /\ LockedCountExact
    BY DEF LockInv, LockedCountExact
  <2>1. \A t \in Threads : ~Owner(t) /\ ~Calls(t, "add_one")
    <3>1. \A t \in Threads : pc[t] = 1 /\ prog[t][1].fn \in {"look", "lock"}
      BY <1>1, LockCalls
    <3> QED BY <3>1 DEF Owner, Calls
  <2>2. Latest("flag").view["data"] = 1 /\ Tail_("data") = 1
    BY <1>2, <1>3, <1>6, <1>7 DEF Latest, Tail_
  <2>3. \A i \in DOMAIN mo["data"] : mo["data"][i].val = i - 1
    BY <1>3, <1>6, <1>7
  <2> QED BY <2>1, <2>2, <2>3 DEF LockInv, LockedCountExact
<1> QED BY <1>5, <1>10, <1>11, <1>12, <1>13, <1>14 DEF ClientsInv

LEMMA NextPreserves == ClientsInv /\ [Next]_vars => ClientsInv'
<1> SUFFICES ASSUME ClientsInv, [Next]_vars PROVE ClientsInv'
  OBVIOUS
<1>1. CASE UNCHANGED vars
  <2> USE <1>1 DEF vars
  <2>1. TypeOK' /\ ViewsPositive'
    BY DEF ClientsInv, TypeOK, ViewsPositive
  <2>2. BufferingInv' /\ SeqCstAgrees'
    BY DEF ClientsInv, BufferingInv, SeqCstAgrees, OneResultPerCall, Assigned, OnlyStores, Done
  <2>3. PassingInv' /\ FailureAcquires'
    BY DEF ClientsInv, PassingInv, FailureAcquires, DataPublished, OneResultPerCall, OnlyStores, Done
  <2>4. IncrementsExact' /\ RaceInv'
    BY DEF ClientsInv, IncrementsExact, RaceInv, OneResultPerCall, OnlyStores
  <2>5. LockInv' /\ LockedCountExact'
    BY DEF ClientsInv, LockInv, LockedCountExact, Owner, Calls, Latest, Tail_
  <2> QED BY <2>1, <2>2, <2>3, <2>4, <2>5 DEF ClientsInv
<1>2. CASE \E t \in Threads : Step(t)
  BY <1>2, StepTypes, BufferingKeeps, PassingKeeps, IncrementsKeep, RaceKeeps, LockKeeps DEF ClientsInv
<1> QED BY <1>1, <1>2 DEF Next, Finished

(* What is said of std::atomic's users holds in every state.               *)
THEOREM InvariantHolds == Spec => []ClientsInv
<1>1. Init => ClientsInv
  BY InitEstablishes
<1>2. ClientsInv /\ [Next]_vars => ClientsInv'
  BY NextPreserves
<1> QED BY <1>1, <1>2, PTL DEF Spec

(* Every value, view and result has its type.                              *)
THEOREM TypeCorrect == Spec => []TypeOK
<1>1. ClientsInv => TypeOK
  BY DEF ClientsInv
<1> QED BY <1>1, InvariantHolds, PTL

(* Assignment and conversion of atomic objects are seq_cst: of two threads *)
(* that assign one and read the other, one sees the other's assignment.    *)
THEOREM StoresAreSeen == Spec => []SeqCstAgrees
<1>1. ClientsInv => SeqCstAgrees
  BY DEF ClientsInv
<1> QED BY <1>1, InvariantHolds, PTL

(* The failure order that __cas_failure_order derives acquires whenever    *)
(* the order it is derived from does.                                      *)
THEOREM FailedExchangeAcquires == Spec => []FailureAcquires
<1>1. ClientsInv => FailureAcquires
  BY DEF ClientsInv
<1> QED BY <1>1, InvariantHolds, PTL

(* Loops over compare_exchange_weak lose no increment, whatever the number *)
(* of threads and the order they pass.                                     *)
THEOREM NoIncrementIsLost == Spec => []IncrementsExact
<1>1. ClientsInv => IncrementsExact
  BY DEF ClientsInv
<1> QED BY <1>1, InvariantHolds, PTL

LEMMA RaceWon == ClientsInv => OneWinner
<1> SUFFICES ASSUME ClientsInv, NEW o \in Orders, prog = RacingBy(o),
                    \A t \in Threads : Done(t)
             PROVE  \E winner \in Threads :
                      \A t \in Threads : got[t][1] = IF t = winner THEN 0 ELSE 1
  BY DEF OneWinner
<1>1. ASSUME NEW t \in Threads PROVE got[t] # <<>>
  <2>1. pc[t] # 1
    <3>1. DOMAIN prog[t] = {1}
      BY RaceCalls
    <3> QED BY <3>1 DEF Done
  <2>2. Len(got[t]) = pc[t] - 1 /\ pc[t] \in Nat
    BY DEF ClientsInv, RaceInv, OneResultPerCall, TypeOK
  <2>3. Len(got[t]) # 0
    BY <2>1, <2>2
  <2> QED BY <2>3, EmptySeq
<1>2. First \in Threads
  BY ThreadsAssumption
<1>3. ~(\A t \in Threads : got[t] = <<>>)
  BY <1>1, <1>2
<1>4. PICK winner \in Threads :
        \A t \in Threads : got[t] # <<>> => got[t][1] = IF t = winner THEN 0 ELSE 1
  BY <1>3 DEF ClientsInv, RaceInv
<1> QED BY <1>1, <1>4

(* Of all threads that exchange the same value in, one alone gets the old. *)
THEOREM ElectionIsUnique == Spec => []OneWinner
<1> QED BY RaceWon, InvariantHolds, PTL

(* The locks built on exchange let one thread in at a time, and it sees    *)
(* what the last one counted, however long the others spin.                *)
THEOREM ExchangeLocksCount == Spec => []LockedCountExact
<1>1. ClientsInv => LockedCountExact
  BY DEF ClientsInv
<1> QED BY <1>1, InvariantHolds, PTL
=============================================================================
