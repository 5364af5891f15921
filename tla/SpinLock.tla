------------------------------ MODULE SpinLock ------------------------------
(***************************************************************************)
(* dux::spin_lock (include/dux/spin_lock.h), a test-and-test-and-set lock  *)
(* over std::atomic<int>, and std::lock_guard clients that increment a     *)
(* plain counter while they hold it (tests/spin_lock_test.cpp).            *)
(*                                                                         *)
(* Both the lock word and the counter live in the memory of module Atomic, *)
(* so the counter is protected only as far as the memory orders the lock   *)
(* passes to its atomic operations protect it.                             *)
(***************************************************************************)
EXTENDS Integers, Sequences

CONSTANTS Threads,
          NoOwner,
          MaxRounds     \* bound: critical sections a thread may enter

ASSUME NoOwnerAssumption == NoOwner \notin Threads

ASSUME RoundsAssumption == MaxRounds \in Nat

kFree == 0

kLocked == 1

Word == "word"          \* spin_lock::_M_value

Counter == "counter"    \* the client's data, accessed without atomics

Locs == {Word, Counter}

VARIABLES mo, view, sc,
          pc,       \* pc[t]: the next step of t
          read,     \* read[t]: the counter as t read it in its critical section
          rounds    \* rounds[t]: critical sections t has entered

INSTANCE Atomic WITH InitVal <- kFree

vars == <<mo, view, sc, pc, read, rounds>>

PCs == {"idle", "spin", "cas", "load", "store", "unlock"}

Holding(t) == pc[t] \in {"load", "store", "unlock"}

Waiting(t) == pc[t] \in {"spin", "cas"}

Init ==
  /\ MemInit
  /\ pc = [t \in Threads |-> "idle"]
  /\ read = [t \in Threads |-> 0]
  /\ rounds = [t \in Threads |-> 0]

Goto(t, from, to) ==
  /\ pc[t] = from
  /\ pc' = [pc EXCEPT ![t] = to]

-----------------------------------------------------------------------------
(* The constructor of lock_guard calls lock().                             *)
Lock(t) ==
  /\ Goto(t, "idle", "spin")
  /\ rounds[t] < MaxRounds
  /\ UNCHANGED <<mo, view, sc, read, rounds>>

(* while (_M_value.load(relaxed) == kLocked) cpu_relax();                  *)
SpinLoad(t, i) ==
  /\ Load(t, Word, i, "relaxed")
  /\ Goto(t, "spin", IF mo[Word][i].val = kLocked THEN "spin" ELSE "cas")
  /\ UNCHANGED <<read, rounds>>

(* A seeded bug: the order of the compare-exchange is weakened.            *)
CasOrderRelaxed == "relaxed"

CasOrder == "acquire"

(* A seeded bug: a load and a store in place of the compare-exchange.      *)
CasAcquireUnchecked(t) ==
  /\ Store(t, Word, kLocked, CasOrder)
  /\ rounds' = [rounds EXCEPT ![t] = @ + 1]
  /\ UNCHANGED read

CasAcquire(t) ==
  /\ CompareExchangeOk(t, Word, kFree, kLocked, CasOrder)
  /\ rounds' = [rounds EXCEPT ![t] = @ + 1]
  /\ UNCHANGED read

CasFail(t, i) ==
  /\ CompareExchangeStrongFail(t, Word, i, kFree, CasFailureOrder(CasOrder))
  /\ UNCHANGED <<read, rounds>>

(* lock() returns once its compare-exchange succeeds, else it spins again. *)
LockCasOk(t) == Goto(t, "cas", "load") /\ CasAcquire(t)

LockCasFail(t, i) == Goto(t, "cas", "spin") /\ CasFail(t, i)

(* try_lock() is that compare-exchange alone.                              *)
TryLockOk(t) ==
  /\ Goto(t, "idle", "load")
  /\ rounds[t] < MaxRounds
  /\ CasAcquire(t)

(* A seeded bug: try_lock() reports success whatever it found.             *)
TryLockFailReportsSuccess(t, i) ==
  /\ Goto(t, "idle", "load")
  /\ rounds[t] < MaxRounds
  /\ CasFail(t, i)

TryLockFail(t, i) ==
  /\ Goto(t, "idle", "idle")
  /\ rounds[t] < MaxRounds
  /\ CasFail(t, i)

(* The client's ++counter: a plain read, which returns any message the     *)
(* thread is not ordered after, then a plain write.                        *)
CounterLoad(t, i) ==
  /\ Goto(t, "load", "store")
  /\ Load(t, Counter, i, "relaxed")
  /\ read' = [read EXCEPT ![t] = mo[Counter][i].val]
  /\ UNCHANGED rounds

CounterStore(t) ==
  /\ Goto(t, "store", "unlock")
  /\ Store(t, Counter, read[t] + 1, "relaxed")
  /\ UNCHANGED <<read, rounds>>

(* A seeded bug: the word is freed without releasing.                      *)
UnlockOrderRelaxed == "relaxed"

UnlockOrder == "release"

(* A seeded bug: the value stored leaves the word locked.                  *)
UnlockKeepsLocked(t) ==
  /\ Goto(t, "unlock", "idle")
  /\ Store(t, Word, kLocked, UnlockOrder)
  /\ UNCHANGED <<read, rounds>>

(* _M_value.store(kFree, release), called by the destructor of lock_guard. *)
Unlock(t) ==
  /\ Goto(t, "unlock", "idle")
  /\ Store(t, Word, kFree, UnlockOrder)
  /\ UNCHANGED <<read, rounds>>

(* Every client is done.                                                   *)
Finished ==
  /\ \A t \in Threads : pc[t] = "idle" /\ rounds[t] = MaxRounds
  /\ UNCHANGED vars

Step(t) ==
  \/ Lock(t)
  \/ \E i \in DOMAIN mo[Word] : SpinLoad(t, i)
  \/ LockCasOk(t)
  \/ \E i \in DOMAIN mo[Word] : LockCasFail(t, i)
  \/ TryLockOk(t)
  \/ \E i \in DOMAIN mo[Word] : TryLockFail(t, i)
  \/ \E i \in DOMAIN mo[Counter] : CounterLoad(t, i)
  \/ CounterStore(t)
  \/ Unlock(t)

Next == (\E t \in Threads : Step(t)) \/ Finished

Spec == Init /\ [][Next]_vars

(* A running thread keeps taking steps, and its spinning load returns the  *)
(* newest value of the word in finite time ([intro.progress]).             *)
Fairness ==
  \A t \in Threads :
    /\ WF_vars(SpinLoad(t, Tail_(Word)))
    /\ WF_vars(LockCasOk(t))
    /\ WF_vars(\E i \in DOMAIN mo[Word] : LockCasFail(t, i))
    /\ WF_vars(\E i \in DOMAIN mo[Counter] : CounterLoad(t, i))
    /\ WF_vars(CounterStore(t))
    /\ WF_vars(Unlock(t))

FairSpec == Spec /\ Fairness

-----------------------------------------------------------------------------
TypeOK ==
  /\ mo \in [Locs -> Seq(Message(Int))]
  /\ view \in [Threads -> View]
  /\ sc \in View
  /\ pc \in [Threads -> PCs]
  /\ read \in [Threads -> Int]
  /\ rounds \in [Threads -> Nat]

(* At most one thread is between a successful lock()/try_lock() and its    *)
(* unlock(): the compare-exchange of no two threads succeeds on one free.  *)
MutualExclusion == \A t, u \in Threads : Holding(t) /\ Holding(u) => t = u

(* The holder is ordered after every write to the counter: the release     *)
(* store of unlock() and the acquire compare-exchange of the next owner    *)
(* synchronize, so the plain accesses under the lock never race.           *)
NoDataRace == \A t \in Threads : Holding(t) => view[t][Counter] = Tail_(Counter)

(* No increment is lost: each write of the counter stored its predecessor  *)
(* plus one, however the critical sections were interleaved.               *)
NoLostUpdate ==
  \A i \in DOMAIN mo[Counter] : mo[Counter][i].val = i - 1

(* The word is kLocked exactly while somebody holds the lock: a failing    *)
(* path never leaves it locked, and unlock() never frees another's lock.   *)
WordTracksHolder ==
  Latest(Word).val = (IF \E t \in Threads : Holding(t) THEN kLocked ELSE kFree)

(* What the invariants above rest on.  Views never run ahead of memory.    *)
ViewsInMemory ==
  LET known(v) == \A l \in Locs : v[l] \in 1 .. Tail_(l)
  IN  /\ \A l \in Locs : Tail_(l) >= 1
      /\ \A t \in Threads : known(view[t])
      /\ \A l \in Locs : \A i \in DOMAIN mo[l] : known(mo[l][i].view)

(* A free word carries the view of its last holder.                        *)
FreeWordPublishes ==
  Latest(Word).val = kFree => Latest(Word).view[Counter] = Tail_(Counter)

(* The value a holder is about to store back to is still the newest.       *)
ReadIsFresh == \A t \in Threads : pc[t] = "store" => read[t] = Tail_(Counter) - 1

SpinLockInv ==
  /\ TypeOK
  /\ ViewsInMemory
  /\ MutualExclusion
  /\ NoDataRace
  /\ NoLostUpdate
  /\ WordTracksHolder
  /\ FreeWordPublishes
  /\ ReadIsFresh

(* Deadlock freedom: while threads wait for the lock, it is always handed  *)
(* to somebody (the lock promises no more: a given waiter may starve).     *)
LockIsGranted ==
  (\E t \in Threads : Waiting(t)) ~> (\E t \in Threads : pc[t] = "load")

(* The lock is an abstract lock whose owner is the thread holding it.      *)
Holder == IF \E t \in Threads : Holding(t)
          THEN CHOOSE t \in Threads : Holding(t) ELSE NoOwner

AL == INSTANCE AbstractLock WITH Clients <- Threads, owner <- Holder

ALSpec == AL!Spec
=============================================================================
