--------------------------- MODULE AtomicClients ---------------------------
(***************************************************************************)
(* Programs over std::atomic (include/atomic.h) that tell the memory       *)
(* orders of its operations apart.  Each thread runs a short list of calls *)
(* of the public operations; Programs is the set of such lists that is     *)
(* explored.  A call is a record [fn, loc, val, order]; an overload without*)
(* an order argument passes the default order of its declaration.  The     *)
(* programs for two threads leave the others idle.                         *)
(***************************************************************************)
EXTENDS Integers, Sequences

CONSTANTS Threads,
          First, Second,   \* two of them
          MaxStores        \* bound: stores to flag while a lock spins

ASSUME ThreadsAssumption == First \in Threads /\ Second \in Threads /\ First # Second
ASSUME MaxStoresAssumption == MaxStores \in Nat

Locs == {"data", "flag"}

VARIABLES mo, view, sc,
          prog,       \* the program being run
          pc,         \* pc[t]: index of t's next call
          got,        \* got[t]: the values t's calls returned, in order
          expected,   \* expected[t]: the in/out argument of compare_exchange
          failure     \* failure[t]: the failure order t last passed on

INSTANCE Atomic WITH InitVal <- 0

vars == <<mo, view, sc, prog, pc, got, expected, failure>>

(* The programs.  Each thread stores to one location and loads the other.  *)
StoreBuffering ==
  LET thread(mine, other) == <<[fn |-> "assign", loc |-> mine, val |-> 1],
                               [fn |-> "convert", loc |-> other]>>
  IN  [t \in Threads |-> CASE t = First  -> thread("data", "flag")
                           [] t = Second -> thread("flag", "data")
                           [] OTHER      -> <<>>]

(* First publishes data by storing to flag; Second finds out by a          *)
(* compare-exchange of flag, which fails once flag is no longer 0.         *)
MessagePassingBy(store, cas) ==
  [t \in Threads |->
     CASE t = First ->
            <<[fn |-> "store", loc |-> "data", val |-> 1, order |-> "relaxed"],
              [fn |-> "store", loc |-> "flag", val |-> 1, order |-> store]>>
       [] t = Second ->
            <<[fn |-> "cas_strong", loc |-> "flag", val |-> 2, order |-> cas],
              [fn |-> "load", loc |-> "data", order |-> "relaxed"]>>
       [] OTHER -> <<>>]

(* All increment data with a compare_exchange_weak loop.                   *)
IncrementingBy(order) ==
  LET inc == [fn |-> "increment", loc |-> "data", order |-> order]
  IN  [t \in Threads |-> <<inc, inc>>]

(* All try to be the first to set flag.                                    *)
RacingBy(order) ==
  [t \in Threads |-> <<[fn |-> "exchange", loc |-> "flag", val |-> 1, order |-> order]>>]

(* The locks that benchmarks/spin_ttas_vs_tas_bench.cpp builds on exchange *)
(* count under the lock: tas_spin_lock exchanges until it gets the lock,   *)
(* ttas_spin_lock looks first, try_lock gives up.                          *)
Counting(attempt) ==
  attempt \o <<[fn |-> "load", loc |-> "data", order |-> "relaxed"],
               [fn |-> "add_one", loc |-> "data"],
               [fn |-> "store", loc |-> "flag", val |-> 0, order |-> "release"]>>

TasLock  == Counting(<<[fn |-> "lock", loc |-> "flag", otherwise |-> 1]>>)
TtasLock == Counting(<<[fn |-> "look", loc |-> "flag"],
                       [fn |-> "lock", loc |-> "flag", otherwise |-> 1]>>)
TryLock  == Counting(<<[fn |-> "lock", loc |-> "flag", otherwise |-> 5]>>)

LockPrograms == [Threads -> {TasLock, TtasLock, TryLock}]

StoreOrders == {"relaxed", "release", "seq_cst"}

Programs ==
  {StoreBuffering}
    \cup {MessagePassingBy(s, c) : s \in StoreOrders, c \in Orders}
    \cup {IncrementingBy(o) : o \in Orders}
    \cup {RacingBy(o) : o \in Orders}
    \cup LockPrograms

Init ==
  /\ MemInit
  /\ prog \in Programs
  /\ pc = [t \in Threads |-> 1]
  /\ got = [t \in Threads |-> <<>>]
  /\ expected = [t \in Threads |-> 0]
  /\ failure = [t \in Threads |-> "none"]

Calls(t, fn) == pc[t] \in DOMAIN prog[t] /\ prog[t][pc[t]].fn = fn

ThisCall(t) == prog[t][pc[t]]

Returns(t, v) ==
  /\ pc' = [pc EXCEPT ![t] = @ + 1]
  /\ got' = [got EXCEPT ![t] = Append(@, v)]
  /\ UNCHANGED prog

(* A seeded bug: the assignment is a release store.                        *)
AssignReleases(t) ==
  /\ Calls(t, "assign")
  /\ Store(t, ThisCall(t).loc, ThisCall(t).val, "release")
  /\ Returns(t, ThisCall(t).val)
  /\ UNCHANGED <<expected, failure>>

(* _Type operator=(_Type): a seq_cst store, returning the value assigned.  *)
Assign(t) ==
  /\ Calls(t, "assign")
  /\ Store(t, ThisCall(t).loc, ThisCall(t).val, "seq_cst")
  /\ Returns(t, ThisCall(t).val)
  /\ UNCHANGED <<expected, failure>>

(* operator _Type(): a seq_cst load.                                       *)
Convert(t, i) ==
  /\ Calls(t, "convert")
  /\ Load(t, ThisCall(t).loc, i, "seq_cst")
  /\ Returns(t, mo[ThisCall(t).loc][i].val)
  /\ UNCHANGED <<expected, failure>>

StoreCall(t) ==
  /\ Calls(t, "store")
  /\ Store(t, ThisCall(t).loc, ThisCall(t).val, ThisCall(t).order)
  /\ Returns(t, 0)
  /\ UNCHANGED <<expected, failure>>

LoadCall(t, i) ==
  /\ Calls(t, "load")
  /\ Load(t, ThisCall(t).loc, i, ThisCall(t).order)
  /\ Returns(t, mo[ThisCall(t).loc][i].val)
  /\ UNCHANGED <<expected, failure>>

(* A seeded bug: the value returned is loaded before the store is made.    *)
ExchangeCallStale(t) ==
  /\ Calls(t, "exchange")
  /\ Store(t, ThisCall(t).loc, ThisCall(t).val, ThisCall(t).order)
  /\ Returns(t, mo[ThisCall(t).loc][view[t][ThisCall(t).loc]].val)
  /\ UNCHANGED <<expected, failure>>

ExchangeCall(t) ==
  /\ Calls(t, "exchange")
  /\ Exchange(t, ThisCall(t).loc, ThisCall(t).val, ThisCall(t).order)
  /\ Returns(t, Latest(ThisCall(t).loc).val)
  /\ UNCHANGED <<expected, failure>>

Locking(t, order) ==
  LET free == Latest("flag").val = 0
  IN  /\ Calls(t, "lock")
      /\ free \/ Len(mo["flag"]) < MaxStores
      /\ Exchange(t, "flag", 1, order)
      /\ IF free THEN Returns(t, 1)
         ELSE pc' = [pc EXCEPT ![t] = ThisCall(t).otherwise] /\ UNCHANGED <<prog, got>>
      /\ UNCHANGED <<expected, failure>>

(* A seeded bug: the exchange of the lock acquires nothing.                *)
LockExchangeRelaxed(t) == Locking(t, "relaxed")

LockExchange(t) == Locking(t, "acquire")

(* while (load(relaxed) == kLocked)                                        *)
Look(t, i) ==
  /\ Calls(t, "look")
  /\ Load(t, "flag", i, "relaxed")
  /\ IF mo["flag"][i].val = 0 THEN Returns(t, 0) ELSE UNCHANGED <<prog, pc, got>>
  /\ UNCHANGED <<expected, failure>>

(* The second half of ++shared_val.                                        *)
AddOne(t) ==
  /\ Calls(t, "add_one")
  /\ Store(t, "data", got[t][Len(got[t])] + 1, "relaxed")
  /\ Returns(t, 0)
  /\ UNCHANGED <<expected, failure>>

(* compare_exchange_strong(expected, val, order): one attempt.             *)
CasStrongOk(t) ==
  /\ Calls(t, "cas_strong")
  /\ CompareExchangeOk(t, ThisCall(t).loc, expected[t], ThisCall(t).val,
                       ThisCall(t).order)
  /\ Returns(t, 1)
  /\ UNCHANGED <<expected, failure>>

CasStrongFail(t, i) ==
  LET order == CasFailureOrder(ThisCall(t).order)
  IN  /\ Calls(t, "cas_strong")
      /\ CompareExchangeStrongFail(t, ThisCall(t).loc, i, expected[t], order)
      /\ expected' = [expected EXCEPT ![t] = mo[ThisCall(t).loc][i].val]
      /\ failure' = [failure EXCEPT ![t] = order]
      /\ Returns(t, 0)

(* while (!compare_exchange_weak(expected, expected + 1, order)): a        *)
(* failure updates expected and the call is repeated.                      *)
CasWeakOk(t) ==
  /\ Calls(t, "increment")
  /\ CompareExchangeOk(t, ThisCall(t).loc, expected[t], expected[t] + 1,
                       ThisCall(t).order)
  /\ Returns(t, 1)
  /\ UNCHANGED <<expected, failure>>

CasWeakFail(t, i) ==
  LET order == CasFailureOrder(ThisCall(t).order)
  IN  /\ Calls(t, "increment")
      /\ CompareExchangeWeakFail(t, ThisCall(t).loc, i, order)
      /\ expected' = [expected EXCEPT ![t] = mo[ThisCall(t).loc][i].val]
      /\ failure' = [failure EXCEPT ![t] = order]
      /\ UNCHANGED <<mo, sc, prog, pc, got>>

Finished ==
  /\ \A t \in Threads : pc[t] \notin DOMAIN prog[t]
  /\ UNCHANGED vars

Step(t) ==
  \/ Assign(t) \/ StoreCall(t) \/ ExchangeCall(t) \/ CasStrongOk(t) \/ CasWeakOk(t)
  \/ LockExchange(t) \/ AddOne(t)
  \/ \E l \in Locs : \E i \in DOMAIN mo[l] :
       \/ Convert(t, i) \/ LoadCall(t, i) \/ CasStrongFail(t, i) \/ CasWeakFail(t, i)
       \/ Look(t, i)

Next == (\E t \in Threads : Step(t)) \/ Finished

Spec == Init /\ [][Next]_vars

-----------------------------------------------------------------------------
Done(t) == pc[t] \notin DOMAIN prog[t]

(* The failure order handed to the builtin is one a load can have, for     *)
(* every order the single-order overloads accept.                          *)
TypeOK ==
  /\ mo \in [Locs -> Seq(Message(Nat))]
  /\ view \in [Threads -> View]
  /\ sc \in View
  /\ prog \in Programs
  /\ pc \in [Threads -> Nat]
  /\ got \in [Threads -> Seq(Nat)]
  /\ expected \in [Threads -> Nat]
  /\ failure \in [Threads -> {"none", "relaxed", "acquire", "seq_cst"}]

(* operator= and operator T are seq_cst: of two threads that each assign   *)
(* one object and then read the other's, one sees the other's assignment.  *)
SeqCstAgrees ==
  prog = StoreBuffering /\ Done(First) /\ Done(Second)
    => got[First][2] = 1 \/ got[Second][2] = 1

(* A compare-exchange that fails on a published value has acquired what    *)
(* was published, whenever the order of the overload has an acquire part.  *)
FailureAcquires ==
  \A s \in StoreOrders, c \in Orders :
    (/\ prog = MessagePassingBy(s, c) /\ Releases(s) /\ Acquires(c)
     /\ Done(Second) /\ expected[Second] = 1)
      => got[Second][2] = 1

(* Loops over compare_exchange_weak lose no increment, for every order and *)
(* however often the exchange fails: what is stored is one more than what  *)
(* it replaced.                                                            *)
IncrementsExact ==
  (\E o \in Orders : prog = IncrementingBy(o)) =>
    \A i \in DOMAIN mo["data"] : mo["data"][i].val = i - 1

(* The locks built on exchange let one thread in at a time, and it sees    *)
(* what the last one counted, whether it spun, looked first or tried.      *)
LockedCountExact ==
  prog \in LockPrograms =>
    /\ \A i \in DOMAIN mo["data"] : mo["data"][i].val = i - 1
    /\ \A t \in Threads : got[t] # <<>> /\ Calls(t, "add_one") =>
         got[t][Len(got[t])] = Latest("data").val

(* Of all threads exchanging the same value in, one alone gets the old.    *)
OneWinner ==
  (\E o \in Orders : prog = RacingBy(o)) /\ (\A t \in Threads : Done(t))
    => \E winner \in Threads :
         \A t \in Threads : got[t][1] = IF t = winner THEN 0 ELSE 1
-----------------------------------------------------------------------------
(* The inductive invariant: the types, and for each kind of program how    *)
(* its memory and its results develop.                                     *)

ViewsPositive ==
  /\ \A l \in Locs : mo[l] # <<>>
  /\ \A t \in Threads, l \in Locs : view[t][l] >= 1

OneResultPerCall == \A t \in Threads : Len(got[t]) = pc[t] - 1

(* Behind the initial message of a location there is only the value v.     *)
OnlyStores(l, v) == \A i \in DOMAIN mo[l] : i >= 2 => mo[l][i].val = v

(* Assigning raises the bound below which a seq_cst load may not read.     *)
Assigned(t, mine) == OnlyStores(mine, 1) /\ (pc[t] >= 2 => sc[mine] >= 2)

BufferingInv ==
  prog = StoreBuffering =>
    /\ OneResultPerCall
    /\ Assigned(First, "data") /\ Assigned(Second, "flag")

(* The message that publishes data carries a view of it, which the failing *)
(* compare-exchange joins.                                                 *)
DataPublished(s, c) ==
  /\ OneResultPerCall
  /\ OnlyStores("data", 1)
  /\ pc[First] >= 2 => view[First]["data"] >= 2
  /\ \A i \in DOMAIN mo["flag"] :
       mo["flag"][i].val = 1 /\ Releases(s) => mo["flag"][i].view["data"] >= 2
  /\ pc[Second] = 1 => expected[Second] = 0
  /\ pc[Second] >= 2 /\ expected[Second] = 1 /\ Releases(s) /\ Acquires(c)
       => view[Second]["data"] >= 2

PassingInv ==
  \A s \in StoreOrders, c \in Orders :
    prog = MessagePassingBy(s, c) => DataPublished(s, c)

(* Whoever replaced the initial message is the winner.                     *)
RaceInv ==
  (\E o \in Orders : prog = RacingBy(o)) =>
    /\ OneResultPerCall
    /\ OnlyStores("flag", 1) /\ mo["flag"][1].val = 0
    /\ \/ Len(mo["flag"]) = 1 /\ \A t \in Threads : got[t] = <<>>
       \/ /\ Len(mo["flag"]) > 1
          /\ \E winner \in Threads :
               /\ got[winner] # <<>>
               /\ \A t \in Threads :
                    got[t] # <<>> => got[t][1] = IF t = winner THEN 0 ELSE 1

(* In a lock program these calls are made under the lock only.             *)
Owner(t) == Calls(t, "load") \/ Calls(t, "add_one") \/ Calls(t, "store")

(* The owner has seen the count, and so will who takes a free lock.        *)
LockInv ==
  prog \in LockPrograms =>
    /\ \A t, u \in Threads : Owner(t) /\ Owner(u) => t = u
    /\ \A t \in Threads :
         Owner(t) => Latest("flag").val = 1 /\ view[t]["data"] >= Tail_("data")
    /\ \A t \in Threads : Calls(t, "add_one") => got[t] # <<>>
    /\ Latest("flag").val = 0 => Latest("flag").view["data"] >= Tail_("data")

ClientsInv ==
  /\ TypeOK /\ ViewsPositive
  /\ BufferingInv /\ SeqCstAgrees
  /\ PassingInv /\ FailureAcquires
  /\ IncrementsExact
  /\ RaceInv
  /\ LockInv /\ LockedCountExact
=============================================================================
