------------------------------- MODULE Atomic -------------------------------
(***************************************************************************)
(* std::basic_atomic (include/atomic.h), the operations every lock of the  *)
(* library is built from, over the memory the __atomic_* builtins act on.  *)
(*                                                                         *)
(* The memory is the operational release/acquire view model: a location    *)
(* carries its modification order, a sequence of messages, and a thread a  *)
(* view, the newest message of each location it is bound to know of.  A    *)
(* load may return any message its view has not passed; a release message  *)
(* carries its writer's view, an acquire load joins that view.  Stores are *)
(* appended: an execution in which the modification order disagrees with   *)
(* the order the stores are executed in is not modelled.                   *)
(***************************************************************************)
EXTENDS Integers, Sequences

CONSTANTS Threads, Locs, InitVal

VARIABLES mo,    \* mo[l]: modification order of l, messages [val, view]
          view,  \* view[t][l]: newest message of l that t must not go behind
          sc     \* sc[l]: the last seq_cst store to l

memory == <<mo, view, sc>>

Orders == {"relaxed", "acquire", "release", "acq_rel", "seq_cst"}

Acquires(o) == o \in {"acquire", "acq_rel", "seq_cst"}

Releases(o) == o \in {"release", "acq_rel", "seq_cst"}

(* Seeded bugs: every acquiring order but seq_cst is dropped to relaxed;   *)
(* the success order is handed on as it is.                                *)
CasFailureOrderRelaxed(o) == IF o = "seq_cst" THEN o ELSE "relaxed"

CasFailureOrderSame(o) == o

(* detail::__cas_failure_order: the order a failing CAS loads with.        *)
CasFailureOrder(o) ==
  CASE o = "release" -> "relaxed"
    [] o = "acq_rel" -> "acquire"
    [] OTHER         -> o

-----------------------------------------------------------------------------
(* The memory of the builtins.                                             *)

View == [Locs -> Nat]

NoView == [l \in Locs |-> 1]

Message(V) == [val : V, view : View]

Join(v, w) == [l \in Locs |-> IF v[l] >= w[l] THEN v[l] ELSE w[l]]

Tail_(l) == Len(mo[l])

Latest(l) == mo[l][Tail_(l)]

MemInit ==
  /\ mo = [l \in Locs |-> <<[val |-> InitVal, view |-> NoView]>>]
  /\ view = [t \in Threads |-> NoView]
  /\ sc = NoView

(* The messages a load of l by t may return; a seq_cst load returns        *)
(* nothing older than the last seq_cst store.                              *)
Readable(t, l, o) ==
  {i \in view[t][l] .. Tail_(l) : o = "seq_cst" => i >= sc[l]}

(* t reads message i of l.                                                 *)
ReadMsg(t, l, i, o) ==
  LET seen == [view[t] EXCEPT ![l] = i]
  IN  view' = [view EXCEPT ![t] = IF Acquires(o)
                                  THEN Join(seen, mo[l][i].view) ELSE seen]

(* t appends v to l: a release message carries the writer's view, and a    *)
(* read-modify-write also carries on the view (base) of what it read.      *)
WriteMsg(t, l, v, o, known, base) ==
  LET n   == Tail_(l) + 1
      mine == [known EXCEPT ![l] = n]
      rel  == IF Releases(o) THEN mine ELSE [NoView EXCEPT ![l] = n]
  IN  /\ mo' = [mo EXCEPT ![l] = Append(@, [val |-> v, view |-> Join(rel, base)])]
      /\ view' = [view EXCEPT ![t] = mine]
      /\ sc' = IF o = "seq_cst" THEN [sc EXCEPT ![l] = n] ELSE sc

-----------------------------------------------------------------------------
(* The operations of basic_atomic.                                         *)

(* store(desired, order); operator= is store(desired, seq_cst).            *)
Store(t, l, v, o) == WriteMsg(t, l, v, o, view[t], NoView)

(* load(order) returning message i; operator T is load(seq_cst).           *)
Load(t, l, i, o) ==
  /\ i \in Readable(t, l, o)
  /\ ReadMsg(t, l, i, o)
  /\ UNCHANGED <<mo, sc>>

(* A read-modify-write reads the last message of the modification order.   *)
ReadModifyWrite(t, l, v, o) ==
  LET known == IF Acquires(o) THEN Join(view[t], Latest(l).view) ELSE view[t]
  IN  WriteMsg(t, l, v, o, known, Latest(l).view)

(* exchange(desired, order); the value returned is Latest(l).val.          *)
Exchange(t, l, v, o) == ReadModifyWrite(t, l, v, o)

(* A seeded bug: the comparison is left out.                               *)
CompareExchangeUncompared(t, l, expected, desired, success) ==
  ReadModifyWrite(t, l, desired, success)

(* compare_exchange_*(expected, desired, success, failure) returning true. *)
CompareExchangeOk(t, l, expected, desired, success) ==
  /\ Latest(l).val = expected
  /\ ReadModifyWrite(t, l, desired, success)

(* compare_exchange_strong returning false: a load, with the failure       *)
(* order, of a message i that differs from expected, which is then stored  *)
(* into the caller's expected.                                             *)
CompareExchangeStrongFail(t, l, i, expected, failure) ==
  /\ Load(t, l, i, failure)
  /\ mo[l][i].val # expected

(* compare_exchange_weak returning false: as above, or for no reason.      *)
CompareExchangeWeakFail(t, l, i, failure) == Load(t, l, i, failure)
=============================================================================
