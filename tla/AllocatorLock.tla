--------------------------- MODULE AllocatorLock ---------------------------
(***************************************************************************)
(* The allocator entry points of src/malloc.cpp.  Each takes gLock, calls  *)
(* one mem_* function of the (external) allocator and lets gLock go.  In   *)
(* the freestanding build the guard is dux::irq_save_lock_guard, which     *)
(* masks interrupts for as long as it holds the lock; under                *)
(* __STD_LIBC_TEST it is the plain std::lock_guard of the host tests.      *)
(*                                                                         *)
(* A CPU runs one thread, which an interrupt handler may preempt while the *)
(* interrupt flag is set; the handler calls the allocator too.  gLock is   *)
(* the abstract lock that module SpinLock is shown to implement, so a      *)
(* context spins exactly while Acquire is disabled for it.                 *)
(***************************************************************************)
EXTENDS Integers, Sequences, FiniteSets

CONSTANTS CPUs,
          BootCPU,      \* its thread calls libstdc_allocator_initialize
          Blocks,       \* what the allocator hands out
          Systems,      \* what the entry points are built into, see Init
          Null, NoOwner

Allocations == {"malloc", "calloc", "aligned_alloc", "realloc"}

Operations == Allocations \cup {"free", "libstdc_allocator_initialize"}

Contexts == CPUs \X {"thread", "handler"}

ASSUME BootAssumption == BootCPU \in CPUs
ASSUME SystemsAssumption ==
  Systems \subseteq [freestanding : BOOLEAN,          \* the kernel, or the host tests
                     calls : SUBSET Operations,      \* what its contexts call
                     cpus : SUBSET CPUs, blocks : SUBSET Blocks]
ASSUME NamesAssumption == Null \notin Blocks /\ NoOwner \notin Contexts

VARIABLES system,   \* the one that runs
          intr,     \* intr[c]: EFLAGS.IF of CPU c
          handler,  \* handler[c]: an interrupt handler is running on c
          pc,       \* pc[x]: the next step of context x
          op,       \* op[x]: the function x is in
          saved,    \* saved[x]: the _M_was_enabled of x's guards, innermost last
          owner,    \* the context holding gLock
          ready,    \* the allocator has been initialized
          used,     \* blocks the allocator has handed out
          owned,    \* owned[x]: blocks x has been given
          arg,      \* arg[x]: the block x passed in, or Null
          res       \* res[x]: the block x is about to be given, or Null

lockVars == <<system, owner>>
heapVars == <<ready, used, owned, arg, res>>
cpuVars == <<intr, handler, saved>>
vars == <<system, intr, handler, pc, op, saved, owner, ready, used, owned, arg, res>>

gLock == INSTANCE AbstractLock WITH Clients <- Contexts

PCs == {"idle", "pushf", "cli", "lock", "enter", "leave", "unlock", "restore"}

CPU(x) == x[1]

Thread(c) == <<c, "thread">>

Handler(c) == <<c, "handler">>

(* The context executing on the CPU of x is x.                             *)
Running(x) == IF handler[CPU(x)] THEN x = Handler(CPU(x)) ELSE x = Thread(CPU(x))

At(x, p) == Running(x) /\ pc[x] = p

Goto(x, p) == pc' = [pc EXCEPT ![x] = p]

(* The function returns, and its locals with it.                           *)
Return(x) ==
  /\ Goto(x, "idle")
  /\ op' = [op EXCEPT ![x] = "none"]
  /\ arg' = [arg EXCEPT ![x] = Null]
  /\ res' = [res EXCEPT ![x] = Null]

Init ==
  /\ system \in Systems
  /\ intr = [c \in CPUs |-> TRUE]
  /\ handler = [c \in CPUs |-> FALSE]
  /\ pc = [x \in Contexts |-> "idle"]
  /\ op = [x \in Contexts |-> "none"]
  /\ saved = [x \in Contexts |-> <<>>]
  /\ gLock!Init
  /\ ready = FALSE
  /\ used = {}
  /\ owned = [x \in Contexts |-> {}]
  /\ arg = [x \in Contexts |-> Null]
  /\ res = [x \in Contexts |-> Null]

-----------------------------------------------------------------------------
(* The processor takes an interrupt through an interrupt gate, which clears*)
(* the flag; the return from it sets the flag again.                       *)
Interrupt(c) ==
  /\ system.freestanding /\ c \in system.cpus
  /\ intr[c] /\ ~handler[c]
  /\ handler' = [handler EXCEPT ![c] = TRUE]
  /\ intr' = [intr EXCEPT ![c] = FALSE]
  /\ UNCHANGED <<pc, op, saved, lockVars, heapVars>>

InterruptReturn(c) ==
  /\ handler[c]
  /\ At(Handler(c), "idle")
  /\ handler' = [handler EXCEPT ![c] = FALSE]
  /\ intr' = [intr EXCEPT ![c] = TRUE]
  /\ UNCHANGED <<pc, op, saved, lockVars, heapVars>>

-----------------------------------------------------------------------------
(* A call of an entry point: its guard comes first.                        *)
GuardEntry == IF system.freestanding THEN "pushf" ELSE "lock"

Call(x, o, p) ==
  /\ At(x, "idle")
  /\ o \in system.calls /\ CPU(x) \in system.cpus
  /\ o = "libstdc_allocator_initialize" => x = Thread(BootCPU) /\ ~ready
  /\ p \in IF o \in {"free", "realloc"} THEN owned[x] \cup {Null} ELSE {Null}
  /\ op' = [op EXCEPT ![x] = o]
  /\ arg' = [arg EXCEPT ![x] = p]
  /\ Goto(x, GuardEntry)
  /\ UNCHANGED <<cpuVars, lockVars, ready, used, owned, res>>

(* A thread masks interrupts around its calls with an irq_save_guard of    *)
(* its own (one of them: the bound on nesting).                            *)
CallerGuard(c) ==
  /\ system.freestanding /\ c \in system.cpus
  /\ At(Thread(c), "idle")
  /\ saved[Thread(c)] = <<>>
  /\ op' = [op EXCEPT ![Thread(c)] = "irq_save_guard"]
  /\ Goto(Thread(c), "pushf")
  /\ UNCHANGED <<cpuVars, lockVars, heapVars>>

CallerUnguard(c) ==
  /\ At(Thread(c), "idle")
  /\ saved[Thread(c)] # <<>>
  /\ Goto(Thread(c), "restore")
  /\ UNCHANGED <<cpuVars, op, lockVars, heapVars>>

(* A seeded bug: cli comes first, so the flag that is saved is always off. *)
PushFlagsMasked(x) ==
  /\ At(x, "pushf")
  /\ saved' = [saved EXCEPT ![x] = Append(@, FALSE)]
  /\ Goto(x, "cli")
  /\ UNCHANGED <<intr, handler, op, lockVars, heapVars>>

(* irq_save_disable(): pushfl/popl, then cli; an interrupt may come between*)
PushFlags(x) ==
  /\ At(x, "pushf")
  /\ saved' = [saved EXCEPT ![x] = Append(@, intr[CPU(x)])]
  /\ Goto(x, "cli")
  /\ UNCHANGED <<intr, handler, op, lockVars, heapVars>>

(* A seeded bug: the flags are saved and interrupts stay on.               *)
CliForgotten(x) ==
  /\ At(x, "cli")
  /\ IF op[x] = "irq_save_guard" THEN Return(x)
     ELSE Goto(x, "lock") /\ UNCHANGED <<op, arg, res>>
  /\ UNCHANGED <<cpuVars, lockVars, ready, used, owned>>

Cli(x) ==
  /\ At(x, "cli")
  /\ intr' = [intr EXCEPT ![CPU(x)] = FALSE]
  /\ IF op[x] = "irq_save_guard" THEN Return(x)
     ELSE Goto(x, "lock") /\ UNCHANGED <<op, arg, res>>
  /\ UNCHANGED <<handler, saved, lockVars, ready, used, owned>>

(* A seeded bug: the lock is taken without waiting for its owner.          *)
LockStepUnchecked(x) ==
  /\ At(x, "lock")
  /\ owner' = x
  /\ Goto(x, "enter")
  /\ UNCHANGED <<system, cpuVars, op, heapVars>>

(* gLock.lock(): spins until the lock can be acquired.                     *)
LockStep(x) ==
  /\ At(x, "lock")
  /\ gLock!Acquire(x)
  /\ Goto(x, "enter")
  /\ UNCHANGED <<system, cpuVars, op, heapVars>>

Spin(x) ==
  /\ At(x, "lock")
  /\ owner # NoOwner
  /\ UNCHANGED vars

(* mem_*: the allocator looks at the heap, then changes it.                *)
MemEnter(x) ==
  /\ At(x, "enter")
  /\ \E b \in system.blocks \cup {Null} :
       /\ b # Null => op[x] \in Allocations /\ ready /\ b \notin used
       /\ res' = [res EXCEPT ![x] = b]
  /\ Goto(x, "leave")
  /\ UNCHANGED <<cpuVars, op, lockVars, ready, used, owned, arg>>

MemLeave(x) ==
  LET given == {res[x]} \ {Null}
      freed == IF op[x] = "free" \/ res[x] # Null THEN {arg[x]} \ {Null} ELSE {}
  IN  /\ At(x, "leave")
      /\ used' = (used \ freed) \cup given
      /\ owned' = [owned EXCEPT ![x] = (@ \ freed) \cup given]
      /\ ready' = (ready \/ op[x] = "libstdc_allocator_initialize")
      /\ Goto(x, "unlock")
      /\ UNCHANGED <<cpuVars, op, lockVars, arg, res>>

(* A seeded bug: the destructor restores the flag and keeps the lock.      *)
UnlockStepForgotten(x) ==
  /\ At(x, "unlock")
  /\ IF system.freestanding THEN Goto(x, "restore") /\ UNCHANGED <<op, arg, res>>
     ELSE Return(x)
  /\ UNCHANGED <<cpuVars, lockVars, ready, used, owned>>

(* The destructor of the guard: unlock(), then irq_restore().              *)
UnlockStep(x) ==
  /\ At(x, "unlock")
  /\ gLock!Release(x)
  /\ IF system.freestanding THEN Goto(x, "restore") /\ UNCHANGED <<op, arg, res>>
     ELSE Return(x)
  /\ UNCHANGED <<system, cpuVars, ready, used, owned>>

(* A seeded bug: interrupts are turned on whatever the flag was.           *)
RestoreAlwaysSti(x) ==
  /\ At(x, "restore")
  /\ intr' = [intr EXCEPT ![CPU(x)] = TRUE]
  /\ saved' = [saved EXCEPT ![x] = SubSeq(@, 1, Len(@) - 1)]
  /\ Return(x)
  /\ UNCHANGED <<handler, lockVars, ready, used, owned>>

Restore(x) ==
  LET wasEnabled == saved[x][Len(saved[x])]
  IN  /\ At(x, "restore")
      /\ intr' = [intr EXCEPT ![CPU(x)] = @ \/ wasEnabled]
      /\ saved' = [saved EXCEPT ![x] = SubSeq(@, 1, Len(@) - 1)]
      /\ Return(x)
      /\ UNCHANGED <<handler, lockVars, ready, used, owned>>

-----------------------------------------------------------------------------
CallStep(x) ==
  \/ PushFlags(x) \/ Cli(x)
  \/ LockStep(x) \/ Spin(x)
  \/ MemEnter(x) \/ MemLeave(x)
  \/ UnlockStep(x) \/ Restore(x)

Next ==
  \/ \E c \in CPUs : \/ Interrupt(c) \/ InterruptReturn(c)
                     \/ CallerGuard(c) \/ CallerUnguard(c)
  \/ \E x \in Contexts :
       \/ \E o \in Operations, p \in Blocks \cup {Null} : Call(x, o, p)
       \/ CallStep(x)

Spec == Init /\ [][Next]_vars

(* A processor keeps executing the context it runs.  Nothing forces an     *)
(* interrupt, a call, or the return from a handler.                        *)
FairSpec == Spec /\ \A x \in Contexts : WF_vars(CallStep(x))

-----------------------------------------------------------------------------
TypeOK ==
  /\ system \in Systems
  /\ intr \in [CPUs -> BOOLEAN]
  /\ handler \in [CPUs -> BOOLEAN]
  /\ pc \in [Contexts -> PCs]
  /\ op \in [Contexts -> Operations \cup {"none", "irq_save_guard"}]
  /\ saved \in [Contexts -> Seq(BOOLEAN)]
  /\ owner \in Contexts \cup {NoOwner}
  /\ ready \in BOOLEAN
  /\ used \in SUBSET Blocks
  /\ owned \in [Contexts -> SUBSET Blocks]
  /\ arg \in [Contexts -> Blocks \cup {Null}]
  /\ res \in [Contexts -> Blocks \cup {Null}]

(* The allocator never gives two callers the same block, nor a block it    *)
(* has already given: its look at the heap and its change of it are never  *)
(* separated by another call, of another CPU or of a handler.              *)
NoDoubleAllocation ==
  /\ \A x, y \in Contexts : x # y => owned[x] \cap owned[y] = {}
  /\ used = UNION {owned[x] : x \in Contexts}

(* Whoever holds gLock is being executed: no handler that could spin on    *)
(* the lock sits on top of it, because interrupts are masked from before   *)
(* lock() until after unlock().                                            *)
HolderIsRunning ==
  owner # NoOwner => Running(owner) /\ (system.freestanding => ~intr[CPU(owner)])

(* The guards put the interrupt flag back as they found it: outside a call *)
(* a thread has interrupts on unless a guard of its own masked them, and   *)
(* no call from a handler turns them on under it.                          *)
FlagIsRestored ==
  \A c \in CPUs :
    /\ handler[c] => ~intr[c]
    /\ ~handler[c] /\ pc[Thread(c)] = "idle" => intr[c] = (saved[Thread(c)] = <<>>)

(* The steps between taking gLock and letting it go.                       *)
Inside == {"enter", "leave", "unlock"}

OwnerIsInside == \A x \in Contexts : owner = x <=> pc[x] \in Inside

(* The flag a thread sees: a handler that preempted it found it set.       *)
Flag(c) == intr[c] \/ handler[c]

(* A context saves a flag for each guard it is inside of.  Only the        *)
(* outermost guard of a thread can have found interrupts on.               *)
SavedFlags(c) ==
  /\ \A i \in 1 .. Len(saved[Thread(c)]) : saved[Thread(c)][i] <=> i = 1
  /\ \A i \in 1 .. Len(saved[Handler(c)]) : ~saved[Handler(c)][i]

ThreadGuards(c) ==
  LET t == Thread(c)
      guards == Len(saved[t])
  IN  IF system.freestanding
      THEN /\ pc[t] \in {"idle", "pushf"} => guards = IF Flag(c) THEN 0 ELSE 1
           /\ pc[t] = "cli" => guards = IF Flag(c) THEN 1 ELSE 2
           /\ pc[t] \in Inside \cup {"lock", "restore"} => ~Flag(c) /\ guards \in {1, 2}
           /\ op[t] = "irq_save_guard" => pc[t] \in {"pushf", "cli"} /\ Flag(c)
      ELSE /\ intr[c] /\ guards = 0
           /\ pc[t] \in Inside \cup {"idle", "lock"}
           /\ op[t] # "irq_save_guard"

(* A handler finds interrupts off, and leaves no guard behind.             *)
HandlerGuards(c) ==
  LET h == Handler(c)
  IN  /\ handler[c] => system.freestanding /\ ~intr[c]
      /\ ~handler[c] => pc[h] = "idle"
      /\ Len(saved[h]) = IF pc[h] \in {"idle", "pushf"} THEN 0 ELSE 1
      /\ op[h] # "irq_save_guard"

GuardsNest == \A c \in CPUs : SavedFlags(c) /\ ThreadGuards(c) /\ HandlerGuards(c)

(* What a call was passed stays the caller's until mem_* has taken it back,*)
(* and what mem_* has chosen stays free until it has been given.           *)
ArgumentIsOwned ==
  \A x \in Contexts :
    pc[x] \notin {"unlock", "restore"} /\ arg[x] # Null =>
      pc[x] # "idle" /\ arg[x] \in owned[x]

ResultIsFree ==
  \A x \in Contexts : pc[x] = "leave" => res[x] \notin used

EntryPointsInv ==
  /\ TypeOK
  /\ OwnerIsInside
  /\ GuardsNest
  /\ ArgumentIsOwned
  /\ ResultIsFree
  /\ NoDoubleAllocation

(* To its callers each function is one step on the blocks they have.       *)
Promised == INSTANCE AbstractAllocator WITH Callers <- Contexts

PromisedSpec == Promised!Spec

(* No self-deadlock: gLock is always let go again, however often handlers  *)
(* that call the allocator interrupt the threads.                          *)
LockIsReleased == \A x \in Contexts : owner = x ~> owner # x

(* While contexts spin on gLock, one call after the other enters mem_*.    *)
GLockIsGranted ==
  (\E x \in Contexts : pc[x] = "lock") ~> (\E x \in Contexts : pc[x] = "enter")
=============================================================================
