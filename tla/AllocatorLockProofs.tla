------------------------ MODULE AllocatorLockProofs ------------------------
(***************************************************************************)
(* Proofs about the allocator entry points for any number of CPUs and      *)
(* blocks, in the freestanding build and in the host tests.                *)
(***************************************************************************)
EXTENDS AllocatorLock, SequenceTheorems, TLAPS

(* Every context is the thread or the handler of its CPU.                  *)
LEMMA ContextParts ==
  /\ \A x \in Contexts : CPU(x) \in CPUs /\ x \in {Thread(CPU(x)), Handler(CPU(x))}
  /\ \A c \in CPUs : /\ Thread(c) \in Contexts /\ CPU(Thread(c)) = c
                     /\ Handler(c) \in Contexts /\ CPU(Handler(c)) = c
                     /\ \A d \in CPUs : Thread(c) # Handler(d)
BY DEF Contexts, CPU, Thread, Handler

(* A system takes its CPUs, its blocks and its calls from the constants.   *)
LEMMA SystemParts ==
  ASSUME NEW s \in Systems
  PROVE  /\ s.freestanding \in BOOLEAN /\ s.calls \subseteq Operations
         /\ s.cpus \subseteq CPUs /\ s.blocks \subseteq Blocks
BY SystemsAssumption

-----------------------------------------------------------------------------
LEMMA InitTypeOK == Init => TypeOK
<1> SUFFICES ASSUME Init PROVE TypeOK
  OBVIOUS
<1>1. /\ system \in Systems
      /\ intr \in [CPUs -> BOOLEAN] /\ handler \in [CPUs -> BOOLEAN]
  BY DEF Init
<1>2. /\ pc \in [Contexts -> PCs]
      /\ op \in [Contexts -> Operations \cup {"none", "irq_save_guard"}]
  BY DEF Init, PCs
<1>3. saved \in [Contexts -> Seq(BOOLEAN)]
  BY DEF Init
<1>4. owner \in Contexts \cup {NoOwner} /\ ready \in BOOLEAN /\ used \in SUBSET Blocks
  BY DEF Init, gLock!Init
<1>5. /\ owned \in [Contexts -> SUBSET Blocks]
      /\ arg \in [Contexts -> Blocks \cup {Null}]
      /\ res \in [Contexts -> Blocks \cup {Null}]
  BY DEF Init
<1> QED BY <1>1, <1>2, <1>3, <1>4, <1>5 DEF TypeOK

(* Each step keeps the type of every variable.                             *)
LEMMA TypeStep == TypeOK /\ [Next]_vars => TypeOK'
<1> SUFFICES ASSUME TypeOK, [Next]_vars PROVE TypeOK'
  OBVIOUS
<1> USE DEF TypeOK, lockVars, heapVars, cpuVars, At, Goto
<1>1. ASSUME NEW c \in CPUs, Interrupt(c) PROVE TypeOK'
  BY <1>1 DEF Interrupt
<1>2. ASSUME NEW c \in CPUs, InterruptReturn(c) PROVE TypeOK'
  BY <1>2 DEF InterruptReturn
<1>3. ASSUME NEW c \in CPUs, CallerGuard(c) PROVE TypeOK'
  BY <1>3 DEF CallerGuard, PCs
<1>4. ASSUME NEW c \in CPUs, CallerUnguard(c) PROVE TypeOK'
  BY <1>4 DEF CallerUnguard, PCs
<1>5. ASSUME NEW x \in Contexts, NEW o \in Operations, NEW p \in Blocks \cup {Null},
             Call(x, o, p)
      PROVE  TypeOK'
  BY <1>5 DEF Call, PCs, GuardEntry
<1>6. ASSUME NEW x \in Contexts, PushFlags(x) PROVE TypeOK'
  <2>1. CPU(x) \in CPUs
    BY ContextParts
  <2>2. Append(saved[x], intr[CPU(x)]) \in Seq(BOOLEAN)
    BY <2>1
  <2> QED BY <1>6, <2>2 DEF PushFlags, PCs
<1>7. ASSUME NEW x \in Contexts, Cli(x) PROVE TypeOK'
  BY ZenonT(60), <1>7, ContextParts DEF Cli, Return, PCs
<1>8. ASSUME NEW x \in Contexts, LockStep(x) PROVE TypeOK'
  BY <1>8 DEF LockStep, gLock!Acquire, PCs
<1>9. ASSUME NEW x \in Contexts, Spin(x) PROVE TypeOK'
  BY <1>9 DEF Spin, vars
<1>10. ASSUME NEW x \in Contexts, MemEnter(x) PROVE TypeOK'
  BY <1>10, SystemParts DEF MemEnter, PCs
<1>11. ASSUME NEW x \in Contexts, MemLeave(x) PROVE TypeOK'
  BY <1>11 DEF MemLeave, PCs
<1>12. ASSUME NEW x \in Contexts, UnlockStep(x) PROVE TypeOK'
  BY ZenonT(60), <1>12 DEF UnlockStep, gLock!Release, Return, PCs
<1>13. ASSUME NEW x \in Contexts, Restore(x) PROVE TypeOK'
  BY <1>13, ContextParts DEF Restore, Return, PCs
<1>14. CASE UNCHANGED vars
  BY <1>14 DEF vars
<1> QED BY <1>1, <1>2, <1>3, <1>4, <1>5, <1>6, <1>7, <1>8, <1>9, <1>10, <1>11, <1>12,
          <1>13, <1>14 DEF Next, CallStep
-----------------------------------------------------------------------------
GuardsOf(c) == SavedFlags(c) /\ ThreadGuards(c) /\ HandlerGuards(c)

(* The guards of a CPU depend on the state of that CPU alone.              *)
LEMMA GuardsAreLocal ==
  ASSUME NEW c \in CPUs, GuardsOf(c),
         system' = system, intr'[c] = intr[c], handler'[c] = handler[c],
         \A x \in {Thread(c), Handler(c)} :
           pc'[x] = pc[x] /\ op'[x] = op[x] /\ saved'[x] = saved[x]
  PROVE  GuardsOf(c)'
BY SMTT(30) DEF GuardsOf, SavedFlags, ThreadGuards, HandlerGuards, Flag, Thread, Handler

(* An interrupt is taken when the flag is set, and its return sets it: the *)
(* thread underneath does not notice.                                      *)
LEMMA InterruptGuards ==
  ASSUME TypeOK, GuardsNest, NEW c \in CPUs, Interrupt(c) \/ InterruptReturn(c)
  PROVE  GuardsNest'
<1>1. GuardsOf(c)'
  <2>1. GuardsOf(c)
    BY DEF GuardsNest, GuardsOf
  <2>2. system' = system /\ pc' = pc /\ op' = op /\ saved' = saved /\ Flag(c)' = Flag(c)
    BY DEF Interrupt, InterruptReturn, lockVars, Flag, TypeOK
  <2>3. SavedFlags(c)' /\ ThreadGuards(c)'
    <3>1. CASE system.freestanding
      BY <2>1, <2>2, <3>1 DEF GuardsOf, SavedFlags, ThreadGuards, Thread, Handler
    <3>2. CASE ~system.freestanding
      BY <2>1, <3>2 DEF GuardsOf, HandlerGuards, Interrupt, InterruptReturn
    <3> QED BY <3>1, <3>2
  <2>4. HandlerGuards(c)'
    BY <2>1, <2>2 DEF GuardsOf, HandlerGuards, Interrupt, InterruptReturn, TypeOK, At, Handler
  <2> QED BY <2>3, <2>4 DEF GuardsOf
<1>2. ASSUME NEW d \in CPUs, d # c PROVE GuardsOf(d)'
  BY <1>2, GuardsAreLocal DEF Interrupt, InterruptReturn, lockVars, TypeOK, GuardsNest, GuardsOf
<1> QED BY <1>1, <1>2 DEF GuardsNest, GuardsOf

(* A step of a context changes its own registers, its CPU's flag and the   *)
(* system's state, but nothing another CPU's guards depend on.             *)
LEMMA OtherCPUs ==
  ASSUME TypeOK, GuardsNest, NEW x \in Contexts,
         \/ \E o \in Operations, p \in Blocks \cup {Null} : Call(x, o, p)
         \/ CallStep(x)
         \/ \E c \in CPUs : x = Thread(c) /\ (CallerGuard(c) \/ CallerUnguard(c)),
         GuardsOf(CPU(x))'
  PROVE  GuardsNest'
<1> DEFINE OnlyHere ==
             /\ system' = system /\ handler' = handler
             /\ \A d \in CPUs \ {CPU(x)} : intr'[d] = intr[d]
             /\ \A y \in Contexts \ {x} :
                  pc'[y] = pc[y] /\ op'[y] = op[y] /\ saved'[y] = saved[y]
<1>1. OnlyHere
  <2> USE DEF lockVars, heapVars, cpuVars, TypeOK, Goto, Return
  <2>1. ASSUME NEW o, NEW p, Call(x, o, p) PROVE OnlyHere
    BY <2>1 DEF Call
  <2>2. CASE \E c \in CPUs : x = Thread(c) /\ (CallerGuard(c) \/ CallerUnguard(c))
    BY <2>2 DEF CallerGuard, CallerUnguard
  <2>3. CASE PushFlags(x)
    BY <2>3 DEF PushFlags
  <2>4. CASE Cli(x)
    BY <2>4 DEF Cli
  <2>5. CASE LockStep(x) \/ Spin(x)
    BY <2>5 DEF LockStep, Spin, vars
  <2>6. CASE MemEnter(x) \/ MemLeave(x)
    BY <2>6 DEF MemEnter, MemLeave
  <2>7. CASE UnlockStep(x)
    BY <2>7 DEF UnlockStep
  <2>8. CASE Restore(x)
    BY <2>8 DEF Restore
  <2> QED BY <2>1, <2>2, <2>3, <2>4, <2>5, <2>6, <2>7, <2>8 DEF CallStep
<1>2. ASSUME NEW d \in CPUs, d # CPU(x) PROVE GuardsOf(d)'
  BY <1>1, <1>2, ContextParts, GuardsAreLocal DEF GuardsNest, GuardsOf
<1> QED BY <1>2 DEF GuardsNest, GuardsOf

(* Between its guards a thread masks nothing; it saves the flag it found.  *)
LEMMA CallerGuards ==
  ASSUME TypeOK, GuardsNest, NEW c \in CPUs, CallerGuard(c) \/ CallerUnguard(c)
  PROVE  GuardsOf(c)'
<1> USE ContextParts DEF TypeOK, cpuVars, lockVars, Goto, At
<1>1. GuardsOf(c) /\ Running(Thread(c)) /\ ~handler[c]
  BY DEF GuardsNest, GuardsOf, CallerGuard, CallerUnguard, Running
<1>2. /\ intr' = intr /\ handler' = handler /\ saved' = saved /\ system' = system
      /\ pc[Thread(c)] = "idle"
      /\ pc'[Handler(c)] = pc[Handler(c)] /\ op'[Handler(c)] = op[Handler(c)]
  BY DEF CallerGuard, CallerUnguard
<1>3. CASE CallerGuard(c)
  <2>1. /\ system.freestanding /\ Len(saved[Thread(c)]) = 0
        /\ pc'[Thread(c)] = "pushf"
    BY <1>3 DEF CallerGuard
  <2> QED BY <1>1, <1>2, <2>1
       DEF GuardsOf, SavedFlags, ThreadGuards, HandlerGuards, Flag, Inside
<1>4. CASE CallerUnguard(c)
  <2>1. saved[Thread(c)] \in Seq(BOOLEAN) /\ saved[Thread(c)] # <<>>
    BY <1>4 DEF CallerUnguard
  <2>2. Len(saved[Thread(c)]) \in Nat /\ Len(saved[Thread(c)]) # 0
    BY <2>1, EmptySeq
  <2>3. pc'[Thread(c)] = "restore" /\ op' = op
    BY <1>4 DEF CallerUnguard
  <2> QED BY <1>1, <1>2, <2>2, <2>3
       DEF GuardsOf, SavedFlags, ThreadGuards, HandlerGuards, Flag, Inside
<1> QED BY <1>3, <1>4

(* A call begins at its guard.                                             *)
LEMMA CallGuards ==
  ASSUME TypeOK, GuardsNest, NEW x \in Contexts, NEW o \in Operations,
         NEW p \in Blocks \cup {Null}, Call(x, o, p)
  PROVE  GuardsOf(CPU(x))'
<1> DEFINE c == CPU(x)
<1> USE ContextParts DEF TypeOK, cpuVars, lockVars, Goto, At
<1>1. GuardsOf(c) /\ c \in CPUs /\ Running(x)
  BY DEF GuardsNest, GuardsOf, Call
<1>2. /\ intr' = intr /\ handler' = handler /\ saved' = saved /\ system' = system
      /\ pc[x] = "idle" /\ pc'[x] = GuardEntry /\ op'[x] = o /\ o # "irq_save_guard"
      /\ \A y \in Contexts \ {x} : pc'[y] = pc[y] /\ op'[y] = op[y]
  BY DEF Call, Operations, Allocations
<1>3. CASE x = Thread(c)
  <2>1. SavedFlags(c)'
    BY <1>1, <1>2, <1>3 DEF GuardsOf, SavedFlags, ThreadGuards, HandlerGuards
  <2>2. ThreadGuards(c)'
    BY <1>1, <1>2, <1>3 DEF GuardsOf, ThreadGuards, HandlerGuards, Flag, Inside, GuardEntry, Running
  <2>3. HandlerGuards(c)'
    BY <1>1, <1>2, <1>3 DEF GuardsOf, HandlerGuards, GuardEntry, Running
  <2> QED BY <2>1, <2>2, <2>3 DEF GuardsOf
<1>4. CASE x = Handler(c)
  <2>1. SavedFlags(c)'
    BY <1>1, <1>2, <1>4 DEF GuardsOf, SavedFlags, ThreadGuards, HandlerGuards
  <2>2. ThreadGuards(c)'
    BY <1>1, <1>2, <1>4 DEF GuardsOf, ThreadGuards, HandlerGuards, Flag, Inside, GuardEntry, Running
  <2>3. HandlerGuards(c)'
    BY <1>1, <1>2, <1>4 DEF GuardsOf, HandlerGuards, GuardEntry, Running
  <2> QED BY <2>1, <2>2, <2>3 DEF GuardsOf
<1> QED BY <1>3, <1>4, ContextParts

(* Pushing the flags saves what the context sees.                          *)
LEMMA PushGuards ==
  ASSUME TypeOK, GuardsNest, NEW x \in Contexts, PushFlags(x)
  PROVE  GuardsOf(CPU(x))'
<1> DEFINE c == CPU(x)
<1> USE ContextParts DEF TypeOK, lockVars, Goto, At
<1>1. GuardsOf(c) /\ c \in CPUs /\ Running(x)
  BY DEF GuardsNest, GuardsOf, PushFlags
<1>2. /\ intr' = intr /\ handler' = handler /\ system' = system /\ op' = op
      /\ pc[x] = "pushf" /\ pc'[x] = "cli"
      /\ \A y \in Contexts \ {x} : pc'[y] = pc[y] /\ saved'[y] = saved[y]
  BY DEF PushFlags
<1>3. /\ Len(saved'[x]) = Len(saved[x]) + 1
      /\ saved'[x][Len(saved[x]) + 1] = intr[c]
      /\ \A i \in 1 .. Len(saved[x]) : saved'[x][i] = saved[x][i]
      /\ Len(saved[x]) \in Nat
  <2>1. saved[x] \in Seq(BOOLEAN) /\ saved'[x] = Append(saved[x], intr[c])
    BY DEF PushFlags
  <2> QED BY <2>1
<1>4. CASE x = Thread(c)
  <2>1. ~handler[c] /\ Flag(c) = intr[c] /\ Flag(c)' = intr[c]
    BY <1>1, <1>2, <1>4 DEF Running, Flag
  <2>2. system.freestanding
    BY <1>1, <1>2, <1>4 DEF GuardsOf, ThreadGuards, Inside
  <2>3. SavedFlags(c)'
    BY SMTT(30), <1>1, <1>2, <1>3, <1>4, <2>1, <2>2 DEF GuardsOf, SavedFlags, ThreadGuards
  <2>4. ThreadGuards(c)'
    BY SMTT(30), <1>1, <1>2, <1>3, <1>4, <2>1, <2>2 DEF GuardsOf, ThreadGuards, Inside
  <2>5. HandlerGuards(c)'
    BY <1>1, <1>2, <1>4 DEF GuardsOf, HandlerGuards
  <2> QED BY <2>3, <2>4, <2>5 DEF GuardsOf
<1>5. CASE x = Handler(c)
  <2>1. handler[c] /\ ~intr[c] /\ system.freestanding
    BY <1>1, <1>2, <1>5 DEF GuardsOf, HandlerGuards
  <2>2. SavedFlags(c)'
    BY <1>1, <1>2, <1>3, <1>5, <2>1 DEF GuardsOf, SavedFlags, HandlerGuards
  <2>3. ThreadGuards(c)'
    BY <1>1, <1>2, <1>5, <2>1 DEF GuardsOf, ThreadGuards, Inside, Flag
  <2>4. HandlerGuards(c)'
    BY <1>1, <1>2, <1>3, <1>5, <2>1 DEF GuardsOf, HandlerGuards
  <2> QED BY <2>2, <2>3, <2>4 DEF GuardsOf
<1> QED BY <1>4, <1>5, ContextParts

(* Only after cli is the thread's flag off.                                *)
LEMMA CliGuards ==
  ASSUME TypeOK, GuardsNest, NEW x \in Contexts, Cli(x)
  PROVE  GuardsOf(CPU(x))'
<1> DEFINE c == CPU(x)
<1> USE ContextParts DEF TypeOK, lockVars, Goto, At
<1>1. GuardsOf(c) /\ c \in CPUs /\ Running(x) /\ pc[x] = "cli"
  BY DEF GuardsNest, GuardsOf, Cli
<1>2. /\ ~intr'[c] /\ handler' = handler /\ system' = system /\ saved' = saved
      /\ pc'[x] = IF op[x] = "irq_save_guard" THEN "idle" ELSE "lock"
      /\ op'[x] = IF op[x] = "irq_save_guard" THEN "none" ELSE op[x]
      /\ \A y \in Contexts \ {x} : pc'[y] = pc[y] /\ op'[y] = op[y]
  BY DEF Cli, Return
<1>3. CASE x = Thread(c)
  <2>1. SavedFlags(c)'
    BY <1>1, <1>2, <1>3 DEF GuardsOf, SavedFlags
  <2>2. ThreadGuards(c)'
    <3>1. pc[Thread(c)] = "cli" /\ ~handler[c]
      BY <1>1, <1>3 DEF Running
    <3>2. system.freestanding
      BY <1>1, <3>1 DEF GuardsOf, ThreadGuards, Inside
    <3>3. /\ Len(saved[Thread(c)]) = IF intr[c] THEN 1 ELSE 2
          /\ op[Thread(c)] = "irq_save_guard" => intr[c]
      BY <1>1, <3>1, <3>2 DEF GuardsOf, ThreadGuards, Flag
    <3>4. ~Flag(c)' /\ system'.freestanding /\ saved' = saved
      BY <1>2, <3>1, <3>2 DEF Flag
    <3> QED BY <1>2, <1>3, <3>3, <3>4 DEF ThreadGuards, Inside
  <2>3. HandlerGuards(c)'
    BY <1>1, <1>2, <1>3 DEF GuardsOf, HandlerGuards, Running
  <2> QED BY <2>1, <2>2, <2>3 DEF GuardsOf
<1>4. CASE x = Handler(c)
  <2>1. SavedFlags(c)'
    BY <1>1, <1>2, <1>4 DEF GuardsOf, SavedFlags, ThreadGuards, HandlerGuards
  <2>2. ThreadGuards(c)'
    BY <1>1, <1>2, <1>4 DEF GuardsOf, ThreadGuards, HandlerGuards, Flag, Inside, Running
  <2>3. HandlerGuards(c)'
    BY <1>1, <1>2, <1>4 DEF GuardsOf, HandlerGuards, Running
  <2> QED BY <2>1, <2>2, <2>3 DEF GuardsOf
<1> QED BY <1>3, <1>4, ContextParts

(* Under the guard nothing changes the flag or what is saved.              *)
LEMMA LockedGuards ==
  ASSUME TypeOK, GuardsNest, NEW x \in Contexts,
         \/ LockStep(x) \/ Spin(x) \/ MemEnter(x) \/ MemLeave(x) \/ UnlockStep(x)
  PROVE  GuardsOf(CPU(x))'
<1> DEFINE c == CPU(x)
<1> USE ContextParts DEF TypeOK, lockVars, cpuVars, Goto, At
<1>1. GuardsOf(c) /\ c \in CPUs
  BY DEF GuardsNest, GuardsOf
<1>2. /\ intr' = intr /\ handler' = handler /\ system' = system /\ saved' = saved
      /\ pc[x] \in Inside \cup {"lock"}
      /\ \/ pc'[x] \in Inside \cup {"lock"} /\ op'[x] = op[x]
         \/ system.freestanding /\ pc'[x] = "restore" /\ op'[x] = op[x]
         \/ ~system.freestanding /\ pc'[x] = "idle" /\ op'[x] = "none"
      /\ \A y \in Contexts \ {x} : pc'[y] = pc[y] /\ op'[y] = op[y]
  BY DEF LockStep, Spin, MemEnter, MemLeave, UnlockStep, Return, Inside, vars
<1>3. CASE x = Thread(c)
  BY <1>1, <1>2, <1>3
  DEF GuardsOf, SavedFlags, ThreadGuards, HandlerGuards, Flag, Inside
<1>4. CASE x = Handler(c)
  BY <1>1, <1>2, <1>4
  DEF GuardsOf, SavedFlags, ThreadGuards, HandlerGuards, Flag, Inside
<1> QED BY <1>3, <1>4, ContextParts

(* The flag that is popped is the one the guard found.                     *)
LEMMA RestoreGuards ==
  ASSUME TypeOK, GuardsNest, NEW x \in Contexts, Restore(x)
  PROVE  GuardsOf(CPU(x))'
<1> DEFINE c == CPU(x)
           n == Len(saved[x])
<1> USE ContextParts DEF TypeOK, lockVars, Goto, At
<1>1. GuardsOf(c) /\ c \in CPUs /\ Running(x) /\ pc[x] = "restore"
  BY DEF GuardsNest, GuardsOf, Restore
<1>2. /\ intr'[c] <=> intr[c] \/ saved[x][n]
      /\ handler' = handler /\ system' = system
      /\ pc'[x] = "idle" /\ op'[x] = "none"
      /\ \A y \in Contexts \ {x} : pc'[y] = pc[y] /\ op'[y] = op[y] /\ saved'[y] = saved[y]
  BY DEF Restore, Return
<1>3. n \in {1, 2}
  BY <1>1, ContextParts DEF GuardsOf, ThreadGuards, HandlerGuards, Inside
<1> HIDE DEF c, n
<1>4. /\ Len(saved'[x]) = n - 1
      /\ \A i \in 1 .. n - 1 : saved'[x][i] = saved[x][i]
  <2>1. /\ saved[x] \in Seq(BOOLEAN) /\ n = Len(saved[x])
        /\ saved'[x] = SubSeq(saved[x], 1, n - 1)
    BY DEF Restore, n
  <2>2. CASE n = 1
    BY <2>1, <2>2, SubSeqProperties
  <2>3. CASE n = 2
    BY <2>1, <2>3, SubSeqProperties
  <2> QED BY <1>3, <2>2, <2>3
<1>5. CASE x = Thread(c)
  <2>1. system.freestanding /\ ~handler[c] /\ ~intr[c]
    BY <1>1, <1>5 DEF GuardsOf, ThreadGuards, Inside, Flag
  <2>2. \A i \in 1 .. n : saved[x][i] <=> i = 1
    BY <1>1, <1>5 DEF GuardsOf, SavedFlags, n
  <2>3. Flag(c)' <=> n = 1
    <3>1. n \in 1 .. n
      BY <1>3
    <3>2. saved[x][n] <=> n = 1
      BY <3>1, <2>2
    <3> QED BY <1>2, <2>1, <3>2 DEF Flag
  <2>4. SavedFlags(c)'
    <3>1. \A i \in 1 .. Len(saved'[x]) : saved'[x][i] <=> i = 1
      <4>1. 1 .. Len(saved'[x]) \subseteq 1 .. n
        BY <1>3, <1>4
      <4>2. \A i \in 1 .. Len(saved'[x]) : saved'[x][i] = saved[x][i]
        BY <1>4
      <4> QED BY <4>1, <4>2, <2>2
    <3>2. saved'[Handler(c)] = saved[Handler(c)]
      BY <1>1, <1>2, <1>5
    <3> QED BY <1>1, <1>5, <3>1, <3>2 DEF GuardsOf, SavedFlags
  <2>5. ThreadGuards(c)'
    BY SMTT(30), <1>2, <1>3, <1>4, <1>5, <2>1, <2>3 DEF ThreadGuards, Inside
  <2>6. HandlerGuards(c)'
    BY <1>1, <1>2, <1>5, <2>1 DEF GuardsOf, HandlerGuards
  <2> QED BY <2>4, <2>5, <2>6 DEF GuardsOf, c
<1>6. CASE x = Handler(c)
  <2>1. system.freestanding /\ handler[c] /\ ~intr[c] /\ n = 1
    BY <1>1, <1>6 DEF GuardsOf, HandlerGuards, n
  <2>2. ~saved[x][n]
    <3>1. \A i \in 1 .. n : ~saved[x][i]
      BY <1>1, <1>6 DEF GuardsOf, SavedFlags, n
    <3> QED BY <3>1, <2>1
  <2>3. SavedFlags(c)'
    <3>1. saved'[Thread(c)] = saved[Thread(c)]
      BY <1>1, <1>2, <1>6
    <3>2. 1 .. Len(saved'[x]) = {}
      BY <1>4, <2>1
    <3> QED BY <1>1, <1>6, <3>1, <3>2 DEF GuardsOf, SavedFlags
  <2>4. ThreadGuards(c)'
    BY <1>1, <1>2, <1>6, <2>1, <2>2 DEF GuardsOf, ThreadGuards, Flag
  <2>5. HandlerGuards(c)'
    <3>1. ~intr'[c]
      BY <1>2, <2>1, <2>2
    <3>2. Len(saved'[x]) = 0
      BY <1>4, <2>1
    <3> QED BY <1>2, <1>6, <2>1, <3>1, <3>2 DEF HandlerGuards
  <2> QED BY <2>3, <2>4, <2>5 DEF GuardsOf, c
<1> QED BY <1>5, <1>6, ContextParts DEF c

(* The guards nest whatever the contexts of all CPUs do.                   *)
LEMMA GuardStep == TypeOK /\ GuardsNest /\ [Next]_vars => GuardsNest'
<1> SUFFICES ASSUME TypeOK, GuardsNest, [Next]_vars PROVE GuardsNest'
  OBVIOUS
<1>1. ASSUME NEW c \in CPUs, Interrupt(c) \/ InterruptReturn(c) PROVE GuardsNest'
  BY <1>1, InterruptGuards
<1>2. ASSUME NEW c \in CPUs, CallerGuard(c) \/ CallerUnguard(c) PROVE GuardsNest'
  <2>1. Thread(c) \in Contexts /\ CPU(Thread(c)) = c
    BY ContextParts
  <2> QED BY <1>2, <2>1, CallerGuards, OtherCPUs
<1>3. ASSUME NEW x \in Contexts, NEW o \in Operations, NEW p \in Blocks \cup {Null},
             Call(x, o, p)
      PROVE  GuardsNest'
  BY <1>3, CallGuards, OtherCPUs
<1>4. ASSUME NEW x \in Contexts, CallStep(x) PROVE GuardsNest'
  <2>1. GuardsOf(CPU(x))'
    BY <1>4, PushGuards, CliGuards, LockedGuards, RestoreGuards DEF CallStep
  <2> QED BY <1>4, <2>1, OtherCPUs
<1>5. CASE UNCHANGED vars
  BY <1>5 DEF vars, GuardsNest, SavedFlags, ThreadGuards, HandlerGuards, Flag
<1> QED BY <1>1, <1>2, <1>3, <1>4, <1>5 DEF Next

-----------------------------------------------------------------------------
(* gLock is held by the context between its lock() and its unlock().       *)
LEMMA OwnerStep == TypeOK /\ OwnerIsInside /\ [Next]_vars => OwnerIsInside'
<1> SUFFICES ASSUME TypeOK, OwnerIsInside, [Next]_vars PROVE OwnerIsInside'
  OBVIOUS
<1> USE DEF TypeOK, lockVars, heapVars, cpuVars, At, Goto
<1>1. ASSUME NEW x \in Contexts, owner' = owner,
             \A y \in Contexts \ {x} : pc'[y] = pc[y],
             pc'[x] \in Inside <=> pc[x] \in Inside
      PROVE  OwnerIsInside'
  BY <1>1 DEF OwnerIsInside
<1>2. ASSUME NEW c \in CPUs, \/ Interrupt(c) \/ InterruptReturn(c)
                             \/ CallerGuard(c) \/ CallerUnguard(c)
      PROVE  OwnerIsInside'
  <2>1. Thread(c) \in Contexts
    BY ContextParts
  <2> QED BY <1>1, <1>2, <2>1
       DEF Interrupt, InterruptReturn, CallerGuard, CallerUnguard, Inside
<1>3. ASSUME NEW x \in Contexts, NEW o, NEW p, Call(x, o, p) PROVE OwnerIsInside'
  BY <1>1, <1>3 DEF Call, GuardEntry, Inside
<1>4. ASSUME NEW x \in Contexts,
             PushFlags(x) \/ Cli(x) \/ Spin(x) \/ MemEnter(x) \/ MemLeave(x) \/ Restore(x)
      PROVE  OwnerIsInside'
  BY <1>1, <1>4
  DEF PushFlags, Cli, Spin, MemEnter, MemLeave, Restore, Return, Inside, vars
<1>5. ASSUME NEW x \in Contexts, LockStep(x) PROVE OwnerIsInside'
  <2>1. owner = NoOwner /\ owner' = x /\ pc'[x] \in Inside
    BY <1>5 DEF LockStep, gLock!Acquire, Inside
  <2>2. \A y \in Contexts \ {x} : pc'[y] = pc[y]
    BY <1>5 DEF LockStep
  <2> QED BY <2>1, <2>2, NamesAssumption DEF OwnerIsInside
<1>6. ASSUME NEW x \in Contexts, UnlockStep(x) PROVE OwnerIsInside'
  <2>1. owner = x /\ owner' = NoOwner /\ pc'[x] \notin Inside
    BY <1>6 DEF UnlockStep, gLock!Release, Return, Inside
  <2>2. \A y \in Contexts \ {x} : pc'[y] = pc[y]
    BY <1>6 DEF UnlockStep, Return
  <2> QED BY <2>1, <2>2, NamesAssumption DEF OwnerIsInside
<1>7. CASE UNCHANGED vars
  BY <1>7 DEF vars, OwnerIsInside
<1> QED BY <1>2, <1>3, <1>4, <1>5, <1>6, <1>7 DEF Next, CallStep

-----------------------------------------------------------------------------
HeapInv == ArgumentIsOwned /\ ResultIsFree /\ NoDoubleAllocation

(* Outside mem_* a step leaves the heap alone, and a call passes only what *)
(* its caller owns.                                                        *)
LEMMA QuietHeap ==
  ASSUME HeapInv, NEW x \in Contexts, used' = used, owned' = owned,
         \A y \in Contexts \ {x} : pc'[y] = pc[y] /\ arg'[y] = arg[y] /\ res'[y] = res[y],
         pc'[x] = "leave" => res'[x] \notin used,
         \/ pc'[x] \in {"unlock", "restore"}
         \/ arg'[x] = Null
         \/ pc'[x] # "idle" /\ arg'[x] \in owned[x]
  PROVE  HeapInv'
<1>1. ArgumentIsOwned'
  BY DEF HeapInv, ArgumentIsOwned
<1>2. ResultIsFree'
  BY DEF HeapInv, ResultIsFree
<1>3. NoDoubleAllocation'
  BY DEF HeapInv, NoDoubleAllocation
<1> QED BY <1>1, <1>2, <1>3 DEF HeapInv

(* mem_* gives what it chose and takes back what it was passed; no other   *)
(* context can have been given the same in between, for it would own gLock.*)
LEMMA LeaveHeap ==
  ASSUME TypeOK, OwnerIsInside, HeapInv, NEW x \in Contexts, MemLeave(x)
  PROVE  HeapInv'
<1> DEFINE given == {res[x]} \ {Null}
           freed == IF op[x] = "free" \/ res[x] # Null THEN {arg[x]} \ {Null} ELSE {}
<1>1. /\ used' = (used \ freed) \cup given
      /\ owned'[x] = (owned[x] \ freed) \cup given
      /\ \A y \in Contexts \ {x} : owned'[y] = owned[y] /\ pc'[y] = pc[y]
      /\ arg' = arg /\ res' = res /\ pc[x] = "leave" /\ pc'[x] = "unlock"
  BY DEF MemLeave, TypeOK, Goto, At
<1>2. given \cap used = {} /\ freed \subseteq owned[x]
  BY <1>1 DEF HeapInv, ResultIsFree, ArgumentIsOwned
<1>3. /\ \A y, z \in Contexts : y # z => owned[y] \cap owned[z] = {}
      /\ \A b : b \in used <=> \E y \in Contexts : b \in owned[y]
  BY DEF HeapInv, NoDoubleAllocation
<1> HIDE DEF given, freed
<1>4. ArgumentIsOwned'
  BY <1>1 DEF HeapInv, ArgumentIsOwned
<1>5. \A y \in Contexts \ {x} : pc[y] # "leave"
  BY <1>1 DEF OwnerIsInside, Inside
<1>6. ResultIsFree'
  BY <1>1, <1>5 DEF ResultIsFree
<1>7. NoDoubleAllocation'
  <2>1. \A y, z \in Contexts : y # z => owned'[y] \cap owned'[z] = {}
    BY <1>1, <1>2, <1>3
  <2>2. \A b : b \in used' <=> \E y \in Contexts : b \in owned'[y]
    <3> TAKE b
    <3>1. ASSUME b \in used' PROVE \E y \in Contexts : b \in owned'[y]
      BY <3>1, <1>1, <1>3
    <3>2. ASSUME NEW y \in Contexts, b \in owned'[y] PROVE b \in used'
      BY <3>2, <1>1, <1>2, <1>3
    <3> QED BY <3>1, <3>2
  <2> QED BY <2>1, <2>2 DEF NoDoubleAllocation
<1> QED BY <1>4, <1>6, <1>7 DEF HeapInv

(* Every block has one owner, whatever calls interleave.                   *)
LEMMA HeapStep == TypeOK /\ OwnerIsInside /\ HeapInv /\ [Next]_vars => HeapInv'
<1> SUFFICES ASSUME TypeOK, OwnerIsInside, HeapInv, [Next]_vars PROVE HeapInv'
  OBVIOUS
<1> USE DEF TypeOK, lockVars, heapVars, cpuVars, At, Goto
<1>1. ASSUME NEW x \in Contexts, pc[x] \notin {"leave", "unlock", "restore"}
      PROVE  arg[x] # Null => pc[x] # "idle" /\ arg[x] \in owned[x]
  BY <1>1 DEF HeapInv, ArgumentIsOwned
<1>2. ASSUME NEW c \in CPUs, Interrupt(c) \/ InterruptReturn(c) PROVE HeapInv'
  BY <1>2 DEF Interrupt, InterruptReturn,
              HeapInv, ArgumentIsOwned, ResultIsFree, NoDoubleAllocation
<1>3. ASSUME NEW c \in CPUs, CallerGuard(c) \/ CallerUnguard(c) PROVE HeapInv'
  <2>1. Thread(c) \in Contexts
    BY ContextParts
  <2> QED BY ZenonT(60), <1>1, <1>3, <2>1, QuietHeap DEF CallerGuard, CallerUnguard
<1>4. ASSUME NEW x \in Contexts, NEW o \in Operations, NEW p \in Blocks \cup {Null},
             Call(x, o, p)
      PROVE  HeapInv'
  <2>1. /\ used' = used /\ owned' = owned
        /\ \A y \in Contexts \ {x} : pc'[y] = pc[y] /\ arg'[y] = arg[y] /\ res'[y] = res[y]
        /\ pc'[x] \in {"pushf", "lock"} /\ arg'[x] = p /\ p \in owned[x] \cup {Null}
    BY <1>4 DEF Call, GuardEntry
  <2> QED BY <2>1, QuietHeap
<1>5. ASSUME NEW x \in Contexts, PushFlags(x) \/ Cli(x) \/ LockStep(x) PROVE HeapInv'
  <2>1. pc[x] \in {"pushf", "cli", "lock"}
    BY <1>5 DEF PushFlags, Cli, LockStep
  <2>2. arg[x] # Null => arg[x] \in owned[x]
    BY <1>1, <2>1
  <2>3. /\ used' = used /\ owned' = owned
        /\ \A y \in Contexts \ {x} : pc'[y] = pc[y] /\ arg'[y] = arg[y] /\ res'[y] = res[y]
        /\ pc'[x] # "leave"
    BY <1>5 DEF PushFlags, Cli, LockStep, Return
  <2>4. arg'[x] = Null \/ (pc'[x] # "idle" /\ arg'[x] \in owned[x])
    BY <1>5, <2>2 DEF PushFlags, Cli, LockStep, Return
  <2> QED BY <2>3, <2>4, QuietHeap
<1>6. ASSUME NEW x \in Contexts, MemEnter(x) PROVE HeapInv'
  <2>1. used \subseteq Blocks
    OBVIOUS
  <2>2. res'[x] \notin used
    BY <1>6, <2>1, NamesAssumption DEF MemEnter
  <2> QED BY <1>1, <1>6, <2>2, QuietHeap DEF MemEnter
<1>7. ASSUME NEW x \in Contexts, MemLeave(x) PROVE HeapInv'
  BY <1>7, LeaveHeap
<1>8. ASSUME NEW x \in Contexts, UnlockStep(x) \/ Restore(x) PROVE HeapInv'
  BY <1>8, QuietHeap DEF UnlockStep, Restore, Return
<1>9. CASE UNCHANGED vars
  BY <1>9 DEF vars, HeapInv, ArgumentIsOwned, ResultIsFree, NoDoubleAllocation
<1>10. ASSUME NEW x \in Contexts, Spin(x) PROVE HeapInv'
  BY <1>9, <1>10 DEF Spin
<1> QED BY <1>2, <1>3, <1>4, <1>5, <1>6, <1>7, <1>8, <1>9, <1>10 DEF Next, CallStep

-----------------------------------------------------------------------------
LEMMA InitInvariant == Init => EntryPointsInv
<1> SUFFICES ASSUME Init PROVE EntryPointsInv
  OBVIOUS
<1>1. /\ \A x \in Contexts : /\ pc[x] = "idle" /\ op[x] = "none" /\ saved[x] = <<>>
                             /\ owned[x] = {} /\ arg[x] = Null /\ res[x] = Null
      /\ \A c \in CPUs : intr[c] /\ ~handler[c]
      /\ owner = NoOwner /\ used = {}
  BY DEF Init, gLock!Init
<1>2. OwnerIsInside
  BY <1>1, NamesAssumption DEF OwnerIsInside, Inside
<1>3. GuardsNest
  <2> SUFFICES ASSUME NEW c \in CPUs
               PROVE  SavedFlags(c) /\ ThreadGuards(c) /\ HandlerGuards(c)
    BY DEF GuardsNest
  <2>1. Len(saved[Thread(c)]) = 0 /\ Len(saved[Handler(c)]) = 0
    BY <1>1, ContextParts
  <2>2. SavedFlags(c)
    BY <2>1 DEF SavedFlags
  <2>3. ThreadGuards(c) /\ HandlerGuards(c)
    BY <1>1, <2>1, ContextParts DEF ThreadGuards, HandlerGuards, Flag, Inside
  <2> QED BY <2>2, <2>3
<1>4. ArgumentIsOwned /\ ResultIsFree
  BY <1>1 DEF ArgumentIsOwned, ResultIsFree
<1>5. NoDoubleAllocation
  <2>1. UNION {owned[x] : x \in Contexts} = {}
    BY <1>1
  <2> QED BY <1>1, <2>1 DEF NoDoubleAllocation
<1> QED BY <1>2, <1>3, <1>4, <1>5, InitTypeOK DEF EntryPointsInv

(* The inductive invariant: guards nest, gLock has the owner its critical  *)
(* section says, and blocks have one owner.                                *)
THEOREM AllocatorInvariant == Spec => []EntryPointsInv
<1>1. EntryPointsInv /\ [Next]_vars => EntryPointsInv'
  BY TypeStep, OwnerStep, GuardStep, HeapStep DEF EntryPointsInv, HeapInv
<1> QED BY <1>1, InitInvariant, PTL DEF Spec

(* The variables keep their types on any number of CPUs.                   *)
THEOREM AllocatorTypes == Spec => []TypeOK
<1>1. EntryPointsInv => TypeOK
  BY DEF EntryPointsInv
<1> QED BY <1>1, AllocatorInvariant, PTL

(* No block is ever given to two callers, or given twice.                  *)
THEOREM BlocksHaveOneOwner == Spec => []NoDoubleAllocation
<1>1. EntryPointsInv => NoDoubleAllocation
  BY DEF EntryPointsInv
<1> QED BY <1>1, AllocatorInvariant, PTL

(* No handler ever sits on top of the holder of gLock, so a handler that   *)
(* calls the allocator cannot spin on a lock its own CPU holds.            *)
THEOREM HolderRuns == Spec => []HolderIsRunning
<1>1. EntryPointsInv => HolderIsRunning
  <2> SUFFICES ASSUME EntryPointsInv, owner # NoOwner
               PROVE  Running(owner) /\ (system.freestanding => ~intr[CPU(owner)])
    BY DEF HolderIsRunning
  <2> DEFINE c == CPU(owner)
  <2>1. owner \in Contexts /\ pc[owner] \in Inside /\ c \in CPUs
    BY ContextParts DEF EntryPointsInv, TypeOK, OwnerIsInside
  <2>2. ThreadGuards(c) /\ HandlerGuards(c)
    BY <2>1 DEF EntryPointsInv, GuardsNest
  <2>3. CASE owner = Thread(c)
    BY <2>1, <2>2, <2>3 DEF ThreadGuards, HandlerGuards, Flag, Running, Inside
  <2>4. CASE owner = Handler(c)
    BY <2>1, <2>2, <2>4 DEF HandlerGuards, Running, Inside
  <2> QED BY <2>1, <2>3, <2>4, ContextParts
<1> QED BY <1>1, AllocatorInvariant, PTL

(* The guards leave the interrupt flag as they found it, however they nest *)
(* and whatever handlers do in between.                                    *)
THEOREM FlagRestored == Spec => []FlagIsRestored
<1>1. EntryPointsInv => FlagIsRestored
  <2> SUFFICES ASSUME EntryPointsInv, NEW c \in CPUs
               PROVE  /\ handler[c] => ~intr[c]
                      /\ ~handler[c] /\ pc[Thread(c)] = "idle" =>
                           intr[c] = (saved[Thread(c)] = <<>>)
    BY DEF FlagIsRestored
  <2>1. ThreadGuards(c) /\ HandlerGuards(c)
    BY DEF EntryPointsInv, GuardsNest
  <2>2. intr[c] \in BOOLEAN /\ saved[Thread(c)] \in Seq(BOOLEAN)
    BY ContextParts DEF EntryPointsInv, TypeOK
  <2>3. saved[Thread(c)] = <<>> <=> Len(saved[Thread(c)]) = 0
    BY <2>2, EmptySeq
  <2>4. ASSUME ~handler[c], pc[Thread(c)] = "idle"
        PROVE  intr[c] <=> Len(saved[Thread(c)]) = 0
    BY <2>1, <2>4 DEF ThreadGuards, Flag
  <2> QED BY <2>1, <2>2, <2>3, <2>4 DEF HandlerGuards
<1> QED BY <1>1, AllocatorInvariant, PTL

-----------------------------------------------------------------------------
(* What a call gives and takes back is one step of the abstract allocator. *)
LEMMA LeaveRefines ==
  ASSUME EntryPointsInv, NEW x \in Contexts, MemLeave(x)
  PROVE  [Promised!Next]_owned
<1> DEFINE b == res[x]
           a == arg[x]
<1>1. /\ b \in Blocks \cup {Null} /\ a \in Blocks \cup {Null}
      /\ owned \in [Contexts -> SUBSET Blocks]
      /\ pc[x] = "leave"
  BY DEF EntryPointsInv, TypeOK, MemLeave, At
<1>2. a # Null => a \in owned[x]
  BY <1>1 DEF EntryPointsInv, ArgumentIsOwned
<1>3. b # Null => Promised!Available(b)
  BY <1>1 DEF EntryPointsInv, ResultIsFree, NoDoubleAllocation, Promised!Available
<1>4. owned' = [owned EXCEPT ![x] =
        (@ \ (IF op[x] = "free" \/ b # Null THEN {a} \ {Null} ELSE {})) \cup ({b} \ {Null})]
  BY DEF MemLeave
<1> HIDE DEF a, b
<1>5. CASE b # Null /\ a # Null
  <2>1. Promised!Replace(x, a, b)
    BY <1>1, <1>2, <1>3, <1>4, <1>5 DEF Promised!Replace
  <2> QED BY <1>1, <1>5, <2>1 DEF Promised!Next
<1>6. CASE b # Null /\ a = Null
  <2>1. Promised!Give(x, b)
    BY <1>1, <1>3, <1>4, <1>6 DEF Promised!Give
  <2> QED BY <1>1, <1>6, <2>1 DEF Promised!Next
<1>7. CASE b = Null /\ a # Null /\ op[x] = "free"
  <2>1. Promised!TakeBack(x, a)
    BY <1>1, <1>2, <1>4, <1>7 DEF Promised!TakeBack
  <2> QED BY <1>1, <1>7, <2>1 DEF Promised!Next
<1>8. CASE b = Null /\ (a = Null \/ op[x] # "free")
  BY <1>1, <1>4, <1>8
<1> QED BY <1>5, <1>6, <1>7, <1>8

(* To its callers the allocator is atomic: each call of an entry point     *)
(* gives, takes back or replaces a block in one step, of those nobody has. *)
THEOREM KeepsPromise == Spec => PromisedSpec
<1>1. Init => Promised!Init
  BY DEF Init, Promised!Init
<1>2. EntryPointsInv /\ [Next]_vars => [Promised!Next]_owned
  <2> SUFFICES ASSUME EntryPointsInv, [Next]_vars PROVE [Promised!Next]_owned
    OBVIOUS
  <2>1. ASSUME NEW x \in Contexts, MemLeave(x) PROVE [Promised!Next]_owned
    BY <2>1, LeaveRefines
  <2>2. ASSUME NEW c \in CPUs, \/ Interrupt(c) \/ InterruptReturn(c)
                               \/ CallerGuard(c) \/ CallerUnguard(c)
        PROVE  owned' = owned
    BY <2>2 DEF Interrupt, InterruptReturn, CallerGuard, CallerUnguard, heapVars
  <2>3. ASSUME NEW x \in Contexts,
               \/ \E o \in Operations, p \in Blocks \cup {Null} : Call(x, o, p)
               \/ PushFlags(x) \/ Cli(x) \/ LockStep(x) \/ Spin(x) \/ MemEnter(x)
               \/ UnlockStep(x) \/ Restore(x)
        PROVE  owned' = owned
    BY <2>3 DEF Call, PushFlags, Cli, LockStep, Spin, MemEnter, UnlockStep, Restore,
                heapVars, vars
  <2> QED BY <2>1, <2>2, <2>3 DEF Next, CallStep, vars
<1> QED BY <1>1, <1>2, AllocatorInvariant, PTL DEF Spec, PromisedSpec, Promised!Spec
=============================================================================
