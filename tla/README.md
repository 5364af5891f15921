# TLA+ specifications of osdev-libstdc

osdev-libstdc is a freestanding C/C++ support library for an x86 kernel: atomics,
a spin lock, locked allocator entry points, the string functions of libc and a
`printf` family. This directory models the parts of it whose correctness depends
on an order of events or on a boundary, checks them with TLC and proves the
central ones with TLAPS. Paths below are relative to the repository root; line
numbers of every definition are in `PROJECT.json` under `map`.

## The system

| component | state it keeps | operations | who uses it |
|---|---|---|---|
| atomics, `include/atomic.h` | one value per `atomic`/`atomic_ref` | assignment, conversion, `store`, `load`, `exchange`, `compare_exchange_weak/strong`, each with a memory order; `__cas_failure_order` | the spin lock, the kernel |
| spin lock, `include/dux/spin_lock.h` | `_M_value`, an atomic 0 or 1 | `lock`, `try_lock`, `unlock`; `std::lock_guard` | the allocator, the kernel |
| interrupt guards, `spin_lock.h` and `include/arch/x86/asm/cpu.h` | the saved interrupt flag, per guard | `irq_save_disable`, `irq_restore`, `irq_save_guard`, `irq_save_lock_guard` | the allocator, the kernel |
| allocator entry points, `src/malloc.cpp` | `gLock` | `malloc`, `calloc`, `realloc`, `aligned_alloc`, `free`, `libstdc_allocator_initialize` | everyone, `strdup` |
| allocator (git submodule, not in the tree) | the heap | `mem_*` | `src/malloc.cpp` only |
| tokenizer, `src/cstring.cpp` | the saved pointer; the string itself, cut in place | `strtok_r`, `strtok` | callers |
| block copies, `src/cstring.cpp` | memory | `memcpy`, `mempcpy`, `memmove` | `vsnprintf`, `strlcpy`, callers |
| other string functions, `src/cstring.cpp`, `posix/posix_strings.cpp` | memory | building strings (`strcpy` to `strlcat`), searching, comparing | `vsnprintf`, `strtok_r`, callers |
| formatted output, `src/vsnprintf.cpp` | cursor, counters and the spec of the directive at hand | `vsnprintf`, `snprintf`, `sprintf` | callers |
| `src/cctype.cpp`, `src/strerror.cpp` | none, or a constant table; `errno` | the character classes and case functions; `strerror` | the string functions, callers |
| `src/abort.cpp`, headers | none | `abort`, `min`, `max` | everyone |

Interaction: the entry points of `malloc.cpp` construct a guard, which masks
interrupts (kernel build) and takes `gLock`; `gLock` is a `spin_lock`, which is an
`atomic<int>`. `vsnprintf` stores through `memset` and `mempcpy` and measures strings
with `strnlen`. `strtok` is `strtok_r` on a static pointer, and both walk the string
with `strspn` and `strcspn`.

### What is hard here

* **Memory order.** The lock protects plain data only through the acquire of its
  compare-exchange and the release of its store. Tests run on x86, where weaker orders
  pass too.
* **Interrupts.** A handler that allocates on the CPU whose thread holds `gLock` spins
  for ever. The guard must close the window on both ends and restore, not set, the flag,
  because guards nest.
* **Waiting.** A waiter may read a stale lock word, and may lose the race any number of
  times.
* **State left over from an earlier call.** `strtok_r` continues from a pointer that an
  unsuccessful call does not move.
* **Boundaries.** Overlapping blocks; text and padding that share the last bytes of a
  buffer; the zero flag emulated by a precision; comparisons of arrays that end exactly at
  the count; characters that are negative as `char` and above 127 as `unsigned char`.
* **Lists that must agree.** Thirteen character classes; the error numbers, the table of
  their texts and the check in front of it; the syntax of a directive.

What makes each component correct: the atomics let a failed compare-exchange acquire as
its success would, and count and elect exactly once; the lock excludes, publishes and is
handed on; a guard leaves the flag as it found it and never lets the holder be
interrupted; the allocator is entered by one context at a time; tokens partition
the string; a copied block equals the original; formatted output is the prefix of its
expansion that fits, terminated and counted. `PROJECT.json` lists the hazards line by
line with the property that covers each, or the reason none does.

## Modules

| module | models | state and actions |
|---|---|---|
| `Atomic` | `atomic.h` over release/acquire memory | `mo[l]` is the modification order of location `l`; `view[t][l]` the oldest message thread `t` may still read; `sc` the view seq_cst operations share. `Store`, `Load`, `Exchange`, `CompareExchange…` are the calls |
| `AtomicClients` | programs of threads over `Atomic` | two threads storing and loading crosswise, two passing a message through a failing compare-exchange, any number counting in a loop, electing one by `exchange`, and counting under the exchange locks of `benchmarks/spin_ttas_vs_tas_bench.cpp` (`TasLock`, `TtasLock`, `TryLock`) |
| `AtomicClientsProofs` | | theorems about `AtomicClients` |
| `AbstractLock` | what a lock promises | `owner`, `Acquire`, `Release` |
| `SpinLock` | `spin_lock` and `lock_guard`, with the counting client of `tests/spin_lock_test.cpp` | one step per atomic access: `Lock`, `SpinLoad`, `LockCasOk/Fail`, `TryLockOk/Fail`, `CounterLoad`, `CounterStore`, `Unlock` |
| `SpinLockProofs` | | theorems about `SpinLock` |
| `AllocatorLock` | `malloc.cpp` under both guards, CPUs with an interrupt flag | `PushFlags` and `Cli` are separate steps, so that an `Interrupt` can come between; `LockStep`/`Spin`, `MemEnter`/`MemLeave`, `UnlockStep`, `Restore`; `CallerGuard` is a guard of the caller's own |
| `AbstractAllocator` | what `malloc` and its relatives promise | `owned[c]`, the blocks of caller `c`; `Give`, `TakeBack`, `Replace`: a call is one step, and gives only blocks nobody has |
| `AllocatorLockProofs` | | theorems about `AllocatorLock` |
| `Strtok` | `strtok_r`, `strtok`, `strspn`, `strcspn` | `saved[s]` is `*saveptr`; a slot in `Unsaved` is a client that passes a null `saveptr` (`OldStr`, `Save`); a call is one step with three outcomes: `NothingSaved`, `NoToken`, `Token` |
| `StrtokProofs` | | theorems about `Strtok` |
| `MemoryCopy` | `memcpy`, `mempcpy`, `memmove` | one step per byte; `StartForward`, `StartBackward`, `CopyForward`, `CopyBackward`, `Return` |
| `MemoryCopyProofs` | | theorems about `MemoryCopy` |
| `StringCopy` | `strcpy`, `strncpy`, `strcat`, `strncat`, `stpcpy`, `strdup`, `mempcpy`, `memset`, `bzero`, `memccpy`, `strrev`, `strupr`, `strlwr`, `strlcpy`, `strlcat` | one action per function, a step per iteration; `Seek`, `Found`, `NotFound` are the search for the end that the appending functions share. `Promised` states each function in terms of texts |
| `StringCopyProofs` | | theorems about `StringCopy` |
| `StringSearch` | `memchr`, `memrchr`, `strchr`, `strrchr`, `index`, `rindex`, `strlen`, `strnlen`, `memcmp`, `strcmp`, `strncmp`, `strcasecmp`, `strncasecmp`, `strspn`, `strcspn`, `strpbrk`, `strstr`, `ffs`, `ffsl`, `ffsll`, and calls of `CType` and `StrError` | `call` holds the arguments, `read` the bytes read so far; one action per function, a step per iteration. `Owed` states what a caller must provide, `Promised` the result in terms of the sets of matching offsets; `AsDocumented` is what five documents say beyond that |
| `StringSearchProofs` | | theorems about `StringSearch`, `CType` and `StrError` |
| `CType` | `cctype.cpp` | of each class the set of ints it accepts; `tolower`, `toupper`, `toascii` |
| `StrError` | `strerror.cpp`, the numbers of `cerrno.h` | `kErrorStrings` by the error each text describes; `strerror` |
| `FormatNumber` | the directives: their syntax (`ParseFlags`, `ParsePrecision`, `ParseSizeSpecifier`) and their conversion to text and width | `Text` writes a directive the way a client would, `Parsed` is what the code reads from it; `Field`, `FormatNumber`, `NumberToString`, …; `FieldByC` is the reference, taken from the directive before it was written |
| `Vsnprintf` | the loop and `put_with_field_width` | `pos` is the cursor, `written` the loop's own count of bytes, `room` what is left of `size`; one step per iteration: `Byte`, `StoreCount`, `Convert`, and `Finish` |
| `VsnprintfProofs` | | theorems about `Vsnprintf` |
| `MC…` | the instances TLC checks | constants and symmetry only |

`SpinLock` takes `Atomic`'s memory by INSTANCE. `AllocatorLock` takes its lock from
`AbstractLock`; `SpinLock` is proved to implement `AbstractLock`, so the detail of the
lock word need not be repeated for every context. `AllocatorLock` in turn implements
`AbstractAllocator`. `Vsnprintf` EXTENDS `FormatNumber`,
`StringSearch` EXTENDS `CType` and `StrError`. `AllocatorLock`, `Vsnprintf` and
`StringSearch` take their clients as a constant (`Systems`, `Clients`, `Calls`), chosen in
`Init`, so that one run covers several of them.

Each module states its type invariant once: on its own (`TypeOK`) where it is useful
alone, as a conjunct of the inductive invariant where there is one (`ClientsInv`,
`SpinLockInv`, `EntryPointsInv`, `TokenizerInv`, `CopyInv`, `BuildInv`, `SearchInv`,
`FormatInv`, in the order of the table). Runs check it with the properties it is there for.

Definitions whose comment begins "A seeded bug" are not part of any specification: each
is the next definition with a mistake in it. `PROJECT.json` (`mutants`) pairs it with
the property that notices the mistake.

### Abstractions

* Memory: stores are appended to the modification order of their location (`mo`); a
  load reads any message not older than its thread's view. seq_cst operations also join a
  shared view, a usual and slightly stronger approximation of C++'s. No out-of-thin-air
  values, no consume. The counter of the client is accessed with relaxed operations of
  the same memory and races are found by `NoDataRace`.
* `cpu_relax` has no effect on state. `this` and `addressof` are the location.
* An interrupt is taken through an interrupt gate, one handler per CPU at a time. The
  handler calls the allocator like a thread. One caller-owned guard per thread bounds the
  nesting. A block is freed by the context it was given to.
* The allocator proper is external: it chooses a free block in one step (or fails) and
  takes it in another.
* `strtok`: strings are sequences ending in NUL. Each string belongs to the slot it was
  last passed in for. The history variables `current`, `orig`, `tokens`, `ended` are
  read by properties only, except that `ended` can switch a client off.
* `StringCopy`: an offset that goes below 0 wraps round at `SizeLimit`, which stands for
  2^32 and is far behind the array. `memcpy` and `strlen` called inside a function are one step. `memset` stores one
  fixed byte, `memccpy` stops at one fixed letter. Arguments satisfy the preconditions C puts
  on the caller: terminated strings, an array with room, no overlap. `strdup`'s block is
  the destination array; `memory` says whether `malloc` finds one. Storing through a null
  pointer ends in the state `undefined`.
* `StringSearch`: bytes are signed `char`s; the functions that compare as `unsigned char`
  convert. `strchr`, `strlen` and `strncmp` called inside a function are one step, with
  the bytes they may read. A byte behind an array happens to be 0. A class function is one
  step. Integers of `ffs` are 4 bits wide, those of `ffsl` and `ffsll` 8: the loop treats
  every bit alike. `strerror` is that of the freestanding build, where it sets `errno`.
* `vsnprintf`: directives are well formed and are read one at a time; stars take
  arguments that are not negative (C gives negative ones a meaning, the code takes them as
  they are); numbers are small integers; `expansion` is history. A negative space, which the
  code hands to `memset` or `mempcpy` as a huge size, clobbers everything from the cursor
  on and stops the program. `%n` takes 0 for a null pointer.

## What the runs show

| run | question | bounds |
|---|---|---|
| `atomic_orders` | Do seq_cst defaults forbid the store/load anomaly (`SeqCstAgrees`), does a failed exchange acquire (`FailureAcquires`), are loops exact (`IncrementsExact`) and elections unique (`OneWinner`), do the exchange locks exclude and publish (`LockedCountExact`), for every order the programs may pass? Does the invariant of the proofs hold? | three threads: two give the shapes that tell the orders apart, the third lets a waiter lose to two others and a lock be handed on; every mix of the three lock programs; at most 8 stores to the lock word, of which taking and freeing it twice uses four |
| `spin_lock` | Exclusion, absence of races, no lost increment, the invariant of the proofs, a lock that keeps being handed out, conformance to `AbstractLock` | 3 threads, 2 rounds: a waiter can lose to two others and read words of an earlier round |
| `allocator` | No handler on top of the holder, flag restored under nesting, blocks given once, `gLock` always let go, spinning contexts proceed, the invariant of the proofs, conformance to `AbstractAllocator` | two systems: freestanding, 2 CPUs with a thread and a handler each, 1 block that two contexts could be given at once; host, 3 threads, 2 blocks, all six entry points |
| `strtok_tokens` | Tokens partition the string and survive later calls; the invariant of the proofs | 2 strings up to 3 bytes over 3 letters, 2 saved pointers and a client that passes none, 2 delimiter sets |
| `strtok_nullptr` (violation) | Is nullptr final, as `tests/cstring_test.cpp:2206` says? | one string |
| `memory_copy` | Blocks are copied exactly, at every overlap | 4 bytes, 3 contents, all argument triples |
| `string_copy` | Do the string-building functions store and return what they promise, touch nothing behind it, and return? Does the loop invariant of the proofs hold? | arrays of 6 bytes, strings up to 2 over a lower- and an upper-case letter, every count from 0 to 6: below, at and above each length and each sum of lengths; `SizeLimit` 16, so that an index that wraps round is outside the array |
| `strdup` (violation) | Does `strdup` return NULL when there is no memory, as `cstring.h:401` says? | as `string_copy` |
| `string_search` | Does every function return the offset, length or bit its document says, does every comparison have the sign its document says, is nothing read behind a terminator or an array that ends at its count (`strnlen` of an array without terminator apart), and does every call return? Do the classes partition the characters, and do texts describe their errors? Was every iteration passed for the reason the proofs give? | every string up to 3 bytes (4 for the haystack of `strstr`) over an upper-case, a lower-case and a negative char, every array of `n` bytes without terminator, strings with bytes behind their terminator, every count to 4; ints from -129 to 300 for the classes, every 4- and 8-bit integer for `ffs`, error numbers on both sides of every limit |
| `search_documents` (violation) | Do the functions also do what five documents say beyond that (`AsDocumented`): is the result of `memcmp`, `strcmp`, `strncmp` one of -1, 0, 1, of `strcspn` NULL when nothing is found; does `strrchr` convert its needle, `strnlen` look at no more than `max_len` bytes; has every error number a text? | a set of calls for each of the five, `ComparisonCalls` to `ErrorCalls` |
| `vsnprintf` | Is every single field the one C prescribes, however its directive is written? Is truncated output the right prefix, and counted, whether it is cut in text or in padding? Is it terminated when the padding fits? Does the invariant of the proofs hold, and do the conversions keep what it asks of them (`ClientsConvert`)? | three clients: `fields`, one directive with every flag set, widths, precisions, stars and length modifiers of `MCVsnprintf`, in buffers of 6 to 32; `truncated`, three directives, `max_size` 0 to 9, padding that fits; `padded`, the same without regard to the padding, `max_size` 2 to 9, and cells enough for a cursor that has left the buffer. `INT_MAX` is reduced to 33, so that the early return for huge sizes happens; `Bytes` is the characters the directives can produce |
| `vsnprintf_unterminated` (violation) | Is the output always terminated, as `tests/vsnprintf_test.cpp:1074` says? | 4 directives, `max_size` 2 and 4; %n of a null pointer among them |

Bounds in guards: `MaxStores` (stores to the flag while an exchange lock spins; each failed attempt is one), `MaxRounds` (rounds of a spin-lock client), `MaxLen` (string length), `Cap` (array of `StringCopy`),
`length` and `cells` of a client of `Vsnprintf` (directives of a format, memory behind the buffer), `Size` (memory of
`MemoryCopy`). Deadlock is checked except in `MemoryCopy`,
`StringCopy`, `StringSearch` and `Vsnprintf`, which return.

### Findings

* `strtok_r` leaves the saved pointer alone when it finds no token. Calls after the
  end return nullptr only while the delimiters stay the same, and after a new string
  without tokens the next call continues in the previous string (`strtok_nullptr`).
* `put_with_field_width` moves the cursor by the whole padding even if less was written,
  and `%p` of a null pointer reckons its space from the iteration count. In both cases a
  truncated output has no terminator inside the buffer (`vsnprintf_unterminated`). TLC
  stops at the first cause; taking the padded string out of `UnfitDirectives` shows the
  other. There the space may also fall below zero, and is then taken for a huge one.
* `strdup` passes the null pointer of a failing `malloc` on to `strcpy` (`strdup`).
* Five documents promise what the code does not do (`search_documents`):
  * `memcmp`, `strcmp` and `strncmp` return the difference of two bytes, where
    `cstring.h:98`, 167 and 178 say -1, 1 or 0 (`ComparesToOne`). What callers rely on,
    the sign, is right (`ResultAsPromised`);
  * `strcspn` returns the length when nothing is found, where `cstring.h:253` says NULL
    (`SpanOrNull`). Its `@brief` says the length, which `ResultAsPromised` checks;
  * `strrchr`, and `rindex` with it, does not convert the needle, where `cstring.h:152`
    says it does (`NeedleIsConverted`);
  * `strnlen` reads on to the terminator, where `cstring.h:236` says it never looks
    beyond `s[maxlen-1]` (`LooksOnlyAtMax`): an array of `max_len` bytes is overrun;
  * `strerror` refuses numbers above `ENOTSUP`, which is 95: 38 error numbers that have a
    text in its table get nullptr (`EveryErrorHasText`).

  TLC stops at the first of these, a comparison. `DocumentedCalls` joins one set of calls
  for each; with `Calls <- SpanCalls`, `NeedleCalls`, `CountCalls` or `ErrorCalls` it
  shows the others.

What a client of `Vsnprintf` makes sure of is `fit`. All clients of the run `vsnprintf`
keep to `TextFits`: a string with a field width is not cut in its text, because the code
computes the padding from what is left of the text (`format_string`), and C from all of
it; and a null pointer that is given too little space has room for its field. Padding
may be cut. `fields` and `truncated` also keep to `FieldFits`, which makes the padding
fit: only then does the cursor stay in the buffer. The client of
`vsnprintf_unterminated` keeps to neither.

`memccpy`, like `strrchr`, does not convert its stop byte; it is given one in range, and
its document does not ask for the conversion. The comparisons of strings order bytes as
signed chars, where `memcmp` orders them unsigned; the documents do not say which. Three
smaller differences from C, about which no document of the repository says anything, are
kept out of the inputs and listed as hazards: `%+01d` of zero prints no digit
(`LosesZero`), `%#.3o` adds a zero to a number that has one (`OctalPrefixAndPrecision`),
and a string cut before its padding is computed is padded too much (`TextFits`).

### Fairness

`SpinLock`'s `Fairness` is weak fairness of every thread's steps, that is, of a scheduler
that keeps running every thread, plus the assumption that a store becomes visible to
a thread that keeps loading (hardware coherence; C++ asks for it "in a finite period of
time"). Entering the lock is never forced, leaving it is. `LockIsGranted` (of `gLock`,
`GLockIsGranted`) says somebody
gets the lock; that a given thread does is not true of this lock and not claimed.
`StringCopy`'s and `StringSearch`'s is weak fairness of the single caller's steps: a call
runs on.
`AllocatorLock`'s `FairSpec` is weak fairness of the steps of the context a CPU
executes; interrupts, calls and the return from a handler are never forced.

## What is proved

TLAPS checks `AtomicClientsProofs`, `SpinLockProofs`, `MemoryCopyProofs`,
`AllocatorLockProofs`, `StrtokProofs`, `StringSearchProofs`, `StringCopyProofs` and
`VsnprintfProofs`.
Nothing is assumed but the named assumptions on the constants, which TLC evaluates in the
runs, and the hypotheses two groups of theorems state: `ContinueAfterNull = FALSE` in
`StrtokProofs` and `ClientsConvert` in `VsnprintfProofs`. Every invariant is checked by
a run before it is proved.

**The users of atomics**, for any number of threads and any number of failed attempts
(`MaxStores`). The invariant has a part per kind of program, about what is in memory
while the program runs. Storing and loading crosswise: whoever has assigned has raised `sc`
of its object, below which the other's conversion cannot read (`Assigned`). Passing a
message: a published flag carries a view of the data, and the failing compare-exchange
joins it, if its derived failure order acquires (`DataPublished`). An election is decided by
whoever replaced the initial message (`RaceInv`). In a lock program the owner has seen the
latest count, and while the lock is free its word carries a view of it (`LockInv`): the
exchange that takes the lock acquires it, the store that frees it releases it. Lemmas about
`Atomic`'s operations (`LoadKeeps`, `StoreKeeps`, `ReadModifyWriteKeeps`) say what each does
to memory; one per kind of program says which calls a thread can be at. The run checks the invariant
itself; its other five properties, and `TypeOK`, follow from it.

**The spin lock**, for any set of threads and any number of rounds. `TypeOK` and
exclusion are not inductive: that a compare-exchange cannot succeed while somebody
holds the lock needs the latest word to be locked exactly while there is a holder
(`WordTracksHolder`). That the new holder sees the last increment needs every free word
in the modification order to publish a view that covers the counter at its tail
whenever that word is the latest (`FreeWordPublishes`), and views to stay inside memory
(`ViewsInMemory`). `SpinLockInv` is the conjunction. One lemma per action shows it preserved,
and lemmas about `Atomic`'s operations (what they append, what they leave alone) carry
the memory model. From it follow `TypeCorrect`, `Exclusion`, `DataRaceFreedom`,
`CounterExact`, and `ImplementsLock`: every step is an `Acquire`, a `Release` or a stutter
of `AbstractLock` with `owner` mapped to the holding thread.

**Block copies**, for memory of any size. `BlockCopied` speaks only of the end of the
call; the invariant says in mid-loop which bytes are copied (`CopiedBytes`), where the
pointers are, and which direction the overlap allows (`PointersInv`). The step that
needs the argument is that the byte about to be read is not among those copied, which is
where the direction of `memmove` and the precondition of `memcpy` enter
(`ForwardSource`, `BackwardSource`).

**The allocator entry points**, for any number of CPUs, threads and handlers, in both
builds. That no handler sits on top of the holder of `gLock` is not inductive: it
needs the owner of the lock to be inside its critical section (`OwnerIsInside`), and the
flag to be off from `cli` to the restore of the outermost guard. The latter is
`GuardsNest`: which contexts have saved which flags, how many guards a context is in at
each step, and that only the outermost guard of a thread can have found interrupts on.
That a block is given once needs the heap between the choice of a block and its return:
what a call was passed stays its caller's until `mem_*` took it back
(`ArgumentIsOwned`), what `mem_*` has chosen stays free until it is given
(`ResultIsFree`). From the invariant follow `BlocksHaveOneOwner`, `HolderRuns`,
`FlagRestored` and `KeepsPromise`: to its callers every call is one step of
`AbstractAllocator` and everything else a stutter.

**The tokenizer**, for any clients, strings and delimiters. The types hold for every
client (`StrtokTypes`). The rest holds for clients that stop when they are told nullptr
(`ContinueAfterNull = FALSE`), because `strtok_r` leaves its saved pointer alone when
it finds no token; the run `strtok_nullptr` shows what the others meet. That a call
writes into its own string only needs each string to belong to one slot
(`StringsAreOwned`); that it does not cut an old token again needs the saved pointer to
be behind the last one (`SavedIsBehind`; a client that passes a null `saveptr` has none, and
gets a token only from a call that passes a string) and the tokens to be in order
(`TokensAscend`). `strspn` and `strcspn` are least elements of sets of offsets; that these
exist (`MinOfNaturals`) follows from the well-foundedness of the naturals' order, since an
induction schema cannot be instantiated.

**Searching and comparing**, for arrays of any length and contents. The invariant says of
every iteration so far why the loop went on behind it (`Passed`): the byte is in the
array, it is not the terminator, it is not the one looked for, both arrays agree there, …
When the loop stops, the offset it stops at is the first with a reason to stop,
which is how `Promised` and `Owed` describe it: hence `SearchesKeepPromise` and
`SearchesReadInside`. These say no more than the code keeps: of a comparison the sign, of
`strrchr` and `rindex` nothing when the needle is not a `char`, of `strnlen` the reads of
terminated arrays (its result is proved of all); the rest is what `search_documents` finds
violated. The results of `ffs`, `ffsl` and `ffsll` are left to TLC (`Judged`), their powers
of two being beyond the provers. `ClassesAlwaysAgree` and `TextsMatch` cover every int.

**Building strings**, for arrays of any size (`Cap`) and strings of any length
(`MaxLen`). `Position` relates pointers, count and arguments in mid-loop, one line per function;
`Stored` says that the bytes behind the pointer are those of `Promised` and
the others those of the original array. `strrev` works from both ends, so
`Written` has two parts. `CopiesStayInside` is about every state, `CopiesKeepPromise` and
`CopiesReturnPromise` about the end of the call; a `strdup` without memory ends in
the state `undefined`, about which they say nothing.

**Formatted output**, for buffers of any size and formats of any length. The hypothesis
`ClientsConvert` says of the directives of the clients that they are read as meant, that the
text and the padding of a number are those of C, and of the clients that they keep to
`TextFits`. Padding may be cut. It speaks of constants; TLC evaluates it in the initial states of the run
`vsnprintf` (`FormatInv`, `i = 0`), for every directive of `MCVsnprintf`. Strings, single
bytes, `%%`, `%n` and null pointers need nothing of it but the parsing: how they are cut by the precision and
by the space is proved (`FieldIs`). The proof is about what the buffer makes of the fields:
`PutLays` shows that padding and text, each cut to its own share of the space, lay
down the beginning of the whole field, on either side, and where the cursor ends;
`IterationKeeps` that this keeps cursor, buffer, total and expansion in step. Where
padding is cut the cursor may leave the buffer: the invariant then only says that it is
not in front of what fits, which is enough, because the loop ends there. From the
invariant follow `OutputIsC`, `ReturnsTotal`, `CountsAreExact`, and, for clients that keep
to `FieldFits`, `OutputIsTerminated`, whose conclusion is what `vsnprintf_unterminated`
shows violated for others.

Only model-checked: the conversions of numbers (what `DigitsOf` computes for
every number would need induction over data) and the parsing of directives; the results of
`ffs`; and all liveness (TLAPS does not treat ENABLED and fairness here).

## Not modelled

The allocator's heap (its sources are not in the tree); `abort`, a single trap;
configuration headers and `min`/`max`; the measuring loops of the benchmarks; `bcopy`, which is `memmove` with its arguments handed through (in the opposite
order of the macro of the same name, `posix_strings.h:69`); malformed directives of
`vsnprintf`, and its integers of 64 bits.

## Plan

1. Done: `Atomic`, `SpinLock`, `AbstractLock`; `AllocatorLock`, `AbstractAllocator`;
   `Strtok`; `MemoryCopy`; `StringCopy`; `StringSearch`, `CType`, `StrError`;
   `FormatNumber` and `Vsnprintf`; the proofs of all of them but the conversions.
2. Left: the sign and the zero flag of `FormatNumber`, on the assumption that digits are
   right.
