# ILDJIT: the translation pipeline and its surroundings

ILDJIT is a dynamic compiler for CIL programs. A method is compiled while the
program runs, by threads of its own, when a trampoline asks for it or when
dynamic look-ahead expects it to be called. This directory holds TLA+
specifications of the parts of it where threads meet, the runs of TLC that check
them, and proofs: the translation pipeline with the static constructors, the
monitors of objects, the threads of the program, and the shared memory pool.

## 1. The system

### Components

| component (source) | state it keeps | operations | what is hard | modelled in |
|---|---|---|---|---|
| worker sets of a stage: `ildjitPipe_t`, `workerSet_t` (`libcore/src/translation_pipeline_parallel.c`) | two priority queues of tickets, steady count, queue of busy workers, threads | put, get_job, end_job, changePriority, tryCheckPoint, start more, kill | a signal is sent for some puts only; checkpoint handles; threads killed by NULL tickets | `PipeStage`, `AbstractStage`, `PipeStageProofs`, `StagesRefinement` |
| parallel translation pipeline (same file) | tickets, `methodsInPipe`, five stages, `steady_cctor_threads`, scheduler queue | `insertMethod`, `synchInsertMethod`, `synchTillIRMethod`, `waitEmptyPipeline`, the stages' jobs, `DLAScheduler`, `waitEmptyPipelineThread`, `destroyThePipeline` | tickets shared by inserting threads, stages and scheduler under different mutexes; waits without a condition; threads that wait for each other's methods | `TranslationPipeline`, `TranslationPipelineProofs`, `MethodHistoryProofs`, `StagesRefinement` |
| static memory manager (`libcore/src/static_memory.c`) | descriptions of cctors (owner, in execution, done), translators, stacks of waited methods | compile, run or wait for cctors; search for a cycle of waiting threads | circular cctors, at most one execution, missed cycles | `StaticMemory` (operators), `TranslationPipeline` (steps), `CctorOrderProofs` |
| dynamic look-ahead (`libdla/src/dla.c`) | probabilities | methods to compile, and to compile again | inserts from two threads | constants and choices of `TranslationPipeline` |
| monitors of objects (`libcore/src/lib_lock_os.c`, `lib_lock_thin.c`) | a lock word, or a mutex, a condition variable, owner and nesting count | enter (for ever, as a check, with a time limit), exit, wait, pulse, pulse all, inflate | the owner is read without the mutex; inflation while others try; nesting limit; owner and nesting after a wait | `Monitor`, `FatMonitor`, `ThinLock`, `ThinLockProofs` |
| threads manager (`libclimanager/src/lib_thread.c`) | a state, a lock and a condition for each thread, two lists of threads, events | create, start, join, signal and wait for events, `tm_waitThreads` | who takes a thread off which list; a lock held during a native join; events that reset themselves | `ThreadsManager`, `ThreadsManagerProofs` |
| compiler memory manager (`libcompilermemorymanager/src/shared_memory_pool.c`) | a registry with a bit for each chunk, a cursor, a mutex, a guard for each block | malloc, realloc, free | cursor and guards are used without the mutex; wrap-around; bits in parts of bytes; a path that keeps the mutex | `SharedMemoryPool`, `SharedMemoryPoolProofs` |
| sequential pipeline (`translation_pipeline_sequential.c`) | the same as the parallel one, without threads | the same | recursion through cctors | no |
| CIL translator, code generator, recompiler | - | a stage's job; a synchronous request | - | as steps |
| garbage collectors (`GarbageCollectors/`), root sets (`libiljitu`) | heaps, mark bits, root sets | allocate, collect | reachability, moving objects | no |
| IR, optimizer and its plugins, dominance, metadata, class library, back ends, caches, Chiara, loader | - | sequential passes | - | no |

### How they interact

A thread of the program that calls a method without code enters the pipeline
through `synchInsertMethod`. The method gets a *ticket*, which the workers of the
stages CIL->IR, DLA (in the JIT, DLA and AOT schemes), IR optimizer,
IR->machine code and cctor hand on to each other. The last stage compiles and
runs the static constructors (*cctors*) the method needs; it does so by calling
`synchInsertMethod` itself, from a worker of the last stage, and so waits for a
ticket that also has to go through the last stage. Three mechanisms keep this
from blocking: more cctor threads are started when half of them wait, the static
memory manager looks for cycles before a thread waits for a cctor or a method,
and a thread that found a cycle goes on with a method's machine code, or passes
over the cctor. A method that is inserted again is raised in priority, possibly
moves to the high priority queue, and is visited by the scheduler, which inserts
the methods it will call. When the pipeline becomes empty, a thread of its own
brings the cctor stage back to two threads.

The program's own threads are made, started and joined by the threads manager;
the class library calls it, and the main thread ends in `tm_waitThreads`. They
use the monitors of objects through the object locks of the threads manager,
which pass each call on. The pipeline, the monitors and the threads manager share
no state. The shared memory pool serves processes or threads of the compiler
that `mmap` the same region; it knows nothing of the others.

### What makes each component correct

* Worker sets: no ticket waits beside a sleeping thread that nobody woke; a ticket
  is in one place; the handle of a worker in `busyWorkers` is never stale; killed
  threads all end.
* Pipeline: one ticket for each method in it, alive as long as someone uses it, freed
  once and in the end; whoever waits comes back, with the method compiled; methods
  leave the pipeline; stages find methods in the state they start from.
* Static memory: each cctor runs once at most, in the thread that owns it, and
  before the methods that need it, except around a cycle; waiting threads never
  block each other for good.
* Monitors: one thread has a monitor at a time, as often as it entered and did not
  exit, before and after inflation and across a wait; only misuse aborts; a free
  monitor that somebody wants is taken.
* Threads manager: the two lists have exactly the threads that live; when
  `tm_waitThreads` returns all of them are dead and joined; nobody sleeps on a
  signalled event for good; the program ends.
* Shared pool: blocks do not overlap and none leaks; guards have the lengths of
  their blocks; a search finds what it should and ends.

`PROJECT.json` lists the hazards behind these at their lines.

## 2. The modules

**`PipeStage`** is one stage. An action is one critical section of a worker set's
mutex: `GetJob` is `internal_pipe_get_job` from its start to its wait or return,
`WakeUp` the same from the wakeup, `EndJob` and `Requeue` the two critical
sections of `internal_pipe_end_job`, `ChangePriority` is
`internal_changePriority` (both mutexes), `TryCheckPoint` and `PutToPipe` are the
functions of those names. `BeginKill`, `PutDead`, `JoinHigh`, `JoinLow` are
`internal_killILDJITPipe` with the restart that follows it in
`waitEmptyPipelineThread`. `Put`, `RaisePriority`, `StartMoreThreads` and `BeginKill`
are the environment, which `TranslationPipeline` gives its real behaviour. Queues are
sets, ordered by the items' priorities; which of several equal tickets is taken
is left open. `Signal` wakes one sleeping thread if there is any.

**`AbstractStage`** is what a stage promises: a ticket that is put is handed to one
worker of its class, and no free worker leaves it there. `PipeStage` implements it
(`ImplementsStage`; the refinement maps `hand` to the tickets of the busy workers
and `capacity` to the number of threads).

**`StaticMemory`** holds the effects of the functions of `static_memory.c` on the
manager's tables, and `LeadsToADeadlock`, the search of
`internal_tryDeclaringWaiting`.

**`TranslationPipeline`** composes the stages, the scheduler, the reaper and the
inserting threads. `mutex` is `pipe->mutex`, which is held across several steps;
other mutexes are held within one step. `call` is the stack frame of a thread in one
of the four entry points: `EnterInsert`/`EnterSynch`, `JoinTicket` or `InsertNew`,
`ChangePriority`, `SendToScheduler`, `GoToSleep`, `WakeUp`, `LinkWaited` are
the pieces of the three ways to insert a method, in the code's order. `step` is
where in its job a worker is, and the actions under "The workers of the stages" and
"cctorTranslator" are the jobs. Each worker is either free or has a ticket:
what `AbstractStage` promises. `StagesRefinement` shows it, with `hand` mapped to the
tickets of the workers of the stage and class, and `capacity` to their number.

**`Monitor`** is what the monitor of an object promises: holder, depth, sleeping and
pulsed threads. **`FatMonitor`** has one `ILJITMonitor` of `lib_lock_os.c`, step by step
where other threads can see the difference: `FatLock` compares the owner with the
caller, unlocked; `TakeMutex`, `GiveUp`, `SetOwner` are the rest of the lock; `FatUnlock`
and `UnlockMutex`, `FatWait`, `WakeUp` and `Restore`, `FatPulse` the other calls.
**`ThinLock`** puts the calls together for both libraries: `library` is chosen in the
initial state; with "os" the word is a fat one from the start; with "thin" the
actions follow the `llt_try...` functions in the order in which `ILJITMonitorLock` and
`ILJITMonitorUnlock` try them, one for each atomic access to the lock word.
`ImplementsMonitor` maps both to `Monitor`; `held` is what the program itself counts.

**`ThreadsManager`** has an action for each step of a thread between two unlocks of a
state's lock: `WaitForLaunch`, `Launched`, `EndBody`, `Stop`, `Exit` are
`tm_nativeThreadRun`, `Create`, `Start`, `StartRunning`, `Join`, `JoinTest`, `EndJoin`,
`Signal`, `WaitEvents`, `EventTest` what the program calls, and `Shutdown` is
`tm_waitThreads` of the main thread. `stateLock` names only a thread that keeps the lock
over several steps, which is one that joins a native thread. `build` is the platform,
because `tm_writeThreadState` writes the bits of an abort on i386 only.
A start has the three steps of `tm_startThread`, which several threads can be in for the same thread:
`Start` is the two asserts (497-498), before any lock; `ChangeLists` the change of lists under the locks
of both (501-506); `StartRunning` the change of the state to RUNNING (509), whatever it is by then.
`foregroundThreads` says how often a thread is in that list. What keeps it from being there twice is
neither the asserts nor the locks but the last argument of `xanList_removeElement` at 503,
`abortIfAnElementDoNotExist` (`ildjit-doc/Documentation/html/xanlib_8h_source.html:704`), which is
`JITTRUE`: the second of two threads that both passed the asserts does not find the thread in
`unstartedThreads` and aborts the program. `Crashed` is the state after that, or after an assert that
failed; nothing happens in it any more. (With the asserts compiled out, a late start ends in the same abort.)

**`SharedMemoryPool`** has a step for each iteration of `findFreeChunks`, because
`smp_realloc` moves the cursor of other threads' searches; `hoisted` says whether the
build reads it again in every iteration. The rest of a call is one step for each
piece before, under and after the mutex. `owner` and `size` are what the callers were
given. `AllocChunks` is `allocChunks` with its three parts (first byte, whole bytes, last
byte), and the proofs show what they amount to.

The modules that begin with **`MC`** and the `.cfg` files are the instances. The proofs
are in **`PipeStageProofs`**, **`TranslationPipelineProofs`**, **`MethodHistoryProofs`**,
which builds on it, **`CctorOrderProofs`** and **`StagesRefinement`**, which build on
both, **`ThinLockProofs`**, **`ThreadsManagerProofs`** and
**`SharedMemoryPoolProofs`**.

Operators marked as *variants* are mistaken versions of the operator below them;
`PROJECT.json` says which property notices each of them.

### Abstractions

The pipeline:

* In `TranslationPipeline` the first free worker of a class takes a ticket (they differ
  in nothing else), and a checkpoint request reaches every optimizer worker of the
  class with a less urgent ticket; with one optimizer thread in each class, as the
  code starts, this is the worker the code asks.
* The order of the scheduler's queue, `jobState`, profiling counters and the fields
  `startTime` and `insertedByCctorThread` are left out. `runCCTORS` is always true
  (it is in every call).
* Whether DLA finds a method likely enough to insert, and the priority it gives to it,
  are nondeterministic.
* A cctor's own code calls no method that has no code yet. So the stack of waited
  methods has one element at most.
* The lists of cctors are constants: they are made while a method is translated to IR,
  before it can come to the cctor stage. `addCctorToCall` keeps a method out of its own
  list, which is an assumption of the model.
* Threads outside the pipeline only insert methods and wait for the empty pipeline. They
  do not run cctors themselves.
* Not modelled: `NEEDS_RECOMPILE_STATE`, `destroyThePipeline`, the options `MULTIAPP`,
  `DISABLE_*`, `cacheConstructors`, `disableStaticConstructors`.
* Spurious wakeups are left out. (The waits without a condition would return early.)
* A freed ticket may be reused at once by the next insertion, and the condition
  variable on a thread's stack has the same address in each of its calls: two
  outcomes of what is undefined behaviour in C where the code uses a pointer too
  long.
* `FindCallees` has no branch for a partial AOT compiler (878-882). `CallCctor` has the test whether a
  cctor may be waited for and the declaration in one step.

The monitors:

* Operations that only print an error and abort are left out: the waits and pulses of the
  thin library and its locks with a check or a time limit, waits with a time limit
  and checks for a pulse in the other one.
* A pointer is stored in a lock word with its 64 bits (`SET_FAT_MONITOR` truncates it
  on some builds). `locksCount`, which `ILJITMonitorInit` leaves uninitialised, is 0 at the
  start; it is written before it is read.
* Identifiers of threads are different (`DistinctIds`), which the library relies on and
  does not ensure: two thread descriptions 64 MB apart have the same one.
* No spurious wakeups; `ILJITMonitorDestroy` is not modelled.
* `lib_lock_thin.c` is chosen by a configure option and is not the default; some type
  names in it exist nowhere in the tree now. It is modelled as if they were repaired.

The threads manager:

* `Create` merges the start of the native thread and its insertion in the list: the
  creator cannot do anything in between, and the new thread only waits.
* `xanList_find` at 498 searches the list without its lock. That the search itself could go wrong while
  another thread changes the list is left out.
* The main thread is never `STOPPED`, so joining it never ends, in the model as in the code.
* Not modelled: sleep, local mutexes and location locks (a lock of the operating
  system each), affinity, the object locks (calls of the monitors), `tm_finalizeThread`.

The pool:

* A chunk's content is its guard or 0; copying the content of a block that moves is left
  out. The first two reads of the cursor in a search are one (an optimised build).
* `mask = (++mask) << 1` in `allocChunks` is unsequenced; the model has what compilers make
  of it, the next bit.
* A block is 1 to `Sizes` data chunks; requests for none are not made.
* `smp_realloc` copies the new number of bytes out of a block that moves (249), also past its old end;
  content is left out, and with it this read.
* Not modelled: `smp_clearPool`, `smp_closePool` (no block outlives them), printing.

## 3. The runs

| run | instance | shows |
|---|---|---|
| `pipe_stage` | 2 low and 2 high threads, one of each class started, 2 tickets, 2 priorities, 1 kill | all invariants, `KillEnds`, and the refinement of `AbstractStage` with its fairness |
| `pipeline_jit` | JIT scheme; a method in CIL that needs a cctor, the cctor in IR; one synchronous request for each, at low and high priority; 3 tickets, up to 3 cctor threads per class | no ticket freed too early or never, with reprioritisation and scheduler; a cctor thread that waits for machine code, uncounted; methods leave the pipeline |
| `pipeline_cctor` | no DLA; two methods in IR and two cctors that need each other, 4 tickets, up to 7 cctor threads per class, a thread that waits for the empty pipeline | cycles of cctors and that they do not stop the stage, its growth and reduction, what a synchronous insertion guarantees |
| `pipeline_dla` | DLA scheme; two methods in CIL that call each other, requested until IR | insertions by DLA workers and scheduler at any time; one place for each ticket, which an insertion does not lose while it works on it |
| `monitor` | 3 threads, both libraries, a nesting limit of 1, up to 4 locks of a thread | mutual exclusion, exact nesting through inflation and waits, no abort of an owner, a wanted monitor is taken, and the refinement of `Monitor` with its fairness |
| `shared_pool` | 2 threads, 8 chunks in bytes of 4, blocks of 1 and 3 chunks, 2 blocks of a thread | no overlap, no leak, exact guards; the search finds the first room; searches end |
| `threads` | the main thread and 2 others, one event of each kind, 1 operation of each thread besides creating and starting, both builds | complete lists however many start one thread, complete shutdown, no signal lost, the program ends |
| `lost_notification` | one method, one request | violates `SynchReturns` |
| `stale_state` | one method, two asynchronous requests | violates `CilToTranslate` |
| `missed_cycle` | two methods that need the same cctor and then one of two others, one of which needs the other; 5 tickets | violates `NeverStuck` |
| `direct_cctor` | a cctor requested before a method that needs it | violates `CctorsRanBefore` |
| `unstarted_kept` | the main thread and 2 others that may be left unstarted, a build that is not for i386 | violates `UnstartedKilled` |

The last five each check what a comment or an assertion of the code says, and find
that the code does not keep it; `PROJECT.json` quotes the lines under "findings". They
are the reason for the exceptions in the properties of the other runs: a thread
*forgotten* by its notification sleeps for ever in the model as in the program, and
`NeverStuck` and `MethodsLeavePipeline` say that nothing else stops; an exception that
is a state predicate, so that all other blocking is still found. In the same way `ShutdownEnds` excepts,
under the name `Stranded`, what `unstarted_kept` finds: where `tm_writeThreadState` does not write the bits
of an abort, `tm_killUnstartedThread` waits for ever for the first thread that was never started. With
i386 in the place of the other build `UnstartedKilled` holds. The other exceptions of `ShutdownEnds` are
a program that was aborted (`Crashed`), and threads of which each waits for another or for an event (`Stuck`).

`CctorThreadFree` says of each queue of the cctor stage that a thread is left to serve it. Most waits
of its threads are counted, by `internal_decreaseSteadyCCTORThreads`, and the stage gets more threads by the count. The
wait for machine code at 553 is not: all threads of a class may wait, if one of them does so
there. `AwaitsEarlierStage` is why this is right: the method whose machine code it waits for is in a stage
before the cctor stage, so that the wait ends without a thread of the class. The second half of it is
that the thread lost its notification (`Forgotten`): it then sleeps for good, is not
counted, and the class has lost it. `pipeline_jit` has both cases, the property fails there if either is left out;
in `pipeline_cctor` no thread waits at 553.

`missed_cycle` is a deadlock. A thread A of the cctor stage works for `m1` and owns the
cctor `m3`, B works for `m2` and owns `m5` and `m4`. `m5` is compiled, A waits for it to
run. B goes on to `m4`, which it compiles before it runs any, and waits for its machine
code. `m4` comes to a thread C, which needs `m3` and finds it owned.
`internal_tryDeclaringWaiting` goes from `m3` to its owner A, from A to `m5`, and looks for the
*translator* of `m5` (static_memory.c:811). There is none any more; that B *owns* `m5` it
does not see, since it asks for an owner only in its first step (742-752). C waits, and A, B
and C wait for each other for ever. The run of `pipeline_cctor`, where two cctors need each other
directly, has no such state; section 4 says which programs have none.

`NeverStuck` speaks of `CanGoOn`, the guards of the actions of `Step`, thread by thread, so that it can be
reasoned about without `ENABLED`.

**Bounds.** The cctor stage starts with one thread in each class; a growth adds
`cctors_delta`, first `MIN_CCTORS_DELTA` = 2 and then twice the last one:
`MaxCctorThreads` is 7 in `pipeline_cctor`,
which is two growths, and 3 in `pipeline_jit`, which is one; `pipeline_dla` needs no
cctor. A step that would pass the bound is disabled, and so is an insertion without a
free ticket, but neither ever happens in these three runs: the instances were checked
to need no further growth and no further ticket, so the bounds cut no behaviour.
`AtBound` in `CctorOrderProofs` is the state predicate that a bound stops a thread, and the
theorems about blocking have it as an exception; in the final state of `missed_cycle` two tickets
are free and no growth is asked for. Two priorities are the two classes; the threshold is the maximum, because the
truncation to an integer tells apart only 1.0 and what is below. Each request is made
once. The number of tickets is at least that of the methods that can be in the pipeline
or with the scheduler at once. In
`PipeStage`, `MaxKills = 1` is one replacement of the threads, which includes a
restart with a steady count that is too high; the theorems have no such bound. The
assumption of `NoTicketLeaks` and `StageFitsState` is that no method is inserted in a state
that it has left meanwhile (`InsertionsFresh` in `MethodHistoryProofs`), which holds for the
requests of `pipeline_jit`, as it does for every compiler on demand (`OnDemandFits`): with
`stale_state`'s requests `StageFitsState` fails.

`MaxNesting` = 1 stands for 31: the count can be below, at and past the limit, and
`MaxDepth` = 4 goes two locks past inflation. 3 threads are an owner, one that spins or
waits, and one that inflates or pulses meanwhile. In `shared_pool` the block of 3 data
chunks crosses a byte of 4, blocks of both sizes fill the pool to its end and leave
holes too small for the next, and the two threads are one that searches and one that moves the
cursor. In `threads`, one operation for each thread lets a join, a signal and a
wait meet; two waits one after the other are `tm_waitAllEvents`. Creating and starting threads is not bounded: the main
thread and a worker can both start the other worker, or it can try itself. The theorems about
these three components have none of these bounds.

**Deadlock.** `PipeStage` is checked for deadlock. The other systems may rest: when all
requests are done (the pipeline, where `NeverStuck` is the property instead), when the
program was aborted or all threads wait for a pulse, when the main thread is done, and
when a `smp_realloc` returned with the mutex.

**Fairness.** `PipeStage`: weak fairness for each worker, for a priority change that
began, and for a kill that began: each is a thread that runs by itself and holds a
mutex for finitely long; jobs end. Nothing makes new tickets arrive.
`TranslationPipeline`: weak fairness of the whole next-state relation but for the
requests. Requests are finitely many and each leads to finitely many steps, so weaker
scheduling assumptions than fairness of each thread are enough.
`ThinLock`, `SharedMemoryPool` and `ThreadsManager`: weak fairness of each thread's steps
within a call, never of making one; in `ThreadsManager` also of the end of a thread's
code, which is what the shutdown waits for. Mutexes need no strong fairness here, because
the properties say that somebody gets one, or only one search holds it at a time.

## 4. The proofs

`PipeStageProofs` proves, for any finite sets of threads and tickets and any
priorities, of the specification of a stage:

* `Invariance`: `Spec => []IInv`
* `TypeCorrect`, `NoWorkStranded`, `OnePlace`, `BusyWorkersExact`, `SteadyExact`: the
  invariants `TypeOK`, `WorkNeverStranded`, `PlacesAgree`, `BusyWorkersAgree` and
  `SteadyCounts`, each as its consequence.

The assumptions are the named ones of `PipeStage`: finite, disjoint sets of threads;
finitely many tickets; natural numbers for priorities.

*The argument.* That no wakeup is lost rests on `internal_tryCheckPoint` signalling only
if `steadyThreadsCount >= size`. So the count may not be too low: `SteadyCounts` is part
of the invariant, and it must hold although NULL tickets end threads without giving
their count back (the count only ever becomes too high). It may be exact only before
the first kill, so `KillAgrees` adds that there are no NULL tickets before that, and
that the high priority threads are gone when the low priority ones are killed, which the
restart needs. A put that does not signal finds fewer
threads counted as steady than tickets after it, so no more threads are asleep or
signalled than there were tickets before it; if one of them was asleep, the invariant
says that the signalled ones alone were as many as the tickets: a contradiction, so
nobody is asleep and the invariant holds trivially. `PlacesAgree` and
`BusyWorkersAgree` are needed because a ticket that is put must not be in a queue
already, or the sizes would be wrong, and because a step that changes `busyWorkers` has
to keep its worker's state in accord. The lemmas follow this: `SignalCounts` and
`MoveCounts` count threads before and after a step; `TryCheckPointServes` is the central
one; `PutToPipeStep`, `MoveToHighStep`, ... are one for each operation, and `NextIInv`
puts them together, one step for each action.

The end of `PipeStageProofs` proves `Implements`: a behaviour of `PipeStage` is one of
`AbstractStage`, without its fairness. Ending and starting threads is `Resize`, which needs
that no thread with a ticket ends; a ticket is taken only by a thread that had none, so
that the hand had room: both from `PlacesAgree`, with `JobsFit`, which counts a set of
tickets by the threads that have them. Sleeping, signals and checkpoint requests are
steps that the abstract stage does not see.

`TranslationPipelineProofs` proves, for any program, requests, numbers of methods, tickets
and threads and in every compilation scheme, `Invariance`, `TypeCorrect`,
`OneTicketOnePlace`, `SchedulerAlwaysKeepsTickets`, `InsertionAlwaysKeepsTicket`,
`UncountedThreadFree` and `ReaperAlwaysFindsIdleThreads`. They assume the named
assumptions of `TranslationPipeline`: finite sets of names, of which none is `None`, and
bounds that are numbers. *The argument.* Nothing here counts tickets. `TicketInOnePlace` is
replaced by four parts that each step changes for one ticket: `TicketsNamed` (the table
and the records name each other), `Queued` (fields and queues), `InHands` (no two workers
share a ticket, and none has a queued one) and `Placed` (each ticket is somewhere). A call
that is between two pieces of an insertion has the mutex (`CallsHold`), so that the ticket
it found cannot end; `StepsAgree`, `IndexAgrees` and `WorkersCall` say that a worker is at
a step of its own stage and calls only for a cctor. `SchedulerAgrees` makes
`methodsInScheduling` the queue of the scheduler with the ticket in its hands, which is why
`internal_destroyTicket` may trust it. `SteadyExact` says that the count of steady cctor
threads is that of all less those that wait; a thread is started when it would drop to the
size of one class, so that fewer threads are counted as waiting than a class has, and if all of a class
were, they would be too many: `UncountedThreadFree`, from which `CctorOrderProofs` gets `CctorThreadFree`. The reaper kills with the mutex and an empty table
(`ReaperHolds`): a worker with a ticket would be in the table by `InHands`.

`ThinLockProofs` proves `Invariance`, `TypeCorrect`, `AlwaysMutualExclusion`,
`AlwaysNestingKept`, `AlwaysAbortsOnlyMisuse` and `Implements` (the refinement of `Monitor`,
again without fairness), for any number of threads, any nesting limit and any
addresses that satisfy `DistinctIds`. *The argument.* The invariant has two halves:
while the word is thin it alone says who has the monitor, and the mutex and owner of the
fat monitor are untouched; once it is fat, the mutex says so. The owner is read without
the mutex, so what matters is that it is right for the thread that reads it: a thread
outside of a call is the written owner exactly if it has the mutex. A sleeping thread is the one
exception, and it reads nothing until it restored owner and nesting.

`ThreadsManagerProofs` proves `Invariance`, `TypeCorrect`, `ListsAlwaysComplete`,
`ShutdownAlwaysComplete` and `EventsNeverStranded`, for any number of threads and events and
both builds. *The argument.* `tm_joinToNativeThread` takes a thread off the list which the bit
`unstarted` of its state names. The bit agrees with the list for threads that are dead,
because `tm_startThread` is the only one to clear it and has to be done before
the thread can run (`StartersAgree`: whoever is between the change of lists and the change of the state is
the only one there for its thread, which is not stopped and was not told to abort; whoever is still before the locks
will find it gone, and the program aborts), and because nobody is told to abort before the list of
foreground threads is empty (`AbortsLate`): a thread that is started and aborted at
once could be on the wrong list. `EventNotStranded` is inductive by itself.

`SharedMemoryPoolProofs` proves `Invariance`, `TypeCorrect`, `AlwaysNoOverlap` and
`AlwaysGuardExact`, for pools of any size that is a multiple of a byte's chunks, any number
of threads and requests. *The argument.* The registry changes only under the mutex, which a thread
keeps during its search, so the chunks that a search counted stay free whatever happens
to the cursor (`ScansAgree`); what a call read from a guard before it locked stays right
because it is about the caller's own block (`CallsAgree`). `AddBlock`, `GrowBlock`,
`ShrinkBlock` and `FreeBlock` say what giving and taking chunks does to blocks that are apart,
and `AllocatesAll` that the three parts of `allocChunks` are together the chunks that were
asked for.

It also proves `SearchAlwaysExact`: a search whose end nobody moved takes the first room
after its start, or finds none exactly if there is none. The cursor is what makes this hard,
because `smp_realloc` of another thread moves it while the search runs. The invariant `Sweeps` says that each place for the block that the search went past has a
chunk that is taken (`SweptTo`), and that a search goes past the place where it
started only while the cursor is elsewhere (`WentPast`); `CursorStaysAway` shows that it never
comes back to that place, because a reallocation puts the cursor behind a chunk that is used.
`Room`, `Nearer` and `EndsExactly` are the arithmetic around the end of the registry.

`MethodHistoryProofs` proves what methods and tickets have gone through. The code does not
keep this in every run; three races break it, and each is the negation of one condition,
which the theorems have as their hypothesis instead of weakening what they state:

| hypothesis | the race that breaks it, and the run that shows it | theorems under it |
|---|---|---|
| `InsertionsFresh`: a method that gets a new ticket is in the state that was read before `pipe->mutex` was taken | the method was compiled in between: `stale_state` | `StageAlwaysFitsState`, `NoTicketEverLeaks`, `StatesAlwaysAdvance` |
| `SignalsFresh`: who sleeps and is in the list of a ticket with machine code waits for this code | the condition variable of a call that did not wait stays in the list (translation_pipeline_parallel.c:543) and is at the same address in a later wait of the thread; no run | with `InsertionsFresh`: `AlwaysCompiledOnReturn`, `CctorAlwaysRunsOnce` |
| `TrampolinesAreSet`: `trampolinesSet` of a ticket is about its own method | the cctor thread that waited for machine code marks a ticket that was freed and made again meanwhile (560); no run, as it depends on what `malloc` returns | `ExecutableAlwaysLinked` |

The last section discharges them. `OnDemandIsFresh` and `OnDemandFits`: a compiler in which only
threads that wait insert methods (no asynchronous request, no DLA: the JIT and the
plain scheme) keeps `InsertionsFresh`, hence the first row, in every run and however many
threads meet. `NoCctorsIsFresh`, `NoCctorsLinked` and `NoCctorsCompiledOnReturn`: a program
without cctors keeps the other two. *The argument.* The invariant `HInv` gives each place of a
ticket, queue or worker's step, the state its method must be in (`NeededIn`, `ReachedAt`), and
says that a ticket outside of the pipeline belongs to the scheduler and to an
executable method (`LeftFits`). `StepKinds` sorts the steps of the system by what they do to
tickets and states, so that each later lemma looks at seven kinds of step and not at forty
actions. `WInv` is about waiting: who is in a list of a ticket and not yet notified
waits for this ticket's method, and who was woken finds it as far as it wanted. That a cctor
runs once needs `OwnedCompiled`: a thread that owns a cctor and is at its execution has its
machine code.

`CctorOrderProofs` proves that cctors run before the methods that need them become executable.
`CctorsAlwaysRanBefore` has one hypothesis, `CctorsDescribed`: a compiled cctor has a
description with an owner. `internal_executionIsDone` answers yes when it finds no
description, so a cctor that somebody requested as a plain method passes as run; run
`direct_cctor` does that. `CctorsAreDescribed` and `NotRequestedRanBefore` show that programs whose
cctors are not requested and not called as methods (`CctorsNotRequested`; the program of
`pipeline_cctor` is one) keep it in every run. *The argument.* `COrder` has six parts.
`CctorsPassed`: what a worker went past was run, or is owned by the thread of another method
that leads to this one. `CctorsOwned`, `OwnersAhead` and `RunnersOwn`: a cctor that is not
done has an owner, which still is at this cctor or before its execution in the list of the method
in its hands. `TranslatorsWork`: the translator of a method that is waited for has it in
its hands. `WaitersNeed`: a thread waits for, or calls, only what the method in its hands
needs. The crux is `Passes`: a thread passes over a cctor only after `LeadsToADeadlock`
answered yes, and the search went from the cctor's owner from thread to thread until it
came back; by `TranslatorsWork` and `WaitersNeed` each of its steps goes from a method to one
that it needs, so the owner's method *reaches* the method of the thread that passes. The search
is a recursive function bounded by the number of threads; that a function with its
recurrence exists (`Iteration`), and that a fact that holds at its start and at each next
index holds at all (`UpTo`), is proved from the library's theorems on finite sets, without
an induction rule.

The proof of the order corrected the property. It used to say that the exception is a cctor that needs
`m` in turn. Take three methods in IR: `m1` needs `m2` and then `m3`, and `m3` needs `m2`.
If the thread of `m1` owns `m2` and waits for `m3`, the thread of `m3` passes over `m2`, which needs
nothing. The exception now is what the code grants: another method that needs the cctor and
reaches `m`.

The second half of `CctorOrderProofs` is about blocking, for any program, any number of threads
and tickets, and without a condition on the interleaving but where one is named:

| theorem | says |
|---|---|
| `CctorThreadAlwaysFree` | `Spec => []CctorThreadFree`: each queue of the cctor stage keeps a thread that does not wait, waits uncounted for an earlier stage, or lost that notification |
| `OnlyCyclesBlock` | `Spec => [](NeverStuck \/ WaitingCycle \/ AtBound)`: the only thing besides a lost notification that stops the pipeline is a circle of cctor threads each of which waits for the next |
| `SearchPreventsDeadlock` | under `OwnersWaitForCode` there is no such circle: `[](NeverStuck \/ AtBound)` |
| `AtMostOneCctorNeverStuck` | programs in which no method needs two cctors keep `OwnersWaitForCode`, so they are never stuck |

`CctorThreadAlwaysFree` adds to `UncountedThreadFree` what is known of the wait at 553: the thread that is not
counted sleeps there, unless its notification was lost, for a method without machine code or one whose notification is about
to be sent; no ticket of the cctor stage has such a method (`MachineCodeComesEarlier`, from `MInv`).

`OwnersWaitForCode` says of each thread that waits for a cctor to run that the owner of this cctor,
if it waits too, waits for the machine code of this very cctor: then the owner is what the search
meets next although it goes by translators. `missed_cycle` breaks it (B owns `m5` and waits for
`m4`), and needs methods with two cctors to do so. *The argument.* If nobody can go on, nobody holds
the mutex (`MutexHeld`: who holds it is in the middle of a call that has a guard of its own), the
stages before the last are idle with empty queues, and so is the last one: it keeps a thread
that is not counted as waiting (`UncountedThreadFree`). So a ticket that is left is in the hands of a cctor thread that
waits (`StuckWait`): for a cctor whose owner, by `CctorInv`, has not run it and still has it ahead, or for a
method's end, whose ticket another cctor thread has, because a notification that is neither lost nor
sent is still to come (`MInv` says where methods with machine code are). Either way that thread
waits as well, and finitely many threads that wait for each other have a circle. For the second theorem the
invariant `NoLoop` says that no set of threads of the stage pursues itself. A step that adds
a link, which is one that begins to wait, closes a circle only through the thread that takes it.
`KInv` makes each link one that the search follows: waits are registered, and the translator of a
method that is waited for is the worker that has it. So the search walks along the
circle from the thread's first link and comes back to the thread (`LoopIsFound`), answers yes, and the thread
does not wait: the step does not exist.

`StagesRefinement` proves `StagesImplemented`: for each of the five stages, a behaviour of
`TranslationPipeline` is one of the same `AbstractStage`, again without its fairness. So
`PipeStage` and the pipeline, which leaves its threads out, agree on what a stage does with tickets. Three facts
carry the proof, all from the invariant of `TranslationPipelineProofs`. A ticket is put
in a stage only when it is nowhere in it (`Outside`, from `Queued` and `InHands`). A ticket is taken
by a worker that had none, so that the hand had room (`FreeThreadIsRoom`). And
whatever happens to the number of cctor threads, those with a ticket are among them
(`QuietRefines`): the reaper resizes a stage, but never below its busy workers. `HandsFit` counts
tickets by the numbers of the workers that have them. Steps that change no queue and give no worker a
ticket are told from the others by `QueueKept` and `QuietSteps`.

*Only model-checked*: liveness (`KillEnds`, `MethodsLeavePipeline`, `FreeMonitorTaken`,
`SearchEnds`, `ShutdownEnds`) and everything with fairness, because liveness is beyond the
provers here (the refinements `ImplementsStage` and `ImplementsMonitor` are proved
without it). Every other property of a passing run is
a theorem for all values of the constants, seven of them under the hypotheses above:
`NeverStuck` does not hold of all programs, as `missed_cycle` shows.

## 5. Not modelled, and what could come next

Everything in which threads meet is modelled but for what the sections above name. What
is left out of the pipeline: `destroyThePipeline`, which ends the threads after waiting
for an empty pipeline; threads outside the pipeline that run cctors, and cctors whose own code
calls methods without code, so that stacks of waited methods have more than one
element; the sequential pipeline.

Most of the repository is sequential: the translator from CIL, the IR and its
optimizations, the back ends, the class library, the decoding of assemblies. There is no
state there that steps of several actors reach; they are candidates for checks
of algorithms against definitions (dominance, data-flow analyses, the collectors' mark
phase on small heaps), not for state machines. The collectors are plugins written against an
older interface of libxan.

Next: the static memory manager with such cctors, where a search that follows owners as well
as translators could be compared with the one in the code.
