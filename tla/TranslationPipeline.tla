------------------------- MODULE TranslationPipeline -------------------------
(***************************************************************************)
(* The parallel translation pipeline of libcore: every method to compile   *)
(* has a ticket, which goes through the stages CIL->IR, DLA (not in every  *)
(* mode), IR optimizer, IR->machine code and cctor.  Threads insert        *)
(* methods and wait for them; the DLA stage inserts the methods it expects *)
(* to be called; the threads of the cctor stage compile and run static     *)
(* constructors, and to do so insert methods themselves.                   *)
(*                                                                         *)
(* The pipeline's mutex is the variable mutex, because the code holds it   *)
(* across several steps.  Every other mutex is held within one action, and *)
(* an action is at most one such critical section.  The condition variable *)
(* on a waiting thread's stack is named by that thread.                    *)
(*                                                                         *)
(* A worker here is either free or has a ticket in hand.  PipeStage shows  *)
(* that the worker sets keep the promise this rests on (AbstractStage).    *)
(*                                                                         *)
(* An operator marked as a variant is no part of the specification: it is  *)
(* the one below it with a mistake, which the properties have to notice.   *)
(***************************************************************************)
EXTENDS Integers, FiniteSets, Sequences

CONSTANTS
    Methods,       \* the methods of the program, cctors included
    InIR,          \* those that start in IR: delegates, P/Invoke, loaded ones
    Tickets,       \* addresses of ticket records
    Callers,       \* threads outside the pipeline that request compilations
    Scheduler,     \* the thread that propagates raised priorities
    Reaper,        \* the thread that waits for the empty pipeline
    None,
    Mode,          \* the compilation scheme
    MaxPriority,   \* MAX_METHOD_PRIORITY (1.0)
    HighThreshold, \* the priority (0.75) from which the high queue is needed
    MaxCctorThreads, \* bound: threads per class the cctor stage can have
    CctorsDelta,   \* MIN_CCTORS_DELTA
    Callees,       \* the methods DLA finds reachable from a method
    CctorsToCall,  \* getCctorMethodsToCall, a sequence for each method
    Requests       \* what the callers ask for, each request once

Priorities == 0 .. MaxPriority
Classes    == {"low", "high"}
States     == {"CIL", "IR", "MACHINE_CODE", "EXECUTABLE"}
Modes      == {"plain", "jit", "dla", "aot"}
Stages     == {"cil", "dla", "opt", "mc", "cctor"}

(* A worker is named by its stage, its class and a number.  Stages start   *)
(* with one thread in each class; only the cctor stage gets more.          *)
CctorWorkers == {"cctor"} \X Classes \X (1 .. MaxCctorThreads)
Workers      == (Stages \X Classes \X {1}) \cup CctorWorkers
Threads      == Callers \cup Workers \cup {Scheduler}
Operations   == {"async", "tillIR", "synch", "waitEmpty"}
RequestSet   == [thread : Callers, op : Operations, method : Methods,
                 priority : Priorities]

ASSUME NamesAssumption ==
    /\ IsFiniteSet(Methods) /\ IsFiniteSet(Tickets) /\ IsFiniteSet(Callers)
    /\ None \notin Methods \cup Tickets \cup Threads \cup Stages
    /\ Scheduler \notin Callers \cup Workers
    /\ Callers \cap Workers = {}
    /\ Reaper \notin Threads \cup {None}
ASSUME NumbersAssumption ==
    /\ MaxPriority \in Nat /\ HighThreshold \in Nat
    /\ MaxCctorThreads \in Nat \ {0} /\ CctorsDelta \in Nat \ {0}
ASSUME ProgramAssumption ==
    /\ Mode \in Modes
    /\ Callees \in [Methods -> SUBSET Methods]
    /\ CctorsToCall \in [Methods -> Seq(Methods)]
    /\ \A m \in Methods : \A i \in DOMAIN CctorsToCall[m] : CctorsToCall[m][i] # m
    /\ Requests \subseteq RequestSet
    /\ InIR \subseteq Methods

VARIABLES
    mutex,      \* the thread that holds pipe->mutex
    methodState,\* getState of each method
    linked,     \* methods whose trampolines lead to their machine code
    methodsInPipe, \* methodsInPipe: the ticket of a method in the pipeline
    \* the ticket records
    allocated,  \* the tickets that are allocated and not freed
    method,     \* ticket->method
    priority,   \* ticket->priority
    inPipe,     \* ticket->inPipe
    inHigh,     \* ticket->inHighPriorityPipe
    itemPriority, \* of ticket->pipeItem; of a ticket in hand, when taken
    notify,     \* notifyTickets: threads waiting for the end of compilation
    irNotify,   \* unoptimizedIR_notifyTickets
    mcNotify,   \* machineCode_notifyTickets
    trampolinesSet, \* ticket->trampolinesSet
    dlaMethods, \* ticket->dlaMethods is set
    \* the stages
    queue,      \* by stage and class
    cctorThreads, \* threads of the cctor stage, in each class
    steady,     \* steady_cctor_threads
    delta,      \* cctors_delta
    \* the threads
    hand,       \* the ticket a worker works on
    step,       \* where in its job a worker is
    index,      \* a cctor worker's position in CctorsToCall
    passed,     \* the priority it passes for the cctors it compiles
    checkpoint, \* the IR optimizers that were asked to stop their job
    todo,       \* callees a DLA worker or the scheduler has still to insert
    call,       \* the pipeline function a thread is in
    pending,    \* requests not made yet
    reaper,     \* the reaper: asleep, signalled, killing
    \* the scheduler
    schedQueue, \* schedulerPipe.pipe
    methodsInScheduling,
    schedTicket, \* the ticket the scheduler works on
    \* the static memory manager
    owner, inExecution, executionDone, translator, waits

StaticMemory == INSTANCE StaticMemory WITH Threads <- Threads

methodVars == <<methodState, linked>>
ticketVars == <<methodsInPipe, allocated, method, priority, inPipe, inHigh,
                itemPriority, notify, irNotify, mcNotify, trampolinesSet,
                dlaMethods, queue>>
cctorVars  == <<cctorThreads, steady, delta>>
workerVars == <<hand, step, index, passed, checkpoint>>
schedVars  == <<schedQueue, methodsInScheduling, schedTicket>>
staticVars == <<owner, inExecution, executionDone, translator, waits>>
vars == <<mutex, methodVars, ticketVars, cctorVars, workerVars, todo, call,
          pending, reaper, schedVars, staticVars>>

-----------------------------------------------------------------------------
HasDLA       == Mode # "plain"
HasScheduler == Mode \in {"jit", "dla"}

(* The stage whose worker takes over from stage s: the worker_execution    *)
(* calls of the start_* functions.                                         *)
\* Variant: the optimizer hands over to the cctor stage.
NextStageWithoutCodeGeneration(s) == IF s = "opt" THEN "cctor" ELSE "opt"

NextStage(s) ==
    CASE s = "cil" -> IF HasDLA THEN "dla" ELSE "opt"
      [] s = "dla" -> "opt"
      [] s = "opt" -> "mc"
      [] s = "mc"  -> "cctor"

FirstStage(state) ==
    CASE state = "CIL" -> "cil"
      [] state = "IR"  -> "mc"
      [] state = "MACHINE_CODE" -> "cctor"

NeedHigh(p) == p >= HighThreshold
Class(p)    == IF NeedHigh(p) THEN "high" ELSE "low"

(* The priority of a cctor's compilation passes through a JITINT32: of the *)
(* priorities between 0.0 and 1.0 only 1.0 survives.                       *)
Truncated(p) == IF p = MaxPriority THEN p ELSE 0

Busy(s, h)    == {w \in Workers : w[1] = s /\ w[2] = h /\ step[w] # "idle"}
Started(w)    == w[3] <= IF w[1] = "cctor" THEN cctorThreads ELSE 1
IsCctorThread(a) == a \in CctorWorkers

Steps == {"idle", "job", "insert", "irNotify", "mcNotify", "put",
          "check", "make", "call", "register", "run", "runRegistered", "done",
          "declare", "wait", "undeclare",
          "link", "unregister", "publish", "notify", "destroy", "end"}

Calls == [op : {"none", "machineCode"} \cup Operations,
          method : Methods \cup {None},
          priority : Priorities,
          pc : {"idle", "enter", "insert", "move", "schedule", "sleep", "asleep",
                "signalled", "link"},
          state : States,               \* the method's state when it was read
          from : Stages \cup {None},    \* where the ticket was when it was raised
          ticket : Tickets \cup {None}]

NoCall == [op |-> "none", method |-> None, priority |-> 0, pc |-> "idle",
           state |-> "CIL", from |-> None, ticket |-> None]
Idle(a) == call[a].pc = "idle"

TypeOK ==
    /\ mutex \in Threads \cup {Reaper, None}
    /\ methodState \in [Methods -> States]
    /\ linked \subseteq Methods
    /\ methodsInPipe \in [Methods -> Tickets \cup {None}]
    /\ allocated \subseteq Tickets
    /\ method \in [Tickets -> Methods \cup {None}]
    /\ priority \in [Tickets -> Priorities]
    /\ inPipe \in [Tickets -> Stages \cup {None}]
    /\ inHigh \in [Tickets -> BOOLEAN]
    /\ itemPriority \in [Tickets -> Priorities]
    /\ notify \in [Tickets -> SUBSET Threads]
    /\ irNotify \in [Tickets -> SUBSET Threads]
    /\ mcNotify \in [Tickets -> SUBSET Threads]
    /\ trampolinesSet \subseteq Tickets
    /\ dlaMethods \subseteq Tickets
    /\ queue \in [Stages \X Classes -> SUBSET Tickets]
    /\ cctorThreads \in 1 .. MaxCctorThreads
    /\ steady \in Int
    /\ delta \in Nat \ {0}
    /\ hand \in [Workers -> Tickets \cup {None}]
    /\ step \in [Workers -> Steps]
    /\ index \in [Workers -> Nat \ {0}]
    /\ passed \in [Workers -> Priorities]
    /\ checkpoint \subseteq Workers
    /\ todo \in [Threads -> SUBSET Methods]
    /\ call \in [Threads -> Calls]
    /\ pending \subseteq Requests
    /\ reaper \in {"asleep", "signalled", "killing"}
    /\ schedQueue \subseteq Tickets
    /\ methodsInScheduling \subseteq Tickets
    /\ schedTicket \in Tickets \cup {None}
    /\ StaticMemory!SMTypeOK

Init ==
    /\ mutex = None
    /\ methodState = [m \in Methods |-> IF m \in InIR THEN "IR" ELSE "CIL"]
    /\ linked = {}
    /\ methodsInPipe = [m \in Methods |-> None]
    /\ allocated = {}
    /\ method = [t \in Tickets |-> None]
    /\ priority = [t \in Tickets |-> 0]
    /\ inPipe = [t \in Tickets |-> None]
    /\ inHigh = [t \in Tickets |-> FALSE]
    /\ itemPriority = [t \in Tickets |-> 0]
    /\ notify = [t \in Tickets |-> {}]
    /\ irNotify = [t \in Tickets |-> {}]
    /\ mcNotify = [t \in Tickets |-> {}]
    /\ trampolinesSet = {}
    /\ dlaMethods = {}
    /\ queue = [q \in Stages \X Classes |-> {}]
    /\ cctorThreads = 1
    /\ steady = 2
    /\ delta = CctorsDelta
    /\ hand = [w \in Workers |-> None]
    /\ step = [w \in Workers |-> "idle"]
    /\ index = [w \in Workers |-> 1]
    /\ passed = [w \in Workers |-> 0]
    /\ checkpoint = {}
    /\ todo = [a \in Threads |-> {}]
    /\ call = [a \in Threads |-> NoCall]
    /\ pending = Requests
    /\ reaper = "asleep"
    /\ schedQueue = {}
    /\ methodsInScheduling = {}
    /\ schedTicket = None
    /\ StaticMemory!SMInit

-----------------------------------------------------------------------------
(* Condition variables: a signal reaches a thread only if it sleeps on it. *)
(* POSIX also allows wakeups without a signal; they are left out.          *)

Asleep(a) == call[a].pc = "asleep"

Wake(signalled) ==
    call' = [a \in Threads |-> IF a \in signalled /\ Asleep(a)
                                 THEN [call[a] EXCEPT !.pc = "signalled"]
                                 ELSE call[a]]

Holds(a, pc)   == mutex = a /\ call[a].pc = pc
GoesTo(a, pc)  == call' = [call EXCEPT ![a].pc = pc] /\ UNCHANGED mutex
Return(a)      == call' = [call EXCEPT ![a] = NoCall] /\ mutex' = None

(* internal_tryCheckPoint for a ticket that came to, or moved up in, a     *)
(* queue of stage s: only the IR optimizer ever looks at the request.      *)
TryCheckPoint(t, s, h) ==
    checkpoint' = checkpoint \cup
        {w \in Workers : /\ s = "opt" /\ w[1] = s /\ w[2] = h
                         /\ hand[w] # None
                         /\ priority[t] > itemPriority[hand[w]]}

(* internal_putToPipe; the new item's priority is the ticket's. *)
PutToPipe(t, s, h) ==
    /\ TryCheckPoint(t, s, h)
    /\ queue' = [queue EXCEPT ![<<s, h>>] = @ \cup {t}]
    /\ itemPriority' = [itemPriority EXCEPT ![t] = priority[t]]
    /\ inPipe' = [inPipe EXCEPT ![t] = s]
    /\ inHigh' = [inHigh EXCEPT ![t] = (h = "high")]

(* internal_decreaseSteadyCCTORThreads: a thread of the cctor stage is     *)
(* about to wait.  When half of the stage's threads wait, start more.      *)
\* Variant: off by one.
MostThreadsWait(busy) == busy > cctorThreads
HalfTheThreadsWait(busy) == busy >= cctorThreads

DecreaseSteadyCCTORThreads ==
    LET busy == 2 * cctorThreads - (steady - 1) IN
    IF HalfTheThreadsWait(busy)
      THEN /\ cctorThreads + delta <= MaxCctorThreads
           /\ cctorThreads' = cctorThreads + delta
           /\ steady' = steady - 1 + 2 * delta
           /\ delta' = 2 * delta
      ELSE /\ steady' = steady - 1
           /\ UNCHANGED <<cctorThreads, delta>>

IncreaseSteadyCCTORThreads ==
    steady' = steady + 1 /\ UNCHANGED <<cctorThreads, delta>>

-----------------------------------------------------------------------------
(* The three ways to insert a method.  Each begins by reading the state of *)
(* the method: insert_method_into_pipeline_async and                       *)
(* internal_synchTillIRMethod before they take the pipeline's mutex,       *)
(* insert_method_into_pipeline after.  A call that finds nothing to do     *)
(* changes nothing, and is no step.                                        *)

Begin(a, op, m, p) ==
    /\ Idle(a)
    /\ op = "async"  => methodState[m] # "EXECUTABLE"
    /\ op = "tillIR" => methodState[m] = "CIL"
    /\ call' = [call EXCEPT ![a] =
                   [op |-> op, method |-> m, priority |-> p, pc |-> "enter",
                    state |-> methodState[m], from |-> None, ticket |-> None]]

(* A caller makes a request, or finds that there is nothing to do. *)
Request(r) ==
    /\ r \in pending
    /\ Idle(r.thread)
    /\ pending' = pending \ {r}
    /\ \/ Begin(r.thread, r.op, r.method, r.priority)
       \/ /\ \/ r.op = "async" /\ methodState[r.method] = "EXECUTABLE"
             \/ r.op = "tillIR" /\ methodState[r.method] # "CIL"
          /\ UNCHANGED call
    /\ UNCHANGED <<mutex, methodVars, ticketVars, cctorVars, workerVars, todo,
                   reaper, schedVars, staticVars>>

EnterInsert(a) ==
    /\ mutex = None
    /\ call[a].pc = "enter" /\ call[a].op \in {"async", "tillIR"}
    /\ mutex' = a
    /\ call' = [call EXCEPT ![a].pc = "insert"]
    /\ UNCHANGED <<methodVars, ticketVars, cctorVars, workerVars, todo, pending,
                   reaper, schedVars, staticVars>>

(* insert_method_into_pipeline, up to the insertion.  A cctor thread that  *)
(* would close a cycle of waiting threads waits for the machine code only; *)
(* otherwise it declares that it waits for the method.                     *)
EnterSynch(a) ==
    LET m == call[a].method
        cyclic == /\ IsCctorThread(a) /\ methodsInPipe[m] # None
                  /\ StaticMemory!LeadsToADeadlock(a, m)
    IN
    /\ mutex = None
    /\ call[a].pc = "enter" /\ call[a].op = "synch"
    /\ IF methodState[m] = "EXECUTABLE"
         THEN /\ Return(a)
              /\ UNCHANGED waits
         ELSE /\ mutex' = a
              /\ call' = [call EXCEPT ![a].pc = "insert",
                            ![a].state = methodState[m],
                            ![a].op = IF cyclic THEN "machineCode" ELSE "synch"]
              /\ IF IsCctorThread(a) /\ ~cyclic
                   THEN StaticMemory!RegisterCompilationNeeded(a, m)
                   ELSE UNCHANGED waits
    /\ UNCHANGED <<methodVars, ticketVars, cctorVars, workerVars, todo, pending,
                   reaper, schedVars, owner, inExecution, executionDone, translator>>

(* What follows the insertion: to wait, or not to. *)
Inserted(a, c) ==
    CASE c.op = "async" -> Return(a)
      [] c.op = "machineCode" /\ c.state = "MACHINE_CODE" ->
            call' = [call EXCEPT ![a] = [c EXCEPT !.pc = "link"]] /\ UNCHANGED mutex
      [] OTHER ->
            call' = [call EXCEPT ![a] = [c EXCEPT !.pc = "sleep"]] /\ UNCHANGED mutex

(* internal_insert_method_into_the_right_pipeline, of a method that has a  *)
(* ticket: join those it will notify, and raise its priority.              *)
JoinTicket(a) ==
    LET c == call[a]
        t == methodsInPipe[c.method]
        raises == c.priority > priority[t]
        joined == [c EXCEPT !.ticket = t,
                            !.from = IF raises THEN inPipe[t] ELSE None]
    IN
    /\ Holds(a, "insert")
    /\ t # None
    /\ notify' = [notify EXCEPT ![t] = IF c.op = "synch" THEN @ \cup {a} ELSE @]
    /\ irNotify' = [irNotify EXCEPT ![t] = IF c.op = "tillIR" THEN @ \cup {a} ELSE @]
    /\ mcNotify' = [mcNotify EXCEPT ![t] = IF c.op = "machineCode" THEN @ \cup {a} ELSE @]
    /\ priority' = [priority EXCEPT ![t] = IF raises THEN c.priority ELSE @]
    /\ IF raises
         THEN /\ call' = [call EXCEPT ![a] = [joined EXCEPT !.pc = "move"]]
              /\ UNCHANGED mutex
         ELSE Inserted(a, joined)
    /\ UNCHANGED <<methodVars, methodsInPipe, allocated, method, inPipe, inHigh,
                   itemPriority, trampolinesSet, dlaMethods, queue, cctorVars,
                   workerVars, todo, pending, reaper, schedVars, staticVars>>

(* internal_changePriority, when the ticket was in a queue: if it is still *)
(* in the same stage, move it to the high priority queue if its priority   *)
(* now needs that, and give its item the new priority.                     *)
\* Variant: trust what was read before the queues were locked.
WasInStage(c)   == c.from # None
StillInStage(c) == c.from # None /\ inPipe[c.ticket] = c.from

ChangePriority(a) ==
    LET c == call[a]
        t == c.ticket
        promoted == ~inHigh[t] /\ NeedHigh(priority[t])
    IN
    /\ Holds(a, "move")
    /\ IF StillInStage(c)
         THEN /\ itemPriority' = [itemPriority EXCEPT ![t] = priority[t]]
              /\ inHigh' = [inHigh EXCEPT ![t] = @ \/ promoted]
              /\ queue' = IF promoted
                            THEN [queue EXCEPT ![<<c.from, "low">>] = @ \ {t},
                                               ![<<c.from, "high">>] = @ \cup {t}]
                            ELSE queue
              /\ TryCheckPoint(t, c.from, IF inHigh'[t] THEN "high" ELSE "low")
         ELSE UNCHANGED <<itemPriority, inHigh, queue, checkpoint>>
    /\ IF HasScheduler THEN GoesTo(a, "schedule") ELSE Inserted(a, c)
    /\ UNCHANGED <<methodVars, methodsInPipe, allocated, method, priority, inPipe,
                   notify, irNotify, mcNotify, trampolinesSet, dlaMethods,
                   cctorVars, hand, step, index, passed, todo, pending, reaper,
                   schedVars, staticVars>>

(* The end of the same insertion: hand the ticket to the scheduler. *)
SendToScheduler(a) ==
    LET t == call[a].ticket IN
    /\ Holds(a, "schedule")
    /\ schedQueue' = IF t \in methodsInScheduling THEN schedQueue
                      ELSE schedQueue \cup {t}
    /\ methodsInScheduling' = methodsInScheduling \cup {t}
    /\ Inserted(a, call[a])
    /\ UNCHANGED <<methodVars, ticketVars, cctorVars, workerVars, todo, pending,
                   reaper, schedTicket, staticVars>>

(* internal_insert_method_into_the_right_pipeline, of a method without a   *)
(* ticket: make one and put it in the stage for the state that was read.   *)
(* The machine code notification of the call is dropped (NULL is passed).  *)
InsertNew(a) ==
    LET c == call[a] IN
    /\ Holds(a, "insert")
    /\ methodsInPipe[c.method] = None
    /\ \E t \in Tickets \ allocated :
        LET s == FirstStage(c.state)
            h == Class(c.priority)
        IN
        /\ methodsInPipe' = [methodsInPipe EXCEPT ![c.method] = t]
        /\ allocated' = allocated \cup {t}
        /\ method' = [method EXCEPT ![t] = c.method]
        /\ priority' = [priority EXCEPT ![t] = c.priority]
        /\ notify' = [notify EXCEPT ![t] = IF c.op = "synch" THEN {a} ELSE {}]
        /\ irNotify' = [irNotify EXCEPT ![t] = IF c.op = "tillIR" THEN {a} ELSE {}]
        /\ queue' = [queue EXCEPT ![<<s, h>>] = @ \cup {t}]
        /\ itemPriority' = [itemPriority EXCEPT ![t] = c.priority]
        /\ inPipe' = [inPipe EXCEPT ![t] = s]
        /\ inHigh' = [inHigh EXCEPT ![t] = (h = "high")]
        /\ trampolinesSet' = trampolinesSet \ {t}
        /\ Inserted(a, [c EXCEPT !.ticket = t])
    /\ UNCHANGED <<methodVars, mcNotify, dlaMethods, cctorVars, workerVars, todo,
                   pending, reaper, schedVars, staticVars>>

(* The wait for the notification: a thread of the cctor stage first gives  *)
(* up its place among the steady ones.                                     *)
GoToSleep(a) ==
    /\ Holds(a, "sleep")
    /\ call' = [call EXCEPT ![a].pc = "asleep"]
    /\ mutex' = None
    /\ IF IsCctorThread(a) /\ call[a].op = "synch"
         THEN DecreaseSteadyCCTORThreads
         ELSE UNCHANGED cctorVars
    /\ UNCHANGED <<methodVars, ticketVars, workerVars, todo, pending, reaper,
                   schedVars, staticVars>>

(* The rest of a call once its thread was woken.  No condition is tested   *)
(* again.                                                                  *)
WakeUp(a) ==
    /\ mutex = None
    /\ call[a].pc = "signalled" /\ call[a].op # "waitEmpty"
    /\ IF call[a].op = "machineCode"
         THEN mutex' = a /\ call' = [call EXCEPT ![a].pc = "link"]
         ELSE Return(a)
    /\ IF IsCctorThread(a) /\ call[a].op = "synch"
         THEN /\ IncreaseSteadyCCTORThreads
              /\ StaticMemory!RegisterCompilationDone(a)
         ELSE UNCHANGED <<cctorVars, waits>>
    /\ UNCHANGED <<methodVars, ticketVars, workerVars, todo, pending, reaper,
                   schedVars, owner, inExecution, executionDone, translator>>

(* A cctor thread that waited for the machine code links the method itself *)
LinkWaited(a) ==
    /\ Holds(a, "link")
    /\ linked' = linked \cup {call[a].method}
    /\ trampolinesSet' = trampolinesSet \cup {call[a].ticket}
    /\ Return(a)
    /\ UNCHANGED <<methodState, methodsInPipe, allocated, method, priority,
                   inPipe, inHigh, itemPriority, notify, irNotify, mcNotify,
                   dlaMethods, queue, cctorVars, workerVars, todo, pending,
                   reaper, schedVars, staticVars>>

(* internal_waitEmptyPipeline: it does test its condition again. *)
PipelineEmpty == \A m \in Methods : methodsInPipe[m] = None

WaitEmptyPipeline(a) ==
    /\ mutex = None
    /\ call[a].op = "waitEmpty" /\ call[a].pc \in {"enter", "signalled"}
    /\ call' = [call EXCEPT ![a] = IF PipelineEmpty THEN NoCall
                                     ELSE [@ EXCEPT !.pc = "asleep"]]
    /\ UNCHANGED <<mutex, methodVars, ticketVars, cctorVars, workerVars, todo,
                   pending, reaper, schedVars, staticVars>>

InsertMethod(a) ==
    \/ EnterInsert(a) \/ EnterSynch(a) \/ JoinTicket(a) \/ ChangePriority(a)
    \/ SendToScheduler(a) \/ InsertNew(a) \/ GoToSleep(a) \/ WakeUp(a)
    \/ LinkWaited(a) \/ WaitEmptyPipeline(a)

-----------------------------------------------------------------------------
(* The workers of the stages.                                              *)

GoOn(w, next) == step' = [step EXCEPT ![w] = next]
At(w, s, here) == w[1] = s /\ step[w] = here

(* What a step leaves alone that changes a ticket's fields only, or none.  *)
OnlyWorker == UNCHANGED <<mutex, cctorVars, pending, reaper, schedVars>>
OnlyStep   ==
    OnlyWorker /\ UNCHANGED <<ticketVars, todo, hand, index, passed, checkpoint>>

(* internal_pipe_get_job.  The threads of a worker set differ in nothing   *)
(* but their identity, so the first idle one takes the ticket.             *)
FirstIdle(w) ==
    /\ Started(w) /\ step[w] = "idle"
    /\ \A v \in Workers :
         v[1] = w[1] /\ v[2] = w[2] /\ v[3] < w[3] => step[v] # "idle"

Take(w) ==
    LET q == queue[<<w[1], w[2]>>] IN
    /\ FirstIdle(w)
    /\ \E t \in q :
        /\ \A u \in q : itemPriority[u] <= itemPriority[t]
        /\ queue' = [queue EXCEPT ![<<w[1], w[2]>>] = @ \ {t}]
        /\ hand' = [hand EXCEPT ![w] = t]
        /\ inPipe' = [inPipe EXCEPT ![t] = None]
        /\ itemPriority' = [itemPriority EXCEPT ![t] = priority[t]]
    /\ checkpoint' = checkpoint \ {w}
    /\ GoOn(w, "job")
    /\ UNCHANGED <<methodVars, methodsInPipe, allocated, method, priority,
                   inHigh, notify, irNotify, mcNotify,
                   trampolinesSet, dlaMethods, index, passed, todo, call, staticVars>>
    /\ OnlyWorker

(* internal_pipe_end_job: the ticket goes to the next stage, or back to    *)
(* this one, always to the queue of this worker's class.                   *)
EndJob(w, s) ==
    /\ PutToPipe(hand[w], s, w[2])
    /\ hand' = [hand EXCEPT ![w] = None]
    /\ GoOn(w, "idle")
    /\ UNCHANGED <<methodVars, methodsInPipe, allocated, method, priority,
                   notify, irNotify, mcNotify, trampolinesSet, dlaMethods,
                   index, passed, todo, call, staticVars>>
    /\ OnlyWorker

PutInNextStage(w) == step[w] = "put" /\ EndJob(w, NextStage(w[1]))

(* cilIRTranslator *)
TranslateToIR(w) ==
    /\ At(w, "cil", "job")
    /\ methodState' = [methodState EXCEPT ![method[hand[w]]] = "IR"]
    /\ GoOn(w, "irNotify")
    /\ OnlyStep /\ UNCHANGED <<linked, call, staticVars>>

NotifyIR(w) ==
    /\ step[w] = "irNotify"
    /\ Wake(irNotify[hand[w]])
    /\ GoOn(w, "put")
    /\ OnlyStep /\ UNCHANGED <<methodVars, staticVars>>

(* DLA: insert the methods that the method of the ticket will call.  The   *)
(* JIT has nothing to do here, and the DLA compiler only for a method that *)
(* is likely enough to run.                                                *)
FindCallees(w) ==
    /\ At(w, "dla", "job")
    /\ IF Mode = "jit"
         THEN /\ GoOn(w, "put")
              /\ UNCHANGED todo
         ELSE /\ GoOn(w, "insert")
              /\ \E found \in {Callees[method[hand[w]]]}
                              \cup (IF Mode = "dla" THEN {{}} ELSE {}) :
                   todo' = [todo EXCEPT ![w] = found]
    /\ OnlyWorker
    /\ UNCHANGED <<ticketVars, hand, index, passed, checkpoint, methodVars, call,
                   staticVars>>

(* One insertMethod of the loop over these methods, in a DLA worker or in  *)
(* the scheduler.                                                          *)
InsertCallee(a) ==
    /\ Idle(a)
    /\ \E m \in todo[a] :
        /\ todo' = [todo EXCEPT ![a] = @ \ {m}]
        /\ \/ \E p \in (IF Mode = "aot" THEN {0} ELSE Priorities) :
                 Begin(a, "async", m, p)
           \/ methodState[m] = "EXECUTABLE" /\ UNCHANGED call
    /\ UNCHANGED <<mutex, methodVars, ticketVars, cctorVars, workerVars, pending,
                   reaper, schedVars, staticVars>>

EndDLA(w) ==
    /\ step[w] = "insert" /\ todo[w] = {} /\ Idle(w)
    /\ dlaMethods' = IF Mode = "dla" THEN dlaMethods \cup {hand[w]} ELSE dlaMethods
    /\ GoOn(w, "put")
    /\ UNCHANGED <<methodVars, methodsInPipe, allocated, method, priority, inPipe,
                   inHigh, itemPriority, notify, irNotify, mcNotify,
                   trampolinesSet, queue, hand, index, passed, checkpoint, todo,
                   call, staticVars>>
    /\ OnlyWorker

(* iROptimizer: if it was asked to, it may still stop at a checkpoint, and *)
(* its job goes back to the queue it came from.                            *)
Optimize(w) ==
    /\ At(w, "opt", "job")
    /\ GoOn(w, "put")
    /\ OnlyStep /\ UNCHANGED <<methodVars, call, staticVars>>

Reschedule(w) ==
    /\ At(w, "opt", "job")
    /\ w \in checkpoint
    /\ EndJob(w, "opt")

(* iRMachineCodeTranslator *)
GenerateMachineCode(w) ==
    /\ At(w, "mc", "job")
    /\ methodState' = [methodState EXCEPT ![method[hand[w]]] = "MACHINE_CODE"]
    /\ GoOn(w, "mcNotify")
    /\ OnlyStep /\ UNCHANGED <<linked, call, staticVars>>

(* Variant: it wakes those too who wait for the end of the compilation. *)
NotifyEverybody(w) ==
    /\ step[w] = "mcNotify"
    /\ Wake(mcNotify[hand[w]] \cup notify[hand[w]])
    /\ GoOn(w, "put")
    /\ OnlyStep /\ UNCHANGED <<methodVars, staticVars>>

NotifyMachineCode(w) ==
    /\ step[w] = "mcNotify"
    /\ Wake(mcNotify[hand[w]])
    /\ GoOn(w, "put")
    /\ OnlyStep /\ UNCHANGED <<methodVars, staticVars>>

Translate(w) ==
    \/ Take(w) \/ PutInNextStage(w) \/ TranslateToIR(w) \/ NotifyIR(w)
    \/ FindCallees(w) \/ InsertCallee(w) \/ EndDLA(w)
    \/ Optimize(w) \/ Reschedule(w) \/ GenerateMachineCode(w)
    \/ NotifyMachineCode(w)

-----------------------------------------------------------------------------
(* cctorTranslator *)

Cctors(w) == CctorsToCall[method[hand[w]]]
Cctor(w)  == Cctors(w)[index[w]]

(* Go to the next cctor of the list in the same loop, or leave the loop.   *)
(* Variant: after the last cctor the method is not linked. *)
NextCctorAndNoLink(w, loop, after) ==
    IF index[w] < Len(Cctors(w))
      THEN step' = [step EXCEPT ![w] = loop] /\ index' = [index EXCEPT ![w] = @ + 1]
      ELSE /\ step' = [step EXCEPT ![w] = IF after = "link" THEN "unregister" ELSE after]
           /\ index' = [index EXCEPT ![w] = 1]

NextCctor(w, loop, after) ==
    IF index[w] < Len(Cctors(w))
      THEN step' = [step EXCEPT ![w] = loop] /\ index' = [index EXCEPT ![w] = @ + 1]
      ELSE step' = [step EXCEPT ![w] = after] /\ index' = [index EXCEPT ![w] = 1]

CctorStep(w, here) == At(w, "cctor", here) /\ Idle(w)
OnlyCctorStep ==
    UNCHANGED <<mutex, ticketVars, hand, checkpoint, todo, pending, reaper,
                schedVars>>

StartCctorJob(w) ==
    /\ CctorStep(w, "job")
    /\ StaticMemory!RegisterTranslator(method[hand[w]], w)
    /\ GoOn(w, IF Cctors(w) = <<>> THEN "link" ELSE "check")
    /\ OnlyCctorStep
    /\ UNCHANGED <<methodVars, cctorVars, index, passed, call, owner, inExecution,
                   executionDone, waits>>

(* STATICMEMORY_areStaticConstructorsExecutable *)
CheckCctors(w) ==
    LET c == Cctors(w)
        executable == \A i \in DOMAIN c : methodState[c[i]] = "EXECUTABLE"
    IN
    /\ CctorStep(w, "check")
    /\ GoOn(w, IF executable THEN "call" ELSE "make")
    /\ passed' = [passed EXCEPT ![w] = Truncated(priority[hand[w]])]
    /\ OnlyCctorStep
    /\ UNCHANGED <<methodVars, cctorVars, index, call, staticVars>>

(* STATICMEMORY_makeStaticConstructorsExecutable: compile those that no    *)
(* thread owns yet.                                                        *)
MakeExecutable(w) ==
    /\ CctorStep(w, "make")
    /\ IF StaticMemory!InitializationLockFree(Cctor(w))
         THEN /\ StaticMemory!TakeInitializationLock(Cctor(w), w)
              /\ Begin(w, "synch", Cctor(w), passed[w])
         ELSE UNCHANGED <<owner, call>>
    /\ NextCctor(w, "make", "call")
    /\ OnlyCctorStep
    /\ UNCHANGED <<methodVars, cctorVars, passed, inExecution, executionDone,
                   translator, waits>>

(* STATICMEMORY_callStaticConstructors: run, wait for, or pass over each.  *)
CallCctor(w) ==
    LET c == Cctor(w)
        mine == StaticMemory!MayExecute(c, w)
    IN
    /\ CctorStep(w, "call")
    /\ CASE StaticMemory!ExecutionIsDone(c) ->
               NextCctor(w, "call", "link") /\ UNCHANGED <<inExecution, waits>>
         [] ~StaticMemory!ExecutionIsDone(c) /\ mine ->
               /\ StaticMemory!BeginExecution(c)
               /\ GoOn(w, "register")
               /\ UNCHANGED <<waits, index>>
         [] OTHER ->
               /\ StaticMemory!TryDeclaringWaiting(w, c)
               /\ IF StaticMemory!LeadsToADeadlock(w, c)
                    THEN NextCctor(w, "call", "link")
                    ELSE GoOn(w, "declare") /\ UNCHANGED index
               /\ UNCHANGED inExecution
    /\ OnlyCctorStep
    /\ UNCHANGED <<methodVars, cctorVars, passed, call, owner, executionDone,
                   translator>>

(* internal_callStaticConstructor: register as the cctor's translator for  *)
(* as long as it runs, unless there is one.                                *)
RegisterRunner(w) ==
    LET c == Cctor(w) IN
    /\ CctorStep(w, "register")
    /\ StaticMemory!RegisterTranslator(c, w)
    /\ GoOn(w, IF translator[c] = None THEN "runRegistered" ELSE "run")
    /\ OnlyCctorStep
    /\ UNCHANGED <<methodVars, cctorVars, index, passed, call, owner,
                   inExecution, executionDone, waits>>

UnregisterRunner(w) ==
    /\ CctorStep(w, "runRegistered")
    /\ StaticMemory!UnregisterTranslator(Cctor(w))
    /\ GoOn(w, "done")
    /\ OnlyCctorStep
    /\ UNCHANGED <<methodVars, cctorVars, index, passed, call, owner,
                   inExecution, executionDone, waits>>

EndOfCctor(w) ==
    /\ CctorStep(w, "run") \/ CctorStep(w, "done")
    /\ StaticMemory!EndExecution(Cctor(w))
    /\ NextCctor(w, "call", "link")
    /\ OnlyCctorStep
    /\ UNCHANGED <<methodVars, cctorVars, passed, call, owner, translator, waits>>

(* internal_waitStaticConstructor, when it is safe to wait *)
DeclareWaiting(w) ==
    /\ CctorStep(w, "declare") /\ mutex = None
    /\ DecreaseSteadyCCTORThreads
    /\ GoOn(w, "wait")
    /\ OnlyCctorStep
    /\ UNCHANGED <<methodVars, index, passed, call, staticVars>>

EndOfWait(w) ==
    /\ CctorStep(w, "wait") /\ mutex = None
    /\ Cctor(w) \in executionDone
    /\ IncreaseSteadyCCTORThreads
    /\ GoOn(w, "undeclare")
    /\ OnlyCctorStep
    /\ UNCHANGED <<methodVars, index, passed, call, staticVars>>

UndeclareWaiting(w) ==
    /\ CctorStep(w, "undeclare")
    /\ StaticMemory!RegisterCompilationDone(w)
    /\ NextCctor(w, "call", "link")
    /\ OnlyCctorStep
    /\ UNCHANGED <<methodVars, cctorVars, passed, call, owner, inExecution,
                   executionDone, translator>>

RunCctors(w) ==
    \/ StartCctorJob(w) \/ CheckCctors(w) \/ MakeExecutable(w) \/ CallCctor(w)
    \/ RegisterRunner(w) \/ UnregisterRunner(w) \/ EndOfCctor(w)
    \/ DeclareWaiting(w) \/ EndOfWait(w) \/ UndeclareWaiting(w)

(* With the cctors run, make the method known to the program ...           *)
LinkMethod(w) ==
    LET t == hand[w] IN
    /\ CctorStep(w, "link")
    /\ linked' = IF t \in trampolinesSet THEN linked ELSE linked \cup {method[t]}
    /\ trampolinesSet' = trampolinesSet \cup {t}
    /\ GoOn(w, "unregister")
    /\ OnlyWorker
    /\ UNCHANGED <<methodState, methodsInPipe, allocated, method, priority,
                   inPipe, inHigh, itemPriority, notify, irNotify, mcNotify,
                   dlaMethods, queue, hand, index, passed, checkpoint, todo,
                   call, staticVars>>

UnregisterMethod(w) ==
    /\ CctorStep(w, "unregister")
    /\ StaticMemory!UnregisterTranslator(method[hand[w]])
    /\ GoOn(w, "publish")
    /\ OnlyCctorStep
    /\ UNCHANGED <<methodVars, cctorVars, index, passed, call, owner,
                   inExecution, executionDone, waits>>

Publish(w) ==
    /\ CctorStep(w, "publish")
    /\ methodState' = [methodState EXCEPT ![method[hand[w]]] = "EXECUTABLE"]
    /\ GoOn(w, "notify")
    /\ OnlyCctorStep
    /\ UNCHANGED <<linked, cctorVars, index, passed, call, staticVars>>

(* ... and internal_notifyCompilationEnd tell those who wait for it.  It   *)
(* holds the ticket's mutex, not the pipeline's.                           *)
NotifyCompilationEnd(w) ==
    /\ CctorStep(w, "notify")
    /\ Wake(notify[hand[w]])
    /\ GoOn(w, "destroy")
    /\ OnlyCctorStep
    /\ UNCHANGED <<methodVars, cctorVars, index, passed, staticVars>>

Free(t) ==
    /\ allocated' = allocated \ {t}
    /\ method' = [method EXCEPT ![t] = None]
    /\ priority' = [priority EXCEPT ![t] = 0]
    /\ inHigh' = [inHigh EXCEPT ![t] = FALSE]
    /\ itemPriority' = [itemPriority EXCEPT ![t] = 0]
    /\ notify' = [notify EXCEPT ![t] = {}]
    /\ irNotify' = [irNotify EXCEPT ![t] = {}]
    /\ mcNotify' = [mcNotify EXCEPT ![t] = {}]
    /\ trampolinesSet' = trampolinesSet \ {t}
    /\ dlaMethods' = dlaMethods \ {t}

(* internal_destroyTicket: the method leaves the pipeline; the ticket is   *)
(* freed unless the scheduler still has it.  The last method to leave      *)
(* wakes everybody who waits for the pipeline to be empty.                 *)
\* Variant: the scheduler is forgotten in one of the two modes that have it.
KeptInDLAOnly(t)   == Mode = "dla" /\ t \in methodsInScheduling
KeptByScheduler(t) == HasScheduler /\ t \in methodsInScheduling

RemoveTicket(w) ==
    LET t == hand[w]
        empty == \A m \in Methods \ {method[t]} : methodsInPipe[m] = None
        waiting == {a \in Threads : call[a].op = "waitEmpty"}
    IN
    /\ CctorStep(w, "destroy")
    /\ methodsInPipe' = [methodsInPipe EXCEPT ![method[t]] = None]
    /\ IF KeptByScheduler(t)
         THEN UNCHANGED <<allocated, method, priority, inHigh, itemPriority,
                          notify, irNotify, mcNotify, trampolinesSet, dlaMethods>>
         ELSE Free(t)
    /\ Wake(IF empty THEN waiting ELSE {})
    /\ reaper' = IF empty /\ reaper = "asleep" THEN "signalled" ELSE reaper
    /\ GoOn(w, "end")
    /\ UNCHANGED <<mutex, methodVars, inPipe, queue, cctorVars, hand, index,
                   passed, checkpoint, todo, pending, schedVars, staticVars>>

\* Variant: without the pipeline's mutex.
DestroyTicketUnlocked(w) == RemoveTicket(w)
DestroyTicket(w) == mutex = None /\ RemoveTicket(w)

(* The end of internal_worker_execution's loop.  Before it takes another   *)
(* ticket it writes ticket->jobState, whoever the memory belongs to now.   *)
EndCctorJob(w) ==
    /\ CctorStep(w, "end")
    /\ hand' = [hand EXCEPT ![w] = None]
    /\ passed' = [passed EXCEPT ![w] = 0]
    /\ GoOn(w, "idle")
    /\ OnlyWorker
    /\ UNCHANGED <<methodVars, ticketVars, index, checkpoint, todo, call, staticVars>>

Complete(w) ==
    \/ LinkMethod(w) \/ UnregisterMethod(w) \/ Publish(w)
    \/ NotifyCompilationEnd(w) \/ DestroyTicket(w) \/ EndCctorJob(w)

-----------------------------------------------------------------------------
(* DLAScheduler: for a ticket whose priority was raised, insert the        *)
(* methods its method will call again, those whose priority changed.  Its  *)
(* queue's order is left out.                                              *)
TakeScheduled ==
    /\ schedTicket = None
    /\ \E t \in schedQueue :
        /\ schedTicket' = t
        /\ schedQueue' = schedQueue \ {t}
        /\ \E found \in IF t \in dlaMethods THEN {{}, Callees[method[t]]} ELSE {{}} :
             todo' = [todo EXCEPT ![Scheduler] = found]
    /\ UNCHANGED <<mutex, methodVars, ticketVars, cctorVars, workerVars, call,
                   pending, reaper, methodsInScheduling, staticVars>>

\* Variant: look for the ticket in the scheduler, where it still is.
LeftScheduler(t) == t \notin methodsInScheduling
LeftPipeline(t) == methodsInPipe[method[t]] = None

EndScheduled ==
    LET t == schedTicket IN
    /\ schedTicket # None /\ todo[Scheduler] = {} /\ Idle(Scheduler)
    /\ mutex = None
    /\ IF LeftPipeline(t)
         THEN Free(t)
         ELSE UNCHANGED <<allocated, method, priority, inHigh, itemPriority,
                          notify, irNotify, mcNotify, trampolinesSet, dlaMethods>>
    /\ methodsInScheduling' = methodsInScheduling \ {t}
    /\ schedTicket' = None
    /\ UNCHANGED <<mutex, methodVars, methodsInPipe, inPipe, queue, cctorVars,
                   workerVars, todo, call, pending, reaper, schedQueue, staticVars>>

Schedule == TakeScheduled \/ InsertCallee(Scheduler) \/ EndScheduled

(* waitEmptyPipelineThread: once the pipeline is empty, it brings the      *)
(* threads of the cctor stage back to one in each class.  It keeps the     *)
(* pipeline's mutex while it joins them.                                   *)
\* Variant: the condition is not tested again after the wakeup.
ManyThreads == 2 * cctorThreads > 2
Reapable    == PipelineEmpty /\ 2 * cctorThreads > 2

ReaperWakesUp ==
    /\ reaper = "signalled" /\ mutex = None
    /\ IF Reapable
         THEN reaper' = "killing" /\ mutex' = Reaper
         ELSE reaper' = "asleep" /\ UNCHANGED mutex
    /\ UNCHANGED <<methodVars, ticketVars, cctorVars, workerVars, todo, call,
                   pending, schedVars, staticVars>>

\* Variant: the first threads are not started again.
StartNoThread     == cctorThreads' = 0 /\ steady' = 0 /\ delta' = CctorsDelta
StartFirstThreads == cctorThreads' = 1 /\ steady' = 2 /\ delta' = CctorsDelta

KillCctorThreads ==
    /\ reaper = "killing"
    /\ \A w \in CctorWorkers : step[w] = "idle"
    /\ StartFirstThreads
    /\ reaper' = "asleep"
    /\ mutex' = None
    /\ UNCHANGED <<methodVars, ticketVars, workerVars, todo, call, pending,
                   schedVars, staticVars>>

Reap == ReaperWakesUp \/ KillCctorThreads

-----------------------------------------------------------------------------
Worker(w) == Translate(w) \/ RunCctors(w) \/ Complete(w)

Step ==
    \/ \E a \in Threads : InsertMethod(a)
    \/ \E w \in Workers : Worker(w)
    \/ Schedule
    \/ Reap

Next == Step \/ \E r \in Requests : Request(r)

(* As long as some thread can go on, one of them does; jobs and cctors     *)
(* end.  As every request leads to finitely many steps, this is all the    *)
(* fairness that is needed: nobody starves for a mutex.  Callers need not  *)
(* request anything.                                                       *)
Fairness == WF_vars(Step)

Spec == Init /\ [][Next]_vars /\ Fairness

-----------------------------------------------------------------------------
(* Properties *)

Live(t)   == t \in allocated /\ methodsInPipe[method[t]] = t
InHand(t) == {w \in Workers : hand[w] = t /\ step[w] # "end"}
AtStep(t, steps) == \E w \in InHand(t) : step[w] \in steps

(* A method in the pipeline has one ticket, which is in one place: in the  *)
(* queue that inPipe and inHighPriorityPipe name, or with one worker.      *)
TicketInOnePlace ==
    /\ \A m \in Methods : methodsInPipe[m] # None =>
         methodsInPipe[m] \in allocated /\ method[methodsInPipe[m]] = m
    /\ \A t \in Tickets :
         /\ Live(t) <=> inPipe[t] # None \/ InHand(t) # {}
         /\ inPipe[t] # None => InHand(t) = {}
         /\ Cardinality(InHand(t)) <= 1
         /\ \A q \in DOMAIN queue :
              t \in queue[q] <=> inPipe[t] = q[1] /\ inHigh[t] = (q[2] = "high")

(* The handshake between internal_destroyTicket and DLAScheduler: a ticket *)
(* that the scheduler still has to visit stays allocated.                  *)
SchedulerKeepsTickets ==
    /\ methodsInScheduling = schedQueue \cup ({schedTicket} \ {None})
    /\ methodsInScheduling \subseteq allocated

(* Whichever of the two is the last to see a ticket frees it.  This is so  *)
(* as long as no method comes back: DLAScheduler looks for its method, not *)
(* for the ticket, in the pipeline.                                        *)
NoTicketLeaks == \A t \in allocated : Live(t) \/ t \in methodsInScheduling

(* An insertion goes on with a ticket it found, through the change of its  *)
(* priority to the scheduler, while stages and scheduler go on with it as  *)
(* well: it is still there, as only its destruction needs the pipeline's   *)
(* mutex.  (Two others are not so careful: the cctor thread that waited    *)
(* for machine code, and internal_worker_execution, which writes jobState  *)
(* after internal_destroyTicket.)                                          *)
InsertionKeepsTicket ==
    \A a \in Threads : call[a].pc \in {"move", "schedule"} =>
        methodsInPipe[call[a].method] = call[a].ticket /\ Live(call[a].ticket)

(* Code runs as soon as its method is executable: its trampolines have to  *)
(* lead to the machine code by then, whoever linked it.                    *)
ExecutableIsLinked ==
    \A m \in Methods : methodState[m] = "EXECUTABLE" => m \in linked

(* A worker gets a method in the state its stage works from, as the        *)
(* translator asserts (cil_ir_translator.c:269).                           *)
StageFitsState ==
    \A w \in Workers : step[w] = "job" =>
        methodState[method[hand[w]]] =
            CASE w[1] = "cil" -> "CIL"
              [] w[1] \in {"dla", "opt", "mc"} -> "IR"
              [] w[1] = "cctor" -> "MACHINE_CODE"

(* A synchronous insertion comes back with the method compiled.            *)
CompiledOnReturn ==
    [][\A a \in Threads : call[a].op # "none" /\ call'[a].op = "none" =>
         LET m == call[a].method IN
         CASE call[a].op = "synch" -> methodState'[m] = "EXECUTABLE"
           [] call[a].op = "tillIR" -> methodState'[m] # "CIL"
           [] call[a].op = "machineCode" -> m \in linked'
           [] call[a].op = "waitEmpty" -> PipelineEmpty
           [] OTHER -> TRUE]_vars

(* The reaper joins threads with the pipeline's mutex in its hands: none   *)
(* of them may be in the middle of a job, where it could need that mutex.  *)
ReaperFindsIdleThreads ==
    reaper = "killing" => \A w \in CctorWorkers : step[w] \in {"idle", "end"}

(* A cctor runs once at most, in the thread that owns it, and not before   *)
(* that thread's synchronous insertion left it with machine code.          *)
CctorRunsOnce ==
    [][/\ executionDone \subseteq executionDone'
       /\ \A w \in CctorWorkers : step[w] = "call" /\ step'[w] = "register" =>
            /\ Cctor(w) \notin inExecution \cup executionDone
            /\ owner[Cctor(w)] = w
            /\ methodState[Cctor(w)] \in {"MACHINE_CODE", "EXECUTABLE"}]_vars

(* Method n has to be executable for the cctors of m to run: it is in each *)
(* set that has m and the cctors of its members.                           *)
Needs(m, c) == \E i \in DOMAIN CctorsToCall[m] : CctorsToCall[m][i] = c

Reaches(m, n) ==
    \A S \in SUBSET Methods :
        m \in S /\ (\A x \in S : {c \in Methods : Needs(x, c)} \subseteq S) => n \in S

(* A method gets executable after its cctors ran.  The exception: the      *)
(* thread of another method owns the cctor, and waits for this one; then   *)
(* LeadsToADeadlock lets the thread of this method pass over the cctor.    *)
CctorsRanBefore ==
    \A m \in Methods : methodState[m] = "EXECUTABLE" =>
        \A c \in Methods : Needs(m, c) =>
            \/ c \in executionDone
            \/ \E y \in Methods \ {m} : Needs(y, c) /\ Reaches(y, m)

(* A thread that went to sleep when its notification had been sent.        *)
Forgotten(a) ==
    LET t == call[a].ticket
        m == call[a].method
        compiled == {"MACHINE_CODE", "EXECUTABLE"}
    IN
    /\ call[a].pc \in {"sleep", "asleep"}
    /\ \/ ~Live(t) \/ method[t] # m
       \/ call[a].op = "synch" /\ AtStep(t, {"destroy"})
       \/ call[a].op = "machineCode" /\ methodState[m] \in compiled /\ ~AtStep(t, {"mcNotify"})
       \/ call[a].op = "tillIR" /\ methodState[m] # "CIL" /\ ~AtStep(t, {"irNotify"})

(* However many threads of the cctor stage wait for cctors or methods, each*)
(* of its queues keeps a thread that does not, or one that waits only for  *)
(* machine code which an earlier stage has yet to make: that wait needs no *)
(* thread of this stage to end.  It is the wait that is not counted        *)
(* (translation_pipeline_parallel.c:553), and the exception is that it     *)
(* lost its notification.                                                  *)
Blocked(w) ==
    \/ step[w] = "wait"
    \/ call[w].op = "synch" /\ call[w].pc \in {"asleep", "signalled"}
    \/ call[w].op = "machineCode" /\ call[w].pc = "asleep"

InEarlierStage(t) ==
    \/ inPipe[t] \in Stages \ {"cctor"}
    \/ \E v \in InHand(t) : v[1] \in Stages \ {"cctor"}

AwaitsEarlierStage(w) ==
    LET t == call[w].ticket IN
    /\ call[w].op = "machineCode"
    /\ \/ Live(t) /\ method[t] = call[w].method /\ InEarlierStage(t)
       \/ Forgotten(w)

CctorThreadFree ==
    \A h \in Classes : \E w \in CctorWorkers :
        w[2] = h /\ Started(w) /\ (~Blocked(w) \/ AwaitsEarlierStage(w))

(* The guards of Step, of one thread after the other.  Only two of them    *)
(* are bounds of the model and not conditions of the code: an insertion    *)
(* needs a free ticket, and a growth of the cctor stage needs threads.     *)
FreeTicket == Tickets \ allocated # {}
RoomToWait ==
    HalfTheThreadsWait(2 * cctorThreads - (steady - 1)) =>
        cctorThreads + delta <= MaxCctorThreads

CallerGoesOn(a) ==
    \/ mutex = None /\ call[a].pc \in {"enter", "signalled"}
    \/ mutex = a /\ call[a].pc \in {"move", "schedule", "link"}
    \/ Holds(a, "insert") /\ (methodsInPipe[call[a].method] # None \/ FreeTicket)
    \/ Holds(a, "sleep") /\ (IsCctorThread(a) /\ call[a].op = "synch" => RoomToWait)

WorkerGoesOn(w) ==
    \/ step[w] = "idle" /\ Started(w) /\ queue[<<w[1], w[2]>>] # {}
    \/ /\ step[w] # "idle" /\ Idle(w)
       /\ step[w] \in {"declare", "wait", "destroy"} => mutex = None
       /\ step[w] = "declare" => RoomToWait
       /\ step[w] = "wait" => Cctor(w) \in executionDone

SchedulerGoesOn ==
    \/ schedTicket = None /\ schedQueue # {}
    \/ schedTicket # None /\ Idle(Scheduler) /\ (todo[Scheduler] = {} => mutex = None)

ReaperGoesOn ==
    \/ reaper = "signalled" /\ mutex = None
    \/ reaper = "killing" /\ \A w \in CctorWorkers : step[w] = "idle"

CanGoOn ==
    \/ \E a \in Threads : CallerGoesOn(a)
    \/ \E w \in Workers : WorkerGoesOn(w)
    \/ SchedulerGoesOn
    \/ ReaperGoesOn

(* Threads that wait for each other's methods and cctors do not get stuck: *)
(* unless a thread of the cctor stage lost a notification, someone can go  *)
(* on until the pipeline is empty.  This is what internal_tryDeclaringWaiting *)
(* is there for: static_memory.c:683 "Check if a deadlock would occurs",   *)
(* and when it finds none, 686 "Safe to wait".                             *)
NeverStuck ==
    CanGoOn \/ PipelineEmpty \/ \E w \in CctorWorkers : Forgotten(w)

(* Whatever is inserted leaves the pipeline, with the same exception.      *)
MethodsLeavePipeline ==
    \A m \in Methods : methodsInPipe[m] # None ~>
        methodsInPipe[m] = None \/ \E w \in CctorWorkers : Forgotten(w)
-----------------------------------------------------------------------------
(* A condition, which is a hypothesis of theorems: a ticket whose          *)
(* trampolinesSet is TRUE is that of a method which was linked             *)
(* (translation_pipeline_parallel.c:75, "Trampoline is already             *)
(* backpatched").  The code keeps it unless malloc gives the memory of a   *)
(* ticket that was freed during the wait at 553 to another one, before the *)
(* write at 560.                                                           *)
TrampolinesAreSet ==
    \A t \in allocated \cap trampolinesSet : method[t] \in linked

-----------------------------------------------------------------------------
(* What comments and assertions of the code say, and the code does not     *)
(* keep.  Each of these has a run that finds it violated.                  *)

(* translation_pipeline_parallel.c:595 "Synch to the end of the compilation*)
(* of the method": a thread that inserts a method and waits for it returns.*)
(* The notification needs the ticket's mutex only, and may come before the *)
(* wait, which tests no condition.                                         *)
SynchReturns ==
    \A a \in Callers : call[a].op = "synch" ~> call[a].op = "none"

(* cil_ir_translator.c:269 asserts CIL_STATE: nothing is translated twice. *)
(* insert_method_into_pipeline_async reads the state before it takes the   *)
(* mutex, and inserts by what it read.                                     *)
CilToTranslate ==
    \A w \in Workers : w[1] = "cil" /\ step[w] = "job" =>
        methodState[method[hand[w]]] = "CIL"
=============================================================================
