------------------------- MODULE MethodHistoryProofs -------------------------
(***************************************************************************)
(* Proofs about what methods, tickets and cctors have gone through: the    *)
(* state of a method fits the place of its ticket, no ticket leaks, an     *)
(* executable method is linked, a call comes back with what it was made    *)
(* for, and a cctor runs once.                                             *)
(*                                                                         *)
(* The code does not keep these in every run.  Three races break them, and *)
(* each is the negation of one condition, which the theorems name as their *)
(* hypothesis: InsertionsFresh (the state is read before the mutex is      *)
(* taken), SignalsFresh (the notification of an earlier wait is left in a  *)
(* ticket) and TrampolinesAreSet (a ticket is used after it was freed and  *)
(* made again).  The last section shows compilers and programs that meet   *)
(* the conditions in every run.                                            *)
(***************************************************************************)
EXTENDS TranslationPipelineProofs
-----------------------------------------------------------------------------
(* What insert_method_into_pipeline_async and internal_synchTillIRMethod   *)
(* rely on: a method that is inserted with a new ticket is still in the    *)
(* state that was read before the pipeline's mutex was taken.              *)
InsertionsFresh ==
    \A a \in Threads :
        /\ Holds(a, "insert") /\ call[a].op \in {"async", "tillIR"}
        /\ methodsInPipe[call[a].method] = None
        => call[a].state = methodState[call[a].method]

-----------------------------------------------------------------------------
(* The state a method is in while its ticket is in a queue of stage s, and *)
(* while a worker of stage s has it at some step of its job.               *)
NeededIn(s) ==
    CASE s = "cil" -> "CIL"
      [] s \in {"dla", "opt", "mc"} -> "IR"
      [] s = "cctor" -> "MACHINE_CODE"

ReachedAt(s, here) ==
    CASE s = "cil" -> IF here = "job" THEN "CIL" ELSE "IR"
      [] s \in {"dla", "opt"} -> "IR"
      [] s = "mc" -> IF here = "job" THEN "IR" ELSE "MACHINE_CODE"
      [] s = "cctor" -> IF here \in {"notify", "destroy"} THEN "EXECUTABLE"
                                                          ELSE "MACHINE_CODE"

PlacesFit ==
    /\ \A t \in Tickets : inPipe[t] # None =>
         methodState[method[t]] = NeededIn(inPipe[t])
    /\ \A w \in Workers : Working(w) =>
         methodState[method[hand[w]]] = ReachedAt(w[1], step[w])

(* insert_method_into_pipeline reads the state with the mutex in its hands.*)
SynchFresh ==
    \A a \in Threads :
        /\ call[a].pc = "insert" /\ call[a].op \in {"synch", "machineCode"}
        /\ methodsInPipe[call[a].method] = None
        => call[a].state = methodState[call[a].method]

(* A ticket that only the scheduler still has is that of a method which is *)
(* executable, and does not come back.                                     *)
LeftFits ==
    \A t \in allocated : ~Live(t) =>
        /\ methodState[method[t]] = "EXECUTABLE"
        /\ methodsInPipe[method[t]] = None
        /\ t \in methodsInScheduling

HInv == PlacesFit /\ SynchFresh /\ LeftFits

-----------------------------------------------------------------------------
(* The steps, by what they do to tickets and to the states of methods.     *)

SameRecords == UNCHANGED <<methodsInPipe, allocated, method, inPipe>>

(* None, but the scheduler may get another ticket.                         *)
CallsOnly ==
    /\ SameRecords /\ UNCHANGED <<methodState, hand, step>>
    /\ methodsInScheduling \subseteq methodsInScheduling'

(* A worker goes on with its job, and its method is as before.             *)
MovesOn(w) ==
    /\ SameRecords /\ UNCHANGED <<methodState, hand, methodsInScheduling>>
    /\ Working(w)
    /\ \E x \in Steps \ {"idle", "end"} :
         /\ step' = [step EXCEPT ![w] = x]
         /\ ReachedAt(w[1], x) = ReachedAt(w[1], step[w])

(* A worker brings its method further.                                     *)
Advances(w) ==
    /\ SameRecords /\ UNCHANGED <<hand, methodsInScheduling>>
    /\ Working(w)
    /\ \E x \in {"irNotify", "mcNotify", "notify"} :
         /\ step' = [step EXCEPT ![w] = x]
         /\ methodState' = [methodState EXCEPT ![method[hand[w]]] = ReachedAt(w[1], x)]
         /\ <<ReachedAt(w[1], step[w]), ReachedAt(w[1], x)>> \in
               {<<"CIL", "IR">>, <<"IR", "MACHINE_CODE">>, <<"MACHINE_CODE", "EXECUTABLE">>}
         /\ x = "notify" <=> step[w] = "publish"

LEMMA CallsOnlySteps ==
    ASSUME NEW a \in Threads,
           \/ EnterInsert(a) \/ EnterSynch(a) \/ JoinTicket(a) \/ ChangePriority(a)
           \/ SendToScheduler(a) \/ GoToSleep(a) \/ WakeUp(a) \/ LinkWaited(a)
           \/ WaitEmptyPipeline(a) \/ InsertCallee(a)
    PROVE  CallsOnly
<1>1. CASE EnterInsert(a) \/ EnterSynch(a) \/ GoToSleep(a) \/ WakeUp(a)
             \/ WaitEmptyPipeline(a) \/ InsertCallee(a) \/ SendToScheduler(a)
  <2>1. UNCHANGED methodVars /\ UNCHANGED ticketVars /\ UNCHANGED workerVars
    BY <1>1 DEF EnterInsert, EnterSynch, GoToSleep, WakeUp, WaitEmptyPipeline,
                InsertCallee, SendToScheduler
  <2>2. methodsInScheduling \subseteq methodsInScheduling'
    BY <1>1 DEF EnterInsert, EnterSynch, GoToSleep, WakeUp, WaitEmptyPipeline,
                InsertCallee, SendToScheduler, schedVars
  <2> QED
    BY <2>1, <2>2 DEF CallsOnly, SameRecords, methodVars, ticketVars, workerVars
<1>2. CASE JoinTicket(a) \/ ChangePriority(a) \/ LinkWaited(a)
  BY <1>2 DEF JoinTicket, ChangePriority, LinkWaited, CallsOnly, SameRecords,
              methodVars, workerVars, schedVars
<1> QED
  BY <1>1, <1>2

LEMMA OutsideSteps ==
    ASSUME \/ \E r \in Requests : Request(r)
           \/ TakeScheduled \/ Reap \/ UNCHANGED vars
    PROVE  CallsOnly
  BY DEF Request, TakeScheduled, Reap, ReaperWakesUp, KillCctorThreads, vars, CallsOnly,
         SameRecords, methodVars, ticketVars, workerVars, schedVars

(* The steps of the stages before the cctor stage.                         *)
LEMMA TranslateMovesOn ==
    ASSUME IInv, NEW w \in Workers,
           \/ NotifyIR(w) \/ FindCallees(w) \/ EndDLA(w) \/ Optimize(w)
           \/ NotifyMachineCode(w)
    PROVE  MovesOn(w)
<1>1. SameRecords /\ UNCHANGED <<methodState, hand, methodsInScheduling>>
  BY DEF NotifyIR, FindCallees, EndDLA, Optimize, NotifyMachineCode, OnlyStep,
         OnlyWorker, SameRecords, methodVars, ticketVars, schedVars
<1>2. /\ step[w] \in {"irNotify", "job", "insert", "mcNotify"}
      /\ Working(w)
  BY DEF NotifyIR, FindCallees, EndDLA, Optimize, NotifyMachineCode, At, Working
<1>3. PICK x \in {"put", "insert"} : step' = [step EXCEPT ![w] = x]
  BY DEF NotifyIR, FindCallees, EndDLA, Optimize, NotifyMachineCode, GoOn
<1>4. ReachedAt(w[1], x) = ReachedAt(w[1], step[w])
  <2>1. CASE NotifyIR(w)
    BY <1>3, <2>1, StageOfStep DEF NotifyIR, ReachedAt
  <2>2. CASE FindCallees(w) \/ Optimize(w)
    BY <2>2 DEF FindCallees, Optimize, At, ReachedAt
  <2>3. CASE EndDLA(w)
    BY <2>3, StageOfStep DEF EndDLA, ReachedAt
  <2>4. CASE NotifyMachineCode(w)
    BY <1>3, <2>4, StageOfStep DEF NotifyMachineCode, ReachedAt
  <2> QED
    BY <2>1, <2>2, <2>3, <2>4
<1> QED
  BY <1>1, <1>2, <1>3, <1>4 DEF MovesOn, Steps

(* The loops of the cctor stage, and its last steps.                       *)
LEMMA CctorMovesOn ==
    ASSUME NEW w \in Workers,
           \/ RunCctors(w) \/ LinkMethod(w) \/ UnregisterMethod(w)
           \/ NotifyCompilationEnd(w)
    PROVE  MovesOn(w)
<1>1. SameRecords /\ UNCHANGED <<methodState, hand, methodsInScheduling>>
  BY DEF RunCctors, StartCctorJob, CheckCctors, MakeExecutable, CallCctor,
         RegisterRunner, UnregisterRunner, EndOfCctor, DeclareWaiting, EndOfWait,
         UndeclareWaiting, LinkMethod, UnregisterMethod, NotifyCompilationEnd,
         OnlyCctorStep, OnlyWorker, SameRecords, methodVars, ticketVars, schedVars
<1>2. CASE RunCctors(w) \/ LinkMethod(w) \/ UnregisterMethod(w)
  <2>1. /\ w[1] = "cctor"
        /\ step[w] \in {"job", "link", "unregister"} \cup (CctorSteps \ {"end", "notify", "destroy"})
    BY <1>2 DEF RunCctors, StartCctorJob, CheckCctors, MakeExecutable, CallCctor,
       RegisterRunner, UnregisterRunner, EndOfCctor, DeclareWaiting, EndOfWait,
       UndeclareWaiting, LinkMethod, UnregisterMethod, CctorStep, At, CctorSteps, LoopSteps
  <2>2. PICK x \in CctorSteps \ {"end", "notify", "destroy"} : step' = [step EXCEPT ![w] = x]
    BY <1>2 DEF RunCctors, StartCctorJob, CheckCctors, MakeExecutable, CallCctor,
       RegisterRunner, UnregisterRunner, EndOfCctor, DeclareWaiting, EndOfWait,
       UndeclareWaiting, LinkMethod, UnregisterMethod, NextCctor, GoOn, CctorSteps, LoopSteps
  <2> QED
    BY <1>1, <2>1, <2>2 DEF MovesOn, Working, ReachedAt, CctorSteps, LoopSteps, Steps
<1>3. CASE NotifyCompilationEnd(w)
  BY <1>1, <1>3 DEF NotifyCompilationEnd, CctorStep, At, GoOn, MovesOn, Working,
                    ReachedAt, Steps
<1> QED
  BY <1>2, <1>3

LEMMA AdvanceSteps ==
    ASSUME NEW w \in Workers,
           TranslateToIR(w) \/ GenerateMachineCode(w) \/ Publish(w)
    PROVE  Advances(w)
<1>1. SameRecords /\ UNCHANGED <<hand, methodsInScheduling>>
  BY DEF TranslateToIR, GenerateMachineCode, Publish, OnlyStep, OnlyCctorStep,
         OnlyWorker, SameRecords, ticketVars, schedVars
<1> QED
  BY <1>1 DEF TranslateToIR, GenerateMachineCode, Publish, CctorStep, At, GoOn,
              Advances, Working, ReachedAt, Steps

(* Every step is one of these, or moves a ticket.                          *)
LEMMA StepKinds ==
    ASSUME IInv, [Next]_vars
    PROVE  \/ CallsOnly
           \/ \E w \in Workers : MovesOn(w) \/ Advances(w)
           \/ \E w \in Workers : Take(w) \/ PutInNextStage(w) \/ Reschedule(w)
           \/ \E a \in Threads : InsertNew(a)
           \/ \E w \in Workers : DestroyTicket(w) \/ EndCctorJob(w)
           \/ EndScheduled
<1>1. ASSUME NEW a \in Threads, InsertMethod(a)
      PROVE  CallsOnly \/ InsertNew(a)
  BY <1>1, CallsOnlySteps DEF InsertMethod
<1>2. ASSUME NEW w \in Workers, Worker(w)
      PROVE  \/ CallsOnly \/ MovesOn(w) \/ Advances(w) \/ Take(w) \/ PutInNextStage(w)
             \/ Reschedule(w) \/ DestroyTicket(w) \/ EndCctorJob(w)
  <2>1. w \in Threads
    BY WorkerShape
  <2> QED
    BY <1>2, <2>1, CallsOnlySteps, TranslateMovesOn, CctorMovesOn, AdvanceSteps
    DEF Worker, Translate, Complete
<1>3. CASE Schedule
  BY <1>3, MethodIsNotNone, CallsOnlySteps, OutsideSteps DEF Schedule
<1> QED
  BY <1>1, <1>2, <1>3, OutsideSteps DEF Next, Step

-----------------------------------------------------------------------------
(* The tickets of different methods.                                       *)
LEMMA OthersMethod ==
    ASSUME IInv, NEW w \in Workers, Working(w), NEW t \in Tickets, Live(t), t # hand[w]
    PROVE  method[t] # method[hand[w]]
  BY HandInPlace DEF Live

LEMMA CallsOnlyFits ==
    ASSUME IInv, PlacesFit, CallsOnly PROVE PlacesFit'
<1>1. \A w \in Workers : Working(w)' <=> Working(w)
  BY DEF CallsOnly, Working
<1> QED
  BY <1>1 DEF PlacesFit, CallsOnly, SameRecords

LEMMA MovesOnFits ==
    ASSUME IInv, PlacesFit, NEW w \in Workers, MovesOn(w) PROVE PlacesFit'
<1>1. PICK x \in Steps \ {"idle", "end"} :
         /\ step' = [step EXCEPT ![w] = x]
         /\ ReachedAt(w[1], x) = ReachedAt(w[1], step[w])
  BY DEF MovesOn
<1>2. SameRecords /\ UNCHANGED <<methodState, hand>> /\ Working(w)
  BY DEF MovesOn
<1>3. \A v \in Workers : Working(v)' <=> Working(v)
  BY <1>1, <1>2 DEF Working, IInv, TypeWorkers
<1>4. \A v \in Workers : ReachedAt(v[1], step'[v]) = ReachedAt(v[1], step[v])
  BY <1>1 DEF IInv, TypeWorkers
<1>5. ASSUME NEW v \in Workers, Working(v)'
      PROVE  methodState'[method'[hand'[v]]] = ReachedAt(v[1], step'[v])
  BY <1>2, <1>3, <1>4, <1>5 DEF PlacesFit, SameRecords
<1>6. \A t \in Tickets : inPipe'[t] # None =>
         methodState'[method'[t]] = NeededIn(inPipe'[t])
  BY <1>2 DEF PlacesFit, SameRecords
<1> QED
  BY <1>5, <1>6 DEF PlacesFit

LEMMA AdvancesFits ==
    ASSUME IInv, PlacesFit, NEW w \in Workers, Advances(w) PROVE PlacesFit'
<1>1. PICK x \in {"irNotify", "mcNotify", "notify"} :
         /\ step' = [step EXCEPT ![w] = x]
         /\ methodState' = [methodState EXCEPT ![method[hand[w]]] = ReachedAt(w[1], x)]
  BY DEF Advances
<1>2. SameRecords /\ UNCHANGED hand /\ Working(w)
  BY DEF Advances
<1>3. \A v \in Workers : Working(v)' <=> Working(v)
  BY <1>1, <1>2 DEF Working, IInv, TypeWorkers
<1>4. method[hand[w]] \in Methods /\ hand[w] \in Tickets /\ inPipe[hand[w]] = None
  BY <1>2, HandInPlace
<1>5. ASSUME NEW t \in Tickets, inPipe'[t] # None
      PROVE  methodState'[method'[t]] = NeededIn(inPipe'[t])
  <2>1. inPipe[t] # None /\ method'[t] = method[t] /\ inPipe'[t] = inPipe[t]
    BY <1>2, <1>5 DEF SameRecords
  <2>2. Live(t) /\ t # hand[w]
    BY <1>4, <2>1 DEF IInv, Queued
  <2>3. method[t] # method[hand[w]] /\ method[t] \in Methods
    BY <1>2, <2>2, OthersMethod DEF IInv, TicketsNamed, Live
  <2> QED
    BY <1>1, <2>1, <2>3 DEF PlacesFit, IInv, TypeMethods
<1>6. ASSUME NEW v \in Workers, Working(v)'
      PROVE  methodState'[method'[hand'[v]]] = ReachedAt(v[1], step'[v])
  <2>1. Working(v) /\ method'[hand'[v]] = method[hand[v]]
    BY <1>2, <1>3, <1>6 DEF SameRecords
  <2>2. CASE v = w
    BY <1>1, <1>4, <2>1, <2>2 DEF IInv, TypeMethods, TypeWorkers
  <2>3. CASE v # w
    <3>1. hand[v] # hand[w] /\ Live(hand[v]) /\ hand[v] \in Tickets /\ method[hand[v]] \in Methods
      BY <1>2, <2>1, <2>3, HandInPlace DEF IInv, InHands
    <3>2. method[hand[v]] # method[hand[w]]
      BY <1>2, <3>1, OthersMethod
    <3>3. step'[v] = step[v]
      BY <1>1, <2>3 DEF IInv, TypeWorkers
    <3> QED
      BY <1>1, <2>1, <3>1, <3>2, <3>3 DEF PlacesFit, IInv, TypeMethods
  <2> QED
    BY <2>2, <2>3
<1> QED
  BY <1>5, <1>6 DEF PlacesFit

LEMMA TakeFits ==
    ASSUME IInv, PlacesFit, NEW w \in Workers, Take(w) PROVE PlacesFit'
<1>1. PICK t \in queue[<<w[1], w[2]>>] :
         /\ hand' = [hand EXCEPT ![w] = t]
         /\ inPipe' = [inPipe EXCEPT ![t] = None]
  BY DEF Take
<1>2. step' = [step EXCEPT ![w] = "job"] /\ UNCHANGED <<methodState, method>>
  BY DEF Take, GoOn, methodVars
<1>3. t \in Tickets /\ inPipe[t] = w[1] /\ w[1] # None
  BY <1>1, WorkerShape, MethodIsNotNone DEF IInv, TypeTickets, Queued
<1>4. methodState[method[t]] = ReachedAt(w[1], "job")
  BY <1>3, WorkerShape DEF PlacesFit, NeededIn, ReachedAt, Stages
<1>5. ASSUME NEW u \in Tickets, inPipe'[u] # None
      PROVE  methodState'[method'[u]] = NeededIn(inPipe'[u])
  BY <1>1, <1>2, <1>3, <1>5 DEF PlacesFit, IInv, TypeTickets
<1>6. ASSUME NEW v \in Workers, Working(v)'
      PROVE  methodState'[method'[hand'[v]]] = ReachedAt(v[1], step'[v])
  BY <1>1, <1>2, <1>4, <1>6 DEF PlacesFit, IInv, TypeWorkers, Working
<1> QED
  BY <1>5, <1>6 DEF PlacesFit

LEMMA EndJobFits ==
    ASSUME IInv, PlacesFit, NEW w \in Workers,
           PutInNextStage(w) \/ Reschedule(w)
    PROVE  PlacesFit'
<1>1. PICK s \in Stages : EndJob(w, s) /\ ReachedAt(w[1], step[w]) = NeededIn(s)
  <2>1. CASE PutInNextStage(w)
    BY <2>1, StageOfStep, WorkerShape
    DEF PutInNextStage, NextStage, ReachedAt, NeededIn, Stages
  <2>2. CASE Reschedule(w)
    BY <2>2 DEF Reschedule, At, ReachedAt, NeededIn, Stages
  <2> QED
    BY <2>1, <2>2
<1>2. /\ inPipe' = [inPipe EXCEPT ![hand[w]] = s]
      /\ hand' = [hand EXCEPT ![w] = None] /\ step' = [step EXCEPT ![w] = "idle"]
      /\ UNCHANGED <<methodState, method>>
  BY <1>1 DEF EndJob, PutToPipe, GoOn, methodVars
<1>3. Working(w) /\ hand[w] \in Tickets
  <2>1. Working(w)
    BY DEF PutInNextStage, Reschedule, At, Working
  <2> QED
    BY <2>1, HandInPlace
<1>4. ASSUME NEW u \in Tickets, inPipe'[u] # None
      PROVE  methodState'[method'[u]] = NeededIn(inPipe'[u])
  BY <1>1, <1>2, <1>3, <1>4 DEF PlacesFit, IInv, TypeTickets
<1>5. ASSUME NEW v \in Workers, Working(v)'
      PROVE  methodState'[method'[hand'[v]]] = ReachedAt(v[1], step'[v])
  BY <1>2, <1>5 DEF PlacesFit, IInv, TypeWorkers, Working
<1> QED
  BY <1>4, <1>5 DEF PlacesFit

(* What is inserted is in the state it was read in.                        *)
LEMMA InsertedFresh ==
    ASSUME IInv, SynchFresh, InsertionsFresh, NEW a \in Threads, InsertNew(a)
    PROVE  /\ call[a].method \in Methods /\ call[a].state \in {"CIL", "IR", "MACHINE_CODE"}
           /\ call[a].state = methodState[call[a].method]
           /\ methodsInPipe[call[a].method] = None
<1>1. /\ call[a] \in Calls /\ CallOK(call[a]) /\ Holds(a, "insert")
      /\ call[a].pc = "insert" /\ methodsInPipe[call[a].method] = None
  BY DEF IInv, CallsOK, InsertNew, Holds
<1>2. call[a].op \in {"async", "tillIR", "synch", "machineCode"}
  BY <1>1 DEF CallOK, Calls, Operations
<1>3. call[a].state = methodState[call[a].method]
  BY <1>1, <1>2 DEF SynchFresh, InsertionsFresh
<1> QED
  BY <1>1, <1>2, <1>3 DEF CallOK, Calls, States

LEMMA InsertNewParts ==
    ASSUME NEW a \in Threads, InsertNew(a)
    PROVE  /\ \E t \in Tickets \ allocated :
                /\ methodsInPipe' = [methodsInPipe EXCEPT ![call[a].method] = t]
                /\ allocated' = allocated \cup {t}
                /\ method' = [method EXCEPT ![t] = call[a].method]
                /\ inPipe' = [inPipe EXCEPT ![t] = FirstStage(call[a].state)]
           /\ UNCHANGED <<methodState, hand, step, methodsInScheduling>>
  BY DEF InsertNew, methodVars, workerVars, schedVars

LEMMA InsertNewFits ==
    ASSUME IInv, PlacesFit, SynchFresh, InsertionsFresh, NEW a \in Threads, InsertNew(a)
    PROVE  PlacesFit'
<1> DEFINE m == call[a].method
           c == call[a].state
<1>1. /\ m \in Methods /\ c \in {"CIL", "IR", "MACHINE_CODE"}
      /\ c = methodState[m] /\ methodsInPipe[m] = None
  BY InsertedFresh
<1>2. PICK t \in Tickets \ allocated :
                /\ methodsInPipe' = [methodsInPipe EXCEPT ![m] = t]
                /\ allocated' = allocated \cup {t}
                /\ method' = [method EXCEPT ![t] = m]
                /\ inPipe' = [inPipe EXCEPT ![t] = FirstStage(c)]
  BY InsertNewParts
<1>3. UNCHANGED <<methodState, hand, step>>
  BY InsertNewParts
<1> HIDE DEF m, c
<1>4. c = NeededIn(FirstStage(c))
  BY <1>1 DEF NeededIn, FirstStage
<1>5. ASSUME NEW u \in Tickets, inPipe'[u] # None
      PROVE  methodState'[method'[u]] = NeededIn(inPipe'[u])
  BY <1>1, <1>2, <1>3, <1>4, <1>5 DEF PlacesFit, IInv, TypeTickets
<1>6. ASSUME NEW v \in Workers, Working(v)'
      PROVE  methodState'[method'[hand'[v]]] = ReachedAt(v[1], step'[v])
  <2>1. Working(v)
    BY <1>3, <1>6 DEF Working
  <2>2. hand[v] # t
    BY <1>2, <2>1, HandInPlace
  <2>3. method'[hand'[v]] = method[hand[v]]
    BY <1>2, <1>3, <2>1, <2>2, HandInPlace DEF IInv, TypeTickets
  <2> QED
    BY <1>3, <2>1, <2>3 DEF PlacesFit
<1> QED
  BY <1>5, <1>6 DEF PlacesFit

(* When a ticket leaves, it is in no queue and in nobody else's hands.     *)
LEMMA FreedMethod ==
    ASSUME IInv, NEW t \in Tickets, FreedOrKept(t)
    PROVE  \A u \in Tickets : u # t => /\ method'[u] = method[u]
                                       /\ u \in allocated' <=> u \in allocated
  BY DEF FreedOrKept, Free, IInv, TypeTickets

LEMMA DestroyParts ==
    ASSUME IInv, NEW w \in Workers, DestroyTicket(w)
    PROVE  /\ w[1] = "cctor" /\ Working(w) /\ step[w] = "destroy" /\ mutex = None
           /\ methodsInPipe' = [methodsInPipe EXCEPT ![method[hand[w]]] = None]
           /\ step' = [step EXCEPT ![w] = "end"]
           /\ FreedOrKept(hand[w])
           /\ hand[w] \in allocated' => hand[w] \in methodsInScheduling
           /\ hand[w] \in allocated' => method' = method
           /\ UNCHANGED <<methodState, inPipe, hand, methodsInScheduling>>
<1>1. UNCHANGED methodVars /\ UNCHANGED schedVars /\ UNCHANGED <<inPipe, hand>>
  BY DEF DestroyTicket, RemoveTicket
<1>2. /\ FreedOrKept(hand[w])
      /\ hand[w] \in allocated' => hand[w] \in methodsInScheduling
      /\ hand[w] \in allocated' => method' = method
  <2>1. CASE KeptByScheduler(hand[w])
    BY <2>1 DEF DestroyTicket, RemoveTicket, FreedOrKept, KeptByScheduler
  <2>2. CASE ~KeptByScheduler(hand[w])
    <3>1. Free(hand[w])
      BY <2>2 DEF DestroyTicket, RemoveTicket
    <3> QED
      BY <3>1 DEF FreedOrKept, Free
  <2> QED
    BY <2>1, <2>2
<1> QED
  BY <1>1, <1>2 DEF DestroyTicket, RemoveTicket, GoOn, CctorStep, At, Working,
                    methodVars, schedVars

LEMMA DestroyTicketFits ==
    ASSUME IInv, PlacesFit, NEW w \in Workers, DestroyTicket(w) PROVE PlacesFit'
<1> DEFINE t == hand[w]
<1>1. t \in Tickets /\ inPipe[t] = None
  BY DestroyParts, HandInPlace
<1>2. \A u \in Tickets : u # t => method'[u] = method[u]
  BY <1>1, DestroyParts, FreedMethod
<1>3. ASSUME NEW u \in Tickets, inPipe'[u] # None
      PROVE  methodState'[method'[u]] = NeededIn(inPipe'[u])
  BY <1>1, <1>2, <1>3, DestroyParts DEF PlacesFit
<1>4. ASSUME NEW v \in Workers, Working(v)'
      PROVE  methodState'[method'[hand'[v]]] = ReachedAt(v[1], step'[v])
  <2>1. v # w /\ step'[v] = step[v] /\ Working(v)
    BY <1>4, DestroyParts DEF Working, IInv, TypeWorkers
  <2>2. hand[v] # t /\ hand[v] \in Tickets
    BY <2>1, DestroyParts, HandInPlace DEF IInv, InHands
  <2> QED
    BY <1>2, <2>1, <2>2, DestroyParts DEF PlacesFit
<1> QED
  BY <1>3, <1>4 DEF PlacesFit

LEMMA EndCctorJobFits ==
    ASSUME IInv, PlacesFit, NEW w \in Workers, EndCctorJob(w) PROVE PlacesFit'
<1>1. /\ hand' = [hand EXCEPT ![w] = None] /\ step' = [step EXCEPT ![w] = "idle"]
      /\ UNCHANGED <<methodState, method, inPipe>>
  BY DEF EndCctorJob, GoOn, methodVars, ticketVars
<1>2. ASSUME NEW v \in Workers, Working(v)'
      PROVE  methodState'[method'[hand'[v]]] = ReachedAt(v[1], step'[v])
  BY <1>1, <1>2 DEF PlacesFit, IInv, TypeWorkers, Working
<1> QED
  BY <1>1, <1>2 DEF PlacesFit

LEMMA EndScheduledParts ==
    ASSUME IInv, EndScheduled
    PROVE  /\ schedTicket \in Tickets /\ schedTicket \in methodsInScheduling
           /\ FreedOrKept(schedTicket)
           /\ schedTicket \in allocated' =>
                method' = method /\ methodsInPipe[method[schedTicket]] # None
           /\ schedTicket \notin allocated' =>
                methodsInPipe[method[schedTicket]] = None
           /\ methodsInScheduling' = methodsInScheduling \ {schedTicket}
           /\ UNCHANGED <<methodState, methodsInPipe, inPipe, hand, step>>
<1>1. schedTicket \in Tickets /\ schedTicket \in methodsInScheduling
      /\ schedTicket \in allocated
  BY DEF EndScheduled, IInv, TypeSched, SchedulerAgrees
<1> QED
  BY <1>1 DEF EndScheduled, FreedOrKept, LeftPipeline, Free, methodVars, workerVars

LEMMA EndScheduledFits ==
    ASSUME IInv, PlacesFit, EndScheduled PROVE PlacesFit'
<1> DEFINE t == schedTicket
<1>1. \A u \in Tickets : u # t => method'[u] = method[u]
  BY EndScheduledParts, FreedMethod
<1>2. \A u \in Tickets : Live(u) => method'[u] = method[u]
  <2>1. Live(t) => method' = method
    BY EndScheduledParts, MethodIsNotNone DEF Live
  <2> QED
    BY <1>1, <2>1
<1>3. ASSUME NEW u \in Tickets, inPipe'[u] # None
      PROVE  methodState'[method'[u]] = NeededIn(inPipe'[u])
  BY <1>2, <1>3, EndScheduledParts DEF PlacesFit, IInv, Queued
<1>4. ASSUME NEW v \in Workers, Working(v)'
      PROVE  methodState'[method'[hand'[v]]] = ReachedAt(v[1], step'[v])
  <2>1. Working(v) /\ step' = step /\ hand' = hand
    BY <1>4, EndScheduledParts DEF Working
  <2> QED
    BY <1>2, <2>1, EndScheduledParts, HandInPlace DEF PlacesFit
<1> QED
  BY <1>3, <1>4 DEF PlacesFit

LEMMA PlacesFitStep ==
    ASSUME IInv, PlacesFit, SynchFresh, InsertionsFresh, [Next]_vars
    PROVE  PlacesFit'
  BY StepKinds, CallsOnlyFits, MovesOnFits, AdvancesFits, TakeFits, EndJobFits,
     InsertNewFits, DestroyTicketFits, EndCctorJobFits, EndScheduledFits

-----------------------------------------------------------------------------
(* What happens to the call of a thread: it goes on, another begins, or a  *)
(* notification reaches it.                                                *)
Starts(a) == /\ Idle(a) /\ call'[a].pc = "enter" /\ call'[a].method \in Methods
             /\ call'[a].op \in Operations
             /\ call'[a].state = methodState[call'[a].method]
             /\ UNCHANGED <<mutex, methodState, methodsInPipe>>

(* A thread that requests something, inserts a callee or compiles a cctor. *)
Begins(a) ==
    /\ Starts(a)
    /\ \/ \E r \in Requests : /\ r.thread = a
                              /\ call'[a].op = r.op /\ call'[a].method = r.method
       \/ InsertCallee(a) /\ call'[a].method \in todo[a]
       \/ /\ a \in Workers /\ MakeExecutable(a)
          /\ call'[a].op = "synch" /\ call'[a].method = Cctor(a)

Woken(a) ==
    /\ Asleep(a) /\ call'[a] = [call[a] EXCEPT !.pc = "signalled"]
    /\ \E w \in Workers :
         \/ NotifyIR(w) /\ a \in irNotify[hand[w]]
         \/ NotifyMachineCode(w) /\ a \in mcNotify[hand[w]]
         \/ NotifyCompilationEnd(w) /\ a \in notify[hand[w]]
         \/ DestroyTicket(w) /\ call[a].op = "waitEmpty"

LEMMA OthersCall ==
    ASSUME IInv, NEW b \in Threads, InsertMethod(b), NEW a \in Threads \ {b}
    PROVE  call'[a] = call[a]
<1>1. call \in [Threads -> Calls]
  BY DEF IInv, CallsOK
<1>2. CASE EnterInsert(b) \/ EnterSynch(b) \/ GoToSleep(b) \/ WakeUp(b) \/ LinkWaited(b)
             \/ WaitEmptyPipeline(b)
  BY <1>1, <1>2 DEF EnterInsert, EnterSynch, GoToSleep, WakeUp, LinkWaited,
                    WaitEmptyPipeline, Return
<1>3. CASE JoinTicket(b) \/ ChangePriority(b) \/ SendToScheduler(b) \/ InsertNew(b)
  <2>1. ASSUME NEW c, Inserted(b, c) PROVE call'[a] = call[a]
    BY <1>1, <2>1 DEF Inserted, Return
  <2>2. CASE JoinTicket(b)
    <3>1. \E c : Inserted(b, c) \/ call' = [call EXCEPT ![b] = [c EXCEPT !.pc = "move"]]
      BY <2>2 DEF JoinTicket
    <3> QED
      BY <1>1, <2>1, <3>1
  <2>3. CASE ChangePriority(b)
    <3>1. call' = [call EXCEPT ![b].pc = "schedule"] \/ Inserted(b, call[b])
      BY <2>3 DEF ChangePriority, GoesTo
    <3> QED
      BY <1>1, <2>1, <3>1
  <2>4. CASE SendToScheduler(b)
    BY <2>1, <2>4 DEF SendToScheduler
  <2>5. CASE InsertNew(b)
    <3>1. \E c : Inserted(b, c)
      BY <2>5 DEF InsertNew
    <3> QED
      BY <2>1, <3>1
  <2> QED
    BY <1>3, <2>2, <2>3, <2>4, <2>5
<1> QED
  BY <1>2, <1>3 DEF InsertMethod

(* How an insertion goes on in the thread that makes it.                   *)
LEMMA ReadCall ==
    ASSUME NEW c \in Calls, NEW o, NEW s
    PROVE  LET d == [c EXCEPT !.pc = "insert", !.op = o, !.state = s] IN
           d.op = o /\ d.method = c.method /\ d.state = s /\ d.pc = "insert"
  BY DEF Calls

LEMMA SameCall ==
    ASSUME NEW c \in Calls, NEW x
    PROVE  LET d == [c EXCEPT !.pc = x] IN
           /\ d.op = c.op /\ d.method = c.method /\ d.state = c.state
           /\ d.ticket = c.ticket /\ d.pc = x
  BY DEF Calls

Continues(a, c, pcs) ==
    /\ call'[a].op = c.op /\ call'[a].method = c.method /\ call'[a].state = c.state
    /\ call'[a].ticket = c.ticket /\ call'[a].pc \in pcs

LEMMA PcCall ==
    ASSUME NEW a, NEW c \in Calls, NEW x, call'[a] = [c EXCEPT !.pc = x]
    PROVE  Continues(a, c, {x})
  BY SameCall DEF Continues

LEMMA InsertedCall ==
    ASSUME IInv, NEW a \in Threads, NEW c \in Calls, Inserted(a, c)
    PROVE  \/ c.op = "async" /\ call'[a] = NoCall
           \/ c.op = "machineCode" /\ c.state = "MACHINE_CODE" /\ Continues(a, c, {"link"})
           \/ c.op # "async" /\ Continues(a, c, {"sleep"})
<1>1. call \in [Threads -> Calls]
  BY DEF IInv, CallsOK
<1>2. CASE c.op = "async"
  BY <1>1, <1>2 DEF Inserted, Return
<1>3. CASE c.op = "machineCode" /\ c.state = "MACHINE_CODE"
  <2>1. call'[a] = [c EXCEPT !.pc = "link"]
    BY <1>1, <1>3 DEF Inserted
  <2> QED
    BY <1>3, <2>1, SameCall DEF Continues
<1>4. CASE c.op # "async" /\ ~(c.op = "machineCode" /\ c.state = "MACHINE_CODE")
  <2>1. call'[a] = [c EXCEPT !.pc = "sleep"]
    BY <1>1, <1>4 DEF Inserted
  <2> QED
    BY <1>4, <2>1, SameCall DEF Continues
<1> QED
  BY <1>2, <1>3, <1>4

LEMMA EntersCall ==
    ASSUME IInv, NEW a \in Threads, EnterInsert(a) \/ EnterSynch(a)
    PROVE  /\ call[a].pc = "enter" /\ UNCHANGED <<methodState, methodsInPipe, linked>>
           /\ \/ /\ call[a].op \in {"async", "tillIR"}
                 /\ Continues(a, call[a], {"insert"})
              \/ /\ EnterSynch(a) /\ call[a].op = "synch" /\ call'[a] = NoCall
                 /\ methodState[call[a].method] = "EXECUTABLE"
              \/ /\ call[a].op = "synch" /\ call'[a].op \in {"synch", "machineCode"}
                 /\ call'[a].method = call[a].method /\ call'[a].pc = "insert"
                 /\ call'[a].state = methodState[call[a].method]
<1>1. call \in [Threads -> Calls]
  BY DEF IInv, CallsOK
<1>2. CASE EnterInsert(a)
  <2>1. call'[a] = [call[a] EXCEPT !.pc = "insert"]
    BY <1>1, <1>2 DEF EnterInsert
  <2>2. Continues(a, call[a], {"insert"})
    BY <1>1, <2>1, PcCall
  <2> QED
    BY <1>2, <2>2 DEF EnterInsert, methodVars, ticketVars
<1>3. CASE EnterSynch(a)
  <2>1. UNCHANGED <<methodState, methodsInPipe, linked>>
    BY <1>3 DEF EnterSynch, methodVars, ticketVars
  <2>2. CASE methodState[call[a].method] = "EXECUTABLE"
    BY <1>1, <1>3, <2>1, <2>2 DEF EnterSynch, Return
  <2>3. CASE methodState[call[a].method] # "EXECUTABLE"
    <3>1. PICK op \in {"synch", "machineCode"} :
            call' = [call EXCEPT ![a].pc = "insert", ![a].state = methodState[call[a].method],
                                 ![a].op = op]
      BY <1>3, <2>3 DEF EnterSynch
    <3> DEFINE s == methodState[call[a].method]
    <3>2. call'[a] = [call[a] EXCEPT !.pc = "insert", !.op = op, !.state = s]
      BY <1>1, <3>1 DEF Calls
    <3> HIDE DEF s
    <3>3. /\ call'[a].op = op /\ call'[a].method = call[a].method
          /\ call'[a].state = s /\ call'[a].pc = "insert"
      BY <1>1, <3>2, ReadCall
    <3> QED
      BY <1>3, <2>1, <3>3 DEF EnterSynch, s
  <2> QED
    BY <2>2, <2>3
<1> QED
  BY <1>2, <1>3

(* The rest of the call keeps to the method and to what was asked.         *)
Later == {"move", "schedule", "sleep", "asleep", "link"}

LEMMA ContinuesMore ==
    ASSUME NEW a, NEW c, NEW pcs, NEW more, Continues(a, c, pcs), pcs \subseteq more
    PROVE  Continues(a, c, more)
  BY DEF Continues

LEMMA InsertedLater ==
    ASSUME IInv, NEW a \in Threads, NEW c \in Calls, Inserted(a, c)
    PROVE  call'[a] = NoCall \/ Continues(a, c, Later)
  BY InsertedCall DEF Continues, Later

(* The call of a thread once it has found the ticket, or made it.          *)
LEMMA TicketCall ==
    ASSUME IInv, NEW a \in Threads, JoinTicket(a) \/ InsertNew(a)
    PROVE  \E t \in Tickets, c \in Calls :
              /\ c.op = call[a].op /\ c.method = call[a].method
              /\ c.state = call[a].state /\ c.ticket = t
              /\ methodsInPipe'[call[a].method] = t
              /\ call[a].method \in Methods
              /\ \/ JoinTicket(a) /\ call'[a] = [c EXCEPT !.pc = "move"]
                 \/ Inserted(a, c)
<1>1. call \in [Threads -> Calls] /\ call[a] \in Calls /\ call[a].method \in Methods
  BY DEF IInv, CallsOK, CallOK, JoinTicket, InsertNew, Holds
<1>2. CASE JoinTicket(a)
  <2> DEFINE t == methodsInPipe[call[a].method]
             f == IF call[a].priority > priority[t] THEN inPipe[t] ELSE None
             joined == [call[a] EXCEPT !.ticket = t, !.from = f]
  <2>1. t \in Tickets /\ f \in Stages \cup {None}
    <3>1. t # None
      BY <1>2 DEF JoinTicket
    <3>2. t \in Tickets
      BY <1>1, <3>1 DEF IInv, TypeTickets
    <3> QED
      BY <3>2 DEF IInv, TypeTickets
  <2>2. Inserted(a, joined) \/ call' = [call EXCEPT ![a] = [joined EXCEPT !.pc = "move"]]
    BY <1>2 DEF JoinTicket
  <2>3. methodsInPipe' = methodsInPipe
    BY <1>2 DEF JoinTicket
  <2> HIDE DEF t, f
  <2>4. /\ joined \in Calls /\ joined.op = call[a].op /\ joined.method = call[a].method
        /\ joined.state = call[a].state /\ joined.ticket = t
    BY <1>1, <2>1 DEF Calls
  <2>5. methodsInPipe'[call[a].method] = t
    BY <2>3 DEF t
  <2> HIDE DEF joined
  <2>6. Inserted(a, joined) \/ call'[a] = [joined EXCEPT !.pc = "move"]
    BY <1>1, <2>2
  <2> QED
    BY <1>1, <1>2, <2>1, <2>4, <2>5, <2>6
<1>3. CASE InsertNew(a)
  <2>1. PICK t \in Tickets : /\ Inserted(a, [call[a] EXCEPT !.ticket = t])
                             /\ methodsInPipe' = [methodsInPipe EXCEPT ![call[a].method] = t]
    BY <1>3 DEF InsertNew
  <2> DEFINE c == [call[a] EXCEPT !.ticket = t]
  <2>2. /\ c \in Calls /\ c.op = call[a].op /\ c.method = call[a].method
        /\ c.state = call[a].state /\ c.ticket = t
    BY <1>1 DEF Calls
  <2>3. Inserted(a, c)
    BY <2>1
  <2>4. methodsInPipe'[call[a].method] = t
    BY <1>1, <2>1 DEF IInv, TypeTickets
  <2> HIDE DEF c
  <2> QED
    BY <1>1, <2>2, <2>3, <2>4
<1> QED
  BY <1>2, <1>3

LEMMA GoesOnCall ==
    ASSUME IInv, NEW a \in Threads, InsertMethod(a), ~EnterInsert(a), ~EnterSynch(a)
    PROVE  \/ call'[a] = NoCall
           \/ /\ call'[a].op = call[a].op /\ call'[a].method = call[a].method
              /\ call'[a].state = call[a].state /\ call'[a].pc \in Later
<1>1. call \in [Threads -> Calls] /\ call[a] \in Calls
  BY DEF IInv, CallsOK
<1>2. CASE GoToSleep(a) \/ WakeUp(a) \/ LinkWaited(a) \/ WaitEmptyPipeline(a)
  <2>1. \/ call'[a] = NoCall
        \/ call'[a] = [call[a] EXCEPT !.pc = "asleep"]
        \/ call'[a] = [call[a] EXCEPT !.pc = "link"]
    <3>1. CASE GoToSleep(a) \/ LinkWaited(a)
      BY <1>1, <3>1 DEF GoToSleep, LinkWaited, Return
    <3>2. CASE WakeUp(a)
      BY <1>1, <3>2 DEF WakeUp, Return
    <3>3. CASE WaitEmptyPipeline(a)
      BY <1>1, <3>3 DEF WaitEmptyPipeline
    <3> QED
      BY <1>2, <3>1, <3>2, <3>3
  <2>2. ASSUME NEW x \in {"asleep", "link"}, call'[a] = [call[a] EXCEPT !.pc = x]
        PROVE  /\ call'[a].op = call[a].op /\ call'[a].method = call[a].method
               /\ call'[a].state = call[a].state /\ call'[a].pc \in Later
    BY <1>1, <2>2, SameCall DEF Later
  <2> QED
    BY <2>1, <2>2
<1>3. CASE JoinTicket(a) \/ InsertNew(a)
  <2>1. PICK c \in Calls :
              /\ c.op = call[a].op /\ c.method = call[a].method /\ c.state = call[a].state
              /\ call'[a] = [c EXCEPT !.pc = "move"] \/ Inserted(a, c)
    BY <1>3, TicketCall
  <2>2. CASE call'[a] = [c EXCEPT !.pc = "move"]
    BY <2>1, <2>2, SameCall DEF Later
  <2>3. CASE Inserted(a, c)
    BY <2>1, <2>3, InsertedLater DEF Continues
  <2> QED
    BY <2>1, <2>2, <2>3
<1>4. CASE ChangePriority(a) \/ SendToScheduler(a)
  <2>1. \/ call' = [call EXCEPT ![a].pc = "schedule"]
        \/ Inserted(a, call[a])
    BY <1>4 DEF ChangePriority, SendToScheduler, GoesTo
  <2>2. CASE call' = [call EXCEPT ![a].pc = "schedule"]
    <3>1. call'[a] = [call[a] EXCEPT !.pc = "schedule"]
      BY <1>1, <2>2
    <3> QED
      BY <1>1, <3>1, SameCall DEF Later
  <2> QED
    BY <1>1, <2>1, <2>2, InsertedLater DEF Continues
<1> QED
  BY <1>2, <1>3, <1>4 DEF InsertMethod

LEMMA WakeOne ==
    ASSUME NEW S, Wake(S), NEW a \in Threads
    PROVE  \/ call'[a] = call[a]
           \/ a \in S /\ Asleep(a) /\ call'[a] = [call[a] EXCEPT !.pc = "signalled"]
  BY DEF Wake

LEMMA BeginsCall ==
    ASSUME IInv, NEW b \in Threads, NEW op \in Operations, NEW m \in Methods, NEW p,
           Begin(b, op, m, p),
           UNCHANGED <<mutex, methodState, methodsInPipe>>, NEW a \in Threads
    PROVE  call'[a] = call[a] \/ (a = b /\ Starts(a) /\ call'[a].op = op /\ call'[a].method = m)
  BY DEF IInv, CallsOK, Begin, Starts

LEMMA CallKinds ==
    ASSUME IInv, [Next]_vars, NEW a \in Threads
    PROVE  call'[a] = call[a] \/ InsertMethod(a) \/ Begins(a) \/ Woken(a)
<1>1. ASSUME NEW b \in Threads, InsertMethod(b)
      PROVE  call'[a] = call[a] \/ InsertMethod(a)
  BY <1>1, OthersCall
<1>2. ASSUME NEW b \in Threads, InsertCallee(b)
      PROVE  call'[a] = call[a] \/ Begins(a)
  <2>1. PICK m \in todo[b] :
          \/ \E p \in (IF Mode = "aot" THEN {0} ELSE Priorities) : Begin(b, "async", m, p)
          \/ UNCHANGED call
    BY <1>2 DEF InsertCallee
  <2>2. m \in Methods
    BY <2>1 DEF IInv, TypeWorkers
  <2>3. UNCHANGED <<mutex, methodState, methodsInPipe>>
    BY <1>2 DEF InsertCallee, methodVars, ticketVars
  <2> QED
    BY <1>2, <2>1, <2>2, <2>3, BeginsCall DEF Begins, Starts, Operations
<1>3. ASSUME NEW r \in Requests, Request(r)
      PROVE  call'[a] = call[a] \/ Begins(a)
  <2>1. r.thread \in Threads /\ r.method \in Methods /\ r.op \in Operations
    BY ProgramAssumption DEF RequestSet, Threads
  <2>2. UNCHANGED <<mutex, methodState, methodsInPipe>>
    BY <1>3 DEF Request, methodVars, ticketVars
  <2> QED
    BY <1>3, <2>1, <2>2, BeginsCall DEF Request, Begins
<1>4. ASSUME NEW w \in Workers, MakeExecutable(w)
      PROVE  call'[a] = call[a] \/ Begins(a)
  <2>1. /\ w \in CctorWorkers /\ w \in Threads /\ step[w] = "make"
    BY <1>4, WorkerShape DEF MakeExecutable, CctorStep, At
  <2>2. Cctor(w) \in Methods
    BY <2>1, CctorIn DEF LoopSteps, Working
  <2>3. UNCHANGED <<mutex, methodState, methodsInPipe>>
    BY <1>4 DEF MakeExecutable, OnlyCctorStep, methodVars, ticketVars
  <2> QED
    BY <1>4, <2>1, <2>2, <2>3, BeginsCall DEF MakeExecutable, Begins, Operations
<1>5. ASSUME NEW w \in Workers, Worker(w), ~InsertCallee(w), ~MakeExecutable(w)
      PROVE  call'[a] = call[a] \/ Woken(a)
  <2>1. CASE NotifyIR(w) \/ NotifyMachineCode(w) \/ NotifyCompilationEnd(w)
    BY <1>5, <2>1, WakeOne DEF NotifyIR, NotifyMachineCode, NotifyCompilationEnd, Woken
  <2>2. CASE DestroyTicket(w)
    <3>1. PICK S \in {{}, {b \in Threads : call[b].op = "waitEmpty"}} : Wake(S)
      BY <2>2 DEF DestroyTicket, RemoveTicket
    <3> QED
      BY <2>2, <3>1, WakeOne DEF Woken
  <2>3. CASE Translate(w) /\ ~NotifyIR(w) /\ ~NotifyMachineCode(w)
    BY <1>5, <2>3 DEF Translate, Take, PutInNextStage, EndJob, TranslateToIR, FindCallees,
                      EndDLA, Optimize, Reschedule, GenerateMachineCode
  <2>4. CASE RunCctors(w)
    BY <1>5, <2>4 DEF RunCctors, StartCctorJob, CheckCctors, CallCctor, RegisterRunner,
       UnregisterRunner, EndOfCctor, DeclareWaiting, EndOfWait, UndeclareWaiting
  <2>5. CASE LinkMethod(w) \/ UnregisterMethod(w) \/ Publish(w) \/ EndCctorJob(w)
    BY <2>5 DEF LinkMethod, UnregisterMethod, Publish, EndCctorJob
  <2> QED
    BY <1>5, <2>1, <2>2, <2>3, <2>4, <2>5 DEF Worker, Complete
<1>6. \A w \in Workers : w \in Threads
  BY WorkerShape
<1>7. CASE Schedule
  BY <1>2, <1>7, MethodIsNotNone DEF Schedule, TakeScheduled, EndScheduled
<1>8. CASE Reap \/ UNCHANGED vars
  BY <1>8 DEF Reap, ReaperWakesUp, KillCctorThreads, vars
<1> QED
  BY <1>1, <1>2, <1>3, <1>4, <1>5, <1>6, <1>7, <1>8 DEF Next, Step

-----------------------------------------------------------------------------
(* A state that is read under the mutex stays the method's state until it  *)
(* is inserted.                                                            *)

(* The state of a method changes only while it is in the pipeline.         *)
LEMMA StateChanges ==
    ASSUME IInv, PlacesFit, [Next]_vars, NEW m \in Methods, methodState'[m] # methodState[m]
    PROVE  /\ methodsInPipe[m] # None /\ methodsInPipe' = methodsInPipe
           /\ <<methodState[m], methodState'[m]>> \in
               {<<"CIL", "IR">>, <<"IR", "MACHINE_CODE">>, <<"MACHINE_CODE", "EXECUTABLE">>}
<1>1. PICK w \in Workers : Advances(w)
  <2>1. UNCHANGED methodState \/ \E w \in Workers : Advances(w)
    BY StepKinds DEF CallsOnly, MovesOn, Take, PutInNextStage, Reschedule, EndJob,
       InsertNew, DestroyTicket, RemoveTicket, EndCctorJob, EndScheduled, methodVars
  <2> QED
    BY <2>1
<1>2. Working(w) /\ methodsInPipe' = methodsInPipe
  BY <1>1 DEF Advances, SameRecords
<1>3. /\ method[hand[w]] \in Methods /\ methodsInPipe[method[hand[w]]] = hand[w]
      /\ hand[w] # None
  BY <1>2, HandInPlace, MethodIsNotNone
<1>4. m = method[hand[w]]
  BY <1>1 DEF Advances, IInv, TypeMethods
<1>5. methodState[m] = ReachedAt(w[1], step[w])
  BY <1>2, <1>4 DEF PlacesFit
<1> QED
  BY <1>1, <1>2, <1>3, <1>4, <1>5 DEF Advances, IInv, TypeMethods

(* A method leaves the pipeline only when nobody has the mutex.            *)
LEMMA LeavesPipe ==
    ASSUME IInv, [Next]_vars, mutex # None, NEW m \in Methods, methodsInPipe[m] # None
    PROVE  methodsInPipe'[m] # None
<1>1. CASE UNCHANGED methodsInPipe
  BY <1>1
<1>2. CASE \E a \in Threads : InsertNew(a)
  <2>1. PICK a \in Threads : InsertNew(a)
    BY <1>2
  <2>2. PICK t \in Tickets \ allocated :
          methodsInPipe' = [methodsInPipe EXCEPT ![call[a].method] = t]
    BY <2>1, InsertNewParts
  <2> QED
    BY <2>2, MethodIsNotNone DEF IInv, TypeTickets
<1> QED
  BY <1>1, <1>2, StepKinds DEF CallsOnly, MovesOn, Advances, SameRecords, Take,
     PutInNextStage, Reschedule, EndJob, DestroyTicket, EndCctorJob, EndScheduled, ticketVars

LEMMA SynchFreshStep ==
    ASSUME IInv, PlacesFit, SynchFresh, [Next]_vars PROVE SynchFresh'
<1> SUFFICES ASSUME NEW a \in Threads, call'[a].pc = "insert",
                    call'[a].op \in {"synch", "machineCode"},
                    methodsInPipe'[call'[a].method] = None
             PROVE  call'[a].state = methodState'[call'[a].method]
  BY DEF SynchFresh
<1> DEFINE m == call[a].method
<1>1. call \in [Threads -> Calls] /\ CallOK(call[a])
  BY DEF IInv, CallsOK
<1>2. CASE call'[a] = call[a]
  <2>1. m \in Methods /\ mutex = a
    BY <1>1, <1>2 DEF CallOK, IInv, CallsHold
  <2>2. methodsInPipe[m] = None
    BY <1>2, <2>1, LeavesPipe, MethodIsNotNone
  <2>3. methodState'[m] = methodState[m]
    BY <2>1, <2>2, StateChanges
  <2> QED
    BY <1>2, <2>2, <2>3 DEF SynchFresh
<1>3. CASE InsertMethod(a)
  <2>1. CASE EnterInsert(a) \/ EnterSynch(a)
    BY <2>1, EntersCall DEF Continues, NoCall
  <2>2. CASE ~EnterInsert(a) /\ ~EnterSynch(a)
    BY <1>3, <2>2, GoesOnCall DEF NoCall, Later
  <2> QED
    BY <2>1, <2>2
<1>4. CASE Begins(a) \/ Woken(a)
  BY <1>1, <1>4 DEF Begins, Starts, Woken, Calls
<1> QED
  BY <1>2, <1>3, <1>4, CallKinds

-----------------------------------------------------------------------------
(* Tickets that have left.                                                 *)

LEMMA LeftKept ==
    ASSUME IInv, PlacesFit, LeftFits, [Next]_vars,
           UNCHANGED <<methodsInPipe, allocated, method>>,
           methodsInScheduling \subseteq methodsInScheduling'
    PROVE  LeftFits'
<1> SUFFICES ASSUME NEW t \in allocated, ~Live(t)
             PROVE  /\ methodState'[method[t]] = "EXECUTABLE"
                    /\ methodsInPipe[method[t]] = None
                    /\ t \in methodsInScheduling'
  BY DEF LeftFits, Live
<1>1. /\ methodState[method[t]] = "EXECUTABLE" /\ methodsInPipe[method[t]] = None
      /\ t \in methodsInScheduling
  BY DEF LeftFits
<1>2. method[t] \in Methods
  BY DEF IInv, TicketsNamed
<1> QED
  BY <1>1, <1>2, StateChanges

LEMMA InsertNewLeft ==
    ASSUME IInv, SynchFresh, LeftFits, InsertionsFresh, NEW a \in Threads, InsertNew(a)
    PROVE  LeftFits'
<1> DEFINE m == call[a].method
<1>1. m \in Methods /\ methodState[m] # "EXECUTABLE"
  BY InsertedFresh
<1>2. PICK t \in Tickets \ allocated :
                /\ methodsInPipe' = [methodsInPipe EXCEPT ![m] = t]
                /\ allocated' = allocated \cup {t}
                /\ method' = [method EXCEPT ![t] = m]
  BY InsertNewParts
<1>3. UNCHANGED <<methodState, methodsInScheduling>>
  BY InsertNewParts
<1> HIDE DEF m
<1>4. ASSUME NEW u \in allocated', ~Live(u)'
      PROVE  /\ methodState'[method'[u]] = "EXECUTABLE" /\ methodsInPipe'[method'[u]] = None
             /\ u \in methodsInScheduling'
  <2>1. u # t
    BY <1>1, <1>2, <1>4 DEF Live, IInv, TypeTickets
  <2>2. u \in allocated /\ u \in Tickets /\ method'[u] = method[u] /\ method[u] \in Methods
    BY <1>2, <2>1 DEF IInv, TypeTickets, TicketsNamed
  <2>3. ~Live(u)
    <3>1. ASSUME Live(u) PROVE FALSE
      <4>1. methodsInPipe[method[u]] = u
        BY <3>1 DEF Live
      <4>2. method[u] = m /\ methodsInPipe'[m] = t
        BY <1>1, <1>2, <1>4, <2>2, <4>1 DEF Live, IInv, TypeTickets
      <4> QED
        BY <1>1, <4>1, <4>2, InsertedFresh, <2>2, MethodIsNotNone DEF m
    <3> QED
      BY <3>1
  <2>4. methodState[method[u]] = "EXECUTABLE" /\ methodsInPipe[method[u]] = None
        /\ u \in methodsInScheduling
    BY <2>2, <2>3 DEF LeftFits
  <2> QED
    BY <1>1, <1>2, <1>3, <2>2, <2>4 DEF IInv, TypeTickets
<1> QED
  BY <1>4 DEF LeftFits

LEMMA DestroyTicketLeft ==
    ASSUME IInv, PlacesFit, LeftFits, NEW w \in Workers, DestroyTicket(w) PROVE LeftFits'
<1> DEFINE t == hand[w]
<1>1. /\ t \in Tickets /\ Live(t) /\ method[t] \in Methods /\ Working(w)
      /\ methodState[method[t]] = "EXECUTABLE"
  BY DestroyParts, HandInPlace DEF PlacesFit, ReachedAt
<1>2. /\ methodsInPipe' = [methodsInPipe EXCEPT ![method[t]] = None]
      /\ t \in allocated' => t \in methodsInScheduling /\ method' = method
      /\ UNCHANGED <<methodState, methodsInScheduling>>
  BY DestroyParts
<1>3. \A u \in Tickets : u # t => method'[u] = method[u] /\ (u \in allocated' <=> u \in allocated)
  BY <1>1, DestroyParts, FreedMethod
<1>4. allocated' \subseteq Tickets
  BY DestroyParts DEF FreedOrKept, Free, IInv, TypeTickets
<1>5. ASSUME NEW u \in allocated', ~Live(u)'
      PROVE  /\ methodState'[method'[u]] = "EXECUTABLE" /\ methodsInPipe'[method'[u]] = None
             /\ u \in methodsInScheduling'
  <2>1. CASE u = t
    BY <1>1, <1>2, <2>1 DEF IInv, TypeTickets
  <2>2. CASE u # t
    <3>1. u \in allocated /\ u \in Tickets /\ method'[u] = method[u] /\ method[u] \in Methods
      BY <1>3, <1>4, <2>2 DEF IInv, TicketsNamed
    <3>2. ~Live(u)
      <4>1. ASSUME Live(u) PROVE FALSE
        <5>1. method[u] # method[t]
          BY <1>1, <2>2, <3>1, <4>1, OthersMethod
        <5> QED
          BY <1>2, <1>5, <3>1, <4>1, <5>1 DEF Live, IInv, TypeTickets
      <4> QED
        BY <4>1
    <3>3. methodState[method[u]] = "EXECUTABLE" /\ methodsInPipe[method[u]] = None
          /\ u \in methodsInScheduling
      BY <3>1, <3>2 DEF LeftFits
    <3> QED
      BY <1>1, <1>2, <3>1, <3>3 DEF IInv, TypeTickets
  <2> QED
    BY <2>1, <2>2
<1> QED
  BY <1>5 DEF LeftFits

(* DLAScheduler frees what has left, and what it keeps is still in the     *)
(* pipeline: only then may it forget the ticket.                           *)
LEMMA EndScheduledLeft ==
    ASSUME IInv, LeftFits, EndScheduled PROVE LeftFits'
<1> DEFINE t == schedTicket
<1>1. \A u \in Tickets : u # t => method'[u] = method[u] /\ (u \in allocated' <=> u \in allocated)
  BY EndScheduledParts, FreedMethod
<1>2. /\ t \in Tickets /\ t \in allocated
      /\ t \in allocated' => method' = method /\ methodsInPipe[method[t]] # None
      /\ methodsInScheduling' = methodsInScheduling \ {t}
      /\ UNCHANGED <<methodState, methodsInPipe>>
  BY EndScheduledParts DEF IInv, SchedulerAgrees
<1>3. allocated' \subseteq Tickets
  BY EndScheduledParts DEF FreedOrKept, Free, IInv, TypeTickets
<1>4. ASSUME NEW u \in allocated', ~Live(u)'
      PROVE  /\ methodState'[method'[u]] = "EXECUTABLE" /\ methodsInPipe'[method'[u]] = None
             /\ u \in methodsInScheduling'
  <2>1. u # t
    <3>1. ASSUME u = t PROVE FALSE
      BY <1>2, <1>4, <3>1 DEF LeftFits, Live
    <3> QED
      BY <3>1
  <2>2. u \in allocated /\ method'[u] = method[u] /\ ~Live(u)
    BY <1>1, <1>2, <1>3, <1>4, <2>1 DEF Live
  <2> QED
    BY <1>2, <2>1, <2>2 DEF LeftFits
<1> QED
  BY <1>4 DEF LeftFits

LEMMA LeftFitsStep ==
    ASSUME IInv, PlacesFit, SynchFresh, LeftFits, InsertionsFresh, [Next]_vars
    PROVE  LeftFits'
<1>1. CASE \/ CallsOnly
           \/ \E w \in Workers : MovesOn(w) \/ Advances(w)
           \/ \E w \in Workers : Take(w) \/ PutInNextStage(w) \/ Reschedule(w) \/ EndCctorJob(w)
  <2>1. /\ UNCHANGED <<methodsInPipe, allocated, method>>
        /\ methodsInScheduling \subseteq methodsInScheduling'
    BY <1>1 DEF CallsOnly, MovesOn, Advances, SameRecords, Take, PutInNextStage, Reschedule,
                EndJob, EndCctorJob, OnlyWorker, ticketVars, schedVars
  <2> QED
    BY <2>1, LeftKept
<1> QED
  BY <1>1, StepKinds, InsertNewLeft, DestroyTicketLeft, EndScheduledLeft

-----------------------------------------------------------------------------
LEMMA InitHInv == Init => HInv
<1> SUFFICES ASSUME Init PROVE HInv
  OBVIOUS
<1>1. PlacesFit
  BY DEF Init, PlacesFit, Working
<1>2. SynchFresh
  BY DEF Init, SynchFresh, NoCall
<1>3. LeftFits
  BY DEF Init, LeftFits
<1> QED
  BY <1>1, <1>2, <1>3 DEF HInv

LEMMA NextHInv == IInv /\ HInv /\ InsertionsFresh /\ [Next]_vars => HInv'
  BY PlacesFitStep, SynchFreshStep, LeftFitsStep DEF HInv

(* The states of methods fit the places of their tickets, unless a method  *)
(* is inserted in a state that it is in no longer.                         *)
THEOREM HistoryInvariance == Spec /\ []InsertionsFresh => []HInv
<1>1. Init => HInv
  BY InitHInv
<1>2. IInv /\ HInv /\ InsertionsFresh /\ [Next]_vars => HInv'
  BY NextHInv
<1> QED
  BY <1>1, <1>2, Invariance, PTL DEF Spec

(* Every stage's worker gets methods in the state its stage works from.    *)
THEOREM StageAlwaysFitsState == Spec /\ []InsertionsFresh => []StageFitsState
<1>1. ASSUME IInv, HInv PROVE StageFitsState
  <2> SUFFICES ASSUME NEW w \in Workers, step[w] = "job"
               PROVE  methodState[method[hand[w]]] =
                        CASE w[1] = "cil" -> "CIL"
                          [] w[1] \in {"dla", "opt", "mc"} -> "IR"
                          [] w[1] = "cctor" -> "MACHINE_CODE"
    BY DEF StageFitsState
  <2>1. methodState[method[hand[w]]] = ReachedAt(w[1], "job")
    BY <1>1 DEF HInv, PlacesFit, Working
  <2> QED
    BY <2>1, WorkerShape DEF ReachedAt, Stages
<1> QED
  BY <1>1, Invariance, HistoryInvariance, PTL

(* internal_destroyTicket and DLAScheduler agree on who frees a ticket.    *)
THEOREM NoTicketEverLeaks == Spec /\ []InsertionsFresh => []NoTicketLeaks
<1>1. HInv => NoTicketLeaks
  BY DEF HInv, LeftFits, NoTicketLeaks
<1> QED
  BY <1>1, HistoryInvariance, PTL

(* No stage brings a method back, or past a state.                         *)
StatesAdvance ==
    \A m \in Methods : methodState'[m] # methodState[m] =>
        <<methodState[m], methodState'[m]>> \in
            {<<"CIL", "IR">>, <<"IR", "MACHINE_CODE">>, <<"MACHINE_CODE", "EXECUTABLE">>}

(* A method is translated, compiled and published once each, in this order,*)
(* however many threads insert it.                                         *)
THEOREM StatesAlwaysAdvance == Spec /\ []InsertionsFresh => [][StatesAdvance]_vars
<1>1. IInv /\ HInv /\ [Next]_vars => [StatesAdvance]_vars
  BY StateChanges DEF HInv, StatesAdvance
<1> QED
  BY <1>1, Invariance, HistoryInvariance, PTL DEF Spec

-----------------------------------------------------------------------------
(* What a worker has in hand, while it works, and where its steps lead.    *)

LEMMA HandStays ==
    ASSUME IInv, [Next]_vars, NEW w \in Workers, Working(w), Working(w)'
    PROVE  hand'[w] = hand[w] /\ method'[hand'[w]] = method[hand[w]]
<1>1. /\ hand[w] \in Tickets /\ Live(hand[w]) /\ hand[w] \in allocated
      /\ methodsInPipe[method[hand[w]]] = hand[w]
  BY HandInPlace
<1>2. CASE CallsOnly \/ \E v \in Workers : MovesOn(v) \/ Advances(v)
  BY <1>2 DEF CallsOnly, MovesOn, Advances, SameRecords
<1>3. ASSUME NEW v \in Workers, Take(v) \/ PutInNextStage(v) \/ Reschedule(v) \/ EndCctorJob(v)
      PROVE  hand'[w] = hand[w] /\ method'[hand'[w]] = method[hand[w]]
  <2>1. \E y : hand' = [hand EXCEPT ![v] = y]
    BY <1>3 DEF Take, PutInNextStage, Reschedule, EndCctorJob, EndJob, GoOn
  <2>2. v # w
    <3>1. CASE Take(v) \/ EndCctorJob(v)
      BY <3>1 DEF Take, FirstIdle, EndCctorJob, CctorStep, At, Working
    <3>2. CASE PutInNextStage(v) \/ Reschedule(v)
      BY <3>2 DEF PutInNextStage, Reschedule, EndJob, GoOn, Working, IInv, TypeWorkers
    <3> QED
      BY <1>3, <3>1, <3>2
  <2>3. method' = method
    BY <1>3 DEF Take, PutInNextStage, Reschedule, EndCctorJob, EndJob, ticketVars
  <2> QED
    BY <2>1, <2>2, <2>3 DEF IInv, TypeWorkers
<1>4. ASSUME NEW a \in Threads, InsertNew(a)
      PROVE  hand'[w] = hand[w] /\ method'[hand'[w]] = method[hand[w]]
  BY <1>1, <1>4, InsertNewParts DEF IInv, TypeTickets
<1>5. ASSUME NEW v \in Workers, DestroyTicket(v)
      PROVE  hand'[w] = hand[w] /\ method'[hand'[w]] = method[hand[w]]
  <2>1. v # w /\ hand' = hand
    BY <1>5, DestroyParts DEF Working, IInv, TypeWorkers
  <2>2. hand[v] # hand[w] /\ hand[v] \in Tickets
    BY <1>5, <2>1, DestroyParts, HandInPlace DEF IInv, InHands
  <2> QED
    BY <1>1, <1>5, <2>1, <2>2, DestroyParts, FreedMethod
<1>6. CASE EndScheduled
  <2>1. hand' = hand
    BY <1>6, EndScheduledParts
  <2>2. CASE schedTicket = hand[w]
    BY <1>1, <1>6, <2>1, <2>2, EndScheduledParts, MethodIsNotNone
  <2>3. CASE schedTicket # hand[w]
    BY <1>1, <1>6, <2>1, <2>3, EndScheduledParts, FreedMethod
  <2> QED
    BY <2>2, <2>3
<1> QED
  BY <1>2, <1>3, <1>4, <1>5, <1>6, StepKinds

(* A worker's step is its own.                                             *)
LEMMA WhoSteps ==
    ASSUME IInv, [Next]_vars, NEW w \in Workers, step'[w] # step[w]
    PROVE  Worker(w)
<1>1. ~CallsOnly
  BY DEF CallsOnly
<1>2. ASSUME NEW a \in Threads, InsertMethod(a)
      PROVE  FALSE
  BY <1>1, <1>2, CallsOnlySteps, InsertNewParts DEF InsertMethod
<1>3. ASSUME NEW v \in Workers, Worker(v), v # w
      PROVE  FALSE
  <2>1. \E x : step' = [step EXCEPT ![v] = x]
    <3>1. CASE Translate(v)
      <4>1. ~InsertCallee(v)
        BY <1>1, CallsOnlySteps, WorkerShape
      <4> QED
        BY <3>1, <4>1 DEF Translate, Take, PutInNextStage, EndJob, TranslateToIR, NotifyIR,
           FindCallees, EndDLA, Optimize, Reschedule, GenerateMachineCode,
           NotifyMachineCode, GoOn
    <3>2. CASE RunCctors(v)
      BY <3>2 DEF RunCctors, StartCctorJob, CheckCctors, MakeExecutable, CallCctor,
         RegisterRunner, UnregisterRunner, EndOfCctor, DeclareWaiting, EndOfWait,
         UndeclareWaiting, NextCctor, GoOn
    <3>3. CASE Complete(v)
      BY <3>3 DEF Complete, LinkMethod, UnregisterMethod, Publish, NotifyCompilationEnd,
         DestroyTicket, RemoveTicket, EndCctorJob, GoOn
    <3> QED
      BY <1>3, <3>1, <3>2, <3>3 DEF Worker
  <2> QED
    BY <1>3, <2>1 DEF IInv, TypeWorkers
<1>4. CASE Schedule
  BY <1>1, <1>4, MethodIsNotNone, CallsOnlySteps, OutsideSteps, EndScheduledParts DEF Schedule
<1> QED
  BY <1>1, <1>2, <1>3, <1>4, OutsideSteps DEF Next, Step

-----------------------------------------------------------------------------
(* The trampolines of executable methods.                                  *)

LEMMA LinkedGrows ==
    ASSUME [Next]_vars PROVE linked \subseteq linked'
<1>1. ASSUME NEW a \in Threads, InsertMethod(a)
      PROVE  linked \subseteq linked'
  <2>1. CASE LinkWaited(a)
    BY <2>1 DEF LinkWaited
  <2>2. CASE EnterInsert(a) \/ EnterSynch(a) \/ GoToSleep(a) \/ WakeUp(a)
               \/ WaitEmptyPipeline(a)
    BY <2>2 DEF EnterInsert, EnterSynch, GoToSleep, WakeUp, WaitEmptyPipeline, methodVars
  <2>3. CASE JoinTicket(a) \/ ChangePriority(a) \/ SendToScheduler(a) \/ InsertNew(a)
    BY <2>3 DEF JoinTicket, ChangePriority, SendToScheduler, InsertNew, methodVars
  <2> QED
    BY <1>1, <2>1, <2>2, <2>3 DEF InsertMethod
<1>2. ASSUME NEW w \in Workers, Translate(w)
      PROVE  linked \subseteq linked'
  BY <1>2 DEF Translate, Take, PutInNextStage, EndJob, TranslateToIR, NotifyIR,
     FindCallees, InsertCallee, EndDLA, Optimize, Reschedule, GenerateMachineCode,
     NotifyMachineCode, methodVars
<1>3. ASSUME NEW w \in Workers, RunCctors(w)
      PROVE  linked \subseteq linked'
  BY <1>3 DEF RunCctors, StartCctorJob, CheckCctors, MakeExecutable, CallCctor,
     RegisterRunner, UnregisterRunner, EndOfCctor, DeclareWaiting, EndOfWait,
     UndeclareWaiting, methodVars
<1>4. ASSUME NEW w \in Workers, Complete(w)
      PROVE  linked \subseteq linked'
  BY <1>4 DEF Complete, LinkMethod, UnregisterMethod, Publish, NotifyCompilationEnd,
     DestroyTicket, RemoveTicket, EndCctorJob, methodVars
<1>5. CASE Schedule \/ Reap \/ (\E r \in Requests : Request(r)) \/ UNCHANGED vars
  BY <1>5 DEF Schedule, TakeScheduled, InsertCallee, EndScheduled, Reap, ReaperWakesUp,
     KillCctorThreads, Request, methodVars, vars
<1> QED
  BY <1>1, <1>2, <1>3, <1>4, <1>5 DEF Next, Step, Worker

LEMMA StepBefore ==
    ASSUME IInv, NEW w \in Workers, Worker(w), step'[w] # step[w],
           step'[w] \in {"unregister", "publish"}
    PROVE  LinkMethod(w) \/ UnregisterMethod(w)
<1>1. ~CallsOnly
  BY DEF CallsOnly
<1>2. step \in [Workers -> Steps]
  BY DEF IInv, TypeWorkers
<1>3. CASE Translate(w)
  <2>1. ~InsertCallee(w)
    BY <1>1, CallsOnlySteps, WorkerShape
  <2> QED
    BY <1>2, <1>3, <2>1 DEF Translate, Take, PutInNextStage, EndJob, TranslateToIR, NotifyIR,
       FindCallees, EndDLA, Optimize, Reschedule, GenerateMachineCode,
       NotifyMachineCode, GoOn
<1>4. CASE RunCctors(w)
  BY <1>2, <1>4 DEF RunCctors, StartCctorJob, CheckCctors, MakeExecutable, CallCctor,
     RegisterRunner, UnregisterRunner, EndOfCctor, DeclareWaiting, EndOfWait,
     UndeclareWaiting, NextCctor, GoOn
<1>5. CASE Complete(w)
  BY <1>2, <1>5 DEF Complete, Publish, NotifyCompilationEnd,
     DestroyTicket, RemoveTicket, EndCctorJob, GoOn
<1> QED
  BY <1>3, <1>4, <1>5 DEF Worker

LinkedInTime ==
    \A w \in Workers : w[1] = "cctor" /\ step[w] \in {"unregister", "publish"} =>
        method[hand[w]] \in linked

LInv == LinkedInTime /\ ExecutableIsLinked

LEMMA LinkedInTimeStep ==
    ASSUME IInv, LinkedInTime, TrampolinesAreSet, [Next]_vars PROVE LinkedInTime'
<1> SUFFICES ASSUME NEW w \in Workers, w[1] = "cctor", step'[w] \in {"unregister", "publish"}
             PROVE  method'[hand'[w]] \in linked'
  BY DEF LinkedInTime
<1>1. CASE step'[w] = step[w]
  BY <1>1, HandStays, LinkedGrows DEF LinkedInTime, Working
<1>2. CASE step'[w] # step[w]
  <2>1. LinkMethod(w) \/ UnregisterMethod(w)
    BY <1>2, WhoSteps, StepBefore
  <2>2. CASE LinkMethod(w)
    <3>1. Working(w) /\ hand' = hand /\ method' = method
      BY <2>2 DEF LinkMethod, CctorStep, At, Working
    <3>2. hand[w] \in trampolinesSet => method[hand[w]] \in linked
      BY <3>1, HandInPlace DEF TrampolinesAreSet
    <3> QED
      BY <2>2, <3>1, <3>2 DEF LinkMethod
  <2>3. CASE UnregisterMethod(w)
    <3>1. /\ hand' = hand /\ method' = method /\ linked' = linked /\ step[w] = "unregister"
      BY <2>3 DEF UnregisterMethod, CctorStep, At, OnlyCctorStep, ticketVars, methodVars
    <3> QED
      BY <3>1 DEF LinkedInTime
  <2> QED
    BY <2>1, <2>2, <2>3
<1> QED
  BY <1>1, <1>2

(* Only the cctor stage makes a method executable, and then that of the    *)
(* ticket in hand.                                                         *)
LEMMA ExecutableStep ==
    ASSUME IInv, [Next]_vars, NEW m \in Methods,
           methodState'[m] = "EXECUTABLE", methodState[m] # "EXECUTABLE"
    PROVE  \E w \in Workers : /\ w[1] = "cctor" /\ step[w] = "publish" /\ m = method[hand[w]]
                              /\ step' = [step EXCEPT ![w] = "notify"]
<1>1. PICK w \in Workers : Advances(w)
  <2>1. UNCHANGED methodState \/ \E w \in Workers : Advances(w)
    BY StepKinds DEF CallsOnly, MovesOn, Take, PutInNextStage, Reschedule, EndJob,
       InsertNew, DestroyTicket, RemoveTicket, EndCctorJob, EndScheduled, methodVars
  <2> QED
    BY <2>1
<1>2. PICK x \in {"irNotify", "mcNotify", "notify"} :
         /\ step' = [step EXCEPT ![w] = x]
         /\ methodState' = [methodState EXCEPT ![method[hand[w]]] = ReachedAt(w[1], x)]
         /\ x = "notify" <=> step[w] = "publish"
  BY <1>1 DEF Advances
<1>3. m = method[hand[w]] /\ ReachedAt(w[1], x) = "EXECUTABLE"
  BY <1>2 DEF IInv, TypeMethods
<1>4. w[1] = "cctor" /\ x = "notify"
  BY <1>2, <1>3, WorkerShape DEF ReachedAt, Stages
<1> QED
  BY <1>2, <1>3, <1>4

LEMMA ExecutableIsLinkedStep ==
    ASSUME IInv, LInv, [Next]_vars PROVE ExecutableIsLinked'
<1> SUFFICES ASSUME NEW m \in Methods, methodState'[m] = "EXECUTABLE"
             PROVE  m \in linked'
  BY DEF ExecutableIsLinked
<1>1. CASE methodState[m] = "EXECUTABLE"
  BY <1>1, LinkedGrows DEF LInv, ExecutableIsLinked
<1>2. CASE methodState[m] # "EXECUTABLE"
  BY <1>2, ExecutableStep, LinkedGrows DEF LInv, LinkedInTime
<1> QED
  BY <1>1, <1>2

(* A method becomes executable after its trampolines were set, as long as  *)
(* trampolinesSet tells the truth about the ticket's own method.           *)
THEOREM ExecutableAlwaysLinked == Spec /\ []TrampolinesAreSet => []ExecutableIsLinked
<1>1. Init => LInv
  BY DEF Init, LInv, LinkedInTime, ExecutableIsLinked
<1>2. IInv /\ LInv /\ TrampolinesAreSet /\ [Next]_vars => LInv'
  BY LinkedInTimeStep, ExecutableIsLinkedStep DEF LInv
<1>3. LInv => ExecutableIsLinked
  BY DEF LInv
<1> QED
  BY <1>1, <1>2, <1>3, Invariance, PTL DEF Spec

-----------------------------------------------------------------------------
(* Who waits at a ticket, and with what they go on when they are woken.    *)

(* What internal_notifyCompilationEnd and its kind rely on: whoever sleeps *)
(* when the machine code is there and is in the ticket's list waits for    *)
(* this machine code, and is no left-over of an earlier call.              *)
SignalsFresh ==
    \A w \in Workers : step[w] = "mcNotify" =>
        \A a \in mcNotify[hand[w]] : Asleep(a) =>
            call[a].op = "machineCode" /\ call[a].method = method[hand[w]]

Compiled == {"MACHINE_CODE", "EXECUTABLE"}

WaitsFor(a, op, t) ==
    /\ call[a].op = op /\ call[a].ticket = t /\ call[a].method = method[t]
    /\ call[a].pc \in {"move", "schedule", "sleep", "asleep"}

Notified(t) == \E w \in Workers : step[w] = "destroy" /\ hand[w] = t
BeforeIR(t) ==
    \/ inPipe[t] = "cil"
    \/ \E w \in Workers : hand[w] = t /\ w[1] = "cil" /\ step[w] \in {"job", "irNotify"}

(* Until they are notified, those in a ticket's lists wait for it.         *)
EndWaiters ==
    \A t \in Tickets : Live(t) /\ ~Notified(t) =>
        \A a \in notify[t] : WaitsFor(a, "synch", t)
IRWaiters ==
    \A t \in Tickets : Live(t) /\ BeforeIR(t) =>
        \A a \in irNotify[t] : WaitsFor(a, "tillIR", t)

(* A call goes on once its method is as far as it waited for.              *)
CallFits(c) ==
    /\ c.pc = "signalled" /\ c.op = "synch" => methodState[c.method] = "EXECUTABLE"
    /\ c.pc = "signalled" /\ c.op = "tillIR" => methodState[c.method] # "CIL"
    /\ c.op = "machineCode" /\ (c.pc \in {"signalled", "link"} \/ c.state = "MACHINE_CODE")
         => methodState[c.method] \in Compiled
    /\ c.pc = "link" => c.op = "machineCode"
CallsFit == \A a \in Threads : CallFits(call[a])

WInv == EndWaiters /\ IRWaiters /\ CallsFit

(* A live ticket keeps its method, and no ticket comes back to life.       *)
LEMMA LiveBefore ==
    ASSUME IInv, [Next]_vars, NEW t \in allocated, Live(t)'
    PROVE  Live(t) /\ method'[t] = method[t]
<1>1. t \in Tickets /\ method[t] \in Methods
  BY DEF IInv, TypeTickets, TicketsNamed
<1>2. CASE UNCHANGED <<methodsInPipe, allocated, method>>
  BY <1>2 DEF Live
<1>3. ASSUME NEW a \in Threads, InsertNew(a)
      PROVE  Live(t) /\ method'[t] = method[t]
  <2>1. PICK u \in Tickets \ allocated :
                /\ methodsInPipe' = [methodsInPipe EXCEPT ![call[a].method] = u]
                /\ method' = [method EXCEPT ![u] = call[a].method]
    BY <1>3, InsertNewParts
  <2> QED
    BY <1>1, <2>1 DEF Live, IInv, TypeTickets
<1>4. ASSUME NEW w \in Workers, DestroyTicket(w)
      PROVE  Live(t) /\ method'[t] = method[t]
  <2>1. /\ hand[w] \in Tickets /\ method[hand[w]] \in Methods
        /\ methodsInPipe' = [methodsInPipe EXCEPT ![method[hand[w]]] = None]
        /\ hand[w] \in allocated' => method' = method
    BY <1>4, DestroyParts, HandInPlace
  <2>2. method'[t] = method[t]
    BY <1>1, <1>4, <2>1, DestroyParts, FreedMethod DEF Live
  <2> QED
    BY <1>1, <2>1, <2>2, MethodIsNotNone DEF Live, IInv, TypeTickets
<1>5. CASE EndScheduled
  <2>1. method'[t] = method[t]
    BY <1>1, <1>5, EndScheduledParts, FreedMethod DEF Live
  <2> QED
    BY <1>5, <2>1, EndScheduledParts DEF Live
<1>6. ASSUME NEW w \in Workers, Take(w) \/ PutInNextStage(w) \/ Reschedule(w) \/ EndCctorJob(w)
      PROVE  UNCHANGED <<methodsInPipe, allocated, method>>
  BY <1>6 DEF Take, PutInNextStage, Reschedule, EndJob, EndCctorJob, ticketVars
<1> QED
  BY <1>2, <1>3, <1>4, <1>5, <1>6, StepKinds DEF CallsOnly, MovesOn, Advances, SameRecords

LEMMA NotifiedStays ==
    ASSUME IInv, [Next]_vars, NEW t \in Tickets, Notified(t), Live(t)'
    PROVE  Notified(t)'
<1>1. PICK w \in Workers : step[w] = "destroy" /\ hand[w] = t
  BY DEF Notified
<1>2. Working(w)
  BY <1>1 DEF Working
<1>3. CASE step'[w] = step[w]
  BY <1>1, <1>2, <1>3, HandStays DEF Notified, Working
<1>4. CASE step'[w] # step[w]
  <2>1. Worker(w) /\ ~InsertCallee(w)
    BY <1>4, WhoSteps, WorkerShape, CallsOnlySteps DEF CallsOnly
  <2>2. ~Translate(w)
    BY <1>1, <2>1 DEF Translate, Take, FirstIdle, PutInNextStage, TranslateToIR, NotifyIR,
       FindCallees, EndDLA, Optimize, Reschedule, GenerateMachineCode, NotifyMachineCode, At
  <2>3. DestroyTicket(w)
    BY <1>1, <2>1, <2>2 DEF Worker, RunCctors, StartCctorJob, CheckCctors, MakeExecutable,
       CallCctor, RegisterRunner, UnregisterRunner, EndOfCctor, DeclareWaiting, EndOfWait,
       UndeclareWaiting, Complete, LinkMethod, UnregisterMethod, Publish,
       NotifyCompilationEnd, EndCctorJob, CctorStep, At
  <2>4. /\ method[t] \in Methods /\ t \in allocated
        /\ methodsInPipe' = [methodsInPipe EXCEPT ![method[t]] = None]
    BY <1>1, <1>2, <2>3, DestroyParts, HandInPlace
  <2>5. method'[t] = method[t]
    BY <2>4, LiveBefore
  <2> QED
    BY <2>4, <2>5, MethodIsNotNone DEF Live, IInv, TypeTickets
<1> QED
  BY <1>3, <1>4

LEMMA BeforeIRBefore ==
    ASSUME IInv, [Next]_vars, NEW t \in allocated, BeforeIR(t)'
    PROVE  BeforeIR(t)
<1>1. t \in Tickets
  BY DEF IInv, TypeTickets
<1>2. CASE inPipe'[t] = "cil"
  <2>1. ASSUME inPipe[t] # "cil" PROVE FALSE
    <3>1. inPipe' # inPipe
      BY <1>2, <2>1
    <3>2. ASSUME NEW w \in Workers, Take(w) PROVE FALSE
      BY <1>1, <1>2, <2>1, <3>2, MethodIsNotNone, NamesAssumption
      DEF Take, IInv, TypeTickets, Stages
    <3>3. ASSUME NEW w \in Workers, PutInNextStage(w) \/ Reschedule(w) PROVE FALSE
      <4>1. PICK s \in Stages : EndJob(w, s) /\ s # "cil"
        BY <3>3, StageOfStep, WorkerShape DEF PutInNextStage, NextStage, Reschedule, Stages
      <4>2. inPipe' = [inPipe EXCEPT ![hand[w]] = s]
        BY <4>1 DEF EndJob, PutToPipe
      <4> QED
        BY <1>1, <1>2, <2>1, <4>1, <4>2 DEF IInv, TypeTickets
    <3>4. ASSUME NEW a \in Threads, InsertNew(a) PROVE FALSE
      BY <1>1, <1>2, <2>1, <3>4, InsertNewParts DEF IInv, TypeTickets
    <3> QED
      BY <3>1, <3>2, <3>3, <3>4, StepKinds, DestroyParts, EndScheduledParts
      DEF CallsOnly, MovesOn, Advances, SameRecords, EndCctorJob, ticketVars
  <2> QED
    BY <2>1 DEF BeforeIR
<1>3. ASSUME NEW w \in Workers, hand'[w] = t, w[1] = "cil", step'[w] \in {"job", "irNotify"}
      PROVE  BeforeIR(t)
  <2>1. CASE step'[w] = step[w]
    BY <1>3, <2>1, HandStays DEF BeforeIR, Working
  <2>2. CASE step'[w] # step[w]
    <3>1. Worker(w) /\ ~InsertCallee(w)
      BY <2>2, WhoSteps, WorkerShape, CallsOnlySteps DEF CallsOnly
    <3>2. step \in [Workers -> Steps] /\ hand \in [Workers -> Tickets \cup {None}]
      BY DEF IInv, TypeWorkers
    <3>3. Translate(w)
      BY <1>3, <3>1 DEF Worker, RunCctors, StartCctorJob, CheckCctors, MakeExecutable,
         CallCctor, RegisterRunner, UnregisterRunner, EndOfCctor, DeclareWaiting, EndOfWait,
         UndeclareWaiting, Complete, LinkMethod, UnregisterMethod, Publish,
         NotifyCompilationEnd, DestroyTicket, RemoveTicket, EndCctorJob, CctorStep, At
    <3>4. Take(w) \/ TranslateToIR(w)
      BY <1>3, <3>1, <3>2, <3>3 DEF Translate, PutInNextStage, EndJob, NotifyIR,
         FindCallees, EndDLA, Optimize, Reschedule, GenerateMachineCode, NotifyMachineCode,
         GoOn, At
    <3>5. CASE Take(w)
      <4>1. PICK u \in queue[<<w[1], w[2]>>] : hand' = [hand EXCEPT ![w] = u]
        BY <3>5 DEF Take
      <4>2. u = t /\ t \in queue[<<"cil", w[2]>>]
        BY <1>3, <3>2, <4>1
      <4> QED
        BY <1>1, <4>2, WorkerShape DEF BeforeIR, IInv, Queued, Stages
    <3>6. CASE TranslateToIR(w)
      BY <1>3, <3>6 DEF TranslateToIR, At, OnlyStep, BeforeIR
    <3> QED
      BY <3>4, <3>5, <3>6
  <2> QED
    BY <2>1, <2>2
<1> QED
  BY <1>2, <1>3 DEF BeforeIR

(* Who gets into a list.                                                   *)
LEMMA ListSteps ==
    ASSUME IInv, [Next]_vars
    PROVE  \/ UNCHANGED <<notify, irNotify, mcNotify>>
           \/ \E a \in Threads : JoinTicket(a) \/ InsertNew(a)
           \/ \E w \in Workers : DestroyTicket(w)
           \/ EndScheduled
<1>1. ASSUME NEW a \in Threads, InsertMethod(a), ~JoinTicket(a), ~InsertNew(a)
      PROVE  UNCHANGED <<notify, irNotify, mcNotify>>
  BY <1>1 DEF InsertMethod, EnterInsert, EnterSynch, ChangePriority, SendToScheduler,
     GoToSleep, WakeUp, LinkWaited, WaitEmptyPipeline, ticketVars
<1>2. ASSUME NEW w \in Workers, Translate(w)
      PROVE  UNCHANGED <<notify, irNotify, mcNotify>>
  BY <1>2 DEF Translate, Take, PutInNextStage, EndJob, TranslateToIR, NotifyIR,
     FindCallees, InsertCallee, EndDLA, Optimize, Reschedule, GenerateMachineCode,
     NotifyMachineCode, OnlyStep, ticketVars
<1>3. ASSUME NEW w \in Workers, RunCctors(w)
      PROVE  UNCHANGED <<notify, irNotify, mcNotify>>
  BY <1>3 DEF RunCctors, StartCctorJob, CheckCctors, MakeExecutable, CallCctor,
     RegisterRunner, UnregisterRunner, EndOfCctor, DeclareWaiting, EndOfWait,
     UndeclareWaiting, OnlyCctorStep, ticketVars
<1>4. ASSUME NEW w \in Workers, Complete(w), ~DestroyTicket(w)
      PROVE  UNCHANGED <<notify, irNotify, mcNotify>>
  BY <1>4 DEF Complete, LinkMethod, UnregisterMethod, Publish, NotifyCompilationEnd,
     EndCctorJob, OnlyCctorStep, ticketVars
<1>5. CASE TakeScheduled \/ InsertCallee(Scheduler) \/ Reap \/ (\E r \in Requests : Request(r))
             \/ UNCHANGED vars
  BY <1>5 DEF TakeScheduled, InsertCallee, Reap, ReaperWakesUp, KillCctorThreads, Request,
     ticketVars, vars
<1> QED
  BY <1>1, <1>2, <1>3, <1>4, <1>5 DEF Next, Step, Worker, Schedule

LEMMA NewcomerWaits ==
    ASSUME IInv, NEW a \in Threads, JoinTicket(a) \/ InsertNew(a),
           NEW op \in {"synch", "tillIR"}, call[a].op = op,
           NEW t \in Tickets, methodsInPipe'[call[a].method] = t, IInv'
    PROVE  WaitsFor(a, op, t)'
<1>1. PICK u \in Tickets, c \in Calls :
              /\ c.op = call[a].op /\ c.method = call[a].method /\ c.ticket = u
              /\ methodsInPipe'[call[a].method] = u
              /\ call[a].method \in Methods
              /\ call'[a] = [c EXCEPT !.pc = "move"] \/ Inserted(a, c)
  BY TicketCall
<1>2. u = t /\ method'[t] = call[a].method
  BY <1>1, MethodIsNotNone DEF IInv, TicketsNamed
<1>3. Continues(a, c, {"move", "sleep"})
  <2>1. CASE call'[a] = [c EXCEPT !.pc = "move"]
    BY <2>1, SameCall DEF Continues
  <2>2. CASE Inserted(a, c)
    <3>1. Continues(a, c, {"sleep"})
      BY <1>1, <2>2, InsertedCall
    <3> QED
      BY <3>1, ContinuesMore
  <2> QED
    BY <1>1, <2>1, <2>2
<1> QED
  BY <1>1, <1>2, <1>3 DEF Continues, WaitsFor

(* Whoever is in the list of a ticket was there, or has just come.         *)
LEMMA ListFrom ==
    ASSUME IInv, [Next]_vars, NEW t \in Tickets, NEW a \in Threads, t \in allocated', IInv'
    PROVE  /\ a \in notify'[t] =>
                (t \in allocated /\ a \in notify[t]) \/ WaitsFor(a, "synch", t)'
           /\ a \in irNotify'[t] =>
                (t \in allocated /\ a \in irNotify[t]) \/ WaitsFor(a, "tillIR", t)'
<1>1. /\ notify \in [Tickets -> SUBSET Threads] /\ irNotify \in [Tickets -> SUBSET Threads]
      /\ methodsInPipe \in [Methods -> Tickets \cup {None}]
  BY DEF IInv, TypeTickets
<1>2. CASE UNCHANGED <<notify, irNotify>> /\ ~\E b \in Threads : InsertNew(b)
  <2>1. ASSUME CallsOnly \/ \E w \in Workers : MovesOn(w) \/ Advances(w)
        PROVE  allocated' = allocated
    BY <2>1 DEF CallsOnly, MovesOn, Advances, SameRecords, ticketVars
  <2>2. ASSUME NEW w \in Workers,
               Take(w) \/ PutInNextStage(w) \/ Reschedule(w) \/ EndCctorJob(w)
        PROVE  allocated' = allocated
    BY <2>2 DEF Take, PutInNextStage, Reschedule, EndJob, EndCctorJob, ticketVars
  <2>3. ASSUME NEW u \in Tickets, FreedOrKept(u)
        PROVE  t \in allocated
    BY <2>3 DEF FreedOrKept, Free
  <2>4. ASSUME NEW w \in Workers, DestroyTicket(w)
        PROVE  t \in allocated
    <3>1. hand[w] \in Tickets /\ FreedOrKept(hand[w])
      BY <2>4, DestroyParts, HandInPlace
    <3> QED
      BY <3>1, <2>3
  <2>5. ASSUME EndScheduled
        PROVE  t \in allocated
    BY <2>5, <2>3, EndScheduledParts
  <2>6. t \in allocated
    BY <1>2, <2>1, <2>2, <2>4, <2>5, StepKinds
  <2> QED
    BY <1>2, <2>6
<1>3. ASSUME NEW b \in Threads, JoinTicket(b)
      PROVE  /\ a \in notify'[t] =>
                  (t \in allocated /\ a \in notify[t]) \/ WaitsFor(a, "synch", t)'
             /\ a \in irNotify'[t] =>
                  (t \in allocated /\ a \in irNotify[t]) \/ WaitsFor(a, "tillIR", t)'
  <2> DEFINE u == methodsInPipe[call[b].method]
  <2>1. /\ notify' = [notify EXCEPT ![u] = IF call[b].op = "synch" THEN @ \cup {b} ELSE @]
        /\ irNotify' = [irNotify EXCEPT ![u] = IF call[b].op = "tillIR" THEN @ \cup {b} ELSE @]
        /\ allocated' = allocated /\ methodsInPipe' = methodsInPipe
    BY <1>3 DEF JoinTicket
  <2>2. methodsInPipe'[call[b].method] = u
    BY <2>1
  <2>3. u = t => /\ call[b].op = "synch" => WaitsFor(b, "synch", t)'
                 /\ call[b].op = "tillIR" => WaitsFor(b, "tillIR", t)'
    BY <1>3, <2>2, NewcomerWaits
  <2> HIDE DEF u
  <2>4. a \in notify'[t] => a \in notify[t] \/ (u = t /\ a = b /\ call[b].op = "synch")
    BY <1>1, <2>1
  <2>5. a \in irNotify'[t] => a \in irNotify[t] \/ (u = t /\ a = b /\ call[b].op = "tillIR")
    BY <1>1, <2>1
  <2> QED
    BY <2>1, <2>3, <2>4, <2>5
<1>4. ASSUME NEW b \in Threads, InsertNew(b)
      PROVE  /\ a \in notify'[t] =>
                  (t \in allocated /\ a \in notify[t]) \/ WaitsFor(a, "synch", t)'
             /\ a \in irNotify'[t] =>
                  (t \in allocated /\ a \in irNotify[t]) \/ WaitsFor(a, "tillIR", t)'
  <2>1. PICK u \in Tickets \ allocated :
          /\ notify' = [notify EXCEPT ![u] = IF call[b].op = "synch" THEN {b} ELSE {}]
          /\ irNotify' = [irNotify EXCEPT ![u] = IF call[b].op = "tillIR" THEN {b} ELSE {}]
          /\ allocated' = allocated \cup {u}
          /\ methodsInPipe' = [methodsInPipe EXCEPT ![call[b].method] = u]
    BY <1>4 DEF InsertNew
  <2>2. call[b].method \in Methods
    BY <1>4, TicketCall
  <2>3. u = t => /\ call[b].op = "synch" => WaitsFor(b, "synch", t)'
                 /\ call[b].op = "tillIR" => WaitsFor(b, "tillIR", t)'
    <3>1. methodsInPipe'[call[b].method] = u
      BY <1>1, <2>1, <2>2
    <3> QED
      BY <1>4, <3>1, NewcomerWaits
  <2>4. a \in notify'[t] => IF u = t THEN a = b /\ call[b].op = "synch" ELSE a \in notify[t]
    BY <1>1, <2>1
  <2>5. a \in irNotify'[t] => IF u = t THEN a = b /\ call[b].op = "tillIR" ELSE a \in irNotify[t]
    BY <1>1, <2>1
  <2> QED
    BY <2>1, <2>3, <2>4, <2>5
<1>5. ASSUME NEW u \in Tickets, FreedOrKept(u)
      PROVE  /\ a \in notify'[t] => t \in allocated /\ a \in notify[t]
             /\ a \in irNotify'[t] => t \in allocated /\ a \in irNotify[t]
  BY <1>1, <1>5 DEF FreedOrKept, Free
<1>6. \A w \in Workers : DestroyTicket(w) => hand[w] \in Tickets /\ FreedOrKept(hand[w])
  BY DestroyParts, HandInPlace
<1>7. EndScheduled => schedTicket \in Tickets /\ FreedOrKept(schedTicket)
  BY EndScheduledParts
<1> QED
  BY <1>2, <1>3, <1>4, <1>5, <1>6, <1>7, ListSteps

(* Those who wait go on waiting until they are woken.                      *)
LEMMA WaitsOn ==
    ASSUME IInv, [Next]_vars, NEW a \in Threads, NEW op \in {"synch", "tillIR"},
           NEW t \in allocated, WaitsFor(a, op, t), method'[t] = method[t], ~Woken(a)
    PROVE  WaitsFor(a, op, t)'
<1>1. call \in [Threads -> Calls] /\ call[a] \in Calls
  BY DEF IInv, CallsOK
<1>2. CASE call'[a] = call[a]
  BY <1>2 DEF WaitsFor
<1>3. CASE InsertMethod(a)
  <2>1. /\ call[a].pc \in {"move", "schedule", "sleep", "asleep"}
        /\ call[a].op \in {"synch", "tillIR"}
    BY DEF WaitsFor
  <2>2. ChangePriority(a) \/ SendToScheduler(a) \/ GoToSleep(a)
    BY <1>3, <2>1 DEF InsertMethod, EnterInsert, EnterSynch, JoinTicket, InsertNew, WakeUp,
       LinkWaited, WaitEmptyPipeline, Holds
  <2>3. \/ call'[a] = [call[a] EXCEPT !.pc = "asleep"]
        \/ call'[a] = [call[a] EXCEPT !.pc = "schedule"]
        \/ Inserted(a, call[a])
    BY <1>1, <2>2 DEF ChangePriority, SendToScheduler, GoToSleep, GoesTo
  <2>4. Continues(a, call[a], {"asleep", "schedule", "sleep"})
    <3>1. CASE Inserted(a, call[a])
      <4>1. Continues(a, call[a], {"sleep"})
        BY <1>1, <2>1, <3>1, InsertedCall
      <4> QED
        BY <4>1, ContinuesMore
    <3>2. ASSUME NEW x \in {"asleep", "schedule"}, call'[a] = [call[a] EXCEPT !.pc = x]
          PROVE  Continues(a, call[a], {"asleep", "schedule", "sleep"})
      BY <1>1, <3>2, SameCall DEF Continues
    <3> QED
      BY <2>3, <3>1, <3>2
  <2> QED
    BY <2>4 DEF Continues, WaitsFor
<1>4. CASE Begins(a)
  BY <1>4 DEF Begins, Starts, Idle, WaitsFor
<1> QED
  BY <1>2, <1>3, <1>4, CallKinds

-----------------------------------------------------------------------------
(* Who is woken, and what for.                                             *)
LEMMA WokenBy ==
    ASSUME IInv, PlacesFit, WInv, SignalsFresh, NEW a \in Threads, Woken(a)
    PROVE  \/ call[a].op = "waitEmpty"
           \/ /\ call[a].op = "machineCode" /\ methodState[call[a].method] = "MACHINE_CODE"
           \/ \E w \in Workers :
                 /\ NotifyIR(w) /\ WaitsFor(a, "tillIR", hand[w])
                 /\ methodState[call[a].method] = "IR"
           \/ \E w \in Workers :
                 /\ NotifyCompilationEnd(w) /\ WaitsFor(a, "synch", hand[w])
                 /\ methodState[call[a].method] = "EXECUTABLE"
<1>1. ASSUME NEW w \in Workers, NotifyIR(w), a \in irNotify[hand[w]]
      PROVE  WaitsFor(a, "tillIR", hand[w]) /\ methodState[call[a].method] = "IR"
  <2>1. w[1] = "cil" /\ step[w] = "irNotify" /\ Working(w)
    BY <1>1, StageOfStep DEF NotifyIR, Working
  <2>2. hand[w] \in Tickets /\ Live(hand[w]) /\ BeforeIR(hand[w])
    BY <2>1, HandInPlace DEF BeforeIR
  <2>3. WaitsFor(a, "tillIR", hand[w])
    BY <1>1, <2>2 DEF WInv, IRWaiters
  <2>4. methodState[method[hand[w]]] = "IR"
    BY <2>1 DEF PlacesFit, ReachedAt
  <2> QED
    BY <2>3, <2>4 DEF WaitsFor
<1>2. ASSUME NEW w \in Workers, NotifyMachineCode(w), a \in mcNotify[hand[w]], Asleep(a)
      PROVE  call[a].op = "machineCode" /\ methodState[call[a].method] = "MACHINE_CODE"
  <2>1. w[1] = "mc" /\ step[w] = "mcNotify" /\ Working(w)
    BY <1>2, StageOfStep DEF NotifyMachineCode, Working
  <2> QED
    BY <1>2, <2>1 DEF SignalsFresh, PlacesFit, ReachedAt
<1>3. ASSUME NEW w \in Workers, NotifyCompilationEnd(w), a \in notify[hand[w]]
      PROVE  WaitsFor(a, "synch", hand[w]) /\ methodState[call[a].method] = "EXECUTABLE"
  <2>1. w[1] = "cctor" /\ step[w] = "notify" /\ Working(w)
    BY <1>3 DEF NotifyCompilationEnd, CctorStep, At, Working
  <2>2. hand[w] \in Tickets /\ Live(hand[w]) /\ ~Notified(hand[w])
    BY <2>1, HandInPlace DEF Notified, IInv, InHands, Working
  <2>3. WaitsFor(a, "synch", hand[w])
    BY <1>3, <2>2 DEF WInv, EndWaiters
  <2>4. methodState[method[hand[w]]] = "EXECUTABLE"
    BY <2>1 DEF PlacesFit, ReachedAt
  <2> QED
    BY <2>3, <2>4 DEF WaitsFor
<1> QED
  BY <1>1, <1>2, <1>3 DEF Woken

LEMMA EndWaitersStep ==
    ASSUME IInv, IInv', PlacesFit, WInv, SignalsFresh, [Next]_vars
    PROVE  EndWaiters'
<1> SUFFICES ASSUME NEW t \in Tickets, Live(t)', ~Notified(t)', NEW a \in notify'[t]
             PROVE  WaitsFor(a, "synch", t)'
  BY DEF EndWaiters
<1>1. a \in Threads /\ t \in allocated'
  BY DEF IInv, TypeTickets, Live
<1>2. CASE ~(t \in allocated /\ a \in notify[t])
  BY <1>1, <1>2, ListFrom
<1>3. CASE t \in allocated /\ a \in notify[t]
  <2>1. Live(t) /\ method'[t] = method[t] /\ ~Notified(t)
    BY <1>3, LiveBefore, NotifiedStays
  <2>2. WaitsFor(a, "synch", t)
    BY <1>3, <2>1 DEF WInv, EndWaiters
  <2>3. ~Woken(a)
    <3>1. ASSUME Woken(a) PROVE FALSE
      <4>1. PICK w \in Workers : NotifyCompilationEnd(w) /\ WaitsFor(a, "synch", hand[w])
        BY <1>1, <2>2, <3>1, WokenBy DEF WaitsFor
      <4>2. hand'[w] = t /\ step'[w] = "destroy"
        BY <2>2, <4>1 DEF NotifyCompilationEnd, OnlyCctorStep, GoOn, WaitsFor, IInv, TypeWorkers
      <4> QED
        BY <4>2 DEF Notified
    <3> QED
      BY <3>1
  <2> QED
    BY <1>1, <1>3, <2>1, <2>2, <2>3, WaitsOn
<1> QED
  BY <1>2, <1>3

LEMMA IRWaitersStep ==
    ASSUME IInv, IInv', PlacesFit, PlacesFit', WInv, SignalsFresh, [Next]_vars
    PROVE  IRWaiters'
<1> SUFFICES ASSUME NEW t \in Tickets, Live(t)', BeforeIR(t)', NEW a \in irNotify'[t]
             PROVE  WaitsFor(a, "tillIR", t)'
  BY DEF IRWaiters
<1>1. a \in Threads /\ t \in allocated'
  BY DEF IInv, TypeTickets, Live
<1>2. CASE ~(t \in allocated /\ a \in irNotify[t])
  BY <1>1, <1>2, ListFrom
<1>3. CASE t \in allocated /\ a \in irNotify[t]
  <2>1. Live(t) /\ method'[t] = method[t] /\ BeforeIR(t)
    BY <1>3, LiveBefore, BeforeIRBefore
  <2>2. WaitsFor(a, "tillIR", t)
    BY <1>3, <2>1 DEF WInv, IRWaiters
  <2>3. ~Woken(a)
    <3>1. ASSUME Woken(a) PROVE FALSE
      <4>1. PICK w \in Workers : NotifyIR(w) /\ WaitsFor(a, "tillIR", hand[w])
        BY <1>1, <2>2, <3>1, WokenBy DEF WaitsFor
      <4>2. /\ hand'[w] = t /\ hand[w] = t /\ step' = [step EXCEPT ![w] = "put"]
            /\ inPipe' = inPipe /\ hand' = hand /\ Working(w)
        BY <2>2, <4>1 DEF NotifyIR, OnlyStep, ticketVars, GoOn, WaitsFor, Working
      <4>3. PICK v \in Workers : hand'[v] = t /\ step'[v] \in {"job", "irNotify"}
        BY <4>2, HandInPlace, MethodIsNotNone, NamesAssumption DEF BeforeIR, Stages
      <4>4. v # w /\ Working(v) /\ hand[v] = t
        BY <4>2, <4>3 DEF Working, IInv, TypeWorkers
      <4> QED
        BY <4>2, <4>4 DEF IInv, InHands
    <3> QED
      BY <3>1
  <2> QED
    BY <1>1, <1>3, <2>1, <2>2, <2>3, WaitsOn
<1> QED
  BY <1>2, <1>3

-----------------------------------------------------------------------------
(* How calls go on and end.                                                *)

LEMMA StateGrows ==
    ASSUME IInv, PlacesFit, [Next]_vars, NEW m \in Methods
    PROVE  /\ methodState[m] = "EXECUTABLE" => methodState'[m] = "EXECUTABLE"
           /\ methodState[m] \in Compiled => methodState'[m] \in Compiled
           /\ methodState[m] # "CIL" => methodState'[m] # "CIL"
  BY StateChanges DEF Compiled

(* What becomes of a call when its thread takes a step of insertMethod.    *)
Inserts(a) ==
    \E c \in Calls : /\ c.op = call[a].op /\ c.method = call[a].method
                     /\ c.state = call[a].state /\ Inserted(a, c)

LEMMA CallSteps ==
    ASSUME IInv, NEW a \in Threads, InsertMethod(a)
    PROVE  \/ EnterInsert(a) \/ EnterSynch(a)
           \/ Inserts(a)
           \/ call'[a].op = call[a].op /\ call'[a].pc \in {"move", "schedule", "asleep"}
           \/ /\ WakeUp(a) /\ call[a].pc = "signalled" /\ call[a].op = "machineCode"
              /\ call'[a].op = "machineCode"
           \/ /\ WakeUp(a) /\ call[a].pc = "signalled" /\ call'[a] = NoCall
              /\ call[a].op \in {"none", "async", "synch", "tillIR"}
           \/ LinkWaited(a) /\ call[a].pc = "link" /\ call'[a] = NoCall
           \/ /\ WaitEmptyPipeline(a) /\ call[a].op = "waitEmpty" /\ PipelineEmpty
              /\ call'[a] = NoCall
<1>1. call[a] \in Calls /\ call \in [Threads -> Calls]
  BY DEF IInv, CallsOK
<1>2. CASE JoinTicket(a) \/ InsertNew(a)
  <2>1. PICK c \in Calls : /\ c.op = call[a].op /\ c.method = call[a].method
                           /\ c.state = call[a].state
                           /\ call'[a] = [c EXCEPT !.pc = "move"] \/ Inserted(a, c)
    BY <1>2, TicketCall
  <2>2. CASE call'[a] = [c EXCEPT !.pc = "move"]
    <3>1. Continues(a, c, {"move"})
      BY <2>1, <2>2, PcCall
    <3> QED
      BY <2>1, <3>1 DEF Continues
  <2>3. CASE Inserted(a, c)
    BY <2>1, <2>3 DEF Inserts
  <2> QED
    BY <2>1, <2>2, <2>3
<1>3. CASE ChangePriority(a) \/ SendToScheduler(a)
  <2>1. call'[a] = [call[a] EXCEPT !.pc = "schedule"] \/ Inserted(a, call[a])
    BY <1>1, <1>3 DEF ChangePriority, SendToScheduler, GoesTo
  <2>2. CASE call'[a] = [call[a] EXCEPT !.pc = "schedule"]
    <3>1. Continues(a, call[a], {"schedule"})
      BY <1>1, <2>2, PcCall
    <3> QED
      BY <3>1 DEF Continues
  <2>3. CASE Inserted(a, call[a])
    BY <1>1, <2>3 DEF Inserts
  <2> QED
    BY <2>1, <2>2, <2>3
<1>4. CASE WakeUp(a)
  <2>1. call[a].pc = "signalled" /\ call[a].op # "waitEmpty"
    BY <1>4 DEF WakeUp
  <2>2. CASE call[a].op = "machineCode"
    <3>1. call'[a] = [call[a] EXCEPT !.pc = "link"]
      BY <1>1, <1>4, <2>2 DEF WakeUp
    <3>2. Continues(a, call[a], {"link"})
      BY <1>1, <3>1, PcCall
    <3> QED
      BY <1>4, <2>1, <2>2, <3>2 DEF Continues
  <2>3. CASE call[a].op # "machineCode"
    <3>1. call'[a] = NoCall
      BY <1>1, <1>4, <2>3 DEF WakeUp, Return
    <3>2. call[a].op \in {"none", "machineCode"} \cup Operations
      BY <1>1 DEF Calls
    <3> QED
      BY <1>4, <2>1, <2>3, <3>1, <3>2 DEF Operations
  <2> QED
    BY <2>2, <2>3
<1>5. CASE GoToSleep(a) \/ WaitEmptyPipeline(a)
  <2>1. \/ call'[a] = [call[a] EXCEPT !.pc = "asleep"]
        \/ /\ WaitEmptyPipeline(a) /\ call[a].op = "waitEmpty" /\ PipelineEmpty
           /\ call'[a] = NoCall
    BY <1>1, <1>5 DEF GoToSleep, WaitEmptyPipeline
  <2>2. CASE call'[a] = [call[a] EXCEPT !.pc = "asleep"]
    <3>1. Continues(a, call[a], {"asleep"})
      BY <1>1, <2>2, PcCall, Zenon
    <3>2. call'[a].op = call[a].op /\ call'[a].pc = "asleep"
      BY <3>1 DEF Continues
    <3> QED
      BY <3>2
  <2> QED
    BY <2>1, <2>2
<1>6. CASE LinkWaited(a)
  BY <1>1, <1>6 DEF LinkWaited, Holds, Return
<1> QED
  BY <1>2, <1>3, <1>4, <1>5, <1>6 DEF InsertMethod

LEMMA LinkCall ==
    ASSUME IInv, NEW a \in Threads, InsertMethod(a), call'[a].pc = "link"
    PROVE  /\ call'[a].op = "machineCode"
           /\ call[a].pc = "signalled" \/ call'[a].state = "MACHINE_CODE"
<1>1. ASSUME NEW c \in Calls, Inserted(a, c)
      PROVE  call'[a].op = "machineCode" /\ call'[a].state = "MACHINE_CODE"
  BY <1>1, InsertedCall DEF Continues, NoCall
<1>2. ~EnterInsert(a) /\ ~EnterSynch(a)
  BY EntersCall DEF Continues, NoCall
<1> QED
  BY <1>1, <1>2, CallSteps DEF NoCall, Inserts

LEMMA CallsFitStep ==
    ASSUME IInv, IInv', PlacesFit, WInv, SignalsFresh, [Next]_vars
    PROVE  CallsFit'
<1> SUFFICES ASSUME NEW a \in Threads PROVE CallFits(call[a])'
  BY DEF CallsFit
<1>1. /\ call[a] \in Calls /\ CallOK(call[a]) /\ call \in [Threads -> Calls]
      /\ call'[a] \in Calls /\ CallOK(call'[a])
  BY DEF IInv, CallsOK, CallOK, HasScheduler
<1>2. CallFits(call[a])
  BY DEF WInv, CallsFit
<1>3. CASE call'[a] = call[a]
  <2>1. call[a].pc # "idle" => call[a].method \in Methods
    BY <1>1 DEF CallOK
  <2>2. call[a].op = "machineCode" => call[a].pc # "idle"
    BY <1>1 DEF CallOK
  <2> QED
    BY <1>2, <1>3, <2>1, <2>2, StateGrows DEF CallFits
<1>4. CASE InsertMethod(a)
  <2>1. CASE EnterInsert(a) \/ EnterSynch(a)
    <3>1. CASE call'[a] = NoCall
      BY <3>1 DEF NoCall, CallFits
    <3>2. CASE Continues(a, call[a], {"insert"}) /\ call[a].op \in {"async", "tillIR"}
      BY <3>2 DEF CallFits, Continues
    <3>3. CASE /\ call'[a].pc = "insert" /\ call'[a].method = call[a].method
               /\ call'[a].state = methodState[call[a].method]
      <4>1. methodState' = methodState
        BY <2>1, EntersCall
      <4> QED
        BY <3>3, <4>1 DEF CallFits, Compiled
    <3> QED
      BY <2>1, <3>1, <3>2, <3>3, EntersCall
  <2>2. CASE ~EnterInsert(a) /\ ~EnterSynch(a) /\ call'[a] # NoCall
    <3>1. /\ call'[a].op = call[a].op /\ call'[a].method = call[a].method
          /\ call'[a].state = call[a].state /\ call'[a].pc \in Later
      BY <1>4, <2>2, GoesOnCall
    <3>2. call'[a].method \in Methods
      BY <1>1, <3>1 DEF CallOK, Later
    <3>3. call'[a].pc = "link" => /\ call'[a].op = "machineCode"
                                  /\ call[a].pc = "signalled" \/ call[a].state = "MACHINE_CODE"
      BY <1>4, <3>1, LinkCall
    <3> QED
      BY <1>2, <3>1, <3>2, <3>3, StateGrows DEF CallFits, Later
  <2>3. CASE call'[a] = NoCall
    BY <2>3 DEF NoCall, CallFits
  <2> QED
    BY <2>1, <2>2, <2>3
<1>5. CASE Begins(a)
  BY <1>5 DEF Begins, Starts, CallFits, Operations
<1>6. CASE Woken(a)
  <2>1. /\ call'[a].op = call[a].op /\ call'[a].method = call[a].method
        /\ call'[a].pc = "signalled"
    <3>1. Continues(a, call[a], {"signalled"})
      BY <1>1, <1>6, PcCall DEF Woken
    <3> QED
      BY <3>1 DEF Continues
  <2>2. call[a].method \in Methods
    BY <1>1, <1>6 DEF CallOK, Woken, Asleep
  <2>3. /\ call[a].op = "synch" => methodState[call[a].method] = "EXECUTABLE"
        /\ call[a].op = "tillIR" => methodState[call[a].method] # "CIL"
        /\ call[a].op = "machineCode" => methodState[call[a].method] \in Compiled
    BY <1>6, WokenBy DEF WaitsFor, Compiled
  <2> QED
    BY <2>1, <2>2, <2>3, StateGrows DEF CallFits
<1> QED
  BY <1>3, <1>4, <1>5, <1>6, CallKinds

(* How a call comes to its end.                                            *)
LEMMA Returns ==
    ASSUME IInv, [Next]_vars, NEW a \in Threads, call[a].op # "none", call'[a].op = "none"
    PROVE  \/ call[a].op = "async"
           \/ EnterSynch(a) /\ call[a].op = "synch" /\ methodState[call[a].method] = "EXECUTABLE"
           \/ WakeUp(a) /\ call[a].pc = "signalled" /\ call[a].op \in {"synch", "tillIR"}
           \/ LinkWaited(a) /\ call[a].pc = "link"
           \/ WaitEmptyPipeline(a) /\ call[a].op = "waitEmpty" /\ PipelineEmpty
<1>1. call[a] \in Calls /\ CallOK(call[a])
  BY DEF IInv, CallsOK
<1>2. InsertMethod(a)
  <2>1. ~Begins(a)
    BY <1>1 DEF Begins, Starts, Idle, CallOK
  <2>2. ASSUME Woken(a) PROVE FALSE
    <3>1. Continues(a, call[a], {"signalled"})
      BY <1>1, <2>2, PcCall DEF Woken
    <3> QED
      BY <3>1 DEF Continues
  <2> QED
    BY <2>1, <2>2, CallKinds
<1>3. ASSUME Inserts(a)
      PROVE  call[a].op = "async"
  BY <1>3, InsertedCall DEF Continues, Inserts
<1> QED
  <2>1. EnterInsert(a) \/ EnterSynch(a) => EnterSynch(a) /\ call[a].op = "synch"
                                           /\ methodState[call[a].method] = "EXECUTABLE"
    BY EntersCall DEF Continues
  <2> QED
    BY <1>2, <1>3, <2>1, CallSteps

LEMMA InitWInv == Init => WInv
<1> SUFFICES ASSUME Init PROVE WInv
  OBVIOUS
<1>1. EndWaiters /\ IRWaiters
  BY DEF Init, EndWaiters, IRWaiters
<1>2. CallsFit
  BY DEF Init, CallsFit, CallFits, NoCall
<1> QED
  BY <1>1, <1>2 DEF WInv

(* Who is in the list of a ticket and not yet notified waits for this      *)
(* ticket, and goes on when its method is as far as it waited for.         *)
THEOREM WaitersInvariance == Spec /\ []InsertionsFresh /\ []SignalsFresh => []WInv
<1>1. Init => WInv
  BY InitWInv
<1>2. IInv /\ HInv /\ WInv /\ SignalsFresh /\ [Next]_vars /\ IInv' /\ HInv' => WInv'
  BY EndWaitersStep, IRWaitersStep, CallsFitStep DEF HInv, WInv
<1> QED
  BY <1>1, <1>2, Invariance, HistoryInvariance, PTL DEF Spec

(* A call of insertMethod comes back with what it was made for.            *)
THEOREM AlwaysCompiledOnReturn ==
    Spec /\ []InsertionsFresh /\ []SignalsFresh => CompiledOnReturn
<1>1. ASSUME IInv, WInv, [Next]_vars, NEW a \in Threads,
             call[a].op # "none", call'[a].op = "none"
      PROVE  LET m == call[a].method IN
             CASE call[a].op = "synch" -> methodState'[m] = "EXECUTABLE"
               [] call[a].op = "tillIR" -> methodState'[m] # "CIL"
               [] call[a].op = "machineCode" -> m \in linked'
               [] call[a].op = "waitEmpty" -> PipelineEmpty
               [] OTHER -> TRUE
  <2>1. CallFits(call[a])
    BY <1>1 DEF WInv, CallsFit
  <2>2. CASE EnterSynch(a) /\ call[a].op = "synch" /\ methodState[call[a].method] = "EXECUTABLE"
    BY <1>1, <2>2, EntersCall
  <2>3. CASE WakeUp(a) /\ call[a].pc = "signalled" /\ call[a].op \in {"synch", "tillIR"}
    <3>1. methodState' = methodState
      BY <2>3 DEF WakeUp, methodVars
    <3> QED
      BY <2>1, <2>3, <3>1 DEF CallFits
  <2>4. CASE LinkWaited(a) /\ call[a].pc = "link"
    BY <2>1, <2>4 DEF CallFits, LinkWaited
  <2> QED
    BY <1>1, <2>2, <2>3, <2>4, Returns
<1>2. IInv /\ WInv /\ [Next]_vars =>
        [\A a \in Threads : call[a].op # "none" /\ call'[a].op = "none" =>
           LET m == call[a].method IN
           CASE call[a].op = "synch" -> methodState'[m] = "EXECUTABLE"
             [] call[a].op = "tillIR" -> methodState'[m] # "CIL"
             [] call[a].op = "machineCode" -> m \in linked'
             [] call[a].op = "waitEmpty" -> PipelineEmpty
             [] OTHER -> TRUE]_vars
  BY <1>1
<1> QED
  BY <1>2, Invariance, WaitersInvariance, PTL DEF Spec, CompiledOnReturn

-----------------------------------------------------------------------------
(* Static constructors.                                                    *)

(* The owner of a cctor has compiled it, or is about to.                   *)
OwnedCompiled ==
    \A c \in Methods, w \in Workers : owner[c] = w =>
        \/ methodState[c] \in Compiled
        \/ call[w].method = c /\ call[w].op \in {"synch", "machineCode"}

LEMMA InsertRunsNothing ==
    ASSUME NEW a \in Threads, InsertMethod(a)
    PROVE  UNCHANGED <<owner, inExecution, executionDone>>
<1>1. CASE EnterInsert(a) \/ EnterSynch(a) \/ GoToSleep(a) \/ WakeUp(a) \/ LinkWaited(a)
             \/ WaitEmptyPipeline(a)
  BY <1>1 DEF EnterInsert, EnterSynch, GoToSleep, WakeUp, LinkWaited, WaitEmptyPipeline,
              staticVars
<1>2. CASE JoinTicket(a) \/ ChangePriority(a) \/ SendToScheduler(a) \/ InsertNew(a)
  <2>1. UNCHANGED staticVars
    BY <1>2 DEF JoinTicket, ChangePriority, SendToScheduler, InsertNew
  <2> QED
    BY <2>1 DEF staticVars
<1> QED
  BY <1>1, <1>2 DEF InsertMethod

LEMMA OwnerSteps ==
    ASSUME [Next]_vars
    PROVE  UNCHANGED owner \/ \E w \in Workers : MakeExecutable(w)
<1>1. ASSUME NEW a \in Threads, InsertMethod(a)
      PROVE  UNCHANGED owner
  BY <1>1, InsertRunsNothing
<1>2. ASSUME NEW w \in Workers, Translate(w)
      PROVE  UNCHANGED owner
  BY <1>2 DEF Translate, Take, PutInNextStage, EndJob, TranslateToIR, NotifyIR,
     FindCallees, InsertCallee, EndDLA, Optimize, Reschedule, GenerateMachineCode,
     NotifyMachineCode, staticVars
<1>3. ASSUME NEW w \in Workers, RunCctors(w), ~MakeExecutable(w)
      PROVE  UNCHANGED owner
  BY <1>3 DEF RunCctors, StartCctorJob, CheckCctors, CallCctor, RegisterRunner,
     UnregisterRunner, EndOfCctor, DeclareWaiting, EndOfWait, UndeclareWaiting, staticVars
<1>4. ASSUME NEW w \in Workers, Complete(w)
      PROVE  UNCHANGED owner
  BY <1>4 DEF Complete, LinkMethod, UnregisterMethod, Publish, NotifyCompilationEnd,
     DestroyTicket, RemoveTicket, EndCctorJob, staticVars
<1>5. CASE Schedule \/ Reap \/ (\E r \in Requests : Request(r)) \/ UNCHANGED vars
  BY <1>5 DEF Schedule, TakeScheduled, InsertCallee, EndScheduled, Reap, ReaperWakesUp,
     KillCctorThreads, Request, staticVars, vars
<1> QED
  BY <1>1, <1>2, <1>3, <1>4, <1>5 DEF Next, Step, Worker

LEMMA OwnedCompiledStep ==
    ASSUME IInv, PlacesFit, WInv, OwnedCompiled, [Next]_vars
    PROVE  OwnedCompiled'
<1> SUFFICES ASSUME NEW c \in Methods, NEW w \in Workers, owner'[c] = w
             PROVE  \/ methodState'[c] \in Compiled
                    \/ call'[w].method = c /\ call'[w].op \in {"synch", "machineCode"}
  BY DEF OwnedCompiled
<1>1. w \in Threads /\ call[w] \in Calls /\ CallOK(call[w]) /\ call \in [Threads -> Calls]
  BY WorkerShape DEF IInv, CallsOK
<1>2. CASE owner[c] = w
  <2>1. CASE methodState[c] \in Compiled
    BY <2>1, StateGrows
  <2>2. CASE call[w].method = c /\ call[w].op \in {"synch", "machineCode"}
    <3>1. CASE call'[w] = call[w]
      BY <2>2, <3>1
    <3>2. CASE Begins(w)
      BY <1>1, <2>2, <3>2 DEF Begins, Starts, Idle, CallOK
    <3>3. CASE Woken(w)
      <4>1. Continues(w, call[w], {"signalled"})
        BY <1>1, <3>3, PcCall DEF Woken
      <4> QED
        BY <2>2, <4>1 DEF Continues
    <3>4. CASE InsertMethod(w) /\ call'[w] # NoCall
      BY <1>1, <2>2, <3>4, EntersCall, GoesOnCall
    <3>5. CASE call'[w] = NoCall
      <4>1. call[w].op # "none" /\ call'[w].op = "none"
        BY <2>2, <3>5 DEF NoCall
      <4>2. CallFits(call[w])
        BY <1>1 DEF WInv, CallsFit
      <4>3. methodState[c] \in Compiled
        BY <1>1, <2>2, <4>1, <4>2, Returns DEF CallFits, Compiled
      <4> QED
        BY <4>3, StateGrows
    <3> QED
      BY <1>1, <3>1, <3>2, <3>3, <3>4, <3>5, CallKinds
  <2> QED
    BY <1>2, <2>1, <2>2 DEF OwnedCompiled
<1>3. CASE owner[c] # w
  <2>1. PICK v \in Workers : MakeExecutable(v)
    BY <1>3, OwnerSteps
  <2>2. /\ owner' = [owner EXCEPT ![Cctor(v)] = v]
        /\ \E p : Begin(v, "synch", Cctor(v), p)
    BY <1>3, <2>1 DEF MakeExecutable, StaticMemory!TakeInitializationLock
  <2>3. v = w /\ Cctor(v) = c
    BY <1>3, <2>2 DEF IInv, StaticMemory!SMTypeOK
  <2> QED
    BY <1>1, <2>2, <2>3 DEF Begin
<1> QED
  BY <1>2, <1>3

LEMMA DoneGrows ==
    ASSUME [Next]_vars PROVE executionDone \subseteq executionDone'
<1>1. ASSUME NEW a \in Threads, InsertMethod(a)
      PROVE  UNCHANGED executionDone
  BY <1>1, InsertRunsNothing
<1>2. ASSUME NEW w \in Workers, Translate(w)
      PROVE  UNCHANGED executionDone
  BY <1>2 DEF Translate, Take, PutInNextStage, EndJob, TranslateToIR, NotifyIR,
     FindCallees, InsertCallee, EndDLA, Optimize, Reschedule, GenerateMachineCode,
     NotifyMachineCode, staticVars
<1>3. ASSUME NEW w \in Workers, RunCctors(w)
      PROVE  executionDone \subseteq executionDone'
  BY <1>3 DEF RunCctors, StartCctorJob, CheckCctors, MakeExecutable, CallCctor, RegisterRunner,
     UnregisterRunner, EndOfCctor, DeclareWaiting, EndOfWait, UndeclareWaiting, staticVars,
     StaticMemory!EndExecution
<1>4. ASSUME NEW w \in Workers, Complete(w)
      PROVE  UNCHANGED executionDone
  BY <1>4 DEF Complete, LinkMethod, UnregisterMethod, Publish, NotifyCompilationEnd,
     DestroyTicket, RemoveTicket, EndCctorJob, staticVars
<1>5. CASE Schedule \/ Reap \/ (\E r \in Requests : Request(r)) \/ UNCHANGED vars
  BY <1>5 DEF Schedule, TakeScheduled, InsertCallee, EndScheduled, Reap, ReaperWakesUp,
     KillCctorThreads, Request, staticVars, vars
<1> QED
  BY <1>1, <1>2, <1>3, <1>4, <1>5 DEF Next, Step, Worker

LEMMA CctorBegins ==
    ASSUME IInv, OwnedCompiled, [Next]_vars, NEW w \in CctorWorkers,
           step[w] = "call", step'[w] = "register"
    PROVE  /\ Cctor(w) \notin inExecution \cup executionDone
           /\ owner[Cctor(w)] = w
           /\ methodState[Cctor(w)] \in {"MACHINE_CODE", "EXECUTABLE"}
<1>1. w \in Workers /\ w \in Threads /\ Cctor(w) \in Methods /\ step \in [Workers -> Steps]
  BY WorkerShape, CctorIn DEF LoopSteps, Working, IInv, TypeWorkers
<1>2. Worker(w) /\ ~InsertCallee(w)
  BY <1>1, WhoSteps, CallsOnlySteps DEF CallsOnly
<1>3. ~Translate(w)
  BY <1>2 DEF Translate, Take, FirstIdle, PutInNextStage, TranslateToIR, NotifyIR,
     FindCallees, EndDLA, Optimize, Reschedule, GenerateMachineCode, NotifyMachineCode, At
<1>4. CallCctor(w)
  BY <1>2, <1>3 DEF Worker, RunCctors, StartCctorJob, CheckCctors, MakeExecutable,
     RegisterRunner, UnregisterRunner, EndOfCctor, DeclareWaiting, EndOfWait,
     UndeclareWaiting, Complete, LinkMethod, UnregisterMethod, Publish,
     NotifyCompilationEnd, DestroyTicket, RemoveTicket, EndCctorJob, CctorStep, At
<1>5. ~StaticMemory!ExecutionIsDone(Cctor(w)) /\ StaticMemory!MayExecute(Cctor(w), w)
  <2>1. ASSUME NextCctor(w, "call", "link") PROVE FALSE
    BY <1>1, <2>1 DEF NextCctor
  <2>2. ~GoOn(w, "declare")
    BY <1>1 DEF GoOn
  <2> QED
    BY <1>4, <2>1, <2>2 DEF CallCctor
<1>6. /\ Cctor(w) \notin inExecution \cup executionDone /\ owner[Cctor(w)] = w
  BY <1>5 DEF StaticMemory!ExecutionIsDone, StaticMemory!MayExecute
<1>7. call[w].op = "none"
  BY <1>1, <1>4 DEF CallCctor, CctorStep, Idle, IInv, CallsOK, CallOK
<1> QED
  BY <1>1, <1>6, <1>7 DEF OwnedCompiled, Compiled

(* A cctor runs at most once, in its owner, with its machine code there.   *)
THEOREM CctorAlwaysRunsOnce == Spec /\ []InsertionsFresh /\ []SignalsFresh => CctorRunsOnce
<1>1. Init => OwnedCompiled
  <2>1. \A w \in Workers : w # None
    BY WorkerShape, MethodIsNotNone, NamesAssumption DEF Threads
  <2> QED
    BY <2>1 DEF Init, StaticMemory!SMInit, OwnedCompiled
<1>2. IInv /\ HInv /\ WInv /\ OwnedCompiled /\ [Next]_vars => OwnedCompiled'
  BY OwnedCompiledStep DEF HInv
<1>3. IInv /\ OwnedCompiled /\ [Next]_vars =>
        [/\ executionDone \subseteq executionDone'
         /\ \A w \in CctorWorkers : step[w] = "call" /\ step'[w] = "register" =>
              /\ Cctor(w) \notin inExecution \cup executionDone
              /\ owner[Cctor(w)] = w
              /\ methodState[Cctor(w)] \in {"MACHINE_CODE", "EXECUTABLE"}]_vars
  BY DoneGrows, CctorBegins
<1> QED
  BY <1>1, <1>2, <1>3, Invariance, HistoryInvariance, WaitersInvariance, PTL
  DEF Spec, CctorRunsOnce

-----------------------------------------------------------------------------
(* Programs in which nothing is stale: a compiler that compiles on demand, *)
(* and a program without static constructors.                              *)

(* Methods are only inserted by threads that wait for them.                *)
OnDemand ==
    /\ Mode \in {"plain", "jit"}
    /\ \A r \in Requests : r.op \in {"synch", "waitEmpty"}

NobodyAhead ==
    /\ \A a \in Threads : todo[a] = {} /\ call[a].op \notin {"async", "tillIR"}
    /\ dlaMethods = {}
    /\ Mode = "plain" => /\ \A t \in Tickets : inPipe[t] # "dla"
                         /\ \A w \in Workers : w[1] = "dla" => step[w] = "idle"

LEMMA CalleesSteps ==
    ASSUME [Next]_vars
    PROVE  \/ UNCHANGED <<todo, dlaMethods>>
           \/ TakeScheduled \/ EndScheduled
           \/ \E a \in Threads : InsertCallee(a)
           \/ \E w \in Workers : FindCallees(w) \/ EndDLA(w) \/ DestroyTicket(w)
<1>1. ASSUME NEW a \in Threads, InsertMethod(a)
      PROVE  UNCHANGED <<todo, dlaMethods>>
  <2>1. CASE EnterInsert(a) \/ EnterSynch(a) \/ GoToSleep(a) \/ WakeUp(a) \/ LinkWaited(a)
             \/ WaitEmptyPipeline(a)
    BY <2>1 DEF EnterInsert, EnterSynch, GoToSleep, WakeUp, LinkWaited, WaitEmptyPipeline,
                ticketVars
  <2>2. CASE JoinTicket(a) \/ ChangePriority(a) \/ SendToScheduler(a) \/ InsertNew(a)
    <3>1. UNCHANGED <<todo, dlaMethods>>
      BY <2>2 DEF JoinTicket, ChangePriority, SendToScheduler, InsertNew, ticketVars
    <3> QED
      BY <3>1
  <2> QED
    BY <1>1, <2>1, <2>2 DEF InsertMethod
<1>2. ASSUME NEW w \in Workers, Translate(w), ~FindCallees(w), ~EndDLA(w), ~InsertCallee(w)
      PROVE  UNCHANGED <<todo, dlaMethods>>
  BY <1>2 DEF Translate, Take, PutInNextStage, EndJob, TranslateToIR, NotifyIR,
     Optimize, Reschedule, GenerateMachineCode, NotifyMachineCode, OnlyStep, ticketVars
<1>3. ASSUME NEW w \in Workers, RunCctors(w)
      PROVE  UNCHANGED <<todo, dlaMethods>>
  BY <1>3 DEF RunCctors, StartCctorJob, CheckCctors, MakeExecutable, CallCctor, RegisterRunner,
     UnregisterRunner, EndOfCctor, DeclareWaiting, EndOfWait, UndeclareWaiting,
     OnlyCctorStep, ticketVars
<1>4. ASSUME NEW w \in Workers, Complete(w), ~DestroyTicket(w)
      PROVE  UNCHANGED <<todo, dlaMethods>>
  BY <1>4 DEF Complete, LinkMethod, UnregisterMethod, Publish, NotifyCompilationEnd,
     EndCctorJob, OnlyCctorStep, ticketVars
<1>5. CASE Reap \/ (\E r \in Requests : Request(r)) \/ UNCHANGED vars
  BY <1>5 DEF Reap, ReaperWakesUp, KillCctorThreads, Request, ticketVars, vars
<1>6. Scheduler \in Threads /\ \A w \in Workers : w \in Threads
  BY DEF Threads
<1> QED
  BY <1>1, <1>2, <1>3, <1>4, <1>5, <1>6 DEF Next, Step, Worker, Schedule

(* Without DLA nothing comes to its stage.                                 *)
LEMMA NoDLAStep ==
    ASSUME IInv, NobodyAhead, [Next]_vars, Mode = "plain"
    PROVE  /\ \A t \in Tickets : inPipe'[t] # "dla"
           /\ \A w \in Workers : w[1] = "dla" => step'[w] = "idle"
<1>1. ASSUME NEW t \in Tickets PROVE inPipe'[t] # "dla"
  <2>1. inPipe[t] # "dla"
    BY DEF NobodyAhead
  <2>2. ASSUME NEW w \in Workers, PutInNextStage(w) \/ Reschedule(w) PROVE inPipe'[t] # "dla"
    <3>1. PICK s \in Stages : EndJob(w, s) /\ s # "dla"
      <4>1. CASE PutInNextStage(w)
        BY <4>1, StageOfStep, WorkerShape DEF PutInNextStage, NextStage, HasDLA, Stages
      <4>2. CASE Reschedule(w)
        BY <4>2 DEF Reschedule, Stages
      <4> QED
        BY <2>2, <4>1, <4>2
    <3> QED
      BY <2>1, <3>1 DEF EndJob, PutToPipe, IInv, TypeTickets
  <2>3. ASSUME NEW w \in Workers, Take(w) PROVE inPipe'[t] # "dla"
    BY <2>1, <2>3, MethodIsNotNone, NamesAssumption DEF Take, IInv, TypeTickets, Stages
  <2>4. ASSUME NEW a \in Threads, InsertNew(a) PROVE inPipe'[t] # "dla"
    <3>1. PICK u \in Tickets : inPipe' = [inPipe EXCEPT ![u] = FirstStage(call[a].state)]
      BY <2>4, InsertNewParts
    <3>2. call[a].state \in {"CIL", "IR", "MACHINE_CODE"}
      <4>1. /\ CallOK(call[a]) /\ call[a] \in Calls
            /\ call[a].op \in {"synch", "machineCode", "none", "waitEmpty"}
        BY DEF NobodyAhead, IInv, CallsOK, Calls, Operations
      <4> QED
        BY <2>4, <4>1 DEF CallOK, InsertNew, Holds, Calls, States
    <3> QED
      BY <2>1, <3>1, <3>2 DEF FirstStage, IInv, TypeTickets
  <2> QED
    BY <2>1, <2>2, <2>3, <2>4, StepKinds, DestroyParts, EndScheduledParts
    DEF CallsOnly, MovesOn, Advances, SameRecords, EndCctorJob, ticketVars
<1>2. ASSUME NEW w \in Workers, w[1] = "dla" PROVE step'[w] = "idle"
  <2>1. step[w] = "idle"
    BY <1>2 DEF NobodyAhead
  <2>2. ASSUME step'[w] # step[w] PROVE FALSE
    <3>1. Worker(w) /\ ~InsertCallee(w)
      BY <2>2, WhoSteps, WorkerShape, CallsOnlySteps DEF CallsOnly
    <3>2. Take(w)
      BY <1>2, <2>1, <3>1 DEF Worker, RunCctors, StartCctorJob, CheckCctors, MakeExecutable,
         CallCctor, RegisterRunner, UnregisterRunner, EndOfCctor, DeclareWaiting, EndOfWait,
         UndeclareWaiting, Complete, LinkMethod, UnregisterMethod, Publish,
         NotifyCompilationEnd, DestroyTicket, RemoveTicket, EndCctorJob, CctorStep, At,
         Translate, PutInNextStage, TranslateToIR, NotifyIR, FindCallees, EndDLA, Optimize,
         Reschedule, GenerateMachineCode, NotifyMachineCode
    <3>3. PICK t \in queue[<<"dla", w[2]>>] : TRUE
      BY <1>2, <3>2 DEF Take
    <3>4. t \in Tickets /\ inPipe[t] = "dla"
      BY <3>3, WorkerShape DEF IInv, TypeTickets, Queued, Stages
    <3> QED
      BY <3>4 DEF NobodyAhead
  <2> QED
    BY <2>1, <2>2
<1> QED
  BY <1>1, <1>2

LEMMA NobodyAheadStep ==
    ASSUME OnDemand, IInv, NobodyAhead, [Next]_vars PROVE NobodyAhead'
<1>1. /\ todo \in [Threads -> SUBSET Methods] /\ Scheduler \in Threads
      /\ \A w \in Workers : w \in Threads
  BY DEF Threads, IInv, TypeWorkers
<1>2. \A a \in Threads : ~InsertCallee(a)
  BY DEF NobodyAhead, InsertCallee
<1>3. UNCHANGED todo /\ dlaMethods' = {}
  <2>1. CASE TakeScheduled
    BY <1>1, <2>1 DEF TakeScheduled, NobodyAhead, ticketVars
  <2>2. CASE EndScheduled
    BY <2>2 DEF EndScheduled, Free, NobodyAhead
  <2>3. ASSUME NEW w \in Workers, FindCallees(w) PROVE UNCHANGED todo /\ dlaMethods' = {}
    BY <2>3 DEF OnDemand, FindCallees, At, NobodyAhead, ticketVars
  <2>4. ASSUME NEW w \in Workers, EndDLA(w) PROVE UNCHANGED todo /\ dlaMethods' = {}
    BY <2>4 DEF OnDemand, EndDLA, NobodyAhead
  <2>5. ASSUME NEW w \in Workers, DestroyTicket(w) PROVE UNCHANGED todo /\ dlaMethods' = {}
    BY <2>5 DEF DestroyTicket, RemoveTicket, Free, NobodyAhead
  <2> QED
    BY <1>2, <2>1, <2>2, <2>3, <2>4, <2>5, CalleesSteps DEF NobodyAhead
<1>4. ASSUME NEW a \in Threads PROVE call'[a].op \notin {"async", "tillIR"}
  <2>1. call[a] \in Calls /\ call[a].op \notin {"async", "tillIR"} /\ call \in [Threads -> Calls]
    BY DEF NobodyAhead, IInv, CallsOK
  <2>2. CASE call'[a] = call[a]
    BY <2>1, <2>2
  <2>3. CASE InsertMethod(a)
    BY <2>1, <2>3, EntersCall, GoesOnCall DEF Continues, NoCall
  <2>4. CASE Woken(a)
    <3>1. Continues(a, call[a], {"signalled"})
      BY <2>1, <2>4, PcCall DEF Woken
    <3> QED
      BY <2>1, <3>1 DEF Continues
  <2>5. CASE Begins(a)
    BY <1>2, <2>5 DEF Begins, OnDemand
  <2> QED
    BY <2>2, <2>3, <2>4, <2>5, CallKinds
<1> QED
  BY <1>3, <1>4, NoDLAStep DEF NobodyAhead

(* A compiler on demand inserts no method in a state that it is in no      *)
(* longer, whichever stages it has and whatever the threads interleave.    *)
THEOREM OnDemandIsFresh == OnDemand => (Spec => []InsertionsFresh)
<1> SUFFICES ASSUME OnDemand PROVE Spec => []InsertionsFresh
  OBVIOUS
<1>1. Init => NobodyAhead
  <2> SUFFICES ASSUME Init PROVE NobodyAhead
    OBVIOUS
  <2>1. ASSUME NEW a \in Threads PROVE todo[a] = {} /\ call[a].op \notin {"async", "tillIR"}
    <3>1. todo[a] = {} /\ call[a] = NoCall
      BY DEF Init
    <3> QED
      BY <3>1 DEF NoCall
  <2>2. \A t \in Tickets : inPipe[t] # "dla"
    BY NamesAssumption DEF Init, Stages
  <2>3. dlaMethods = {} /\ \A w \in Workers : step[w] = "idle"
    BY DEF Init
  <2> QED
    BY <2>1, <2>2, <2>3 DEF NobodyAhead
<1>2. IInv /\ NobodyAhead /\ [Next]_vars => NobodyAhead'
  BY NobodyAheadStep
<1>3. NobodyAhead => InsertionsFresh
  BY DEF NobodyAhead, InsertionsFresh
<1> QED
  BY <1>1, <1>2, <1>3, Invariance, PTL DEF Spec

(* With it, the theorems above hold of every run of such a compiler.       *)
THEOREM OnDemandFits ==
    OnDemand => (Spec => []StageFitsState /\ []NoTicketLeaks /\ [][StatesAdvance]_vars)
<1> SUFFICES ASSUME OnDemand PROVE Spec => []StageFitsState /\ []NoTicketLeaks /\ [][StatesAdvance]_vars
  OBVIOUS
<1>1. Spec => []InsertionsFresh
  BY OnDemandIsFresh
<1> QED
  BY <1>1, StageAlwaysFitsState, NoTicketEverLeaks, StatesAlwaysAdvance, PTL

-----------------------------------------------------------------------------
NoCctors == \A m \in Methods : CctorsToCall[m] = <<>>

NobodyLinks ==
    /\ \A a \in Threads : call[a].op # "machineCode" /\ call[a].pc # "link"
    /\ \A t \in Tickets : mcNotify[t] = {}

LEMMA NobodyLinksStep ==
    ASSUME NoCctors, IInv, NobodyLinks, [Next]_vars PROVE NobodyLinks'
<1>1. ASSUME NEW a \in Threads
      PROVE  call'[a].op # "machineCode" /\ call'[a].pc # "link"
  <2>1. /\ call[a] \in Calls /\ call[a].op # "machineCode" /\ call[a].pc # "link"
    BY DEF NobodyLinks, IInv, CallsOK
  <2>2. CASE call'[a] = call[a]
    BY <2>1, <2>2
  <2>3. CASE InsertMethod(a)
    <3>1. call'[a].op # "machineCode"
      <4>1. CASE EnterSynch(a)
        <5>1. ~IsCctorThread(a)
          <6>1. ASSUME a \in CctorWorkers PROVE FALSE
            <7>1. step[a] \in {"make", "call"}
              BY <4>1, <6>1 DEF EnterSynch, Idle, IInv, WorkersCall
            <7>2. index[a] \in 1 .. Len(Cctors(a)) /\ method[hand[a]] \in Methods
              BY <6>1, <7>1, CctorIn, WorkerShape, HandInPlace DEF LoopSteps, Working
            <7>3. Len(Cctors(a)) = 0
              BY <7>2 DEF NoCctors, Cctors
            <7> QED
              BY <7>2, <7>3
          <6> QED
            BY <6>1 DEF IsCctorThread
        <5>2. call \in [Threads -> Calls]
          BY DEF IInv, CallsOK
        <5>3. CASE methodState[call[a].method] = "EXECUTABLE"
          BY <4>1, <5>2, <5>3 DEF EnterSynch, Return, NoCall
        <5>4. CASE methodState[call[a].method] # "EXECUTABLE"
          <6> DEFINE s == methodState[call[a].method]
          <6>1. call' = [call EXCEPT ![a].pc = "insert", ![a].state = s, ![a].op = "synch"]
            BY <4>1, <5>1, <5>4 DEF EnterSynch
          <6>2. call'[a] = [call[a] EXCEPT !.pc = "insert", !.op = "synch", !.state = s]
            BY <2>1, <5>2, <6>1 DEF Calls
          <6> HIDE DEF s
          <6>3. call'[a].op = "synch"
            BY <2>1, <6>2, ReadCall
          <6> QED
            BY <6>3
        <5> QED
          BY <5>3, <5>4
      <4>2. CASE EnterInsert(a)
        <5>1. call \in [Threads -> Calls]
          BY DEF IInv, CallsOK
        <5>2. call'[a] = [call[a] EXCEPT !.pc = "insert"]
          BY <4>2, <5>1 DEF EnterInsert
        <5> QED
          BY <2>1, <5>2, SameCall
      <4>3. CASE ~EnterInsert(a) /\ ~EnterSynch(a)
        BY <2>1, <2>3, <4>3, GoesOnCall DEF NoCall
      <4> QED
        BY <4>1, <4>2, <4>3
    <3> QED
      BY <2>3, <3>1, LinkCall
  <2>4. CASE Begins(a)
    BY <2>4 DEF Begins, Starts, Operations
  <2>5. CASE Woken(a)
    <3>1. Continues(a, call[a], {"signalled"})
      BY <2>1, <2>5, PcCall DEF Woken
    <3> QED
      BY <2>1, <3>1 DEF Continues
  <2> QED
    BY <2>2, <2>3, <2>4, <2>5, CallKinds
<1>2. \A t \in Tickets : mcNotify'[t] = {}
  <2>1. mcNotify \in [Tickets -> SUBSET Threads]
    BY DEF IInv, TypeTickets
  <2>2. ASSUME NEW a \in Threads, JoinTicket(a) PROVE UNCHANGED mcNotify
    BY <2>1, <2>2 DEF JoinTicket, NobodyLinks
  <2>3. ASSUME NEW a \in Threads, InsertNew(a) PROVE UNCHANGED mcNotify
    BY <2>3 DEF InsertNew
  <2>4. ASSUME NEW t \in Tickets, FreedOrKept(t) PROVE \A u \in Tickets : mcNotify'[u] = {}
    BY <2>1, <2>4 DEF FreedOrKept, Free, NobodyLinks
  <2> QED
    BY <2>2, <2>3, <2>4, ListSteps, DestroyParts, EndScheduledParts, HandInPlace DEF NobodyLinks
<1> QED
  BY <1>1, <1>2 DEF NobodyLinks

LEMMA AllocatedKeep ==
    ASSUME IInv, [Next]_vars, NEW t \in allocated, t \in allocated'
    PROVE  method'[t] = method[t]
<1>1. t \in Tickets
  BY DEF IInv, TypeTickets
<1>2. ASSUME NEW u \in Tickets, FreedOrKept(u) PROVE method'[t] = method[t]
  BY <1>1, <1>2 DEF FreedOrKept, Free, IInv, TypeTickets
<1>3. ASSUME NEW a \in Threads, InsertNew(a) PROVE method'[t] = method[t]
  BY <1>1, <1>3, InsertNewParts DEF IInv, TypeTickets
<1> QED
  BY <1>2, <1>3, StepKinds, DestroyParts, EndScheduledParts, HandInPlace
  DEF CallsOnly, MovesOn, Advances, SameRecords, Take, PutInNextStage, Reschedule, EndJob,
      EndCctorJob, ticketVars

LEMMA TrampolineSteps ==
    ASSUME [Next]_vars
    PROVE  \/ trampolinesSet' \subseteq trampolinesSet
           \/ \E a \in Threads : LinkWaited(a)
           \/ \E w \in Workers : LinkMethod(w)
<1>1. ASSUME NEW a \in Threads, InsertMethod(a), ~LinkWaited(a)
      PROVE  trampolinesSet' \subseteq trampolinesSet
  <2>1. CASE EnterInsert(a) \/ EnterSynch(a) \/ GoToSleep(a) \/ WakeUp(a)
             \/ WaitEmptyPipeline(a)
    BY <2>1 DEF EnterInsert, EnterSynch, GoToSleep, WakeUp, WaitEmptyPipeline, ticketVars
  <2>2. CASE JoinTicket(a) \/ ChangePriority(a) \/ SendToScheduler(a) \/ InsertNew(a)
    <3>1. UNCHANGED trampolinesSet \/ \E t \in Tickets : trampolinesSet' = trampolinesSet \ {t}
      BY <2>2 DEF JoinTicket, ChangePriority, SendToScheduler, InsertNew, ticketVars
    <3> QED
      BY <3>1
  <2> QED
    BY <1>1, <2>1, <2>2 DEF InsertMethod
<1>2. ASSUME NEW w \in Workers, Translate(w)
      PROVE  trampolinesSet' \subseteq trampolinesSet
  BY <1>2 DEF Translate, Take, PutInNextStage, EndJob, TranslateToIR, NotifyIR,
     FindCallees, InsertCallee, EndDLA, Optimize, Reschedule, GenerateMachineCode,
     NotifyMachineCode, OnlyStep, ticketVars
<1>3. ASSUME NEW w \in Workers, RunCctors(w)
      PROVE  trampolinesSet' \subseteq trampolinesSet
  BY <1>3 DEF RunCctors, StartCctorJob, CheckCctors, MakeExecutable, CallCctor, RegisterRunner,
     UnregisterRunner, EndOfCctor, DeclareWaiting, EndOfWait, UndeclareWaiting,
     OnlyCctorStep, ticketVars
<1>4. ASSUME NEW w \in Workers, Complete(w), ~LinkMethod(w)
      PROVE  trampolinesSet' \subseteq trampolinesSet
  BY <1>4 DEF Complete, UnregisterMethod, Publish, NotifyCompilationEnd, DestroyTicket,
     RemoveTicket, Free, EndCctorJob, OnlyCctorStep, ticketVars
<1>5. CASE Schedule \/ Reap \/ (\E r \in Requests : Request(r)) \/ UNCHANGED vars
  BY <1>5 DEF Schedule, TakeScheduled, InsertCallee, EndScheduled, Free, Reap, ReaperWakesUp,
     KillCctorThreads, Request, ticketVars, vars
<1> QED
  BY <1>1, <1>2, <1>3, <1>4, <1>5 DEF Next, Step, Worker

LEMMA NewIsUnset ==
    ASSUME IInv, [Next]_vars, NEW t \in allocated', t \notin allocated
    PROVE  t \notin trampolinesSet'
<1>1. ASSUME NEW a \in Threads, InsertNew(a) PROVE t \notin trampolinesSet'
  <2>1. PICK u \in Tickets : /\ allocated' = allocated \cup {u}
                             /\ trampolinesSet' = trampolinesSet \ {u}
    BY <1>1 DEF InsertNew
  <2> QED
    BY <2>1
<1>2. ASSUME NEW u \in Tickets, FreedOrKept(u) PROVE FALSE
  BY <1>2 DEF FreedOrKept, Free
<1> QED
  BY <1>1, <1>2, StepKinds, DestroyParts, EndScheduledParts, HandInPlace
  DEF CallsOnly, MovesOn, Advances, SameRecords, Take, PutInNextStage, Reschedule, EndJob,
      EndCctorJob, ticketVars

LEMMA TrampolinesStep ==
    ASSUME IInv, NobodyLinks, TrampolinesAreSet, [Next]_vars PROVE TrampolinesAreSet'
<1> SUFFICES ASSUME NEW t \in allocated', t \in trampolinesSet'
             PROVE  method'[t] \in linked'
  BY DEF TrampolinesAreSet
<1>1. t \in allocated
  BY NewIsUnset
<1>2. method'[t] = method[t]
  BY <1>1, AllocatedKeep
<1>3. CASE t \in trampolinesSet
  BY <1>1, <1>2, <1>3, LinkedGrows DEF TrampolinesAreSet
<1>4. CASE t \notin trampolinesSet
  <2>1. PICK w \in Workers : LinkMethod(w)
    BY <1>4, TrampolineSteps DEF LinkWaited, Holds, NobodyLinks
  <2>2. t = hand[w]
    BY <1>4, <2>1 DEF LinkMethod
  <2> QED
    BY <1>2, <1>4, <2>1, <2>2 DEF LinkMethod
<1> QED
  BY <1>3, <1>4

(* Only cctors make a thread wait for machine code, and only such a thread *)
(* is woken by a stale notification or links a method by a stale ticket.   *)
THEOREM NoCctorsIsFresh ==
    NoCctors => (Spec => []SignalsFresh /\ []TrampolinesAreSet)
<1> SUFFICES ASSUME NoCctors PROVE Spec => []SignalsFresh /\ []TrampolinesAreSet
  OBVIOUS
<1>1. Init => NobodyLinks /\ TrampolinesAreSet
  BY DEF Init, NobodyLinks, TrampolinesAreSet, NoCall
<1>2. IInv /\ NobodyLinks /\ TrampolinesAreSet /\ [Next]_vars
        => NobodyLinks' /\ TrampolinesAreSet'
  BY NobodyLinksStep, TrampolinesStep
<1>3. IInv /\ NobodyLinks => SignalsFresh
  <2> SUFFICES ASSUME IInv, NobodyLinks, NEW w \in Workers, step[w] = "mcNotify"
               PROVE  mcNotify[hand[w]] = {}
    BY DEF SignalsFresh
  <2> QED
    BY HandInPlace DEF Working, NobodyLinks
<1> QED
  BY <1>1, <1>2, <1>3, Invariance, PTL DEF Spec

(* Without cctors an executable method is linked, in every run.            *)
THEOREM NoCctorsLinked == NoCctors => (Spec => []ExecutableIsLinked)
<1> SUFFICES ASSUME NoCctors PROVE Spec => []ExecutableIsLinked
  OBVIOUS
<1>1. Spec => []TrampolinesAreSet
  BY NoCctorsIsFresh
<1> QED
  BY <1>1, ExecutableAlwaysLinked, PTL

(* On demand and without cctors, a call comes back with its method         *)
(* compiled, in every run.                                                 *)
THEOREM NoCctorsCompiledOnReturn == OnDemand /\ NoCctors => (Spec => CompiledOnReturn)
<1> SUFFICES ASSUME OnDemand, NoCctors PROVE Spec => CompiledOnReturn
  OBVIOUS
<1>1. Spec => []InsertionsFresh
  BY OnDemandIsFresh
<1>2. Spec => []SignalsFresh
  BY NoCctorsIsFresh
<1> QED
  BY <1>1, <1>2, AlwaysCompiledOnReturn, PTL
=============================================================================
