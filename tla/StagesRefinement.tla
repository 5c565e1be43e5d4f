--------------------------- MODULE StagesRefinement ---------------------------
(***************************************************************************)
(* Each stage of the translation pipeline, as the pipeline uses it, is an  *)
(* AbstractStage, for any program, requests and number of threads.  A      *)
(* ticket is put in a stage only when it is nowhere in it; the workers     *)
(* that have a ticket are never more than the threads of their class, also *)
(* while cctor threads are started and killed; a ticket leaves through the *)
(* worker that has it.  PipeStageProofs shows the same of the worker sets: *)
(* so the pipeline and the worker sets agree on what a stage is.           *)
(***************************************************************************)
EXTENDS MethodHistoryProofs
-----------------------------------------------------------------------------
(* What a stage is in the pipeline.                                        *)

WorkersOf(s, h) == {w \in Workers : w[1] = s /\ w[2] = h /\ Working(w)}
Capacity(s)     == IF s = "cctor" THEN cctorThreads ELSE 1

QueueOf(s)    == [h \in Classes |-> queue[<<s, h>>]]
HandOf(s)     == [h \in Classes |-> {hand[w] : w \in WorkersOf(s, h)}]
CapacityOf(s) == [h \in Classes |-> Capacity(s)]

Stage(s) == INSTANCE AbstractStage
              WITH queue <- QueueOf(s), hand <- HandOf(s), capacity <- CapacityOf(s)

Refines(s) == [Stage(s)!Next]_(Stage(s)!vars)
Same(s)    == UNCHANGED <<QueueOf(s), HandOf(s), CapacityOf(s)>>

(* Both modules have the same classes, and count alike.                    *)
LEMMA StageClasses == ASSUME NEW s \in Stages PROVE Stage(s)!Classes = Classes
BY DEF Stage!Classes, Classes

LEMMA StageCounts ==
    ASSUME NEW s \in Stages, NEW S PROVE Stage(s)!Cardinality(S) = Cardinality(S)
BY DEF Stage!Cardinality, Cardinality

(* A step that the stage does not see.                                     *)
LEMMA SameRefines == ASSUME NEW s \in Stages, Same(s) PROVE Refines(s)
BY DEF Same, Refines, Stage!vars

LEMMA CapacityKept ==
    ASSUME NEW s \in Stages, UNCHANGED cctorThreads PROVE CapacityOf(s)' = CapacityOf(s)
BY DEF CapacityOf, Capacity

(* A step that only other stages see.                                      *)
LEMMA HandsKept ==
    ASSUME NEW s \in Stages,
           \A w \in Workers : w[1] = s =>
               /\ Working(w)' <=> Working(w)
               /\ Working(w) => hand'[w] = hand[w]
    PROVE  HandOf(s)' = HandOf(s)
<1>1. ASSUME NEW h \in Classes PROVE HandOf(s)'[h] = HandOf(s)[h]
  BY DEF HandOf, WorkersOf
<1> QED
  BY <1>1 DEF HandOf

-----------------------------------------------------------------------------
(* How many tickets are in the hands of a class.                           *)

(* Each ticket of T is in the hand of a worker of the class with a number  *)
(* in K; f says what the workers have.                                     *)
HeldBy(T, f, s, h, K) ==
    \A t \in T : \E w \in Workers : f[w] = t /\ w[1] = s /\ w[2] = h /\ w[3] \in K

(* So they are not more than these numbers.                                *)
LEMMA HandsFit ==
    ASSUME NEW s, NEW h, NEW K, IsFiniteSet(K), NEW f, NEW T, HeldBy(T, f, s, h, K)
    PROVE  Cardinality(T) \in Nat /\ Cardinality(T) <= Cardinality(K)
<1> DEFINE Has(w, t) == f[w] = t /\ w[1] = s /\ w[2] = h /\ w[3] \in K
           worker(t) == CHOOSE w \in Workers : Has(w, t)
           number == [t \in T |-> worker(t)[3]]
<1>1. \A t \in T : worker(t) \in Workers /\ Has(worker(t), t)
  BY DEF HeldBy
<1>2. ASSUME NEW t \in T, NEW u \in T, number[t] = number[u] PROVE t = u
  <2> DEFINE v == worker(t)
             w == worker(u)
  <2>1. /\ v \in Workers /\ v[1] = s /\ v[2] = h /\ f[v] = t
        /\ w \in Workers /\ w[1] = s /\ w[2] = h /\ f[w] = u
        /\ v[3] = w[3]
    BY <1>1, <1>2
  <2> HIDE DEF v, w
  <2>2. v = <<v[1], v[2], v[3]>> /\ w = <<w[1], w[2], w[3]>>
    BY <2>1, WorkerShape
  <2> QED
    BY <2>1, <2>2
<1>3. number \in [T -> K]
  BY <1>1
<1> HIDE DEF number
<1>4. number \in Injection(T, K)
  BY <1>2, <1>3 DEF Injection, IsInjective
<1>5. IsFiniteSet(T) /\ Cardinality(T) <= Cardinality(K)
  BY <1>4, FS_Injection
<1> QED
  BY <1>5, FS_CardinalityType

(* No more than the class has threads.                                     *)
LEMMA HandsInCapacity ==
    ASSUME NEW s, NEW h, NEW n \in Nat, NEW f, NEW T, HeldBy(T, f, s, h, 1 .. n)
    PROVE  Cardinality(T) \in Nat /\ Cardinality(T) <= n
<1>1. IsFiniteSet(1 .. n) /\ Cardinality(1 .. n) = n
  BY FS_Interval
<1>2. Cardinality(T) \in Nat /\ Cardinality(T) <= Cardinality(1 .. n)
  BY <1>1, HandsFit
<1> QED
  BY <1>1, <1>2

(* A free thread is room for one more.                                     *)
LEMMA FreeThreadIsRoom ==
    ASSUME IInv, NEW w \in Workers, Started(w), ~Working(w)
    PROVE  Cardinality(HandOf(w[1])[w[2]]) < Capacity(w[1])
<1> DEFINE n == Capacity(w[1])
           B == WorkersOf(w[1], w[2])
           K == (1 .. n) \ {w[3]}
<1>1. w[1] \in Stages /\ w[2] \in Classes /\ n \in Nat
  BY WorkerShape, NumbersAssumption DEF IInv, TypeCctor, Capacity
<1>2. w[3] \in 1 .. n
  BY <1>1, WorkerShape DEF Started, Capacity
<1>3. IsFiniteSet(1 .. n) /\ Cardinality(1 .. n) = n
  BY <1>1, FS_Interval
<1>4. IsFiniteSet(K) /\ Cardinality(K) = n - 1
  <2> DEFINE I == 1 .. n
  <2>1. IsFiniteSet(I) /\ Cardinality(I) = n /\ w[3] \in I /\ K = I \ {w[3]}
    BY <1>2, <1>3
  <2> HIDE DEF n, I, K
  <2> QED
    BY <2>1, FS_RemoveElement
<1>5. ASSUME NEW v \in B
      PROVE  v \in Workers /\ v[1] = w[1] /\ v[2] = w[2] /\ v[3] \in K
  <2>1. v \in Workers /\ v[1] = w[1] /\ v[2] = w[2] /\ Working(v) /\ v # w
    BY DEF WorkersOf
  <2>2. v = <<v[1], v[2], v[3]>> /\ w = <<w[1], w[2], w[3]>> /\ v[3] \in Nat \ {0}
    BY <2>1, WorkerShape
  <2>3. v[3] # w[3]
    BY <2>1, <2>2
  <2>4. Started(v)
    BY <2>1 DEF IInv, StepsAgree, Working
  <2>5. v[3] <= n
    BY <2>1, <2>4 DEF Started, Capacity
  <2> QED
    BY <1>1, <2>1, <2>2, <2>3, <2>5
<1> DEFINE T == HandOf(w[1])[w[2]]
<1>6. HeldBy(T, hand, w[1], w[2], K)
  <2> HIDE DEF K
  <2> QED
    BY <1>1, <1>5 DEF HandOf, HeldBy
<1> HIDE DEF K, B, T, n
<1>7. Cardinality(T) \in Nat /\ Cardinality(T) <= Cardinality(K)
  BY <1>4, <1>6, HandsFit
<1>8. Cardinality(T) < n
  BY <1>1, <1>4, <1>7
<1> QED
  BY <1>8 DEF n, T

-----------------------------------------------------------------------------
(* Steps in which no ticket comes, goes or is taken.                       *)
Quiet ==
    /\ UNCHANGED queue
    /\ \A w \in Workers : /\ Working(w)' <=> Working(w)
                          /\ Working(w) => hand'[w] = hand[w]

(* Threads of a stage may start or end, but none that has a ticket.        *)
LEMMA QuietRefines ==
    ASSUME NEW s \in Stages, Quiet, IInv' PROVE Refines(s)
<1>1. HandOf(s)' = HandOf(s)
  BY HandsKept DEF Quiet
<1>2. QueueOf(s)' = QueueOf(s)
  BY DEF Quiet, QueueOf
<1>3. Capacity(s)' \in Nat
  BY NumbersAssumption DEF IInv, TypeCctor, Capacity
<1>4. ASSUME NEW h \in Classes
      PROVE  /\ Cardinality(HandOf(s)'[h]) \in Nat
             /\ Cardinality(HandOf(s)'[h]) <= Capacity(s)'
  <2>1. \A w \in WorkersOf(s, h)' :
           w \in Workers /\ w[1] = s /\ w[2] = h /\ w[3] \in 1 .. Capacity(s)'
    BY <1>3, WorkerShape DEF WorkersOf, IInv, StepsAgree, Started, Capacity, Working
  <2>2. HeldBy(HandOf(s)'[h], hand', s, h, 1 .. Capacity(s)')
    BY <2>1 DEF HandOf, HeldBy
  <2> QED
    BY <1>3, <2>2, HandsInCapacity
<1>5. CapacityOf(s)' \in [Classes -> Nat]
  BY <1>3 DEF CapacityOf
<1>6. \A h \in Classes : CapacityOf(s)'[h] >= Cardinality(HandOf(s)[h])
  BY <1>1, <1>3, <1>4 DEF CapacityOf
<1>7. Stage(s)!Resize
  BY <1>1, <1>2, <1>5, <1>6, StageClasses, StageCounts DEF Stage!Resize
<1> QED
  BY <1>7 DEF Refines, Stage!Next

(* The steps that change a queue.                                          *)
QueueSteps ==
    \/ \E w \in Workers : Take(w) \/ PutInNextStage(w) \/ Reschedule(w)
    \/ \E a \in Threads : InsertNew(a) \/ ChangePriority(a)

LEMMA QueueKept == ASSUME [Next]_vars PROVE UNCHANGED queue \/ QueueSteps
<1>1. ASSUME NEW a \in Threads, InsertMethod(a) PROVE UNCHANGED queue \/ QueueSteps
  BY <1>1 DEF InsertMethod, EnterInsert, EnterSynch, JoinTicket, SendToScheduler, GoToSleep,
     WakeUp, LinkWaited, WaitEmptyPipeline, ticketVars, QueueSteps
<1>2. ASSUME NEW w \in Workers, Translate(w) PROVE UNCHANGED queue \/ QueueSteps
  BY <1>2 DEF Translate, TranslateToIR, NotifyIR, FindCallees, InsertCallee, EndDLA, Optimize,
     GenerateMachineCode, NotifyMachineCode, OnlyStep, ticketVars, QueueSteps
<1>3. ASSUME NEW w \in Workers, RunCctors(w) PROVE UNCHANGED queue
  BY <1>3 DEF RunCctors, StartCctorJob, CheckCctors, MakeExecutable, CallCctor,
     RegisterRunner, UnregisterRunner, EndOfCctor, DeclareWaiting, EndOfWait,
     UndeclareWaiting, OnlyCctorStep, ticketVars
<1>4. ASSUME NEW w \in Workers, Complete(w) PROVE UNCHANGED queue
  BY <1>4 DEF Complete, LinkMethod, UnregisterMethod, Publish, NotifyCompilationEnd,
     DestroyTicket, RemoveTicket, EndCctorJob, OnlyCctorStep, ticketVars
<1>5. ASSUME Schedule \/ Reap \/ (\E r \in Requests : Request(r)) \/ UNCHANGED vars
      PROVE  UNCHANGED queue
  BY <1>5 DEF Schedule, TakeScheduled, InsertCallee, EndScheduled, Reap, ReaperWakesUp,
     KillCctorThreads, Request, vars, ticketVars
<1> QED
  BY <1>1, <1>2, <1>3, <1>4, <1>5 DEF Next, Step, Worker

(* All other steps but the destruction of a ticket are quiet.              *)
LEMMA QuietSteps ==
    ASSUME IInv, [Next]_vars, ~QueueSteps, \A w \in Workers : ~DestroyTicket(w)
    PROVE  Quiet
<1>1. UNCHANGED queue
  BY QueueKept
<1>2. CASE CallsOnly
  BY <1>1, <1>2 DEF CallsOnly, Quiet, Working
<1>3. ASSUME NEW w \in Workers, MovesOn(w) \/ Advances(w)
      PROVE  Quiet
  <2>1. Working(w) /\ UNCHANGED hand
    BY <1>3 DEF MovesOn, Advances
  <2>2. PICK x \in Steps \ {"idle", "end"} : step' = [step EXCEPT ![w] = x]
    BY <1>3 DEF MovesOn, Advances, Steps
  <2>3. \A v \in Workers : Working(v)' <=> Working(v)
    BY <2>1, <2>2 DEF Working, IInv, TypeWorkers
  <2> QED
    BY <1>1, <2>1, <2>3 DEF Quiet
<1>4. ASSUME NEW w \in Workers, EndCctorJob(w)
      PROVE  Quiet
  <2>1. step[w] = "end" /\ step' = [step EXCEPT ![w] = "idle"] /\ hand' = [hand EXCEPT ![w] = None]
    BY <1>4 DEF EndCctorJob, CctorStep, At, GoOn
  <2> QED
    BY <1>1, <2>1 DEF Quiet, Working, IInv, TypeWorkers
<1>5. CASE EndScheduled
  BY <1>1, <1>5 DEF EndScheduled, workerVars, Quiet, Working
<1> QED
  BY <1>2, <1>3, <1>4, <1>5, StepKinds DEF QueueSteps

-----------------------------------------------------------------------------
(* A ticket that is not inside a stage.                                    *)
LEMMA Outside ==
    ASSUME IInv, NEW s \in Stages, NEW t \in Tickets, inPipe[t] # s,
           \A w \in Workers : Working(w) /\ w[1] = s => hand[w] # t
    PROVE  t \notin Stage(s)!Inside
<1>1. ASSUME NEW h \in Classes PROVE t \notin QueueOf(s)[h] /\ t \notin HandOf(s)[h]
  BY <1>1 DEF IInv, Queued, QueueOf, HandOf, WorkersOf
<1> QED
  BY <1>1, StageClasses DEF Stage!Inside

(* A ticket that joins a queue of the stage.                               *)
LEMMA QueueGains ==
    ASSUME IInv, NEW s \in Stages, NEW h \in Classes, NEW t,
           queue' = [queue EXCEPT ![<<s, h>>] = @ \cup {t}]
    PROVE  /\ QueueOf(s)' = [QueueOf(s) EXCEPT ![h] = @ \cup {t}]
           /\ \A r \in Stages \ {s} : QueueOf(r)' = QueueOf(r)
  BY DEF IInv, TypeTickets, QueueOf

LEMMA QueueLoses ==
    ASSUME IInv, NEW s \in Stages, NEW h \in Classes, NEW t,
           queue' = [queue EXCEPT ![<<s, h>>] = @ \ {t}]
    PROVE  /\ QueueOf(s)' = [QueueOf(s) EXCEPT ![h] = @ \ {t}]
           /\ \A r \in Stages \ {s} : QueueOf(r)' = QueueOf(r)
  BY DEF IInv, TypeTickets, QueueOf

(* A worker that was free has t in its hand.                               *)
LEMMA HandGains ==
    ASSUME IInv, NEW w \in Workers, ~Working(w), NEW t,
           hand' = [hand EXCEPT ![w] = t], step' = [step EXCEPT ![w] = "job"]
    PROVE  /\ HandOf(w[1])' = [HandOf(w[1]) EXCEPT ![w[2]] = @ \cup {t}]
           /\ \A r \in Stages \ {w[1]} : HandOf(r)' = HandOf(r)
<1>1. \A v \in Workers : /\ Working(v)' <=> (v = w \/ Working(v))
                         /\ hand'[v] = IF v = w THEN t ELSE hand[v]
  BY DEF IInv, TypeWorkers, Working
<1>2. w[1] \in Stages /\ w[2] \in Classes
  BY WorkerShape
<1>3. ASSUME NEW h \in Classes
      PROVE  HandOf(w[1])'[h] = IF h = w[2] THEN HandOf(w[1])[h] \cup {t} ELSE HandOf(w[1])[h]
  <2>1. CASE h = w[2]
    <3>1. WorkersOf(w[1], h)' = WorkersOf(w[1], h) \cup {w} /\ w \notin WorkersOf(w[1], h)
      BY <1>1, <2>1 DEF WorkersOf
    <3> QED
      BY <1>1, <2>1, <3>1 DEF HandOf
  <2>2. CASE h # w[2]
    <3>1. WorkersOf(w[1], h)' = WorkersOf(w[1], h) /\ w \notin WorkersOf(w[1], h)
      BY <1>1, <2>2 DEF WorkersOf
    <3> QED
      BY <1>1, <2>2, <3>1 DEF HandOf, WorkersOf
  <2> QED
    BY <2>1, <2>2
<1>4. \A r \in Stages \ {w[1]} : HandOf(r)' = HandOf(r)
  BY <1>1, HandsKept
<1>5. HandOf(w[1])' = [HandOf(w[1]) EXCEPT ![w[2]] = @ \cup {t}]
  <2> DEFINE f == HandOf(w[1])
             g == HandOf(w[1])'
  <2>1. f = [h \in Classes |-> f[h]] /\ g = [h \in Classes |-> g[h]]
    BY DEF HandOf
  <2>2. \A h \in Classes : g[h] = IF h = w[2] THEN f[h] \cup {t} ELSE f[h]
    BY <1>3
  <2> HIDE DEF f, g
  <2>3. g = [f EXCEPT ![w[2]] = @ \cup {t}]
    BY <2>1, <2>2
  <2> QED
    BY <2>3 DEF f, g
<1> QED
  BY <1>4, <1>5

(* A worker gave away what it had in its hand.                             *)
LEMMA HandLoses ==
    ASSUME IInv, NEW w \in Workers, Working(w), NEW x \in {"idle", "end"},
           step' = [step EXCEPT ![w] = x], \A v \in Workers \ {w} : hand'[v] = hand[v]
    PROVE  /\ HandOf(w[1])' = [HandOf(w[1]) EXCEPT ![w[2]] = @ \ {hand[w]}]
           /\ hand[w] \in HandOf(w[1])[w[2]]
           /\ \A r \in Stages \ {w[1]} : HandOf(r)' = HandOf(r)
<1>1. \A v \in Workers : /\ Working(v)' <=> (v # w /\ Working(v))
                         /\ v # w /\ Working(v) => hand[v] # hand[w]
  BY DEF IInv, TypeWorkers, Working, InHands
<1>2. w[1] \in Stages /\ w[2] \in Classes
  BY WorkerShape
<1>3. ASSUME NEW h \in Classes
      PROVE  HandOf(w[1])'[h] = IF h = w[2] THEN HandOf(w[1])[h] \ {hand[w]} ELSE HandOf(w[1])[h]
  <2>1. CASE h = w[2]
    <3>1. WorkersOf(w[1], h)' = WorkersOf(w[1], h) \ {w}
      BY <1>1, <2>1 DEF WorkersOf
    <3>2. \A v \in WorkersOf(w[1], h) \ {w} : hand'[v] = hand[v] /\ hand[v] # hand[w]
      BY <1>1 DEF WorkersOf
    <3> QED
      BY <2>1, <3>1, <3>2 DEF HandOf
  <2>2. CASE h # w[2]
    <3>1. WorkersOf(w[1], h)' = WorkersOf(w[1], h) /\ w \notin WorkersOf(w[1], h)
      BY <1>1, <2>2 DEF WorkersOf
    <3>2. \A v \in WorkersOf(w[1], h) : hand'[v] = hand[v]
      BY <3>1 DEF WorkersOf
    <3> QED
      BY <2>2, <3>1, <3>2 DEF HandOf
  <2> QED
    BY <2>1, <2>2
<1>4. \A r \in Stages \ {w[1]} : HandOf(r)' = HandOf(r)
  BY <1>1, HandsKept
<1>5. hand[w] \in HandOf(w[1])[w[2]]
  BY <1>2 DEF HandOf, WorkersOf
<1>6. HandOf(w[1])' = [HandOf(w[1]) EXCEPT ![w[2]] = @ \ {hand[w]}]
  <2> DEFINE f == HandOf(w[1])
             g == HandOf(w[1])'
             t == hand[w]
  <2>1. f = [h \in Classes |-> f[h]] /\ g = [h \in Classes |-> g[h]]
    BY DEF HandOf
  <2>2. \A h \in Classes : g[h] = IF h = w[2] THEN f[h] \ {t} ELSE f[h]
    BY <1>3
  <2> HIDE DEF f, g, t
  <2>3. g = [f EXCEPT ![w[2]] = @ \ {t}]
    BY <2>1, <2>2
  <2> QED
    BY <2>3 DEF f, g, t
<1> QED
  BY <1>4, <1>5, <1>6

-----------------------------------------------------------------------------
(* The steps that move a ticket.                                           *)

(* internal_pipe_get_job: the worker was free, so the hand had room.       *)
LEMMA TakeRefines ==
    ASSUME IInv, NEW w \in Workers, Take(w), NEW s \in Stages PROVE Refines(s)
<1> DEFINE h == w[2]
<1>1. w[1] \in Stages /\ h \in Classes
  BY WorkerShape
<1>2. PICK t \in queue[<<w[1], h>>] :
         /\ queue' = [queue EXCEPT ![<<w[1], h>>] = @ \ {t}]
         /\ hand' = [hand EXCEPT ![w] = t]
  BY DEF Take
<1>3. /\ Started(w) /\ ~Working(w) /\ step' = [step EXCEPT ![w] = "job"]
      /\ UNCHANGED cctorThreads
  BY DEF Take, FirstIdle, Working, GoOn, OnlyWorker, cctorVars
<1>4. t \in Tickets /\ t \in QueueOf(w[1])[h]
  BY <1>1, <1>2 DEF IInv, TypeTickets, QueueOf
<1>5. /\ QueueOf(w[1])' = [QueueOf(w[1]) EXCEPT ![h] = @ \ {t}]
      /\ \A r \in Stages \ {w[1]} : QueueOf(r)' = QueueOf(r)
  BY <1>1, <1>2, QueueLoses
<1>6. /\ HandOf(w[1])' = [HandOf(w[1]) EXCEPT ![h] = @ \cup {t}]
      /\ \A r \in Stages \ {w[1]} : HandOf(r)' = HandOf(r)
  BY <1>2, <1>3, HandGains
<1>7. CapacityOf(s)' = CapacityOf(s)
  BY <1>3, CapacityKept
<1>8. CASE s = w[1]
  <2>1. Cardinality(HandOf(s)[h]) < CapacityOf(s)[h]
    BY <1>1, <1>3, <1>8, FreeThreadIsRoom DEF CapacityOf
  <2> HIDE DEF h
  <2>2. Stage(s)!Take(t, h)
    BY <1>4, <1>5, <1>6, <1>7, <1>8, <2>1, StageCounts DEF Stage!Take
  <2> QED
    BY <1>1, <1>4, <2>2, StageClasses DEF Refines, Stage!Next
<1>9. CASE s # w[1]
  BY <1>5, <1>6, <1>7, <1>9, SameRefines DEF Same
<1> QED
  BY <1>8, <1>9

(* internal_pipe_end_job: the ticket leaves a stage and is put in the next *)
(* one, where it is not yet.                                               *)
LEMMA EndJobParts ==
    ASSUME IInv, NEW w \in Workers, NEW s, EndJob(w, s)
    PROVE  /\ queue' = [queue EXCEPT ![<<s, w[2]>>] = @ \cup {hand[w]}]
           /\ step' = [step EXCEPT ![w] = "idle"]
           /\ \A v \in Workers \ {w} : hand'[v] = hand[v]
           /\ UNCHANGED cctorThreads
  BY DEF EndJob, PutToPipe, GoOn, OnlyWorker, cctorVars, IInv, TypeWorkers

LEMMA PutInNextStageRefines ==
    ASSUME IInv, NEW w \in Workers, PutInNextStage(w), NEW s \in Stages PROVE Refines(s)
<1> DEFINE h == w[2]
           n == NextStage(w[1])
           t == hand[w]
<1>1. w[1] \in Stages /\ h \in Classes /\ n \in Stages /\ n # w[1]
  BY WorkerShape, StageOfStep DEF PutInNextStage, NextStage, Stages
<1>2. Working(w) /\ t \in Tickets /\ inPipe[t] = None
  BY HandInPlace DEF PutInNextStage, Working
<1>3. /\ queue' = [queue EXCEPT ![<<n, h>>] = @ \cup {t}]
      /\ step' = [step EXCEPT ![w] = "idle"]
      /\ \A v \in Workers \ {w} : hand'[v] = hand[v]
      /\ UNCHANGED cctorThreads
  BY EndJobParts DEF PutInNextStage
<1> HIDE DEF n, h
<1>4. /\ QueueOf(n)' = [QueueOf(n) EXCEPT ![h] = @ \cup {t}]
      /\ \A r \in Stages \ {n} : QueueOf(r)' = QueueOf(r)
  BY <1>1, <1>3, QueueGains
<1>5. /\ HandOf(w[1])' = [HandOf(w[1]) EXCEPT ![h] = @ \ {t}]
      /\ t \in HandOf(w[1])[h]
      /\ \A r \in Stages \ {w[1]} : HandOf(r)' = HandOf(r)
  BY <1>2, <1>3, HandLoses DEF h
<1>6. CapacityOf(s)' = CapacityOf(s)
  BY <1>3, CapacityKept
<1>7. CASE s = w[1]
  <2>1. Stage(s)!Finish(t, h)
    BY <1>1, <1>4, <1>5, <1>6, <1>7 DEF Stage!Finish
  <2> QED
    BY <1>1, <1>2, <2>1, StageClasses DEF Refines, Stage!Next
<1>8. CASE s = n
  <2>1. t \notin Stage(s)!Inside
    <3>1. \A v \in Workers : Working(v) /\ v[1] = s => hand[v] # t
      BY <1>1, <1>2, <1>8 DEF IInv, InHands
    <3>2. inPipe[t] # s
      BY <1>2, MethodIsNotNone
    <3> QED
      BY <1>2, <3>1, <3>2, Outside
  <2>2. Stage(s)!Put(t, h)
    BY <1>1, <1>4, <1>5, <1>6, <1>8, <2>1 DEF Stage!Put
  <2> QED
    BY <1>1, <1>2, <2>2, StageClasses DEF Refines, Stage!Next
<1>9. CASE s # w[1] /\ s # n
  BY <1>4, <1>5, <1>6, <1>9, SameRefines DEF Same
<1> QED
  BY <1>7, <1>8, <1>9

(* The same for a job that stopped at a checkpoint: back to its own queue. *)
LEMMA RescheduleRefines ==
    ASSUME IInv, NEW w \in Workers, Reschedule(w), NEW s \in Stages PROVE Refines(s)
<1> DEFINE h == w[2]
           t == hand[w]
<1>1. w[1] = "opt" /\ w[1] \in Stages /\ h \in Classes
  BY WorkerShape DEF Reschedule, At
<1>2. Working(w) /\ t \in Tickets
  BY HandInPlace DEF Reschedule, At, Working
<1>3. /\ queue' = [queue EXCEPT ![<<w[1], h>>] = @ \cup {t}]
      /\ step' = [step EXCEPT ![w] = "idle"]
      /\ \A v \in Workers \ {w} : hand'[v] = hand[v]
      /\ UNCHANGED cctorThreads
  BY <1>1, EndJobParts DEF Reschedule
<1> HIDE DEF h
<1>4. /\ QueueOf(w[1])' = [QueueOf(w[1]) EXCEPT ![h] = @ \cup {t}]
      /\ \A r \in Stages \ {w[1]} : QueueOf(r)' = QueueOf(r)
  BY <1>1, <1>3, QueueGains
<1>5. /\ HandOf(w[1])' = [HandOf(w[1]) EXCEPT ![h] = @ \ {t}]
      /\ t \in HandOf(w[1])[h]
      /\ \A r \in Stages \ {w[1]} : HandOf(r)' = HandOf(r)
  BY <1>2, <1>3, HandLoses DEF h
<1>6. CapacityOf(s)' = CapacityOf(s)
  BY <1>3, CapacityKept
<1>7. CASE s = w[1]
  <2>1. Stage(s)!PutBack(t, h)
    BY <1>1, <1>4, <1>5, <1>6, <1>7 DEF Stage!PutBack
  <2> QED
    BY <1>1, <1>2, <2>1, StageClasses DEF Refines, Stage!Next
<1>8. CASE s # w[1]
  BY <1>4, <1>5, <1>6, <1>8, SameRefines DEF Same
<1> QED
  BY <1>7, <1>8

(* A new ticket: its address was free, so no worker has it.                *)
LEMMA InsertNewRefines ==
    ASSUME IInv, NEW a \in Threads, InsertNew(a), NEW s \in Stages PROVE Refines(s)
<1>1. FirstStage(call[a].state) \in Stages /\ Class(call[a].priority) \in Classes
  <2>1. call[a].state \in States \ {"EXECUTABLE"}
    BY DEF IInv, CallsOK, CallOK, Calls, InsertNew, Holds, Operations
  <2> QED
    BY <2>1 DEF FirstStage, States, Stages, Class, Classes
<1>2. PICK first \in Stages, h \in Classes, t \in Tickets \ allocated :
         queue' = [queue EXCEPT ![<<first, h>>] = @ \cup {t}]
  <2> DEFINE f == FirstStage(call[a].state)
             g == Class(call[a].priority)
  <2>1. PICK t \in Tickets \ allocated : queue' = [queue EXCEPT ![<<f, g>>] = @ \cup {t}]
    BY DEF InsertNew
  <2> HIDE DEF f, g
  <2> QED
    BY <1>1, <2>1 DEF f, g
<1>3. UNCHANGED <<hand, step, cctorThreads>>
  BY DEF InsertNew, workerVars, cctorVars
<1>4. /\ QueueOf(first)' = [QueueOf(first) EXCEPT ![h] = @ \cup {t}]
      /\ \A r \in Stages \ {first} : QueueOf(r)' = QueueOf(r)
  BY <1>2, QueueGains
<1>5. HandOf(s)' = HandOf(s) /\ CapacityOf(s)' = CapacityOf(s)
  BY <1>3, HandsKept, CapacityKept DEF Working
<1>6. CASE s = first
  <2>1. t \notin Stage(s)!Inside
    <3>1. \A v \in Workers : Working(v) => hand[v] # t
      BY HandInPlace
    <3>2. inPipe[t] = None
      BY DEF IInv, Queued, Live
    <3> QED
      BY <3>1, <3>2, MethodIsNotNone, Outside
  <2>2. Stage(s)!Put(t, h)
    BY <1>4, <1>5, <1>6, <2>1 DEF Stage!Put
  <2> QED
    BY <1>2, <2>2, StageClasses DEF Refines, Stage!Next
<1>7. CASE s # first
  BY <1>4, <1>5, <1>7, SameRefines DEF Same
<1> QED
  BY <1>6, <1>7

(* internal_changePriority: the ticket is still in the stage that was read *)
(* before its queues were locked, in the queue that it leaves.             *)
LEMMA ChangePriorityRefines ==
    ASSUME IInv, IInv', NEW a \in Threads, ChangePriority(a), NEW s \in Stages
    PROVE  Refines(s)
<1> DEFINE c == call[a]
           promoted == ~inHigh[c.ticket] /\ NeedHigh(priority[c.ticket])
<1>1. UNCHANGED <<hand, step, cctorThreads>>
  BY DEF ChangePriority, cctorVars
<1>2. CASE StillInStage(c) /\ promoted
  <2>1. c.ticket \in Tickets /\ c.from \in Stages
    BY <1>2 DEF IInv, CallsOK, CallOK, Calls, ChangePriority, Holds, StillInStage
  <2>2. PICK t \in Tickets, from \in Stages :
          /\ queue' = [queue EXCEPT ![<<from, "low">>] = @ \ {t},
                                    ![<<from, "high">>] = @ \cup {t}]
          /\ inPipe[t] = from /\ ~inHigh[t]
    BY <1>2, <2>1 DEF ChangePriority, StillInStage
  <2>3. t \in queue[<<from, "low">>]
    BY <2>2 DEF IInv, Queued, Classes, TypeTickets
  <2>4. /\ QueueOf(from)' = [QueueOf(from) EXCEPT !["low"] = @ \ {t}, !["high"] = @ \cup {t}]
        /\ \A r \in Stages \ {from} : QueueOf(r)' = QueueOf(r)
    BY <2>2 DEF IInv, TypeTickets, QueueOf, Classes
  <2>5. HandOf(s)' = HandOf(s) /\ CapacityOf(s)' = CapacityOf(s)
    BY <1>1, HandsKept, CapacityKept DEF Working
  <2>6. CASE s = from
    <3>1. t \in QueueOf(s)["low"]
      BY <2>3, <2>6 DEF QueueOf, Classes
    <3>2. Stage(s)!Promote(t)
      BY <2>4, <2>5, <2>6, <3>1 DEF Stage!Promote
    <3> QED
      BY <2>2, <3>2 DEF Refines, Stage!Next
  <2>7. CASE s # from
    BY <2>4, <2>5, <2>7, SameRefines DEF Same
  <2> QED
    BY <2>6, <2>7
<1>3. CASE ~(StillInStage(c) /\ promoted)
  <2>1. UNCHANGED queue
    BY <1>3 DEF ChangePriority
  <2> QED
    BY <1>1, <2>1, QuietRefines DEF Quiet, Working
<1> QED
  BY <1>2, <1>3

(* internal_destroyTicket: the ticket leaves the last stage.               *)
LEMMA DestroyTicketRefines ==
    ASSUME IInv, NEW w \in Workers, DestroyTicket(w), NEW s \in Stages PROVE Refines(s)
<1> DEFINE t == hand[w]
<1>1. /\ Working(w) /\ step' = [step EXCEPT ![w] = "end"]
      /\ UNCHANGED <<hand, queue, cctorThreads>>
  BY DestroyParts DEF DestroyTicket, RemoveTicket, cctorVars
<1>2. w[1] \in Stages /\ w[2] \in Classes /\ t \in Tickets
  BY <1>1, WorkerShape, HandInPlace
<1>3. /\ HandOf(w[1])' = [HandOf(w[1]) EXCEPT ![w[2]] = @ \ {t}]
      /\ t \in HandOf(w[1])[w[2]]
      /\ \A r \in Stages \ {w[1]} : HandOf(r)' = HandOf(r)
  BY <1>1, HandLoses
<1>4. QueueOf(s)' = QueueOf(s) /\ CapacityOf(s)' = CapacityOf(s)
  BY <1>1, CapacityKept DEF QueueOf
<1>5. CASE s = w[1]
  <2>1. Stage(s)!Finish(t, w[2])
    BY <1>3, <1>4, <1>5 DEF Stage!Finish
  <2> QED
    BY <1>2, <2>1, StageClasses DEF Refines, Stage!Next
<1>6. CASE s # w[1]
  BY <1>3, <1>4, <1>6, SameRefines DEF Same
<1> QED
  BY <1>5, <1>6

-----------------------------------------------------------------------------
LEMMA InitRefines == ASSUME Init, NEW s \in Stages PROVE Stage(s)!Init
<1>1. QueueOf(s) = [h \in Classes |-> {}]
  BY DEF Init, QueueOf
<1>2. HandOf(s) = [h \in Classes |-> {}]
  <2>1. \A h \in Classes : WorkersOf(s, h) = {}
    BY DEF Init, WorkersOf, Working
  <2> QED
    BY <2>1 DEF HandOf
<1>3. CapacityOf(s) \in [Classes -> Nat]
  BY DEF Init, CapacityOf, Capacity
<1> QED
  BY <1>1, <1>2, <1>3, StageClasses DEF Stage!Init

LEMMA NextRefines ==
    ASSUME IInv, IInv', [Next]_vars, NEW s \in Stages PROVE Refines(s)
<1>1. CASE QueueSteps
  BY <1>1, TakeRefines, PutInNextStageRefines, RescheduleRefines, InsertNewRefines,
     ChangePriorityRefines DEF QueueSteps
<1>2. CASE \E w \in Workers : DestroyTicket(w)
  BY <1>2, DestroyTicketRefines
<1>3. CASE ~QueueSteps /\ \A w \in Workers : ~DestroyTicket(w)
  BY <1>3, QuietSteps, QuietRefines
<1> QED
  BY <1>1, <1>2, <1>3

(* What the pipeline does with a stage is what AbstractStage says, but for *)
(* its fairness: internal_worker_execution takes, passes on and requeues   *)
(* tickets, insertions put and promote them, and cctor threads come and go *)
(* (translation_pipeline_parallel.c:744-861, 1974-2070), so that each      *)
(* ticket is in one queue or one hand of the stage, and goes to a worker   *)
(* of its class that was free.                                             *)
THEOREM StagesImplemented ==
    ASSUME NEW s \in Stages
    PROVE  Spec => Stage(s)!Init /\ [][Stage(s)!Next]_(Stage(s)!vars)
<1>1. Init => Stage(s)!Init
  BY InitRefines
<1>2. IInv /\ IInv' /\ [Next]_vars => [Stage(s)!Next]_(Stage(s)!vars)
  BY NextRefines DEF Refines
<1> QED
  BY <1>1, <1>2, Invariance, PTL DEF Spec
=============================================================================
