------------------------------ MODULE PipeStage ------------------------------
(***************************************************************************)
(* One stage of the translation pipeline of libcore: an ildjitPipe_t, that *)
(* is two worker sets (workerSet_t), one for low and one for high priority *)
(* tickets.  A worker set is a priority queue of tickets, a count of the   *)
(* steady threads, a queue of the busy ones that can still be asked for a  *)
(* checkpoint, and a condition variable the idle threads sleep on.         *)
(*                                                                         *)
(* Every action is one critical section of the code: what happens between  *)
(* the lock and the unlock (or the wait) of the worker set's mutex.  What  *)
(* arrives from the rest of the pipeline (tickets, new priorities, more    *)
(* threads, the order to die) is the environment of this module;           *)
(* TranslationPipeline gives it its actual behaviour.                      *)
(*                                                                         *)
(* An operator marked as a variant is no part of the specification: it is  *)
(* the one below it with a mistake, which the properties have to notice.   *)
(***************************************************************************)
EXTENDS Integers, FiniteSets

CONSTANTS
    LowThreads,     \* threads that may ever serve the low priority queue
    HighThreads,    \* threads that may ever serve the high priority queue
    StartThreads,   \* the ones started with the pipeline
    Tickets,
    NoTicket,
    MaxPriority,    \* MAX_METHOD_PRIORITY; the minimum is 0
    HighThreshold,  \* a priority from here on needs the high priority queue
    MaxKills        \* bound: how many times the stage's threads are replaced

Threads    == LowThreads \cup HighThreads
Classes    == {"low", "high"}
Priorities == 0 .. MaxPriority

ASSUME ThreadsAssumption ==
    /\ IsFiniteSet(LowThreads) /\ IsFiniteSet(HighThreads)
    /\ LowThreads \cap HighThreads = {}
    /\ StartThreads \subseteq Threads
ASSUME TicketsAssumption ==
    /\ IsFiniteSet(Tickets)
    /\ NoTicket \notin Tickets
ASSUME PriorityAssumption ==
    /\ MaxPriority \in Nat /\ HighThreshold \in Nat /\ MaxKills \in Nat

VARIABLES
    \* the worker sets, by class
    queue,        \* pipe: the tickets in the priority queue
    dead,         \* pipe: the NULL tickets in it, each ends one thread
    steady,       \* steadyThreadsCount
    busyWorkers,  \* the workers that can be asked for a checkpoint
    \* the threads
    pc,           \* off, entering, waiting, signalled, busy, requeue
    job,          \* the ticket a worker is working on
    checkpoint,   \* the worker's checkpoint variable
    busyPriority, \* the worker's priority in busyWorkers, 0 when not there
    \* the tickets
    priority,     \* ticket->priority
    itemPriority, \* the priority of ticket->pipeItem, 0 when that is NULL
    place,        \* ticket->inPipe and inHighPriorityPipe: low, high, or none
    \* the environment
    raising,      \* the ticket whose new priority is about to reach its queue
    killing,      \* which worker set is being killed: no, high, low
    toKill,       \* NULL tickets still to be put in that worker set
    kills         \* how many times the threads were killed

workers == <<queue, dead, steady, busyWorkers>>
threads == <<pc, job, checkpoint, busyPriority>>
tickets == <<priority, itemPriority, place>>
env     == <<raising, killing, toKill, kills>>
vars    == <<workers, threads, tickets, env>>

ThreadsOf(h) == IF h = "low" THEN LowThreads ELSE HighThreads
ClassOf(th)  == IF th \in LowThreads THEN "low" ELSE "high"

NeedHigh(p)  == p >= HighThreshold
Size(h)      == Cardinality(queue[h]) + dead[h]
Waiting(h)   == {th \in ThreadsOf(h) : pc[th] = "waiting"}
Signalled(h) == {th \in ThreadsOf(h) : pc[th] = "signalled"}
Alive(h)     == {th \in ThreadsOf(h) : pc[th] # "off"}
Away(t)      == place[t] = "none" /\ \A th \in Threads : job[th] # t

TypeOK ==
    /\ queue \in [Classes -> SUBSET Tickets]
    /\ dead \in [Classes -> Nat]
    /\ steady \in [Classes -> Nat]
    /\ busyWorkers \in [Classes -> SUBSET Threads]
    /\ pc \in [Threads -> {"off", "entering", "waiting", "signalled", "busy",
                           "requeue"}]
    /\ job \in [Threads -> Tickets \cup {NoTicket}]
    /\ checkpoint \in [Threads -> BOOLEAN]
    /\ busyPriority \in [Threads -> Priorities]
    /\ priority \in [Tickets -> Priorities]
    /\ itemPriority \in [Tickets -> Priorities]
    /\ place \in [Tickets -> Classes \cup {"none"}]
    /\ raising \in Tickets \cup {NoTicket}
    /\ killing \in {"no", "high", "low"}
    /\ toKill \in Nat
    /\ kills \in Nat

Init ==
    /\ queue = [h \in Classes |-> {}]
    /\ dead = [h \in Classes |-> 0]
    /\ steady = [h \in Classes |-> 0]
    /\ busyWorkers = [h \in Classes |-> {}]
    /\ pc = [th \in Threads |-> IF th \in StartThreads THEN "entering" ELSE "off"]
    /\ job = [th \in Threads |-> NoTicket]
    /\ checkpoint = [th \in Threads |-> FALSE]
    /\ busyPriority = [th \in Threads |-> 0]
    /\ priority \in [Tickets -> Priorities]
    /\ itemPriority = [t \in Tickets |-> 0]
    /\ place = [t \in Tickets |-> "none"]
    /\ raising = NoTicket
    /\ killing = "no"
    /\ toKill = 0
    /\ kills = 0

-----------------------------------------------------------------------------
(* The condition variable: a signal wakes one sleeping thread, if there is *)
(* one.  POSIX allows spurious wakeups too; the code's loop absorbs them.  *)
(* pcs is what the step makes of pc apart from the thread it wakes.        *)
Signal(h, pcs) ==
    IF Waiting(h) = {}
      THEN pc' = pcs
      ELSE \E th \in Waiting(h) : pc' = [pcs EXCEPT ![th] = "signalled"]

(* internal_tryCheckPoint, called with ticket t just put in queue h, or    *)
(* given a new priority there, size being the new length of the queue:     *)
(* wake a steady thread, or ask the least urgent of the busy workers to    *)
(* stop at its next checkpoint.                                            *)
LeastUrgent(h) ==
    {th \in busyWorkers[h] :
        \A other \in busyWorkers[h] : busyPriority[other] <= busyPriority[th]}

MoreSteady(h, size)   == steady[h] > size       \* variant: off by one
EnoughSteady(h, size) == steady[h] >= size

(* Variant: a worker that was asked to stop, or ended, stays in the queue. *)
KeepBusy(h, th) ==
    busyPriority' = [busyPriority EXCEPT ![th] = 0] /\ UNCHANGED busyWorkers
LeaveBusy(h, th) ==
    /\ busyWorkers' = [busyWorkers EXCEPT ![h] = @ \ {th}]
    /\ busyPriority' = [busyPriority EXCEPT ![th] = 0]

TryCheckPoint(h, t, size, pcs) ==
    IF EnoughSteady(h, size)
      THEN /\ Signal(h, pcs)
           /\ UNCHANGED <<checkpoint, busyWorkers, busyPriority>>
      ELSE /\ pc' = pcs
           /\ LET asked == {th \in LeastUrgent(h) :
                              priority[t] > MaxPriority - busyPriority[th]}
              IN IF asked = {}
                   THEN UNCHANGED <<checkpoint, busyWorkers, busyPriority>>
                   ELSE \E th \in asked :
                          /\ checkpoint' = [checkpoint EXCEPT ![th] = TRUE]
                          /\ LeaveBusy(h, th)

(* internal_putToPipe *)
PutToPipe(t, h, pcs) ==
    /\ queue' = [queue EXCEPT ![h] = @ \cup {t}]
    /\ itemPriority' = [itemPriority EXCEPT ![t] = priority[t]]
    /\ place' = [place EXCEPT ![t] = h]
    /\ TryCheckPoint(h, t, Size(h) + 1, pcs)
    /\ UNCHANGED <<dead, steady, priority>>

-----------------------------------------------------------------------------
(* The workers *)

(* The end of internal_pipe_get_job: with the queue not empty, take its    *)
(* head.  NULL tickets have priority 2.0, above every method.              *)
Head(h) == {t \in queue[h] : \A u \in queue[h] : itemPriority[u] <= itemPriority[t]}

TakeDead(th, h, steadyNow) ==
    /\ dead[h] > 0
    /\ dead' = [dead EXCEPT ![h] = @ - 1]
    /\ steady' = [steady EXCEPT ![h] = steadyNow]
    /\ pc' = [pc EXCEPT ![th] = "off"]
    /\ UNCHANGED <<queue, busyWorkers, job, checkpoint, busyPriority, tickets, env>>

TakeTicket(th, h, steadyNow) ==
    /\ dead[h] = 0
    /\ \E t \in Head(h) :
        /\ queue' = [queue EXCEPT ![h] = @ \ {t}]
        /\ place' = [place EXCEPT ![t] = "none"]
        /\ itemPriority' = [itemPriority EXCEPT ![t] = 0]
        /\ job' = [job EXCEPT ![th] = t]
        /\ busyPriority' = [busyPriority EXCEPT ![th] = MaxPriority - priority[t]]
    /\ steady' = [steady EXCEPT ![h] = steadyNow - 1]
    /\ checkpoint' = [checkpoint EXCEPT ![th] = FALSE]
    /\ busyWorkers' = [busyWorkers EXCEPT ![h] = @ \cup {th}]
    /\ pc' = [pc EXCEPT ![th] = "busy"]
    /\ UNCHANGED <<dead, priority, env>>

(* Variant: a thread that sleeps is not counted as steady. *)
SleepUncounted(th, h, steadyNow) ==
    /\ Size(h) = 0
    /\ steady' = [steady EXCEPT ![h] = steadyNow - 1]
    /\ pc' = [pc EXCEPT ![th] = "waiting"]
    /\ UNCHANGED <<queue, dead, busyWorkers, job, checkpoint, busyPriority,
                   tickets, env>>

Sleep(th, h, steadyNow) ==
    /\ Size(h) = 0
    /\ steady' = [steady EXCEPT ![h] = steadyNow]
    /\ pc' = [pc EXCEPT ![th] = "waiting"]
    /\ UNCHANGED <<queue, dead, busyWorkers, job, checkpoint, busyPriority,
                   tickets, env>>

(* internal_pipe_get_job, from its start to the wait or to its end *)
GetJob(th) ==
    LET h == ClassOf(th) IN
    /\ pc[th] = "entering"
    /\ \/ Sleep(th, h, steady[h] + 1)
       \/ TakeDead(th, h, steady[h] + 1)
       \/ TakeTicket(th, h, steady[h] + 1)

(* Variant: a thread is counted as steady a second time when it wakes up.  *)
WakeUpCounted(th) ==
    LET h == ClassOf(th) IN
    /\ pc[th] = "signalled"
    /\ \/ Sleep(th, h, steady[h] + 1)
       \/ TakeDead(th, h, steady[h] + 1)
       \/ TakeTicket(th, h, steady[h] + 1)

(* internal_pipe_get_job, from its wakeup *)
WakeUp(th) ==
    LET h == ClassOf(th) IN
    /\ pc[th] = "signalled"
    /\ \/ Sleep(th, h, steady[h])
       \/ TakeDead(th, h, steady[h])
       \/ TakeTicket(th, h, steady[h])

(* internal_pipe_end_job up to its unlock, after a job that ended, or that *)
(* stopped because of the checkpoint request and has to be put back.       *)
EndJob(th) ==
    LET h == ClassOf(th) IN
    /\ pc[th] = "busy"
    /\ LeaveBusy(h, th)
    /\ \/ /\ pc' = [pc EXCEPT ![th] = "entering"]
          /\ job' = [job EXCEPT ![th] = NoTicket]
       \/ /\ checkpoint[th]
          /\ pc' = [pc EXCEPT ![th] = "requeue"]
          /\ job' = job
    /\ UNCHANGED <<queue, dead, steady, checkpoint, tickets, env>>

(* Variant: it always goes back to the low priority queue. *)
RequeueLow(th) ==
    /\ pc[th] = "requeue"
    /\ PutToPipe(job[th], "low", [pc EXCEPT ![th] = "entering"])
    /\ job' = [job EXCEPT ![th] = NoTicket]
    /\ UNCHANGED env

(* internal_pipe_end_job, the ticket of a stopped job goes back to the     *)
(* queue it came from.                                                     *)
Requeue(th) ==
    /\ pc[th] = "requeue"
    /\ PutToPipe(job[th], ClassOf(th), [pc EXCEPT ![th] = "entering"])
    /\ job' = [job EXCEPT ![th] = NoTicket]
    /\ UNCHANGED env

-----------------------------------------------------------------------------
(* The environment: insertions and the previous stage put tickets, an      *)
(* insertion of a method that has a ticket raises its priority.            *)

Put(t, h) ==
    /\ killing = "no"
    /\ Away(t)
    /\ PutToPipe(t, h, pc)
    /\ UNCHANGED <<job, env>>

RaisePriority(t, p) ==
    /\ killing = "no"
    /\ raising = NoTicket
    /\ p > priority[t]
    /\ priority' = [priority EXCEPT ![t] = p]
    /\ raising' = IF place[t] = "none" THEN NoTicket ELSE t
    /\ UNCHANGED <<workers, threads, itemPriority, place, killing, toKill, kills>>

(* internal_changePriority: under both worker sets' mutexes, move the      *)
(* ticket to the high priority queue if its priority now needs it, change  *)
(* its place in its queue if not, and do nothing if a worker was faster.   *)
(* Variant: it does not look whether a worker was faster. *)
MoveToHighUnchecked(t) ==
    /\ place[t] # "high" /\ NeedHigh(priority[t])
    /\ queue' = [queue EXCEPT !["low"] = @ \ {t}, !["high"] = @ \cup {t}]
    /\ place' = [place EXCEPT ![t] = "high"]
    /\ itemPriority' = [itemPriority EXCEPT ![t] = priority[t]]
    /\ TryCheckPoint("high", t, Size("high") + 1, pc)

MoveToHigh(t) ==
    /\ place[t] = "low" /\ NeedHigh(priority[t])
    /\ queue' = [queue EXCEPT !["low"] = @ \ {t}, !["high"] = @ \cup {t}]
    /\ place' = [place EXCEPT ![t] = "high"]
    /\ itemPriority' = [itemPriority EXCEPT ![t] = priority[t]]
    /\ TryCheckPoint("high", t, Size("high") + 1, pc)

ChangeItemPriority(t) ==
    /\ place[t] = "high" \/ (place[t] = "low" /\ ~NeedHigh(priority[t]))
    /\ itemPriority' = [itemPriority EXCEPT ![t] = priority[t]]
    /\ TryCheckPoint(place[t], t, Size(place[t]), pc)
    /\ UNCHANGED <<queue, place>>

TooLate(t) ==
    /\ place[t] = "none"
    /\ UNCHANGED <<queue, place, itemPriority, pc, checkpoint, busyWorkers,
                   busyPriority>>

ChangePriority ==
    /\ raising # NoTicket
    /\ MoveToHigh(raising) \/ ChangeItemPriority(raising) \/ TooLate(raising)
    /\ raising' = NoTicket
    /\ UNCHANGED <<dead, steady, job, priority, killing, toKill, kills>>

(* internal_startMoreThreadsILDJITPipe: as many low as high priority ones  *)
StartMoreThreads ==
    /\ killing = "no"
    /\ \E low \in SUBSET {th \in LowThreads : pc[th] = "off"},
          high \in SUBSET {th \in HighThreads : pc[th] = "off"} :
        /\ low # {} /\ Cardinality(low) = Cardinality(high)
        /\ pc' = [th \in Threads |->
                    IF th \in low \cup high THEN "entering" ELSE pc[th]]
    /\ UNCHANGED <<workers, job, checkpoint, busyPriority, tickets, env>>

-----------------------------------------------------------------------------
(* internal_killILDJITPipe: with no ticket anywhere in the pipeline and    *)
(* its mutex held, put as many NULL tickets in the high priority queue as  *)
(* it has threads, join them, do the same for the low priority queue, and  *)
(* start the first threads again.                                          *)

BeginKill ==
    /\ killing = "no" /\ kills < MaxKills
    /\ raising = NoTicket
    /\ \A t \in Tickets : Away(t)
    /\ killing' = "high"
    /\ toKill' = Cardinality(Alive("high"))
    /\ kills' = kills + 1
    /\ UNCHANGED <<workers, threads, tickets, raising>>

(* Variant: a NULL ticket is put in the queue without a signal. *)
PutDeadSilently ==
    /\ killing # "no" /\ toKill > 0
    /\ dead' = [dead EXCEPT ![killing] = @ + 1]
    /\ toKill' = toKill - 1
    /\ UNCHANGED <<queue, steady, busyWorkers, threads, tickets, raising,
                   killing, kills>>

PutDead ==
    /\ killing # "no" /\ toKill > 0
    /\ dead' = [dead EXCEPT ![killing] = @ + 1]
    /\ Signal(killing, pc)
    /\ toKill' = toKill - 1
    /\ UNCHANGED <<queue, steady, busyWorkers, job, checkpoint, busyPriority,
                   tickets, raising, killing, kills>>

JoinHigh ==
    /\ killing = "high" /\ toKill = 0 /\ Alive("high") = {}
    /\ killing' = "low"
    /\ toKill' = Cardinality(Alive("low"))
    /\ UNCHANGED <<workers, threads, tickets, raising, kills>>

JoinLow ==
    /\ killing = "low" /\ toKill = 0 /\ Alive("low") = {}
    /\ killing' = "no"
    /\ pc' = [th \in Threads |-> IF th \in StartThreads THEN "entering" ELSE "off"]
    /\ UNCHANGED <<workers, job, checkpoint, busyPriority, tickets, raising,
                   toKill, kills>>

-----------------------------------------------------------------------------
Worker(th) == GetJob(th) \/ WakeUp(th) \/ EndJob(th) \/ Requeue(th)
Kill       == BeginKill \/ PutDead \/ JoinHigh \/ JoinLow

Next ==
    \/ \E th \in Threads : Worker(th)
    \/ \E t \in Tickets, h \in Classes : Put(t, h)
    \/ \E t \in Tickets, p \in Priorities : RaisePriority(t, p)
    \/ ChangePriority
    \/ StartMoreThreads
    \/ Kill

(* A thread that can run runs, jobs end, and an insertion that changed a   *)
(* priority and a kill that began go on.  Nothing makes new work arrive.   *)
Fairness ==
    /\ \A th \in Threads : WF_vars(Worker(th))
    /\ WF_vars(ChangePriority)
    /\ WF_vars(PutDead \/ JoinHigh \/ JoinLow)

Spec == Init /\ [][Next]_vars /\ Fairness

-----------------------------------------------------------------------------
(* Properties *)

(* No lost wakeup: if a thread sleeps on the queue, there are at least as  *)
(* many threads on their way to it as tickets in it.  This is what the     *)
(* test steadyThreadsCount >= size in internal_tryCheckPoint, which signals*)
(* for some insertions and not for others, has to guarantee.               *)
WorkNeverStranded ==
    \A h \in Classes : Waiting(h) # {} => Size(h) <= Cardinality(Signalled(h))

(* A ticket is in the queue its inPipe and inHighPriorityPipe name and in  *)
(* no other place, and no two workers hold the same ticket.                *)
PlacesAgree ==
    /\ \A h \in Classes, t \in Tickets : t \in queue[h] <=> place[t] = h
    /\ \A th \in Threads :
         /\ job[th] # NoTicket <=> pc[th] \in {"busy", "requeue"}
         /\ job[th] # NoTicket =>
              /\ place[job[th]] = "none"
              /\ \A other \in Threads \ {th} : job[other] # job[th]

(* busyWorkers holds exactly the workers with a job that were not asked    *)
(* for a checkpoint yet: a handle in it is never one of a worker that has  *)
(* moved on to another job.                                                *)
BusyWorkersAgree ==
    \A th \in Threads, h \in Classes :
        th \in busyWorkers[h] <=>
            /\ h = ClassOf(th)
            /\ pc[th] = "busy" /\ ~checkpoint[th]

(* steadyThreadsCount never falls below the number of threads in           *)
(* internal_pipe_get_job, and exceeds it by the threads that NULL tickets  *)
(* ended: internal_pipe_get_job does not give their count back.            *)
SteadyCounts ==
    \A h \in Classes :
        /\ steady[h] >= Cardinality(Waiting(h)) + Cardinality(Signalled(h))
        /\ kills = 0 =>
            steady[h] = Cardinality(Waiting(h)) + Cardinality(Signalled(h))

(* The kill in progress, as far as the others rest on it: no NULL ticket   *)
(* before the first kill, and the high priority threads joined before the  *)
(* low priority ones are killed.                                           *)
KillAgrees ==
    /\ kills = 0 => killing = "no" /\ \A h \in Classes : dead[h] = 0
    /\ killing = "low" => Alive("high") = {}

(* The inductive invariant: every step preserves it, and PipeStageProofs   *)
(* proves that.                                                            *)
IInv ==
    /\ TypeOK
    /\ PlacesAgree
    /\ BusyWorkersAgree
    /\ KillAgrees
    /\ SteadyCounts
    /\ WorkNeverStranded

(* internal_killWorkersSet joins its threads: each NULL ticket reaches one *)
(* of them, also those it finds asleep or on their way to sleep.           *)
KillEnds == killing # "no" ~> killing = "no"

(* The stage implements its abstract specification, with its fairness.     *)
Hand(h) == {job[th] : th \in {u \in ThreadsOf(h) : job[u] # NoTicket}}

Stage == INSTANCE AbstractStage WITH
    hand <- [h \in Classes |-> Hand(h)],
    capacity <- [h \in Classes |-> Cardinality(Alive(h))]

ImplementsStage == Stage!Spec
=============================================================================
