--------------------------- MODULE PipeStageProofs ---------------------------
(***************************************************************************)
(* Proofs about a stage of the translation pipeline, for any number of     *)
(* threads, tickets and priorities.                                        *)
(*                                                                         *)
(* WorkNeverStranded compares numbers: the length of a queue, the threads  *)
(* asleep on it, those signalled, and steadyThreadsCount, which is the     *)
(* only one of them that internal_tryCheckPoint looks at.  The inductive   *)
(* invariant IInv says how they are related in every state; the lemmas     *)
(* below say what a signal does to them.  The last part shows that a stage *)
(* implements AbstractStage.                                               *)
(***************************************************************************)
EXTENDS PipeStage, FiniteSetTheorems, TLAPS

-----------------------------------------------------------------------------
(* The sets that are counted are finite.                                   *)

LEMMA ThreadsFinite ==
    ASSUME NEW h \in Classes
    PROVE  /\ ThreadsOf(h) \subseteq Threads
           /\ IsFiniteSet(ThreadsOf(h))
           /\ \A th \in ThreadsOf(h) : ClassOf(th) = h
BY ThreadsAssumption DEF Classes, ThreadsOf, Threads, ClassOf

(* Each thread has one class.                                              *)
LEMMA ClassOfThread ==
    ASSUME NEW th \in Threads
    PROVE  ClassOf(th) \in Classes /\ th \in ThreadsOf(ClassOf(th))
BY ThreadsAssumption DEF Classes, ThreadsOf, Threads, ClassOf

(* How many threads sleep on the condition variable, and how many were     *)
(* signalled: both numbers are natural, and the first is 0 when nobody     *)
(* sleeps.                                                                 *)
LEMMA Counts ==
    ASSUME NEW h \in Classes
    PROVE  /\ IsFiniteSet(Waiting(h)) /\ Cardinality(Waiting(h)) \in Nat
           /\ IsFiniteSet(Signalled(h)) /\ Cardinality(Signalled(h)) \in Nat
           /\ IsFiniteSet(Alive(h)) /\ Cardinality(Alive(h)) \in Nat
           /\ Cardinality(Waiting(h)) = 0 <=> Waiting(h) = {}
<1>1. /\ Waiting(h) \in SUBSET ThreadsOf(h)
      /\ Signalled(h) \in SUBSET ThreadsOf(h)
      /\ Alive(h) \in SUBSET ThreadsOf(h)
  BY DEF Waiting, Signalled, Alive
<1>2. IsFiniteSet(Waiting(h)) /\ IsFiniteSet(Signalled(h)) /\ IsFiniteSet(Alive(h))
  BY <1>1, ThreadsFinite, FS_Subset
<1>3. QED
  BY <1>2, FS_CardinalityType, FS_EmptySet

(* The tickets of a queue are finitely many.                               *)
LEMMA QueueFinite ==
    ASSUME TypeOK, NEW h \in Classes
    PROVE  /\ IsFiniteSet(queue[h]) /\ Cardinality(queue[h]) \in Nat
           /\ Size(h) \in Nat
<1>1. queue[h] \in SUBSET Tickets /\ dead[h] \in Nat
  BY DEF TypeOK
<1>2. IsFiniteSet(queue[h])
  BY <1>1, TicketsAssumption, FS_Subset
<1>3. QED
  BY <1>1, <1>2, FS_CardinalityType DEF Size

-----------------------------------------------------------------------------
(* What a signal does.  pcs is where the threads are apart from the one    *)
(* that is woken; no action moves a thread that sleeps, was signalled or   *)
(* is busy in the step in which it signals.                                *)

PCs == {"off", "entering", "waiting", "signalled", "busy", "requeue"}

SamePlaces(pcs) ==
    /\ pcs \in [Threads -> PCs]
    /\ \A th \in Threads : \A p \in {"waiting", "signalled", "busy"} :
         pcs[th] = p <=> pc[th] = p

LEMMA SignalMoves ==
    ASSUME NEW h \in Classes, NEW pcs, SamePlaces(pcs), Signal(h, pcs)
    PROVE  /\ pc' \in [Threads -> PCs]
           /\ \A th \in Threads :
                \/ pc'[th] = pcs[th]
                \/ pcs[th] = "waiting" /\ pc'[th] = "signalled"
BY ThreadsFinite DEF SamePlaces, Signal, Waiting, PCs

(* A signal moves one thread from the sleeping to the signalled ones, if   *)
(* there is one, and none of the other class.                              *)
LEMMA SignalCounts ==
    ASSUME NEW h \in Classes, NEW pcs, SamePlaces(pcs), Signal(h, pcs)
    PROVE  /\ \A g \in Classes : g # h \/ Waiting(h) = {} =>
                Waiting(g)' = Waiting(g) /\ Signalled(g)' = Signalled(g)
           /\ Waiting(h) # {} =>
                /\ Cardinality(Waiting(h)') = Cardinality(Waiting(h)) - 1
                /\ Cardinality(Signalled(h)') = Cardinality(Signalled(h)) + 1
<1>1. CASE Waiting(h) = {}
  BY <1>1, ThreadsFinite DEF Signal, SamePlaces, Waiting, Signalled
<1>2. CASE Waiting(h) # {}
  <2>1. PICK th \in Waiting(h) : pc' = [pcs EXCEPT ![th] = "signalled"]
    BY <1>2 DEF Signal
  <2>2. th \in ThreadsOf(h) /\ th \in Threads /\ th \notin Signalled(h)
    BY ThreadsFinite DEF Waiting, Signalled
  <2>3. Waiting(h)' = Waiting(h) \ {th} /\ Signalled(h)' = Signalled(h) \cup {th}
    BY <2>1, <2>2, ThreadsFinite DEF SamePlaces, Waiting, Signalled
  <2>4. ASSUME NEW g \in Classes, g # h
        PROVE  Waiting(g)' = Waiting(g) /\ Signalled(g)' = Signalled(g)
    <3>1. th \notin ThreadsOf(g)
      BY <2>2, <2>4, ThreadsFinite
    <3>2. QED
      BY <2>1, <3>1, ThreadsFinite DEF SamePlaces, Waiting, Signalled
  <2>5. Cardinality(Waiting(h) \ {th}) = Cardinality(Waiting(h)) - 1
    BY Counts, FS_RemoveElement
  <2>6. Cardinality(Signalled(h) \cup {th}) = Cardinality(Signalled(h)) + 1
    BY <2>2, Counts, FS_AddElement
  <2>7. QED
    BY <1>2, <2>3, <2>4, <2>5, <2>6
<1>3. QED
  BY <1>1, <1>2

(* The heart of WorkNeverStranded.  internal_tryCheckPoint is called with  *)
(* the new length of the queue.  If steadyThreadsCount is not below it, it *)
(* signals; if it is below, then no thread is asleep, because those asleep *)
(* and those on their way are counted in it, and the ones on their way     *)
(* were enough for the queue as it was before.                             *)
LEMMA TryCheckPointServes ==
    ASSUME TypeOK, NEW h \in Classes, NEW t \in Tickets, NEW size \in Nat,
           NEW pcs, SamePlaces(pcs), TryCheckPoint(h, t, size, pcs),
           steady[h] >= Cardinality(Waiting(h)) + Cardinality(Signalled(h)),
           Waiting(h) # {} => size - 1 <= Cardinality(Signalled(h))
    PROVE  /\ Waiting(h)' # {} => size <= Cardinality(Signalled(h)')
           /\ Cardinality(Waiting(h)') + Cardinality(Signalled(h)')
                = Cardinality(Waiting(h)) + Cardinality(Signalled(h))
           /\ \A g \in Classes \ {h} :
                Waiting(g)' = Waiting(g) /\ Signalled(g)' = Signalled(g)
<1>1. /\ Cardinality(Waiting(h)) \in Nat /\ Cardinality(Signalled(h)) \in Nat
      /\ Cardinality(Waiting(h)) = 0 <=> Waiting(h) = {}
  BY Counts
<1>2. steady[h] \in Nat
  BY DEF TypeOK
<1>3. CASE EnoughSteady(h, size)
  <2>1. Signal(h, pcs)
    BY <1>3 DEF TryCheckPoint
  <2>2. QED
    BY <1>1, <2>1, SignalCounts
<1>4. CASE ~EnoughSteady(h, size)
  <2>1. pc' = pcs
    BY <1>4 DEF TryCheckPoint
  <2>2. \A g \in Classes : Waiting(g)' = Waiting(g) /\ Signalled(g)' = Signalled(g)
    BY <2>1, ThreadsFinite DEF SamePlaces, Waiting, Signalled
  <2>3. Waiting(h) = {}
    BY <1>1, <1>2, <1>4 DEF EnoughSteady
  <2>4. QED
    BY <2>2, <2>3
<1>5. QED
  BY <1>3, <1>4

(* What internal_tryCheckPoint does to the threads and to busyWorkers.     *)
LEMMA TryCheckPointMoves ==
    ASSUME TypeOK, BusyWorkersAgree,
           NEW h \in Classes, NEW t \in Tickets, NEW size \in Nat,
           NEW pcs, SamePlaces(pcs), TryCheckPoint(h, t, size, pcs)
    PROVE  /\ pc' \in [Threads -> PCs]
           /\ \A th \in Threads :
                \/ pc'[th] = pcs[th]
                \/ pcs[th] = "waiting" /\ pc'[th] = "signalled"
           /\ checkpoint' \in [Threads -> BOOLEAN]
           /\ busyWorkers' \in [Classes -> SUBSET Threads]
           /\ busyPriority' \in [Threads -> Priorities]
           /\ BusyWorkersAgree'
<1>1. /\ pc' \in [Threads -> PCs]
      /\ \A th \in Threads : \/ pc'[th] = pcs[th]
                             \/ pcs[th] = "waiting" /\ pc'[th] = "signalled"
  <2>1. CASE EnoughSteady(h, size)
    BY <2>1, SignalMoves DEF TryCheckPoint
  <2>2. CASE ~EnoughSteady(h, size)
    BY <2>2 DEF TryCheckPoint, SamePlaces
  <2>3. QED
    BY <2>1, <2>2
<1>2. \A th \in Threads : pc'[th] = "busy" <=> pc[th] = "busy"
  BY <1>1 DEF SamePlaces
<1>3. CASE UNCHANGED <<checkpoint, busyWorkers, busyPriority>>
  BY <1>1, <1>2, <1>3 DEF TypeOK, BusyWorkersAgree
<1>4. CASE \E th \in LeastUrgent(h) :
              /\ checkpoint' = [checkpoint EXCEPT ![th] = TRUE]
              /\ LeaveBusy(h, th)
  <2>1. PICK th \in LeastUrgent(h) :
              /\ checkpoint' = [checkpoint EXCEPT ![th] = TRUE]
              /\ busyWorkers' = [busyWorkers EXCEPT ![h] = @ \ {th}]
              /\ busyPriority' = [busyPriority EXCEPT ![th] = 0]
    BY <1>4 DEF LeaveBusy
  <2>2. th \in busyWorkers[h] /\ th \in Threads /\ h = ClassOf(th)
    BY DEF LeastUrgent, TypeOK, BusyWorkersAgree
  <2>3. /\ checkpoint' \in [Threads -> BOOLEAN]
        /\ busyWorkers' \in [Classes -> SUBSET Threads]
        /\ busyPriority' \in [Threads -> Priorities]
    BY <2>1, <2>2, PriorityAssumption DEF TypeOK, Priorities
  <2>4. BusyWorkersAgree'
    BY <1>2, <2>1, <2>2 DEF TypeOK, BusyWorkersAgree
  <2>5. QED
    BY <1>1, <2>3, <2>4
<1>5. QED
  BY <1>3, <1>4 DEF TryCheckPoint
-----------------------------------------------------------------------------
(* The steps of a worker.                                                  *)

(* A thread that is not woken by this step, and does not sleep, moves.     *)
LEMMA MoveCounts ==
    ASSUME TypeOK, NEW th \in Threads, NEW p \in PCs \ {"signalled"},
           pc[th] # "waiting", pc' = [pc EXCEPT ![th] = p]
    PROVE  /\ Cardinality(Waiting(ClassOf(th))')
                = Cardinality(Waiting(ClassOf(th))) + (IF p = "waiting" THEN 1 ELSE 0)
           /\ Cardinality(Signalled(ClassOf(th))')
                = Cardinality(Signalled(ClassOf(th)))
                    - (IF pc[th] = "signalled" THEN 1 ELSE 0)
           /\ \A g \in Classes \ {ClassOf(th)} :
                Waiting(g)' = Waiting(g) /\ Signalled(g)' = Signalled(g)
<1> DEFINE h == ClassOf(th)
<1>1. h \in Classes /\ th \in ThreadsOf(h)
  BY ClassOfThread
<1>2. Waiting(h)' = (IF p = "waiting" THEN Waiting(h) \cup {th} ELSE Waiting(h))
  BY <1>1, ThreadsFinite DEF TypeOK, Waiting
<1>3. Signalled(h)' = Signalled(h) \ {th}
  BY <1>1, ThreadsFinite DEF TypeOK, Signalled
<1>4. th \notin Waiting(h) /\ (th \in Signalled(h) <=> pc[th] = "signalled")
  BY <1>1 DEF Waiting, Signalled
<1>5. /\ IsFiniteSet(Waiting(h)) /\ Cardinality(Waiting(h)) \in Nat
      /\ IsFiniteSet(Signalled(h)) /\ Cardinality(Signalled(h)) \in Nat
  BY <1>1, Counts
<1>6. Cardinality(Waiting(h) \cup {th}) = Cardinality(Waiting(h)) + 1
  BY <1>4, <1>5, FS_AddElement
<1>7. Cardinality(Signalled(h) \ {th})
        = Cardinality(Signalled(h)) - (IF pc[th] = "signalled" THEN 1 ELSE 0)
  <2>1. Cardinality(Signalled(h) \ {th})
          = IF th \in Signalled(h) THEN Cardinality(Signalled(h)) - 1
                                   ELSE Cardinality(Signalled(h))
    BY <1>5, FS_RemoveElement
  <2>2. QED
    BY <1>4, <1>5, <2>1
<1>8. ASSUME NEW g \in Classes \ {h}
      PROVE  Waiting(g)' = Waiting(g) /\ Signalled(g)' = Signalled(g)
  <2>1. th \notin ThreadsOf(g)
    BY ThreadsFinite
  <2>2. QED
    BY <2>1, ThreadsFinite DEF TypeOK, Waiting, Signalled
<1>9. Cardinality(Waiting(h)')
        = Cardinality(Waiting(h)) + (IF p = "waiting" THEN 1 ELSE 0)
  BY <1>2, <1>5, <1>6
<1>10. QED
  BY <1>3, <1>7, <1>8, <1>9

(* A thread comes to internal_pipe_get_job, or was woken there; with it,   *)
(* steadyThreadsCount is steadyNow.                                        *)
Comes(th, steadyNow) ==
    \/ pc[th] = "entering"  /\ steadyNow = steady[ClassOf(th)] + 1
    \/ pc[th] = "signalled" /\ steadyNow = steady[ClassOf(th)]

(* SteadyCounts and WorkNeverStranded of one worker set. *)
CountsOf(h) ==
    /\ steady[h] >= Cardinality(Waiting(h)) + Cardinality(Signalled(h))
    /\ kills = 0 =>
        steady[h] = Cardinality(Waiting(h)) + Cardinality(Signalled(h))

Served(h) == Waiting(h) # {} => Size(h) <= Cardinality(Signalled(h))

(* Such a thread has no job, and is counted in steadyNow with the threads  *)
(* that sleep or were signalled.                                           *)
LEMMA ComesCounted ==
    ASSUME IInv, NEW th \in Threads, NEW steadyNow, Comes(th, steadyNow)
    PROVE  /\ steadyNow \in Nat /\ steadyNow >= 1
           /\ job[th] = NoTicket
           /\ pc[th] \notin {"waiting", "busy", "requeue"}
           /\ ClassOf(th) \in Classes
           /\ Cardinality(Waiting(ClassOf(th))) \in Nat
           /\ Cardinality(Signalled(ClassOf(th))) \in Nat
           /\ steadyNow >= Cardinality(Waiting(ClassOf(th)))
                             + Cardinality(Signalled(ClassOf(th)))
                             + (IF pc[th] = "signalled" THEN 0 ELSE 1)
           /\ kills = 0 => steadyNow = Cardinality(Waiting(ClassOf(th)))
                             + Cardinality(Signalled(ClassOf(th)))
                             + (IF pc[th] = "signalled" THEN 0 ELSE 1)
           /\ pc[th] = "signalled" => Cardinality(Signalled(ClassOf(th))) >= 1
<1> DEFINE h == ClassOf(th)
<1>1. h \in Classes /\ th \in ThreadsOf(h)
  BY ClassOfThread
<1>2. /\ Cardinality(Waiting(h)) \in Nat /\ Cardinality(Signalled(h)) \in Nat
      /\ IsFiniteSet(Signalled(h))
  BY <1>1, Counts
<1>3. pc[th] = "signalled" => Cardinality(Signalled(h)) >= 1
  <2>1. pc[th] = "signalled" => Signalled(h) # {}
    BY <1>1 DEF Signalled
  <2>2. Cardinality(Signalled(h)) = 0 <=> Signalled(h) = {}
    BY <1>2, FS_EmptySet
  <2>3. QED
    BY <1>2, <2>1, <2>2
<1>4. steady[h] \in Nat
  BY <1>1 DEF IInv, TypeOK
<1>5. /\ steady[h] >= Cardinality(Waiting(h)) + Cardinality(Signalled(h))
      /\ kills = 0 => steady[h] = Cardinality(Waiting(h)) + Cardinality(Signalled(h))
  BY <1>1 DEF IInv, SteadyCounts
<1>6. job[th] = NoTicket
  BY DEF IInv, PlacesAgree, Comes
<1>7. QED
  BY <1>1, <1>2, <1>3, <1>4, <1>5, <1>6 DEF Comes

(* It finds the queue empty and sleeps.                                    *)
LEMMA SleepStep ==
    ASSUME IInv, NEW th \in Threads, NEW steadyNow, Comes(th, steadyNow),
           Sleep(th, ClassOf(th), steadyNow)
    PROVE  IInv'
<1> DEFINE h == ClassOf(th)
<1> USE DEF IInv
<1>1. TypeOK'
  BY ComesCounted DEF TypeOK, Sleep, tickets, env
<1>2. PlacesAgree'
  BY ComesCounted DEF TypeOK, PlacesAgree, Sleep, tickets
<1>3. BusyWorkersAgree'
  BY ComesCounted DEF TypeOK, BusyWorkersAgree, Sleep
<1>4. KillAgrees'
  BY ThreadsFinite, ComesCounted
  DEF TypeOK, KillAgrees, Alive, Sleep, env, Classes, Comes
<1>5. /\ Cardinality(Waiting(h)') = Cardinality(Waiting(h)) + 1
      /\ Cardinality(Signalled(h)')
           = Cardinality(Signalled(h)) - (IF pc[th] = "signalled" THEN 1 ELSE 0)
      /\ \A g \in Classes \ {h} :
           Waiting(g)' = Waiting(g) /\ Signalled(g)' = Signalled(g)
  BY MoveCounts, ComesCounted DEF Sleep, PCs
<1>6. ASSUME NEW g \in Classes
      PROVE  CountsOf(g)' /\ Served(g)'
  <2>1. Size(g)' = Size(g)
    BY DEF Sleep, Size
  <2>2. CASE g = h
    BY <1>5, <2>1, <2>2, ComesCounted DEF CountsOf, Served, TypeOK, Sleep, env
  <2>3. CASE g # h
    BY <1>5, <2>1, <2>3, ComesCounted
    DEF CountsOf, Served, TypeOK, SteadyCounts, WorkNeverStranded, Sleep, env
  <2>4. QED
    BY <2>2, <2>3
<1>7. QED
  BY <1>1, <1>2, <1>3, <1>4, <1>6
  DEF WorkNeverStranded, SteadyCounts, CountsOf, Served

(* It takes a NULL ticket and ends.                                        *)
LEMMA TakeDeadStep ==
    ASSUME IInv, NEW th \in Threads, NEW steadyNow, Comes(th, steadyNow),
           TakeDead(th, ClassOf(th), steadyNow)
    PROVE  IInv'
<1> DEFINE h == ClassOf(th)
<1> USE DEF IInv
<1>1. TypeOK'
  BY ComesCounted DEF TypeOK, TakeDead, tickets, env
<1>2. PlacesAgree'
  BY ComesCounted DEF TypeOK, PlacesAgree, TakeDead, tickets
<1>3. BusyWorkersAgree'
  BY ComesCounted DEF TypeOK, BusyWorkersAgree, TakeDead
<1>4. kills # 0
  BY ComesCounted DEF KillAgrees, TakeDead
<1>5. KillAgrees'
  BY <1>4, ThreadsFinite DEF TypeOK, KillAgrees, Alive, TakeDead, env, Classes
<1>6. /\ Cardinality(Waiting(h)') = Cardinality(Waiting(h))
      /\ Cardinality(Signalled(h)')
           = Cardinality(Signalled(h)) - (IF pc[th] = "signalled" THEN 1 ELSE 0)
      /\ \A g \in Classes \ {h} :
           Waiting(g)' = Waiting(g) /\ Signalled(g)' = Signalled(g)
  <2>1. /\ pc' = [pc EXCEPT ![th] = "off"] /\ pc[th] # "waiting"
        /\ Cardinality(Waiting(h)) \in Nat
    BY ComesCounted DEF TakeDead
  <2>2. "off" \in PCs \ {"signalled"} /\ "off" # "waiting"
    BY DEF PCs
  <2>3. /\ Cardinality(Waiting(h)')
              = Cardinality(Waiting(h)) + (IF "off" = "waiting" THEN 1 ELSE 0)
        /\ Cardinality(Signalled(h)')
              = Cardinality(Signalled(h)) - (IF pc[th] = "signalled" THEN 1 ELSE 0)
        /\ \A g \in Classes \ {h} :
             Waiting(g)' = Waiting(g) /\ Signalled(g)' = Signalled(g)
    BY <2>1, <2>2, MoveCounts, Zenon
  <2>4. QED
    BY <2>1, <2>2, <2>3
<1>7. ASSUME NEW g \in Classes
      PROVE  CountsOf(g)' /\ Served(g)'
  <2>1. /\ Size(h)' = Size(h) - 1
        /\ g # h => Size(g)' = Size(g)
    BY ComesCounted, QueueFinite DEF TakeDead, Size, TypeOK
  <2>2. CASE g = h
    <3>1. Waiting(h)' # {} => Waiting(h) # {}
      BY DEF TakeDead, Waiting, TypeOK
    <3>2. CountsOf(h)'
      BY <1>4, <1>6, ComesCounted DEF CountsOf, TypeOK, TakeDead, env
    <3>3. Served(h)'
      BY <1>6, <2>1, <3>1, ComesCounted, QueueFinite DEF Served, WorkNeverStranded
    <3>4. QED
      BY <2>2, <3>2, <3>3
  <2>3. CASE g # h
    BY <1>6, <2>1, <2>3, ComesCounted
    DEF CountsOf, Served, TypeOK, SteadyCounts, WorkNeverStranded, TakeDead, env
  <2>4. QED
    BY <2>2, <2>3
<1>8. QED
  BY <1>1, <1>2, <1>3, <1>5, <1>7
  DEF WorkNeverStranded, SteadyCounts, CountsOf, Served

(* It takes a ticket.                                                      *)
LEMMA TakeTicketStep ==
    ASSUME IInv, NEW th \in Threads, NEW steadyNow, Comes(th, steadyNow),
           TakeTicket(th, ClassOf(th), steadyNow)
    PROVE  IInv'
<1> DEFINE h == ClassOf(th)
<1> USE DEF IInv
<1>1. PICK t \in Head(h) :
        /\ queue' = [queue EXCEPT ![h] = @ \ {t}]
        /\ place' = [place EXCEPT ![t] = "none"]
        /\ itemPriority' = [itemPriority EXCEPT ![t] = 0]
        /\ job' = [job EXCEPT ![th] = t]
        /\ busyPriority' = [busyPriority EXCEPT ![th] = MaxPriority - priority[t]]
  BY DEF TakeTicket
<1>2. t \in queue[h] /\ t \in Tickets /\ t # NoTicket /\ place[t] = h
  BY ComesCounted, TicketsAssumption DEF TypeOK, Head, PlacesAgree
<1>3. TypeOK'
  <2>1. MaxPriority - priority[t] \in Priorities /\ 0 \in Priorities
    BY <1>2, PriorityAssumption DEF TypeOK, Priorities
  <2>2. steadyNow - 1 \in Nat
    BY ComesCounted
  <2>3. QED
    BY <1>1, <1>2, <2>1, <2>2, ComesCounted DEF TypeOK, TakeTicket, env
<1>4. PlacesAgree'
  BY <1>1, <1>2, ComesCounted DEF TypeOK, PlacesAgree, TakeTicket, Classes
<1>5. BusyWorkersAgree'
  BY ComesCounted DEF TypeOK, BusyWorkersAgree, TakeTicket
<1>6. KillAgrees'
  BY ThreadsFinite, ComesCounted
  DEF TypeOK, KillAgrees, Alive, TakeTicket, env, Classes, Comes
<1>7. /\ Cardinality(Waiting(h)') = Cardinality(Waiting(h))
      /\ Cardinality(Signalled(h)')
           = Cardinality(Signalled(h)) - (IF pc[th] = "signalled" THEN 1 ELSE 0)
      /\ \A g \in Classes \ {h} :
           Waiting(g)' = Waiting(g) /\ Signalled(g)' = Signalled(g)
  <2>1. /\ pc' = [pc EXCEPT ![th] = "busy"] /\ pc[th] # "waiting"
        /\ Cardinality(Waiting(h)) \in Nat
    BY ComesCounted DEF TakeTicket
  <2>2. "busy" \in PCs \ {"signalled"} /\ "busy" # "waiting"
    BY DEF PCs
  <2>3. /\ Cardinality(Waiting(h)')
              = Cardinality(Waiting(h)) + (IF "busy" = "waiting" THEN 1 ELSE 0)
        /\ Cardinality(Signalled(h)')
              = Cardinality(Signalled(h)) - (IF pc[th] = "signalled" THEN 1 ELSE 0)
        /\ \A g \in Classes \ {h} :
             Waiting(g)' = Waiting(g) /\ Signalled(g)' = Signalled(g)
    BY <2>1, <2>2, MoveCounts, Zenon
  <2>4. QED
    BY <2>1, <2>2, <2>3
<1>8. ASSUME NEW g \in Classes
      PROVE  CountsOf(g)' /\ Served(g)'
  <2>1. Cardinality(queue[h] \ {t}) = Cardinality(queue[h]) - 1
    BY <1>2, ComesCounted, QueueFinite, FS_RemoveElement
  <2>2. /\ Size(h)' = Size(h) - 1
        /\ g # h => Size(g)' = Size(g)
    <3>1. queue'[h] = queue[h] \ {t} /\ (g # h => queue'[g] = queue[g])
      BY <1>1, ComesCounted DEF TypeOK
    <3>2. dead' = dead /\ dead[h] \in Nat /\ Cardinality(queue[h]) \in Nat
      BY ComesCounted, QueueFinite DEF TakeTicket, TypeOK
    <3>3. QED
      BY <2>1, <3>1, <3>2 DEF Size
  <2>3. CASE g = h
    <3>1. Waiting(h)' # {} => Waiting(h) # {}
      BY DEF TakeTicket, Waiting, TypeOK
    <3>2. CountsOf(h)'
      BY <1>7, ComesCounted DEF CountsOf, TypeOK, TakeTicket, env
    <3>3. Served(h)'
      BY <1>7, <2>2, <3>1, ComesCounted, QueueFinite DEF Served, WorkNeverStranded
    <3>4. QED
      BY <2>3, <3>2, <3>3
  <2>4. CASE g # h
    BY <1>7, <2>2, <2>4, ComesCounted
    DEF CountsOf, Served, TypeOK, SteadyCounts, WorkNeverStranded, TakeTicket, env
  <2>5. QED
    BY <2>3, <2>4
<1>9. QED
  BY <1>3, <1>4, <1>5, <1>6, <1>8
  DEF WorkNeverStranded, SteadyCounts, CountsOf, Served

(* A step that leaves the counted threads, the queues and the counters as  *)
(* they are.                                                               *)
LEMMA QuietCounts ==
    ASSUME IInv,
           \A th \in Threads : \A p \in {"waiting", "signalled"} :
               pc'[th] = p <=> pc[th] = p,
           UNCHANGED <<queue, dead, steady>>,
           kills' = 0 => kills = 0
    PROVE  SteadyCounts' /\ WorkNeverStranded'
<1>1. ASSUME NEW h \in Classes
      PROVE  Waiting(h)' = Waiting(h) /\ Signalled(h)' = Signalled(h)
  BY ThreadsFinite DEF Waiting, Signalled
<1>2. ASSUME NEW h \in Classes
      PROVE  Size(h)' = Size(h)
  BY DEF Size
<1>3. QED
  BY <1>1, <1>2 DEF IInv, SteadyCounts, WorkNeverStranded

(* No step but the start of threads wakes one that is off.                 *)
LEMMA KillGoesOn ==
    ASSUME IInv, UNCHANGED <<killing, kills, dead>>,
           \A th \in Threads : pc[th] = "off" => pc'[th] = "off"
    PROVE  KillAgrees'
BY ThreadsFinite DEF IInv, KillAgrees, Alive, Classes

(* internal_pipe_end_job: a job is over, or stopped at a checkpoint.       *)
LEMMA EndJobStep ==
    ASSUME IInv, NEW th \in Threads, EndJob(th)
    PROVE  IInv'
<1> DEFINE h == ClassOf(th)
<1> USE DEF IInv
<1>1. h \in Classes /\ pc[th] = "busy"
  BY ClassOfThread DEF EndJob
<1>2. /\ pc' \in [Threads -> PCs]
      /\ \A u \in Threads \ {th} : pc'[u] = pc[u]
      /\ pc'[th] \in {"entering", "requeue"}
  BY DEF EndJob, TypeOK, PCs
<1>3. /\ busyWorkers' = [busyWorkers EXCEPT ![h] = @ \ {th}]
      /\ busyPriority' = [busyPriority EXCEPT ![th] = 0]
  BY DEF EndJob, LeaveBusy
<1>4. TypeOK'
  <2>1. job' \in [Threads -> Tickets \cup {NoTicket}]
    BY DEF EndJob, TypeOK
  <2>2. busyPriority' \in [Threads -> Priorities]
    BY <1>3, PriorityAssumption DEF TypeOK, Priorities
  <2>3. busyWorkers' \in [Classes -> SUBSET Threads]
    BY <1>3 DEF TypeOK
  <2>4. QED
    BY <1>2, <2>1, <2>2, <2>3 DEF EndJob, TypeOK, PCs, tickets, env
<1>5. PlacesAgree'
  <2>1. \A u \in Threads : job'[u] = IF u = th /\ pc'[th] = "entering" THEN NoTicket
                                                                  ELSE job[u]
    BY DEF EndJob, TypeOK
  <2>2. UNCHANGED <<queue, place>>
    BY DEF EndJob, tickets
  <2>3. QED
    BY <1>1, <1>2, <2>1, <2>2 DEF PlacesAgree
<1>6. BusyWorkersAgree'
  BY <1>1, <1>2, <1>3 DEF EndJob, TypeOK, BusyWorkersAgree
<1>7. KillAgrees'
  BY <1>1, <1>2, KillGoesOn DEF EndJob, env
<1>8. SteadyCounts' /\ WorkNeverStranded'
  BY <1>1, <1>2, QuietCounts DEF EndJob, env
<1>9. QED
  BY <1>4, <1>5, <1>6, <1>7, <1>8

-----------------------------------------------------------------------------
(* A ticket comes to a queue, or moves up in it.                           *)

(* The queue of class h gets at most as long as internal_tryCheckPoint is  *)
(* told, from one less or as many tickets; the other gets no longer.       *)
LEMMA TryCheckPointCounts ==
    ASSUME IInv, NEW h \in Classes, NEW t \in Tickets, NEW size \in Nat,
           NEW pcs, SamePlaces(pcs), TryCheckPoint(h, t, size, pcs),
           size - 1 <= Size(h), Size(h)' <= size,
           \A g \in Classes \ {h} : Size(g)' <= Size(g),
           \A g \in Classes : Size(g)' \in Nat,
           UNCHANGED <<steady, kills>>
    PROVE  SteadyCounts' /\ WorkNeverStranded'
<1>1. /\ steady[h] >= Cardinality(Waiting(h)) + Cardinality(Signalled(h))
      /\ Cardinality(Signalled(h)) \in Nat /\ Size(h) \in Nat
  BY Counts, QueueFinite DEF IInv, SteadyCounts
<1>2. Waiting(h) # {} => size - 1 <= Cardinality(Signalled(h))
  BY <1>1 DEF IInv, WorkNeverStranded
<1>3. /\ Waiting(h)' # {} => size <= Cardinality(Signalled(h)')
      /\ Cardinality(Waiting(h)') + Cardinality(Signalled(h)')
           = Cardinality(Waiting(h)) + Cardinality(Signalled(h))
      /\ \A g \in Classes \ {h} :
           Waiting(g)' = Waiting(g) /\ Signalled(g)' = Signalled(g)
  BY <1>1, <1>2, TryCheckPointServes DEF IInv
<1>4. ASSUME NEW g \in Classes
      PROVE  CountsOf(g)' /\ Served(g)'
  <2>1. CASE g = h
    <3>1. CountsOf(h)'
      BY <1>3 DEF CountsOf, IInv, SteadyCounts
    <3>2. ASSUME Waiting(h)' # {}
          PROVE  Size(h)' <= Cardinality(Signalled(h)')
      <4>1. Cardinality(Signalled(h)') \in Nat
        <5>1. Signalled(h)' \in SUBSET ThreadsOf(h)
          BY DEF Signalled
        <5>2. QED
          BY <5>1, ThreadsFinite, FS_Subset, FS_CardinalityType
      <4>2. QED
        BY <1>3, <3>2, <4>1
    <3>3. QED
      BY <2>1, <3>1, <3>2 DEF Served
  <2>2. CASE g # h
    <3>1. /\ Waiting(g)' = Waiting(g) /\ Signalled(g)' = Signalled(g)
          /\ Size(g)' <= Size(g) /\ Size(g)' \in Nat /\ Size(g) \in Nat
          /\ Cardinality(Signalled(g)) \in Nat
      BY <1>3, <2>2, Counts, QueueFinite DEF IInv
    <3>2. QED
      BY <3>1 DEF CountsOf, Served, IInv, SteadyCounts, WorkNeverStranded
  <2>3. QED
    BY <2>1, <2>2
<1>5. QED
  BY <1>4 DEF SteadyCounts, WorkNeverStranded, CountsOf, Served

(* internal_putToPipe, whoever calls it.                                   *)
LEMMA PutToPipeStep ==
    ASSUME IInv, NEW t \in Tickets, NEW h \in Classes,
           NEW pcs, SamePlaces(pcs), PutToPipe(t, h, pcs), UNCHANGED env,
           \A th \in Threads : pc[th] = "off" => pcs[th] = "off",
           job' \in [Threads -> Tickets \cup {NoTicket}]
    PROVE  /\ TypeOK' /\ BusyWorkersAgree' /\ KillAgrees'
           /\ SteadyCounts' /\ WorkNeverStranded'
           /\ \A th \in Threads :
                \/ pc'[th] = pcs[th]
                \/ pcs[th] = "waiting" /\ pc'[th] = "signalled"
<1> USE DEF IInv
<1>1. Size(h) \in Nat /\ Size(h) + 1 \in Nat
  BY QueueFinite
<1>2. /\ pc' \in [Threads -> PCs]
      /\ \A th \in Threads : \/ pc'[th] = pcs[th]
                             \/ pcs[th] = "waiting" /\ pc'[th] = "signalled"
      /\ checkpoint' \in [Threads -> BOOLEAN]
      /\ busyWorkers' \in [Classes -> SUBSET Threads]
      /\ busyPriority' \in [Threads -> Priorities]
      /\ BusyWorkersAgree'
  BY <1>1, TryCheckPointMoves DEF PutToPipe
<1>3. TypeOK'
  BY <1>2 DEF PutToPipe, TypeOK, PCs, env
<1>4. KillAgrees'
  <2>1. ASSUME NEW th \in Threads, pc[th] = "off"
        PROVE  pc'[th] = "off"
    BY <1>2, <2>1
  <2>2. QED
    BY <2>1, KillGoesOn DEF PutToPipe, env
<1>5. SteadyCounts' /\ WorkNeverStranded'
  <2>1. Cardinality(queue[h] \cup {t}) <= Cardinality(queue[h]) + 1
    <3>1. IsFiniteSet(queue[h]) /\ Cardinality(queue[h]) \in Nat
      BY QueueFinite
    <3>2. Cardinality(queue[h] \cup {t})
            = IF t \in queue[h] THEN Cardinality(queue[h]) ELSE Cardinality(queue[h]) + 1
      BY <3>1, FS_AddElement
    <3>3. QED
      BY <3>1, <3>2
  <2>2. queue'[h] = queue[h] \cup {t}
        /\ \A g \in Classes \ {h} : queue'[g] = queue[g]
    BY DEF PutToPipe, TypeOK
  <2>3. dead' = dead /\ dead[h] \in Nat /\ Cardinality(queue[h]) \in Nat
        /\ Cardinality(queue[h] \cup {t}) \in Nat
    BY QueueFinite, FS_AddElement, FS_CardinalityType DEF PutToPipe, TypeOK
  <2>4. Size(h)' <= Size(h) + 1
    BY <2>1, <2>2, <2>3 DEF Size
  <2>5. \A g \in Classes \ {h} : Size(g)' = Size(g) /\ Size(g) \in Nat
    BY <2>2, <2>3, QueueFinite DEF Size
  <2>6. Size(h)' \in Nat
    BY <2>2, <2>3 DEF Size
  <2>7. TryCheckPoint(h, t, Size(h) + 1, pcs) /\ UNCHANGED <<steady, kills>>
    BY DEF PutToPipe, env
  <2>8. \A g \in Classes : Size(g)' \in Nat
    BY <2>5, <2>6
  <2>9. \A g \in Classes \ {h} : Size(g)' <= Size(g)
    BY <2>5
  <2>10. QED
    BY <1>1, <2>4, <2>7, <2>8, <2>9, TryCheckPointCounts
<1>6. QED
  BY <1>2, <1>3, <1>4, <1>5

(* A ticket arrives at the stage.                                          *)
LEMMA PutStep ==
    ASSUME IInv, NEW t \in Tickets, NEW h \in Classes, Put(t, h)
    PROVE  IInv'
<1> USE DEF IInv
<1>1. SamePlaces(pc) /\ PutToPipe(t, h, pc) /\ UNCHANGED <<job, env>>
  BY DEF SamePlaces, TypeOK, PCs, Put
<1>2. job' \in [Threads -> Tickets \cup {NoTicket}]
  BY <1>1 DEF TypeOK
<1>3. /\ TypeOK' /\ BusyWorkersAgree' /\ KillAgrees'
      /\ SteadyCounts' /\ WorkNeverStranded'
      /\ \A th \in Threads : \/ pc'[th] = pc[th]
                             \/ pc[th] = "waiting" /\ pc'[th] = "signalled"
  BY <1>1, <1>2, PutToPipeStep
<1>4. PlacesAgree'
  <2>1. /\ queue' = [queue EXCEPT ![h] = @ \cup {t}]
        /\ place' = [place EXCEPT ![t] = h]
        /\ job' = job
    BY <1>1 DEF PutToPipe
  <2>2. place[t] = "none" /\ \A th \in Threads : job[th] # t
    BY DEF Put, Away
  <2>3. \A g \in Classes, u \in Tickets : u \in queue'[g] <=> place'[u] = g
    BY <2>1, <2>2 DEF TypeOK, PlacesAgree, Classes
  <2>4. \A th \in Threads : pc'[th] \in {"busy", "requeue"} <=> pc[th] \in {"busy", "requeue"}
    BY <1>3
  <2>5. QED
    BY <2>1, <2>2, <2>3, <2>4 DEF TypeOK, PlacesAgree
<1>5. QED
  BY <1>3, <1>4

(* A stopped job goes back to its queue.                                   *)
LEMMA RequeueStep ==
    ASSUME IInv, NEW th \in Threads, Requeue(th)
    PROVE  IInv'
<1> DEFINE t == job[th]
           h == ClassOf(th)
           pcs == [pc EXCEPT ![th] = "entering"]
<1> USE DEF IInv
<1>1. /\ t \in Tickets /\ h \in Classes /\ pc[th] = "requeue" /\ place[t] = "none"
      /\ \A u \in Threads \ {th} : job[u] # t
  BY ClassOfThread DEF Requeue, TypeOK, PlacesAgree
<1>2. SamePlaces(pcs) /\ PutToPipe(t, h, pcs) /\ UNCHANGED env
  BY <1>1 DEF SamePlaces, TypeOK, PCs, Requeue
<1>3. job' = [job EXCEPT ![th] = NoTicket]
  BY DEF Requeue
<1>4. job' \in [Threads -> Tickets \cup {NoTicket}]
  BY <1>3 DEF TypeOK
<1>5. \A u \in Threads : pc[u] = "off" => pcs[u] = "off"
  BY <1>1 DEF TypeOK
<1> HIDE DEF pcs, t, h
<1>6. /\ TypeOK' /\ BusyWorkersAgree' /\ KillAgrees'
      /\ SteadyCounts' /\ WorkNeverStranded'
      /\ \A u \in Threads : \/ pc'[u] = pcs[u]
                            \/ pcs[u] = "waiting" /\ pc'[u] = "signalled"
  BY <1>1, <1>2, <1>4, <1>5, PutToPipeStep
<1>7. PlacesAgree'
  <2>1. /\ queue' = [queue EXCEPT ![h] = @ \cup {t}]
        /\ place' = [place EXCEPT ![t] = h]
    BY <1>2 DEF PutToPipe
  <2>2. \A g \in Classes, u \in Tickets : u \in queue'[g] <=> place'[u] = g
    BY <1>1, <2>1 DEF TypeOK, PlacesAgree, Classes
  <2>3. \A u \in Threads :
          pc'[u] \in {"busy", "requeue"} <=> u # th /\ pc[u] \in {"busy", "requeue"}
    BY <1>6 DEF pcs, TypeOK
  <2>4. \A u \in Threads : job'[u] = IF u = th THEN NoTicket ELSE job[u]
    BY <1>3 DEF TypeOK
  <2>5. QED
    BY <1>1, <2>1, <2>2, <2>3, <2>4 DEF TypeOK, PlacesAgree
<1>8. QED
  BY <1>6, <1>7

(* The new priority is written to the ticket.                              *)
LEMMA RaisePriorityStep ==
    ASSUME IInv, NEW t \in Tickets, NEW p \in Priorities, RaisePriority(t, p)
    PROVE  IInv'
<1> USE DEF IInv
<1>1. UNCHANGED <<workers, threads, place, killing, toKill, kills>>
  BY DEF RaisePriority
<1>2. TypeOK'
  BY DEF RaisePriority, TypeOK, workers, threads
<1>3. PlacesAgree' /\ BusyWorkersAgree'
  BY <1>1 DEF PlacesAgree, BusyWorkersAgree, workers, threads
<1>4. KillAgrees'
  BY <1>1, KillGoesOn DEF workers, threads
<1>5. SteadyCounts' /\ WorkNeverStranded'
  BY <1>1, QuietCounts DEF workers, threads
<1>6. QED
  BY <1>2, <1>3, <1>4, <1>5

(* internal_changePriority: the three ways it can end have in common that  *)
(* they leave the jobs alone.                                              *)
ChangesPriority(t) ==
    /\ t \in Tickets
    /\ UNCHANGED <<dead, steady, job, priority, killing, toKill, kills>>
    /\ raising' = NoTicket

(* What the two that look for a worker have in common.                     *)
LEMMA CheckPointKeeps ==
    ASSUME IInv, NEW h \in Classes, NEW t \in Tickets, ChangesPriority(t),
           NEW size \in Nat, TryCheckPoint(h, t, size, pc),
           queue' \in [Classes -> SUBSET Tickets],
           place' \in [Tickets -> Classes \cup {"none"}],
           itemPriority' \in [Tickets -> Priorities]
    PROVE  /\ TypeOK' /\ BusyWorkersAgree' /\ KillAgrees'
           /\ \A th \in Threads :
                pc'[th] \in {"busy", "requeue"} <=> pc[th] \in {"busy", "requeue"}
<1> USE DEF IInv
<1>1. SamePlaces(pc)
  BY DEF SamePlaces, TypeOK, PCs
<1>2. /\ pc' \in [Threads -> PCs]
      /\ \A th \in Threads : \/ pc'[th] = pc[th]
                             \/ pc[th] = "waiting" /\ pc'[th] = "signalled"
      /\ checkpoint' \in [Threads -> BOOLEAN]
      /\ busyWorkers' \in [Classes -> SUBSET Threads]
      /\ busyPriority' \in [Threads -> Priorities]
      /\ BusyWorkersAgree'
  BY <1>1, TryCheckPointMoves
<1>3. TypeOK'
  BY <1>2 DEF ChangesPriority, TypeOK, PCs
<1>4. KillAgrees'
  <2>1. ASSUME NEW th \in Threads, pc[th] = "off"
        PROVE  pc'[th] = "off"
    BY <1>2, <2>1
  <2>2. QED
    BY <2>1, KillGoesOn DEF ChangesPriority
<1>5. QED
  BY <1>2, <1>3, <1>4

(* The ticket moves from the low to the high priority queue.               *)
LEMMA MoveToHighStep ==
    ASSUME IInv, NEW t \in Tickets, ChangesPriority(t), MoveToHigh(t)
    PROVE  IInv'
<1> USE DEF IInv
<1>1. /\ t \in queue["low"] /\ t \notin queue["high"] /\ place[t] = "low"
      /\ "low" \in Classes /\ "high" \in Classes
  BY DEF MoveToHigh, PlacesAgree, Classes
<1>2. /\ queue' = [queue EXCEPT !["low"] = @ \ {t}, !["high"] = @ \cup {t}]
      /\ place' = [place EXCEPT ![t] = "high"]
      /\ itemPriority' = [itemPriority EXCEPT ![t] = priority[t]]
      /\ TryCheckPoint("high", t, Size("high") + 1, pc)
  BY DEF MoveToHigh
<1>3. /\ queue' \in [Classes -> SUBSET Tickets]
      /\ place' \in [Tickets -> Classes \cup {"none"}]
      /\ itemPriority' \in [Tickets -> Priorities]
  BY <1>1, <1>2 DEF TypeOK
<1>4. Size("high") \in Nat /\ Size("high") + 1 \in Nat /\ Size("low") \in Nat
  BY <1>1, QueueFinite
<1>5. /\ TypeOK' /\ BusyWorkersAgree' /\ KillAgrees'
      /\ \A th \in Threads :
           pc'[th] \in {"busy", "requeue"} <=> pc[th] \in {"busy", "requeue"}
  BY <1>1, <1>2, <1>3, <1>4, CheckPointKeeps
<1>6. PlacesAgree'
  <2>1. \A g \in Classes, u \in Tickets : u \in queue'[g] <=> place'[u] = g
    BY <1>1, <1>2 DEF TypeOK, PlacesAgree, Classes
  <2>2. \A th \in Threads : job[th] # t
    BY <1>1, TicketsAssumption DEF PlacesAgree
  <2>3. job' = job
    BY DEF ChangesPriority
  <2>4. QED
    BY <1>2, <1>5, <2>1, <2>2, <2>3, SMTT(30) DEF TypeOK, PlacesAgree
<1>7. SteadyCounts' /\ WorkNeverStranded'
  <2>1. queue'["low"] = queue["low"] \ {t} /\ queue'["high"] = queue["high"] \cup {t}
    BY <1>1, <1>2 DEF TypeOK, Classes
  <2>2. /\ IsFiniteSet(queue["low"]) /\ Cardinality(queue["low"]) \in Nat
        /\ IsFiniteSet(queue["high"]) /\ Cardinality(queue["high"]) \in Nat
    BY <1>1, QueueFinite
  <2>3. Cardinality(queue["low"] \ {t}) = Cardinality(queue["low"]) - 1
    BY <1>1, <2>2, FS_RemoveElement
  <2>4. Cardinality(queue["high"] \cup {t}) = Cardinality(queue["high"]) + 1
    BY <1>1, <2>2, FS_AddElement
  <2>5. IsFiniteSet(queue["low"] \ {t}) /\ Cardinality(queue["low"] \ {t}) \in Nat
    BY <2>2, FS_RemoveElement, FS_CardinalityType
  <2>6. dead' = dead /\ dead["low"] \in Nat /\ dead["high"] \in Nat
    BY <1>1 DEF ChangesPriority, TypeOK
  <2>7. /\ Size("high")' = Size("high") + 1
        /\ Size("low")' = Size("low") - 1 /\ Size("low")' \in Nat
    BY <2>1, <2>2, <2>3, <2>4, <2>5, <2>6 DEF Size
  <2>8. \A g \in Classes \ {"high"} : Size(g)' <= Size(g)
    BY <1>4, <2>7 DEF Classes
  <2>9. \A g \in Classes : Size(g)' \in Nat
    BY <1>4, <2>7 DEF Classes
  <2>10. SamePlaces(pc)
    BY DEF SamePlaces, TypeOK, PCs
  <2>11. UNCHANGED <<steady, kills>>
    BY DEF ChangesPriority
  <2>12. QED
    BY <1>1, <1>2, <1>4, <2>7, <2>8, <2>9, <2>10, <2>11, TryCheckPointCounts
<1>8. QED
  BY <1>5, <1>6, <1>7

(* It stays in its queue: as many tickets as before, one more signal.      *)
LEMMA ChangeItemPriorityStep ==
    ASSUME IInv, NEW t \in Tickets, ChangesPriority(t), ChangeItemPriority(t)
    PROVE  IInv'
<1> USE DEF IInv
<1>1. PICK h \in Classes : place[t] = h /\ t \in queue[h]
  BY DEF ChangeItemPriority, PlacesAgree, Classes
<1>2. /\ itemPriority' = [itemPriority EXCEPT ![t] = priority[t]]
      /\ TryCheckPoint(h, t, Size(h), pc)
      /\ UNCHANGED <<queue, place>>
  BY <1>1 DEF ChangeItemPriority
<1>3. /\ queue' \in [Classes -> SUBSET Tickets]
      /\ place' \in [Tickets -> Classes \cup {"none"}]
      /\ itemPriority' \in [Tickets -> Priorities]
  BY <1>2 DEF TypeOK
<1>4. \A g \in Classes : Size(g) \in Nat /\ Size(g)' = Size(g)
  BY <1>2, QueueFinite DEF Size, ChangesPriority
<1>5. /\ TypeOK' /\ BusyWorkersAgree' /\ KillAgrees'
      /\ \A th \in Threads :
           pc'[th] \in {"busy", "requeue"} <=> pc[th] \in {"busy", "requeue"}
  BY <1>1, <1>2, <1>3, <1>4, CheckPointKeeps
<1>6. PlacesAgree'
  BY <1>2, <1>5 DEF PlacesAgree, ChangesPriority
<1>7. SteadyCounts' /\ WorkNeverStranded'
  <2>1. SamePlaces(pc) /\ UNCHANGED <<steady, kills>>
    BY DEF SamePlaces, TypeOK, PCs, ChangesPriority
  <2>2. /\ Size(h) - 1 <= Size(h) /\ Size(h)' <= Size(h)
        /\ \A g \in Classes \ {h} : Size(g)' <= Size(g)
        /\ \A g \in Classes : Size(g)' \in Nat
    BY <1>1, <1>4
  <2>3. QED
    BY <1>1, <1>2, <1>4, <2>1, <2>2, TryCheckPointCounts
<1>8. QED
  BY <1>5, <1>6, <1>7

(* A worker was faster.                                                    *)
LEMMA TooLateStep ==
    ASSUME IInv, NEW t \in Tickets, ChangesPriority(t), TooLate(t)
    PROVE  IInv'
<1> USE DEF IInv
<1>1. UNCHANGED <<queue, place, itemPriority, pc, checkpoint, busyWorkers,
                  busyPriority, dead, steady, job, priority, killing, toKill, kills>>
      /\ raising' = NoTicket
  BY DEF TooLate, ChangesPriority
<1>2. TypeOK' /\ PlacesAgree' /\ BusyWorkersAgree'
  BY <1>1 DEF TypeOK, PlacesAgree, BusyWorkersAgree
<1>3. KillAgrees' /\ SteadyCounts' /\ WorkNeverStranded'
  BY <1>1, KillGoesOn, QuietCounts
<1>4. QED
  BY <1>2, <1>3

(* internal_changePriority                                                 *)
LEMMA ChangePriorityStep ==
    ASSUME IInv, ChangePriority
    PROVE  IInv'
<1>1. raising \in Tickets
  BY DEF IInv, TypeOK, ChangePriority
<1>2. ChangesPriority(raising)
  BY <1>1 DEF ChangePriority, ChangesPriority
<1>3. QED
  BY <1>1, <1>2, MoveToHighStep, ChangeItemPriorityStep, TooLateStep
  DEF ChangePriority

-----------------------------------------------------------------------------
(* Threads are started, and killed.                                        *)

(* New threads come to an existing worker set.                             *)
LEMMA StartMoreThreadsStep ==
    ASSUME IInv, StartMoreThreads
    PROVE  IInv'
<1> USE DEF IInv
<1>1. /\ UNCHANGED <<workers, job, checkpoint, busyPriority, tickets, env>>
      /\ killing = "no"
      /\ pc' \in [Threads -> PCs]
      /\ \A th \in Threads :
           pc'[th] = pc[th] \/ (pc[th] = "off" /\ pc'[th] = "entering")
  BY ThreadsAssumption DEF StartMoreThreads, TypeOK, PCs, Threads
<1>2. TypeOK' /\ PlacesAgree' /\ BusyWorkersAgree'
  BY <1>1 DEF TypeOK, PlacesAgree, BusyWorkersAgree, PCs, workers, tickets, env
<1>3. KillAgrees'
  BY <1>1 DEF KillAgrees, workers, env
<1>4. SteadyCounts' /\ WorkNeverStranded'
  BY <1>1, QuietCounts DEF workers, env
<1>5. QED
  BY <1>2, <1>3, <1>4

(* internal_killILDJITPipe begins.                                         *)
LEMMA BeginKillStep ==
    ASSUME IInv, BeginKill
    PROVE  IInv'
<1> USE DEF IInv
<1>1. UNCHANGED <<workers, threads, tickets, raising>> /\ killing' = "high"
      /\ kills' = kills + 1 /\ toKill' = Cardinality(Alive("high"))
  BY DEF BeginKill
<1>2. toKill' \in Nat /\ kills' \in Nat /\ kills' # 0
  BY <1>1, Counts DEF TypeOK, Classes
<1>3. TypeOK' /\ PlacesAgree' /\ BusyWorkersAgree'
  BY <1>1, <1>2 DEF TypeOK, PlacesAgree, BusyWorkersAgree, workers, threads, tickets
<1>4. KillAgrees'
  BY <1>1, <1>2 DEF KillAgrees
<1>5. SteadyCounts' /\ WorkNeverStranded'
  BY <1>1, <1>2, QuietCounts DEF workers, threads
<1>6. QED
  BY <1>3, <1>4, <1>5

(* A NULL ticket is always signalled: it serves a sleeping thread if there *)
(* is one.                                                                 *)
LEMMA PutDeadStep ==
    ASSUME IInv, PutDead
    PROVE  IInv'
<1> USE DEF IInv
<1>0. PICK h \in Classes : killing = h
  BY DEF PutDead, TypeOK, Classes
<1>1. toKill - 1 \in Nat /\ kills # 0 /\ dead[h] \in Nat
  BY <1>0 DEF PutDead, TypeOK, KillAgrees, Classes
<1>2. SamePlaces(pc) /\ Signal(h, pc)
  BY <1>0 DEF SamePlaces, TypeOK, PCs, PutDead
<1>3. /\ dead' = [dead EXCEPT ![h] = @ + 1] /\ toKill' = toKill - 1
      /\ UNCHANGED <<queue, steady, busyWorkers, job, checkpoint, busyPriority,
                     tickets, raising, killing, kills>>
  BY <1>0 DEF PutDead
<1>4. /\ pc' \in [Threads -> PCs]
      /\ \A th \in Threads : \/ pc'[th] = pc[th]
                             \/ pc[th] = "waiting" /\ pc'[th] = "signalled"
  BY <1>1, <1>2, SignalMoves
<1>5. TypeOK' /\ PlacesAgree' /\ BusyWorkersAgree'
  <2>1. TypeOK'
    BY <1>1, <1>3, <1>4 DEF TypeOK, PCs, tickets
  <2>2. PlacesAgree'
    BY <1>3, <1>4 DEF PlacesAgree, tickets
  <2>3. BusyWorkersAgree'
    BY <1>3, <1>4 DEF BusyWorkersAgree
  <2>4. QED
    BY <2>1, <2>2, <2>3
<1>6. KillAgrees'
  <2>1. \A th \in Threads : pc[th] = "off" => pc'[th] = "off"
    BY <1>4
  <2>2. Alive("high") = {} => Alive("high")' = {}
    BY <2>1, ThreadsFinite DEF Alive, Classes
  <2>3. QED
    BY <1>1, <1>3, <2>2 DEF KillAgrees
<1>7. ASSUME NEW g \in Classes
      PROVE  CountsOf(g)' /\ Served(g)'
  <2>1. /\ Cardinality(Waiting(g)) \in Nat /\ Cardinality(Signalled(g)) \in Nat
        /\ Size(g) \in Nat
    BY Counts, QueueFinite
  <2>2. CASE Waiting(h) = {} \/ g # h
    <3>1. Waiting(g)' = Waiting(g) /\ Signalled(g)' = Signalled(g)
      BY <1>1, <1>2, <2>2, SignalCounts
    <3>2. g # h => Size(g)' = Size(g)
      BY <1>3 DEF Size, TypeOK
    <3>3. QED
      BY <1>3, <2>2, <3>1, <3>2
      DEF CountsOf, Served, SteadyCounts, WorkNeverStranded
  <2>3. CASE Waiting(h) # {} /\ g = h
    <3>1. /\ Cardinality(Waiting(h)') = Cardinality(Waiting(h)) - 1
          /\ Cardinality(Signalled(h)') = Cardinality(Signalled(h)) + 1
      BY <1>1, <1>2, <2>3, SignalCounts
    <3>2. Size(h)' = Size(h) + 1
      <4>1. dead'[h] = dead[h] + 1 /\ queue' = queue
        BY <1>1, <1>3 DEF TypeOK
      <4>2. Cardinality(queue[h]) \in Nat
        BY <1>1, QueueFinite
      <4>3. QED
        BY <1>1, <4>1, <4>2 DEF Size
    <3>3. CountsOf(h)'
      BY <1>1, <1>3, <2>1, <2>3, <3>1 DEF CountsOf, SteadyCounts, TypeOK
    <3>4. Served(h)'
      BY <1>1, <2>1, <2>3, <3>1, <3>2 DEF Served, WorkNeverStranded
    <3>5. QED
      BY <2>3, <3>3, <3>4
  <2>4. QED
    BY <2>2, <2>3
<1>8. QED
  BY <1>5, <1>6, <1>7 DEF SteadyCounts, WorkNeverStranded, CountsOf, Served

(* The high priority threads are joined.                                   *)
LEMMA JoinHighStep ==
    ASSUME IInv, JoinHigh
    PROVE  IInv'
<1> USE DEF IInv
<1>1. /\ UNCHANGED <<workers, threads, tickets, raising, kills>>
      /\ killing = "high" /\ Alive("high") = {}
      /\ killing' = "low" /\ toKill' = Cardinality(Alive("low"))
  BY DEF JoinHigh
<1>2. toKill' \in Nat
  BY <1>1, Counts DEF Classes
<1>3. TypeOK' /\ PlacesAgree' /\ BusyWorkersAgree'
  BY <1>1, <1>2 DEF TypeOK, PlacesAgree, BusyWorkersAgree, workers, threads, tickets
<1>4. KillAgrees'
  BY <1>1, ThreadsFinite DEF KillAgrees, Alive, Classes, threads
<1>5. SteadyCounts' /\ WorkNeverStranded'
  BY <1>1, QuietCounts DEF workers, threads
<1>6. QED
  BY <1>3, <1>4, <1>5

(* With the low priority threads joined too, all threads are off, and the  *)
(* first ones can be started again.                                        *)
LEMMA JoinLowStep ==
    ASSUME IInv, JoinLow
    PROVE  IInv'
<1> USE DEF IInv
<1>1. /\ UNCHANGED <<workers, job, checkpoint, busyPriority, tickets, raising,
                     toKill, kills>>
      /\ killing = "low" /\ Alive("low") = {} /\ killing' = "no"
      /\ pc' \in [Threads -> PCs]
      /\ \A th \in Threads : pc'[th] \in {"entering", "off"}
  BY DEF JoinLow, PCs
<1>2. kills # 0
  BY <1>1 DEF KillAgrees
<1>3. \A th \in Threads : pc[th] = "off"
  BY <1>1 DEF KillAgrees, Alive, ThreadsOf, Threads
<1>4. TypeOK' /\ PlacesAgree' /\ BusyWorkersAgree'
  <2>1. TypeOK'
    BY <1>1 DEF TypeOK, PCs, workers, tickets
  <2>2. PlacesAgree'
    BY <1>1, <1>3 DEF PlacesAgree, workers, tickets
  <2>3. BusyWorkersAgree'
    BY <1>1, <1>3 DEF BusyWorkersAgree, workers
  <2>4. QED
    BY <2>1, <2>2, <2>3
<1>5. KillAgrees'
  BY <1>1, <1>2 DEF KillAgrees
<1>6. SteadyCounts' /\ WorkNeverStranded'
  BY <1>1, <1>3, QuietCounts DEF workers
<1>7. QED
  BY <1>4, <1>5, <1>6

-----------------------------------------------------------------------------
(* The invariant holds of a stage whose threads have just been started.    *)
LEMMA InitIInv == Init => IInv
<1> SUFFICES ASSUME Init PROVE IInv
  OBVIOUS
<1>1. \A h \in Classes : Waiting(h) = {} /\ Signalled(h) = {}
  BY ThreadsFinite DEF Init, Waiting, Signalled
<1>2. TypeOK
  BY PriorityAssumption DEF Init, TypeOK, Priorities
<1>3. PlacesAgree /\ BusyWorkersAgree
  BY DEF Init, PlacesAgree, BusyWorkersAgree, Classes
<1>4. KillAgrees
  BY DEF Init, KillAgrees
<1>5. SteadyCounts /\ WorkNeverStranded
  <2>1. \A h \in Classes : Cardinality(Waiting(h)) = 0 /\ Cardinality(Signalled(h)) = 0
    BY <1>1, FS_EmptySet
  <2>2. \A h \in Classes : steady[h] = 0
    BY DEF Init
  <2>3. QED
    BY <1>1, <2>1, <2>2 DEF SteadyCounts, WorkNeverStranded
<1>6. QED
  BY <1>2, <1>3, <1>4, <1>5 DEF IInv

(* internal_pipe_get_job, from its start or from its wakeup.               *)
LEMMA GetJobStep ==
    ASSUME IInv, NEW th \in Threads, GetJob(th) \/ WakeUp(th)
    PROVE  IInv'
<1>1. PICK steadyNow \in {steady[ClassOf(th)], steady[ClassOf(th)] + 1} :
        /\ Comes(th, steadyNow)
        /\ \/ Sleep(th, ClassOf(th), steadyNow)
           \/ TakeDead(th, ClassOf(th), steadyNow)
           \/ TakeTicket(th, ClassOf(th), steadyNow)
  BY DEF GetJob, WakeUp, Comes
<1>2. QED
  BY <1>1, SleepStep, TakeDeadStep, TakeTicketStep

(* Every step preserves the invariant.                                     *)
LEMMA NextIInv == IInv /\ [Next]_vars => IInv'
<1> SUFFICES ASSUME IInv, [Next]_vars
             PROVE  IInv'
  OBVIOUS
<1>1. ASSUME NEW th \in Threads, Worker(th)
      PROVE  IInv'
  BY <1>1, GetJobStep, EndJobStep, RequeueStep DEF Worker
<1>2. ASSUME NEW t \in Tickets, NEW h \in Classes, Put(t, h)
      PROVE  IInv'
  BY <1>2, PutStep
<1>3. ASSUME NEW t \in Tickets, NEW p \in Priorities, RaisePriority(t, p)
      PROVE  IInv'
  BY <1>3, RaisePriorityStep
<1>4. CASE ChangePriority
  BY <1>4, ChangePriorityStep
<1>5. CASE StartMoreThreads
  BY <1>5, StartMoreThreadsStep
<1>6. CASE Kill
  BY <1>6, BeginKillStep, PutDeadStep, JoinHighStep, JoinLowStep DEF Kill
<1>7. CASE UNCHANGED vars
  <2>1. UNCHANGED <<workers, threads, tickets, env>>
    BY <1>7 DEF vars
  <2>2. TypeOK' /\ PlacesAgree' /\ BusyWorkersAgree'
    BY <2>1 DEF IInv, TypeOK, PlacesAgree, BusyWorkersAgree,
                workers, threads, tickets, env
  <2>3. KillAgrees' /\ SteadyCounts' /\ WorkNeverStranded'
    BY <2>1, KillGoesOn, QuietCounts DEF workers, threads, env
  <2>4. QED
    BY <2>2, <2>3 DEF IInv
<1>8. QED
  BY <1>1, <1>2, <1>3, <1>4, <1>5, <1>6, <1>7 DEF Next

(* Whatever the threads of a stage do, its invariant holds.                *)
THEOREM Invariance == Spec => []IInv
BY InitIInv, NextIInv, PTL DEF Spec

(* The stage's variables have their types: steadyThreadsCount, which       *)
(* internal_pipe_get_job decrements, never becomes negative.               *)
THEOREM TypeCorrect == Spec => []TypeOK
<1>1. IInv => TypeOK
  BY DEF IInv
<1>2. QED
  BY <1>1, Invariance, PTL

(* internal_tryCheckPoint loses no wakeup: while a thread sleeps on a      *)
(* queue, each ticket in the queue has a thread on its way.                *)
THEOREM NoWorkStranded == Spec => []WorkNeverStranded
<1>1. IInv => WorkNeverStranded
  BY DEF IInv
<1>2. QED
  BY <1>1, Invariance, PTL

(* A ticket is in one place: the queue its inPipe and inHighPriorityPipe   *)
(* name, or the hands of one worker.                                       *)
THEOREM OnePlace == Spec => []PlacesAgree
<1>1. IInv => PlacesAgree
  BY DEF IInv
<1>2. QED
  BY <1>1, Invariance, PTL

(* busyWorkers holds the workers with a job that were not asked for a      *)
(* checkpoint, so internal_tryCheckPoint asks no worker that has moved on. *)
THEOREM BusyWorkersExact == Spec => []BusyWorkersAgree
<1>1. IInv => BusyWorkersAgree
  BY DEF IInv
<1>2. QED
  BY <1>1, Invariance, PTL

(* steadyThreadsCount counts the threads in internal_pipe_get_job, and is  *)
(* exact until NULL tickets end threads.                                   *)
THEOREM SteadyExact == Spec => []SteadyCounts
<1>1. IInv => SteadyCounts
  BY DEF IInv
<1>2. QED
  BY <1>1, Invariance, PTL

-----------------------------------------------------------------------------
(* A stage implements AbstractStage: every step of a worker set, of a kill *)
(* or of the environment is a step of the abstract stage or leaves it as   *)
(* it is.  IInv has what this needs: a ticket is in one place, and only a  *)
(* thread that is at work has one.                                         *)

(* What the abstract stage sees of the threads.                            *)
HandOf     == [h \in Classes |-> Hand(h)]
CapacityOf == [h \in Classes |-> Cardinality(Alive(h))]

Same    == UNCHANGED <<queue, HandOf, CapacityOf>>
Refines == [Stage!Next]_(Stage!vars)

(* Both modules have the same classes.                                     *)
LEMMA StageClasses == Stage!Classes = Classes
BY DEF Stage!Classes, Classes

(* The abstract stage counts as this module does.                          *)
LEMMA StageCounts == ASSUME NEW S PROVE Stage!Cardinality(S) = Cardinality(S)
BY DEF Stage!Cardinality, Cardinality

(* A step that the abstract stage does not see.                            *)
LEMMA SameRefines == ASSUME Same PROVE Refines
BY DEF Same, Refines, HandOf, CapacityOf, Stage!vars

(* A step that starts and ends no thread.                                  *)
LEMMA CapacityKept ==
    ASSUME \A th \in Threads : pc'[th] = "off" <=> pc[th] = "off"
    PROVE  CapacityOf' = CapacityOf
<1>1. ASSUME NEW h \in Classes PROVE Alive(h)' = Alive(h)
  BY ThreadsFinite DEF Alive
<1>2. QED
  BY <1>1 DEF CapacityOf

(* A step that gives no worker a ticket and takes none away.               *)
LEMMA HandsKept == ASSUME UNCHANGED job PROVE HandOf' = HandOf
BY DEF HandOf, Hand

(* No more tickets are in the hands of threads than there are threads, by  *)
(* whatever function j says what they work on.                             *)
LEMMA JobsFit ==
    ASSUME NEW h \in Classes, NEW j, NEW S, IsFiniteSet(S),
           \A u \in ThreadsOf(h) : j[u] # NoTicket => u \in S
    PROVE  LET T == {j[th] : th \in {u \in ThreadsOf(h) : j[u] # NoTicket}}
           IN  /\ Cardinality(T) \in Nat /\ Cardinality(S) \in Nat
               /\ Cardinality(T) <= Cardinality(S)
<1> DEFINE B == {u \in ThreadsOf(h) : j[u] # NoTicket}
           T == {j[th] : th \in B}
           f == [u \in B |-> j[u]]
<1>1. IsFiniteSet(B) /\ Cardinality(B) <= Cardinality(S)
  BY FS_Subset
<1>2. f \in Surjection(B, T)
  BY DEF Surjection
<1>3. IsFiniteSet(T) /\ Cardinality(T) <= Cardinality(B)
  BY <1>1, <1>2, FS_Surjection
<1>4. Cardinality(T) \in Nat /\ Cardinality(B) \in Nat /\ Cardinality(S) \in Nat
  BY <1>1, <1>3, FS_CardinalityType
<1>5. QED
  BY <1>1, <1>3, <1>4

(* Only a living thread has a ticket.                                      *)
LEMMA HandsLive ==
    ASSUME PlacesAgree, NEW h \in Classes, NEW u \in ThreadsOf(h), job[u] # NoTicket
    PROVE  u \in Alive(h)
BY ThreadsFinite DEF PlacesAgree, Alive

(* Threads come or go.                                                     *)
LEMMA ResizeRefines ==
    ASSUME PlacesAgree', UNCHANGED <<queue, job>>
    PROVE  Refines
<1>1. HandOf' = HandOf
  BY HandsKept
<1>2. ASSUME NEW h \in Classes
      PROVE  /\ Cardinality(Alive(h)') \in Nat
             /\ Cardinality(Alive(h)') >= Cardinality(Hand(h)')
  <2>1. \A u \in ThreadsOf(h) : job'[u] # NoTicket => u \in Alive(h)'
    BY ThreadsFinite DEF PlacesAgree, Alive
  <2>2. IsFiniteSet(Alive(h)')
    <3>1. Alive(h)' \in SUBSET ThreadsOf(h)
      BY DEF Alive
    <3>2. QED
      BY <3>1, ThreadsFinite, FS_Subset
  <2>3. Hand(h)' = {job'[th] : th \in {u \in ThreadsOf(h) : job'[u] # NoTicket}}
    BY DEF Hand
  <2>4. /\ Cardinality(Hand(h)') \in Nat /\ Cardinality(Alive(h)') \in Nat
        /\ Cardinality(Hand(h)') <= Cardinality(Alive(h)')
    BY <2>1, <2>2, <2>3, JobsFit
  <2>5. QED
    BY <2>4
<1>3. Stage!Resize
  <2>1. CapacityOf' \in [Classes -> Nat]
    BY <1>2 DEF CapacityOf
  <2>2. \A h \in Classes : CapacityOf'[h] >= Cardinality(HandOf[h])
    BY <1>1, <1>2 DEF CapacityOf, HandOf
  <2>3. [h \in Classes |-> Cardinality(Alive(h))]' \in [Stage!Classes -> Nat]
    BY <2>1, StageClasses DEF CapacityOf
  <2>4. \A h \in Stage!Classes : [g \in Classes |-> Cardinality(Alive(g))]'[h]
            >= Cardinality([g \in Classes |-> Hand(g)][h])
    BY <2>2, StageClasses DEF CapacityOf, HandOf
  <2>5. UNCHANGED <<queue, [g \in Classes |-> Hand(g)]>>
    BY <1>1 DEF HandOf
  <2>6. QED
    BY <2>3, <2>4, <2>5, StageCounts DEF Stage!Resize
<1>4. QED
  BY <1>3 DEF Refines, Stage!Next

-----------------------------------------------------------------------------
(* The hands of both classes after t was given to thread th.               *)
LEMMA HandGains ==
    ASSUME TypeOK, NEW th \in Threads, NEW t \in Tickets, job[th] = NoTicket,
           job' = [job EXCEPT ![th] = t]
    PROVE  HandOf' = [HandOf EXCEPT ![ClassOf(th)] = @ \cup {t}]
<1>1. ASSUME NEW h \in Classes
      PROVE  Hand(h)' = IF h = ClassOf(th) THEN Hand(h) \cup {t} ELSE Hand(h)
  <2>1. \A u \in ThreadsOf(h) : job'[u] = IF u = th THEN t ELSE job[u]
    BY ThreadsFinite DEF TypeOK
  <2>2. CASE h = ClassOf(th)
    <3>1. th \in ThreadsOf(h)
      BY <2>2, ClassOfThread
    <3>2. QED
      BY <2>1, <2>2, <3>1, TicketsAssumption DEF Hand
  <2>3. CASE h # ClassOf(th)
    <3>1. th \notin ThreadsOf(h)
      BY <2>3, ThreadsFinite
    <3>2. QED
      BY <2>1, <2>3, <3>1 DEF Hand
  <2>4. QED
    BY <2>2, <2>3
<1>2. QED
  BY <1>1, ClassOfThread DEF HandOf

(* Likewise for the ticket that is taken from it.                          *)
LEMMA HandLoses ==
    ASSUME TypeOK, PlacesAgree, NEW th \in Threads, job[th] # NoTicket,
           job' = [job EXCEPT ![th] = NoTicket]
    PROVE  HandOf' = [HandOf EXCEPT ![ClassOf(th)] = @ \ {job[th]}]
<1>1. ASSUME NEW h \in Classes
      PROVE  Hand(h)' = IF h = ClassOf(th) THEN Hand(h) \ {job[th]} ELSE Hand(h)
  <2>1. \A u \in ThreadsOf(h) : job'[u] = IF u = th THEN NoTicket ELSE job[u]
    BY ThreadsFinite DEF TypeOK
  <2>2. \A u \in ThreadsOf(h) : u # th => job[u] # job[th]
    BY ThreadsFinite DEF PlacesAgree
  <2>3. CASE h = ClassOf(th)
    BY <2>1, <2>2, <2>3 DEF Hand
  <2>4. CASE h # ClassOf(th)
    <3>1. th \notin ThreadsOf(h)
      BY <2>4, ThreadsFinite
    <3>2. QED
      BY <2>1, <2>4, <3>1 DEF Hand
  <2>5. QED
    BY <2>3, <2>4
<1>2. QED
  BY <1>1, ClassOfThread DEF HandOf

(* A ticket is in one queue or one hand at most.                           *)
LEMMA InsideOnce ==
    ASSUME TypeOK, PlacesAgree, NEW t \in Tickets
    PROVE  /\ \A h \in Classes : t \in queue[h] <=> place[t] = h
           /\ \A h \in Classes : t \in Hand(h) =>
                 place[t] = "none" /\ \E th \in ThreadsOf(h) : job[th] = t
<1>1. \A h \in Classes : t \in queue[h] <=> place[t] = h
  BY DEF PlacesAgree
<1>2. ASSUME NEW h \in Classes, t \in Hand(h)
      PROVE  place[t] = "none" /\ \E th \in ThreadsOf(h) : job[th] = t
  BY <1>2, ThreadsFinite DEF Hand, PlacesAgree
<1>3. QED
  BY <1>1, <1>2

(* What the checkpoint request of internal_tryCheckPoint does to a thread  *)
(* is nothing that the abstract stage sees.                                *)
LEMMA CheckPointUnseen ==
    ASSUME IInv, NEW h \in Classes, NEW t \in Tickets, NEW size \in Nat,
           NEW pcs, SamePlaces(pcs), TryCheckPoint(h, t, size, pcs),
           \A th \in Threads : pcs[th] = "off" <=> pc[th] = "off"
    PROVE  CapacityOf' = CapacityOf
<1>1. \A th \in Threads : \/ pc'[th] = pcs[th]
                          \/ pcs[th] = "waiting" /\ pc'[th] = "signalled"
  BY TryCheckPointMoves DEF IInv
<1>2. QED
  BY <1>1, CapacityKept

-----------------------------------------------------------------------------
(* A worker finds nothing in its queue, and sleeps.                        *)
LEMMA SleepRefines ==
    ASSUME IInv, NEW th \in Threads, NEW steadyNow, Comes(th, steadyNow),
           Sleep(th, ClassOf(th), steadyNow)
    PROVE  Refines
<1>1. CapacityOf' = CapacityOf
  BY CapacityKept DEF IInv, TypeOK, Comes, Sleep
<1>2. HandOf' = HandOf
  BY HandsKept DEF Sleep
<1>3. QED
  BY <1>1, <1>2, SameRefines DEF Same, Sleep

(* It takes a NULL ticket, and ends.                                       *)
LEMMA TakeDeadRefines ==
    ASSUME IInv, IInv', NEW th \in Threads, NEW steadyNow,
           TakeDead(th, ClassOf(th), steadyNow)
    PROVE  Refines
BY ResizeRefines DEF IInv, TakeDead

(* It takes a ticket: it was free, so the hand had room.                   *)
LEMMA TakeTicketRefines ==
    ASSUME IInv, NEW th \in Threads, NEW steadyNow, Comes(th, steadyNow),
           TakeTicket(th, ClassOf(th), steadyNow)
    PROVE  Refines
<1> DEFINE h == ClassOf(th)
<1>1. h \in Classes /\ th \in ThreadsOf(h) /\ TypeOK /\ PlacesAgree
  BY ClassOfThread DEF IInv
<1>2. PICK t \in queue[h] :
         /\ queue' = [queue EXCEPT ![h] = @ \ {t}]
         /\ job' = [job EXCEPT ![th] = t]
  BY DEF TakeTicket, Head
<1>3. t \in Tickets /\ job[th] = NoTicket /\ pc[th] # "off"
  BY <1>1 DEF TypeOK, PlacesAgree, Comes
<1>4. HandOf' = [HandOf EXCEPT ![h] = @ \cup {t}]
  BY <1>1, <1>2, <1>3, HandGains
<1>5. CapacityOf' = CapacityOf
  BY <1>3, CapacityKept DEF TakeTicket, IInv, TypeOK
<1>6. Cardinality(Hand(h)) < Cardinality(Alive(h))
  <2> DEFINE S == Alive(h) \ {th}
  <2>1. IsFiniteSet(Alive(h)) /\ Cardinality(Alive(h)) \in Nat /\ th \in Alive(h)
    BY <1>1, <1>3, Counts DEF Alive
  <2>2. IsFiniteSet(S) /\ Cardinality(S) = Cardinality(Alive(h)) - 1
    BY <2>1, FS_RemoveElement
  <2>3. \A u \in ThreadsOf(h) : job[u] # NoTicket => u \in S
    BY <1>1, <1>3, HandsLive
  <2>4. Hand(h) = {job[u] : u \in {v \in ThreadsOf(h) : job[v] # NoTicket}}
    BY DEF Hand
  <2> HIDE DEF S, h
  <2>5. /\ Cardinality(Hand(h)) \in Nat /\ Cardinality(S) \in Nat
        /\ Cardinality(Hand(h)) <= Cardinality(S)
    BY <1>1, <2>2, <2>3, <2>4, JobsFit
  <2>6. QED
    BY <2>1, <2>2, <2>5
<1>7. Stage!Take(t, h)
  <2>1. Stage!Cardinality([g \in Classes |-> Hand(g)][h])
           < [g \in Classes |-> Cardinality(Alive(g))][h]
    BY <1>1, <1>6, StageCounts
  <2>2. QED
    BY <1>2, <1>4, <1>5, <2>1 DEF Stage!Take, HandOf, CapacityOf
<1>8. QED
  BY <1>1, <1>3, <1>7, StageClasses DEF Refines, Stage!Next

(* A job ends, or its worker is about to put the ticket back.              *)
LEMMA EndJobRefines ==
    ASSUME IInv, NEW th \in Threads, EndJob(th)
    PROVE  Refines
<1> DEFINE h == ClassOf(th)
<1>1. h \in Classes /\ th \in ThreadsOf(h) /\ TypeOK /\ PlacesAgree
  BY ClassOfThread DEF IInv
<1>2. CapacityOf' = CapacityOf
  BY CapacityKept DEF IInv, TypeOK, EndJob
<1>3. CASE job' = job
  <2>1. HandOf' = HandOf
    BY <1>3, HandsKept
  <2>2. QED
    BY <1>2, <2>1, SameRefines DEF Same, EndJob
<1>4. CASE job' = [job EXCEPT ![th] = NoTicket]
  <2>1. job[th] \in Tickets /\ job[th] # NoTicket
    BY <1>1 DEF EndJob, TypeOK, PlacesAgree
  <2>2. HandOf' = [HandOf EXCEPT ![h] = @ \ {job[th]}]
    BY <1>1, <1>4, <2>1, HandLoses
  <2>3. job[th] \in HandOf[h]
    BY <1>1, <2>1 DEF HandOf, Hand
  <2>4. Stage!Finish(job[th], h)
    BY <1>2, <2>2, <2>3 DEF Stage!Finish, HandOf, CapacityOf, EndJob
  <2>5. QED
    BY <1>1, <2>1, <2>4, StageClasses DEF Refines, Stage!Next
<1>5. QED
  BY <1>3, <1>4 DEF EndJob

(* It is back in the queue it came from.                                   *)
LEMMA RequeueRefines ==
    ASSUME IInv, NEW th \in Threads, Requeue(th)
    PROVE  Refines
<1> DEFINE h == ClassOf(th)
           pcs == [pc EXCEPT ![th] = "entering"]
<1>1. h \in Classes /\ th \in ThreadsOf(h) /\ TypeOK /\ PlacesAgree
  BY ClassOfThread DEF IInv
<1>2. job[th] \in Tickets /\ job[th] # NoTicket
  BY <1>1 DEF Requeue, TypeOK, PlacesAgree
<1>3. /\ queue' = [queue EXCEPT ![h] = @ \cup {job[th]}]
      /\ TryCheckPoint(h, job[th], Size(h) + 1, pcs)
  BY DEF Requeue, PutToPipe
<1>4. SamePlaces(pcs) /\ \A u \in Threads : pcs[u] = "off" <=> pc[u] = "off"
  BY <1>1 DEF SamePlaces, TypeOK, PCs, Requeue
<1>5. CapacityOf' = CapacityOf
  <2>1. Size(h) + 1 \in Nat
    BY <1>1, QueueFinite
  <2> HIDE DEF pcs, h
  <2>2. QED
    BY <1>1, <1>2, <1>3, <1>4, <2>1, CheckPointUnseen
<1>6. HandOf' = [HandOf EXCEPT ![h] = @ \ {job[th]}]
  BY <1>1, <1>2, HandLoses DEF Requeue
<1>7. job[th] \in HandOf[h]
  BY <1>1, <1>2 DEF HandOf, Hand
<1>8. Stage!PutBack(job[th], h)
  BY <1>3, <1>5, <1>6, <1>7 DEF Stage!PutBack, HandOf, CapacityOf
<1>9. QED
  BY <1>1, <1>2, <1>8, StageClasses DEF Refines, Stage!Next

(* The steps of a worker together.                                         *)
LEMMA WorkerRefines ==
    ASSUME IInv, IInv', NEW th \in Threads, Worker(th)
    PROVE  Refines
<1>1. CASE GetJob(th)
  BY <1>1, SleepRefines, TakeDeadRefines, TakeTicketRefines DEF GetJob, Comes
<1>2. CASE WakeUp(th)
  BY <1>2, SleepRefines, TakeDeadRefines, TakeTicketRefines DEF WakeUp, Comes
<1>3. QED
  BY <1>1, <1>2, EndJobRefines, RequeueRefines DEF Worker

-----------------------------------------------------------------------------
(* A ticket arrives.                                                       *)
LEMMA PutRefines ==
    ASSUME IInv, NEW t \in Tickets, NEW h \in Classes, Put(t, h)
    PROVE  Refines
<1>1. TypeOK /\ PlacesAgree
  BY DEF IInv
<1>2. queue' = [queue EXCEPT ![h] = @ \cup {t}] /\ TryCheckPoint(h, t, Size(h) + 1, pc)
  BY DEF Put, PutToPipe
<1>3. HandOf' = HandOf
  BY HandsKept DEF Put
<1>4. CapacityOf' = CapacityOf
  <2>1. Size(h) + 1 \in Nat
    BY <1>1, QueueFinite
  <2>2. SamePlaces(pc)
    BY <1>1 DEF SamePlaces, TypeOK, PCs
  <2>3. QED
    BY <1>2, <2>1, <2>2, CheckPointUnseen
<1>5. \A g \in Classes : t \notin queue[g] /\ t \notin HandOf[g]
  BY <1>1, InsideOnce, ThreadsFinite DEF Put, Away, HandOf, Classes
<1>6. Stage!Put(t, h)
  <2>1. t \notin Stage!Inside
    BY <1>5, StageClasses DEF Stage!Inside, HandOf
  <2>2. QED
    BY <1>2, <1>3, <1>4, <2>1 DEF Stage!Put, HandOf, CapacityOf
<1>7. QED
  BY <1>6, StageClasses DEF Refines, Stage!Next

(* A new priority moves a ticket to the other queue, or nothing.           *)
LEMMA ChangePriorityRefines ==
    ASSUME IInv, ChangePriority
    PROVE  Refines
<1> DEFINE t == raising
<1>1. TypeOK /\ PlacesAgree /\ t \in Tickets /\ SamePlaces(pc)
  BY DEF IInv, TypeOK, ChangePriority, SamePlaces, PCs
<1>2. HandOf' = HandOf
  BY HandsKept DEF ChangePriority
<1>3. \A h \in Classes : Size(h) \in Nat /\ Size(h) + 1 \in Nat
  BY <1>1, QueueFinite
<1>4. CASE MoveToHigh(t)
  <2>1. CapacityOf' = CapacityOf
    BY <1>1, <1>3, <1>4, CheckPointUnseen DEF MoveToHigh, Classes
  <2>2. t \in queue["low"]
    BY <1>1, <1>4 DEF MoveToHigh, PlacesAgree, Classes
  <2>3. Stage!Promote(t)
    BY <1>2, <1>4, <2>1, <2>2 DEF Stage!Promote, MoveToHigh, HandOf, CapacityOf
  <2>4. QED
    BY <1>1, <2>3 DEF Refines, Stage!Next
<1>5. CASE ChangeItemPriority(t)
  <2>1. CapacityOf' = CapacityOf
    BY <1>1, <1>3, <1>5, CheckPointUnseen DEF ChangeItemPriority, Classes
  <2>2. QED
    BY <1>2, <1>5, <2>1, SameRefines DEF Same, ChangeItemPriority
<1>6. CASE TooLate(t)
  <2>1. CapacityOf' = CapacityOf
    BY <1>6, CapacityKept DEF TooLate
  <2>2. QED
    BY <1>2, <1>6, <2>1, SameRefines DEF Same, TooLate
<1>7. QED
  BY <1>4, <1>5, <1>6 DEF ChangePriority

(* A priority before it reaches a queue, and the steps of a kill that only *)
(* count and signal.                                                       *)
LEMMA UnseenRefines ==
    ASSUME IInv,
           \/ \E t \in Tickets, p \in Priorities : RaisePriority(t, p)
           \/ BeginKill \/ PutDead \/ JoinHigh
    PROVE  Refines
<1>1. queue' = queue /\ job' = job
  BY DEF RaisePriority, BeginKill, PutDead, JoinHigh, workers, threads
<1>2. \A th \in Threads : pc'[th] = "off" <=> pc[th] = "off"
  <2>1. CASE PutDead
    BY <2>1, ThreadsFinite DEF PutDead, Signal, Waiting, IInv, TypeOK, Classes
  <2>2. CASE UNCHANGED pc
    BY <2>2
  <2>3. QED
    BY <2>1, <2>2 DEF RaisePriority, BeginKill, JoinHigh, threads
<1>3. QED
  BY <1>1, <1>2, CapacityKept, HandsKept, SameRefines DEF Same

(* Every step of the stage is one of the abstract stage, or none.          *)
LEMMA NextRefines == ASSUME IInv, IInv', [Next]_vars PROVE Refines
<1>1. CASE UNCHANGED vars
  <2>1. queue' = queue /\ job' = job /\ pc' = pc
    BY <1>1 DEF vars, workers, threads
  <2>2. QED
    BY <2>1, CapacityKept, HandsKept, SameRefines DEF Same
<1>2. CASE StartMoreThreads
  BY <1>2, ResizeRefines DEF StartMoreThreads, workers, IInv
<1>3. CASE JoinLow
  BY <1>3, ResizeRefines DEF JoinLow, workers, IInv
<1>4. QED
  BY <1>1, <1>2, <1>3, WorkerRefines, PutRefines, ChangePriorityRefines, UnseenRefines
     DEF Next, Kill

(* Every behaviour of a stage's worker sets is one of the abstract stage,  *)
(* as far as safety goes: a ticket is handed to one worker of its class,   *)
(* once, and never gets lost between queues and threads                    *)
(* (translation_pipeline_parallel.c:793-861, 1680-1703, 2028-2070).        *)
THEOREM Implements == Spec => Stage!Init /\ [][Stage!Next]_(Stage!vars)
<1>1. ASSUME Init PROVE Stage!Init
  <2>1. \A h \in Classes : Hand(h) = {}
    BY <1>1, ThreadsFinite DEF Init, Hand
  <2>2. \A h \in Classes : Cardinality(Alive(h)) \in Nat
    BY Counts
  <2>3. QED
    BY <1>1, <2>1, <2>2, StageClasses DEF Init, Stage!Init
<1>2. Init => Stage!Init
  BY <1>1
<1>3. IInv /\ IInv' /\ [Next]_vars => [Stage!Next]_(Stage!vars)
  BY NextRefines DEF Refines
<1>4. QED
  BY <1>2, <1>3, Invariance, PTL DEF Spec
=============================================================================
