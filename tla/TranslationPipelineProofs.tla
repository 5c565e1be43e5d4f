--------------------- MODULE TranslationPipelineProofs ---------------------
(***************************************************************************)
(* Proofs about the translation pipeline, for any program, any requests    *)
(* and any number of tickets, methods and threads, in every compilation    *)
(* scheme: where a ticket is, who may free it, that each class of the      *)
(* cctor stage keeps a thread that does not wait, and that the reaper      *)
(* finds the threads it joins idle.                                        *)
(*                                                                         *)
(* They are about safety of the pipeline's own records.  What a method has *)
(* gone through when it runs also depends on states that are read before   *)
(* the mutex is taken: MethodHistoryProofs proves it under conditions that *)
(* name those races, and CctorOrderProofs proves that cctors have run.     *)
(***************************************************************************)
EXTENDS TranslationPipeline, FiniteSetTheorems, SequenceTheorems, TLAPS
-----------------------------------------------------------------------------
(* The invariant.                                                          *)

(* What a call in progress carries, wherever it is: a method; a state it   *)
(* can be inserted by; once inserted, a ticket.                            *)
CallOK(c) ==
    /\ c.pc = "idle" <=> c.op = "none"
    /\ c.pc # "idle" => c.method \in Methods
    /\ c.op = "waitEmpty" => c.pc \in {"enter", "asleep", "signalled"}
    /\ c.op \in {"async", "tillIR"} => c.state # "EXECUTABLE"
    /\ c.op \in {"synch", "machineCode"} /\ c.pc # "enter"
         => c.state # "EXECUTABLE"
    /\ c.op \notin {"none", "waitEmpty"} /\ c.pc \notin {"enter", "insert"}
         => c.ticket \in Tickets
    /\ c.pc = "schedule" => HasScheduler

CallsOK == call \in [Threads -> Calls] /\ \A a \in Threads : CallOK(call[a])

(* Between its pieces a call keeps the pipeline's mutex, and the ticket it *)
(* found stays the ticket of its method.                                   *)
CallsHold ==
    \A a \in Threads :
        /\ call[a].pc \in {"insert", "move", "schedule", "sleep", "link"} => mutex = a
        /\ call[a].pc \in {"move", "schedule"} =>
             methodsInPipe[call[a].method] = call[a].ticket

(* The reaper kills with the mutex, when there is no method to compile.    *)
ReaperHolds ==
    /\ reaper = "killing" <=> mutex = Reaper
    /\ reaper = "killing" => PipelineEmpty

(* The types, by the variables that change together.                       *)
TypeMethods == methodState \in [Methods -> States] /\ linked \subseteq Methods

TypeTickets ==
    /\ methodsInPipe \in [Methods -> Tickets \cup {None}]
    /\ allocated \subseteq Tickets
    /\ method \in [Tickets -> Methods \cup {None}]
    /\ priority \in [Tickets -> Priorities]
    /\ inPipe \in [Tickets -> Stages \cup {None}]
    /\ inHigh \in [Tickets -> BOOLEAN]
    /\ itemPriority \in [Tickets -> Priorities]
    /\ notify \in [Tickets -> SUBSET Threads]
    /\ irNotify \in [Tickets -> SUBSET Threads]
    /\ mcNotify \in [Tickets -> SUBSET Threads]
    /\ trampolinesSet \subseteq Tickets
    /\ dlaMethods \subseteq Tickets
    /\ queue \in [Stages \X Classes -> SUBSET Tickets]

TypeWorkers ==
    /\ hand \in [Workers -> Tickets \cup {None}]
    /\ step \in [Workers -> Steps]
    /\ index \in [Workers -> Nat \ {0}]
    /\ passed \in [Workers -> Priorities]
    /\ checkpoint \subseteq Workers
    /\ todo \in [Threads -> SUBSET Methods]

TypeShared ==
    /\ mutex \in Threads \cup {Reaper, None}
    /\ pending \subseteq Requests
    /\ reaper \in {"asleep", "signalled", "killing"}

TypeCctor ==
    /\ cctorThreads \in 1 .. MaxCctorThreads
    /\ steady \in Int
    /\ delta \in Nat \ {0}

TypeSched ==
    /\ schedQueue \subseteq Tickets
    /\ methodsInScheduling \subseteq Tickets
    /\ schedTicket \in Tickets \cup {None}

(* The steps of a worker belong to its stage; it has a ticket unless it is *)
(* idle; in the loops over the cctors its index is one of theirs.  Only a  *)
(* cctor thread that compiles a cctor, and a DLA worker, are in a call.    *)
LoopSteps == {"make", "call", "register", "run", "runRegistered", "done",
              "declare", "wait", "undeclare"}
CctorSteps == {"check", "link", "unregister", "publish", "notify", "destroy",
               "end"} \cup LoopSteps

StepsOf(s) == {"idle", "job"} \cup
    CASE s = "cil" -> {"irNotify", "put"}
      [] s = "dla" -> {"insert", "put"}
      [] s = "opt" -> {"put"}
      [] s = "mc"  -> {"mcNotify", "put"}
      [] s = "cctor" -> CctorSteps

StepsAgree ==
    \A w \in Workers :
        /\ step[w] \in StepsOf(w[1])
        /\ step[w] = "idle" <=> hand[w] = None
        /\ step[w] # "idle" => Started(w)

IndexAgrees ==
    \A w \in CctorWorkers :
        IF step[w] \in LoopSteps \cup {"check"}
          THEN index[w] \in 1 .. Len(Cctors(w))
          ELSE index[w] = 1

WorkersCall ==
    \A w \in CctorWorkers :
        /\ todo[w] = {}
        /\ ~Idle(w) => step[w] \in {"make", "call"}

(* Where tickets are: the four parts of TicketInOnePlace, without its      *)
(* counting.                                                               *)
Working(w) == step[w] \notin {"idle", "end"}

TicketsNamed ==
    /\ \A m \in Methods : methodsInPipe[m] # None =>
         methodsInPipe[m] \in allocated /\ method[methodsInPipe[m]] = m
    /\ \A t \in allocated : method[t] \in Methods

Queued ==
    \A t \in Tickets :
        /\ inPipe[t] # None => Live(t)
        /\ \A s \in Stages, h \in Classes :
             t \in queue[<<s, h>>] <=> inPipe[t] = s /\ inHigh[t] = (h = "high")

InHands ==
    \A w \in Workers : Working(w) =>
        /\ Live(hand[w]) /\ inPipe[hand[w]] = None
        /\ \A v \in Workers : Working(v) /\ hand[v] = hand[w] => v = w

Placed ==
    \A t \in Tickets : Live(t) =>
        inPipe[t] # None \/ \E w \in Workers : Working(w) /\ hand[w] = t

(* A ticket that the scheduler works on is no longer in its queue.         *)
SchedulerAgrees ==
    /\ methodsInScheduling = schedQueue \cup ({schedTicket} \ {None})
    /\ methodsInScheduling \subseteq allocated
    /\ schedTicket \notin schedQueue
    /\ ~HasScheduler => methodsInScheduling = {}

(* A thread of the cctor stage waits, and said so with                     *)
(* internal_decreaseSteadyCCTORThreads.                                    *)
Counted(w) ==
    \/ step[w] = "wait"
    \/ call[w].op = "synch" /\ call[w].pc \in {"asleep", "signalled"}

UncountedFree ==
    \A h \in Classes : \E w \in CctorWorkers :
        w[2] = h /\ Started(w) /\ ~Counted(w)

(* The count of the steady cctor threads is exact, and fewer threads wait  *)
(* than a class has.                                                       *)
Waiting == {w \in CctorWorkers : Counted(w)}
SteadyExact ==
    /\ steady = 2 * cctorThreads - Cardinality(Waiting)
    /\ Cardinality(Waiting) < cctorThreads

IInv ==
    /\ TypeMethods /\ TypeTickets /\ TypeWorkers /\ TypeShared /\ TypeCctor
    /\ TypeSched /\ StaticMemory!SMTypeOK
    /\ CallsOK /\ CallsHold /\ ReaperHolds
    /\ StepsAgree /\ IndexAgrees /\ WorkersCall
    /\ TicketsNamed /\ Queued /\ InHands /\ Placed
    /\ SchedulerAgrees /\ SteadyExact

-----------------------------------------------------------------------------
(* Names of workers, and the parts of the type invariant.                  *)

LEMMA WorkerShape ==
    /\ \A w \in Workers :
         /\ w \in Threads /\ w # Scheduler /\ w # None
         /\ w[1] \in Stages /\ w[2] \in Classes /\ w[3] \in Nat \ {0}
         /\ w = <<w[1], w[2], w[3]>>
         /\ w \in CctorWorkers <=> w[1] = "cctor"
         /\ w[1] # "cctor" => w[3] = 1
    /\ \A w \in CctorWorkers : w \in Workers /\ w[1] = "cctor"
    /\ \A h \in Classes : \A i \in 1 .. MaxCctorThreads :
         <<"cctor", h, i>> \in CctorWorkers
<1>1. \A w \in CctorWorkers :
        /\ w \in Workers /\ w[1] = "cctor" /\ w[2] \in Classes
        /\ w[3] \in Nat \ {0} /\ w = <<w[1], w[2], w[3]>>
  BY DEF Workers, CctorWorkers
<1>2. \A h \in Classes : \A i \in 1 .. MaxCctorThreads :
        <<"cctor", h, i>> \in CctorWorkers
  BY DEF CctorWorkers
<1>3. \A w \in Stages \X Classes \X {1} :
        /\ w[1] \in Stages /\ w[2] \in Classes /\ w[3] = 1
        /\ w = <<w[1], w[2], w[3]>>
  OBVIOUS
<1>4. \A w \in Workers : w \in Threads /\ w # Scheduler /\ w # None
  BY NamesAssumption DEF Threads
<1>5. 1 \in 1 .. MaxCctorThreads
  BY NumbersAssumption
<1>6. ASSUME NEW w \in Stages \X Classes \X {1}, w[1] = "cctor"
      PROVE  w \in CctorWorkers
  <2>1. w = <<"cctor", w[2], 1>> /\ w[2] \in Classes
    BY <1>3, <1>6
  <2> QED
    BY <1>2, <1>5, <2>1
<1> QED
  BY <1>1, <1>2, <1>3, <1>4, <1>6 DEF Workers, Stages

LEMMA FiniteWorkers == IsFiniteSet(CctorWorkers)
<1> DEFINE S == Classes \X (1 .. MaxCctorThreads)
           f == [w \in CctorWorkers |-> <<w[2], w[3]>>]
<1>1. IsFiniteSet(Classes)
  <2>1. IsFiniteSet({"low"}) /\ Classes = {"low"} \cup {"high"}
    BY FS_Singleton DEF Classes
  <2> QED
    BY <2>1, FS_AddElement
<1>2. IsFiniteSet(1 .. MaxCctorThreads)
  BY FS_Interval, NumbersAssumption
<1>3. IsFiniteSet(S)
  BY <1>1, <1>2, FS_Product
<1>4. f \in Injection(CctorWorkers, S)
  BY DEF Injection, IsInjective, CctorWorkers
<1> QED
  BY <1>3, <1>4, FS_Injection

LEMMA Types ==
    TypeOK <=> /\ TypeMethods /\ TypeTickets /\ TypeWorkers /\ TypeShared
               /\ TypeCctor /\ TypeSched /\ StaticMemory!SMTypeOK
               /\ call \in [Threads -> Calls]
  BY DEF TypeOK, TypeMethods, TypeTickets, TypeWorkers, TypeShared, TypeCctor,
         TypeSched

-----------------------------------------------------------------------------
(* What steps of a kind leave as it is.                                    *)

LEMMA MethodIsNotNone ==
    /\ None \notin Methods /\ None \notin Tickets /\ None \notin Threads
    /\ None \notin Stages
    /\ Reaper \notin Threads /\ Reaper # None /\ Scheduler \in Threads
    /\ Callers \subseteq Threads
  BY NamesAssumption DEF Threads

LEMMA PlacesKept ==
    ASSUME TicketsNamed, Queued, InHands, Placed,
           UNCHANGED <<methodsInPipe, allocated, method, inPipe, inHigh, queue,
                       hand, step>>
    PROVE  TicketsNamed' /\ Queued' /\ InHands' /\ Placed'
  BY DEF TicketsNamed, Queued, InHands, Placed, Live, Working

LEMMA StepsKept ==
    ASSUME IInv, UNCHANGED <<hand, step>>, cctorThreads' \in Nat,
           cctorThreads' >= cctorThreads
    PROVE  StepsAgree'
<1>1. \A w \in Workers : w[3] \in Nat
  BY WorkerShape
<1>2. cctorThreads \in Nat
  BY NumbersAssumption DEF IInv, TypeCctor
<1>3. \A w \in Workers : Started(w) => Started(w)'
  BY <1>1, <1>2 DEF Started
<1> QED
  BY <1>3 DEF IInv, StepsAgree

(* A cctor worker in a loop has a ticket that is not freed.                *)
LEMMA IndexKept ==
    ASSUME IInv, UNCHANGED <<hand, step, index>>,
           \A t \in allocated : method'[t] = method[t]
    PROVE  IndexAgrees'
<1> SUFFICES ASSUME NEW w \in CctorWorkers,
                    step[w] \in LoopSteps \cup {"check"}
             PROVE  Cctors(w)' = Cctors(w)
  BY DEF IInv, IndexAgrees
<1>1. w \in Workers /\ Working(w)
  BY WorkerShape DEF Working, LoopSteps
<1>2. hand[w] \in allocated
  BY <1>1 DEF IInv, InHands, Live
<1> QED
  BY <1>2 DEF Cctors

(* A step of thread a's call, which had or could take the mutex.           *)
Keeping == {"insert", "move", "schedule", "sleep", "link"}

CallGoesTo(a, c) ==
    /\ c \in Calls /\ CallOK(c)
    /\ call' = [call EXCEPT ![a] = c]
    /\ mutex' \in {None, a}
    /\ c.pc \in Keeping => mutex' = a
    /\ c.pc \in {"move", "schedule"} => methodsInPipe'[c.method] = c.ticket

LEMMA CallStep ==
    ASSUME IInv, NEW a \in Threads, mutex \in {None, a}, ~Idle(a),
           NEW c, CallGoesTo(a, c),
           UNCHANGED <<pending, reaper, step, todo>>
    PROVE  /\ CallsOK' /\ CallsHold' /\ ReaperHolds' /\ WorkersCall'
           /\ TypeShared'
<1>1. CallsOK'
  BY DEF IInv, CallsOK, CallGoesTo, CallOK, HasScheduler
<1>2. CallsHold'
  <2> SUFFICES ASSUME NEW b \in Threads
               PROVE  /\ call'[b].pc \in Keeping => mutex' = b
                      /\ call'[b].pc \in {"move", "schedule"} =>
                           methodsInPipe'[call'[b].method] = call'[b].ticket
    BY DEF CallsHold, Keeping
  <2>1. CASE b = a
    BY <2>1 DEF IInv, CallsOK, CallGoesTo
  <2>2. CASE b # a
    <3>1. call'[b] = call[b]
      BY <2>2 DEF IInv, CallsOK, CallGoesTo
    <3>2. mutex # b
      BY <2>2, MethodIsNotNone
    <3>3. call[b].pc \notin Keeping
      BY <3>2 DEF IInv, CallsHold, Keeping
    <3> QED
      BY <3>1, <3>3 DEF Keeping
  <2> QED
    BY <2>1, <2>2
<1>3. mutex # Reaper /\ mutex' # Reaper
  BY MethodIsNotNone DEF CallGoesTo
<1>4. ReaperHolds'
  BY <1>3 DEF IInv, ReaperHolds
<1>5. WorkersCall'
  BY DEF IInv, WorkersCall, CallsOK, CallGoesTo, Idle
<1>6. TypeShared'
  BY DEF IInv, TypeShared, CallGoesTo
<1> QED
  BY <1>1, <1>2, <1>4, <1>5, <1>6

(* The counts depend on who waits, in a call or for a cctor.               *)
InSynch(a) == call[a].op = "synch" /\ call[a].pc \in {"asleep", "signalled"}

LEMMA SteadyKept ==
    ASSUME SteadyExact, UNCHANGED <<cctorThreads, steady>>,
           \A w \in CctorWorkers :
               Counted(w)' <=> Counted(w)
    PROVE  SteadyExact'
<1>1. Waiting' = Waiting
  BY DEF Waiting
<1> QED
  BY <1>1 DEF SteadyExact

LEMMA SteadyKeptByCall ==
    ASSUME IInv, NEW a \in Threads, NEW c, call' = [call EXCEPT ![a] = c],
           UNCHANGED <<cctorVars, step>>, ~InSynch(a),
           ~(c.op = "synch" /\ c.pc \in {"asleep", "signalled"})
    PROVE  SteadyExact'
<1>1. \A w \in CctorWorkers : Counted(w)' <=> Counted(w)
  <2> TAKE w \in CctorWorkers
  <2>1. w \in Threads
    BY WorkerShape
  <2> QED
    BY <2>1 DEF IInv, CallsOK, Counted, InSynch
<1> QED
  BY <1>1, SteadyKept DEF IInv, cctorVars

(* Waking threads does not change what their calls carry.                  *)
LEMMA WakeKeeps ==
    ASSUME IInv, NEW S, Wake(S), UNCHANGED mutex
    PROVE  /\ CallsOK'
           /\ \A a \in Threads :
                /\ call'[a].op = call[a].op
                /\ call'[a].method = call[a].method
                /\ call'[a].ticket = call[a].ticket
                /\ \/ call'[a].pc = call[a].pc
                   \/ call[a].pc = "asleep" /\ call'[a].pc = "signalled"
<1>1. \A a \in Threads :
        \/ call'[a] = call[a]
        \/ call[a].pc = "asleep" /\ call'[a] = [call[a] EXCEPT !.pc = "signalled"]
  BY DEF Wake, Asleep
<1>2. \A a \in Threads : call[a] \in Calls /\ CallOK(call[a])
  BY DEF IInv, CallsOK
<1>3. \A c \in Calls : CallOK(c) /\ c.pc = "asleep" =>
        [c EXCEPT !.pc = "signalled"] \in Calls
        /\ CallOK([c EXCEPT !.pc = "signalled"])
  BY DEF Calls, CallOK
<1>4. \A a \in Threads : call'[a] \in Calls /\ CallOK(call'[a])
  BY <1>1, <1>2, <1>3
<1>5. CallsOK'
  BY <1>4 DEF CallsOK, Wake, CallOK, HasScheduler
<1>6. \A a \in Threads :
                /\ call'[a].op = call[a].op
                /\ call'[a].method = call[a].method
                /\ call'[a].ticket = call[a].ticket
                /\ \/ call'[a].pc = call[a].pc
                   \/ call[a].pc = "asleep" /\ call'[a].pc = "signalled"
  BY <1>1, <1>2, ZenonT(40) DEF Calls
<1> QED
  BY <1>5, <1>6

LEMMA TypesKept ==
    /\ TypeMethods /\ UNCHANGED methodVars => TypeMethods'
    /\ TypeTickets /\ UNCHANGED ticketVars => TypeTickets'
    /\ TypeWorkers /\ UNCHANGED <<workerVars, todo>> => TypeWorkers'
    /\ TypeCctor /\ UNCHANGED cctorVars => TypeCctor'
    /\ TypeSched /\ UNCHANGED schedVars => TypeSched'
    /\ StaticMemory!SMTypeOK /\ UNCHANGED staticVars => StaticMemory!SMTypeOK'
    /\ SchedulerAgrees /\ UNCHANGED <<schedVars, allocated>> => SchedulerAgrees'
<1>1. TypeMethods /\ UNCHANGED methodVars => TypeMethods'
  BY DEF TypeMethods, methodVars
<1>2. TypeTickets /\ UNCHANGED ticketVars => TypeTickets'
  BY DEF TypeTickets, ticketVars
<1>3. TypeWorkers /\ UNCHANGED <<workerVars, todo>> => TypeWorkers'
  BY DEF TypeWorkers, workerVars
<1>4. TypeCctor /\ UNCHANGED cctorVars => TypeCctor'
  BY DEF TypeCctor, cctorVars
<1>5. TypeSched /\ UNCHANGED schedVars => TypeSched'
  BY DEF TypeSched, schedVars
<1>6. StaticMemory!SMTypeOK /\ UNCHANGED staticVars => StaticMemory!SMTypeOK'
  BY DEF StaticMemory!SMTypeOK, staticVars
<1>7. SchedulerAgrees /\ UNCHANGED <<schedVars, allocated>> => SchedulerAgrees'
  BY DEF SchedulerAgrees, schedVars, HasScheduler
<1> QED
  BY <1>1, <1>2, <1>3, <1>4, <1>5, <1>6, <1>7

-----------------------------------------------------------------------------
(* The pieces of a call.                                                   *)

LEMMA CallKeeps ==
    ASSUME IInv, NEW a \in Threads, mutex \in {None, a}, ~Idle(a),
           NEW c, CallGoesTo(a, c),
           UNCHANGED <<methodVars, ticketVars, workerVars, todo, pending, reaper>>
    PROVE  /\ TypeMethods' /\ TypeTickets' /\ TypeWorkers' /\ TypeShared'
           /\ CallsOK' /\ CallsHold' /\ ReaperHolds'
           /\ IndexAgrees' /\ WorkersCall'
           /\ TicketsNamed' /\ Queued' /\ InHands' /\ Placed'
<1>1. UNCHANGED <<methodsInPipe, allocated, method, inPipe, inHigh, queue, hand,
                  step, index, pending, reaper, todo>>
  BY DEF ticketVars, workerVars
<1>2. TicketsNamed' /\ Queued' /\ InHands' /\ Placed'
  BY <1>1, PlacesKept DEF IInv
<1>3. IndexAgrees'
  BY <1>1, IndexKept
<1>4. CallsOK' /\ CallsHold' /\ ReaperHolds' /\ WorkersCall' /\ TypeShared'
  BY <1>1, CallStep
<1>5. TypeMethods' /\ TypeTickets' /\ TypeWorkers'
  BY TypesKept DEF IInv
<1> QED
  BY <1>2, <1>3, <1>4, <1>5

(* The parts of the invariant that most pieces leave alone.                *)
LEMMA CctorsKept ==
    ASSUME IInv, UNCHANGED <<cctorVars, hand, step>>
    PROVE  TypeCctor' /\ StepsAgree'
<1>1. cctorThreads \in Nat /\ cctorThreads' = cctorThreads
  BY NumbersAssumption DEF IInv, TypeCctor, cctorVars
<1>2. StepsAgree'
  BY <1>1, StepsKept
<1> QED
  BY <1>2, TypesKept DEF IInv

LEMMA NoCallOK == NoCall \in Calls /\ CallOK(NoCall)
<1>1. 0 \in Priorities
  BY NumbersAssumption DEF Priorities
<1> QED
  BY <1>1 DEF NoCall, Calls, CallOK, States

LEMMA ReturnGoesTo ==
    ASSUME NEW a, Return(a)
    PROVE  CallGoesTo(a, NoCall)
  BY NoCallOK DEF Return, CallGoesTo, NoCall, Keeping

LEMMA EnterInsertStep ==
    ASSUME IInv, NEW a \in Threads, EnterInsert(a)
    PROVE  IInv'
<1> DEFINE c == [call[a] EXCEPT !.pc = "insert"]
<1>1. call[a] \in Calls /\ CallOK(call[a])
  BY DEF IInv, CallsOK
<1>2. c \in Calls /\ CallOK(c)
  BY <1>1 DEF EnterInsert, Calls, CallOK
<1>3. CallGoesTo(a, c) /\ mutex \in {None, a} /\ ~Idle(a)
  BY <1>1, <1>2 DEF EnterInsert, CallGoesTo, Idle, Calls
<1>4. UNCHANGED <<methodVars, ticketVars, workerVars, todo, pending, reaper,
                  cctorVars, schedVars, staticVars>>
  BY DEF EnterInsert
<1>5. ~InSynch(a) /\ ~(c.op = "synch" /\ c.pc \in {"asleep", "signalled"})
  BY <1>1 DEF EnterInsert, InSynch, Calls
<1>6. UNCHANGED <<hand, step, allocated>>
  BY <1>4 DEF workerVars, ticketVars
<1> HIDE DEF c
<1>7. call' = [call EXCEPT ![a] = c]
  BY <1>3 DEF CallGoesTo
<1>8. SteadyExact'
  BY <1>4, <1>5, <1>6, <1>7, SteadyKeptByCall
<1> QED
  BY <1>3, <1>4, <1>6, <1>8, CallKeeps, CctorsKept, TypesKept DEF IInv

LEMMA EnterSynchStep ==
    ASSUME IInv, NEW a \in Threads, EnterSynch(a)
    PROVE  IInv'
<1> DEFINE m == call[a].method
<1>1. call[a] \in Calls /\ CallOK(call[a]) /\ call[a].pc = "enter"
      /\ call[a].op = "synch" /\ m \in Methods /\ mutex = None
  BY DEF IInv, CallsOK, EnterSynch, CallOK
<1>2. methodState[m] \in States
  BY <1>1 DEF IInv, TypeMethods
<1>3. PICK c : CallGoesTo(a, c) /\ c.pc \notin {"asleep", "signalled"}
  <2>1. CASE methodState[m] = "EXECUTABLE"
    <3>1. CallGoesTo(a, NoCall)
      BY <2>1, ReturnGoesTo DEF EnterSynch
    <3> QED
      BY <3>1 DEF NoCall
  <2>2. CASE methodState[m] # "EXECUTABLE"
    <3>1. PICK op \in {"synch", "machineCode"} :
            /\ mutex' = a
            /\ call' = [call EXCEPT ![a].pc = "insert",
                          ![a].state = methodState[m], ![a].op = op]
      BY <2>2 DEF EnterSynch
    <3> DEFINE d == [call[a] EXCEPT !.pc = "insert", !.state = methodState[m],
                                    !.op = op]
    <3>2. d \in Calls /\ CallOK(d) /\ d.pc = "insert"
      BY <1>1, <1>2, <2>2 DEF Calls, CallOK, Operations
    <3>3. call' = [call EXCEPT ![a] = d]
      BY <1>1, <3>1 DEF Calls
    <3> HIDE DEF d
    <3>4. CallGoesTo(a, d)
      BY <3>1, <3>2, <3>3 DEF CallGoesTo
    <3> QED
      BY <3>2, <3>4
  <2> QED
    BY <2>1, <2>2
<1>4. UNCHANGED <<methodVars, ticketVars, workerVars, todo, pending, reaper,
                  cctorVars, schedVars, allocated, hand, step>>
  BY DEF EnterSynch, ticketVars, workerVars
<1>5. StaticMemory!SMTypeOK'
  BY <1>1 DEF IInv, EnterSynch, StaticMemory!SMTypeOK,
              StaticMemory!RegisterCompilationNeeded
<1>6. SteadyExact'
  BY <1>1, <1>3, <1>4, SteadyKeptByCall DEF InSynch, CallGoesTo
<1>7. mutex \in {None, a} /\ ~Idle(a)
  BY <1>1 DEF Idle
<1> QED
  BY <1>3, <1>4, <1>5, <1>6, <1>7, CallKeeps, CctorsKept, TypesKept DEF IInv

(* After an insertion the caller waits, links or returns.                  *)
LEMMA InsertedGoesTo ==
    ASSUME NEW a, NEW c \in Calls, CallOK(c), Inserted(a, c), mutex = a,
           c.pc # "idle", c.op # "waitEmpty", c.state # "EXECUTABLE",
           c.ticket \in Tickets
    PROVE  \E d : CallGoesTo(a, d) /\ d.pc \notin {"asleep", "signalled"}
<1>1. CASE c.op = "async"
  <2>1. CallGoesTo(a, NoCall)
    BY <1>1, ReturnGoesTo DEF Inserted
  <2> QED
    BY <2>1 DEF NoCall
<1>2. CASE c.op # "async"
  <2>1. PICK there \in {"link", "sleep"} :
          call' = [call EXCEPT ![a] = [c EXCEPT !.pc = there]] /\ UNCHANGED mutex
    BY <1>2 DEF Inserted
  <2> DEFINE d == [c EXCEPT !.pc = there]
  <2>2. d \in Calls /\ CallOK(d) /\ d.pc \in {"link", "sleep"}
    BY DEF Calls, CallOK
  <2> HIDE DEF d
  <2>3. CallGoesTo(a, d)
    BY <2>1, <2>2 DEF CallGoesTo, d
  <2> QED
    BY <2>2, <2>3
<1> QED
  BY <1>1, <1>2

(* A call that found or made a ticket.                                     *)
LEMMA CallWithTicket ==
    ASSUME NEW c \in Calls, CallOK(c),
           c.pc \in {"insert", "move", "schedule", "sleep", "link"}
    PROVE  /\ c.op \in {"async", "tillIR", "synch", "machineCode"}
           /\ c.state # "EXECUTABLE" /\ c.method \in Methods
           /\ c.pc # "insert" => c.ticket \in Tickets
<1>1. c.op \in {"async", "tillIR", "synch", "machineCode"}
  BY DEF Calls, CallOK, Operations
<1> QED
  BY <1>1 DEF CallOK

LEMMA SendToSchedulerStep ==
    ASSUME IInv, NEW a \in Threads, SendToScheduler(a)
    PROVE  IInv'
<1> DEFINE t == call[a].ticket
<1>1. /\ call[a] \in Calls /\ CallOK(call[a]) /\ call[a].pc = "schedule"
      /\ mutex = a /\ HasScheduler
  BY DEF IInv, CallsOK, SendToScheduler, CallOK, Holds
<1>2. call[a].op # "waitEmpty" /\ call[a].state # "EXECUTABLE" /\ t \in Tickets
      /\ call[a].op # "none" /\ call[a].method \in Methods
  BY <1>1, CallWithTicket
<1>3. methodsInPipe[call[a].method] = t
  BY <1>1 DEF IInv, CallsHold
<1>4. t \in allocated
  BY <1>2, <1>3, MethodIsNotNone DEF IInv, TicketsNamed
<1>5. PICK c : CallGoesTo(a, c) /\ c.pc \notin {"asleep", "signalled"}
  BY <1>1, <1>2, InsertedGoesTo DEF SendToScheduler
<1>6. UNCHANGED <<methodVars, ticketVars, workerVars, todo, pending, reaper,
                  cctorVars, staticVars, schedTicket, allocated, hand, step>>
  BY DEF SendToScheduler, ticketVars, workerVars
<1>7. TypeSched'
  BY <1>2, <1>6 DEF IInv, TypeSched, SendToScheduler
<1>8. SchedulerAgrees'
  <2>1. t # None
    BY <1>2, MethodIsNotNone
  <2> HIDE DEF t
  <2>2. /\ schedQueue' = IF t \in methodsInScheduling THEN schedQueue
                          ELSE schedQueue \cup {t}
        /\ methodsInScheduling' = methodsInScheduling \cup {t}
    BY DEF SendToScheduler, t
  <2> QED
    BY <1>1, <1>4, <1>6, <2>1, <2>2 DEF IInv, SchedulerAgrees, HasScheduler
<1>9. SteadyExact'
  BY <1>1, <1>5, <1>6, SteadyKeptByCall DEF InSynch, CallGoesTo
<1>10. mutex \in {None, a} /\ ~Idle(a)
  BY <1>1 DEF Idle
<1> QED
  BY <1>5, <1>6, <1>7, <1>8, <1>9, <1>10, CallKeeps, CctorsKept, TypesKept DEF IInv

(* Sleeping and waking: the steady threads are counted.                    *)
LEMMA DecreaseCounts ==
    ASSUME IInv, NEW w \in CctorWorkers, ~Counted(w), Waiting' = Waiting \cup {w},
           DecreaseSteadyCCTORThreads
    PROVE  /\ TypeCctor' /\ SteadyExact'
           /\ cctorThreads' \in Nat /\ cctorThreads' >= cctorThreads
<1>1. IsFiniteSet(Waiting)
  BY FiniteWorkers, FS_Subset DEF Waiting
<1>2. /\ Cardinality(Waiting) \in Nat
      /\ Cardinality(Waiting') = Cardinality(Waiting) + 1
  BY <1>1, FS_CardinalityType, FS_AddElement DEF Waiting
<1> DEFINE n == Cardinality(Waiting)
<1>3. /\ steady = 2 * cctorThreads - n /\ n < cctorThreads
      /\ cctorThreads \in 1 .. MaxCctorThreads /\ steady \in Int
      /\ delta \in Nat \ {0} /\ MaxCctorThreads \in Nat
  BY NumbersAssumption DEF IInv, SteadyExact, TypeCctor
<1>4. 2 * cctorThreads - (steady - 1) = n + 1 /\ n \in Nat
  BY <1>2, <1>3
<1> HIDE DEF n
<1>5. \/ /\ n + 1 >= cctorThreads
         /\ cctorThreads + delta <= MaxCctorThreads
         /\ cctorThreads' = cctorThreads + delta
         /\ steady' = steady - 1 + 2 * delta
         /\ delta' = 2 * delta
      \/ /\ ~(n + 1 >= cctorThreads)
         /\ steady' = steady - 1
         /\ cctorThreads' = cctorThreads /\ delta' = delta
  BY <1>4 DEF DecreaseSteadyCCTORThreads, HalfTheThreadsWait
<1>6. /\ TypeCctor' /\ cctorThreads' \in Nat /\ cctorThreads' >= cctorThreads
  BY <1>3, <1>5 DEF TypeCctor
<1>7. steady' = 2 * cctorThreads' - (n + 1) /\ n + 1 < cctorThreads'
  BY <1>3, <1>4, <1>5
<1> QED
  BY <1>2, <1>6, <1>7 DEF SteadyExact, n

LEMMA IncreaseCounts ==
    ASSUME IInv, NEW w \in CctorWorkers, Counted(w), Waiting' = Waiting \ {w},
           IncreaseSteadyCCTORThreads
    PROVE  /\ TypeCctor' /\ SteadyExact'
           /\ cctorThreads' \in Nat /\ cctorThreads' >= cctorThreads
<1>1. IsFiniteSet(Waiting) /\ w \in Waiting
  BY FiniteWorkers, FS_Subset DEF Waiting
<1>2. /\ Cardinality(Waiting) \in Nat
      /\ Cardinality(Waiting') = Cardinality(Waiting) - 1
  BY <1>1, FS_CardinalityType, FS_RemoveElement
<1> DEFINE n == Cardinality(Waiting)
<1>3. /\ steady = 2 * cctorThreads - n /\ n < cctorThreads
      /\ cctorThreads \in 1 .. MaxCctorThreads /\ steady \in Int
      /\ MaxCctorThreads \in Nat /\ n \in Nat
  BY <1>2, NumbersAssumption DEF IInv, SteadyExact, TypeCctor
<1>4. Cardinality(Waiting') = n - 1
  BY <1>2
<1> HIDE DEF n
<1>5. steady' = steady + 1 /\ cctorThreads' = cctorThreads /\ delta' = delta
  BY DEF IncreaseSteadyCCTORThreads
<1>6. /\ TypeCctor' /\ cctorThreads' \in Nat /\ cctorThreads' >= cctorThreads
  BY <1>3, <1>5 DEF IInv, TypeCctor
<1>7. steady' = 2 * cctorThreads' - (n - 1) /\ n - 1 < cctorThreads'
  BY <1>3, <1>5
<1> QED
  BY <1>4, <1>6, <1>7 DEF SteadyExact

LEMMA GoToSleepStep ==
    ASSUME IInv, NEW a \in Threads, GoToSleep(a)
    PROVE  IInv'
<1> DEFINE c == [call[a] EXCEPT !.pc = "asleep"]
<1>1. call[a] \in Calls /\ CallOK(call[a]) /\ call[a].pc = "sleep" /\ mutex = a
  BY DEF IInv, CallsOK, GoToSleep, Holds
<1>2. c \in Calls /\ CallOK(c) /\ c.pc = "asleep" /\ c.op = call[a].op
  BY <1>1 DEF Calls, CallOK
<1>3. call' = [call EXCEPT ![a] = c] /\ mutex' = None
  BY <1>1 DEF GoToSleep
<1> HIDE DEF c
<1>4. CallGoesTo(a, c) /\ mutex \in {None, a} /\ ~Idle(a)
  BY <1>1, <1>2, <1>3 DEF CallGoesTo, Keeping, Idle
<1>5. UNCHANGED <<methodVars, ticketVars, workerVars, todo, pending, reaper,
                  schedVars, staticVars, allocated, hand, step>>
  BY DEF GoToSleep, ticketVars, workerVars
<1>6. TypeCctor' /\ SteadyExact' /\ StepsAgree'
  <2>1. CASE IsCctorThread(a) /\ call[a].op = "synch"
    <3>1. a \in CctorWorkers /\ ~Counted(a)
      BY <1>1, <2>1 DEF IsCctorThread, IInv, WorkersCall, Idle, Counted
    <3>2. \A w \in CctorWorkers : Counted(w)' <=> Counted(w) \/ w = a
      <4> TAKE w \in CctorWorkers
      <4>1. w \in Threads
        BY WorkerShape
      <4> QED
        BY <1>2, <1>3, <1>5, <2>1, <3>1, <4>1 DEF IInv, CallsOK, Counted
    <3>3. Waiting' = Waiting \cup {a}
      BY <3>1, <3>2 DEF Waiting
    <3>4. DecreaseSteadyCCTORThreads
      BY <2>1 DEF GoToSleep
    <3> QED
      BY <1>5, <3>1, <3>3, <3>4, DecreaseCounts, StepsKept
  <2>2. CASE IsCctorThread(a) /\ call[a].op # "synch"
    BY <1>1, <1>2, <1>3, <1>5, <2>2, SteadyKeptByCall, CctorsKept DEF GoToSleep, InSynch
  <2>3. CASE ~IsCctorThread(a)
    <3>1. UNCHANGED cctorVars
      BY <2>3 DEF GoToSleep
    <3>2. \A w \in CctorWorkers : Counted(w)' <=> Counted(w)
      BY <1>3, <1>5, <2>3, WorkerShape DEF IsCctorThread, Counted, IInv, CallsOK
    <3> QED
      BY <1>5, <3>1, <3>2, SteadyKept, CctorsKept DEF IInv, cctorVars
  <2> QED
    BY <2>1, <2>2, <2>3
<1> QED
  BY <1>4, <1>5, <1>6, CallKeeps, TypesKept DEF IInv

LEMMA JoinTicketStep ==
    ASSUME IInv, NEW a \in Threads, JoinTicket(a)
    PROVE  IInv'
<1> DEFINE c == call[a]
           t == methodsInPipe[c.method]
           raises == c.priority > priority[t]
           joined == [c EXCEPT !.ticket = t, !.from = IF raises THEN inPipe[t] ELSE None]
<1>1. c \in Calls /\ CallOK(c) /\ c.pc = "insert" /\ mutex = a /\ t # None
  BY DEF IInv, CallsOK, JoinTicket, Holds
<1>2. /\ c.op \in {"async", "tillIR", "synch", "machineCode"}
      /\ c.state # "EXECUTABLE" /\ c.method \in Methods
  BY <1>1, CallWithTicket
<1>3. t \in Tickets /\ c.priority \in Priorities
  BY <1>1, <1>2 DEF IInv, TypeTickets, Calls
<1>4. PICK d : CallGoesTo(a, d) /\ d.pc \notin {"asleep", "signalled"}
  <2>1. inPipe[t] \in Stages \cup {None}
    BY <1>3 DEF IInv, TypeTickets
  <2>2. /\ joined \in Calls /\ joined.op = c.op /\ joined.state = c.state
        /\ joined.pc = "insert" /\ joined.ticket = t /\ joined.method = c.method
    BY <1>1, <1>3, <2>1 DEF Calls
  <2>3. CallOK(joined)
    BY <1>1, <1>2, <1>3, <2>2 DEF CallOK
  <2>4. CASE raises
    <3> DEFINE d == [joined EXCEPT !.pc = "move"]
    <3>1. /\ d \in Calls /\ d.op = c.op /\ d.state = c.state
          /\ d.pc = "move" /\ d.ticket = t /\ d.method = c.method
      BY <2>2 DEF Calls
    <3>2. CallOK(d)
      BY <1>1, <1>2, <1>3, <3>1 DEF CallOK
    <3>3. call' = [call EXCEPT ![a] = d] /\ mutex' = mutex
      BY <2>4 DEF JoinTicket
    <3>4. methodsInPipe' = methodsInPipe
      BY DEF JoinTicket
    <3> HIDE DEF d
    <3>5. CallGoesTo(a, d)
      BY <1>1, <3>1, <3>2, <3>3, <3>4 DEF CallGoesTo
    <3> QED
      BY <3>1, <3>5
  <2>5. CASE ~raises
    <3>1. Inserted(a, joined)
      BY <2>5 DEF JoinTicket
    <3> HIDE DEF joined, c, t
    <3> QED
      BY <1>1, <1>2, <1>3, <2>2, <2>3, <3>1, InsertedGoesTo
  <2> QED
    BY <2>4, <2>5
<1>5. UNCHANGED <<methodVars, methodsInPipe, allocated, method, inPipe, inHigh,
                  queue, hand, step, index, todo, pending, reaper, cctorVars,
                  workerVars, schedVars, staticVars>>
  BY DEF JoinTicket, workerVars
<1>6. TypeTickets'
  <2>1. /\ notify' \in [Tickets -> SUBSET Threads]
        /\ irNotify' \in [Tickets -> SUBSET Threads]
        /\ mcNotify' \in [Tickets -> SUBSET Threads]
    BY <1>3 DEF IInv, TypeTickets, JoinTicket
  <2>2. priority' \in [Tickets -> Priorities]
    BY <1>3 DEF IInv, TypeTickets, JoinTicket
  <2>3. UNCHANGED <<itemPriority, trampolinesSet, dlaMethods>>
    BY DEF JoinTicket
  <2> QED
    BY <1>5, <2>1, <2>2, <2>3 DEF IInv, TypeTickets
<1>7. mutex \in {None, a} /\ ~Idle(a) /\ ~InSynch(a)
  BY <1>1 DEF Idle, InSynch
<1>8. SteadyExact'
  BY <1>4, <1>5, <1>7, SteadyKeptByCall DEF CallGoesTo
<1>9. CallsOK' /\ CallsHold' /\ ReaperHolds' /\ WorkersCall' /\ TypeShared'
  BY <1>4, <1>5, <1>7, CallStep
<1>10. TicketsNamed' /\ Queued' /\ InHands' /\ Placed' /\ IndexAgrees'
  BY <1>5, PlacesKept, IndexKept DEF IInv
<1> QED
  BY <1>5, <1>6, <1>8, <1>9, <1>10, CctorsKept, TypesKept DEF IInv

LEMMA ChangePriorityStep ==
    ASSUME IInv, NEW a \in Threads, ChangePriority(a)
    PROVE  IInv'
<1> DEFINE c == call[a]
           t == c.ticket
           promoted == ~inHigh[t] /\ NeedHigh(priority[t])
<1>1. c \in Calls /\ CallOK(c) /\ c.pc = "move" /\ mutex = a
  BY DEF IInv, CallsOK, ChangePriority, Holds
<1>2. /\ c.op \in {"async", "tillIR", "synch", "machineCode"}
      /\ c.state # "EXECUTABLE" /\ c.method \in Methods /\ t \in Tickets
  BY <1>1, CallWithTicket
<1>3. methodsInPipe[c.method] = t
  BY <1>1 DEF IInv, CallsHold
<1>4. UNCHANGED <<methodVars, methodsInPipe, allocated, method, priority, inPipe,
                  notify, irNotify, mcNotify, trampolinesSet, dlaMethods, hand,
                  step, index, passed, todo, pending, reaper, cctorVars,
                  schedVars, staticVars>>
  BY DEF ChangePriority
<1>5. PICK d : CallGoesTo(a, d) /\ d.pc \notin {"asleep", "signalled"}
  <2>1. CASE HasScheduler
    <3> DEFINE d == [c EXCEPT !.pc = "schedule"]
    <3>1. /\ d \in Calls /\ d.op = c.op /\ d.state = c.state
          /\ d.pc = "schedule" /\ d.ticket = t /\ d.method = c.method
      BY <1>1 DEF Calls
    <3>2. CallOK(d)
      BY <1>1, <1>2, <2>1, <3>1 DEF CallOK
    <3>3. call' = [call EXCEPT ![a] = d] /\ mutex' = mutex
      BY <2>1 DEF ChangePriority, GoesTo
    <3> HIDE DEF d
    <3>4. CallGoesTo(a, d)
      BY <1>1, <1>3, <1>4, <3>1, <3>2, <3>3 DEF CallGoesTo
    <3> QED
      BY <3>1, <3>4
  <2>2. CASE ~HasScheduler
    <3>1. Inserted(a, c)
      BY <2>2 DEF ChangePriority
    <3> HIDE DEF c
    <3> QED
      BY <1>1, <1>2, <3>1, InsertedGoesTo
  <2> QED
    BY <2>1, <2>2
<1>6. CASE ~StillInStage(c)
  <2>1. UNCHANGED <<inHigh, queue, ticketVars, workerVars>>
    BY <1>4, <1>6 DEF ChangePriority, ticketVars, workerVars
  <2>2. mutex \in {None, a} /\ ~Idle(a) /\ ~InSynch(a)
    BY <1>1 DEF Idle, InSynch
  <2>3. SteadyExact'
    BY <1>4, <1>5, <2>2, SteadyKeptByCall DEF CallGoesTo
  <2> QED
    BY <1>4, <1>5, <2>1, <2>2, <2>3, CallKeeps, CctorsKept, TypesKept DEF IInv
<1>7. CASE StillInStage(c)
  <2>1. /\ c.from \in Stages /\ inPipe[t] = c.from
        /\ itemPriority' = [itemPriority EXCEPT ![t] = priority[t]]
        /\ inHigh' = [inHigh EXCEPT ![t] = @ \/ promoted]
        /\ queue' = IF promoted
                      THEN [queue EXCEPT ![<<c.from, "low">>] = @ \ {t},
                                         ![<<c.from, "high">>] = @ \cup {t}]
                      ELSE queue
    BY <1>1, <1>7 DEF ChangePriority, StillInStage, Calls
  <2>2. checkpoint' \subseteq Workers
    BY <1>7 DEF ChangePriority, TryCheckPoint, IInv, TypeWorkers
  <2> HIDE DEF c
  <2>3. TypeTickets'
    BY <1>2, <1>4, <2>1 DEF IInv, TypeTickets
  <2>4. TypeWorkers'
    BY <1>4, <2>2 DEF IInv, TypeWorkers
  <2>5. Queued'
    <3> SUFFICES ASSUME NEW u \in Tickets
                 PROVE  /\ inPipe'[u] # None => Live(u)'
                        /\ \A s \in Stages, h \in Classes :
                             u \in queue'[<<s, h>>] <=>
                               inPipe'[u] = s /\ inHigh'[u] = (h = "high")
      BY DEF Queued
    <3>1. inPipe'[u] # None => Live(u)'
      BY <1>4 DEF IInv, Queued, Live
    <3>2. ASSUME NEW s \in Stages, NEW h \in Classes
          PROVE  u \in queue'[<<s, h>>] <=>
                   inPipe'[u] = s /\ inHigh'[u] = (h = "high")
      <4>0. /\ u \in queue[<<s, h>>] <=> inPipe[u] = s /\ inHigh[u] = (h = "high")
            /\ t \in queue[<<s, h>>] <=> inPipe[t] = s /\ inHigh[t] = (h = "high")
        BY <1>2 DEF IInv, Queued
      <4>1. CASE ~promoted
        <5>1. queue' = queue /\ inHigh' = inHigh
          BY <1>2, <2>1, <4>1 DEF IInv, TypeTickets
        <5> QED
          BY <1>4, <4>0, <5>1
      <4>2. CASE promoted
        <5>1. /\ inHigh[t] = FALSE
              /\ inHigh' = [inHigh EXCEPT ![t] = TRUE]
              /\ queue' = [queue EXCEPT ![<<c.from, "low">>] = @ \ {t},
                                        ![<<c.from, "high">>] = @ \cup {t}]
          BY <1>2, <2>1, <4>2 DEF IInv, TypeTickets
        <5>2. /\ s # c.from => queue'[<<s, h>>] = queue[<<s, h>>]
              /\ s = c.from /\ h = "low" => queue'[<<s, h>>] = queue[<<s, h>>] \ {t}
              /\ s = c.from /\ h = "high" => queue'[<<s, h>>] = queue[<<s, h>>] \cup {t}
          BY <2>1, <5>1 DEF IInv, TypeTickets, Classes
        <5>3. /\ inHigh'[t] = TRUE
              /\ u # t => inHigh'[u] = inHigh[u]
          BY <1>2, <5>1 DEF IInv, TypeTickets
        <5>4. h = "low" \/ h = "high"
          BY DEF Classes
        <5> QED
          BY <1>4, <2>1, <4>0, <5>1, <5>2, <5>3, <5>4
      <4> QED
        BY <4>1, <4>2
    <3> QED
      BY <3>1, <3>2
  <2>6. TicketsNamed' /\ InHands' /\ Placed' /\ IndexAgrees'
    <3>1. UNCHANGED <<methodsInPipe, allocated, method, inPipe, hand, step, index>>
      BY <1>4
    <3> QED
      BY <3>1, IndexKept DEF IInv, TicketsNamed, InHands, Placed, Live, Working
  <2>7. mutex \in {None, a} /\ ~Idle(a) /\ ~InSynch(a)
    BY <1>1 DEF Idle, InSynch, c
  <2>8. SteadyExact'
    BY <1>4, <1>5, <2>7, SteadyKeptByCall DEF CallGoesTo
  <2>9. CallsOK' /\ CallsHold' /\ ReaperHolds' /\ WorkersCall' /\ TypeShared'
    BY <1>4, <1>5, <2>7, CallStep
  <2>10. UNCHANGED <<schedVars, allocated>>
    BY <1>4
  <2> QED
    BY <1>4, <2>3, <2>4, <2>5, <2>6, <2>8, <2>9, <2>10, CctorsKept, TypesKept DEF IInv
<1> QED
  BY <1>6, <1>7

LEMMA InsertNewStep ==
    ASSUME IInv, NEW a \in Threads, InsertNew(a)
    PROVE  IInv'
<1> DEFINE c == call[a]
           m == c.method
<1>1. c \in Calls /\ CallOK(c) /\ c.pc = "insert" /\ mutex = a
      /\ methodsInPipe[m] = None
  BY DEF IInv, CallsOK, InsertNew, Holds
<1>2. /\ c.op \in {"async", "tillIR", "synch", "machineCode"}
      /\ c.state # "EXECUTABLE" /\ m \in Methods
  BY <1>1, CallWithTicket
<1>3. PICK t \in Tickets \ allocated :
        LET s == FirstStage(c.state)
            h == Class(c.priority)
        IN
        /\ methodsInPipe' = [methodsInPipe EXCEPT ![m] = t]
        /\ allocated' = allocated \cup {t}
        /\ method' = [method EXCEPT ![t] = m]
        /\ priority' = [priority EXCEPT ![t] = c.priority]
        /\ notify' = [notify EXCEPT ![t] = IF c.op = "synch" THEN {a} ELSE {}]
        /\ irNotify' = [irNotify EXCEPT ![t] = IF c.op = "tillIR" THEN {a} ELSE {}]
        /\ queue' = [queue EXCEPT ![<<s, h>>] = @ \cup {t}]
        /\ itemPriority' = [itemPriority EXCEPT ![t] = c.priority]
        /\ inPipe' = [inPipe EXCEPT ![t] = s]
        /\ inHigh' = [inHigh EXCEPT ![t] = (h = "high")]
        /\ trampolinesSet' = trampolinesSet \ {t}
        /\ Inserted(a, [c EXCEPT !.ticket = t])
  BY DEF InsertNew
<1> DEFINE s == FirstStage(c.state)
           h == Class(c.priority)
<1>4. s \in Stages /\ h \in Classes /\ c.priority \in Priorities
  BY <1>1, <1>2 DEF FirstStage, Class, Stages, Classes, Calls, States
<1>5. UNCHANGED <<methodVars, mcNotify, dlaMethods, cctorVars, workerVars, todo,
                  pending, reaper, schedVars, staticVars>>
  BY DEF InsertNew
<1>6. PICK d : CallGoesTo(a, d) /\ d.pc \notin {"asleep", "signalled"}
  <2> DEFINE e == [c EXCEPT !.ticket = t]
  <2>1. /\ e \in Calls /\ e.op = c.op /\ e.state = c.state /\ e.method = m
        /\ e.pc = "insert" /\ e.ticket = t
    BY <1>1 DEF Calls
  <2>2. CallOK(e)
    BY <1>1, <1>2, <2>1 DEF CallOK
  <2>3. Inserted(a, e)
    BY <1>3
  <2> HIDE DEF e, c, m
  <2> QED
    BY <1>1, <1>2, <2>1, <2>2, <2>3, InsertedGoesTo
<1> HIDE DEF s, h, c, m
<1>7. /\ methodsInPipe' = [methodsInPipe EXCEPT ![m] = t]
      /\ allocated' = allocated \cup {t}
      /\ method' = [method EXCEPT ![t] = m]
      /\ priority' = [priority EXCEPT ![t] = c.priority]
      /\ notify' = [notify EXCEPT ![t] = IF c.op = "synch" THEN {a} ELSE {}]
      /\ irNotify' = [irNotify EXCEPT ![t] = IF c.op = "tillIR" THEN {a} ELSE {}]
      /\ queue' = [queue EXCEPT ![<<s, h>>] = @ \cup {t}]
      /\ itemPriority' = [itemPriority EXCEPT ![t] = c.priority]
      /\ inPipe' = [inPipe EXCEPT ![t] = s]
      /\ inHigh' = [inHigh EXCEPT ![t] = (h = "high")]
      /\ trampolinesSet' = trampolinesSet \ {t}
  BY <1>3 DEF s, h, c, m
<1>8. TypeTickets'
  BY <1>2, <1>4, <1>5, <1>7 DEF IInv, TypeTickets
\* The new ticket was nowhere.
<1>9. ~Live(t)
  BY DEF Live
<1>10. inPipe[t] = None /\ t # None
  BY <1>9, MethodIsNotNone DEF IInv, Queued, TypeTickets
<1>11. \A n \in Methods : methodsInPipe[n] # t
  BY <1>10 DEF IInv, TicketsNamed
<1>12. /\ Live(t)'
       /\ \A u \in Tickets : u # t => (Live(u)' <=> Live(u))
  <2>1. methodsInPipe'[m] = t /\ method'[t] = m /\ t \in allocated'
    BY <1>2, <1>7 DEF IInv, TypeTickets
  <2>2. ASSUME NEW u \in Tickets, u # t
        PROVE  Live(u)' <=> Live(u)
    <3>1. method'[u] = method[u] /\ (u \in allocated' <=> u \in allocated)
      BY <1>7, <2>2 DEF IInv, TypeTickets
    <3>2. u \in allocated => method[u] \in Methods
      BY DEF IInv, TicketsNamed
    <3>3. method[u] \in Methods =>
            (methodsInPipe'[method[u]] = u <=> methodsInPipe[method[u]] = u)
      BY <1>1, <1>2, <1>7, <2>2, MethodIsNotNone DEF IInv, TypeTickets, m
    <3> QED
      BY <3>1, <3>2, <3>3 DEF Live
  <2> QED
    BY <2>1, <2>2 DEF Live
<1>13. TicketsNamed'
  <2>1. ASSUME NEW n \in Methods, methodsInPipe'[n] # None
        PROVE  methodsInPipe'[n] \in allocated' /\ method'[methodsInPipe'[n]] = n
    <3>1. CASE n = m
      BY <1>2, <1>7, <3>1 DEF IInv, TypeTickets
    <3>2. CASE n # m
      <4>1. methodsInPipe'[n] = methodsInPipe[n]
        BY <1>2, <1>7, <3>2 DEF IInv, TypeTickets
      <4>2. methodsInPipe[n] \in allocated /\ method[methodsInPipe[n]] = n
        BY <2>1, <4>1 DEF IInv, TicketsNamed
      <4> QED
        BY <1>7, <1>11, <4>1, <4>2 DEF IInv, TypeTickets
    <3> QED
      BY <3>1, <3>2
  <2>2. \A u \in allocated' : method'[u] \in Methods
    BY <1>2, <1>7 DEF IInv, TicketsNamed, TypeTickets
  <2> QED
    BY <2>1, <2>2 DEF TicketsNamed
<1>14. Queued'
  <2> SUFFICES ASSUME NEW u \in Tickets
               PROVE  /\ inPipe'[u] # None => Live(u)'
                      /\ \A r \in Stages, g \in Classes :
                           u \in queue'[<<r, g>>] <=>
                             inPipe'[u] = r /\ inHigh'[u] = (g = "high")
    BY DEF Queued
  <2>1. CASE u # t
    <3>1. inPipe'[u] = inPipe[u] /\ inHigh'[u] = inHigh[u]
      BY <1>7, <2>1 DEF IInv, TypeTickets
    <3>2. \A r \in Stages, g \in Classes :
             u \in queue'[<<r, g>>] <=> u \in queue[<<r, g>>]
      BY <1>4, <1>7, <2>1 DEF IInv, TypeTickets
    <3> QED
      BY <1>12, <2>1, <3>1, <3>2 DEF IInv, Queued
  <2>2. CASE u = t
    <3>1. inPipe'[t] = s /\ inHigh'[t] = (h = "high")
      BY <1>7 DEF IInv, TypeTickets
    <3>2. ASSUME NEW r \in Stages, NEW g \in Classes
          PROVE  t \in queue'[<<r, g>>] <=> (r = s /\ g = h)
      <4>1. t \notin queue[<<r, g>>]
        BY <1>10, MethodIsNotNone DEF IInv, Queued
      <4> QED
        BY <1>4, <1>7, <4>1 DEF IInv, TypeTickets
    <3>3. \A g \in Classes : ((h = "high") = (g = "high")) <=> g = h
      BY <1>4 DEF Classes
    <3> QED
      BY <1>12, <2>2, <3>1, <3>2, <3>3
  <2> QED
    BY <2>1, <2>2
<1>15. UNCHANGED <<hand, step, index>>
  BY <1>5 DEF workerVars
<1>16. \A w \in Workers : Working(w) => hand[w] \in Tickets /\ hand[w] # t
  BY <1>9 DEF IInv, InHands, Live, TypeTickets
<1>17. InHands'
  <2>1. ASSUME NEW w \in Workers, Working(w)
        PROVE  Live(hand[w])' /\ inPipe'[hand[w]] = None
    BY <1>7, <1>12, <1>15, <1>16, <2>1 DEF IInv, InHands, TypeTickets, Live
  <2> QED
    BY <1>15, <2>1 DEF IInv, InHands, Working, Live
<1>18. Placed'
  <2> SUFFICES ASSUME NEW u \in Tickets, Live(u)'
               PROVE  \/ inPipe'[u] # None
                      \/ \E w \in Workers : Working(w)' /\ hand'[w] = u
    BY DEF Placed
  <2>1. CASE u = t
    BY <1>4, <1>7, <2>1, MethodIsNotNone DEF IInv, TypeTickets
  <2>2. CASE u # t
    BY <1>7, <1>12, <1>15, <2>2 DEF IInv, TypeTickets, Placed, Working
  <2> QED
    BY <2>1, <2>2
<1>19. IndexAgrees'
  <2>1. \A u \in allocated : method'[u] = method[u]
    BY <1>7 DEF IInv, TypeTickets
  <2> QED
    BY <1>15, <2>1, IndexKept
<1>20. mutex \in {None, a} /\ ~Idle(a) /\ ~InSynch(a)
  BY <1>1 DEF Idle, InSynch, c
<1>21. CallsOK' /\ CallsHold' /\ ReaperHolds' /\ WorkersCall' /\ TypeShared'
  BY <1>5, <1>6, <1>15, <1>20, CallStep
<1>22. SteadyExact'
  BY <1>5, <1>6, <1>15, <1>20, SteadyKeptByCall DEF CallGoesTo
<1>23. SchedulerAgrees'
  BY <1>5, <1>7 DEF IInv, SchedulerAgrees, schedVars, HasScheduler
<1> QED
  BY <1>5, <1>8, <1>13, <1>14, <1>15, <1>17, <1>18, <1>19, <1>21, <1>22, <1>23,
     CctorsKept, TypesKept DEF IInv

LEMMA WakeUpStep ==
    ASSUME IInv, NEW a \in Threads, WakeUp(a)
    PROVE  IInv'
<1> DEFINE c == call[a]
           links == c.op = "machineCode"
           d == IF links THEN [c EXCEPT !.pc = "link"] ELSE NoCall
<1>1. c \in Calls /\ CallOK(c) /\ c.pc = "signalled" /\ mutex = None
      /\ c.op # "waitEmpty"
  BY DEF IInv, CallsOK, WakeUp
<1>2. CallGoesTo(a, d) /\ d.pc \in {"idle", "link"}
  <2>1. CASE ~links
    BY <2>1, ReturnGoesTo DEF WakeUp, NoCall
  <2>2. CASE links
    <3>1. d = [c EXCEPT !.pc = "link"]
      BY <2>2
    <3>2. d \in Calls /\ d.op = c.op /\ d.pc = "link" /\ d.method = c.method
          /\ d.ticket = c.ticket /\ d.state = c.state
      BY <1>1, <3>1 DEF Calls
    <3>3. CallOK(d)
      BY <1>1, <2>2, <3>2 DEF CallOK
    <3>4. call' = [call EXCEPT ![a] = d] /\ mutex' = a
      BY <2>2, <3>1 DEF WakeUp
    <3> HIDE DEF d
    <3> QED
      BY <3>2, <3>3, <3>4 DEF CallGoesTo
  <2> QED
    BY <2>1, <2>2
<1>3. UNCHANGED <<methodVars, ticketVars, workerVars, todo, pending, reaper,
                  schedVars, allocated, hand, step>>
  BY DEF WakeUp, ticketVars, workerVars
<1>4. mutex \in {None, a} /\ ~Idle(a)
  BY <1>1 DEF Idle
<1>5. StaticMemory!SMTypeOK'
  BY DEF IInv, WakeUp, StaticMemory!SMTypeOK, StaticMemory!RegisterCompilationDone
<1> HIDE DEF d
<1>6. TypeCctor' /\ SteadyExact' /\ StepsAgree'
  <2>0. call' = [call EXCEPT ![a] = d]
    BY <1>2 DEF CallGoesTo
  <2>1. CASE IsCctorThread(a) /\ c.op = "synch"
    <3>1. a \in CctorWorkers /\ Counted(a)
      BY <1>1, <2>1 DEF IsCctorThread, Counted
    <3>2. step[a] # "wait"
      BY <1>4, <3>1 DEF IInv, WorkersCall
    <3>3. \A w \in CctorWorkers : Counted(w)' <=> Counted(w) /\ w # a
      <4> TAKE w \in CctorWorkers
      <4>1. w \in Threads
        BY WorkerShape
      <4> QED
        BY <1>2, <1>3, <2>0, <3>2, <4>1 DEF IInv, CallsOK, Counted
    <3>4. Waiting' = Waiting \ {a}
      BY <3>3 DEF Waiting
    <3>5. IncreaseSteadyCCTORThreads
      BY <2>1 DEF WakeUp
    <3> QED
      BY <1>3, <3>1, <3>4, <3>5, IncreaseCounts, StepsKept
  <2>2. CASE ~(IsCctorThread(a) /\ c.op = "synch")
    <3>1. UNCHANGED cctorVars
      BY <2>2 DEF WakeUp
    <3>2. \A w \in CctorWorkers : Counted(w)' <=> Counted(w)
      <4> TAKE w \in CctorWorkers
      <4>1. w \in Threads
        BY WorkerShape
      <4> QED
        BY <1>2, <1>3, <2>0, <2>2, <4>1 DEF IInv, CallsOK, Counted, IsCctorThread
    <3> QED
      BY <1>3, <3>1, <3>2, SteadyKept, CctorsKept DEF IInv, cctorVars
  <2> QED
    BY <2>1, <2>2
<1> QED
  BY <1>2, <1>3, <1>4, <1>5, <1>6, CallKeeps, TypesKept DEF IInv

LEMMA LinkWaitedStep ==
    ASSUME IInv, NEW a \in Threads, LinkWaited(a)
    PROVE  IInv'
<1>1. /\ call[a] \in Calls /\ CallOK(call[a]) /\ call[a].pc = "link" /\ mutex = a
  BY DEF IInv, CallsOK, LinkWaited, Holds
<1>2. call[a].method \in Methods /\ call[a].ticket \in Tickets
  BY <1>1, CallWithTicket
<1>3. CallGoesTo(a, NoCall)
  BY ReturnGoesTo DEF LinkWaited
<1>4. UNCHANGED <<methodState, methodsInPipe, allocated, method, priority,
                  inPipe, inHigh, itemPriority, notify, irNotify, mcNotify,
                  dlaMethods, queue, cctorVars, workerVars, todo, pending,
                  reaper, schedVars, staticVars, hand, step, index>>
  BY DEF LinkWaited, workerVars
<1>5. TypeMethods'
  BY <1>2, <1>4 DEF IInv, TypeMethods, LinkWaited
<1>6. TypeTickets'
  BY <1>2, <1>4 DEF IInv, TypeTickets, LinkWaited
<1>7. mutex \in {None, a} /\ ~Idle(a) /\ ~InSynch(a)
  BY <1>1 DEF Idle, InSynch
<1>8. SteadyExact'
  BY <1>3, <1>4, <1>7, SteadyKeptByCall DEF CallGoesTo, NoCall
<1>9. CallsOK' /\ CallsHold' /\ ReaperHolds' /\ WorkersCall' /\ TypeShared'
  BY <1>3, <1>4, <1>7, CallStep
<1>10. TicketsNamed' /\ Queued' /\ InHands' /\ Placed' /\ IndexAgrees'
  BY <1>4, PlacesKept, IndexKept DEF IInv
<1> QED
  BY <1>4, <1>5, <1>6, <1>8, <1>9, <1>10, CctorsKept, TypesKept DEF IInv

LEMMA WaitEmptyPipelineStep ==
    ASSUME IInv, NEW a \in Threads, WaitEmptyPipeline(a)
    PROVE  IInv'
<1> DEFINE c == call[a]
           d == IF PipelineEmpty THEN NoCall ELSE [c EXCEPT !.pc = "asleep"]
<1>1. c \in Calls /\ CallOK(c) /\ c.pc \in {"enter", "signalled"} /\ mutex = None
      /\ c.op = "waitEmpty"
  BY DEF IInv, CallsOK, WaitEmptyPipeline
<1>2. /\ d \in Calls /\ CallOK(d) /\ d.pc \in {"idle", "asleep"}
      /\ d.op \in {"none", "waitEmpty"}
  <2>1. CASE PipelineEmpty
    BY <2>1, NoCallOK DEF NoCall
  <2>2. CASE ~PipelineEmpty
    <3>1. d = [c EXCEPT !.pc = "asleep"]
      BY <2>2
    <3> QED
      BY <1>1, <3>1 DEF Calls, CallOK
  <2> QED
    BY <2>1, <2>2
<1>3. call' = [call EXCEPT ![a] = d] /\ mutex' = mutex
  BY DEF WaitEmptyPipeline
<1> HIDE DEF d
<1>4. CallGoesTo(a, d)
  BY <1>1, <1>2, <1>3 DEF CallGoesTo, Keeping
<1>5. UNCHANGED <<methodVars, ticketVars, workerVars, todo, pending, reaper,
                  cctorVars, schedVars, staticVars, allocated, hand, step>>
  BY DEF WaitEmptyPipeline, ticketVars, workerVars
<1>6. mutex \in {None, a} /\ ~Idle(a) /\ ~InSynch(a)
  BY <1>1 DEF Idle, InSynch
<1>7. SteadyExact'
  BY <1>2, <1>3, <1>5, <1>6, SteadyKeptByCall
<1> QED
  BY <1>4, <1>5, <1>6, <1>7, CallKeeps, CctorsKept, TypesKept DEF IInv

LEMMA InsertMethodStep ==
    ASSUME IInv, NEW a \in Threads, InsertMethod(a)
    PROVE  IInv'
  BY EnterInsertStep, EnterSynchStep, JoinTicketStep, ChangePriorityStep,
     SendToSchedulerStep, InsertNewStep, GoToSleepStep, WakeUpStep,
     LinkWaitedStep, WaitEmptyPipelineStep DEF InsertMethod

-----------------------------------------------------------------------------
(* The workers' steps.  Most change where in its job a worker is and little *)
(* else.                                                                   *)

LEMMA HandInPlace ==
    ASSUME IInv, NEW w \in Workers, Working(w)
    PROVE  /\ hand[w] \in Tickets /\ hand[w] \in allocated /\ Live(hand[w])
           /\ method[hand[w]] \in Methods /\ inPipe[hand[w]] = None
           /\ methodsInPipe[method[hand[w]]] = hand[w]
  BY DEF IInv, InHands, Live, TicketsNamed, TypeTickets

LEMMA PlacesKeptByWorker ==
    ASSUME IInv, NEW w \in Workers, NEW x \in StepsOf(w[1]) \ {"idle", "end"},
           Working(w), step' = [step EXCEPT ![w] = x],
           cctorThreads' \in Nat, cctorThreads' >= cctorThreads,
           UNCHANGED <<methodsInPipe, allocated, method, inPipe, inHigh, queue, hand>>
    PROVE  TicketsNamed' /\ Queued' /\ InHands' /\ Placed' /\ StepsAgree'
<1>1. \A v \in Workers : Working(v)' <=> Working(v)
  BY DEF IInv, TypeWorkers, Working
<1>2. TicketsNamed' /\ Queued' /\ InHands' /\ Placed'
  BY <1>1 DEF IInv, TicketsNamed, Queued, InHands, Placed, Live
<1>3. \A v \in Workers : v[3] \in Nat
  BY WorkerShape
<1>4. cctorThreads \in Nat
  BY NumbersAssumption DEF IInv, TypeCctor
<1>5. \A v \in Workers : Started(v) => Started(v)'
  BY <1>3, <1>4 DEF Started
<1>6. StepsAgree'
  BY <1>5 DEF IInv, TypeWorkers, StepsAgree, Working
<1> QED
  BY <1>2, <1>6

LEMMA WorkersCallKept ==
    ASSUME IInv, NEW w \in Workers, NEW x, step' = [step EXCEPT ![w] = x],
           w \in CctorWorkers => Idle(w),
           \A v \in CctorWorkers : todo'[v] = {} /\ (Idle(v) => Idle(v)')
    PROVE  WorkersCall'
<1> SUFFICES ASSUME NEW v \in CctorWorkers, ~Idle(v)'
             PROVE  step'[v] \in {"make", "call"}
  BY DEF WorkersCall
<1>1. v \in Workers /\ v # w /\ step[v] \in {"make", "call"}
  BY WorkerShape DEF IInv, WorkersCall
<1> QED
  BY <1>1 DEF IInv, TypeWorkers

(* The calls of other threads go on, unless they are woken.                *)
LEMMA CallsKept ==
    ASSUME IInv, UNCHANGED call \/ \E S : Wake(S),
           UNCHANGED <<mutex, methodsInPipe>>
    PROVE  /\ CallsOK' /\ CallsHold'
           /\ \A a \in Threads : /\ Idle(a)' <=> Idle(a)
                                 /\ InSynch(a)' <=> InSynch(a)
<1>1. CASE UNCHANGED call
  BY <1>1 DEF IInv, CallsOK, CallOK, HasScheduler, CallsHold, Idle, InSynch
<1>2. CASE \E S : Wake(S)
  <2>1. PICK S : Wake(S)
    BY <1>2
  <2>2. /\ CallsOK'
        /\ \A a \in Threads :
                /\ call'[a].op = call[a].op
                /\ call'[a].method = call[a].method
                /\ call'[a].ticket = call[a].ticket
                /\ \/ call'[a].pc = call[a].pc
                   \/ call[a].pc = "asleep" /\ call'[a].pc = "signalled"
    BY <2>1, WakeKeeps
  <2>3. CallsHold'
    BY <2>2 DEF IInv, CallsHold
  <2> QED
    BY <2>2, <2>3 DEF Idle, InSynch
<1> QED
  BY <1>1, <1>2

LEMMA SteadyKeptByWorker ==
    ASSUME IInv, NEW w \in Workers, NEW x, step' = [step EXCEPT ![w] = x],
           step[w] # "wait", x # "wait", UNCHANGED cctorVars,
           \A a \in Threads : InSynch(a)' <=> InSynch(a)
    PROVE  SteadyExact'
<1>1. \A v \in CctorWorkers : Counted(v)' <=> Counted(v)
  <2> TAKE v \in CctorWorkers
  <2>1. v \in Threads /\ v \in Workers
    BY WorkerShape
  <2>2. step'[v] = "wait" <=> step[v] = "wait"
    BY <2>1 DEF IInv, TypeWorkers
  <2> QED
    BY <2>1, <2>2 DEF Counted, InSynch
<1> QED
  BY <1>1, SteadyKept DEF IInv, cctorVars

LEMMA WorkerStep ==
    ASSUME IInv, NEW w \in Workers, NEW x \in StepsOf(w[1]) \ {"idle", "end", "wait"},
           Working(w), step[w] # "wait", w \in CctorWorkers => Idle(w),
           step' = [step EXCEPT ![w] = x],
           UNCHANGED call \/ \E S : Wake(S),
           \A v \in CctorWorkers : todo'[v] = {},
           UNCHANGED <<mutex, pending, reaper, cctorVars, schedVars, methodsInPipe,
                       allocated, method, inPipe, inHigh, queue, hand>>
    PROVE  /\ TypeShared' /\ TypeCctor' /\ TypeSched' /\ SchedulerAgrees'
           /\ CallsOK' /\ CallsHold' /\ ReaperHolds' /\ WorkersCall'
           /\ TicketsNamed' /\ Queued' /\ InHands' /\ Placed' /\ StepsAgree'
           /\ SteadyExact'
<1>1. cctorThreads' \in Nat /\ cctorThreads' >= cctorThreads
  BY NumbersAssumption DEF IInv, TypeCctor, cctorVars
<1>2. TicketsNamed' /\ Queued' /\ InHands' /\ Placed' /\ StepsAgree'
  BY <1>1, PlacesKeptByWorker
<1>3. /\ CallsOK' /\ CallsHold'
      /\ \A a \in Threads : /\ Idle(a)' <=> Idle(a)
                            /\ InSynch(a)' <=> InSynch(a)
  BY CallsKept
<1>4. WorkersCall'
  <2>1. \A v \in CctorWorkers : v \in Threads
    BY WorkerShape
  <2> QED
    BY <1>3, <2>1, WorkersCallKept
<1>5. SteadyExact'
  BY <1>3, SteadyKeptByWorker
<1>6. ReaperHolds'
  BY DEF IInv, ReaperHolds, PipelineEmpty
<1>7. TypeShared'
  BY DEF IInv, TypeShared
<1> QED
  BY <1>2, <1>3, <1>4, <1>5, <1>6, <1>7, TypesKept DEF IInv

(* The index of a worker that is not in the cctor stage stays 1.           *)
LEMMA IndexKeptByOther ==
    ASSUME IInv, NEW w \in Workers, w \notin CctorWorkers, NEW x,
           step' = [step EXCEPT ![w] = x], NEW y, hand' = [hand EXCEPT ![w] = y],
           UNCHANGED index, \A t \in allocated : method'[t] = method[t]
    PROVE  IndexAgrees'
<1> SUFFICES ASSUME NEW v \in CctorWorkers
             PROVE  /\ step'[v] = step[v]
                    /\ step[v] \in LoopSteps \cup {"check"} => Cctors(v)' = Cctors(v)
  BY DEF IInv, IndexAgrees
<1>1. v \in Workers /\ v # w
  BY WorkerShape
<1>2. step'[v] = step[v] /\ hand'[v] = hand[v]
  BY <1>1 DEF IInv, TypeWorkers
<1>3. ASSUME step[v] \in LoopSteps \cup {"check"}
      PROVE  Cctors(v)' = Cctors(v)
  <2>1. Working(v)
    BY <1>3 DEF Working, LoopSteps
  <2> QED
    BY <1>1, <1>2, <2>1, HandInPlace DEF Cctors
<1> QED
  BY <1>2, <1>3

LEMMA IndexKeptByCctorWorker ==
    ASSUME IInv, NEW w \in CctorWorkers, NEW x, NEW i,
           step' = [step EXCEPT ![w] = x], index' = [index EXCEPT ![w] = i],
           UNCHANGED hand, \A t \in allocated : method'[t] = method[t],
           IF x \in LoopSteps \cup {"check"} THEN i \in 1 .. Len(Cctors(w)') ELSE i = 1
    PROVE  IndexAgrees'
<1> SUFFICES ASSUME NEW v \in CctorWorkers
             PROVE  IF step'[v] \in LoopSteps \cup {"check"}
                      THEN index'[v] \in 1 .. Len(Cctors(v)')
                      ELSE index'[v] = 1
  BY DEF IndexAgrees
<1>1. v \in Workers /\ w \in Workers
  BY WorkerShape
<1>2. CASE v = w
  BY <1>1, <1>2 DEF IInv, TypeWorkers
<1>3. CASE v # w
  <2>1. step'[v] = step[v] /\ index'[v] = index[v]
    BY <1>1, <1>3 DEF IInv, TypeWorkers
  <2>2. ASSUME step[v] \in LoopSteps \cup {"check"}
        PROVE  Cctors(v)' = Cctors(v)
    <3>1. Working(v)
      BY <2>2 DEF Working, LoopSteps
    <3> QED
      BY <1>1, <3>1, HandInPlace DEF Cctors
  <2> QED
    BY <2>1, <2>2 DEF IInv, IndexAgrees
<1> QED
  BY <1>2, <1>3

LEMMA TodoKept ==
    ASSUME IInv
    PROVE  \A v \in CctorWorkers : todo[v] = {}
  BY DEF IInv, WorkersCall

(* The stages before the cctor stage.                                      *)
LEMMA OnlyStepKeeps ==
    ASSUME IInv, NEW w \in Workers, NEW x \in StepsOf(w[1]) \ {"idle", "end", "wait"},
           Working(w), w \notin CctorWorkers, GoOn(w, x), OnlyStep,
           UNCHANGED call \/ \E S : Wake(S), UNCHANGED staticVars, TypeMethods'
    PROVE  IInv'
<1>1. UNCHANGED <<mutex, pending, reaper, cctorVars, schedVars, ticketVars, todo,
                  hand, index, passed, checkpoint, methodsInPipe, allocated, method,
                  inPipe, inHigh, queue>>
  BY DEF OnlyStep, OnlyWorker, ticketVars
<1>2. step' = [step EXCEPT ![w] = x] /\ x \in Steps
  BY WorkerShape DEF GoOn, StepsOf, Steps, Stages, CctorSteps, LoopSteps
<1>3. step[w] # "wait"
  BY WorkerShape DEF IInv, StepsAgree, StepsOf, Stages
<1>4. TypeWorkers'
  BY <1>1, <1>2 DEF IInv, TypeWorkers
<1>5. IndexAgrees'
  <2>1. hand' = [hand EXCEPT ![w] = hand[w]]
    BY <1>1 DEF IInv, TypeWorkers
  <2> QED
    BY <1>1, <1>2, <2>1, IndexKeptByOther
<1>6. \A v \in CctorWorkers : todo'[v] = {}
  BY <1>1, TodoKept
<1> QED
  BY <1>1, <1>2, <1>3, <1>4, <1>5, <1>6, WorkerStep, TypesKept DEF IInv

(* The stage that a worker in a step belongs to.                           *)
LEMMA StageOfStep ==
    ASSUME IInv, NEW w \in Workers
    PROVE  /\ step[w] \in {"irNotify"} => w[1] = "cil"
           /\ step[w] \in {"insert"} => w[1] = "dla"
           /\ step[w] \in {"mcNotify"} => w[1] = "mc"
           /\ step[w] = "put" => w[1] \in Stages \ {"cctor"}
           /\ step[w] \in CctorSteps => w[1] = "cctor"
  BY WorkerShape DEF IInv, StepsAgree, StepsOf, Stages, CctorSteps, LoopSteps

LEMMA TranslateToIRStep ==
    ASSUME IInv, NEW w \in Workers, TranslateToIR(w)
    PROVE  IInv'
<1>1. /\ w[1] = "cil" /\ Working(w) /\ w \notin CctorWorkers
      /\ "irNotify" \in StepsOf(w[1])
  BY WorkerShape DEF TranslateToIR, At, Working, StepsOf
<1>2. TypeMethods'
  BY DEF IInv, TypeMethods, TranslateToIR, States
<1> QED
  BY <1>1, <1>2, OnlyStepKeeps DEF TranslateToIR

LEMMA NotifyIRStep ==
    ASSUME IInv, NEW w \in Workers, NotifyIR(w)
    PROVE  IInv'
<1>1. /\ w[1] = "cil" /\ Working(w) /\ w \notin CctorWorkers
      /\ "put" \in StepsOf(w[1])
  BY StageOfStep, WorkerShape DEF NotifyIR, Working, StepsOf
<1>2. TypeMethods' /\ \E S : Wake(S)
  BY TypesKept DEF IInv, NotifyIR
<1> QED
  BY <1>1, <1>2, OnlyStepKeeps DEF NotifyIR

LEMMA OptimizeStep ==
    ASSUME IInv, NEW w \in Workers, Optimize(w)
    PROVE  IInv'
<1>1. /\ w[1] = "opt" /\ Working(w) /\ w \notin CctorWorkers
      /\ "put" \in StepsOf(w[1])
  BY WorkerShape DEF Optimize, At, Working, StepsOf
<1>2. TypeMethods'
  BY TypesKept DEF IInv, Optimize
<1> QED
  BY <1>1, <1>2, OnlyStepKeeps DEF Optimize

LEMMA GenerateMachineCodeStep ==
    ASSUME IInv, NEW w \in Workers, GenerateMachineCode(w)
    PROVE  IInv'
<1>1. /\ w[1] = "mc" /\ Working(w) /\ w \notin CctorWorkers
      /\ "mcNotify" \in StepsOf(w[1])
  BY WorkerShape DEF GenerateMachineCode, At, Working, StepsOf
<1>2. TypeMethods'
  BY DEF IInv, TypeMethods, GenerateMachineCode, States
<1> QED
  BY <1>1, <1>2, OnlyStepKeeps DEF GenerateMachineCode

LEMMA NotifyMachineCodeStep ==
    ASSUME IInv, NEW w \in Workers, NotifyMachineCode(w)
    PROVE  IInv'
<1>1. /\ w[1] = "mc" /\ Working(w) /\ w \notin CctorWorkers
      /\ "put" \in StepsOf(w[1])
  BY StageOfStep, WorkerShape DEF NotifyMachineCode, Working, StepsOf
<1>2. TypeMethods' /\ \E S : Wake(S)
  BY TypesKept DEF IInv, NotifyMachineCode
<1> QED
  BY <1>1, <1>2, OnlyStepKeeps DEF NotifyMachineCode

LEMMA FindCalleesStep ==
    ASSUME IInv, NEW w \in Workers, FindCallees(w)
    PROVE  IInv'
<1>1. /\ w[1] = "dla" /\ Working(w) /\ w \notin CctorWorkers /\ step[w] # "wait"
  BY WorkerShape DEF FindCallees, At, Working
<1>2. PICK x \in {"put", "insert"} : step' = [step EXCEPT ![w] = x]
  BY DEF FindCallees, GoOn
<1>3. x \in StepsOf(w[1]) \ {"idle", "end", "wait"} /\ x \in Steps
  BY <1>1, <1>2 DEF StepsOf, Steps
<1>4. UNCHANGED <<mutex, pending, reaper, cctorVars, schedVars, ticketVars, hand,
                  index, passed, checkpoint, methodVars, call, staticVars,
                  methodsInPipe, allocated, method, inPipe, inHigh, queue>>
  BY DEF FindCallees, OnlyWorker, ticketVars
<1>5. method[hand[w]] \in Methods
  BY <1>1, HandInPlace
<1>6. PICK found \in SUBSET Methods : todo' = [todo EXCEPT ![w] = found]
  <2>1. CASE Mode = "jit"
    <3>1. todo' = todo /\ w \in Threads
      BY <2>1, WorkerShape DEF FindCallees
    <3>2. todo[w] \in SUBSET Methods /\ todo' = [todo EXCEPT ![w] = todo[w]]
      BY <3>1 DEF IInv, TypeWorkers
    <3> QED
      BY <3>2
  <2>2. CASE Mode # "jit"
    <3>1. Callees[method[hand[w]]] \in SUBSET Methods
      BY <1>5, ProgramAssumption
    <3>2. PICK found \in {Callees[method[hand[w]]]} \cup (IF Mode = "dla" THEN {{}} ELSE {}) :
            todo' = [todo EXCEPT ![w] = found]
      BY <2>2 DEF FindCallees
    <3>3. found \in SUBSET Methods
      BY <3>1
    <3> QED
      BY <3>2, <3>3
  <2> QED
    BY <2>1, <2>2
<1>7. TypeWorkers'
  BY <1>2, <1>3, <1>4, <1>6 DEF IInv, TypeWorkers
<1>8. \A v \in CctorWorkers : todo'[v] = {}
  BY <1>1, <1>6, TodoKept, WorkerShape DEF IInv, TypeWorkers
<1>9. IndexAgrees'
  <2>1. hand' = [hand EXCEPT ![w] = hand[w]]
    BY <1>4 DEF IInv, TypeWorkers
  <2> QED
    BY <1>1, <1>2, <1>4, <2>1, IndexKeptByOther
<1> QED
  BY <1>1, <1>2, <1>3, <1>4, <1>7, <1>8, <1>9, WorkerStep, TypesKept DEF IInv

LEMMA EndDLAStep ==
    ASSUME IInv, NEW w \in Workers, EndDLA(w)
    PROVE  IInv'
<1>1. /\ w[1] = "dla" /\ Working(w) /\ w \notin CctorWorkers /\ step[w] # "wait"
      /\ "put" \in StepsOf(w[1]) \ {"idle", "end", "wait"} /\ "put" \in Steps
  BY StageOfStep, WorkerShape DEF EndDLA, Working, StepsOf, Steps
<1>2. UNCHANGED <<mutex, pending, reaper, cctorVars, schedVars, methodVars,
                  methodsInPipe, allocated, method, priority, inPipe,
                  inHigh, itemPriority, notify, irNotify, mcNotify,
                  trampolinesSet, queue, hand, index, passed, checkpoint, todo,
                  call, staticVars>>
  BY DEF EndDLA, OnlyWorker
<1>3. step' = [step EXCEPT ![w] = "put"]
  BY DEF EndDLA, GoOn
<1>4. TypeWorkers'
  BY <1>1, <1>2, <1>3 DEF IInv, TypeWorkers
<1>5. TypeTickets'
  <2>1. hand[w] \in Tickets
    BY <1>1, HandInPlace
  <2>2. dlaMethods' \subseteq Tickets
    BY <2>1 DEF IInv, TypeTickets, EndDLA
  <2> QED
    BY <1>2, <2>2 DEF IInv, TypeTickets
<1>6. \A v \in CctorWorkers : todo'[v] = {}
  BY <1>2, TodoKept
<1>7. IndexAgrees'
  <2>1. hand' = [hand EXCEPT ![w] = hand[w]]
    BY <1>2 DEF IInv, TypeWorkers
  <2> QED
    BY <1>1, <1>2, <1>3, <2>1, IndexKeptByOther
<1> QED
  BY <1>1, <1>2, <1>3, <1>4, <1>5, <1>6, <1>7, WorkerStep, TypesKept DEF IInv

LEMMA TakeStep ==
    ASSUME IInv, NEW w \in Workers, Take(w)
    PROVE  IInv'
<1> DEFINE s == w[1]
           h == w[2]
<1>1. s \in Stages /\ h \in Classes /\ <<s, h>> \in Stages \X Classes
  BY WorkerShape
<1>2. PICK t \in queue[<<s, h>>] :
        /\ queue' = [queue EXCEPT ![<<s, h>>] = @ \ {t}]
        /\ hand' = [hand EXCEPT ![w] = t]
        /\ inPipe' = [inPipe EXCEPT ![t] = None]
        /\ itemPriority' = [itemPriority EXCEPT ![t] = priority[t]]
  BY DEF Take
<1>3. t \in Tickets
  BY <1>1 DEF IInv, TypeTickets
<1>4. UNCHANGED <<methodVars, methodsInPipe, allocated, method, priority,
                  inHigh, notify, irNotify, mcNotify, trampolinesSet, dlaMethods,
                  index, passed, todo, call, staticVars, mutex, cctorVars,
                  pending, reaper, schedVars>>
  BY DEF Take, OnlyWorker
<1>5. step' = [step EXCEPT ![w] = "job"] /\ step[w] = "idle" /\ Started(w)
  BY DEF Take, GoOn, FirstIdle
<1>6. checkpoint' \subseteq Workers
  BY DEF IInv, TypeWorkers, Take
<1> HIDE DEF s, h
<1>7. TypeTickets'
  BY <1>1, <1>2, <1>3, <1>4 DEF IInv, TypeTickets
<1>8. TypeWorkers'
  BY <1>2, <1>3, <1>4, <1>5, <1>6 DEF IInv, TypeWorkers, Steps
<1>9. /\ Working(w)' /\ ~Working(w) /\ hand'[w] = t
      /\ \A v \in Workers : v # w =>
           step'[v] = step[v] /\ hand'[v] = hand[v] /\ (Working(v)' <=> Working(v))
  BY <1>2, <1>5 DEF IInv, TypeWorkers, Working
<1>10. \A u \in Tickets : Live(u)' <=> Live(u)
  BY <1>4 DEF Live
\* The ticket was in this queue only, and in nobody's hands.
<1>11. inPipe[t] = s /\ inHigh[t] = (h = "high") /\ s # None /\ Live(t)
  BY <1>1, <1>2, <1>3, MethodIsNotNone DEF IInv, Queued
<1>12. \A v \in Workers : Working(v) => hand[v] # t
  BY <1>11 DEF IInv, InHands
<1>13. inPipe'[t] = None /\ \A u \in Tickets : u # t => inPipe'[u] = inPipe[u]
  BY <1>2, <1>3 DEF IInv, TypeTickets
<1>14. TicketsNamed'
  BY <1>4 DEF IInv, TicketsNamed
<1>15. Queued'
  <2> SUFFICES ASSUME NEW u \in Tickets
               PROVE  /\ inPipe'[u] # None => Live(u)'
                      /\ \A r \in Stages, g \in Classes :
                           u \in queue'[<<r, g>>] <=>
                             inPipe'[u] = r /\ inHigh'[u] = (g = "high")
    BY DEF Queued
  <2>1. CASE u # t
    <3>1. \A r \in Stages, g \in Classes :
             u \in queue'[<<r, g>>] <=> u \in queue[<<r, g>>]
      BY <1>1, <1>2, <2>1 DEF IInv, TypeTickets
    <3> QED
      BY <1>4, <1>10, <1>13, <2>1, <3>1 DEF IInv, Queued
  <2>2. CASE u = t
    <3>1. ASSUME NEW r \in Stages, NEW g \in Classes
          PROVE  t \notin queue'[<<r, g>>]
      <4>1. t \in queue[<<r, g>>] => r = s /\ ((g = "high") = (h = "high"))
        BY <1>3, <1>11 DEF IInv, Queued
      <4>2. t \in queue[<<r, g>>] => r = s /\ g = h
        BY <1>1, <4>1 DEF Classes
      <4> QED
        BY <1>1, <1>2, <4>2 DEF IInv, TypeTickets
    <3> QED
      BY <1>13, <2>2, <3>1, MethodIsNotNone
  <2> QED
    BY <2>1, <2>2
<1>16. InHands'
  <2> SUFFICES ASSUME NEW v \in Workers, Working(v)'
               PROVE  /\ Live(hand[v])' /\ inPipe'[hand'[v]] = None
                      /\ \A z \in Workers :
                           Working(z)' /\ hand'[z] = hand'[v] => z = v
    BY DEF InHands
  <2>1. CASE v = w
    BY <1>3, <1>9, <1>10, <1>11, <1>12, <1>13, <2>1
  <2>2. CASE v # w
    <3>1. Working(v) /\ hand'[v] = hand[v] /\ hand[v] \in Tickets /\ hand[v] # t
      BY <1>9, <1>12, <2>2, HandInPlace
    <3>2. /\ Live(hand[v]) /\ inPipe[hand[v]] = None
          /\ \A z \in Workers : Working(z) /\ hand[z] = hand[v] => z = v
      BY <3>1 DEF IInv, InHands
    <3> QED
      BY <1>9, <1>10, <1>13, <3>1, <3>2
  <2> QED
    BY <2>1, <2>2
<1>17. Placed'
  <2> SUFFICES ASSUME NEW u \in Tickets, Live(u)', inPipe'[u] = None
               PROVE  \E v \in Workers : Working(v)' /\ hand'[v] = u
    BY DEF Placed
  <2>1. CASE u = t
    BY <1>9, <2>1
  <2>2. CASE u # t
    BY <1>9, <1>10, <1>13, <2>2 DEF IInv, Placed
  <2> QED
    BY <2>1, <2>2
<1>18. StepsAgree'
  <2>1. "job" \in StepsOf(w[1])
    BY DEF StepsOf
  <2>2. \A v \in Workers : Started(v)' <=> Started(v)
    BY <1>4 DEF Started, cctorVars
  <2> QED
    BY <1>2, <1>3, <1>5, <1>9, <2>1, <2>2, MethodIsNotNone
    DEF IInv, TypeWorkers, StepsAgree
<1>19. IndexAgrees'
  <2> SUFFICES ASSUME NEW v \in CctorWorkers
               PROVE  IF step'[v] \in LoopSteps \cup {"check"}
                        THEN index'[v] \in 1 .. Len(Cctors(v)')
                        ELSE index'[v] = 1
    BY DEF IndexAgrees
  <2>1. v \in Workers
    BY WorkerShape
  <2>2. CASE v = w
    BY <1>4, <1>5, <1>8, <2>1, <2>2 DEF IInv, TypeWorkers, IndexAgrees, LoopSteps
  <2>3. CASE v # w
    BY <1>4, <1>9, <2>1, <2>3 DEF IInv, IndexAgrees, Cctors
  <2> QED
    BY <2>2, <2>3
<1>20. WorkersCall'
  <2>1. w \in CctorWorkers => Idle(w)
    BY <1>5 DEF IInv, WorkersCall
  <2>2. \A v \in CctorWorkers : todo'[v] = {} /\ (Idle(v) => Idle(v)')
    BY <1>4, TodoKept DEF Idle
  <2> QED
    BY <1>5, <2>1, <2>2, WorkersCallKept
<1>21. /\ CallsOK' /\ CallsHold'
       /\ \A a \in Threads : InSynch(a)' <=> InSynch(a)
  BY <1>4, CallsKept
<1>22. SteadyExact'
  BY <1>4, <1>5, <1>21, SteadyKeptByWorker
<1>23. ReaperHolds' /\ TypeShared'
  BY <1>4 DEF IInv, ReaperHolds, PipelineEmpty, TypeShared
<1> QED
  BY <1>4, <1>7, <1>8, <1>14, <1>15, <1>16, <1>17, <1>18, <1>19, <1>20, <1>21,
     <1>22, <1>23, TypesKept DEF IInv

LEMMA EndJobStep ==
    ASSUME IInv, NEW w \in Workers, NEW s \in Stages, Working(w),
           w \notin CctorWorkers, EndJob(w, s)
    PROVE  IInv'
<1> DEFINE t == hand[w]
           h == w[2]
<1>1. h \in Classes /\ <<s, h>> \in Stages \X Classes /\ s # None
  BY WorkerShape, MethodIsNotNone
<1>2. t \in Tickets /\ t \in allocated /\ Live(t) /\ inPipe[t] = None
  BY HandInPlace
<1>3. /\ queue' = [queue EXCEPT ![<<s, h>>] = @ \cup {t}]
      /\ itemPriority' = [itemPriority EXCEPT ![t] = priority[t]]
      /\ inPipe' = [inPipe EXCEPT ![t] = s]
      /\ inHigh' = [inHigh EXCEPT ![t] = (h = "high")]
      /\ checkpoint' \subseteq Workers
      /\ hand' = [hand EXCEPT ![w] = None]
      /\ step' = [step EXCEPT ![w] = "idle"]
  BY DEF EndJob, PutToPipe, TryCheckPoint, GoOn, IInv, TypeWorkers
<1>4. UNCHANGED <<methodVars, methodsInPipe, allocated, method, priority,
                  notify, irNotify, mcNotify, trampolinesSet, dlaMethods,
                  index, passed, todo, call, staticVars, mutex, cctorVars,
                  pending, reaper, schedVars>>
  BY DEF EndJob, OnlyWorker
<1> HIDE DEF t, h
<1>5. TypeTickets'
  BY <1>1, <1>2, <1>3, <1>4 DEF IInv, TypeTickets
<1>6. TypeWorkers'
  BY <1>3, <1>4 DEF IInv, TypeWorkers, Steps
<1>7. /\ ~Working(w)' /\ hand'[w] = None /\ step'[w] = "idle"
      /\ \A v \in Workers : v # w =>
           step'[v] = step[v] /\ hand'[v] = hand[v] /\ (Working(v)' <=> Working(v))
  BY <1>3 DEF IInv, TypeWorkers, Working
<1>8. \A u \in Tickets : Live(u)' <=> Live(u)
  BY <1>4 DEF Live
<1>9. /\ inPipe'[t] = s /\ inHigh'[t] = (h = "high")
      /\ \A u \in Tickets : u # t => inPipe'[u] = inPipe[u] /\ inHigh'[u] = inHigh[u]
  BY <1>2, <1>3 DEF IInv, TypeTickets
<1>10. TicketsNamed'
  BY <1>4 DEF IInv, TicketsNamed
<1>11. Queued'
  <2> SUFFICES ASSUME NEW u \in Tickets
               PROVE  /\ inPipe'[u] # None => Live(u)'
                      /\ \A r \in Stages, g \in Classes :
                           u \in queue'[<<r, g>>] <=>
                             inPipe'[u] = r /\ inHigh'[u] = (g = "high")
    BY DEF Queued
  <2>1. CASE u # t
    <3>1. \A r \in Stages, g \in Classes :
             u \in queue'[<<r, g>>] <=> u \in queue[<<r, g>>]
      BY <1>1, <1>3, <2>1 DEF IInv, TypeTickets
    <3> QED
      BY <1>8, <1>9, <2>1, <3>1 DEF IInv, Queued
  <2>2. CASE u = t
    <3>1. ASSUME NEW r \in Stages, NEW g \in Classes
          PROVE  t \in queue'[<<r, g>>] <=> r = s /\ g = h
      <4>1. t \notin queue[<<r, g>>]
        BY <1>2, MethodIsNotNone DEF IInv, Queued
      <4> QED
        BY <1>1, <1>3, <4>1 DEF IInv, TypeTickets
    <3>2. \A g \in Classes : ((h = "high") = (g = "high")) <=> g = h
      BY <1>1 DEF Classes
    <3> QED
      BY <1>2, <1>8, <1>9, <2>2, <3>1, <3>2
  <2> QED
    BY <2>1, <2>2
<1>12. InHands'
  <2> SUFFICES ASSUME NEW v \in Workers, Working(v)'
               PROVE  /\ Live(hand[v])' /\ inPipe'[hand'[v]] = None
                      /\ \A z \in Workers :
                           Working(z)' /\ hand'[z] = hand'[v] => z = v
    BY DEF InHands
  <2>1. v # w /\ Working(v) /\ hand'[v] = hand[v] /\ hand[v] \in Tickets
    BY <1>7, HandInPlace
  <2>2. /\ Live(hand[v]) /\ inPipe[hand[v]] = None
        /\ \A z \in Workers : Working(z) /\ hand[z] = hand[v] => z = v
    BY <2>1 DEF IInv, InHands
  <2>3. hand[v] # t
    BY <2>1, <2>2 DEF t
  <2> QED
    BY <1>7, <1>8, <1>9, <2>1, <2>2, <2>3
<1>13. Placed'
  <2> SUFFICES ASSUME NEW u \in Tickets, Live(u)', inPipe'[u] = None
               PROVE  \E v \in Workers : Working(v)' /\ hand'[v] = u
    BY DEF Placed
  <2>1. u # t /\ inPipe[u] = None /\ Live(u)
    BY <1>1, <1>8, <1>9
  <2>2. PICK v \in Workers : Working(v) /\ hand[v] = u
    BY <2>1 DEF IInv, Placed
  <2> QED
    BY <1>7, <2>1, <2>2 DEF t
<1>14. StepsAgree'
  <2>1. "idle" \in StepsOf(w[1])
    BY DEF StepsOf
  <2>2. \A v \in Workers : Started(v)' <=> Started(v)
    BY <1>4 DEF Started, cctorVars
  <2> QED
    BY <1>7, <2>1, <2>2 DEF IInv, StepsAgree
<1>15. IndexAgrees'
  BY <1>3, <1>4, IndexKeptByOther
<1>16. WorkersCall'
  <2>1. \A v \in CctorWorkers : todo'[v] = {} /\ (Idle(v) => Idle(v)')
    BY <1>4, TodoKept DEF Idle
  <2> QED
    BY <1>3, <2>1, WorkersCallKept
<1>17. /\ CallsOK' /\ CallsHold'
       /\ \A a \in Threads : InSynch(a)' <=> InSynch(a)
  BY <1>4, CallsKept
<1>18. SteadyExact'
  <2>1. step[w] # "wait"
    BY WorkerShape, StageOfStep DEF CctorSteps, LoopSteps
  <2> QED
    BY <1>3, <1>4, <1>17, <2>1, SteadyKeptByWorker
<1>19. ReaperHolds' /\ TypeShared'
  BY <1>4 DEF IInv, ReaperHolds, PipelineEmpty, TypeShared
<1> QED
  BY <1>4, <1>5, <1>6, <1>10, <1>11, <1>12, <1>13, <1>14, <1>15, <1>16, <1>17,
     <1>18, <1>19, TypesKept DEF IInv

LEMMA PutInNextStageStep ==
    ASSUME IInv, NEW w \in Workers, PutInNextStage(w)
    PROVE  IInv'
<1>1. w[1] \in Stages \ {"cctor"} /\ Working(w) /\ w \notin CctorWorkers
  BY StageOfStep, WorkerShape DEF PutInNextStage, Working
<1>2. NextStage(w[1]) \in Stages
  BY <1>1 DEF NextStage, Stages
<1> QED
  BY <1>1, <1>2, EndJobStep DEF PutInNextStage

LEMMA RescheduleStep ==
    ASSUME IInv, NEW w \in Workers, Reschedule(w)
    PROVE  IInv'
<1>1. w[1] = "opt" /\ Working(w) /\ w \notin CctorWorkers /\ "opt" \in Stages
  BY WorkerShape DEF Reschedule, At, Working, Stages
<1> QED
  BY <1>1, EndJobStep DEF Reschedule

(* A thread begins a call.                                                 *)
LEMMA BeginKeeps ==
    ASSUME IInv, NEW a \in Threads, NEW op \in Operations, NEW m \in Methods,
           NEW p \in Priorities, Begin(a, op, m, p), UNCHANGED <<mutex, methodsInPipe>>
    PROVE  /\ CallsOK' /\ CallsHold'
           /\ \A b \in Threads : /\ InSynch(b)' <=> InSynch(b)
                                 /\ b # a => (Idle(b)' <=> Idle(b))
<1> DEFINE c == [op |-> op, method |-> m, priority |-> p, pc |-> "enter",
                 state |-> methodState[m], from |-> None, ticket |-> None]
<1>1. methodState[m] \in States /\ op \in {"async", "tillIR", "synch", "waitEmpty"}
  BY DEF IInv, TypeMethods, Operations
<1>2. /\ c \in Calls /\ c.pc = "enter" /\ c.op = op /\ c.method = m
      /\ c.state = methodState[m]
  BY <1>1 DEF Calls, Operations
<1>3. CallOK(c)
  BY <1>1, <1>2 DEF Begin, CallOK, States
<1>4. call' = [call EXCEPT ![a] = c] /\ call[a].pc = "idle"
  BY DEF Begin, Idle
<1> HIDE DEF c
<1>5. CallsOK'
  BY <1>2, <1>3, <1>4 DEF IInv, CallsOK, CallOK, HasScheduler
<1>6. CallsHold'
  BY <1>2, <1>4 DEF IInv, CallsOK, CallsHold
<1>7. \A b \in Threads : /\ InSynch(b)' <=> InSynch(b)
                         /\ b # a => (Idle(b)' <=> Idle(b))
  BY <1>2, <1>4 DEF IInv, CallsOK, InSynch, Idle
<1> QED
  BY <1>5, <1>6, <1>7

(* A call that begins in a thread that is no cctor worker.                 *)
LEMMA OutsideCall ==
    ASSUME IInv, UNCHANGED <<mutex, methodVars, ticketVars, cctorVars, workerVars,
                             reaper, schedVars, staticVars>>,
           NEW a \in Threads, a \notin CctorWorkers,
           \/ UNCHANGED call
           \/ \E op \in Operations, m \in Methods, p \in Priorities : Begin(a, op, m, p),
           todo' \in [Threads -> SUBSET Methods], \A v \in CctorWorkers : todo'[v] = {},
           pending' \subseteq Requests
    PROVE  IInv'
<1>1. UNCHANGED <<methodsInPipe, allocated, method, inPipe, inHigh, queue, hand,
                  step, index, passed, checkpoint>>
  BY DEF ticketVars, workerVars
<1>2. /\ CallsOK' /\ CallsHold'
      /\ \A b \in Threads : /\ InSynch(b)' <=> InSynch(b)
                            /\ b # a => (Idle(b)' <=> Idle(b))
  BY <1>1, BeginKeeps, CallsKept
<1>3. TypeWorkers'
  BY <1>1 DEF IInv, TypeWorkers
<1>4. WorkersCall'
  BY <1>1, <1>2, WorkerShape DEF IInv, WorkersCall
<1>5. SteadyExact'
  <2>1. \A v \in CctorWorkers : Counted(v)' <=> Counted(v)
    BY <1>1, <1>2, WorkerShape DEF Counted, InSynch
  <2> QED
    BY <2>1, SteadyKept DEF IInv, cctorVars
<1>6. TicketsNamed' /\ Queued' /\ InHands' /\ Placed' /\ IndexAgrees'
  BY <1>1, PlacesKept, IndexKept DEF IInv
<1>7. ReaperHolds' /\ TypeShared'
  BY <1>1 DEF IInv, ReaperHolds, PipelineEmpty, TypeShared
<1> QED
  BY <1>1, <1>2, <1>3, <1>4, <1>5, <1>6, <1>7, CctorsKept, TypesKept DEF IInv

LEMMA InsertCalleeStep ==
    ASSUME IInv, NEW a \in Threads, InsertCallee(a)
    PROVE  IInv'
<1>1. PICK m \in todo[a] :
        /\ todo' = [todo EXCEPT ![a] = @ \ {m}]
        /\ \/ \E p \in (IF Mode = "aot" THEN {0} ELSE Priorities) :
                 Begin(a, "async", m, p)
           \/ methodState[m] = "EXECUTABLE" /\ UNCHANGED call
  BY DEF InsertCallee
<1>2. a \notin CctorWorkers /\ m \in Methods
  BY <1>1, TodoKept DEF IInv, TypeWorkers
<1>3. 0 \in Priorities /\ "async" \in Operations
  BY NumbersAssumption DEF Priorities, Operations
<1>4. \/ UNCHANGED call
      \/ \E op \in Operations, n \in Methods, p \in Priorities : Begin(a, op, n, p)
  BY <1>1, <1>2, <1>3
<1>5. /\ todo' \in [Threads -> SUBSET Methods]
      /\ \A v \in CctorWorkers : todo'[v] = {}
  BY <1>1, <1>2, TodoKept, WorkerShape DEF IInv, TypeWorkers
<1>6. pending' \subseteq Requests
  BY DEF InsertCallee, IInv, TypeShared
<1> QED
  BY <1>2, <1>4, <1>5, <1>6, OutsideCall DEF InsertCallee

LEMMA RequestStep ==
    ASSUME IInv, NEW r \in Requests, Request(r)
    PROVE  IInv'
<1>1. /\ r.thread \in Callers /\ r.op \in Operations /\ r.method \in Methods
      /\ r.priority \in Priorities
  BY ProgramAssumption DEF RequestSet
<1>2. r.thread \in Threads /\ r.thread \notin CctorWorkers
  BY <1>1, NamesAssumption, MethodIsNotNone, WorkerShape
<1>3. \/ UNCHANGED call
      \/ \E op \in Operations, n \in Methods, p \in Priorities : Begin(r.thread, op, n, p)
  BY <1>1 DEF Request
<1>4. /\ todo' \in [Threads -> SUBSET Methods]
      /\ \A v \in CctorWorkers : todo'[v] = {}
  BY TodoKept DEF IInv, TypeWorkers, Request
<1>5. pending' \subseteq Requests
  BY DEF Request, IInv, TypeShared
<1> QED
  BY <1>2, <1>3, <1>4, <1>5, OutsideCall DEF Request

-----------------------------------------------------------------------------
(* The cctor stage.                                                        *)

LEMMA CctorIn ==
    ASSUME IInv, NEW w \in CctorWorkers, Working(w)
    PROVE  /\ w \in Workers /\ w \in Threads /\ w[1] = "cctor"
           /\ Cctors(w) \in Seq(Methods)
           /\ step[w] \in LoopSteps \cup {"check"} =>
                /\ index[w] \in 1 .. Len(Cctors(w))
                /\ Cctor(w) \in Methods
           /\ step[w] \notin LoopSteps \cup {"check"} => index[w] = 1
<1>1. w \in Workers /\ w \in Threads /\ w[1] = "cctor"
  BY WorkerShape
<1>2. Cctors(w) \in Seq(Methods)
  BY <1>1, HandInPlace, ProgramAssumption DEF Cctors
<1>3. step[w] \in LoopSteps \cup {"check"} => index[w] \in 1 .. Len(Cctors(w))
  BY DEF IInv, IndexAgrees
<1>4. step[w] \notin LoopSteps \cup {"check"} => index[w] = 1
  BY DEF IInv, IndexAgrees
<1>5. index[w] \in 1 .. Len(Cctors(w)) => Cctor(w) \in Methods
  BY <1>2 DEF Cctor
<1> QED
  BY <1>1, <1>2, <1>3, <1>4, <1>5

LEMMA NextCctorIs ==
    ASSUME IInv, NEW w \in CctorWorkers, step[w] \in LoopSteps,
           NEW loop \in {"make", "call"}, NEW after \in {"call", "link"},
           NextCctor(w, loop, after)
    PROVE  \E x \in {loop, after}, i \in Nat \ {0} :
             /\ step' = [step EXCEPT ![w] = x]
             /\ index' = [index EXCEPT ![w] = i]
             /\ IF x \in LoopSteps THEN i \in 1 .. Len(Cctors(w)) ELSE i = 1
<1>1. Working(w)
  BY DEF Working, LoopSteps
<1>2. /\ index[w] \in 1 .. Len(Cctors(w)) /\ Len(Cctors(w)) \in Nat
      /\ w \in Workers
  BY <1>1, CctorIn
<1>3. CASE index[w] < Len(Cctors(w))
  <2>1. step' = [step EXCEPT ![w] = loop] /\ index' = [index EXCEPT ![w] = index[w] + 1]
    BY <1>2, <1>3 DEF NextCctor
  <2>2. index[w] + 1 \in 1 .. Len(Cctors(w)) /\ index[w] + 1 \in Nat \ {0}
    BY <1>2, <1>3
  <2>3. loop \in LoopSteps
    BY DEF LoopSteps
  <2>4. PICK j \in Nat \ {0} : index' = [index EXCEPT ![w] = j] /\ j \in 1 .. Len(Cctors(w))
    BY <2>1, <2>2
  <2> WITNESS loop \in {loop, after}, j \in Nat \ {0}
  <2> QED
    BY <2>1, <2>3, <2>4
<1>4. CASE ~(index[w] < Len(Cctors(w)))
  <2>1. step' = [step EXCEPT ![w] = after] /\ index' = [index EXCEPT ![w] = 1]
    BY <1>4 DEF NextCctor
  <2>2. 1 \in 1 .. Len(Cctors(w))
    BY <1>2
  <2> WITNESS after \in {loop, after}, 1 \in Nat \ {0}
  <2> QED
    BY <2>1, <2>2
<1> QED
  BY <1>3, <1>4

LEMMA CctorKeeps ==
    ASSUME IInv, NEW w \in CctorWorkers, Working(w), Idle(w), step[w] # "wait",
           NEW x \in CctorSteps \ {"end", "wait"}, step' = [step EXCEPT ![w] = x],
           NEW i \in Nat \ {0}, index' = [index EXCEPT ![w] = i],
           IF x \in LoopSteps \cup {"check"} THEN i \in 1 .. Len(Cctors(w)) ELSE i = 1,
           UNCHANGED call \/ \E S : Wake(S),
           UNCHANGED <<mutex, methodsInPipe, allocated, method, inPipe, inHigh, queue,
                       hand, checkpoint, todo, pending, reaper, cctorVars, schedVars>>,
           TypeMethods', TypeTickets', StaticMemory!SMTypeOK',
           passed' \in [Workers -> Priorities]
    PROVE  IInv'
<1>1. w \in Workers /\ w[1] = "cctor"
  BY WorkerShape
<1>2. x \in StepsOf(w[1]) \ {"idle", "end", "wait"} /\ x \in Steps
  BY <1>1 DEF StepsOf, CctorSteps, LoopSteps, Steps
<1>3. TypeWorkers'
  BY <1>2 DEF IInv, TypeWorkers
<1>4. IndexAgrees'
  <2>1. Cctors(w)' = Cctors(w)
    BY DEF Cctors
  <2> QED
    BY <2>1, IndexKeptByCctorWorker
<1>5. \A v \in CctorWorkers : todo'[v] = {}
  BY TodoKept
<1>6. /\ TypeShared' /\ TypeCctor' /\ TypeSched' /\ SchedulerAgrees'
      /\ CallsOK' /\ CallsHold' /\ ReaperHolds' /\ WorkersCall'
      /\ TicketsNamed' /\ Queued' /\ InHands' /\ Placed' /\ StepsAgree'
      /\ SteadyExact'
  BY <1>1, <1>2, <1>5, WorkerStep
<1> QED
  BY <1>3, <1>4, <1>6 DEF IInv

(* What a step in the cctor stage begins from.                             *)
LEMMA CctorStepFrom ==
    ASSUME IInv, NEW w \in Workers, NEW here \in CctorSteps \cup {"job"}, here # "end",
           CctorStep(w, here)
    PROVE  w \in CctorWorkers /\ Working(w) /\ Idle(w) /\ step[w] = here
  BY WorkerShape DEF CctorStep, At, Working, CctorSteps, LoopSteps

LEMMA OnlyCctorStepKeeps ==
    ASSUME OnlyCctorStep
    PROVE  UNCHANGED <<mutex, methodsInPipe, allocated, method, inPipe, inHigh, queue,
                       hand, checkpoint, todo, pending, reaper, schedVars, ticketVars>>
  BY DEF OnlyCctorStep, ticketVars

(* Steps that do not move the index.                                       *)
LEMMA CctorStays ==
    ASSUME IInv, NEW w \in CctorWorkers, Working(w), Idle(w), step[w] # "wait",
           NEW x \in CctorSteps \ {"end", "wait"}, step' = [step EXCEPT ![w] = x],
           step[w] \in LoopSteps \cup {"check"} <=> x \in LoopSteps \cup {"check"},
           UNCHANGED call \/ \E S : Wake(S), UNCHANGED <<index, cctorVars>>,
           OnlyCctorStep,
           TypeMethods', StaticMemory!SMTypeOK', passed' \in [Workers -> Priorities]
    PROVE  IInv'
<1>1. /\ index[w] \in Nat \ {0}
      /\ IF x \in LoopSteps \cup {"check"} THEN index[w] \in 1 .. Len(Cctors(w))
                                           ELSE index[w] = 1
  BY CctorIn DEF IInv, TypeWorkers
<1>2. index' = [index EXCEPT ![w] = index[w]]
  BY DEF IInv, TypeWorkers
<1>3. TypeTickets'
  BY OnlyCctorStepKeeps, TypesKept DEF IInv
<1> QED
  BY <1>1, <1>2, <1>3, OnlyCctorStepKeeps, CctorKeeps

LEMMA StartCctorJobStep ==
    ASSUME IInv, NEW w \in Workers, StartCctorJob(w)
    PROVE  IInv'
<1>1. w \in CctorWorkers /\ Working(w) /\ Idle(w) /\ step[w] = "job"
  BY CctorStepFrom DEF StartCctorJob
<1>2. Cctors(w) \in Seq(Methods) /\ index[w] = 1
  BY <1>1, CctorIn DEF LoopSteps
<1>3. PICK x \in {"link", "check"} :
        /\ step' = [step EXCEPT ![w] = x] /\ (x = "check" => Cctors(w) # <<>>)
  BY DEF StartCctorJob, GoOn
<1>4. x \in CctorSteps \ {"end", "wait"} /\ x \notin LoopSteps
  BY <1>3 DEF CctorSteps, LoopSteps
<1>5. /\ IF x \in LoopSteps \cup {"check"} THEN index[w] \in 1 .. Len(Cctors(w))
                                            ELSE index[w] = 1
      /\ index[w] \in Nat \ {0}
  <2>1. Cctors(w) # <<>> => Len(Cctors(w)) \in Nat \ {0}
    BY <1>2, EmptySeq
  <2> QED
    BY <1>2, <1>3, <1>4, <2>1
<1>6. index' = [index EXCEPT ![w] = index[w]]
  BY <1>2 DEF StartCctorJob, IInv, TypeWorkers
<1>7. StaticMemory!SMTypeOK'
  BY <1>1, CctorIn DEF IInv, StartCctorJob, StaticMemory!SMTypeOK,
                       StaticMemory!RegisterTranslator
<1>8. UNCHANGED <<call, cctorVars, methodVars, passed>> /\ OnlyCctorStep
  BY DEF StartCctorJob
<1>9. TypeMethods' /\ TypeTickets' /\ passed' \in [Workers -> Priorities]
  BY <1>8, OnlyCctorStepKeeps, TypesKept DEF IInv, TypeWorkers
<1> QED
  BY <1>1, <1>3, <1>4, <1>5, <1>6, <1>7, <1>8, <1>9, OnlyCctorStepKeeps, CctorKeeps

LEMMA CheckCctorsStep ==
    ASSUME IInv, NEW w \in Workers, CheckCctors(w)
    PROVE  IInv'
<1>1. w \in CctorWorkers /\ Working(w) /\ Idle(w) /\ step[w] = "check"
  BY CctorStepFrom DEF CheckCctors, CctorSteps
<1>2. PICK x \in {"call", "make"} : step' = [step EXCEPT ![w] = x]
  BY DEF CheckCctors, GoOn
<1>3. x \in CctorSteps \ {"end", "wait"} /\ x \in LoopSteps
  BY <1>2 DEF CctorSteps, LoopSteps
<1>4. passed' \in [Workers -> Priorities]
  <2>1. priority[hand[w]] \in Priorities
    BY <1>1, HandInPlace, WorkerShape DEF IInv, TypeTickets
  <2>2. Truncated(priority[hand[w]]) \in Priorities
    BY <2>1, NumbersAssumption DEF Truncated, Priorities
  <2> QED
    BY <2>2 DEF IInv, TypeWorkers, CheckCctors
<1>5. UNCHANGED <<call, cctorVars, methodVars, index, staticVars>> /\ OnlyCctorStep
  BY DEF CheckCctors
<1>6. TypeMethods' /\ StaticMemory!SMTypeOK'
  BY <1>5, TypesKept DEF IInv
<1> QED
  BY <1>1, <1>2, <1>3, <1>4, <1>5, <1>6, CctorStays

LEMMA CallCctorStep ==
    ASSUME IInv, NEW w \in Workers, CallCctor(w)
    PROVE  IInv'
<1>1. w \in CctorWorkers /\ Working(w) /\ Idle(w) /\ step[w] = "call"
  BY CctorStepFrom DEF CallCctor, CctorSteps, LoopSteps
<1>2. /\ Cctor(w) \in Methods /\ w \in Threads /\ index[w] \in Nat \ {0}
      /\ index[w] \in 1 .. Len(Cctors(w)) /\ step[w] \in LoopSteps
  BY <1>1, CctorIn DEF LoopSteps, IInv, TypeWorkers
<1>3. /\ UNCHANGED <<methodVars, cctorVars, passed, call, owner, executionDone,
                     translator>>
      /\ OnlyCctorStep
  BY DEF CallCctor
<1>4. /\ inExecution' \in {inExecution, inExecution \cup {Cctor(w)}}
      /\ waits' \in {waits, [waits EXCEPT ![w] = Cctor(w)]}
      /\ \/ NextCctor(w, "call", "link")
         \/ GoOn(w, "register") /\ UNCHANGED index
         \/ GoOn(w, "declare") /\ UNCHANGED index
  <2>1. CASE StaticMemory!ExecutionIsDone(Cctor(w))
    BY <2>1 DEF CallCctor
  <2>2. CASE /\ ~StaticMemory!ExecutionIsDone(Cctor(w))
             /\ StaticMemory!MayExecute(Cctor(w), w)
    BY <2>2 DEF CallCctor, StaticMemory!BeginExecution
  <2>3. CASE /\ ~StaticMemory!ExecutionIsDone(Cctor(w))
             /\ ~StaticMemory!MayExecute(Cctor(w), w)
    BY <2>3 DEF CallCctor, StaticMemory!TryDeclaringWaiting,
                StaticMemory!RegisterCompilationNeeded
  <2> QED
    BY <2>1, <2>2, <2>3
<1>5. StaticMemory!SMTypeOK'
  BY <1>2, <1>3, <1>4 DEF IInv, StaticMemory!SMTypeOK
<1>6. PICK x \in {"call", "link", "register", "declare"}, i \in Nat \ {0} :
        /\ step' = [step EXCEPT ![w] = x]
        /\ index' = [index EXCEPT ![w] = i]
        /\ IF x \in LoopSteps THEN i \in 1 .. Len(Cctors(w)) ELSE i = 1
  <2>1. CASE NextCctor(w, "call", "link")
    BY <1>1, <1>2, <2>1, NextCctorIs
  <2>2. ASSUME NEW x \in {"register", "declare"}, GoOn(w, x), UNCHANGED index
        PROVE  /\ step' = [step EXCEPT ![w] = x]
               /\ index' = [index EXCEPT ![w] = index[w]]
               /\ x \in LoopSteps
    BY <2>2 DEF GoOn, IInv, TypeWorkers, LoopSteps
  <2> QED
    BY <1>2, <1>4, <2>1, <2>2
<1>7. x \in CctorSteps \ {"end", "wait"} /\ x # "check"
  BY <1>6 DEF CctorSteps, LoopSteps
<1>8. TypeMethods' /\ TypeTickets' /\ passed' \in [Workers -> Priorities]
  BY <1>3, OnlyCctorStepKeeps, TypesKept DEF IInv, TypeWorkers
<1> QED
  BY <1>1, <1>3, <1>5, <1>6, <1>7, <1>8, OnlyCctorStepKeeps, CctorKeeps

LEMMA RegisterRunnerStep ==
    ASSUME IInv, NEW w \in Workers, RegisterRunner(w)
    PROVE  IInv'
<1>1. w \in CctorWorkers /\ Working(w) /\ Idle(w) /\ step[w] = "register"
  BY CctorStepFrom DEF RegisterRunner, CctorSteps, LoopSteps
<1>2. PICK x \in {"runRegistered", "run"} : step' = [step EXCEPT ![w] = x]
  BY DEF RegisterRunner, GoOn
<1>3. /\ x \in CctorSteps \ {"end", "wait"}
      /\ step[w] \in LoopSteps \cup {"check"} /\ x \in LoopSteps \cup {"check"}
  BY <1>1, <1>2 DEF CctorSteps, LoopSteps
<1>4. UNCHANGED <<call, cctorVars, methodVars, index, passed>> /\ OnlyCctorStep
  BY DEF RegisterRunner
<1>5. StaticMemory!SMTypeOK'
  BY <1>1, CctorIn DEF IInv, RegisterRunner, StaticMemory!SMTypeOK,
                       StaticMemory!RegisterTranslator
<1>6. TypeMethods' /\ passed' \in [Workers -> Priorities]
  BY <1>4, TypesKept DEF IInv, TypeWorkers
<1> QED
  BY <1>1, <1>2, <1>3, <1>4, <1>5, <1>6, CctorStays

LEMMA UnregisterRunnerStep ==
    ASSUME IInv, NEW w \in Workers, UnregisterRunner(w)
    PROVE  IInv'
<1>1. w \in CctorWorkers /\ Working(w) /\ Idle(w) /\ step[w] = "runRegistered"
  BY CctorStepFrom DEF UnregisterRunner, CctorSteps, LoopSteps
<1>2. step' = [step EXCEPT ![w] = "done"]
  BY DEF UnregisterRunner, GoOn
<1>3. /\ "done" \in CctorSteps \ {"end", "wait"}
      /\ step[w] \in LoopSteps \cup {"check"} /\ "done" \in LoopSteps \cup {"check"}
  BY <1>1 DEF CctorSteps, LoopSteps
<1>4. UNCHANGED <<call, cctorVars, methodVars, index, passed>> /\ OnlyCctorStep
  BY DEF UnregisterRunner
<1>5. StaticMemory!SMTypeOK'
  BY DEF IInv, UnregisterRunner, StaticMemory!SMTypeOK,
         StaticMemory!UnregisterTranslator
<1>6. TypeMethods' /\ passed' \in [Workers -> Priorities]
  BY <1>4, TypesKept DEF IInv, TypeWorkers
<1> QED
  BY <1>1, <1>2, <1>3, <1>4, <1>5, <1>6, CctorStays

(* Both ends of a cctor's code, and of the wait for it.                    *)
LEMMA EndOfCctorStep ==
    ASSUME IInv, NEW w \in Workers, EndOfCctor(w) \/ UndeclareWaiting(w)
    PROVE  IInv'
<1>1. w \in CctorWorkers /\ Working(w) /\ Idle(w) /\ step[w] \in {"run", "done", "undeclare"}
  BY CctorStepFrom DEF EndOfCctor, UndeclareWaiting, CctorSteps, LoopSteps
<1>2. Cctor(w) \in Methods /\ step[w] \in LoopSteps
  BY <1>1, CctorIn DEF LoopSteps
<1>3. PICK x \in {"call", "link"}, i \in Nat \ {0} :
        /\ step' = [step EXCEPT ![w] = x]
        /\ index' = [index EXCEPT ![w] = i]
        /\ IF x \in LoopSteps THEN i \in 1 .. Len(Cctors(w)) ELSE i = 1
  <2>1. NextCctor(w, "call", "link")
    BY DEF EndOfCctor, UndeclareWaiting
  <2> QED
    BY <1>1, <1>2, <2>1, NextCctorIs
<1>4. x \in CctorSteps \ {"end", "wait"} /\ x # "check"
  BY <1>3 DEF CctorSteps, LoopSteps
<1>5. StaticMemory!SMTypeOK'
  BY <1>2 DEF IInv, EndOfCctor, UndeclareWaiting, StaticMemory!SMTypeOK,
              StaticMemory!EndExecution, StaticMemory!RegisterCompilationDone
<1>6. UNCHANGED <<call, cctorVars, methodVars, passed>> /\ OnlyCctorStep
  BY DEF EndOfCctor, UndeclareWaiting
<1>7. TypeMethods' /\ TypeTickets' /\ passed' \in [Workers -> Priorities]
  BY <1>6, OnlyCctorStepKeeps, TypesKept DEF IInv, TypeWorkers
<1> QED
  BY <1>1, <1>3, <1>4, <1>5, <1>6, <1>7, OnlyCctorStepKeeps, CctorKeeps

LEMMA MakeExecutableStep ==
    ASSUME IInv, NEW w \in Workers, MakeExecutable(w)
    PROVE  IInv'
<1>1. w \in CctorWorkers /\ Working(w) /\ Idle(w) /\ step[w] = "make"
  BY CctorStepFrom DEF MakeExecutable, CctorSteps, LoopSteps
<1>2. /\ Cctor(w) \in Methods /\ step[w] \in LoopSteps /\ w \in Threads
      /\ w[1] = "cctor" /\ passed[w] \in Priorities
  BY <1>1, CctorIn DEF LoopSteps, IInv, TypeWorkers
<1>3. PICK x \in {"make", "call"}, i \in Nat \ {0} :
        /\ step' = [step EXCEPT ![w] = x]
        /\ index' = [index EXCEPT ![w] = i]
        /\ IF x \in LoopSteps THEN i \in 1 .. Len(Cctors(w)) ELSE i = 1
  <2>1. NextCctor(w, "make", "call")
    BY DEF MakeExecutable
  <2> QED
    BY <1>1, <1>2, <2>1, NextCctorIs
<1>4. x \in LoopSteps /\ x \in StepsOf(w[1]) \ {"idle", "end"} /\ x # "wait" /\ x \in Steps
  BY <1>2, <1>3 DEF CctorSteps, LoopSteps, StepsOf, Steps
<1>5. UNCHANGED <<methodVars, cctorVars, passed, mutex, ticketVars, hand, checkpoint,
                  todo, pending, reaper, schedVars, methodsInPipe, allocated, method,
                  inPipe, inHigh, queue>>
  BY OnlyCctorStepKeeps DEF MakeExecutable, OnlyCctorStep
<1>6. /\ CallsOK' /\ CallsHold'
      /\ \A a \in Threads : /\ InSynch(a)' <=> InSynch(a)
                            /\ a # w => (Idle(a)' <=> Idle(a))
  <2>1. CASE UNCHANGED call
    BY <1>5, <2>1, CallsKept
  <2>2. CASE Begin(w, "synch", Cctor(w), passed[w])
    BY <1>2, <1>5, <2>2, BeginKeeps DEF Operations
  <2> QED
    BY <2>1, <2>2 DEF MakeExecutable
<1>7. StaticMemory!SMTypeOK'
  <2>1. owner' \in {owner, [owner EXCEPT ![Cctor(w)] = w]}
    BY DEF MakeExecutable, StaticMemory!TakeInitializationLock
  <2>2. UNCHANGED <<inExecution, executionDone, translator, waits>>
    BY DEF MakeExecutable
  <2> QED
    BY <1>2, <2>1, <2>2 DEF IInv, StaticMemory!SMTypeOK
<1>8. TypeWorkers'
  BY <1>3, <1>4, <1>5 DEF IInv, TypeWorkers
<1>9. TicketsNamed' /\ Queued' /\ InHands' /\ Placed' /\ StepsAgree'
  <2>1. cctorThreads' \in Nat /\ cctorThreads' >= cctorThreads
    BY <1>5, NumbersAssumption DEF IInv, TypeCctor, cctorVars
  <2> QED
    BY <1>1, <1>3, <1>4, <1>5, <2>1, PlacesKeptByWorker
<1>10. IndexAgrees'
  <2>1. Cctors(w)' = Cctors(w)
    BY <1>5 DEF Cctors
  <2> QED
    BY <1>1, <1>3, <1>4, <1>5, <2>1, IndexKeptByCctorWorker
<1>11. WorkersCall'
  <2> SUFFICES ASSUME NEW v \in CctorWorkers, ~Idle(v)'
               PROVE  step'[v] \in {"make", "call"}
    BY <1>5, TodoKept DEF WorkersCall
  <2>1. v \in Workers /\ v \in Threads
    BY WorkerShape
  <2>2. CASE v = w
    BY <1>3, <2>1, <2>2 DEF IInv, TypeWorkers
  <2>3. CASE v # w
    BY <1>3, <1>6, <2>1, <2>3 DEF IInv, TypeWorkers, WorkersCall
  <2> QED
    BY <2>2, <2>3
<1>12. SteadyExact'
  BY <1>1, <1>3, <1>4, <1>5, <1>6, SteadyKeptByWorker
<1>13. ReaperHolds' /\ TypeShared'
  BY <1>5 DEF IInv, ReaperHolds, PipelineEmpty, TypeShared
<1> QED
  BY <1>5, <1>6, <1>7, <1>8, <1>9, <1>10, <1>11, <1>12, <1>13, TypesKept DEF IInv

(* To wait for a cctor, and to come back, moves between the steady threads *)
(* and the waiting ones.                                                   *)
LEMMA WaitKeeps ==
    ASSUME IInv, NEW w \in CctorWorkers, Working(w), Idle(w), step[w] \in LoopSteps,
           NEW x \in LoopSteps, step' = [step EXCEPT ![w] = x], OnlyCctorStep,
           UNCHANGED <<methodVars, index, passed, call, staticVars>>,
           TypeCctor', SteadyExact', cctorThreads' \in Nat,
           cctorThreads' >= cctorThreads
    PROVE  IInv'
<1>1. UNCHANGED <<mutex, methodsInPipe, allocated, method, inPipe, inHigh, queue,
                  hand, checkpoint, todo, pending, reaper, schedVars, ticketVars>>
  BY OnlyCctorStepKeeps
<1>2. w \in Workers /\ w[1] = "cctor"
  BY WorkerShape
<1>3. x \in StepsOf(w[1]) \ {"idle", "end"} /\ x \in Steps
  BY <1>2 DEF StepsOf, CctorSteps, LoopSteps, Steps
<1>4. TicketsNamed' /\ Queued' /\ InHands' /\ Placed' /\ StepsAgree'
  BY <1>1, <1>2, <1>3, PlacesKeptByWorker
<1>5. TypeWorkers'
  BY <1>1, <1>3 DEF IInv, TypeWorkers
<1>6. IndexAgrees'
  <2>1. Cctors(w)' = Cctors(w)
    BY <1>1 DEF Cctors
  <2>2. index' = [index EXCEPT ![w] = index[w]]
    BY DEF IInv, TypeWorkers
  <2>3. index[w] \in 1 .. Len(Cctors(w))
    BY CctorIn
  <2> QED
    BY <1>1, <2>1, <2>2, <2>3, IndexKeptByCctorWorker
<1>7. CallsOK' /\ CallsHold'
  BY <1>1, CallsKept
<1>8. WorkersCall'
  <2>1. \A v \in CctorWorkers : todo'[v] = {} /\ (Idle(v) => Idle(v)')
    BY <1>1, TodoKept DEF Idle
  <2> QED
    BY <1>2, <2>1, WorkersCallKept
<1>9. ReaperHolds' /\ TypeShared'
  BY <1>1 DEF IInv, ReaperHolds, PipelineEmpty, TypeShared
<1> QED
  BY <1>1, <1>4, <1>5, <1>6, <1>7, <1>8, <1>9, TypesKept DEF IInv

LEMMA DeclareWaitingStep ==
    ASSUME IInv, NEW w \in Workers, DeclareWaiting(w)
    PROVE  IInv'
<1>1. w \in CctorWorkers /\ Working(w) /\ Idle(w) /\ step[w] = "declare"
  BY CctorStepFrom DEF DeclareWaiting, CctorSteps, LoopSteps
<1>2. /\ step' = [step EXCEPT ![w] = "wait"] /\ OnlyCctorStep
      /\ UNCHANGED <<methodVars, index, passed, call, staticVars>>
      /\ DecreaseSteadyCCTORThreads
  BY DEF DeclareWaiting, GoOn
<1>3. ~Counted(w)
  BY <1>1 DEF Counted, Idle
<1>4. \A v \in CctorWorkers : Counted(v)' <=> Counted(v) \/ v = w
  BY <1>1, <1>2, WorkerShape DEF IInv, TypeWorkers, Counted
<1>5. Waiting' = Waiting \cup {w}
  BY <1>1, <1>4 DEF Waiting
<1>6. /\ TypeCctor' /\ SteadyExact'
      /\ cctorThreads' \in Nat /\ cctorThreads' >= cctorThreads
  BY <1>1, <1>2, <1>3, <1>5, DecreaseCounts
<1>7. step[w] \in LoopSteps /\ "wait" \in LoopSteps
  BY <1>1 DEF LoopSteps
<1> QED
  BY <1>1, <1>2, <1>6, <1>7, WaitKeeps

LEMMA EndOfWaitStep ==
    ASSUME IInv, NEW w \in Workers, EndOfWait(w)
    PROVE  IInv'
<1>1. w \in CctorWorkers /\ Working(w) /\ Idle(w) /\ step[w] = "wait"
  BY CctorStepFrom DEF EndOfWait, CctorSteps, LoopSteps
<1>2. /\ step' = [step EXCEPT ![w] = "undeclare"] /\ OnlyCctorStep
      /\ UNCHANGED <<methodVars, index, passed, call, staticVars>>
      /\ IncreaseSteadyCCTORThreads
  BY DEF EndOfWait, GoOn
<1>3. Counted(w)
  BY <1>1 DEF Counted
<1>4. \A v \in CctorWorkers : Counted(v)' <=> Counted(v) /\ v # w
  BY <1>1, <1>2, WorkerShape DEF IInv, TypeWorkers, Counted, Idle
<1>5. Waiting' = Waiting \ {w}
  BY <1>1, <1>4 DEF Waiting
<1>6. /\ TypeCctor' /\ SteadyExact'
      /\ cctorThreads' \in Nat /\ cctorThreads' >= cctorThreads
  BY <1>1, <1>2, <1>3, <1>5, IncreaseCounts
<1>7. step[w] \in LoopSteps /\ "undeclare" \in LoopSteps
  BY <1>1 DEF LoopSteps
<1> QED
  BY <1>1, <1>2, <1>6, <1>7, WaitKeeps

LEMMA RunCctorsStep ==
    ASSUME IInv, NEW w \in Workers, RunCctors(w)
    PROVE  IInv'
  BY StartCctorJobStep, CheckCctorsStep, MakeExecutableStep, CallCctorStep,
     RegisterRunnerStep, UnregisterRunnerStep, EndOfCctorStep, DeclareWaitingStep,
     EndOfWaitStep DEF RunCctors

(* From the trampolines to the notification.                               *)
LEMMA LinkMethodStep ==
    ASSUME IInv, NEW w \in Workers, LinkMethod(w)
    PROVE  IInv'
<1>1. w \in CctorWorkers /\ Working(w) /\ Idle(w) /\ step[w] = "link"
  BY CctorStepFrom DEF LinkMethod, CctorSteps
<1>2. hand[w] \in Tickets /\ method[hand[w]] \in Methods
  BY <1>1, HandInPlace, WorkerShape
<1>3. step' = [step EXCEPT ![w] = "unregister"]
  BY DEF LinkMethod, GoOn
<1>4. UNCHANGED <<methodState, methodsInPipe, allocated, method, priority,
                  inPipe, inHigh, itemPriority, notify, irNotify, mcNotify,
                  dlaMethods, queue, hand, index, passed, checkpoint, todo,
                  call, staticVars, mutex, cctorVars, pending, reaper, schedVars>>
  BY DEF LinkMethod, OnlyWorker
<1>5. TypeMethods'
  BY <1>2, <1>4 DEF IInv, TypeMethods, LinkMethod
<1>6. TypeTickets'
  BY <1>2, <1>4 DEF IInv, TypeTickets, LinkMethod
<1>7. "unregister" \in CctorSteps \ {"end", "wait"} /\ "unregister" \notin LoopSteps \cup {"check"}
  BY DEF CctorSteps, LoopSteps
<1>8. index[w] = 1 /\ index' = [index EXCEPT ![w] = index[w]] /\ index[w] \in Nat \ {0}
  BY <1>1, <1>4, CctorIn DEF LoopSteps, IInv, TypeWorkers
<1>9. StaticMemory!SMTypeOK' /\ passed' \in [Workers -> Priorities]
  BY <1>4, TypesKept DEF IInv, TypeWorkers
<1> QED
  BY <1>1, <1>3, <1>4, <1>5, <1>6, <1>7, <1>8, <1>9, CctorKeeps

LEMMA LastStepsKeep ==
    ASSUME IInv, NEW w \in Workers,
           UnregisterMethod(w) \/ Publish(w) \/ NotifyCompilationEnd(w)
    PROVE  IInv'
<1>1. PICK x \in {"publish", "notify", "destroy"} :
        /\ step' = [step EXCEPT ![w] = x]
  BY DEF UnregisterMethod, Publish, NotifyCompilationEnd, GoOn
<1>2. /\ w \in CctorWorkers /\ Working(w) /\ Idle(w)
      /\ step[w] \in {"unregister", "publish", "notify"}
  BY CctorStepFrom DEF UnregisterMethod, Publish, NotifyCompilationEnd, CctorSteps
<1>3. /\ x \in CctorSteps \ {"end", "wait"} /\ x \notin LoopSteps \cup {"check"}
      /\ step[w] \notin LoopSteps \cup {"check"}
  BY <1>1, <1>2 DEF CctorSteps, LoopSteps
<1>4. /\ UNCHANGED <<linked, index, cctorVars, passed>> /\ OnlyCctorStep
      /\ UNCHANGED call \/ \E S : Wake(S)
  BY DEF UnregisterMethod, Publish, NotifyCompilationEnd, methodVars
<1>5. TypeMethods'
  <2>1. methodState' \in {methodState, [methodState EXCEPT ![method[hand[w]]] = "EXECUTABLE"]}
    BY DEF UnregisterMethod, Publish, NotifyCompilationEnd, methodVars
  <2> QED
    BY <1>4, <2>1 DEF IInv, TypeMethods, States
<1>6. StaticMemory!SMTypeOK'
  BY DEF UnregisterMethod, Publish, NotifyCompilationEnd, staticVars, IInv,
         StaticMemory!SMTypeOK, StaticMemory!UnregisterTranslator
<1>7. passed' \in [Workers -> Priorities]
  BY <1>4 DEF IInv, TypeWorkers
<1> QED
  BY <1>1, <1>2, <1>3, <1>4, <1>5, <1>6, <1>7, CctorStays

-----------------------------------------------------------------------------
(* Tickets end: with the last worker, or with the scheduler.               *)

(* The record of t is freed, or not yet.                                   *)
FreedOrKept(t) ==
    \/ UNCHANGED <<allocated, method, priority, inHigh, itemPriority, notify,
                   irNotify, mcNotify, trampolinesSet, dlaMethods>>
    \/ Free(t)

(* When the method of t has left the pipeline or leaves it, t is no longer *)
(* live; the other tickets stay where they are.                            *)
LEMMA LeavePlaces ==
    ASSUME IInv, NEW t \in Tickets, t \in allocated, FreedOrKept(t),
           UNCHANGED <<inPipe, queue>>, inPipe[t] = None,
           methodsInPipe' \in {methodsInPipe, [methodsInPipe EXCEPT ![method[t]] = None]},
           methodsInPipe'[method[t]] = None,
           methodsInPipe[method[t]] \in {t, None}
    PROVE  /\ TypeTickets' /\ TicketsNamed' /\ Queued'
           /\ \A u \in Tickets : u # t =>
                (Live(u)' <=> Live(u)) /\ method'[u] = method[u]
           /\ ~Live(t)' /\ allocated' \subseteq allocated
           /\ allocated \ {t} \subseteq allocated'
<1>1. method[t] \in Methods /\ t # None
  BY MethodIsNotNone DEF IInv, TicketsNamed
<1>2. TypeTickets'
  <2>1. 0 \in Priorities
    BY NumbersAssumption DEF Priorities
  <2>2. methodsInPipe' \in [Methods -> Tickets \cup {None}]
    BY DEF IInv, TypeTickets
  <2>3. CASE UNCHANGED <<allocated, method, priority, inHigh, itemPriority, notify,
                         irNotify, mcNotify, trampolinesSet, dlaMethods>>
    BY <2>2, <2>3 DEF IInv, TypeTickets
  <2>4. CASE Free(t)
    <3>1. /\ allocated' \subseteq Tickets /\ trampolinesSet' \subseteq Tickets
          /\ dlaMethods' \subseteq Tickets
          /\ method' \in [Tickets -> Methods \cup {None}]
          /\ inHigh' \in [Tickets -> BOOLEAN]
      BY <2>4 DEF IInv, TypeTickets, Free
    <3>2. /\ priority' \in [Tickets -> Priorities]
          /\ itemPriority' \in [Tickets -> Priorities]
      BY <2>1, <2>4 DEF IInv, TypeTickets, Free
    <3>3. /\ notify' \in [Tickets -> SUBSET Threads]
          /\ irNotify' \in [Tickets -> SUBSET Threads]
          /\ mcNotify' \in [Tickets -> SUBSET Threads]
      BY <2>4 DEF IInv, TypeTickets, Free
    <3> QED
      BY <2>2, <3>1, <3>2, <3>3 DEF IInv, TypeTickets
  <2> QED
    BY <2>3, <2>4 DEF FreedOrKept
<1>3. /\ allocated' \in {allocated, allocated \ {t}}
      /\ \A u \in Tickets : u # t => method'[u] = method[u] /\ inHigh'[u] = inHigh[u]
      /\ t \in allocated' => method'[t] = method[t]
  BY DEF FreedOrKept, Free, IInv, TypeTickets
<1>4. \A n \in Methods :
        /\ methodsInPipe'[n] = methodsInPipe[n] \/ (n = method[t] /\ methodsInPipe'[n] = None)
        /\ methodsInPipe'[n] # t
  BY <1>1 DEF IInv, TypeTickets, TicketsNamed
<1>5. ASSUME NEW u \in Tickets, u # t
      PROVE  Live(u)' <=> Live(u)
  <2>1. u \in allocated' <=> u \in allocated
    BY <1>3, <1>5
  <2>2. u \in allocated => method[u] \in Methods
    BY DEF IInv, TicketsNamed
  <2>3. method[u] \in Methods =>
          (methodsInPipe'[method[u]] = u <=> methodsInPipe[method[u]] = u)
    BY <1>4, <1>5, MethodIsNotNone
  <2> QED
    BY <1>3, <1>5, <2>1, <2>2, <2>3 DEF Live
<1>6. ~Live(t)'
  BY <1>1, <1>3, <1>4 DEF Live
<1>7. TicketsNamed'
  <2>1. ASSUME NEW n \in Methods, methodsInPipe'[n] # None
        PROVE  methodsInPipe'[n] \in allocated' /\ method'[methodsInPipe'[n]] = n
    <3>1. /\ methodsInPipe'[n] = methodsInPipe[n] /\ methodsInPipe[n] # t
          /\ methodsInPipe[n] \in Tickets
      BY <1>4, <2>1 DEF IInv, TypeTickets
    <3>2. methodsInPipe[n] \in allocated /\ method[methodsInPipe[n]] = n
      BY <2>1, <3>1 DEF IInv, TicketsNamed
    <3> QED
      BY <1>3, <3>1, <3>2
  <2>2. \A u \in allocated' : method'[u] \in Methods
    BY <1>1, <1>3 DEF IInv, TicketsNamed, TypeTickets
  <2> QED
    BY <2>1, <2>2 DEF TicketsNamed
<1>8. Queued'
  <2> SUFFICES ASSUME NEW u \in Tickets
               PROVE  /\ inPipe'[u] # None => Live(u)'
                      /\ \A s \in Stages, h \in Classes :
                           u \in queue'[<<s, h>>] <=>
                             inPipe'[u] = s /\ inHigh'[u] = (h = "high")
    BY DEF Queued
  <2>1. CASE u = t
    BY <2>1, MethodIsNotNone DEF IInv, Queued
  <2>2. CASE u # t
    BY <1>3, <1>5, <2>2 DEF IInv, Queued
  <2> QED
    BY <2>1, <2>2
<1> QED
  BY <1>2, <1>3, <1>5, <1>6, <1>7, <1>8

(* A worker that ends a job with the ticket t, whose place nobody takes.   *)
LEMMA EndPlaces ==
    ASSUME IInv, NEW w \in Workers, NEW x \in {"idle", "end"}, NEW y,
           step' = [step EXCEPT ![w] = x], hand' = [hand EXCEPT ![w] = y],
           NEW t, UNCHANGED inPipe,
           Working(w) => hand[w] = t,
           \A v \in Workers : Working(v) /\ hand[v] = t => v = w,
           \A u \in Tickets : u # t => (Live(u)' <=> Live(u)),
           Working(w) => ~Live(t)',
           ~Working(w) => \A u \in Tickets : Live(u)' => Live(u)
    PROVE  InHands' /\ Placed'
<1>1. /\ ~Working(w)'
      /\ \A v \in Workers : v # w =>
           step'[v] = step[v] /\ hand'[v] = hand[v] /\ (Working(v)' <=> Working(v))
  BY DEF IInv, TypeWorkers, Working
<1>2. \A v \in Workers : Working(v)' =>
        v # w /\ Working(v) /\ hand'[v] = hand[v] /\ hand[v] # t /\ hand[v] \in Tickets
  BY <1>1, HandInPlace
<1>3. InHands'
  <2> SUFFICES ASSUME NEW v \in Workers, Working(v)'
               PROVE  /\ Live(hand[v])' /\ inPipe'[hand'[v]] = None
                      /\ \A z \in Workers :
                           Working(z)' /\ hand'[z] = hand'[v] => z = v
    BY <1>2 DEF InHands, Live
  <2> QED
    BY <1>2 DEF IInv, InHands
<1>4. Placed'
  <2> SUFFICES ASSUME NEW u \in Tickets, Live(u)', inPipe'[u] = None
               PROVE  \E v \in Workers : Working(v)' /\ hand'[v] = u
    BY DEF Placed
  <2>1. Live(u) /\ (Working(w) => u # t)
    <3>1. CASE Working(w)
      BY <3>1
    <3>2. CASE ~Working(w)
      BY <3>2
    <3> QED
      BY <3>1, <3>2
  <2>2. PICK v \in Workers : Working(v) /\ hand[v] = u
    BY <2>1 DEF IInv, Placed
  <2>3. v # w
    BY <2>1, <2>2
  <2> QED
    BY <1>1, <2>2, <2>3
<1> QED
  BY <1>3, <1>4

LEMMA DestroyTicketStep ==
    ASSUME IInv, NEW w \in Workers, DestroyTicket(w)
    PROVE  IInv'
<1>0. PICK t : t = hand[w]
  OBVIOUS
<1>1. w \in CctorWorkers /\ Working(w) /\ Idle(w) /\ step[w] = "destroy" /\ mutex = None
  BY CctorStepFrom DEF DestroyTicket, RemoveTicket, CctorSteps
<1>2. /\ t \in Tickets /\ t \in allocated /\ method[t] \in Methods /\ inPipe[t] = None
      /\ methodsInPipe[method[t]] = t
  BY <1>0, <1>1, HandInPlace, WorkerShape
<1>3. /\ methodsInPipe' = [methodsInPipe EXCEPT ![method[t]] = None]
      /\ step' = [step EXCEPT ![w] = "end"]
      /\ FreedOrKept(t)
      /\ reaper' \in {reaper, "signalled"}
      /\ \E S : Wake(S)
  BY <1>0 DEF DestroyTicket, RemoveTicket, GoOn, FreedOrKept
<1>4. UNCHANGED <<mutex, methodVars, inPipe, queue, cctorVars, hand, index,
                  passed, checkpoint, todo, pending, schedVars, staticVars>>
  BY DEF DestroyTicket, RemoveTicket
<1>5. t \in methodsInScheduling => t \in allocated'
  BY <1>0, <1>2 DEF DestroyTicket, RemoveTicket, KeptByScheduler, IInv, SchedulerAgrees
<1>6. methodsInPipe'[method[t]] = None
  BY <1>2, <1>3 DEF IInv, TypeTickets
<1>7. /\ TypeTickets' /\ TicketsNamed' /\ Queued'
      /\ \A u \in Tickets : u # t =>
           (Live(u)' <=> Live(u)) /\ method'[u] = method[u]
      /\ ~Live(t)' /\ allocated' \subseteq allocated
      /\ allocated \ {t} \subseteq allocated'
  BY <1>2, <1>3, <1>4, <1>6, LeavePlaces
<1>8. \A v \in Workers : Working(v) /\ hand[v] = t => v = w
  BY <1>0, <1>1, WorkerShape DEF IInv, InHands
<1>9. InHands' /\ Placed'
  <2>1. hand' = [hand EXCEPT ![w] = hand[w]]
    BY <1>4 DEF IInv, TypeWorkers
  <2>2. \A u \in Tickets : u # t => (Live(u)' <=> Live(u))
    BY <1>7
  <2>3. Working(w) /\ hand[w] = t /\ ~Live(t)' /\ UNCHANGED inPipe
    BY <1>0, <1>1, <1>4, <1>7
  <2>4. step' = [step EXCEPT ![w] = "end"]
    BY <1>3
  <2> QED
    BY <1>8, <2>1, <2>2, <2>3, <2>4, EndPlaces
<1>10. StepsAgree'
  <2>1. "end" \in StepsOf(w[1])
    BY <1>1, WorkerShape DEF StepsOf, CctorSteps
  <2>2. \A v \in Workers : Started(v)' <=> Started(v)
    BY <1>4 DEF Started, cctorVars
  <2> QED
    BY <1>1, <1>3, <1>4, <2>1, <2>2 DEF IInv, TypeWorkers, StepsAgree
<1>11. IndexAgrees'
  <2> SUFFICES ASSUME NEW v \in CctorWorkers
               PROVE  IF step'[v] \in LoopSteps \cup {"check"}
                        THEN index'[v] \in 1 .. Len(Cctors(v)')
                        ELSE index'[v] = 1
    BY DEF IndexAgrees
  <2>1. v \in Workers
    BY WorkerShape
  <2>2. CASE v = w
    <3>1. index[w] = 1
      BY <1>1 DEF IInv, IndexAgrees, LoopSteps
    <3>2. step'[w] = "end"
      BY <1>3 DEF IInv, TypeWorkers
    <3> QED
      BY <1>4, <2>2, <3>1, <3>2 DEF LoopSteps
  <2>3. CASE v # w
    <3>1. step'[v] = step[v] /\ index'[v] = index[v] /\ hand'[v] = hand[v]
      BY <1>3, <1>4, <2>1, <2>3 DEF IInv, TypeWorkers
    <3>2. ASSUME step[v] \in LoopSteps \cup {"check"}
          PROVE  Cctors(v)' = Cctors(v)
      <4>1. Working(v)
        BY <3>2 DEF Working, LoopSteps
      <4>2. hand[v] \in Tickets /\ hand[v] # t
        BY <1>8, <2>1, <2>3, <4>1, HandInPlace
      <4> QED
        BY <1>7, <3>1, <4>2 DEF Cctors
    <3> QED
      BY <3>1, <3>2 DEF IInv, IndexAgrees
  <2> QED
    BY <2>2, <2>3
<1>12. /\ CallsOK'
       /\ \A a \in Threads : /\ call'[a].method = call[a].method
                             /\ call'[a].op = call[a].op
                             /\ \/ call'[a].pc = call[a].pc
                                \/ call[a].pc = "asleep" /\ call'[a].pc = "signalled"
  BY <1>3, <1>4, WakeKeeps
<1>13. CallsHold'
  <2>1. \A a \in Threads : call[a].pc \notin Keeping
    BY <1>1, MethodIsNotNone DEF IInv, CallsHold, Keeping
  <2> QED
    BY <1>12, <2>1 DEF CallsHold, Keeping
<1>14. \A a \in Threads : (Idle(a)' <=> Idle(a)) /\ (InSynch(a)' <=> InSynch(a))
  BY <1>12 DEF Idle, InSynch
<1>15. WorkersCall'
  <2>1. \A v \in CctorWorkers : todo'[v] = {} /\ (Idle(v) => Idle(v)')
    BY <1>4, <1>14, TodoKept, WorkerShape
  <2> QED
    BY <1>1, <1>3, <2>1, WorkersCallKept
<1>16. SteadyExact'
  BY <1>1, <1>3, <1>4, <1>14, SteadyKeptByWorker
<1>17. ReaperHolds' /\ TypeShared'
  BY <1>1, <1>3, <1>4, MethodIsNotNone DEF IInv, ReaperHolds, TypeShared
<1>18. SchedulerAgrees'
  BY <1>4, <1>5, <1>7 DEF IInv, SchedulerAgrees, schedVars, HasScheduler
<1>19. TypeWorkers'
  BY <1>3, <1>4 DEF IInv, TypeWorkers, Steps
<1> QED
  BY <1>4, <1>7, <1>9, <1>10, <1>11, <1>12, <1>13, <1>15, <1>16, <1>17, <1>18,
     <1>19, TypesKept DEF IInv

LEMMA EndCctorJobStep ==
    ASSUME IInv, NEW w \in Workers, EndCctorJob(w)
    PROVE  IInv'
<1>1. /\ w \in CctorWorkers /\ step[w] = "end" /\ Idle(w) /\ ~Working(w)
      /\ w \notin Callers
  BY NamesAssumption, WorkerShape DEF EndCctorJob, CctorStep, At, Working
<1>2. /\ hand' = [hand EXCEPT ![w] = None]
      /\ passed' = [passed EXCEPT ![w] = 0]
      /\ step' = [step EXCEPT ![w] = "idle"]
  BY DEF EndCctorJob, GoOn
<1>3. UNCHANGED <<methodVars, ticketVars, index, checkpoint, todo, call, staticVars,
                  mutex, cctorVars, pending, reaper, schedVars, methodsInPipe,
                  allocated, method, inPipe, inHigh, queue>>
  BY DEF EndCctorJob, OnlyWorker, ticketVars
<1>4. TypeWorkers'
  <2>1. 0 \in Priorities
    BY NumbersAssumption DEF Priorities
  <2> QED
    BY <1>2, <1>3, <2>1 DEF IInv, TypeWorkers, Steps
<1>5. TicketsNamed' /\ Queued'
  BY <1>3 DEF IInv, TicketsNamed, Queued, Live
<1>6. InHands' /\ Placed'
  <2>1. \A u \in Tickets : Live(u)' <=> Live(u)
    BY <1>3 DEF Live
  <2>2. \A v \in Workers : ~(Working(v) /\ hand[v] = None)
    BY HandInPlace, MethodIsNotNone
  <2> QED
    BY <1>1, <1>2, <1>3, <2>1, <2>2, EndPlaces
<1>7. /\ step'[w] = "idle" /\ hand'[w] = None
      /\ \A v \in Workers : v # w => step'[v] = step[v] /\ hand'[v] = hand[v]
  BY <1>2 DEF IInv, TypeWorkers
<1>8. StepsAgree'
  <2>1. "idle" \in StepsOf(w[1])
    BY DEF StepsOf
  <2>2. \A v \in Workers : Started(v)' <=> Started(v)
    BY <1>3 DEF Started, cctorVars
  <2> QED
    BY <1>7, <2>1, <2>2 DEF IInv, StepsAgree
<1>9. IndexAgrees'
  <2> SUFFICES ASSUME NEW v \in CctorWorkers
               PROVE  IF step'[v] \in LoopSteps \cup {"check"}
                        THEN index'[v] \in 1 .. Len(Cctors(v)')
                        ELSE index'[v] = 1
    BY DEF IndexAgrees
  <2>1. CASE v = w
    BY <1>1, <1>3, <1>7, <2>1 DEF IInv, IndexAgrees, LoopSteps
  <2>2. CASE v # w
    BY <1>3, <1>7, <2>2, WorkerShape DEF IInv, IndexAgrees, Cctors
  <2> QED
    BY <2>1, <2>2
<1>10. WorkersCall'
  <2>1. \A v \in CctorWorkers : todo'[v] = {} /\ (Idle(v) => Idle(v)')
    BY <1>3, TodoKept DEF Idle
  <2> QED
    BY <1>1, <1>2, <2>1, WorkersCallKept
<1>11. /\ CallsOK' /\ CallsHold'
       /\ \A a \in Threads : InSynch(a)' <=> InSynch(a)
  BY <1>3, CallsKept
<1>12. SteadyExact'
  BY <1>1, <1>2, <1>3, <1>11, SteadyKeptByWorker
<1>13. ReaperHolds' /\ TypeShared'
  BY <1>3 DEF IInv, ReaperHolds, PipelineEmpty, TypeShared
<1> QED
  BY <1>3, <1>4, <1>5, <1>6, <1>8, <1>9, <1>10, <1>11, <1>12, <1>13, TypesKept
  DEF IInv

LEMMA CompleteStep ==
    ASSUME IInv, NEW w \in Workers, Complete(w)
    PROVE  IInv'
  BY LinkMethodStep, LastStepsKeep, DestroyTicketStep, EndCctorJobStep DEF Complete

LEMMA TranslateStep ==
    ASSUME IInv, NEW w \in Workers, Translate(w)
    PROVE  IInv'
<1>1. w \in Threads
  BY WorkerShape
<1> QED
  BY <1>1, TakeStep, PutInNextStageStep, TranslateToIRStep, NotifyIRStep,
     FindCalleesStep, InsertCalleeStep, EndDLAStep, OptimizeStep, RescheduleStep,
     GenerateMachineCodeStep, NotifyMachineCodeStep DEF Translate

-----------------------------------------------------------------------------
(* The scheduler and the reaper.                                           *)

LEMMA TakeScheduledStep ==
    ASSUME IInv, TakeScheduled
    PROVE  IInv'
<1>1. PICK t \in schedQueue :
        /\ schedTicket' = t /\ schedTicket = None
        /\ schedQueue' = schedQueue \ {t}
        /\ \E found \in IF t \in dlaMethods THEN {{}, Callees[method[t]]} ELSE {{}} :
             todo' = [todo EXCEPT ![Scheduler] = found]
  BY DEF TakeScheduled
<1>2. UNCHANGED <<mutex, methodVars, ticketVars, cctorVars, workerVars, call,
                  pending, reaper, methodsInScheduling, staticVars, methodsInPipe,
                  allocated, method, inPipe, inHigh, queue, hand, step, index>>
  BY DEF TakeScheduled, ticketVars, workerVars
<1>3. t \in Tickets /\ t \in allocated /\ method[t] \in Methods /\ t # None
  BY <1>1, MethodIsNotNone DEF IInv, SchedulerAgrees, TicketsNamed, TypeSched
<1>4. PICK found \in SUBSET Methods : todo' = [todo EXCEPT ![Scheduler] = found]
  <2>1. Callees[method[t]] \in SUBSET Methods
    BY <1>3, ProgramAssumption
  <2> QED
    BY <1>1, <2>1
<1>5. TypeSched' /\ SchedulerAgrees'
  BY <1>1, <1>2, <1>3 DEF IInv, TypeSched, SchedulerAgrees, HasScheduler
<1>6. TypeWorkers'
  BY <1>2, <1>4 DEF IInv, TypeWorkers, workerVars
<1>7. WorkersCall'
  <2>1. \A v \in CctorWorkers : v # Scheduler /\ v \in Threads
    BY WorkerShape
  <2> QED
    BY <1>2, <1>4, <2>1 DEF IInv, WorkersCall, TypeWorkers, Idle
<1>8. /\ CallsOK' /\ CallsHold'
      /\ \A a \in Threads : InSynch(a)' <=> InSynch(a)
  BY <1>2, CallsKept
<1>9. SteadyExact'
  BY <1>2, SteadyKept DEF IInv, Counted, cctorVars
<1>10. TicketsNamed' /\ Queued' /\ InHands' /\ Placed' /\ IndexAgrees'
  BY <1>2, PlacesKept, IndexKept DEF IInv
<1>11. ReaperHolds' /\ TypeShared'
  BY <1>2 DEF IInv, ReaperHolds, PipelineEmpty, TypeShared
<1> QED
  BY <1>2, <1>5, <1>6, <1>7, <1>8, <1>9, <1>10, <1>11, CctorsKept, TypesKept DEF IInv

LEMMA EndScheduledStep ==
    ASSUME IInv, EndScheduled
    PROVE  IInv'
<1>0. PICK t : t = schedTicket
  OBVIOUS
<1>1. /\ t \in Tickets /\ t # None /\ t \in methodsInScheduling /\ t \in allocated
      /\ mutex = None
  BY <1>0 DEF EndScheduled, IInv, TypeSched, SchedulerAgrees
<1>2. /\ methodsInScheduling' = methodsInScheduling \ {t}
      /\ schedTicket' = None
      /\ UNCHANGED <<mutex, methodVars, methodsInPipe, inPipe, queue, cctorVars,
                     workerVars, todo, call, pending, reaper, schedQueue, staticVars,
                     hand, step, index>>
  BY <1>0 DEF EndScheduled, workerVars
<1>3. CASE LeftPipeline(t)
  <2>1. Free(t)
    BY <1>0, <1>3 DEF EndScheduled
  <2>2. methodsInPipe[method[t]] = None /\ ~Live(t)
    BY <1>1, <1>3 DEF LeftPipeline, Live
  <2>3. inPipe[t] = None
    BY <1>1, <2>2 DEF IInv, Queued
  <2>4. /\ TypeTickets' /\ TicketsNamed' /\ Queued'
        /\ \A u \in Tickets : u # t =>
             (Live(u)' <=> Live(u)) /\ method'[u] = method[u]
        /\ ~Live(t)' /\ allocated' \subseteq allocated
        /\ allocated \ {t} \subseteq allocated'
    BY <1>1, <1>2, <2>1, <2>2, <2>3, LeavePlaces DEF FreedOrKept
  <2>5. \A v \in Workers : Working(v) => hand[v] # t /\ hand[v] \in Tickets
    BY <2>2, HandInPlace
  <2>6. InHands'
    BY <1>2, <2>4, <2>5 DEF IInv, InHands, Working, Live
  <2>7. Placed'
    <3>1. \A u \in Tickets : Live(u)' => Live(u)
      BY <2>4
    <3> QED
      BY <1>2, <3>1 DEF IInv, Placed, Working
  <2>8. IndexAgrees'
    <3> SUFFICES ASSUME NEW v \in CctorWorkers, step[v] \in LoopSteps \cup {"check"}
                 PROVE  Cctors(v)' = Cctors(v)
      BY <1>2 DEF IInv, IndexAgrees
    <3>1. v \in Workers /\ Working(v)
      BY WorkerShape DEF Working, LoopSteps
    <3> QED
      BY <1>2, <2>4, <2>5, <3>1 DEF Cctors
  <2>9. TypeSched' /\ SchedulerAgrees'
    BY <1>0, <1>2, <2>4, MethodIsNotNone
    DEF IInv, TypeSched, SchedulerAgrees, HasScheduler
  <2>10. CallsOK' /\ CallsHold' /\ WorkersCall'
    <3>1. CallsOK' /\ CallsHold'
      BY <1>2, CallsKept
    <3> QED
      BY <1>2, <3>1 DEF IInv, WorkersCall, Idle
  <2>11. SteadyExact'
    BY <1>2, SteadyKept DEF IInv, Counted, cctorVars
  <2>12. ReaperHolds' /\ TypeShared'
    BY <1>2 DEF IInv, ReaperHolds, PipelineEmpty, TypeShared
  <2> QED
    BY <1>2, <2>4, <2>6, <2>7, <2>8, <2>9, <2>10, <2>11, <2>12, CctorsKept, TypesKept
    DEF IInv
<1>4. CASE ~LeftPipeline(t)
  <2>1. UNCHANGED <<ticketVars, allocated, method, inHigh>>
    BY <1>0, <1>2, <1>4 DEF EndScheduled, ticketVars
  <2>2. TypeSched' /\ SchedulerAgrees'
    BY <1>0, <1>2, <2>1, MethodIsNotNone
    DEF IInv, TypeSched, SchedulerAgrees, HasScheduler
  <2>3. CallsOK' /\ CallsHold' /\ WorkersCall'
    <3>1. CallsOK' /\ CallsHold'
      BY <1>2, CallsKept
    <3> QED
      BY <1>2, <3>1 DEF IInv, WorkersCall, Idle
  <2>4. SteadyExact'
    BY <1>2, SteadyKept DEF IInv, Counted, cctorVars
  <2>5. TicketsNamed' /\ Queued' /\ InHands' /\ Placed' /\ IndexAgrees'
    BY <1>2, <2>1, PlacesKept, IndexKept DEF IInv
  <2>6. ReaperHolds' /\ TypeShared'
    BY <1>2 DEF IInv, ReaperHolds, PipelineEmpty, TypeShared
  <2> QED
    BY <1>2, <2>1, <2>2, <2>3, <2>4, <2>5, <2>6, CctorsKept, TypesKept DEF IInv
<1> QED
  BY <1>3, <1>4

LEMMA ReaperWakesUpStep ==
    ASSUME IInv, ReaperWakesUp
    PROVE  IInv'
<1>1. /\ UNCHANGED <<methodVars, ticketVars, cctorVars, workerVars, todo, call,
                     pending, schedVars, staticVars, methodsInPipe, allocated, method,
                     inPipe, inHigh, queue, hand, step, index>>
      /\ mutex = None /\ reaper = "signalled"
  BY DEF ReaperWakesUp, ticketVars, workerVars
<1>2. \/ reaper' = "killing" /\ mutex' = Reaper /\ PipelineEmpty
      \/ reaper' = "asleep" /\ mutex' = None
  BY <1>1 DEF ReaperWakesUp, Reapable
<1>3. CallsOK' /\ WorkersCall' /\ SteadyExact'
  <2>1. SteadyExact'
    BY <1>1, SteadyKept DEF IInv, Counted, cctorVars
  <2> QED
    BY <1>1, <2>1 DEF IInv, CallsOK, CallOK, HasScheduler, WorkersCall, Idle
<1>4. CallsHold'
  <2>1. \A a \in Threads : call[a].pc \notin Keeping
    BY <1>1, MethodIsNotNone DEF IInv, CallsHold, Keeping
  <2> QED
    BY <1>1, <2>1 DEF CallsHold, Keeping
<1>5. ReaperHolds' /\ TypeShared'
  BY <1>1, <1>2, MethodIsNotNone DEF IInv, ReaperHolds, TypeShared, PipelineEmpty
<1>6. TicketsNamed' /\ Queued' /\ InHands' /\ Placed' /\ IndexAgrees'
  BY <1>1, PlacesKept, IndexKept DEF IInv
<1> QED
  BY <1>1, <1>3, <1>4, <1>5, <1>6, CctorsKept, TypesKept DEF IInv

LEMMA KillCctorThreadsStep ==
    ASSUME IInv, KillCctorThreads
    PROVE  IInv'
<1>1. /\ UNCHANGED <<methodVars, ticketVars, workerVars, todo, call, pending,
                     schedVars, staticVars, methodsInPipe, allocated, method, inPipe,
                     inHigh, queue, hand, step, index>>
      /\ cctorThreads' = 1 /\ steady' = 2 /\ delta' = CctorsDelta
      /\ reaper = "killing" /\ reaper' = "asleep" /\ mutex' = None
      /\ \A w \in CctorWorkers : step[w] = "idle"
  BY DEF KillCctorThreads, StartFirstThreads, ticketVars, workerVars
<1>2. mutex = Reaper
  BY <1>1 DEF IInv, ReaperHolds
<1>3. TypeCctor'
  BY <1>1, NumbersAssumption DEF TypeCctor
<1>4. StepsAgree'
  <2> SUFFICES ASSUME NEW w \in Workers, step[w] # "idle"
               PROVE  Started(w)'
    BY <1>1 DEF IInv, StepsAgree
  <2>1. w[1] # "cctor" /\ w[3] = 1
    BY <1>1, WorkerShape
  <2> QED
    BY <2>1 DEF Started
<1>5. SteadyExact'
  <2>1. \A w \in CctorWorkers : Idle(w) /\ ~Counted(w)'
    BY <1>1 DEF IInv, WorkersCall, Counted, Idle
  <2>2. Waiting' = {}
    BY <2>1 DEF Waiting
  <2>3. Cardinality(Waiting') = 0
    BY <2>2, FS_EmptySet
  <2> QED
    BY <1>1, <2>3 DEF SteadyExact
<1>6. CallsOK' /\ WorkersCall'
  BY <1>1 DEF IInv, CallsOK, CallOK, HasScheduler, WorkersCall, Idle
<1>7. CallsHold'
  <2>1. \A a \in Threads : call[a].pc \notin Keeping
    BY <1>2, MethodIsNotNone DEF IInv, CallsHold, Keeping
  <2> QED
    BY <1>1, <2>1 DEF CallsHold, Keeping
<1>8. ReaperHolds' /\ TypeShared'
  BY <1>1, MethodIsNotNone DEF IInv, ReaperHolds, TypeShared
<1>9. TicketsNamed' /\ Queued' /\ InHands' /\ Placed' /\ IndexAgrees'
  BY <1>1, PlacesKept, IndexKept DEF IInv
<1> QED
  BY <1>1, <1>3, <1>4, <1>5, <1>6, <1>7, <1>8, <1>9, TypesKept DEF IInv

-----------------------------------------------------------------------------
(* The invariant holds.                                                    *)

LEMMA InitIInv == Init => IInv
<1> SUFFICES ASSUME Init PROVE IInv
  OBVIOUS
<1>1. 0 \in Priorities
  BY NumbersAssumption DEF Priorities
<1>2. TypeMethods /\ TypeTickets
  BY <1>1 DEF Init, TypeMethods, TypeTickets, States
<1>3. TypeWorkers /\ TypeShared /\ TypeCctor /\ TypeSched
  BY <1>1, NumbersAssumption
  DEF Init, TypeWorkers, TypeShared, TypeCctor, TypeSched, Steps
<1>4. StaticMemory!SMTypeOK
  BY DEF Init, StaticMemory!SMInit, StaticMemory!SMTypeOK
<1>5. CallsOK /\ CallsHold
  BY NoCallOK DEF Init, CallsOK, CallsHold, NoCall
<1>6. ReaperHolds /\ SchedulerAgrees
  BY MethodIsNotNone DEF Init, ReaperHolds, SchedulerAgrees
<1>7. StepsAgree
  <2> SUFFICES ASSUME NEW w \in Workers
               PROVE  "idle" \in StepsOf(w[1])
    BY DEF Init, StepsAgree
  <2> QED
    BY DEF StepsOf
<1>8. IndexAgrees /\ WorkersCall
  BY WorkerShape DEF Init, IndexAgrees, WorkersCall, LoopSteps, Idle, NoCall
<1>9. \A t \in Tickets : ~Live(t)
  BY DEF Init, Live
<1>10. TicketsNamed /\ Queued /\ InHands /\ Placed
  BY <1>9, MethodIsNotNone
  DEF Init, TicketsNamed, Queued, InHands, Placed, Working
<1>11. SteadyExact
  <2>1. \A w \in CctorWorkers : ~Counted(w)
    BY WorkerShape DEF Init, Counted, NoCall
  <2>2. Waiting = {}
    BY <2>1 DEF Waiting
  <2>3. Cardinality(Waiting) = 0
    BY <2>2, FS_EmptySet
  <2> QED
    BY <2>3 DEF Init, SteadyExact
<1> QED
  BY <1>2, <1>3, <1>4, <1>5, <1>6, <1>7, <1>8, <1>10, <1>11 DEF IInv

LEMMA StutterStep ==
    ASSUME IInv, UNCHANGED vars
    PROVE  IInv'
<1>1. UNCHANGED <<mutex, methodVars, ticketVars, cctorVars, workerVars, todo, call,
                  pending, reaper, schedVars, staticVars, methodsInPipe, allocated,
                  method, inPipe, inHigh, queue, hand, step, index>>
  BY DEF vars, ticketVars, workerVars
<1>2. TicketsNamed' /\ Queued' /\ InHands' /\ Placed' /\ IndexAgrees'
  BY <1>1, PlacesKept, IndexKept DEF IInv
<1>3. CallsOK' /\ CallsHold'
  BY <1>1, CallsKept
<1>4. WorkersCall' /\ ReaperHolds' /\ TypeShared'
  BY <1>1 DEF IInv, WorkersCall, Idle, ReaperHolds, PipelineEmpty, TypeShared
<1>5. SteadyExact'
  BY <1>1, SteadyKept DEF IInv, Counted, cctorVars
<1> QED
  BY <1>1, <1>2, <1>3, <1>4, <1>5, CctorsKept, TypesKept DEF IInv

LEMMA NextIInv == IInv /\ [Next]_vars => IInv'
<1> SUFFICES ASSUME IInv, [Next]_vars PROVE IInv'
  OBVIOUS
<1>1. ASSUME NEW a \in Threads, InsertMethod(a)
      PROVE  IInv'
  BY <1>1, InsertMethodStep
<1>2. ASSUME NEW w \in Workers, Worker(w)
      PROVE  IInv'
  BY <1>2, TranslateStep, RunCctorsStep, CompleteStep DEF Worker
<1>3. CASE Schedule
  BY <1>3, MethodIsNotNone, TakeScheduledStep, InsertCalleeStep, EndScheduledStep
  DEF Schedule
<1>4. CASE Reap
  BY <1>4, ReaperWakesUpStep, KillCctorThreadsStep DEF Reap
<1>5. ASSUME NEW r \in Requests, Request(r)
      PROVE  IInv'
  BY <1>5, RequestStep
<1>6. CASE UNCHANGED vars
  BY <1>6, StutterStep
<1> QED
  BY <1>1, <1>2, <1>3, <1>4, <1>5, <1>6 DEF Next, Step

(* The records of the pipeline agree with each other, with what the        *)
(* threads are doing and with the count of the cctor threads, whatever is  *)
(* requested and however the threads' steps interleave.                    *)
THEOREM Invariance == Spec => []IInv
<1>1. Init => IInv
  BY InitIInv
<1>2. IInv /\ [Next]_vars => IInv'
  BY NextIInv
<1> QED
  BY <1>1, <1>2, PTL DEF Spec

(* The variables keep their types: no worker or call goes on with a ticket *)
(* or a method that it does not have.                                      *)
THEOREM TypeCorrect == Spec => []TypeOK
<1>1. IInv => TypeOK
  BY Types DEF IInv, CallsOK
<1> QED
  BY <1>1, Invariance, PTL

(* From its insertion to internal_destroyTicket, the ticket of a method is *)
(* in the one queue that its fields name or in the hands of one worker; no *)
(* other ticket is anywhere.                                               *)
THEOREM OneTicketOnePlace == Spec => []TicketInOnePlace
<1>1. ASSUME IInv PROVE TicketInOnePlace
  <2>1. \A m \in Methods : methodsInPipe[m] # None =>
          methodsInPipe[m] \in allocated /\ method[methodsInPipe[m]] = m
    BY <1>1 DEF IInv, TicketsNamed
  <2>2. ASSUME NEW t \in Tickets
        PROVE  /\ Live(t) <=> inPipe[t] # None \/ InHand(t) # {}
               /\ inPipe[t] # None => InHand(t) = {}
               /\ Cardinality(InHand(t)) <= 1
               /\ \A q \in DOMAIN queue :
                    t \in queue[q] <=> inPipe[t] = q[1] /\ inHigh[t] = (q[2] = "high")
    <3>1. \A w \in Workers : w \in InHand(t) <=> Working(w) /\ hand[w] = t
      BY <1>1, MethodIsNotNone DEF InHand, Working, IInv, StepsAgree
    <3>2. InHand(t) \subseteq Workers
      BY DEF InHand
    <3>3. InHand(t) # {} => Live(t) /\ inPipe[t] = None
      BY <1>1, <3>1, <3>2, HandInPlace
    <3>4. Live(t) => inPipe[t] # None \/ InHand(t) # {}
      BY <1>1, <3>1 DEF IInv, Placed
    <3>5. inPipe[t] # None => Live(t)
      BY <1>1 DEF IInv, Queued
    <3>6. Cardinality(InHand(t)) <= 1
      <4>1. CASE InHand(t) = {}
        BY <4>1, FS_EmptySet
      <4>2. CASE InHand(t) # {}
        <5>1. PICK w \in Workers : Working(w) /\ hand[w] = t
          BY <3>1, <3>2, <4>2
        <5>2. \A v \in Workers : Working(v) /\ hand[v] = t => v = w
          BY <1>1, <5>1 DEF IInv, InHands
        <5>3. InHand(t) = {w}
          BY <3>1, <3>2, <5>1, <5>2
        <5> QED
          BY <5>3, FS_Singleton
      <4> QED
        BY <4>1, <4>2
    <3>7. ASSUME NEW q \in DOMAIN queue
          PROVE  t \in queue[q] <=> inPipe[t] = q[1] /\ inHigh[t] = (q[2] = "high")
      <4>1. q[1] \in Stages /\ q[2] \in Classes /\ q = <<q[1], q[2]>>
        BY <1>1 DEF IInv, TypeTickets
      <4>2. t \in queue[<<q[1], q[2]>>] <=> inPipe[t] = q[1] /\ inHigh[t] = (q[2] = "high")
        BY <1>1, <4>1 DEF IInv, Queued
      <4> QED
        BY <4>1, <4>2
    <3> QED
      BY <3>3, <3>4, <3>5, <3>6, <3>7
  <2> QED
    BY <2>1, <2>2 DEF TicketInOnePlace
<1> QED
  BY <1>1, Invariance, PTL

(* internal_destroyTicket frees no ticket that DLAScheduler has in its     *)
(* queue or in its hands.                                                  *)
THEOREM SchedulerAlwaysKeepsTickets == Spec => []SchedulerKeepsTickets
<1>1. IInv => SchedulerKeepsTickets
  BY DEF IInv, SchedulerAgrees, SchedulerKeepsTickets
<1> QED
  BY <1>1, Invariance, PTL

(* The ticket an insertion found is that of its method, and not freed,     *)
(* until the insertion gives the mutex back.                               *)
THEOREM InsertionAlwaysKeepsTicket == Spec => []InsertionKeepsTicket
<1>1. ASSUME IInv PROVE InsertionKeepsTicket
  <2> SUFFICES ASSUME NEW a \in Threads, call[a].pc \in {"move", "schedule"}
               PROVE  /\ methodsInPipe[call[a].method] = call[a].ticket
                      /\ Live(call[a].ticket)
    BY DEF InsertionKeepsTicket
  <2>1. call[a] \in Calls /\ CallOK(call[a])
    BY <1>1 DEF IInv, CallsOK
  <2>2. call[a].method \in Methods /\ call[a].ticket \in Tickets
    BY <2>1, CallWithTicket
  <2>3. methodsInPipe[call[a].method] = call[a].ticket
    BY <1>1 DEF IInv, CallsHold
  <2>4. call[a].ticket \in allocated /\ method[call[a].ticket] = call[a].method
    BY <1>1, <2>2, <2>3, MethodIsNotNone DEF IInv, TicketsNamed
  <2> QED
    BY <2>3, <2>4 DEF Live
<1> QED
  BY <1>1, Invariance, PTL

(* internal_decreaseSteadyCCTORThreads starts threads early enough: each   *)
(* class of the cctor stage has one that is not counted as waiting.        *)
(* Whether that one can wait for machine code nevertheless, uncounted, is  *)
(* the matter of CctorThreadAlwaysFree in CctorOrderProofs.                *)
THEOREM UncountedThreadFree == Spec => []UncountedFree
<1>1. ASSUME IInv PROVE UncountedFree
  <2> SUFFICES ASSUME NEW h \in Classes,
                      \A w \in CctorWorkers : w[2] = h /\ Started(w) => Counted(w)
               PROVE  FALSE
    BY DEF UncountedFree
  <2> DEFINE S == 1 .. cctorThreads
             f == [i \in S |-> <<"cctor", h, i>>]
  <2>1. cctorThreads \in 1 .. MaxCctorThreads /\ MaxCctorThreads \in Nat
    BY <1>1, NumbersAssumption DEF IInv, TypeCctor
  <2>2. \A i \in S : <<"cctor", h, i>> \in Waiting
    <3> SUFFICES ASSUME NEW i \in S
                 PROVE  <<"cctor", h, i>> \in Waiting
      OBVIOUS
    <3>1. <<"cctor", h, i>> \in CctorWorkers
      BY <2>1, WorkerShape
    <3>2. Started(<<"cctor", h, i>>)
      BY <2>1 DEF Started
    <3> QED
      BY <3>1, <3>2 DEF Waiting
  <2>3. f \in Injection(S, Waiting)
    BY <2>2 DEF Injection, IsInjective
  <2>4. IsFiniteSet(Waiting)
    BY FiniteWorkers, FS_Subset DEF Waiting
  <2>5. Cardinality(S) <= Cardinality(Waiting)
    BY <2>3, <2>4, FS_Injection
  <2>6. Cardinality(S) = cctorThreads
    BY <2>1, FS_Interval
  <2>7. Cardinality(Waiting) < cctorThreads /\ Cardinality(Waiting) \in Nat
    BY <1>1, <2>4, FS_CardinalityType DEF IInv, SteadyExact
  <2> QED
    BY <2>1, <2>5, <2>6, <2>7
<1> QED
  BY <1>1, Invariance, PTL

(* waitEmptyPipelineThread joins the threads of the cctor stage with the   *)
(* pipeline's mutex in its hands: none of them has a ticket that its       *)
(* pipeline still knows, so none needs that mutex to end.                  *)
THEOREM ReaperAlwaysFindsIdleThreads == Spec => []ReaperFindsIdleThreads
<1>1. ASSUME IInv PROVE ReaperFindsIdleThreads
  <2> SUFFICES ASSUME reaper = "killing", NEW w \in CctorWorkers, Working(w)
               PROVE  FALSE
    BY DEF ReaperFindsIdleThreads, Working
  <2>1. /\ method[hand[w]] \in Methods /\ hand[w] \in Tickets
        /\ methodsInPipe[method[hand[w]]] = hand[w]
    BY <1>1, HandInPlace, WorkerShape
  <2>2. PipelineEmpty
    BY <1>1 DEF IInv, ReaperHolds
  <2> QED
    BY <2>1, <2>2, MethodIsNotNone DEF PipelineEmpty
<1> QED
  BY <1>1, Invariance, PTL
=============================================================================
