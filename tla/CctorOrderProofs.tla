-------------------------- MODULE CctorOrderProofs --------------------------
(***************************************************************************)
(* Proofs about static constructors, and about threads that wait for them. *)
(*                                                                         *)
(* Order.  A method gets executable after its cctors ran, unless the       *)
(* thread of another method owns a cctor of it and waits for it, directly  *)
(* or through other threads.  The core is Passes: when                     *)
(* internal_tryDeclaringWaiting lets a thread pass over a cctor, its       *)
(* search came from the cctor's owner back to the thread.  Each step of    *)
(* the search goes from a thread to the translator of the method it waits  *)
(* for, and threads wait for what the method in their hands needs only     *)
(* (WaitersNeed, TranslatorsWork): so the owner's method leads to the      *)
(* method of the thread that passes.                                       *)
(*                                                                         *)
(* Blocking.  A pipeline that cannot go on has a cycle of threads of the   *)
(* cctor stage that wait for each other (StuckWait): all others are idle,  *)
(* the notifications they sleep for are still to come, and each class of   *)
(* the stage keeps a thread for the tickets in its queue.  Where the chain *)
(* that internal_tryDeclaringWaiting follows is the chain of those who     *)
(* wait, the thread that would close a cycle finds itself (LoopIsFound):   *)
(* the search repeats within the cycle before it ends.  The code loses the *)
(* chain at a thread that waits for a cctor to run whose owner waits for   *)
(* another one; OwnersWaitForCode is that this does not happen.            *)
(***************************************************************************)
EXTENDS MethodHistoryProofs
-----------------------------------------------------------------------------
(* The hypothesis.                                                         *)

(* What internal_executionIsDone relies on, when it finds no description   *)
(* and answers yes: a cctor has one, which names its owner, when it is     *)
(* compiled.                                                               *)
CctorsDescribed ==
    \A m, c \in Methods : Needs(m, c) /\ methodState[c] = "EXECUTABLE" => owner[c] # None

-----------------------------------------------------------------------------
(* The invariant.                                                          *)

Job(w) == method[hand[w]]

(* What w may find of a cctor to go past it.                               *)
Passable(m, c) ==
    \/ c \in executionDone
    \/ \E y \in Methods \ {m} : Needs(y, c) /\ Reaches(y, m)

Running == {"register", "run", "runRegistered", "done"}
Declared == {"declare", "wait", "undeclare"}
Calling == {"call"} \cup Running \cup Declared

(* The cctors that a worker went past.                                     *)
CctorsPassed ==
    \A w \in CctorWorkers :
        /\ step[w] = "check" => index[w] = 1
        /\ step[w] \in Calling =>
             \A i \in 1 .. index[w] - 1 : Passable(Job(w), Cctors(w)[i])
        /\ step[w] \in {"link", "unregister", "publish"} =>
             \A i \in 1 .. Len(Cctors(w)) : Passable(Job(w), Cctors(w)[i])

(* Those that have a description.                                          *)
CctorsOwned ==
    \A w \in CctorWorkers :
        /\ step[w] = "make" =>
             \A i \in 1 .. index[w] - 1 : owner[Cctors(w)[i]] # None
        /\ step[w] \in Calling =>
             \A i \in 1 .. Len(Cctors(w)) : owner[Cctors(w)[i]] # None

COrder == CctorsPassed /\ CctorsOwned

(* A cctor's owner works on a method that needs it, and is not past it yet *)
(* unless it ran.                                                          *)
Ahead(w, c) ==
    /\ step[w] \in LoopSteps
    /\ \E j \in 1 .. Len(Cctors(w)) :
         Cctors(w)[j] = c /\ (step[w] # "make" => j >= index[w])

OwnersAhead ==
    \A c \in Methods : owner[c] # None =>
        /\ owner[c] \in CctorWorkers
        /\ c \in executionDone \/ Ahead(owner[c], c)

RunnersOwn ==
    \A c \in inExecution :
        owner[c] \in CctorWorkers /\ step[owner[c]] \in Running /\ Cctor(owner[c]) = c

(* Who translates a method has its ticket, or runs it as a cctor.          *)
TranslatorsWork ==
    \A x \in Methods : translator[x] # None =>
        /\ translator[x] \in CctorWorkers
        /\ LET u == translator[x] IN
           \/ step[u] \in {"check", "link", "unregister"} \cup LoopSteps /\ Job(u) = x
           \/ step[u] = "runRegistered" /\ Cctor(u) = x

(* A worker waits for cctors of the method it has in hand only.            *)
WaitersNeed ==
    \A u \in CctorWorkers :
        /\ call[u].op # "none" => /\ call[u].op \in {"synch", "machineCode"}
                                  /\ Needs(Job(u), call[u].method)
        /\ call[u].pc = "link" => call[u].op = "machineCode"
        /\ waits[u] # None =>
             /\ Needs(Job(u), waits[u])
             /\ \/ step[u] \in Declared
                \/ call[u].op = "synch" /\ call[u].pc # "enter"

WaitsEnd ==
    \A w \in CctorWorkers : step[w] = "undeclare" => Cctor(w) \in executionDone

(* This part holds in every program.                                       *)
CctorInv == OwnersAhead /\ RunnersOwn /\ TranslatorsWork /\ WaitersNeed /\ WaitsEnd

-----------------------------------------------------------------------------
(* Induction up to a number: the numbers up to an exception that are       *)
(* exceptions as well would be as many as their predecessors.              *)
LEMMA UpTo ==
    ASSUME NEW N \in Nat, NEW S, 0 \in S,
           \A n \in 0 .. N - 1 : n \in S => n + 1 \in S
    PROVE  0 .. N \subseteq S
<1> SUFFICES ASSUME NEW n \in 0 .. N, n \notin S PROVE FALSE
  OBVIOUS
<1> DEFINE T == {k \in 0 .. n : k \notin S}
           f == [k \in T |-> k - 1]
<1>1. IsFiniteSet(T)
  <2>1. IsFiniteSet(0 .. n) /\ T \in SUBSET (0 .. n)
    BY FS_Interval
  <2> QED
    BY <2>1, FS_Subset
<1>2. \A k \in T : k # 0 /\ k - 1 \in T
  <2> TAKE k \in T
  <2>1. k # 0 /\ k - 1 \in 0 .. N - 1 /\ k - 1 \in 0 .. n
    OBVIOUS
  <2> QED
    BY <2>1
<1>3. f \in Injection(T, T)
  BY <1>2 DEF Injection, IsInjective
<1>4. f \in Surjection(T, T)
  <2> HIDE DEF T, f
  <2> QED
    BY <1>1, <1>3, FS_Injection
<1>5. n \in T
  OBVIOUS
<1>6. \E k \in T : f[k] = n
  <2> HIDE DEF T, f
  <2> QED
    BY <1>4, <1>5 DEF Surjection
<1> QED
  BY <1>6

(* A function on 0 .. N starts at x and goes on by next from each value.   *)
Iterates(D, x, next, N) ==
    \E g \in [0 .. N -> D] : g = [k \in 0 .. N |-> IF k = 0 THEN x ELSE next[g[k - 1]]]

(* Functions that go on from their last value exist.                       *)
LEMMA Iteration ==
    ASSUME NEW D, NEW x \in D, NEW next \in [D -> D], NEW N \in Nat
    PROVE  Iterates(D, x, next, N)
<1> DEFINE Rest(g, n) == [k \in 0 .. n |-> IF k = 0 THEN x ELSE next[g[k - 1]]]
           S == {n \in Nat : \E g \in [0 .. n -> D] : g = Rest(g, n)}
<1>1. 0 \in S
  <2> DEFINE g == [k \in 0 .. 0 |-> x]
  <2>1. g \in [0 .. 0 -> D] /\ g = Rest(g, 0)
    OBVIOUS
  <2> HIDE DEF Rest
  <2> QED
    BY <2>1
<1>2. ASSUME NEW n \in Nat, n \in S PROVE n + 1 \in S
  <2>1. PICK g \in [0 .. n -> D] : g = Rest(g, n)
    BY <1>2
  <2> DEFINE h == [k \in 0 .. n + 1 |-> IF k = n + 1 THEN next[g[n]] ELSE g[k]]
  <2>2. h \in [0 .. n + 1 -> D]
    OBVIOUS
  <2>3. ASSUME NEW k \in 0 .. n + 1 PROVE h[k] = IF k = 0 THEN x ELSE next[h[k - 1]]
    BY <2>1
  <2>4. h = Rest(h, n + 1)
    BY <2>2, <2>3
  <2> HIDE DEF h, Rest
  <2> QED
    BY <2>2, <2>4
<1>3. 0 .. N \subseteq S
  <2> HIDE DEF S
  <2> QED
    BY <1>1, <1>2, UpTo DEF S
<1> QED
  BY <1>3 DEF Iterates

-----------------------------------------------------------------------------
(* The search of LeadsToADeadlock.                                         *)

LEMMA ThreadsFinite == IsFiniteSet(Threads)
<1>1. IsFiniteSet(Stages) /\ IsFiniteSet(Classes) /\ IsFiniteSet({1})
  <2>1. Stages = {"cil"} \cup {"dla"} \cup {"opt"} \cup {"mc"} \cup {"cctor"}
    BY DEF Stages
  <2>2. Classes = {"low"} \cup {"high"}
    BY DEF Classes
  <2>3. \A S : IsFiniteSet(S) => \A y : IsFiniteSet(S \cup {y})
    BY FS_AddElement
  <2>4. IsFiniteSet({"cil"}) /\ IsFiniteSet({"low"}) /\ IsFiniteSet({1})
    BY FS_Singleton
  <2>5. IsFiniteSet({"cil"} \cup {"dla"}) /\ IsFiniteSet({"low"} \cup {"high"})
    BY <2>3, <2>4
  <2>6. IsFiniteSet({"cil"} \cup {"dla"} \cup {"opt"})
    BY <2>3, <2>5
  <2>7. IsFiniteSet({"cil"} \cup {"dla"} \cup {"opt"} \cup {"mc"})
    BY <2>3, <2>6
  <2> QED
    BY <2>1, <2>2, <2>3, <2>4, <2>5, <2>7
<1>2. IsFiniteSet(Stages \X (Classes \X {1}))
  BY <1>1, FS_Product
<1> DEFINE f == [w \in Stages \X Classes \X {1} |-> <<w[1], <<w[2], w[3]>>>>]
<1>3. IsFiniteSet(Stages \X Classes \X {1})
  <2>1. f \in Injection(Stages \X Classes \X {1}, Stages \X (Classes \X {1}))
    BY DEF Injection, IsInjective
  <2> HIDE DEF f
  <2> QED
    BY <1>2, <2>1, FS_Injection
<1>4. IsFiniteSet(Workers)
  BY <1>3, FiniteWorkers, FS_Union DEF Workers
<1> QED
  BY <1>4, NamesAssumption, FS_Union, FS_Singleton DEF Threads

LEMMA FiniteThreads == Cardinality(Threads) \in Nat
  BY ThreadsFinite, FS_CardinalityType

(* What the search looks at is a sequence of threads.                      *)
LEMMA SearchSteps ==
    ASSUME StaticMemory!SMTypeOK, NEW th \in Threads, NEW c \in Methods
    PROVE  \E g :
             /\ g[0] = StaticMemory!FirstWaited(c)
             /\ \A k \in 0 .. Cardinality(Threads) - 1 :
                  g[k + 1] = StaticMemory!NextWaited(g[k])
             /\ StaticMemory!LeadsToADeadlock(th, c) <=>
                  \E k \in 0 .. Cardinality(Threads) : g[k] = th
<1> DEFINE D == Threads \cup {None}
           N == Cardinality(Threads)
           x == StaticMemory!FirstWaited(c)
           next == [d \in D |-> StaticMemory!NextWaited(d)]
           Search(g) == [k \in 0 .. N |-> IF k = 0 THEN x ELSE StaticMemory!NextWaited(g[k - 1])]
           chain == CHOOSE g : g = Search(g)
<1>1. x \in D /\ next \in [D -> D] /\ N \in Nat
  BY FiniteThreads DEF StaticMemory!SMTypeOK, StaticMemory!FirstWaited, StaticMemory!NextWaited
<1>2. PICK g \in [0 .. N -> D] : g = [k \in 0 .. N |-> IF k = 0 THEN x ELSE next[g[k - 1]]]
  <2> HIDE DEF D, N, x, next, Search, chain
  <2>1. Iterates(D, x, next, N)
    BY <1>1, Iteration
  <2> QED
    BY <2>1 DEF Iterates
<1>3. g = Search(g)
  <2>1. ASSUME NEW k \in 0 .. N, k # 0 PROVE next[g[k - 1]] = StaticMemory!NextWaited(g[k - 1])
    <3>1. k - 1 \in 0 .. N
      BY <1>1, <2>1
    <3>2. g[k - 1] \in D
      BY <3>1
    <3> QED
      BY <3>2
  <2> HIDE DEF D, N, x, next
  <2> QED
    BY <1>2, <2>1
<1>4. chain = Search(chain)
  <2> HIDE DEF Search
  <2> QED
    BY <1>3
<1>5. StaticMemory!LeadsToADeadlock(th, c) <=> \E k \in DOMAIN chain : chain[k] = th
  <2>1. StaticMemory!Cardinality(Threads) = N
    BY DEF StaticMemory!Cardinality, Cardinality
  <2> QED
    BY <2>1 DEF StaticMemory!LeadsToADeadlock
<1>6. /\ DOMAIN chain = 0 .. N
      /\ \A k \in 0 .. N : chain[k] = IF k = 0 THEN x ELSE StaticMemory!NextWaited(chain[k - 1])
  <2> HIDE DEF chain, N, x
  <2> QED
    BY <1>4
<1>7. /\ chain[0] = x
      /\ \A k \in 0 .. N - 1 : chain[k + 1] = StaticMemory!NextWaited(chain[k])
  <2> HIDE DEF chain, N, x
  <2>1. ASSUME NEW k \in 0 .. N - 1
        PROVE  chain[k + 1] = StaticMemory!NextWaited(chain[k])
    <3>1. k + 1 \in 0 .. N /\ k + 1 # 0 /\ (k + 1) - 1 = k
      BY <1>1
    <3> QED
      BY <1>6, <3>1
  <2>2. 0 \in 0 .. N
    BY <1>1
  <2> QED
    BY <1>6, <2>1, <2>2
<1> QED
  <2>1. /\ chain[0] = x
        /\ StaticMemory!LeadsToADeadlock(th, c) <=> \E k \in 0 .. N : chain[k] = th
    BY <1>5, <1>6, <1>7
  <2> HIDE DEF chain
  <2> QED
    BY <1>7, <2>1

LEMMA ReachesNext ==
    ASSUME NEW y, NEW x \in Methods, NEW c \in Methods, Reaches(y, x), Needs(x, c)
    PROVE  Reaches(y, c)
  BY DEF Reaches

LEMMA ReachesFirst ==
    ASSUME NEW y, NEW c \in Methods, Needs(y, c)
    PROVE  Reaches(y, c)
  BY DEF Reaches

(* What the search finds after its first thread, which waits for a cctor   *)
(* of the method y that it has in hand, are translators of methods that y  *)
(* leads to.                                                               *)
LEMMA SearchFinds ==
    ASSUME IInv, CctorInv, NEW v \in CctorWorkers, NEW N \in Nat, NEW g, g[0] = v,
           \A k \in 0 .. N - 1 : g[k + 1] = StaticMemory!NextWaited(g[k])
    PROVE  \A k \in 1 .. N : g[k] # None =>
             \E x \in Methods : translator[x] = g[k] /\ Reaches(Job(v), x)
<1> DEFINE Found(k) == \E x \in Methods : translator[x] = g[k] /\ Reaches(Job(v), x)
           S == {k \in Nat : k # 0 /\ g[k] # None => Found(k)}
<1>1. waits \in [Threads -> Methods \cup {None}] /\ CctorWorkers \subseteq Threads
  BY WorkerShape DEF IInv, StaticMemory!SMTypeOK
<1>2. ASSUME NEW k \in 0 .. N - 1, k \in S PROVE k + 1 \in S
  <2> SUFFICES ASSUME g[k + 1] # None PROVE Found(k + 1)
    OBVIOUS
  <2>1. g[k] # None /\ waits[g[k]] # None /\ g[k + 1] = translator[waits[g[k]]]
    BY DEF StaticMemory!NextWaited
  <2>2. CASE k = 0
    <3>1. Needs(Job(v), waits[v]) /\ waits[v] \in Methods
      BY <1>1, <2>1, <2>2 DEF CctorInv, WaitersNeed
    <3> QED
      BY <2>1, <2>2, <3>1, ReachesFirst
  <2>3. CASE k # 0
    <3>1. PICK x \in Methods : translator[x] = g[k] /\ Reaches(Job(v), x)
      BY <1>2, <2>1, <2>3
    <3>2. g[k] \in CctorWorkers
      BY <2>1, <3>1 DEF CctorInv, TranslatorsWork
    <3>3. step[g[k]] # "runRegistered"
      BY <1>1, <2>1, <3>2 DEF CctorInv, WaitersNeed, Declared, IInv, WorkersCall, CallsOK,
         CallOK, Idle
    <3>4. Job(g[k]) = x
      BY <2>1, <3>1, <3>3 DEF CctorInv, TranslatorsWork
    <3>5. Needs(x, waits[g[k]]) /\ waits[g[k]] \in Methods
      BY <1>1, <2>1, <3>2, <3>4 DEF CctorInv, WaitersNeed
    <3> QED
      BY <2>1, <3>1, <3>5, ReachesNext
  <2> QED
    BY <2>2, <2>3
<1>3. 0 \in S
  OBVIOUS
<1>4. 0 .. N \subseteq S
  <2> HIDE DEF S
  <2> QED
    BY <1>2, <1>3, UpTo
<1> QED
  BY <1>4

(* A worker that calls a cctor and may not wait for it finds a method that *)
(* needs this cctor and leads to its own.                                  *)
LEMMA Passes ==
    ASSUME IInv, CctorInv, COrder, NEW w \in CctorWorkers, step[w] = "call", Idle(w),
           ~StaticMemory!MayExecute(Cctor(w), w),
           StaticMemory!LeadsToADeadlock(w, Cctor(w))
    PROVE  Passable(Job(w), Cctor(w))
<1> DEFINE c == Cctor(w)
           v == owner[c]
<1>1. w \in Threads /\ w # None /\ c \in Methods /\ index[w] \in 1 .. Len(Cctors(w))
  <2>1. w \in Workers /\ w # None /\ Working(w)
    BY WorkerShape DEF Working
  <2> QED
    BY <2>1, CctorIn DEF LoopSteps
<1> SUFFICES ASSUME c \notin executionDone
             PROVE  \E y \in Methods \ {Job(w)} : Needs(y, c) /\ Reaches(y, Job(w))
  BY DEF Passable
<1>2. v # None
  <2>1. \A i \in 1 .. Len(Cctors(w)) : owner[Cctors(w)[i]] # None
    BY DEF COrder, CctorsOwned, Calling
  <2> QED
    BY <1>1, <2>1 DEF Cctor
<1>3. v \in CctorWorkers /\ Ahead(v, c)
  BY <1>1, <1>2 DEF CctorInv, OwnersAhead
<1>4. v # w
  <2>1. ASSUME v = w PROVE c \notin inExecution
    BY <2>1 DEF CctorInv, RunnersOwn, Running
  <2> QED
    BY <2>1 DEF StaticMemory!MayExecute
<1>5. /\ Job(v) \in Methods /\ Needs(Job(v), c) /\ Job(v) # Job(w)
  <2>1. v \in Workers /\ w \in Workers /\ Working(v) /\ Working(w)
    BY <1>3, WorkerShape DEF Ahead, LoopSteps, Working
  <2>2. hand[v] # hand[w] /\ hand[v] \in Tickets /\ Live(hand[v])
    BY <1>4, <2>1, HandInPlace DEF IInv, InHands
  <2>3. Job(v) # Job(w) /\ Job(v) \in Methods
    BY <2>1, <2>2, OthersMethod DEF Job, IInv, TicketsNamed, Live
  <2>4. Needs(Job(v), c)
    <3>1. CctorsToCall[Job(v)] \in Seq(Methods)
      BY <2>3, ProgramAssumption
    <3> QED
      BY <1>3, <3>1 DEF Ahead, Needs, Cctors, Job
  <2> QED
    BY <2>3, <2>4
<1>6. PICK N \in Nat : \E g :
        /\ g[0] = StaticMemory!FirstWaited(c)
        /\ \A k \in 0 .. N - 1 : g[k + 1] = StaticMemory!NextWaited(g[k])
        /\ \E k \in 0 .. N : g[k] = w
  <2>1. StaticMemory!SMTypeOK
    BY DEF IInv
  <2>2. StaticMemory!LeadsToADeadlock(w, c)
    OBVIOUS
  <2>3. w \in Threads /\ c \in Methods
    BY <1>1
  <2> DEFINE N == Cardinality(Threads)
  <2> HIDE DEF c, v
  <2>4. \E g :
          /\ g[0] = StaticMemory!FirstWaited(c)
          /\ \A k \in 0 .. N - 1 : g[k + 1] = StaticMemory!NextWaited(g[k])
          /\ (StaticMemory!LeadsToADeadlock(w, c) <=> \E k \in 0 .. N : g[k] = w)
    BY <2>1, <2>3, SearchSteps
  <2>5. N \in Nat
    BY FiniteThreads
  <2> HIDE DEF N
  <2> QED
    BY <2>2, <2>4, <2>5
<1>7. PICK g :
        /\ g[0] = v
        /\ \A k \in 0 .. N - 1 : g[k + 1] = StaticMemory!NextWaited(g[k])
        /\ \E k \in 0 .. N : g[k] = w
  BY <1>2, <1>6 DEF StaticMemory!FirstWaited
<1>8. PICK k \in 1 .. N : g[k] = w
  BY <1>4, <1>7
<1>9. PICK x \in Methods : translator[x] = w /\ Reaches(Job(v), x)
  <2> HIDE DEF c, v
  <2>1. v \in CctorWorkers
    BY <1>3
  <2>2. \A j \in 1 .. N : g[j] # None =>
          \E x \in Methods : translator[x] = g[j] /\ Reaches(Job(v), x)
    BY <1>7, <2>1, SearchFinds
  <2> QED
    BY <1>1, <1>8, <2>2
<1>10. Job(w) = x
  BY <1>1, <1>9 DEF CctorInv, TranslatorsWork
<1> QED
  BY <1>5, <1>9, <1>10

-----------------------------------------------------------------------------
(* The steps of a worker of the cctor stage.                               *)

LEMMA IndexSteps ==
    ASSUME [Next]_vars
    PROVE  \/ UNCHANGED index
           \/ \E v \in Workers : RunCctors(v) /\ \E x : index' = [index EXCEPT ![v] = x]
<1>1. ASSUME NEW a \in Threads, InsertMethod(a)
      PROVE  UNCHANGED index
  <2>1. CASE EnterInsert(a) \/ EnterSynch(a) \/ GoToSleep(a) \/ WakeUp(a) \/ LinkWaited(a)
               \/ WaitEmptyPipeline(a)
    BY <2>1 DEF EnterInsert, EnterSynch, GoToSleep, WakeUp, LinkWaited, WaitEmptyPipeline,
                workerVars
  <2>2. CASE JoinTicket(a) \/ ChangePriority(a) \/ SendToScheduler(a) \/ InsertNew(a)
    BY <2>2 DEF JoinTicket, ChangePriority, SendToScheduler, InsertNew, workerVars
  <2> QED
    BY <1>1, <2>1, <2>2 DEF InsertMethod
<1>2. ASSUME NEW w \in Workers, Translate(w)
      PROVE  UNCHANGED index
  BY <1>2 DEF Translate, Take, PutInNextStage, EndJob, TranslateToIR, NotifyIR,
     FindCallees, InsertCallee, EndDLA, Optimize, Reschedule, GenerateMachineCode,
     NotifyMachineCode, OnlyStep, workerVars
<1>3. ASSUME NEW w \in Workers, RunCctors(w)
      PROVE  UNCHANGED index \/ \E x : index' = [index EXCEPT ![w] = x]
  BY <1>3 DEF RunCctors, StartCctorJob, CheckCctors, MakeExecutable, CallCctor, RegisterRunner,
     UnregisterRunner, EndOfCctor, DeclareWaiting, EndOfWait, UndeclareWaiting, NextCctor
<1>4. ASSUME NEW w \in Workers, Complete(w)
      PROVE  UNCHANGED index
  BY <1>4 DEF Complete, LinkMethod, UnregisterMethod, Publish, NotifyCompilationEnd,
     DestroyTicket, RemoveTicket, EndCctorJob
<1>5. CASE Schedule \/ Reap \/ (\E r \in Requests : Request(r)) \/ UNCHANGED vars
  BY <1>5 DEF Schedule, TakeScheduled, InsertCallee, EndScheduled, Reap, ReaperWakesUp,
     KillCctorThreads, Request, workerVars, vars
<1> QED
  BY <1>1, <1>2, <1>3, <1>4, <1>5 DEF Next, Step, Worker

Moves(w) == step'[w] # step[w] \/ index'[w] # index[w]

LEMMA WorkerKinds ==
    ASSUME IInv, [Next]_vars, NEW w \in CctorWorkers, Moves(w)
    PROVE  Take(w) \/ RunCctors(w) \/ Complete(w)
<1>1. w \in Workers /\ w \in Threads /\ w[1] = "cctor"
  BY WorkerShape
<1>2. CASE index'[w] # index[w]
  BY <1>1, <1>2, IndexSteps DEF IInv, TypeWorkers
<1>3. CASE step'[w] # step[w]
  <2>1. Worker(w) /\ ~InsertCallee(w)
    BY <1>1, <1>3, WhoSteps, CallsOnlySteps DEF CallsOnly
  <2>2. step[w] \notin {"put", "insert", "irNotify", "mcNotify"}
    BY <1>1 DEF IInv, StepsAgree, StepsOf, CctorSteps, LoopSteps
  <2>3. Translate(w) => Take(w)
    BY <1>1, <2>1, <2>2 DEF Translate, PutInNextStage, TranslateToIR, NotifyIR,
       FindCallees, EndDLA, Optimize, Reschedule, GenerateMachineCode, NotifyMachineCode, At
  <2> QED
    BY <2>1, <2>3 DEF Worker
<1> QED
  BY <1>2, <1>3 DEF Moves

(* To the next cctor, or out of the loop.                                  *)
Goes(w, here, j) == step'[w] = here /\ index'[w] = j

LEMMA NextCctorGoes ==
    ASSUME IInv, NEW w \in CctorWorkers, step[w] \in LoopSteps, NEW loop, NEW after,
           NextCctor(w, loop, after)
    PROVE  \/ index[w] < Len(Cctors(w)) /\ Goes(w, loop, index[w] + 1)
           \/ index[w] = Len(Cctors(w)) /\ Goes(w, after, 1)
<1>1. w \in Workers /\ Working(w)
  BY WorkerShape DEF Working, LoopSteps
<1>2. index[w] \in 1 .. Len(Cctors(w)) /\ Len(Cctors(w)) \in Nat
  BY <1>1, CctorIn
<1> QED
  BY <1>1, <1>2 DEF NextCctor, Goes, IInv, TypeWorkers

(* A worker goes past a cctor: it ran, or has no description, or the       *)
(* search came back to this worker.                                        *)
LetPast(w) ==
    /\ step[w] = "call" /\ Idle(w)
    /\ ~StaticMemory!MayExecute(Cctor(w), w)
    /\ StaticMemory!LeadsToADeadlock(w, Cctor(w))

GoesPast(w) ==
    /\ step[w] \in {"call", "run", "done", "undeclare"}
    /\ \/ index[w] < Len(Cctors(w)) /\ Goes(w, "call", index[w] + 1)
       \/ index[w] = Len(Cctors(w)) /\ Goes(w, "link", 1)
    /\ \/ Cctor(w) \in executionDone'
       \/ owner[Cctor(w)] # w /\ (owner[Cctor(w)] = None \/ LetPast(w))
    /\ step[w] \in Running => inExecution' = inExecution \ {Cctor(w)}
    /\ step[w] = "undeclare" => waits'[w] = None

(* What a worker does with the cctor it is at, in the order of its steps.  *)
StartsJob(w) == step[w] = "job" /\ Goes(w, IF Cctors(w) = <<>> THEN "link" ELSE "check", index[w])
Checks(w) ==
    /\ step[w] = "check"
    /\ \/ Goes(w, "make", index[w])
       \/ /\ Goes(w, "call", index[w])
          /\ \A i \in DOMAIN Cctors(w) : methodState[Cctors(w)[i]] = "EXECUTABLE"
Makes(w) ==
    /\ step[w] = "make"
    /\ \/ index[w] < Len(Cctors(w)) /\ Goes(w, "make", index[w] + 1)
       \/ index[w] = Len(Cctors(w)) /\ Goes(w, "call", 1)
    /\ owner'[Cctor(w)] # None
Within(w) ==
    \/ step[w] = "call" /\ Goes(w, "register", index[w])
    \/ step[w] = "register" /\ (Goes(w, "run", index[w]) \/ Goes(w, "runRegistered", index[w]))
    \/ /\ step[w] = "runRegistered" /\ Goes(w, "done", index[w])
       /\ translator' = [translator EXCEPT ![Cctor(w)] = None]
    \/ step[w] = "call" /\ Goes(w, "declare", index[w])
    \/ step[w] = "declare" /\ Goes(w, "wait", index[w])
    \/ /\ step[w] = "wait" /\ Goes(w, "undeclare", index[w])
       /\ Cctor(w) \in executionDone'
Leaves(w) ==
    \/ step[w] = "link" /\ Goes(w, "unregister", index[w])
    \/ /\ step[w] = "unregister" /\ Goes(w, "publish", index[w])
       /\ translator' = [translator EXCEPT ![Job(w)] = None]
    \/ step[w] \in {"idle", "publish", "notify", "destroy", "end"}
       /\ step'[w] \in {"job", "notify", "destroy", "end", "idle"}

LEMMA CctorMoves ==
    ASSUME IInv, CctorInv, [Next]_vars, NEW w \in CctorWorkers, Moves(w)
    PROVE  /\ Idle(w)
           /\ StartsJob(w) \/ Checks(w) \/ Makes(w) \/ GoesPast(w) \/ Within(w) \/ Leaves(w)
<1>1. /\ w \in Workers /\ w \in Threads
      /\ step \in [Workers -> Steps] /\ index \in [Workers -> Nat \ {0}]
  BY WorkerShape DEF IInv, TypeWorkers
<1>2. step[w] \in LoopSteps \cup {"check"} =>
        /\ index[w] \in 1 .. Len(Cctors(w)) /\ Cctor(w) \in Methods
        /\ Cctors(w) \in Seq(Methods)
  BY <1>1, CctorIn DEF LoopSteps, Working
<1>3. CASE Take(w)
  <2>1. step[w] = "idle" /\ step'[w] = "job"
    BY <1>1, <1>3 DEF Take, FirstIdle, GoOn
  <2>2. Idle(w)
    BY <2>1 DEF IInv, WorkersCall
  <2> QED
    BY <2>1, <2>2 DEF Leaves
<1>4. CASE StartCctorJob(w)
  BY <1>1, <1>4 DEF StartCctorJob, CctorStep, At, GoOn, StartsJob, Goes
<1>5. CASE CheckCctors(w)
  BY <1>1, <1>5 DEF CheckCctors, CctorStep, At, GoOn, Checks, Goes
<1>6. CASE MakeExecutable(w)
  <2>1. step[w] = "make" /\ Idle(w) /\ NextCctor(w, "make", "call")
    BY <1>6 DEF MakeExecutable, CctorStep, At
  <2>2. owner'[Cctor(w)] # None
    <3>1. owner \in [Methods -> Threads \cup {None}]
      BY DEF IInv, StaticMemory!SMTypeOK
    <3>2. CASE owner[Cctor(w)] = None
      BY <1>1, <1>2, <1>6, <2>1, <3>1, <3>2, WorkerShape DEF MakeExecutable, LoopSteps,
         StaticMemory!InitializationLockFree, StaticMemory!TakeInitializationLock
    <3>3. CASE owner[Cctor(w)] # None
      BY <1>6, <3>3 DEF MakeExecutable, StaticMemory!InitializationLockFree
    <3> QED
      BY <3>2, <3>3
  <2> QED
    BY <2>1, <2>2, NextCctorGoes DEF Makes, LoopSteps
<1>7. CASE CallCctor(w)
  <2>1. step[w] = "call" /\ Idle(w) /\ w # None
    BY <1>7, WorkerShape DEF CallCctor, CctorStep, At
  <2>2. UNCHANGED executionDone
    BY <1>7 DEF CallCctor
  <2>3. CASE StaticMemory!ExecutionIsDone(Cctor(w))
    <3>1. Cctor(w) \in executionDone' \/ owner[Cctor(w)] = None
      BY <2>2, <2>3 DEF StaticMemory!ExecutionIsDone
    <3>2. NextCctor(w, "call", "link")
      BY <1>7, <2>3 DEF CallCctor
    <3> QED
      BY <2>1, <3>1, <3>2, NextCctorGoes DEF GoesPast, Calling, LoopSteps, Running
  <2>4. CASE ~StaticMemory!ExecutionIsDone(Cctor(w)) /\ StaticMemory!MayExecute(Cctor(w), w)
    BY <1>1, <1>7, <2>1, <2>4 DEF CallCctor, GoOn, Within, Goes
  <2>5. CASE ~StaticMemory!ExecutionIsDone(Cctor(w)) /\ ~StaticMemory!MayExecute(Cctor(w), w)
    <3>1. CASE StaticMemory!LeadsToADeadlock(w, Cctor(w))
      <4>1. NextCctor(w, "call", "link")
        BY <1>7, <2>5, <3>1 DEF CallCctor
      <4>2. LetPast(w)
        BY <2>1, <2>5, <3>1 DEF LetPast
      <4>3. owner[Cctor(w)] # w
        <5>1. ASSUME owner[Cctor(w)] = w PROVE Cctor(w) \notin inExecution
          BY <2>1, <5>1 DEF CctorInv, RunnersOwn, Running
        <5> QED
          BY <2>5, <5>1 DEF StaticMemory!MayExecute
      <4> QED
        BY <2>1, <4>1, <4>2, <4>3, NextCctorGoes DEF GoesPast, Calling, LoopSteps, Running
    <3>2. CASE ~StaticMemory!LeadsToADeadlock(w, Cctor(w))
      BY <1>1, <1>7, <2>1, <2>5, <3>2 DEF CallCctor, GoOn, Within, Goes
    <3> QED
      BY <3>1, <3>2
  <2> QED
    BY <2>3, <2>4, <2>5
<1>8. CASE RegisterRunner(w)
  BY <1>1, <1>8 DEF RegisterRunner, CctorStep, At, GoOn, Within, Goes
<1>9. CASE UnregisterRunner(w)
  BY <1>1, <1>9 DEF UnregisterRunner, CctorStep, At, GoOn, Within, Goes,
     StaticMemory!UnregisterTranslator
<1>10. CASE EndOfCctor(w)
  <2>1. /\ step[w] \in {"run", "done"} /\ Idle(w) /\ NextCctor(w, "call", "link")
        /\ Cctor(w) \in executionDone' /\ inExecution' = inExecution \ {Cctor(w)}
    BY <1>10 DEF EndOfCctor, CctorStep, At, StaticMemory!EndExecution
  <2> QED
    BY <2>1, NextCctorGoes DEF GoesPast, Calling, LoopSteps, Running
<1>11. CASE DeclareWaiting(w)
  BY <1>1, <1>11 DEF DeclareWaiting, CctorStep, At, GoOn, Within, Goes
<1>12. CASE EndOfWait(w)
  BY <1>1, <1>12 DEF EndOfWait, CctorStep, At, GoOn, Within, Goes, staticVars
<1>13. CASE UndeclareWaiting(w)
  <2>1. /\ step[w] = "undeclare" /\ Idle(w) /\ NextCctor(w, "call", "link")
        /\ UNCHANGED executionDone
    BY <1>13 DEF UndeclareWaiting, CctorStep, At
  <2>3. waits'[w] = None
    BY <1>1, <1>13 DEF UndeclareWaiting, StaticMemory!RegisterCompilationDone, IInv,
       StaticMemory!SMTypeOK
  <2>2. Cctor(w) \in executionDone'
    BY <2>1 DEF CctorInv, WaitsEnd
  <2> QED
    BY <2>1, <2>2, <2>3, NextCctorGoes DEF GoesPast, Calling, Declared, LoopSteps, Running
<1>14. CASE LinkMethod(w) \/ UnregisterMethod(w)
  BY <1>1, <1>14 DEF LinkMethod, UnregisterMethod, CctorStep, At, GoOn, Leaves, Goes, Job,
     StaticMemory!UnregisterTranslator
<1>15. CASE Publish(w) \/ NotifyCompilationEnd(w) \/ DestroyTicket(w) \/ EndCctorJob(w)
  BY <1>1, <1>15 DEF Publish, NotifyCompilationEnd, DestroyTicket, RemoveTicket, EndCctorJob,
     CctorStep, At, GoOn, Leaves
<1> QED
  BY <1>3, <1>4, <1>5, <1>6, <1>7, <1>8, <1>9, <1>10, <1>11, <1>12, <1>13, <1>14, <1>15,
     WorkerKinds DEF RunCctors, Complete

(* The list of cctors that a worker goes through stays as it is.           *)
LEMMA ListStays ==
    ASSUME IInv, [Next]_vars, NEW w \in CctorWorkers, Working(w), Working(w)'
    PROVE  Job(w)' = Job(w) /\ Cctors(w)' = Cctors(w)
<1>1. hand'[w] = hand[w] /\ method'[hand'[w]] = method[hand[w]]
  BY HandStays, WorkerShape
<1> QED
  BY <1>1 DEF Job, Cctors

LEMMA ListShape ==
    ASSUME IInv, NEW w \in CctorWorkers, step[w] \in LoopSteps \cup {"check", "link"}
    PROVE  /\ Working(w) /\ w \in Threads /\ w \in Workers
           /\ Cctors(w) \in Seq(Methods) /\ Len(Cctors(w)) \in Nat
           /\ DOMAIN Cctors(w) = 1 .. Len(Cctors(w))
           /\ \A i \in 1 .. Len(Cctors(w)) : Cctors(w)[i] \in Methods
           /\ \A i \in 1 .. Len(Cctors(w)) : Needs(Job(w), Cctors(w)[i])
           /\ step[w] \in LoopSteps \cup {"check"} => index[w] \in 1 .. Len(Cctors(w))
           /\ step[w] = "link" => index[w] = 1
<1>1. Working(w)
  BY DEF LoopSteps, Working
<1>2. /\ Cctors(w) \in Seq(Methods) /\ w \in Workers /\ w \in Threads
      /\ step[w] \in LoopSteps \cup {"check"} => index[w] \in 1 .. Len(Cctors(w))
      /\ step[w] = "link" => index[w] = 1
  BY <1>1, CctorIn DEF LoopSteps
<1>3. /\ Len(Cctors(w)) \in Nat /\ DOMAIN Cctors(w) = 1 .. Len(Cctors(w))
      /\ \A i \in 1 .. Len(Cctors(w)) : Cctors(w)[i] \in Methods
  BY <1>2
<1>4. \A i \in DOMAIN Cctors(w) : Needs(Job(w), Cctors(w)[i])
  BY DEF Needs, Cctors, Job
<1> QED
  BY <1>1, <1>2, <1>3, <1>4

LEMMA PassableStays ==
    ASSUME [Next]_vars, NEW m, NEW c, Passable(m, c) PROVE Passable(m, c)'
<1>1. executionDone \subseteq executionDone'
  BY DoneGrows
<1> QED
  BY <1>1 DEF Passable

LEMMA CctorsPassedStep ==
    ASSUME IInv, CctorInv, COrder, [Next]_vars PROVE CctorsPassed'
<1> SUFFICES ASSUME NEW w \in CctorWorkers
             PROVE  /\ step'[w] = "check" => index'[w] = 1
                    /\ step'[w] \in Calling =>
                         \A i \in 1 .. index'[w] - 1 : Passable(Job(w), Cctors(w)[i])'
                    /\ step'[w] \in {"link", "unregister", "publish"} =>
                         \A i \in 1 .. Len(Cctors(w)') : Passable(Job(w), Cctors(w)[i])'
  BY DEF CctorsPassed
<1>1. CctorsPassed
  BY DEF COrder
<1>2. CASE ~Moves(w)
  <2>1. step'[w] = step[w] /\ index'[w] = index[w]
    BY <1>2 DEF Moves
  <2>2. step[w] \in Calling \cup {"check", "link", "unregister", "publish"} =>
          Job(w)' = Job(w) /\ Cctors(w)' = Cctors(w) /\ Cctor(w)' = Cctor(w)
    BY <2>1, ListStays DEF Working, Calling, Running, Declared, Cctor
  <2>3. CASE step[w] \in Calling \cup {"link", "unregister", "publish"}
    <3>1. \A i : Passable(Job(w), Cctors(w)[i]) => Passable(Job(w), Cctors(w)[i])'
      BY <2>2, <2>3, PassableStays DEF Passable
    <3>2. step'[w] # "check"
      BY <2>1, <2>3 DEF Calling, Running, Declared
    <3> QED
      BY <1>1, <2>1, <2>2, <2>3, <3>1, <3>2 DEF CctorsPassed
  <2>4. CASE step[w] \notin Calling \cup {"link", "unregister", "publish"}
    BY <1>1, <2>1, <2>4 DEF CctorsPassed, Calling, Declared
  <2> QED
    BY <2>3, <2>4
<1>3. CASE StartsJob(w)
  <2>1. index[w] = 1 /\ Working(w)
    BY <1>3, CctorIn DEF StartsJob, LoopSteps, Working
  <2>2. CASE Cctors(w) # <<>>
    BY <1>3, <2>1, <2>2 DEF StartsJob, Goes, Calling, Running, Declared
  <2>3. CASE Cctors(w) = <<>>
    <3>1. step'[w] = "link" /\ Cctors(w)' = <<>>
      BY <1>3, <2>1, <2>3, ListStays DEF StartsJob, Goes, Working
    <3> QED
      BY <3>1 DEF Calling, Running, Declared
  <2> QED
    BY <2>2, <2>3
<1>4. CASE Checks(w)
  <2>1. index[w] = 1
    BY <1>1, <1>4 DEF Checks, CctorsPassed
  <2> QED
    BY <1>4, <2>1 DEF Checks, Goes
<1>5. CASE Makes(w)
  <2>1. step'[w] = "make" \/ (step'[w] = "call" /\ index'[w] = 1)
    BY <1>5 DEF Makes, Goes
  <2> QED
    BY <2>1 DEF Calling, Running, Declared
<1>6. CASE GoesPast(w)
  <2>1. step[w] \in LoopSteps /\ step'[w] \in {"call", "link"}
    BY <1>6 DEF GoesPast, Goes, Calling, Running, Declared, LoopSteps
  <2>2. Working(w)' /\ Job(w)' = Job(w) /\ Cctors(w)' = Cctors(w)
    BY <2>1, ListShape, ListStays DEF Working
  <2>3. \A i \in 1 .. index[w] - 1 : Passable(Job(w), Cctors(w)[i])'
    BY <1>1, <1>6, <2>2, PassableStays DEF GoesPast, CctorsPassed, Calling, Running, Declared
  <2>4. ASSUME NEW i \in Nat, i = index[w]
        PROVE  Passable(Job(w), Cctors(w)[i])'
    <3>1. Cctors(w)[i] = Cctor(w) /\ i \in 1 .. Len(Cctors(w))
      BY <2>1, <2>4, ListShape DEF Cctor
    <3>2. Cctors(w)[i] \in executionDone' \/ Passable(Job(w), Cctors(w)[i])
      <4>1. CASE LetPast(w)
        BY <3>1, <4>1, Passes DEF LetPast
      <4>2. CASE owner[Cctor(w)] = None /\ Cctor(w) \notin executionDone'
        <5>1. step[w] \in Calling
          BY <1>6 DEF GoesPast, Calling, Running, Declared
        <5>2. owner[Cctors(w)[i]] # None
          BY <3>1, <5>1 DEF COrder, CctorsOwned
        <5> QED
          BY <3>1, <4>2, <5>2
      <4> QED
        BY <1>6, <3>1, <4>1, <4>2 DEF GoesPast
    <3> QED
      BY <2>2, <3>2, PassableStays DEF Passable
  <2> QED
    BY <1>6, <2>1, <2>2, <2>3, <2>4, ListShape DEF GoesPast, Goes, Calling, Running, Declared
<1>7. CASE Within(w)
  <2>1. step[w] \in Calling /\ step'[w] \in Calling /\ index'[w] = index[w]
    BY <1>7 DEF Within, Goes, Calling, Running, Declared
  <2>2. Job(w)' = Job(w) /\ Cctors(w)' = Cctors(w)
    BY <2>1, ListStays DEF Working, Calling, Running, Declared
  <2> QED
    BY <1>1, <2>1, <2>2, PassableStays DEF CctorsPassed, Calling, Running, Declared, Cctor
<1>8. CASE Leaves(w)
  <2>1. CASE step[w] \in {"link", "unregister"}
    <3>1. step'[w] \in {"unregister", "publish"}
      BY <1>8, <2>1 DEF Leaves, Goes
    <3>2. Job(w)' = Job(w) /\ Cctors(w)' = Cctors(w)
      BY <2>1, <3>1, ListStays DEF Working
    <3> QED
      BY <1>1, <2>1, <3>1, <3>2, PassableStays DEF CctorsPassed, Calling, Running, Declared
  <2>2. CASE step[w] \notin {"link", "unregister"}
    BY <1>8, <2>2 DEF Leaves, Calling, Running, Declared
  <2> QED
    BY <2>1, <2>2
<1> QED
  BY <1>2, <1>3, <1>4, <1>5, <1>6, <1>7, <1>8, CctorMoves

LEMMA OwnerStays ==
    ASSUME [Next]_vars, NEW c \in Methods, owner[c] # None, IInv
    PROVE  owner'[c] = owner[c]
<1>1. owner \in [Methods -> Threads \cup {None}]
  BY DEF IInv, StaticMemory!SMTypeOK
<1>2. ASSUME NEW w \in Workers, MakeExecutable(w), owner' # owner
      PROVE  owner' = [owner EXCEPT ![Cctor(w)] = w] /\ owner[Cctor(w)] = None
  BY <1>2 DEF MakeExecutable, StaticMemory!InitializationLockFree,
     StaticMemory!TakeInitializationLock
<1> QED
  BY <1>1, <1>2, OwnerSteps

LEMMA CctorsOwnedStep ==
    ASSUME IInv, CctorInv, COrder, CctorsDescribed, [Next]_vars PROVE CctorsOwned'
<1> SUFFICES ASSUME NEW w \in CctorWorkers
             PROVE  /\ step'[w] = "make" =>
                         \A i \in 1 .. index'[w] - 1 : owner'[Cctors(w)'[i]] # None
                    /\ step'[w] \in Calling =>
                         \A i \in 1 .. Len(Cctors(w)') : owner'[Cctors(w)'[i]] # None
  BY DEF CctorsOwned
<1>1. CctorsOwned
  BY DEF COrder
<1>2. step[w] \in LoopSteps \cup {"check", "link"} =>
        \A i \in 1 .. Len(Cctors(w)) :
           owner[Cctors(w)[i]] # None => owner'[Cctors(w)[i]] # None
  BY ListShape, OwnerStays
<1>3. CASE ~Moves(w)
  <2>1. step'[w] = step[w] /\ index'[w] = index[w]
    BY <1>3 DEF Moves
  <2>2. CASE step[w] \in LoopSteps
    <3>1. Cctors(w)' = Cctors(w)
      BY <2>1, <2>2, ListStays DEF Working, LoopSteps
    <3>2. index[w] \in 1 .. Len(Cctors(w)) /\ Len(Cctors(w)) \in Nat
      BY <2>2, ListShape
    <3>3. \A i \in 1 .. index[w] - 1 : i \in 1 .. Len(Cctors(w))
      BY <3>2
    <3> QED
      BY <1>1, <1>2, <2>1, <2>2, <3>1, <3>3 DEF CctorsOwned
  <2>3. CASE step[w] \notin LoopSteps
    BY <2>1, <2>3 DEF LoopSteps, Calling, Running, Declared
  <2> QED
    BY <2>2, <2>3
<1>4. CASE StartsJob(w) \/ Leaves(w)
  BY <1>4 DEF StartsJob, Leaves, Goes, Calling, Running, Declared
<1>5. CASE Checks(w)
  <2>1. step[w] = "check" /\ index[w] = 1 /\ index'[w] = 1 /\ step'[w] \in {"make", "call"}
    BY <1>5 DEF Checks, Goes, COrder, CctorsPassed
  <2>2. Cctors(w)' = Cctors(w)
    BY <2>1, ListStays DEF Working
  <2>3. Job(w) \in Methods
    BY <2>1, ListShape, HandInPlace DEF Job
  <2>4. CASE step'[w] = "call"
    <3>1. ASSUME NEW i \in 1 .. Len(Cctors(w)) PROVE owner[Cctors(w)[i]] # None
      BY <1>5, <2>1, <2>3, <2>4, ListShape DEF Checks, Goes, CctorsDescribed
    <3> QED
      BY <1>2, <2>1, <2>2, <2>4, <3>1
  <2> QED
    BY <2>1, <2>2, <2>4 DEF Calling, Running, Declared
<1>6. CASE Makes(w)
  <2>1. step[w] \in LoopSteps /\ step'[w] \in {"make", "call"}
    BY <1>6 DEF Makes, Goes, LoopSteps
  <2>2. Cctors(w)' = Cctors(w)
    BY <2>1, ListShape, ListStays DEF Working
  <2>3. index[w] \in 1 .. Len(Cctors(w)) /\ Len(Cctors(w)) \in Nat
    BY <2>1, ListShape
  <2>4. \A i \in 1 .. index[w] : owner'[Cctors(w)[i]] # None
    <3> TAKE i \in 1 .. index[w]
    <3>1. CASE i = index[w]
      BY <1>6, <3>1 DEF Makes, Cctor
    <3>2. CASE i # index[w]
      <4>1. i \in 1 .. index[w] - 1 /\ i \in 1 .. Len(Cctors(w))
        BY <2>3, <3>2
      <4> QED
        BY <1>1, <1>2, <1>6, <2>1, <4>1 DEF Makes, CctorsOwned
    <3> QED
      BY <3>1, <3>2
  <2> QED
    BY <1>6, <2>2, <2>3, <2>4 DEF Makes, Goes, Calling, Running, Declared
<1>7. CASE GoesPast(w) \/ Within(w)
  <2>1. step[w] \in Calling /\ step'[w] \in Calling \cup {"link"}
    BY <1>7 DEF GoesPast, Within, Goes, Calling, Running, Declared
  <2>2. step[w] \in LoopSteps /\ Working(w)'
    BY <2>1 DEF Calling, Running, Declared, LoopSteps, Working
  <2>3. Cctors(w)' = Cctors(w)
    BY <2>2, ListShape, ListStays
  <2> QED
    BY <1>1, <1>2, <2>1, <2>2, <2>3 DEF CctorsOwned, Calling, Running, Declared
<1> QED
  BY <1>3, <1>4, <1>5, <1>6, <1>7, CctorMoves

LEMMA OwnersAheadStep ==
    ASSUME IInv, CctorInv, [Next]_vars PROVE OwnersAhead'
<1> SUFFICES ASSUME NEW c \in Methods, owner'[c] # None, c \notin executionDone'
             PROVE  \E v \in CctorWorkers : owner'[c] = v /\ Ahead(v, c)'
  <2>1. ASSUME NEW c \in Methods, owner'[c] # None PROVE owner'[c] \in CctorWorkers
    <3>1. CASE owner[c] # None
      BY <3>1, OwnerStays DEF CctorInv, OwnersAhead
    <3>2. CASE owner[c] = None
      <4>1. PICK w \in Workers : MakeExecutable(w)
        BY <2>1, <3>2, OwnerSteps
      <4>2. owner' = [owner EXCEPT ![Cctor(w)] = w] /\ w \in CctorWorkers
        BY <2>1, <3>2, <4>1, WorkerShape DEF MakeExecutable, CctorStep, At,
           StaticMemory!TakeInitializationLock
      <4> QED
        BY <2>1, <3>2, <4>2 DEF IInv, StaticMemory!SMTypeOK
    <3> QED
      BY <3>1, <3>2
  <2>2. ASSUME NEW c \in Methods, owner'[c] # None, c \notin executionDone'
        PROVE  Ahead(owner[c], c)'
    <3>1. PICK v \in CctorWorkers : owner'[c] = v /\ Ahead(v, c)'
      BY <2>2
    <3> QED
      BY <3>1 DEF Ahead, Cctors
  <2> QED
    BY <2>1, <2>2 DEF OwnersAhead
<1>1. c \notin executionDone
  BY DoneGrows
<1>2. CASE owner[c] # None
  <2>0. PICK v \in CctorWorkers : v = owner[c]
    BY <1>2 DEF CctorInv, OwnersAhead
  <2>1. owner'[c] = v /\ Ahead(v, c) /\ step[v] \in LoopSteps
    BY <1>1, <1>2, <2>0, OwnerStays DEF CctorInv, OwnersAhead, Ahead
  <2>2. PICK j \in 1 .. Len(Cctors(v)) :
          Cctors(v)[j] = c /\ (step[v] # "make" => j >= index[v])
    BY <2>1 DEF Ahead
  <2>3. /\ index[v] \in 1 .. Len(Cctors(v)) /\ Len(Cctors(v)) \in Nat
        /\ Working(v)
    BY <2>1, ListShape
  <2>4. Working(v)' => Cctors(v)' = Cctors(v)
    BY <2>1, <2>3, ListStays
  <2>5. CASE ~Moves(v)
    <3>1. step'[v] = step[v] /\ index'[v] = index[v]
      BY <2>5 DEF Moves
    <3>2. Cctors(v)' = Cctors(v)
      BY <2>3, <2>4, <3>1 DEF Working
    <3> QED
      BY <2>1, <2>2, <3>1, <3>2 DEF Ahead
  <2>6. CASE Makes(v)
    <3>1. step'[v] = "make" \/ (step'[v] = "call" /\ index'[v] = 1)
      BY <2>6 DEF Makes, Goes
    <3>2. Cctors(v)' = Cctors(v)
      BY <2>4, <3>1 DEF Working
    <3> QED
      BY <2>1, <2>2, <3>1, <3>2 DEF Ahead, LoopSteps
  <2>7. CASE Within(v)
    <3>1. step[v] # "make" /\ step'[v] \in LoopSteps \ {"make"} /\ index'[v] = index[v]
      BY <2>7 DEF Within, Goes, LoopSteps
    <3>2. Cctors(v)' = Cctors(v)
      BY <2>4, <3>1 DEF Working, LoopSteps
    <3> QED
      BY <2>1, <2>2, <3>1, <3>2 DEF Ahead
  <2>8. CASE GoesPast(v)
    <3>1. step[v] # "make" /\ j >= index[v]
      BY <2>2, <2>8 DEF GoesPast, Calling, Running, Declared
    <3>2. j # index[v]
      <4>1. ASSUME j = index[v] PROVE c = Cctor(v)
        BY <2>2, <4>1 DEF Cctor
      <4> QED
        BY <1>2, <2>0, <2>8, <4>1 DEF GoesPast
    <3>3. step'[v] = "call" /\ index'[v] = index[v] + 1
      BY <2>3, <2>8, <3>1, <3>2 DEF GoesPast, Goes
    <3>4. Cctors(v)' = Cctors(v)
      BY <2>4, <3>3 DEF Working
    <3>5. j >= index'[v]
      BY <2>3, <3>1, <3>2, <3>3
    <3> QED
      BY <2>1, <2>2, <3>3, <3>4, <3>5 DEF Ahead, LoopSteps
  <2>9. ~StartsJob(v) /\ ~Checks(v) /\ ~Leaves(v)
    BY <2>1 DEF StartsJob, Checks, Leaves, LoopSteps
  <2> QED
    BY <2>1, <2>5, <2>6, <2>7, <2>8, <2>9, CctorMoves
<1>3. CASE owner[c] = None
  <2>1. PICK w \in Workers : MakeExecutable(w)
    BY <1>3, OwnerSteps
  <2>2. /\ owner' = [owner EXCEPT ![Cctor(w)] = w] /\ w \in CctorWorkers
        /\ step[w] = "make" /\ NextCctor(w, "make", "call")
    BY <1>3, <2>1, WorkerShape DEF MakeExecutable, CctorStep, At,
       StaticMemory!TakeInitializationLock
  <2>3. c = Cctor(w) /\ owner'[c] = w
    BY <1>3, <2>2 DEF IInv, StaticMemory!SMTypeOK
  <2>4. index[w] \in 1 .. Len(Cctors(w)) /\ Working(w) /\ Len(Cctors(w)) \in Nat
    BY <2>2, ListShape DEF LoopSteps
  <2>5. step'[w] = "make" \/ (step'[w] = "call" /\ index'[w] = 1)
    BY <2>2, NextCctorGoes DEF Goes, LoopSteps
  <2>6. Cctors(w)' = Cctors(w)
    BY <2>2, <2>4, <2>5, ListStays DEF Working
  <2>7. Cctors(w)[index[w]] = c
    BY <2>3 DEF Cctor
  <2>8. Ahead(w, c)'
    BY <2>4, <2>5, <2>6, <2>7 DEF Ahead, LoopSteps
  <2> QED
    BY <2>2, <2>3, <2>8
<1> QED
  BY <1>2, <1>3

LEMMA InExecutionSteps ==
    ASSUME [Next]_vars
    PROVE  UNCHANGED inExecution \/ \E w \in Workers : CallCctor(w) \/ EndOfCctor(w)
<1>1. ASSUME NEW a \in Threads, InsertMethod(a)
      PROVE  UNCHANGED inExecution
  BY <1>1, InsertRunsNothing
<1>2. ASSUME NEW w \in Workers, Translate(w)
      PROVE  UNCHANGED inExecution
  BY <1>2 DEF Translate, Take, PutInNextStage, EndJob, TranslateToIR, NotifyIR,
     FindCallees, InsertCallee, EndDLA, Optimize, Reschedule, GenerateMachineCode,
     NotifyMachineCode, staticVars
<1>3. ASSUME NEW w \in Workers, RunCctors(w), ~CallCctor(w), ~EndOfCctor(w)
      PROVE  UNCHANGED inExecution
  BY <1>3 DEF RunCctors, StartCctorJob, CheckCctors, MakeExecutable, RegisterRunner,
     UnregisterRunner, DeclareWaiting, EndOfWait, UndeclareWaiting, staticVars
<1>4. ASSUME NEW w \in Workers, Complete(w)
      PROVE  UNCHANGED inExecution
  BY <1>4 DEF Complete, LinkMethod, UnregisterMethod, Publish, NotifyCompilationEnd,
     DestroyTicket, RemoveTicket, EndCctorJob, staticVars
<1>5. CASE Schedule \/ Reap \/ (\E r \in Requests : Request(r)) \/ UNCHANGED vars
  BY <1>5 DEF Schedule, TakeScheduled, InsertCallee, EndScheduled, Reap, ReaperWakesUp,
     KillCctorThreads, Request, staticVars, vars
<1> QED
  BY <1>1, <1>2, <1>3, <1>4, <1>5 DEF Next, Step, Worker

LEMMA RunnersOwnStep ==
    ASSUME IInv, CctorInv, [Next]_vars PROVE RunnersOwn'
<1> SUFFICES ASSUME NEW c \in Methods, c \in inExecution'
             PROVE  \E v \in CctorWorkers :
                      owner'[c] = v /\ step'[v] \in Running /\ Cctor(v)' = c
  <2>1. IInv'
    BY NextIInv
  <2>2. inExecution' \subseteq Methods
    BY <2>1 DEF IInv, StaticMemory!SMTypeOK
  <2>3. ASSUME NEW c \in Methods, NEW v \in CctorWorkers, owner'[c] = v, Cctor(v)' = c
        PROVE  Cctor(owner[c])' = c
    BY <2>3 DEF Cctor, Cctors
  <2> QED
    BY <2>2, <2>3 DEF RunnersOwn
<1>1. CASE c \in inExecution
  <2>0. PICK v \in CctorWorkers : v = owner[c]
    BY <1>1 DEF CctorInv, RunnersOwn
  <2>1. step[v] \in Running /\ Cctor(v) = c
    BY <1>1, <2>0 DEF CctorInv, RunnersOwn
  <2>2. v # None /\ Working(v) /\ step[v] \in LoopSteps
    BY <2>1, WorkerShape DEF Working, Running, LoopSteps
  <2>3. owner'[c] = v
    BY <2>0, <2>2, OwnerStays
  <2>4. ~GoesPast(v)
    <3>1. ASSUME GoesPast(v) PROVE inExecution' = inExecution \ {c}
      BY <2>1, <3>1 DEF GoesPast
    <3> QED
      BY <3>1
  <2>5. ~StartsJob(v) /\ ~Checks(v) /\ ~Makes(v) /\ ~Leaves(v)
    BY <2>1 DEF StartsJob, Checks, Makes, Leaves, Running
  <2>6. step'[v] \in Running /\ index'[v] = index[v]
    <3>1. CASE ~Moves(v)
      BY <2>1, <3>1 DEF Moves
    <3>2. CASE Within(v)
      BY <2>1, <3>2 DEF Within, Goes, Running
    <3> QED
      BY <2>1, <2>4, <2>5, <3>1, <3>2, CctorMoves
  <2>7. Cctor(v)' = c
    <3>1. Cctors(v)' = Cctors(v)
      BY <2>1, <2>2, <2>6, ListStays DEF Working, Running
    <3> QED
      BY <2>1, <2>6, <3>1 DEF Cctor
  <2> QED
    BY <2>1, <2>3, <2>6, <2>7
<1>2. CASE c \notin inExecution
  <2>1. PICK w \in Workers : CallCctor(w)
    BY <1>2, InExecutionSteps DEF EndOfCctor, StaticMemory!EndExecution
  <2>2. /\ w \in CctorWorkers /\ step[w] = "call" /\ UNCHANGED owner
        /\ c = Cctor(w) /\ owner[c] = w /\ step' = [step EXCEPT ![w] = "register"]
        /\ UNCHANGED index
    BY <1>2, <2>1, WorkerShape DEF CallCctor, CctorStep, At, GoOn, StaticMemory!BeginExecution,
       StaticMemory!MayExecute
  <2>3. step'[w] = "register" /\ Working(w)
    BY <2>2 DEF IInv, TypeWorkers, Working
  <2>4. Cctors(w)' = Cctors(w)
    BY <2>2, <2>3, ListStays DEF Working
  <2> QED
    BY <2>2, <2>3, <2>4 DEF Cctor, Running
<1> QED
  BY <1>1, <1>2

LEMMA TranslatorSteps ==
    ASSUME [Next]_vars
    PROVE  \/ UNCHANGED translator
           \/ \E w \in Workers : \/ StartCctorJob(w) \/ RegisterRunner(w)
                                 \/ UnregisterRunner(w) \/ UnregisterMethod(w)
<1>1. ASSUME NEW a \in Threads, InsertMethod(a)
      PROVE  UNCHANGED translator
  <2>1. CASE EnterInsert(a) \/ EnterSynch(a) \/ GoToSleep(a) \/ WakeUp(a) \/ LinkWaited(a)
               \/ WaitEmptyPipeline(a)
    BY <2>1 DEF EnterInsert, EnterSynch, GoToSleep, WakeUp, LinkWaited, WaitEmptyPipeline,
                staticVars
  <2>2. CASE JoinTicket(a) \/ ChangePriority(a) \/ SendToScheduler(a) \/ InsertNew(a)
    <3>1. UNCHANGED staticVars
      BY <2>2 DEF JoinTicket, ChangePriority, SendToScheduler, InsertNew
    <3> QED
      BY <3>1 DEF staticVars
  <2> QED
    BY <1>1, <2>1, <2>2 DEF InsertMethod
<1>2. ASSUME NEW w \in Workers, Translate(w)
      PROVE  UNCHANGED translator
  BY <1>2 DEF Translate, Take, PutInNextStage, EndJob, TranslateToIR, NotifyIR,
     FindCallees, InsertCallee, EndDLA, Optimize, Reschedule, GenerateMachineCode,
     NotifyMachineCode, staticVars
<1>3. ASSUME NEW w \in Workers, RunCctors(w), ~StartCctorJob(w), ~RegisterRunner(w),
             ~UnregisterRunner(w)
      PROVE  UNCHANGED translator
  BY <1>3 DEF RunCctors, CheckCctors, MakeExecutable, CallCctor, EndOfCctor,
     DeclareWaiting, EndOfWait, UndeclareWaiting, staticVars
<1>4. ASSUME NEW w \in Workers, Complete(w), ~UnregisterMethod(w)
      PROVE  UNCHANGED translator
  BY <1>4 DEF Complete, LinkMethod, Publish, NotifyCompilationEnd,
     DestroyTicket, RemoveTicket, EndCctorJob, staticVars
<1>5. CASE Schedule \/ Reap \/ (\E r \in Requests : Request(r)) \/ UNCHANGED vars
  BY <1>5 DEF Schedule, TakeScheduled, InsertCallee, EndScheduled, Reap, ReaperWakesUp,
     KillCctorThreads, Request, staticVars, vars
<1> QED
  BY <1>1, <1>2, <1>3, <1>4, <1>5 DEF Next, Step, Worker

LEMMA TranslatorsWorkStep ==
    ASSUME IInv, CctorInv, [Next]_vars PROVE TranslatorsWork'
<1> DEFINE Works(u, x) ==
      \/ step[u] \in {"check", "link", "unregister"} \cup LoopSteps /\ Job(u) = x
      \/ step[u] = "runRegistered" /\ Cctor(u) = x
<1> SUFFICES ASSUME NEW x \in Methods, translator'[x] # None
             PROVE  \E u \in CctorWorkers : translator'[x] = u /\ Works(u, x)'
  <2>1. ASSUME NEW x \in Methods, NEW u \in CctorWorkers, translator'[x] = u, Works(u, x)'
        PROVE  (LET v == translator[x] IN
                 \/ step[v] \in {"check", "link", "unregister"} \cup LoopSteps /\ Job(v) = x
                 \/ step[v] = "runRegistered" /\ Cctor(v) = x)'
    BY <2>1 DEF Job, Cctor, Cctors
  <2> QED
    BY <2>1 DEF TranslatorsWork
<1>1. translator \in [Methods -> Threads \cup {None}]
  BY DEF IInv, StaticMemory!SMTypeOK
<1>2. CASE translator[x] # None
  <2>1. PICK u \in CctorWorkers : u = translator[x]
    BY <1>2 DEF CctorInv, TranslatorsWork
  <2>2. Works(u, x)
    BY <1>2, <2>1 DEF CctorInv, TranslatorsWork
  <2>3. translator'[x] = u
    BY <1>1, <1>2, <2>1, TranslatorSteps DEF StartCctorJob, RegisterRunner, UnregisterRunner,
       UnregisterMethod, StaticMemory!RegisterTranslator, StaticMemory!UnregisterTranslator
  <2>4. Working(u) /\ step[u] \in {"check", "link", "unregister"} \cup LoopSteps
    BY <2>2 DEF Working, LoopSteps
  <2>5. Working(u)' => Job(u)' = Job(u) /\ Cctors(u)' = Cctors(u)
    BY <2>4, ListStays
  <2>6. CASE ~Moves(u)
    <3>1. step'[u] = step[u] /\ index'[u] = index[u] /\ Working(u)'
      BY <2>4, <2>6 DEF Moves, Working
    <3> QED
      BY <2>2, <2>3, <2>5, <3>1 DEF Cctor
  <2>7. CASE step[u] = "unregister" /\ Moves(u)
    <3>1. /\ translator' = [translator EXCEPT ![Job(u)] = None] /\ Job(u) = x
      BY <2>2, <2>7, CctorMoves DEF StartsJob, Checks, Makes, GoesPast, Within, Leaves
    <3> QED
      BY <1>1, <2>3, <3>1, WorkerShape
  <2>8. CASE step[u] = "runRegistered" /\ Moves(u)
    <3>1. /\ translator' = [translator EXCEPT ![Cctor(u)] = None] /\ step'[u] = "done"
      BY <2>8, CctorMoves DEF StartsJob, Checks, Makes, GoesPast, Within, Leaves, Goes
    <3>2. Cctor(u) # x
      BY <1>1, <2>3, <3>1, WorkerShape
    <3>3. Job(u) = x
      BY <2>2, <3>2
    <3> QED
      BY <2>3, <2>5, <3>1, <3>3 DEF Working, LoopSteps
  <2>9. CASE step[u] \notin {"unregister", "runRegistered"} /\ Moves(u)
    <3>1. Job(u) = x
      BY <2>2, <2>9
    <3>2. step'[u] \in {"check", "link", "unregister"} \cup LoopSteps
      BY <2>4, <2>9, CctorMoves DEF StartsJob, Checks, Makes, GoesPast, Within, Leaves, Goes,
         LoopSteps
    <3> QED
      BY <2>3, <2>5, <3>1, <3>2 DEF Working, LoopSteps
  <2> QED
    BY <2>6, <2>7, <2>8, <2>9
<1>3. CASE translator[x] = None
  <2>1. PICK w \in Workers : StartCctorJob(w) \/ RegisterRunner(w)
    BY <1>1, <1>3, TranslatorSteps DEF UnregisterRunner, UnregisterMethod,
       StaticMemory!UnregisterTranslator
  <2>2. w \in CctorWorkers /\ w \in Threads /\ step \in [Workers -> Steps]
    BY <2>1, WorkerShape DEF StartCctorJob, RegisterRunner, CctorStep, At, IInv, TypeWorkers
  <2>3. CASE StartCctorJob(w)
    <3>1. x = Job(w) /\ translator'[x] = w
      BY <1>1, <1>3, <2>3 DEF StartCctorJob, StaticMemory!RegisterTranslator, Job
    <3>2. step[w] = "job" /\ step'[w] \in {"link", "check"}
      BY <2>2, <2>3 DEF StartCctorJob, CctorStep, At, GoOn
    <3>3. Job(w)' = Job(w)
      BY <2>2, <3>2, ListStays DEF Working
    <3> QED
      BY <2>2, <3>1, <3>2, <3>3
  <2>4. CASE RegisterRunner(w)
    <3>1. x = Cctor(w) /\ translator'[x] = w
      BY <1>1, <1>3, <2>4 DEF RegisterRunner, StaticMemory!RegisterTranslator
    <3>2. step[w] = "register" /\ step'[w] = "runRegistered" /\ index' = index
      BY <1>3, <2>2, <2>4, <3>1 DEF RegisterRunner, CctorStep, At, GoOn
    <3>3. Cctors(w)' = Cctors(w)
      BY <2>2, <3>2, ListStays DEF Working
    <3> QED
      BY <2>2, <3>1, <3>2, <3>3 DEF Cctor
  <2> QED
    BY <2>1, <2>3, <2>4
<1> QED
  BY <1>2, <1>3

LEMMA WaitsSteps ==
    ASSUME [Next]_vars
    PROVE  \/ UNCHANGED waits
           \/ \E a \in Threads : EnterSynch(a) \/ WakeUp(a)
           \/ \E w \in Workers : CallCctor(w) \/ UndeclareWaiting(w)
<1>1. ASSUME NEW a \in Threads, InsertMethod(a), ~EnterSynch(a), ~WakeUp(a)
      PROVE  UNCHANGED waits
  <2>1. CASE EnterInsert(a) \/ GoToSleep(a) \/ LinkWaited(a) \/ WaitEmptyPipeline(a)
    BY <2>1 DEF EnterInsert, GoToSleep, LinkWaited, WaitEmptyPipeline, staticVars
  <2>2. CASE JoinTicket(a) \/ ChangePriority(a) \/ SendToScheduler(a) \/ InsertNew(a)
    <3>1. UNCHANGED staticVars
      BY <2>2 DEF JoinTicket, ChangePriority, SendToScheduler, InsertNew
    <3> QED
      BY <3>1 DEF staticVars
  <2> QED
    BY <1>1, <2>1, <2>2 DEF InsertMethod
<1>2. ASSUME NEW w \in Workers, Translate(w)
      PROVE  UNCHANGED waits
  BY <1>2 DEF Translate, Take, PutInNextStage, EndJob, TranslateToIR, NotifyIR,
     FindCallees, InsertCallee, EndDLA, Optimize, Reschedule, GenerateMachineCode,
     NotifyMachineCode, staticVars
<1>3. ASSUME NEW w \in Workers, RunCctors(w), ~CallCctor(w), ~UndeclareWaiting(w)
      PROVE  UNCHANGED waits
  BY <1>3 DEF RunCctors, StartCctorJob, CheckCctors, MakeExecutable, RegisterRunner,
     UnregisterRunner, EndOfCctor, DeclareWaiting, EndOfWait, staticVars
<1>4. ASSUME NEW w \in Workers, Complete(w)
      PROVE  UNCHANGED waits
  BY <1>4 DEF Complete, LinkMethod, UnregisterMethod, Publish, NotifyCompilationEnd,
     DestroyTicket, RemoveTicket, EndCctorJob, staticVars
<1>5. CASE Schedule \/ Reap \/ (\E r \in Requests : Request(r)) \/ UNCHANGED vars
  BY <1>5 DEF Schedule, TakeScheduled, InsertCallee, EndScheduled, Reap, ReaperWakesUp,
     KillCctorThreads, Request, staticVars, vars
<1> QED
  BY <1>1, <1>2, <1>3, <1>4, <1>5 DEF Next, Step, Worker

(* A worker stays where it is while it is in a call.                       *)
LEMMA StaysInCall ==
    ASSUME IInv, CctorInv, [Next]_vars, NEW u \in CctorWorkers, ~Idle(u)
    PROVE  step'[u] = step[u] /\ Job(u)' = Job(u)
<1>1. step[u] \in {"make", "call"}
  BY DEF IInv, WorkersCall
<1>2. step'[u] = step[u]
  BY CctorMoves DEF Moves
<1> QED
  BY <1>1, <1>2, ListStays DEF Working

LEMMA WorkersCallNeeds ==
    ASSUME IInv, CctorInv, [Next]_vars, NEW u \in CctorWorkers
    PROVE  /\ call'[u].op # "none" => /\ call'[u].op \in {"synch", "machineCode"}
                                      /\ Needs(Job(u)', call'[u].method)
           /\ call'[u].pc = "link" => call'[u].op = "machineCode"
<1>1. /\ u \in Threads /\ u \in Workers /\ call[u] \in Calls /\ CallOK(call[u])
      /\ call[u].op = "none" <=> Idle(u)
  BY WorkerShape DEF IInv, CallsOK, CallOK, Idle
<1>2. /\ call[u].op # "none" => /\ call[u].op \in {"synch", "machineCode"}
                                /\ Needs(Job(u), call[u].method)
      /\ call[u].pc = "link" => call[u].op = "machineCode"
  BY DEF CctorInv, WaitersNeed
<1>3. ~Idle(u) => Job(u)' = Job(u)
  BY StaysInCall
<1>4. CASE call'[u] = call[u]
  BY <1>1, <1>2, <1>3, <1>4
<1>5. CASE Begins(u)
  <2>1. u \notin Callers /\ todo[u] = {}
    BY <1>1, NamesAssumption DEF IInv, WorkersCall
  <2>2. MakeExecutable(u) /\ call'[u].op = "synch" /\ call'[u].method = Cctor(u)
    BY <1>5, <2>1, ProgramAssumption DEF Begins, RequestSet
  <2>3. step[u] = "make" /\ NextCctor(u, "make", "call")
    BY <2>2 DEF MakeExecutable, CctorStep, At
  <2>4. step'[u] \in {"make", "call"}
    BY <2>3, NextCctorGoes DEF Goes, LoopSteps
  <2>5. Job(u)' = Job(u)
    BY <2>3, <2>4, ListStays DEF Working
  <2>6. Needs(Job(u), Cctor(u))
    BY <2>3, ListShape DEF Cctor, LoopSteps
  <2>7. call'[u].pc = "enter"
    BY <1>5 DEF Begins, Starts
  <2> QED
    BY <2>2, <2>5, <2>6, <2>7
<1>6. CASE Woken(u)
  <2>1. Continues(u, call[u], {"signalled"}) /\ ~Idle(u)
    BY <1>1, <1>6, PcCall DEF Woken, Asleep, Idle
  <2> QED
    BY <1>1, <1>2, <1>3, <2>1 DEF Continues
<1>7. CASE InsertMethod(u)
  <2>1. CASE EnterInsert(u) \/ EnterSynch(u)
    <3>1. call[u].pc = "enter" /\ call[u].op \in {"async", "tillIR", "synch"}
      BY <1>1, <2>1, EntersCall
    <3>2. ~Idle(u) /\ call[u].op = "synch"
      BY <1>1, <1>2, <3>1 DEF Idle
    <3> QED
      BY <1>1, <1>2, <1>3, <2>1, <3>2, EntersCall DEF NoCall
  <2>2. CASE ~EnterInsert(u) /\ ~EnterSynch(u)
    <3>1. CASE call'[u] = NoCall
      BY <3>1 DEF NoCall
    <3>2. CASE call'[u] # NoCall
      <4>1. call'[u].op = call[u].op /\ call'[u].method = call[u].method
        BY <1>1, <1>7, <2>2, <3>2, GoesOnCall
      <4> QED
        BY <1>1, <1>2, <1>3, <1>7, <4>1, LinkCall
    <3> QED
      BY <3>1, <3>2
  <2> QED
    BY <2>1, <2>2
<1> QED
  BY <1>1, <1>4, <1>5, <1>6, <1>7, CallKinds

LEMMA WaitersNeedStep ==
    ASSUME IInv, CctorInv, [Next]_vars PROVE WaitersNeed'
<1> DEFINE Waits(u) == step[u] \in Declared \/ (call[u].op = "synch" /\ call[u].pc # "enter")
<1> SUFFICES ASSUME NEW u \in CctorWorkers, waits'[u] # None
             PROVE  Needs(Job(u)', waits'[u]) /\ Waits(u)'
  BY WorkersCallNeeds DEF WaitersNeed
<1>1. /\ u \in Threads /\ u \in Workers /\ call \in [Threads -> Calls]
      /\ call[u] \in Calls /\ CallOK(call[u]) /\ waits \in [Threads -> Methods \cup {None}]
      /\ step \in [Workers -> Steps]
  BY WorkerShape DEF IInv, CallsOK, StaticMemory!SMTypeOK, TypeWorkers
<1>2. /\ waits[u] # None => Needs(Job(u), waits[u]) /\ Waits(u)
      /\ call[u].op # "none" => Needs(Job(u), call[u].method)
      /\ call[u].pc = "link" => call[u].op = "machineCode"
  BY DEF CctorInv, WaitersNeed
<1>3. CASE waits'[u] = waits[u]
  <2>1. CASE step[u] \in Declared
    <3>1. step'[u] \in Declared
      <4>1. CASE ~Moves(u)
        BY <2>1, <4>1 DEF Moves
      <4>2. CASE Moves(u)
        BY <1>3, <2>1, <4>2, CctorMoves DEF StartsJob, Checks, Makes, GoesPast, Within, Leaves,
           Goes, Declared
      <4> QED
        BY <4>1, <4>2
    <3>2. Job(u)' = Job(u)
      BY <2>1, <3>1, ListStays DEF Working, Declared
    <3> QED
      BY <1>2, <1>3, <3>1, <3>2
  <2>2. CASE call[u].op = "synch" /\ call[u].pc # "enter"
    <3>1. ~Idle(u)
      BY <1>1, <2>2 DEF CallOK, Idle
    <3>2. Job(u)' = Job(u)
      BY <3>1, StaysInCall
    <3>3. call'[u].op = "synch" /\ call'[u].pc # "enter"
      <4>1. CASE call'[u] = call[u]
        BY <2>2, <4>1
      <4>2. CASE Woken(u)
        <5>1. Continues(u, call[u], {"signalled"})
          BY <1>1, <4>2, PcCall DEF Woken
        <5> QED
          BY <2>2, <5>1 DEF Continues
      <4>3. CASE InsertMethod(u) /\ call'[u] # NoCall
        <5>1. ~EnterInsert(u) /\ ~EnterSynch(u)
          BY <2>2 DEF EnterInsert, EnterSynch
        <5> QED
          BY <1>1, <2>2, <4>3, <5>1, GoesOnCall DEF Later
      <4>4. call'[u] # NoCall
        <5>1. ASSUME call'[u] = NoCall PROVE WakeUp(u)
          <6>1. call[u].op # "none" /\ call'[u].op = "none"
            BY <2>2, <5>1 DEF NoCall
          <6>2. ~EnterSynch(u)
            BY <2>2 DEF EnterSynch
          <6> QED
            BY <1>1, <1>2, <2>2, <6>1, <6>2, Returns
        <5>2. ASSUME WakeUp(u) PROVE waits'[u] = None
          BY <1>1, <2>2, <5>2 DEF WakeUp, IsCctorThread, StaticMemory!RegisterCompilationDone
        <5> QED
          BY <5>1, <5>2
      <4>5. ~Begins(u)
        BY <3>1 DEF Begins, Starts
      <4> QED
        BY <1>1, <4>1, <4>2, <4>3, <4>4, <4>5, CallKinds
    <3> QED
      BY <1>2, <1>3, <2>2, <3>2, <3>3
  <2> QED
    BY <1>2, <1>3, <2>1, <2>2
<1>4. CASE waits'[u] # waits[u]
  <2>1. ASSUME NEW a \in Threads, EnterSynch(a)
        PROVE  Needs(Job(u)', waits'[u]) /\ Waits(u)'
    <3>1. a = u /\ waits' = [waits EXCEPT ![a] = call[a].method]
      BY <1>1, <1>4, <2>1 DEF EnterSynch, StaticMemory!RegisterCompilationNeeded
    <3>2. /\ call[u].pc = "enter" /\ call[u].op = "synch"
          /\ methodState[call[u].method] # "EXECUTABLE"
      BY <1>4, <2>1, <3>1 DEF EnterSynch
    <3>3. call' = [call EXCEPT ![u].pc = "insert", ![u].state = methodState[call[u].method],
                               ![u].op = "synch"]
      BY <1>4, <2>1, <3>1, <3>2 DEF EnterSynch
    <3>4. call'[u].op = "synch" /\ call'[u].pc = "insert"
      BY <1>1, <3>3 DEF Calls
    <3>5. Job(u)' = Job(u)
      BY <3>2, StaysInCall DEF Idle
    <3> QED
      BY <1>1, <1>2, <3>1, <3>2, <3>4, <3>5
  <2>2. ASSUME NEW a \in Threads, WakeUp(a) PROVE FALSE
    BY <1>1, <1>4, <2>2 DEF WakeUp, StaticMemory!RegisterCompilationDone
  <2>3. ASSUME NEW w \in Workers, UndeclareWaiting(w) PROVE FALSE
    BY <1>1, <1>4, <2>3 DEF UndeclareWaiting, StaticMemory!RegisterCompilationDone
  <2>4. ASSUME NEW w \in Workers, CallCctor(w)
        PROVE  Needs(Job(u)', waits'[u]) /\ Waits(u)'
    <3>1. /\ step[w] = "call" /\ waits' = [waits EXCEPT ![w] = Cctor(w)]
          /\ step' = [step EXCEPT ![w] = "declare"]
      BY <1>4, <2>4 DEF CallCctor, CctorStep, At, GoOn, StaticMemory!TryDeclaringWaiting,
         StaticMemory!RegisterCompilationNeeded
    <3>2. w = u
      BY <1>1, <1>4, <3>1
    <3>3. step'[u] = "declare" /\ waits'[u] = Cctor(u)
      BY <1>1, <3>1, <3>2
    <3>4. Needs(Job(u), Cctor(u))
      BY <3>1, <3>2, ListShape DEF Cctor, LoopSteps
    <3>5. Job(u)' = Job(u)
      BY <3>1, <3>2, <3>3, ListStays DEF Working
    <3> QED
      BY <3>3, <3>4, <3>5 DEF Declared
  <2> QED
    BY <1>4, <2>1, <2>2, <2>3, <2>4, WaitsSteps
<1> QED
  BY <1>3, <1>4

LEMMA WaitsEndStep ==
    ASSUME IInv, CctorInv, [Next]_vars PROVE WaitsEnd'
<1> SUFFICES ASSUME NEW w \in CctorWorkers, step'[w] = "undeclare"
             PROVE  Cctor(w)' \in executionDone'
  BY DEF WaitsEnd
<1>1. step[w] \in {"wait", "undeclare"} /\ index'[w] = index[w] /\ Cctor(w) \in executionDone'
  <2>1. CASE ~Moves(w)
    BY <2>1, DoneGrows DEF Moves, CctorInv, WaitsEnd
  <2>2. CASE Moves(w)
    BY <2>2, CctorMoves DEF StartsJob, Checks, Makes, GoesPast, Within, Leaves, Goes
  <2> QED
    BY <2>1, <2>2
<1>2. Cctors(w)' = Cctors(w)
  BY <1>1, ListStays DEF Working
<1> QED
  BY <1>1, <1>2 DEF Cctor

-----------------------------------------------------------------------------
(* The theorems.                                                           *)

LEMMA CctorsRanBeforeStep ==
    ASSUME IInv, COrder, CctorsRanBefore, [Next]_vars PROVE CctorsRanBefore'
<1> SUFFICES ASSUME NEW m \in Methods, methodState'[m] = "EXECUTABLE",
                    NEW c \in Methods, Needs(m, c)
             PROVE  Passable(m, c)'
  BY DEF CctorsRanBefore, Passable
<1>1. Passable(m, c) => Passable(m, c)'
  BY PassableStays
<1>2. CASE methodState[m] = "EXECUTABLE"
  BY <1>1, <1>2 DEF CctorsRanBefore, Passable
<1>3. CASE methodState[m] # "EXECUTABLE"
  <2>1. PICK w \in Workers : w[1] = "cctor" /\ step[w] = "publish" /\ m = method[hand[w]]
    BY <1>3, ExecutableStep
  <2>2. w \in CctorWorkers /\ Working(w) /\ Cctors(w) = CctorsToCall[m] /\ Job(w) = m
    BY <2>1, WorkerShape DEF Working, Cctors, Job
  <2>3. PICK i \in 1 .. Len(Cctors(w)) : Cctors(w)[i] = c
    BY <2>2, CctorIn DEF Needs
  <2> QED
    BY <1>1, <2>1, <2>2, <2>3 DEF COrder, CctorsPassed
<1> QED
  BY <1>2, <1>3

LEMMA NextCctorInv == IInv /\ CctorInv /\ [Next]_vars => CctorInv'
  BY OwnersAheadStep, RunnersOwnStep, TranslatorsWorkStep, WaitersNeedStep, WaitsEndStep
     DEF CctorInv

LEMMA NextCOrder ==
    IInv /\ CctorInv /\ COrder /\ CctorsDescribed /\ [Next]_vars => COrder'
  BY CctorsPassedStep, CctorsOwnedStep DEF COrder

LEMMA InitCOrder == Init => CctorInv /\ COrder /\ CctorsRanBefore
<1> SUFFICES ASSUME Init PROVE CctorInv /\ COrder /\ CctorsRanBefore
  OBVIOUS
<1>1. \A m \in Methods : methodState[m] # "EXECUTABLE" /\ owner[m] = None /\ translator[m] = None
  BY DEF Init, StaticMemory!SMInit
<1>2. inExecution = {}
  BY DEF Init, StaticMemory!SMInit
<1>3. ASSUME NEW w \in CctorWorkers
      PROVE  /\ step[w] = "idle" /\ waits[w] = None
             /\ call[w].op = "none" /\ call[w].pc = "idle"
  BY WorkerShape DEF Init, StaticMemory!SMInit, NoCall
<1>4. CctorsPassed /\ CctorsOwned
  BY <1>3 DEF CctorsPassed, CctorsOwned, Calling, Running, Declared
<1>5. OwnersAhead /\ RunnersOwn /\ TranslatorsWork
  BY <1>1, <1>2 DEF OwnersAhead, RunnersOwn, TranslatorsWork
<1>6. WaitersNeed /\ WaitsEnd
  BY <1>3 DEF WaitersNeed, WaitsEnd
<1> QED
  BY <1>1, <1>4, <1>5, <1>6 DEF CctorInv, COrder, CctorsRanBefore

(* Who owns, runs and translates cctors, and who waits for them, fits what *)
(* the workers do, in every program.                                       *)
THEOREM CctorInvariance == Spec => []CctorInv
<1>1. Init => CctorInv
  BY InitCOrder
<1>2. IInv /\ CctorInv /\ [Next]_vars => CctorInv'
  BY NextCctorInv
<1> QED
  BY <1>1, <1>2, Invariance, PTL DEF Spec

(* callCctorMethods comes before the method gets executable: its cctors    *)
(* ran, but for those whose owner works for a method that waits for this.  *)
THEOREM CctorsAlwaysRanBefore == Spec /\ []CctorsDescribed => []CctorsRanBefore
<1>1. Init => COrder /\ CctorsRanBefore
  BY InitCOrder
<1>2. IInv /\ CctorInv /\ COrder /\ CctorsRanBefore /\ CctorsDescribed /\ [Next]_vars
        => (COrder /\ CctorsRanBefore)'
  BY NextCOrder, CctorsRanBeforeStep
<1> QED
  BY <1>1, <1>2, Invariance, CctorInvariance, PTL DEF Spec

-----------------------------------------------------------------------------
(* Programs whose cctors are compiled by the cctor stage only.             *)

NoCctor(m) == \A x \in Methods : ~Needs(x, m)

CctorsNotRequested ==
    /\ \A r \in Requests : r.op # "waitEmpty" => NoCctor(r.method)
    /\ \A m \in Methods : \A c \in Callees[m] : NoCctor(c)

Described(m) == owner[m] # None \/ NoCctor(m)

CallsDescribed ==
    \A a \in Threads : call[a].op \notin {"none", "waitEmpty"} => Described(call[a].method)
CalleesPlain      == \A a \in Threads : \A m \in todo[a] : NoCctor(m)
TicketsDescribed  == \A t \in allocated : Described(method[t])
CompiledDescribed ==
    \A m \in Methods : methodState[m] = "EXECUTABLE" => Described(m)

DInv == CallsDescribed /\ CalleesPlain /\ TicketsDescribed /\ CompiledDescribed

LEMMA DescribedStays ==
    ASSUME IInv, [Next]_vars, NEW m \in Methods, Described(m)
    PROVE  owner'[m] # None \/ NoCctor(m)
  BY OwnerStays DEF Described

LEMMA CallsDescribedStep ==
    ASSUME IInv, DInv, CctorsNotRequested, [Next]_vars PROVE CallsDescribed'
<1> SUFFICES ASSUME NEW a \in Threads, call'[a].op \notin {"none", "waitEmpty"}
             PROVE  owner'[call'[a].method] # None \/ NoCctor(call'[a].method)
  BY DEF CallsDescribed, Described
<1>1. call[a] \in Calls /\ CallOK(call[a])
  BY DEF IInv, CallsOK
<1>2. ASSUME call'[a].method = call[a].method, call[a].op \notin {"none", "waitEmpty"}
      PROVE  owner'[call'[a].method] # None \/ NoCctor(call'[a].method)
  <2>1. call[a].method \in Methods /\ Described(call[a].method)
    BY <1>1, <1>2 DEF CallOK, DInv, CallsDescribed
  <2> QED
    BY <1>2, <2>1, DescribedStays
<1>3. CASE call'[a] = call[a]
  BY <1>2, <1>3
<1>4. CASE Woken(a)
  <2>1. Continues(a, call[a], {"signalled"})
    BY <1>1, <1>4, PcCall DEF Woken
  <2> QED
    BY <1>2, <2>1 DEF Continues
<1>5. CASE InsertMethod(a)
  <2>1. call'[a] # NoCall
    BY DEF NoCall
  <2>2. call'[a].method = call[a].method /\ call[a].op \notin {"none", "waitEmpty"}
    <3>1. CASE EnterInsert(a) \/ EnterSynch(a)
      BY <2>1, <3>1, EntersCall DEF Continues
    <3>2. CASE ~EnterInsert(a) /\ ~EnterSynch(a)
      BY <1>5, <2>1, <3>2, GoesOnCall
    <3> QED
      BY <3>1, <3>2
  <2> QED
    BY <1>2, <2>2
<1>6. CASE Begins(a)
  <2>1. CASE \E r \in Requests : call'[a].op = r.op /\ call'[a].method = r.method
    BY <2>1 DEF CctorsNotRequested
  <2>2. CASE call'[a].method \in todo[a]
    BY <2>2 DEF DInv, CalleesPlain
  <2>3. CASE a \in Workers /\ MakeExecutable(a) /\ call'[a].method = Cctor(a)
    <3>1. a \in CctorWorkers /\ step[a] = "make" /\ Idle(a)
      BY <2>3, WorkerShape DEF MakeExecutable, CctorStep, At
    <3>2. Cctor(a) \in Methods
      BY <3>1, CctorIn DEF Working, LoopSteps
    <3>3. owner'[Cctor(a)] # None
      <4>1. owner \in [Methods -> Threads \cup {None}]
        BY DEF IInv, StaticMemory!SMTypeOK
      <4>2. CASE owner[Cctor(a)] = None
        BY <2>3, <3>2, <4>1, <4>2, WorkerShape DEF MakeExecutable,
           StaticMemory!InitializationLockFree, StaticMemory!TakeInitializationLock
      <4>3. CASE owner[Cctor(a)] # None
        BY <3>2, <4>3, OwnerStays
      <4> QED
        BY <4>2, <4>3
    <3> QED
      BY <2>3, <3>3
  <2> QED
    BY <1>6, <2>1, <2>2, <2>3 DEF Begins
<1> QED
  BY <1>3, <1>4, <1>5, <1>6, CallKinds

LEMMA CalleesPlainStep ==
    ASSUME IInv, DInv, CctorsNotRequested, [Next]_vars PROVE CalleesPlain'
<1> SUFFICES ASSUME NEW a \in Threads, NEW m \in todo'[a] PROVE NoCctor(m)
  BY DEF CalleesPlain
<1>1. todo \in [Threads -> SUBSET Methods]
  BY DEF IInv, TypeWorkers
<1>2. \A x \in Methods : \A c \in Callees[x] : NoCctor(c)
  BY DEF CctorsNotRequested
<1>3. CASE m \in todo[a]
  BY <1>3 DEF DInv, CalleesPlain
<1>4. CASE m \notin todo[a]
  <2>1. ASSUME TakeScheduled PROVE NoCctor(m)
    <3>1. PICK t \in schedQueue : \E found \in {{}, Callees[method[t]]} :
            todo' = [todo EXCEPT ![Scheduler] = found]
      BY <2>1 DEF TakeScheduled
    <3>2. method[t] \in Methods
      BY <3>1 DEF IInv, SchedulerAgrees, TicketsNamed
    <3> QED
      BY <1>1, <1>2, <1>4, <3>1, <3>2
  <2>2. ASSUME NEW w \in Workers, FindCallees(w) PROVE NoCctor(m)
    <3>1. \E found \in {{}, Callees[method[hand[w]]]} : todo' = [todo EXCEPT ![w] = found]
      BY <1>4, <2>2 DEF FindCallees
    <3>2. method[hand[w]] \in Methods
      BY <2>2, HandInPlace DEF FindCallees, At, Working
    <3> QED
      BY <1>1, <1>2, <1>4, <3>1, <3>2
  <2>3. ASSUME NEW b \in Threads, InsertCallee(b) PROVE FALSE
    BY <1>1, <1>4, <2>3 DEF InsertCallee
  <2>4. ASSUME NEW w \in Workers, EndDLA(w) \/ DestroyTicket(w) PROVE FALSE
    BY <1>4, <2>4 DEF EndDLA, DestroyTicket, RemoveTicket
  <2>5. ~EndScheduled
    BY <1>4 DEF EndScheduled
  <2> QED
    BY <1>4, <2>1, <2>2, <2>3, <2>4, <2>5, CalleesSteps
<1> QED
  BY <1>3, <1>4

LEMMA TicketsDescribedStep ==
    ASSUME IInv, DInv, [Next]_vars PROVE TicketsDescribed'
<1> SUFFICES ASSUME NEW t \in allocated'
             PROVE  owner'[method'[t]] # None \/ NoCctor(method'[t])
  BY DEF TicketsDescribed, Described
<1>1. CASE t \in allocated /\ method'[t] = method[t]
  <2>1. method[t] \in Methods /\ Described(method[t])
    BY <1>1 DEF IInv, TicketsNamed, DInv, TicketsDescribed
  <2> QED
    BY <1>1, <2>1, DescribedStays
<1>2. CASE ~(t \in allocated /\ method'[t] = method[t])
  <2>1. t \in Tickets
    <3>1. IInv'
      BY NextIInv
    <3> QED
      BY <3>1 DEF IInv, TypeTickets
  <2>2. ~CallsOnly /\ \A w \in Workers : ~MovesOn(w) /\ ~Advances(w)
    BY <1>2 DEF CallsOnly, MovesOn, Advances, SameRecords
  <2>3. \A w \in Workers : ~Take(w) /\ ~PutInNextStage(w) /\ ~Reschedule(w) /\ ~EndCctorJob(w)
    BY <1>2 DEF Take, PutInNextStage, Reschedule, EndJob, EndCctorJob, ticketVars
  <2>4. ASSUME NEW w \in Workers, DestroyTicket(w) PROVE FALSE
    <3>1. hand[w] \in Tickets /\ hand[w] \in allocated
      BY <2>4, DestroyParts, HandInPlace
    <3>2. t # hand[w]
      BY <1>2, <2>4, <3>1, DestroyParts
    <3> QED
      BY <1>2, <2>1, <2>4, <3>1, <3>2, DestroyParts, FreedMethod
  <2>5. ASSUME EndScheduled PROVE FALSE
    <3>1. schedTicket \in allocated
      BY <2>5, EndScheduledParts DEF IInv, SchedulerAgrees
    <3>2. t # schedTicket
      BY <1>2, <2>5, <3>1, EndScheduledParts
    <3> QED
      BY <1>2, <2>1, <2>5, <3>2, EndScheduledParts, FreedMethod
  <2>6. PICK a \in Threads : InsertNew(a)
    BY <2>2, <2>3, <2>4, <2>5, StepKinds
  <2>7. PICK u \in Tickets \ allocated : /\ allocated' = allocated \cup {u}
                                         /\ method' = [method EXCEPT ![u] = call[a].method]
    BY <2>6, InsertNewParts
  <2>8. t = u /\ method'[t] = call[a].method
    BY <1>2, <2>1, <2>7 DEF IInv, TypeTickets
  <2>9. CallOK(call[a]) /\ call[a].pc = "insert"
    BY <2>6 DEF InsertNew, Holds, IInv, CallsOK
  <2>10. call[a].method \in Methods /\ call[a].op \notin {"none", "waitEmpty"}
    BY <2>9 DEF CallOK
  <2>11. Described(call[a].method)
    BY <2>10 DEF DInv, CallsDescribed
  <2> QED
    BY <2>8, <2>10, <2>11, DescribedStays
<1> QED
  BY <1>1, <1>2

LEMMA CompiledDescribedStep ==
    ASSUME IInv, DInv, [Next]_vars PROVE CompiledDescribed'
<1> SUFFICES ASSUME NEW m \in Methods, methodState'[m] = "EXECUTABLE"
             PROVE  owner'[m] # None \/ NoCctor(m)
  BY DEF CompiledDescribed, Described
<1>1. Described(m)
  <2>1. CASE methodState[m] = "EXECUTABLE"
    BY <2>1 DEF DInv, CompiledDescribed
  <2>2. CASE methodState[m] # "EXECUTABLE"
    <3>1. PICK w \in Workers : step[w] = "publish" /\ m = method[hand[w]]
      BY <2>2, ExecutableStep
    <3>2. hand[w] \in allocated
      BY <3>1, HandInPlace DEF Working
    <3> QED
      BY <3>1, <3>2 DEF DInv, TicketsDescribed
  <2> QED
    BY <2>1, <2>2
<1> QED
  BY <1>1, DescribedStays

(* A cctor that only makeStaticConstructorsExecutable inserts is described *)
(* before it is compiled.                                                  *)
THEOREM CctorsAreDescribed == CctorsNotRequested => (Spec => []CctorsDescribed)
<1> SUFFICES ASSUME CctorsNotRequested PROVE Spec => []CctorsDescribed
  OBVIOUS
<1>1. Init => DInv
  <2> SUFFICES ASSUME Init PROVE DInv
    OBVIOUS
  <2>1. allocated = {} /\ \A m \in Methods : methodState[m] # "EXECUTABLE"
    BY DEF Init
  <2>2. ASSUME NEW a \in Threads PROVE call[a].op = "none" /\ todo[a] = {}
    BY DEF Init, NoCall
  <2> QED
    BY <2>1, <2>2 DEF DInv, CallsDescribed, CalleesPlain, TicketsDescribed, CompiledDescribed
<1>2. IInv /\ DInv /\ [Next]_vars => DInv'
  BY CallsDescribedStep, CalleesPlainStep, TicketsDescribedStep, CompiledDescribedStep DEF DInv
<1>3. DInv => CctorsDescribed
  BY DEF DInv, CompiledDescribed, Described, NoCctor, CctorsDescribed
<1> QED
  BY <1>1, <1>2, <1>3, Invariance, PTL DEF Spec

(* The order of cctors, in every program whose cctors nobody asks for.     *)
THEOREM NotRequestedRanBefore == CctorsNotRequested => (Spec => []CctorsRanBefore)
<1> SUFFICES ASSUME CctorsNotRequested PROVE Spec => []CctorsRanBefore
  OBVIOUS
<1>1. Spec => []CctorsDescribed
  BY CctorsAreDescribed
<1> QED
  BY <1>1, CctorsAlwaysRanBefore, PTL

-----------------------------------------------------------------------------
(* Who holds the mutex, and who can be in a call.                          *)
MutexHeld == mutex \in Threads => call[mutex].pc \in Keeping

(* DLA workers and the scheduler only make asynchronous insertions, which  *)
(* do not wait.                                                            *)
OthersAsync ==
    \A a \in Threads :
        /\ a \notin Callers \cup CctorWorkers => call[a].op \in {"none", "async"}
        /\ call[a].op = "async" => call[a].pc \in {"enter", "insert", "move", "schedule"}

LEMMA MutexSteps ==
    ASSUME IInv, [Next]_vars, mutex' # mutex, mutex' \in Threads
    PROVE  InsertMethod(mutex')
<1>1. Reaper \notin Threads /\ None \notin Threads
  BY MethodIsNotNone
<1>2. ASSUME NEW a \in Threads, InsertMethod(a)
      PROVE  mutex' = a
  <2>1. CASE EnterInsert(a) \/ EnterSynch(a) \/ GoToSleep(a) \/ WakeUp(a) \/ LinkWaited(a)
               \/ WaitEmptyPipeline(a)
    BY <1>1, <2>1 DEF EnterInsert, EnterSynch, GoToSleep, WakeUp, LinkWaited,
       WaitEmptyPipeline, Return
  <2>2. ASSUME NEW c, Inserted(a, c) PROVE mutex' = None \/ mutex' = mutex
    BY <2>2 DEF Inserted, Return
  <2>3. CASE JoinTicket(a) \/ ChangePriority(a) \/ SendToScheduler(a) \/ InsertNew(a)
    <3>1. mutex' = mutex \/ \E c : Inserted(a, c)
      <4>1. CASE JoinTicket(a)
        BY <4>1 DEF JoinTicket
      <4>2. CASE ChangePriority(a)
        BY <4>2 DEF ChangePriority, GoesTo
      <4>3. CASE SendToScheduler(a)
        BY <4>3 DEF SendToScheduler
      <4>4. CASE InsertNew(a)
        BY <4>4 DEF InsertNew
      <4> QED
        BY <2>3, <4>1, <4>2, <4>3, <4>4
    <3> QED
      BY <1>1, <2>2, <3>1
  <2> QED
    BY <1>2, <2>1, <2>3 DEF InsertMethod
<1>3. ASSUME NEW w \in Workers, Translate(w)
      PROVE  UNCHANGED mutex
  BY <1>3 DEF Translate, Take, PutInNextStage, EndJob, TranslateToIR, NotifyIR,
     FindCallees, InsertCallee, EndDLA, Optimize, Reschedule, GenerateMachineCode,
     NotifyMachineCode, OnlyStep, OnlyWorker
<1>4. ASSUME NEW w \in Workers, RunCctors(w)
      PROVE  UNCHANGED mutex
  BY <1>4 DEF RunCctors, StartCctorJob, CheckCctors, MakeExecutable, CallCctor, RegisterRunner,
     UnregisterRunner, EndOfCctor, DeclareWaiting, EndOfWait, UndeclareWaiting, OnlyCctorStep
<1>5. ASSUME NEW w \in Workers, Complete(w)
      PROVE  UNCHANGED mutex
  BY <1>5 DEF Complete, LinkMethod, UnregisterMethod, Publish, NotifyCompilationEnd,
     DestroyTicket, RemoveTicket, EndCctorJob, OnlyCctorStep, OnlyWorker
<1>6. CASE Schedule \/ Reap \/ (\E r \in Requests : Request(r)) \/ UNCHANGED vars
  BY <1>1, <1>6 DEF Schedule, TakeScheduled, InsertCallee, EndScheduled, Reap, ReaperWakesUp,
     KillCctorThreads, Request, vars
<1> QED
  BY <1>2, <1>3, <1>4, <1>5, <1>6 DEF Next, Step, Worker

(* A thread that has the mutex after a step of its call is between two     *)
(* pieces of it.                                                           *)
LEMMA KeepsMutex ==
    ASSUME IInv, NEW a \in Threads, InsertMethod(a), mutex' = a
    PROVE  call'[a].pc \in Keeping
<1>1. call[a] \in Calls /\ call \in [Threads -> Calls] /\ a # None
  BY MethodIsNotNone DEF IInv, CallsOK
<1>2. ASSUME NEW c \in Calls, Inserted(a, c) PROVE call'[a].pc \in Keeping
  <2>1. \/ call'[a] = [c EXCEPT !.pc = "link"] \/ call'[a] = [c EXCEPT !.pc = "sleep"]
    BY <1>1, <1>2 DEF Inserted, Return
  <2> QED
    BY <2>1, PcCall DEF Continues, Keeping
<1>3. CASE EnterInsert(a) \/ EnterSynch(a)
  <2>1. call'[a] # NoCall
    <3>1. ASSUME call'[a] = NoCall PROVE FALSE
      <4>1. EnterSynch(a) /\ methodState[call[a].method] = "EXECUTABLE"
        BY <1>1, <1>3, <3>1, EntersCall DEF NoCall, Continues
      <4> QED
        BY <1>1, <4>1 DEF EnterSynch, Return
    <3> QED
      BY <3>1
  <2> QED
    BY <1>3, <2>1, EntersCall DEF Continues, Keeping
<1>4. CASE JoinTicket(a) \/ InsertNew(a)
  <2>1. PICK c \in Calls : call'[a] = [c EXCEPT !.pc = "move"] \/ Inserted(a, c)
    BY <1>4, TicketCall
  <2> QED
    BY <1>2, <2>1, PcCall DEF Continues, Keeping
<1>5. CASE ChangePriority(a) \/ SendToScheduler(a)
  <2>1. call'[a] = [call[a] EXCEPT !.pc = "schedule"] \/ Inserted(a, call[a])
    BY <1>1, <1>5 DEF ChangePriority, SendToScheduler, GoesTo
  <2> QED
    BY <1>1, <1>2, <2>1, PcCall DEF Continues, Keeping
<1>6. CASE WakeUp(a)
  <2>1. call'[a] = [call[a] EXCEPT !.pc = "link"]
    BY <1>1, <1>6 DEF WakeUp, Return
  <2> QED
    BY <1>1, <2>1, PcCall DEF Continues, Keeping
<1>7. CASE GoToSleep(a) \/ LinkWaited(a) \/ WaitEmptyPipeline(a)
  BY <1>1, <1>7 DEF GoToSleep, LinkWaited, WaitEmptyPipeline, Return
<1> QED
  BY <1>3, <1>4, <1>5, <1>6, <1>7 DEF InsertMethod

LEMMA MutexHeldStep ==
    ASSUME IInv, MutexHeld, [Next]_vars PROVE MutexHeld'
<1> SUFFICES ASSUME NEW a \in Threads, mutex' = a PROVE call'[a].pc \in Keeping
  BY DEF MutexHeld
<1>1. CASE mutex = a
  <2>1. call[a].pc \in Keeping
    BY <1>1 DEF MutexHeld
  <2>2. ~Begins(a) /\ ~Woken(a)
    BY <2>1 DEF Begins, Starts, Woken, Idle, Asleep, Keeping
  <2> QED
    BY <2>1, <2>2, CallKinds, KeepsMutex
<1>2. CASE mutex # a
  BY <1>2, MutexSteps, KeepsMutex
<1> QED
  BY <1>1, <1>2

LEMMA OthersAsyncStep ==
    ASSUME IInv, OthersAsync, [Next]_vars PROVE OthersAsync'
<1> SUFFICES ASSUME NEW a \in Threads
             PROVE  /\ a \notin Callers \cup CctorWorkers => call'[a].op \in {"none", "async"}
                    /\ call'[a].op = "async" =>
                         call'[a].pc \in {"enter", "insert", "move", "schedule"}
  BY DEF OthersAsync
<1>1. /\ call[a] \in Calls /\ CallOK(call[a])
      /\ a \notin Callers \cup CctorWorkers => call[a].op \in {"none", "async"}
      /\ call[a].op = "async" => call[a].pc \in {"enter", "insert", "move", "schedule"}
  BY DEF IInv, CallsOK, OthersAsync
<1>2. CASE call'[a] = call[a]
  BY <1>1, <1>2
<1>3. CASE Begins(a)
  <2>1. call'[a].pc = "enter"
    BY <1>3 DEF Begins, Starts
  <2>2. ASSUME a \notin Callers \cup CctorWorkers PROVE call'[a].op = "async"
    <3>1. ~\E r \in Requests : r.thread = a
      BY <2>2, ProgramAssumption DEF RequestSet
    <3>2. ~(a \in Workers /\ MakeExecutable(a))
      BY <2>2, WorkerShape DEF MakeExecutable, CctorStep, At
    <3>3. InsertCallee(a) /\ Idle(a) /\ call'[a].pc = "enter"
      BY <1>3, <3>1, <3>2 DEF Begins, Starts
    <3>4. \E m \in Methods : \E p : Begin(a, "async", m, p)
      BY <3>3 DEF InsertCallee, Idle, IInv, TypeWorkers
    <3> QED
      BY <3>4 DEF Begin, IInv, CallsOK
  <2> QED
    BY <2>1, <2>2
<1>4. CASE Woken(a)
  <2>1. Continues(a, call[a], {"signalled"}) /\ call[a].pc = "asleep"
    BY <1>1, <1>4, PcCall DEF Woken, Asleep
  <2> QED
    BY <1>1, <2>1 DEF Continues
<1>5. CASE InsertMethod(a)
  <2>1. ASSUME NEW c \in Calls, Inserted(a, c), c.op = call[a].op
        PROVE  /\ a \notin Callers \cup CctorWorkers => call'[a].op \in {"none", "async"}
               /\ call'[a].op # "async"
    BY <1>1, <2>1, InsertedCall DEF Continues, NoCall
  <2>2. CASE EnterInsert(a) \/ EnterSynch(a)
    BY <1>1, <2>2, EntersCall DEF Continues, NoCall
  <2>3. CASE Inserts(a)
    BY <2>1, <2>3 DEF Inserts
  <2>4. CASE call'[a].op = call[a].op /\ call'[a].pc \in {"move", "schedule", "asleep"}
    <3>1. ASSUME call'[a].pc = "asleep", call[a].op = "async" PROVE FALSE
      <4>1. ~EnterInsert(a) /\ ~EnterSynch(a)
        BY <3>1, EntersCall DEF Continues, NoCall
      <4>2. ~JoinTicket(a) /\ ~InsertNew(a)
        <5>1. ASSUME NEW c \in Calls, call'[a] = [c EXCEPT !.pc = "move"] PROVE FALSE
          BY <3>1, <5>1, PcCall DEF Continues
        <5>2. ASSUME NEW c \in Calls, Inserted(a, c), c.op = "async" PROVE FALSE
          BY <3>1, <5>2, InsertedCall DEF Continues, NoCall
        <5> QED
          BY <3>1, <5>1, <5>2, TicketCall
      <4>3. ~ChangePriority(a) /\ ~SendToScheduler(a)
        <5>1. ASSUME call'[a] = [call[a] EXCEPT !.pc = "schedule"] PROVE FALSE
          BY <1>1, <3>1, <5>1, PcCall DEF Continues
        <5>2. ~Inserted(a, call[a])
          BY <1>1, <3>1, InsertedCall DEF Continues, NoCall
        <5> QED
          BY <1>1, <5>1, <5>2 DEF ChangePriority, SendToScheduler, GoesTo, IInv, CallsOK
      <4>4. ~GoToSleep(a) /\ ~WakeUp(a) /\ ~LinkWaited(a) /\ ~WaitEmptyPipeline(a)
        BY <1>1, <3>1 DEF GoToSleep, WakeUp, LinkWaited, WaitEmptyPipeline, Holds
      <4> QED
        BY <1>5, <4>1, <4>2, <4>3, <4>4 DEF InsertMethod
    <3> QED
      BY <1>1, <2>4, <3>1
  <2>5. CASE call'[a].op = call[a].op /\ call[a].op = "machineCode"
    BY <1>1, <2>5
  <2>6. CASE call'[a] = NoCall
    BY <2>6 DEF NoCall
  <2> QED
    BY <1>5, <2>2, <2>3, <2>4, <2>5, <2>6, CallSteps
<1> QED
  BY <1>2, <1>3, <1>4, <1>5, CallKinds

-----------------------------------------------------------------------------
(* The machine code of methods that pass through the last two stages, of   *)
(* those that are not in the pipeline and of those that are inserted with  *)
(* it.  A state that was read too early brings a method back, but only in  *)
(* the pipeline, and it leaves it executable.                              *)
LateAt(s, here) ==
    IF s = "cctor" /\ here \in {"notify", "destroy"} THEN {"EXECUTABLE"}
    ELSE IF s = "cctor" \/ (s = "mc" /\ here # "job") THEN Compiled ELSE States

LateCompiled ==
    /\ \A t \in Tickets : inPipe[t] = "cctor" => methodState[method[t]] \in Compiled
    /\ \A w \in Workers : Working(w) => methodState[Job(w)] \in LateAt(w[1], step[w])

LeftCompiled ==
    \A m \in Methods : methodsInPipe[m] = None => methodState[m] # "MACHINE_CODE"

InOrDone(m) == methodsInPipe[m] # None \/ methodState[m] = "EXECUTABLE"
ReadCompiled ==
    \A a \in Threads :
        call[a].pc \in {"enter", "insert"} /\ call[a].state = "MACHINE_CODE" =>
            InOrDone(call[a].method)

MInv == LateCompiled /\ LeftCompiled /\ ReadCompiled

LEMMA JobIs ==
    ASSUME IInv, NEW w \in Workers, Working(w)
    PROVE  /\ hand[w] \in Tickets /\ Live(hand[w]) /\ Job(w) \in Methods
           /\ inPipe[hand[w]] = None /\ methodsInPipe[Job(w)] = hand[w]
           /\ w[1] \in Stages /\ methodState[Job(w)] \in States
           /\ step[w] \in StepsOf(w[1])
  BY HandInPlace, WorkerShape DEF Job, IInv, TypeMethods, StepsAgree

(* Every worker keeps its method, and every ticket its own, in these steps.*)
LEMMA LateKept ==
    ASSUME IInv, LateCompiled,
           \A t \in Tickets : inPipe'[t] = "cctor" =>
               inPipe[t] = "cctor" /\ method'[t] = method[t],
           \A v \in Workers : Working(v)' =>
               /\ Working(v) /\ Job(v)' = Job(v)
               /\ LateAt(v[1], step[v]) \subseteq LateAt(v[1], step'[v]),
           UNCHANGED methodState
    PROVE  LateCompiled'
  BY DEF LateCompiled

LEMMA MovesOnLate ==
    ASSUME IInv, LateCompiled, NEW w \in Workers, MovesOn(w) PROVE LateCompiled'
<1>1. PICK x \in Steps \ {"idle", "end"} :
         /\ step' = [step EXCEPT ![w] = x]
         /\ ReachedAt(w[1], x) = ReachedAt(w[1], step[w])
  BY DEF MovesOn
<1>2. LateAt(w[1], step[w]) \subseteq LateAt(w[1], x)
  <2>1. CASE w[1] = "cctor"
    BY <1>1, <2>1 DEF LateAt, ReachedAt
  <2>2. CASE w[1] = "mc"
    BY <1>1, <2>2 DEF LateAt, ReachedAt
  <2>3. CASE w[1] \notin {"cctor", "mc"}
    BY <2>3 DEF LateAt
  <2> QED
    BY <2>1, <2>2, <2>3
<1>3. ASSUME NEW v \in Workers, Working(v)'
      PROVE  /\ Working(v) /\ Job(v)' = Job(v)
             /\ LateAt(v[1], step[v]) \subseteq LateAt(v[1], step'[v])
  <2>1. Working(v)
    BY <1>1, <1>3 DEF Working, IInv, TypeWorkers, MovesOn
  <2>2. LateAt(v[1], step[v]) \subseteq LateAt(v[1], step'[v])
    BY <1>1, <1>2 DEF IInv, TypeWorkers
  <2> QED
    BY <2>1, <2>2 DEF MovesOn, SameRecords, Job
<1> QED
  BY <1>3, LateKept DEF MovesOn, SameRecords

LEMMA AdvancesLate ==
    ASSUME IInv, LateCompiled, NEW w \in Workers, Advances(w) PROVE LateCompiled'
<1>1. PICK x \in {"irNotify", "mcNotify", "notify"} :
         /\ step' = [step EXCEPT ![w] = x]
         /\ methodState' = [methodState EXCEPT ![Job(w)] = ReachedAt(w[1], x)]
  BY DEF Advances, Job
<1>2. SameRecords /\ UNCHANGED hand /\ Working(w)
  BY DEF Advances
<1>3. \A v \in Workers : (Working(v)' <=> Working(v)) /\ Job(v)' = Job(v)
  BY <1>1, <1>2 DEF Working, IInv, TypeWorkers, SameRecords, Job
<1>4. ASSUME NEW t \in Tickets, inPipe'[t] = "cctor"
      PROVE  methodState'[method'[t]] \in Compiled
  <2>1. inPipe[t] = "cctor" /\ method'[t] = method[t] /\ Live(t) /\ t # hand[w]
    BY <1>2, <1>4, JobIs, MethodIsNotNone DEF SameRecords, IInv, Queued, Stages
  <2>2. method[t] # Job(w) /\ method[t] \in Methods
    BY <1>2, <2>1, OthersMethod DEF IInv, TicketsNamed, Live, Job
  <2> QED
    BY <1>1, <2>1, <2>2 DEF LateCompiled, IInv, TypeMethods
<1>5. ASSUME NEW v \in Workers, Working(v)'
      PROVE  methodState'[Job(v)'] \in LateAt(v[1], step'[v])
  <2>1. CASE v = w
    <3>1. step'[v] = x /\ methodState'[Job(v)'] = ReachedAt(w[1], x)
      BY <1>1, <1>2, <1>3, <2>1, JobIs DEF IInv, TypeMethods, TypeWorkers
    <3> QED
      BY <2>1, <3>1, WorkerShape DEF ReachedAt, LateAt, Compiled, States, Stages
  <2>2. CASE v # w
    <3>1. Working(v) /\ hand[v] # hand[w] /\ Live(hand[v]) /\ hand[v] \in Tickets
      BY <1>2, <1>3, <1>5, <2>2, JobIs DEF IInv, InHands
    <3>2. Job(v) # Job(w) /\ Job(v) \in Methods
      BY <1>2, <3>1, OthersMethod, JobIs DEF Job
    <3>3. step'[v] = step[v] /\ methodState'[Job(v)] = methodState[Job(v)]
      BY <1>1, <2>2, <3>2 DEF IInv, TypeWorkers, TypeMethods
    <3> QED
      BY <1>3, <3>1, <3>3 DEF LateCompiled
  <2> QED
    BY <2>1, <2>2
<1> QED
  BY <1>4, <1>5 DEF LateCompiled

LEMMA TakeLate ==
    ASSUME IInv, LateCompiled, NEW w \in Workers, Take(w) PROVE LateCompiled'
<1>1. PICK t \in queue[<<w[1], w[2]>>] :
         /\ hand' = [hand EXCEPT ![w] = t]
         /\ inPipe' = [inPipe EXCEPT ![t] = None]
  BY DEF Take
<1>2. step' = [step EXCEPT ![w] = "job"] /\ UNCHANGED <<methodState, method>>
  BY DEF Take, GoOn, methodVars
<1>3. t \in Tickets /\ inPipe[t] = w[1] /\ Live(t) /\ None # "cctor"
  BY <1>1, WorkerShape, MethodIsNotNone DEF IInv, TypeTickets, Queued, Stages
<1>4. methodState[method[t]] \in LateAt(w[1], "job")
  BY <1>3 DEF LateCompiled, LateAt, IInv, TypeMethods, TicketsNamed, Live
<1>5. ASSUME NEW u \in Tickets, inPipe'[u] = "cctor"
      PROVE  methodState'[method'[u]] \in Compiled
  BY <1>1, <1>2, <1>3, <1>5 DEF LateCompiled, IInv, TypeTickets
<1>6. ASSUME NEW v \in Workers, Working(v)'
      PROVE  methodState'[Job(v)'] \in LateAt(v[1], step'[v])
  BY <1>1, <1>2, <1>4, <1>6 DEF LateCompiled, IInv, TypeWorkers, Working, Job
<1> QED
  BY <1>5, <1>6 DEF LateCompiled

LEMMA EndJobLate ==
    ASSUME IInv, LateCompiled, NEW w \in Workers, PutInNextStage(w) \/ Reschedule(w)
    PROVE  LateCompiled'
<1>1. PICK s \in Stages : EndJob(w, s) /\ (s = "cctor" => LateAt(w[1], step[w]) = Compiled)
  <2>1. CASE PutInNextStage(w)
    <3>1. w[1] \in Stages \ {"cctor"} /\ step[w] = "put"
      BY <2>1, StageOfStep DEF PutInNextStage
    <3> QED
      BY <2>1, <3>1 DEF PutInNextStage, NextStage, LateAt, Stages
  <2>2. CASE Reschedule(w)
    BY <2>2 DEF Reschedule, Stages
  <2> QED
    BY <2>1, <2>2
<1>2. /\ inPipe' = [inPipe EXCEPT ![hand[w]] = s]
      /\ hand' = [hand EXCEPT ![w] = None] /\ step' = [step EXCEPT ![w] = "idle"]
      /\ UNCHANGED <<methodState, method>>
  BY <1>1 DEF EndJob, PutToPipe, GoOn, methodVars
<1>3. Working(w)
  BY DEF PutInNextStage, Reschedule, At, Working
<1>4. ASSUME NEW u \in Tickets, inPipe'[u] = "cctor"
      PROVE  methodState'[method'[u]] \in Compiled
  BY <1>1, <1>2, <1>3, <1>4, JobIs DEF LateCompiled, IInv, TypeTickets, Job
<1>5. ASSUME NEW v \in Workers, Working(v)'
      PROVE  methodState'[Job(v)'] \in LateAt(v[1], step'[v])
  BY <1>2, <1>5 DEF LateCompiled, IInv, TypeWorkers, Working, Job
<1> QED
  BY <1>4, <1>5 DEF LateCompiled

LEMMA InsertNewLate ==
    ASSUME IInv, LateCompiled, ReadCompiled, NEW a \in Threads, InsertNew(a)
    PROVE  LateCompiled'
<1> DEFINE m == call[a].method
           c == call[a].state
<1>1. /\ m \in Methods /\ c \in {"CIL", "IR", "MACHINE_CODE"}
      /\ methodsInPipe[m] = None
      /\ c = "MACHINE_CODE" => methodState[m] = "EXECUTABLE"
  <2>1. /\ call[a] \in Calls /\ CallOK(call[a]) /\ call[a].pc = "insert"
        /\ methodsInPipe[m] = None
    BY DEF IInv, CallsOK, InsertNew, Holds
  <2>2. call[a].op \in {"async", "tillIR", "synch", "machineCode"}
    BY <2>1 DEF CallOK, Calls, Operations
  <2>3. c = "MACHINE_CODE" => methodState[m] = "EXECUTABLE"
    BY <2>1 DEF ReadCompiled, InOrDone
  <2> QED
    BY <2>1, <2>2, <2>3 DEF CallOK, Calls, States
<1>2. PICK t \in Tickets \ allocated :
                /\ method' = [method EXCEPT ![t] = m]
                /\ inPipe' = [inPipe EXCEPT ![t] = FirstStage(c)]
  BY InsertNewParts
<1>3. UNCHANGED <<methodState, hand, step>>
  BY InsertNewParts
<1> HIDE DEF m, c
<1>4. FirstStage(c) = "cctor" => c = "MACHINE_CODE"
  BY <1>1 DEF FirstStage
<1>5. ASSUME NEW u \in Tickets, inPipe'[u] = "cctor"
      PROVE  methodState'[method'[u]] \in Compiled
  BY <1>1, <1>2, <1>3, <1>4, <1>5 DEF LateCompiled, IInv, TypeTickets, Compiled
<1>6. ASSUME NEW v \in Workers, Working(v)'
      PROVE  methodState'[Job(v)'] \in LateAt(v[1], step'[v])
  <2>1. Working(v)
    BY <1>3, <1>6 DEF Working
  <2>2. hand[v] # t /\ hand[v] \in Tickets
    BY <1>2, <2>1, HandInPlace
  <2>3. Job(v)' = Job(v)
    BY <1>2, <1>3, <2>2 DEF IInv, TypeTickets, Job
  <2> QED
    BY <1>3, <2>1, <2>3 DEF LateCompiled
<1> QED
  BY <1>5, <1>6 DEF LateCompiled

LEMMA DestroyTicketLate ==
    ASSUME IInv, LateCompiled, NEW w \in Workers, DestroyTicket(w) PROVE LateCompiled'
<1>1. hand[w] \in Tickets /\ inPipe[hand[w]] = None /\ None # "cctor"
  BY DestroyParts, JobIs, MethodIsNotNone DEF Stages
<1>2. \A u \in Tickets : u # hand[w] => method'[u] = method[u]
  BY <1>1, DestroyParts, FreedMethod
<1>3. \A u \in Tickets : inPipe'[u] = "cctor" =>
          inPipe[u] = "cctor" /\ method'[u] = method[u]
  BY <1>1, <1>2, DestroyParts
<1>4. ASSUME NEW v \in Workers, Working(v)'
      PROVE  /\ Working(v) /\ Job(v)' = Job(v)
             /\ LateAt(v[1], step[v]) \subseteq LateAt(v[1], step'[v])
  <2>1. v # w /\ step'[v] = step[v] /\ Working(v)
    BY <1>4, DestroyParts DEF Working, IInv, TypeWorkers
  <2>2. hand[v] # hand[w] /\ hand[v] \in Tickets
    BY <2>1, DestroyParts, JobIs DEF IInv, InHands
  <2> QED
    BY <1>2, <2>1, <2>2, DestroyParts DEF Job
<1> QED
  BY <1>3, <1>4, DestroyParts, LateKept

LEMMA EndCctorJobLate ==
    ASSUME IInv, LateCompiled, NEW w \in Workers, EndCctorJob(w) PROVE LateCompiled'
<1>1. /\ hand' = [hand EXCEPT ![w] = None] /\ step' = [step EXCEPT ![w] = "idle"]
      /\ UNCHANGED <<methodState, method, inPipe>>
  BY DEF EndCctorJob, GoOn, methodVars, ticketVars
<1>2. \A v \in Workers : Working(v)' => Working(v) /\ Job(v)' = Job(v) /\ step'[v] = step[v]
  BY <1>1 DEF IInv, TypeWorkers, Working, Job
<1> QED
  BY <1>1, <1>2, LateKept

LEMMA EndScheduledLate ==
    ASSUME IInv, LateCompiled, EndScheduled PROVE LateCompiled'
<1>1. \A u \in Tickets : Live(u) => method'[u] = method[u]
  <2>1. \A u \in Tickets : u # schedTicket => method'[u] = method[u]
    BY EndScheduledParts, FreedMethod
  <2>2. Live(schedTicket) => method' = method
    BY EndScheduledParts, MethodIsNotNone DEF Live
  <2> QED
    BY <2>1, <2>2
<1>2. \A u \in Tickets : inPipe'[u] = "cctor" =>
          inPipe[u] = "cctor" /\ method'[u] = method[u]
  BY <1>1, EndScheduledParts, MethodIsNotNone DEF IInv, Queued, Stages
<1>3. ASSUME NEW v \in Workers, Working(v)'
      PROVE  Working(v) /\ Job(v)' = Job(v) /\ step'[v] = step[v]
  <2>1. Working(v) /\ step' = step /\ hand' = hand
    BY <1>3, EndScheduledParts DEF Working
  <2> QED
    BY <1>1, <2>1, JobIs DEF Job
<1> QED
  BY <1>2, <1>3, EndScheduledParts, LateKept

LEMMA CallsOnlyLate ==
    ASSUME IInv, LateCompiled, CallsOnly PROVE LateCompiled'
<1>1. \A v \in Workers : Working(v)' => Working(v) /\ Job(v)' = Job(v) /\ step'[v] = step[v]
  BY DEF CallsOnly, SameRecords, Working, Job
<1> QED
  BY <1>1, LateKept DEF CallsOnly, SameRecords

LEMMA LateCompiledStep ==
    ASSUME IInv, LateCompiled, ReadCompiled, [Next]_vars PROVE LateCompiled'
  BY StepKinds, CallsOnlyLate, MovesOnLate, AdvancesLate, TakeLate, EndJobLate,
     InsertNewLate, DestroyTicketLate, EndCctorJobLate, EndScheduledLate

-----------------------------------------------------------------------------
(* How a state changes, and how a method leaves.                           *)
LEMMA StateInPipe ==
    ASSUME IInv, [Next]_vars, NEW m \in Methods, methodState'[m] # methodState[m]
    PROVE  methodsInPipe[m] # None /\ UNCHANGED methodsInPipe
<1>1. PICK w \in Workers : Advances(w)
  <2>1. UNCHANGED methodState \/ \E w \in Workers : Advances(w)
    BY StepKinds DEF CallsOnly, MovesOn, Take, PutInNextStage, Reschedule, EndJob,
       InsertNew, DestroyTicket, RemoveTicket, EndCctorJob, EndScheduled, methodVars
  <2> QED
    BY <2>1
<1>2. Working(w) /\ methodsInPipe' = methodsInPipe
  BY <1>1 DEF Advances, SameRecords
<1>3. Job(w) \in Methods /\ methodsInPipe[Job(w)] = hand[w] /\ hand[w] # None
  BY <1>2, JobIs, MethodIsNotNone
<1>4. m = Job(w)
  BY <1>1 DEF Advances, IInv, TypeMethods, Job
<1> QED
  BY <1>2, <1>3, <1>4

LEMMA LeavesDone ==
    ASSUME IInv, LateCompiled, [Next]_vars, NEW m \in Methods,
           methodsInPipe[m] # None, methodsInPipe'[m] = None
    PROVE  methodState'[m] = "EXECUTABLE"
<1>1. CASE \E w \in Workers : DestroyTicket(w)
  <2>1. PICK w \in Workers : DestroyTicket(w)
    BY <1>1
  <2>2. m = Job(w)
    BY <2>1, DestroyParts DEF IInv, TypeTickets, Job
  <2>3. methodState[m] = "EXECUTABLE"
    BY <2>1, <2>2, DestroyParts DEF LateCompiled, LateAt
  <2> QED
    BY <2>1, <2>3, DestroyParts
<1>2. CASE \E a \in Threads : InsertNew(a)
  <2>1. PICK a \in Threads : InsertNew(a)
    BY <1>2
  <2>2. PICK t \in Tickets \ allocated :
          methodsInPipe' = [methodsInPipe EXCEPT ![call[a].method] = t]
    BY <2>1, InsertNewParts
  <2> QED
    BY <2>2, MethodIsNotNone DEF IInv, TypeTickets
<1> QED
  BY <1>1, <1>2, StepKinds DEF CallsOnly, MovesOn, Advances, SameRecords, Take,
     PutInNextStage, Reschedule, EndJob, EndCctorJob, EndScheduled, ticketVars

LEMMA StaysInOrDone ==
    ASSUME IInv, LateCompiled, [Next]_vars, NEW m \in Methods, InOrDone(m)
    PROVE  InOrDone(m)'
  BY LeavesDone, StateInPipe DEF InOrDone

LEMMA LeftCompiledStep ==
    ASSUME IInv, LateCompiled, LeftCompiled, [Next]_vars PROVE LeftCompiled'
  BY LeavesDone, StateInPipe DEF LeftCompiled

LEMMA ReadCompiledStep ==
    ASSUME IInv, LateCompiled, LeftCompiled, ReadCompiled, [Next]_vars PROVE ReadCompiled'
<1> SUFFICES ASSUME NEW a \in Threads, call'[a].pc \in {"enter", "insert"},
                    call'[a].state = "MACHINE_CODE"
             PROVE  InOrDone(call[a].method)'
  BY DEF ReadCompiled
<1>1. call[a] \in Calls /\ CallOK(call[a])
  BY DEF IInv, CallsOK
<1>2. ASSUME NEW m \in Methods, call'[a].method = m,
             \/ call[a].pc \in {"enter", "insert"} /\ call[a].method = m
                /\ call[a].state = "MACHINE_CODE"
             \/ methodState[m] = "MACHINE_CODE"
      PROVE  InOrDone(call[a].method)'
  <2>1. InOrDone(m)
    BY <1>2 DEF ReadCompiled, LeftCompiled, InOrDone
  <2>2. InOrDone(m)'
    BY <2>1, StaysInOrDone
  <2> QED
    BY <1>2, <2>2 DEF InOrDone
<1>3. CASE call'[a] = call[a]
  BY <1>1, <1>2, <1>3 DEF CallOK
<1>4. CASE Begins(a)
  BY <1>2, <1>4 DEF Begins, Starts
<1>5. CASE InsertMethod(a)
  <2>1. CASE EnterInsert(a) \/ EnterSynch(a)
    <3>1. call[a].pc = "enter" /\ call[a].method \in Methods
      BY <1>1, <2>1, EntersCall DEF CallOK
    <3> QED
      BY <1>2, <2>1, <3>1, EntersCall DEF Continues, NoCall
  <2>2. CASE ~EnterInsert(a) /\ ~EnterSynch(a)
    BY <1>5, <2>2, GoesOnCall DEF NoCall, Later
  <2> QED
    BY <2>1, <2>2
<1>6. CASE Woken(a)
  BY <1>1, <1>6, PcCall DEF Woken, Continues
<1> QED
  BY <1>3, <1>4, <1>5, <1>6, CallKinds

LEMMA NextMInv == IInv /\ MInv /\ [Next]_vars => MInv'
  BY LateCompiledStep, LeftCompiledStep, ReadCompiledStep DEF MInv
LEMMA InitMInv == Init => MInv
<1> SUFFICES ASSUME Init PROVE MInv
  OBVIOUS
<1>1. LateCompiled
  BY MethodIsNotNone DEF Init, LateCompiled, Working, Stages
<1>2. LeftCompiled
  BY DEF Init, LeftCompiled
<1>3. ReadCompiled
  BY DEF Init, ReadCompiled, NoCall
<1> QED
  BY <1>1, <1>2, <1>3 DEF MInv

-----------------------------------------------------------------------------
(* A worker waits for cctors of others, and does not search in vain.       *)
WaitOthers ==
    \A w \in CctorWorkers : step[w] \in Declared => owner[Cctor(w)] \notin {None, w}

LEMMA Declares ==
    ASSUME IInv, CctorInv, [Next]_vars, NEW w \in CctorWorkers,
           step[w] = "call", step'[w] = "declare"
    PROVE  /\ CallCctor(w)
           /\ owner[Cctor(w)] \notin {None, w} /\ Cctor(w) \notin executionDone
           /\ ~StaticMemory!LeadsToADeadlock(w, Cctor(w))
           /\ waits' = [waits EXCEPT ![w] = Cctor(w)]
           /\ UNCHANGED <<call, index, owner, executionDone, translator>>
<1>1. w \in Workers /\ w \in Threads /\ step \in [Workers -> Steps]
  BY WorkerShape DEF IInv, TypeWorkers
<1>2. CallCctor(w)
  <2>1. ~Take(w) /\ ~Complete(w)
    BY DEF Take, FirstIdle, Complete, LinkMethod, UnregisterMethod, Publish,
       NotifyCompilationEnd, DestroyTicket, RemoveTicket, EndCctorJob, CctorStep, At
  <2>2. RunCctors(w)
    BY <2>1, WorkerKinds DEF Moves
  <2> QED
    BY <2>2 DEF RunCctors, StartCctorJob, CheckCctors, MakeExecutable, RegisterRunner,
       UnregisterRunner, EndOfCctor, DeclareWaiting, EndOfWait, UndeclareWaiting, CctorStep, At
<1>3. ~StaticMemory!ExecutionIsDone(Cctor(w)) /\ ~StaticMemory!MayExecute(Cctor(w), w)
  <2>1. ~StaticMemory!ExecutionIsDone(Cctor(w))
    <3>1. ASSUME StaticMemory!ExecutionIsDone(Cctor(w)) PROVE FALSE
      <4>1. NextCctor(w, "call", "link")
        BY <1>2, <3>1 DEF CallCctor
      <4> QED
        BY <1>1, <4>1 DEF NextCctor
    <3> QED
      BY <3>1
  <2>2. ASSUME StaticMemory!MayExecute(Cctor(w), w) PROVE FALSE
    BY <1>1, <1>2, <2>1, <2>2 DEF CallCctor, GoOn
  <2> QED
    BY <2>1, <2>2
<1>4. ~StaticMemory!LeadsToADeadlock(w, Cctor(w))
  <2>1. ASSUME StaticMemory!LeadsToADeadlock(w, Cctor(w)) PROVE FALSE
    <3>1. NextCctor(w, "call", "link")
      BY <1>2, <1>3, <2>1 DEF CallCctor
    <3> QED
      BY <1>1, <3>1 DEF NextCctor
  <2> QED
    BY <2>1
<1>5. owner[Cctor(w)] \notin {None, w} /\ Cctor(w) \notin executionDone
  <2>1. owner[Cctor(w)] # None /\ Cctor(w) \notin executionDone
    BY <1>3 DEF StaticMemory!ExecutionIsDone
  <2>2. owner[Cctor(w)] # w
    <3>1. ASSUME owner[Cctor(w)] = w PROVE Cctor(w) \notin inExecution
      BY <3>1 DEF CctorInv, RunnersOwn, Running
    <3> QED
      BY <1>3, <3>1 DEF StaticMemory!MayExecute
  <2> QED
    BY <2>1, <2>2
<1>6. /\ waits' = [waits EXCEPT ![w] = Cctor(w)]
      /\ UNCHANGED <<call, index, owner, executionDone, translator>>
  BY <1>2, <1>3, <1>4 DEF CallCctor, StaticMemory!TryDeclaringWaiting,
     StaticMemory!RegisterCompilationNeeded
<1> QED
  BY <1>2, <1>4, <1>5, <1>6

(* Where a worker comes from that waits for a cctor.                       *)
LEMMA DeclaredFrom ==
    ASSUME IInv, CctorInv, [Next]_vars, NEW w \in CctorWorkers, step'[w] \in Declared
    PROVE  /\ Cctor(w)' = Cctor(w) /\ Cctor(w) \in Methods
           /\ \/ step[w] \in Declared /\ (step'[w] = "declare" => step[w] = "declare")
                 /\ (step'[w] # "undeclare" => step[w] # "undeclare")
              \/ step[w] = "call" /\ step'[w] = "declare"
<1>1. /\ index'[w] = index[w]
      /\ \/ step[w] \in Declared /\ (step'[w] = "declare" => step[w] = "declare")
            /\ (step'[w] # "undeclare" => step[w] # "undeclare")
         \/ step[w] = "call" /\ step'[w] = "declare"
  <2>1. CASE ~Moves(w)
    BY <2>1 DEF Moves
  <2>2. CASE Moves(w)
    BY <2>2, CctorMoves DEF StartsJob, Checks, Makes, GoesPast, Within, Leaves, Goes, Declared
  <2> QED
    BY <2>1, <2>2
<1>2. step[w] \in LoopSteps /\ Working(w) /\ Working(w)'
  BY <1>1 DEF Declared, LoopSteps, Working
<1> QED
  BY <1>1, <1>2, ListStays, CctorIn DEF Cctor

LEMMA WaitOthersStep ==
    ASSUME IInv, CctorInv, WaitOthers, [Next]_vars PROVE WaitOthers'
<1> SUFFICES ASSUME NEW w \in CctorWorkers, step'[w] \in Declared
             PROVE  owner'[Cctor(w)'] \notin {None, w}
  BY DEF WaitOthers, Cctor, Cctors
<1>1. owner[Cctor(w)] \notin {None, w}
  BY DeclaredFrom, Declares DEF WaitOthers
<1> QED
  BY <1>1, DeclaredFrom, OwnerStays

-----------------------------------------------------------------------------
(* When nobody can go on.                                                  *)

(* A thread of the cctor stage waits for another: for the method that the  *)
(* other works on, or for a cctor that the other owns.                     *)
Awaits(w, v) ==
    \/ Asleep(w) /\ call[w].op = "synch" /\ Working(v) /\ Job(v) = call[w].method
    \/ step[w] = "wait" /\ Cctor(w) \notin executionDone /\ owner[Cctor(w)] = v

WaitingCycle ==
    \E W \in SUBSET CctorWorkers : W # {} /\ \A w \in W : \E v \in W : Awaits(w, v)

(* A thread is stopped by a bound of the model, which the code has not:    *)
(* there is no ticket left, or no thread of the cctor stage.               *)
AtBound ==
    \/ ~FreeTicket /\ \E a \in Threads : Holds(a, "insert")
    \/ ~RoomToWait /\ \/ \E a \in Threads : Holds(a, "sleep")
                      \/ \E w \in CctorWorkers : step[w] = "declare"

BInv == MInv /\ MutexHeld /\ OthersAsync /\ WaitOthers

Stuck == ~CanGoOn /\ ~AtBound /\ ~PipelineEmpty /\ ~\E w \in CctorWorkers : Forgotten(w)

LEMMA StuckCalls ==
    ASSUME IInv, BInv, Stuck
    PROVE  /\ mutex = None
           /\ \A a \in Threads : Idle(a) \/ Asleep(a)
           /\ \A a \in Threads \ (Callers \cup CctorWorkers) : Idle(a)
<1>1. mutex = None
  <2>1. ASSUME mutex = Reaper PROVE FALSE
    BY <2>1 DEF Stuck, IInv, ReaperHolds
  <2>2. ASSUME mutex \in Threads PROVE FALSE
    <3>1. call[mutex].pc \in Keeping /\ ~CallerGoesOn(mutex)
      BY <2>2 DEF BInv, MutexHeld, Stuck, CanGoOn
    <3> QED
      BY <2>2, <3>1 DEF Keeping, CallerGoesOn, Holds, Stuck, AtBound
  <2> QED
    BY <2>1, <2>2 DEF IInv, TypeShared
<1>2. ASSUME NEW a \in Threads PROVE Idle(a) \/ Asleep(a)
  <2>1. call[a] \in Calls /\ call[a].pc \notin Keeping /\ ~CallerGoesOn(a) /\ a # None
    BY <1>1, MethodIsNotNone DEF IInv, CallsOK, CallsHold, Keeping, Stuck, CanGoOn
  <2> QED
    BY <1>1, <2>1 DEF CallerGoesOn, Calls, Keeping, Idle, Asleep
<1>3. ASSUME NEW a \in Threads \ (Callers \cup CctorWorkers) PROVE Idle(a)
  BY <1>2 DEF BInv, OthersAsync, Asleep, Idle, IInv, CallsOK, CallOK
<1> QED
  BY <1>1, <1>2, <1>3

LEMMA StuckWorkers ==
    ASSUME IInv, BInv, Stuck
    PROVE  /\ \A w \in Workers \ CctorWorkers : step[w] = "idle"
           /\ \A s \in Stages \ {"cctor"}, h \in Classes : queue[<<s, h>>] = {}
           /\ \A w \in CctorWorkers :
                \/ step[w] = "idle" \/ Asleep(w)
                \/ step[w] = "wait" /\ Cctor(w) \notin executionDone
<1>1. ASSUME NEW w \in Workers \ CctorWorkers PROVE step[w] = "idle"
  <2>1. Idle(w) /\ ~WorkerGoesOn(w)
    BY StuckCalls, WorkerShape, NamesAssumption DEF Stuck, CanGoOn
  <2>2. step[w] \in StepsOf(w[1]) /\ w[1] \in Stages \ {"cctor"}
    BY WorkerShape DEF IInv, StepsAgree
  <2>3. step[w] \notin {"declare", "wait", "destroy"}
    BY <2>2 DEF StepsOf, Stages
  <2> QED
    BY <2>1, <2>3 DEF WorkerGoesOn
<1>2. ASSUME NEW s \in Stages \ {"cctor"}, NEW h \in Classes PROVE queue[<<s, h>>] = {}
  <2> DEFINE w == <<s, h, 1>>
  <2>1. w \in Workers \ CctorWorkers
    BY DEF Workers, CctorWorkers
  <2>2. ~WorkerGoesOn(w) /\ step[w] = "idle" /\ Started(w)
    BY <1>1, <2>1 DEF Stuck, CanGoOn, Started
  <2>3. ~(queue[<<w[1], w[2]>>] # {})
    <3> HIDE DEF w
    <3> QED
      BY <2>2 DEF WorkerGoesOn
  <2> QED
    BY <2>3
<1>3. ASSUME NEW w \in CctorWorkers, step[w] # "idle", ~Asleep(w)
      PROVE  step[w] = "wait" /\ Cctor(w) \notin executionDone
  <2>1. Idle(w) /\ ~WorkerGoesOn(w) /\ mutex = None
    BY <1>3, StuckCalls, WorkerShape DEF Stuck, CanGoOn
  <2> QED
    BY <1>3, <2>1 DEF WorkerGoesOn, Stuck, AtBound
<1> QED
  BY <1>1, <1>2, <1>3

(* A ticket in a queue can only be in one of the cctor stage, and a        *)
(* method in hand is compiled.                                             *)
LEMMA StuckPlaces ==
    ASSUME IInv, BInv, Stuck, NEW t \in Tickets, Live(t)
    PROVE  /\ methodState[method[t]] \in Compiled
           /\ \/ \E h \in Classes : t \in queue[<<"cctor", h>>]
              \/ \E v \in CctorWorkers : Working(v) /\ hand[v] = t
<1>1. CASE inPipe[t] # None
  <2>1. inPipe[t] \in Stages /\ \E h \in Classes : inHigh[t] = (h = "high")
    BY <1>1 DEF IInv, TypeTickets, Classes
  <2>2. PICK h \in Classes : t \in queue[<<inPipe[t], h>>]
    BY <2>1 DEF IInv, Queued
  <2>3. inPipe[t] = "cctor"
    BY <2>1, <2>2, StuckWorkers
  <2> QED
    BY <2>2, <2>3 DEF BInv, MInv, LateCompiled
<1>2. CASE inPipe[t] = None
  <2>1. PICK v \in Workers : Working(v) /\ hand[v] = t
    BY <1>2 DEF IInv, Placed
  <2>2. v \in CctorWorkers /\ v[1] = "cctor"
    BY <2>1, StuckWorkers, WorkerShape DEF Working
  <2>3. methodState[Job(v)] \in LateAt("cctor", step[v])
    BY <2>1, <2>2 DEF BInv, MInv, LateCompiled
  <2> QED
    BY <2>1, <2>2, <2>3 DEF LateAt, Compiled, Job
<1> QED
  BY <1>1, <1>2

LEMMA StuckSleepers ==
    ASSUME IInv, CctorInv, BInv, Stuck, NEW w \in CctorWorkers, Asleep(w)
    PROVE  call[w].op = "synch" /\ Live(call[w].ticket) /\ method[call[w].ticket] = call[w].method
<1>1. /\ w \in Threads /\ CallOK(call[w]) /\ call[w].pc = "asleep" /\ ~Forgotten(w)
      /\ call[w].op \in {"synch", "machineCode"}
  <2>1. w \in Threads /\ CallOK(call[w]) /\ call[w].pc = "asleep" /\ ~Forgotten(w)
    BY WorkerShape DEF IInv, CallsOK, Asleep, Stuck
  <2> QED
    BY <2>1 DEF CallOK, CctorInv, WaitersNeed
<1>2. Live(call[w].ticket) /\ method[call[w].ticket] = call[w].method
  BY <1>1 DEF Forgotten
<1>3. call[w].ticket \in Tickets
  BY <1>1 DEF CallOK
<1>4. call[w].op # "machineCode"
  <2>1. ASSUME call[w].op = "machineCode" PROVE FALSE
    <3>1. methodState[call[w].method] \in Compiled
      BY <1>2, <1>3, StuckPlaces
    <3>2. ~AtStep(call[w].ticket, {"mcNotify"})
      BY StuckWorkers, StageOfStep, WorkerShape DEF AtStep, InHand
    <3> QED
      BY <1>1, <2>1, <3>1, <3>2 DEF Forgotten, Compiled
  <2> QED
    BY <2>1
<1> QED
  BY <1>1, <1>2, <1>4

(* The idle thread that each class of the cctor stage keeps finds nothing. *)
LEMMA StuckHands ==
    ASSUME IInv, CctorInv, UncountedFree, BInv, Stuck, NEW t \in Tickets, Live(t)
    PROVE  \E v \in CctorWorkers : Working(v) /\ hand[v] = t
<1>1. ASSUME NEW h \in Classes PROVE queue[<<"cctor", h>>] = {}
  <2>1. PICK w \in CctorWorkers : w[2] = h /\ Started(w) /\ ~Counted(w)
    BY DEF UncountedFree
  <2>2. step[w] = "idle"
    BY <2>1, StuckWorkers, StuckSleepers DEF Counted, Asleep
  <2>3. ~WorkerGoesOn(w) /\ w[1] = "cctor"
    BY WorkerShape DEF Stuck, CanGoOn
  <2> QED
    BY <2>1, <2>2, <2>3 DEF WorkerGoesOn
<1> QED
  BY <1>1, StuckPlaces

LEMMA StuckWait ==
    ASSUME IInv, CctorInv, UncountedFree, BInv, Stuck PROVE WaitingCycle
<1> DEFINE W == {w \in CctorWorkers : Working(w)}
<1>1. W # {}
  <2>1. PICK m \in Methods : methodsInPipe[m] # None
    BY DEF Stuck, PipelineEmpty
  <2>2. methodsInPipe[m] \in Tickets /\ Live(methodsInPipe[m])
    BY <2>1 DEF IInv, TypeTickets, TicketsNamed, Live
  <2> QED
    BY <2>2, StuckHands
<1>2. ASSUME NEW w \in W PROVE \E v \in W : Awaits(w, v)
  <2>1. CASE Asleep(w)
    <3>1. /\ call[w].op = "synch" /\ Live(call[w].ticket)
          /\ method[call[w].ticket] = call[w].method
      BY <2>1, StuckSleepers
    <3>2. call[w].ticket \in Tickets
      BY <3>1 DEF Live, IInv, TypeTickets
    <3>3. PICK v \in CctorWorkers : Working(v) /\ hand[v] = call[w].ticket
      BY <3>1, <3>2, StuckHands
    <3> QED
      BY <2>1, <3>1, <3>3 DEF Awaits, Job
  <2>2. CASE ~Asleep(w)
    <3>1. step[w] = "wait" /\ Cctor(w) \notin executionDone
      BY <2>2, StuckWorkers DEF Working
    <3>2. owner[Cctor(w)] # None /\ Cctor(w) \in Methods
      BY <3>1, CctorIn DEF BInv, WaitOthers, Declared, LoopSteps
    <3>3. owner[Cctor(w)] \in CctorWorkers /\ step[owner[Cctor(w)]] \in LoopSteps
      BY <3>1, <3>2 DEF CctorInv, OwnersAhead, Ahead
    <3> QED
      BY <3>1, <3>3 DEF Awaits, Working, LoopSteps
  <2> QED
    BY <2>1, <2>2
<1> QED
  BY <1>1, <1>2 DEF WaitingCycle

LEMMA NextBInv == IInv /\ CctorInv /\ BInv /\ [Next]_vars => BInv'
  BY NextMInv, MutexHeldStep, OthersAsyncStep, WaitOthersStep DEF BInv

LEMMA InitBInv == Init => BInv
<1> SUFFICES ASSUME Init PROVE BInv
  OBVIOUS
<1>1. MutexHeld /\ OthersAsync
  BY MethodIsNotNone DEF Init, MutexHeld, OthersAsync, NoCall
<1>2. WaitOthers
  BY WorkerShape DEF Init, WaitOthers, Declared
<1> QED
  BY <1>1, <1>2, InitMInv DEF BInv

(* What holds of every state of the pipeline while it may get stuck: the   *)
(* machine code of its methods, who holds its mutex, who can be in a call  *)
(* of insertMethod, and that a cctor's owner does not wait for it.         *)
THEOREM BlockingInvariance == Spec => []BInv
<1>1. Init => BInv
  BY InitBInv
<1>2. IInv /\ CctorInv /\ BInv /\ [Next]_vars => BInv'
  BY NextBInv
<1> QED
  BY <1>1, <1>2, Invariance, CctorInvariance, PTL DEF Spec

(* A wait for machine code that was not forgotten ends with what an earlier*)
(* stage does: with the compilation, or with the notification after it.    *)
LEMMA MachineCodeComesEarlier ==
    ASSUME IInv, MInv, NEW w \in CctorWorkers, Asleep(w), call[w].op = "machineCode"
    PROVE  AwaitsEarlierStage(w)
<1> DEFINE t == call[w].ticket
<1> SUFFICES ASSUME ~Forgotten(w)
             PROVE  Live(t) /\ method[t] = call[w].method /\ InEarlierStage(t)
  BY DEF AwaitsEarlierStage
<1>1. /\ Live(t) /\ method[t] = call[w].method
      /\ methodState[method[t]] \notin Compiled \/ AtStep(t, {"mcNotify"})
  BY DEF Forgotten, Asleep, Compiled
<1>2. t \in Tickets /\ w \in Threads
  BY <1>1, WorkerShape DEF Live, IInv, TypeTickets
<1>3. CASE AtStep(t, {"mcNotify"})
  <2>1. PICK v \in InHand(t) : step[v] = "mcNotify"
    BY <1>3 DEF AtStep
  <2>2. v \in Workers /\ v[1] \in Stages \ {"cctor"}
    BY <2>1, WorkerShape, StageOfStep DEF InHand, Stages
  <2> QED
    BY <1>1, <2>1, <2>2 DEF InEarlierStage
<1>4. CASE methodState[method[t]] \notin Compiled /\ inPipe[t] # None
  <2>1. inPipe[t] \in Stages \ {"cctor"}
    BY <1>2, <1>4 DEF IInv, TypeTickets, MInv, LateCompiled
  <2> QED
    BY <1>1, <2>1 DEF InEarlierStage
<1>5. CASE methodState[method[t]] \notin Compiled /\ inPipe[t] = None
  <2>1. PICK v \in Workers : Working(v) /\ hand[v] = t
    BY <1>1, <1>2, <1>5 DEF IInv, Placed
  <2>2. v[1] \in Stages /\ v \in InHand(t)
    BY <2>1, WorkerShape DEF InHand, Working
  <2>3. v[1] # "cctor"
    BY <1>5, <2>1 DEF MInv, LateCompiled, LateAt, Job, Compiled
  <2> QED
    BY <1>1, <2>2, <2>3 DEF InEarlierStage
<1> QED
  BY <1>1, <1>3, <1>4, <1>5

(* However many threads of the cctor stage wait, each of its queues keeps  *)
(* one that does not, or that waits for machine code from an earlier stage *)
(* or lost its notification: what the others wait for can be compiled and  *)
(* run (internal_decreaseSteadyCCTORThreads, and the wait at               *)
(* translation_pipeline_parallel.c:553 that does without it).              *)
THEOREM CctorThreadAlwaysFree == Spec => []CctorThreadFree
<1>1. ASSUME IInv, BInv, UncountedFree PROVE CctorThreadFree
  <2> SUFFICES ASSUME NEW h \in Classes
               PROVE  \E w \in CctorWorkers :
                        w[2] = h /\ Started(w) /\ (~Blocked(w) \/ AwaitsEarlierStage(w))
    BY DEF CctorThreadFree
  <2>1. PICK w \in CctorWorkers : w[2] = h /\ Started(w) /\ ~Counted(w)
    BY <1>1 DEF UncountedFree
  <2>2. Blocked(w) => Asleep(w) /\ call[w].op = "machineCode"
    BY <2>1 DEF Blocked, Counted, Asleep
  <2>3. Blocked(w) => AwaitsEarlierStage(w)
    BY <1>1, <2>2, MachineCodeComesEarlier DEF BInv
  <2> QED
    BY <2>1, <2>3
<1>2. IInv /\ BInv /\ UncountedFree => CctorThreadFree
  BY <1>1
<1> QED
  BY <1>2, Invariance, BlockingInvariance, UncountedThreadFree, PTL

(* Only a cycle of waiting threads stops the pipeline: each sleeps in      *)
(* insertMethod until a method is compiled, or waits for a cctor to run,   *)
(* that another of them has.                                               *)
THEOREM OnlyCyclesBlock == Spec => [](NeverStuck \/ WaitingCycle \/ AtBound)
<1>1. IInv /\ CctorInv /\ UncountedFree /\ BInv => NeverStuck \/ WaitingCycle \/ AtBound
  BY StuckWait DEF Stuck, NeverStuck
<1> QED
  BY <1>1, Invariance, CctorInvariance, UncountedThreadFree, BlockingInvariance, PTL

-----------------------------------------------------------------------------
(* What a worker that waits for another has registered.                    *)

(* It waits for the end of a compilation, or goes to.                      *)
EndAwaited(w) == call[w].op = "synch" /\ call[w].pc # "enter"

AtWork == {"check", "link", "unregister"} \cup LoopSteps

OwnersCompile == \A w \in CctorWorkers : call[w].op # "none" => owner[call[w].method] = w

RunOwned == \A w \in CctorWorkers : step[w] \in Running => owner[Cctor(w)] = w

WaitsKnown ==
    \A w \in CctorWorkers :
        /\ EndAwaited(w) => waits[w] = call[w].method
        /\ step[w] \in Declared => waits[w] = Cctor(w)

(* The translator of a method that is waited for is the worker that has it.*)
TranslatorKnown ==
    \A w, v \in CctorWorkers :
        EndAwaited(w) /\ Job(v) = call[w].method /\ step[v] \in AtWork =>
            translator[Job(v)] = v

KInv == OwnersCompile /\ RunOwned /\ WaitsKnown /\ TranslatorKnown

(* What becomes of the call of a worker of the cctor stage.                *)
LEMMA WorkersCallKinds ==
    ASSUME IInv, CctorInv, [Next]_vars, NEW u \in CctorWorkers
    PROVE  \/ call'[u] = call[u]
           \/ /\ MakeExecutable(u) /\ Idle(u) /\ Cctor(u) \in Methods
              /\ call'[u].method = Cctor(u) /\ call'[u].pc = "enter"
           \/ EnterSynch(u) /\ call[u].op # "none" /\ call'[u].method = call[u].method
           \/ /\ ~Idle(u) /\ call[u].pc # "enter" /\ call'[u].pc # "enter"
              /\ call'[u].op = call[u].op /\ call'[u].method = call[u].method
           \/ call'[u].op = "none"
<1>1. /\ u \in Threads /\ u \in Workers /\ call[u] \in Calls /\ CallOK(call[u])
      /\ call[u].op = "none" <=> Idle(u)
  BY WorkerShape DEF IInv, CallsOK, CallOK, Idle
<1>2. call[u].op # "none" => call[u].op \in {"synch", "machineCode"}
  BY DEF CctorInv, WaitersNeed
<1>5. CASE Begins(u)
  <2>1. u \notin Callers /\ todo[u] = {}
    BY <1>1, NamesAssumption DEF IInv, WorkersCall
  <2>2. MakeExecutable(u) /\ call'[u].op = "synch" /\ call'[u].method = Cctor(u)
    BY <1>5, <2>1, ProgramAssumption DEF Begins, RequestSet
  <2>3. call'[u].pc = "enter" /\ Idle(u)
    BY <1>5 DEF Begins, Starts
  <2>4. Working(u) /\ step[u] \in LoopSteps
    BY <2>2 DEF MakeExecutable, CctorStep, At, Working, LoopSteps
  <2> QED
    BY <2>2, <2>3, <2>4, CctorIn
<1>6. CASE Woken(u)
  <2>1. Continues(u, call[u], {"signalled"}) /\ ~Idle(u) /\ call[u].pc # "enter"
    BY <1>1, <1>6, PcCall DEF Woken, Asleep, Idle
  <2> QED
    BY <2>1 DEF Continues
<1>7. CASE InsertMethod(u)
  <2>1. CASE EnterInsert(u) \/ EnterSynch(u)
    <3>1. call[u].pc = "enter" /\ call[u].op \in {"async", "tillIR", "synch"}
      BY <1>1, <2>1, EntersCall
    <3>2. ~Idle(u) /\ call[u].op = "synch"
      BY <1>1, <1>2, <3>1 DEF Idle
    <3>3. EnterSynch(u)
      BY <2>1, <3>2 DEF EnterInsert
    <3> QED
      BY <1>1, <2>1, <3>2, <3>3, EntersCall DEF NoCall
  <2>2. CASE ~EnterInsert(u) /\ ~EnterSynch(u)
    <3>1. CASE call'[u] = NoCall
      BY <3>1 DEF NoCall
    <3>2. CASE call'[u] # NoCall
      <4>1. call'[u].op = call[u].op /\ call'[u].method = call[u].method /\ call'[u].pc \in Later
        BY <1>1, <1>7, <2>2, <3>2, GoesOnCall
      <4>2. call'[u].pc # "enter"
        BY <4>1 DEF Later
      <4>3. CASE call[u].op = "none"
        BY <4>1, <4>3
      <4>4. CASE call[u].op # "none" /\ call[u].pc # "enter"
        BY <1>1, <4>1, <4>2, <4>4
      <4>5. CASE call[u].op # "none" /\ call[u].pc = "enter"
        <5>1. call[u].op \in {"synch", "machineCode"}
          BY <1>2, <4>5
        <5> QED
          BY <1>7, <2>2, <4>5, <5>1 DEF InsertMethod, JoinTicket, ChangePriority, SendToScheduler,
             InsertNew, GoToSleep, WakeUp, LinkWaited, WaitEmptyPipeline, Holds
      <4> QED
        BY <4>3, <4>4, <4>5
    <3> QED
      BY <3>1, <3>2
  <2> QED
    BY <2>1, <2>2
<1> QED
  BY <1>1, <1>5, <1>6, <1>7, CallKinds

(* A cctor's owner that inserts it finds no cycle unless it is in the      *)
(* pipeline: the search starts at the owner.                               *)
LEMMA EntersFree ==
    ASSUME IInv, CctorInv, KInv, NEW w \in CctorWorkers, EnterSynch(w), call'[w].op = "synch"
    PROVE  /\ call[w].method \in Methods /\ methodsInPipe[call[w].method] = None
           /\ waits' = [waits EXCEPT ![w] = call[w].method]
<1> DEFINE m == call[w].method
<1>1. /\ w \in Threads /\ w # None /\ m \in Methods /\ call[w].op = "synch"
      /\ call \in [Threads -> Calls]
  <2>1. w \in Threads /\ w # None
    BY WorkerShape
  <2>2. call[w].op = "synch" /\ call[w].pc = "enter"
    BY DEF EnterSynch
  <2> QED
    BY <2>1, <2>2 DEF IInv, CallsOK, CallOK
<1>2. owner[m] = w
  BY <1>1 DEF KInv, OwnersCompile
<1>3. StaticMemory!LeadsToADeadlock(w, m)
  <2>1. PICK g :
          /\ g[0] = StaticMemory!FirstWaited(m)
          /\ (StaticMemory!LeadsToADeadlock(w, m) <=>
                \E k \in 0 .. Cardinality(Threads) : g[k] = w)
    <3> HIDE DEF m
    <3> QED
      BY <1>1, SearchSteps DEF IInv
  <2>2. g[0] = w
    BY <1>1, <1>2, <2>1 DEF StaticMemory!FirstWaited
  <2>3. 0 \in 0 .. Cardinality(Threads)
    BY FiniteThreads
  <2> QED
    BY <2>1, <2>2, <2>3
<1>4. methodState[m] # "EXECUTABLE"
  <2>1. ASSUME methodState[m] = "EXECUTABLE" PROVE call' = [call EXCEPT ![w] = NoCall]
    BY <2>1 DEF EnterSynch, Return
  <2> QED
    BY <1>1, <2>1 DEF NoCall
<1>5. IsCctorThread(w)
  BY DEF IsCctorThread
<1>6. methodsInPipe[m] = None
  <2>1. ASSUME methodsInPipe[m] # None
        PROVE  call'[w].op = "machineCode"
    <3>1. call' = [call EXCEPT ![w].pc = "insert", ![w].state = methodState[m],
                               ![w].op = "machineCode"]
      BY <1>3, <1>4, <1>5, <2>1 DEF EnterSynch
    <3> QED
      BY <1>1, <3>1 DEF Calls
  <2> QED
    BY <2>1
<1>7. waits' = [waits EXCEPT ![w] = m]
  BY <1>4, <1>5, <1>6 DEF EnterSynch, StaticMemory!RegisterCompilationNeeded
<1> QED
  BY <1>1, <1>6, <1>7

(* A worker waits for the end of a compilation after a step: it did before,*)
(* or inserts a method that nobody works on.                               *)
LEMMA EndAwaitedFrom ==
    ASSUME IInv, CctorInv, KInv, [Next]_vars, NEW w \in CctorWorkers, EndAwaited(w)'
    PROVE  \/ ~Idle(w) /\ EndAwaited(w) /\ call'[w].method = call[w].method
           \/ /\ EnterSynch(w) /\ call[w].method \in Methods
              /\ call'[w].method = call[w].method /\ methodsInPipe[call[w].method] = None
              /\ waits' = [waits EXCEPT ![w] = call[w].method]
              /\ UNCHANGED <<step, hand, method>>
<1>1. CASE call'[w] = call[w]
  <2>1. call[w].op # "none" /\ CallOK(call[w])
    BY <1>1, WorkerShape DEF EndAwaited, IInv, CallsOK
  <2> QED
    BY <1>1, <2>1 DEF EndAwaited, CallOK, Idle
<1>2. CASE EnterSynch(w) /\ call'[w].method = call[w].method
  <2>1. UNCHANGED <<step, hand, method>>
    BY <1>2 DEF EnterSynch, workerVars, ticketVars
  <2>2. /\ call[w].method \in Methods /\ methodsInPipe[call[w].method] = None
        /\ waits' = [waits EXCEPT ![w] = call[w].method]
    BY <1>2, EntersFree DEF EndAwaited
  <2> QED
    BY <1>2, <2>1, <2>2
<1>3. CASE /\ ~Idle(w) /\ call[w].pc # "enter" /\ call'[w].pc # "enter"
           /\ call'[w].op = call[w].op /\ call'[w].method = call[w].method
  BY <1>3 DEF EndAwaited
<1> QED
  BY <1>1, <1>2, <1>3, WorkersCallKinds DEF EndAwaited

LEMMA OwnersCompileStep ==
    ASSUME IInv, CctorInv, KInv, [Next]_vars PROVE OwnersCompile'
<1> SUFFICES ASSUME NEW w \in CctorWorkers, call'[w].op # "none"
             PROVE  owner'[call'[w].method] = w
  BY DEF OwnersCompile
<1>1. w \in Threads /\ w \in Workers /\ w # None /\ CallOK(call[w])
  BY WorkerShape DEF IInv, CallsOK
<1>2. CASE call[w].op # "none" /\ call'[w].method = call[w].method
  <2>1. call[w].method \in Methods
    BY <1>1, <1>2 DEF CallOK
  <2> QED
    BY <1>1, <1>2, <2>1, OwnerStays DEF KInv, OwnersCompile
<1>3. CASE MakeExecutable(w) /\ Idle(w) /\ Cctor(w) \in Methods /\ call'[w].method = Cctor(w)
  <2>1. CASE owner[Cctor(w)] = None
    <3>1. owner' = [owner EXCEPT ![Cctor(w)] = w]
      BY <1>3, <2>1 DEF MakeExecutable, StaticMemory!InitializationLockFree,
         StaticMemory!TakeInitializationLock
    <3> QED
      BY <1>3, <3>1 DEF IInv, StaticMemory!SMTypeOK
  <2>2. CASE owner[Cctor(w)] # None
    <3>1. call' = call
      BY <1>3, <2>2 DEF MakeExecutable, StaticMemory!InitializationLockFree
    <3> QED
      BY <1>1, <1>3, <3>1 DEF CallOK, Idle
  <2> QED
    BY <2>1, <2>2
<1> QED
  BY <1>1, <1>2, <1>3, WorkersCallKinds DEF CallOK, Idle

LEMMA RunsOwn ==
    ASSUME IInv, CctorInv, [Next]_vars, NEW w \in CctorWorkers,
           step[w] = "call", step'[w] = "register"
    PROVE  owner[Cctor(w)] = w
<1>1. w \in Workers /\ w \in Threads /\ step \in [Workers -> Steps]
  BY WorkerShape DEF IInv, TypeWorkers
<1>2. CallCctor(w)
  <2>1. ~Take(w) /\ ~Complete(w)
    BY DEF Take, FirstIdle, Complete, LinkMethod, UnregisterMethod, Publish,
       NotifyCompilationEnd, DestroyTicket, RemoveTicket, EndCctorJob, CctorStep, At
  <2>2. RunCctors(w)
    BY <2>1, WorkerKinds DEF Moves
  <2> QED
    BY <2>2 DEF RunCctors, StartCctorJob, CheckCctors, MakeExecutable, RegisterRunner,
       UnregisterRunner, EndOfCctor, DeclareWaiting, EndOfWait, UndeclareWaiting, CctorStep, At
<1>3. ~NextCctor(w, "call", "link")
  BY <1>1 DEF NextCctor
<1>4. ~GoOn(w, "declare")
  BY <1>1 DEF GoOn
<1> QED
  BY <1>2, <1>3, <1>4 DEF CallCctor, StaticMemory!MayExecute

LEMMA RunOwnedStep ==
    ASSUME IInv, CctorInv, KInv, [Next]_vars PROVE RunOwned'
<1> SUFFICES ASSUME NEW w \in CctorWorkers, step'[w] \in Running
             PROVE  owner'[Cctor(w)'] = w
  BY DEF RunOwned, Cctor, Cctors
<1>1. index'[w] = index[w] /\ (step[w] \in Running \/ (step[w] = "call" /\ step'[w] = "register"))
  <2>1. CASE ~Moves(w)
    BY <2>1 DEF Moves
  <2>2. CASE Moves(w)
    BY <2>2, CctorMoves DEF StartsJob, Checks, Makes, GoesPast, Within, Leaves, Goes, Running
  <2> QED
    BY <2>1, <2>2
<1>2. step[w] \in LoopSteps /\ Working(w) /\ Working(w)'
  BY <1>1 DEF Running, LoopSteps, Working
<1>3. Cctor(w)' = Cctor(w) /\ Cctor(w) \in Methods
  BY <1>1, <1>2, ListStays, CctorIn DEF Cctor
<1>4. owner[Cctor(w)] = w
  BY <1>1, RunsOwn DEF KInv, RunOwned
<1> QED
  BY <1>3, <1>4, WorkerShape, OwnerStays

LEMMA WaitsKnownStep ==
    ASSUME IInv, CctorInv, KInv, [Next]_vars PROVE WaitsKnown'
<1> SUFFICES ASSUME NEW w \in CctorWorkers
             PROVE  /\ EndAwaited(w)' => waits'[w] = call'[w].method
                    /\ step'[w] \in Declared => waits'[w] = Cctor(w)'
  BY DEF WaitsKnown, Cctor, Cctors
<1>1. /\ w \in Threads /\ w \in Workers /\ CallOK(call[w])
      /\ waits \in [Threads -> Methods \cup {None}]
  BY WorkerShape DEF IInv, CallsOK, StaticMemory!SMTypeOK
<1>2. \/ waits'[w] = waits[w] \/ EnterSynch(w) \/ WakeUp(w) \/ CallCctor(w) \/ UndeclareWaiting(w)
  <2>1. ASSUME NEW a \in Threads, EnterSynch(a) \/ WakeUp(a), a # w PROVE waits'[w] = waits[w]
    BY <1>1, <2>1 DEF EnterSynch, WakeUp, StaticMemory!RegisterCompilationNeeded,
       StaticMemory!RegisterCompilationDone
  <2>2. ASSUME NEW u \in Workers, CallCctor(u) \/ UndeclareWaiting(u), u # w
        PROVE  waits'[w] = waits[w]
    BY <1>1, <2>2 DEF CallCctor, UndeclareWaiting, StaticMemory!TryDeclaringWaiting,
       StaticMemory!RegisterCompilationNeeded, StaticMemory!RegisterCompilationDone
  <2> QED
    BY <2>1, <2>2, WaitsSteps
<1>3. ASSUME EndAwaited(w)' PROVE waits'[w] = call'[w].method
  <2>1. CASE ~Idle(w) /\ EndAwaited(w) /\ call'[w].method = call[w].method
    <3>1. ~EnterSynch(w) /\ ~CallCctor(w) /\ ~UndeclareWaiting(w)
      BY <2>1 DEF EndAwaited, EnterSynch, CallCctor, UndeclareWaiting, CctorStep
    <3>2. ~WakeUp(w)
      <4>1. ASSUME WakeUp(w) PROVE call' = [call EXCEPT ![w] = NoCall]
        BY <2>1, <4>1 DEF WakeUp, Return, EndAwaited
      <4> QED
        BY <1>1, <1>3, <4>1 DEF NoCall, EndAwaited, IInv, CallsOK
    <3> QED
      BY <1>2, <2>1, <3>1, <3>2 DEF KInv, WaitsKnown
  <2>2. CASE /\ call'[w].method = call[w].method
             /\ waits' = [waits EXCEPT ![w] = call[w].method]
    BY <1>1, <2>2
  <2> QED
    BY <1>3, <2>1, <2>2, EndAwaitedFrom
<1>4. ASSUME step'[w] \in Declared PROVE waits'[w] = Cctor(w)'
  <2>1. CASE step[w] \in Declared
    <3>1. Idle(w)
      BY <2>1 DEF IInv, WorkersCall, Declared
    <3>2. ~EnterSynch(w) /\ ~WakeUp(w) /\ ~CallCctor(w)
      BY <2>1, <3>1 DEF Idle, EnterSynch, WakeUp, CallCctor, CctorStep, At, Declared
    <3>3. ~UndeclareWaiting(w)
      <4>1. ASSUME UndeclareWaiting(w) PROVE step'[w] \in {"call", "link"}
        <5>1. step[w] = "undeclare" /\ NextCctor(w, "call", "link")
          BY <4>1 DEF UndeclareWaiting, CctorStep, At
        <5> QED
          BY <5>1, NextCctorGoes DEF Goes, LoopSteps
      <4> QED
        BY <1>4, <4>1 DEF Declared
    <3> QED
      BY <1>2, <1>4, <2>1, <3>2, <3>3, DeclaredFrom DEF KInv, WaitsKnown
  <2>2. CASE step[w] = "call" /\ step'[w] = "declare"
    BY <1>1, <1>4, <2>2, Declares, DeclaredFrom
  <2> QED
    BY <1>4, <2>1, <2>2, DeclaredFrom
<1> QED
  BY <1>3, <1>4

(* A worker that is between its first and its last cctor was so before, or *)
(* at the start of its job.                                                *)
LEMMA AtWorkFrom ==
    ASSUME IInv, CctorInv, [Next]_vars, NEW v \in CctorWorkers, step'[v] \in AtWork
    PROVE  /\ Working(v) /\ Working(v)' /\ Job(v)' = Job(v)
           /\ step[v] \in AtWork \/ (step[v] = "job" /\ StartsJob(v))
<1>1. step[v] \in AtWork \/ (step[v] = "job" /\ StartsJob(v))
  <2>1. CASE ~Moves(v)
    BY <2>1 DEF Moves
  <2>2. CASE Moves(v)
    BY <2>2, CctorMoves DEF StartsJob, Checks, Makes, GoesPast, Within, Leaves, Goes, AtWork,
       LoopSteps
  <2> QED
    BY <2>1, <2>2
<1>2. Working(v) /\ Working(v)'
  BY <1>1 DEF Working, AtWork, LoopSteps
<1> QED
  BY <1>1, <1>2, ListStays

(* No two workers work on the same method.                                 *)
LEMMA OneAtWork ==
    ASSUME IInv, NEW u \in CctorWorkers, NEW v \in CctorWorkers,
           Working(u), Working(v), Job(u) = Job(v)
    PROVE  u = v
<1>1. u \in Workers /\ v \in Workers
  BY WorkerShape
<1>2. hand[u] \in Tickets /\ Live(hand[u])
  BY <1>1, JobIs
<1>3. hand[u] = hand[v]
  BY <1>1, <1>2, OthersMethod DEF Job
<1> QED
  BY <1>1, <1>3, HandInPlace DEF IInv, InHands

LEMMA TranslatorKnownStep ==
    ASSUME IInv, CctorInv, KInv, [Next]_vars PROVE TranslatorKnown'
<1> SUFFICES ASSUME NEW w \in CctorWorkers, NEW v \in CctorWorkers,
                    EndAwaited(w)', Job(v)' = call'[w].method, step'[v] \in AtWork
             PROVE  translator'[Job(v)'] = v
  BY DEF TranslatorKnown, Job
<1> DEFINE m == Job(v)
<1>1. /\ Working(v) /\ m \in Methods /\ methodsInPipe[m] # None /\ v # None
      /\ v \in Workers /\ w \in Threads
  <2>1. Working(v) /\ v \in Workers
    BY AtWorkFrom, WorkerShape
  <2>2. hand[v] \in Tickets /\ m \in Methods /\ methodsInPipe[m] = hand[v]
    BY <2>1, JobIs
  <2> QED
    BY <2>1, <2>2, WorkerShape, NamesAssumption
<1>2. m = Job(v)'
  BY AtWorkFrom
<1>3. /\ ~Idle(w) /\ EndAwaited(w) /\ call[w].method = m /\ step[w] \in {"make", "call"}
  <2>1. ~Idle(w) /\ EndAwaited(w) /\ call'[w].method = call[w].method
    BY <1>1, <1>2, EndAwaitedFrom
  <2> QED
    BY <1>2, <2>1 DEF IInv, WorkersCall
<1>4. owner[m] = w
  BY <1>3, WorkerShape DEF KInv, OwnersCompile, EndAwaited
<1>5. ASSUME NEW u \in CctorWorkers, step[u] = "runRegistered" PROVE Cctor(u) # m
  BY <1>3, <1>4, <1>5 DEF KInv, RunOwned, Running
<1>6. ASSUME NEW u \in CctorWorkers, step[u] \in AtWork, Job(u) = m PROVE u = v
  BY <1>1, <1>6, OneAtWork DEF AtWork, LoopSteps, Working
<1>7. translator \in [Methods -> Threads \cup {None}]
  BY DEF IInv, StaticMemory!SMTypeOK
<1>8. CASE step[v] \in AtWork
  <2>1. translator[m] = v
    BY <1>3, <1>8 DEF KInv, TranslatorKnown
  <2>2. ASSUME NEW u \in Workers, StartCctorJob(u) \/ RegisterRunner(u)
        PROVE  translator'[m] = v
    BY <1>1, <1>7, <2>1, <2>2 DEF StartCctorJob, RegisterRunner, StaticMemory!RegisterTranslator
  <2>3. ASSUME NEW u \in Workers, UnregisterRunner(u)
        PROVE  translator'[m] = v
    <3>1. u \in CctorWorkers /\ step[u] = "runRegistered"
      BY <2>3, WorkerShape DEF UnregisterRunner, CctorStep, At
    <3>2. Cctor(u) # m
      BY <1>5, <3>1
    <3> QED
      BY <1>7, <2>1, <2>3, <3>2 DEF UnregisterRunner, StaticMemory!UnregisterTranslator
  <2>4. ASSUME NEW u \in Workers, UnregisterMethod(u)
        PROVE  translator'[m] = v
    <3>1. u \in CctorWorkers /\ step[u] = "unregister" /\ step' = [step EXCEPT ![u] = "publish"]
      BY <2>4, WorkerShape DEF UnregisterMethod, CctorStep, At, GoOn
    <3>2. u # v
      <4>1. step \in [Workers -> Steps]
        BY DEF IInv, TypeWorkers
      <4>2. "publish" \notin AtWork
        BY DEF AtWork, LoopSteps
      <4> QED
        BY <1>1, <3>1, <4>1, <4>2
    <3>3. Job(u) # m
      BY <1>6, <3>1, <3>2 DEF AtWork
    <3> QED
      BY <1>7, <2>1, <2>4, <3>3 DEF UnregisterMethod, StaticMemory!UnregisterTranslator, Job
  <2> QED
    BY <1>2, <2>1, <2>2, <2>3, <2>4, TranslatorSteps
<1>9. CASE step[v] \notin AtWork
  <2>1. step[v] = "job" /\ StartsJob(v)
    BY <1>9, AtWorkFrom
  <2>2. StartCctorJob(v)
    <3>1. step'[v] # "job"
      BY DEF AtWork, LoopSteps
    <3>2. ~Take(v) /\ ~Complete(v)
      BY <2>1 DEF Take, FirstIdle, Complete, LinkMethod, UnregisterMethod, Publish,
         NotifyCompilationEnd, DestroyTicket, RemoveTicket, EndCctorJob, CctorStep, At
    <3>3. RunCctors(v)
      BY <2>1, <3>1, <3>2, WorkerKinds DEF Moves
    <3> QED
      BY <2>1, <3>3 DEF RunCctors, CheckCctors, MakeExecutable, CallCctor, RegisterRunner,
         UnregisterRunner, EndOfCctor, DeclareWaiting, EndOfWait, UndeclareWaiting, CctorStep, At
  <2>3. translator[m] = None
    <3>1. SUFFICES ASSUME translator[m] # None PROVE FALSE
      OBVIOUS
    <3> DEFINE u == translator[m]
    <3>2. /\ u \in CctorWorkers
          /\ \/ step[u] \in AtWork /\ Job(u) = m
             \/ step[u] = "runRegistered" /\ Cctor(u) = m
      BY <1>1, <3>1 DEF CctorInv, TranslatorsWork, AtWork
    <3> HIDE DEF u
    <3> QED
      BY <1>5, <1>6, <1>9, <3>2
  <2> QED
    BY <1>1, <1>2, <1>7, <2>2, <2>3 DEF StartCctorJob, StaticMemory!RegisterTranslator, Job
<1> QED
  BY <1>8, <1>9

LEMMA NextKInv == IInv /\ CctorInv /\ KInv /\ [Next]_vars => KInv'
  BY OwnersCompileStep, RunOwnedStep, WaitsKnownStep, TranslatorKnownStep DEF KInv

LEMMA InitKInv == Init => KInv
  BY WorkerShape DEF Init, KInv, OwnersCompile, RunOwned, WaitsKnown, TranslatorKnown,
     EndAwaited, AtWork, LoopSteps, Running, Declared, NoCall

-----------------------------------------------------------------------------
(* Programs whose chains of waiting threads can be searched.               *)

(* A worker waits for a cctor to run, or goes to.                          *)
AwaitsRun(w) == step[w] \in {"declare", "wait"} /\ Cctor(w) \notin executionDone

(* What internal_tryDeclaringWaiting relies on when it goes on from a      *)
(* thread that waits for a cctor to run to the translator of this cctor:   *)
(* the owner of the cctor, if it waits at all, waits for its machine code. *)
OwnersWaitForCode ==
    \A w \in CctorWorkers : AwaitsRun(w) =>
        /\ ~AwaitsRun(owner[Cctor(w)])
        /\ EndAwaited(owner[Cctor(w)]) => call[owner[Cctor(w)]].method = Cctor(w)

(* As Awaits, from the time the mutex was taken or the wait declared on.   *)
Pursues(w, v) ==
    \/ EndAwaited(w) /\ Working(v) /\ Job(v) = call[w].method
    \/ AwaitsRun(w) /\ owner[Cctor(w)] = v

Loop(W) == W # {} /\ \A w \in W : \E v \in W : Pursues(w, v)
NoLoop  == \A W \in SUBSET CctorWorkers : ~Loop(W)

(* Who waits is at a cctor of its list.                                    *)
LEMMA PursuerAtWork ==
    ASSUME IInv, NEW w \in CctorWorkers, EndAwaited(w) \/ AwaitsRun(w)
    PROVE  step[w] \in LoopSteps
<1>1. CASE EndAwaited(w)
  <2>1. ~Idle(w)
    BY <1>1, WorkerShape DEF EndAwaited, Idle, IInv, CallsOK, CallOK
  <2> QED
    BY <2>1 DEF IInv, WorkersCall, LoopSteps
<1> QED
  BY <1>1 DEF AwaitsRun, LoopSteps

(* A worker pursues another after a step: it did before, or it has just    *)
(* declared its wait, or the other has just taken a ticket.                *)
LEMMA PursuesFrom ==
    ASSUME IInv, CctorInv, WaitOthers, KInv, [Next]_vars,
           NEW w \in CctorWorkers, NEW v \in CctorWorkers, Pursues(w, v)'
    PROVE  \/ Pursues(w, v)
           \/ ~Working(v) /\ Working(v)'
           \/ /\ step[w] = "call" /\ step'[w] = "declare" /\ AwaitsRun(w)'
              /\ owner[Cctor(w)] = v
<1>1. CASE EndAwaited(w)' /\ Working(v)' /\ Job(v)' = call'[w].method
  <2>1. CASE ~Working(v)
    BY <1>1, <2>1
  <2>2. CASE Working(v)
    <3>1. Job(v)' = Job(v)
      BY <1>1, <2>2, ListStays
    <3>2. /\ v \in Workers /\ Job(v) \in Methods
          /\ hand[v] \in Tickets /\ methodsInPipe[Job(v)] = hand[v]
      BY <2>2, JobIs, WorkerShape
    <3>3. methodsInPipe[Job(v)] # None
      BY <3>2, NamesAssumption
    <3>4. EndAwaited(w) /\ call'[w].method = call[w].method
      BY <1>1, <3>1, <3>3, EndAwaitedFrom
    <3> QED
      BY <1>1, <2>2, <3>1, <3>4 DEF Pursues
  <2> QED
    BY <2>1, <2>2
<1>2. CASE AwaitsRun(w)' /\ owner'[Cctor(w)'] = v
  <2>1. step'[w] \in {"declare", "wait"} /\ Cctor(w)' \notin executionDone'
    BY <1>2 DEF AwaitsRun
  <2>2. /\ Cctor(w)' = Cctor(w) /\ Cctor(w) \in Methods
        /\ \/ step[w] \in {"declare", "wait"}
           \/ step[w] = "call" /\ step'[w] = "declare"
    BY <2>1, DeclaredFrom DEF Declared
  <2>3. Cctor(w) \notin executionDone
    BY <2>1, <2>2, DoneGrows
  <2>4. CASE step[w] \in {"declare", "wait"}
    <3>1. owner[Cctor(w)] # None
      BY <2>4 DEF WaitOthers, Declared
    <3>2. owner[Cctor(w)] = v
      BY <1>2, <2>2, <3>1, OwnerStays
    <3> QED
      BY <2>3, <2>4, <3>2 DEF Pursues, AwaitsRun
  <2>5. CASE step[w] = "call" /\ step'[w] = "declare"
    BY <1>2, <2>2, <2>5, Declares
  <2> QED
    BY <2>2, <2>4, <2>5
<1>3. \/ EndAwaited(w)' /\ Working(v)' /\ Job(v)' = call'[w].method
      \/ AwaitsRun(w)' /\ owner'[Cctor(w)'] = v
  BY DEF Pursues, Job, Cctor, Cctors
<1> QED
  BY <1>1, <1>2, <1>3

(* A worker that has just taken a ticket does not wait.                    *)
LEMMA PursuerStays ==
    ASSUME IInv, IInv', CctorInv, [Next]_vars, NEW w \in CctorWorkers,
           (EndAwaited(w) \/ AwaitsRun(w))'
    PROVE  Working(w)
<1>1. step'[w] \in LoopSteps
  <2>1. CASE EndAwaited(w)'
    <3>1. ~Idle(w)'
      BY <2>1, WorkerShape DEF EndAwaited, Idle, IInv, CallsOK, CallOK
    <3> QED
      BY <3>1 DEF IInv, WorkersCall, LoopSteps
  <2> QED
    BY <2>1 DEF AwaitsRun, LoopSteps
<1> QED
  BY <1>1, AtWorkFrom DEF AtWork

(* One step of the search from a worker of a loop stays in the loop, and   *)
(* follows its waits.  Of one worker only, that has just declared its wait,*)
(* the loop says nothing before.                                           *)
LEMMA SearchInLoop ==
    ASSUME IInv, CctorInv, WaitOthers, KInv, OwnersWaitForCode,
           NEW W \in SUBSET CctorWorkers, NEW w \in W, step[w] = "call",
           \A h \in W \ {w} : \E v \in W : Pursues(h, v),
           \A h \in W \ {w} : AwaitsRun(h) => owner[Cctor(h)] # w,
           NEW h \in W \ {w}
    PROVE  LET n == StaticMemory!NextWaited(h) IN
           /\ n \in W
           /\ Pursues(h, n) \/ \E v \in W \ {w} : Pursues(h, v) /\ Pursues(v, n)
<1> DEFINE n == StaticMemory!NextWaited(h)
<1>1. h \in CctorWorkers /\ h \in Threads /\ h # None
  BY WorkerShape
<1>2. ASSUME NEW v \in W PROVE step[v] \in AtWork
  <2>1. CASE v = w
    BY <2>1 DEF AtWork, LoopSteps
  <2>2. CASE v # w
    BY <1>2, <2>2, PursuerAtWork DEF AtWork, Pursues
  <2> QED
    BY <2>1, <2>2
<1>3. ASSUME NEW u \in W, NEW v \in W, EndAwaited(u), Working(v), Job(v) = call[u].method
      PROVE  translator[Job(v)] = v
  BY <1>2, <1>3 DEF KInv, TranslatorKnown
<1>4. PICK v \in W : Pursues(h, v)
  OBVIOUS
<1>5. CASE EndAwaited(h) /\ Working(v) /\ Job(v) = call[h].method
  <2>1. v \in Workers /\ Job(v) \in Methods
    BY <1>5, WorkerShape, JobIs
  <2>2. waits[h] = Job(v) /\ waits[h] # None
    BY <1>1, <1>5, <2>1, MethodIsNotNone DEF KInv, WaitsKnown
  <2>3. n = v
    BY <1>1, <1>3, <1>5, <2>2 DEF StaticMemory!NextWaited
  <2> QED
    BY <1>4, <2>3
<1>6. CASE AwaitsRun(h) /\ owner[Cctor(h)] = v
  <2> DEFINE c == Cctor(h)
  <2>1. v # w /\ ~AwaitsRun(v) /\ (EndAwaited(v) => call[v].method = c)
    BY <1>1, <1>6 DEF OwnersWaitForCode
  <2>2. PICK u \in W : Pursues(v, u)
    BY <2>1
  <2>3. EndAwaited(v) /\ Working(u) /\ Job(u) = c
    BY <2>1, <2>2 DEF Pursues
  <2>4. u \in Workers /\ c \in Methods /\ c # None
    BY <2>3, WorkerShape, JobIs, MethodIsNotNone
  <2>5. waits[h] = c
    BY <1>1, <1>6 DEF KInv, WaitsKnown, AwaitsRun, Declared
  <2>6. translator[c] = u
    BY <1>3, <2>1, <2>3
  <2>7. n = u
    BY <1>1, <2>4, <2>5, <2>6 DEF StaticMemory!NextWaited
  <2> QED
    BY <1>4, <2>1, <2>2, <2>7
<1> QED
  BY <1>4, <1>5, <1>6 DEF Pursues

(* A search that goes on in the set forever comes back to where it was.    *)
LEMMA SearchRepeats ==
    ASSUME NEW g, NEW N \in Nat, N = Cardinality(Threads), \A k \in 0 .. N : g[k] \in Threads
    PROVE  \E i, j \in 0 .. N : i < j /\ g[i] = g[j]
<1> DEFINE f == [k \in 0 .. N |-> g[k]]
<1>1. f \in [0 .. N -> Threads]
  OBVIOUS
<1>2. IsFiniteSet(0 .. N) /\ Cardinality(0 .. N) = N + 1
  BY FS_Interval
<1>3. IsFiniteSet(Threads) /\ Cardinality(Threads) < Cardinality(0 .. N)
  BY <1>2, ThreadsFinite
<1>4. \E x, y \in 0 .. N : x # y /\ f[x] = f[y]
  <2> HIDE DEF f
  <2> QED
    BY <1>1, <1>2, <1>3, FS_PigeonHole
<1>5. PICK x, y \in 0 .. N : x # y /\ g[x] = g[y]
  BY <1>4
<1> QED
  BY <1>5

(* The search finds the worker that would close a loop.                    *)
LEMMA LoopIsFound ==
    ASSUME IInv, CctorInv, WaitOthers, KInv, OwnersWaitForCode, NoLoop,
           NEW W \in SUBSET CctorWorkers, NEW w \in W, step[w] = "call",
           \A h \in W \ {w} : \E v \in W : Pursues(h, v),
           \A h \in W \ {w} : AwaitsRun(h) => owner[Cctor(h)] # w,
           Cctor(w) \in Methods, owner[Cctor(w)] \in W \ {w}
    PROVE  StaticMemory!LeadsToADeadlock(w, Cctor(w))
<1> SUFFICES ASSUME ~StaticMemory!LeadsToADeadlock(w, Cctor(w)) PROVE FALSE
  OBVIOUS
<1> DEFINE N == Cardinality(Threads)
           c == Cctor(w)
<1>1. N \in Nat /\ w \in Threads
  BY FiniteThreads, WorkerShape
<1>2. PICK g :
        /\ g[0] = StaticMemory!FirstWaited(c)
        /\ \A k \in 0 .. N - 1 : g[k + 1] = StaticMemory!NextWaited(g[k])
        /\ \A k \in 0 .. N : g[k] # w
  <2>1. StaticMemory!SMTypeOK /\ ~StaticMemory!LeadsToADeadlock(w, c) /\ c \in Methods
    BY DEF IInv
  <2> HIDE DEF c, N
  <2>2. \E g :
          /\ g[0] = StaticMemory!FirstWaited(c)
          /\ \A k \in 0 .. N - 1 : g[k + 1] = StaticMemory!NextWaited(g[k])
          /\ (StaticMemory!LeadsToADeadlock(w, c) <=> \E k \in 0 .. N : g[k] = w)
    BY <1>1, <2>1, SearchSteps DEF N
  <2> QED
    BY <2>1, <2>2
<1> DEFINE R == W \ {w}
<1>3. g[0] \in R
  <2>1. owner[c] # None
    BY WorkerShape
  <2> QED
    BY <1>2, <2>1 DEF StaticMemory!FirstWaited
<1> HIDE DEF c, N
<1>4. ASSUME NEW k \in 0 .. N - 1, g[k] \in R
      PROVE  /\ g[k + 1] \in R
             /\ \/ Pursues(g[k], g[k + 1])
                \/ \E v \in R : Pursues(g[k], v) /\ Pursues(v, g[k + 1])
  <2>1. g[k + 1] = StaticMemory!NextWaited(g[k]) /\ k + 1 \in 0 .. N /\ g[k + 1] # w
    BY <1>1, <1>2
  <2>2. \A h \in R :
          /\ StaticMemory!NextWaited(h) \in W
          /\ \/ Pursues(h, StaticMemory!NextWaited(h))
             \/ \E v \in R : Pursues(h, v) /\ Pursues(v, StaticMemory!NextWaited(h))
    BY SearchInLoop
  <2> QED
    BY <1>4, <2>1, <2>2
<1>5. \A k \in 0 .. N : g[k] \in R
  <2> DEFINE S == {k \in 0 .. N : g[k] \in R}
  <2>1. 0 \in S /\ \A k \in 0 .. N - 1 : k \in S => k + 1 \in S
    BY <1>1, <1>3, <1>4
  <2>2. 0 .. N \subseteq S
    <3> HIDE DEF S
    <3> QED
      BY <1>1, <2>1, UpTo
  <2> QED
    BY <2>2
<1>6. PICK i, j \in 0 .. N : i < j /\ g[i] = g[j]
  <2>1. \A k \in 0 .. N : g[k] \in Threads
    BY <1>5, WorkerShape
  <2> QED
    BY <1>1, <2>1, SearchRepeats DEF N
<1> DEFINE C == {g[k] : k \in i .. j - 1}
           B == {v \in R : \E z \in C : Pursues(v, z)}
<1>7. C \subseteq R /\ C # {}
  BY <1>1, <1>5, <1>6
<1>8. ASSUME NEW k \in i .. j - 1 PROVE g[k + 1] \in C
  <2>1. CASE k + 1 = j
    BY <1>6, <2>1
  <2>2. CASE k + 1 # j
    BY <1>6, <2>2
  <2> QED
    BY <2>1, <2>2
<1>9. ASSUME NEW k \in i .. j - 1 PROVE \E v \in C \cup B : Pursues(g[k], v)
  <2>1. k \in 0 .. N - 1 /\ g[k] \in R /\ g[k + 1] \in C
    BY <1>1, <1>5, <1>6, <1>8
  <2> HIDE DEF C
  <2> QED
    BY <1>4, <2>1
<1>10. Loop(C \cup B)
  <2>1. ASSUME NEW v \in C PROVE \E z \in C \cup B : Pursues(v, z)
    BY <1>9
  <2>2. ASSUME NEW v \in B PROVE \E z \in C \cup B : Pursues(v, z)
    OBVIOUS
  <2> HIDE DEF C, B
  <2> QED
    BY <1>7, <2>1, <2>2 DEF Loop
<1>11. C \cup B \in SUBSET CctorWorkers
  BY <1>7
<1> QED
  BY <1>10, <1>11 DEF NoLoop

LEMMA NoLoopStep ==
    ASSUME IInv, IInv', CctorInv, WaitOthers, KInv, OwnersWaitForCode, OwnersWaitForCode',
           NoLoop, [Next]_vars
    PROVE  NoLoop'
<1> SUFFICES ASSUME NEW W \in SUBSET CctorWorkers, W # {},
                    \A w \in W : \E v \in W : Pursues(w, v)'
             PROVE  FALSE
  BY DEF NoLoop, Loop, Pursues, EndAwaited, AwaitsRun, Job, Cctor, Cctors, Working
<1> DEFINE Declares_(w) == step[w] = "call" /\ step'[w] = "declare" /\ AwaitsRun(w)'
<1>1. ASSUME NEW w \in W PROVE Working(w)
  <2>1. (EndAwaited(w) \/ AwaitsRun(w))'
    BY DEF Pursues
  <2> QED
    BY <2>1, PursuerStays
<1>2. ASSUME NEW w \in W
      PROVE  \E v \in W : Pursues(w, v) \/ (Declares_(w) /\ owner[Cctor(w)] = v)
  <2>1. PICK v \in W : Pursues(w, v)'
    OBVIOUS
  <2> QED
    BY <1>1, <2>1, PursuesFrom
<1>3. PICK w \in W : Declares_(w) /\ owner[Cctor(w)] \in W
  <2>1. ~Loop(W)
    BY DEF NoLoop
  <2> QED
    BY <1>2, <2>1 DEF Loop
<1>4. /\ CallCctor(w) /\ owner[Cctor(w)] # w
      /\ ~StaticMemory!LeadsToADeadlock(w, Cctor(w))
      /\ UNCHANGED <<index, owner, executionDone, hand, method>>
      /\ Cctor(w) \in Methods /\ w \in Workers
  <2>1. CallCctor(w)
    BY <1>3, Declares
  <2>2. UNCHANGED <<hand, method>>
    BY <2>1 DEF CallCctor, OnlyCctorStep, ticketVars
  <2>3. Cctor(w) \in Methods
    BY <1>3, DeclaredFrom DEF Declared
  <2> QED
    BY <1>3, <2>1, <2>2, <2>3, Declares, WorkerShape
<1>5. ASSUME NEW h \in W \ {w} PROVE step'[h] = step[h]
  <2>1. ASSUME NEW s PROVE GoOn(w, s) => step'[h] = step[h]
    BY WorkerShape DEF GoOn, IInv, TypeWorkers
  <2>2. NextCctor(w, "call", "link") => step'[h] = step[h]
    BY WorkerShape DEF NextCctor, IInv, TypeWorkers
  <2> QED
    BY <1>4, <2>1, <2>2 DEF CallCctor
<1>6. \A h \in W \ {w} : \E v \in W : Pursues(h, v)
  BY <1>2, <1>5
<1>7. ASSUME NEW h \in W \ {w}, AwaitsRun(h) PROVE owner[Cctor(h)] # w
  <2>1. AwaitsRun(h)' /\ Cctor(h)' = Cctor(h)
    BY <1>4, <1>5, <1>7 DEF AwaitsRun, Cctor, Cctors
  <2>2. ~AwaitsRun(owner[Cctor(h)])'
    BY <2>1 DEF OwnersWaitForCode
  <2>3. owner'[Cctor(h)'] = owner[Cctor(h)]
    BY <1>4, <2>1
  <2> QED
    BY <1>3, <2>2, <2>3
<1> QED
  BY <1>3, <1>4, <1>6, <1>7, LoopIsFound

LEMMA AwaitsPursues ==
    ASSUME IInv, NEW w \in CctorWorkers, NEW v \in CctorWorkers, Awaits(w, v)
    PROVE  Pursues(w, v)
  BY DEF Awaits, Pursues, EndAwaited, AwaitsRun, Asleep

LEMMA NoLoopNoCycle == ASSUME IInv, NoLoop PROVE ~WaitingCycle
  BY AwaitsPursues DEF NoLoop, Loop, WaitingCycle

LEMMA InitNoLoop == Init => NoLoop
  BY WorkerShape DEF Init, NoLoop, Loop, Pursues, EndAwaited, AwaitsRun, NoCall

(* What a thread registers before it waits, and what the translator of a   *)
(* method registers, is what internal_tryDeclaringWaiting has to follow.   *)
THEOREM RegistrationInvariance == Spec => []KInv
  BY InitKInv, NextKInv, Invariance, CctorInvariance, PTL DEF Spec

(* As long as the owner of a cctor waits for this cctor's code only, there *)
(* is no cycle, and nobody is stuck: internal_tryDeclaringWaiting is right.*)
THEOREM SearchPreventsDeadlock ==
    Spec /\ []OwnersWaitForCode => [](NeverStuck \/ AtBound)
<1>1. Init => NoLoop
  BY InitNoLoop
<1>2. IInv /\ IInv' /\ CctorInv /\ BInv /\ KInv /\ OwnersWaitForCode /\ OwnersWaitForCode'
        /\ NoLoop /\ [Next]_vars => NoLoop'
  BY NoLoopStep DEF BInv
<1>3. Spec /\ []OwnersWaitForCode => []NoLoop
  BY <1>1, <1>2, Invariance, CctorInvariance, BlockingInvariance, RegistrationInvariance, PTL
  DEF Spec
<1>4. IInv /\ NoLoop => ~WaitingCycle
  BY NoLoopNoCycle
<1> QED
  BY <1>3, <1>4, Invariance, OnlyCyclesBlock, PTL

-----------------------------------------------------------------------------
(* Programs where this holds in every run: no method needs two cctors.     *)
AtMostOneCctor == \A m \in Methods : Len(CctorsToCall[m]) <= 1

LEMMA AtMostOneCctorWaits ==
    ASSUME AtMostOneCctor, IInv, CctorInv, WaitOthers PROVE OwnersWaitForCode
<1> SUFFICES ASSUME NEW w \in CctorWorkers, AwaitsRun(w)
             PROVE  /\ ~AwaitsRun(owner[Cctor(w)])
                    /\ EndAwaited(owner[Cctor(w)]) =>
                         call[owner[Cctor(w)]].method = Cctor(w)
  BY DEF OwnersWaitForCode
<1> DEFINE c == Cctor(w)
           v == owner[c]
<1>1. c \in Methods /\ c \notin executionDone /\ v # None
  <2>1. w \in Workers /\ Working(w) /\ step[w] \in LoopSteps
    BY WorkerShape DEF AwaitsRun, Working, LoopSteps
  <2> QED
    BY <2>1, CctorIn DEF AwaitsRun, WaitOthers, Declared
<1>2. v \in CctorWorkers /\ Ahead(v, c)
  BY <1>1 DEF CctorInv, OwnersAhead
<1>3. step[v] \in LoopSteps /\ \E j \in 1 .. Len(Cctors(v)) : Cctors(v)[j] = c
  BY <1>2 DEF Ahead
<1>4. Job(v) \in Methods /\ Cctors(v) = CctorsToCall[Job(v)]
  BY <1>2, <1>3, WorkerShape, JobIs DEF Cctors, Job, Working, LoopSteps
<1>5. Len(Cctors(v)) = 1 /\ Cctors(v)[1] = c /\ index[v] = 1
  <2>1. Len(Cctors(v)) \in Nat /\ Len(Cctors(v)) <= 1 /\ index[v] \in 1 .. Len(Cctors(v))
    BY <1>2, <1>3, <1>4, ListShape DEF AtMostOneCctor
  <2>2. PICK j \in 1 .. Len(Cctors(v)) : Cctors(v)[j] = c
    BY <1>3
  <2> DEFINE L == Len(Cctors(v))
             i == index[v]
  <2>3. L = 1 /\ i = 1 /\ j = 1
    <3>1. L \in Nat /\ L <= 1 /\ i \in 1 .. L /\ j \in 1 .. L
      BY <2>1, <2>2
    <3> HIDE DEF L, i
    <3> QED
      BY <3>1
  <2> QED
    BY <2>2, <2>3
<1> HIDE DEF v
<1>6. ~AwaitsRun(v)
  <2>1. AwaitsRun(v) => owner[Cctor(v)] # v
    BY <1>2 DEF WaitOthers, AwaitsRun, Declared
  <2> QED
    BY <1>5, <2>1 DEF Cctor, v
<1>7. ASSUME EndAwaited(v) PROVE call[v].method = c
  <2>1. Needs(Job(v), call[v].method)
    BY <1>2, <1>7 DEF CctorInv, WaitersNeed, EndAwaited
  <2> QED
    BY <1>4, <1>5, <2>1 DEF Needs
<1> QED
  BY <1>6, <1>7 DEF v

(* A pipeline that compiles methods of one cctor each is never stuck.      *)
THEOREM AtMostOneCctorNeverStuck == AtMostOneCctor => (Spec => [](NeverStuck \/ AtBound))
<1> SUFFICES ASSUME AtMostOneCctor PROVE Spec => [](NeverStuck \/ AtBound)
  OBVIOUS
<1>1. IInv /\ CctorInv /\ BInv => OwnersWaitForCode
  BY AtMostOneCctorWaits DEF BInv
<1>2. Spec => []OwnersWaitForCode
  BY <1>1, Invariance, CctorInvariance, BlockingInvariance, PTL
<1> QED
  BY <1>2, SearchPreventsDeadlock, PTL
=============================================================================
