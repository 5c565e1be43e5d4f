------------------------ MODULE ThreadsManagerProofs ------------------------
(***************************************************************************)
(* Proofs about the threads manager, for any number of threads and events, *)
(* any bound on their operations and both kinds of builds.                 *)
(*                                                                         *)
(* ListsComplete depends on tm_joinToNativeThread taking a thread off the  *)
(* list it is in, which it chooses by a bit of the thread's state.  That   *)
(* the bit agrees with the list whenever a thread is dead rests on who may *)
(* still write the state, and that in turn on the order in which           *)
(* tm_waitThreads goes through the two lists: no thread is told to abort   *)
(* while one that could start another is left.  Nor is any thread listed   *)
(* twice: of several that start it at a time, all of which find it in the  *)
(* list of unstarted threads, one takes it off that list, which is what    *)
(* StartersAgree says of "started"; at the next the program aborts.        *)
(***************************************************************************)
EXTENDS ThreadsManager, SequenceTheorems, TLAPS

Launching == {"launch", "launchWait"}
Running   == {"run", "start", "started", "join", "joinWait", "joinNative", "event",
              "eventWait", "ending", "crashed"}
Killing   == {"killThreads", "abort", "kill", "killWait", "killNative", "done"}
Aiming    == {"start", "started", "join", "joinWait", "joinNative", "foreground",
              "foregroundWait", "foregroundNative", "abort", "kill", "killWait",
              "killNative"}
MainOnly  == Killing \cup {"waitThreads", "foreground", "foregroundWait",
                           "foregroundNative"}

(* Where the main thread and the others can be, and what they look at.     *)
PlacesAgree ==
    /\ pc[Main] \in (Running \ {"ending"}) \cup MainOnly
    /\ \A u \in Workers : pc[u] \notin MainOnly
    /\ \A t \in Threads : pc[t] \in Aiming => target[t] \in Threads
    /\ \A t \in Threads : pc[t] \in {"event", "eventWait"} => waitFor[t] # <<>>
    /\ \A u \in Workers : joined[u] => pc[u] = "dead"

(* An unstarted thread has done nothing but wait, and ends only on request.*)
UnstartedAgree ==
    \A u \in unstarted :
        /\ "unstarted" \in state[u]
        /\ pc[u] \in Launching \cup {"launched", "aborting", "exiting", "dead"}
        /\ pc[u] \notin Launching => "abortrequested" \in state[u]

(* A foreground thread that went on from its launch is marked as started.  *)
ForegroundAgree ==
    \A u \in foreground :
        /\ pc[u] # "aborting"
        /\ "unstarted" \in state[u] => pc[u] \in Launching

(* Of all who try to start a thread one gets it into the other list, and   *)
(* has yet to tell it; for the rest it is missing in the first.            *)
StartersAgree ==
    \A t \in Threads : pc[t] = "started" =>
        /\ target[t] \in foreground
        /\ pc[target[t]] \in Launching
        /\ "unstarted" \in state[target[t]]
        /\ \A s \in Threads : pc[s] = "started" /\ target[s] = target[t] => s = t

(* Aborts are asked for when no foreground thread is left.                 *)
AbortsLate ==
    /\ \A u \in Threads :
          {"abortrequested", "aborted"} \cap state[u] # {} => pc[Main] \in Killing
    /\ pc[Main] \in Killing => foreground = {}
    /\ pc[Main] = "done" => unstarted = {}

IInv ==
    /\ TypeOK
    /\ ListsComplete
    /\ PlacesAgree
    /\ UnstartedAgree
    /\ ForegroundAgree
    /\ StartersAgree
    /\ AbortsLate
    /\ EventNotStranded

-----------------------------------------------------------------------------
(* The foreground threads are workers, and as many as their list says.     *)
LEMMA ForegroundKept ==
    /\ foreground \subseteq Workers
    /\ foregroundThreads' = foregroundThreads => foreground' = foreground
BY DEF foreground

(* The steps that move thread t and nobody else.                           *)
LEMMA GoMoves ==
    ASSUME TypeOK, NEW t \in Threads, NEW place \in Places, Go(t, place)
    PROVE  /\ pc' \in [Threads -> Places]
           /\ pc'[t] = place
           /\ \A s \in Threads : s # t => pc'[s] = pc[s]
BY DEF TypeOK, Go

(* A change of state moves thread t, and wakes threads that look again.    *)
Woken(p, q) == \/ p = "launchWait" /\ q = "launch"
               \/ p = "joinWait" /\ q = "join"
               \/ p = "foregroundWait" /\ q = "foreground"
               \/ p = "killWait" /\ q = "kill"

LEMMA ChangeStateMoves ==
    ASSUME TypeOK, NEW t \in Threads, NEW u \in Threads, NEW place \in Places,
           NEW bits \in SUBSET Bits, ChangeState(t, u, bits, place)
    PROVE  /\ pc' \in [Threads -> Places]
           /\ pc'[t] = place
           /\ \A s \in Threads : s # t => pc'[s] = pc[s] \/ Woken(pc[s], pc'[s])
           /\ state' = [state EXCEPT ![u] = bits]
           /\ state' \in [Threads -> SUBSET Bits]
<1>1. pc' = [s \in Threads |-> IF s = t THEN place
                              ELSE IF s \in SleepsOn(u) THEN Again[pc[s]]
                              ELSE pc[s]]
  BY DEF ChangeState
<1>2. \A s \in SleepsOn(u) : pc[s] \in {"launchWait", "joinWait", "foregroundWait",
                                       "killWait"}
  BY DEF SleepsOn
<1>3. \A s \in SleepsOn(u) : Woken(pc[s], Again[pc[s]]) /\ Again[pc[s]] \in Places
  BY <1>2 DEF Again, Woken, Places
<1>4. pc' \in [Threads -> Places]
  BY <1>1, <1>3 DEF TypeOK
<1>5. state' = [state EXCEPT ![u] = bits] /\ state' \in [Threads -> SUBSET Bits]
  BY DEF ChangeState, SetState, TypeOK
<1>6. QED
  BY <1>1, <1>3, <1>4, <1>5 DEF TypeOK

(* Steps that neither take nor release a lock nor move whoever has one.    *)
Locking == {"joinNative", "foregroundNative", "killNative"}

LEMMA LocksStay ==
    ASSUME TypeOK, stateLock' = stateLock,
           \A s \in Threads : pc[s] \in Locking => pc'[s] = pc[s] /\ target'[s] = target[s]
    PROVE  LocksHeld'
<1> SUFFICES ASSUME NEW u \in Threads, stateLock[u] # None
             PROVE  /\ target'[stateLock[u]] = u
                    /\ pc'[stateLock[u]] \in Locking
  BY DEF LocksHeld, Locking
<1>1. stateLock[u] \in Threads
  BY DEF TypeOK
<1>2. target[stateLock[u]] = u /\ pc[stateLock[u]] \in Locking
  BY DEF TypeOK, LocksHeld, Locking
<1>3. QED
  BY <1>1, <1>2

(* Steps that start no thread and leave those alone that are being started.*)
LEMMA StartersStay ==
    ASSUME StartersAgree,
           \A s \in Threads : pc'[s] = "started" =>
              /\ pc[s] = "started" /\ target'[s] = target[s]
              /\ target[s] \in foreground' /\ pc'[target[s]] \in Launching
              /\ "unstarted" \in state'[target[s]]
    PROVE  StartersAgree'
BY DEF StartersAgree

(* Steps that have nothing to do with events.                              *)
LEMMA EventsStay ==
    ASSUME EventNotStranded, signalled' = signalled,
           \A s \in Threads : pc'[s] = "eventWait" =>
              pc[s] = "eventWait" /\ waitFor'[s] = waitFor[s],
           \A s \in Threads : pc[s] = "event" =>
              pc'[s] = "event" /\ waitFor'[s] = waitFor[s]
    PROVE  EventNotStranded'
<1> SUFFICES ASSUME NEW e \in Events, signalled'[e], Sleepers(e)' # {}
             PROVE  /\ e \notin ManualEvents
                    /\ \E t \in Threads : pc'[t] = "event" /\ Head(waitFor'[t]) = e
  BY DEF EventNotStranded
<1>1. Sleepers(e) # {}
  BY DEF Sleepers
<1>2. PICK t \in Threads : pc[t] = "event" /\ Head(waitFor[t]) = e
  BY <1>1 DEF EventNotStranded
<1>3. QED
  BY <1>1, <1>2 DEF EventNotStranded

LEMMA InitIInv == ASSUME Init PROVE IInv
<1> USE ThreadsAssumption DEF Init
<1>1. /\ state \in [Threads -> SUBSET Bits]
      /\ stateLock \in [Threads -> Threads \cup {None}]
      /\ target \in [Threads -> Threads \cup {None}]
      /\ pc \in [Threads -> Places]
  BY DEF Threads, Places
<1>2. ops \in [Threads -> 0 .. MaxOps] /\ waitFor \in [Threads -> Seq(Events)]
  BY EventsAssumption
<1>3. TypeOK
  BY <1>1, <1>2 DEF TypeOK, LocksHeld
<1>4. ListsComplete
  <2>1. foreground = {}
    BY DEF foreground
  <2>2. QED
    BY <2>1 DEF ListsComplete, Created, Threads
<1>5. PlacesAgree
  BY DEF PlacesAgree, Threads, Running, MainOnly, Killing, Aiming
<1>6. UnstartedAgree /\ ForegroundAgree /\ StartersAgree
  BY DEF UnstartedAgree, ForegroundAgree, StartersAgree, Threads, foreground
<1>7. AbortsLate
  BY DEF AbortsLate, Killing, Threads
<1>8. EventNotStranded
  BY DEF EventNotStranded, Sleepers, Threads
<1>9. QED
  BY <1>3, <1>4, <1>5, <1>6, <1>7, <1>8 DEF IInv

(* Facts about a thread that runs the program's code.                      *)
LEMMA RunningForeground ==
    ASSUME IInv, NEW u \in Workers, pc[u] \in Running
    PROVE  u \in foreground /\ u \notin unstarted /\ ~joined[u]
                /\ pc[Main] \notin Killing
BY ThreadsAssumption
   DEF IInv, ListsComplete, PlacesAgree, UnstartedAgree, AbortsLate, Running,
       Launching, Created

(* A thread is created while one that runs the program is left: nobody     *)
(* kills.                                                                  *)
LEMMA StepCreate ==
    ASSUME IInv, NEW t \in Threads, NEW u \in Workers, Create(t, u)
    PROVE  IInv'
<1> USE ThreadsAssumption, ForegroundKept
<1>p. /\ TypeOK /\ ListsComplete /\ PlacesAgree /\ UnstartedAgree
      /\ ForegroundAgree /\ StartersAgree /\ AbortsLate /\ EventNotStranded
  BY DEF IInv
<1>e. /\ pc' \in [Threads -> Places] /\ pc'[u] = "launch" /\ pc[u] = "new" /\ pc[t] = "run"
      /\ \A s \in Threads : s # u => pc'[s] = pc[s] /\ state'[s] = state[s]
      /\ state' \in [Threads -> SUBSET Bits] /\ state'[u] = {"unstarted"} /\ u \in Threads
      /\ unstarted' = unstarted \cup {u}
      /\ foregroundThreads' = foregroundThreads /\ foreground' = foreground
      /\ build' = build
      /\ stateLock' = stateLock
      /\ joined' = joined
      /\ target' = target
      /\ signalled' = signalled
      /\ waitFor' = waitFor
      /\ ops' = ops
  BY <1>p DEF TypeOK, Create, Go, SetState, Threads, Places, Bits
<1>x. t \in Workers => t \in foreground /\ t \notin unstarted /\ ~joined[t]
                            /\ pc[Main] \notin Killing
  BY <1>e, RunningForeground DEF Running
<1>1. LocksHeld'
  BY <1>p, <1>e, LocksStay DEF Locking
<1>2. TypeOK'
  BY <1>p, <1>e, <1>x, <1>1 DEF TypeOK
<1>3. ListsComplete'
  BY <1>p, <1>e, <1>x DEF ListsComplete, PlacesAgree, Created, Threads
<1>4. PlacesAgree'
  BY <1>p, <1>e, <1>x DEF TypeOK, PlacesAgree, Threads, Running, MainOnly, Killing,
     Aiming
<1>5. UnstartedAgree'
  BY <1>p, <1>e, <1>x DEF TypeOK, UnstartedAgree, ListsComplete, Created, Launching,
     Threads
<1>6. ForegroundAgree'
  BY <1>p, <1>e, <1>x DEF TypeOK, ForegroundAgree, ListsComplete, Created,
     Launching, Threads
<1>7. StartersAgree'
  <2>1. ASSUME NEW s \in Threads, pc'[s] = "started"
        PROVE  /\ pc[s] = "started" /\ target'[s] = target[s]
               /\ target[s] \in foreground' /\ pc'[target[s]] \in Launching
               /\ "unstarted" \in state'[target[s]]
    <3>1. pc[s] = "started" /\ target'[s] = target[s]
      BY <2>1, <1>e
    <3>2. /\ target[s] \in foreground /\ target[s] \in Threads
          /\ pc[target[s]] \in Launching /\ "unstarted" \in state[target[s]]
      BY <3>1, <1>p DEF StartersAgree, TypeOK, Threads
    <3>3. QED
      BY <3>1, <3>2, <1>p, <1>e, <1>x DEF Launching
  <2>2. QED
    BY <2>1, <1>p, StartersStay
<1>8. AbortsLate'
  BY <1>p, <1>e, <1>x DEF TypeOK, AbortsLate, Killing, Threads
<1>9. EventNotStranded'
  BY <1>p, <1>e, <1>x, EventsStay
<1>10. QED
  BY <1>2, <1>3, <1>4, <1>5, <1>6, <1>7, <1>8, <1>9 DEF IInv

(* Who starts a thread looks for it in the list of unstarted threads.      *)
LEMMA StepStart ==
    ASSUME IInv, NEW t \in Threads, NEW u \in Workers, Start(t, u)
    PROVE  IInv'
<1> USE ThreadsAssumption, ForegroundKept
<1>p. /\ TypeOK /\ ListsComplete /\ PlacesAgree /\ UnstartedAgree
      /\ ForegroundAgree /\ StartersAgree /\ AbortsLate /\ EventNotStranded
  BY DEF IInv
<1>e. /\ pc[t] = "run" /\ pc' \in [Threads -> Places] /\ u \in Threads
      /\ \A s \in Threads : s # t => pc'[s] = pc[s]
      /\ pc'[t] \in {"start", "crashed"}
      /\ target' \in [Threads -> Threads \cup {None}] /\ target'[t] = u
      /\ \A s \in Threads : s # t => target'[s] = target[s]
      /\ build' = build
      /\ stateLock' = stateLock
      /\ state' = state
      /\ joined' = joined
      /\ unstarted' = unstarted /\ foregroundThreads' = foregroundThreads
      /\ foreground' = foreground
      /\ signalled' = signalled
      /\ waitFor' = waitFor
      /\ ops' = ops
  BY <1>p DEF TypeOK, Start, Go, Aim, Places, Threads, lists
<1>x. t \in Workers => t \in foreground /\ t \notin unstarted /\ ~joined[t]
                            /\ pc[Main] \notin Killing
  BY <1>e, RunningForeground DEF Running
<1>1. LocksHeld'
  BY <1>p, <1>e, LocksStay DEF Locking
<1>2. TypeOK'
  BY <1>p, <1>e, <1>x, <1>1 DEF TypeOK
<1>3. ListsComplete'
  BY <1>p, <1>e, <1>x DEF ListsComplete, PlacesAgree, Created, Threads
<1>4. PlacesAgree'
  BY <1>p, <1>e, <1>x DEF TypeOK, PlacesAgree, Threads, Running, MainOnly, Killing,
     Aiming
<1>5. UnstartedAgree'
  BY <1>p, <1>e, <1>x DEF TypeOK, UnstartedAgree, ListsComplete, Created, Launching,
     Threads
<1>6. ForegroundAgree'
  BY <1>p, <1>e, <1>x DEF TypeOK, ForegroundAgree, ListsComplete, Created,
     Launching, Threads
<1>7. StartersAgree'
  <2>1. ASSUME NEW s \in Threads, pc'[s] = "started"
        PROVE  /\ pc[s] = "started" /\ target'[s] = target[s]
               /\ target[s] \in foreground' /\ pc'[target[s]] \in Launching
               /\ "unstarted" \in state'[target[s]]
    <3>1. pc[s] = "started" /\ target'[s] = target[s]
      BY <2>1, <1>e
    <3>2. /\ target[s] \in foreground /\ target[s] \in Threads
          /\ pc[target[s]] \in Launching /\ "unstarted" \in state[target[s]]
      BY <3>1, <1>p DEF StartersAgree, TypeOK, Threads
    <3>3. QED
      BY <3>1, <3>2, <1>p, <1>e, <1>x DEF Launching
  <2>2. QED
    BY <2>1, <1>p, StartersStay
<1>8. AbortsLate'
  BY <1>p, <1>e, <1>x DEF TypeOK, AbortsLate, Killing, Threads
<1>9. EventNotStranded'
  BY <1>p, <1>e, <1>x, EventsStay
<1>10. QED
  BY <1>2, <1>3, <1>4, <1>5, <1>6, <1>7, <1>8, <1>9 DEF IInv

(* A start that comes too late ends the program.                           *)
LEMMA StepStartTwice ==
    ASSUME IInv, NEW t \in Threads, ChangeLists(t), Missing(target[t])
    PROVE  IInv'
<1> USE ThreadsAssumption, ForegroundKept
<1>p. /\ TypeOK /\ ListsComplete /\ PlacesAgree /\ UnstartedAgree
      /\ ForegroundAgree /\ StartersAgree /\ AbortsLate /\ EventNotStranded
  BY DEF IInv
<1>e. /\ pc[t] = "start" /\ pc' \in [Threads -> Places] /\ pc'[t] = "crashed"
      /\ \A s \in Threads : s # t => pc'[s] = pc[s]
      /\ build' = build
      /\ stateLock' = stateLock
      /\ state' = state
      /\ joined' = joined
      /\ unstarted' = unstarted /\ foregroundThreads' = foregroundThreads
      /\ foreground' = foreground
      /\ target' = target
      /\ signalled' = signalled
      /\ waitFor' = waitFor
      /\ ops' = ops
  BY <1>p DEF TypeOK, ChangeLists, Go, Places, lists
<1>x. t \in Workers => t \in foreground /\ t \notin unstarted /\ ~joined[t]
                            /\ pc[Main] \notin Killing
  BY <1>e, RunningForeground DEF Running
<1>1. LocksHeld'
  BY <1>p, <1>e, LocksStay DEF Locking
<1>2. TypeOK'
  BY <1>p, <1>e, <1>x, <1>1 DEF TypeOK
<1>3. ListsComplete'
  BY <1>p, <1>e, <1>x DEF ListsComplete, PlacesAgree, Created, Threads
<1>4. PlacesAgree'
  BY <1>p, <1>e, <1>x DEF TypeOK, PlacesAgree, Threads, Running, MainOnly, Killing,
     Aiming
<1>5. UnstartedAgree'
  BY <1>p, <1>e, <1>x DEF TypeOK, UnstartedAgree, ListsComplete, Created, Launching,
     Threads
<1>6. ForegroundAgree'
  BY <1>p, <1>e, <1>x DEF TypeOK, ForegroundAgree, ListsComplete, Created,
     Launching, Threads
<1>7. StartersAgree'
  <2>1. ASSUME NEW s \in Threads, pc'[s] = "started"
        PROVE  /\ pc[s] = "started" /\ target'[s] = target[s]
               /\ target[s] \in foreground' /\ pc'[target[s]] \in Launching
               /\ "unstarted" \in state'[target[s]]
    <3>1. pc[s] = "started" /\ target'[s] = target[s]
      BY <2>1, <1>e
    <3>2. /\ target[s] \in foreground /\ target[s] \in Threads
          /\ pc[target[s]] \in Launching /\ "unstarted" \in state[target[s]]
      BY <3>1, <1>p DEF StartersAgree, TypeOK, Threads
    <3>3. QED
      BY <3>1, <3>2, <1>p, <1>e, <1>x DEF Launching
  <2>2. QED
    BY <2>1, <1>p, StartersStay
<1>8. AbortsLate'
  BY <1>p, <1>e, <1>x DEF TypeOK, AbortsLate, Killing, Threads
<1>9. EventNotStranded'
  BY <1>p, <1>e, <1>x, EventsStay
<1>10. QED
  BY <1>2, <1>3, <1>4, <1>5, <1>6, <1>7, <1>8, <1>9 DEF IInv

(* The thread that is started was unstarted, and waits for its launch: it  *)
(* is entered in the other list once.                                      *)
LEMMA StepChangeLists ==
    ASSUME IInv, NEW t \in Threads, NEW u, u = target[t], ChangeLists(t), ~Missing(u)
    PROVE  IInv'
<1> USE ThreadsAssumption, ForegroundKept
<1>p. /\ TypeOK /\ ListsComplete /\ PlacesAgree /\ UnstartedAgree
      /\ ForegroundAgree /\ StartersAgree /\ AbortsLate /\ EventNotStranded
  BY DEF IInv
<1>e. /\ pc' \in [Threads -> Places] /\ pc'[t] = "started" /\ pc[t] = "start"
      /\ \A s \in Threads : s # t => pc'[s] = pc[s]
      /\ target' = target /\ target[t] = u /\ u \in Threads /\ u \in Workers
      /\ u \in unstarted /\ unstarted' = unstarted \ {u}
      /\ foregroundThreads' = [foregroundThreads EXCEPT ![u] = @ + 1]
      /\ build' = build
      /\ stateLock' = stateLock
      /\ state' = state
      /\ joined' = joined
      /\ signalled' = signalled
      /\ waitFor' = waitFor
      /\ ops' = ops
  BY <1>p DEF TypeOK, ChangeLists, Missing, Go, Move, Threads, Places
<1>f. /\ foregroundThreads' \in [Workers -> Nat]
      /\ foreground' = foreground \cup {u}
      /\ \A v \in foreground' : foregroundThreads'[v] = 1
  <2>1. u \notin foreground /\ foregroundThreads \in [Workers -> Nat]
    BY <1>p, <1>e DEF ListsComplete, TypeOK
  <2>2. foregroundThreads[u] = 0
    BY <2>1, <1>e DEF foreground
  <2>3. QED
    BY <2>1, <2>2, <1>e, <1>p DEF foreground, ListsComplete
<1>y. pc[Main] \notin Killing
  BY <1>e, RunningForeground DEF Running, Killing, Threads
<1>z. \A s \in Threads : pc[s] = "started" => target[s] # u
  BY <1>p, <1>e DEF StartersAgree, ListsComplete
<1>x. /\ pc[Main] \notin Killing
      /\ \A s \in Threads : pc[s] = "started" => target[s] # u /\ target[s] # t
      /\ u # t /\ pc[u] \in Launching /\ "unstarted" \in state[u] /\ u \notin foreground
  BY <1>p, <1>e, <1>y, <1>z DEF UnstartedAgree, ListsComplete, AbortsLate,
     Launching, StartersAgree
<1>1. LocksHeld'
  BY <1>p, <1>e, LocksStay DEF Locking
<1>2. TypeOK'
  BY <1>p, <1>e, <1>f, <1>x, <1>1 DEF TypeOK
<1>3. ListsComplete'
  BY <1>p, <1>e, <1>f, <1>x DEF ListsComplete, PlacesAgree, Created, Threads
<1>4. PlacesAgree'
  BY <1>p, <1>e, <1>f, <1>x DEF TypeOK, PlacesAgree, Threads, Running, MainOnly, Killing,
     Aiming
<1>5. UnstartedAgree'
  BY <1>p, <1>e, <1>f, <1>x DEF TypeOK, UnstartedAgree, ListsComplete, Created, Launching,
     Threads
<1>6. ForegroundAgree'
  BY <1>p, <1>e, <1>f, <1>x DEF TypeOK, ForegroundAgree, ListsComplete, Created,
     Launching, Threads
<1>7. StartersAgree'
  <2> SUFFICES ASSUME NEW s \in Threads, pc'[s] = "started"
               PROVE  /\ target'[s] \in foreground'
                      /\ pc'[target'[s]] \in Launching
                      /\ "unstarted" \in state'[target'[s]]
                      /\ \A r \in Threads :
                            pc'[r] = "started" /\ target'[r] = target'[s] => r = s
    BY DEF StartersAgree
  <2>1. CASE s = t
    BY <2>1, <1>e, <1>f, <1>x
  <2>2. CASE s # t
    <3>1. pc[s] = "started" /\ target'[s] = target[s]
      BY <2>2, <1>e
    <3>2. /\ target[s] \in foreground /\ pc[target[s]] \in Launching
          /\ "unstarted" \in state[target[s]] /\ target[s] \in Threads
          /\ \A r \in Threads : pc[r] = "started" /\ target[r] = target[s] => r = s
      BY <3>1, <1>p DEF StartersAgree, TypeOK, Threads
    <3>3. QED
      BY <3>1, <3>2, <2>2, <1>e, <1>f, <1>x
  <2>3. QED
    BY <2>1, <2>2
<1>8. AbortsLate'
  BY <1>p, <1>e, <1>f, <1>x DEF TypeOK, AbortsLate, Killing, Threads
<1>9. EventNotStranded'
  BY <1>p, <1>e, <1>f, <1>x, EventsStay
<1>10. QED
  BY <1>2, <1>3, <1>4, <1>5, <1>6, <1>7, <1>8, <1>9 DEF IInv

(* The thread told to run is the one its starter entered in the            *)
(* foreground.                                                             *)
LEMMA StepStartRunning ==
    ASSUME IInv, NEW t \in Threads, StartRunning(t)
    PROVE  IInv'
<1> USE ThreadsAssumption, ForegroundKept
<1>p. /\ TypeOK /\ ListsComplete /\ PlacesAgree /\ UnstartedAgree
      /\ ForegroundAgree /\ StartersAgree /\ AbortsLate /\ EventNotStranded
  BY DEF IInv
<1>e. /\ pc' \in [Threads -> Places] /\ pc'[t] = "run" /\ pc[t] = "started"
      /\ \A s \in Threads : s # t => pc'[s] = pc[s] \/ Woken(pc[s], pc'[s])
      /\ state' \in [Threads -> SUBSET Bits] /\ state'[target[t]] = {}
      /\ \A s \in Threads : s # target[t] => state'[s] = state[s]
      /\ build' = build
      /\ stateLock' = stateLock
      /\ joined' = joined
      /\ unstarted' = unstarted /\ foregroundThreads' = foregroundThreads
      /\ foreground' = foreground
      /\ target' = target
      /\ signalled' = signalled
      /\ waitFor' = waitFor
      /\ ops' = ops
  <2>1. ChangeState(t, target[t], {}, "run") /\ pc[t] = "started"
    BY DEF StartRunning
  <2>2. {} \in SUBSET Bits /\ "run" \in Places /\ target[t] \in Threads
    BY <1>p, <2>1 DEF Bits, Places, TypeOK, AbortBit, StartersAgree, Threads
  <2>3. QED
    BY <1>p, <2>1, <2>2, ChangeStateMoves DEF StartRunning, TypeOK, lists
<1>x. /\ target[t] \in foreground /\ target[t] \in Threads /\ target[t] # t
      /\ pc[target[t]] \in Launching /\ target[t] \notin unstarted /\ target[t] # Main
      /\ \A s \in Threads : pc[s] = "started" /\ s # t => target[s] # target[t]
  BY <1>p, <1>e DEF StartersAgree, TypeOK, Launching, ListsComplete, Threads
<1>1. LocksHeld'
  BY <1>p, <1>e, LocksStay DEF Locking, Woken
<1>2. TypeOK'
  BY <1>p, <1>e, <1>x, <1>1 DEF TypeOK
<1>3. ListsComplete'
  BY <1>p, <1>e, <1>x DEF ListsComplete, PlacesAgree, Created, Threads, Woken
<1>4. PlacesAgree'
  BY <1>p, <1>e, <1>x, ZenonT(40) DEF TypeOK, PlacesAgree, Threads, Running, MainOnly, Killing,
     Aiming, Woken
<1>5. UnstartedAgree'
  BY <1>p, <1>e, <1>x DEF TypeOK, UnstartedAgree, ListsComplete, Created, Launching,
     Threads, Woken
<1>6. ForegroundAgree'
  BY <1>p, <1>e, <1>x DEF TypeOK, ForegroundAgree, ListsComplete, Created,
     Launching, Threads, Woken
<1>7. StartersAgree'
  <2>1. ASSUME NEW s \in Threads, pc'[s] = "started"
        PROVE  /\ pc[s] = "started" /\ target'[s] = target[s]
               /\ target[s] \in foreground' /\ pc'[target[s]] \in Launching
               /\ "unstarted" \in state'[target[s]]
    <3>1. pc[s] = "started" /\ target'[s] = target[s]
      BY <2>1, <1>e DEF Woken
    <3>2. /\ target[s] \in foreground /\ target[s] \in Threads
          /\ pc[target[s]] \in Launching /\ "unstarted" \in state[target[s]]
      BY <3>1, <1>p DEF StartersAgree, TypeOK, Threads
    <3>x. target[s] # t /\ s # t /\ target[s] # target[t]
      BY <2>1, <3>1, <3>2, <1>p, <1>e, <1>x DEF Launching
    <3>3. QED
      BY <3>1, <3>2, <3>x, <1>p, <1>e, <1>x DEF Launching, Woken
  <2>2. QED
    BY <2>1, <1>p, StartersStay
<1>8. AbortsLate'
  BY <1>p, <1>e, <1>x DEF TypeOK, AbortsLate, Killing, Threads, Woken
<1>9. EventNotStranded'
  BY <1>p, <1>e, <1>x, EventsStay DEF Woken
<1>10. QED
  BY <1>2, <1>3, <1>4, <1>5, <1>6, <1>7, <1>8, <1>9 DEF IInv

(* A foreground thread is never asked to abort while it waits.             *)
LEMMA StepWaitForLaunch ==
    ASSUME IInv, NEW t \in Threads, WaitForLaunch(t)
    PROVE  IInv'
<1> USE ThreadsAssumption, ForegroundKept
<1>p. /\ TypeOK /\ ListsComplete /\ PlacesAgree /\ UnstartedAgree
      /\ ForegroundAgree /\ StartersAgree /\ AbortsLate /\ EventNotStranded
  BY DEF IInv
<1>e. /\ pc[t] = "launch" /\ pc' \in [Threads -> Places]
      /\ \A s \in Threads : s # t => pc'[s] = pc[s]
      /\ pc'[t] = IF "unstarted" \in state[t] /\ "abortrequested" \notin state[t]
                    THEN "launchWait" ELSE "launched"
      /\ build' = build
      /\ stateLock' = stateLock
      /\ state' = state
      /\ joined' = joined
      /\ unstarted' = unstarted /\ foregroundThreads' = foregroundThreads
      /\ foreground' = foreground
      /\ target' = target
      /\ signalled' = signalled
      /\ waitFor' = waitFor
      /\ ops' = ops
  BY <1>p DEF TypeOK, WaitForLaunch, Go, Places, lists
<1>x. t \in Workers /\ t \in unstarted \cup foreground
      /\ (t \in foreground => "abortrequested" \notin state[t])
  BY <1>p, <1>e DEF PlacesAgree, Running, MainOnly, Killing, ListsComplete,
     AbortsLate, Threads, Created
<1>1. LocksHeld'
  BY <1>p, <1>e, LocksStay DEF Locking
<1>2. TypeOK'
  BY <1>p, <1>e, <1>x, <1>1 DEF TypeOK
<1>3. ListsComplete'
  BY <1>p, <1>e, <1>x DEF ListsComplete, PlacesAgree, Created, Threads
<1>4. PlacesAgree'
  BY <1>p, <1>e, <1>x DEF TypeOK, PlacesAgree, Threads, Running, MainOnly, Killing,
     Aiming
<1>5. UnstartedAgree'
  BY <1>p, <1>e, <1>x DEF TypeOK, UnstartedAgree, ListsComplete, Created, Launching,
     Threads
<1>6. ForegroundAgree'
  BY <1>p, <1>e, <1>x DEF TypeOK, ForegroundAgree, ListsComplete, Created,
     Launching, Threads
<1>7. StartersAgree'
  <2>1. ASSUME NEW s \in Threads, pc'[s] = "started"
        PROVE  /\ pc[s] = "started" /\ target'[s] = target[s]
               /\ target[s] \in foreground' /\ pc'[target[s]] \in Launching
               /\ "unstarted" \in state'[target[s]]
    <3>1. pc[s] = "started" /\ target'[s] = target[s]
      BY <2>1, <1>e
    <3>2. /\ target[s] \in foreground /\ target[s] \in Threads
          /\ pc[target[s]] \in Launching /\ "unstarted" \in state[target[s]]
      BY <3>1, <1>p DEF StartersAgree, TypeOK, Threads
    <3>3. QED
      BY <3>1, <3>2, <1>p, <1>e, <1>x DEF Launching
  <2>2. QED
    BY <2>1, <1>p, StartersStay
<1>8. AbortsLate'
  BY <1>p, <1>e, <1>x DEF TypeOK, AbortsLate, Killing, Threads
<1>9. EventNotStranded'
  BY <1>p, <1>e, <1>x, EventsStay
<1>10. QED
  BY <1>2, <1>3, <1>4, <1>5, <1>6, <1>7, <1>8, <1>9 DEF IInv

(* Only an unstarted thread turns to its abortion.                         *)
LEMMA StepLaunched ==
    ASSUME IInv, NEW t \in Threads, Launched(t)
    PROVE  IInv'
<1> USE ThreadsAssumption, ForegroundKept
<1>p. /\ TypeOK /\ ListsComplete /\ PlacesAgree /\ UnstartedAgree
      /\ ForegroundAgree /\ StartersAgree /\ AbortsLate /\ EventNotStranded
  BY DEF IInv
<1>e. /\ pc[t] = "launched" /\ pc' \in [Threads -> Places]
      /\ \A s \in Threads : s # t => pc'[s] = pc[s]
      /\ pc'[t] = IF "abortrequested" \in state[t] THEN "aborting" ELSE "run"
      /\ build' = build
      /\ stateLock' = stateLock
      /\ state' = state
      /\ joined' = joined
      /\ unstarted' = unstarted /\ foregroundThreads' = foregroundThreads
      /\ foreground' = foreground
      /\ target' = target
      /\ signalled' = signalled
      /\ waitFor' = waitFor
      /\ ops' = ops
  BY <1>p DEF TypeOK, Launched, Go, Places, lists
<1>x. t \in Workers /\ t \in unstarted \cup foreground
      /\ (t \in foreground => "abortrequested" \notin state[t])
  BY <1>p, <1>e DEF PlacesAgree, Running, MainOnly, Killing, ListsComplete,
     AbortsLate, Threads, Created
<1>1. LocksHeld'
  BY <1>p, <1>e, LocksStay DEF Locking
<1>2. TypeOK'
  BY <1>p, <1>e, <1>x, <1>1 DEF TypeOK
<1>3. ListsComplete'
  BY <1>p, <1>e, <1>x DEF ListsComplete, PlacesAgree, Created, Threads
<1>4. PlacesAgree'
  BY <1>p, <1>e, <1>x DEF TypeOK, PlacesAgree, Threads, Running, MainOnly, Killing,
     Aiming
<1>5. UnstartedAgree'
  BY <1>p, <1>e, <1>x DEF TypeOK, UnstartedAgree, ListsComplete, Created, Launching,
     Threads
<1>6. ForegroundAgree'
  BY <1>p, <1>e, <1>x DEF TypeOK, ForegroundAgree, ListsComplete, Created,
     Launching, Threads
<1>7. StartersAgree'
  <2>1. ASSUME NEW s \in Threads, pc'[s] = "started"
        PROVE  /\ pc[s] = "started" /\ target'[s] = target[s]
               /\ target[s] \in foreground' /\ pc'[target[s]] \in Launching
               /\ "unstarted" \in state'[target[s]]
    <3>1. pc[s] = "started" /\ target'[s] = target[s]
      BY <2>1, <1>e
    <3>2. /\ target[s] \in foreground /\ target[s] \in Threads
          /\ pc[target[s]] \in Launching /\ "unstarted" \in state[target[s]]
      BY <3>1, <1>p DEF StartersAgree, TypeOK, Threads
    <3>3. QED
      BY <3>1, <3>2, <1>p, <1>e, <1>x DEF Launching
  <2>2. QED
    BY <2>1, <1>p, StartersStay
<1>8. AbortsLate'
  BY <1>p, <1>e, <1>x DEF TypeOK, AbortsLate, Killing, Threads
<1>9. EventNotStranded'
  BY <1>p, <1>e, <1>x, EventsStay
<1>10. QED
  BY <1>2, <1>3, <1>4, <1>5, <1>6, <1>7, <1>8, <1>9 DEF IInv

(* The code of a thread is over.                                           *)
LEMMA StepEndBody ==
    ASSUME IInv, NEW t \in Threads, EndBody(t)
    PROVE  IInv'
<1> USE ThreadsAssumption, ForegroundKept
<1>p. /\ TypeOK /\ ListsComplete /\ PlacesAgree /\ UnstartedAgree
      /\ ForegroundAgree /\ StartersAgree /\ AbortsLate /\ EventNotStranded
  BY DEF IInv
<1>e. /\ pc[t] = "run" /\ pc' \in [Threads -> Places]
      /\ \A s \in Threads : s # t => pc'[s] = pc[s]
      /\ pc'[t] = IF t = Main THEN "waitThreads" ELSE "ending"
      /\ build' = build
      /\ stateLock' = stateLock
      /\ state' = state
      /\ joined' = joined
      /\ unstarted' = unstarted /\ foregroundThreads' = foregroundThreads
      /\ foreground' = foreground
      /\ target' = target
      /\ signalled' = signalled
      /\ waitFor' = waitFor
      /\ ops' = ops
  BY <1>p DEF TypeOK, EndBody, Go, Places, lists
<1>x. t \in Workers => t \in foreground /\ t \notin unstarted /\ ~joined[t]
                            /\ pc[Main] \notin Killing
  BY <1>e, RunningForeground DEF Running
<1>1. LocksHeld'
  BY <1>p, <1>e, LocksStay DEF Locking
<1>2. TypeOK'
  BY <1>p, <1>e, <1>x, <1>1 DEF TypeOK
<1>3. ListsComplete'
  BY <1>p, <1>e, <1>x DEF ListsComplete, PlacesAgree, Created, Threads
<1>4. PlacesAgree'
  BY <1>p, <1>e, <1>x DEF TypeOK, PlacesAgree, Threads, Running, MainOnly, Killing,
     Aiming
<1>5. UnstartedAgree'
  BY <1>p, <1>e, <1>x DEF TypeOK, UnstartedAgree, ListsComplete, Created, Launching,
     Threads
<1>6. ForegroundAgree'
  BY <1>p, <1>e, <1>x DEF TypeOK, ForegroundAgree, ListsComplete, Created,
     Launching, Threads
<1>7. StartersAgree'
  <2>1. ASSUME NEW s \in Threads, pc'[s] = "started"
        PROVE  /\ pc[s] = "started" /\ target'[s] = target[s]
               /\ target[s] \in foreground' /\ pc'[target[s]] \in Launching
               /\ "unstarted" \in state'[target[s]]
    <3>1. pc[s] = "started" /\ target'[s] = target[s]
      BY <2>1, <1>e
    <3>2. /\ target[s] \in foreground /\ target[s] \in Threads
          /\ pc[target[s]] \in Launching /\ "unstarted" \in state[target[s]]
      BY <3>1, <1>p DEF StartersAgree, TypeOK, Threads
    <3>3. QED
      BY <3>1, <3>2, <1>p, <1>e, <1>x DEF Launching
  <2>2. QED
    BY <2>1, <1>p, StartersStay
<1>8. AbortsLate'
  BY <1>p, <1>e, <1>x DEF TypeOK, AbortsLate, Killing, Threads
<1>9. EventNotStranded'
  BY <1>p, <1>e, <1>x, EventsStay
<1>10. QED
  BY <1>2, <1>3, <1>4, <1>5, <1>6, <1>7, <1>8, <1>9 DEF IInv

(* A thread that ran says that it stopped: it is in the foreground.        *)
LEMMA StepStop ==
    ASSUME IInv, NEW t \in Threads, pc[t] = "ending", Stop(t)
    PROVE  IInv'
<1> USE ThreadsAssumption, ForegroundKept
<1>p. /\ TypeOK /\ ListsComplete /\ PlacesAgree /\ UnstartedAgree
      /\ ForegroundAgree /\ StartersAgree /\ AbortsLate /\ EventNotStranded
  BY DEF IInv
<1>e. /\ pc' \in [Threads -> Places] /\ pc'[t] = "exiting" /\ pc[t] = "ending"
      /\ \A s \in Threads : s # t => pc'[s] = pc[s] \/ Woken(pc[s], pc'[s])
      /\ state' \in [Threads -> SUBSET Bits] /\ state'[t] = {"stopped"}
      /\ \A s \in Threads : s # t => state'[s] = state[s]
      /\ build' = build
      /\ stateLock' = stateLock
      /\ joined' = joined
      /\ unstarted' = unstarted /\ foregroundThreads' = foregroundThreads
      /\ foreground' = foreground
      /\ target' = target
      /\ signalled' = signalled
      /\ waitFor' = waitFor
      /\ ops' = ops
  <2>1. ChangeState(t, t, {"stopped"}, "exiting") /\ pc[t] = "ending"
    BY DEF Stop
  <2>2. {"stopped"} \in SUBSET Bits /\ "exiting" \in Places /\ t \in Threads
    BY <1>p DEF Bits, Places, TypeOK, AbortBit
  <2>3. QED
    BY <1>p, <2>1, <2>2, ChangeStateMoves DEF Stop, TypeOK, lists
<1>x. t \in Workers /\ t \in foreground /\ t \notin unstarted /\ ~joined[t]
                            /\ pc[Main] \notin Killing
  BY <1>p, <1>e, RunningForeground DEF Running, PlacesAgree, MainOnly, Killing,
     Threads
<1>1. LocksHeld'
  BY <1>p, <1>e, LocksStay DEF Locking, Woken
<1>2. TypeOK'
  BY <1>p, <1>e, <1>x, <1>1 DEF TypeOK
<1>3. ListsComplete'
  BY <1>p, <1>e, <1>x DEF ListsComplete, PlacesAgree, Created, Threads, Woken
<1>4. PlacesAgree'
  BY <1>p, <1>e, <1>x, ZenonT(40) DEF TypeOK, PlacesAgree, Threads, Running, MainOnly, Killing,
     Aiming, Woken
<1>5. UnstartedAgree'
  BY <1>p, <1>e, <1>x DEF TypeOK, UnstartedAgree, ListsComplete, Created, Launching,
     Threads, Woken
<1>6. ForegroundAgree'
  <2> SUFFICES ASSUME NEW u \in foreground
               PROVE  /\ pc'[u] # "aborting"
                      /\ "unstarted" \in state'[u] => pc'[u] \in Launching
    BY <1>e DEF ForegroundAgree
  <2>1. CASE u = t
    BY <2>1, <1>e
  <2>2. CASE u # t
    BY <2>2, <1>p, <1>e DEF ForegroundAgree, TypeOK, Woken, Launching, Threads
  <2>3. QED
    BY <2>1, <2>2
<1>7. StartersAgree'
  <2>1. ASSUME NEW s \in Threads, pc'[s] = "started"
        PROVE  /\ pc[s] = "started" /\ target'[s] = target[s]
               /\ target[s] \in foreground' /\ pc'[target[s]] \in Launching
               /\ "unstarted" \in state'[target[s]]
    <3>1. pc[s] = "started" /\ target'[s] = target[s]
      BY <2>1, <1>e DEF Woken
    <3>2. /\ target[s] \in foreground /\ target[s] \in Threads
          /\ pc[target[s]] \in Launching /\ "unstarted" \in state[target[s]]
      BY <3>1, <1>p DEF StartersAgree, TypeOK, Threads
    <3>3. QED
      BY <3>1, <3>2, <1>p, <1>e, <1>x DEF Launching, Woken
  <2>2. QED
    BY <2>1, <1>p, StartersStay
<1>8. AbortsLate'
  BY <1>p, <1>e, <1>x DEF TypeOK, AbortsLate, Killing, Threads, Woken
<1>9. EventNotStranded'
  BY <1>p, <1>e, <1>x, EventsStay DEF Woken
<1>10. QED
  BY <1>2, <1>3, <1>4, <1>5, <1>6, <1>7, <1>8, <1>9 DEF IInv

(* A thread that was never started says that it aborted.                   *)
LEMMA StepAbort ==
    ASSUME IInv, NEW t \in Threads, pc[t] = "aborting", Stop(t)
    PROVE  IInv'
<1> USE ThreadsAssumption, ForegroundKept
<1>p. /\ TypeOK /\ ListsComplete /\ PlacesAgree /\ UnstartedAgree
      /\ ForegroundAgree /\ StartersAgree /\ AbortsLate /\ EventNotStranded
  BY DEF IInv
<1>e. /\ pc' \in [Threads -> Places] /\ pc'[t] = "exiting" /\ pc[t] = "aborting"
      /\ \A s \in Threads : s # t => pc'[s] = pc[s] \/ Woken(pc[s], pc'[s])
      /\ state' \in [Threads -> SUBSET Bits] /\ state'[t] = state[t] \cup AbortBit("aborted")
      /\ \A s \in Threads : s # t => state'[s] = state[s]
      /\ build' = build
      /\ stateLock' = stateLock
      /\ joined' = joined
      /\ unstarted' = unstarted /\ foregroundThreads' = foregroundThreads
      /\ foreground' = foreground
      /\ target' = target
      /\ signalled' = signalled
      /\ waitFor' = waitFor
      /\ ops' = ops
  <2>1. ChangeState(t, t, state[t] \cup AbortBit("aborted"), "exiting") /\ pc[t] = "aborting"
    BY DEF Stop
  <2>2. state[t] \cup AbortBit("aborted") \in SUBSET Bits /\ "exiting" \in Places /\ t \in Threads
    BY <1>p DEF Bits, Places, TypeOK, AbortBit
  <2>3. QED
    BY <1>p, <2>1, <2>2, ChangeStateMoves DEF Stop, TypeOK, lists
<1>x. /\ t \in Workers /\ t \in unstarted /\ t \notin foreground /\ "abortrequested" \in state[t]
      /\ pc[Main] \in Killing
  BY <1>p, <1>e DEF PlacesAgree, Running, MainOnly, Killing, ListsComplete,
     ForegroundAgree,
     UnstartedAgree, AbortsLate, Threads, Created, Launching
<1>1. LocksHeld'
  BY <1>p, <1>e, LocksStay DEF Locking, Woken
<1>2. TypeOK'
  BY <1>p, <1>e, <1>x, <1>1 DEF TypeOK
<1>3. ListsComplete'
  BY <1>p, <1>e, <1>x DEF ListsComplete, PlacesAgree, Created, Threads, Woken
<1>4. PlacesAgree'
  BY <1>p, <1>e, <1>x, ZenonT(40) DEF TypeOK, PlacesAgree, Threads, Running, MainOnly, Killing,
     Aiming, Woken
<1>5. UnstartedAgree'
  BY <1>p, <1>e, <1>x DEF TypeOK, UnstartedAgree, ListsComplete, Created, Launching,
     Threads, Woken
<1>6. ForegroundAgree'
  BY <1>p, <1>e, <1>x DEF TypeOK, ForegroundAgree, ListsComplete, Created,
     Launching, Threads, Woken
<1>7. StartersAgree'
  <2>1. ASSUME NEW s \in Threads, pc'[s] = "started"
        PROVE  /\ pc[s] = "started" /\ target'[s] = target[s]
               /\ target[s] \in foreground' /\ pc'[target[s]] \in Launching
               /\ "unstarted" \in state'[target[s]]
    <3>1. pc[s] = "started" /\ target'[s] = target[s]
      BY <2>1, <1>e DEF Woken
    <3>2. /\ target[s] \in foreground /\ target[s] \in Threads
          /\ pc[target[s]] \in Launching /\ "unstarted" \in state[target[s]]
      BY <3>1, <1>p DEF StartersAgree, TypeOK, Threads
    <3>3. QED
      BY <3>1, <3>2, <1>p, <1>e, <1>x DEF Launching, Woken
  <2>2. QED
    BY <2>1, <1>p, StartersStay
<1>8. AbortsLate'
  BY <1>p, <1>e, <1>x DEF TypeOK, AbortsLate, Killing, Threads, Woken
<1>9. EventNotStranded'
  BY <1>p, <1>e, <1>x, EventsStay DEF Woken
<1>10. QED
  BY <1>2, <1>3, <1>4, <1>5, <1>6, <1>7, <1>8, <1>9 DEF IInv

(* The native thread ends.                                                 *)
LEMMA StepExit ==
    ASSUME IInv, NEW t \in Threads, Exit(t)
    PROVE  IInv'
<1> USE ThreadsAssumption, ForegroundKept
<1>p. /\ TypeOK /\ ListsComplete /\ PlacesAgree /\ UnstartedAgree
      /\ ForegroundAgree /\ StartersAgree /\ AbortsLate /\ EventNotStranded
  BY DEF IInv
<1>e. /\ pc' \in [Threads -> Places] /\ pc'[t] = "dead" /\ pc[t] = "exiting"
      /\ \A s \in Threads : s # t => pc'[s] = pc[s]
      /\ build' = build
      /\ stateLock' = stateLock
      /\ state' = state
      /\ joined' = joined
      /\ unstarted' = unstarted /\ foregroundThreads' = foregroundThreads
      /\ foreground' = foreground
      /\ target' = target
      /\ signalled' = signalled
      /\ waitFor' = waitFor
      /\ ops' = ops
  BY <1>p DEF TypeOK, Exit, Go, Places, lists
<1>x. t \in Workers
  BY <1>p, <1>e DEF PlacesAgree, Running, MainOnly, Killing, Threads
<1>1. LocksHeld'
  BY <1>p, <1>e, LocksStay DEF Locking
<1>2. TypeOK'
  BY <1>p, <1>e, <1>x, <1>1 DEF TypeOK
<1>3. ListsComplete'
  BY <1>p, <1>e, <1>x DEF ListsComplete, PlacesAgree, Created, Threads
<1>4. PlacesAgree'
  BY <1>p, <1>e, <1>x DEF TypeOK, PlacesAgree, Threads, Running, MainOnly, Killing,
     Aiming
<1>5. UnstartedAgree'
  BY <1>p, <1>e, <1>x DEF TypeOK, UnstartedAgree, ListsComplete, Created, Launching,
     Threads
<1>6. ForegroundAgree'
  BY <1>p, <1>e, <1>x DEF TypeOK, ForegroundAgree, ListsComplete, Created,
     Launching, Threads
<1>7. StartersAgree'
  <2>1. ASSUME NEW s \in Threads, pc'[s] = "started"
        PROVE  /\ pc[s] = "started" /\ target'[s] = target[s]
               /\ target[s] \in foreground' /\ pc'[target[s]] \in Launching
               /\ "unstarted" \in state'[target[s]]
    <3>1. pc[s] = "started" /\ target'[s] = target[s]
      BY <2>1, <1>e
    <3>2. /\ target[s] \in foreground /\ target[s] \in Threads
          /\ pc[target[s]] \in Launching /\ "unstarted" \in state[target[s]]
      BY <3>1, <1>p DEF StartersAgree, TypeOK, Threads
    <3>3. QED
      BY <3>1, <3>2, <1>p, <1>e, <1>x DEF Launching
  <2>2. QED
    BY <2>1, <1>p, StartersStay
<1>8. AbortsLate'
  BY <1>p, <1>e, <1>x DEF TypeOK, AbortsLate, Killing, Threads
<1>9. EventNotStranded'
  BY <1>p, <1>e, <1>x, EventsStay
<1>10. QED
  BY <1>2, <1>3, <1>4, <1>5, <1>6, <1>7, <1>8, <1>9 DEF IInv

(* A join begins.                                                          *)
LEMMA StepJoin ==
    ASSUME IInv, NEW t \in Threads, NEW u \in Threads, Join(t, u)
    PROVE  IInv'
<1> USE ThreadsAssumption, ForegroundKept
<1>p. /\ TypeOK /\ ListsComplete /\ PlacesAgree /\ UnstartedAgree
      /\ ForegroundAgree /\ StartersAgree /\ AbortsLate /\ EventNotStranded
  BY DEF IInv
<1>e. /\ pc' \in [Threads -> Places] /\ pc'[t] = "join" /\ pc[t] = "run"
      /\ \A s \in Threads : s # t => pc'[s] = pc[s]
      /\ target' \in [Threads -> Threads \cup {None}] /\ target'[t] = u
      /\ \A s \in Threads : s # t => target'[s] = target[s]
      /\ ops' \in [Threads -> 0 .. MaxOps]
      /\ build' = build
      /\ stateLock' = stateLock
      /\ state' = state
      /\ joined' = joined
      /\ unstarted' = unstarted /\ foregroundThreads' = foregroundThreads
      /\ foreground' = foreground
      /\ signalled' = signalled
      /\ waitFor' = waitFor
  BY <1>p , EventsAssumption DEF TypeOK, Join, Go, Aim, Places, lists
<1>x. t \in Workers => t \in foreground /\ t \notin unstarted /\ ~joined[t]
                            /\ pc[Main] \notin Killing
  BY <1>e, RunningForeground DEF Running
<1>1. LocksHeld'
  BY <1>p, <1>e, LocksStay DEF Locking
<1>2. TypeOK'
  BY <1>p, <1>e, <1>x, <1>1 DEF TypeOK
<1>3. ListsComplete'
  BY <1>p, <1>e, <1>x DEF ListsComplete, PlacesAgree, Created, Threads
<1>4. PlacesAgree'
  BY <1>p, <1>e, <1>x DEF TypeOK, PlacesAgree, Threads, Running, MainOnly, Killing,
     Aiming
<1>5. UnstartedAgree'
  BY <1>p, <1>e, <1>x DEF TypeOK, UnstartedAgree, ListsComplete, Created, Launching,
     Threads
<1>6. ForegroundAgree'
  BY <1>p, <1>e, <1>x DEF TypeOK, ForegroundAgree, ListsComplete, Created,
     Launching, Threads
<1>7. StartersAgree'
  <2>1. ASSUME NEW s \in Threads, pc'[s] = "started"
        PROVE  /\ pc[s] = "started" /\ target'[s] = target[s]
               /\ target[s] \in foreground' /\ pc'[target[s]] \in Launching
               /\ "unstarted" \in state'[target[s]]
    <3>1. pc[s] = "started" /\ target'[s] = target[s]
      BY <2>1, <1>e
    <3>2. /\ target[s] \in foreground /\ target[s] \in Threads
          /\ pc[target[s]] \in Launching /\ "unstarted" \in state[target[s]]
      BY <3>1, <1>p DEF StartersAgree, TypeOK, Threads
    <3>3. QED
      BY <3>1, <3>2, <1>p, <1>e, <1>x DEF Launching
  <2>2. QED
    BY <2>1, <1>p, StartersStay
<1>8. AbortsLate'
  BY <1>p, <1>e, <1>x DEF TypeOK, AbortsLate, Killing, Threads
<1>9. EventNotStranded'
  BY <1>p, <1>e, <1>x, EventsStay
<1>10. QED
  BY <1>2, <1>3, <1>4, <1>5, <1>6, <1>7, <1>8, <1>9 DEF IInv

(* A join looks at the state, and takes its lock if the thread stopped.    *)
LEMMA StepJoinTest ==
    ASSUME IInv, NEW t \in Threads, JoinTest(t)
    PROVE  IInv'
<1> USE ThreadsAssumption, ForegroundKept
<1>p. /\ TypeOK /\ ListsComplete /\ PlacesAgree /\ UnstartedAgree
      /\ ForegroundAgree /\ StartersAgree /\ AbortsLate /\ EventNotStranded
  BY DEF IInv
<1>e. /\ pc[t] = "join" /\ target[t] \in Threads /\ stateLock[target[t]] = None
      /\ pc' \in [Threads -> Places]
      /\ \A s \in Threads : s # t => pc'[s] = pc[s]
      /\ state' \in [Threads -> SUBSET Bits] /\ state'[t] \in {{}, {"waitsleepjoin"}}
      /\ \A s \in Threads : s # t => state'[s] = state[s]
      /\ stateLock' \in [Threads -> Threads \cup {None}]
      /\ \/ pc'[t] = "joinWait" /\ stateLock' = stateLock
         \/ /\ pc'[t] = "joinNative"
            /\ stateLock' = [stateLock EXCEPT ![target[t]] = t]
      /\ build' = build
      /\ joined' = joined
      /\ unstarted' = unstarted /\ foregroundThreads' = foregroundThreads
      /\ foreground' = foreground
      /\ target' = target
      /\ signalled' = signalled
      /\ waitFor' = waitFor
      /\ ops' = ops
  <2>1. /\ pc[t] = "join" /\ target[t] \in Threads /\ stateLock[target[t]] = None
        /\ UNCHANGED <<build, joined, lists, target, signalled, waitFor, ops>>
    BY <1>p DEF JoinTest, Unlocked, PlacesAgree, Aiming
  <2>2. CASE SetState(t, {"waitsleepjoin"}) /\ Go(t, "joinWait") /\ UNCHANGED stateLock
    BY <2>1, <2>2, <1>p DEF TypeOK, SetState, Go, Places, Bits, lists
  <2>3. CASE /\ SetState(t, {}) /\ Go(t, "joinNative")
             /\ stateLock' = [stateLock EXCEPT ![target[t]] = t]
    BY <2>1, <2>3, <1>p DEF TypeOK, SetState, Go, Places, Bits, lists
  <2>4. QED
    BY <2>2, <2>3 DEF JoinTest
<1>x. t \in Workers => t \in foreground /\ t \notin unstarted /\ ~joined[t]
                            /\ pc[Main] \notin Killing
  BY <1>e, RunningForeground DEF Running
<1>1. LocksHeld'
  <2> SUFFICES ASSUME NEW u \in Threads, stateLock'[u] # None
               PROVE  /\ target'[stateLock'[u]] = u
                      /\ pc'[stateLock'[u]] \in Locking
    BY DEF LocksHeld, Locking
  <2>1. CASE stateLock'[u] = stateLock[u]
    <3>1. stateLock[u] \in Threads /\ target[stateLock[u]] = u
          /\ pc[stateLock[u]] \in Locking
      BY <2>1, <1>p DEF TypeOK, LocksHeld, Locking
    <3>2. QED
      BY <3>1, <2>1, <1>e DEF Locking
  <2>2. CASE stateLock'[u] # stateLock[u]
    BY <2>2, <1>p, <1>e DEF Locking, TypeOK
  <2>3. QED
    BY <2>1, <2>2
<1>2. TypeOK'
  BY <1>p, <1>e, <1>x, <1>1 DEF TypeOK
<1>3. ListsComplete'
  BY <1>p, <1>e, <1>x DEF ListsComplete, PlacesAgree, Created, Threads
<1>4. PlacesAgree'
  BY <1>p, <1>e, <1>x DEF TypeOK, PlacesAgree, Threads, Running, MainOnly, Killing,
     Aiming
<1>5. UnstartedAgree'
  BY <1>p, <1>e, <1>x DEF TypeOK, UnstartedAgree, ListsComplete, Created, Launching,
     Threads
<1>6. ForegroundAgree'
  BY <1>p, <1>e, <1>x DEF TypeOK, ForegroundAgree, ListsComplete, Created,
     Launching, Threads
<1>7. StartersAgree'
  <2>1. ASSUME NEW s \in Threads, pc'[s] = "started"
        PROVE  /\ pc[s] = "started" /\ target'[s] = target[s]
               /\ target[s] \in foreground' /\ pc'[target[s]] \in Launching
               /\ "unstarted" \in state'[target[s]]
    <3>1. pc[s] = "started" /\ target'[s] = target[s]
      BY <2>1, <1>e
    <3>2. /\ target[s] \in foreground /\ target[s] \in Threads
          /\ pc[target[s]] \in Launching /\ "unstarted" \in state[target[s]]
      BY <3>1, <1>p DEF StartersAgree, TypeOK, Threads
    <3>3. QED
      BY <3>1, <3>2, <1>p, <1>e, <1>x DEF Launching
  <2>2. QED
    BY <2>1, <1>p, StartersStay
<1>8. AbortsLate'
  BY <1>p, <1>e, <1>x DEF TypeOK, AbortsLate, Killing, Threads
<1>9. EventNotStranded'
  BY <1>p, <1>e, <1>x, EventsStay
<1>10. QED
  BY <1>2, <1>3, <1>4, <1>5, <1>6, <1>7, <1>8, <1>9 DEF IInv

(* Joining the native thread takes a thread off both lists for good: the   *)
(* bit by which the list is chosen is right, as the thread is dead.        *)
LEMMA JoinNativeLeaves ==
    ASSUME IInv, NEW u \in Threads, JoinNative(u)
    PROVE  /\ joined' \in [Threads -> BOOLEAN]
           /\ unstarted' \subseteq unstarted /\ foreground' \subseteq foreground
           /\ foregroundThreads' \in [Workers -> Nat]
           /\ \A v \in foreground' : foregroundThreads'[v] = 1
           /\ \A v \in Threads : joined[v] => joined'[v]
           /\ \A v \in Threads : joined'[v] => joined[v] \/ pc[v] = "dead"
           /\ \A v \in Workers : v \in unstarted' <=> v \in unstarted /\ ~joined'[v]
           /\ \A v \in Workers : v \in foreground' <=> v \in foreground /\ ~joined'[v]
<1> USE ThreadsAssumption, ForegroundKept
<1>p. /\ TypeOK /\ ListsComplete /\ PlacesAgree /\ UnstartedAgree /\ ForegroundAgree
  BY DEF IInv
<1>1. \A v \in Workers : v \in unstarted \cup foreground => ~joined[v]
  BY <1>p DEF ListsComplete
<1>2. CASE joined[u] /\ UNCHANGED <<joined, lists>>
  BY <1>1, <1>2, <1>p DEF lists, TypeOK, ListsComplete
<1>3. CASE ~joined[u] /\ pc[u] = "dead" /\ joined' = [joined EXCEPT ![u] = TRUE]
           /\ LeaveList(u)
  <2>1. u \in Workers /\ u \in unstarted \cup foreground
    BY <1>3, <1>p DEF PlacesAgree, ListsComplete, Threads, Created, Running, MainOnly,
       Killing
  <2>2. "unstarted" \in state[u] <=> u \in unstarted
    BY <1>3, <2>1, <1>p DEF UnstartedAgree, ForegroundAgree, Launching
  <2>3. CASE u \in unstarted
    <3>1. /\ unstarted' = unstarted \ {u} /\ u \notin foreground
          /\ foregroundThreads' = foregroundThreads /\ foreground' = foreground
      BY <2>2, <2>3, <1>3, <1>p DEF LeaveList, ListsComplete
    <3>2. QED
      BY <3>1, <1>1, <1>3, <1>p DEF TypeOK, Threads, ListsComplete
  <2>4. CASE u \notin unstarted
    <3>1. /\ foregroundThreads' = [foregroundThreads EXCEPT ![u] =
                                     IF @ = 0 THEN 0 ELSE @ - 1]
          /\ unstarted' = unstarted
      BY <2>2, <2>4, <1>3 DEF LeaveList, LeaveForeground
    <3>3. foregroundThreads[u] = 1 /\ foregroundThreads \in [Workers -> Nat]
      BY <2>1, <2>4, <1>p DEF ListsComplete, TypeOK
    <3>4. /\ foreground' = foreground \ {u}
          /\ foregroundThreads' \in [Workers -> Nat]
          /\ \A v \in foreground' : foregroundThreads'[v] = 1
      BY <3>1, <3>3, <2>1, <1>p DEF foreground, ListsComplete
    <3>2. QED
      BY <3>1, <3>4, <2>4, <1>1, <1>3, <1>p DEF TypeOK, Threads
  <2>5. QED
    BY <2>3, <2>4
<1>4. QED
  BY <1>2, <1>3 DEF JoinNative

(* A join ends.                                                            *)
LEMMA StepEndJoin ==
    ASSUME IInv, NEW t \in Threads, EndJoin(t)
    PROVE  IInv'
<1> USE ThreadsAssumption, ForegroundKept
<1>p. /\ TypeOK /\ ListsComplete /\ PlacesAgree /\ UnstartedAgree
      /\ ForegroundAgree /\ StartersAgree /\ AbortsLate /\ EventNotStranded
  BY DEF IInv
<1>e. /\ pc[t] = "joinNative" /\ pc' \in [Threads -> Places] /\ pc'[t] = "run"
      /\ \A s \in Threads : s # t => pc'[s] = pc[s]
      /\ target[t] \in Threads /\ JoinNative(target[t])
      /\ stateLock' \in [Threads -> Threads \cup {None}]
      /\ stateLock' = [stateLock EXCEPT ![target[t]] = None]
      /\ build' = build
      /\ state' = state
      /\ target' = target
      /\ signalled' = signalled
      /\ waitFor' = waitFor
      /\ ops' = ops
  BY <1>p DEF TypeOK, EndJoin, Go, ReleaseLock, Places, PlacesAgree, Aiming
<1>x. /\ joined' \in [Threads -> BOOLEAN]
      /\ unstarted' \subseteq unstarted /\ foreground' \subseteq foreground
      /\ foregroundThreads' \in [Workers -> Nat]
      /\ \A v \in foreground' : foregroundThreads'[v] = 1
      /\ \A v \in Threads : joined[v] => joined'[v]
      /\ \A v \in Threads : joined'[v] => joined[v] \/ pc[v] = "dead"
      /\ \A v \in Workers : v \in unstarted' <=> v \in unstarted /\ ~joined'[v]
      /\ \A v \in Workers : v \in foreground' <=> v \in foreground /\ ~joined'[v]
  BY <1>e, JoinNativeLeaves
<1>1. LocksHeld'
  <2> SUFFICES ASSUME NEW u \in Threads, stateLock'[u] # None
               PROVE  /\ target'[stateLock'[u]] = u
                      /\ pc'[stateLock'[u]] \in Locking
    BY DEF LocksHeld, Locking
  <2>1. u # target[t] /\ stateLock'[u] = stateLock[u]
    BY <1>e, <1>p DEF TypeOK
  <2>2. stateLock[u] \in Threads /\ target[stateLock[u]] = u
        /\ pc[stateLock[u]] \in Locking
    BY <2>1, <1>p DEF TypeOK, LocksHeld, Locking
  <2>3. QED
    BY <2>1, <2>2, <1>e
<1>2. TypeOK'
  BY <1>p, <1>e, <1>x, <1>1 DEF TypeOK
<1>3. ListsComplete'
  <2>1. unstarted' \cap foreground' = {}
    BY <1>p, <1>x DEF ListsComplete
  <2>2. unstarted' \cup foreground' = {v \in Workers : pc'[v] # "new" /\ ~joined'[v]}
    <3>1. \A v \in Workers : pc'[v] = "new" <=> pc[v] = "new"
      BY <1>p, <1>e DEF PlacesAgree, Running, Threads
    <3>2. QED
      BY <3>1, <1>p, <1>x DEF ListsComplete, TypeOK, Threads, Created
  <2>3. QED
    BY <2>1, <2>2, <1>x DEF ListsComplete, Created
<1>4. PlacesAgree'
  BY <1>p, <1>e, <1>x DEF TypeOK, PlacesAgree, Threads, Running, MainOnly, Killing,
     Aiming
<1>5. UnstartedAgree'
  BY <1>p, <1>e, <1>x DEF TypeOK, UnstartedAgree, ListsComplete, Created, Launching,
     Threads
<1>6. ForegroundAgree'
  BY <1>p, <1>e, <1>x DEF TypeOK, ForegroundAgree, ListsComplete, Created,
     Launching, Threads
<1>7. StartersAgree'
  <2>1. ASSUME NEW s \in Threads, pc'[s] = "started"
        PROVE  /\ pc[s] = "started" /\ target'[s] = target[s]
               /\ target[s] \in foreground' /\ pc'[target[s]] \in Launching
               /\ "unstarted" \in state'[target[s]]
    <3>1. pc[s] = "started" /\ target'[s] = target[s]
      BY <2>1, <1>e
    <3>2. /\ target[s] \in foreground /\ target[s] \in Threads
          /\ pc[target[s]] \in Launching /\ "unstarted" \in state[target[s]]
      BY <3>1, <1>p DEF StartersAgree, TypeOK, Threads
    <3>x. target[s] \in Workers /\ ~joined'[target[s]]
      BY <2>1, <3>1, <3>2, <1>p, <1>e, <1>x DEF Launching, TypeOK, PlacesAgree,
         StartersAgree
    <3>3. QED
      BY <3>1, <3>2, <3>x, <1>p, <1>e, <1>x DEF Launching
  <2>2. QED
    BY <2>1, <1>p, StartersStay
<1>8. AbortsLate'
  BY <1>p, <1>e, <1>x DEF TypeOK, AbortsLate, Killing, Threads
<1>9. EventNotStranded'
  BY <1>p, <1>e, <1>x, EventsStay
<1>10. QED
  BY <1>2, <1>3, <1>4, <1>5, <1>6, <1>7, <1>8, <1>9 DEF IInv

(* An event is signalled, and those it is for are woken.                   *)
LEMMA StepSignal ==
    ASSUME IInv, NEW t \in Threads, NEW e \in Events, Signal(t, e)
    PROVE  IInv'
<1> USE ThreadsAssumption, ForegroundKept
<1>p. /\ TypeOK /\ ListsComplete /\ PlacesAgree /\ UnstartedAgree
      /\ ForegroundAgree /\ StartersAgree /\ AbortsLate /\ EventNotStranded
  BY DEF IInv
<1>e. /\ pc[t] = "run" /\ pc' \in [Threads -> Places]
      /\ signalled' = [signalled EXCEPT ![e] = TRUE]
      /\ signalled' \in [Events -> BOOLEAN]
      /\ \A s \in Threads : \/ pc'[s] = pc[s]
                            \/ s \in Sleepers(e) /\ pc[s] = "eventWait" /\ pc'[s] = "event"
      /\ e \in ManualEvents => \A s \in Sleepers(e) : pc'[s] = "event"
      /\ e \notin ManualEvents /\ Sleepers(e) # {} => \E s \in Sleepers(e) : pc'[s] = "event"
      /\ ops' \in [Threads -> 0 .. MaxOps]
      /\ build' = build
      /\ stateLock' = stateLock
      /\ state' = state
      /\ joined' = joined
      /\ unstarted' = unstarted /\ foregroundThreads' = foregroundThreads
      /\ foreground' = foreground
      /\ target' = target
      /\ waitFor' = waitFor
  <2>1. /\ pc[t] = "run" /\ signalled' = [signalled EXCEPT ![e] = TRUE]
        /\ ops[t] < MaxOps /\ ops' = [ops EXCEPT ![t] = @ + 1]
        /\ UNCHANGED <<build, state, stateLock, joined, lists, target, waitFor>>
    BY DEF Signal
  <2>2. signalled' \in [Events -> BOOLEAN] /\ ops' \in [Threads -> 0 .. MaxOps]
    BY <1>p, <2>1, EventsAssumption DEF TypeOK
  <2>3. /\ pc' \in [Threads -> Places]
        /\ \A s \in Threads :
              \/ pc'[s] = pc[s]
              \/ s \in Sleepers(e) /\ pc[s] = "eventWait" /\ pc'[s] = "event"
        /\ e \in ManualEvents => \A s \in Sleepers(e) : pc'[s] = "event"
        /\ e \notin ManualEvents /\ Sleepers(e) # {} =>
              \E s \in Sleepers(e) : pc'[s] = "event"
    <3>1. CASE e \in ManualEvents
      BY <3>1, <1>p DEF TypeOK, Signal, WakeAll, Sleepers, Places
    <3>2. CASE e \notin ManualEvents
      <4>1. WakeOne(e)
        BY <3>2 DEF Signal
      <4>2. CASE Sleepers(e) = {}
        BY <4>1, <4>2, <3>2, <1>p DEF TypeOK, WakeOne
      <4>3. CASE Sleepers(e) # {}
        <5>1. PICK s \in Sleepers(e) : pc' = [pc EXCEPT ![s] = "event"]
          BY <4>1, <4>3 DEF WakeOne, Go
        <5>2. s \in Threads /\ pc[s] = "eventWait"
          BY DEF Sleepers
        <5>3. QED
          BY <5>1, <5>2, <3>2, <1>p DEF TypeOK, Places
      <4>4. QED
        BY <4>2, <4>3
    <3>3. QED
      BY <3>1, <3>2
  <2>4. QED
    BY <2>1, <2>2, <2>3 DEF lists
<1>1. LocksHeld'
  BY <1>p, <1>e, LocksStay DEF Locking
<1>2. TypeOK'
  BY <1>p, <1>e, <1>1 DEF TypeOK
<1>3. ListsComplete'
  BY <1>p, <1>e DEF ListsComplete, PlacesAgree, Created, Threads
<1>4. PlacesAgree'
  BY <1>p, <1>e DEF TypeOK, PlacesAgree, Threads, Running, MainOnly, Killing, Aiming
<1>5. UnstartedAgree'
  BY <1>p, <1>e DEF TypeOK, UnstartedAgree, ListsComplete, Created, Launching, Threads
<1>6. ForegroundAgree'
  BY <1>p, <1>e DEF TypeOK, ForegroundAgree, ListsComplete, Created, Launching,
     Threads
<1>7. StartersAgree'
  <2>1. ASSUME NEW s \in Threads, pc'[s] = "started"
        PROVE  /\ pc[s] = "started" /\ target'[s] = target[s]
               /\ target[s] \in foreground' /\ pc'[target[s]] \in Launching
               /\ "unstarted" \in state'[target[s]]
    <3>1. pc[s] = "started" /\ target'[s] = target[s]
      BY <2>1, <1>e
    <3>2. /\ target[s] \in foreground /\ target[s] \in Threads
          /\ pc[target[s]] \in Launching /\ "unstarted" \in state[target[s]]
      BY <3>1, <1>p DEF StartersAgree, TypeOK, Threads
    <3>3. QED
      BY <3>1, <3>2, <1>p, <1>e DEF Launching
  <2>2. QED
    BY <2>1, <1>p, StartersStay
<1>8. AbortsLate'
  BY <1>p, <1>e DEF TypeOK, AbortsLate, Killing, Threads
<1>9. EventNotStranded'
  <2> SUFFICES ASSUME NEW f \in Events, signalled'[f], Sleepers(f)' # {}
               PROVE  /\ f \notin ManualEvents
                      /\ \E s \in Threads : pc'[s] = "event" /\ Head(waitFor'[s]) = f
    BY DEF EventNotStranded
  <2>1. \A s \in Sleepers(f)' : s \in Threads /\ pc[s] = "eventWait" /\ pc'[s] = "eventWait"
                              /\ s \in Sleepers(f)
    BY <1>e DEF Sleepers
  <2>2. CASE f = e
    <3>1. f \notin ManualEvents
      BY <2>1, <2>2, <1>e
    <3>2. PICK s \in Sleepers(e) : pc'[s] = "event"
      BY <3>1, <2>1, <2>2, <1>e
    <3>3. QED
      BY <3>1, <3>2, <2>2, <1>e DEF Sleepers
  <2>3. CASE f # e
    <3>1. signalled[f] /\ Sleepers(f) # {}
      BY <2>1, <2>3, <1>e, <1>p DEF TypeOK
    <3>2. /\ f \notin ManualEvents
          /\ \E s \in Threads : pc[s] = "event" /\ Head(waitFor[s]) = f
      BY <3>1, <1>p DEF EventNotStranded
    <3>3. QED
      BY <3>2, <1>e
  <2>4. QED
    BY <2>2, <2>3
<1>10. QED
  BY <1>2, <1>3, <1>4, <1>5, <1>6, <1>7, <1>8, <1>9 DEF IInv

(* A wait for events begins.                                               *)
LEMMA StepWaitEvents ==
    ASSUME IInv, NEW t \in Threads, NEW events \in Seq(Events), events # <<>>, WaitEvents(t, events)
    PROVE  IInv'
<1> USE ThreadsAssumption, ForegroundKept
<1>p. /\ TypeOK /\ ListsComplete /\ PlacesAgree /\ UnstartedAgree
      /\ ForegroundAgree /\ StartersAgree /\ AbortsLate /\ EventNotStranded
  BY DEF IInv
<1>e. /\ pc[t] = "run" /\ pc' \in [Threads -> Places] /\ pc'[t] = "event"
      /\ \A s \in Threads : s # t => pc'[s] = pc[s]
      /\ state' \in [Threads -> SUBSET Bits] /\ state'[t] \in {{}, {"waitsleepjoin"}}
      /\ \A s \in Threads : s # t => state'[s] = state[s]
      /\ waitFor' \in [Threads -> Seq(Events)] /\ waitFor'[t] = events
      /\ \A s \in Threads : s # t => waitFor'[s] = waitFor[s]
      /\ ops' \in [Threads -> 0 .. MaxOps]
      /\ build' = build
      /\ stateLock' = stateLock
      /\ joined' = joined
      /\ unstarted' = unstarted /\ foregroundThreads' = foregroundThreads
      /\ foreground' = foreground
      /\ target' = target
      /\ signalled' = signalled
  BY <1>p, EventsAssumption DEF TypeOK, WaitEvents, Go, SetState, Places, Bits, lists
<1>x. t \in Workers => t \in foreground /\ t \notin unstarted /\ ~joined[t]
                            /\ pc[Main] \notin Killing
  BY <1>e, RunningForeground DEF Running
<1>1. LocksHeld'
  BY <1>p, <1>e, LocksStay DEF Locking
<1>2. TypeOK'
  BY <1>p, <1>e, <1>x, <1>1 DEF TypeOK
<1>3. ListsComplete'
  <2>1. \A v \in Workers : Created(v)' <=> Created(v)
    BY <1>e DEF Created, Threads
  <2>2. QED
    BY <2>1, <1>p, <1>e DEF ListsComplete
<1>4. PlacesAgree'
  BY <1>p, <1>e, <1>x, SMTT(30) DEF TypeOK, PlacesAgree, Threads, Running, MainOnly, Killing,
     Aiming
<1>5. UnstartedAgree'
  BY <1>p, <1>e, <1>x DEF TypeOK, UnstartedAgree, ListsComplete, Created, Launching,
     Threads
<1>6. ForegroundAgree'
  BY <1>p, <1>e, <1>x DEF TypeOK, ForegroundAgree, ListsComplete, Created,
     Launching, Threads
<1>7. StartersAgree'
  <2>1. ASSUME NEW s \in Threads, pc'[s] = "started"
        PROVE  /\ pc[s] = "started" /\ target'[s] = target[s]
               /\ target[s] \in foreground' /\ pc'[target[s]] \in Launching
               /\ "unstarted" \in state'[target[s]]
    <3>1. pc[s] = "started" /\ target'[s] = target[s]
      BY <2>1, <1>e
    <3>2. /\ target[s] \in foreground /\ target[s] \in Threads
          /\ pc[target[s]] \in Launching /\ "unstarted" \in state[target[s]]
      BY <3>1, <1>p DEF StartersAgree, TypeOK, Threads
    <3>3. QED
      BY <3>1, <3>2, <1>p, <1>e, <1>x DEF Launching
  <2>2. QED
    BY <2>1, <1>p, StartersStay
<1>8. AbortsLate'
  BY <1>p, <1>e, <1>x DEF TypeOK, AbortsLate, Killing, Threads
<1>9. EventNotStranded'
  BY <1>p, <1>e, <1>x, EventsStay
<1>10. QED
  BY <1>2, <1>3, <1>4, <1>5, <1>6, <1>7, <1>8, <1>9 DEF IInv

(* A thread that waits looks at the event, and takes the signal.           *)
LEMMA StepEventTest ==
    ASSUME IInv, NEW t \in Threads, EventTest(t)
    PROVE  IInv'
<1> USE ThreadsAssumption, ForegroundKept
<1>p. /\ TypeOK /\ ListsComplete /\ PlacesAgree /\ UnstartedAgree
      /\ ForegroundAgree /\ StartersAgree /\ AbortsLate /\ EventNotStranded
  BY DEF IInv
<1>e. /\ pc[t] = "event" /\ pc' \in [Threads -> Places] /\ pc'[t] \in {"run", "event", "eventWait"}
      /\ \A s \in Threads : s # t => pc'[s] = pc[s]
      /\ state' \in [Threads -> SUBSET Bits] /\ state'[t] \in {state[t], {}}
      /\ \A s \in Threads : s # t => state'[s] = state[s]
      /\ waitFor' \in [Threads -> Seq(Events)] /\ signalled' \in [Events -> BOOLEAN]
      /\ \A s \in Threads : s # t => waitFor'[s] = waitFor[s]
      /\ pc'[t] # "run" => waitFor'[t] # <<>>
      /\ pc'[t] = "eventWait" => waitFor' = waitFor /\ ~signalled[Head(waitFor[t])]
      /\ pc'[t] # "eventWait" => ~signalled'[Head(waitFor[t])] \/ Head(waitFor[t]) \in ManualEvents
      /\ \A e \in Events : signalled'[e] => signalled[e]
      /\ build' = build
      /\ stateLock' = stateLock
      /\ joined' = joined
      /\ unstarted' = unstarted /\ foregroundThreads' = foregroundThreads
      /\ foreground' = foreground
      /\ target' = target
      /\ ops' = ops
  <2>1. /\ pc[t] = "event"
        /\ UNCHANGED <<build, stateLock, joined, lists, target, ops>>
    BY DEF EventTest
  <2>2. waitFor[t] \in Seq(Events) /\ waitFor[t] # <<>> /\ Head(waitFor[t]) \in Events
    BY <2>1, <1>p DEF TypeOK, PlacesAgree
  <2>3. CASE /\ ~signalled[Head(waitFor[t])] /\ Go(t, "eventWait")
             /\ UNCHANGED <<signalled, waitFor, state>>
    BY <2>1, <2>2, <2>3, <1>p DEF TypeOK, Go, Places, lists
  <2>4. CASE /\ signalled[Head(waitFor[t])] /\ Reset(Head(waitFor[t]))
             /\ waitFor' = [waitFor EXCEPT ![t] = Tail(@)]
             /\ IF Len(waitFor[t]) = 1
                  THEN Go(t, "run") /\ SetState(t, {})
                  ELSE UNCHANGED <<pc, state>>
    <3>1. /\ Tail(waitFor[t]) \in Seq(Events)
          /\ Len(waitFor[t]) # 1 => Tail(waitFor[t]) # <<>>
      <4>1. Len(waitFor[t]) \in Nat \ {0}
        BY <2>2, EmptySeq
      <4>2. /\ Tail(waitFor[t]) \in Seq(Events)
            /\ Len(Tail(waitFor[t])) = Len(waitFor[t]) - 1
        BY <2>2, <4>1
      <4>3. Tail(waitFor[t]) = <<>> <=> Len(Tail(waitFor[t])) = 0
        BY <4>2, EmptySeq
      <4>4. QED
        BY <4>1, <4>2, <4>3
    <3>2. /\ waitFor' \in [Threads -> Seq(Events)] /\ waitFor'[t] = Tail(waitFor[t])
          /\ \A s \in Threads : s # t => waitFor'[s] = waitFor[s]
      BY <2>4, <3>1, <1>p DEF TypeOK
    <3>3. /\ signalled' \in [Events -> BOOLEAN]
          /\ ~signalled'[Head(waitFor[t])] \/ Head(waitFor[t]) \in ManualEvents
          /\ \A e \in Events : signalled'[e] => signalled[e]
      <4>1. signalled' = [signalled EXCEPT ![Head(waitFor[t])]
                                             = Head(waitFor[t]) \in ManualEvents]
        BY <2>4 DEF Reset
      <4>2. signalled \in [Events -> BOOLEAN]
        BY <1>p DEF TypeOK
      <4>3. signalled' \in [Events -> BOOLEAN]
        BY <4>1, <4>2, <2>2
      <4>4. signalled'[Head(waitFor[t])] <=> Head(waitFor[t]) \in ManualEvents
        BY <4>1, <4>2, <2>2
      <4>5. \A e \in Events : e # Head(waitFor[t]) => signalled'[e] = signalled[e]
        BY <4>1, <4>2, <2>2
      <4>6. \A e \in Events : signalled'[e] => signalled[e]
        BY <4>5, <2>4
      <4>7. QED
        BY <4>3, <4>4, <4>6
    <3>4. CASE Len(waitFor[t]) = 1
      BY <2>1, <2>4, <3>2, <3>3, <3>4, <1>p, ZenonT(40) DEF TypeOK, Go, SetState, Places, lists
    <3>5. CASE Len(waitFor[t]) # 1
      BY <2>1, <2>4, <3>1, <3>2, <3>3, <3>5, <1>p DEF TypeOK, lists
    <3>6. QED
      BY <3>4, <3>5
  <2>5. QED
    BY <2>3, <2>4 DEF EventTest
<1>x. t \in Workers => t \in foreground /\ t \notin unstarted /\ ~joined[t]
                            /\ pc[Main] \notin Killing
  BY <1>e, RunningForeground DEF Running
<1>1. LocksHeld'
  BY <1>p, <1>e, LocksStay DEF Locking
<1>2. TypeOK'
  BY <1>p, <1>e, <1>x, <1>1 DEF TypeOK
<1>3. ListsComplete'
  BY <1>p, <1>e, <1>x DEF ListsComplete, PlacesAgree, Created, Threads
<1>4. PlacesAgree'
  BY <1>p, <1>e, <1>x DEF TypeOK, PlacesAgree, Threads, Running, MainOnly, Killing,
     Aiming
<1>5. UnstartedAgree'
  BY <1>p, <1>e, <1>x DEF TypeOK, UnstartedAgree, ListsComplete, Created, Launching,
     Threads
<1>6. ForegroundAgree'
  BY <1>p, <1>e, <1>x DEF TypeOK, ForegroundAgree, ListsComplete, Created,
     Launching, Threads
<1>7. StartersAgree'
  <2>1. ASSUME NEW s \in Threads, pc'[s] = "started"
        PROVE  /\ pc[s] = "started" /\ target'[s] = target[s]
               /\ target[s] \in foreground' /\ pc'[target[s]] \in Launching
               /\ "unstarted" \in state'[target[s]]
    <3>1. pc[s] = "started" /\ target'[s] = target[s]
      BY <2>1, <1>e
    <3>2. /\ target[s] \in foreground /\ target[s] \in Threads
          /\ pc[target[s]] \in Launching /\ "unstarted" \in state[target[s]]
      BY <3>1, <1>p DEF StartersAgree, TypeOK, Threads
    <3>3. QED
      BY <3>1, <3>2, <1>p, <1>e, <1>x DEF Launching
  <2>2. QED
    BY <2>1, <1>p, StartersStay
<1>8. AbortsLate'
  BY <1>p, <1>e, <1>x DEF TypeOK, AbortsLate, Killing, Threads
<1>9. EventNotStranded'
  <2> SUFFICES ASSUME NEW f \in Events, signalled'[f], Sleepers(f)' # {}
               PROVE  /\ f \notin ManualEvents
                      /\ \E s \in Threads : pc'[s] = "event" /\ Head(waitFor'[s]) = f
    BY DEF EventNotStranded
  <2>1. signalled[f]
    BY <1>e
  <2>2. PICK r \in Threads : pc'[r] = "eventWait" /\ Head(waitFor'[r]) = f
    BY DEF Sleepers
  <2>3. r # t
    BY <2>1, <2>2, <1>e
  <2>4. Sleepers(f) # {}
    BY <2>2, <2>3, <1>e DEF Sleepers
  <2>5. PICK s \in Threads : pc[s] = "event" /\ Head(waitFor[s]) = f
    BY <2>1, <2>4, <1>p DEF EventNotStranded
  <2>6. f \notin ManualEvents
    BY <2>1, <2>4, <1>p DEF EventNotStranded
  <2>7. s # t
    <3> SUFFICES ASSUME s = t PROVE FALSE
      OBVIOUS
    <3>1. pc'[t] # "eventWait"
      BY <2>1, <2>5, <1>e
    <3>2. QED
      BY <3>1, <2>5, <2>6, <1>e
  <2>8. QED
    BY <2>5, <2>6, <2>7, <1>e
<1>10. QED
  BY <1>2, <1>3, <1>4, <1>5, <1>6, <1>7, <1>8, <1>9 DEF IInv

(* tm_waitThreads chooses a foreground thread, or goes on to the           *)
(* unstarted.                                                              *)
LEMMA StepWaitForeground ==
    ASSUME IInv, WaitForeground
    PROVE  IInv'
<1> USE ThreadsAssumption, ForegroundKept
<1>p. /\ TypeOK /\ ListsComplete /\ PlacesAgree /\ UnstartedAgree
      /\ ForegroundAgree /\ StartersAgree /\ AbortsLate /\ EventNotStranded
  BY DEF IInv
<1>e. /\ pc[Main] = "waitThreads" /\ pc' \in [Threads -> Places]
      /\ \A s \in Threads : s # Main => pc'[s] = pc[s]
      /\ state' \in [Threads -> SUBSET Bits] /\ state'[Main] \in {state[Main], {"waitsleepjoin"}}
      /\ \A s \in Threads : s # Main => state'[s] = state[s]
      /\ target' \in [Threads -> Threads \cup {None}]
      /\ \A s \in Threads : s # Main => target'[s] = target[s]
      /\ \/ pc'[Main] = "foreground" /\ target'[Main] \in Threads
         \/ pc'[Main] = "killThreads" /\ foreground = {}
      /\ build' = build
      /\ stateLock' = stateLock
      /\ joined' = joined
      /\ unstarted' = unstarted /\ foregroundThreads' = foregroundThreads
      /\ foreground' = foreground
      /\ signalled' = signalled
      /\ waitFor' = waitFor
      /\ ops' = ops
  BY <1>p DEF TypeOK, WaitForeground, Go, Aim, SetState, Places, Bits, lists, Threads
<1>x. Main \in Threads /\ Main \notin unstarted /\ Main \notin foreground
  BY <1>p DEF TypeOK, Threads
<1>1. LocksHeld'
  BY <1>p, <1>e, LocksStay DEF Locking
<1>2. TypeOK'
  BY <1>p, <1>e, <1>x, <1>1 DEF TypeOK
<1>3. ListsComplete'
  BY <1>p, <1>e, <1>x DEF ListsComplete, PlacesAgree, Created, Threads
<1>4. PlacesAgree'
  BY <1>p, <1>e, <1>x DEF TypeOK, PlacesAgree, Threads, Running, MainOnly, Killing,
     Aiming
<1>5. UnstartedAgree'
  BY <1>p, <1>e, <1>x DEF TypeOK, UnstartedAgree, ListsComplete, Created, Launching,
     Threads
<1>6. ForegroundAgree'
  BY <1>p, <1>e, <1>x DEF TypeOK, ForegroundAgree, ListsComplete, Created,
     Launching, Threads
<1>7. StartersAgree'
  <2>1. ASSUME NEW s \in Threads, pc'[s] = "started"
        PROVE  /\ pc[s] = "started" /\ target'[s] = target[s]
               /\ target[s] \in foreground' /\ pc'[target[s]] \in Launching
               /\ "unstarted" \in state'[target[s]]
    <3>1. pc[s] = "started" /\ target'[s] = target[s]
      BY <2>1, <1>e
    <3>2. /\ target[s] \in foreground /\ target[s] \in Threads
          /\ pc[target[s]] \in Launching /\ "unstarted" \in state[target[s]]
      BY <3>1, <1>p DEF StartersAgree, TypeOK, Threads
    <3>3. QED
      BY <3>1, <3>2, <1>p, <1>e, <1>x DEF Launching
  <2>2. QED
    BY <2>1, <1>p, StartersStay
<1>8. AbortsLate'
  BY <1>p, <1>e, <1>x DEF TypeOK, AbortsLate, Killing, Threads
<1>9. EventNotStranded'
  BY <1>p, <1>e, <1>x, EventsStay
<1>10. QED
  BY <1>2, <1>3, <1>4, <1>5, <1>6, <1>7, <1>8, <1>9 DEF IInv

(* tm_waitThreads looks at the state of the thread it waits for.           *)
LEMMA StepWaitState ==
    ASSUME IInv, 
           \/ WaitState("foreground", "foregroundWait", "stopped", "foregroundNative")
           \/ WaitState("kill", "killWait", "aborted", "killNative")
    PROVE  IInv'
<1> USE ThreadsAssumption, ForegroundKept
<1>p. /\ TypeOK /\ ListsComplete /\ PlacesAgree /\ UnstartedAgree
      /\ ForegroundAgree /\ StartersAgree /\ AbortsLate /\ EventNotStranded
  BY DEF IInv
<1>e. /\ pc' \in [Threads -> Places] /\ target[Main] \in Threads
      /\ stateLock[target[Main]] = None
      /\ \A s \in Threads : s # Main => pc'[s] = pc[s]
      /\ \/ pc[Main] = "foreground" /\ pc'[Main] \in {"foregroundWait", "foregroundNative"}
         \/ pc[Main] = "kill" /\ pc'[Main] \in {"killWait", "killNative"}
      /\ stateLock' \in [Threads -> Threads \cup {None}]
      /\ \/ stateLock' = stateLock
         \/ /\ stateLock' = [stateLock EXCEPT ![target[Main]] = Main]
            /\ pc'[Main] \in Locking
      /\ build' = build
      /\ state' = state
      /\ joined' = joined
      /\ unstarted' = unstarted /\ foregroundThreads' = foregroundThreads
      /\ foreground' = foreground
      /\ target' = target
      /\ signalled' = signalled
      /\ waitFor' = waitFor
      /\ ops' = ops
  BY <1>p, SMTT(60) DEF TypeOK, WaitState, Go, Unlocked, Places, lists, PlacesAgree, Aiming,
     Threads, Locking
<1>x. Main \in Threads /\ Main \notin unstarted /\ Main \notin foreground
  BY <1>p DEF TypeOK, Threads
<1>1. LocksHeld'
  <2> SUFFICES ASSUME NEW u \in Threads, stateLock'[u] # None
               PROVE  /\ target'[stateLock'[u]] = u
                      /\ pc'[stateLock'[u]] \in Locking
    BY DEF LocksHeld, Locking
  <2>1. CASE stateLock'[u] = stateLock[u]
    <3>1. stateLock[u] \in Threads /\ target[stateLock[u]] = u
          /\ pc[stateLock[u]] \in Locking
      BY <2>1, <1>p DEF TypeOK, LocksHeld, Locking
    <3>2. QED
      BY <3>1, <2>1, <1>e DEF Locking
  <2>2. CASE stateLock'[u] # stateLock[u]
    BY <2>2, <1>p, <1>e DEF Locking, TypeOK
  <2>3. QED
    BY <2>1, <2>2
<1>2. TypeOK'
  BY <1>p, <1>e, <1>x, <1>1 DEF TypeOK
<1>3. ListsComplete'
  BY <1>p, <1>e, <1>x DEF ListsComplete, PlacesAgree, Created, Threads
<1>4. PlacesAgree'
  BY <1>p, <1>e, <1>x DEF TypeOK, PlacesAgree, Threads, Running, MainOnly, Killing,
     Aiming
<1>5. UnstartedAgree'
  BY <1>p, <1>e, <1>x DEF TypeOK, UnstartedAgree, ListsComplete, Created, Launching,
     Threads
<1>6. ForegroundAgree'
  BY <1>p, <1>e, <1>x DEF TypeOK, ForegroundAgree, ListsComplete, Created,
     Launching, Threads
<1>7. StartersAgree'
  <2>1. ASSUME NEW s \in Threads, pc'[s] = "started"
        PROVE  /\ pc[s] = "started" /\ target'[s] = target[s]
               /\ target[s] \in foreground' /\ pc'[target[s]] \in Launching
               /\ "unstarted" \in state'[target[s]]
    <3>1. pc[s] = "started" /\ target'[s] = target[s]
      BY <2>1, <1>e
    <3>2. /\ target[s] \in foreground /\ target[s] \in Threads
          /\ pc[target[s]] \in Launching /\ "unstarted" \in state[target[s]]
      BY <3>1, <1>p DEF StartersAgree, TypeOK, Threads
    <3>3. QED
      BY <3>1, <3>2, <1>p, <1>e, <1>x DEF Launching
  <2>2. QED
    BY <2>1, <1>p, StartersStay
<1>8. AbortsLate'
  BY <1>p, <1>e, <1>x DEF TypeOK, AbortsLate, Killing, Threads
<1>9. EventNotStranded'
  BY <1>p, <1>e, <1>x, EventsStay
<1>10. QED
  BY <1>2, <1>3, <1>4, <1>5, <1>6, <1>7, <1>8, <1>9 DEF IInv

(* tm_waitThreads joins the native thread.                                 *)
LEMMA StepJoinState ==
    ASSUME IInv, 
           \/ JoinState("foregroundNative", "waitThreads")
           \/ JoinState("killNative", "killThreads")
    PROVE  IInv'
<1> USE ThreadsAssumption, ForegroundKept
<1>p. /\ TypeOK /\ ListsComplete /\ PlacesAgree /\ UnstartedAgree
      /\ ForegroundAgree /\ StartersAgree /\ AbortsLate /\ EventNotStranded
  BY DEF IInv
<1>e. /\ pc' \in [Threads -> Places] /\ Main \in Threads
      /\ \/ pc[Main] = "foregroundNative" /\ pc'[Main] = "waitThreads"
         \/ pc[Main] = "killNative" /\ pc'[Main] = "killThreads"
      /\ Main \notin unstarted /\ Main \notin foreground
      /\ \A s \in Threads : s # Main => pc'[s] = pc[s]
      /\ state' \in [Threads -> SUBSET Bits] /\ state'[Main] \in {{}, {"waitsleepjoin"}}
      /\ \A s \in Threads : s # Main => state'[s] = state[s]
      /\ target[Main] \in Threads /\ JoinNative(target[Main])
      /\ stateLock' \in [Threads -> Threads \cup {None}]
      /\ stateLock' = [stateLock EXCEPT ![target[Main]] = None]
      /\ build' = build
      /\ target' = target
      /\ signalled' = signalled
      /\ waitFor' = waitFor
      /\ ops' = ops
  <2>1. \E place, next \in Places :
          /\ JoinState(place, next)
          /\ \/ place = "foregroundNative" /\ next = "waitThreads"
             \/ place = "killNative" /\ next = "killThreads"
    BY DEF Places
  <2>2. PICK place, next \in Places :
          /\ JoinState(place, next)
          /\ \/ place = "foregroundNative" /\ next = "waitThreads"
             \/ place = "killNative" /\ next = "killThreads"
    BY <2>1
  <2>3. Main \in Threads /\ Main \notin unstarted /\ Main \notin foreground
    BY <1>p DEF TypeOK, Threads
  <2>4. pc[Main] = place /\ target[Main] \in Threads
    BY <2>2, <2>3, <1>p DEF JoinState, PlacesAgree, Aiming
  <2>5. QED
    BY <2>2, <2>3, <2>4, <1>p DEF TypeOK, JoinState, Go, SetState, ReleaseLock, Bits
<1>x. /\ joined' \in [Threads -> BOOLEAN]
      /\ unstarted' \subseteq unstarted /\ foreground' \subseteq foreground
      /\ foregroundThreads' \in [Workers -> Nat]
      /\ \A v \in foreground' : foregroundThreads'[v] = 1
      /\ \A v \in Threads : joined[v] => joined'[v]
      /\ \A v \in Threads : joined'[v] => joined[v] \/ pc[v] = "dead"
      /\ \A v \in Workers : v \in unstarted' <=> v \in unstarted /\ ~joined'[v]
      /\ \A v \in Workers : v \in foreground' <=> v \in foreground /\ ~joined'[v]
  BY <1>e, JoinNativeLeaves
<1>1. LocksHeld'
  <2> SUFFICES ASSUME NEW u \in Threads, stateLock'[u] # None
               PROVE  /\ target'[stateLock'[u]] = u
                      /\ pc'[stateLock'[u]] \in Locking
    BY DEF LocksHeld, Locking
  <2>1. u # target[Main] /\ stateLock'[u] = stateLock[u]
    BY <1>e, <1>p DEF TypeOK
  <2>2. stateLock[u] \in Threads /\ target[stateLock[u]] = u
        /\ pc[stateLock[u]] \in Locking
    BY <2>1, <1>p DEF TypeOK, LocksHeld, Locking
  <2>3. QED
    BY <2>1, <2>2, <1>e
<1>2. TypeOK'
  BY <1>p, <1>e, <1>x, <1>1 DEF TypeOK
<1>3. ListsComplete'
  <2>1. unstarted' \cap foreground' = {}
    BY <1>p, <1>x DEF ListsComplete
  <2>2. unstarted' \cup foreground' = {v \in Workers : pc'[v] # "new" /\ ~joined'[v]}
    <3>1. \A v \in Workers : pc'[v] = "new" <=> pc[v] = "new"
      BY <1>p, <1>e DEF PlacesAgree, Running, Threads
    <3>2. QED
      BY <3>1, <1>p, <1>x DEF ListsComplete, TypeOK, Threads, Created
  <2>3. QED
    BY <2>1, <2>2, <1>x DEF ListsComplete, Created
<1>4. PlacesAgree'
  <2>1. \A v \in Workers : joined'[v] => pc'[v] = "dead"
    BY <1>p, <1>e, <1>x DEF PlacesAgree, Threads
  <2>2. QED
    BY <2>1, <1>p, <1>e DEF TypeOK, PlacesAgree, Threads, Running, MainOnly, Killing,
       Aiming
<1>5. UnstartedAgree'
  BY <1>p, <1>e, <1>x DEF TypeOK, UnstartedAgree, ListsComplete, Created, Launching,
     Threads
<1>6. ForegroundAgree'
  BY <1>p, <1>e, <1>x DEF TypeOK, ForegroundAgree, ListsComplete, Created,
     Launching, Threads
<1>7. StartersAgree'
  <2>1. ASSUME NEW s \in Threads, pc'[s] = "started"
        PROVE  /\ pc[s] = "started" /\ target'[s] = target[s]
               /\ target[s] \in foreground' /\ pc'[target[s]] \in Launching
               /\ "unstarted" \in state'[target[s]]
    <3>1. pc[s] = "started" /\ target'[s] = target[s]
      BY <2>1, <1>e
    <3>2. /\ target[s] \in foreground /\ target[s] \in Threads
          /\ pc[target[s]] \in Launching /\ "unstarted" \in state[target[s]]
      BY <3>1, <1>p DEF StartersAgree, TypeOK, Threads
    <3>x. target[s] \in Workers /\ ~joined'[target[s]]
      BY <2>1, <3>1, <3>2, <1>p, <1>e, <1>x DEF Launching, TypeOK, PlacesAgree,
         StartersAgree
    <3>3. QED
      BY <3>1, <3>2, <3>x, <1>p, <1>e, <1>x DEF Launching
  <2>2. QED
    BY <2>1, <1>p, StartersStay
<1>8. AbortsLate'
  BY <1>p, <1>e, <1>x DEF TypeOK, AbortsLate, Killing, Threads
<1>9. EventNotStranded'
  BY <1>p, <1>e, <1>x, EventsStay
<1>10. QED
  BY <1>2, <1>3, <1>4, <1>5, <1>6, <1>7, <1>8, <1>9 DEF IInv

(* tm_waitThreads chooses an unstarted thread, or is done.                 *)
LEMMA StepKillUnstarted ==
    ASSUME IInv, KillUnstarted
    PROVE  IInv'
<1> USE ThreadsAssumption, ForegroundKept
<1>p. /\ TypeOK /\ ListsComplete /\ PlacesAgree /\ UnstartedAgree
      /\ ForegroundAgree /\ StartersAgree /\ AbortsLate /\ EventNotStranded
  BY DEF IInv
<1>e. /\ pc[Main] = "killThreads" /\ pc' \in [Threads -> Places]
      /\ \A s \in Threads : s # Main => pc'[s] = pc[s]
      /\ target' \in [Threads -> Threads \cup {None}]
      /\ \A s \in Threads : s # Main => target'[s] = target[s]
      /\ \/ pc'[Main] = "abort" /\ target'[Main] \in Threads
         \/ pc'[Main] = "done" /\ unstarted = {}
      /\ build' = build
      /\ stateLock' = stateLock
      /\ state' = state
      /\ joined' = joined
      /\ unstarted' = unstarted /\ foregroundThreads' = foregroundThreads
      /\ foreground' = foreground
      /\ signalled' = signalled
      /\ waitFor' = waitFor
      /\ ops' = ops
  BY <1>p DEF TypeOK, KillUnstarted, Go, Aim, Places, lists, Threads
<1>x. Main \in Threads /\ Main \notin unstarted /\ Main \notin foreground
  BY <1>p DEF TypeOK, Threads
<1>1. LocksHeld'
  BY <1>p, <1>e, LocksStay DEF Locking
<1>2. TypeOK'
  BY <1>p, <1>e, <1>x, <1>1 DEF TypeOK
<1>3. ListsComplete'
  BY <1>p, <1>e, <1>x DEF ListsComplete, PlacesAgree, Created, Threads
<1>4. PlacesAgree'
  BY <1>p, <1>e, <1>x DEF TypeOK, PlacesAgree, Threads, Running, MainOnly, Killing,
     Aiming
<1>5. UnstartedAgree'
  BY <1>p, <1>e, <1>x DEF TypeOK, UnstartedAgree, ListsComplete, Created, Launching,
     Threads
<1>6. ForegroundAgree'
  BY <1>p, <1>e, <1>x DEF TypeOK, ForegroundAgree, ListsComplete, Created,
     Launching, Threads
<1>7. StartersAgree'
  <2>1. ASSUME NEW s \in Threads, pc'[s] = "started"
        PROVE  /\ pc[s] = "started" /\ target'[s] = target[s]
               /\ target[s] \in foreground' /\ pc'[target[s]] \in Launching
               /\ "unstarted" \in state'[target[s]]
    <3>1. pc[s] = "started" /\ target'[s] = target[s]
      BY <2>1, <1>e
    <3>2. /\ target[s] \in foreground /\ target[s] \in Threads
          /\ pc[target[s]] \in Launching /\ "unstarted" \in state[target[s]]
      BY <3>1, <1>p DEF StartersAgree, TypeOK, Threads
    <3>3. QED
      BY <3>1, <3>2, <1>p, <1>e, <1>x DEF Launching
  <2>2. QED
    BY <2>1, <1>p, StartersStay
<1>8. AbortsLate'
  BY <1>p, <1>e, <1>x DEF TypeOK, AbortsLate, Killing, Threads
<1>9. EventNotStranded'
  BY <1>p, <1>e, <1>x, EventsStay
<1>10. QED
  BY <1>2, <1>3, <1>4, <1>5, <1>6, <1>7, <1>8, <1>9 DEF IInv

(* tm_waitThreads asks an unstarted thread to abort.                       *)
LEMMA StepRequestAbort ==
    ASSUME IInv, NEW t \in Threads, t = Main, RequestAbort
    PROVE  IInv'
<1> USE ThreadsAssumption, ForegroundKept
<1>p. /\ TypeOK /\ ListsComplete /\ PlacesAgree /\ UnstartedAgree
      /\ ForegroundAgree /\ StartersAgree /\ AbortsLate /\ EventNotStranded
  BY DEF IInv
<1>e. /\ pc' \in [Threads -> Places] /\ pc'[t] = "kill" /\ pc[t] = "abort"
      /\ \A s \in Threads : s # t => pc'[s] = pc[s] \/ Woken(pc[s], pc'[s])
      /\ state' \in [Threads -> SUBSET Bits] /\ state'[target[t]] = state[target[t]] \cup AbortBit("abortrequested")
      /\ \A s \in Threads : s # target[t] => state'[s] = state[s]
      /\ build' = build
      /\ stateLock' = stateLock
      /\ joined' = joined
      /\ unstarted' = unstarted /\ foregroundThreads' = foregroundThreads
      /\ foreground' = foreground
      /\ target' = target
      /\ signalled' = signalled
      /\ waitFor' = waitFor
      /\ ops' = ops
  <2>1. /\ ChangeState(t, target[t], state[target[t]] \cup AbortBit("abortrequested"), "kill")
        /\ pc[t] = "abort"
    BY DEF RequestAbort
  <2>2. /\ state[target[t]] \cup AbortBit("abortrequested") \in SUBSET Bits
        /\ "kill" \in Places /\ target[t] \in Threads
    BY <1>p, <2>1 DEF Bits, Places, TypeOK, AbortBit, PlacesAgree, Aiming
  <2>3. QED
    BY <1>p, <2>1, <2>2, ChangeStateMoves DEF RequestAbort, TypeOK, lists
<1>x. /\ pc[Main] = "abort" /\ pc[Main] \in Killing /\ foreground = {}
      /\ \A s \in Threads : pc[s] # "started"
      /\ target[t] \in Threads /\ unstarted \subseteq Threads
  BY <1>p, <1>e DEF AbortsLate, Killing, StartersAgree, PlacesAgree, Aiming, TypeOK,
     Threads
<1>1. LocksHeld'
  BY <1>p, <1>e, LocksStay DEF Locking, Woken
<1>2. TypeOK'
  BY <1>p, <1>e, <1>x, <1>1 DEF TypeOK
<1>3. ListsComplete'
  BY <1>p, <1>e, <1>x DEF ListsComplete, PlacesAgree, Created, Threads, Woken
<1>4. PlacesAgree'
  BY <1>p, <1>e, <1>x, ZenonT(40) DEF TypeOK, PlacesAgree, Threads, Running, MainOnly, Killing,
     Aiming, Woken
<1>5. UnstartedAgree'
  BY <1>p, <1>e, <1>x DEF TypeOK, UnstartedAgree, ListsComplete, Created, Launching,
     Threads, Woken
<1>6. ForegroundAgree'
  BY <1>p, <1>e, <1>x DEF TypeOK, ForegroundAgree, ListsComplete, Created,
     Launching, Threads, Woken
<1>7. StartersAgree'
  <2>1. ASSUME NEW s \in Threads, pc'[s] = "started"
        PROVE  /\ pc[s] = "started" /\ target'[s] = target[s]
               /\ target[s] \in foreground' /\ pc'[target[s]] \in Launching
               /\ "unstarted" \in state'[target[s]]
    <3>1. pc[s] = "started" /\ target'[s] = target[s]
      BY <2>1, <1>e DEF Woken
    <3>2. /\ target[s] \in foreground /\ target[s] \in Threads
          /\ pc[target[s]] \in Launching /\ "unstarted" \in state[target[s]]
      BY <3>1, <1>p DEF StartersAgree, TypeOK, Threads
    <3>3. QED
      BY <3>1, <3>2, <1>p, <1>e, <1>x DEF Launching, Woken
  <2>2. QED
    BY <2>1, <1>p, StartersStay
<1>8. AbortsLate'
  BY <1>p, <1>e, <1>x DEF TypeOK, AbortsLate, Killing, Threads, Woken
<1>9. EventNotStranded'
  BY <1>p, <1>e, <1>x, EventsStay DEF Woken
<1>10. QED
  BY <1>2, <1>3, <1>4, <1>5, <1>6, <1>7, <1>8, <1>9 DEF IInv

(* Every step of the threads manager preserves the invariant.              *)
LEMMA StepIInv == ASSUME IInv, [Next]_vars PROVE IInv'
<1>1. CASE UNCHANGED vars
  BY <1>1 DEF vars, lists, IInv, TypeOK, LocksHeld, ListsComplete, Created,
     PlacesAgree, UnstartedAgree, ForegroundAgree, StartersAgree, AbortsLate,
     EventNotStranded, Sleepers, foreground
<1>2. ASSUME NEW t \in Threads, Use(t) PROVE IInv'
  <2>1. ASSUME NEW u \in Workers, Create(t, u) \/ Start(t, u) PROVE IInv'
    BY <2>1, StepCreate, StepStart
  <2>2. ASSUME NEW u \in Threads, Join(t, u) PROVE IInv'
    BY <2>2, StepJoin
  <2>3. ASSUME NEW e \in Events, Signal(t, e) PROVE IInv'
    BY <2>3, StepSignal
  <2>4. ASSUME NEW e \in Events, WaitEvents(t, <<e>>) PROVE IInv'
    <3>1. <<e>> \in Seq(Events) /\ <<e>> # <<>>
      OBVIOUS
    <3>2. QED
      BY <2>4, <3>1, StepWaitEvents
  <2>5. ASSUME NEW e \in Events, NEW f \in Events, WaitEvents(t, <<e, f>>) PROVE IInv'
    <3>1. <<e, f>> \in Seq(Events) /\ <<e, f>> # <<>>
      OBVIOUS
    <3>2. QED
      BY <2>5, <3>1, StepWaitEvents
  <2>6. QED
    BY <1>2, <2>1, <2>2, <2>3, <2>4, <2>5 DEF Use
<1>3. ASSUME NEW t \in Threads, Step(t) PROVE IInv'
  <2>1. CASE Stop(t)
    BY <2>1, StepStop, StepAbort DEF Stop
  <2>2. CASE t = Main /\ Shutdown
    BY <2>2, StepWaitForeground, StepWaitState, StepJoinState, StepKillUnstarted,
       StepRequestAbort DEF Shutdown
  <2>3. CASE ChangeLists(t)
    BY <2>3, StepStartTwice, StepChangeLists
  <2>4. QED
    BY <1>3, <2>1, <2>2, <2>3, StepStartRunning, StepWaitForLaunch, StepLaunched,
       StepEndBody, StepExit, StepJoinTest, StepEndJoin, StepEventTest DEF Step
<1>4. QED
  BY <1>1, <1>2, <1>3 DEF Next

-----------------------------------------------------------------------------
(* The inductive invariant holds in every state of the threads manager     *)
(* (lib_thread.c).                                                         *)
THEOREM Invariance == Spec => []IInv
<1>1. Init => IInv
  BY InitIInv
<1>2. IInv /\ [Next]_vars => IInv'
  BY StepIInv
<1>3. QED
  BY <1>1, <1>2, PTL DEF Spec

(* Every variable has its type, and only a thread that joins a native      *)
(* thread keeps the lock of a state over its steps (lib_thread.c:916-1005).*)
THEOREM TypeCorrect == Spec => []TypeOK
<1>1. IInv => TypeOK
  BY DEF IInv
<1>2. QED
  BY <1>1, Invariance, PTL

(* The two lists always have every thread that exists and was not joined,  *)
(* each of them in one, and there once, however many threads try to start  *)
(* it (lib_thread.c:244-270, 497-504, 1499, 1522-1529).                    *)
THEOREM ListsAlwaysComplete == Spec => []ListsComplete
<1>1. IInv => ListsComplete
  BY DEF IInv
<1>2. QED
  BY <1>1, Invariance, PTL

(* When tm_waitThreads returns all threads are dead and were joined, and   *)
(* no thread that was started was told to abort (lib_thread.c:242-271).    *)
THEOREM ShutdownAlwaysComplete == Spec => []ShutdownComplete
<1>1. ASSUME IInv PROVE ShutdownComplete
  <2>1. /\ TypeOK /\ ListsComplete /\ PlacesAgree /\ AbortsLate
    BY <1>1 DEF IInv
  <2>2. ASSUME pc[Main] = "done", NEW u \in Workers, Created(u)
        PROVE  pc[u] = "dead" /\ joined[u]
    <3>1. unstarted = {} /\ foreground = {}
      BY <2>1, <2>2 DEF AbortsLate, Killing
    <3>2. joined[u]
      BY <3>1, <2>1, <2>2 DEF ListsComplete
    <3>3. QED
      BY <3>2, <2>1 DEF PlacesAgree
  <2>3. ASSUME NEW u \in foreground
        PROVE  {"abortrequested", "aborted"} \cap state[u] = {}
    BY <2>1, ForegroundKept DEF AbortsLate, TypeOK, Threads
  <2>4. QED
    BY <2>2, <2>3 DEF ShutdownComplete
<1>2. IInv => ShutdownComplete
  BY <1>1
<1>3. QED
  BY <1>2, Invariance, PTL

(* No thread is left asleep on a signalled event, unless another one is on *)
(* its way to take the signal (lib_thread.c:710-772).                      *)
THEOREM EventsNeverStranded == Spec => []EventNotStranded
<1>1. IInv => EventNotStranded
  BY DEF IInv
<1>2. QED
  BY <1>1, Invariance, PTL
=============================================================================
