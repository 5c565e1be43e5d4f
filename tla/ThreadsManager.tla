--------------------------- MODULE ThreadsManager ---------------------------
(***************************************************************************)
(* The threads of the running program (lib_thread.c of libclimanager):     *)
(* their creation, start and end, joins, the events they wait for, and     *)
(* tm_waitThreads, with which the main thread ends the program: it waits   *)
(* for the threads that were started and kills those that were not.        *)
(*                                                                         *)
(* A thread has a state, protected (most of the time) by a lock and        *)
(* announced by a condition variable of its own.  The lock is held for     *)
(* longer than a step only by a thread that joins the native one.          *)
(*                                                                         *)
(* An operator marked as a variant is no part of the specification: it is  *)
(* the one below it with a mistake, which the properties have to notice.   *)
(***************************************************************************)
EXTENDS Integers, Sequences

CONSTANTS
    Main,         \* the thread that runs the program's entry point
    Workers,      \* the threads that the program may create
    None,
    Events,
    ManualEvents, \* the events with manualReset
    Builds,       \* "i386" and other builds differ in tm_writeThreadState
    MaxOps        \* bound: joins, signals and waits of each thread

Threads == Workers \cup {Main}

ASSUME ThreadsAssumption == Main \notin Workers /\ None \notin Threads
ASSUME EventsAssumption == ManualEvents \subseteq Events /\ MaxOps \in Nat

VARIABLES
    build,
    state,      \* state, the set of its bits; RUNNING is the empty set
    stateLock,  \* stateLock: who has it across steps, or None
    joined,     \* joined
    unstarted,  \* unstartedThreads
    foregroundThreads, \* foregroundThreads: how often each thread is in it
    pc,
    target,     \* the thread an operation is about
    signalled,  \* signalled, of each event
    waitFor,    \* the events a thread still has to wait for
    ops

lists == <<unstarted, foregroundThreads>>
vars  == <<build, state, stateLock, joined, lists, pc, target, signalled,
           waitFor, ops>>

Bits   == {"unstarted", "stopped", "waitsleepjoin", "abortrequested", "aborted"}
Places == {"new", "launch", "launchWait", "launched", "run", "start", "started",
           "join", "joinWait", "joinNative", "event", "eventWait", "ending",
           "aborting", "exiting", "dead", "waitThreads", "foreground",
           "foregroundWait", "foregroundNative", "killThreads", "abort", "kill",
           "killWait", "killNative", "done", "crashed"}

(* The lock of a thread's state is kept only by one that joins it.         *)
LocksHeld ==
    \A u \in Threads : stateLock[u] # None =>
        /\ target[stateLock[u]] = u
        /\ pc[stateLock[u]] \in {"joinNative", "foregroundNative", "killNative"}

TypeOK ==
    /\ build \in Builds
    /\ state \in [Threads -> SUBSET Bits]
    /\ stateLock \in [Threads -> Threads \cup {None}]
    /\ joined \in [Threads -> BOOLEAN]
    /\ unstarted \subseteq Workers /\ foregroundThreads \in [Workers -> Nat]
    /\ pc \in [Threads -> Places]
    /\ target \in [Threads -> Threads \cup {None}]
    /\ signalled \in [Events -> BOOLEAN]
    /\ waitFor \in [Threads -> Seq(Events)]
    /\ ops \in [Threads -> 0 .. MaxOps]
    /\ LocksHeld

Init ==
    /\ build \in Builds
    /\ state = [t \in Threads |-> {}]
    /\ stateLock = [t \in Threads |-> None]
    /\ joined = [t \in Threads |-> FALSE]
    /\ unstarted = {} /\ foregroundThreads = [u \in Workers |-> 0]
    /\ pc = [t \in Threads |-> IF t = Main THEN "run" ELSE "new"]
    /\ target = [t \in Threads |-> None]
    /\ signalled \in [Events -> BOOLEAN]
    /\ waitFor = [t \in Threads |-> <<>>]
    /\ ops = [t \in Threads |-> 0]

foreground == {u \in Workers : foregroundThreads[u] > 0}

Created(u) == pc[u] # "new"
Stopped(u) == "stopped" \in state[u]
Aborted(u) == "aborted" \in state[u]

Go(t, place)        == pc' = [pc EXCEPT ![t] = place]
SetState(t, bits)   == state' = [state EXCEPT ![t] = bits]
Aim(t, u)           == target' = [target EXCEPT ![t] = u]
Unlocked(u)         == stateLock[u] = None

(* The bits that asking for an abort, or telling of one, adds to a state:  *)
(* only i386 builds write them.                                            *)
AbortBit(bit) == IF build = "i386" THEN {bit} ELSE {}

-----------------------------------------------------------------------------
(* Who sleeps on the condition variable of u's state, and what becomes of  *)
(* pcs when it is broadcast: they look at the state again.                 *)
Again == [launchWait |-> "launch", joinWait |-> "join",
          foregroundWait |-> "foreground", killWait |-> "kill"]
SleepsOn(u) ==
    {t \in Threads : \/ t = u /\ pc[t] = "launchWait"
                     \/ target[t] = u /\ pc[t] \in {"joinWait", "foregroundWait",
                                                    "killWait"}}

(* tm_changeThreadState of u, done by thread t on its way to place.        *)
(* Variant: nobody is told.                                                *)
ChangeStateSilently(t, u, bits, place) ==
    /\ Unlocked(u)
    /\ SetState(u, bits)
    /\ Go(t, place)
ChangeState(t, u, bits, place) ==
    /\ Unlocked(u)
    /\ SetState(u, bits)
    /\ pc' = [s \in Threads |-> IF s = t THEN place
                                ELSE IF s \in SleepsOn(u) THEN Again[pc[s]]
                                ELSE pc[s]]

(* tm_initializeThread: a native thread begins its life, unstarted.        *)
Create(t, u) ==
    /\ pc[t] = "run"
    /\ u \in Workers /\ pc[u] = "new"
    /\ SetState(u, {"unstarted"})
    /\ Go(u, "launch")
    /\ unstarted' = unstarted \cup {u}
    /\ UNCHANGED <<build, stateLock, joined, foregroundThreads, target, signalled,
                   waitFor, ops>>

(* tm_startThread, of any thread there is, and by several at a time: the   *)
(* asserts come before the locks of the lists.  One that fails, or the     *)
(* removal of a thread from a list it is not in (abortIfAnElementDoNotExist*)
(* is JITTRUE), aborts the program.                                        *)
Start(t, u) ==
    /\ pc[t] = "run"
    /\ u \in Workers /\ Created(u)
    /\ Aim(t, u)
    /\ Go(t, IF u \in unstarted /\ state[u] = {"unstarted"}
               THEN "start" ELSE "crashed")
    /\ UNCHANGED <<build, state, stateLock, joined, lists, signalled, waitFor,
                   ops>>

(* Variant: a removal of what is not in the list does nothing.             *)
MissingIgnored(u) == FALSE
Missing(u) == u \notin unstarted

(* Variant: it is not entered in the list of foreground threads.           *)
MoveNowhere(u) ==
    unstarted' = unstarted \ {u} /\ UNCHANGED foregroundThreads
Move(u) ==
    /\ unstarted' = unstarted \ {u}
    /\ foregroundThreads' = [foregroundThreads EXCEPT ![u] = @ + 1]

(* The thread changes lists, under the locks of both, and only then is     *)
(* told to run, whatever its state is.                                     *)
ChangeLists(t) ==
    /\ pc[t] = "start"
    /\ \/ Missing(target[t]) /\ Go(t, "crashed") /\ UNCHANGED lists
       \/ ~Missing(target[t]) /\ Go(t, "started") /\ Move(target[t])
    /\ UNCHANGED <<build, state, stateLock, joined, target, signalled, waitFor,
                   ops>>

StartRunning(t) ==
    /\ pc[t] = "started"
    /\ ChangeState(t, target[t], {}, "run")
    /\ UNCHANGED <<build, stateLock, joined, lists, target, signalled, waitFor,
                   ops>>

-----------------------------------------------------------------------------
(* tm_nativeThreadRun: tm_waitForLaunch, the program's code, the last      *)
(* change of state.  Whether to abort is read after the lock is released.  *)
WaitForLaunch(t) ==
    /\ pc[t] = "launch"
    /\ Unlocked(t)
    /\ Go(t, IF "unstarted" \in state[t] /\ "abortrequested" \notin state[t]
               THEN "launchWait" ELSE "launched")
    /\ UNCHANGED <<build, state, stateLock, joined, lists, target, signalled,
                   waitFor, ops>>

Launched(t) ==
    /\ pc[t] = "launched"
    /\ Go(t, IF "abortrequested" \in state[t] THEN "aborting" ELSE "run")
    /\ UNCHANGED <<build, state, stateLock, joined, lists, target, signalled,
                   waitFor, ops>>

EndBody(t) ==
    /\ pc[t] = "run"
    /\ Go(t, IF t = Main THEN "waitThreads" ELSE "ending")
    /\ UNCHANGED <<build, state, stateLock, joined, lists, target, signalled,
                   waitFor, ops>>

Stop(t) ==
    /\ \/ pc[t] = "ending" /\ ChangeState(t, t, {"stopped"}, "exiting")
       \/ /\ pc[t] = "aborting"
          /\ ChangeState(t, t, state[t] \cup AbortBit("aborted"), "exiting")
    /\ UNCHANGED <<build, stateLock, joined, lists, target, signalled, waitFor,
                   ops>>

Exit(t) ==
    /\ pc[t] = "exiting"
    /\ Go(t, "dead")
    /\ UNCHANGED <<build, state, stateLock, joined, lists, target, signalled,
                   waitFor, ops>>

-----------------------------------------------------------------------------
(* tm_joinToThread: t waits for the end of any thread, itself included.    *)
Join(t, u) ==
    /\ pc[t] = "run" /\ ops[t] < MaxOps
    /\ Created(u)
    /\ Aim(t, u)
    /\ ops' = [ops EXCEPT ![t] = @ + 1]
    /\ Go(t, "join")
    /\ UNCHANGED <<build, state, stateLock, joined, lists, signalled, waitFor>>

JoinTest(t) ==
    /\ pc[t] = "join"
    /\ Unlocked(target[t])
    /\ \/ /\ ~Stopped(target[t])
          /\ SetState(t, {"waitsleepjoin"})
          /\ Go(t, "joinWait")
          /\ UNCHANGED stateLock
       \/ /\ Stopped(target[t])
          /\ SetState(t, {})
          /\ stateLock' = [stateLock EXCEPT ![target[t]] = t]
          /\ Go(t, "joinNative")
    /\ UNCHANGED <<build, joined, lists, target, signalled, waitFor, ops>>

(* tm_joinToNativeThread, with the lock of u's state: the native thread is *)
(* joined once.  A removal of what is not in the list does nothing here.   *)
LeaveForeground(u) ==
    foregroundThreads' = [foregroundThreads EXCEPT ![u] = IF @ = 0 THEN 0 ELSE @ - 1]
LeaveList(u) ==
    IF "unstarted" \in state[u]
      THEN unstarted' = unstarted \ {u} /\ UNCHANGED foregroundThreads
      ELSE LeaveForeground(u) /\ UNCHANGED unstarted

JoinNative(u) ==
    \/ joined[u] /\ UNCHANGED <<joined, lists>>
    \/ /\ ~joined[u]
       /\ pc[u] = "dead"
       /\ joined' = [joined EXCEPT ![u] = TRUE]
       /\ LeaveList(u)

(* tm_unlockThreadState.  Variant: forgotten.                              *)
ReleaseNoLock(u) == UNCHANGED stateLock
ReleaseLock(u) == stateLock' = [stateLock EXCEPT ![u] = None]

EndJoin(t) ==
    /\ pc[t] = "joinNative"
    /\ JoinNative(target[t])
    /\ ReleaseLock(target[t])
    /\ Go(t, "run")
    /\ UNCHANGED <<build, state, target, signalled, waitFor, ops>>

-----------------------------------------------------------------------------
(* tm_signalEvent: one thread that waits is woken if the event resets      *)
(* itself, all of them otherwise.                                          *)
Sleepers(e) == {t \in Threads : pc[t] = "eventWait" /\ Head(waitFor[t]) = e}

WakeOne(e) ==
    IF Sleepers(e) = {}
      THEN UNCHANGED pc
      ELSE \E t \in Sleepers(e) : Go(t, "event")
(* Variant: signalled where it should be broadcast.                        *)
WakeAllButOne(e) == WakeOne(e)
WakeAll(e) ==
    pc' = [t \in Threads |-> IF t \in Sleepers(e) THEN "event" ELSE pc[t]]

Signal(t, e) ==
    /\ pc[t] = "run" /\ ops[t] < MaxOps
    /\ signalled' = [signalled EXCEPT ![e] = TRUE]
    /\ IF e \in ManualEvents THEN WakeAll(e) ELSE WakeOne(e)
    /\ ops' = [ops EXCEPT ![t] = @ + 1]
    /\ UNCHANGED <<build, state, stateLock, joined, lists, target, waitFor>>

(* tm_waitOnEvent for one event, tm_waitAllEvents for several: they are    *)
(* waited for, and reset, one after the other.                             *)
WaitEvents(t, events) ==
    /\ pc[t] = "run" /\ ops[t] < MaxOps
    /\ waitFor' = [waitFor EXCEPT ![t] = events]
    /\ SetState(t, {"waitsleepjoin"})
    /\ ops' = [ops EXCEPT ![t] = @ + 1]
    /\ Go(t, "event")
    /\ UNCHANGED <<build, stateLock, joined, lists, target, signalled>>

Reset(e) ==
    signalled' = [signalled EXCEPT ![e] = e \in ManualEvents]

EventTest(t) ==
    /\ pc[t] = "event"
    /\ LET e == Head(waitFor[t])
       IN  \/ /\ ~signalled[e]
              /\ Go(t, "eventWait")
              /\ UNCHANGED <<signalled, waitFor, state>>
           \/ /\ signalled[e]
              /\ Reset(e)
              /\ waitFor' = [waitFor EXCEPT ![t] = Tail(@)]
              /\ IF Len(waitFor[t]) = 1
                   THEN Go(t, "run") /\ SetState(t, {})
                   ELSE UNCHANGED <<pc, state>>
    /\ UNCHANGED <<build, stateLock, joined, lists, target, ops>>

-----------------------------------------------------------------------------
(* tm_waitThreads, by the main thread when its code is over: all threads   *)
(* in the list of foreground threads are waited for and joined.            *)
WaitForeground ==
    /\ pc[Main] = "waitThreads"
    /\ \/ \E u \in foreground :
             /\ Aim(Main, u)
             /\ SetState(Main, {"waitsleepjoin"})
             /\ Go(Main, "foreground")
       \/ /\ foreground = {}
          /\ Go(Main, "killThreads")
          /\ UNCHANGED <<target, state>>
    /\ UNCHANGED <<build, stateLock, joined, lists, signalled, waitFor, ops>>

(* Looks at the state of u until it has bit, then takes u's state lock.    *)
WaitState(place, sleep, bit, next) ==
    /\ pc[Main] = place
    /\ Unlocked(target[Main])
    /\ IF bit \in state[target[Main]]
         THEN /\ stateLock' = [stateLock EXCEPT ![target[Main]] = Main]
              /\ Go(Main, next)
         ELSE Go(Main, sleep) /\ UNCHANGED stateLock
    /\ UNCHANGED <<build, state, joined, lists, target, signalled, waitFor, ops>>

(* The native thread is joined, and Main goes on with the next one.        *)
JoinState(place, next) ==
    /\ pc[Main] = place
    /\ JoinNative(target[Main])
    /\ ReleaseLock(target[Main])
    /\ SetState(Main, {})
    /\ Go(Main, next)
    /\ UNCHANGED <<build, target, signalled, waitFor, ops>>

(* The unstarted threads are told to abort and waited for, one by one.     *)
KillUnstarted ==
    /\ pc[Main] = "killThreads"
    /\ \/ \E u \in unstarted : Aim(Main, u) /\ Go(Main, "abort")
       \/ unstarted = {} /\ Go(Main, "done") /\ UNCHANGED target
    /\ UNCHANGED <<build, state, stateLock, joined, lists, signalled, waitFor,
                   ops>>

RequestAbort ==
    /\ pc[Main] = "abort"
    /\ ChangeState(Main, target[Main],
                   state[target[Main]] \cup AbortBit("abortrequested"), "kill")
    /\ UNCHANGED <<build, stateLock, joined, lists, target, signalled, waitFor,
                   ops>>

Shutdown ==
    \/ WaitForeground
    \/ WaitState("foreground", "foregroundWait", "stopped", "foregroundNative")
    \/ JoinState("foregroundNative", "waitThreads")
    \/ KillUnstarted
    \/ RequestAbort
    \/ WaitState("kill", "killWait", "aborted", "killNative")
    \/ JoinState("killNative", "killThreads")

-----------------------------------------------------------------------------
Distinct(events) == \A i, j \in DOMAIN events : events[i] = events[j] => i = j

(* What the program's code does next.                                      *)
Use(t) ==
    \/ \E u \in Workers : Create(t, u) \/ Start(t, u)
    \/ \E u \in Threads : Join(t, u)
    \/ \E e \in Events : Signal(t, e) \/ WaitEvents(t, <<e>>)
    \/ \E e, f \in Events : Distinct(<<e, f>>) /\ WaitEvents(t, <<e, f>>)

(* What a thread does by itself, the end of its code included.             *)
Step(t) ==
    \/ ChangeLists(t) \/ StartRunning(t) \/ WaitForLaunch(t) \/ Launched(t)
    \/ EndBody(t) \/ Stop(t) \/ Exit(t) \/ JoinTest(t) \/ EndJoin(t) \/ EventTest(t)
    \/ t = Main /\ Shutdown

(* A program that aborts is over for all its threads.                      *)
Crashed == \E t \in Threads : pc[t] = "crashed"

Next == ~Crashed /\ \E t \in Threads : Use(t) \/ Step(t)

(* The code of every thread comes to its end; no lock is kept for ever, so *)
(* that the spinning in tm_lockThreadState finds it free.                  *)
Fairness == \A t \in Threads : WF_vars(~Crashed /\ Step(t))

Spec == Init /\ [][Next]_vars /\ Fairness

-----------------------------------------------------------------------------
(* The two lists have every thread that exists and was not joined, each of *)
(* them in one, and there once, however many threads try to start it:      *)
(* tm_waitThreads, which looks nowhere else, finds them all, and waits for *)
(* none that was joined (lib_thread.c:244-270, 497-504, 1499, 1522-1529).  *)
ListsComplete ==
    /\ \A u \in foreground : foregroundThreads[u] = 1
    /\ unstarted \cap foreground = {}
    /\ unstarted \cup foreground = {u \in Workers : Created(u) /\ ~joined[u]}

(* When tm_waitThreads returns no thread of the program is left, and none  *)
(* that was started was killed (lib_thread.c:242-271).                     *)
ShutdownComplete ==
    /\ pc[Main] = "done" =>
         \A u \in Workers : Created(u) => pc[u] = "dead" /\ joined[u]
    /\ \A u \in foreground : {"abortrequested", "aborted"} \cap state[u] = {}

(* A thread sleeps on a signalled event only if the event resets itself    *)
(* and another one is on its way to take the signal (lib_thread.c:710-772).*)
EventNotStranded ==
    \A e \in Events : signalled[e] /\ Sleepers(e) # {} =>
        /\ e \notin ManualEvents
        /\ \E t \in Threads : pc[t] = "event" /\ Head(waitFor[t]) = e

(* The main thread ends, unless the program aborts; unless a thread it     *)
(* waits for sleeps, and so do all others that have not ended: for an      *)
(* event nobody is left to signal, or to join a thread that cannot end; or *)
(* unless an unstarted thread is left in a build without the bits for its  *)
(* abortion, which is waited for in vain, as UnstartedKilled says          *)
(* (lib_thread.c:242-271, 1140-1152).                                      *)
Asleep(t) ==
    \/ pc[t] = "joinWait" /\ ~Stopped(target[t])
    \/ pc[t] = "eventWait" /\ ~signalled[Head(waitFor[t])]
Stuck ==
    /\ \E t \in foreground : Asleep(t)
    /\ \A t \in foreground : Asleep(t) \/ pc[t] = "dead"
Stranded == pc[Main] = "killWait" /\ build # "i386"

ShutdownEnds ==
    pc[Main] = "waitThreads" ~> (pc[Main] = "done" \/ Crashed \/ Stuck \/ Stranded)

(* "Kill all unstarted threads" (lib_thread.c:261): the threads that were  *)
(* never started are all killed, whatever the build.  It has a run that    *)
(* finds it violated: the abort bits are written in builds for i386 only   *)
(* (1694-1706), so that elsewhere the first of them is waited for for ever.*)
UnstartedKilled == pc[Main] = "killThreads" ~> pc[Main] = "done"
=============================================================================
