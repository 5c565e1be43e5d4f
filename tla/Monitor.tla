------------------------------- MODULE Monitor -------------------------------
(***************************************************************************)
(* What the monitor of an object promises to the threads of the program:   *)
(* one of them at a time holds it, as often as it entered and did not yet  *)
(* exit; a thread that waits gives it up at whatever depth it had, and has *)
(* it back at that depth after a pulse; who uses it without holding it     *)
(* ends the program.  How a lock word, a mutex and a condition variable    *)
(* make this is FatMonitor's and ThinLock's business.                      *)
(***************************************************************************)
EXTENDS Integers

CONSTANTS Threads, None

VARIABLES
    holder,    \* the thread that holds the monitor, or None
    depth,     \* how many times it entered
    sleepers,  \* threads that wait for a pulse
    pulsed,    \* threads that got one and want the monitor back
    saved,     \* the depth a sleeping or pulsed thread had
    aborted    \* the program ended because of a misuse

vars == <<holder, depth, sleepers, pulsed, saved, aborted>>

Init ==
    /\ holder = None
    /\ depth = 0
    /\ sleepers = {}
    /\ pulsed = {}
    /\ saved = [t \in Threads |-> 0]
    /\ aborted = FALSE

Enter(t) ==
    /\ t \notin sleepers \cup pulsed
    /\ \/ holder = None /\ holder' = t /\ depth' = 1
       \/ holder = t /\ depth' = depth + 1 /\ UNCHANGED holder
    /\ UNCHANGED <<sleepers, pulsed, saved, aborted>>

Exit(t) ==
    /\ holder = t
    /\ depth' = depth - 1
    /\ holder' = IF depth = 1 THEN None ELSE t
    /\ UNCHANGED <<sleepers, pulsed, saved, aborted>>

Wait(t) ==
    /\ holder = t
    /\ holder' = None
    /\ depth' = 0
    /\ sleepers' = sleepers \cup {t}
    /\ saved' = [saved EXCEPT ![t] = depth]
    /\ UNCHANGED <<pulsed, aborted>>

Pulse(t) ==
    /\ holder = t
    /\ \E other \in sleepers :
          /\ sleepers' = sleepers \ {other}
          /\ pulsed' = pulsed \cup {other}
    /\ UNCHANGED <<holder, depth, saved, aborted>>

PulseAll(t) ==
    /\ holder = t
    /\ sleepers' = {}
    /\ pulsed' = pulsed \cup sleepers
    /\ UNCHANGED <<holder, depth, saved, aborted>>

Reenter(t) ==
    /\ t \in pulsed
    /\ holder = None
    /\ holder' = t
    /\ depth' = saved[t]
    /\ pulsed' = pulsed \ {t}
    /\ saved' = [saved EXCEPT ![t] = 0]
    /\ UNCHANGED <<sleepers, aborted>>

Misuse(t) ==
    /\ holder # t
    /\ t \notin sleepers \cup pulsed
    /\ aborted' = TRUE
    /\ UNCHANGED <<holder, depth, sleepers, pulsed, saved>>

Next ==
    /\ ~aborted
    /\ \E t \in Threads :
          Enter(t) \/ Exit(t) \/ Wait(t) \/ Pulse(t) \/ PulseAll(t)
             \/ Reenter(t) \/ Misuse(t)

(* A free monitor does not stay free while a pulsed thread wants it back.  *)
Fairness == WF_vars(~aborted /\ \E t \in Threads : Reenter(t))

Spec == Init /\ [][Next]_vars /\ Fairness
=============================================================================
