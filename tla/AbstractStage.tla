---------------------------- MODULE AbstractStage ----------------------------
(***************************************************************************)
(* What a stage of the translation pipeline promises to the others: a      *)
(* ticket put in one of its two queues is handed to exactly one worker of  *)
(* that class, once, as long as a worker of the class is free; it leaves   *)
(* the stage through that worker, or goes back to the same queue.  How the *)
(* workers sleep and are woken is PipeStage's business.                    *)
(***************************************************************************)
EXTENDS Integers, FiniteSets

CONSTANT Tickets

VARIABLES
    queue,    \* by class, the tickets waiting for a worker
    hand,     \* by class, the tickets its workers are working on
    capacity  \* by class, how many workers there are

vars == <<queue, hand, capacity>>

Classes == {"low", "high"}
Inside  == UNION {queue[h] \cup hand[h] : h \in Classes}

Init ==
    /\ queue = [h \in Classes |-> {}]
    /\ hand = [h \in Classes |-> {}]
    /\ capacity \in [Classes -> Nat]

Put(t, h) ==
    /\ t \notin Inside
    /\ queue' = [queue EXCEPT ![h] = @ \cup {t}]
    /\ UNCHANGED <<hand, capacity>>

Take(t, h) ==
    /\ t \in queue[h]
    /\ Cardinality(hand[h]) < capacity[h]
    /\ queue' = [queue EXCEPT ![h] = @ \ {t}]
    /\ hand' = [hand EXCEPT ![h] = @ \cup {t}]
    /\ UNCHANGED capacity

Finish(t, h) ==
    /\ t \in hand[h]
    /\ hand' = [hand EXCEPT ![h] = @ \ {t}]
    /\ UNCHANGED <<queue, capacity>>

PutBack(t, h) ==
    /\ t \in hand[h]
    /\ hand' = [hand EXCEPT ![h] = @ \ {t}]
    /\ queue' = [queue EXCEPT ![h] = @ \cup {t}]
    /\ UNCHANGED capacity

Promote(t) ==
    /\ t \in queue["low"]
    /\ queue' = [queue EXCEPT !["low"] = @ \ {t}, !["high"] = @ \cup {t}]
    /\ UNCHANGED <<hand, capacity>>

(* Threads come and go, but never the one that is working on a ticket.     *)
Resize ==
    /\ capacity' \in [Classes -> Nat]
    /\ \A h \in Classes : capacity'[h] >= Cardinality(hand[h])
    /\ UNCHANGED <<queue, hand>>

Next ==
    \/ \E t \in Tickets, h \in Classes :
          Put(t, h) \/ Take(t, h) \/ Finish(t, h) \/ PutBack(t, h)
    \/ \E t \in Tickets : Promote(t)
    \/ Resize

(* A queue is served as long as a worker of its class is free.             *)
Fairness == \A h \in Classes : WF_vars(\E t \in Tickets : Take(t, h))

Spec == Init /\ [][Next]_vars /\ Fairness
=============================================================================
