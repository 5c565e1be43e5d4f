----------------------------- MODULE FatMonitor -----------------------------
(***************************************************************************)
(* One monitor of the locking library lib_lock_os.c of libcore, which      *)
(* lib_lock_thin.c includes as its heavyweight monitor: an operating       *)
(* system mutex, a condition variable, the owner and the number of times   *)
(* it entered.  The steps of a call are separate where another thread can  *)
(* see the difference: the owner is read without the mutex, and written    *)
(* before or after it changes hands.  ThinLock puts the calls together.    *)
(*                                                                         *)
(* An operator marked as a variant is no part of the specification: it is  *)
(* the one below it with a mistake, which the properties have to notice.   *)
(***************************************************************************)
EXTENDS Integers

CONSTANTS
    Threads,
    None       \* no thread

ASSUME NoneAssumption == None \notin Threads

VARIABLES
    mutex,      \* lock: the thread that has it, or None
    owner,      \* owner
    locksCount, \* locksCount
    pc,         \* where each thread is in its call, idle outside of one
    saved,      \* locksCount, the local of ILJITMonitorWaitForPulse
    held,       \* how many locks each thread got and did not give back
    aborted     \* the thread that called abort(), or None

fatVars == <<mutex, owner, locksCount>>

Hows   == {"forever", "check", "bounded"}   \* the values of timeout
FatPcs == Hows \cup {"idle", "setOwner", "unlockMutex", "asleep", "awake",
                     "restore"}

FatInit ==
    /\ mutex = None
    /\ owner = None
    /\ locksCount = 0
    /\ pc = [t \in Threads |-> "idle"]
    /\ saved = [t \in Threads |-> 0]
    /\ held = [t \in Threads |-> 0]
    /\ aborted = None

At(t, place) == aborted = None /\ pc[t] = place
Go(t, place) == pc' = [pc EXCEPT ![t] = place]

(* The call returns, having got or given back one lock.                    *)
Got(t)      == Go(t, "idle") /\ held' = [held EXCEPT ![t] = @ + 1]
GaveBack(t) == Go(t, "idle") /\ held' = [held EXCEPT ![t] = @ - 1]

(* print_err and abort(): the process ends.                                *)
Abort(t) == aborted' = t /\ UNCHANGED <<fatVars, pc, saved, held>>

-----------------------------------------------------------------------------
(* ILJITMonitorLock: the owner is compared with the caller before anything *)
(* is locked; whoever is not the owner goes for the mutex.                 *)
FatLock(t, how) ==
    /\ IF owner = t
         THEN locksCount' = locksCount + 1 /\ Got(t)
         ELSE Go(t, how) /\ UNCHANGED <<locksCount, held>>
    /\ UNCHANGED <<mutex, owner, saved, aborted>>

TakeMutex(t) ==
    /\ \E how \in Hows : At(t, how)
    /\ mutex = None
    /\ mutex' = t
    /\ Go(t, "setOwner")
    /\ UNCHANGED <<owner, locksCount, saved, held, aborted>>

(* CHECK_FOR_LOCK, or the time is over: the call returns without the lock. *)
GiveUp(t) ==
    /\ At(t, "check") \/ At(t, "bounded")
    /\ mutex # None
    /\ Go(t, "idle")
    /\ UNCHANGED <<fatVars, saved, held, aborted>>

SetOwner(t) ==
    /\ At(t, "setOwner")
    /\ owner' = t
    /\ locksCount' = 1
    /\ Got(t)
    /\ UNCHANGED <<mutex, saved, aborted>>

-----------------------------------------------------------------------------
(* ILJITMonitorUnlock.  Variant: it does not reset the owner.              *)
LastUnlockKeepsOwner(t) ==
    /\ locksCount' = 0
    /\ Go(t, "unlockMutex")
    /\ UNCHANGED <<mutex, owner, held>>
LastUnlock(t) ==
    /\ locksCount' = 0
    /\ owner' = None
    /\ Go(t, "unlockMutex")
    /\ UNCHANGED <<mutex, held>>

FatUnlock(t) ==
    \/ /\ owner # t
       /\ Abort(t)
    \/ /\ owner = t
       /\ \/ locksCount = 1 /\ LastUnlock(t)
          \/ /\ locksCount # 1
             /\ locksCount' = locksCount - 1
             /\ GaveBack(t)
             /\ UNCHANGED <<mutex, owner>>
       /\ UNCHANGED <<saved, aborted>>

(* Variant: the call returns with the mutex locked.                        *)
KeepMutex(t) ==
    /\ At(t, "unlockMutex")
    /\ GaveBack(t)
    /\ UNCHANGED <<fatVars, saved, aborted>>
UnlockMutex(t) ==
    /\ At(t, "unlockMutex")
    /\ mutex' = None
    /\ GaveBack(t)
    /\ UNCHANGED <<owner, locksCount, saved, aborted>>

-----------------------------------------------------------------------------
(* ILJITMonitorWaitForPulse without a time limit, the only one there is.   *)
(* The owner stays written in the monitor while its thread sleeps.         *)
FatWait(t) ==
    \/ owner # t /\ Abort(t)
    \/ /\ owner = t
       /\ saved' = [saved EXCEPT ![t] = locksCount]
       /\ mutex' = None
       /\ Go(t, "asleep")
       /\ UNCHANGED <<owner, locksCount, held, aborted>>

(* pthread_cond_wait returns with the mutex.                               *)
WakeUp(t) ==
    /\ At(t, "awake")
    /\ mutex = None
    /\ mutex' = t
    /\ Go(t, "restore")
    /\ UNCHANGED <<owner, locksCount, saved, held, aborted>>

(* Variant: the owner is not restored after the wait.                      *)
RestoreCountOnly(t) ==
    /\ At(t, "restore")
    /\ locksCount' = saved[t]
    /\ Go(t, "idle")
    /\ UNCHANGED <<mutex, owner, saved, held, aborted>>
Restore(t) ==
    /\ At(t, "restore")
    /\ owner' = t
    /\ locksCount' = saved[t]
    /\ Go(t, "idle")
    /\ UNCHANGED <<mutex, saved, held, aborted>>

Sleepers == {t \in Threads : pc[t] = "asleep"}

(* ILJITMonitorSignalPulse and SignalPulseAll.                             *)
WakeOne == \E s \in Sleepers : pc' = [pc EXCEPT ![s] = "awake"]
WakeAll == pc' = [t \in Threads |-> IF t \in Sleepers THEN "awake" ELSE pc[t]]

FatPulse(t, Wake) ==
    \/ owner # t /\ Abort(t)
    \/ owner = t /\ Wake /\ UNCHANGED <<fatVars, saved, held, aborted>>

FatStep(t) ==
    \/ TakeMutex(t) \/ GiveUp(t) \/ SetOwner(t) \/ UnlockMutex(t)
    \/ WakeUp(t) \/ Restore(t)
=============================================================================
