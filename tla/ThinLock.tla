------------------------------ MODULE ThinLock ------------------------------
(***************************************************************************)
(* The monitor of an object, by either of the two locking libraries that   *)
(* libcore can be configured with.  With lib_lock_os.c every call goes to  *)
(* the fat monitor.  With lib_lock_thin.c the monitor is a lock word: the  *)
(* identifier of the thread that has it and five bits of nesting count,    *)
(* changed with a compare and swap, until contention or deep nesting       *)
(* inflates it and the word becomes a pointer to a fat monitor.            *)
(***************************************************************************)
EXTENDS FatMonitor

CONSTANTS
    Libraries,   \* which of "os" and "thin" to look at
    Address,     \* of each thread's CLRThread
    IdRange,     \* 2^26, the identifiers that fit in a lock word
    MaxNesting,  \* MAX_NESTING_DEEP, the largest nesting count
    MaxDepth     \* bound: how often a thread enters

(* The identifier of a thread is taken from an address; the library relies *)
(* on it to be different for every thread, and different from 0.           *)
ThreadId(t) == Address[t] % IdRange

ASSUME LibrariesAssumption == Libraries \subseteq {"os", "thin"}
ASSUME DistinctIds ==
    /\ \A t \in Threads : ThreadId(t) \in Nat \ {0}
    /\ \A t, u \in Threads : ThreadId(t) = ThreadId(u) => t = u
ASSUME BoundsAssumption == MaxNesting \in Nat /\ MaxDepth \in Nat

VARIABLES
    library,
    lockWord     \* lockWord

vars == <<fatVars, pc, saved, held, aborted, library, lockWord>>

Thin(id, count) == [fat |-> FALSE, id |-> id, count |-> count]
Fat             == [fat |-> TRUE, id |-> 0, count |-> 0]
Unlocked        == Thin(0, 0)
LockedOnce(t)   == Thin(ThreadId(t), 0)

(* The count of a word of thread t; a larger number for any other word.    *)
Counter(t) ==
    IF ~lockWord.fat /\ lockWord.id = ThreadId(t) THEN lockWord.count
                                                  ELSE MaxNesting + 1

ThinPcs == {"lockNested", "lockFat", "casFat", "inflate", "unlockNested",
            "unlockFat"}

LockWords == [fat : BOOLEAN, id : {0} \cup {ThreadId(t) : t \in Threads},
              count : 0 .. MaxNesting]

TypeOK ==
    /\ mutex \in Threads \cup {None} /\ owner \in Threads \cup {None}
    /\ locksCount \in Nat
    /\ pc \in [Threads -> FatPcs \cup ThinPcs]
    /\ saved \in [Threads -> Nat] /\ held \in [Threads -> Nat]
    /\ aborted \in Threads \cup {None}
    /\ library \in Libraries
    /\ lockWord \in LockWords

Init ==
    /\ FatInit
    /\ library \in Libraries
    /\ lockWord = IF library = "os" THEN Fat ELSE Unlocked

-----------------------------------------------------------------------------
(* ILJITMonitorLock of lib_lock_thin.c: llt_tryLockUnlocked, a compare and *)
(* swap that succeeds on a free thin lock.                                 *)
LockUnlocked(t) ==
    /\ At(t, "idle")
    /\ IF lockWord = Unlocked
         THEN lockWord' = LockedOnce(t) /\ Got(t)
         ELSE Go(t, "lockNested") /\ UNCHANGED <<lockWord, held>>
    /\ UNCHANGED <<fatVars, saved, aborted, library>>

(* llt_inflateMonitor: a new fat monitor, locked deep times by thread t,   *)
(* takes the place of the thin lock.                                       *)
Inflate(t, deep) ==
    /\ lockWord' = Fat
    /\ mutex' = t
    /\ owner' = t
    /\ locksCount' = deep
    /\ Got(t)

(* llt_tryLockShallowlyNested.  Variant: the lock that is inflated has the *)
(* nesting it had before this call.                                        *)
LockNestedForgotten(t) ==
    /\ At(t, "lockNested")
    /\ Counter(t) = MaxNesting
    /\ Inflate(t, MaxNesting + 1)
    /\ UNCHANGED <<saved, aborted, library>>
LockDeeplyNested(t) ==
    /\ At(t, "lockNested")
    /\ Counter(t) = MaxNesting
    /\ Inflate(t, MaxNesting + 2)
    /\ UNCHANGED <<saved, aborted, library>>

ShallowToLimit(t) == Counter(t) <= MaxNesting   \* variant: off by one
Shallow(t)        == Counter(t) < MaxNesting

LockShallowlyNested(t) ==
    /\ At(t, "lockNested")
    /\ \/ /\ Shallow(t)
          /\ lockWord' = [lockWord EXCEPT !.count = @ + 1]
          /\ Got(t)
       \/ /\ Counter(t) > MaxNesting
          /\ Go(t, "lockFat")
          /\ UNCHANGED <<lockWord, held>>
    /\ UNCHANGED <<fatVars, saved, aborted, library>>

(* llt_tryLockFat: a loop that ends with the lock of the fat monitor or    *)
(* with a free thin lock, which is then inflated.                          *)
LockFat(t) ==
    /\ At(t, "lockFat")
    /\ \/ lockWord.fat /\ FatLock(t, "forever")
       \/ /\ ~lockWord.fat
          /\ Go(t, "casFat")
          /\ UNCHANGED <<fatVars, saved, held, aborted>>
    /\ UNCHANGED <<lockWord, library>>

CasFat(t) ==
    /\ At(t, "casFat")
    /\ IF lockWord = Unlocked
         THEN lockWord' = LockedOnce(t) /\ Go(t, "inflate")
         ELSE Go(t, "lockFat") /\ UNCHANGED lockWord
    /\ UNCHANGED <<fatVars, saved, held, aborted, library>>

InflateOnce(t) ==
    /\ At(t, "inflate")
    /\ Inflate(t, 1)
    /\ UNCHANGED <<saved, aborted, library>>

-----------------------------------------------------------------------------
(* ILJITMonitorUnlock of lib_lock_thin.c: llt_tryUnlockSingleLocked.       *)
UnlockSingle(t) ==
    /\ At(t, "idle")
    /\ IF lockWord = LockedOnce(t)
         THEN lockWord' = Unlocked /\ GaveBack(t)
         ELSE Go(t, "unlockNested") /\ UNCHANGED <<lockWord, held>>
    /\ UNCHANGED <<fatVars, saved, aborted, library>>

(* llt_tryUnlockShallowlyNested.                                           *)
NestedBelowLimit(t) == Counter(t) < MaxNesting   \* variant: off by one
Nested(t)           == Counter(t) <= MaxNesting

UnlockNested(t) ==
    /\ At(t, "unlockNested")
    /\ IF Nested(t)
         THEN lockWord' = [lockWord EXCEPT !.count = @ - 1] /\ GaveBack(t)
         ELSE Go(t, "unlockFat") /\ UNCHANGED <<lockWord, held>>
    /\ UNCHANGED <<fatVars, saved, aborted, library>>

(* llt_tryUnlockFat.                                                       *)
UnlockFat(t) ==
    /\ At(t, "unlockFat")
    /\ IF lockWord.fat THEN FatUnlock(t) ELSE Abort(t)
    /\ UNCHANGED <<lockWord, library>>

-----------------------------------------------------------------------------
(* The program: any thread calls any operation at any time.                *)
CallOs(t) ==
    /\ library = "os"
    /\ At(t, "idle")
    /\ \/ held[t] < MaxDepth /\ \E how \in Hows : FatLock(t, how)
       \/ FatUnlock(t)
       \/ FatWait(t)
       \/ FatPulse(t, WakeOne)
       \/ FatPulse(t, WakeAll)
    /\ UNCHANGED <<lockWord, library>>

CallThin(t) ==
    /\ library = "thin"
    /\ \/ held[t] < MaxDepth /\ LockUnlocked(t)
       \/ UnlockSingle(t)

(* What a thread does by itself once it is in a call.                      *)
Step(t) ==
    \/ FatStep(t) /\ UNCHANGED <<lockWord, library>>
    \/ LockDeeplyNested(t) \/ LockShallowlyNested(t) \/ LockFat(t)
    \/ CasFat(t) \/ InflateOnce(t) \/ UnlockNested(t) \/ UnlockFat(t)

Next == \E t \in Threads : CallOs(t) \/ CallThin(t) \/ Step(t)

(* A thread in a call goes on when it can; nobody has to unlock or pulse.  *)
Fairness == \A t \in Threads : WF_vars(Step(t))

Spec == Init /\ [][Next]_vars /\ Fairness

-----------------------------------------------------------------------------
(* A thread that got the monitor and did not give it back has it, unless   *)
(* it waits for a pulse or for its return from there.                      *)
Waiting(t) == pc[t] \in {"asleep", "awake"}
Has(t)     == held[t] > 0 /\ ~Waiting(t)

(* What a monitor is for: two threads never have it at once, whichever way *)
(* each of them got it - compare and swap, inflation, mutex or wakeup.     *)
MutualExclusion == \A t, u \in Threads : Has(t) /\ Has(u) => t = u

(* Between two calls the library's count of a thread's nesting is what the *)
(* thread counts itself, before and after inflation and across a wait      *)
(* (lib_lock_thin.c:305-312, lib_lock_os.c:196-201).                       *)
Nesting(t) ==
    IF lockWord.fat
      THEN IF owner = t /\ mutex = t THEN locksCount ELSE 0
      ELSE IF lockWord.id = ThreadId(t) THEN lockWord.count + 1 ELSE 0
NestingKept ==
    \A t \in Threads : pc[t] = "idle" /\ aborted = None => Nesting(t) = held[t]

(* Both libraries end the program when a thread uses a monitor it does not *)
(* own; no thread that has it is ever taken for such a one.                *)
AbortsOnlyMisuse == aborted # None => held[aborted] = 0

(* A monitor somebody wants does not stay free: in the loop of             *)
(* llt_tryLockFat, on the mutex or after a pulse, some thread gets it.     *)
Wants(t) == pc[t] \notin {"idle", "asleep", "unlockMutex", "unlockNested",
                          "unlockFat", "check", "bounded"}
FreeMonitorTaken ==
    (\E t \in Threads : Wants(t)) ~> (aborted # None \/ \E t \in Threads : Has(t))

-----------------------------------------------------------------------------
(* The abstract monitor: a thread has it from the compare and swap, or the *)
(* lock of the mutex, to the store of the free word, or the unlock.        *)
OwnersOfWord == {t \in Threads : lockWord.id = ThreadId(t)}
Holder ==
    IF lockWord.fat THEN mutex
    ELSE IF OwnersOfWord = {} THEN None ELSE CHOOSE t \in OwnersOfWord : TRUE
Depth ==
    IF Holder = None THEN 0
    ELSE IF ~lockWord.fat THEN lockWord.count + 1
    ELSE CASE pc[mutex] \in {"setOwner", "unlockMutex"} -> 1
           [] pc[mutex] = "restore" -> saved[mutex]
           [] OTHER -> locksCount

Abstract == INSTANCE Monitor WITH
    holder <- Holder,
    depth <- Depth,
    sleepers <- Sleepers,
    pulsed <- {t \in Threads : pc[t] = "awake"},
    saved <- [t \in Threads |-> IF Waiting(t) THEN saved[t] ELSE 0],
    aborted <- (aborted # None)

(* Both libraries give the program the monitor of module Monitor.          *)
ImplementsMonitor == Abstract!Spec
=============================================================================
