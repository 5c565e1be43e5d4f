--------------------------- MODULE ThinLockProofs ---------------------------
(***************************************************************************)
(* Proofs about the monitors of objects, for any number of threads, any    *)
(* width of the lock word and both libraries.  DistinctIds is what they    *)
(* rest on: no two threads have the same identifier in a lock word.        *)
(*                                                                         *)
(* While the word is thin, it alone says who has the monitor; once it is   *)
(* fat, the mutex does.  The owner that is written in a fat monitor is     *)
(* right for the thread that reads it, although it reads it unlocked:      *)
(* only a thread that waits for a pulse, and reads nothing, is written as  *)
(* the owner without having the mutex.                                     *)
(***************************************************************************)
EXTENDS ThinLock, TLAPS

Mine(t) == lockWord.id = ThreadId(t)

(* The word is thin: there is no fat monitor yet.                          *)
ThinAgrees ==
    /\ mutex = None /\ owner = None
    /\ lockWord.id = 0 => lockWord.count = 0
    /\ \A t \in Threads :
          /\ pc[t] \in ThinPcs \cup {"idle"}
          /\ pc[t] = "inflate" => Mine(t) /\ lockWord.count = 0 /\ held[t] = 0
          /\ pc[t] # "inflate" => held[t] = IF Mine(t) THEN lockWord.count + 1 ELSE 0
          /\ pc[t] \in {"lockFat", "casFat", "unlockFat"} => ~Mine(t)
          /\ pc[t] = "unlockNested" /\ Mine(t) => lockWord.count > 0

(* The word is fat.                                                        *)
Resting   == {"idle", "lockNested", "lockFat", "casFat", "unlockNested",
              "unlockFat"}
FatAgrees ==
    /\ \A t \in Threads :
          /\ pc[t] # "inflate"
          /\ pc[t] \in Resting =>
                /\ mutex = t <=> owner = t
                /\ held[t] = IF mutex = t THEN locksCount ELSE 0
                /\ mutex = t => locksCount > 0
          /\ pc[t] \in Hows => mutex # t /\ owner # t /\ held[t] = 0
          /\ pc[t] = "setOwner" => mutex = t /\ owner # t /\ held[t] = 0
          /\ pc[t] = "unlockMutex" => mutex = t /\ owner = None /\ held[t] = 1
          /\ Waiting(t) => mutex # t /\ held[t] = saved[t] /\ held[t] > 0
          /\ pc[t] = "restore" => mutex = t /\ held[t] = saved[t] /\ held[t] > 0

IInv ==
    /\ TypeOK
    /\ library = "os" => lockWord.fat
    /\ ~lockWord.fat => ThinAgrees
    /\ lockWord.fat => FatAgrees
    /\ AbortsOnlyMisuse

-----------------------------------------------------------------------------
(* Identifiers are different, and different from that of a free lock.      *)
LEMMA Ids ==
    /\ \A t \in Threads : ThreadId(t) \in Nat \ {0}
    /\ \A t, u \in Threads : ThreadId(t) = ThreadId(u) => t = u
BY DistinctIds

(* The parts of a lock word.                                               *)
LEMMA WordParts ==
    ASSUME NEW w \in LockWords
    PROVE  /\ w = [fat |-> w.fat, id |-> w.id, count |-> w.count]
           /\ w.fat \in BOOLEAN /\ w.count \in 0 .. MaxNesting
           /\ w.id \in Nat
BY Ids DEF LockWords

(* The words that the library stores.                                      *)
LEMMA StoredWords ==
    /\ Fat \in LockWords /\ Fat.fat
    /\ Unlocked \in LockWords
    /\ ~Unlocked.fat /\ Unlocked.id = 0 /\ Unlocked.count = 0
    /\ \A t \in Threads :
          /\ LockedOnce(t) \in LockWords
          /\ ~LockedOnce(t).fat /\ LockedOnce(t).id = ThreadId(t)
          /\ LockedOnce(t).count = 0
BY BoundsAssumption DEF LockWords, Fat, Unlocked, LockedOnce, Thin

(* A word with another count.                                              *)
LEMMA Counted ==
    ASSUME NEW w \in LockWords, NEW n \in 0 .. MaxNesting
    PROVE  /\ [w EXCEPT !.count = n] \in LockWords
           /\ [w EXCEPT !.count = n].fat = w.fat
           /\ [w EXCEPT !.count = n].id = w.id
           /\ [w EXCEPT !.count = n].count = n
BY DEF LockWords

(* What a compare and swap of the word compares.                           *)
LEMMA Words ==
    ASSUME lockWord \in LockWords, NEW t \in Threads
    PROVE  /\ lockWord = Unlocked
                <=> ~lockWord.fat /\ lockWord.id = 0 /\ lockWord.count = 0
           /\ lockWord = LockedOnce(t)
                <=> ~lockWord.fat /\ Mine(t) /\ lockWord.count = 0
<1>1. /\ lockWord = [fat |-> lockWord.fat, id |-> lockWord.id, count |-> lockWord.count]
      /\ lockWord.fat \in BOOLEAN
  BY WordParts
<1>2. QED
  BY <1>1 DEF Unlocked, LockedOnce, Thin, Mine

(* What the count of a word tells thread t.                                *)
LEMMA Counters ==
    ASSUME lockWord \in LockWords, NEW t \in Threads
    PROVE  /\ Counter(t) = MaxNesting
                <=> ~lockWord.fat /\ Mine(t) /\ lockWord.count = MaxNesting
           /\ Counter(t) < MaxNesting
                <=> ~lockWord.fat /\ Mine(t) /\ lockWord.count < MaxNesting
           /\ Counter(t) <= MaxNesting <=> ~lockWord.fat /\ Mine(t)
           /\ Counter(t) > MaxNesting <=> lockWord.fat \/ ~Mine(t)
<1>1. lockWord.count \in 0 .. MaxNesting
  BY WordParts
<1>2. QED
  BY <1>1, BoundsAssumption DEF Counter, Mine

(* The initial states.                                                     *)
LEMMA InitIInv == ASSUME Init PROVE IInv
<1> USE NoneAssumption, LibrariesAssumption, BoundsAssumption, Ids, StoredWords
<1>1. TypeOK
  BY DEF Init, FatInit, TypeOK, FatPcs, Hows
<1>2. QED
  BY <1>1 DEF IInv, Init, FatInit, Fat, Unlocked, Thin, ThinAgrees, FatAgrees, Mine,
     Waiting,
     Resting, Hows, AbortsOnlyMisuse, ThinPcs

-----------------------------------------------------------------------------
(* The abstract monitor's variables that are made from pc and saved.       *)
Pulsed     == {t \in Threads : pc[t] = "awake"}
SavedDepth == [t \in Threads |-> IF Waiting(t) THEN saved[t] ELSE 0]
Refines    == [Abstract!Next]_(Abstract!vars)

(* What Holder and Depth are.                                              *)
View ==
    /\ lockWord.fat /\ mutex = None => Holder = None /\ Depth = 0
    /\ \A t \in Threads : lockWord.fat /\ mutex = t =>
          /\ Holder = t
          /\ pc[t] \in {"setOwner", "unlockMutex"} => Depth = 1
          /\ pc[t] = "restore" => Depth = saved[t]
          /\ pc[t] \in Resting => Depth = locksCount
    /\ \A t \in Threads : ~lockWord.fat /\ Mine(t) =>
          Holder = t /\ Depth = lockWord.count + 1
    /\ ~lockWord.fat /\ (\A t \in Threads : ~Mine(t)) => Holder = None /\ Depth = 0

(* The invariant determines them.                                          *)
LEMMA ViewHolds == IInv => View
<1> SUFFICES ASSUME IInv PROVE View
  OBVIOUS
<1>1. CASE lockWord.fat
  <2>1. Holder = mutex
    BY <1>1 DEF Holder
  <2>2. CASE mutex = None
    BY <1>1, <2>1, <2>2, NoneAssumption DEF View, Depth
  <2>3. CASE mutex # None
    BY <1>1, <2>1, <2>3, NoneAssumption DEF View, Depth, Resting
  <2>4. QED
    BY <2>2, <2>3
<1>2. CASE ~lockWord.fat
  <2>1. ASSUME NEW t \in Threads, Mine(t)
        PROVE  Holder = t /\ Depth = lockWord.count + 1
    <3>1. OwnersOfWord = {t}
      BY <2>1, Ids DEF OwnersOfWord, Mine
    <3>2. Holder = t
      BY <3>1, <1>2 DEF Holder
    <3>3. QED
      BY <3>2, <1>2, NoneAssumption DEF Depth
  <2>2. ASSUME \A t \in Threads : ~Mine(t)
        PROVE  Holder = None /\ Depth = 0
    BY <2>2, <1>2 DEF Holder, Depth, OwnersOfWord, Mine
  <2>3. QED
    BY <2>1, <2>2, <1>2 DEF View
<1>3. QED
  BY <1>1, <1>2

(* The same of the next state.                                             *)
LEMMA ViewHoldsNext == IInv' => View'
BY ViewHolds, PTL

(* A step of a thread that neither falls asleep nor wakes up.              *)
LEMMA OthersSleep ==
    ASSUME NEW t \in Threads, saved' = saved, ~Waiting(t), ~Waiting(t)',
           \A s \in Threads : s # t => pc'[s] = pc[s]
    PROVE  /\ Sleepers' = Sleepers /\ Pulsed' = Pulsed /\ SavedDepth' = SavedDepth
           /\ t \notin Sleepers \cup Pulsed
<1>1. \A s \in Threads : /\ pc[s] = "asleep" <=> pc'[s] = "asleep"
                         /\ pc[s] = "awake" <=> pc'[s] = "awake"
  BY DEF Waiting
<1>2. \A s \in Threads : Waiting(s) <=> Waiting(s)'
  BY <1>1 DEF Waiting
<1>3. SavedDepth' = SavedDepth
  BY <1>2 DEF SavedDepth
<1>4. QED
  BY <1>1, <1>3 DEF Sleepers, Pulsed, Waiting

(* A step that changes neither the word nor the fat monitor.               *)
LEMMA ViewStays ==
    ASSUME TypeOK, NEW t \in Threads, lockWord' = lockWord, mutex' = mutex,
           locksCount' = locksCount, saved' = saved,
           \A s \in Threads : s # t => pc'[s] = pc[s],
           pc[t] \notin {"setOwner", "unlockMutex", "restore"},
           pc'[t] \notin {"setOwner", "unlockMutex", "restore"}
    PROVE  Holder' = Holder /\ Depth' = Depth
<1>1. Holder' = Holder
  BY DEF Holder, OwnersOfWord
<1>2. CASE ~lockWord.fat \/ mutex = None
  BY <1>1, <1>2 DEF Depth, Holder
<1>3. CASE lockWord.fat /\ mutex \in Threads
  BY <1>1, <1>3 DEF Depth
<1>4. QED
  BY <1>1, <1>2, <1>3 DEF TypeOK

(* Who sleeps and who was woken stays as it is.                            *)
Same == Sleepers' = Sleepers /\ Pulsed' = Pulsed /\ SavedDepth' = SavedDepth

(* A step the abstract monitor does not see.                               *)
LEMMA DoNothing ==
    ASSUME Same, Holder' = Holder, Depth' = Depth, aborted' = aborted
    PROVE  Refines
BY DEF Refines, Same, Abstract!vars, Pulsed, SavedDepth

(* A thread enters the abstract monitor.                                   *)
LEMMA DoEnter ==
    ASSUME NEW t \in Threads, t \notin Sleepers \cup Pulsed, Same,
           aborted = None, aborted' = aborted,
           \/ Holder = None /\ Holder' = t /\ Depth' = 1
           \/ Holder = t /\ Holder' = t /\ Depth' = Depth + 1
    PROVE  Refines
BY DEF Refines, Same, Abstract!Next, Abstract!Enter, Pulsed, SavedDepth

(* A thread leaves it once.                                                *)
LEMMA DoExit ==
    ASSUME NEW t \in Threads, Same, aborted = None, aborted' = aborted,
           Holder = t, Depth' = Depth - 1,
           Holder' = IF Depth = 1 THEN None ELSE t
    PROVE  Refines
BY DEF Refines, Same, Abstract!Next, Abstract!Exit, Pulsed, SavedDepth

(* A thread that does not hold it uses it.                                 *)
LEMMA DoMisuse ==
    ASSUME NEW t \in Threads, t \notin Sleepers \cup Pulsed, Same,
           aborted = None, aborted' = t, Holder # t,
           Holder' = Holder, Depth' = Depth
    PROVE  Refines
BY NoneAssumption DEF Refines, Same, Abstract!Next, Abstract!Misuse, Pulsed, SavedDepth

-----------------------------------------------------------------------------
(* A thread enters the fat monitor again, or goes for its mutex.           *)
LEMMA StepFatLock ==
    ASSUME IInv, NEW t \in Threads, NEW how \in Hows, lockWord.fat, pc[t] \in {"idle", "lockFat"}, aborted = None,
           FatLock(t, how), UNCHANGED <<lockWord, library>>
    PROVE  IInv' /\ Refines
<1> USE NoneAssumption
<1>p. /\ TypeOK /\ AbortsOnlyMisuse
      /\ library = "os" => lockWord.fat
      /\ ~lockWord.fat => ThinAgrees
      /\ lockWord.fat => FatAgrees
  BY DEF IInv
<1>w. /\ lockWord.fat \in BOOLEAN /\ lockWord.id \in Nat
      /\ lockWord.count \in 0 .. MaxNesting
  BY <1>p, WordParts DEF TypeOK
<1>e. /\ aborted = None
      /\ lockWord.fat /\ pc[t] \in {"idle", "lockFat"} /\ how \in Hows
      /\ \/ /\ owner = t /\ locksCount' = locksCount + 1
            /\ pc' = [pc EXCEPT ![t] = "idle"] /\ held' = [held EXCEPT ![t] = @ + 1]
         \/ /\ owner # t /\ locksCount' = locksCount
            /\ pc' = [pc EXCEPT ![t] = how] /\ held' = held
      /\ mutex' = mutex
      /\ owner' = owner
      /\ saved' = saved
      /\ aborted' = aborted
      /\ library' = library
      /\ lockWord' = lockWord
  BY <1>p, Words, Counters, StoredWords, NoneAssumption DEF TypeOK, Go, At, Got,
     GaveBack, fatVars, FatLock
<1>t. TypeOK'
  BY <1>p, <1>w, <1>e DEF TypeOK, FatPcs, ThinPcs, Hows
<1>1. ~lockWord'.fat => ThinAgrees'
  BY <1>p, <1>w, <1>e, Ids DEF ThinAgrees, TypeOK, Mine, ThinPcs, Hows
<1>2. lockWord'.fat => FatAgrees'
  BY <1>p, <1>w, <1>e DEF FatAgrees, ThinAgrees, TypeOK, Mine, Waiting, Resting,
     Hows, ThinPcs
<1>3. AbortsOnlyMisuse' /\ (library' = "os" => lockWord'.fat)
  BY <1>p, <1>e DEF AbortsOnlyMisuse, TypeOK, FatAgrees, ThinAgrees, Mine, Resting,
     ThinPcs
<1>4. IInv'
  BY <1>t, <1>1, <1>2, <1>3 DEF IInv
<1>s. /\ Sleepers' = Sleepers /\ Pulsed' = Pulsed /\ SavedDepth' = SavedDepth
      /\ t \notin Sleepers \cup Pulsed
  BY <1>p, <1>e, OthersSleep DEF TypeOK, Waiting, Hows
<1>v. View /\ View'
  BY <1>4, ViewHolds, ViewHoldsNext
<1>r. Refines
  <2>1. CASE owner = t /\ pc'[t] = "idle" /\ locksCount' = locksCount + 1
    <3>1. Holder = t /\ Holder' = t /\ Depth' = Depth + 1
      BY <2>1, <1>p, <1>w, <1>e, <1>v, Ids DEF View, FatAgrees, TypeOK, Resting, Mine
    <3>2. QED
      BY <3>1, <1>s, <1>e, DoEnter DEF Same
  <2>2. CASE owner # t /\ pc'[t] = how /\ locksCount' = locksCount
    <3>1. Holder' = Holder /\ Depth' = Depth
      <4>1. /\ \A s \in Threads : s # t => pc'[s] = pc[s]
            /\ pc'[t] \notin {"setOwner", "unlockMutex", "restore"}
            /\ pc[t] \notin {"setOwner", "unlockMutex", "restore"}
        BY <2>2, <1>p, <1>e DEF Hows, TypeOK
      <4>2. QED
        BY <4>1, <2>2, <1>p, <1>e, ViewStays
    <3>2. QED
      BY <3>1, <1>s, <1>e, DoNothing DEF Same
  <2>3. QED
    BY <2>1, <2>2, <1>e, <1>p DEF TypeOK
<1>5. QED
  BY <1>4, <1>r

(* The mutex is locked.                                                    *)
LEMMA StepTakeMutex ==
    ASSUME IInv, NEW t \in Threads, TakeMutex(t), UNCHANGED <<lockWord, library>>
    PROVE  IInv' /\ Refines
<1> USE NoneAssumption
<1>p. /\ TypeOK /\ AbortsOnlyMisuse
      /\ library = "os" => lockWord.fat
      /\ ~lockWord.fat => ThinAgrees
      /\ lockWord.fat => FatAgrees
  BY DEF IInv
<1>w. /\ lockWord.fat \in BOOLEAN /\ lockWord.id \in Nat
      /\ lockWord.count \in 0 .. MaxNesting
  BY <1>p, WordParts DEF TypeOK
<1>e. /\ aborted = None
      /\ pc[t] \in Hows /\ pc' = [pc EXCEPT ![t] = "setOwner"]
      /\ mutex = None /\ mutex' = t
      /\ owner' = owner
      /\ locksCount' = locksCount
      /\ saved' = saved
      /\ held' = held
      /\ aborted' = aborted
      /\ library' = library
      /\ lockWord' = lockWord
  BY <1>p, Words, Counters, StoredWords, NoneAssumption DEF TypeOK, Go, At, Got,
     GaveBack, fatVars, TakeMutex
<1>t. TypeOK'
  BY <1>p, <1>w, <1>e DEF TypeOK, FatPcs, ThinPcs, Hows
<1>1. ~lockWord'.fat => ThinAgrees'
  BY <1>p, <1>w, <1>e, Ids DEF ThinAgrees, TypeOK, Mine, ThinPcs, Hows
<1>2. lockWord'.fat => FatAgrees'
  BY <1>p, <1>w, <1>e DEF FatAgrees, ThinAgrees, TypeOK, Mine, Waiting, Resting,
     Hows, ThinPcs
<1>3. AbortsOnlyMisuse' /\ (library' = "os" => lockWord'.fat)
  BY <1>p, <1>e DEF AbortsOnlyMisuse, TypeOK, FatAgrees, ThinAgrees, Mine, Resting,
     ThinPcs
<1>4. IInv'
  BY <1>t, <1>1, <1>2, <1>3 DEF IInv
<1>s. /\ Sleepers' = Sleepers /\ Pulsed' = Pulsed /\ SavedDepth' = SavedDepth
      /\ t \notin Sleepers \cup Pulsed
  BY <1>p, <1>e, OthersSleep DEF TypeOK, Waiting, Hows
<1>v. View /\ View'
  BY <1>4, ViewHolds, ViewHoldsNext
<1>r. Refines
  <2>1. Holder = None /\ Holder' = t /\ Depth' = 1
    BY <1>p, <1>w, <1>e, <1>v, Ids DEF View, FatAgrees, ThinAgrees, TypeOK,
       Resting, Mine, Hows, ThinPcs
  <2>2. QED
    BY <2>1, <1>s, <1>e, DoEnter DEF Same
<1>5. QED
  BY <1>4, <1>r

(* The thread that tried to lock gives up.                                 *)
LEMMA StepGiveUp ==
    ASSUME IInv, NEW t \in Threads, GiveUp(t), UNCHANGED <<lockWord, library>>
    PROVE  IInv' /\ Refines
<1> USE NoneAssumption
<1>p. /\ TypeOK /\ AbortsOnlyMisuse
      /\ library = "os" => lockWord.fat
      /\ ~lockWord.fat => ThinAgrees
      /\ lockWord.fat => FatAgrees
  BY DEF IInv
<1>w. /\ lockWord.fat \in BOOLEAN /\ lockWord.id \in Nat
      /\ lockWord.count \in 0 .. MaxNesting
  BY <1>p, WordParts DEF TypeOK
<1>e. /\ aborted = None
      /\ pc[t] \in Hows /\ pc' = [pc EXCEPT ![t] = "idle"]
      /\ mutex' = mutex
      /\ owner' = owner
      /\ locksCount' = locksCount
      /\ saved' = saved
      /\ held' = held
      /\ aborted' = aborted
      /\ library' = library
      /\ lockWord' = lockWord
  BY <1>p, Words, Counters, StoredWords, NoneAssumption DEF TypeOK, Go, At, Got,
     GaveBack, fatVars, GiveUp, Hows
<1>t. TypeOK'
  BY <1>p, <1>w, <1>e DEF TypeOK, FatPcs, ThinPcs, Hows
<1>1. ~lockWord'.fat => ThinAgrees'
  BY <1>p, <1>w, <1>e, Ids DEF ThinAgrees, TypeOK, Mine, ThinPcs, Hows
<1>2. lockWord'.fat => FatAgrees'
  BY <1>p, <1>w, <1>e DEF FatAgrees, ThinAgrees, TypeOK, Mine, Waiting, Resting,
     Hows, ThinPcs
<1>3. AbortsOnlyMisuse' /\ (library' = "os" => lockWord'.fat)
  BY <1>p, <1>e DEF AbortsOnlyMisuse, TypeOK, FatAgrees, ThinAgrees, Mine, Resting,
     ThinPcs
<1>4. IInv'
  BY <1>t, <1>1, <1>2, <1>3 DEF IInv
<1>s. /\ Sleepers' = Sleepers /\ Pulsed' = Pulsed /\ SavedDepth' = SavedDepth
      /\ t \notin Sleepers \cup Pulsed
  BY <1>p, <1>e, OthersSleep DEF TypeOK, Waiting, Hows
<1>v. View /\ View'
  BY <1>4, ViewHolds, ViewHoldsNext
<1>r. Refines
  <2>1. Holder' = Holder /\ Depth' = Depth
    BY <1>p, <1>e, ViewStays DEF Hows
  <2>2. QED
    BY <2>1, <1>s, <1>e, DoNothing DEF Same
<1>5. QED
  BY <1>4, <1>r

(* The new owner is written.                                               *)
LEMMA StepSetOwner ==
    ASSUME IInv, NEW t \in Threads, SetOwner(t), UNCHANGED <<lockWord, library>>
    PROVE  IInv' /\ Refines
<1> USE NoneAssumption
<1>p. /\ TypeOK /\ AbortsOnlyMisuse
      /\ library = "os" => lockWord.fat
      /\ ~lockWord.fat => ThinAgrees
      /\ lockWord.fat => FatAgrees
  BY DEF IInv
<1>w. /\ lockWord.fat \in BOOLEAN /\ lockWord.id \in Nat
      /\ lockWord.count \in 0 .. MaxNesting
  BY <1>p, WordParts DEF TypeOK
<1>e. /\ aborted = None
      /\ pc' = [pc EXCEPT ![t] = "idle"] /\ pc[t] = "setOwner"
      /\ held' = [held EXCEPT ![t] = @ + 1]
      /\ owner' = t /\ locksCount' = 1
      /\ mutex' = mutex
      /\ saved' = saved
      /\ aborted' = aborted
      /\ library' = library
      /\ lockWord' = lockWord
  BY <1>p, Words, Counters, StoredWords, NoneAssumption DEF TypeOK, Go, At, Got,
     GaveBack, fatVars, SetOwner
<1>t. TypeOK'
  BY <1>p, <1>w, <1>e DEF TypeOK, FatPcs, ThinPcs, Hows
<1>1. ~lockWord'.fat => ThinAgrees'
  BY <1>p, <1>w, <1>e, Ids DEF ThinAgrees, TypeOK, Mine, ThinPcs, Hows
<1>2. lockWord'.fat => FatAgrees'
  BY <1>p, <1>w, <1>e DEF FatAgrees, ThinAgrees, TypeOK, Mine, Waiting, Resting,
     Hows, ThinPcs
<1>3. AbortsOnlyMisuse' /\ (library' = "os" => lockWord'.fat)
  BY <1>p, <1>e DEF AbortsOnlyMisuse, TypeOK, FatAgrees, ThinAgrees, Mine, Resting,
     ThinPcs
<1>4. IInv'
  BY <1>t, <1>1, <1>2, <1>3 DEF IInv
<1>s. /\ Sleepers' = Sleepers /\ Pulsed' = Pulsed /\ SavedDepth' = SavedDepth
      /\ t \notin Sleepers \cup Pulsed
  BY <1>p, <1>e, OthersSleep DEF TypeOK, Waiting, Hows
<1>v. View /\ View'
  BY <1>4, ViewHolds, ViewHoldsNext
<1>r. Refines
  <2>1. Holder' = Holder /\ Depth' = Depth
    BY <1>p, <1>e, <1>v DEF View, FatAgrees, ThinAgrees, TypeOK, Resting, ThinPcs
  <2>2. QED
    BY <2>1, <1>s, <1>e, DoNothing DEF Same
<1>5. QED
  BY <1>4, <1>r

(* A thread leaves the fat monitor, or ends the program.                   *)
LEMMA StepFatUnlock ==
    ASSUME IInv, NEW t \in Threads, lockWord.fat, pc[t] \in {"idle", "unlockFat"}, aborted = None,
           FatUnlock(t), UNCHANGED <<lockWord, library>>
    PROVE  IInv' /\ Refines
<1> USE NoneAssumption
<1>p. /\ TypeOK /\ AbortsOnlyMisuse
      /\ library = "os" => lockWord.fat
      /\ ~lockWord.fat => ThinAgrees
      /\ lockWord.fat => FatAgrees
  BY DEF IInv
<1>w. /\ lockWord.fat \in BOOLEAN /\ lockWord.id \in Nat
      /\ lockWord.count \in 0 .. MaxNesting
  BY <1>p, WordParts DEF TypeOK
<1>e. /\ aborted = None
      /\ lockWord.fat /\ pc[t] \in {"idle", "unlockFat"}
      /\ \/ /\ owner # t /\ aborted' = t
            /\ UNCHANGED <<owner, locksCount, pc, held>>
         \/ /\ owner = t /\ locksCount = 1 /\ locksCount' = 0 /\ owner' = None
            /\ pc' = [pc EXCEPT ![t] = "unlockMutex"]
            /\ UNCHANGED <<held, aborted>>
         \/ /\ owner = t /\ locksCount # 1 /\ locksCount' = locksCount - 1
            /\ pc' = [pc EXCEPT ![t] = "idle"] /\ held' = [held EXCEPT ![t] = @ - 1]
            /\ UNCHANGED <<owner, aborted>>
      /\ mutex' = mutex
      /\ saved' = saved
      /\ library' = library
      /\ lockWord' = lockWord
  BY <1>p, Words, Counters, StoredWords, NoneAssumption DEF TypeOK, Go, At, Got,
     GaveBack, fatVars, FatUnlock, LastUnlock, Abort
<1>x. owner = t => mutex = t /\ held[t] = locksCount /\ locksCount \in Nat \ {0}
  BY <1>p, <1>e DEF FatAgrees, Resting, TypeOK
<1>t. TypeOK'
  BY <1>p, <1>w, <1>e, <1>x DEF TypeOK, FatPcs, ThinPcs, Hows
<1>1. ~lockWord'.fat => ThinAgrees'
  BY <1>p, <1>w, <1>e, Ids, <1>x DEF ThinAgrees, TypeOK, Mine, ThinPcs, Hows
<1>2. lockWord'.fat => FatAgrees'
  BY <1>p, <1>w, <1>e, <1>x DEF FatAgrees, ThinAgrees, TypeOK, Mine, Waiting,
     Resting, Hows, ThinPcs
<1>3. AbortsOnlyMisuse' /\ (library' = "os" => lockWord'.fat)
  BY <1>p, <1>e, <1>x DEF AbortsOnlyMisuse, TypeOK, FatAgrees, ThinAgrees, Mine,
     Resting, ThinPcs
<1>4. IInv'
  BY <1>t, <1>1, <1>2, <1>3 DEF IInv
<1>s. /\ Sleepers' = Sleepers /\ Pulsed' = Pulsed /\ SavedDepth' = SavedDepth
      /\ t \notin Sleepers \cup Pulsed
  BY <1>p, <1>e, OthersSleep DEF TypeOK, Waiting, Hows
<1>v. View /\ View'
  BY <1>4, ViewHolds, ViewHoldsNext
<1>r. Refines
  <2>1. CASE owner # t /\ aborted' = t /\ UNCHANGED <<owner, locksCount, pc, held>>
    <3>1. Holder' = Holder /\ Depth' = Depth
      BY <2>1, <1>p, <1>e, ViewStays
    <3>2. Holder # t
      BY <2>1, <1>p, <1>e DEF Holder, FatAgrees, Resting
    <3>3. QED
      BY <2>1, <3>1, <3>2, <1>s, <1>e, DoMisuse DEF Same
  <2>2. CASE owner = t /\ locksCount = 1 /\ pc'[t] = "unlockMutex" /\ aborted' = aborted
    <3>1. Holder' = Holder /\ Depth' = Depth
      BY <2>2, <1>p, <1>e, <1>v, <1>x DEF View, Resting
    <3>2. QED
      BY <2>2, <3>1, <1>s, <1>e, DoNothing DEF Same
  <2>3. CASE /\ owner = t /\ locksCount # 1 /\ locksCount' = locksCount - 1
             /\ pc'[t] = "idle" /\ aborted' = aborted
    <3>1. Holder = t /\ Holder' = t /\ Depth = locksCount /\ Depth' = locksCount - 1
      BY <2>3, <1>p, <1>e, <1>v, <1>x DEF View, Resting
    <3>2. QED
      BY <2>3, <3>1, <1>s, <1>e, DoExit DEF Same
  <2>4. QED
    BY <2>1, <2>2, <2>3, <1>e, <1>p DEF TypeOK
<1>5. QED
  BY <1>4, <1>r

(* The mutex is unlocked.                                                  *)
LEMMA StepUnlockMutex ==
    ASSUME IInv, NEW t \in Threads, UnlockMutex(t), UNCHANGED <<lockWord, library>>
    PROVE  IInv' /\ Refines
<1> USE NoneAssumption
<1>p. /\ TypeOK /\ AbortsOnlyMisuse
      /\ library = "os" => lockWord.fat
      /\ ~lockWord.fat => ThinAgrees
      /\ lockWord.fat => FatAgrees
  BY DEF IInv
<1>w. /\ lockWord.fat \in BOOLEAN /\ lockWord.id \in Nat
      /\ lockWord.count \in 0 .. MaxNesting
  BY <1>p, WordParts DEF TypeOK
<1>e. /\ aborted = None
      /\ pc' = [pc EXCEPT ![t] = "idle"] /\ pc[t] = "unlockMutex"
      /\ held' = [held EXCEPT ![t] = @ - 1]
      /\ mutex' = None
      /\ owner' = owner
      /\ locksCount' = locksCount
      /\ saved' = saved
      /\ aborted' = aborted
      /\ library' = library
      /\ lockWord' = lockWord
  BY <1>p, Words, Counters, StoredWords, NoneAssumption DEF TypeOK, Go, At, Got,
     GaveBack, fatVars, UnlockMutex
<1>x. lockWord.fat /\ held[t] = 1 /\ owner = None /\ mutex = t
  BY <1>p, <1>e DEF FatAgrees, ThinAgrees, ThinPcs
<1>t. TypeOK'
  BY <1>p, <1>w, <1>e, <1>x DEF TypeOK, FatPcs, ThinPcs, Hows
<1>1. ~lockWord'.fat => ThinAgrees'
  BY <1>p, <1>w, <1>e, Ids, <1>x DEF ThinAgrees, TypeOK, Mine, ThinPcs, Hows
<1>2. lockWord'.fat => FatAgrees'
  BY <1>p, <1>w, <1>e, <1>x DEF FatAgrees, ThinAgrees, TypeOK, Mine, Waiting,
     Resting, Hows, ThinPcs
<1>3. AbortsOnlyMisuse' /\ (library' = "os" => lockWord'.fat)
  BY <1>p, <1>e, <1>x DEF AbortsOnlyMisuse, TypeOK, FatAgrees, ThinAgrees, Mine,
     Resting, ThinPcs
<1>4. IInv'
  BY <1>t, <1>1, <1>2, <1>3 DEF IInv
<1>s. /\ Sleepers' = Sleepers /\ Pulsed' = Pulsed /\ SavedDepth' = SavedDepth
      /\ t \notin Sleepers \cup Pulsed
  BY <1>p, <1>e, OthersSleep DEF TypeOK, Waiting, Hows
<1>v. View /\ View'
  BY <1>4, ViewHolds, ViewHoldsNext
<1>r. Refines
  <2>1. Holder = t /\ Depth = 1 /\ Holder' = None /\ Depth' = 0
    BY <1>e, <1>v, <1>x DEF View
  <2>2. QED
    BY <2>1, <1>s, <1>e, DoExit DEF Same
<1>5. QED
  BY <1>4, <1>r

(* A thread begins to wait for a pulse, or ends the program.               *)
LEMMA StepFatWait ==
    ASSUME IInv, NEW t \in Threads, lockWord.fat, pc[t] = "idle", aborted = None,
           FatWait(t), UNCHANGED <<lockWord, library>>
    PROVE  IInv' /\ Refines
<1> USE NoneAssumption
<1>p. /\ TypeOK /\ AbortsOnlyMisuse
      /\ library = "os" => lockWord.fat
      /\ ~lockWord.fat => ThinAgrees
      /\ lockWord.fat => FatAgrees
  BY DEF IInv
<1>w. /\ lockWord.fat \in BOOLEAN /\ lockWord.id \in Nat
      /\ lockWord.count \in 0 .. MaxNesting
  BY <1>p, WordParts DEF TypeOK
<1>e. /\ aborted = None
      /\ lockWord.fat /\ pc[t] = "idle"
      /\ \/ /\ owner # t /\ aborted' = t
            /\ UNCHANGED <<mutex, pc, saved>>
         \/ /\ owner = t /\ mutex' = None /\ saved' = [saved EXCEPT ![t] = locksCount]
            /\ pc' = [pc EXCEPT ![t] = "asleep"]
            /\ UNCHANGED aborted
      /\ owner' = owner
      /\ locksCount' = locksCount
      /\ held' = held
      /\ library' = library
      /\ lockWord' = lockWord
  BY <1>p, Words, Counters, StoredWords, NoneAssumption DEF TypeOK, Go, At, Got,
     GaveBack, fatVars, FatWait, Abort
<1>t. TypeOK'
  BY <1>p, <1>w, <1>e DEF TypeOK, FatPcs, ThinPcs, Hows
<1>1. ~lockWord'.fat => ThinAgrees'
  BY <1>p, <1>w, <1>e, Ids DEF ThinAgrees, TypeOK, Mine, ThinPcs, Hows
<1>2. lockWord'.fat => FatAgrees'
  BY <1>p, <1>w, <1>e DEF FatAgrees, ThinAgrees, TypeOK, Mine, Waiting, Resting,
     Hows, ThinPcs
<1>3. AbortsOnlyMisuse' /\ (library' = "os" => lockWord'.fat)
  BY <1>p, <1>e DEF AbortsOnlyMisuse, TypeOK, FatAgrees, ThinAgrees, Mine, Resting,
     ThinPcs
<1>4. IInv'
  BY <1>t, <1>1, <1>2, <1>3 DEF IInv
<1>v. View /\ View'
  BY <1>4, ViewHolds, ViewHoldsNext
<1>r. Refines
  <2>1. CASE owner # t /\ aborted' = t /\ UNCHANGED <<mutex, pc, saved>>
    <3>1. Holder' = Holder /\ Depth' = Depth
      BY <2>1, <1>p, <1>e, ViewStays
    <3>2. Holder # t
      BY <2>1, <1>p, <1>e DEF Holder, FatAgrees, Resting
    <3>3. Same /\ t \notin Sleepers \cup Pulsed
      BY <2>1, <1>e DEF Same, Sleepers, Pulsed, SavedDepth, Waiting
    <3>4. QED
      BY <2>1, <3>1, <3>2, <3>3, <1>e, DoMisuse
  <2>2. CASE /\ owner = t /\ mutex' = None /\ saved' = [saved EXCEPT ![t] = locksCount]
             /\ pc' = [pc EXCEPT ![t] = "asleep"] /\ aborted' = aborted
    <3>1. Holder = t /\ Depth = locksCount /\ Holder' = None /\ Depth' = 0
      BY <2>2, <1>p, <1>e, <1>v DEF View, FatAgrees, Resting
    <3>2. Sleepers' = Sleepers \cup {t} /\ Pulsed' = Pulsed
      BY <2>2, <1>p, <1>e DEF Sleepers, Pulsed, TypeOK
    <3>3. SavedDepth' = [SavedDepth EXCEPT ![t] = locksCount]
      BY <2>2, <1>p, <1>e DEF SavedDepth, Waiting, TypeOK
    <3>4. QED
      BY <2>2, <3>1, <3>2, <3>3, <1>e
         DEF Refines, Abstract!Next, Abstract!Wait, Pulsed, SavedDepth
  <2>3. QED
    BY <2>1, <2>2, <1>e
<1>5. QED
  BY <1>4, <1>r

(* A thread that was woken has the mutex again.                            *)
LEMMA StepWakeUp ==
    ASSUME IInv, NEW t \in Threads, WakeUp(t), UNCHANGED <<lockWord, library>>
    PROVE  IInv' /\ Refines
<1> USE NoneAssumption
<1>p. /\ TypeOK /\ AbortsOnlyMisuse
      /\ library = "os" => lockWord.fat
      /\ ~lockWord.fat => ThinAgrees
      /\ lockWord.fat => FatAgrees
  BY DEF IInv
<1>w. /\ lockWord.fat \in BOOLEAN /\ lockWord.id \in Nat
      /\ lockWord.count \in 0 .. MaxNesting
  BY <1>p, WordParts DEF TypeOK
<1>e. /\ aborted = None
      /\ pc' = [pc EXCEPT ![t] = "restore"] /\ pc[t] = "awake"
      /\ mutex = None /\ mutex' = t
      /\ owner' = owner
      /\ locksCount' = locksCount
      /\ saved' = saved
      /\ held' = held
      /\ aborted' = aborted
      /\ library' = library
      /\ lockWord' = lockWord
  BY <1>p, Words, Counters, StoredWords, NoneAssumption DEF TypeOK, Go, At, Got,
     GaveBack, fatVars, WakeUp
<1>t. TypeOK'
  BY <1>p, <1>w, <1>e DEF TypeOK, FatPcs, ThinPcs, Hows
<1>1. ~lockWord'.fat => ThinAgrees'
  BY <1>p, <1>w, <1>e, Ids DEF ThinAgrees, TypeOK, Mine, ThinPcs, Hows
<1>2. lockWord'.fat => FatAgrees'
  BY <1>p, <1>w, <1>e DEF FatAgrees, ThinAgrees, TypeOK, Mine, Waiting, Resting,
     Hows, ThinPcs
<1>3. AbortsOnlyMisuse' /\ (library' = "os" => lockWord'.fat)
  BY <1>p, <1>e DEF AbortsOnlyMisuse, TypeOK, FatAgrees, ThinAgrees, Mine, Resting,
     ThinPcs
<1>4. IInv'
  BY <1>t, <1>1, <1>2, <1>3 DEF IInv
<1>v. View /\ View'
  BY <1>4, ViewHolds, ViewHoldsNext
<1>r. Refines
  <2>1. Holder = None /\ Holder' = t /\ Depth' = saved[t]
    BY <1>p, <1>e, <1>v DEF View, ThinAgrees, TypeOK, ThinPcs
  <2>2. Sleepers' = Sleepers /\ Pulsed' = Pulsed \ {t} /\ t \in Pulsed
    BY <1>p, <1>e DEF Sleepers, Pulsed, TypeOK
  <2>3. SavedDepth' = [SavedDepth EXCEPT ![t] = 0] /\ SavedDepth[t] = saved[t]
    BY <1>p, <1>e DEF SavedDepth, Waiting, TypeOK
  <2>4. QED
    BY <2>1, <2>2, <2>3, <1>e
       DEF Refines, Abstract!Next, Abstract!Reenter, Pulsed, SavedDepth
<1>5. QED
  BY <1>4, <1>r

(* It restores the owner and the count.                                    *)
LEMMA StepRestore ==
    ASSUME IInv, NEW t \in Threads, Restore(t), UNCHANGED <<lockWord, library>>
    PROVE  IInv' /\ Refines
<1> USE NoneAssumption
<1>p. /\ TypeOK /\ AbortsOnlyMisuse
      /\ library = "os" => lockWord.fat
      /\ ~lockWord.fat => ThinAgrees
      /\ lockWord.fat => FatAgrees
  BY DEF IInv
<1>w. /\ lockWord.fat \in BOOLEAN /\ lockWord.id \in Nat
      /\ lockWord.count \in 0 .. MaxNesting
  BY <1>p, WordParts DEF TypeOK
<1>e. /\ aborted = None
      /\ pc' = [pc EXCEPT ![t] = "idle"] /\ pc[t] = "restore"
      /\ owner' = t /\ locksCount' = saved[t]
      /\ mutex' = mutex
      /\ saved' = saved
      /\ held' = held
      /\ aborted' = aborted
      /\ library' = library
      /\ lockWord' = lockWord
  BY <1>p, Words, Counters, StoredWords, NoneAssumption DEF TypeOK, Go, At, Got,
     GaveBack, fatVars, Restore
<1>t. TypeOK'
  BY <1>p, <1>w, <1>e DEF TypeOK, FatPcs, ThinPcs, Hows
<1>1. ~lockWord'.fat => ThinAgrees'
  BY <1>p, <1>w, <1>e, Ids DEF ThinAgrees, TypeOK, Mine, ThinPcs, Hows
<1>2. lockWord'.fat => FatAgrees'
  BY <1>p, <1>w, <1>e DEF FatAgrees, ThinAgrees, TypeOK, Mine, Waiting, Resting,
     Hows, ThinPcs
<1>3. AbortsOnlyMisuse' /\ (library' = "os" => lockWord'.fat)
  BY <1>p, <1>e DEF AbortsOnlyMisuse, TypeOK, FatAgrees, ThinAgrees, Mine, Resting,
     ThinPcs
<1>4. IInv'
  BY <1>t, <1>1, <1>2, <1>3 DEF IInv
<1>s. /\ Sleepers' = Sleepers /\ Pulsed' = Pulsed /\ SavedDepth' = SavedDepth
      /\ t \notin Sleepers \cup Pulsed
  BY <1>p, <1>e, OthersSleep DEF TypeOK, Waiting, Hows
<1>v. View /\ View'
  BY <1>4, ViewHolds, ViewHoldsNext
<1>r. Refines
  <2>1. Holder' = Holder /\ Depth' = Depth
    BY <1>p, <1>e, <1>v DEF View, FatAgrees, ThinAgrees, TypeOK, Resting, ThinPcs
  <2>2. QED
    BY <2>1, <1>s, <1>e, DoNothing DEF Same
<1>5. QED
  BY <1>4, <1>r

(* Some of the threads that sleep are woken.                               *)
LEMMA StepFatPulse ==
    ASSUME IInv, NEW t \in Threads, lockWord.fat, pc[t] = "idle", aborted = None,
           FatPulse(t, WakeOne) \/ FatPulse(t, WakeAll), UNCHANGED <<lockWord, library>>
    PROVE  IInv' /\ Refines
<1> USE NoneAssumption
<1>p. /\ TypeOK /\ AbortsOnlyMisuse
      /\ library = "os" => lockWord.fat
      /\ ~lockWord.fat => ThinAgrees
      /\ lockWord.fat => FatAgrees
  BY DEF IInv
<1>w. /\ lockWord.fat \in BOOLEAN /\ lockWord.id \in Nat
      /\ lockWord.count \in 0 .. MaxNesting
  BY <1>p, WordParts DEF TypeOK
<1>e. /\ aborted = None
      /\ lockWord.fat /\ pc[t] = "idle"
      /\ pc' \in [Threads -> FatPcs \cup ThinPcs]
      /\ \A s \in Threads : pc'[s] = pc[s] \/ (pc[s] = "asleep" /\ pc'[s] = "awake")
      /\ aborted' = aborted \/ (owner # t /\ aborted' = t)
      /\ mutex' = mutex
      /\ owner' = owner
      /\ locksCount' = locksCount
      /\ saved' = saved
      /\ held' = held
      /\ library' = library
      /\ lockWord' = lockWord
  <2>1. CASE owner # t /\ Abort(t)
    BY <2>1, <1>p DEF TypeOK, Abort, fatVars
  <2>2. CASE WakeOne /\ UNCHANGED <<fatVars, saved, held, aborted>>
    <3>1. PICK s \in Sleepers : pc' = [pc EXCEPT ![s] = "awake"]
      BY <2>2 DEF WakeOne
    <3>2. QED
      BY <3>1, <2>2, <1>p DEF TypeOK, Sleepers, FatPcs, fatVars
  <2>3. CASE WakeAll /\ UNCHANGED <<fatVars, saved, held, aborted>>
    BY <2>3, <1>p DEF TypeOK, WakeAll, Sleepers, FatPcs, fatVars
  <2>4. QED
    BY <2>1, <2>2, <2>3 DEF FatPulse
<1>t. TypeOK'
  BY <1>p, <1>w, <1>e DEF TypeOK, FatPcs, ThinPcs, Hows
<1>1. ~lockWord'.fat => ThinAgrees'
  BY <1>p, <1>w, <1>e, Ids DEF ThinAgrees, TypeOK, Mine, ThinPcs, Hows
<1>2. lockWord'.fat => FatAgrees'
  BY <1>p, <1>w, <1>e DEF FatAgrees, ThinAgrees, TypeOK, Mine, Waiting, Resting,
     Hows, ThinPcs
<1>3. AbortsOnlyMisuse' /\ (library' = "os" => lockWord'.fat)
  BY <1>p, <1>e DEF AbortsOnlyMisuse, TypeOK, FatAgrees, ThinAgrees, Mine, Resting,
     ThinPcs
<1>4. IInv'
  BY <1>t, <1>1, <1>2, <1>3 DEF IInv
<1>v. View /\ View'
  BY <1>4, ViewHolds, ViewHoldsNext
<1>r. Refines
  <2>1. CASE owner # t /\ Abort(t)
    <3>1. Holder' = Holder /\ Depth' = Depth
      BY <2>1, <1>p, <1>e, ViewStays DEF Abort
    <3>2. Holder # t
      BY <2>1, <1>p, <1>e DEF Holder, FatAgrees, Resting
    <3>3. Same /\ t \notin Sleepers \cup Pulsed
      BY <2>1, <1>e DEF Abort, Same, Sleepers, Pulsed, SavedDepth, Waiting
    <3>4. QED
      BY <2>1, <3>1, <3>2, <3>3, <1>e, DoMisuse DEF Abort
  <2>2. CASE owner = t /\ aborted' = aborted /\ (WakeOne \/ WakeAll)
    <3>1. Holder = t /\ Holder' = t /\ Depth' = Depth
      BY <2>2, <1>p, <1>e, <1>v DEF View, FatAgrees, Resting
    <3>2. SavedDepth' = SavedDepth
      <4>1. \A s \in Threads : Waiting(s)' <=> Waiting(s)
        BY <1>e DEF Waiting
      <4>2. QED
        BY <4>1, <1>e DEF SavedDepth
    <3>3. CASE WakeOne
      <4>1. PICK s \in Sleepers : pc' = [pc EXCEPT ![s] = "awake"]
        BY <3>3 DEF WakeOne
      <4>2. Sleepers' = Sleepers \ {s} /\ Pulsed' = Pulsed \cup {s}
        BY <4>1, <1>p DEF Sleepers, Pulsed, TypeOK
      <4>3. QED
        BY <2>2, <3>1, <3>2, <4>2, <1>e
           DEF Refines, Abstract!Next, Abstract!Pulse, Pulsed, SavedDepth
    <3>4. CASE WakeAll
      <4>1. Sleepers' = {} /\ Pulsed' = Pulsed \cup Sleepers
        BY <3>4, <1>p DEF WakeAll, Sleepers, Pulsed, TypeOK
      <4>2. QED
        BY <2>2, <3>1, <3>2, <4>1, <1>e
           DEF Refines, Abstract!Next, Abstract!PulseAll, Pulsed, SavedDepth
    <3>5. QED
      BY <2>2, <3>3, <3>4
  <2>3. QED
    BY <2>1, <2>2 DEF FatPulse
<1>5. QED
  BY <1>4, <1>r

(* The compare and swap of a free lock.                                    *)
LEMMA StepLockUnlocked ==
    ASSUME IInv, NEW t \in Threads, LockUnlocked(t)
    PROVE  IInv' /\ Refines
<1> USE NoneAssumption
<1>p. /\ TypeOK /\ AbortsOnlyMisuse
      /\ library = "os" => lockWord.fat
      /\ ~lockWord.fat => ThinAgrees
      /\ lockWord.fat => FatAgrees
  BY DEF IInv
<1>w. /\ lockWord.fat \in BOOLEAN /\ lockWord.id \in Nat
      /\ lockWord.count \in 0 .. MaxNesting
  BY <1>p, WordParts DEF TypeOK
<1>e. /\ aborted = None
      /\ pc[t] = "idle"
      /\ \/ /\ ~lockWord.fat /\ lockWord.id = 0 /\ lockWord.count = 0
            /\ lockWord' \in LockWords /\ ~lockWord'.fat /\ lockWord'.id = ThreadId(t)
            /\ lockWord'.count = 0
            /\ pc' = [pc EXCEPT ![t] = "idle"] /\ held' = [held EXCEPT ![t] = @ + 1]
         \/ /\ lockWord' = lockWord /\ held' = held
            /\ pc' = [pc EXCEPT ![t] = "lockNested"]
      /\ mutex' = mutex
      /\ owner' = owner
      /\ locksCount' = locksCount
      /\ saved' = saved
      /\ aborted' = aborted
      /\ library' = library
  BY <1>p, Words, Counters, StoredWords, NoneAssumption DEF TypeOK, Go, At, Got,
     GaveBack, fatVars, LockUnlocked
<1>t. TypeOK'
  BY <1>p, <1>w, <1>e DEF TypeOK, FatPcs, ThinPcs, Hows
<1>1. ~lockWord'.fat => ThinAgrees'
  BY <1>p, <1>w, <1>e, Ids DEF ThinAgrees, TypeOK, Mine, ThinPcs, Hows
<1>2. lockWord'.fat => FatAgrees'
  BY <1>p, <1>w, <1>e DEF FatAgrees, ThinAgrees, TypeOK, Mine, Waiting, Resting,
     Hows, ThinPcs
<1>3. AbortsOnlyMisuse' /\ (library' = "os" => lockWord'.fat)
  BY <1>p, <1>e DEF AbortsOnlyMisuse, TypeOK, FatAgrees, ThinAgrees, Mine, Resting,
     ThinPcs
<1>4. IInv'
  BY <1>t, <1>1, <1>2, <1>3 DEF IInv
<1>s. /\ Sleepers' = Sleepers /\ Pulsed' = Pulsed /\ SavedDepth' = SavedDepth
      /\ t \notin Sleepers \cup Pulsed
  BY <1>p, <1>e, OthersSleep DEF TypeOK, Waiting, Hows
<1>v. View /\ View'
  BY <1>4, ViewHolds, ViewHoldsNext
<1>r. Refines
  <2>1. CASE ~lockWord.fat /\ lockWord.id = 0 /\ ~lockWord'.fat /\ lockWord'.id = ThreadId(t) /\ lockWord'.count = 0
    <3>1. Holder = None /\ Holder' = t /\ Depth' = 1
      BY <2>1, <1>p, <1>w, <1>e, <1>v, Ids DEF View, FatAgrees, TypeOK, Resting, Mine
    <3>2. QED
      BY <3>1, <1>s, <1>e, DoEnter DEF Same
  <2>2. CASE lockWord' = lockWord /\ pc' = [pc EXCEPT ![t] = "lockNested"]
    <3>1. Holder' = Holder /\ Depth' = Depth
      BY <2>2, <1>p, <1>e, ViewStays DEF Hows
    <3>2. QED
      BY <3>1, <1>s, <1>e, DoNothing DEF Same
  <2>3. QED
    BY <2>1, <2>2, <1>e
<1>5. QED
  BY <1>4, <1>r

(* The nesting is too deep for the word: the lock is inflated.             *)
LEMMA StepLockDeeplyNested ==
    ASSUME IInv, NEW t \in Threads, LockDeeplyNested(t)
    PROVE  IInv' /\ Refines
<1> USE NoneAssumption
<1>p. /\ TypeOK /\ AbortsOnlyMisuse
      /\ library = "os" => lockWord.fat
      /\ ~lockWord.fat => ThinAgrees
      /\ lockWord.fat => FatAgrees
  BY DEF IInv
<1>w. /\ lockWord.fat \in BOOLEAN /\ lockWord.id \in Nat
      /\ lockWord.count \in 0 .. MaxNesting
  BY <1>p, WordParts DEF TypeOK
<1>e. /\ aborted = None
      /\ pc[t] = "lockNested" /\ ~lockWord.fat /\ Mine(t) /\ lockWord.count = MaxNesting
      /\ lockWord' \in LockWords /\ lockWord'.fat /\ mutex' = t /\ owner' = t /\ locksCount' = MaxNesting + 2
      /\ pc' = [pc EXCEPT ![t] = "idle"] /\ held' = [held EXCEPT ![t] = @ + 1]
      /\ saved' = saved
      /\ aborted' = aborted
      /\ library' = library
  BY <1>p, Words, Counters, StoredWords, NoneAssumption DEF TypeOK, Go, At, Got,
     GaveBack, fatVars, LockDeeplyNested, Inflate
<1>x. /\ ThinAgrees /\ held[t] + 1 = locksCount' /\ locksCount' \in Nat \ {0}
      /\ \A u \in Threads : u # t => held[u] = 0 /\ pc[u] # "inflate"
      /\ lockWord'.fat
  BY <1>p, <1>w, <1>e, Ids, BoundsAssumption DEF ThinAgrees, Mine, ThinPcs, TypeOK
<1>t. TypeOK'
  BY <1>p, <1>w, <1>e, <1>x DEF TypeOK, FatPcs, ThinPcs, Hows
<1>1. ~lockWord'.fat => ThinAgrees'
  BY <1>p, <1>w, <1>e, Ids, <1>x DEF ThinAgrees, TypeOK, Mine, ThinPcs, Hows
<1>2. lockWord'.fat => FatAgrees'
  BY <1>p, <1>w, <1>e, <1>x DEF FatAgrees, ThinAgrees, TypeOK, Mine, Waiting,
     Resting, Hows, ThinPcs
<1>3. AbortsOnlyMisuse' /\ (library' = "os" => lockWord'.fat)
  BY <1>p, <1>e, <1>x DEF AbortsOnlyMisuse, TypeOK, FatAgrees, ThinAgrees, Mine,
     Resting, ThinPcs
<1>4. IInv'
  BY <1>t, <1>1, <1>2, <1>3 DEF IInv
<1>s. /\ Sleepers' = Sleepers /\ Pulsed' = Pulsed /\ SavedDepth' = SavedDepth
      /\ t \notin Sleepers \cup Pulsed
  BY <1>p, <1>e, OthersSleep DEF TypeOK, Waiting, Hows
<1>v. View /\ View'
  BY <1>4, ViewHolds, ViewHoldsNext
<1>r. Refines
  <2>1. Holder = t /\ Holder' = t /\ Depth' = Depth + 1
    BY <1>p, <1>w, <1>e, <1>v, Ids DEF View, FatAgrees, ThinAgrees, TypeOK,
       Resting, Mine, Hows, ThinPcs
  <2>2. QED
    BY <2>1, <1>s, <1>e, DoEnter DEF Same
<1>5. QED
  BY <1>4, <1>r

(* The count in the word is raised, or the lock is someone else's.         *)
LEMMA StepLockShallowlyNested ==
    ASSUME IInv, NEW t \in Threads, LockShallowlyNested(t)
    PROVE  IInv' /\ Refines
<1> USE NoneAssumption
<1>p. /\ TypeOK /\ AbortsOnlyMisuse
      /\ library = "os" => lockWord.fat
      /\ ~lockWord.fat => ThinAgrees
      /\ lockWord.fat => FatAgrees
  BY DEF IInv
<1>w. /\ lockWord.fat \in BOOLEAN /\ lockWord.id \in Nat
      /\ lockWord.count \in 0 .. MaxNesting
  BY <1>p, WordParts DEF TypeOK
<1>e. /\ aborted = None
      /\ pc[t] = "lockNested"
      /\ \/ /\ ~lockWord.fat /\ Mine(t) /\ lockWord.count < MaxNesting
            /\ lockWord' \in LockWords /\ ~lockWord'.fat /\ lockWord'.id = lockWord.id
            /\ lockWord'.count = lockWord.count + 1
            /\ pc' = [pc EXCEPT ![t] = "idle"] /\ held' = [held EXCEPT ![t] = @ + 1]
         \/ /\ lockWord.fat \/ ~Mine(t)
            /\ lockWord' = lockWord /\ held' = held
            /\ pc' = [pc EXCEPT ![t] = "lockFat"]
      /\ mutex' = mutex
      /\ owner' = owner
      /\ locksCount' = locksCount
      /\ saved' = saved
      /\ aborted' = aborted
      /\ library' = library
  <2> USE <1>p DEF TypeOK
  <2>1. CASE /\ Shallow(t) /\ lockWord' = [lockWord EXCEPT !.count = @ + 1]
             /\ Got(t)
    <3>1. ~lockWord.fat /\ Mine(t) /\ lockWord.count < MaxNesting
      BY <2>1, Counters DEF Shallow
    <3>2. lockWord.count + 1 \in 0 .. MaxNesting
      BY <3>1, <1>w, BoundsAssumption
    <3>3. QED
      BY <3>1, <3>2, <2>1, Counted DEF LockShallowlyNested, Go, At, Got, fatVars
  <2>2. CASE Counter(t) > MaxNesting /\ Go(t, "lockFat") /\ UNCHANGED <<lockWord, held>>
    BY <2>2, Counters DEF LockShallowlyNested, Go, At, fatVars
  <2>3. QED
    BY <2>1, <2>2 DEF LockShallowlyNested
<1>t. TypeOK'
  BY <1>p, <1>w, <1>e DEF TypeOK, FatPcs, ThinPcs, Hows
<1>1. ~lockWord'.fat => ThinAgrees'
  BY <1>p, <1>w, <1>e, Ids DEF ThinAgrees, TypeOK, Mine, ThinPcs, Hows
<1>2. lockWord'.fat => FatAgrees'
  BY <1>p, <1>w, <1>e DEF FatAgrees, ThinAgrees, TypeOK, Mine, Waiting, Resting,
     Hows, ThinPcs
<1>3. AbortsOnlyMisuse' /\ (library' = "os" => lockWord'.fat)
  BY <1>p, <1>e DEF AbortsOnlyMisuse, TypeOK, FatAgrees, ThinAgrees, Mine, Resting,
     ThinPcs
<1>4. IInv'
  BY <1>t, <1>1, <1>2, <1>3 DEF IInv
<1>s. /\ Sleepers' = Sleepers /\ Pulsed' = Pulsed /\ SavedDepth' = SavedDepth
      /\ t \notin Sleepers \cup Pulsed
  BY <1>p, <1>e, OthersSleep DEF TypeOK, Waiting, Hows
<1>v. View /\ View'
  BY <1>4, ViewHolds, ViewHoldsNext
<1>r. Refines
  <2>1. CASE ~lockWord.fat /\ Mine(t) /\ ~lockWord'.fat /\ lockWord'.id = lockWord.id /\ lockWord'.count = lockWord.count + 1
    <3>1. Holder = t /\ Holder' = t /\ Depth' = Depth + 1
      BY <2>1, <1>p, <1>w, <1>e, <1>v, Ids DEF View, FatAgrees, TypeOK, Resting, Mine
    <3>2. QED
      BY <3>1, <1>s, <1>e, DoEnter DEF Same
  <2>2. CASE lockWord' = lockWord /\ pc' = [pc EXCEPT ![t] = "lockFat"]
    <3>1. Holder' = Holder /\ Depth' = Depth
      BY <2>2, <1>p, <1>e, ViewStays DEF Hows
    <3>2. QED
      BY <3>1, <1>s, <1>e, DoNothing DEF Same
  <2>3. QED
    BY <2>1, <2>2, <1>e
<1>5. QED
  BY <1>4, <1>r

(* A lock that became free is taken, to be inflated.                       *)
LEMMA StepCasFat ==
    ASSUME IInv, NEW t \in Threads, CasFat(t)
    PROVE  IInv' /\ Refines
<1> USE NoneAssumption
<1>p. /\ TypeOK /\ AbortsOnlyMisuse
      /\ library = "os" => lockWord.fat
      /\ ~lockWord.fat => ThinAgrees
      /\ lockWord.fat => FatAgrees
  BY DEF IInv
<1>w. /\ lockWord.fat \in BOOLEAN /\ lockWord.id \in Nat
      /\ lockWord.count \in 0 .. MaxNesting
  BY <1>p, WordParts DEF TypeOK
<1>e. /\ aborted = None
      /\ pc[t] = "casFat"
      /\ \/ /\ ~lockWord.fat /\ lockWord.id = 0 /\ lockWord.count = 0
            /\ lockWord' \in LockWords /\ ~lockWord'.fat /\ lockWord'.id = ThreadId(t)
            /\ lockWord'.count = 0
            /\ pc' = [pc EXCEPT ![t] = "inflate"]
         \/ /\ lockWord' = lockWord
            /\ pc' = [pc EXCEPT ![t] = "lockFat"]
      /\ mutex' = mutex
      /\ owner' = owner
      /\ locksCount' = locksCount
      /\ saved' = saved
      /\ held' = held
      /\ aborted' = aborted
      /\ library' = library
  BY <1>p, Words, Counters, StoredWords, NoneAssumption DEF TypeOK, Go, At, Got,
     GaveBack, fatVars, CasFat
<1>t. TypeOK'
  BY <1>p, <1>w, <1>e DEF TypeOK, FatPcs, ThinPcs, Hows
<1>1. ~lockWord'.fat => ThinAgrees'
  BY <1>p, <1>w, <1>e, Ids DEF ThinAgrees, TypeOK, Mine, ThinPcs, Hows
<1>2. lockWord'.fat => FatAgrees'
  BY <1>p, <1>w, <1>e DEF FatAgrees, ThinAgrees, TypeOK, Mine, Waiting, Resting,
     Hows, ThinPcs
<1>3. AbortsOnlyMisuse' /\ (library' = "os" => lockWord'.fat)
  BY <1>p, <1>e DEF AbortsOnlyMisuse, TypeOK, FatAgrees, ThinAgrees, Mine, Resting,
     ThinPcs
<1>4. IInv'
  BY <1>t, <1>1, <1>2, <1>3 DEF IInv
<1>s. /\ Sleepers' = Sleepers /\ Pulsed' = Pulsed /\ SavedDepth' = SavedDepth
      /\ t \notin Sleepers \cup Pulsed
  BY <1>p, <1>e, OthersSleep DEF TypeOK, Waiting, Hows
<1>v. View /\ View'
  BY <1>4, ViewHolds, ViewHoldsNext
<1>r. Refines
  <2>1. CASE ~lockWord.fat /\ lockWord.id = 0 /\ ~lockWord'.fat /\ lockWord'.id = ThreadId(t) /\ lockWord'.count = 0
    <3>1. Holder = None /\ Holder' = t /\ Depth' = 1
      BY <2>1, <1>p, <1>w, <1>e, <1>v, Ids DEF View, FatAgrees, TypeOK, Resting, Mine
    <3>2. QED
      BY <3>1, <1>s, <1>e, DoEnter DEF Same
  <2>2. CASE lockWord' = lockWord /\ pc' = [pc EXCEPT ![t] = "lockFat"]
    <3>1. Holder' = Holder /\ Depth' = Depth
      BY <2>2, <1>p, <1>e, ViewStays DEF Hows
    <3>2. QED
      BY <3>1, <1>s, <1>e, DoNothing DEF Same
  <2>3. QED
    BY <2>1, <2>2, <1>e
<1>5. QED
  BY <1>4, <1>r

(* The lock is inflated.                                                   *)
LEMMA StepInflateOnce ==
    ASSUME IInv, NEW t \in Threads, InflateOnce(t)
    PROVE  IInv' /\ Refines
<1> USE NoneAssumption
<1>p. /\ TypeOK /\ AbortsOnlyMisuse
      /\ library = "os" => lockWord.fat
      /\ ~lockWord.fat => ThinAgrees
      /\ lockWord.fat => FatAgrees
  BY DEF IInv
<1>w. /\ lockWord.fat \in BOOLEAN /\ lockWord.id \in Nat
      /\ lockWord.count \in 0 .. MaxNesting
  BY <1>p, WordParts DEF TypeOK
<1>e. /\ aborted = None
      /\ pc[t] = "inflate" /\ ~lockWord.fat
      /\ lockWord' \in LockWords /\ lockWord'.fat /\ mutex' = t /\ owner' = t /\ locksCount' = 1
      /\ pc' = [pc EXCEPT ![t] = "idle"] /\ held' = [held EXCEPT ![t] = @ + 1]
      /\ saved' = saved
      /\ aborted' = aborted
      /\ library' = library
  BY <1>p, Words, Counters, StoredWords, NoneAssumption DEF TypeOK, At, InflateOnce,
     Inflate, Got, Go, FatAgrees
<1>x. /\ ThinAgrees /\ held[t] + 1 = locksCount' /\ locksCount' \in Nat \ {0}
      /\ \A u \in Threads : u # t => held[u] = 0 /\ pc[u] # "inflate"
      /\ lockWord'.fat
  BY <1>p, <1>w, <1>e, Ids, BoundsAssumption DEF ThinAgrees, Mine, ThinPcs, TypeOK
<1>t. TypeOK'
  BY <1>p, <1>w, <1>e, <1>x DEF TypeOK, FatPcs, ThinPcs, Hows
<1>1. ~lockWord'.fat => ThinAgrees'
  BY <1>p, <1>w, <1>e, Ids, <1>x DEF ThinAgrees, TypeOK, Mine, ThinPcs, Hows
<1>2. lockWord'.fat => FatAgrees'
  BY <1>p, <1>w, <1>e, <1>x DEF FatAgrees, ThinAgrees, TypeOK, Mine, Waiting,
     Resting, Hows, ThinPcs
<1>3. AbortsOnlyMisuse' /\ (library' = "os" => lockWord'.fat)
  BY <1>p, <1>e, <1>x DEF AbortsOnlyMisuse, TypeOK, FatAgrees, ThinAgrees, Mine,
     Resting, ThinPcs
<1>4. IInv'
  BY <1>t, <1>1, <1>2, <1>3 DEF IInv
<1>s. /\ Sleepers' = Sleepers /\ Pulsed' = Pulsed /\ SavedDepth' = SavedDepth
      /\ t \notin Sleepers \cup Pulsed
  BY <1>p, <1>e, OthersSleep DEF TypeOK, Waiting, Hows
<1>v. View /\ View'
  BY <1>4, ViewHolds, ViewHoldsNext
<1>r. Refines
  <2>1. Holder' = Holder /\ Depth' = Depth
    BY <1>p, <1>e, <1>v DEF View, ThinAgrees, TypeOK, Resting
  <2>2. QED
    BY <2>1, <1>s, <1>e, DoNothing DEF Same
<1>5. QED
  BY <1>4, <1>r

(* The compare and swap of a lock that was entered once.                   *)
LEMMA StepUnlockSingle ==
    ASSUME IInv, NEW t \in Threads, UnlockSingle(t)
    PROVE  IInv' /\ Refines
<1> USE NoneAssumption
<1>p. /\ TypeOK /\ AbortsOnlyMisuse
      /\ library = "os" => lockWord.fat
      /\ ~lockWord.fat => ThinAgrees
      /\ lockWord.fat => FatAgrees
  BY DEF IInv
<1>w. /\ lockWord.fat \in BOOLEAN /\ lockWord.id \in Nat
      /\ lockWord.count \in 0 .. MaxNesting
  BY <1>p, WordParts DEF TypeOK
<1>e. /\ aborted = None
      /\ pc[t] = "idle"
      /\ \/ /\ ~lockWord.fat /\ Mine(t) /\ lockWord.count = 0
            /\ lockWord' \in LockWords /\ ~lockWord'.fat /\ lockWord'.id = 0
            /\ lockWord'.count = 0
            /\ pc' = [pc EXCEPT ![t] = "idle"] /\ held' = [held EXCEPT ![t] = @ - 1]
         \/ /\ lockWord.fat \/ ~Mine(t) \/ lockWord.count > 0
            /\ lockWord' = lockWord /\ held' = held
            /\ pc' = [pc EXCEPT ![t] = "unlockNested"]
      /\ mutex' = mutex
      /\ owner' = owner
      /\ locksCount' = locksCount
      /\ saved' = saved
      /\ aborted' = aborted
      /\ library' = library
  <2>1. CASE lockWord = LockedOnce(t)
    BY <2>1, <1>p, Words, StoredWords DEF UnlockSingle, At, Go, GaveBack, fatVars,
       TypeOK
  <2>2. CASE lockWord # LockedOnce(t)
    <3>1. lockWord.fat \/ ~Mine(t) \/ lockWord.count > 0
      BY <2>2, <1>p, <1>w, Words DEF TypeOK
    <3>2. QED
      BY <2>2, <3>1 DEF UnlockSingle, At, Go, fatVars
  <2>3. QED
    BY <2>1, <2>2
<1>x. Mine(t) /\ ~lockWord.fat => held[t] = lockWord.count + 1
  BY <1>p, <1>e DEF ThinAgrees
<1>t. TypeOK'
  BY <1>p, <1>w, <1>e, <1>x DEF TypeOK, FatPcs, ThinPcs, Hows
<1>1. ~lockWord'.fat => ThinAgrees'
  BY <1>p, <1>w, <1>e, Ids, <1>x DEF ThinAgrees, TypeOK, Mine, ThinPcs, Hows
<1>2. lockWord'.fat => FatAgrees'
  BY <1>p, <1>w, <1>e, <1>x DEF FatAgrees, ThinAgrees, TypeOK, Mine, Waiting,
     Resting, Hows, ThinPcs
<1>3. AbortsOnlyMisuse' /\ (library' = "os" => lockWord'.fat)
  BY <1>p, <1>e, <1>x DEF AbortsOnlyMisuse, TypeOK, FatAgrees, ThinAgrees, Mine,
     Resting, ThinPcs
<1>4. IInv'
  BY <1>t, <1>1, <1>2, <1>3 DEF IInv
<1>s. /\ Sleepers' = Sleepers /\ Pulsed' = Pulsed /\ SavedDepth' = SavedDepth
      /\ t \notin Sleepers \cup Pulsed
  BY <1>p, <1>e, OthersSleep DEF TypeOK, Waiting, Hows
<1>v. View /\ View'
  BY <1>4, ViewHolds, ViewHoldsNext
<1>r. Refines
  <2>1. CASE ~lockWord.fat /\ Mine(t) /\ lockWord.count = 0 /\ ~lockWord'.fat /\ lockWord'.id = 0 /\ lockWord'.count = 0
    <3>1. Holder = t /\ Depth = 1 /\ Holder' = None /\ Depth' = 0
      BY <2>1, <1>p, <1>w, <1>e, <1>v, Ids DEF View, FatAgrees, TypeOK, Resting, Mine
    <3>2. QED
      BY <3>1, <1>s, <1>e, DoExit DEF Same
  <2>2. CASE lockWord' = lockWord /\ pc' = [pc EXCEPT ![t] = "unlockNested"]
    <3>1. Holder' = Holder /\ Depth' = Depth
      BY <2>2, <1>p, <1>e, ViewStays DEF Hows
    <3>2. QED
      BY <3>1, <1>s, <1>e, DoNothing DEF Same
  <2>3. QED
    BY <2>1, <2>2, <1>e
<1>5. QED
  BY <1>4, <1>r

(* The count in the word is lowered, or the lock is no thin one.           *)
LEMMA StepUnlockNested ==
    ASSUME IInv, NEW t \in Threads, UnlockNested(t)
    PROVE  IInv' /\ Refines
<1> USE NoneAssumption
<1>p. /\ TypeOK /\ AbortsOnlyMisuse
      /\ library = "os" => lockWord.fat
      /\ ~lockWord.fat => ThinAgrees
      /\ lockWord.fat => FatAgrees
  BY DEF IInv
<1>w. /\ lockWord.fat \in BOOLEAN /\ lockWord.id \in Nat
      /\ lockWord.count \in 0 .. MaxNesting
  BY <1>p, WordParts DEF TypeOK
<1>e. /\ aborted = None
      /\ pc[t] = "unlockNested"
      /\ \/ /\ ~lockWord.fat /\ Mine(t)
            /\ lockWord' \in LockWords /\ ~lockWord'.fat /\ lockWord'.id = lockWord.id
            /\ lockWord'.count = lockWord.count - 1
            /\ pc' = [pc EXCEPT ![t] = "idle"] /\ held' = [held EXCEPT ![t] = @ - 1]
         \/ /\ lockWord.fat \/ ~Mine(t)
            /\ lockWord' = lockWord /\ held' = held
            /\ pc' = [pc EXCEPT ![t] = "unlockFat"]
      /\ mutex' = mutex
      /\ owner' = owner
      /\ locksCount' = locksCount
      /\ saved' = saved
      /\ aborted' = aborted
      /\ library' = library
  <2> USE <1>p DEF TypeOK
  <2>1. pc[t] = "unlockNested" /\ aborted = None
    BY DEF UnlockNested, At
  <2>2. CASE Nested(t)
    <3>1. ~lockWord.fat /\ Mine(t)
      BY <2>2, Counters DEF Nested
    <3>2. lockWord.count - 1 \in 0 .. MaxNesting
      BY <3>1, <2>1, <1>w, BoundsAssumption DEF ThinAgrees
    <3>3. lockWord' = [lockWord EXCEPT !.count = lockWord.count - 1] /\ GaveBack(t)
      BY <2>2 DEF UnlockNested
    <3>4. /\ lockWord' \in LockWords /\ lockWord'.fat = lockWord.fat
          /\ lockWord'.id = lockWord.id /\ lockWord'.count = lockWord.count - 1
      BY <3>2, <3>3, Counted
    <3>5. QED
      BY <3>1, <3>3, <3>4, <2>1 DEF UnlockNested, Go, GaveBack, fatVars
  <2>3. CASE ~Nested(t)
    <3>1. lockWord.fat \/ ~Mine(t)
      BY <2>3, Counters DEF Nested
    <3>2. QED
      BY <3>1, <2>1, <2>3 DEF UnlockNested, Go, fatVars
  <2>4. QED
    BY <2>2, <2>3
<1>x. Mine(t) /\ ~lockWord.fat => held[t] = lockWord.count + 1
  BY <1>p, <1>e DEF ThinAgrees
<1>t. TypeOK'
  BY <1>p, <1>w, <1>e, <1>x DEF TypeOK, FatPcs, ThinPcs, Hows
<1>1. ~lockWord'.fat => ThinAgrees'
  BY <1>p, <1>w, <1>e, Ids, <1>x DEF ThinAgrees, TypeOK, Mine, ThinPcs, Hows
<1>2. lockWord'.fat => FatAgrees'
  BY <1>p, <1>w, <1>e, <1>x DEF FatAgrees, ThinAgrees, TypeOK, Mine, Waiting,
     Resting, Hows, ThinPcs
<1>3. AbortsOnlyMisuse' /\ (library' = "os" => lockWord'.fat)
  BY <1>p, <1>e, <1>x DEF AbortsOnlyMisuse, TypeOK, FatAgrees, ThinAgrees, Mine,
     Resting, ThinPcs
<1>4. IInv'
  BY <1>t, <1>1, <1>2, <1>3 DEF IInv
<1>s. /\ Sleepers' = Sleepers /\ Pulsed' = Pulsed /\ SavedDepth' = SavedDepth
      /\ t \notin Sleepers \cup Pulsed
  BY <1>p, <1>e, OthersSleep DEF TypeOK, Waiting, Hows
<1>v. View /\ View'
  BY <1>4, ViewHolds, ViewHoldsNext
<1>r. Refines
  <2>1. CASE ~lockWord.fat /\ Mine(t) /\ lockWord.count > 0 /\ ~lockWord'.fat /\ lockWord'.id = lockWord.id /\ lockWord'.count = lockWord.count - 1
    <3>1. Holder = t /\ Depth # 1 /\ Holder' = t /\ Depth' = Depth - 1
      BY <2>1, <1>p, <1>w, <1>e, <1>v, Ids DEF View, FatAgrees, TypeOK, Resting, Mine
    <3>2. QED
      BY <3>1, <1>s, <1>e, DoExit DEF Same
  <2>2. CASE lockWord' = lockWord /\ pc' = [pc EXCEPT ![t] = "unlockFat"]
    <3>1. Holder' = Holder /\ Depth' = Depth
      BY <2>2, <1>p, <1>e, ViewStays DEF Hows
    <3>2. QED
      BY <3>1, <1>s, <1>e, DoNothing DEF Same
  <2>3. QED
    BY <2>1, <2>2, <1>e, <1>p DEF ThinAgrees
<1>5. QED
  BY <1>4, <1>r

(* A thread unlocks what is not its own: the program ends.                 *)
LEMMA StepAbortThin ==
    ASSUME IInv, NEW t \in Threads, pc[t] = "unlockFat", ~lockWord.fat, aborted = None, Abort(t),
           UNCHANGED <<lockWord, library>>
    PROVE  IInv' /\ Refines
<1> USE NoneAssumption
<1>p. /\ TypeOK /\ AbortsOnlyMisuse
      /\ library = "os" => lockWord.fat
      /\ ~lockWord.fat => ThinAgrees
      /\ lockWord.fat => FatAgrees
  BY DEF IInv
<1>w. /\ lockWord.fat \in BOOLEAN /\ lockWord.id \in Nat
      /\ lockWord.count \in 0 .. MaxNesting
  BY <1>p, WordParts DEF TypeOK
<1>e. /\ aborted = None
      /\ pc[t] = "unlockFat" /\ ~lockWord.fat /\ aborted' = t
      /\ mutex' = mutex
      /\ owner' = owner
      /\ locksCount' = locksCount
      /\ pc' = pc
      /\ saved' = saved
      /\ held' = held
      /\ library' = library
      /\ lockWord' = lockWord
  BY <1>p, Words, Counters, StoredWords, NoneAssumption DEF TypeOK, Abort, fatVars
<1>t. TypeOK'
  BY <1>p, <1>w, <1>e DEF TypeOK, FatPcs, ThinPcs, Hows
<1>1. ~lockWord'.fat => ThinAgrees'
  BY <1>p, <1>w, <1>e, Ids DEF ThinAgrees, TypeOK, Mine, ThinPcs, Hows
<1>2. lockWord'.fat => FatAgrees'
  BY <1>p, <1>w, <1>e DEF FatAgrees, ThinAgrees, TypeOK, Mine, Waiting, Resting,
     Hows, ThinPcs
<1>3. AbortsOnlyMisuse' /\ (library' = "os" => lockWord'.fat)
  BY <1>p, <1>e DEF AbortsOnlyMisuse, TypeOK, FatAgrees, ThinAgrees, Mine, Resting,
     ThinPcs
<1>4. IInv'
  BY <1>t, <1>1, <1>2, <1>3 DEF IInv
<1>s. /\ Sleepers' = Sleepers /\ Pulsed' = Pulsed /\ SavedDepth' = SavedDepth
      /\ t \notin Sleepers \cup Pulsed
  BY <1>p, <1>e, OthersSleep DEF TypeOK, Waiting, Hows
<1>v. View /\ View'
  BY <1>4, ViewHolds, ViewHoldsNext
<1>r. Refines
  <2>1. Holder' = Holder /\ Depth' = Depth
    BY <1>p, <1>e, ViewStays
  <2>2. Holder # t
    <3>1. ~Mine(t)
      BY <1>p, <1>e DEF ThinAgrees
    <3>2. QED
      BY <3>1, <1>e, <1>v DEF View
  <2>3. QED
    BY <2>1, <2>2, <1>s, <1>e, DoMisuse DEF Same
<1>5. QED
  BY <1>4, <1>r

(* The word that was fat or held is looked at again.                       *)
LEMMA StepGoCas ==
    ASSUME IInv, NEW t \in Threads, At(t, "lockFat"), ~lockWord.fat, Go(t, "casFat"),
           UNCHANGED <<fatVars, saved, held, aborted, lockWord, library>>
    PROVE  IInv' /\ Refines
<1> USE NoneAssumption
<1>p. /\ TypeOK /\ AbortsOnlyMisuse
      /\ library = "os" => lockWord.fat
      /\ ~lockWord.fat => ThinAgrees
      /\ lockWord.fat => FatAgrees
  BY DEF IInv
<1>w. /\ lockWord.fat \in BOOLEAN /\ lockWord.id \in Nat
      /\ lockWord.count \in 0 .. MaxNesting
  BY <1>p, WordParts DEF TypeOK
<1>e. /\ aborted = None
      /\ pc' = [pc EXCEPT ![t] = "casFat"] /\ pc[t] = "lockFat"
      /\ ~lockWord.fat
      /\ mutex' = mutex
      /\ owner' = owner
      /\ locksCount' = locksCount
      /\ saved' = saved
      /\ held' = held
      /\ aborted' = aborted
      /\ library' = library
      /\ lockWord' = lockWord
  BY <1>p, Words, Counters, StoredWords, NoneAssumption DEF TypeOK, Go, At, Got,
     GaveBack, fatVars
<1>t. TypeOK'
  BY <1>p, <1>w, <1>e DEF TypeOK, FatPcs, ThinPcs, Hows
<1>1. ~lockWord'.fat => ThinAgrees'
  BY <1>p, <1>w, <1>e, Ids DEF ThinAgrees, TypeOK, Mine, ThinPcs, Hows
<1>2. lockWord'.fat => FatAgrees'
  BY <1>p, <1>w, <1>e DEF FatAgrees, ThinAgrees, TypeOK, Mine, Waiting, Resting,
     Hows, ThinPcs
<1>3. AbortsOnlyMisuse' /\ (library' = "os" => lockWord'.fat)
  BY <1>p, <1>e DEF AbortsOnlyMisuse, TypeOK, FatAgrees, ThinAgrees, Mine, Resting,
     ThinPcs
<1>4. IInv'
  BY <1>t, <1>1, <1>2, <1>3 DEF IInv
<1>s. /\ Sleepers' = Sleepers /\ Pulsed' = Pulsed /\ SavedDepth' = SavedDepth
      /\ t \notin Sleepers \cup Pulsed
  BY <1>p, <1>e, OthersSleep DEF TypeOK, Waiting, Hows
<1>v. View /\ View'
  BY <1>4, ViewHolds, ViewHoldsNext
<1>r. Refines
  <2>1. Holder' = Holder /\ Depth' = Depth
    BY <1>p, <1>e, ViewStays DEF Hows
  <2>2. QED
    BY <2>1, <1>s, <1>e, DoNothing DEF Same
<1>5. QED
  BY <1>4, <1>r

(* Every step preserves the invariant, and is a step of the abstract       *)
(* monitor or none.                                                        *)
LEMMA StepIInv == ASSUME IInv, [Next]_vars PROVE IInv' /\ Refines
<1>1. CASE UNCHANGED vars
  <2>1. IInv'
    BY <1>1 DEF vars, fatVars, IInv, TypeOK, ThinAgrees, FatAgrees, Mine, Waiting,
       AbortsOnlyMisuse
  <2>2. Same /\ Holder' = Holder /\ Depth' = Depth /\ aborted' = aborted
    BY <1>1 DEF vars, fatVars, Same, Sleepers, Pulsed, SavedDepth, Waiting,
       Holder, Depth,
       OwnersOfWord
  <2>3. QED
    BY <2>1, <2>2, DoNothing
<1>2. ASSUME NEW t \in Threads, CallOs(t) PROVE IInv' /\ Refines
  <2>1. library = "os" /\ pc[t] = "idle" /\ aborted = None /\ UNCHANGED <<lockWord, library>>
    BY <1>2 DEF CallOs, At
  <2>2. lockWord.fat
    BY <2>1 DEF IInv
  <2>3. QED
    BY <1>2, <2>1, <2>2, StepFatLock, StepFatUnlock, StepFatWait, StepFatPulse DEF
       CallOs
<1>3. ASSUME NEW t \in Threads, CallThin(t) PROVE IInv' /\ Refines
  BY <1>3, StepLockUnlocked, StepUnlockSingle DEF CallThin
<1>4. ASSUME NEW t \in Threads, Step(t) PROVE IInv' /\ Refines
  <2>1. CASE FatStep(t) /\ UNCHANGED <<lockWord, library>>
    BY <2>1, StepTakeMutex, StepGiveUp, StepSetOwner, StepUnlockMutex, StepWakeUp,
       StepRestore DEF FatStep
  <2>2. CASE LockFat(t)
    BY <2>2, StepFatLock, StepGoCas DEF LockFat, At, Hows
  <2>3. CASE UnlockFat(t)
    BY <2>3, StepFatUnlock, StepAbortThin DEF UnlockFat, At
  <2>4. QED
    BY <1>4, <2>1, <2>2, <2>3, StepLockDeeplyNested, StepLockShallowlyNested,
       StepCasFat, StepInflateOnce, StepUnlockNested DEF Step
<1>5. QED
  BY <1>1, <1>2, <1>3, <1>4 DEF Next

-----------------------------------------------------------------------------
(* The inductive invariant holds in every state of a monitor               *)
(* (lib_lock_thin.c, lib_lock_os.c).                                       *)
THEOREM Invariance == Spec => []IInv
<1>1. Init => IInv
  BY InitIInv
<1>2. IInv /\ [Next]_vars => IInv'
  BY StepIInv
<1>3. QED
  BY <1>1, <1>2, PTL DEF Spec

(* Every variable has its type: the count in a lock word fits into its     *)
(* bits (lib_lock_thin.c:305-312).                                         *)
THEOREM TypeCorrect == Spec => []TypeOK
<1>1. IInv => TypeOK
  BY DEF IInv
<1>2. QED
  BY <1>1, Invariance, PTL

(* Two threads never have a monitor at once, by compare and swap, by       *)
(* inflation, by the mutex or by a wakeup.                                 *)
THEOREM AlwaysMutualExclusion == Spec => []MutualExclusion
<1>1. ASSUME IInv, NEW t \in Threads, NEW u \in Threads, Has(t), Has(u)
      PROVE  t = u
  <2>1. TypeOK
    BY <1>1 DEF IInv
  <2>2. CASE ~lockWord.fat
    <3>1. Mine(t) /\ Mine(u)
      BY <1>1, <2>1, <2>2 DEF IInv, ThinAgrees, Has, TypeOK
    <3>2. QED
      BY <3>1, Ids DEF Mine
  <2>3. CASE lockWord.fat
    <3>1. \A s \in Threads : Has(s) => mutex = s
      <4>1. \A s \in Threads : pc[s] \in FatPcs \cup ThinPcs
        BY <2>1 DEF TypeOK
      <4>2. QED
        BY <1>1, <2>3, <4>1
           DEF IInv, FatAgrees, Has, Waiting, Resting, Hows, FatPcs, ThinPcs
    <3>2. QED
      BY <3>1, <1>1
  <2>4. QED
    BY <2>2, <2>3
<1>2. IInv => MutualExclusion
  BY <1>1 DEF MutualExclusion
<1>3. QED
  BY <1>2, Invariance, PTL

(* Between two calls the library's count of a thread's nesting is the      *)
(* thread's own, before and after inflation and across a wait              *)
(* (lib_lock_thin.c:305-312, lib_lock_os.c:196-201).                       *)
THEOREM AlwaysNestingKept == Spec => []NestingKept
<1>1. ASSUME IInv, NEW t \in Threads, pc[t] = "idle"
      PROVE  Nesting(t) = held[t]
  <2>1. CASE lockWord.fat
    BY <1>1, <2>1 DEF IInv, FatAgrees, Resting, Nesting
  <2>2. CASE ~lockWord.fat
    BY <1>1, <2>2 DEF IInv, ThinAgrees, Nesting, Mine
  <2>3. QED
    BY <2>1, <2>2
<1>2. IInv => NestingKept
  BY <1>1 DEF NestingKept
<1>3. QED
  BY <1>2, Invariance, PTL

(* No thread that has the monitor is ever taken for one that does not own  *)
(* it, and the program ended for it.                                       *)
THEOREM AlwaysAbortsOnlyMisuse == Spec => []AbortsOnlyMisuse
<1>1. IInv => AbortsOnlyMisuse
  BY DEF IInv
<1>2. QED
  BY <1>1, Invariance, PTL

(* Every behaviour of the two libraries is one of the abstract monitor, as *)
(* far as safety goes.                                                     *)
THEOREM Implements == Spec => Abstract!Init /\ [][Abstract!Next]_(Abstract!vars)
<1>1. ASSUME Init PROVE Abstract!Init
  <2>1. View
    BY <1>1, InitIInv, ViewHolds
  <2>2. Holder = None /\ Depth = 0
    <3>1. CASE library = "os"
      BY <3>1, <2>1, <1>1 DEF View, Init, FatInit, Fat
    <3>2. CASE library # "os"
      BY <3>2, <2>1, <1>1, Ids DEF View, Init, Unlocked, Thin, Mine
    <3>3. QED
      BY <3>1, <3>2
  <2>3. QED
    BY <2>2, <1>1 DEF Abstract!Init, Init, FatInit, Sleepers, Waiting
<1>2. Init => Abstract!Init
  BY <1>1
<1>3. IInv /\ [Next]_vars => [Abstract!Next]_(Abstract!vars)
  BY StepIInv DEF Refines
<1>4. QED
  BY <1>2, <1>3, Invariance, PTL DEF Spec
=============================================================================
