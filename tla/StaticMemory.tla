---------------------------- MODULE StaticMemory ----------------------------
(***************************************************************************)
(* The protocol of libcore's static memory manager: who compiles and runs  *)
(* a static constructor (cctor), who waits for it, and the search for a    *)
(* deadlock before a thread of the cctor stage goes to wait.               *)
(*                                                                         *)
(* Each operator is the effect of one function of static_memory.c on the   *)
(* manager's tables, which it reads and writes under their locks.  The     *)
(* threads that call them are in TranslationPipeline.                      *)
(***************************************************************************)
EXTENDS Integers, FiniteSets

CONSTANTS Threads, Methods, None

VARIABLES
    owner,         \* cctorMethodsExecuted: the owner of a cctor's description
    inExecution,   \* the cctors that are running
    executionDone, \* the cctors that ran to their end
    translator,    \* translatingSet: the thread that translates a method
    waits          \* waitMethodSet: the method a thread waits for

(* The code keeps a stack for each thread.  A thread pushes only when it   *)
(* goes to wait and pops when it returns, so with cctors that call no      *)
(* method still to be compiled the stack holds one method at most.         *)

smVars == <<owner, inExecution, executionDone, translator, waits>>

SMTypeOK ==
    /\ owner \in [Methods -> Threads \cup {None}]
    /\ inExecution \subseteq Methods
    /\ executionDone \subseteq Methods
    /\ translator \in [Methods -> Threads \cup {None}]
    /\ waits \in [Threads -> Methods \cup {None}]

SMInit ==
    /\ owner = [m \in Methods |-> None]
    /\ inExecution = {}
    /\ executionDone = {}
    /\ translator = [m \in Methods |-> None]
    /\ waits = [th \in Threads |-> None]

(* STATICMEMORY_registerTranslator: the first one to register stays. *)
RegisterTranslator(m, th) ==
    translator' = [translator EXCEPT ![m] = IF @ = None THEN th ELSE @]

(* STATICMEMORY_unregisterTranslator *)
UnregisterTranslator(m) ==
    translator' = [translator EXCEPT ![m] = None]

(* internal_registerCompilationNeeded and internal_registerCompilationDone *)
RegisterCompilationNeeded(th, m) == waits' = [waits EXCEPT ![th] = m]
RegisterCompilationDone(th)      == waits' = [waits EXCEPT ![th] = None]

(* internal_tryDeclaringWaiting: start from the owner of the cctor, or for *)
(* a method that is no cctor from its translator, and go on from a thread  *)
(* to the translator of the method it waits for.  The answer is yes when   *)
(* this comes back to the thread that wants to wait.                       *)
FirstWaited(m) == IF owner[m] # None THEN owner[m] ELSE translator[m]

NextWaited(th) ==
    IF th = None \/ waits[th] = None THEN None ELSE translator[waits[th]]

(* Variant: it looks no further than the first thread. *)
FirstLeadsToADeadlock(th, m) == FirstWaited(m) = th

LeadsToADeadlock(th, m) ==
    LET chain[k \in 0 .. Cardinality(Threads)] ==
            IF k = 0 THEN FirstWaited(m) ELSE NextWaited(chain[k - 1])
    IN \E k \in DOMAIN chain : chain[k] = th

(* It declares the thread waiting only when it does not answer yes.        *)
TryDeclaringWaiting(th, m) ==
    IF LeadsToADeadlock(th, m)
      THEN UNCHANGED waits
      ELSE RegisterCompilationNeeded(th, m)

(* internal_makeStaticConstructorExecutable: the first thread to come      *)
(* becomes the owner of the cctor, and compiles it; no other thread does.  *)
InitializationLockFree(m) == owner[m] = None
TakeInitializationLock(m, th) == owner' = [owner EXCEPT ![m] = th]

(* internal_executionIsDone: a cctor nobody ever described counts as done. *)
\* Variant: a cctor that is still running counts as done too.
ExecutionBegan(m)  == owner[m] = None \/ m \in inExecution \cup executionDone
ExecutionIsDone(m) == owner[m] = None \/ m \in executionDone

(* internal_callStaticConstructor, before and after the cctor's own code   *)
\* Variant: whoever comes first runs the cctor.
AnyMayExecute(m, th) == m \notin inExecution
MayExecute(m, th) == owner[m] = th /\ m \notin inExecution
BeginExecution(m) == inExecution' = inExecution \cup {m}
EndExecution(m) ==
    /\ inExecution' = inExecution \ {m}
    /\ executionDone' = executionDone \cup {m}
=============================================================================
