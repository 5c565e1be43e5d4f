------------------------ MODULE MCTranslationPipeline ------------------------
(* Small programs for the pipeline: who calls whom, which method needs     *)
(* which static constructors, and what the threads outside request.        *)
EXTENDS TranslationPipeline, TLC

CONSTANTS a, b, m1, m2, m3, m4, m5, t1, t2, t3, t4, t5

TicketSymmetry == Permutations(Tickets)

Ask(th, o, m, p) == [thread |-> th, op |-> o, method |-> m, priority |-> p]

NoCallees == [m \in Methods |-> {}]
NoCctors  == [m \in Methods |-> <<>>]

(* m1 and m2 call each other. *)
MutualCallees == (m1 :> {m2}) @@ (m2 :> {m1})

(* m1 needs the cctor m2. *)
OneCctor  == [NoCctors EXCEPT ![m1] = <<m2>>]
(* m1 and m2 need the cctors m3 and m4, which need each other. *)
CyclicCctors == (m1 :> <<m3>>) @@ (m2 :> <<m4>>) @@ (m3 :> <<m4>>) @@ (m4 :> <<m3>>)
(* m1 and m2 need the cctor m5 first, then m1 needs m3 and m2 needs m4, which *)
(* needs m3.                                                               *)
SharedCctors == (m1 :> <<m5, m3>>) @@ (m2 :> <<m5, m4>>) @@ (m4 :> <<m3>>)
                @@ (m3 :> <<>>) @@ (m5 :> <<>>)

TillIR        == {Ask(a, "tillIR", m1, 0)}
OneSynch      == {Ask(a, "synch", m1, 0)}
TwoAsync      == {Ask(a, "async", m1, 0), Ask(b, "async", m1, 0)}
TwoSynch      == {Ask(a, "synch", m1, 0), Ask(b, "synch", m2, 1)}
SynchAndEmpty == TwoSynch \cup {Ask(a, "waitEmpty", m1, 0)}
CctorFirst    == {Ask(a, "synch", m2, 0), Ask(a, "synch", m1, 0)}
TwoMethods    == {Ask(a, "async", m1, 0), Ask(a, "async", m2, 0)}
=============================================================================
