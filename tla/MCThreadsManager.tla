-------------------------- MODULE MCThreadsManager --------------------------
(* The main thread and two others, an event that resets itself and one     *)
(* that does not, in both kinds of builds.                                 *)
EXTENDS ThreadsManager
CONSTANTS main, w1, w2, auto, manual
=============================================================================
