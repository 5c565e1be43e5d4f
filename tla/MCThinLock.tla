----------------------------- MODULE MCThinLock -----------------------------
(* Three threads, whose CLRThreads have different low address bits, and a  *)
(* lock word that can count to one: the third entry inflates it.           *)
EXTENDS ThinLock, TLC
CONSTANTS t1, t2, t3
MCAddress == t1 :> 9 @@ t2 :> 2 @@ t3 :> 11
=============================================================================
