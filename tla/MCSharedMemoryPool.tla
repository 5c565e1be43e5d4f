------------------------- MODULE MCSharedMemoryPool -------------------------
(* Two threads, and a registry of two bytes of four bits each.             *)
EXTENDS SharedMemoryPool
CONSTANTS t1, t2
=============================================================================
