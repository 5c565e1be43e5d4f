----------------------------- MODULE MCPipeStage -----------------------------
(* A stage that starts with one thread in each class and may get one more, *)
(* and two tickets.                                                        *)
EXTENDS PipeStage
CONSTANTS l1, l2, h1, h2, t1, t2
=============================================================================
