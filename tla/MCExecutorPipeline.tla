------------------------- MODULE MCExecutorPipeline -------------------------
(* Instances of ExecutorPipeline for TLC.                                   *)
EXTENDS PublicTimeline, TLC

CONSTANTS exec1, exec2, worker1

=============================================================================
