------------------------------- MODULE MCPool -------------------------------
(* Two tasks of two priorities on a pool whose size changes between one    *)
(* and two: the bounds at which a worker is grown, assigned, dropped and   *)
(* marked inactive while it is being assigned again.                       *)
EXTENDS CancelableThreadPool

MCPriorities == {0, 1}
MCIntMin == -1
MCPoolSizes == {1, 2}
=============================================================================
