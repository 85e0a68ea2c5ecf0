--------------------------- MODULE MCSchedulerOp ---------------------------
(***************************************************************************)
(* Instances of SchedulerOp for TLC.                                       *)
(***************************************************************************)
EXTENDS SchedulerOp

CONSTANTS p1, p2, a, b

=============================================================================
