----------------------------- MODULE MCActiveTasks -----------------------------
(* Instances of ActiveTasks for TLC. *)
EXTENDS ActiveTasks
=============================================================================
