----------------------------- MODULE MCCpuSched -----------------------------
(***************************************************************************)
(* Instances of CpuSched for TLC: results of a project that needs CPUs,    *)
(* and one of a project that does not.                                     *)
(***************************************************************************)
EXTENDS CpuSched

CONSTANTS r1, r2, n1, p, q

OwnProject == [r \in Results |-> IF r = n1 THEN q ELSE p]
SameDeadline == [r \in Results |-> 1]
Alike == Permutations({r1, r2})

\* Once a new list has been asked for, the old one is not read again, nor
\* whether its enforcement was asked for: schedule_cpus overwrites both, and
\* if there are no results left to schedule, only whether the list is empty
\* matters.  States that differ in no more are one.
NewListAwaited ==
    IF mustSchedule /\ phase # "enforce"
    THEN <<job, plan = <<>>, TRUE, hostVars, phase>>
    ELSE <<job, plan, flags, hostVars, phase>>
=============================================================================
