----------------------------- MODULE MCFileXfer -----------------------------
(***************************************************************************)
(* Instances of FileXfer for TLC.                                          *)
(***************************************************************************)
EXTENDS FileXfer, TLC

CONSTANTS d1, d2, d3, u1, p1, p2

\* d1 and d2 belong to one project, d3 and u1 to another one.
TwoProjects == [f \in Files |-> IF f \in {d1, d2} THEN p1 ELSE p2]

SameProjectFiles == Permutations({d1, d2})

\* Without crashes (MaxFaults = 0) nothing reads the state file, so states
\* that differ only in it and in client_state_dirty count as one.
WithoutStateFile == <<fileVars, extVars, suspended, loopVars, procVars>>
=============================================================================
