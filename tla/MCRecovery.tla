----------------------------- MODULE MCRecovery -----------------------------
EXTENDS Recovery, TLC
CONSTANTS r1, r2, s1, s2
MCValues == Snapshots
MCTrickles == {<<r1, 1>>}
Swap == Permutations(Slots)

\* States that differ only in what no step and no property reads are one:
\* trickle_up_pending, also in the state file, the value the last start has
\* read, the checkpoints known of a result whose computation has ended, and
\* whether a trickle the server has was once unreadable.
Tasks(v) == IF v = None THEN None ELSE <<v.res, v.task>>
WhatMatters ==
    <<res, task, dirty, phase, appVars, trickle, rpcVars, srvVars, events, up,
      Tasks(acked), {Tasks(v) : v \in maybe}, finished,
      [r \in Results \ finished |-> known[r]], unread \ srvTr>>
=============================================================================
