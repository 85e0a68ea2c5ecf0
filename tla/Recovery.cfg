SPECIFICATION Spec
CONSTANTS
    Values <- MCValues
    None = None
    r1 = r1
    r2 = r2
    Results = {r1, r2}
    s1 = s1
    s2 = s2
    Slots = {s1, s2}
    MaxCkpt = 2
    Trickles <- MCTrickles
    MaxEvents = 3
INVARIANTS TypeOK ReportedNeverRuns SlotKept CheckpointsKept TricklesKept
CHECK_DEADLOCK FALSE
SYMMETRY Swap
VIEW WhatMatters
