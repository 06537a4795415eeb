\* Four concurrent Checks of one user, a 2 s window of one message, a 1 min mute, no failures.
CONSTANTS
    p1 = p1  p2 = p2  p3 = p3  p4 = p4
    Procs <- MC_Procs
    BrushTime = 2
    BrushLimit = 1
    BrushSpeechTime = 1
    BrushBanLimit = 2
    MaxTime = 4
    MaxFailures = 0
SPECIFICATION Spec
SYMMETRY MC_Symmetry
INVARIANT TypeOK
INVARIANT CounterExpires
INVARIANT ExcessDenied
INVARIANT WithinLimitAccepted
\* Every Check of the bounded set returns and the clock stops at MaxTime.
CHECK_DEADLOCK FALSE
