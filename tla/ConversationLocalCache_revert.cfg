\* Concurrent calls while the list changes and changes back.
CONSTANTS
    r1 = r1  r2 = r2  r3 = r3  la = la  lb = lb  lc = lc
    Err = Err  NoEntry = NoEntry
    Readers <- MC_Readers
    History <- MC_RevertingHistory
SPECIFICATION Spec
INVARIANT FreshRead
\* Every call of the bounded set returns and the list stops changing.
CHECK_DEADLOCK FALSE
