\* One crash of the push process.
CONSTANTS
    c1 = c1  c2 = c2
    NumRecords = 3
    Convs <- MC_Convs
    SyncedConvs <- MC_SyncedConvs
    SendTimes = {0, 500}
    Decodable = {TRUE}
    StartNow = 30000
    TickMs = 500
    MaxNow = 31500
    MaxCrashes = 1
    CommittedAtStart = {TRUE}
SPECIFICATION Spec
PROPERTY EveryRecordHandled
\* The consumer idles once every record is handled and the explored clock is
\* exhausted: that end state is not a deadlock of the code.
CHECK_DEADLOCK FALSE
