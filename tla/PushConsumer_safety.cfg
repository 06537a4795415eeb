\* Three records of two conversations, at most one crash, clock around the 30 s limit.
CONSTANTS
    c1 = c1  c2 = c2
    NumRecords = 3
    Convs <- MC_Convs
    SyncedConvs <- MC_SyncedConvs
    SendTimes = {0, 500}
    Decodable = {TRUE, FALSE}
    StartNow = 30000
    TickMs = 500
    MaxNow = 31500
    MaxCrashes = 1
    CommittedAtStart = {TRUE, FALSE}
SPECIFICATION Spec
INVARIANT TypeOK
PROPERTY NoFreshDropped
\* The consumer idles once every record is handled and the explored clock is
\* exhausted: that end state is not a deadlock of the code.
CHECK_DEADLOCK FALSE
