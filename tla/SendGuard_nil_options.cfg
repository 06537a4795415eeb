\* As SendGuard.cfg, and requests without Options (a nil map): the flag table.
CONSTANTS
    ContentTypes <- MC_ContentTypes
    NotificationRange <- MC_NotificationRange
    SensitiveTypes <- MC_SensitiveTypes
    Sessions <- MC_Sessions
    ExValues <- MC_ExValues
    u1 = u1  u2 = u2
    Users <- MC_Users
    AtAllString = AtAllString
    NotRead = NotRead
    NilOptions = NilOptions
    MsgFroms <- MC_UserSysMsgFroms
    ClientOptions <- MC_AnyOptions
SPECIFICATION Spec
INVARIANT LoggedFlagsCanonical
\* One request: its end state is final.
CHECK_DEADLOCK FALSE
