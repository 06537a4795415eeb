\* Every request shape with Options present and MsgFrom user or system, and every
\* service answer of one SendMsg call.
CONSTANTS
    ContentTypes <- MC_ContentTypes
    NotificationRange <- MC_NotificationRange
    SensitiveTypes <- MC_SensitiveTypes
    Sessions <- MC_Sessions
    ExValues <- MC_ExValues
    u1 = u1  u2 = u2
    Users <- MC_Users
    AtAllString = AtAllString
    NotRead = NotRead
    NilOptions = NilOptions
    MsgFroms <- MC_UserSysMsgFroms
    ClientOptions <- MC_PresentOptions
SPECIFICATION Spec
INVARIANT LoggedOnlyIfValid
INVARIANT LoggedFlagsCanonical
INVARIANT AtMarkersFollowSpec
\* One request: its end state is final.
CHECK_DEADLOCK FALSE
