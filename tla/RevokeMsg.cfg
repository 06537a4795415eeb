\* Two concurrent RevokeMsg calls of any shape on one message of any session, sender and group.
CONSTANTS
    u1 = u1  u2 = u2  u3 = u3  r1 = r1  r2 = r2
    NoRevoke = NoRevoke
    Users <- MC_Users
    ExValues <- MC_ExValues
    Requests <- MC_Requests
SPECIFICATION Spec
SYMMETRY MC_Symmetry
INVARIANT TypeOK
INVARIANT RevokeAuthorized
\* Every request of the bounded set returns: its end state is final.
CHECK_DEADLOCK FALSE
