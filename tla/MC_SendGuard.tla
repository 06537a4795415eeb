----------------------------- MODULE MC_SendGuard -----------------------------
(* Model-checking instance of SendGuard: one content type per row of the   *)
(* flag table (AtText shares the Text row), a notification type and the  *)
(* dismiss notification.                                                   *)
EXTENDS SendGuard
CONSTANTS u1, u2
\* Two users: one named in an at-list and one not, each in the group or not.
MC_Users == {u1, u2}
MC_ContentTypes == {"Text", "AtText", "Revoke", "HasReadReceipt", "Typing",
                    "MemberKicked", "GroupDismissed"}
MC_NotificationRange == {"MemberKicked", "GroupDismissed"}
MC_SensitiveTypes == {"Text", "AtText"}
MC_Sessions == {"single", "group", "notification"}
\* Every Ex shape: each combination of the three rights and both send
\* statuses, the empty and the undecodable Ex.
MC_ExValues == ExShapes
\* MsgFrom: UserMsgType, SysMsgType, and a value that is neither (an unset
\* field reads 0).
MC_AllMsgFroms == {"user", "sys", "other"}
MC_UserSysMsgFroms == {"user", "sys"}
\* Options maps a client sends: IsOfflinePush, IsNotNotification and the
\* other switches each unset or off, independently of one another ("on"
\* reads exactly like "unset" wherever the handler reads a switch).
MC_PresentOptions ==
    {[f \in Flags |-> CASE f = "offlinePush"     -> p
                        [] f = "notNotification" -> n
                        [] OTHER                 -> v] :
        v, p, n \in {"unset", "off"}}
\* The same, and a request without Options.
MC_AnyOptions == MC_PresentOptions \cup {NilOptions}
=============================================================================
