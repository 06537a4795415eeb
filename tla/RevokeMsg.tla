------------------------------ MODULE RevokeMsg ------------------------------
(***************************************************************************)
(* msgServer.RevokeMsg (internal/rpc/msg/revoke.go): concurrent revoke     *)
(* requests for one stored message.  Each request reads the message       *)
(* (GetMsgBySeqs), refuses it when it already reads as a revoke           *)
(* notification, decides the revoker's role from the rights in the        *)
(* request's and the message's Ex and, in a super group, from the group    *)
(* member map, then writes the revoke record (MsgDatabase.RevokeMsg) and   *)
(* sends the revoke notification.  The read and the write are separate    *)
(* store calls, so requests interleave between them.                      *)
(*                                                                         *)
(* The message store marks a message revoked by its revoke record, and    *)
(* GetMsgBySeqs returns a revoked message with content type               *)
(* MsgRevokeNotification; a second record overwrites the first.  Each      *)
(* request is made by its own user (CheckAccessV3 passes).  The ES queue  *)
(* push's error is ignored and the after-revoke callback is disabled      *)
(* (returns nil): neither changes what is modelled.                       *)
(***************************************************************************)
EXTENDS Naturals, Sequences, FiniteSets, SenderRights

CONSTANTS
    Requests,   \* concurrent RevokeMsg calls
    Users,      \* user IDs
    ExValues,   \* the Ex values of requests and messages explored
    NoRevoke    \* the message carries no revoke record

\* The session types of the message: SingleChatType, SuperGroupChatType and
\* one that the handler does not support (e.g. a notification session).
Sessions == {"single", "superGroup", "other"}

\* RoleLevel in the member map; "none" is a user the map has no entry for.
GroupRoles == {"owner", "admin", "ordinary", "none"}

\* The handler's role variable: 0, constant.AppAdmin, or a RoleLevel.
RoleValues == {"zero", "appAdmin", "owner", "admin", "ordinary"}

VARIABLES
    msg,      \* the stored message: [session, sendID, ex]
    roles,    \* roles[u]: u's RoleLevel in the message's group
    req,      \* req[r]: [user, admin, ex]
    revoke,   \* the message's revoke record: [user, role], or NoRevoke
    notified, \* the revoke notifications sent, by request, in order
    pc,       \* pc[r]: the next step of request r
    role,     \* role[r]: the handler's local role
    outcome,  \* outcome[r]: "none", "ok", an error, or "panic"
    wrote     \* history: the requests whose revoke record was stored

vars == <<msg, roles, req, revoke, notified, pc, role, outcome, wrote>>

\* Groups with one owner and any other mix of members and non-members.
RoleMaps ==
    {f \in [Users -> GroupRoles] : Cardinality({u \in Users : f[u] = "owner"}) = 1}

\* A request: its UserID, whether the context's user is an app manager
\* (IsAppManagerUid), and its Ex.  Whether its arguments pass the checks
\* and its Seq names the message are chosen at the step that looks at them.
RequestShapes == [user: Users, admin: BOOLEAN, ex: ExValues]

Init ==
    /\ msg \in [session: Sessions, sendID: Users, ex: ExValues]
    /\ roles \in RoleMaps
    /\ req \in [Requests -> RequestShapes]
    /\ revoke = NoRevoke
    /\ notified = <<>>
    /\ pc = [r \in Requests |-> "start"]
    /\ role = [r \in Requests |-> "zero"]
    /\ outcome = [r \in Requests |-> "none"]
    /\ wrote = {}

Fail(r, e) ==
    /\ outcome' = [outcome EXCEPT ![r] = e]
    /\ pc' = [pc EXCEPT ![r] = "done"]

Goto(r, l) == pc' = [pc EXCEPT ![r] = l] /\ UNCHANGED outcome

\* The argument checks, CheckAccessV3 and User.GetUserInfo, which may fail.
Start(r) ==
    /\ pc[r] = "start"
    /\ \/ Fail(r, "ArgsInvalid")
       \/ Fail(r, "RpcError")
       \/ Goto(r, "getMsg")
    /\ UNCHANGED <<msg, roles, req, revoke, notified, role, wrote>>

\* Mutant: the requester's high rights are looked at before the sender's.
RightsHighFirst(r) ==
    LET userAuth == VerifyRights(req[r].ex)
        msgUserAuth == VerifyRights(msg.ex)
    IN  IF userAuth = 3 THEN [res |-> "ok", role |-> "appAdmin"]
        ELSE IF msgUserAuth = 3 /\ req[r].user # msg.sendID /\ ~req[r].admin
             THEN [res |-> "NoPermission", role |-> "zero"]
        ELSE [res |-> "ok", role |-> "zero"]

\* The rights of the revoker and of the message's sender (VerifyRights of
\* req.Ex and of the message's Ex, errors dropped): a message of a
\* high-rights sender is kept from everyone else but app managers; a
\* high-rights revoker is given the AppAdmin role.
Rights(r) ==
    LET userAuth == VerifyRights(req[r].ex)
        msgUserAuth == VerifyRights(msg.ex)
    IN  IF msgUserAuth = 3 /\ req[r].user # msg.sendID /\ ~req[r].admin
        THEN [res |-> "NoPermission", role |-> "zero"]
        ELSE IF userAuth = 3 THEN [res |-> "ok", role |-> "appAdmin"]
        ELSE [res |-> "ok", role |-> "zero"]

\* The final role check: ordinary members may not revoke.
OrdinaryDenied(rl, r) == rl = "ordinary" /\ ~req[r].admin

\* GetMsgBySeqs, which may fail or find nothing, then the checks on what it
\* returned, the rights, and the dispatch on role and session type.  A
\* single chat reaches the switch only for app managers, who skip it, so
\* its SingleChatType case is never taken.
GetMsg(r) ==
    /\ pc[r] = "getMsg"
    /\ LET rt == Rights(r) IN
       \/ Fail(r, "RpcError") /\ UNCHANGED role
       \/ Fail(r, "RecordNotFound") /\ UNCHANGED role
       \/ /\ revoke # NoRevoke
          /\ Fail(r, "MsgAlreadyRevoke") /\ UNCHANGED role
       \/ /\ revoke = NoRevoke
          /\ msg.session = "single" /\ ~req[r].admin
          /\ Fail(r, "NoPermission") /\ UNCHANGED role
       \/ /\ revoke = NoRevoke
          /\ msg.session # "single" \/ req[r].admin
          /\ role' = [role EXCEPT ![r] = rt.role]
          /\ CASE rt.res # "ok" -> Fail(r, rt.res)
               [] rt.role = "zero" /\ ~req[r].admin ->
                    IF msg.session = "superGroup" THEN Goto(r, "members")
                    ELSE Fail(r, "InternalServer")
               [] OTHER -> Goto(r, "write")
    /\ UNCHANGED <<msg, roles, req, revoke, notified, wrote>>

\* The checks on the member map of revoker and sender: the verdict and the
\* role it leaves.  A user without an entry is a nil *GroupMemberFullInfo:
\* reading its RoleLevel panics.
MemberVerdict(r) ==
    LET u == req[r].user
        s == msg.sendID
        own == IF roles[u] = "none" THEN "zero" ELSE roles[u]
    IN  CASE u = s -> [res |-> "ok", role |-> own]
          [] roles[u] = "none" -> [res |-> "panic", role |-> "zero"]
          [] roles[u] = "owner" -> [res |-> "ok", role |-> own]
          [] roles[u] = "admin" /\ roles[s] = "none" ->
                [res |-> "panic", role |-> "zero"]
          [] roles[u] = "admin" /\ roles[s] = "ordinary" ->
                [res |-> "ok", role |-> own]
          [] OTHER -> [res |-> "NoPermission", role |-> "zero"]

\* Group.GetGroupMemberInfoMap, which may fail, then the member checks and
\* the final role check.
Members(r) ==
    /\ pc[r] = "members"
    /\ LET mv == MemberVerdict(r) IN
       \/ Fail(r, "RpcError") /\ UNCHANGED role
       \/ /\ mv.res # "ok"
          /\ Fail(r, mv.res) /\ UNCHANGED role
       \/ /\ mv.res = "ok"
          /\ role' = [role EXCEPT ![r] = mv.role]
          /\ IF OrdinaryDenied(mv.role, r) THEN Fail(r, "NoPermission")
             ELSE Goto(r, "write")
    /\ UNCHANGED <<msg, roles, req, revoke, notified, wrote>>

\* Mutant: the record takes the revoker's member entry instead of the role
\* the handler decided.
WriteMemberRole(r) ==
    /\ pc[r] = "write"
    /\ \/ Fail(r, "DbError") /\ UNCHANGED <<revoke, wrote>>
       \/ /\ revoke' = [user |-> req[r].user, role |-> roles[req[r].user]]
          /\ wrote' = wrote \cup {r}
          /\ Goto(r, "notify")
    /\ UNCHANGED <<msg, roles, req, notified, role>>

\* MsgDatabase.RevokeMsg stores the revoke record, replacing any other.
Write(r) ==
    /\ pc[r] = "write"
    /\ \/ Fail(r, "DbError") /\ UNCHANGED <<revoke, wrote>>
       \/ /\ revoke' = [user |-> req[r].user, role |-> role[r]]
          /\ wrote' = wrote \cup {r}
          /\ Goto(r, "notify")
    /\ UNCHANGED <<msg, roles, req, notified, role>>

\* RevokeMsgToEsMQ (error ignored), NotificationWithSessionType, which may
\* fail after the record is stored, and the after-revoke callback.
Notify(r) ==
    /\ pc[r] = "notify"
    /\ \/ Fail(r, "NotificationError") /\ UNCHANGED notified
       \/ /\ notified' = Append(notified, r)
          /\ Fail(r, "ok")
    /\ UNCHANGED <<msg, roles, req, revoke, role, wrote>>

Next ==
    \E r \in Requests :
        Start(r) \/ GetMsg(r) \/ Members(r) \/ Write(r) \/ Notify(r)

Spec == Init /\ [][Next]_vars

-----------------------------------------------------------------------------
(* Properties.                                                             *)

TypeOK ==
    /\ revoke \in [user: Users, role: RoleValues] \cup {NoRevoke}
    /\ notified \in Seq(Requests)
    /\ wrote \subseteq Requests
    /\ role \in [Requests -> RoleValues]
    /\ pc \in [Requests -> {"start", "getMsg", "members", "write", "notify", "done"}]

\* Who may revoke whose message, as the comments of RevokeMsg state it:
\* app managers any message; in a single chat nobody else; a message of a
\* high-rights sender only its sender; otherwise a high-rights revoker, or
\* in a super group the owner, an admin for an ordinary member's message,
\* or the sender when not an ordinary member.
MayRevoke(r) ==
    LET u == req[r].user
        s == msg.sendID
    IN  \/ req[r].admin
        \/ /\ msg.session # "single"
           /\ SpecRank(msg.ex) = 3 => u = s
           /\ \/ SpecRank(req[r].ex) = 3
              \/ /\ msg.session = "superGroup"
                 /\ \/ roles[u] = "owner"
                    \/ roles[u] = "admin" /\ roles[s] = "ordinary"
                    \/ u = s /\ roles[u] # "ordinary"

\* Every revoke record stored, announced or not and by whichever of the
\* concurrent requests, was written for a user the rules allow to revoke
\* the message: a stored record alone makes the message read as revoked.
RevokeAuthorized ==
    \A r \in wrote : MayRevoke(r)

\* A message is revoked once: RevokeMsg answers ErrMsgAlreadyRevoke to
\* every later request (revoke.go 64), so at most one revoke notification
\* is sent for it.
RevokedOnce == Len(notified) <= 1

=============================================================================
