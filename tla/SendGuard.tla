------------------------------ MODULE SendGuard ------------------------------
(***************************************************************************)
(* One SendMsg request (internal/rpc/msg/send.go, verify.go) from entry to *)
(* the write to the message log: the read-receipt and empty-content        *)
(* checks, the sensitive-word filter, encapsulateMsgData's per-content-type *)
(* switches, messageVerification, the recipient's receive option and       *)
(* MsgToMQ.  A super-group AtText message then updates the at-markers of  *)
(* the group's conversations in a detached goroutine                      *)
(* (setConversationAtInfo), one SetConversations call at a time; the      *)
(* conversation service's markers for the group are the variable marker.  *)
(*                                                                         *)
(* The request's fields are fixed in Init.  What the handler learns from   *)
(* redis, the friend, group, user and conversation services is chosen at   *)
(* the step that asks for it and recorded in obs, so that the properties   *)
(* can judge the outcome by what the handler was told.  The request's Ex   *)
(* is read by VerifyRights and VerifySendStatus (SenderRights); the spec's *)
(* rules are judged by the spec's rank of the same Ex.  The before/after-  *)
(* send and modify callbacks are modelled disabled (they return nil).     *)
(* BrushLimit is its own module; here its verdict is a choice.            *)
(***************************************************************************)
EXTENDS Naturals, Sequences, TLC, SenderRights

CONSTANTS
    ContentTypes,       \* content types of the requests explored
    NotificationRange,  \* NotificationBegin <= contentType <= NotificationEnd
    SensitiveTypes,     \* 101, 106, 114: the types the filter reads
    Sessions,           \* "single", "group", "notification"
    ExValues,           \* the MsgData.Ex values explored (ExShapes)
    Users,              \* user IDs an AtUserIDList or the group may hold
    AtAllString,        \* constant.AtAllString, the "@everyone" entry
    NotRead,            \* obs of a field the handler never asked about
    MsgFroms,           \* MsgData.MsgFrom values: "user", "sys" or "other"
    NilOptions,         \* MsgData.Options absent: the nil map
    ClientOptions       \* the Options maps a client may send

\* The content types encapsulateMsgData gives the user-content row of
\* switches (Text, AtText and the other fallthrough cases).
UserContent == {"Text", "AtText"}

\* The conversation's GroupAtType; "none" for a conversation never marked.
Markers == {"none", "AtMe", "AtAll", "AtAllAtMe"}

\* Message option switches touched by encapsulateMsgData and the receive
\* option, and IsNotNotification: "on", "off", or "unset", absent from
\* MsgData.Options.
Flags == {"convUpdate", "senderConvUpdate", "unread", "senderSync",
          "offlinePush", "history", "persistent", "notNotification"}

\* utils.GetSwitchFromOptions: a nil map or an absent key reads as on.
GetSwitchFromOptions(o, f) == o = NilOptions \/ o[f] # "off"

\* utils.SetSwitchFromOptions for each switch of s: on a nil map it makes
\* a map of its own and drops it, so the message's Options stay nil.
SetSwitchesFromOptions(o, s) == IF o = NilOptions THEN o ELSE s @@ o

\* msgprocessor.IsNotificationByMsg: IsNotNotification is off.
IsNotificationByMsg(o) == ~GetSwitchFromOptions(o, "notNotification")

\* What the handler may be told: the answers possible for each field.
Answers ==
    [appManager |-> BOOLEAN, senFlag |-> {0, 1, 2, 3}, textEmpty |-> BOOLEAN,
     found |-> BOOLEAN, manager |-> BOOLEAN, blocked |-> BOOLEAN,
     friendVerify |-> BOOLEAN, friend |-> BOOLEAN,
     groupStatus |-> {"normal", "dismissed", "muted"},
     groupType |-> {"normal", "super"},
     role |-> {"owner", "admin", "ordinary", "none"}, memberMuted |-> BOOLEAN,
     brushOK |-> BOOLEAN,
     globalOpt |-> {"Receive", "NotReceive", "NotNotify"},
     singleOpt |-> {"Receive", "NotReceive", "NotNotify", "NotFound"}]
Fields == DOMAIN Answers

VARIABLES
    req,      \* the request's fields
    opts,     \* MsgData.Options: [Flags -> {"unset", "on", "off"}] or NilOptions
    obs,      \* obs[f]: what the handler was told about f, or NotRead
    pc,       \* the next step of the handler
    outcome,  \* "none", "ok", "dropped" (nil, nil), an error, or "panic"
    logged,   \* the message was written to the log (MsgToMQ)
    hitMQ,    \* a HitSensitiveMessage was pushed
    members,  \* the group's member IDs as GetGroupMemberIDs returned them
    atCalls,  \* the SetConversations calls the at-info goroutine has left
    marker,   \* marker[u]: GroupAtType of u's conversation of the group
    atFailed  \* a call of the at-info goroutine failed (only logged)

at == <<members, atCalls, marker, atFailed>>
vars == <<req, opts, obs, pc, outcome, logged, hitMQ, at>>

\* AtUserIDList is read only for AtText.
Requests ==
    {r \in [ct: ContentTypes, session: Sessions, ex: ExValues, msgFrom: MsgFroms,
           offlineInfoNil: BOOLEAN, readEnabled: BOOLEAN, blank: BOOLEAN,
           atList: SUBSET (Users \cup {AtAllString})] :
        r.ct # "AtText" => r.atList = {}}

\* utils.VerifyRights(req.MsgData.Ex), and VerifySendStatus(...) = 3.
Rank == VerifyRights(req.ex)
SendStatus3 == VerifySendStatus(req.ex) = 3

Init ==
    /\ req \in Requests
    /\ opts \in ClientOptions
    /\ obs = [f \in Fields |-> NotRead]
    /\ pc = "start"
    /\ outcome = "none"
    /\ logged = FALSE
    /\ hitMQ = FALSE
    /\ members = {}
    /\ atCalls = <<>>
    /\ marker = [u \in Users |-> "none"]
    /\ atFailed = FALSE

\* Record the answers r (a function on some Fields) and keep the rest.
Learn(r) == obs' = [f \in Fields |-> IF f \in DOMAIN r THEN r[f] ELSE obs[f]]
Fail(e) == /\ outcome' = e /\ pc' = "done"
Goto(l) == pc' = l /\ UNCHANGED outcome

\* isMessageHasReadEnabled, then the TrimSpace(Content) == "" check.
CheckRequest ==
    /\ pc = "start"
    /\ \/ /\ ~req.readEnabled /\ Fail("MessageReadDisabled")
       \/ /\ req.readEnabled /\ req.blank /\ Fail("ArgsInvalid")
       \/ /\ req.readEnabled /\ ~req.blank /\ Goto("sensitive")
    /\ UNCHANGED <<req, opts, obs, logged, hitMQ, at>>

\* Sensitive.GetSensitiveConfig, then strconv.Atoi of its Flag: a failed
\* GET, undecodable JSON or a flag that is not a number all read as 0.
SensitiveFlags == {0, 1, 2, 3}

\* Sensitive.GetSensitiveWord: whether any words come back.  A failed GET
\* of sensitive_word or JSON that does not decode returns no words; a
\* decoded list is taken to hold at least one word.
GetSensitiveWord(getOK, decodeOK) == getOK /\ decodeOK

\* Sensitive.Filter: with no words it finds nothing; with words loaded,
\* the trie finds a word in the text or not.
SensitiveFound(loaded, match) == loaded /\ match

\* The sensitive-word block: for rank 0 senders that are not app managers
\* and a filtered content type, read the config flag and the text; on a hit
\* push the hit record, then reject (flag 1, 2) or rewrite (flag 3, which
\* writes OfflinePushInfo.Desc and panics when OfflinePushInfo is nil).
SensitiveFilter ==
    /\ pc = "sensitive"
    /\ \E am \in BOOLEAN, fl \in SensitiveFlags, te \in BOOLEAN,
          getOK, decodeOK, match \in BOOLEAN :
         LET filtered == Rank = 0 /\ ~am /\ req.ct \in SensitiveTypes
             fd == SensitiveFound(GetSensitiveWord(getOK, decodeOK), match)
             hit == filtered /\ ~te /\ fd
         IN /\ Learn(CASE Rank # 0 -> <<>>
                        [] ~filtered -> [appManager |-> am]
                        [] te -> [appManager |-> am, senFlag |-> fl, textEmpty |-> te]
                        [] OTHER -> [appManager |-> am, senFlag |-> fl,
                                     textEmpty |-> te, found |-> fd])
            /\ hitMQ' = hit
            /\ \/ /\ hit /\ fl \in {1, 2}
                  /\ Fail("SensitiveWordFailed")
               \/ /\ hit /\ fl = 3 /\ req.offlineInfoNil
                  /\ Fail("panic")
               \/ /\ ~(hit /\ fl \in {1, 2})
                  /\ ~(hit /\ fl = 3 /\ req.offlineInfoNil)
                  /\ Goto("encapsulate")
    /\ UNCHANGED <<req, opts, logged, at>>

\* Mutant: Typing messages keep the client's IsOfflinePush switch.
SwitchesTypingPushes(ct) ==
    CASE ct \in UserContent ->
            [f \in {"convUpdate", "unread", "senderSync"} |-> "on"]
      [] ct = "Revoke" -> [f \in {"unread", "offlinePush"} |-> "off"]
      [] ct = "HasReadReceipt" ->
            [f \in {"convUpdate", "senderConvUpdate", "unread", "offlinePush"} |-> "off"]
      [] ct = "Typing" -> [f \in Flags \ {"offlinePush"} |-> "off"]
      [] OTHER -> <<>>

\* encapsulateMsgData's switch on the content type: the switches it sets.
Switches(ct) ==
    CASE ct \in UserContent ->
            [f \in {"convUpdate", "unread", "senderSync"} |-> "on"]
      [] ct = "Revoke" -> [f \in {"unread", "offlinePush"} |-> "off"]
      [] ct = "HasReadReceipt" ->
            [f \in {"convUpdate", "senderConvUpdate", "unread", "offlinePush"} |-> "off"]
      [] ct = "Typing" -> [f \in Flags |-> "off"]
      [] OTHER -> <<>>

\* encapsulateMsgData, then the dispatch on the session type.
Encapsulate ==
    /\ pc = "encapsulate"
    /\ opts' = SetSwitchesFromOptions(opts, Switches(req.ct))
    /\ Goto(CASE req.session = "notification" -> "mq"
              [] req.session = "single" -> "verifySingle"
              [] req.session = "group" -> "verifyGroup")
    /\ UNCHANGED <<req, obs, logged, hitMQ, at>>

\* messageVerification for a single chat (verify.go 54-93): the verdict and
\* the answers it reads, in the order of its early returns.  e1 and e2 are
\* whether IsBlocked and IsFriend fail.
SingleVerdict(mgr, blk, fv, fr, e1, e2) ==
    IF SendStatus3 THEN [res |-> "Network", reads |-> <<>>]
    ELSE IF mgr \/ req.ct \in NotificationRange \/ req.msgFrom = "sys" \/ Rank # 0
         THEN [res |-> "pass", reads |-> [manager |-> mgr]]
    ELSE IF e1 THEN [res |-> "RpcError", reads |-> [manager |-> mgr]]
    ELSE IF blk THEN [res |-> "BlockedByPeer", reads |-> [manager |-> mgr, blocked |-> blk]]
    ELSE IF ~fv THEN [res |-> "pass",
                      reads |-> [manager |-> mgr, blocked |-> blk, friendVerify |-> fv]]
    ELSE IF e2 THEN [res |-> "RpcError",
                     reads |-> [manager |-> mgr, blocked |-> blk, friendVerify |-> fv]]
    ELSE [res |-> IF fr THEN "pass" ELSE "NotPeersFriend",
          reads |-> [manager |-> mgr, blocked |-> blk, friendVerify |-> fv, friend |-> fr]]

VerifySingle ==
    /\ pc = "verifySingle"
    /\ \E mgr, blk, fv, fr, e1, e2 \in BOOLEAN :
         LET v == SingleVerdict(mgr, blk, fv, fr, e1, e2) IN
         /\ Learn(v.reads)
         /\ IF v.res # "pass" THEN Fail(v.res)
            ELSE Goto(IF IsNotificationByMsg(opts) THEN "mq" ELSE "recvOpt")
    /\ UNCHANGED <<req, opts, logged, hitMQ, at>>

\* Mutant: the public-group skip tested before the dismissed check.
GroupVerdictSuperFirst(st, ty, mgr, role, mm, bok, e1, e2) ==
    LET g == [groupStatus |-> st, groupType |-> ty] IN
    IF SendStatus3 THEN [res |-> "Network", reads |-> <<>>]
    ELSE IF e1 THEN [res |-> "RpcError", reads |-> <<>>]
    ELSE IF ty = "super" THEN [res |-> "pass", reads |-> g]
    ELSE IF st = "dismissed" /\ req.ct # "GroupDismissed"
         THEN [res |-> "DismissedAlready", reads |-> g]
    ELSE IF mgr \/ req.ct \in NotificationRange
         THEN [res |-> "pass", reads |-> g @@ [manager |-> mgr]]
    ELSE IF e2 THEN [res |-> "RpcError", reads |-> g @@ [manager |-> mgr]]
    ELSE LET m == g @@ [manager |-> mgr, role |-> role] IN
    IF role = "none" THEN [res |-> "NotInGroupYet", reads |-> m]
    ELSE IF role \in {"owner", "admin"} \/ Rank > 0 THEN [res |-> "pass", reads |-> m]
    ELSE IF mm THEN [res |-> "MutedInGroup", reads |-> m @@ [memberMuted |-> mm]]
    ELSE IF st = "muted" THEN [res |-> "MutedGroup", reads |-> m @@ [memberMuted |-> mm]]
    ELSE IF req.msgFrom # "user" THEN [res |-> "pass", reads |-> m @@ [memberMuted |-> mm]]
    ELSE [res |-> IF bok THEN "pass" ELSE "SendMsgRateLimited",
          reads |-> m @@ [memberMuted |-> mm, brushOK |-> bok]]

\* messageVerification for a group (verify.go 54-57, 94-158).  e1 and e2 are
\* whether GetGroupInfoCache and GetGroupMemberCache fail otherwise than
\* with record-not-found (role "none").  Every member is owner, admin or
\* ordinary, so the brush limit applies to ordinary members' messages whose
\* MsgFrom is UserMsgType.
GroupVerdict(st, ty, mgr, role, mm, bok, e1, e2) ==
    LET g == [groupStatus |-> st, groupType |-> ty] IN
    IF SendStatus3 THEN [res |-> "Network", reads |-> <<>>]
    ELSE IF e1 THEN [res |-> "RpcError", reads |-> <<>>]
    ELSE IF st = "dismissed" /\ req.ct # "GroupDismissed"
         THEN [res |-> "DismissedAlready", reads |-> g]
    ELSE IF ty = "super" THEN [res |-> "pass", reads |-> g]
    ELSE IF mgr \/ req.ct \in NotificationRange
         THEN [res |-> "pass", reads |-> g @@ [manager |-> mgr]]
    ELSE IF e2 THEN [res |-> "RpcError", reads |-> g @@ [manager |-> mgr]]
    ELSE LET m == g @@ [manager |-> mgr, role |-> role] IN
    IF role = "none" THEN [res |-> "NotInGroupYet", reads |-> m]
    ELSE IF role \in {"owner", "admin"} \/ Rank > 0 THEN [res |-> "pass", reads |-> m]
    ELSE IF mm THEN [res |-> "MutedInGroup", reads |-> m @@ [memberMuted |-> mm]]
    ELSE IF st = "muted" THEN [res |-> "MutedGroup", reads |-> m @@ [memberMuted |-> mm]]
    ELSE IF req.msgFrom # "user" THEN [res |-> "pass", reads |-> m @@ [memberMuted |-> mm]]
    ELSE [res |-> IF bok THEN "pass" ELSE "SendMsgRateLimited",
          reads |-> m @@ [memberMuted |-> mm, brushOK |-> bok]]

VerifyGroup ==
    /\ pc = "verifyGroup"
    /\ \E st \in {"normal", "dismissed", "muted"}, ty \in {"normal", "super"},
          role \in {"owner", "admin", "ordinary", "none"},
          mgr, mm, bok, e1, e2 \in BOOLEAN :
         LET v == GroupVerdict(st, ty, mgr, role, mm, bok, e1, e2) IN
         /\ Learn(v.reads)
         /\ IF v.res = "pass" THEN Goto("mq") ELSE Fail(v.res)
    /\ UNCHANGED <<req, opts, logged, hitMQ, at>>

\* modifyMessageByUserMessageReceiveOpt for the recipient: the global
\* option, then (only for Receive) the conversation's.  NotReceive ends
\* SendMsg with (nil, nil) unless the type is excluded (HasReadReceipt);
\* ReceiveNotNotify turns IsOfflinePush off, making the Options map first
\* when it is nil.  e1, e2: the lookups fail.
MuteOfflinePush(o) ==
    [(IF o = NilOptions THEN [f \in Flags |-> "unset"] ELSE o)
        EXCEPT !["offlinePush"] = "off"]

ReceiveOpt ==
    /\ pc = "recvOpt"
    /\ \E g \in {"Receive", "NotReceive", "NotNotify"},
          c \in {"Receive", "NotReceive", "NotNotify", "NotFound"},
          e1, e2 \in BOOLEAN :
         LET read == IF g = "Receive" /\ ~e1 /\ ~e2
                     THEN [globalOpt |-> g, singleOpt |-> c]
                     ELSE IF ~e1 THEN [globalOpt |-> g] ELSE <<>>
             mute == (~e1 /\ g = "NotNotify") \/
                     (~e1 /\ g = "Receive" /\ ~e2 /\ c = "NotNotify")
         IN /\ Learn(read)
            /\ opts' = IF mute THEN MuteOfflinePush(opts) ELSE opts
            /\ \/ /\ e1 \/ (g = "Receive" /\ e2)
                  /\ Fail("RpcError")
               \/ /\ ~e1 /\ (g = "NotReceive" \/
                             (g = "Receive" /\ ~e2 /\ c = "NotReceive"
                              /\ req.ct # "HasReadReceipt"))
                  /\ Fail("dropped")
               \/ /\ ~e1 /\ g # "NotReceive"
                  /\ ~(g = "Receive" /\ (e2 \/ (c = "NotReceive" /\ req.ct # "HasReadReceipt")))
                  /\ Goto("mq")
    /\ UNCHANGED <<req, logged, hitMQ, at>>

\* sendMsgSingleChat after the receive option: the before-send and modify
\* callbacks (nil when disabled), MsgToMQ with the single-chat key, the
\* after-send callback whose error is only logged, and the response.
MsgToMQ ==
    /\ pc = "mq"
    /\ req.session = "single"
    /\ \/ /\ logged' = TRUE
          /\ outcome' = "ok" /\ pc' = "done"
       \/ /\ Fail("RpcError")
          /\ UNCHANGED logged
    /\ UNCHANGED <<req, opts, obs, hitMQ, at>>

\* sendMsgNotification: MsgToMQ with the single-chat key and the response,
\* with no verification and no callbacks.
MsgToMQNotification ==
    /\ pc = "mq"
    /\ req.session = "notification"
    /\ \/ /\ logged' = TRUE
          /\ outcome' = "ok" /\ pc' = "done"
       \/ /\ Fail("RpcError")
          /\ UNCHANGED logged
    /\ UNCHANGED <<req, opts, obs, hitMQ, at>>

\* sendMsgSuperGroupChat after messageVerification: the callbacks, MsgToMQ
\* with the group key; for AtText the at-info goroutine is started and
\* the response returned without waiting for it.
MsgToMQGroup ==
    /\ pc = "mq"
    /\ req.session = "group"
    /\ \/ /\ logged' = TRUE
          /\ outcome' = "ok"
          /\ pc' = IF req.ct = "AtText" THEN "atInfo" ELSE "done"
       \/ /\ Fail("RpcError")
          /\ UNCHANGED logged
    /\ UNCHANGED <<req, opts, obs, hitMQ, at>>

\* Mutant: the @everyone call goes to every member, explicitly named ones
\* included.
AtCallsMembersUnfiltered(ms) ==
    LET atUserID == req.atList \ {AtAllString} IN
    IF AtAllString \notin req.atList
    THEN <<[users |-> req.atList, type |-> "AtMe"]>>
    ELSE IF atUserID = {} THEN <<[users |-> ms, type |-> "AtAll"]>>
    ELSE <<[users |-> atUserID, type |-> "AtAllAtMe"],
           [users |-> ms, type |-> "AtAll"]>>

\* The SetConversations calls of setConversationAtInfo, given the members
\* ms: without @everyone the named users get AtMe; @everyone alone gives
\* every member AtAll; with named users too (atUserID, the list without
\* the @everyone entry) they get AtAllAtMe and the other members,
\* DifferenceString(atUserID, members), AtAll.
AtCalls(ms) ==
    LET atUserID == req.atList \ {AtAllString} IN
    IF AtAllString \notin req.atList
    THEN <<[users |-> req.atList, type |-> "AtMe"]>>
    ELSE IF atUserID = {} THEN <<[users |-> ms, type |-> "AtAll"]>>
    ELSE <<[users |-> atUserID, type |-> "AtAllAtMe"],
           [users |-> ms \ atUserID, type |-> "AtAll"]>>

\* setConversationAtInfo's start: with @everyone, GetGroupMemberIDs, whose
\* failure ends the goroutine after a log line.
SetConversationAtInfo ==
    /\ pc = "atInfo"
    /\ \/ /\ AtAllString \notin req.atList
          /\ atCalls' = AtCalls({})
          /\ pc' = "atSet"
          /\ UNCHANGED <<members, atFailed>>
       \/ /\ AtAllString \in req.atList
          /\ \/ /\ atFailed' = TRUE /\ pc' = "done"
                /\ UNCHANGED <<members, atCalls>>
             \/ \E ms \in SUBSET Users :
                  /\ members' = ms
                  /\ atCalls' = AtCalls(ms)
                  /\ pc' = "atSet"
                  /\ UNCHANGED atFailed
    /\ UNCHANGED <<req, opts, obs, outcome, logged, hitMQ, marker>>

\* Conversation.SetConversations for the next call: the users'
\* conversations of the group take its GroupAtType; a failure is logged
\* and the goroutine goes on with the next call.
SetConversations ==
    /\ pc = "atSet"
    /\ LET c == Head(atCalls) IN
       \/ /\ marker' = [u \in Users |-> IF u \in c.users THEN c.type ELSE marker[u]]
          /\ UNCHANGED atFailed
       \/ /\ atFailed' = TRUE
          /\ UNCHANGED marker
    /\ atCalls' = Tail(atCalls)
    /\ pc' = IF Len(atCalls) = 1 THEN "done" ELSE "atSet"
    /\ UNCHANGED <<req, opts, obs, outcome, logged, hitMQ, members>>

Next ==
    \/ CheckRequest \/ SensitiveFilter \/ Encapsulate
    \/ VerifySingle \/ VerifyGroup \/ ReceiveOpt \/ MsgToMQ \/ MsgToMQNotification \/ MsgToMQGroup
    \/ SetConversationAtInfo \/ SetConversations

Spec == Init /\ [][Next]_vars

-----------------------------------------------------------------------------
(* Properties.                                                             *)

TypeOK ==
    /\ req \in Requests
    /\ opts \in [Flags -> {"unset", "on", "off"}] \cup {NilOptions}
    /\ \A f \in Fields : obs[f] \in Answers[f] \cup {NotRead}
    /\ logged \in BOOLEAN /\ hitMQ \in BOOLEAN
    /\ marker \in [Users -> Markers]

Told(f) == obs[f] = TRUE
Unknown(fs) == \E f \in fs : obs[f] = NotRead

\* Spec 4.1, single-chat validation, judged on what the handler was told:
\* "accept", "reject", or "unknown" when it never asked what the spec's
\* rule needs.
SpecSingle ==
    IF req.ct \in NotificationRange \/ req.msgFrom = "sys" \/ Told("manager") THEN "accept"
    ELSE IF Unknown({"manager"}) THEN "unknown"
    ELSE IF SpecRank(req.ex) > 0 THEN "accept"
    ELSE IF Unknown({"blocked"}) THEN "unknown"
    ELSE IF Told("blocked") THEN "reject"
    ELSE IF Unknown({"friendVerify"}) THEN "unknown"
    ELSE IF ~Told("friendVerify") THEN "accept"
    ELSE IF Unknown({"friend"}) THEN "unknown"
    ELSE IF Told("friend") THEN "accept" ELSE "reject"

\* Spec 4.1.1: the global and the conversation's receive modes; NotReceive
\* suppresses all but the always-delivered types.  The spec makes the
\* mode optional; the only messages it may be skipped for are the ones the
\* sender marks as notifications (IsNotNotification off).
SpecReceive ==
    IF IsNotificationByMsg(opts) THEN "accept"
    ELSE IF Unknown({"globalOpt"}) THEN "unknown"
    ELSE IF obs.globalOpt = "NotReceive" THEN "reject"
    ELSE IF obs.globalOpt = "NotNotify" THEN "accept"
    ELSE IF Unknown({"singleOpt"}) THEN "unknown"
    ELSE IF obs.singleOpt = "NotReceive" /\ req.ct # "HasReadReceipt" THEN "reject"
    ELSE "accept"

\* Spec 4.1, group-chat validation steps 1-8, in order.
SpecGroup ==
    IF Unknown({"groupStatus", "groupType"}) THEN "unknown"
    ELSE IF obs.groupStatus = "dismissed" /\ req.ct # "GroupDismissed" THEN "reject"
    ELSE IF obs.groupType = "super" THEN "accept"
    ELSE IF req.ct \in NotificationRange \/ Told("manager") THEN "accept"
    ELSE IF Unknown({"manager", "role"}) THEN "unknown"
    ELSE IF obs.role = "none" THEN "reject"
    ELSE IF obs.role \in {"owner", "admin"} \/ SpecRank(req.ex) > 0 THEN "accept"
    ELSE IF Unknown({"memberMuted"}) THEN "unknown"
    ELSE IF Told("memberMuted") \/ obs.groupStatus = "muted" THEN "reject"
    ELSE IF req.msgFrom = "sys" THEN "accept"
    ELSE IF Unknown({"brushOK"}) THEN "unknown"
    ELSE IF Told("brushOK") THEN "accept" ELSE "reject"

\* A message reaches the log only if the spec's validation, asked with the
\* answers the services gave this request, lets it through: no step of
\* SendMsg skips a check or lets a rejected message slip past in another
\* order.
LoggedOnlyIfValid ==
    logged =>
        CASE req.session = "single" ->
                 SpecSingle = "accept" /\ SpecReceive = "accept"
          [] req.session = "group" -> SpecGroup = "accept"
          [] OTHER -> TRUE

\* Spec 4.1 flag table: the switches each row sets.
SpecRow(ct) ==
    CASE ct \in UserContent -> [f \in {"convUpdate", "unread", "senderSync"} |-> TRUE]
      [] ct = "Revoke" -> [f \in {"unread", "offlinePush"} |-> FALSE]
      [] ct = "HasReadReceipt" -> [f \in {"convUpdate", "unread", "offlinePush"} |-> FALSE]
      [] ct = "Typing" ->
            [f \in {"convUpdate", "unread", "senderSync", "offlinePush",
                    "history", "persistent"} |-> FALSE]
      [] OTHER -> <<>>

\* Spec 4.1 and 4.1.1 (and scenario S5): a logged message carries the
\* switches of its row of the flag table whatever the client sent, and
\* IsOfflinePush off when the recipient receives without notification.
LoggedFlagsCanonical ==
    logged =>
        /\ \A f \in DOMAIN SpecRow(req.ct) : GetSwitchFromOptions(opts, f) = SpecRow(req.ct)[f]
        /\ (obs.globalOpt = "NotNotify" \/
            (obs.globalOpt = "Receive" /\ obs.singleOpt = "NotNotify"))
               => ~GetSwitchFromOptions(opts, "offlinePush")

\* Spec 4.1 (post-validation): the at-marker the spec gives user u for
\* this message: AtAllAtMe when named in a list with @everyone, AtAll for
\* the other members, AtMe when named without @everyone, else nothing.
SpecMarker(u) ==
    CASE AtAllString \in req.atList /\ u \in req.atList -> "AtAllAtMe"
      [] AtAllString \in req.atList /\ u \in members   -> "AtAll"
      [] u \in req.atList                              -> "AtMe"
      [] OTHER                                         -> "none"

\* The detached at-info goroutine of a logged super-group AtText message
\* never gives a conversation another marker than the spec's for it, even
\* when some of its SetConversations calls fail and the others succeed;
\* once it has finished with every call succeeding, every user's
\* conversation carries the spec's marker.
AtMarkersFollowSpec ==
    /\ \A u \in Users : marker[u] \in {"none", SpecMarker(u)}
    /\ (pc = "done" /\ logged /\ req.ct = "AtText" /\ req.session = "group"
        /\ ~atFailed) => \A u \in Users : marker[u] = SpecMarker(u)

=============================================================================
