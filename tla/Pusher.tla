------------------------------- MODULE Pusher -------------------------------
(***************************************************************************)
(* The push of one consumed message to its recipients (internal/push/      *)
(* push_to_client.go): Pusher.Push2User for single chats and               *)
(* Pusher.Push2SuperGroup for groups.  Both fan the message out to the     *)
(* msg-gateways through GetConnsAndOnlinePush (zookeeper discovery: the    *)
(* whole batch to every gateway) or k8sOnlinePush (k8s discovery: users    *)
(* bucketed by the host their ID hashes to).  One RPC per gateway runs on  *)
(* an errgroup whose limit is utils.WaitGroupSetLimit; a failed RPC is     *)
(* swallowed.  The gateway results are then merged into an online-success *)
(* set and an offline set and handed to offlinePushMsg, and for groups the *)
(* background Web/PC sessions get a second online push.                    *)
(*                                                                         *)
(* The world the push runs against is fixed in Init: who is connected to   *)
(* which gateway and how (presence, home), the group member list, the      *)
(* users named in quit/kicked tips.  The users whose conversation option   *)
(* lets offline push through are chosen at the merge, the first step whose *)
(* outcome depends on them.  Every RPC to an external service can fail.    *)
(* Hooks (callbackOnlinePush, callbackOfflinePush, ...) are modelled       *)
(* disabled: they return nil and do not rewrite the user lists.            *)
(***************************************************************************)
EXTENDS FiniteSets, FiniteSetsExt, Integers

CONSTANTS
    Users,                \* user IDs
    Gateways,             \* msg-gateway hosts registered in discovery
    Sender,               \* msg.SendID
    SessionTypes,         \* session types explored: subset of {"single", "group"}
    Discoveries,          \* config.Envs.Discovery values explored
    ContentTypes,         \* content types explored: subset of AllContentTypes
    NotificationConf,     \* content types in notificationSender.ContentTypeConf
    MaxConcurrentWorkers, \* config.Config.Push.MaxConcurrentWorkers
    GatewayFailures       \* whether a gateway RPC may fail (fault model)

\* The content types whose handling differs in this code.  "Custom5000" is
\* ContentType 110 whose custom type is 5000 or 5001.
AllContentTypes ==
    {"Text", "Typing", "Signaling", "Custom5000",
     "MemberQuit", "MemberKicked", "GroupDismissed"}
DepartTypes == {"MemberQuit", "MemberKicked"}

ASSUME /\ Sender \in Users
       /\ SessionTypes \subseteq {"single", "group"}
       /\ Discoveries \subseteq {"k8s", "zookeeper"}
       /\ ContentTypes \subseteq AllContentTypes
       /\ NotificationConf \subseteq AllContentTypes
       /\ MaxConcurrentWorkers \in Nat
       /\ GatewayFailures \in BOOLEAN

(***************************************************************************)
(* What a gateway reports for a user of the batch:                         *)
(*   "mobile"  OnlinePush, Resp[0].RecvPlatFormID = 1                      *)
(*   "pc"      OnlinePush on a PC or Web session                           *)
(*   "bg"      not pushed, a PC/Web session answered ResultCode -2         *)
(*   "off"     not pushed, no session on this gateway                      *)
(* A user's sessions live on one gateway, home[u]; every other gateway     *)
(* answers "off" for it.                                                   *)
(***************************************************************************)
Statuses == {"mobile", "pc", "bg", "off"}
OnlineStatuses == {"mobile", "pc"}

VARIABLES
    msg,          \* [session, ct, offlineFlag (option IsOfflinePush),
                  \*  tipsOK (notification elem decodes), notifConv]
    discovery,    \* config.Envs.Discovery
    presence,     \* presence[u]: how u is connected
    home,         \* home[u]: gateway holding u's sessions (its hash host in k8s)
    members,      \* groupLocalCache.GetGroupMemberIDs(groupID)
    departing,    \* users named by MemberQuitTips / MemberKickedTips
    wantsOffline, \* users GetConversationOfflinePushUserIDs lets through
    pc,           \* control point of the push goroutine
    ret,          \* where GetConnsAndOnlinePush returns to
    result,       \* the error the push returns so far: "ok" or "err"
    pushTo,       \* pushToUserIDs
    attempted,    \* an online push of the message was started
    opUsers,      \* pushToUserIDs of the online push in progress
    toLaunch,     \* gateways the errgroup loop has not yet passed to wg.Go
    active,       \* gateways whose RPC goroutine is running
    limit,        \* the errgroup limit of the online push in progress
    replied,      \* gateways whose RPC returned a reply
    merge,        \* [succ, webPc, need]: the merged gateway results
    delivered,    \* users a gateway delivered the message to online
    vendor,       \* [called, online, offline]: what offlinePusher.Push got
    marked,       \* SetPushNotificationResultToRedis was called
    deferred,     \* [kind, users]: the deferred clean-up registered
    cleanup       \* [seq, dismissed]: effects of the deferred clean-up

world == <<msg, discovery, presence, home, members, departing>>
op == <<opUsers, toLaunch, active, limit, replied>>
vars == <<world, wantsOffline, pc, ret, result, pushTo, attempted, op, merge, delivered,
          vendor, marked, deferred, cleanup>>

-----------------------------------------------------------------------------
(* Helpers translated from the code.                                       *)

\* utils.WaitGroupSetLimit with the configured maximum as a parameter.
WaitGroupSetLimitOf(consLength, maxWorkers) ==
    IF consLength < 3 THEN 3
    ELSE IF consLength < maxWorkers THEN consLength
    ELSE maxWorkers

WaitGroupSetLimit(consLength) ==
    WaitGroupSetLimitOf(consLength, MaxConcurrentWorkers)

\* Mutant: the difference taken the other way round.
DifferenceStringReversed(a, b) == a \ b

\* utils.DifferenceString(a, b): the elements of b that are not in a (the
\* reading its other call sites in send.go rely on).
DifferenceString(a, b) == b \ a

\* The connections one online push is sent on: one per hashed host in k8s,
\* every registered gateway under zookeeper.
Conns(users) ==
    IF discovery = "k8s" THEN {home[u] : u \in users} ELSE Gateways

\* The users of the batch sent to gateway g.
Bucket(g, users) ==
    IF discovery = "k8s" THEN {u \in users : home[u] = g} ELSE users

\* The SinglePushResult entries gateway g returns for a batch.
Reply(g, users) ==
    {[user |-> u, status |-> IF home[u] = g THEN presence[u] ELSE "off"] :
        u \in Bucket(g, users)}

\* wsResults: the entries of every reply, appended under the mutex.
WsResults == UNION {Reply(g, opUsers) : g \in replied}

\* Push2User: online success counts mobile (platform 1) only.
OnlinePushSuccUserID ==
    {e.user : e \in {r \in WsResults : r.status = "mobile"}}

\* Mutant: the offline list keeps users another gateway reported online.
OfflinePushUserIDListAllEntries ==
    {e.user : e \in {r \in WsResults : r.user # Sender}}

OfflinePushUserIDList ==
    {e.user : e \in {r \in WsResults : /\ r.user \notin OnlinePushSuccUserID
                                       /\ r.user # Sender}}

\* Mutant: online success counted as in Push2User, platform 1 only.
OnlineSuccessUserIDsMobileOnly ==
    {Sender} \cup {e.user : e \in {r \in WsResults : r.status = "mobile"}}

\* Push2SuperGroup (zookeeper): the sender counts as online by convention.
OnlineSuccessUserIDs ==
    {Sender} \cup {e.user : e \in {r \in WsResults : r.status \in OnlineStatuses}}

WebAndPcBackgroundUserIDs ==
    {e.user : e \in {r \in WsResults : r.status = "bg"}}

\* k8sOfflinePush2SuperGroup: every entry that was not pushed online.
K8sNeedOfflinePushUserIDs ==
    {e.user : e \in {r \in WsResults : r.status \notin OnlineStatuses}}

\* offlinePushMsg: system notifications, custom types 5000/5001 and typing
\* never go to the offline provider.
OfflineSkipped(ct) ==
    \/ ct \in NotificationConf
    \/ ct = "Custom5000"
    \/ ct = "Typing"

\* The outcomes of one offlinePushMsg call.
VendorOutcomes == IF OfflineSkipped(msg.ct) THEN {"skipped"} ELSE {"ok", "err"}

\* The types GetConnsAndOnlinePush marks done in redis (the modelled ones).
MarkedTypes == {"MemberKicked"}

-----------------------------------------------------------------------------
(* Initial states: the message and the world it is pushed into.            *)

MsgInputs ==
    {m \in [session: SessionTypes, ct: ContentTypes, offlineFlag: BOOLEAN,
            tipsOK: BOOLEAN, notifConv: BOOLEAN] :
        /\ m.session = "single" => m.ct \notin DepartTypes \cup {"GroupDismissed"}
        /\ m.ct \notin DepartTypes => m.tipsOK
        /\ m.ct # "GroupDismissed" => m.notifConv}

\* The users a quit or kicked notification names.
DepartingFor(ct) ==
    CASE ct = "MemberQuit"   -> {{u} : u \in Users}
      [] ct = "MemberKicked" -> SUBSET Users \ {{}}
      [] OTHER               -> {{}}

Init ==
    /\ msg \in MsgInputs
    /\ discovery \in Discoveries
    /\ presence \in [Users -> Statuses]
    /\ home \in [Users -> Gateways]
    \* handleMs2PsChat: a single chat goes to recvID, plus the sender when
    \* IsSenderSync; a group push starts from an empty list.
    /\ IF msg.session = "single"
       THEN /\ pushTo \in {{r} \cup s : r \in Users, s \in {{}, {Sender}}}
            /\ members = {} /\ departing = {}
       ELSE /\ pushTo = {}
            /\ members \in SUBSET Users
            /\ departing \in DepartingFor(msg.ct)
    /\ wantsOffline = {}
    /\ pc = "start"
    /\ ret = "start"
    /\ result = "ok"
    /\ attempted = FALSE
    /\ opUsers = {} /\ toLaunch = {} /\ active = {} /\ limit = 0 /\ replied = {}
    /\ merge = [succ |-> {}, webPc |-> {}, need |-> {}]
    /\ delivered = {}
    /\ vendor = [called |-> FALSE, online |-> {}, offline |-> {}]
    /\ marked = FALSE
    /\ deferred = [kind |-> "none", users |-> {}]
    /\ cleanup = [seq |-> {}, dismissed |-> FALSE]

-----------------------------------------------------------------------------
(* GetConnsAndOnlinePush / k8sOnlinePush, entered with opUsers and ret.     *)

StartOnline(users, r) ==
    /\ pc' = "online"
    /\ ret' = r
    /\ opUsers' = users
    /\ attempted' = TRUE

\* Returns nil for an empty list; otherwise resolves the connections (an
\* error of GetConns or GetUserIdHashGatewayHost is returned) and sets the
\* errgroup limit.
GetConnsAndOnlinePush ==
    /\ pc = "online"
    /\ \/ /\ opUsers = {}
          /\ replied' = {}
          /\ pc' = ret
          /\ UNCHANGED <<toLaunch, limit, result>>
       \/ /\ opUsers # {}
          /\ pc' = "finish"
          /\ result' = "err"
          /\ UNCHANGED <<toLaunch, limit, replied>>
       \/ /\ opUsers # {}
          /\ toLaunch' = Conns(opUsers)
          /\ limit' = WaitGroupSetLimit(Cardinality(Conns(opUsers)))
          /\ replied' = {}
          /\ pc' = "fanout"
          /\ UNCHANGED result
    /\ UNCHANGED <<world, wantsOffline, ret, pushTo, attempted, opUsers, active, merge,
                   delivered, vendor, marked, deferred, cleanup>>

\* Mutant: wg.Go without the errgroup limit.
LaunchRpcUnlimited(g) ==
    /\ pc = "fanout"
    /\ g \in toLaunch
    /\ toLaunch' = toLaunch \ {g}
    /\ active' = active \cup {g}
    /\ UNCHANGED <<world, wantsOffline, pc, ret, result, pushTo, attempted, opUsers, limit,
                   replied, merge, delivered, vendor, marked, deferred, cleanup>>

\* The loop's wg.Go for gateway g: blocks while the errgroup is full.
LaunchRpc(g) ==
    /\ pc = "fanout"
    /\ g \in toLaunch
    /\ Cardinality(active) < limit
    /\ toLaunch' = toLaunch \ {g}
    /\ active' = active \cup {g}
    /\ UNCHANGED <<world, wantsOffline, pc, ret, result, pushTo, attempted, opUsers, limit,
                   replied, merge, delivered, vendor, marked, deferred, cleanup>>

\* SuperGroupOnlineBatchPushOneMsg on g returns: the gateway has pushed to
\* the online sessions it holds and its entries join wsResults.
RpcReply(g) ==
    /\ g \in active
    /\ active' = active \ {g}
    /\ replied' = replied \cup {g}
    /\ delivered' = delivered \cup
           {u \in Bucket(g, opUsers) : home[u] = g /\ presence[u] \in OnlineStatuses}
    /\ UNCHANGED <<world, wantsOffline, pc, ret, result, pushTo, attempted, opUsers, toLaunch,
                   limit, merge, vendor, marked, deferred, cleanup>>

\* The RPC on g fails: the goroutine returns nil and contributes nothing.
RpcFail(g) ==
    /\ GatewayFailures
    /\ g \in active
    /\ active' = active \ {g}
    /\ UNCHANGED <<world, wantsOffline, pc, ret, result, pushTo, attempted, opUsers, toLaunch,
                   limit, replied, merge, delivered, vendor, marked, deferred,
                   cleanup>>

\* Mutant: the results are collected by waiting for one reply per
\* connection, which a failed RPC never sends.
WaitRpcsForAllReplies ==
    /\ pc = "fanout"
    /\ toLaunch = {}
    /\ replied = Conns(opUsers)
    /\ marked' = (marked \/ (discovery = "zookeeper" /\ msg.ct \in MarkedTypes))
    /\ pc' = ret
    /\ UNCHANGED <<world, wantsOffline, ret, result, pushTo, attempted, op, merge, delivered,
                   vendor, deferred, cleanup>>

\* wg.Wait returns; under zookeeper the notification types are then marked
\* done in redis whatever the replies were, and wsResults is returned.
WaitRpcs ==
    /\ pc = "fanout"
    /\ toLaunch = {}
    /\ active = {}
    /\ marked' = (marked \/ (discovery = "zookeeper" /\ msg.ct \in MarkedTypes))
    /\ pc' = ret
    /\ UNCHANGED <<world, wantsOffline, ret, result, pushTo, attempted, op, merge, delivered,
                   vendor, deferred, cleanup>>

-----------------------------------------------------------------------------
(* Push2User (single chat).                                                *)

\* callbackOnlinePush, then the online push of userIDs.
Push2User ==
    /\ pc = "start"
    /\ msg.session = "single"
    /\ StartOnline(pushTo, "p2u_merge")
    /\ UNCHANGED <<world, wantsOffline, result, pushTo, toLaunch, active, limit, replied,
                   merge, delivered, vendor, marked, deferred, cleanup>>

\* The merge and offlinePushMsg(online success, offline list).  The
\* IsOfflinePush switch is not consulted: its check is commented out.
Push2UserOffline ==
    /\ pc = "p2u_merge"
    /\ \E out \in VendorOutcomes :
          /\ vendor' = IF out = "skipped" THEN vendor
                       ELSE [called |-> TRUE, online |-> OnlinePushSuccUserID,
                             offline |-> OfflinePushUserIDList]
          /\ result' = IF out = "err" THEN "err" ELSE result
    /\ merge' = [merge EXCEPT !.succ = OnlinePushSuccUserID,
                              !.need = OfflinePushUserIDList]
    /\ pc' = "finish"
    /\ UNCHANGED <<world, wantsOffline, ret, pushTo, attempted, op, delivered, marked,
                   deferred, cleanup>>

-----------------------------------------------------------------------------
(* Push2SuperGroup (group).                                                *)

\* A notification whose tips must be decoded before the push.
NeedsTips ==
    \/ msg.ct \in DepartTypes
    \/ msg.ct = "GroupDismissed" /\ msg.notifConv

\* Member expansion: GetGroupMemberIDs (its error is returned), the departing
\* users appended for quit/kicked with DeleteMemberAndSetConversationSeq
\* deferred, DismissGroup deferred for a dismiss notification.  When the tips
\* do not decode the code returns err, which is nil at that point.
Push2SuperGroup ==
    /\ pc = "start"
    /\ msg.session = "group"
    /\ \/ /\ pc' = "finish"
          /\ result' = "err"
          /\ UNCHANGED <<ret, pushTo, attempted, opUsers, deferred>>
       \/ /\ NeedsTips /\ ~msg.tipsOK
          /\ pc' = "finish"
          /\ UNCHANGED <<ret, result, pushTo, attempted, opUsers, deferred>>
       \/ /\ NeedsTips => msg.tipsOK
          /\ pushTo' = members \cup departing
          /\ deferred' =
                CASE msg.ct \in DepartTypes ->
                        [kind |-> "seq", users |-> departing]
                  [] msg.ct = "GroupDismissed" /\ msg.notifConv ->
                        [kind |-> "dismiss", users |-> {}]
                  [] OTHER -> deferred
          /\ StartOnline(members \cup departing, "g_merge")
          /\ UNCHANGED result
    /\ UNCHANGED <<world, wantsOffline, toLaunch, active, limit, replied, merge, delivered,
                   vendor, marked, cleanup>>

\* After the online push: nothing more when IsOfflinePush is off; otherwise
\* the users needing offline push, k8sOfflinePush2SuperGroup's or the
\* zookeeper branch's, and callbackOfflinePush.  Signaling stops here.
Push2SuperGroupMerge ==
    /\ pc = "g_merge"
    /\ LET need == IF discovery = "k8s" THEN K8sNeedOfflinePushUserIDs
                   ELSE DifferenceString(OnlineSuccessUserIDs, pushTo)
       IN /\ merge' = [succ |-> OnlineSuccessUserIDs,
                       webPc |-> WebAndPcBackgroundUserIDs, need |-> need]
          /\ IF msg.offlineFlag /\ need # {} /\ msg.ct # "Signaling"
             THEN pc' = "g_conv"
             ELSE pc' = "finish"
    /\ wantsOffline' \in SUBSET Users
    /\ UNCHANGED <<world, ret, result, pushTo, attempted, op, delivered, vendor,
                   marked, deferred, cleanup>>

\* k8sOfflinePush2SuperGroup after its Signaling test:
\* GetConversationOfflinePushUserIDs (its error is returned), then
\* offlinePushMsg with the users as the ONLINE list and an empty offline
\* list; an offlinePushMsg error is returned.
K8sOfflinePush2SuperGroup ==
    /\ pc = "g_conv"
    /\ discovery = "k8s"
    /\ pc' = "finish"
    /\ \/ /\ result' = "err"
          /\ UNCHANGED vendor
       \/ LET resp == merge.need \cap wantsOffline IN
          \/ /\ resp = {}
             /\ UNCHANGED <<result, vendor>>
          \/ /\ resp # {}
             /\ \E out \in VendorOutcomes :
                  /\ vendor' = IF out = "skipped" THEN vendor
                               ELSE [called |-> TRUE, online |-> resp, offline |-> {}]
                  /\ result' = IF out = "err" THEN "err" ELSE result
    /\ UNCHANGED <<world, wantsOffline, ret, attempted, opUsers, pushTo, toLaunch, active,
                   limit, replied, merge, delivered, marked, deferred, cleanup>>

\* The zookeeper branch of Push2SuperGroup after its Signaling test:
\* GetConversationOfflinePushUserIDs (its error is returned), then
\* offlinePushMsg with (online success, users) and, on success, a second
\* online push to the users in Web/PC background.
GetConversationOfflinePushUserIDs ==
    /\ pc = "g_conv"
    /\ discovery = "zookeeper"
    /\ \/ /\ pc' = "finish"
          /\ result' = "err"
          /\ UNCHANGED <<ret, attempted, opUsers, vendor>>
       \/ LET resp == merge.need \cap wantsOffline IN
          \/ /\ resp = {}
             /\ pc' = "finish"
             /\ UNCHANGED <<ret, result, attempted, opUsers, vendor>>
          \/ /\ resp # {}
             /\ \E out \in VendorOutcomes :
                  /\ vendor' = IF out = "skipped" THEN vendor
                               ELSE [called |-> TRUE, online |-> merge.succ,
                                     offline |-> resp]
                  /\ IF out = "err"
                     THEN /\ pc' = "finish" /\ result' = "err"
                          /\ UNCHANGED <<ret, attempted, opUsers>>
                     ELSE /\ StartOnline(resp \cap merge.webPc, "finish")
                          /\ UNCHANGED result
    /\ UNCHANGED <<world, wantsOffline, pushTo, toLaunch, active, limit, replied, merge,
                   delivered, marked, deferred, cleanup>>

\* Return: the deferred clean-up runs and assigns its own error to the named
\* result err, replacing whatever the push was returning.
RunDeferred ==
    /\ pc = "finish"
    /\ \/ /\ deferred.kind = "none"
          /\ UNCHANGED <<result, cleanup>>
       \/ /\ deferred.kind = "seq"
          /\ \E ok \in BOOLEAN :
                /\ cleanup' = [cleanup EXCEPT !.seq = IF ok THEN deferred.users ELSE @]
                /\ result' = IF ok THEN "ok" ELSE "err"
       \/ /\ deferred.kind = "dismiss"
          /\ \E ok \in BOOLEAN :
                /\ cleanup' = [cleanup EXCEPT !.dismissed = ok]
                /\ result' = IF ok THEN "ok" ELSE "err"
    /\ pc' = "done"
    /\ UNCHANGED <<world, wantsOffline, ret, pushTo, attempted, op, merge, delivered, vendor,
                   marked, deferred>>

-----------------------------------------------------------------------------

Next ==
    \/ Push2User
    \/ Push2UserOffline
    \/ Push2SuperGroup
    \/ Push2SuperGroupMerge
    \/ K8sOfflinePush2SuperGroup
    \/ GetConversationOfflinePushUserIDs
    \/ GetConnsAndOnlinePush
    \/ \E g \in Gateways : LaunchRpc(g) \/ RpcReply(g) \/ RpcFail(g)
    \/ WaitRpcs
    \/ RunDeferred

\* Every step is taken by a running goroutine, and every RPC returns (the
\* context carries a deadline): weak fairness on the whole relation.
Spec == Init /\ [][Next]_vars /\ WF_vars(Next)

-----------------------------------------------------------------------------
(* Properties.                                                             *)

TypeOK ==
    /\ msg \in MsgInputs
    /\ discovery \in Discoveries
    /\ presence \in [Users -> Statuses]
    /\ home \in [Users -> Gateways]
    /\ {members, departing, wantsOffline, pushTo, opUsers, delivered} \subseteq SUBSET Users
    /\ pc \in {"start", "online", "fanout", "p2u_merge", "g_merge", "g_conv",
               "finish", "done"}
    /\ result \in {"ok", "err"}
    /\ {toLaunch, active, replied} \subseteq SUBSET Gateways
    \* the errgroup never runs more RPC goroutines than its limit
    /\ Cardinality(active) <= limit
    /\ vendor \in [called: BOOLEAN, online: SUBSET Users, offline: SUBSET Users]
    /\ deferred \in [kind: {"none", "seq", "dismiss"}, users: SUBSET Users]

\* A recipient the message reached online counts as satisfied: in a group
\* any online session, in a single chat only a mobile (platform 1) one.
Satisfied(u) ==
    /\ u \in delivered
    /\ (msg.session = "group" \/ presence[u] = "mobile")

\* The offline provider is never asked to push, as an offline target, to a
\* recipient a gateway already delivered the message to: the merge of the
\* concurrently collected gateway replies in Push2User and Push2SuperGroup
\* keeps online success and offline targets apart.
NoOfflineForDelivered ==
    \A u \in vendor.offline : ~Satisfied(u)

\* The message is one the offline branch applies to.
OfflineApplies ==
    /\ msg.offlineFlag
    /\ ~OfflineSkipped(msg.ct)
    /\ ~(msg.session = "group" /\ msg.ct = "Signaling")

\* Whether u's conversation option asks for offline push (single chats have
\* no such filter in Push2User).
WantsOffline(u) == msg.session = "single" \/ u \in wantsOffline

\* Fanout exhaustiveness (spec section 8, property 5): when the push returns
\* nil, every recipient other than the sender that no gateway delivered to
\* and that wants offline push has been handed to the provider as an
\* offline target.
OfflineCoverage ==
    (pc = "done" /\ result = "ok" /\ OfflineApplies) =>
        \A u \in pushTo \ {Sender} :
            (~Satisfied(u) /\ WantsOffline(u)) => u \in vendor.offline

\* The same for Push2SuperGroup under zookeeper discovery, where the merge
\* takes every recipient without a successful reply as offline.  Under k8s
\* discovery the group path breaks it (Pusher_k8s_coverage), and so does
\* Push2User when a gateway RPC fails (Pusher_single_rpc_error).
OfflineCoverageGroupZk ==
    (discovery = "zookeeper" /\ msg.session = "group") => OfflineCoverage

\* Every push returns.
Termination == <>(pc = "done")

=============================================================================
