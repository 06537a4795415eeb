# TLA+ models of the OpenIM message send and push path

This directory holds TLA+ specifications of the parts of this repository
(`src/`) that decide whether, how and to whom a chat message is delivered.
There are TLC configurations that check them. `PROJECT.json` lists the
components, the runs, the mutants, the mapping from every TLA+ definition to
the Go lines it models, the findings and the hazards.

## 1. The system and how its parts interact

| Part | Source | State | Operations | Talks to |
|---|---|---|---|---|
| SendGuard | `internal/rpc/msg/send.go`, `verify.go` | none of its own; reads group/user/friend services and redis | `SendMsg`, `messageVerification`, `encapsulateMsgData`, `modifyMessageByUserMessageReceiveOpt` | SensitiveFilter, BrushLimit, the Kafka producer |
| SensitiveFilter | `tools/live/sensitive.go` | redis word list and config | `Filter`, `GetSensitiveConfig`, `PushToHitMQ` | SendGuard |
| BrushLimit | `tools/live/limit.go` | redis: per-user counter with TTL, mute key, block counter, trigger lists | `Check` | SendGuard (group messages of ordinary members) |
| PushConsumer | `internal/push/push_handler.go` | Kafka offsets | `ConsumeClaim`, `handleMs2PsChat` | Pusher, conversation RPC |
| Pusher | `internal/push/push_to_client.go`, `pkg/tools/utils/func.go` | per push: wsResults, the errgroup, deferred clean-ups | `Push2User`, `Push2SuperGroup`, `GetConnsAndOnlinePush`, `k8sOnlinePush`, `k8sOfflinePush2SuperGroup`, `offlinePushMsg` | msg-gateways (RPC), conversation/group RPC, the offline provider, redis |
| RevokeMsg | `internal/rpc/msg/revoke.go` | the stored message and its revoke record | `RevokeMsg` | group RPC, notification sender |
| ConversationLocalCache | `pkg/common/db/localcache/conversation.go` | in-process map userID → (hash, ids) | `GetConversationIDs` | conversation RPC |
| GroupMember DAO | `pkg/common/db/mgo/group_member.go` | Mongo collection | single-query wrappers | group service |
| GeTui payload | `internal/push/offlinepush/getui/body.go` | none | struct setters | GeTui HTTP client |

A message flows like this. `SendMsg` validates it and writes it to Kafka. The
push consumer reads each record. It marks the offset, then spawns a goroutine
running `handleMs2PsChat`. That function drops stale messages and calls
`Push2User` or `Push2SuperGroup`. Each push has two halves:

- an online push: one RPC per msg-gateway, on an errgroup;
- a merge of the replies. The merge decides who still needs an offline push,
  which goes through `offlinePushMsg` to the configured provider.

Behaviours that make this hard:

- concurrent RPC goroutines whose failures are swallowed;
- replies merged in any order, one entry per gateway per user under zookeeper;
- a concurrency limit computed from configuration;
- deferred clean-ups that overwrite the returned error;
- a consumer that acknowledges before it works;
- non-atomic redis sequences in the rate limiter;
- a hash-then-fetch cache fill;
- check-then-write revocation.

## 2. Modules

### Pusher.tla (with MC_Pusher.tla)

Pusher.tla models one push of one consumed message: `Push2User` for single
chats and `Push2SuperGroup` for groups.

**The world (fixed in `Init`).** The message fields are in `msg`:

- session type;
- content type;
- the IsOfflinePush option;
- whether the notification tips decode;
- whether the conversation is a notification conversation.

The rest of the world:

- `discovery`: k8s or zookeeper;
- `presence` and `home`: how each user is connected, and on which gateway;
- `members`: the group's member list;
- `departing`: the users a quit or kicked notification names;
- `pushTo`: the recipients `handleMs2PsChat` builds (lines 72-78).

The users whose conversation option lets offline push through
(`wantsOffline`) are chosen at the merge. That is the first step whose
outcome depends on them.

**The control state.** `pc` is the push goroutine's position. `ret` is where
`GetConnsAndOnlinePush` returns to. For the errgroup:

- `toLaunch`: gateways the loop has not reached;
- `active`: running RPC goroutines;
- `limit`: the errgroup limit;
- `replied`: gateways whose reply joined wsResults.

**What the push produces.**

- `merge`: the online-success, Web/PC-background and need-offline sets;
- `vendor`: what the offline provider was given;
- `delivered`: who a gateway delivered to;
- `marked`: the zookeeper redis marker;
- `deferred` and `cleanup`: the deferred clean-up and its effect;
- `result`: the error the function returns so far.

**Actions.**

| Action | Code |
|---|---|
| `Push2User` | `Push2User` lines 107-118: callback, then the online push |
| `Push2UserOffline` | lines 119-153: the platform-1 merge and `offlinePushMsg`; the IsOfflinePush check is commented out in the code and absent here |
| `Push2SuperGroup` | lines 205-258: `GetGroupMemberIDs` error; the tips-decode failure returning a nil `err`; member expansion with the deferred `DeleteMemberAndSetConversationSeq` / `DismissGroup` |
| `GetConnsAndOnlinePush` | lines 390-411 and `k8sOnlinePush` 340-367: empty list, connection error, connection set and limit |
| `LaunchRpc(g)` | `wg.Go`, blocking while `active` is at the limit |
| `RpcReply(g)`, `RpcFail(g)` | the RPC goroutine: reply appended under the mutex, or error swallowed; `RpcFail` is enabled only when the fault-model constant `GatewayFailures` is TRUE |
| `WaitRpcs` | `wg.Wait` and the zookeeper redis marker, lines 433-452 |
| `Push2SuperGroupMerge` | the k8s and zookeeper merges, lines 263-312 and 167-182 |
| `K8sOfflinePush2SuperGroup` | `k8sOfflinePush2SuperGroup` lines 174-204: the conversation RPC, then `offlinePushMsg` with the users as the online list and an empty offline list |
| `GetConversationOfflinePushUserIDs` | the zookeeper branch, lines 313-338: the conversation RPC, `offlinePushMsg`, and the Web/PC nudge |
| `RunDeferred` | the deferred function assigning the named `err` |

The gateway's answer for each user is `Reply(g, users)`:

- `"mobile"`: OnlinePush on platform 1;
- `"pc"`: OnlinePush on another platform;
- `"bg"`: not pushed, a PC/Web session answered ResultCode -2;
- `"off"`: not pushed.

Every gateway other than `home[u]` answers `"off"` for u, which is how a
zookeeper broadcast returns one entry per gateway per user. Hooks are
modelled disabled (they return nil and do not rewrite lists).
`utils.DifferenceString` is not in `src/`. It is taken from the spec
(`pushTo \ onlineSuccess`), which is also the reading its two call sites in
`send.go` rely on.

**Properties.**

- `TypeOK`. It includes "the errgroup never runs more goroutines than its
  limit".
- `NoOfflineForDelivered`. No user a gateway delivered to (in a single chat:
  on mobile) is handed to the provider as an offline target. This must hold
  across any interleaving of replies, with per-gateway "off" entries for the
  same user.
- `OfflineCoverage` (spec 8.5). When the push returns nil, every undelivered
  recipient other than the sender who wants offline push is in the
  provider's offline list. `OfflineCoverageGroupZk` is the same for
  `Push2SuperGroup` under zookeeper discovery, where it holds.
- `Termination`. Every push returns.

**Fairness.** `WF_vars(Next)`. The push is one goroutine, and every RPC
carries the consumer's context deadline and returns. Nothing else competes
for the steps of one push. Weak fairness on the whole relation therefore
says exactly "the goroutine and the RPCs it started keep running".

### PushConsumer.tla (with MC_PushConsumer.tla)

One partition of the MsgToPush topic and the consumer of `push_handler.go`.

| Variable | Code |
|---|---|
| `log`, `produced` | the partition: record i's conversation, send time, and whether it decodes |
| `pos` | the next message `ConsumeClaim` reads from `claim.Messages()` |
| `marked`, `committed` | the offset `MarkMessage` marked, and the one sarama committed (0: none) |
| `running` | offsets whose `handleMs2PsChat` goroutine has not finished |
| `pushed`, `dropped`, `discarded` | what each goroutine did: handed to the pusher, dropped as stale, not decodable |
| `latest` | the `latest_msg_send_time` posted per `sg_`/`si_` conversation |
| `now`, `crashes` | the clock in ms, and the crashes so far |

| Action | Code |
|---|---|
| `Produce` | the producer appends a record (outside `src/`) |
| `ConsumeClaim` | one loop iteration, lines 107-119: `MarkMessage`, then `GoSafe` |
| `AutoCommit` | sarama's background commit of the marked offset |
| `HandleMs2PsChat(i)` | lines 51-104: decode, the staleness test in whole seconds (`Stale`), push, conversation update |
| `Tick` | the clock advances by `TickMs` |
| `Crash` | the process dies; goroutines and uncommitted marks are lost; the rejoin resumes at the committed offset, or at the newest when there is none (`OffsetsInitial: OffsetNewest`, line 45) |

Properties:

- `NoFreshDropped` (action property). A record is dropped only when it is
  more than 30000 ms old. Truncating both times to seconds must never drop
  a fresh message.
- `EveryRecordHandled` (liveness, checked in a violation run). Every
  appended record is eventually pushed, dropped or discarded.

Fairness is weak fairness on `Produce`, `ConsumeClaim`, `AutoCommit` and
each record's goroutine. The reader loop, the committer and every spawned
goroutine run until they finish. `Tick` and `Crash` are not forced.

### BrushLimit.tla (with MC_BrushLimit.tla)

`BrushLimit.Check` (`tools/live/limit.go`) for concurrent Checks of one
user. Every redis command is its own step, so the commands of different
Checks interleave:

- `CheckMuted` (TTL of the mute key);
- `GetConfig` (a failed GET allows the message, lines 60-78);
- `IncrCounter`;
- `ReadCounterTTL`;
- `ExpireCounter` (only when the TTL read is negative);
- `SetMute` (over the limit: SET with `brushSpeechTime` minutes);
- `IncrBlock` (INCR and PERSIST);
- `PushTrigger` (LPUSH of the trigger record and DEL of the counter, or,
  from `brushBanLimit` on, of the block record and the block counter; each
  of the two commands may fail on its own);
- `CheckMuteAgain`.

Redis state: the counter's value and TTL (`-2` missing, `-1` no expiry),
the mute key's TTL, the block counter and the two list lengths. `Tick`
counts TTLs down and expires keys. Every command may fail while
`MaxFailures` allows it. The code ignores the error, so `.Val()` gives 0.
The run is made with `MaxFailures` 0. With one failure, TLC finds
`CounterExpires` violated: a failed TTL read skips the EXPIRE. That state
is transient, since the next Check reads -1 and sets a TTL, but the new
window starts with the stale count. It is listed as the hazard at
limit.go:83; no run keeps it.

Properties:

- `CounterExpires`. Whenever the counter exists without a TTL, some Check
  is between its INCR and its EXPIRE.
- `ExcessDenied` (spec 8.3). A send whose INCR took the counter over
  `brushLimit` is denied, whatever the concurrent Checks do meanwhile.
- `WithinLimitAccepted` (spec 8.3, the first `brushLimit` sends of a
  window are accepted). A send whose INCR left the counter within the
  limit is denied only when another Check of the user set the mute key
  while it ran. The history variable `mutedDuring` records, at every
  successful SET of the mute key, the other Checks then running.

Fairness: weak fairness on every Check's steps. `Tick` is not forced.

### ConversationLocalCache.tla, ConversationCacheSpec.tla

`GetConversationIDs` for one user and concurrent callers. Its steps are:

- `Call`;
- `GetHash` (the hash RPC);
- `Lookup` (the cmap `Get` and the hash comparison);
- `FetchIDs` (the list RPC);
- `SetCache` (the cmap `Set` of *the first RPC's hash* with *the second
  RPC's list*).

`UpdateConversations` is the conversation service changing the list
between any two steps. The service's hash is modelled collision-free, as
the list's content itself.

`ConversationCacheSpec` is the abstract promise of spec 4.7: a call
returns a list the service held at some point during the call. The
history variable `seen` records those lists. `CacheRefinesSpec` checks the
implementation against it by `INSTANCE ... WITH`, mapping `pc` to
idle/busy/done. `FreshRead` (spec 8.8) is the special case of a call
during which the list did not change.

### SenderRights.tla

Operators only, no state: the sender-rights side channel `Ex` of a message
or request, and what `utils.VerifyRights` and `utils.VerifySendStatus`
(`pkg/tools/utils/func.go`) read from it. An `Ex` is modelled by what
`json.Unmarshal` makes of it: empty, not valid JSON, or an object whose
three auth strings are `"true"` or something else and whose `sendStatus` is
0 or 3 (`ExShapes`). `VerifyRights` takes the first `"true"` of high,
operation and anchor (3, 2, 1), and 0 for malformed JSON (the error is
dropped by every caller). `SpecRank` is the spec's reading (2 and 9): the
highest granted right. SendGuard and RevokeMsg both EXTEND it, so the same
translation of `VerifyRights` decides both the send check and the revoke
check.

The same file's `GetMsgSeqs` (func.go 120-137) is modelled as a pure
algorithm. `MsgSeqsLoop` is its loop, written as a RECURSIVE operator: it
counts `i` up from 0 while `i < pageMsgSize` and breaks at the first
`end - i` below `minSeq`. `GetMsgSeqs` then sorts the result with the
code's descending comparator. `GetMsgSeqsIsPage` compares it with
`MsgSeqsPage`, the page the function's comment describes: the newest
`pageMsgSize` seqs that are not below `minSeq`, newest first. The check
covers every input in `MsgSeqInputs`:

- seqs 0..4, including `minSeq > end`;
- page sizes -1..3, including a negative one.

It is stated as an `ASSUME`, so TLC evaluates it when it starts any run of
SendGuard or RevokeMsg. Either run stops with an error if it does not hold.
A comparator reversed to ascending, in `GetMsgSeqsAscending`, makes it fail.

### SendGuard.tla (with MC_SendGuard.tla)

One `SendMsg` request, from entry to `MsgToMQ`. The request's fields are
chosen in `Init`: content type, session, `Ex` (any of `ExShapes`; the rank
is `VerifyRights(req.ex)` and the status `VerifySendStatus(req.ex)`),
MsgFrom (`MsgFroms`: user, system, or neither), a nil OfflinePushInfo, and
the client's `Options` (`ClientOptions`). `Options` is a map of the
switches, including IsNotNotification, each unset, on or off, or
`NilOptions` when the request has none. The
spec-side verdict ranks the sender with `SpecRank`. Each answer of redis or
a service is chosen at the step that asks for it and recorded in `obs`.

| Action | Code |
|---|---|
| `CheckRequest` | `send.go` 40-48 |
| `SensitiveFilter` | `send.go` 49-124; flag 3 with a nil OfflinePushInfo is the outcome `"panic"` |
| `Encapsulate` | `encapsulateMsgData` (`Switches`) and the session dispatch |
| `VerifySingle` | `SingleVerdict`: the single-chat branch of `messageVerification`, in the order of its early returns |
| `VerifyGroup` | `GroupVerdict`: the group branch |
| `ReceiveOpt` | `modifyMessageByUserMessageReceiveOpt` |
| `MsgToMQ` | `sendMsgSingleChat` after the receive option: the callbacks (disabled), `MsgToMQ`, the response |
| `MsgToMQNotification` | `sendMsgNotification`: `MsgToMQ` and the response, with no verification and no callbacks |
| `MsgToMQGroup` | `sendMsgSuperGroupChat` after verification: `MsgToMQ`, then for AtText the detached `setConversationAtInfo` goroutine is started |
| `SetConversationAtInfo` | the goroutine's start: with `@everyone`, `GetGroupMemberIDs` (a failure ends it); `AtCalls` lists the `SetConversations` calls it will make |
| `SetConversations` | one `SetConversations` call: the users' conversations take its GroupAtType, or it fails and is only logged |

The option helpers are OpenIMSDK's, not this repository's, and are
modelled by what they do:

- `GetSwitchFromOptions` reads a nil map or an absent key as on.
- `SetSwitchesFromOptions` is `SetSwitchFromOptions`: on a nil map it
  allocates a map of its own and drops it, so the switches are lost.
- `IsNotificationByMsg` is true when IsNotNotification is off.
- The receive option allocates the map before setting IsOfflinePush
  (`MuteOfflinePush`, verify.go 233-236).

`sendMsgSingleChat` applies the receive option unless
`IsNotificationByMsg` holds.

The sensitive-word block reads its flag through `SensitiveFlags`
(`GetSensitiveConfig` and `Atoi`: a failed read is 0) and its hit through
`SensitiveFound` (`Filter`). `GetSensitiveWord` gives no words when the
GET of `sensitive_word` fails or its JSON does not decode, and then
nothing is found. The trie's matching is a choice.

Properties:

- `LoggedOnlyIfValid`. A logged message is accepted by the spec's ordered
  validation (4.1 single and group, 4.1.1 receive mode), judged on the
  answers this request got. When the code never asked what a spec rule
  needs, the verdict is "unknown", which also fails. The spec makes the
  receive mode optional. `SpecReceive` lets it be skipped only for a
  message its sender marks as a notification; every other single-chat
  message must have had its global mode read, and its conversation's
  mode when the global mode is Receive.
- `LoggedFlagsCanonical`. A logged message carries its row of the
  spec 4.1 flag table, and IsOfflinePush is off when the recipient receives
  without notification. It holds when the request carries `Options`. A
  violation run (`sendguard_nil_options`) shows that it fails when
  `Options` is absent.
- `AtMarkersFollowSpec`. The at-info goroutine of a logged super-group
  AtText message never gives a conversation a marker other than the
  spec's: `AtAllAtMe` for users named beside `@everyone`, `AtAll` for the
  other members, `AtMe` for users named without `@everyone`. This holds
  even when some of its calls fail and others succeed. Once it has
  finished with every call succeeding, every conversation carries the
  spec's marker. The marker store is the conversation service, which is
  not under `src/`; a `SetConversations` call is modelled as all or
  nothing. The sender is a member and so is marked `AtAll` on their own
  `@everyone` message. The spec's "per-recipient" could be read to exclude
  the sender, but the model follows the code here.

### RevokeMsg.tla (with MC_RevokeMsg.tla)

`msgServer.RevokeMsg` (`internal/rpc/msg/revoke.go`) for concurrent requests
on one stored message. The message (`msg`: session type, sender, the message's
`Ex`), the group's roles (`roles`, one owner) and each request's shape
(`req`: user, app manager or not, `req.Ex`) are fixed in `Init`. Both
rights are read by SenderRights' `VerifyRights`; the rules of
`RevokeAuthorized` use `SpecRank`. `revoke` is the message's revoke
record in the store and `notified` the revoke notifications sent.

| Action | Code |
|---|---|
| `Start(r)` | lines 39-54: argument checks, `CheckAccessV3` (passes: each request is its user's own), `GetUserInfo` |
| `GetMsg(r)` | lines 55-93: `GetMsgBySeqs`, not found, already revoked, single chat without app manager, `Rights` (lines 72-84), then the dispatch: the member RPC, `ErrInternalServer` for other sessions, or straight to the write |
| `Members(r)` | lines 94-123: `GetGroupMemberInfoMap`, `MemberVerdict` (including the nil-member panics at 104 and 107), the final ordinary-member check |
| `Write(r)` | lines 124-133: `MsgDatabase.RevokeMsg`, which may fail |
| `Notify(r)` | lines 134-162: the ES push (error ignored), `NotificationWithSessionType`, which may fail after the write, and the callback (disabled) |

The store's code is not under `src/`. It is modelled by its effect: a
message with a revoke record reads back as a revoke notification, and a
second record overwrites the first. The `SingleChatType` case of the role
switch is unreachable (line 66 has already refused non-managers, and
managers skip the switch) and has no action.

Properties:

- `RevokeAuthorized`. Every revoke record that is stored, by any of the
  concurrent requests and whether or not it was announced, was written for
  a user allowed to revoke the message. The history variable `wrote`
  holds the requests whose write succeeded. The
  rules are written as a table, taken from the handler's comments:
  - an app manager may revoke any message;
  - in a single chat, nobody else may;
  - a high-rights sender's message may be revoked only by its sender;
  - otherwise a high-rights revoker may revoke;
  - in a super group, so may the owner, an admin for an ordinary member's
    message, and the sender when not an ordinary member.
- A notification that fails after the write leaves the record stored and
  answers the caller with the error (`Notify`). A retry then gets
  `ErrMsgAlreadyRevoke`, so the announcement is never sent. That is the
  code's design, and no property claims otherwise.
- `RevokedOnce`, checked in a violation run: a message is revoked once,
  as the `ErrMsgAlreadyRevoke` branch says.

No fairness is assumed: all the properties are invariants.

## 3. Runs

| Run | Expect | What it shows |
|---|---|---|
| `pusher_push` | pass | Both session types and discovery modes, three gateways, limit 2, any subset of RPCs failing: `TypeOK`, `NoOfflineForDelivered`, `OfflineCoverageGroupZk`, `Termination` |
| `pusher_k8s_coverage` | violation | With every gateway RPC answering (`GatewayFailures` FALSE), the k8s group offline push passes the offline users as the online list (line 194) |
| `pusher_single_rpc_error` | violation | `Push2User`: a failed gateway RPC leaves its recipient without an online or an offline push, and the call returns nil (spec 8.5) |
| `pushconsumer_safety` | pass | At most one crash, with or without an earlier commit: `TypeOK`, `NoFreshDropped` |
| `pushconsumer_crash_loss` | violation | A record marked and committed before its goroutine ran is lost by a crash |
| `brushlimit_safety` | pass | Four concurrent Checks, no failures: `TypeOK`, `CounterExpires`, `ExcessDenied`, `WithinLimitAccepted` |
| `cache_fresh` | pass | Three concurrent calls, a list that changes twice to new content: `CacheRefinesSpec` |
| `cache_revert` | violation | The list changes and changes back: `FreshRead` fails; a stale list is served for good |
| `sendguard` | pass | Every request shape with `Options` present and MsgFrom user or system, and every answer: `LoggedOnlyIfValid`, `LoggedFlagsCanonical`, and for super-group AtText the at-info goroutine's `AtMarkersFollowSpec` |
| `sendguard_nil_options` | violation | A request without `Options`: encapsulateMsgData's switches are lost and a Revoke is logged with unread count and offline push on (`LoggedFlagsCanonical`) |
| `revoke` | pass | Two concurrent revokes of every shape, every session, sender and group: `TypeOK`, `RevokeAuthorized` |
| `revoke_double` | violation | Two concurrent revokes both pass the already-revoked check: two records, two notifications |

Each passing property has a mutant in `PROJECT.json`: the same model with
one definition replaced by a plausible bug, under which TLC finds that
property violated.

**Bounds and why they are enough.**

- **Pusher.** Two users and three gateways. Three is the smallest number of
  connections at which `WaitGroupSetLimit` returns the configured value, so
  `wg.Go` can block. It also gives a delivered user "off" entries from the
  other gateways. The coverage runs use three users, two gateways and
  symmetry, for two recipients on different gateways.
- **Configuration 0 for `push.maxConcurrentWorkers`.** With this value,
  `WaitGroupSetLimit` gives a limit of 0 once there are three or more
  connections, and `wg.Go` never starts an RPC. Setting it in
  `Pusher_push.cfg` makes TLC report `Termination` violated. No run keeps
  that configuration (see the hazard at `func.go:21`).
- **PushConsumer.** Three records, two conversations (one synced), send
  times 0 and 500 ms, the clock from 30000 to 31500 ms in steps of 500.
  These cover both sides of the 30 s boundary and the sub-second window
  that truncation creates. One crash is enough to show loss and the
  newest-offset restart.
- **BrushLimit.** Four Checks, a 2 s window of one message, a mute of one
  minute, ban after two mutes, four seconds of clock. Four Checks that
  INCR in one window make three over-limit Checks at once. Two of them
  reach the ban branch while the others interleave, and the window can
  expire and be recreated within the clock. Keeping the clock below the mute is an assumption:
  every Check finishes within the mute. With a 64 s clock, TLC finds
  `ExcessDenied` violated. An over-limit Check stalls between its SET
  of the mute key and its final TTL read until the key has expired,
  and is then allowed (the hazard at limit.go:117).
- **ConversationLocalCache.** Three callers and two list changes. One
  caller's hash-then-fetch straddles a change, and a second caller's Set
  can land before or after it.
- **SendGuard.** Every `Ex` shape, one content type per flag-table row
  (AtText beside Text), every at-list over two users and `@everyone`, every
  member set the lookup can return, a notification type,
  the dismiss notification, and every answer of every service.
  `Options` maps vary IsOfflinePush, IsNotNotification and the other
  switches independently, each unset or off. "On" reads like "unset"
  wherever the code reads a switch, so it is not explored separately.
  The passing run leaves out two kinds of request: those without
  `Options`, which its own violation run covers, and those whose MsgFrom
  is neither user nor system. For the latter, TLC finds
  `LoggedOnlyIfValid` violated (`MsgFroms <- MC_AllMsgFroms`). An
  ordinary member's message with MsgFrom 0 skips the brush limit in a
  normal group, which is the hazard at verify.go:149. There is no run
  slot left to keep it.
- **RevokeMsg.** Three users, so that the sender, the owner and a third
  member can all differ, and two requests, symmetric. `Ex` ranges over
  three values: empty, high and operation both `"true"`, and operation
  alone, so that high rights and their absence appear on both sides. Two requests are
  enough to race between the read and the write. Every combination of
  session, sender rights, roles and request shapes is an initial state.

## 4. What is not modelled, and the plan

Not modelled, and why:

- **Pusher:** the k8s GetConn error collision, and
  title/body derivation (formatting). GetConn's failure result, and what an
  RPC on it does, come from the discovery client, which is not under
  `src/`. A nil connection would panic the goroutine. A code review of
  the derivation, not checked by a run: for AtText, `getOfflinePushInfos`
  (push_to_client.go:558) tests whether the *conversationID* is in the
  at-list. The spec (section 4.6, title/body derivation) tests the
  *recipient*. A group conversationID is never a user ID, so the
  "[someone @you]" title never appears.
- **Helpers in pkg/tools/utils/func.go without callers**
  (FilterMsg, InArray): no operation uses them. GetMsgSeqs, which has no
  caller either, is checked as a pure algorithm (see SenderRights).
- **The message store behind RevokeMsg** (`GetMsgBySeqs`,
  `MsgDatabase.RevokeMsg`): not under `src/`. It is modelled only by its
  effect on the revoke record.
- **Concurrent at-info goroutines of several messages:** the markers are
  last-writer-wins per conversation, so two AtText messages leave whichever
  goroutine wrote last. The spec promises no order, so one message is
  modelled.
- **The sensitive-word trie:** go-zero code, abstracted to hit or no hit.
- **GroupMember Mongo DAO:** single queries, I/O only.
- **GeTui payload structs:** formatting only.
- **Offline provider internals (FCM/JPush/GeTui HTTP):** not under `src/`
  beyond the payload.

Planned next:

1. Compose PushConsumer with Pusher, so that the handler step becomes a
   Pusher instance.
2. Compose SendGuard's brush-limit verdict with BrushLimit.
3. A liveness property for BrushLimit: a muted user can send again after
   the mute expires. This needs a clock past the one-minute mute, which
   the interleaving of four Checks does not leave room for.
