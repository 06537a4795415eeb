----------------------------- MODULE BrushLimit -----------------------------
(***************************************************************************)
(* The flood limiter BrushLimit.Check (tools/live/limit.go) as called by   *)
(* messageVerification for an ordinary group member.  Every process is one *)
(* Check for the same user; each redis command it sends is one atomic      *)
(* step, and the commands of concurrent Checks interleave.  The redis      *)
(* keys of the user are variables; TTLs count down with the clock, in      *)
(* seconds.  A command may fail (network, server): its error is ignored    *)
(* and .Val() yields the zero value, as the code does.                     *)
(*                                                                         *)
(* The configuration is the one read from brush_config after strconv.Atoi; *)
(* a failed read of it makes Check return (true, err), which the caller    *)
(* treats as allowed.                                                      *)
(***************************************************************************)
EXTENDS Integers, FiniteSets

CONSTANTS
    Procs,            \* concurrent Check calls of one user
    BrushTime,        \* im_brush_time: window, in seconds
    BrushLimit,       \* im_brush_limit: messages allowed per window
    BrushSpeechTime,  \* im_brush_speech_time: mute, in minutes
    BrushBanLimit,    \* im_brush_ban_limit: mutes before a block record
    MaxTime,          \* last clock value explored
    MaxFailures       \* failed redis commands explored

ASSUME /\ {BrushTime, BrushLimit, BrushSpeechTime, BrushBanLimit} \subseteq Nat
       /\ {MaxTime, MaxFailures} \subseteq Nat

\* Redis TTL replies: -2 for a missing key, -1 for a key with no expiry.
Missing == -2
NoExpiry == -1

VARIABLES
    cntVal,     \* im_brush_user:{uid}; 0 when the key is missing
    cntTTL,     \* its TTL reply
    muteTTL,    \* TTL reply of im_super_brush_all_mute:{uid}
    blockVal,   \* brush_user_block_im:{uid}; 0 when missing (never expires)
    triggers,   \* records LPushed to im_brush_user_trigger_push_key
    blocks,     \* records LPushed to im_brush_user_block_push_key
    now,        \* the clock, in seconds
    failures,   \* redis commands failed so far
    pc,         \* pc[p]: the next command of Check p
    num,        \* num[p]: messagesNum
    ttl,        \* ttl[p]: the counter TTL p read
    blockNum,   \* blockNum[p]: blockNumIm
    result,     \* result[p]: "none", "allow" or "deny"
    win,        \* win[p]: the counter incarnation p's Incr hit (0: none)
    incarnations, \* counter keys created so far
    mutedDuring \* mutedDuring[p]: another Check set the mute key while p ran

vars == <<cntVal, cntTTL, muteTTL, blockVal, triggers, blocks, now, failures,
          pc, num, ttl, blockNum, result, win, incarnations, mutedDuring>>
keys == <<cntVal, cntTTL, muteTTL, blockVal, triggers, blocks>>
local == <<pc, num, ttl, blockNum, result, win>>

-----------------------------------------------------------------------------
\* The outcomes of one redis command: it may fail while failures remain.
Outcomes == IF failures < MaxFailures THEN BOOLEAN ELSE {TRUE}

CountFailure(ok) == failures' = failures + (IF ok THEN 0 ELSE 1)

\* Mutant: only a missing key (TTL -2) is taken as a counter without TTL.
CounterTTLUnsetMissingOnly(t) == t = Missing

\* The counter has no TTL yet: Check then sets one.
CounterTTLUnset(t) == t < 0

\* Mutant: the mute expiration taken as seconds.
MuteTTLAfterSetSeconds ==
    IF BrushSpeechTime > 0 THEN BrushSpeechTime ELSE NoExpiry

\* The mute key's TTL reply after SET with brushSpeechTime minutes: an
\* expiration of 0 means no expiry.
MuteTTLAfterSet ==
    IF BrushSpeechTime * 60 > 0 THEN BrushSpeechTime * 60 ELSE NoExpiry

Goto(p, l) == pc' = [pc EXCEPT ![p] = l]
Return(p, r) == /\ pc' = [pc EXCEPT ![p] = "done"]
                /\ result' = [result EXCEPT ![p] = r]

Init ==
    /\ cntVal = 0 /\ cntTTL = Missing
    /\ muteTTL = Missing
    /\ blockVal = 0
    /\ triggers = 0 /\ blocks = 0
    /\ now = 0
    /\ failures = 0
    /\ pc = [p \in Procs |-> "idle"]
    /\ num = [p \in Procs |-> 0]
    /\ ttl = [p \in Procs |-> 0]
    /\ blockNum = [p \in Procs |-> 0]
    /\ result = [p \in Procs |-> "none"]
    /\ win = [p \in Procs |-> 0]
    /\ incarnations = 0
    /\ mutedDuring = [p \in Procs |-> FALSE]

-----------------------------------------------------------------------------
(* The steps of Check(userId), in the order of the code.                   *)

\* TTL of the mute key: a positive TTL denies at once.
CheckMuted(p) ==
    /\ pc[p] = "idle"
    /\ \E ok \in Outcomes :
          /\ CountFailure(ok)
          /\ IF ok /\ muteTTL > 0 THEN Return(p, "deny")
             ELSE /\ Goto(p, "config") /\ UNCHANGED result
    /\ UNCHANGED <<keys, now, num, ttl, blockNum, win, incarnations, mutedDuring>>

\* GET brush_config: a failure returns (true, err).
GetConfig(p) ==
    /\ pc[p] = "config"
    /\ \E ok \in Outcomes :
          /\ CountFailure(ok)
          /\ IF ok THEN /\ Goto(p, "incr") /\ UNCHANGED result
             ELSE Return(p, "allow")
    /\ UNCHANGED <<keys, now, num, ttl, blockNum, win, incarnations, mutedDuring>>

\* INCR of the user counter; a missing key is created without a TTL.
IncrCounter(p) ==
    /\ pc[p] = "incr"
    /\ \E ok \in Outcomes :
          /\ CountFailure(ok)
          /\ IF ok
             THEN /\ cntVal' = cntVal + 1
                  /\ cntTTL' = IF cntVal = 0 THEN NoExpiry ELSE cntTTL
                  /\ incarnations' = incarnations + (IF cntVal = 0 THEN 1 ELSE 0)
                  /\ num' = [num EXCEPT ![p] = cntVal + 1]
                  /\ win' = [win EXCEPT ![p] = incarnations']
             ELSE /\ num' = [num EXCEPT ![p] = 0]
                  /\ UNCHANGED <<cntVal, cntTTL, incarnations, win>>
    /\ Goto(p, "ttl")
    /\ UNCHANGED <<muteTTL, blockVal, triggers, blocks, now, ttl, blockNum, result,
                   mutedDuring>>

\* TTL of the counter; a failure reads 0.
ReadCounterTTL(p) ==
    /\ pc[p] = "ttl"
    /\ \E ok \in Outcomes :
          /\ CountFailure(ok)
          /\ ttl' = [ttl EXCEPT ![p] = IF ok THEN cntTTL ELSE 0]
    /\ Goto(p, IF CounterTTLUnset(ttl'[p]) THEN "expire" ELSE "over")
    /\ UNCHANGED <<keys, now, num, blockNum, result, win, incarnations, mutedDuring>>

\* EXPIRE of the counter with brushTime seconds (a non-positive TTL deletes
\* the key, a missing key is left alone).
ExpireCounter(p) ==
    /\ pc[p] = "expire"
    /\ \E ok \in Outcomes :
          /\ CountFailure(ok)
          /\ IF ok /\ cntVal > 0
             THEN IF BrushTime > 0
                  THEN /\ cntTTL' = BrushTime /\ UNCHANGED cntVal
                  ELSE /\ cntVal' = 0 /\ cntTTL' = Missing
             ELSE UNCHANGED <<cntVal, cntTTL>>
    /\ Goto(p, "over")
    /\ UNCHANGED <<muteTTL, blockVal, triggers, blocks, now, num, ttl, blockNum,
                   result, win, incarnations, mutedDuring>>

\* A successful SET of the mute key by p, recorded for every other Check
\* that is past its first TTL and has not returned.
MarkMutedDuring(p) ==
    mutedDuring' = [q \in Procs |->
                      mutedDuring[q] \/ (q # p /\ pc[q] \notin {"idle", "done"})]

\* Mutant: a counter AT the limit already counts as over it.
SetMuteAtLimit(p) ==
    /\ pc[p] = "over"
    /\ \/ /\ num[p] < BrushLimit
          /\ Goto(p, "final")
          /\ UNCHANGED <<muteTTL, failures, mutedDuring>>
       \/ /\ num[p] >= BrushLimit
          /\ \E ok \in Outcomes :
                /\ CountFailure(ok)
                /\ muteTTL' = IF ok THEN MuteTTLAfterSet ELSE muteTTL
                /\ IF ok THEN MarkMutedDuring(p) ELSE UNCHANGED mutedDuring
          /\ Goto(p, "block")
    /\ UNCHANGED <<cntVal, cntTTL, blockVal, triggers, blocks, now, num, ttl,
                   blockNum, result, win, incarnations>>

\* Over the limit: SET of the mute key.
SetMute(p) ==
    /\ pc[p] = "over"
    /\ \/ /\ num[p] <= BrushLimit
          /\ Goto(p, "final")
          /\ UNCHANGED <<muteTTL, failures, mutedDuring>>
       \/ /\ num[p] > BrushLimit
          /\ \E ok \in Outcomes :
                /\ CountFailure(ok)
                /\ muteTTL' = IF ok THEN MuteTTLAfterSet ELSE muteTTL
                /\ IF ok THEN MarkMutedDuring(p) ELSE UNCHANGED mutedDuring
          /\ Goto(p, "block")
    /\ UNCHANGED <<cntVal, cntTTL, blockVal, triggers, blocks, now, num, ttl,
                   blockNum, result, win, incarnations>>

\* INCR of the block counter, then PERSIST (the counter never has a TTL, so
\* PERSIST changes nothing).
IncrBlock(p) ==
    /\ pc[p] = "block"
    /\ \E ok \in Outcomes :
          /\ CountFailure(ok)
          /\ blockVal' = IF ok THEN blockVal + 1 ELSE blockVal
          /\ blockNum' = [blockNum EXCEPT ![p] = IF ok THEN blockVal + 1 ELSE 0]
    /\ Goto(p, "push")
    /\ UNCHANGED <<cntVal, cntTTL, muteTTL, triggers, blocks, now, num, ttl,
                   result, win, incarnations, mutedDuring>>

\* LPUSH of a record (okPush) and DEL of a counter (okDel): each may fail.
CountFailures2(okPush, okDel) ==
    /\ failures' = failures + (IF okPush THEN 0 ELSE 1) + (IF okDel THEN 0 ELSE 1)
    /\ failures' <= MaxFailures

\* Mutant: the user counter reset with SET 0 (no expiry) in place of DEL.
PushTriggerResetBySet(p) ==
    /\ pc[p] = "push"
    /\ \E okPush, okDel \in Outcomes :
         /\ CountFailures2(okPush, okDel)
         /\ \/ /\ blockNum[p] < BrushBanLimit
               /\ triggers' = triggers + (IF okPush THEN 1 ELSE 0)
               /\ IF okDel THEN cntVal' = 0 /\ cntTTL' = NoExpiry
                  ELSE UNCHANGED <<cntVal, cntTTL>>
               /\ UNCHANGED <<blocks, blockVal>>
            \/ /\ blockNum[p] >= BrushBanLimit
               /\ blocks' = blocks + (IF okPush THEN 1 ELSE 0)
               /\ blockVal' = IF okDel THEN 0 ELSE blockVal
               /\ UNCHANGED <<triggers, cntVal, cntTTL>>
    /\ Goto(p, "final")
    /\ UNCHANGED <<muteTTL, now, num, ttl, blockNum, result, win, incarnations, mutedDuring>>

\* LPUSH of the trigger record and DEL of the user counter, or, from the
\* ban limit on, LPUSH of the block record and DEL of the block counter;
\* either command may fail on its own.  No Check reads the lists, so the
\* LPUSH commutes with every other step and the two commands are one step
\* here.
PushTrigger(p) ==
    /\ pc[p] = "push"
    /\ \E okPush, okDel \in Outcomes :
         /\ CountFailures2(okPush, okDel)
         /\ \/ /\ blockNum[p] < BrushBanLimit
               /\ triggers' = triggers + (IF okPush THEN 1 ELSE 0)
               /\ IF okDel THEN cntVal' = 0 /\ cntTTL' = Missing
                  ELSE UNCHANGED <<cntVal, cntTTL>>
               /\ UNCHANGED <<blocks, blockVal>>
            \/ /\ blockNum[p] >= BrushBanLimit
               /\ blocks' = blocks + (IF okPush THEN 1 ELSE 0)
               /\ blockVal' = IF okDel THEN 0 ELSE blockVal
               /\ UNCHANGED <<triggers, cntVal, cntTTL>>
    /\ Goto(p, "final")
    /\ UNCHANGED <<muteTTL, now, num, ttl, blockNum, result, win, incarnations, mutedDuring>>

\* TTL of the mute key decides the answer.
CheckMuteAgain(p) ==
    /\ pc[p] = "final"
    /\ \E ok \in Outcomes :
          /\ CountFailure(ok)
          /\ Return(p, IF ok /\ muteTTL > 0 THEN "deny" ELSE "allow")
    /\ UNCHANGED <<keys, now, num, ttl, blockNum, win, incarnations, mutedDuring>>

-----------------------------------------------------------------------------

\* One second passes: positive TTLs count down and keys reaching 0 expire.
Tick ==
    /\ now < MaxTime
    /\ now' = now + 1
    /\ IF cntTTL = 1 THEN cntVal' = 0 /\ cntTTL' = Missing
       ELSE /\ cntTTL' = IF cntTTL > 1 THEN cntTTL - 1 ELSE cntTTL
            /\ UNCHANGED cntVal
    /\ muteTTL' = CASE muteTTL = 1 -> Missing
                    [] muteTTL > 1 -> muteTTL - 1
                    [] OTHER       -> muteTTL
    /\ UNCHANGED <<blockVal, triggers, blocks, failures, local, incarnations, mutedDuring>>

Step(p) ==
    \/ CheckMuted(p)
    \/ GetConfig(p)
    \/ IncrCounter(p)
    \/ ReadCounterTTL(p)
    \/ ExpireCounter(p)
    \/ SetMute(p)
    \/ IncrBlock(p)
    \/ PushTrigger(p)
    \/ CheckMuteAgain(p)

Next == Tick \/ \E p \in Procs : Step(p)

\* A started Check runs to its end (every command carries a deadline);
\* whether and when a user sends is not forced.
Spec == Init /\ [][Next]_vars /\ \A p \in Procs : WF_vars(Step(p) /\ pc[p] # "idle")

-----------------------------------------------------------------------------
(* Properties.                                                             *)

TypeOK ==
    /\ cntVal \in Nat /\ blockVal \in Nat
    /\ cntTTL \in {Missing, NoExpiry} \cup 1..BrushTime
    /\ cntVal = 0 <=> cntTTL = Missing
    /\ muteTTL \in {Missing, NoExpiry} \cup 1..MuteTTLAfterSet
    /\ pc \in [Procs -> {"idle", "config", "incr", "ttl", "expire", "over",
                         "block", "push", "final", "done"}]
    /\ result \in [Procs -> {"none", "allow", "deny"}]
    /\ failures \in 0..MaxFailures
    /\ mutedDuring \in [Procs -> BOOLEAN]

\* The counter of the window never outlives it: whenever the user counter
\* exists without a TTL, some Check is between its INCR and its EXPIRE and
\* will set one.  Otherwise the count stays past its window until the next
\* Check's TTL read finds -1 and starts a window that already holds it.
CounterExpires ==
    (cntVal > 0 /\ cntTTL = NoExpiry) =>
        \E p \in Procs : pc[p] \in {"ttl", "expire"}

\* Spec 8.3: a send whose INCR took the counter over brushLimit is denied,
\* whatever the concurrent Checks of the same user do meanwhile.
ExcessDenied ==
    \A p \in Procs : (result[p] = "allow" /\ win[p] # 0) => num[p] <= BrushLimit

\* Spec 8.3, first half: the sends of a window up to brushLimit are
\* accepted.  A Check whose INCR left the counter within the limit is
\* denied only when another Check of the same user went over the limit and
\* set the mute key while this one ran; Check's final TTL of the mute key
\* (line 117) then denies it, as the spec's "deny if mute key now positive"
\* says.
WithinLimitAccepted ==
    \A p \in Procs :
        (result[p] = "deny" /\ win[p] # 0 /\ num[p] <= BrushLimit) => mutedDuring[p]

=============================================================================
