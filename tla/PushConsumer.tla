---------------------------- MODULE PushConsumer ----------------------------
(***************************************************************************)
(* The push consumer of one MsgToPush partition (internal/push/            *)
(* push_handler.go).  ConsumeClaim reads each record, marks its offset and *)
(* hands it to a new goroutine running handleMs2PsChat, which drops        *)
(* records it cannot decode or that are more than 30 s old, pushes the     *)
(* rest (Push2User / Push2SuperGroup, whose outcome the consumer only      *)
(* logs) and, for sg_/si_ conversations, posts the record's send time as   *)
(* the conversation's latest_msg_send_time.                                *)
(*                                                                         *)
(* Around the code: the producer appends records, sarama commits the       *)
(* marked offset in the background, the process may crash, losing the     *)
(* goroutines and the marks not yet committed, and a restarted member      *)
(* resumes at the committed offset, or at the newest one when the group    *)
(* has none (OffsetsInitial: OffsetNewest).  Time is in milliseconds.      *)
(***************************************************************************)
EXTENDS Integers, Sequences, FiniteSets

CONSTANTS
    NumRecords,   \* records the producer appends to the partition
    Convs,        \* conversation IDs
    SyncedConvs,  \* those with an "sg_" or "si_" prefix
    SendTimes,    \* MsgData.SendTime values, in ms
    Decodable,    \* whether a record may decode: subset of BOOLEAN
    StartNow,     \* the clock when the consumer joins, in ms
    TickMs,       \* one clock step, in ms
    MaxNow,       \* the last clock value explored
    MaxCrashes,   \* crashes explored
    CommittedAtStart \* whether the group already has a committed offset

ASSUME /\ NumRecords \in Nat \ {0}
       /\ SyncedConvs \subseteq Convs
       /\ SendTimes \subseteq Nat
       /\ Decodable \subseteq BOOLEAN /\ Decodable # {}
       /\ {StartNow, TickMs, MaxNow, MaxCrashes} \subseteq Nat
       /\ CommittedAtStart \subseteq BOOLEAN /\ CommittedAtStart # {}

Offsets == 1..NumRecords
NoTime == -1

VARIABLES
    log,        \* log[i]: [conv, sendTime, decodes] of the record at offset i
    produced,   \* offsets 1..produced have been appended
    pos,        \* the next offset ConsumeClaim reads
    marked,     \* the next offset MarkMessage has marked; 0: none
    committed,  \* the next offset committed for the group; 0: none
    running,    \* offsets whose handleMs2PsChat goroutine has not finished
    pushed,     \* offsets handed to the pusher, in the order it got them
    dropped,    \* offsets dropped as stale
    discarded,  \* offsets whose record did not decode
    latest,     \* latest[c]: latest_msg_send_time last posted for c
    now,        \* the clock, in ms
    crashes     \* crashes so far

vars == <<log, produced, pos, marked, committed, running, pushed, dropped,
          discarded, latest, now, crashes>>

-----------------------------------------------------------------------------
\* Mutant: the staleness test with >= in place of >.
StaleInclusive(r) == (now \div 1000) - (r.sendTime \div 1000) >= 30

(* handleMs2PsChat's staleness test: both times are truncated to seconds   *)
(* (SendTime / 1000 and GetCurrentTimestampBySecond) before comparing.     *)
Stale(r) == (now \div 1000) - (r.sendTime \div 1000) > 30

Records == [conv: Convs, sendTime: SendTimes, decodes: Decodable]

Init ==
    /\ log \in [Offsets -> Records]
    /\ produced = 0
    /\ pos = 1
    \* a group that consumed before has committed the offset of this batch
    /\ committed \in {IF b THEN 1 ELSE 0 : b \in CommittedAtStart}
    /\ marked = committed
    /\ running = {}
    /\ pushed = <<>>
    /\ dropped = {} /\ discarded = {}
    /\ latest = [c \in Convs |-> NoTime]
    /\ now = StartNow
    /\ crashes = 0

\* The producer appends the next record.
Produce ==
    /\ produced < NumRecords
    /\ produced' = produced + 1
    /\ UNCHANGED <<log, pos, marked, committed, running, pushed, dropped,
                   discarded, latest, now, crashes>>

\* One iteration of the ConsumeClaim loop: MarkMessage, then GoSafe.
ConsumeClaim ==
    /\ pos <= produced
    /\ marked' = pos + 1
    /\ running' = running \cup {pos}
    /\ pos' = pos + 1
    /\ UNCHANGED <<log, produced, committed, pushed, dropped, discarded,
                   latest, now, crashes>>

\* sarama's background commit of the marked offset.
AutoCommit ==
    /\ marked > committed
    /\ committed' = marked
    /\ UNCHANGED <<log, produced, pos, marked, running, pushed, dropped,
                   discarded, latest, now, crashes>>

\* The goroutine for offset i runs handleMs2PsChat to completion.  The push
\* result is only logged; SetConversations may fail, which is logged too.
HandleMs2PsChat(i) ==
    /\ i \in running
    /\ running' = running \ {i}
    /\ LET r == log[i] IN
       \/ /\ ~r.decodes
          /\ discarded' = discarded \cup {i}
          /\ UNCHANGED <<pushed, dropped, latest>>
       \/ /\ r.decodes /\ Stale(r)
          /\ dropped' = dropped \cup {i}
          /\ UNCHANGED <<pushed, discarded, latest>>
       \/ /\ r.decodes /\ ~Stale(r)
          /\ pushed' = Append(pushed, i)
          /\ \E rpcOK \in BOOLEAN :
                latest' = IF r.conv \in SyncedConvs /\ rpcOK
                          THEN [latest EXCEPT ![r.conv] = r.sendTime]
                          ELSE latest
          /\ UNCHANGED <<dropped, discarded>>
    /\ UNCHANGED <<log, produced, pos, marked, committed, now, crashes>>

Tick ==
    /\ now + TickMs <= MaxNow
    /\ now' = now + TickMs
    /\ UNCHANGED <<log, produced, pos, marked, committed, running, pushed,
                   dropped, discarded, latest, crashes>>

\* Mutant: the rejoin always resumes at the committed offset.
CrashFromCommitted ==
    /\ crashes < MaxCrashes
    /\ crashes' = crashes + 1
    /\ running' = {}
    /\ pos' = committed
    /\ marked' = committed
    /\ UNCHANGED <<log, produced, committed, pushed, dropped, discarded,
                   latest, now>>

\* The push process crashes and its group member rejoins: running
\* goroutines and uncommitted marks are lost; reading resumes at the
\* committed offset, or at the newest offset when nothing was committed.
Crash ==
    /\ crashes < MaxCrashes
    /\ crashes' = crashes + 1
    /\ running' = {}
    /\ pos' = IF committed = 0 THEN produced + 1 ELSE committed
    /\ marked' = committed
    /\ UNCHANGED <<log, produced, committed, pushed, dropped, discarded,
                   latest, now>>

Next ==
    \/ Produce
    \/ ConsumeClaim
    \/ AutoCommit
    \/ \E i \in Offsets : HandleMs2PsChat(i)
    \/ Tick
    \/ Crash

\* The reader loop, sarama's committer and every spawned goroutine keep
\* running; the producer keeps producing.  Crashes and the clock are not
\* forced.
Fairness ==
    /\ WF_vars(Produce)
    /\ WF_vars(ConsumeClaim)
    /\ WF_vars(AutoCommit)
    /\ \A i \in Offsets : WF_vars(HandleMs2PsChat(i))

Spec == Init /\ [][Next]_vars /\ Fairness

-----------------------------------------------------------------------------
(* Properties.                                                             *)

TypeOK ==
    /\ log \in [Offsets -> Records]
    /\ produced \in 0..NumRecords
    /\ pos \in 1..produced + 1
    /\ {marked, committed} \subseteq 0..NumRecords + 1
    /\ running \subseteq Offsets
    /\ pushed \in Seq(Offsets)
    /\ dropped \cup discarded \subseteq Offsets
    /\ latest \in [Convs -> SendTimes \cup {NoTime}]
    /\ crashes \in 0..MaxCrashes

\* The age of record i, in ms, at the current clock.
Age(i) == now - log[i].sendTime

\* handleMs2PsChat drops only what is really stale: a record it drops was
\* sent more than 30000 ms before (the truncation to seconds must never
\* drop a fresh message).
NoFreshDropped ==
    [][\A i \in Offsets : i \in dropped' \ dropped => Age(i) > 30000]_vars

\* Spec 4.2(b): every record appended to the partition is eventually
\* handled (pushed, dropped as stale, or discarded as undecodable).
Handled == {pushed[k] : k \in 1..Len(pushed)} \cup dropped \cup discarded

EveryRecordHandled == \A i \in Offsets : <>(i \in Handled)

=============================================================================
