---------------------------- MODULE SenderRights -----------------------------
(***************************************************************************)
(* The sender-rights side channel of a message or request: the Ex string  *)
(* and what utils.VerifyRights and utils.VerifySendStatus                  *)
(* (pkg/tools/utils/func.go) read from it.                                 *)
(*                                                                         *)
(* An Ex is modelled by what json.Unmarshal makes of it: empty, not valid  *)
(* JSON, or an object whose anchor_auth, high_auth and operation_auth are   *)
(* strings ("true", or anything else, here "false") and whose sendStatus    *)
(* is a number.  A missing field decodes to its zero value, which the       *)
(* checks treat like "false" and 0.                                        *)
(*                                                                         *)
(* The same file's GetMsgSeqs, the seq page of a history fetch, is an      *)
(* operator checked against the page its comment describes.                *)
(***************************************************************************)
EXTENDS Integers, Sequences, TLC

AuthStrings == {"true", "false"}

\* Not a JSON object of those fields, and the empty string.
MalformedEx == [kind |-> "malformed", anchor_auth |-> "false",
                high_auth |-> "false", operation_auth |-> "false", sendStatus |-> 0]
EmptyEx == [MalformedEx EXCEPT !.kind = "empty"]

\* Every Ex a client may send, up to what the two functions read.
ExShapes ==
    {EmptyEx, MalformedEx} \cup
    [kind: {"json"}, anchor_auth: AuthStrings, high_auth: AuthStrings,
     operation_auth: AuthStrings, sendStatus: {0, 3}]

\* Mutant: operation_auth is looked at before high_auth.
VerifyRightsOperationFirst(ex) ==
    IF ex.kind = "malformed" THEN 0
    ELSE IF ex.operation_auth = "true" THEN 2
    ELSE IF ex.high_auth = "true" THEN 3
    ELSE IF ex.anchor_auth = "true" THEN 1
    ELSE 0

\* VerifyRights: an Unmarshal error gives (0, err), which every caller
\* drops; an empty Ex reads as three "false"; the first "true" of
\* high_auth, operation_auth, anchor_auth gives 3, 2, 1.
VerifyRights(ex) ==
    IF ex.kind = "malformed" THEN 0
    ELSE IF ex.high_auth = "true" THEN 3
    ELSE IF ex.operation_auth = "true" THEN 2
    ELSE IF ex.anchor_auth = "true" THEN 1
    ELSE 0

\* VerifySendStatus: the sendStatus number, 0 when Ex is empty or does not
\* decode (the error is dropped by messageVerification).
VerifySendStatus(ex) ==
    IF ex.kind = "json" THEN ex.sendStatus ELSE 0

\* Spec 2 and 9: the rank is the highest of the three rights whose string
\* is "true" (high 3, operation 2, anchor 1), and 0 when none is.
SpecRank(ex) ==
    LET granted == {3 * (IF ex.high_auth = "true" THEN 1 ELSE 0),
                    2 * (IF ex.operation_auth = "true" THEN 1 ELSE 0),
                    1 * (IF ex.anchor_auth = "true" THEN 1 ELSE 0), 0}
    IN  CHOOSE m \in granted : \A k \in granted : k <= m

\* GetMsgSeqs's loop: i from 0 while i < pageMsgSize, appending end - i and
\* breaking at the first value below minSeq.
RECURSIVE MsgSeqsLoop(_, _, _, _)
MsgSeqsLoop(minSeq, end, pageMsgSize, i) ==
    IF i >= pageMsgSize \/ end - i < minSeq THEN <<>>
    ELSE <<end - i>> \o MsgSeqsLoop(minSeq, end, pageMsgSize, i + 1)

\* Mutant: the comparator of the sort reversed (ascending order).
GetMsgSeqsAscending(minSeq, end, pageMsgSize) ==
    SortSeq(MsgSeqsLoop(minSeq, end, pageMsgSize, 0), LAMBDA a, b : a < b)

\* GetMsgSeqs: the loop, then slices.SortStableFunc with cmp.Compare(b, a),
\* newest seq first.
GetMsgSeqs(minSeq, end, pageMsgSize) ==
    SortSeq(MsgSeqsLoop(minSeq, end, pageMsgSize, 0), LAMBDA a, b : a > b)

\* The page GetMsgSeqs's comment describes: at most pageMsgSize seqs ending
\* at end and none below minSeq, in descending order.
MsgSeqsPage(minSeq, end, pageMsgSize) ==
    LET lo == IF minSeq > end - pageMsgSize + 1 THEN minSeq ELSE end - pageMsgSize + 1
    IN  [k \in 1..(IF end >= lo THEN end - lo + 1 ELSE 0) |-> end - k + 1]

\* The inputs explored: seqs 0..4 (minSeq above end included) and page
\* sizes from -1 (a negative ShowNumber) to 3.
MsgSeqInputs == [minSeq: 0..4, end: 0..4, pageMsgSize: -1..3]

\* GetMsgSeqs returns exactly the described page for every explored input:
\* its loop bound, its break on minSeq and its sort order together must
\* give the newest pageMsgSize seqs not below minSeq, newest first.
GetMsgSeqsIsPage ==
    \A in \in MsgSeqInputs :
        GetMsgSeqs(in.minSeq, in.end, in.pageMsgSize)
            = MsgSeqsPage(in.minSeq, in.end, in.pageMsgSize)

\* Checked by TLC at the start of every run of a module extending this one.
ASSUME GetMsgSeqsIsPage

=============================================================================
