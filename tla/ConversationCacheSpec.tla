------------------------ MODULE ConversationCacheSpec ------------------------
(***************************************************************************)
(* What a read of a user's conversation-ID list through a local cache      *)
(* promises (spec 4.7): the conversation service owns the list and may     *)
(* change it at any time; a call either fails or returns a list the        *)
(* service held at some moment between the call's start and its return.    *)
(* seen[p] is the set of lists the service held during p's call so far.    *)
(***************************************************************************)
EXTENDS Naturals, Sequences

CONSTANTS
    Readers,    \* concurrent GetConversationIDs calls
    History,    \* the successive lists the service holds
    Err         \* the result of a failed call

VARIABLES
    ver,        \* History[ver] is the service's current list
    call,       \* call[p]: "idle", "busy" or "done"
    seen,       \* seen[p]: the lists the service held during p's call
    result      \* result[p]: what p's call returned

Authority == History[ver]

Init ==
    /\ ver = 1
    /\ call = [p \in Readers |-> "idle"]
    /\ seen = [p \in Readers |-> {}]
    /\ result = [p \in Readers |-> Err]

Begin(p) ==
    /\ call[p] = "idle"
    /\ call' = [call EXCEPT ![p] = "busy"]
    /\ seen' = [seen EXCEPT ![p] = {Authority}]
    /\ UNCHANGED <<ver, result>>

Return(p) ==
    /\ call[p] = "busy"
    /\ \E v \in seen[p] \cup {Err} : result' = [result EXCEPT ![p] = v]
    /\ call' = [call EXCEPT ![p] = "done"]
    /\ UNCHANGED <<ver, seen>>

\* The service's list changes; every call in progress has now seen it.
Update ==
    /\ ver < Len(History)
    /\ ver' = ver + 1
    /\ seen' = [p \in Readers |->
                  IF call[p] = "busy" THEN seen[p] \cup {History[ver + 1]}
                  ELSE seen[p]]
    /\ UNCHANGED <<call, result>>

Next == Update \/ \E p \in Readers : Begin(p) \/ Return(p)

Spec == Init /\ [][Next]_<<ver, call, seen, result>>

=============================================================================
