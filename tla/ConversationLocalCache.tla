----------------------- MODULE ConversationLocalCache ------------------------
(***************************************************************************)
(* ConversationLocalCache.GetConversationIDs                               *)
(* (pkg/common/db/localcache/conversation.go) for one user, called by      *)
(* concurrent goroutines.  Each call asks the conversation service for the *)
(* hash of the user's conversation-ID list, looks the user up in the       *)
(* concurrent map, and on a miss or a different hash fetches the list and  *)
(* stores (hash from the first RPC, list from the second).  The service    *)
(* may change the list between any two of these steps.  Entries of        *)
(* different users never interact (one cmap key each), so one user is     *)
(* enough.                                                                 *)
(*                                                                         *)
(* The service's hash is a hash of the list's content; it is modelled      *)
(* collision-free, as the list itself.  Lists are model values.            *)
(***************************************************************************)
EXTENDS Naturals, Sequences

CONSTANTS
    Readers,    \* concurrent GetConversationIDs calls
    History,    \* the successive lists the conversation service holds
    Err,        \* a call's error return
    NoEntry     \* the map holds nothing for the user

VARIABLES
    ver,        \* History[ver] is the service's current list
    cache,      \* the map's *Hash for the user: [hash, ids], or NoEntry
    pc,         \* pc[p]: where call p is
    rh,         \* rh[p]: resp.Hash of p's first RPC
    fetched,    \* fetched[p]: conversationIDsResp.ConversationIDs
    result,     \* result[p]: what p returned
    seen        \* history: the lists the service held during p's call

vars == <<ver, cache, pc, rh, fetched, result, seen>>

Lists == {History[i] : i \in 1..Len(History)}
Authority == History[ver]

\* GetUserConversationIDsHash: a hash of the list's content.
HashOf(l) == l

Init ==
    /\ ver = 1
    /\ cache = NoEntry
    /\ pc = [p \in Readers |-> "idle"]
    /\ rh = [p \in Readers |-> NoEntry]
    /\ fetched = [p \in Readers |-> NoEntry]
    /\ result = [p \in Readers |-> Err]
    /\ seen = [p \in Readers |-> {}]

Finish(p, v) ==
    /\ result' = [result EXCEPT ![p] = v]
    /\ pc' = [pc EXCEPT ![p] = "done"]

\* A caller invokes GetConversationIDs.
Call(p) ==
    /\ pc[p] = "idle"
    /\ pc' = [pc EXCEPT ![p] = "hash"]
    /\ seen' = [seen EXCEPT ![p] = {Authority}]
    /\ UNCHANGED <<ver, cache, rh, fetched, result>>

\* GetUserConversationIDsHash; an error is returned to the caller.
GetHash(p) ==
    /\ pc[p] = "hash"
    /\ \/ /\ Finish(p, Err)
          /\ UNCHANGED rh
       \/ /\ rh' = [rh EXCEPT ![p] = HashOf(Authority)]
          /\ pc' = [pc EXCEPT ![p] = "lookup"]
          /\ UNCHANGED result
    /\ UNCHANGED <<ver, cache, fetched, seen>>

\* Mutant: the cached ids are used whenever the map has an entry.
LookupIgnoringHash(p) ==
    /\ pc[p] = "lookup"
    /\ \/ /\ cache # NoEntry
          /\ Finish(p, cache.ids)
       \/ /\ cache = NoEntry
          /\ pc' = [pc EXCEPT ![p] = "fetch"]
          /\ UNCHANGED result
    /\ UNCHANGED <<ver, cache, rh, fetched, seen>>

\* conversationIDs.Get finds an entry with the hash p was given.
Hit(p) == cache # NoEntry /\ cache.hash = rh[p]

\* conversationIDs.Get: the cached ids when the hash matches, else a fetch.
Lookup(p) ==
    /\ pc[p] = "lookup"
    /\ \/ /\ Hit(p)
          /\ Finish(p, cache.ids)
       \/ /\ ~Hit(p)
          /\ pc' = [pc EXCEPT ![p] = "fetch"]
          /\ UNCHANGED result
    /\ UNCHANGED <<ver, cache, rh, fetched, seen>>

\* GetConversationIDs RPC; an error is returned to the caller.
FetchIDs(p) ==
    /\ pc[p] = "fetch"
    /\ \/ /\ Finish(p, Err)
          /\ UNCHANGED fetched
       \/ /\ fetched' = [fetched EXCEPT ![p] = Authority]
          /\ pc' = [pc EXCEPT ![p] = "set"]
          /\ UNCHANGED result
    /\ UNCHANGED <<ver, cache, rh, seen>>

\* conversationIDs.Set(userID, &Hash{resp.Hash, ids}) and return the ids.
SetCache(p) ==
    /\ pc[p] = "set"
    /\ cache' = [hash |-> rh[p], ids |-> fetched[p]]
    /\ Finish(p, fetched[p])
    /\ UNCHANGED <<ver, rh, fetched, seen>>

\* The conversation service changes the user's list (another RPC server).
UpdateConversations ==
    /\ ver < Len(History)
    /\ ver' = ver + 1
    /\ seen' = [p \in Readers |->
                  IF pc[p] \notin {"idle", "done"}
                  THEN seen[p] \cup {History[ver + 1]} ELSE seen[p]]
    /\ UNCHANGED <<cache, pc, rh, fetched, result>>

Step(p) == Call(p) \/ GetHash(p) \/ Lookup(p) \/ FetchIDs(p) \/ SetCache(p)

Next == UpdateConversations \/ \E p \in Readers : Step(p)

Spec == Init /\ [][Next]_vars

-----------------------------------------------------------------------------
(* Properties.                                                             *)

TypeOK ==
    /\ ver \in 1..Len(History)
    /\ cache \in [hash : Lists, ids : Lists] \cup {NoEntry}
    /\ pc \in [Readers -> {"idle", "hash", "lookup", "fetch", "set", "done"}]
    /\ result \in [Readers -> Lists \cup {Err}]

\* Spec 8.8: a call during which the service's list did not change returns
\* that list -- whatever earlier calls stored, in whatever order their
\* Sets landed.
FreshRead ==
    \A p \in Readers :
        (pc[p] = "done" /\ result[p] # Err /\ seen[p] = {Authority})
            => result[p] = Authority

\* Spec 4.7: every call returns a list the service held during the call.
Abstract == INSTANCE ConversationCacheSpec
    WITH call <- [p \in Readers |->
                    CASE pc[p] = "idle" -> "idle"
                      [] pc[p] = "done" -> "done"
                      [] OTHER -> "busy"]

CacheRefinesSpec == Abstract!Spec

=============================================================================
