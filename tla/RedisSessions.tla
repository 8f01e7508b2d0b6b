--------------------------- MODULE RedisSessions ---------------------------
(***************************************************************************)
(* The Redis store of package session, for the sessions of one user: keys  *)
(* that expire by themselves, and the user's index, a set that lets        *)
(* DestroyForUser find them.                                               *)
(*                                                                         *)
(* Save, Destroy and DestroyForUser are several commands each, and no      *)
(* transaction: other requests, the clock and failures come in between.    *)
(* What the middleware and a handler do to a session in memory is as in    *)
(* Session; here it happens in the step that starts the save.  A guest's   *)
(* session is a key that no index names: a request that leaves one, after  *)
(* a logout too, does nothing here.                                        *)
(***************************************************************************)
EXTENDS Clock

CONSTANTS
    Visits,     \* requests in flight at the same time
    Lifetime,   \* the store's TTL
    Minute,     \* the extension Touch does not bother to save
    Hour,       \* how much longer than its last session the index is kept
    MaxIds,     \* bound: session ids
    MaxVisit,   \* the longest a request lasts
    RedisEnd,   \* bound: the clock
    NoKey       \* no such key

ASSUME RedisSessionsAssumption ==
    /\ Lifetime \in Nat \ {0} /\ Minute \in Nat /\ Hour \in Nat
    /\ MaxVisit \in Nat /\ MaxVisit + Minute <= Hour
    /\ MaxIds \in Nat /\ RedisEnd \in Nat
    /\ NoKey \notin Nat

VARIABLES
    keys,       \* keys[s]: the key of session s
    index,      \* the user's set of session ids
    drawnIds,   \* ids drawn so far
    visit,      \* visit[q]: the request in flight in q
    wipe,       \* the DestroyForUser under way
    astray      \* history: sessions whose last save or whose Destroy was cut short,
                \* or whose SAdd a DestroyForUser or the end of the index undid

redisVars == <<keys, index, drawnIds, visit, wipe, astray>>

Id == 1..MaxIds

\* A key: the expiry in the payload, and Redis' own.
Key == [expires: Nat, until: Nat]

\* A request.  It is idle, before its save ("handler"), after the Set ("set") or the
\* SAdd ("added") of Save, or after the SRem of Destroy ("removed").  id is 0 as long as
\* the session is a guest's; since is when it was loaded.
Visit == [at: {"idle", "handler", "set", "added", "removed"},
          id: 0..MaxIds, expires: Nat, since: Nat, ttl: Nat]

NoVisit == [at |-> "idle", id |-> 0, expires |-> 0, since |-> 0, ttl |-> 0]
NoIndex == [ids |-> {}, until |-> 0]
NoWipe == [at |-> "idle", ids |-> {}]

RedisTypeOK ==
    /\ keys \in [Id -> Key \cup {NoKey}]
    /\ index \in [ids: SUBSET Id, until: Nat]
    /\ astray \subseteq Id /\ drawnIds \in 0..MaxIds
    /\ visit \in [Visits -> Visit]
    /\ wipe \in [at: {"idle", "read", "keys"}, ids: SUBSET Id]

RedisInit ==
    /\ keys = [s \in Id |-> NoKey] /\ index = NoIndex
    /\ drawnIds = 0 /\ astray = {}
    /\ visit = [q \in Visits |-> NoVisit]
    /\ wipe = NoWipe
-----------------------------------------------------------------------------
(* What Redis holds now.                                                   *)

\* SAdd makes a set that does not expire until Expire says so.
NoExpiry == RedisEnd + Lifetime + Hour + 1

\* Load: the payload has an expiry of its own.
Alive(s) == keys[s] # NoKey /\ ~(now > keys[s].expires)
-----------------------------------------------------------------------------
(* Load.                                                                   *)

Begins(q, v) ==
    /\ visit[q].at = "idle"
    /\ visit' = [visit EXCEPT ![q] = v]
    /\ UNCHANGED <<now, keys, index, drawnIds, wipe, astray>>

NewVisit == [NoVisit EXCEPT !.at = "handler", !.expires = now + Lifetime, !.since = now]

\* No cookie, no such key, an expired payload, or a failing store: a fresh session.
LoadFresh(q) == Begins(q, NewVisit)

\* The session a cookie names, and Touch.
LoadStored(q, s) ==
    /\ Alive(s)
    /\ Begins(q, [NewVisit EXCEPT !.id = s, !.expires = IF @ > keys[s].expires + Minute THEN @ ELSE keys[s].expires])
-----------------------------------------------------------------------------
(* Save.                                                                   *)

\* Once the request is over only what it left in Redis counts.
Ends(q) == visit' = [visit EXCEPT ![q] = NoVisit]

\* A clean session is not saved, a guest's, which it is after a logout, does not
\* matter here, and a Set that fails leaves everything as it was.
SaveNone(q) ==
    /\ visit[q].at = "handler"
    /\ Ends(q)
    /\ UNCHANGED <<now, keys, index, drawnIds, wipe, astray>>

\* The session is dirty, by Touch or by the handler, or the handler logs in, and Set
\* stores it: after a login under a new id.
SetKey(q, h) ==
    LET v == visit[q]
        s == IF h = "login" THEN drawnIds + 1 ELSE v.id
        ttl == IF v.expires > now THEN v.expires - now ELSE Lifetime
    IN  /\ v.at = "handler" /\ s \in Id
        /\ keys' = [keys EXCEPT ![s] = [expires |-> v.expires, until |-> now + ttl]]
        /\ drawnIds' = IF h = "login" THEN s ELSE drawnIds
        /\ visit' = [visit EXCEPT ![q] = [NoVisit EXCEPT !.at = "set", !.id = s, !.since = v.since, !.ttl = ttl]]
        /\ astray' = astray \ {s}
        /\ UNCHANGED <<now, index, wipe>>

\* SAdd.  A DestroyForUser that has read the index will delete it, this id included.
AddToIndex(q) ==
    LET v == visit[q]
    IN  /\ v.at = "set"
        /\ index' = [ids |-> index.ids \cup {v.id}, until |-> IF index = NoIndex THEN NoExpiry ELSE index.until]
        /\ visit' = [visit EXCEPT ![q].at = "added"]
        /\ astray' = IF wipe.at \in {"read", "keys"} THEN astray \cup {v.id} ELSE astray
        /\ UNCHANGED <<now, keys, drawnIds, wipe>>

\* Faulty variant: the index expires with the session that was saved last.
IndexTTL_m1(ttl) == ttl

\* "The index outlives the sessions slightly."
IndexTTL(ttl) == ttl + Hour

\* Expire, which does nothing to an index that has expired or was deleted since the
\* SAdd.
ExpireIndex(q) ==
    LET v == visit[q]
    IN  /\ v.at = "added"
        /\ index' = IF index = NoIndex THEN NoIndex ELSE [index EXCEPT !.until = now + IndexTTL(v.ttl)]
        /\ Ends(q)
        /\ astray' = IF v.id \in index.ids THEN astray ELSE astray \cup {v.id}
        /\ UNCHANGED <<now, keys, drawnIds, wipe>>

\* A command fails, or the process dies: what was done stays done.
SaveFails(q) ==
    /\ visit[q].at \in {"set", "added", "removed"}
    /\ Ends(q)
    /\ astray' = astray \cup {visit[q].id}
    /\ UNCHANGED <<now, keys, index, drawnIds, wipe>>
-----------------------------------------------------------------------------
(* Destroy, after which the middleware still saves a dirty session.        *)

\* SRem, whose error is ignored.
RemoveFromIndex(q) ==
    LET v == visit[q]
    IN  /\ v.at = "handler" /\ v.id # 0
        /\ index' \in {index, IF index.ids \subseteq {v.id} THEN NoIndex ELSE [index EXCEPT !.ids = @ \ {v.id}]}
        /\ visit' = [visit EXCEPT ![q].at = "removed"]
        /\ astray' = astray \cup {v.id}
        /\ UNCHANGED <<now, keys, drawnIds, wipe>>

\* Del, which may fail.
DeleteKey(q) ==
    LET v == visit[q]
    IN  /\ v.at = "removed"
        /\ keys' \in {keys, [keys EXCEPT ![v.id] = NoKey]}
        /\ visit' = [visit EXCEPT ![q].at = "handler"]
        /\ UNCHANGED <<now, index, drawnIds, wipe, astray>>
-----------------------------------------------------------------------------
(* DestroyForUser.                                                         *)

\* SMembers.
ReadIndex ==
    /\ wipe.at = "idle"
    /\ wipe' = [at |-> "read", ids |-> index.ids]
    /\ UNCHANGED <<now, keys, index, drawnIds, visit, astray>>

\* Del of the sessions that were read.
DeleteKeys ==
    /\ wipe.at = "read"
    /\ keys' = [s \in Id |-> IF s \in wipe.ids THEN NoKey ELSE keys[s]]
    /\ wipe' = [wipe EXCEPT !.at = "keys", !.ids = {}]
    /\ UNCHANGED <<now, index, drawnIds, visit, astray>>

\* Del of the index.
DeleteIndex ==
    /\ wipe.at = "keys"
    /\ index' = NoIndex
    /\ wipe' = NoWipe
    /\ UNCHANGED <<now, keys, drawnIds, visit, astray>>

\* A Del fails, and the caller has the error.
WipeFails ==
    /\ wipe.at # "idle"
    /\ wipe' = NoWipe
    /\ UNCHANGED <<now, keys, index, drawnIds, visit, astray>>

\* Time passes, and Redis drops what has expired.
RedisTime ==
    /\ Advance(RedisEnd)
    /\ \A q \in Visits : visit[q].at = "idle" \/ now - visit[q].since < MaxVisit
    /\ keys' = [s \in Id |-> IF keys[s] = NoKey \/ now' < keys[s].until THEN keys[s] ELSE NoKey]
    /\ index' = IF now' < index.until THEN index ELSE NoIndex
    /\ astray' = {s \in astray : keys'[s] # NoKey}
    /\ UNCHANGED <<drawnIds, visit, wipe>>

RedisNext ==
    \/ \E q \in Visits :
         \/ LoadFresh(q) \/ SaveNone(q) \/ AddToIndex(q) \/ ExpireIndex(q) \/ SaveFails(q)
         \/ RemoveFromIndex(q) \/ DeleteKey(q)
         \/ \E s \in Id : LoadStored(q, s)
         \/ \E h \in {"edit", "login"} : SetKey(q, h)
    \/ ReadIndex \/ DeleteKeys \/ DeleteIndex \/ WipeFails
    \/ RedisTime

RedisSpec == now = 0 /\ RedisInit /\ [][RedisNext]_<<now, redisVars>>
-----------------------------------------------------------------------------
\* "DestroyForUser ends every session belonging to a user", which it finds in the index:
\* every session of the user that can be loaded and that no request carries is listed,
\* whatever other sessions were saved, extended, destroyed or have expired and however
\* the clock ran.  Not covered are sessions whose last save or whose Destroy was cut
\* short, or whose SAdd was undone by a DestroyForUser or by the end of the index.
EverySessionListed ==
    \A s \in Id :
        /\ Alive(s) /\ s \notin astray
        /\ \A q \in Visits : visit[q].at = "idle" \/ visit[q].id # s
        => s \in index.ids
=============================================================================
