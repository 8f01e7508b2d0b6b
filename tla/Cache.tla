------------------------------- MODULE Cache -------------------------------
(***************************************************************************)
(* Package cache: Remember, for one key, over a store that several         *)
(* processes share (the database, MongoDB or Redis; with one process, the  *)
(* memory store).                                                          *)
(*                                                                         *)
(* The calls of one process share a flight (singleflight), the processes   *)
(* share the entry.  Reading an expired entry and deleting it are two      *)
(* statements.  The application changes what is cached (truth) and then    *)
(* deletes the entry, while flights are computing.                         *)
(***************************************************************************)
EXTENDS Clock

CONSTANTS
    Procs,      \* processes, each with its own singleflight group
    Calls,      \* calls of Remember, each made once
    ProcOf,     \* ProcOf[c]: the process a call runs in
    TTL,        \* the lifetime Remember is called with; Forever is 0
    MaxCompute, \* bound: how long a flight lasts once compute has read
    CacheEnd,   \* bound: the clock
    MaxVersion, \* bound: versions of what is cached
    Nothing     \* no entry, no flight, no value

Forever == 0
Version == 0..MaxVersion

ASSUME CacheAssumption ==
    /\ ProcOf \in [Calls -> Procs]
    /\ TTL \in Nat /\ MaxCompute \in Nat /\ CacheEnd \in Nat /\ MaxVersion \in Nat

VARIABLES
    truth,      \* the version compute would return now
    entry,      \* the entry in the store, or Nothing
    flight,     \* flight[p]: the flight of process p, or Nothing
    call,       \* call[c]: where a call is and what it has
    replaced,   \* history: replaced[v], when version v stopped being current
    supplied    \* history: processes that called compute since the entry was last lost

cacheVars == <<now, truth, entry, flight, call, replaced, supplied>>

\* A row of the cache table; expires 0 is null.
Entry == [val: Version, expires: Nat]

\* The function singleflight runs for its first caller; asof is when compute read.
Flight == [step: {"recheck", "drop", "compute", "store"},
           val: Version \cup {Nothing}, asof: Nat]

ASSUME NothingAssumption == Nothing \notin Nat /\ Nothing \notin Entry /\ Nothing \notin Flight

Call == [step: {"idle", "drop", "join", "wait", "done"},
         val: Version \cup {Nothing}, began: Nat]

CacheTypeOK ==
    /\ truth \in Version
    /\ entry \in Entry \cup {Nothing}
    /\ flight \in [Procs -> Flight \cup {Nothing}]
    /\ call \in [Calls -> Call]
    /\ replaced \in [Version -> Nat \cup {Nothing}]
    /\ supplied \subseteq Procs

CacheInit ==
    /\ truth = 0
    /\ entry = Nothing
    /\ flight = [p \in Procs |-> Nothing]
    /\ call = [c \in Calls |-> [step |-> "idle", val |-> Nothing, began |-> 0]]
    /\ replaced = [v \in Version |-> Nothing]
    /\ supplied = {}
-----------------------------------------------------------------------------
(* The store.                                                              *)

Expired == entry.expires # 0 /\ now > entry.expires

Live == entry # Nothing /\ ~Expired

\* The entry is deleted, by whomever and whatever it has become.
Lose == entry' = Nothing /\ supplied' = {}

\* Faulty variant: the entry never expires.
Set_m1(v) == entry' = [val |-> v, expires |-> 0]

Set(v) == entry' = [val |-> v, expires |-> IF TTL = Forever THEN 0 ELSE now + TTL]
-----------------------------------------------------------------------------
(* A call of Remember.                                                     *)

Step(c, s) == call' = [call EXCEPT ![c].step = s]

Begin(c, s, v) ==
    /\ call[c].step = "idle"
    /\ call' = [call EXCEPT ![c] = [step |-> s, val |-> v, began |-> now]]
    /\ UNCHANGED <<now, truth, entry, flight, replaced, supplied>>

Hit(c) == Live /\ Begin(c, "done", entry.val)

\* No entry, or the store could not be read, which is as good as a miss.
Miss(c) == Begin(c, "join", Nothing)

\* The entry has expired, or no longer decodes: it is deleted in a later step.
MissDrop(c) == entry # Nothing /\ Begin(c, "drop", Nothing)

Drop(c) ==
    /\ call[c].step = "drop"
    /\ Step(c, "join")
    /\ Lose
    /\ UNCHANGED <<now, truth, flight, replaced>>

\* group.Do: the first caller opens the flight, the others wait for it.
Join(c) ==
    LET p == ProcOf[c]
    IN  /\ call[c].step = "join"
        /\ Step(c, "wait")
        /\ flight' = IF flight[p] # Nothing THEN flight
                     ELSE [flight EXCEPT ![p] = [step |-> "recheck", val |-> Nothing, asof |-> 0]]
        /\ UNCHANGED <<now, truth, entry, replaced, supplied>>
-----------------------------------------------------------------------------
(* The flight of process p.                                                *)

Doing(p, s) == flight[p] # Nothing /\ flight[p].step = s

Goto(p, s) == flight' = [flight EXCEPT ![p].step = s]

\* The flight ends: everyone waiting for it gets v.
Land(p, v) ==
    /\ flight' = [flight EXCEPT ![p] = Nothing]
    /\ call' = [c \in Calls |-> IF ProcOf[c] = p /\ call[c].step = "wait"
                                THEN [call[c] EXCEPT !.step = "done", !.val = v] ELSE call[c]]

\* Faulty variant: the second look is skipped.
RecheckMiss_m1(p) ==
    /\ Doing(p, "recheck")
    /\ Goto(p, "compute")
    /\ UNCHANGED <<now, truth, entry, call, replaced, supplied>>

\* The second look finds nothing.
RecheckMiss(p) ==
    /\ Doing(p, "recheck") /\ entry = Nothing
    /\ Goto(p, "compute")
    /\ UNCHANGED <<now, truth, entry, call, replaced, supplied>>

\* The second look fails, which is as good as a loss of the entry.
RecheckError(p) ==
    /\ Doing(p, "recheck")
    /\ Goto(p, "compute")
    /\ supplied' = {}
    /\ UNCHANGED <<now, truth, entry, call, replaced>>

RecheckHit(p) ==
    /\ Doing(p, "recheck") /\ Live
    /\ Land(p, entry.val)
    /\ UNCHANGED <<now, truth, entry, replaced, supplied>>

RecheckMissDrop(p) ==
    /\ Doing(p, "recheck") /\ entry # Nothing
    /\ Goto(p, "drop")
    /\ UNCHANGED <<now, truth, entry, call, replaced, supplied>>

FlightDrop(p) ==
    /\ Doing(p, "drop")
    /\ Goto(p, "compute")
    /\ Lose
    /\ UNCHANGED <<now, truth, call, replaced>>

\* compute reads what is current; it ends in a later step.
Compute(p) ==
    /\ Doing(p, "compute")
    /\ flight' = [flight EXCEPT ![p] = [step |-> "store", val |-> truth, asof |-> now]]
    /\ supplied' = supplied \cup {p}
    /\ UNCHANGED <<now, truth, entry, call, replaced>>

\* compute returns an error, also because the first caller's request was
\* cancelled: everyone who waits gets it.
ComputeError(p) ==
    /\ Doing(p, "store")
    /\ Land(p, Nothing)
    /\ supplied' = {}
    /\ UNCHANGED <<now, truth, entry, replaced>>

Store(p) ==
    /\ Doing(p, "store")
    /\ Set(flight[p].val)
    /\ Land(p, flight[p].val)
    /\ UNCHANGED <<now, truth, replaced, supplied>>

\* The write fails: the callers have their value all the same.
StoreError(p) ==
    /\ Doing(p, "store")
    /\ Land(p, flight[p].val)
    /\ supplied' = {}
    /\ UNCHANGED <<now, truth, entry, replaced>>
-----------------------------------------------------------------------------
\* The application changes what is cached.
Update ==
    /\ truth < MaxVersion
    /\ truth' = truth + 1
    /\ replaced' = [replaced EXCEPT ![truth] = now]
    /\ UNCHANGED <<now, entry, flight, call, supplied>>

\* Delete, Clear, Prune, an eviction from the memory store.
Evict ==
    /\ entry # Nothing
    /\ Lose
    /\ UNCHANGED <<now, truth, flight, call, replaced>>

CacheTick ==
    /\ Advance(CacheEnd)
    /\ \A p \in Procs : Doing(p, "store") => now < flight[p].asof + MaxCompute
    /\ UNCHANGED <<truth, entry, flight, call, replaced, supplied>>

CacheNext ==
    \/ \E c \in Calls : Hit(c) \/ Miss(c) \/ MissDrop(c) \/ Drop(c) \/ Join(c)
    \/ \E p \in Procs :
         \/ RecheckMiss(p) \/ RecheckError(p) \/ RecheckHit(p) \/ RecheckMissDrop(p) \/ FlightDrop(p)
         \/ Compute(p) \/ ComputeError(p) \/ Store(p) \/ StoreError(p)
    \/ Update \/ Evict \/ CacheTick

CacheSpec == now = 0 /\ CacheInit /\ [][CacheNext]_cacheVars
-----------------------------------------------------------------------------
(* Properties.                                                             *)

\* Remember, "Concurrent calls for the same key are collapsed into one
\* computation", with its second look inside the group: as long as the entry
\* is not lost, a process computes it once, also for a call that missed before
\* the value was stored and reaches the group after.
ComputedOnce ==
    [][\A p \in Procs : Doing(p, "compute") /\ Doing(p, "store")' => p \notin supplied]_cacheVars

\* A value was current no longer ago than the lifetime and one computation
\* before the call that gets it began, although an entry that was deleted after
\* a change may be written back by a computation that started before it.
StaleForOneLifetime ==
    TTL # Forever => \A c \in Calls :
        call[c].step = "done" /\ call[c].val # Nothing /\ replaced[call[c].val] # Nothing =>
            call[c].began <= replaced[call[c].val] + TTL + MaxCompute
=============================================================================
