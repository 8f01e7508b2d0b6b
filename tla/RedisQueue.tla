----------------------------- MODULE RedisQueue -----------------------------
(***************************************************************************)
(* queue/redis.Driver: two sorted sets, two hashes and a list, and the     *)
(* workers of QueueWorker that share them.                                 *)
(*                                                                         *)
(* Claim is a Lua script and every other call one MULTI/EXEC pipeline, so  *)
(* each is one step, except Retry: read, push, remove.                     *)
(***************************************************************************)
EXTENDS QueueWorker, Sequences

CONSTANT FailedCap      \* the failed list keeps this many entries (1000)

ASSUME CapAssumption == FailedCap \in Nat \ {0}

\* timeout() replaces a zero Timeout by ReservationTimeout.
ASSUME TimeoutAssumption == Timeout \in Nat \ {0}

VARIABLES
    pending,   \* pending[i]: the score of job i in pending, or None
    reserved,  \* reserved[i]: its score in reserved, or None
    records,   \* records[i]: the max_attempts of its entry in jobs, or None
    attempts,  \* attempts[i]: its count in attempts, 0 when there is none
    failed,    \* the failed list, newest first
    requeued,  \* history: jobs an operator put back on the queue
    trimmed,   \* history: jobs whose entry LTRIM dropped
    op         \* op[o]: the failed entry operator o is moving, and how far

storeVars == <<pending, reserved, records, attempts, failed, requeued, trimmed, op>>
mintVars == <<kind, nextId>>
vars == <<now, loop, ctx, hand, slot, kind, nextId, faults, done, tries, overran,
          pending, reserved, records, attempts, failed, requeued, trimmed, op>>

Entry == [id: JobId, max: Nat \ {0}, attempts: Nat]

ASSUME NoMoveAssumption == None \notin [entry: Entry, pushed: BOOLEAN]

Init ==
    /\ WorkerInit
    /\ pending = [i \in JobId |-> None]
    /\ reserved = [i \in JobId |-> None]
    /\ records = [i \in JobId |-> None]
    /\ attempts = [i \in JobId |-> 0]
    /\ failed = <<>>
    /\ requeued = {} /\ trimmed = {}
    /\ op = [o \in Operators |-> None]

FailedIds == {failed[x].id : x \in 1..Len(failed)}
-----------------------------------------------------------------------------
Push(n, max, at) ==
    /\ MintId(n)
    /\ records' = [records EXCEPT ![nextId] = max]
    /\ pending' = [pending EXCEPT ![nextId] = at]

Dispatch(n, delay) ==
    /\ Push(n, MaxAttemptsOf[n], now + delay)
    /\ NoFault
    /\ UNCHANGED <<clock, workerVars, reserved, attempts, failed, requeued, trimmed, op>>
-----------------------------------------------------------------------------
(* claimScript.                                                            *)

InQueue(w, i) == kind[i] # None /\ QueueOf[kind[i]] = Drains[w]

\* Reservations that have lapsed: ZRANGEBYSCORE reserved -inf now.
Stale(w) == {i \in JobId : InQueue(w, i) /\ reserved[i] # None /\ reserved[i] <= now}

\* pending once the script has handed the stale ones back.
Refilled(w) == [i \in JobId |-> IF i \in Stale(w) THEN now ELSE pending[i]]

Due(w) == {i \in JobId : InQueue(w, i) /\ Refilled(w)[i] # None /\ Refilled(w)[i] <= now}

\* The member with the lowest score; equal scores go by member, here by id.
FirstDue(w, i) ==
    /\ i \in Due(w)
    /\ \A j \in Due(w) : \/ Refilled(w)[i] < Refilled(w)[j]
                         \/ Refilled(w)[i] = Refilled(w)[j] /\ i <= j

Unreserved(w) == [i \in JobId |-> IF i \in Stale(w) THEN None ELSE reserved[i]]

\* Faulty variant: the reservation expires at once.
ScriptTake_m1(w, i) ==
    /\ FirstDue(w, i) /\ records[i] # None
    /\ pending' = [Refilled(w) EXCEPT ![i] = None]
    /\ reserved' = [Unreserved(w) EXCEPT ![i] = now]
    /\ attempts' = [attempts EXCEPT ![i] = @ + 1]

\* The script finds a job with a record, moves it and counts the attempt.
ScriptTake(w, i) ==
    /\ FirstDue(w, i) /\ records[i] # None
    /\ pending' = [Refilled(w) EXCEPT ![i] = None]
    /\ reserved' = [Unreserved(w) EXCEPT ![i] = now + Timeout]
    /\ attempts' = [attempts EXCEPT ![i] = @ + 1]

\* The record vanished: the id is dropped from both sets.
ScriptDrop(w, i) ==
    /\ FirstDue(w, i) /\ records[i] = None
    /\ pending' = [Refilled(w) EXCEPT ![i] = None]
    /\ reserved' = [Unreserved(w) EXCEPT ![i] = None]
    /\ UNCHANGED attempts

Polling(w) == loop[w] = "poll" /\ ctx[w] = "live"

Claim(w) ==
    \E i \in JobId :
        /\ Polling(w)
        /\ ScriptTake(w, i)
        /\ Receive(w, [id |-> i, attempts |-> attempts[i] + 1, max |-> records[i], at |-> now])
        /\ NoFault
        /\ UNCHANGED <<clock, mintVars, records, failed, requeued, trimmed, op>>

ClaimDrop(w) ==
    \E i \in JobId :
        /\ Polling(w)
        /\ ScriptDrop(w, i)
        /\ NoFault
        /\ UNCHANGED <<clock, workerVars, mintVars, records, failed, requeued, trimmed, op>>

ClaimNothing(w) ==
    /\ Polling(w)
    /\ Due(w) = {}
    /\ UNCHANGED vars

\* The script ran and its reply was lost.
ClaimLost(w) ==
    \E i \in JobId :
        /\ Polling(w)
        /\ ScriptTake(w, i)
        /\ Fault
        /\ UNCHANGED <<clock, workerVars, mintVars, records, failed, requeued, trimmed, op>>
-----------------------------------------------------------------------------
(* Complete, Release and Fail.                                             *)

\* ZREM reserved, HDEL jobs, HDEL attempts; pending is left alone.
Forget(i) ==
    /\ reserved' = [reserved EXCEPT ![i] = None]
    /\ records' = [records EXCEPT ![i] = None]
    /\ attempts' = [attempts EXCEPT ![i] = 0]

Complete(k) ==
    /\ WantsComplete(k)
    /\ Forget(slot[k].id)
    /\ FreeSlot(k)
    /\ NoFault
    /\ UNCHANGED <<clock, mintVars, pending, failed, requeued, trimmed, op>>

\* Faulty variant: no ZADD pending.
PutBack_m1(r, t) ==
    /\ records' = [records EXCEPT ![r.id] = r.max]
    /\ reserved' = [reserved EXCEPT ![r.id] = None]
    /\ UNCHANGED pending

\* Release writes the record again, whether or not there still was one.
PutBack(r, t) ==
    /\ records' = [records EXCEPT ![r.id] = r.max]
    /\ reserved' = [reserved EXCEPT ![r.id] = None]
    /\ pending' = [pending EXCEPT ![r.id] = t]

Release(k) ==
    /\ WantsRelease(k)
    /\ PutBack(slot[k], now + BackoffOf(kind[slot[k].id], slot[k].attempts))
    /\ FreeSlot(k)
    /\ NoFault
    /\ UNCHANGED <<clock, mintVars, attempts, failed, requeued, trimmed, op>>

ShutdownRelease(w) ==
    /\ HandBack(w)
    /\ \/ PutBack(hand[w], now) /\ NoFault
       \/ UNCHANGED <<records, reserved, pending>> /\ Fault
    /\ UNCHANGED <<clock, mintVars, attempts, failed, requeued, trimmed, op>>

\* LPUSH failed, LTRIM failed 0 999, then as Complete.
Bury(r) ==
    LET longer == <<[id |-> r.id, max |-> r.max, attempts |-> r.attempts]>> \o failed
    IN  /\ failed' = IF Len(longer) > FailedCap THEN SubSeq(longer, 1, FailedCap) ELSE longer
        /\ trimmed' = trimmed \cup
             (IF Len(longer) > FailedCap THEN {longer[Len(longer)].id} ELSE {})
        /\ Forget(r.id)

Fail(k) ==
    /\ WantsFail(k)
    /\ Bury(slot[k])
    /\ FreeSlot(k)
    /\ NoFault
    /\ UNCHANGED <<clock, mintVars, pending, requeued, op>>

OutcomeLost(k) ==
    /\ WantsComplete(k) \/ WantsRelease(k) \/ WantsFail(k)
    /\ FreeSlot(k)
    /\ Fault
    /\ UNCHANGED <<clock, mintVars, storeVars>>
-----------------------------------------------------------------------------
(* Retry: LRANGE and scan, Push, LREM 1.                                   *)

RetryRead(o, x) ==
    /\ op[o] = None
    /\ \A y \in 1..(x - 1) : failed[y].id # failed[x].id
    /\ op' = [op EXCEPT ![o] = [entry |-> failed[x], pushed |-> FALSE]]
    /\ UNCHANGED <<clock, faults, workerVars, mintVars,
                   pending, reserved, records, attempts, failed, requeued, trimmed>>

\* The job keeps its own limit here, unlike in the other drivers.
RetryPush(o) ==
    /\ op[o] # None /\ ~op[o].pushed
    /\ Push(kind[op[o].entry.id], op[o].entry.max, now)
    /\ requeued' = requeued \cup {op[o].entry.id}
    /\ op' = [op EXCEPT ![o].pushed = TRUE]
    /\ UNCHANGED <<clock, faults, workerVars, reserved, attempts, failed, trimmed>>

\* The list without its first entry equal to e.
Without(e) ==
    LET hits == {x \in 1..Len(failed) : failed[x] = e}
        x == CHOOSE y \in hits : \A z \in hits : y <= z
    IN  IF hits = {} THEN failed
        ELSE SubSeq(failed, 1, x - 1) \o SubSeq(failed, x + 1, Len(failed))

\* Faulty variant: the entry is removed whether or not the job was pushed.
RetryRemove_m1(o) ==
    /\ op[o] # None
    /\ failed' = Without(op[o].entry)
    /\ op' = [op EXCEPT ![o] = None]
    /\ UNCHANGED <<clock, faults, workerVars, mintVars,
                   pending, reserved, records, attempts, requeued, trimmed>>

RetryRemove(o) ==
    /\ op[o] # None /\ op[o].pushed
    /\ failed' = Without(op[o].entry)
    /\ op' = [op EXCEPT ![o] = None]
    /\ UNCHANGED <<clock, faults, workerVars, mintVars,
                   pending, reserved, records, attempts, requeued, trimmed>>

RetryAbort(o) ==
    /\ op[o] # None
    /\ op' = [op EXCEPT ![o] = None]
    /\ UNCHANGED <<clock, faults, workerVars, mintVars,
                   pending, reserved, records, attempts, failed, requeued, trimmed>>
-----------------------------------------------------------------------------
Waiting ==
    \E i \in JobId : \/ pending[i] # None /\ pending[i] > now
                     \/ reserved[i] # None /\ reserved[i] > now

\* A reservation lapses as soon as its score is reached, so a punctual claim
\* is over one tick earlier than in the other drivers.
Tick ==
    /\ Advance(Waiting, Timeout - 1)
    /\ UNCHANGED <<faults, workerVars, mintVars, storeVars>>

LoopStep(w) ==
    /\ \/ StartDraining(w) \/ Drained(w) \/ Restart(w) \/ DrainTimeout(w)
       \/ \E k \in Slots : TakeSlot(w, k)
    /\ UNCHANGED <<clock, mintVars, storeVars>>

RunStep(k) ==
    /\ RunOk(k) \/ RunErr(k)
    /\ UNCHANGED <<clock, mintVars, storeVars>>

Interrupt(w) ==
    /\ Cancel(w) \/ Crash(w)
    /\ UNCHANGED <<clock, mintVars, storeVars>>

WorkerStep(w) ==
    \/ LoopStep(w) \/ ClaimNothing(w) \/ Claim(w) \/ ClaimDrop(w) \/ ClaimLost(w)
    \/ ShutdownRelease(w) \/ Interrupt(w)

SlotStep(k) == RunStep(k) \/ Complete(k) \/ Release(k) \/ Fail(k) \/ OutcomeLost(k)

RetryStep(o) ==
    \/ RetryPush(o) \/ RetryRemove(o) \/ RetryAbort(o)
    \/ \E x \in 1..Len(failed) : RetryRead(o, x)

Next ==
    \/ \E n \in Names, d \in 0..MaxDelay : Dispatch(n, d)
    \/ \E w \in Workers : WorkerStep(w)
    \/ \E k \in Slots : SlotStep(k)
    \/ \E o \in Operators : RetryStep(o)
    \/ Tick

Spec == Init /\ [][Next]_vars
-----------------------------------------------------------------------------
(* Properties.                                                             *)

\* The types of the keys and of what a worker or an operator holds.
TypeOK ==
    /\ WorkerTypeOK
    /\ pending \in [JobId -> Nat \cup {None}]
    /\ reserved \in [JobId -> Nat \cup {None}]
    /\ records \in [JobId -> (Nat \ {0}) \cup {None}]
    /\ attempts \in [JobId -> Nat]
    /\ failed \in Seq(Entry) /\ Len(failed) <= FailedCap
    /\ requeued \subseteq JobId /\ trimmed \subseteq JobId
    /\ op \in [Operators -> [entry: Entry, pushed: BOOLEAN] \cup {None}]

\* Every record can be found again: a job whose payload is in the hash is in
\* pending or in reserved, so a later claim reaches it, however the calls of
\* overrunning workers interleave.
NoOrphanRecord ==
    \A i \in JobId : records[i] # None => pending[i] # None \/ reserved[i] # None

\* A dispatched job has its record, or was done, failed or requeued; a failed
\* job is lost only by the trimming of the failed list.
NoJobLost ==
    \A i \in JobId : i < nextId =>
        records[i] # None \/ i \in done \/ i \in FailedIds \/ i \in requeued \/ i \in trimmed

\* The claim script moves an id from one sorted set to the other in one go: while
\* claims are punctual a job is in one of them, never in both, the hash of records
\* has exactly the jobs that are in one, and no two goroutines hold the same job.
OneHome ==
    ~overran =>
        /\ \A i \in JobId : \A x, y \in Holders(i) : x = y
        /\ \A i \in JobId : pending[i] = None \/ reserved[i] = None
        /\ \A i \in JobId : (records[i] = None) <=> (pending[i] = None /\ reserved[i] = None)

\* Driver.Complete, "removes a finished job": once it has, the job does not
\* come back.
CompleteRemoves ==
    [][\A i \in JobId : i < nextId /\ records[i] = None => records'[i] = None]_vars

\* The abstract ledger: the hash of records is the queue, and a failure stays on
\* record although LTRIM drops its entry.
Minted == {i \in JobId : i < nextId}
Stored == {i \in JobId : records[i] # None}
Buried == FailedIds \cup trimmed

Ledger == INSTANCE JobLedger WITH
    Jobs <- JobId,
    minted <- Minted,
    queued <- Stored,
    buried <- Buried

\* A Release by a worker whose claim has outlived its reservation.
LateRelease ==
    /\ overran
    /\ \E i \in Minted : Stored' = Stored \cup {i}
    /\ UNCHANGED <<Minted, done, Buried, requeued>>

\* Every script, pipeline and Retry keeps the promise of JobLedger, whatever
\* crashes, is lost or overruns, with one exception: a Release that comes after
\* the reservation has lapsed may bring a job back that had left.
LedgerButForLateRelease == [][Ledger!Next \/ LateRelease]_(Ledger!vars)
-----------------------------------------------------------------------------
(* What the proofs of RedisQueueProofs need beside the properties.         *)

\* Only ids that were minted are in a key, held or failed, and each was minted
\* for a name.
MintedOnly ==
    /\ \A i \in JobId : i < nextId => kind[i] \in Names
    /\ \A i \in JobId : pending[i] # None \/ reserved[i] # None \/ records[i] # None => i < nextId
    /\ \A w \in Workers : hand[w] # None => hand[w].id < nextId
    /\ \A k \in Slots : slot[k] # None => slot[k].id < nextId
    /\ \A o \in Operators : op[o] # None => op[o].entry.id < nextId
    /\ \A i \in FailedIds : i < nextId

\* A goroutine that is to complete a job has seen Run return nil, and an operator
\* who is to remove an entry has pushed its job.
OutcomesKnown ==
    /\ \A k \in Slots : slot[k] # None /\ slot[k].stage = "ok" => slot[k].id \in done
    /\ \A o \in Operators : op[o] # None /\ op[o].pushed => op[o].entry.id \in requeued

\* What an operator is moving was on the failed list when it was read.
RetryKnown == \A o \in Operators : op[o] # None => op[o].entry.id \in Buried \cup requeued

StoreInv == MintedOnly /\ OutcomesKnown /\ NoOrphanRecord /\ NoJobLost

\* Without overruns a held job is in reserved alone, under the score its only
\* holder gave it, which the clock has not reached.
Reserves(r) ==
    /\ records[r.id] # None /\ pending[r.id] = None /\ reserved[r.id] = r.at + Timeout
    /\ r.at <= now /\ now < r.at + Timeout

HeldIsReserved ==
    /\ \A w \in Workers : loop[w] = "holding" => Reserves(hand[w])
    /\ \A k \in Slots : slot[k] # None => Reserves(slot[k])
=============================================================================
