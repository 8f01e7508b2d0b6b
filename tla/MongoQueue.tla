----------------------------- MODULE MongoQueue -----------------------------
(***************************************************************************)
(* queue/mongo.Driver: the collections jobs and failed_jobs and the        *)
(* workers of QueueWorker that share them.                                 *)
(*                                                                         *)
(* Claim is one findAndModify and therefore one step.  Fail and Retry are  *)
(* two and three writes without a transaction, in the order the driver     *)
(* chose: anything may happen, or the process may die, in between.  Push   *)
(* draws its id and inserts in one step here, since nothing else reads the *)
(* counter and no order between ids is promised.                           *)
(***************************************************************************)
EXTENDS QueueWorker, FiniteSets

VARIABLES
    jobs,      \* jobs[i]: the document of job i, or None
    failed,    \* the ids that have a document in failed_jobs
    requeued,  \* history: jobs an operator put back on the queue
    op         \* op[o]: the failed document operator o is moving, and how far

storeVars == <<jobs, failed, requeued, op>>
mintVars == <<kind, nextId>>
vars == <<now, loop, ctx, hand, slot, kind, nextId, faults, done, tries, overran,
          jobs, failed, requeued, op>>

\* jobDoc, as far as anything depends on it; reserved is None for null.
Doc == [attempts: Nat, max: Nat \ {0}, available: Nat, reserved: Nat \cup {None}]

ASSUME NoDocAssumption == None \notin Doc /\ None \notin JobId
ASSUME NoMoveAssumption == None \notin [job: JobId, pushed: BOOLEAN]
ASSUME WorkersAssumption == IsFiniteSet(Workers)

Init ==
    /\ WorkerInit
    /\ jobs = [i \in JobId |-> None]
    /\ failed = {} /\ requeued = {}
    /\ op = [o \in Operators |-> None]

Minted == {i \in JobId : i < nextId}
Stored == {i \in JobId : jobs[i] # None}
-----------------------------------------------------------------------------
Push(n, max, at) ==
    /\ MintId(n)
    /\ jobs' = [jobs EXCEPT ![nextId] =
                  [attempts |-> 0, max |-> max, available |-> at, reserved |-> None]]

Dispatch(n, delay) ==
    /\ Push(n, MaxAttemptsOf[n], now + delay)
    /\ NoFault
    /\ UNCHANGED <<clock, workerVars, failed, requeued, op>>
-----------------------------------------------------------------------------
(* Claim: filter, sort and update in one findAndModify.                    *)

Claimable(w, i) ==
    /\ jobs[i] # None
    /\ QueueOf[kind[i]] = Drains[w]
    /\ jobs[i].available <= now
    /\ jobs[i].reserved # None => jobs[i].reserved + Timeout < now

FirstClaimable(w, i) ==
    /\ Claimable(w, i)
    /\ \A j \in JobId : Claimable(w, j) =>
          \/ jobs[i].available < jobs[j].available
          \/ jobs[i].available = jobs[j].available /\ i <= j

\* Faulty variant: the attempt is not counted.
ReserveInc_m1(i) == jobs' = [jobs EXCEPT ![i].reserved = now]

\* $set reserved_at, $inc attempts
ReserveInc(i) ==
    jobs' = [jobs EXCEPT ![i].reserved = now, ![i].attempts = @ + 1]

Claim(w) ==
    \E i \in JobId :
        /\ loop[w] = "poll" /\ ctx[w] = "live"
        /\ FirstClaimable(w, i)
        /\ ReserveInc(i)
        /\ Receive(w, [id |-> i, attempts |-> jobs[i].attempts + 1,
                       max |-> jobs[i].max, at |-> now])
        /\ NoFault
        /\ UNCHANGED <<clock, mintVars, failed, requeued, op>>

\* ErrNoDocuments: Claim returns nil and the worker polls again.
ClaimNothing(w) ==
    /\ loop[w] = "poll" /\ ctx[w] = "live"
    /\ \A i \in JobId : ~Claimable(w, i)
    /\ UNCHANGED vars

\* The reply is lost after the update was applied: the worker holds nothing
\* and the document is reserved.
ClaimLost(w) ==
    \E i \in JobId :
        /\ loop[w] = "poll" /\ ctx[w] = "live"
        /\ FirstClaimable(w, i)
        /\ ReserveInc(i)
        /\ Fault
        /\ UNCHANGED <<clock, workerVars, mintVars, failed, requeued, op>>
-----------------------------------------------------------------------------
Complete(k) ==
    /\ WantsComplete(k)
    /\ jobs' = [jobs EXCEPT ![slot[k].id] = None]
    /\ FreeSlot(k)
    /\ NoFault
    /\ UNCHANGED <<clock, mintVars, failed, requeued, op>>

\* UpdateOne by _id alone: a no-op once the document is gone.
DocRelease(i, t) ==
    jobs' = IF jobs[i] = None THEN jobs
            ELSE [jobs EXCEPT ![i].reserved = None, ![i].available = t]

Release(k) ==
    /\ WantsRelease(k)
    /\ DocRelease(slot[k].id, now + BackoffOf(kind[slot[k].id], slot[k].attempts))
    /\ FreeSlot(k)
    /\ NoFault
    /\ UNCHANGED <<clock, mintVars, failed, requeued, op>>

ShutdownRelease(w) ==
    /\ HandBack(w)
    /\ \/ DocRelease(hand[w].id, now) /\ NoFault
       \/ UNCHANGED jobs /\ Fault
    /\ UNCHANGED <<clock, mintVars, failed, requeued, op>>

\* Faulty variant: the delete comes first.
FailRecord_m1(k) ==
    /\ WantsFail(k)
    /\ jobs' = [jobs EXCEPT ![slot[k].id] = None]
    /\ slot' = [slot EXCEPT ![k].stage = "buried"]
    /\ NoFault
    /\ UNCHANGED <<clock, mintVars, loop, ctx, hand, done, tries, failed, requeued, op>>

\* Fail, first write: the failure is recorded (an upsert by the job's id).
FailRecord(k) ==
    /\ WantsFail(k)
    /\ failed' = failed \cup {slot[k].id}
    /\ slot' = [slot EXCEPT ![k].stage = "buried"]
    /\ NoFault
    /\ UNCHANGED <<clock, mintVars, loop, ctx, hand, done, tries, jobs, requeued, op>>

\* Faulty variant: the second write is forgotten.
FailDelete_m1(k) ==
    /\ slot[k] # None /\ slot[k].stage = "buried"
    /\ FreeSlot(k)
    /\ NoFault
    /\ UNCHANGED <<clock, mintVars, jobs, failed, requeued, op>>

\* Fail, second write: the job is deleted.
FailDelete(k) ==
    /\ slot[k] # None /\ slot[k].stage = "buried"
    /\ jobs' = [jobs EXCEPT ![slot[k].id] = None]
    /\ FreeSlot(k)
    /\ NoFault
    /\ UNCHANGED <<clock, mintVars, failed, requeued, op>>

\* A write fails: the error is logged and the goroutine ends.
OutcomeLost(k) ==
    /\ slot[k] # None
    /\ \/ WantsComplete(k) \/ WantsRelease(k) \/ WantsFail(k)
       \/ slot[k].stage = "buried"
    /\ FreeSlot(k)
    /\ Fault
    /\ UNCHANGED <<clock, mintVars, storeVars>>
-----------------------------------------------------------------------------
(* Retry: find, push, delete; the operator may be interrupted after each.  *)

RetryRead(o, i) ==
    /\ op[o] = None /\ i \in failed
    /\ op' = [op EXCEPT ![o] = [job |-> i, pushed |-> FALSE]]
    /\ UNCHANGED <<clock, faults, workerVars, mintVars, jobs, failed, requeued>>

RetryPush(o) ==
    /\ op[o] # None /\ ~op[o].pushed
    /\ Push(kind[op[o].job], DefaultMaxAttempts, now)
    /\ requeued' = requeued \cup {op[o].job}
    /\ op' = [op EXCEPT ![o].pushed = TRUE]
    /\ UNCHANGED <<clock, faults, workerVars, failed>>

RetryClear(o) ==
    /\ op[o] # None /\ op[o].pushed
    /\ failed' = failed \ {op[o].job}
    /\ op' = [op EXCEPT ![o] = None]
    /\ UNCHANGED <<clock, faults, workerVars, mintVars, jobs, requeued>>

RetryAbort(o) ==
    /\ op[o] # None
    /\ op' = [op EXCEPT ![o] = None]
    /\ UNCHANGED <<clock, faults, workerVars, mintVars, jobs, failed, requeued>>
-----------------------------------------------------------------------------
Waiting ==
    \E i \in JobId : jobs[i] # None /\
        \/ jobs[i].available > now
        \/ jobs[i].reserved # None /\ jobs[i].reserved + Timeout >= now

Tick ==
    /\ Advance(Waiting, Timeout)
    /\ UNCHANGED <<faults, workerVars, mintVars, storeVars>>

LoopStep(w) ==
    /\ \/ StartDraining(w) \/ Drained(w) \/ Restart(w) \/ DrainTimeout(w)
       \/ \E k \in Slots : TakeSlot(w, k)
    /\ UNCHANGED <<clock, mintVars, storeVars>>

RunStep(k) ==
    /\ RunOk(k) \/ RunErr(k)
    /\ UNCHANGED <<clock, mintVars, storeVars>>

Interrupt(w) ==
    /\ Cancel(w) \/ Crash(w)
    /\ UNCHANGED <<clock, mintVars, storeVars>>

WorkerStep(w) ==
    \/ LoopStep(w) \/ ClaimNothing(w) \/ Claim(w) \/ ClaimLost(w)
    \/ ShutdownRelease(w) \/ Interrupt(w)

SlotStep(k) ==
    \/ RunStep(k) \/ Complete(k) \/ Release(k)
    \/ FailRecord(k) \/ FailDelete(k) \/ OutcomeLost(k)

RetryStep(o) ==
    \/ RetryPush(o) \/ RetryClear(o) \/ RetryAbort(o)
    \/ \E i \in JobId : RetryRead(o, i)

Next ==
    \/ \E n \in Names, d \in 0..MaxDelay : Dispatch(n, d)
    \/ \E w \in Workers : WorkerStep(w)
    \/ \E k \in Slots : SlotStep(k)
    \/ \E o \in Operators : RetryStep(o)
    \/ Tick

Spec == Init /\ [][Next]_vars
-----------------------------------------------------------------------------
(* Properties.                                                             *)

\* The types of the collections and of what a worker or an operator holds.
TypeOK ==
    /\ WorkerTypeOK
    /\ jobs \in [JobId -> Doc \cup {None}]
    /\ failed \subseteq JobId
    /\ requeued \subseteq JobId
    /\ op \in [Operators -> [job: JobId, pushed: BOOLEAN] \cup {None}]

Ledger == INSTANCE JobLedger WITH
    Jobs <- JobId, minted <- Minted, queued <- Stored, buried <- failed

\* The order of the writes in Fail and in Retry: although neither is a
\* transaction and workers and operators die between the writes, no job is
\* "gone from both places" and none that left comes back.
RefinesLedger == Ledger!Spec

\* Every Run of a job was paid for by an attempt, whatever overruns, crashes
\* or is released late: the count that bounds the retries never falls behind.
TriesCounted == \A i \in JobId : jobs[i] # None => tries[i] <= jobs[i].attempts

\* Claim, "There is no window between the read and the write": every claim is
\* counted, and while claims are punctual no two goroutines hold the same job.
ExclusiveClaim ==
    /\ TriesCounted
    /\ ~overran => \A i \in JobId : \A x, y \in Holders(i) : x = y

\* A job is on record as failed and still stored only between the two writes
\* of a Fail, or after one of them was cut short by a fault.
PendingAndFailedOnlyAfterFault ==
    \A i \in failed : jobs[i] # None =>
        faults > 0 \/ \E k \in Slots : slot[k] # None /\ slot[k].id = i /\ slot[k].stage = "buried"
-----------------------------------------------------------------------------
(* What the proofs of MongoQueueProofs need beside the properties.         *)

\* Only ids that were minted are stored, held, failed or requeued, and each
\* was minted for a name.
MintedOnly ==
    /\ \A i \in JobId : i < nextId => kind[i] \in Names
    /\ \A o \in Operators : op[o] # None => op[o].job < nextId
    /\ \A i \in JobId : jobs[i] # None => i < nextId
    /\ \A w \in Workers : hand[w] # None => hand[w].id < nextId
    /\ \A k \in Slots : slot[k] # None => slot[k].id < nextId
    /\ \A i \in failed \cup requeued \cup done : i < nextId

\* A goroutine that is to delete the document has seen Run return nil, or has
\* written the failure, which an operator may have cleared since.
DeletesSettled ==
    \A k \in Slots : slot[k] # None =>
        /\ slot[k].stage = "ok" => slot[k].id \in done
        /\ slot[k].stage = "buried" => slot[k].id \in failed \cup requeued

\* What an operator is about to requeue is on record, or was, and the record
\* goes only after the job was pushed.
RetryKnown ==
    \A o \in Operators : op[o] # None =>
        /\ op[o].job \in failed \cup requeued
        /\ op[o].pushed => op[o].job \in requeued

LedgerInv == MintedOnly /\ DeletesSettled /\ RetryKnown

\* A worker told to stop was told so by a fault.
StopIsFault ==
    /\ \A w \in Workers : ctx[w] = "cancelled" => faults > 0
    /\ \A w \in Workers : loop[w] = "draining" => faults > 0

\* The claims of job i that wait for a token, each of which has paid its attempt.
ClaimsOf(i) == {w \in Workers : loop[w] = "holding" /\ hand[w].id = i}

ClaimsPaid ==
    \A i \in JobId : jobs[i] # None => tries[i] + Cardinality(ClaimsOf(i)) <= jobs[i].attempts

\* Without overruns the document of a held job carries the reservation of its
\* only holder, and the clock is inside it.
Reserves(r) ==
    /\ jobs[r.id] # None /\ jobs[r.id].reserved = r.at
    /\ r.at <= now /\ now <= r.at + Timeout

HeldIsReserved ==
    /\ \A w \in Workers : loop[w] = "holding" => Reserves(hand[w])
    /\ \A k \in Slots : slot[k] # None => Reserves(slot[k])
=============================================================================
