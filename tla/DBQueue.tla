------------------------------ MODULE DBQueue ------------------------------
(***************************************************************************)
(* queue.DBDriver: the tables jobs and failed_jobs, the workers of         *)
(* QueueWorker that share them, and the operators who run queue:retry.     *)
(*                                                                         *)
(* A statement is one step and a transaction takes effect when it commits  *)
(* (READ COMMITTED): Claim and Retry read in one step and write in a later *)
(* one, and whatever commits in between is what the write then meets.      *)
(* SQLite, which refuses the write when the snapshot is out of date, takes *)
(* a subset of these steps.                                                *)
(***************************************************************************)
EXTENDS QueueWorker

CONSTANT MaxFails       \* bound: rows ever written to failed_jobs

FailId == 1..MaxFails

ASSUME FailAssumption == MaxFails \in Nat

VARIABLES
    jobs,      \* jobs[i]: the row of job i in jobs, or None
    failed,    \* failed[f]: the job whose failure row f of failed_jobs is
    nextFail,  \* the next id of a failed row
    requeued,  \* history: jobs an operator put back on the queue
    op         \* op[o]: the failed row operator o has read and not yet moved

storeVars == <<jobs, failed, nextFail, requeued, op>>
mintVars == <<kind, nextId>>
vars == <<now, loop, ctx, hand, slot, kind, nextId, faults, done, tries, overran,
          jobs, failed, nextFail, requeued, op>>

\* The columns of Record that anything depends on; reserved is None for NULL.
Row == [attempts: Nat, max: Nat \ {0}, available: Nat, reserved: Nat \cup {None}]

ASSUME NoRowAssumption == None \notin Row /\ None \notin JobId /\ None \notin FailId

Init ==
    /\ WorkerInit
    /\ jobs = [i \in JobId |-> None]
    /\ failed = [f \in FailId |-> None]
    /\ nextFail = 1
    /\ requeued = {}
    /\ op = [o \in Operators |-> None]

\* The ids handed out, the jobs with a row, the jobs on record as failed.
Minted == {i \in JobId : i < nextId}
Stored == {i \in JobId : jobs[i] # None}
Buried == {failed[f] : f \in FailId} \ {None}
-----------------------------------------------------------------------------
(* Push, from DispatchIn.                                                  *)

Push(n, max, at) ==
    /\ MintId(n)
    /\ jobs' = [jobs EXCEPT ![nextId] =
                  [attempts |-> 0, max |-> max, available |-> at, reserved |-> None]]

Dispatch(n, delay) ==
    /\ Push(n, MaxAttemptsOf[n], now + delay)
    /\ NoFault
    /\ UNCHANGED <<clock, workerVars, failed, nextFail, requeued, op>>
-----------------------------------------------------------------------------
(* Claim.                                                                  *)

\* Faulty variants: the reservation is not looked at; one never lapses.
NotReserved_m1(r, t) == TRUE

NotReserved_m2(r, t) == r.reserved = None

\* reserved_at IS NULL OR reserved_at < staleBefore
NotReserved(r, t) == r.reserved # None => r.reserved + Timeout < t

Claimable(w, i, t) ==
    /\ jobs[i] # None
    /\ QueueOf[kind[i]] = Drains[w]
    /\ jobs[i].available <= t
    /\ NotReserved(jobs[i], t)

\* ORDER BY available_at, id LIMIT 1
FirstClaimable(w, i, t) ==
    /\ Claimable(w, i, t)
    /\ \A j \in JobId : Claimable(w, j, t) =>
          \/ jobs[i].available < jobs[j].available
          \/ jobs[i].available = jobs[j].available /\ i <= j

\* The select finds nothing: Claim returns nil, the worker sleeps and polls
\* again.
ClaimNothing(w) ==
    /\ loop[w] = "poll" /\ ctx[w] = "live"
    /\ \A i \in JobId : ~Claimable(w, i, now)
    /\ UNCHANGED vars

\* The transaction reads the clock and selects the row.
ClaimSelect(w) ==
    \E i \in JobId :
        /\ FirstClaimable(w, i, now)
        /\ EnterClaim(w, [id |-> i, attempts |-> jobs[i].attempts,
                          max |-> jobs[i].max, at |-> now])
        /\ UNCHANGED <<clock, mintVars, storeVars>>

\* Faulty variant: the UPDATE is not guarded.
StillMine_m1(r) == jobs[r.id] # None

\* The row the guarded UPDATE matches: the id and the reservation are checked
\* again, available_at and attempts are not.
StillMine(r) == jobs[r.id] # None /\ NotReserved(jobs[r.id], r.at)

Reserve(r) ==
    jobs' = [jobs EXCEPT ![r.id].reserved = r.at, ![r.id].attempts = r.attempts + 1]

\* The UPDATE matched the row and the transaction committed.
ClaimUpdate(w) ==
    /\ loop[w] = "claiming" /\ StillMine(hand[w])
    /\ Reserve(hand[w])
    /\ Receive(w, [hand[w] EXCEPT !.attempts = @ + 1])
    /\ NoFault
    /\ UNCHANGED <<clock, mintVars, failed, nextFail, requeued, op>>

\* RowsAffected == 0: this worker takes nothing.
ClaimMiss(w) ==
    /\ loop[w] = "claiming" /\ ~StillMine(hand[w])
    /\ ReceiveNothing(w)
    /\ NoFault
    /\ UNCHANGED <<clock, mintVars, storeVars>>

\* The transaction fails (free of charge once the context is cancelled).  A
\* commit whose answer is lost has still happened.
ClaimError(w) ==
    /\ loop[w] = "claiming"
    /\ ReceiveNothing(w)
    /\ IF ctx[w] = "cancelled" THEN NoFault ELSE Fault
    /\ \/ UNCHANGED jobs
       \/ StillMine(hand[w]) /\ Reserve(hand[w])
    /\ UNCHANGED <<clock, mintVars, failed, nextFail, requeued, op>>
-----------------------------------------------------------------------------
(* Complete, Release and Fail.                                             *)

\* Faulty variant: the row stays.
Complete_m1(k) ==
    /\ WantsComplete(k)
    /\ FreeSlot(k)
    /\ NoFault
    /\ UNCHANGED <<clock, mintVars, jobs, failed, nextFail, requeued, op>>

Complete(k) ==
    /\ WantsComplete(k)
    /\ jobs' = [jobs EXCEPT ![slot[k].id] = None]
    /\ FreeSlot(k)
    /\ NoFault
    /\ UNCHANGED <<clock, mintVars, failed, nextFail, requeued, op>>

\* Faulty variant: an upsert, which writes the row whether or not it is there.
RowRelease_m1(i, t) ==
    jobs' = [jobs EXCEPT ![i] =
               [attempts |-> 1, max |-> DefaultMaxAttempts, available |-> t, reserved |-> None]]

\* Release: an UPDATE by id alone, so it matches whoever holds the row now,
\* and nothing once the row is gone.
RowRelease(i, t) ==
    jobs' = IF jobs[i] = None THEN jobs
            ELSE [jobs EXCEPT ![i].reserved = None, ![i].available = t]

Release(k) ==
    /\ WantsRelease(k)
    /\ RowRelease(slot[k].id,
                  now + BackoffOf(kind[slot[k].id], slot[k].attempts))
    /\ FreeSlot(k)
    /\ NoFault
    /\ UNCHANGED <<clock, mintVars, failed, nextFail, requeued, op>>

\* The hand-back of Worker.Run ignores the error of Release.
ShutdownRelease(w) ==
    /\ HandBack(w)
    /\ \/ RowRelease(hand[w].id, now) /\ NoFault
       \/ UNCHANGED jobs /\ Fault
    /\ UNCHANGED <<clock, mintVars, failed, nextFail, requeued, op>>

\* Faulty variant: the job's row stays.
Bury_m1(i) ==
    /\ nextFail <= MaxFails
    /\ failed' = [failed EXCEPT ![nextFail] = i]
    /\ nextFail' = nextFail + 1
    /\ UNCHANGED jobs

\* One transaction: the failed row appears and the job's row goes, whether or
\* not the job still had one.
Bury(i) ==
    /\ nextFail <= MaxFails
    /\ failed' = [failed EXCEPT ![nextFail] = i]
    /\ nextFail' = nextFail + 1
    /\ jobs' = [jobs EXCEPT ![i] = None]

Fail(k) ==
    /\ WantsFail(k)
    /\ Bury(slot[k].id)
    /\ FreeSlot(k)
    /\ NoFault
    /\ UNCHANGED <<clock, mintVars, requeued, op>>

\* Complete, Release or Fail returned an error: it is logged, the goroutine
\* ends and the row keeps its reservation.
OutcomeLost(k) ==
    /\ WantsComplete(k) \/ WantsRelease(k) \/ WantsFail(k)
    /\ FreeSlot(k)
    /\ Fault
    /\ UNCHANGED <<clock, mintVars, storeVars>>
-----------------------------------------------------------------------------
(* Retry: one transaction, read then write.                                *)

RetryRead(o, f) ==
    /\ op[o] = None /\ failed[f] # None
    /\ op' = [op EXCEPT ![o] = [row |-> f, job |-> failed[f]]]
    /\ UNCHANGED <<clock, faults, workerVars, mintVars, jobs, failed, nextFail, requeued>>

\* The insert and the delete by id; that the row is still there is not checked.
RetryCommit(o) ==
    /\ op[o] # None
    /\ Push(kind[op[o].job], DefaultMaxAttempts, now)
    /\ failed' = [failed EXCEPT ![op[o].row] = None]
    /\ requeued' = requeued \cup {op[o].job}
    /\ op' = [op EXCEPT ![o] = None]
    /\ UNCHANGED <<clock, faults, workerVars, nextFail>>

RetryAbort(o) ==
    /\ op[o] # None
    /\ op' = [op EXCEPT ![o] = None]
    /\ UNCHANGED <<clock, faults, workerVars, mintVars, jobs, failed, nextFail, requeued>>
-----------------------------------------------------------------------------
\* Does anyone wait for the clock: a row not yet due or still reserved?
Waiting ==
    \E i \in JobId : jobs[i] # None /\
        (jobs[i].available > now \/ ~NotReserved(jobs[i], now))

Tick ==
    /\ Advance(Waiting, Timeout)
    /\ UNCHANGED <<faults, workerVars, mintVars, storeVars>>

LoopStep(w) ==
    /\ \/ StartDraining(w) \/ Drained(w) \/ Restart(w) \/ DrainTimeout(w)
       \/ \E k \in Slots : TakeSlot(w, k)
    /\ UNCHANGED <<clock, mintVars, storeVars>>

RunStep(k) ==
    /\ RunOk(k) \/ RunErr(k)
    /\ UNCHANGED <<clock, mintVars, storeVars>>

Interrupt(w) ==
    /\ Cancel(w) \/ Crash(w)
    /\ UNCHANGED <<clock, mintVars, storeVars>>

WorkerStep(w) ==
    \/ LoopStep(w)
    \/ ClaimNothing(w) \/ ClaimSelect(w)
    \/ ClaimUpdate(w) \/ ClaimMiss(w) \/ ClaimError(w)
    \/ ShutdownRelease(w)
    \/ Interrupt(w)

SlotStep(k) == RunStep(k) \/ Complete(k) \/ Release(k) \/ Fail(k) \/ OutcomeLost(k)

RetryStep(o) == RetryCommit(o) \/ RetryAbort(o) \/ \E f \in FailId : RetryRead(o, f)

Next ==
    \/ \E n \in Names, d \in 0..MaxDelay : Dispatch(n, d)
    \/ \E w \in Workers : WorkerStep(w)
    \/ \E k \in Slots : SlotStep(k)
    \/ \E o \in Operators : RetryStep(o)
    \/ Tick

Spec == Init /\ [][Next]_vars

\* What keeps going by itself: the goroutines of a running worker, the process
\* manager that restarts a stopped one, and the clock.  Nothing makes anyone
\* dispatch or retry a job, and nothing makes a fault happen.
LoopFairness ==
    \A w \in Workers :
        WF_vars(LoopStep(w) \/ ClaimSelect(w) \/ ClaimUpdate(w) \/ ClaimMiss(w)
                \/ ShutdownRelease(w))

\* The loops go on, but a job may hang for ever, and with it the token.
FairSpec == Spec /\ LoopFairness

\* The jobs return and time passes.
JobsReturn == (\A k \in Slots : WF_vars(SlotStep(k))) /\ WF_vars(Tick)

-----------------------------------------------------------------------------
(* Properties.                                                             *)

\* The types of the tables and of what a worker or an operator holds.
TypeOK ==
    /\ WorkerTypeOK
    /\ jobs \in [JobId -> Row \cup {None}]
    /\ failed \in [FailId -> JobId \cup {None}]
    /\ nextFail \in Nat \ {0}
    /\ requeued \subseteq JobId
    /\ op \in [Operators -> [row: FailId, job: JobId] \cup {None}]

\* "Jobs survive a restart": whatever crashes, shuts down or overruns, a job
\* that was dispatched is still stored, or its Run returned nil, or it is in
\* failed_jobs, or an operator took it from there back onto the queue.
NoJobLost ==
    \A i \in JobId : i < nextId =>
        jobs[i] # None \/ i \in done \/ i \in Buried \/ i \in requeued

\* The abstract ledger this driver implements: the rows are the queue, and
\* every transaction is one of the ledger's steps.
Ledger == INSTANCE JobLedger WITH
    Jobs <- JobId,
    minted <- Minted,
    queued <- Stored,
    buried <- Buried

\* DBDriver keeps the promise of JobLedger; with it, a job that left the table
\* is never brought back by a late Release, Complete or Fail.
RefinesLedger == Ledger!Spec

\* The comment of Fail, "a job can never be both pending and failed", also
\* when stale holders of the job complete, release and fail it after others.
NeverPendingAndFailed == \A i \in Buried \cup requeued : jobs[i] = None

\* Driver.Claim, "exactly one may receive any given job": while claims are
\* dealt with inside the reservation timeout, no two goroutines, of the same
\* worker or of two, hold the same job.
ExclusiveClaim == ~overran => \A i \in JobId : \A x, y \in Holders(i) : x = y

\* While claims are punctual, a job that was moved to failed_jobs is not
\* running anywhere and was moved there once.
BuriedIsOver ==
    ~overran =>
        /\ \A i \in Buried \cup requeued : Holders(i) = {}
        /\ \A f, g \in FailId : failed[f] # None /\ failed[f] = failed[g] => f = g

\* While claims are punctual and nothing fails, a job whose Run returned nil is
\* never run again: reruns come from faults, never from the interleaving.
RerunOnlyAfterFault ==
    [][\A i \in JobId : i \in done /\ tries'[i] > tries[i] => faults > 0 \/ overran]_vars

\* If no job hangs, every stored job leaves the table, as done or as failed,
\* although workers crash, shut down and lose outcomes (finitely often).
EventuallySettled == JobsReturn => \A i \in JobId : jobs[i] # None ~> jobs[i] = None

\* ShutdownTimeout, "bounds how long Run waits for in-flight jobs": a worker
\* told to stop stops, also when every token is held by a job that hangs and
\* its loop is waiting for one.
ShutdownCompletes ==
    \A w \in Workers : ctx[w] = "cancelled" ~> loop[w] = "stopped"

\* The comment in Claim: "if another worker reserved the row between the
\* select and here, no rows are affected".  Then every claim adds one to the
\* attempts the row has.
EveryClaimCounts ==
    [][\A w \in Workers : loop[w] = "claiming" /\ loop'[w] = "holding" =>
          jobs'[hand[w].id].attempts = jobs[hand[w].id].attempts + 1]_vars

-----------------------------------------------------------------------------
(* What the proofs of DBQueueProofs need beside the properties.            *)

\* Only ids that were minted are stored, held, failed or requeued, and each
\* was minted for a name.
MintedOnly ==
    /\ \A i \in JobId : i < nextId => kind[i] \in Names
    /\ \A o \in Operators : op[o] # None => op[o].job < nextId
    /\ \A i \in JobId : jobs[i] # None => i < nextId
    /\ \A w \in Workers : hand[w] # None => hand[w].id < nextId
    /\ \A k \in Slots : slot[k] # None => slot[k].id < nextId
    /\ \A i \in Buried \cup requeued \cup done : i < nextId
    /\ \A f \in FailId : f >= nextFail => failed[f] = None

\* A goroutine about to call Complete has seen Run return nil.
OkIsDone == \A k \in Slots : slot[k] # None /\ slot[k].stage = "ok" => slot[k].id \in done

\* What an operator is about to requeue is on record, or was.
RetryKnown ==
    \A o \in Operators : op[o] # None =>
        /\ op[o].job \in Buried \cup requeued
        /\ op[o].row < nextFail
        /\ failed[op[o].row] \in {None, op[o].job}

LedgerInv == MintedOnly /\ OkIsDone /\ RetryKnown /\ NoJobLost /\ NeverPendingAndFailed

\* Without overruns the row of a held job carries the reservation of its only
\* holder, and the clock is inside it.
Reserves(r) ==
    /\ jobs[r.id] # None /\ jobs[r.id].reserved = r.at
    /\ r.at <= now /\ now <= r.at + Timeout

HeldIsReserved ==
    /\ \A w \in Workers : loop[w] = "claiming" =>
          hand[w].at <= now /\ now <= hand[w].at + Timeout
    /\ \A w \in Workers : loop[w] = "holding" => Reserves(hand[w])
    /\ \A k \in Slots : slot[k] # None => Reserves(slot[k])

\* A worker told to stop was told so by a fault.
StopIsFault ==
    /\ \A w \in Workers : ctx[w] = "cancelled" => faults > 0
    /\ \A w \in Workers : loop[w] = "draining" => faults > 0

\* The row of a job whose Run returned nil goes with the Complete of that
\* goroutine; only a fault leaves it without one.
DoneIsCompleting ==
    \A i \in done : jobs[i] # None =>
        faults > 0 \/ \E k \in Slots : slot[k] # None /\ slot[k].id = i /\ slot[k].stage = "ok"
=============================================================================
