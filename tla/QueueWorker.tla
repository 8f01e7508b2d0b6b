---------------------------- MODULE QueueWorker ----------------------------
(***************************************************************************)
(* The driver-independent half of package queue: the worker processes      *)
(* (worker.go), the records they carry, and what they decide.              *)
(*                                                                         *)
(* A worker is one loop goroutine that claims a record and then waits for  *)
(* a token of its semaphore, plus one goroutine per token that runs the    *)
(* record it was given.  Every action below is the worker's share of a     *)
(* step; DBQueue, MongoQueue and RedisQueue conjoin it with the share of   *)
(* the store, so that a call and what it does to the store are one step    *)
(* exactly when the driver makes them one.                                 *)
(***************************************************************************)
EXTENDS Naturals

CONSTANTS
    Workers,            \* worker processes
    Slots,              \* the semaphore tokens of all the workers
    WorkerOf,           \* [Slots -> Workers], whose semaphore a token is in
    Names,              \* job names
    Registry,           \* [Workers -> SUBSET Names], names a binary can build
    QueueNames,         \* queues
    QueueOf,            \* [Names -> QueueNames], where a job is pushed
    Drains,             \* [Workers -> QueueNames], the queue a worker drains
    MaxAttemptsOf,      \* [Names -> Nat \ {0}], a job's attempt limit
    DefaultMaxAttempts, \* the limit of a job that sets none
    BackoffUnit,        \* ten seconds, in ticks
    BackoffCap,         \* ten minutes, in ticks
    OwnBackoff,         \* [Names -> Nat or None], the delay of a BackoffStrategy
    Timeout,            \* ReservationTimeout, in ticks
    Operators,          \* people running queue:retry
    MaxId,              \* bound: how many ids may be minted
    MaxDelay,           \* bound: the longest delay of a dispatch
    MaxTime,            \* bound: the clock
    MaxFaults,          \* bound: crashes, shutdowns, failed driver calls
    Overrun,            \* bound: may a claim outlive its reservation at all?
    None                \* absence: no row, no record, NULL

JobId == 1..MaxId

ASSUME NoneNotNat == None \notin Nat

ASSUME QueueAssumption ==
    /\ WorkerOf \in [Slots -> Workers]
    /\ Workers \cap Slots = {}
    /\ Registry \in [Workers -> SUBSET Names]
    /\ QueueOf \in [Names -> QueueNames]
    /\ Drains \in [Workers -> QueueNames]
    /\ MaxAttemptsOf \in [Names -> Nat \ {0}]
    /\ DefaultMaxAttempts \in Nat \ {0}
    /\ BackoffUnit \in Nat
    /\ BackoffCap \in Nat
    /\ OwnBackoff \in [Names -> Nat \cup {None}]
    /\ Timeout \in Nat
    /\ MaxId \in Nat
    /\ MaxDelay \in Nat
    /\ MaxTime \in Nat
    /\ MaxFaults \in Nat
    /\ Overrun \in BOOLEAN

VARIABLES
    now,      \* the clock every process and the store read
    loop,     \* loop[w]: where the loop goroutine of w stands
    ctx,      \* ctx[w]: has the context of w been cancelled?
    hand,     \* hand[w]: the record the loop goroutine is dealing with
    slot,     \* slot[k]: the record the goroutine holding token k runs
    kind,     \* kind[i]: the name stored with job i (it never changes)
    nextId,   \* the next id to be minted
    faults,   \* faults so far
    done,     \* history: jobs whose Run returned nil at least once
    tries,    \* history: tries[i], how often Run was called for job i
    overran   \* history: has some claim outlived its reservation?

clock == <<now, overran>>
workerVars == <<loop, ctx, hand, slot, done, tries>>

\* A record as the worker holds it after Claim; at is the claim's own clock
\* reading, which is also the reserved_at it wrote.
Rec == [id: JobId, attempts: Nat, max: Nat \ {0}, at: Nat]

Stages == {"run", "ok", "err", "buried"}
Task == [id: JobId, attempts: Nat, max: Nat \ {0}, at: Nat, stage: Stages]

ASSUME NoneAssumption == None \notin Rec /\ None \notin Task

WorkerTypeOK ==
    /\ now \in Nat
    /\ loop \in [Workers -> {"poll", "claiming", "holding", "draining", "stopped"}]
    /\ ctx \in [Workers -> {"live", "cancelled"}]
    /\ hand \in [Workers -> Rec \cup {None}]
    /\ slot \in [Slots -> Task \cup {None}]
    /\ \A w \in Workers : (loop[w] \in {"claiming", "holding"}) <=> (hand[w] # None)
    /\ kind \in [JobId -> Names \cup {None}]
    /\ nextId \in Nat \ {0}
    /\ faults \in Nat
    /\ done \subseteq JobId
    /\ tries \in [JobId -> Nat]
    /\ overran \in BOOLEAN

WorkerInit ==
    /\ now = 0
    /\ loop = [w \in Workers |-> "poll"]
    /\ ctx = [w \in Workers |-> "live"]
    /\ hand = [w \in Workers |-> None]
    /\ slot = [k \in Slots |-> None]
    /\ kind = [i \in JobId |-> None]
    /\ nextId = 1
    /\ faults = 0
    /\ done = {}
    /\ tries = [i \in JobId |-> 0]
    /\ overran = FALSE
-----------------------------------------------------------------------------
\* DefaultBackoff: quadratic in the attempt, with a ceiling.
DefaultBackoff(attempt) ==
    LET n == IF attempt < 1 THEN 1 ELSE attempt
        d == n * n * BackoffUnit
    IN  IF d < BackoffCap THEN d ELSE BackoffCap

\* backoffOf: a job's own strategy, else the default one.
BackoffOf(n, attempt) ==
    IF OwnBackoff[n] # None THEN OwnBackoff[n] ELSE DefaultBackoff(attempt)

\* Every record a goroutine of w still carries.
Holders(i) ==
    {w \in Workers : loop[w] = "holding" /\ hand[w].id = i} \cup
    {k \in Slots : slot[k] # None /\ slot[k].id = i}

\* A disturbance the code must survive: bounded, never required.
Fault == faults < MaxFaults /\ faults' = faults + 1
NoFault == UNCHANGED faults
-----------------------------------------------------------------------------
(* Minting a job: what every driver's Push does to the ids.                *)
MintId(n) ==
    /\ nextId <= MaxId
    /\ nextId' = nextId + 1
    /\ kind' = [kind EXCEPT ![nextId] = n]
-----------------------------------------------------------------------------
(* The loop goroutine of Worker.Run.                                       *)

\* SIGTERM or Ctrl-C: the context is cancelled while the loop is anywhere.
Cancel(w) ==
    /\ loop[w] # "stopped" /\ ctx[w] = "live"
    /\ ctx' = [ctx EXCEPT ![w] = "cancelled"]
    /\ Fault
    /\ UNCHANGED <<loop, hand, slot, done, tries>>

\* Top of the loop: ctx.Done() is seen, the worker starts to wait.
StartDraining(w) ==
    /\ loop[w] = "poll" /\ ctx[w] = "cancelled"
    /\ loop' = [loop EXCEPT ![w] = "draining"]
    /\ NoFault
    /\ UNCHANGED <<ctx, hand, slot, done, tries>>

\* ctx was still live at the top of the loop, Claim is called.
EnterClaim(w, r) ==
    /\ loop[w] = "poll" /\ ctx[w] = "live"
    /\ loop' = [loop EXCEPT ![w] = "claiming"]
    /\ hand' = [hand EXCEPT ![w] = r]
    /\ NoFault
    /\ UNCHANGED <<ctx, slot, done, tries>>

\* Claim returned a record: the loop now wants a token for it.
Receive(w, r) ==
    /\ loop' = [loop EXCEPT ![w] = "holding"]
    /\ hand' = [hand EXCEPT ![w] = r]
    /\ UNCHANGED <<ctx, slot, done, tries>>

\* Claim returned nothing or an error: sleep, then the top of the loop.
ReceiveNothing(w) ==
    /\ loop' = [loop EXCEPT ![w] = "poll"]
    /\ hand' = [hand EXCEPT ![w] = None]
    /\ UNCHANGED <<ctx, slot, done, tries>>

\* slots <- struct{}{} succeeds; the goroutine decodes the record and, when
\* its binary knows the name, calls Run.
TakeSlot(w, k) ==
    /\ loop[w] = "holding"
    /\ WorkerOf[k] = w /\ slot[k] = None
    /\ slot' = [slot EXCEPT ![k] =
                 [id |-> hand[w].id, attempts |-> hand[w].attempts,
                  max |-> hand[w].max, at |-> hand[w].at, stage |-> "run"]]
    /\ loop' = [loop EXCEPT ![w] = "poll"]
    /\ hand' = [hand EXCEPT ![w] = None]
    /\ tries' = IF kind[hand[w].id] \in Registry[w]
                THEN [tries EXCEPT ![hand[w].id] = @ + 1]
                ELSE tries
    /\ NoFault
    /\ UNCHANGED <<ctx, done>>

\* Faulty variants: the record stays in the loop's hand; the select has no
\* ctx.Done() case.
HandBack_m1(w) ==
    /\ loop[w] = "holding" /\ ctx[w] = "cancelled"
    /\ loop' = [loop EXCEPT ![w] = "poll"]
    /\ UNCHANGED <<ctx, hand, slot, done, tries>>

HandBack_m2(w) == FALSE

\* ctx.Done() wins the select while the record waits for a token: the record
\* is handed back (the driver's Release, at the present moment).
HandBack(w) ==
    /\ loop[w] = "holding" /\ ctx[w] = "cancelled"
    /\ loop' = [loop EXCEPT ![w] = "poll"]
    /\ hand' = [hand EXCEPT ![w] = None]
    /\ UNCHANGED <<ctx, slot, done, tries>>

\* wait() returns: either every goroutine is done, or ShutdownTimeout passed
\* and the process exits with jobs still running.
Busy(w) == {k \in Slots : WorkerOf[k] = w /\ slot[k] # None}

Drained(w) ==
    /\ loop[w] = "draining" /\ Busy(w) = {}
    /\ loop' = [loop EXCEPT ![w] = "stopped"]
    /\ NoFault
    /\ UNCHANGED <<ctx, hand, slot, done, tries>>

\* The process is gone: nothing it held in memory survives.
Vanish(w) ==
    /\ loop' = [loop EXCEPT ![w] = "stopped"]
    /\ hand' = [hand EXCEPT ![w] = None]
    /\ slot' = [k \in Slots |-> IF WorkerOf[k] = w THEN None ELSE slot[k]]
    /\ UNCHANGED <<ctx, done, tries>>

DrainTimeout(w) ==
    /\ loop[w] = "draining" /\ Busy(w) # {}
    /\ NoFault
    /\ Vanish(w)

Crash(w) ==
    /\ loop[w] # "stopped"
    /\ Fault
    /\ Vanish(w)

\* The process manager starts the worker again.
Restart(w) ==
    /\ loop[w] = "stopped"
    /\ loop' = [loop EXCEPT ![w] = "poll"]
    /\ ctx' = [ctx EXCEPT ![w] = "live"]
    /\ NoFault
    /\ UNCHANGED <<hand, slot, done, tries>>
-----------------------------------------------------------------------------
(* The goroutine holding token k: Worker.process.                          *)

Decodes(k) == kind[slot[k].id] \in Registry[WorkerOf[k]]

\* Run returns nil.
RunOk(k) ==
    /\ slot[k] # None /\ slot[k].stage = "run" /\ Decodes(k)
    /\ slot' = [slot EXCEPT ![k].stage = "ok"]
    /\ done' = done \cup {slot[k].id}
    /\ NoFault
    /\ UNCHANGED <<loop, ctx, hand, tries>>

\* Run returns an error or panics (run turns the panic into an error).
RunErr(k) ==
    /\ slot[k] # None /\ slot[k].stage = "run" /\ Decodes(k)
    /\ slot' = [slot EXCEPT ![k].stage = "err"]
    /\ NoFault
    /\ UNCHANGED <<loop, ctx, hand, done, tries>>

\* Which driver call process makes next for the record in token k.
WantsComplete(k) == slot[k] # None /\ slot[k].stage = "ok"

WantsFail(k) ==
    /\ slot[k] # None
    /\ \/ slot[k].stage = "run" /\ ~Decodes(k)
       \/ slot[k].stage = "err" /\ slot[k].attempts >= slot[k].max

WantsRelease(k) ==
    /\ slot[k] # None
    /\ slot[k].stage = "err" /\ slot[k].attempts < slot[k].max

\* process returns and its token goes back to the semaphore.
FreeSlot(k) ==
    /\ slot' = [slot EXCEPT ![k] = None]
    /\ UNCHANGED <<loop, ctx, hand, done, tries>>
-----------------------------------------------------------------------------
\* Is every claim still dealt with within lease of its time?
Punctual(lease) ==
    /\ \A w \in Workers : hand[w] # None => now < hand[w].at + lease
    /\ \A k \in Slots : slot[k] # None => now < slot[k].at + lease

\* A step of the clock, when somebody waits for it.
Advance(waiting, lease) ==
    /\ waiting /\ now < MaxTime
    /\ Overrun \/ Punctual(lease)
    /\ now' = now + 1
    /\ overran' = (overran \/ ~Punctual(lease))
=============================================================================
