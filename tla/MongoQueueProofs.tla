-------------------------- MODULE MongoQueueProofs --------------------------
(***************************************************************************)
(* Theorems about MongoQueue, for any number of workers, tokens, jobs and  *)
(* operators and any bounds on time and faults.                            *)
(***************************************************************************)
EXTENDS MongoQueue, FiniteSetTheorems, TLAPS

USE DEF clock

\* The steps of the system, one case per action.
LEMMA Steps ==
    ASSUME Next
    PROVE  \/ \E n \in Names, d \in 0..MaxDelay : Dispatch(n, d)
           \/ \E w \in Workers :
                \/ LoopStep(w) \/ ClaimNothing(w) \/ Claim(w) \/ ClaimLost(w)
                \/ ShutdownRelease(w) \/ Interrupt(w)
           \/ \E k \in Slots :
                \/ RunStep(k) \/ Complete(k) \/ Release(k)
                \/ FailRecord(k) \/ FailDelete(k) \/ OutcomeLost(k)
           \/ \E o \in Operators :
                \/ RetryPush(o) \/ RetryClear(o) \/ RetryAbort(o)
                \/ \E i \in JobId : RetryRead(o, i)
           \/ Tick
BY DEF Next, WorkerStep, SlotStep, RetryStep

\* A backoff is a delay, whatever the attempt.
LEMMA BackoffType ==
    ASSUME NEW n \in Names, NEW a \in Nat
    PROVE  BackoffOf(n, a) \in Nat
<1> DEFINE m == IF a < 1 THEN 1 ELSE a
<1>1. m \in Nat
    OBVIOUS
<1>2. m * m \in Nat
    BY <1>1
<1>3. m * m * BackoffUnit \in Nat
    <2> HIDE DEF m
    <2> QED BY <1>2, QueueAssumption
<1>4. DefaultBackoff(a) \in Nat
    BY <1>3, QueueAssumption DEF DefaultBackoff
<1> QED
    BY <1>4, QueueAssumption DEF BackoffOf

\* What a worker, a goroutine or an operator holds, when it holds something.
LEMMA HeldTypes ==
    ASSUME TypeOK
    PROVE  /\ \A w \in Workers : loop[w] = "holding" => hand[w] # None
           /\ \A w \in Workers : hand[w] # None =>
                 /\ hand[w] \in Rec /\ hand[w].id \in JobId
                 /\ hand[w].attempts \in Nat /\ hand[w].at \in Nat
           /\ \A k \in Slots : slot[k] # None =>
                 /\ slot[k] \in Task /\ slot[k].id \in JobId
                 /\ slot[k].attempts \in Nat /\ slot[k].at \in Nat
           /\ \A o \in Operators : op[o] # None =>
                 op[o] \in [job: JobId, pushed: BOOLEAN] /\ op[o].job \in JobId
           /\ \A i \in JobId : jobs[i] # None => jobs[i] \in Doc
           /\ now \in Nat
BY DEF TypeOK, WorkerTypeOK, Rec, Task
-----------------------------------------------------------------------------
(* What the operations do to the documents.                                *)

\* Push stores one document, under the next id.
LEMMA PushEffect ==
    ASSUME TypeOK, NEW n \in Names \cup {None}, NEW m \in Nat \ {0}, NEW t \in Nat, Push(n, m, t)
    PROVE  /\ nextId \in JobId /\ nextId' = nextId + 1 /\ nextId' \in Nat \ {0}
           /\ jobs' \in [JobId -> Doc \cup {None}]
           /\ jobs'[nextId] # None /\ jobs'[nextId].attempts = 0
           /\ kind' \in [JobId -> Names \cup {None}] /\ kind'[nextId] = n
           /\ \A i \in JobId : i # nextId => jobs'[i] = jobs[i] /\ kind'[i] = kind[i]
<1> USE QueueAssumption
<1>1. nextId \in JobId /\ nextId' = nextId + 1 /\ nextId' \in Nat \ {0}
    BY DEF Push, MintId, TypeOK, WorkerTypeOK, JobId
<1> DEFINE doc == [attempts |-> 0, max |-> m, available |-> t, reserved |-> None]
<1>2. doc \in Doc /\ doc # None /\ doc.attempts = 0
    BY NoDocAssumption DEF Doc
<1>3. jobs' = [jobs EXCEPT ![nextId] = doc] /\ kind' = [kind EXCEPT ![nextId] = n]
    BY DEF Push, MintId
<1> HIDE DEF doc
<1> QED
    BY <1>1, <1>2, <1>3 DEF TypeOK, WorkerTypeOK

\* Claim reserves one stored document and counts the attempt.
LEMMA ReserveEffect ==
    ASSUME TypeOK, NEW i \in JobId, jobs[i] # None, ReserveInc(i)
    PROVE  /\ jobs' \in [JobId -> Doc \cup {None}]
           /\ jobs'[i] # None /\ jobs'[i].reserved = now
           /\ jobs'[i].attempts = jobs[i].attempts + 1
           /\ \A j \in JobId : j # i => jobs'[j] = jobs[j]
<1>1. jobs[i] \in Doc /\ now \in Nat /\ jobs[i].attempts + 1 \in Nat
    BY HeldTypes DEF Doc
<1> DEFINE doc == [jobs[i] EXCEPT !.reserved = now, !.attempts = @ + 1]
<1>2. jobs' = [jobs EXCEPT ![i] = doc]
    BY <1>1 DEF ReserveInc, TypeOK, Doc
<1>3. doc \in Doc /\ doc.reserved = now /\ doc.attempts = jobs[i].attempts + 1 /\ doc # None
    BY <1>1, NoDocAssumption DEF Doc
<1> HIDE DEF doc
<1> QED
    BY <1>2, <1>3 DEF TypeOK

\* Release puts back a document that is still there, and its attempts stay.
LEMMA ReleaseEffect ==
    ASSUME TypeOK, NEW i \in JobId, NEW t \in Nat, DocRelease(i, t)
    PROVE  /\ jobs' \in [JobId -> Doc \cup {None}]
           /\ \A j \in JobId : (jobs'[j] # None) <=> (jobs[j] # None)
           /\ jobs[i] # None => jobs'[i].attempts = jobs[i].attempts
           /\ \A j \in JobId : j # i => jobs'[j] = jobs[j]
<1>1. CASE jobs[i] = None
    BY <1>1 DEF DocRelease, TypeOK
<1>2. CASE jobs[i] # None
    <2> DEFINE doc == [jobs[i] EXCEPT !.reserved = None, !.available = t]
    <2>1. jobs[i] \in Doc
        BY <1>2, HeldTypes
    <2>2. doc \in Doc /\ doc # None /\ doc.attempts = jobs[i].attempts
        BY <2>1, NoDocAssumption DEF Doc
    <2>3. jobs' = [jobs EXCEPT ![i] = doc]
        BY <1>2, <2>1 DEF DocRelease, TypeOK, Doc
    <2> HIDE DEF doc
    <2> QED
        BY <1>2, <2>2, <2>3 DEF TypeOK
<1> QED
    BY <1>1, <1>2

\* The time a failed attempt is released to.
LEMMA ReleaseTime ==
    ASSUME TypeOK, MintedOnly, NEW k \in Slots, slot[k] # None
    PROVE  now + BackoffOf(kind[slot[k].id], slot[k].attempts) \in Nat
<1>1. kind[slot[k].id] \in Names
    BY HeldTypes DEF MintedOnly
<1> QED
    BY <1>1, HeldTypes, BackoffType
-----------------------------------------------------------------------------
LEMMA TypeInit == Init => TypeOK
<1> SUFFICES ASSUME Init PROVE TypeOK
    OBVIOUS
<1>1. overran \in BOOLEAN
    BY DEF Init, WorkerInit
<1>2. /\ jobs \in [JobId -> Doc \cup {None}] /\ failed \subseteq JobId /\ requeued \subseteq JobId
      /\ op \in [Operators -> [job: JobId, pushed: BOOLEAN] \cup {None}]
    BY DEF Init
<1> QED
    BY <1>1, <1>2, QueueAssumption DEF Init, WorkerInit, TypeOK, WorkerTypeOK

\* Every step keeps the types: the worker's share first, then the collections.
LEMMA TypeStep == TypeOK /\ MintedOnly /\ [Next]_vars => TypeOK'
<1> SUFFICES ASSUME TypeOK, MintedOnly, [Next]_vars PROVE TypeOK'
    OBVIOUS
<1> USE QueueAssumption, NoneNotNat, NoneAssumption
<1>1. ASSUME NEW n \in Names, NEW d \in 0..MaxDelay, Dispatch(n, d) PROVE TypeOK'
    <2>1. Push(n, MaxAttemptsOf[n], now + d) /\ now + d \in Nat /\ MaxAttemptsOf[n] \in Nat \ {0}
        BY <1>1 DEF Dispatch, TypeOK, WorkerTypeOK
    <2>2. /\ jobs' \in [JobId -> Doc \cup {None}] /\ nextId' \in Nat \ {0}
          /\ kind' \in [JobId -> Names \cup {None}]
        BY <2>1, PushEffect
    <2> QED
        BY <1>1, <2>2 DEF Dispatch, NoFault, TypeOK, WorkerTypeOK, workerVars
<1>2. ASSUME NEW w \in Workers, LoopStep(w) PROVE TypeOK'
    <2> USE DEF TypeOK, WorkerTypeOK, mintVars, storeVars, NoFault
    <2>1. CASE StartDraining(w)
        BY <1>2, <2>1 DEF LoopStep, StartDraining
    <2>2. CASE Drained(w)
        BY <1>2, <2>2 DEF LoopStep, Drained
    <2>3. CASE Restart(w)
        BY <1>2, <2>3 DEF LoopStep, Restart
    <2>4. CASE DrainTimeout(w)
        BY <1>2, <2>4 DEF LoopStep, DrainTimeout, Vanish
    <2>5. ASSUME NEW k \in Slots, TakeSlot(w, k) PROVE TypeOK'
        <3>1. hand[w] \in Rec
            BY <2>5 DEF TakeSlot
        <3>2. slot' \in [Slots -> Task \cup {None}] /\ tries' \in [JobId -> Nat]
            BY <2>5, <3>1 DEF TakeSlot, Rec, Task, Stages
        <3> QED
            BY <1>2, <2>5, <3>2 DEF LoopStep, TakeSlot
    <2> QED
        BY <1>2, <2>1, <2>2, <2>3, <2>4, <2>5 DEF LoopStep
<1>3. ASSUME NEW w \in Workers, Claim(w) PROVE TypeOK'
    <2>1. PICK i \in JobId :
            /\ FirstClaimable(w, i) /\ ReserveInc(i)
            /\ Receive(w, [id |-> i, attempts |-> jobs[i].attempts + 1, max |-> jobs[i].max, at |-> now])
            /\ NoFault /\ UNCHANGED <<clock, mintVars, failed, requeued, op>>
        BY <1>3 DEF Claim
    <2>2. jobs[i] # None /\ jobs[i] \in Doc /\ now \in Nat
        BY <2>1, HeldTypes DEF FirstClaimable, Claimable
    <2>3. [id |-> i, attempts |-> jobs[i].attempts + 1, max |-> jobs[i].max, at |-> now] \in Rec
        BY <2>2 DEF Rec, Doc
    <2>4. jobs' \in [JobId -> Doc \cup {None}]
        BY <2>1, <2>2, ReserveEffect
    <2>5. overran' \in BOOLEAN
        BY <2>1 DEF TypeOK, WorkerTypeOK
    <2> QED
        BY <2>1, <2>3, <2>4, <2>5 DEF Receive, NoFault, TypeOK, WorkerTypeOK, mintVars
<1>4. ASSUME NEW w \in Workers, ClaimLost(w) PROVE TypeOK'
    <2>1. jobs' \in [JobId -> Doc \cup {None}]
        BY <1>4, ReserveEffect DEF ClaimLost, FirstClaimable, Claimable
    <2> QED
        BY <1>4, <2>1 DEF ClaimLost, Fault, TypeOK, WorkerTypeOK, workerVars, mintVars
<1>5. ASSUME NEW w \in Workers, ShutdownRelease(w) PROVE TypeOK'
    <2>1. hand[w].id \in JobId /\ now \in Nat
        BY <1>5, HeldTypes DEF ShutdownRelease, HandBack
    <2>2. jobs' \in [JobId -> Doc \cup {None}]
        BY <1>5, <2>1, ReleaseEffect DEF ShutdownRelease, TypeOK
    <2> QED
        BY <1>5, <2>2 DEF ShutdownRelease, HandBack, Fault, NoFault, TypeOK, WorkerTypeOK, mintVars
<1>6. ASSUME NEW w \in Workers, Interrupt(w) PROVE TypeOK'
    BY <1>6 DEF Interrupt, Cancel, Crash, Vanish, Fault, TypeOK, WorkerTypeOK, mintVars, storeVars
<1>7. ASSUME NEW k \in Slots, RunStep(k) PROVE TypeOK'
    <2>1. slot[k] \in Task
        BY <1>7, HeldTypes DEF RunStep, RunOk, RunErr
    <2>2. slot' \in [Slots -> Task \cup {None}] /\ done' \subseteq JobId
        BY <1>7, <2>1 DEF RunStep, RunOk, RunErr, TypeOK, WorkerTypeOK, Task, Stages
    <2> QED
        BY <1>7, <2>2 DEF RunStep, RunOk, RunErr, NoFault, TypeOK, WorkerTypeOK, mintVars, storeVars
<1>8. ASSUME NEW k \in Slots, Complete(k) PROVE TypeOK'
    BY <1>8, HeldTypes DEF Complete, WantsComplete, FreeSlot, NoFault, TypeOK, WorkerTypeOK, mintVars
<1>9. ASSUME NEW k \in Slots, Release(k) PROVE TypeOK'
    <2>1. slot[k] # None /\ slot[k].id \in JobId
        BY <1>9, HeldTypes DEF Release, WantsRelease
    <2>2. jobs' \in [JobId -> Doc \cup {None}]
        BY <1>9, <2>1, ReleaseTime, ReleaseEffect DEF Release
    <2> QED
        BY <1>9, <2>2 DEF Release, FreeSlot, NoFault, TypeOK, WorkerTypeOK, mintVars
<1>10. ASSUME NEW k \in Slots, FailRecord(k) PROVE TypeOK'
    <2>1. slot[k] \in Task /\ slot[k].id \in JobId
        BY <1>10, HeldTypes DEF FailRecord, WantsFail
    <2>2. slot' \in [Slots -> Task \cup {None}]
        BY <1>10, <2>1 DEF FailRecord, TypeOK, WorkerTypeOK, Task, Stages
    <2> QED
        BY <1>10, <2>1, <2>2 DEF FailRecord, NoFault, TypeOK, WorkerTypeOK, mintVars
<1>11. ASSUME NEW k \in Slots, FailDelete(k) PROVE TypeOK'
    BY <1>11, HeldTypes DEF FailDelete, FreeSlot, NoFault, TypeOK, WorkerTypeOK, mintVars
<1>12. ASSUME NEW k \in Slots, OutcomeLost(k) PROVE TypeOK'
    BY <1>12 DEF OutcomeLost, FreeSlot, Fault, TypeOK, WorkerTypeOK, mintVars, storeVars
<1>13. ASSUME NEW o \in Operators, RetryPush(o) PROVE TypeOK'
    <2>1. op[o] \in [job: JobId, pushed: BOOLEAN] /\ now \in Nat
        BY <1>13, HeldTypes DEF RetryPush
    <2>2. Push(kind[op[o].job], DefaultMaxAttempts, now) /\ kind[op[o].job] \in Names \cup {None}
        BY <1>13, <2>1 DEF RetryPush, TypeOK, WorkerTypeOK
    <2>3. /\ jobs' \in [JobId -> Doc \cup {None}] /\ nextId' \in Nat \ {0}
          /\ kind' \in [JobId -> Names \cup {None}]
        BY <2>1, <2>2, PushEffect
    <2>4. op' \in [Operators -> [job: JobId, pushed: BOOLEAN] \cup {None}]
        BY <1>13, <2>1 DEF RetryPush, TypeOK
    <2> QED
        BY <1>13, <2>1, <2>3, <2>4 DEF RetryPush, TypeOK, WorkerTypeOK, workerVars
<1>14. ASSUME NEW o \in Operators, RetryClear(o) PROVE TypeOK'
    BY <1>14 DEF RetryClear, TypeOK, WorkerTypeOK, workerVars, mintVars
<1>15. ASSUME NEW o \in Operators, RetryAbort(o) PROVE TypeOK'
    BY <1>15 DEF RetryAbort, TypeOK, WorkerTypeOK, workerVars, mintVars
<1>16. ASSUME NEW o \in Operators, NEW i \in JobId, RetryRead(o, i) PROVE TypeOK'
    BY <1>16 DEF RetryRead, TypeOK, WorkerTypeOK, workerVars, mintVars
<1>17. CASE Tick
    BY <1>17 DEF Tick, Advance, TypeOK, WorkerTypeOK, workerVars, mintVars, storeVars
<1>18. CASE UNCHANGED vars
    BY <1>18 DEF vars, TypeOK, WorkerTypeOK
<1> QED
    BY Steps, <1>1, <1>2, <1>3, <1>4, <1>5, <1>6, <1>7, <1>8, <1>9, <1>10, <1>11, <1>12, <1>13,
       <1>14, <1>15, <1>16, <1>17, <1>18 DEF ClaimNothing
-----------------------------------------------------------------------------
(* The ledger: what is deleted is settled, what is requeued was on record. *)

LEMMA LedgerInit == Init => LedgerInv
BY DEF Init, WorkerInit, LedgerInv, MintedOnly, DeletesSettled, RetryKnown, JobId

\* A step of a worker that takes its records from where they were: documents
\* are changed or deleted, failures recorded, but nothing is pushed.
LEMMA LedgerQuiet ==
    ASSUME TypeOK, LedgerInv,
           UNCHANGED <<kind, nextId, requeued, op>>,
           \A i \in JobId : jobs'[i] # None => jobs[i] # None,
           \A w \in Workers : hand'[w] # None =>
               \/ hand[w] # None /\ hand'[w].id = hand[w].id
               \/ hand'[w].id \in JobId /\ jobs[hand'[w].id] # None,
           \A k \in Slots : slot'[k] # None =>
               \/ slot[k] # None /\ slot'[k].id = slot[k].id
               \/ \E w \in Workers : hand[w] # None /\ slot'[k].id = hand[w].id,
           failed \subseteq failed', done \subseteq done',
           \A i \in (failed' \ failed) \cup (done' \ done) :
               \E k \in Slots : slot[k] # None /\ slot[k].id = i,
           \A k \in Slots : slot'[k] # None /\ slot'[k] # slot[k] =>
               /\ slot'[k].stage = "ok" => slot'[k].id \in done'
               /\ slot'[k].stage = "buried" => slot'[k].id \in failed'
    PROVE  LedgerInv'
<1>1. MintedOnly'
    BY DEF LedgerInv, MintedOnly
<1>2. DeletesSettled'
    BY DEF LedgerInv, DeletesSettled
<1>3. RetryKnown'
    BY DEF LedgerInv, RetryKnown
<1> QED
    BY <1>1, <1>2, <1>3 DEF LedgerInv

\* Nothing that was ever stored has the next id.
LEMMA NextIsNew ==
    ASSUME TypeOK, MintedOnly
    PROVE  /\ \A i \in failed \cup requeued \cup done : i \in JobId /\ i < nextId /\ i # nextId
           /\ \A w \in Workers : hand[w] # None => hand[w].id # nextId
           /\ \A k \in Slots : slot[k] # None => slot[k].id # nextId
           /\ nextId \in JobId => jobs[nextId] = None
<1>1. \A i \in JobId : i < nextId => i # nextId
    BY DEF JobId
<1>2. failed \cup requeued \cup done \subseteq JobId
    BY DEF TypeOK, WorkerTypeOK
<1> QED
    BY <1>1, <1>2, HeldTypes DEF MintedOnly

\* A push, by a dispatch or by an operator, who then has one more job on record
\* as requeued.
LEMMA LedgerPush ==
    ASSUME TypeOK, LedgerInv,
           NEW n \in Names, NEW m \in Nat \ {0}, NEW t \in Nat, Push(n, m, t),
           UNCHANGED <<hand, slot, done, failed>>,
           requeued \subseteq requeued',
           \A i \in requeued' \ requeued : \E o \in Operators : op[o] # None /\ i = op[o].job,
           \A o \in Operators : op'[o] # None =>
               /\ op[o] # None /\ op'[o].job = op[o].job
               /\ op'[o].pushed => op[o].pushed \/ op[o].job \in requeued'
    PROVE  LedgerInv'
<1>1. /\ nextId \in JobId /\ nextId' = nextId + 1 /\ kind'[nextId] = n
      /\ \A i \in JobId : i # nextId => jobs'[i] = jobs[i] /\ kind'[i] = kind[i]
    BY PushEffect
<1>2. /\ \A i \in JobId : i < nextId => i < nextId'
      /\ nextId < nextId'
      /\ \A i \in JobId : i < nextId' => i < nextId \/ i = nextId
    BY <1>1 DEF JobId
<1>3. MintedOnly'
    <2>1. \A i \in requeued' : i \in JobId /\ i < nextId
        BY NextIsNew, HeldTypes DEF LedgerInv, MintedOnly
    <2>2. \A i \in failed' \cup requeued' \cup done' : i < nextId'
        BY <1>2, <2>1, NextIsNew DEF LedgerInv
    <2>3. \A i \in JobId : i < nextId' => kind'[i] \in Names
        BY <1>1, <1>2 DEF LedgerInv, MintedOnly
    <2>4. \A i \in JobId : jobs'[i] # None => i < nextId'
        BY <1>1, <1>2 DEF LedgerInv, MintedOnly
    <2>5. \A o \in Operators : op'[o] # None => op'[o].job < nextId'
        BY <1>2, HeldTypes DEF LedgerInv, MintedOnly
    <2>6. /\ \A w \in Workers : hand'[w] # None => hand'[w].id < nextId'
          /\ \A k \in Slots : slot'[k] # None => slot'[k].id < nextId'
        BY <1>2, HeldTypes DEF LedgerInv, MintedOnly
    <2> QED
        BY <2>2, <2>3, <2>4, <2>5, <2>6 DEF MintedOnly
<1>4. DeletesSettled'
    BY DEF LedgerInv, DeletesSettled
<1>5. RetryKnown'
    BY DEF LedgerInv, RetryKnown
<1> QED
    BY <1>3, <1>4, <1>5 DEF LedgerInv

LEMMA LedgerStep == TypeOK /\ LedgerInv /\ [Next]_vars => LedgerInv'
<1> SUFFICES ASSUME TypeOK, LedgerInv, [Next]_vars PROVE LedgerInv'
    OBVIOUS
<1> USE HeldTypes
<1>1. ASSUME NEW n \in Names, NEW d \in 0..MaxDelay, Dispatch(n, d) PROVE LedgerInv'
    <2>1. Push(n, MaxAttemptsOf[n], now + d) /\ MaxAttemptsOf[n] \in Nat \ {0} /\ now + d \in Nat
        BY <1>1, QueueAssumption DEF Dispatch
    <2>2. UNCHANGED <<hand, slot, done, failed, requeued, op>>
        BY <1>1 DEF Dispatch, workerVars
    <2> QED
        BY <2>1, <2>2, LedgerPush
<1>2. ASSUME NEW w \in Workers, LoopStep(w) PROVE LedgerInv'
    <2>1. UNCHANGED <<kind, nextId, requeued, op, jobs, failed>>
        BY <1>2 DEF LoopStep, mintVars, storeVars
    <2>2. ASSUME UNCHANGED done, \A k \in Slots : slot'[k] = None \/ slot'[k] = slot[k],
                 \A v \in Workers : hand'[v] = None \/ hand'[v] = hand[v]
          PROVE  LedgerInv'
        BY <2>1, <2>2, LedgerQuiet
    <2>3. CASE StartDraining(w) \/ Drained(w) \/ Restart(w)
        BY <2>2, <2>3 DEF StartDraining, Drained, Restart
    <2>4. CASE DrainTimeout(w)
        BY <2>2, <2>4 DEF DrainTimeout, Vanish, TypeOK, WorkerTypeOK
    <2>5. ASSUME NEW k \in Slots, TakeSlot(w, k) PROVE LedgerInv'
        <3>1. hand[w] # None /\ slot'[k].id = hand[w].id /\ slot'[k].stage = "run"
            BY <2>5 DEF TakeSlot, TypeOK, WorkerTypeOK
        <3>2. \A x \in Slots : x # k => slot'[x] = slot[x]
            BY <2>5 DEF TakeSlot, TypeOK, WorkerTypeOK
        <3>3. \A v \in Workers : hand'[v] = None \/ hand'[v] = hand[v]
            BY <2>5 DEF TakeSlot, TypeOK, WorkerTypeOK
        <3>4. UNCHANGED done
            BY <2>5 DEF TakeSlot
        <3> QED
            BY <2>1, <3>1, <3>2, <3>3, <3>4, LedgerQuiet
    <2> QED
        BY <1>2, <2>3, <2>4, <2>5 DEF LoopStep
<1>3. ASSUME NEW w \in Workers, Claim(w) PROVE LedgerInv'
    <2>1. PICK i \in JobId :
            /\ FirstClaimable(w, i) /\ ReserveInc(i)
            /\ Receive(w, [id |-> i, attempts |-> jobs[i].attempts + 1, max |-> jobs[i].max, at |-> now])
            /\ UNCHANGED <<clock, mintVars, failed, requeued, op>>
        BY <1>3 DEF Claim
    <2>2. jobs[i] # None
        BY <2>1 DEF FirstClaimable, Claimable
    <2>3. \A j \in JobId : jobs'[j] # None => jobs[j] # None
        BY <2>1, <2>2, ReserveEffect
    <2>4. hand'[w].id = i /\ \A v \in Workers : v # w => hand'[v] = hand[v]
        BY <2>1 DEF Receive, TypeOK, WorkerTypeOK
    <2>5. UNCHANGED <<slot, done, kind, nextId, failed, requeued, op>>
        BY <2>1 DEF Receive, mintVars
    <2> QED
        BY <2>2, <2>3, <2>4, <2>5, LedgerQuiet
<1>4. ASSUME NEW w \in Workers, ClaimLost(w) PROVE LedgerInv'
    <2>1. \A j \in JobId : jobs'[j] # None => jobs[j] # None
        BY <1>4, ReserveEffect DEF ClaimLost, FirstClaimable, Claimable
    <2> QED
        BY <1>4, <2>1, LedgerQuiet DEF ClaimLost, workerVars, mintVars
<1>5. ASSUME NEW w \in Workers, ShutdownRelease(w) PROVE LedgerInv'
    <2>1. \A j \in JobId : jobs'[j] # None => jobs[j] # None
        BY <1>5, ReleaseEffect DEF ShutdownRelease, HandBack
    <2>2. \A v \in Workers : hand'[v] = None \/ hand'[v] = hand[v]
        BY <1>5 DEF ShutdownRelease, HandBack, TypeOK, WorkerTypeOK
    <2> QED
        BY <1>5, <2>1, <2>2, LedgerQuiet DEF ShutdownRelease, HandBack, mintVars
<1>6. ASSUME NEW w \in Workers, Interrupt(w) PROVE LedgerInv'
    <2>1. \A v \in Workers : hand'[v] = None \/ hand'[v] = hand[v]
        BY <1>6 DEF Interrupt, Cancel, Crash, Vanish, TypeOK, WorkerTypeOK
    <2>2. \A k \in Slots : slot'[k] = None \/ slot'[k] = slot[k]
        BY <1>6 DEF Interrupt, Cancel, Crash, Vanish, TypeOK, WorkerTypeOK
    <2>3. UNCHANGED <<jobs, done, kind, nextId, failed, requeued, op>>
        BY <1>6 DEF Interrupt, Cancel, Crash, Vanish, mintVars, storeVars
    <2> QED
        BY <2>1, <2>2, <2>3, LedgerQuiet
<1>7. ASSUME NEW k \in Slots, RunStep(k) PROVE LedgerInv'
    <2>1. slot[k] # None /\ slot[k] \in Task
        BY <1>7 DEF RunStep, RunOk, RunErr
    <2>2. /\ slot'[k].id = slot[k].id /\ slot'[k].stage \in {"ok", "err"}
          /\ \A x \in Slots : x # k => slot'[x] = slot[x]
        BY <1>7, <2>1 DEF RunStep, RunOk, RunErr, TypeOK, WorkerTypeOK, Task
    <2>3. slot'[k].stage = "ok" => slot[k].id \in done'
        BY <1>7, <2>1 DEF RunStep, RunOk, RunErr, TypeOK, WorkerTypeOK, Task
    <2>4. done \subseteq done' /\ done' \subseteq done \cup {slot[k].id}
        BY <1>7 DEF RunStep, RunOk, RunErr
    <2>5. UNCHANGED <<jobs, hand, kind, nextId, failed, requeued, op>>
        BY <1>7 DEF RunStep, RunOk, RunErr, mintVars, storeVars
    <2> QED
        BY <2>1, <2>2, <2>3, <2>4, <2>5, LedgerQuiet
<1>8. ASSUME NEW k \in Slots, FreeSlot(k), UNCHANGED <<kind, nextId, failed, requeued, op>>,
             \A j \in JobId : jobs'[j] # None => jobs[j] # None
      PROVE  LedgerInv'
    <2>1. \A x \in Slots : slot'[x] = None \/ slot'[x] = slot[x]
        BY <1>8 DEF FreeSlot, TypeOK, WorkerTypeOK
    <2> QED
        BY <1>8, <2>1, LedgerQuiet DEF FreeSlot
<1>9. ASSUME NEW k \in Slots, Complete(k) \/ FailDelete(k) PROVE LedgerInv'
    <2>1. jobs' = [jobs EXCEPT ![slot[k].id] = None] /\ slot[k].id \in JobId
        BY <1>9 DEF Complete, WantsComplete, FailDelete
    <2>2. \A j \in JobId : jobs'[j] # None => jobs[j] # None
        BY <2>1 DEF TypeOK
    <2> QED
        BY <1>8, <1>9, <2>2 DEF Complete, FailDelete, mintVars
<1>10. ASSUME NEW k \in Slots, Release(k) PROVE LedgerInv'
    <2>1. slot[k] # None
        BY <1>10 DEF Release, WantsRelease
    <2>2. \A j \in JobId : jobs'[j] # None => jobs[j] # None
        BY <1>10, <2>1, ReleaseTime, ReleaseEffect DEF Release, LedgerInv
    <2> QED
        BY <1>8, <1>10, <2>2 DEF Release, mintVars
<1>11. ASSUME NEW k \in Slots, OutcomeLost(k) PROVE LedgerInv'
    BY <1>8, <1>11 DEF OutcomeLost, mintVars, storeVars
<1>12. ASSUME NEW k \in Slots, FailRecord(k) PROVE LedgerInv'
    <2>1. slot[k] # None /\ slot[k] \in Task
        BY <1>12 DEF FailRecord, WantsFail
    <2>2. /\ slot'[k].id = slot[k].id /\ slot'[k].stage = "buried"
          /\ \A x \in Slots : x # k => slot'[x] = slot[x]
        BY <1>12, <2>1 DEF FailRecord, TypeOK, WorkerTypeOK, Task
    <2>3. failed' = failed \cup {slot[k].id}
        BY <1>12 DEF FailRecord
    <2>4. UNCHANGED <<jobs, hand, done, kind, nextId, requeued, op>>
        BY <1>12 DEF FailRecord, mintVars
    <2> QED
        BY <2>1, <2>2, <2>3, <2>4, LedgerQuiet
<1>13. ASSUME NEW o \in Operators, RetryPush(o) PROVE LedgerInv'
    <2>1. op[o] # None /\ op[o] \in [job: JobId, pushed: BOOLEAN]
        BY <1>13 DEF RetryPush
    <2>2. kind[op[o].job] \in Names
        BY <2>1 DEF LedgerInv, MintedOnly
    <2>3. Push(kind[op[o].job], DefaultMaxAttempts, now) /\ DefaultMaxAttempts \in Nat \ {0}
        BY <1>13, QueueAssumption DEF RetryPush
    <2>4. UNCHANGED <<hand, slot, done, failed>> /\ requeued' = requeued \cup {op[o].job}
        BY <1>13 DEF RetryPush, workerVars
    <2>5. op'[o].job = op[o].job /\ \A x \in Operators : x # o => op'[x] = op[x]
        BY <1>13, <2>1 DEF RetryPush, TypeOK
    <2> QED
        BY <2>1, <2>2, <2>3, <2>4, <2>5, LedgerPush
<1>14. ASSUME NEW o \in Operators, RetryClear(o) PROVE LedgerInv'
    <2>1. op[o] # None /\ op[o].job \in requeued
        BY <1>14 DEF RetryClear, LedgerInv, RetryKnown
    <2>2. /\ failed' = failed \ {op[o].job}
          /\ \A x \in Operators : op'[x] = None \/ op'[x] = op[x]
        BY <1>14 DEF RetryClear, TypeOK
    <2>3. UNCHANGED <<hand, slot, done, jobs, kind, nextId, requeued>>
        BY <1>14 DEF RetryClear, workerVars, mintVars
    <2> QED
        BY <2>1, <2>2, <2>3 DEF LedgerInv, MintedOnly, DeletesSettled, RetryKnown
<1>15. ASSUME NEW o \in Operators, RetryAbort(o) PROVE LedgerInv'
    <2>1. \A x \in Operators : op'[x] = None \/ op'[x] = op[x]
        BY <1>15 DEF RetryAbort, TypeOK
    <2>2. UNCHANGED <<hand, slot, done, jobs, kind, nextId, failed, requeued>>
        BY <1>15 DEF RetryAbort, workerVars, mintVars
    <2> QED
        BY <2>1, <2>2 DEF LedgerInv, MintedOnly, DeletesSettled, RetryKnown
<1>16. ASSUME NEW o \in Operators, NEW i \in JobId, RetryRead(o, i) PROVE LedgerInv'
    <2>1. /\ op'[o] = [job |-> i, pushed |-> FALSE] /\ i \in failed
          /\ \A x \in Operators : x # o => op'[x] = op[x]
        BY <1>16 DEF RetryRead, TypeOK
    <2>2. UNCHANGED <<hand, slot, done, jobs, kind, nextId, failed, requeued>>
        BY <1>16 DEF RetryRead, workerVars, mintVars
    <2> QED
        BY <2>1, <2>2 DEF LedgerInv, MintedOnly, DeletesSettled, RetryKnown
<1>17. CASE Tick \/ UNCHANGED vars
    BY <1>17, LedgerQuiet DEF Tick, vars, workerVars, mintVars, storeVars
<1> QED
    BY Steps, <1>1, <1>2, <1>3, <1>4, <1>5, <1>6, <1>7, <1>9, <1>10, <1>11, <1>12, <1>13,
       <1>14, <1>15, <1>16, <1>17 DEF ClaimNothing

\* The types and the ledger hold together, from the start and after every step.
LEMMA LedgerAlways == Spec => [](TypeOK /\ LedgerInv)
<1>1. Init => TypeOK /\ LedgerInv
    BY TypeInit, LedgerInit
<1>2. TypeOK /\ LedgerInv /\ [Next]_vars => (TypeOK /\ LedgerInv)'
    BY TypeStep, LedgerStep DEF LedgerInv
<1> QED
    BY <1>1, <1>2, PTL DEF Spec
-----------------------------------------------------------------------------
(* MongoQueue implements JobLedger.                                        *)

LEMMA LedgerStart == Init => Ledger!Init
BY DEF Init, WorkerInit, Ledger!Init, Minted, Stored, JobId

\* Steps that leave the ledger alone.
LEMMA LedgerStutter ==
    ASSUME UNCHANGED <<nextId, failed, requeued, done>>,
           \A i \in JobId : (jobs'[i] # None) <=> (jobs[i] # None)
    PROVE  UNCHANGED Ledger!vars
BY DEF Ledger!vars, Minted, Stored

\* A push hands out an id that was not handed out before, and stores it.
LEMMA PushMints ==
    ASSUME TypeOK, NEW n \in Names \cup {None}, NEW m \in Nat \ {0}, NEW t \in Nat, Push(n, m, t)
    PROVE  /\ nextId \in JobId /\ nextId \notin Minted
           /\ Minted' = Minted \cup {nextId} /\ Stored' = Stored \cup {nextId}
<1>1. /\ nextId \in JobId /\ nextId' = nextId + 1 /\ jobs'[nextId] # None
      /\ \A i \in JobId : i # nextId => jobs'[i] = jobs[i]
    BY PushEffect
<1>2. nextId \notin Minted /\ Minted' = Minted \cup {nextId}
    BY <1>1 DEF Minted, JobId
<1> QED
    BY <1>1, <1>2 DEF Stored

LEMMA LedgerSimulates ==
    ASSUME TypeOK, LedgerInv, [Next]_vars
    PROVE  [Ledger!Next]_(Ledger!vars)
<1> USE HeldTypes
<1>1. ASSUME UNCHANGED <<nextId, failed, requeued, done, jobs>>
      PROVE  UNCHANGED Ledger!vars
    BY <1>1, LedgerStutter
<1>2. ASSUME NEW w \in Workers, LoopStep(w) \/ Interrupt(w) PROVE UNCHANGED Ledger!vars
    <2>1. UNCHANGED done
        BY <1>2 DEF LoopStep, StartDraining, Drained, Restart, DrainTimeout, Vanish, TakeSlot,
                    Interrupt, Cancel, Crash
    <2> QED
        BY <1>1, <1>2, <2>1 DEF LoopStep, Interrupt, mintVars, storeVars
<1>3. ASSUME NEW w \in Workers, Claim(w) \/ ClaimLost(w) PROVE UNCHANGED Ledger!vars
    <2>1. \A j \in JobId : (jobs'[j] # None) <=> (jobs[j] # None)
        BY <1>3, ReserveEffect DEF Claim, ClaimLost, FirstClaimable, Claimable
    <2> QED
        BY <1>3, <2>1, LedgerStutter DEF Claim, ClaimLost, Receive, workerVars, mintVars
<1>4. ASSUME NEW w \in Workers, ShutdownRelease(w) PROVE UNCHANGED Ledger!vars
    <2>1. \A j \in JobId : (jobs'[j] # None) <=> (jobs[j] # None)
        BY <1>4, ReleaseEffect DEF ShutdownRelease, HandBack
    <2> QED
        BY <1>4, <2>1, LedgerStutter DEF ShutdownRelease, HandBack, mintVars
<1>5. ASSUME NEW k \in Slots, RunStep(k) PROVE [Ledger!Next]_(Ledger!vars)
    <2>1. UNCHANGED <<nextId, failed, requeued, jobs>>
        BY <1>5 DEF RunStep, mintVars, storeVars
    <2>2. CASE RunErr(k)
        BY <1>1, <2>1, <2>2 DEF RunErr
    <2>3. CASE RunOk(k)
        <3>1. slot[k].id \in JobId /\ slot[k].id \in Minted /\ done' = done \cup {slot[k].id}
            BY <2>3 DEF RunOk, Minted, LedgerInv, MintedOnly
        <3>2. Ledger!Succeed(slot[k].id)
            BY <2>1, <3>1 DEF Ledger!Succeed, Minted, Stored
        <3> QED
            BY <3>1, <3>2 DEF Ledger!Next
    <2> QED
        BY <1>5, <2>2, <2>3 DEF RunStep
<1>6. ASSUME NEW k \in Slots, Complete(k) \/ FailDelete(k) PROVE Ledger!Next
    <2>1. slot[k].id \in JobId /\ slot[k].id \in done \cup failed \cup requeued
        BY <1>6 DEF Complete, WantsComplete, FailDelete, LedgerInv, DeletesSettled
    <2>2. UNCHANGED <<nextId, failed, requeued, done>> /\ jobs' = [jobs EXCEPT ![slot[k].id] = None]
        BY <1>6 DEF Complete, FailDelete, FreeSlot, mintVars
    <2>3. Stored' = Stored \ {slot[k].id} /\ Minted' = Minted
        BY <2>1, <2>2 DEF Stored, Minted, TypeOK
    <2>4. Ledger!Leave(slot[k].id)
        BY <2>1, <2>2, <2>3 DEF Ledger!Leave, Ledger!Settled
    <2> QED
        BY <2>1, <2>4 DEF Ledger!Next
<1>7. ASSUME NEW k \in Slots, Release(k) PROVE UNCHANGED Ledger!vars
    <2>1. slot[k] # None
        BY <1>7 DEF Release, WantsRelease
    <2>2. \A j \in JobId : (jobs'[j] # None) <=> (jobs[j] # None)
        BY <1>7, <2>1, ReleaseTime, ReleaseEffect DEF Release, LedgerInv
    <2> QED
        BY <1>7, <2>2, LedgerStutter DEF Release, FreeSlot, mintVars
<1>8. ASSUME NEW k \in Slots, FailRecord(k) PROVE Ledger!Next
    <2>1. slot[k].id \in JobId /\ slot[k].id \in Minted
        BY <1>8 DEF FailRecord, WantsFail, Minted, LedgerInv, MintedOnly
    <2>2. failed' = failed \cup {slot[k].id} /\ UNCHANGED <<nextId, requeued, done, jobs>>
        BY <1>8 DEF FailRecord, mintVars
    <2>3. Stored' = Stored /\ Minted' = Minted
        BY <2>2 DEF Stored, Minted
    <2>4. Ledger!Bury(slot[k].id)
        BY <2>1, <2>2, <2>3 DEF Ledger!Bury
    <2> QED
        BY <2>1, <2>4 DEF Ledger!Next
<1>9. ASSUME NEW k \in Slots, OutcomeLost(k) PROVE UNCHANGED Ledger!vars
    BY <1>1, <1>9 DEF OutcomeLost, FreeSlot, mintVars, storeVars
<1>10. ASSUME NEW n \in Names, NEW d \in 0..MaxDelay, Dispatch(n, d) PROVE Ledger!Next
    <2>1. Push(n, MaxAttemptsOf[n], now + d) /\ MaxAttemptsOf[n] \in Nat \ {0} /\ now + d \in Nat
        BY <1>10, QueueAssumption DEF Dispatch
    <2>2. UNCHANGED <<failed, requeued, done>>
        BY <1>10 DEF Dispatch, workerVars
    <2>3. nextId \in JobId /\ Ledger!Push(nextId)
        BY <2>1, <2>2, PushMints DEF Ledger!Push
    <2> QED
        BY <2>3 DEF Ledger!Next
<1>11. ASSUME NEW o \in Operators, RetryPush(o) PROVE Ledger!Next
    <2>1. op[o].job \in JobId /\ op[o].job \in failed \cup requeued
        BY <1>11 DEF RetryPush, LedgerInv, RetryKnown
    <2>2. Push(kind[op[o].job], DefaultMaxAttempts, now) /\ kind[op[o].job] \in Names \cup {None}
        BY <1>11, <2>1 DEF RetryPush, TypeOK, WorkerTypeOK
    <2>3. UNCHANGED <<failed, done>> /\ requeued' = requeued \cup {op[o].job}
        BY <1>11 DEF RetryPush, workerVars
    <2>4. /\ nextId \in JobId /\ nextId \notin Minted
          /\ Minted' = Minted \cup {nextId} /\ Stored' = Stored \cup {nextId}
        BY <2>2, PushMints, QueueAssumption
    <2>5. Ledger!Requeue(op[o].job, nextId)
        BY <2>1, <2>3, <2>4 DEF Ledger!Requeue
    <2> QED
        BY <2>1, <2>4, <2>5 DEF Ledger!Next
<1>12. ASSUME NEW o \in Operators, RetryClear(o) PROVE Ledger!Next
    <2>1. op[o].job \in JobId /\ op[o].job \in requeued
        BY <1>12 DEF RetryClear, LedgerInv, RetryKnown
    <2>2. failed' = failed \ {op[o].job} /\ UNCHANGED <<nextId, jobs, done, requeued>>
        BY <1>12 DEF RetryClear, workerVars, mintVars
    <2>3. Stored' = Stored /\ Minted' = Minted
        BY <2>2 DEF Stored, Minted
    <2>4. Ledger!Clear(op[o].job)
        BY <2>1, <2>2, <2>3 DEF Ledger!Clear
    <2> QED
        BY <2>1, <2>4 DEF Ledger!Next
<1>13. ASSUME NEW o \in Operators, RetryAbort(o) \/ \E i \in JobId : RetryRead(o, i)
       PROVE  UNCHANGED Ledger!vars
    BY <1>1, <1>13 DEF RetryAbort, RetryRead, workerVars, mintVars
<1>14. CASE Tick \/ UNCHANGED vars
    BY <1>1, <1>14 DEF Tick, vars, workerVars, mintVars, storeVars
<1> QED
    BY Steps, <1>2, <1>3, <1>4, <1>5, <1>6, <1>7, <1>8, <1>9, <1>10, <1>11, <1>12, <1>13, <1>14
    DEF ClaimNothing

\* The MongoDB driver keeps the promise of JobLedger without transactions: in
\* the order its writes have, every one of them is a step of the ledger or
\* leaves it alone, also when its process dies before the next.
THEOREM ImplementsLedger == Spec => RefinesLedger
<1>1. TypeOK /\ LedgerInv /\ [Next]_vars => [Ledger!Next]_(Ledger!vars)
    BY LedgerSimulates
<1> QED
    BY <1>1, LedgerStart, LedgerAlways, PTL DEF Spec, RefinesLedger, Ledger!Spec
-----------------------------------------------------------------------------
(* A job that is stored and on record as failed.                           *)

FaultInv == StopIsFault /\ PendingAndFailedOnlyAfterFault

LEMMA FaultInit == Init => FaultInv
BY DEF Init, WorkerInit, FaultInv, StopIsFault, PendingAndFailedOnlyAfterFault

\* A step that records no failure, stores no failed job, and keeps the
\* goroutines that are between the two writes of Fail or is a fault.
LEMMA FaultQuiet ==
    ASSUME TypeOK, FaultInv, faults' \in Nat, faults' >= faults,
           \A w \in Workers : ctx'[w] = "cancelled" => ctx[w] = "cancelled" \/ faults' > 0,
           \A w \in Workers : loop'[w] = "draining" =>
               loop[w] = "draining" \/ ctx[w] = "cancelled",
           failed' \subseteq failed,
           \A i \in failed : jobs'[i] # None => jobs[i] # None,
           \A k \in Slots : slot[k] # None /\ slot[k].stage = "buried" =>
               \/ slot'[k] = slot[k]
               \/ faults' > 0
               \/ jobs'[slot[k].id] = None
    PROVE  FaultInv'
<1>1. faults > 0 => faults' > 0
    BY DEF TypeOK, WorkerTypeOK
<1>2. StopIsFault'
    BY <1>1 DEF FaultInv, StopIsFault
<1>3. PendingAndFailedOnlyAfterFault'
    BY <1>1 DEF FaultInv, PendingAndFailedOnlyAfterFault
<1> QED
    BY <1>2, <1>3 DEF FaultInv

LEMMA FaultStep == TypeOK /\ MintedOnly /\ FaultInv /\ [Next]_vars => FaultInv'
<1> SUFFICES ASSUME TypeOK, MintedOnly, FaultInv, [Next]_vars PROVE FaultInv'
    OBVIOUS
<1> USE HeldTypes
<1>0. faults \in Nat
    BY DEF TypeOK, WorkerTypeOK
<1>a. Fault => faults' \in Nat /\ faults' >= faults /\ faults' > 0
    BY <1>0 DEF Fault
<1>b. NoFault => faults' \in Nat /\ faults' >= faults
    BY <1>0 DEF NoFault
<1>1. ASSUME NEW n \in Names, NEW m \in Nat \ {0}, NEW t \in Nat, Push(n, m, t),
             UNCHANGED <<faults, loop, ctx, slot, failed>>
      PROVE  FaultInv'
    <2>1. \A i \in failed : jobs'[i] # None => jobs[i] # None
        BY <1>1, PushEffect, NextIsNew
    <2> QED
        BY <1>0, <1>1, <2>1, FaultQuiet
<1>2. ASSUME NEW n \in Names, NEW d \in 0..MaxDelay, Dispatch(n, d) PROVE FaultInv'
    <2>1. Push(n, MaxAttemptsOf[n], now + d) /\ MaxAttemptsOf[n] \in Nat \ {0} /\ now + d \in Nat
        BY <1>2, QueueAssumption DEF Dispatch
    <2> QED
        BY <1>1, <1>2, <2>1 DEF Dispatch, NoFault, workerVars
<1>3. ASSUME NEW w \in Workers, LoopStep(w) PROVE FaultInv'
    <2>1. UNCHANGED <<jobs, failed>>
        BY <1>3 DEF LoopStep, storeVars
    <2>2. CASE StartDraining(w) \/ Drained(w) \/ Restart(w)
        BY <1>b, <2>1, <2>2, FaultQuiet DEF StartDraining, Drained, Restart, TypeOK, WorkerTypeOK
    <2>3. CASE DrainTimeout(w)
        <3>1. faults > 0
            BY <2>3 DEF DrainTimeout, FaultInv, StopIsFault
        <3>2. \A v \in Workers : loop'[v] = "draining" => loop[v] = "draining"
            BY <2>3 DEF DrainTimeout, Vanish, TypeOK, WorkerTypeOK
        <3> QED
            BY <1>b, <2>1, <2>3, <3>1, <3>2, FaultQuiet DEF DrainTimeout, Vanish, NoFault
    <2>4. ASSUME NEW k \in Slots, TakeSlot(w, k) PROVE FaultInv'
        <3>1. \A x \in Slots : slot[x] # None => slot'[x] = slot[x]
            BY <2>4 DEF TakeSlot, TypeOK, WorkerTypeOK
        <3>2. \A v \in Workers : loop'[v] = "draining" => loop[v] = "draining"
            BY <2>4 DEF TakeSlot, TypeOK, WorkerTypeOK
        <3> QED
            BY <1>b, <2>1, <2>4, <3>1, <3>2, FaultQuiet DEF TakeSlot
    <2> QED
        BY <1>3, <2>2, <2>3, <2>4 DEF LoopStep
<1>4. ASSUME NEW w \in Workers, Claim(w) \/ ClaimLost(w) PROVE FaultInv'
    <2>1. \A j \in JobId : jobs'[j] # None => jobs[j] # None
        BY <1>4, ReserveEffect DEF Claim, ClaimLost, FirstClaimable, Claimable
    <2>2. \A v \in Workers : loop'[v] = "draining" => loop[v] = "draining"
        BY <1>4 DEF Claim, ClaimLost, Receive, workerVars, TypeOK, WorkerTypeOK
    <2>3. UNCHANGED <<ctx, slot, failed>> /\ failed \subseteq JobId
        BY <1>4 DEF Claim, ClaimLost, Receive, workerVars, TypeOK
    <2>4. NoFault \/ Fault
        BY <1>4 DEF Claim, ClaimLost
    <2> QED
        BY <1>a, <1>b, <2>1, <2>2, <2>3, <2>4, FaultQuiet
<1>5. ASSUME NEW w \in Workers, ShutdownRelease(w) PROVE FaultInv'
    <2>1. \A j \in JobId : jobs'[j] # None => jobs[j] # None
        BY <1>5, ReleaseEffect DEF ShutdownRelease, HandBack
    <2>2. \A v \in Workers : loop'[v] = "draining" => loop[v] = "draining"
        BY <1>5 DEF ShutdownRelease, HandBack, TypeOK, WorkerTypeOK
    <2>3. UNCHANGED <<ctx, slot, failed>> /\ failed \subseteq JobId /\ (NoFault \/ Fault)
        BY <1>5 DEF ShutdownRelease, HandBack, TypeOK
    <2> QED
        BY <1>a, <1>b, <2>1, <2>2, <2>3, FaultQuiet
<1>6. ASSUME NEW w \in Workers, Interrupt(w) PROVE FaultInv'
    <2>1. Fault /\ UNCHANGED <<jobs, failed>>
        BY <1>6 DEF Interrupt, Cancel, Crash, storeVars
    <2>2. \A v \in Workers : loop'[v] = "draining" => loop[v] = "draining"
        BY <1>6 DEF Interrupt, Cancel, Crash, Vanish, TypeOK, WorkerTypeOK
    <2> QED
        BY <1>a, <2>1, <2>2, FaultQuiet
<1>7. ASSUME NEW k \in Slots, RunStep(k) PROVE FaultInv'
    <2>1. \A x \in Slots : slot[x] # None /\ slot[x].stage = "buried" => slot'[x] = slot[x]
        BY <1>7 DEF RunStep, RunOk, RunErr, TypeOK, WorkerTypeOK
    <2> QED
        BY <1>b, <1>7, <2>1, FaultQuiet DEF RunStep, RunOk, RunErr, storeVars
<1>8. ASSUME NEW k \in Slots, Complete(k) \/ FailDelete(k) PROVE FaultInv'
    <2>1. jobs' = [jobs EXCEPT ![slot[k].id] = None] /\ slot[k].id \in JobId
        BY <1>8 DEF Complete, WantsComplete, FailDelete
    <2>2. jobs'[slot[k].id] = None /\ \A j \in JobId : jobs'[j] # None => jobs[j] # None
        BY <2>1 DEF TypeOK
    <2>3. \A x \in Slots : x # k => slot'[x] = slot[x]
        BY <1>8 DEF Complete, FailDelete, FreeSlot, TypeOK, WorkerTypeOK
    <2>4. UNCHANGED <<loop, ctx, failed>> /\ failed \subseteq JobId /\ NoFault
        BY <1>8 DEF Complete, FailDelete, FreeSlot, TypeOK
    <2> QED
        BY <1>b, <2>2, <2>3, <2>4, FaultQuiet
<1>9. ASSUME NEW k \in Slots, Release(k) PROVE FaultInv'
    <2>1. slot[k] # None /\ slot[k].stage = "err"
        BY <1>9 DEF Release, WantsRelease
    <2>2. \A j \in JobId : jobs'[j] # None => jobs[j] # None
        BY <1>9, <2>1, ReleaseTime, ReleaseEffect DEF Release
    <2>3. \A x \in Slots : x # k => slot'[x] = slot[x]
        BY <1>9 DEF Release, FreeSlot, TypeOK, WorkerTypeOK
    <2>4. UNCHANGED <<loop, ctx, failed>> /\ failed \subseteq JobId /\ NoFault
        BY <1>9 DEF Release, FreeSlot, TypeOK
    <2> QED
        BY <1>b, <2>1, <2>2, <2>3, <2>4, FaultQuiet
<1>10. ASSUME NEW k \in Slots, OutcomeLost(k) PROVE FaultInv'
    BY <1>a, <1>10, FaultQuiet DEF OutcomeLost, FreeSlot, storeVars
<1>11. ASSUME NEW k \in Slots, FailRecord(k) PROVE FaultInv'
    <2>1. slot[k] # None /\ slot[k] \in Task /\ slot[k].stage # "buried"
        BY <1>11 DEF FailRecord, WantsFail
    <2>2. /\ slot'[k].id = slot[k].id /\ slot'[k].stage = "buried" /\ slot'[k] # None
          /\ \A x \in Slots : x # k => slot'[x] = slot[x]
        <3>1. slot'[k] = [slot[k] EXCEPT !.stage = "buried"] /\ \A x \in Slots : x # k => slot'[x] = slot[x]
            BY <1>11 DEF FailRecord, TypeOK, WorkerTypeOK
        <3>2. slot'[k] \in Task
            BY <2>1, <3>1 DEF Task, Stages
        <3> QED
            BY <2>1, <3>1, <3>2, NoneAssumption DEF Task
    <2>3. failed' = failed \cup {slot[k].id} /\ UNCHANGED <<jobs, loop, ctx, faults>>
        BY <1>11 DEF FailRecord, NoFault
    <2> QED
        BY <2>1, <2>2, <2>3 DEF FaultInv, StopIsFault, PendingAndFailedOnlyAfterFault
<1>12. ASSUME NEW o \in Operators, RetryPush(o) PROVE FaultInv'
    <2>1. kind[op[o].job] \in Names
        BY <1>12 DEF RetryPush, MintedOnly
    <2>2. Push(kind[op[o].job], DefaultMaxAttempts, now)
        BY <1>12 DEF RetryPush
    <2> QED
        BY <1>1, <1>12, <2>1, <2>2, QueueAssumption DEF RetryPush, workerVars
<1>13. ASSUME NEW o \in Operators, RetryClear(o) \/ RetryAbort(o) \/ \E i \in JobId : RetryRead(o, i)
       PROVE  FaultInv'
    BY <1>0, <1>13, FaultQuiet DEF RetryClear, RetryAbort, RetryRead, workerVars
<1>14. CASE Tick \/ UNCHANGED vars
    BY <1>0, <1>14, FaultQuiet DEF Tick, vars, workerVars, storeVars
<1> QED
    BY Steps, <1>2, <1>3, <1>4, <1>5, <1>6, <1>7, <1>8, <1>9, <1>10, <1>11, <1>12, <1>13, <1>14
    DEF ClaimNothing

\* The two writes of Fail leave a job stored and on record as failed only while
\* its goroutine is between them, or for good after a fault; claims that outlive
\* their reservation and operators never do.
THEOREM FailsWhole == Spec => []PendingAndFailedOnlyAfterFault
<1>1. TypeOK /\ LedgerInv /\ FaultInv /\ [Next]_vars => FaultInv'
    BY FaultStep DEF LedgerInv
<1>2. FaultInv => PendingAndFailedOnlyAfterFault
    BY DEF FaultInv
<1> QED
    BY <1>1, <1>2, FaultInit, LedgerAlways, PTL DEF Spec
-----------------------------------------------------------------------------
(* Every Run was paid for by an attempt.                                   *)

\* An id that is still to be minted was never run.
CountInv == ClaimsPaid /\ \A i \in JobId : i >= nextId => tries[i] = 0

LEMMA ClaimsFinite ==
    ASSUME NEW i \in JobId
    PROVE  IsFiniteSet(ClaimsOf(i)) /\ Cardinality(ClaimsOf(i)) \in Nat
<1>1. ClaimsOf(i) \subseteq Workers
    BY DEF ClaimsOf
<1> QED
    BY <1>1, WorkersAssumption, FS_Subset, FS_CardinalityType

LEMMA CountInit == Init => CountInv
BY DEF Init, WorkerInit, CountInv, ClaimsPaid

\* Without a new claim or a new run the count is only overpaid.
LEMMA CountQuiet ==
    ASSUME TypeOK, TypeOK', CountInv, tries' = tries, nextId' >= nextId,
           \A i \in JobId : jobs'[i] # None =>
               jobs[i] # None /\ jobs'[i].attempts >= jobs[i].attempts,
           \A w \in Workers : loop'[w] = "holding" =>
               loop[w] = "holding" /\ hand'[w].id = hand[w].id
    PROVE  CountInv'
<1>1. ASSUME NEW i \in JobId, jobs'[i] # None
      PROVE  tries'[i] + Cardinality(ClaimsOf(i)') <= jobs'[i].attempts
    <2>1. ClaimsOf(i)' \subseteq ClaimsOf(i)
        BY DEF ClaimsOf
    <2>2. Cardinality(ClaimsOf(i)') <= Cardinality(ClaimsOf(i)) /\ Cardinality(ClaimsOf(i)') \in Nat
        BY <2>1, ClaimsFinite, FS_Subset, FS_CardinalityType
    <2>3. jobs[i] # None /\ jobs'[i].attempts >= jobs[i].attempts
        BY <1>1
    <2>4. jobs[i].attempts \in Nat /\ jobs'[i].attempts \in Nat /\ tries[i] \in Nat
        BY <1>1, <2>3 DEF TypeOK, WorkerTypeOK, Doc
    <2>5. tries[i] + Cardinality(ClaimsOf(i)) <= jobs[i].attempts
        BY <2>3 DEF CountInv, ClaimsPaid
    <2> QED
        BY <2>2, <2>3, <2>4, <2>5, ClaimsFinite
<1>2. \A i \in JobId : i >= nextId' => i >= nextId
    BY DEF TypeOK, WorkerTypeOK, JobId
<1> QED
    BY <1>1, <1>2 DEF CountInv, ClaimsPaid

LEMMA CountStep == TypeOK /\ TypeOK' /\ MintedOnly /\ CountInv /\ [Next]_vars => CountInv'
<1> SUFFICES ASSUME TypeOK, TypeOK', MintedOnly, CountInv, [Next]_vars PROVE CountInv'
    OBVIOUS
<1> USE HeldTypes
<1>0. nextId \in Nat /\ nextId' \in Nat /\ \A i \in JobId : jobs[i] # None => jobs[i].attempts \in Nat
    BY DEF TypeOK, WorkerTypeOK, Doc
<1>1. ASSUME UNCHANGED <<nextId, tries>>,
             \A i \in JobId : jobs'[i] # None => jobs[i] # None /\ jobs'[i].attempts = jobs[i].attempts,
             \A w \in Workers : loop'[w] = "holding" =>
                 loop[w] = "holding" /\ hand'[w].id = hand[w].id
      PROVE  CountInv'
    BY <1>0, <1>1, CountQuiet
<1>2. ASSUME NEW n \in Names, NEW m \in Nat \ {0}, NEW t \in Nat, Push(n, m, t),
             UNCHANGED <<loop, hand, tries>>
      PROVE  CountInv'
    <2>1. /\ nextId \in JobId /\ nextId' = nextId + 1 /\ jobs'[nextId].attempts = 0
          /\ \A i \in JobId : i # nextId => jobs'[i] = jobs[i]
        BY <1>2, PushEffect
    <2>2. \A i \in JobId : ClaimsOf(i)' = ClaimsOf(i)
        BY <1>2 DEF ClaimsOf
    <2>3. ClaimsOf(nextId) = {} /\ tries[nextId] = 0
        BY <1>0, <2>1, NextIsNew DEF ClaimsOf, CountInv
    <2>4. tries[nextId] + Cardinality(ClaimsOf(nextId)) <= 0
        BY <2>3, FS_EmptySet
    <2>5. ClaimsPaid'
        BY <1>2, <2>1, <2>2, <2>4 DEF CountInv, ClaimsPaid
    <2>6. \A i \in JobId : i >= nextId' => i >= nextId
        BY <1>0, <2>1 DEF JobId
    <2> QED
        BY <1>2, <2>5, <2>6 DEF CountInv
<1>3. ASSUME NEW n \in Names, NEW d \in 0..MaxDelay, Dispatch(n, d) PROVE CountInv'
    <2>1. Push(n, MaxAttemptsOf[n], now + d) /\ MaxAttemptsOf[n] \in Nat \ {0} /\ now + d \in Nat
        BY <1>3, QueueAssumption DEF Dispatch
    <2> QED
        BY <1>2, <1>3, <2>1 DEF Dispatch, workerVars
<1>4. ASSUME NEW w \in Workers, LoopStep(w) PROVE CountInv'
    <2>1. UNCHANGED <<jobs, nextId>>
        BY <1>4 DEF LoopStep, storeVars, mintVars
    <2>2. CASE StartDraining(w) \/ Drained(w) \/ Restart(w)
        BY <1>1, <2>1, <2>2 DEF StartDraining, Drained, Restart, TypeOK, WorkerTypeOK
    <2>3. CASE DrainTimeout(w)
        BY <1>1, <2>1, <2>3 DEF DrainTimeout, Vanish, TypeOK, WorkerTypeOK
    <2>4. ASSUME NEW k \in Slots, TakeSlot(w, k) PROVE CountInv'
        <3>0. hand[w].id \in JobId
            BY <2>4 DEF TakeSlot
        <3>1. PICK i \in JobId : i = hand[w].id /\ loop[w] = "holding" /\ loop'[w] = "poll"
            BY <2>4, <3>0 DEF TakeSlot, TypeOK, WorkerTypeOK
        <3>2. \A v \in Workers : v # w => loop'[v] = loop[v] /\ hand'[v] = hand[v]
            BY <2>4 DEF TakeSlot, TypeOK, WorkerTypeOK
        <3>3. tries'[i] \in {tries[i], tries[i] + 1} /\ \A j \in JobId : j # i => tries'[j] = tries[j]
            BY <2>4, <3>1 DEF TakeSlot, TypeOK, WorkerTypeOK
        <3>4. w \in ClaimsOf(i) /\ ClaimsOf(i)' = ClaimsOf(i) \ {w}
            BY <3>1, <3>2 DEF ClaimsOf
        <3>5. \A j \in JobId : j # i => ClaimsOf(j)' = ClaimsOf(j)
            BY <3>1, <3>2 DEF ClaimsOf
        <3>6. Cardinality(ClaimsOf(i)') = Cardinality(ClaimsOf(i)) - 1
            <4>1. Cardinality(ClaimsOf(i) \ {w}) = Cardinality(ClaimsOf(i)) - 1
                BY <3>4, ClaimsFinite, FS_RemoveElement, Zenon
            <4> QED
                BY <3>4, <4>1
        <3>7. tries[i] \in Nat /\ Cardinality(ClaimsOf(i)) \in Nat
            BY <3>1, ClaimsFinite DEF TypeOK, WorkerTypeOK
        <3>8. tries'[i] + Cardinality(ClaimsOf(i)') <= tries[i] + Cardinality(ClaimsOf(i))
            BY <3>3, <3>6, <3>7
        <3>9. ClaimsPaid'
            <4>1. jobs'[i] # None => tries'[i] + Cardinality(ClaimsOf(i)') <= jobs'[i].attempts
                <5>1. jobs[i] # None => tries[i] + Cardinality(ClaimsOf(i)) <= jobs[i].attempts
                    BY <3>1 DEF CountInv, ClaimsPaid
                <5>2. tries'[i] \in Nat /\ Cardinality(ClaimsOf(i)') \in Nat
                    BY <3>1, <3>3, <3>4, <3>7, ClaimsFinite, FS_CardinalityType, FS_RemoveElement
                <5>3. jobs[i] # None => jobs[i].attempts \in Nat
                    BY <1>0, <3>1
                <5> QED BY <2>1, <3>7, <3>8, <5>1, <5>2, <5>3
            <4> QED BY <2>1, <3>3, <3>5, <4>1 DEF CountInv, ClaimsPaid
        <3>10. \A j \in JobId : j >= nextId => j # i
            BY <1>0, <3>1 DEF MintedOnly, JobId
        <3> QED
            BY <2>1, <3>3, <3>9, <3>10 DEF CountInv
    <2> QED
        BY <1>4, <2>2, <2>3, <2>4 DEF LoopStep
<1>5. ASSUME NEW w \in Workers, Claim(w) PROVE CountInv'
    <2>1. PICK i \in JobId :
            /\ loop[w] = "poll" /\ jobs[i] # None /\ ReserveInc(i)
            /\ Receive(w, [id |-> i, attempts |-> jobs[i].attempts + 1,
                           max |-> jobs[i].max, at |-> now])
            /\ nextId' = nextId
        BY <1>5 DEF Claim, FirstClaimable, Claimable, mintVars
    <2>2. loop'[w] = "holding" /\ hand'[w].id = i /\ tries' = tries
        BY <2>1 DEF Receive, TypeOK, WorkerTypeOK
    <2>3. \A v \in Workers : v # w => loop'[v] = loop[v] /\ hand'[v] = hand[v]
        BY <2>1 DEF Receive, TypeOK, WorkerTypeOK
    <2>4. /\ jobs'[i].attempts = jobs[i].attempts + 1
          /\ \A j \in JobId : j # i => jobs'[j] = jobs[j]
        BY <2>1, ReserveEffect
    <2>5. w \notin ClaimsOf(i) /\ ClaimsOf(i)' = ClaimsOf(i) \cup {w}
        BY <2>1, <2>2, <2>3 DEF ClaimsOf
    <2>6. \A j \in JobId : j # i => ClaimsOf(j)' = ClaimsOf(j)
        BY <2>1, <2>2, <2>3 DEF ClaimsOf
    <2>7. Cardinality(ClaimsOf(i)') = Cardinality(ClaimsOf(i)) + 1
        BY <2>5, ClaimsFinite, FS_AddElement
    <2>8. tries[i] + Cardinality(ClaimsOf(i)) <= jobs[i].attempts
        BY <2>1 DEF CountInv, ClaimsPaid
    <2>9. tries'[i] + Cardinality(ClaimsOf(i)') <= jobs'[i].attempts
        <3>1. tries[i] \in Nat /\ jobs[i].attempts \in Nat /\ Cardinality(ClaimsOf(i)) \in Nat
            BY <1>0, <2>1, ClaimsFinite DEF TypeOK, WorkerTypeOK
        <3> QED
            BY <2>2, <2>4, <2>7, <2>8, <3>1
    <2> QED
        BY <2>1, <2>2, <2>4, <2>6, <2>9 DEF CountInv, ClaimsPaid
<1>6. ASSUME NEW w \in Workers, ClaimLost(w) PROVE CountInv'
    <2>1. \A j \in JobId : jobs'[j] # None => jobs[j] # None /\ jobs'[j].attempts >= jobs[j].attempts
        BY <1>0, <1>6, ReserveEffect DEF ClaimLost, FirstClaimable, Claimable
    <2> QED
        BY <1>0, <1>6, <2>1, CountQuiet DEF ClaimLost, workerVars, mintVars
<1>7. ASSUME NEW w \in Workers, ShutdownRelease(w) PROVE CountInv'
    <2>1. \A j \in JobId : jobs'[j] # None => jobs[j] # None /\ jobs'[j].attempts = jobs[j].attempts
        BY <1>7, ReleaseEffect DEF ShutdownRelease, HandBack
    <2>2. \A v \in Workers : loop'[v] = "holding" => loop[v] = "holding" /\ hand'[v] = hand[v]
        BY <1>7 DEF ShutdownRelease, HandBack, TypeOK, WorkerTypeOK
    <2> QED
        BY <1>1, <1>7, <2>1, <2>2 DEF ShutdownRelease, HandBack, mintVars
<1>8. ASSUME NEW w \in Workers, Interrupt(w) PROVE CountInv'
    <2>1. \A v \in Workers : loop'[v] = "holding" => loop[v] = "holding" /\ hand'[v] = hand[v]
        BY <1>8 DEF Interrupt, Cancel, Crash, Vanish, TypeOK, WorkerTypeOK
    <2> QED
        BY <1>1, <1>8, <2>1 DEF Interrupt, Cancel, Crash, Vanish, mintVars, storeVars
<1>9. ASSUME NEW k \in Slots,
             RunStep(k) \/ Complete(k) \/ FailRecord(k) \/ FailDelete(k) \/ OutcomeLost(k)
      PROVE  CountInv'
    <2>1. UNCHANGED <<loop, hand, tries, nextId>>
        BY <1>9 DEF RunStep, RunOk, RunErr, Complete, FailRecord, FailDelete, OutcomeLost,
                    FreeSlot, mintVars
    <2>2. UNCHANGED jobs \/ (slot[k] # None /\ jobs' = [jobs EXCEPT ![slot[k].id] = None])
        BY <1>9 DEF RunStep, Complete, WantsComplete, FailRecord, FailDelete, OutcomeLost, storeVars
    <2>3. \A j \in JobId : jobs'[j] # None => jobs[j] # None /\ jobs'[j].attempts = jobs[j].attempts
        BY <2>2 DEF TypeOK
    <2> QED
        BY <1>1, <2>1, <2>3
<1>10. ASSUME NEW k \in Slots, Release(k) PROVE CountInv'
    <2>1. slot[k] # None
        BY <1>10 DEF Release, WantsRelease
    <2>2. \A j \in JobId : jobs'[j] # None => jobs[j] # None /\ jobs'[j].attempts = jobs[j].attempts
        BY <1>10, <2>1, ReleaseTime, ReleaseEffect DEF Release
    <2> QED
        BY <1>1, <1>10, <2>2 DEF Release, FreeSlot, mintVars
<1>11. ASSUME NEW o \in Operators, RetryPush(o) PROVE CountInv'
    <2>1. kind[op[o].job] \in Names
        BY <1>11 DEF RetryPush, MintedOnly
    <2>2. Push(kind[op[o].job], DefaultMaxAttempts, now)
        BY <1>11 DEF RetryPush
    <2> QED
        BY <1>2, <1>11, <2>1, <2>2, QueueAssumption DEF RetryPush, workerVars
<1>12. ASSUME NEW o \in Operators, RetryClear(o) \/ RetryAbort(o) \/ \E i \in JobId : RetryRead(o, i)
       PROVE  CountInv'
    BY <1>1, <1>12 DEF RetryClear, RetryAbort, RetryRead, workerVars, mintVars
<1>13. CASE Tick \/ UNCHANGED vars
    BY <1>1, <1>13 DEF Tick, vars, workerVars, mintVars, storeVars
<1> QED
    BY Steps, <1>3, <1>4, <1>5, <1>6, <1>7, <1>8, <1>9, <1>10, <1>11, <1>12, <1>13
    DEF ClaimNothing
-----------------------------------------------------------------------------
(* Exclusive claims, when no claim outlives its reservation.               *)

\* The second half of ExclusiveClaim, without the set of holders.
Apart ==
    /\ \A w, v \in Workers :
          loop[w] = "holding" /\ loop[v] = "holding" /\ hand[w].id = hand[v].id => w = v
    /\ \A k, l \in Slots :
          slot[k] # None /\ slot[l] # None /\ slot[k].id = slot[l].id => k = l
    /\ \A w \in Workers, k \in Slots :
          loop[w] = "holding" /\ slot[k] # None => hand[w].id # slot[k].id

HeldInv == HeldIsReserved /\ Apart

LEMMA ApartIsExclusive ==
    ASSUME TypeOK, Apart, NEW i \in JobId, NEW x \in Holders(i), NEW y \in Holders(i)
    PROVE  x = y
<1>1. \/ x \in Workers /\ loop[x] = "holding" /\ hand[x].id = i
      \/ x \in Slots /\ slot[x] # None /\ slot[x].id = i
    BY DEF Holders
<1>2. \/ y \in Workers /\ loop[y] = "holding" /\ hand[y].id = i
      \/ y \in Slots /\ slot[y] # None /\ slot[y].id = i
    BY DEF Holders
<1> QED
    BY <1>1, <1>2 DEF Apart

LEMMA HeldInit == Init => HeldInv
BY DEF Init, WorkerInit, HeldInv, HeldIsReserved, Apart

\* Holders that keep their record and their reservation, or let go, stay apart.
LEMMA HeldQuiet ==
    ASSUME HeldInv, now' = now,
           \A w \in Workers : loop'[w] = "holding" =>
               /\ loop[w] = "holding" /\ hand'[w] = hand[w]
               /\ jobs'[hand[w].id] = jobs[hand[w].id],
           \A k \in Slots : slot'[k] # None =>
               /\ slot[k] # None /\ slot'[k].id = slot[k].id /\ slot'[k].at = slot[k].at
               /\ jobs'[slot[k].id] = jobs[slot[k].id]
    PROVE  HeldInv'
<1>1. HeldIsReserved'
    BY DEF HeldInv, HeldIsReserved, Reserves
<1>2. Apart'
    BY DEF HeldInv, Apart
<1> QED
    BY <1>1, <1>2 DEF HeldInv

\* A document that the filter of Claim matches is held by nobody.
LEMMA FreeDoc ==
    ASSUME TypeOK, HeldInv, NEW w \in Workers, NEW i \in JobId, Claimable(w, i)
    PROVE  /\ \A v \in Workers : loop[v] = "holding" => hand[v].id # i
           /\ \A k \in Slots : slot[k] # None => slot[k].id # i
<1>1. ASSUME NEW r, r.at \in Nat, Reserves(r), r.id = i PROVE FALSE
    BY <1>1, HeldTypes, NoneNotNat, QueueAssumption DEF Reserves, Claimable
<1> QED
    BY <1>1, HeldTypes DEF HeldInv, HeldIsReserved

LEMMA HeldStep ==
    ASSUME ~overran', TypeOK, MintedOnly, HeldInv, [Next]_vars
    PROVE  HeldInv'
<1> USE HeldTypes
<1>1. ASSUME UNCHANGED <<now, jobs>>,
             \A w \in Workers : loop'[w] = "holding" => loop[w] = "holding" /\ hand'[w] = hand[w],
             \A k \in Slots : slot'[k] # None =>
                 slot[k] # None /\ slot'[k].id = slot[k].id /\ slot'[k].at = slot[k].at
      PROVE  HeldInv'
    BY <1>1, HeldQuiet
<1>2. ASSUME NEW w \in Workers, LoopStep(w) PROVE HeldInv'
    <2> USE DEF storeVars, LoopStep
    <2>1. CASE StartDraining(w)
        BY <1>1, <1>2, <2>1 DEF StartDraining, TypeOK, WorkerTypeOK
    <2>2. CASE Drained(w)
        BY <1>1, <1>2, <2>2 DEF Drained, TypeOK, WorkerTypeOK
    <2>3. CASE Restart(w)
        BY <1>1, <1>2, <2>3 DEF Restart, TypeOK, WorkerTypeOK
    <2>4. CASE DrainTimeout(w)
        BY <1>1, <1>2, <2>4 DEF DrainTimeout, Vanish, TypeOK, WorkerTypeOK
    <2>5. ASSUME NEW k \in Slots, TakeSlot(w, k) PROVE HeldInv'
        <3>1. loop[w] = "holding" /\ loop'[w] = "poll" /\ slot[k] = None
            BY <2>5 DEF TakeSlot, TypeOK, WorkerTypeOK
        <3>2. slot'[k].id = hand[w].id /\ slot'[k].at = hand[w].at
            BY <2>5 DEF TakeSlot, TypeOK, WorkerTypeOK
        <3>3. \A x \in Slots : x # k => slot'[x] = slot[x]
            BY <2>5 DEF TakeSlot, TypeOK, WorkerTypeOK
        <3>4. \A v \in Workers : v # w => loop'[v] = loop[v] /\ hand'[v] = hand[v]
            BY <2>5 DEF TakeSlot, TypeOK, WorkerTypeOK
        <3>5. UNCHANGED <<now, jobs>>
            BY <1>2
        <3>6. HeldIsReserved'
            BY <3>1, <3>2, <3>3, <3>4, <3>5 DEF HeldInv, HeldIsReserved, Reserves
        <3>7. Apart'
            BY <3>1, <3>2, <3>3, <3>4 DEF HeldInv, Apart
        <3> QED
            BY <3>6, <3>7 DEF HeldInv
    <2> QED
        BY <1>2, <2>1, <2>2, <2>3, <2>4, <2>5
<1>3. ASSUME NEW w \in Workers, Claim(w) PROVE HeldInv'
    <2>1. PICK i \in JobId :
            /\ loop[w] = "poll" /\ Claimable(w, i) /\ jobs[i] # None /\ ReserveInc(i)
            /\ Receive(w, [id |-> i, attempts |-> jobs[i].attempts + 1,
                           max |-> jobs[i].max, at |-> now])
            /\ now' = now
        BY <1>3 DEF Claim, FirstClaimable, Claimable
    <2>2. loop'[w] = "holding" /\ hand'[w].id = i /\ hand'[w].at = now /\ slot' = slot
        BY <2>1 DEF Receive, TypeOK, WorkerTypeOK
    <2>3. \A v \in Workers : v # w => loop'[v] = loop[v] /\ hand'[v] = hand[v]
        BY <2>1 DEF Receive, TypeOK, WorkerTypeOK
    <2>4. /\ jobs'[i] # None /\ jobs'[i].reserved = now
          /\ \A j \in JobId : j # i => jobs'[j] = jobs[j]
        BY <2>1, ReserveEffect
    <2>5. /\ \A v \in Workers : loop[v] = "holding" => hand[v].id # i
          /\ \A k \in Slots : slot[k] # None => slot[k].id # i
        BY <2>1, FreeDoc
    <2>6. Reserves(hand[w])'
        BY <2>1, <2>2, <2>4, QueueAssumption DEF Reserves
    <2>7. HeldIsReserved'
        <3>1. \A v \in Workers : v # w /\ loop[v] = "holding" => Reserves(hand[v])'
            BY <2>1, <2>3, <2>4, <2>5 DEF HeldInv, HeldIsReserved, Reserves
        <3>2. \A k \in Slots : slot[k] # None => Reserves(slot[k])'
            BY <2>1, <2>2, <2>4, <2>5 DEF HeldInv, HeldIsReserved, Reserves
        <3> QED
            BY <2>2, <2>3, <2>6, <3>1, <3>2 DEF HeldIsReserved
    <2>8. Apart'
        BY <2>2, <2>3, <2>5 DEF HeldInv, Apart
    <2> QED
        BY <2>7, <2>8 DEF HeldInv
<1>4. ASSUME NEW w \in Workers, ClaimLost(w) PROVE HeldInv'
    <2>1. PICK i \in JobId : Claimable(w, i) /\ jobs[i] # None /\ ReserveInc(i)
        BY <1>4 DEF ClaimLost, FirstClaimable, Claimable
    <2>2. \A j \in JobId : j # i => jobs'[j] = jobs[j]
        BY <2>1, ReserveEffect
    <2>3. /\ \A v \in Workers : loop[v] = "holding" => hand[v].id # i
          /\ \A k \in Slots : slot[k] # None => slot[k].id # i
        BY <2>1, FreeDoc
    <2> QED
        BY <1>4, <2>2, <2>3, HeldQuiet DEF ClaimLost, workerVars
<1>5. ASSUME NEW w \in Workers, ShutdownRelease(w) PROVE HeldInv'
    <2>1. /\ loop[w] = "holding" /\ loop'[w] = "poll" /\ UNCHANGED <<now, slot>>
          /\ \A v \in Workers : v # w => loop'[v] = loop[v] /\ hand'[v] = hand[v]
        BY <1>5 DEF ShutdownRelease, HandBack, TypeOK, WorkerTypeOK
    <2>2. \A j \in JobId : j # hand[w].id => jobs'[j] = jobs[j]
        BY <1>5, <2>1, ReleaseEffect DEF ShutdownRelease
    <2>3. /\ \A v \in Workers : loop[v] = "holding" /\ v # w => hand[v].id # hand[w].id
          /\ \A k \in Slots : slot[k] # None => slot[k].id # hand[w].id
        BY <2>1 DEF HeldInv, Apart
    <2> QED
        BY <2>1, <2>2, <2>3, HeldQuiet
<1>6. ASSUME NEW w \in Workers, Interrupt(w) PROVE HeldInv'
    <2>1. CASE Cancel(w)
        BY <1>1, <1>6, <2>1 DEF Interrupt, Cancel, storeVars
    <2>2. CASE Crash(w)
        BY <1>1, <1>6, <2>2 DEF Interrupt, Crash, Vanish, storeVars, TypeOK, WorkerTypeOK
    <2> QED
        BY <1>6, <2>1, <2>2 DEF Interrupt
<1>7. ASSUME NEW k \in Slots, RunStep(k) \/ FailRecord(k) PROVE HeldInv'
    <2>1. slot[k] # None
        BY <1>7 DEF RunStep, RunOk, RunErr, FailRecord, WantsFail
    <2>2. slot'[k].id = slot[k].id /\ slot'[k].at = slot[k].at
        BY <1>7, <2>1 DEF RunStep, RunOk, RunErr, FailRecord, TypeOK, WorkerTypeOK, Task
    <2>3. \A x \in Slots : x # k => slot'[x] = slot[x]
        BY <1>7 DEF RunStep, RunOk, RunErr, FailRecord, TypeOK, WorkerTypeOK
    <2>4. UNCHANGED <<now, jobs, loop, hand>>
        BY <1>7 DEF RunStep, RunOk, RunErr, FailRecord, storeVars
    <2> QED
        BY <1>1, <2>1, <2>2, <2>3, <2>4
<1>8. ASSUME NEW k \in Slots, slot[k] # None, FreeSlot(k), now' = now,
             \A j \in JobId : j # slot[k].id => jobs'[j] = jobs[j]
      PROVE  HeldInv'
    <2>1. slot'[k] = None /\ \A x \in Slots : x # k => slot'[x] = slot[x]
        BY <1>8 DEF FreeSlot, TypeOK, WorkerTypeOK
    <2>2. UNCHANGED <<loop, hand>>
        BY <1>8 DEF FreeSlot
    <2>3. /\ \A v \in Workers : loop[v] = "holding" => hand[v].id # slot[k].id
          /\ \A x \in Slots : x # k /\ slot[x] # None => slot[x].id # slot[k].id
        BY <1>8 DEF HeldInv, Apart
    <2> QED
        BY <1>8, <2>1, <2>2, <2>3, HeldQuiet
<1>9. ASSUME NEW k \in Slots, Complete(k) \/ FailDelete(k) \/ OutcomeLost(k) PROVE HeldInv'
    <2>1. slot[k] # None /\ FreeSlot(k) /\ now' = now
        BY <1>9 DEF Complete, WantsComplete, FailDelete, OutcomeLost
    <2>2. \A j \in JobId : j # slot[k].id => jobs'[j] = jobs[j]
        BY <1>9, <2>1 DEF Complete, FailDelete, OutcomeLost, storeVars, TypeOK
    <2> QED
        BY <1>8, <2>1, <2>2
<1>10. ASSUME NEW k \in Slots, Release(k) PROVE HeldInv'
    <2>1. slot[k] # None /\ FreeSlot(k) /\ now' = now
        BY <1>10 DEF Release, WantsRelease
    <2>2. \A j \in JobId : j # slot[k].id => jobs'[j] = jobs[j]
        BY <1>10, <2>1, ReleaseTime, ReleaseEffect DEF Release
    <2> QED
        BY <1>8, <2>1, <2>2
<1>11. ASSUME NEW n, NEW m, NEW t, Push(n, m, t), UNCHANGED <<now, loop, hand, slot>>
       PROVE  HeldInv'
    <2>1. \A j \in JobId : j # nextId => jobs'[j] = jobs[j]
        BY <1>11 DEF Push, TypeOK
    <2> QED
        BY <1>11, <2>1, NextIsNew, HeldQuiet
<1>12. ASSUME NEW n \in Names, NEW d \in 0..MaxDelay, Dispatch(n, d) PROVE HeldInv'
    BY <1>11, <1>12 DEF Dispatch, workerVars
<1>13. ASSUME NEW o \in Operators, RetryPush(o) PROVE HeldInv'
    BY <1>11, <1>13 DEF RetryPush, workerVars
<1>14. ASSUME NEW o \in Operators, RetryClear(o) \/ RetryAbort(o) \/ \E i \in JobId : RetryRead(o, i)
       PROVE  HeldInv'
    BY <1>1, <1>14 DEF RetryClear, RetryAbort, RetryRead, workerVars
<1>15. CASE Tick
    <2>1. now' = now + 1 /\ Punctual(Timeout) /\ UNCHANGED <<loop, hand, slot, jobs>>
        BY <1>15 DEF Tick, Advance, workerVars, storeVars
    <2>2. ASSUME NEW a \in Nat, a <= now, now < a + Timeout
          PROVE  a <= now + 1 /\ now + 1 <= a + Timeout
        BY <2>2, QueueAssumption
    <2>3. HeldIsReserved'
        BY <2>1, <2>2 DEF HeldInv, HeldIsReserved, Reserves, Punctual
    <2>4. Apart'
        BY <2>1 DEF HeldInv, Apart
    <2> QED
        BY <2>3, <2>4 DEF HeldInv
<1>16. CASE UNCHANGED vars
    BY <1>1, <1>16 DEF vars
<1> QED
    BY Steps, <1>2, <1>3, <1>4, <1>5, <1>6, <1>7, <1>9, <1>10, <1>12, <1>13, <1>14, <1>15, <1>16
    DEF ClaimNothing

\* Once a claim has outlived its reservation, that stays on record.
LEMMA OverrunSticks == [Next]_vars /\ ~overran' => ~overran
<1> SUFFICES ASSUME [Next]_vars, ~overran' PROVE ~overran
    OBVIOUS
<1>1. CASE Tick
    BY <1>1 DEF Tick, Advance
<1>2. ASSUME UNCHANGED clock PROVE ~overran
    BY <1>2
<1> QED
    BY Steps, <1>1, <1>2
    DEF Dispatch, LoopStep, ClaimNothing, Claim, ClaimLost, ShutdownRelease, Interrupt, RunStep,
        Complete, Release, FailRecord, FailDelete, OutcomeLost, RetryPush, RetryClear, RetryAbort,
        RetryRead, vars

\* Claim is one findAndModify: every run of a job was paid for by an attempt on
\* its document, even when claims overrun, replies are lost and workers die, and
\* as long as claims stay inside the reservation timeout no two goroutines hold
\* the same job.
THEOREM OneHolder == Spec => []ExclusiveClaim
<1> DEFINE PunctualInv == ~overran => HeldInv
<1>1. Init => CountInv /\ PunctualInv
    BY CountInit, HeldInit
<1>2. /\ TypeOK /\ LedgerInv /\ CountInv /\ PunctualInv
      /\ TypeOK' /\ [Next]_vars
      => CountInv' /\ PunctualInv'
    BY CountStep, HeldStep, OverrunSticks DEF LedgerInv
<1>3. TypeOK /\ CountInv /\ PunctualInv => ExclusiveClaim
    <2>1. ASSUME TypeOK, CountInv PROVE TriesCounted
        <3>1. \A i \in JobId : jobs[i] # None =>
                /\ tries[i] + Cardinality(ClaimsOf(i)) <= jobs[i].attempts
                /\ tries[i] \in Nat /\ jobs[i].attempts \in Nat
            BY <2>1 DEF CountInv, ClaimsPaid, TypeOK, WorkerTypeOK, Doc
        <3> QED
            BY <3>1, ClaimsFinite DEF TriesCounted
    <2>2. ASSUME TypeOK, PunctualInv, ~overran
          PROVE  \A i \in JobId : \A x, y \in Holders(i) : x = y
        BY <2>2, ApartIsExclusive DEF HeldInv
    <2> QED
        BY <2>1, <2>2 DEF ExclusiveClaim
<1> QED
    BY <1>1, <1>2, <1>3, LedgerAlways, PTL DEF Spec
=============================================================================
