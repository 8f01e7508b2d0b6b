--------------------------- MODULE DBQueueProofs ---------------------------
(***************************************************************************)
(* Theorems about DBQueue, for any number of workers, tokens, jobs and     *)
(* operators and any bounds on time and faults.                            *)
(***************************************************************************)
EXTENDS DBQueue, TLAPS

USE DEF clock

\* The steps of the system, one case per action.
LEMMA Steps ==
    ASSUME Next
    PROVE  \/ \E n \in Names, d \in 0..MaxDelay : Dispatch(n, d)
           \/ \E w \in Workers :
                \/ LoopStep(w) \/ ClaimNothing(w) \/ ClaimSelect(w) \/ ClaimUpdate(w)
                \/ ClaimMiss(w) \/ ClaimError(w) \/ ShutdownRelease(w) \/ Interrupt(w)
           \/ \E k \in Slots :
                \/ RunStep(k) \/ Complete(k) \/ Release(k) \/ Fail(k) \/ OutcomeLost(k)
           \/ \E o \in Operators :
                \/ RetryCommit(o) \/ RetryAbort(o)
                \/ \E f \in FailId : RetryRead(o, f)
           \/ Tick
BY DEF Next, WorkerStep, SlotStep, RetryStep

\* A backoff is a delay, whatever the attempt.
LEMMA BackoffType ==
    ASSUME NEW n \in Names, NEW a \in Nat
    PROVE  BackoffOf(n, a) \in Nat
<1> DEFINE m == IF a < 1 THEN 1 ELSE a
<1>1. m \in Nat
    OBVIOUS
<1>2. m * m \in Nat
    BY <1>1
<1>3. m * m * BackoffUnit \in Nat
    <2> HIDE DEF m
    <2> QED BY <1>2, QueueAssumption
<1>4. DefaultBackoff(a) \in Nat
    BY <1>3, QueueAssumption DEF DefaultBackoff
<1> QED
    BY <1>4, QueueAssumption DEF BackoffOf
-----------------------------------------------------------------------------
LEMMA TypeInit == Init => TypeOK
<1> SUFFICES ASSUME Init PROVE TypeOK
    OBVIOUS
<1>1. overran \in BOOLEAN
    BY DEF Init, WorkerInit
<1>2. jobs \in [JobId -> Row \cup {None}] /\ op \in [Operators -> [row: FailId, job: JobId] \cup {None}]
    BY DEF Init
<1>3. failed \in [FailId -> JobId \cup {None}] /\ nextFail \in Nat \ {0} /\ requeued \subseteq JobId
    BY FailAssumption DEF Init
<1> QED
    BY <1>1, <1>2, <1>3, QueueAssumption DEF Init, WorkerInit, TypeOK, WorkerTypeOK

\* Every step keeps the types: the worker's share first, then the tables.
LEMMA TypeStep == TypeOK /\ MintedOnly /\ [Next]_vars => TypeOK'
<1> SUFFICES ASSUME TypeOK, MintedOnly, [Next]_vars PROVE TypeOK'
    OBVIOUS
<1> USE QueueAssumption, FailAssumption, NoneNotNat, NoneAssumption, NoRowAssumption
<1>0. ASSUME NEW n \in Names \cup {None}, NEW m \in Nat \ {0}, NEW t \in Nat, Push(n, m, t)
      PROVE  /\ jobs' \in [JobId -> Row \cup {None}]
             /\ kind' \in [JobId -> Names \cup {None}]
             /\ nextId' \in Nat \ {0}
    <2>1. nextId \in JobId
        BY <1>0 DEF Push, MintId, TypeOK, WorkerTypeOK, JobId
    <2>2. [attempts |-> 0, max |-> m, available |-> t, reserved |-> None] \in Row
        BY DEF Row
    <2> QED
        BY <1>0, <2>1, <2>2 DEF Push, MintId, TypeOK, WorkerTypeOK
<1>1. ASSUME NEW n \in Names, NEW d \in 0..MaxDelay, Dispatch(n, d) PROVE TypeOK'
    <2>1. Push(n, MaxAttemptsOf[n], now + d) /\ now + d \in Nat
        BY <1>1 DEF Dispatch, TypeOK, WorkerTypeOK
    <2>2. MaxAttemptsOf[n] \in Nat \ {0}
        OBVIOUS
    <2> QED
        BY <1>0, <1>1, <2>1, <2>2 DEF Dispatch, NoFault, TypeOK, WorkerTypeOK, workerVars
<1>2. ASSUME NEW w \in Workers, LoopStep(w) PROVE TypeOK'
    <2> USE DEF TypeOK, WorkerTypeOK, mintVars, storeVars, NoFault
    <2>1. CASE StartDraining(w)
        BY <1>2, <2>1 DEF LoopStep, StartDraining
    <2>2. CASE Drained(w)
        BY <1>2, <2>2 DEF LoopStep, Drained
    <2>3. CASE Restart(w)
        BY <1>2, <2>3 DEF LoopStep, Restart
    <2>4. CASE DrainTimeout(w)
        BY <1>2, <2>4 DEF LoopStep, DrainTimeout, Vanish
    <2>5. ASSUME NEW k \in Slots, TakeSlot(w, k) PROVE TypeOK'
        <3>1. hand[w] \in Rec
            BY <2>5 DEF TakeSlot
        <3>2. slot' \in [Slots -> Task \cup {None}] /\ tries' \in [JobId -> Nat]
            BY <2>5, <3>1 DEF TakeSlot, Rec, Task, Stages
        <3> QED
            BY <1>2, <2>5, <3>2 DEF LoopStep, TakeSlot
    <2> QED
        BY <1>2, <2>1, <2>2, <2>3, <2>4, <2>5 DEF LoopStep
<1>3. ASSUME NEW w \in Workers, ClaimSelect(w) PROVE TypeOK'
    <2>1. PICK i \in JobId :
            /\ FirstClaimable(w, i, now)
            /\ EnterClaim(w, [id |-> i, attempts |-> jobs[i].attempts,
                              max |-> jobs[i].max, at |-> now])
            /\ UNCHANGED <<clock, mintVars, storeVars>>
        BY <1>3 DEF ClaimSelect
    <2>2. jobs[i] \in Row
        BY <2>1 DEF TypeOK, FirstClaimable, Claimable
    <2>3. [id |-> i, attempts |-> jobs[i].attempts, max |-> jobs[i].max, at |-> now] \in Rec
        BY <2>2 DEF TypeOK, WorkerTypeOK, Rec, Row
    <2>4. overran' \in BOOLEAN
        BY <2>1 DEF TypeOK, WorkerTypeOK
    <2> QED
        BY <2>1, <2>3, <2>4 DEF EnterClaim, NoFault, TypeOK, WorkerTypeOK, mintVars, storeVars
<1>4. ASSUME NEW w \in Workers, loop[w] = "claiming"
      PROVE  /\ hand[w] \in Rec
             /\ [hand[w] EXCEPT !.attempts = @ + 1] \in Rec
             /\ StillMine(hand[w]) /\ Reserve(hand[w]) => jobs' \in [JobId -> Row \cup {None}]
    <2>1. hand[w] \in Rec
        BY <1>4 DEF TypeOK, WorkerTypeOK
    <2>2. [hand[w] EXCEPT !.attempts = @ + 1] \in Rec
        BY <2>1 DEF Rec
    <2>3. ASSUME StillMine(hand[w]), Reserve(hand[w])
          PROVE  jobs' \in [JobId -> Row \cup {None}]
        <3>1. jobs[hand[w].id] \in Row
            BY <2>1, <2>3 DEF StillMine, TypeOK, Rec
        <3> QED
            BY <2>1, <2>3, <3>1 DEF Reserve, TypeOK, Rec, Row
    <2> QED
        BY <2>1, <2>2, <2>3
<1>5. ASSUME NEW w \in Workers, ClaimUpdate(w) PROVE TypeOK'
    BY <1>4, <1>5 DEF ClaimUpdate, Receive, NoFault, TypeOK, WorkerTypeOK, mintVars
<1>6. ASSUME NEW w \in Workers, ClaimMiss(w) PROVE TypeOK'
    BY <1>6 DEF ClaimMiss, ReceiveNothing, NoFault, TypeOK, WorkerTypeOK, mintVars, storeVars
<1>7. ASSUME NEW w \in Workers, ClaimError(w) PROVE TypeOK'
    <2>1. jobs' \in [JobId -> Row \cup {None}]
        BY <1>4, <1>7 DEF ClaimError, TypeOK
    <2> QED
        BY <1>7, <2>1 DEF ClaimError, ReceiveNothing, NoFault, Fault, TypeOK, WorkerTypeOK, mintVars
<1>8. ASSUME NEW i \in JobId, NEW t \in Nat, RowRelease(i, t)
      PROVE  jobs' \in [JobId -> Row \cup {None}]
    <2>1. CASE jobs[i] = None
        BY <1>8, <2>1 DEF RowRelease, TypeOK
    <2>2. CASE jobs[i] # None
        <3>1. jobs[i] \in Row
            BY <2>2 DEF TypeOK
        <3> QED
            BY <1>8, <2>2, <3>1 DEF RowRelease, TypeOK, Row
    <2> QED
        BY <2>1, <2>2
<1>9. ASSUME NEW w \in Workers, ShutdownRelease(w) PROVE TypeOK'
    <2>1. hand[w].id \in JobId
        BY <1>9 DEF ShutdownRelease, HandBack, TypeOK, WorkerTypeOK, Rec
    <2>2. now \in Nat
        BY DEF TypeOK, WorkerTypeOK
    <2>3. jobs' \in [JobId -> Row \cup {None}]
        BY <1>8, <1>9, <2>1, <2>2 DEF ShutdownRelease, TypeOK
    <2> QED
        BY <1>9, <2>3 DEF ShutdownRelease, HandBack, Fault, NoFault, TypeOK, WorkerTypeOK, mintVars
<1>10. ASSUME NEW w \in Workers, Interrupt(w) PROVE TypeOK'
    BY <1>10 DEF Interrupt, Cancel, Crash, Vanish, Fault, TypeOK, WorkerTypeOK, mintVars, storeVars
<1>11. ASSUME NEW k \in Slots, RunStep(k) PROVE TypeOK'
    <2>1. slot[k] \in Task
        BY <1>11 DEF RunStep, RunOk, RunErr, TypeOK, WorkerTypeOK
    <2>2. slot' \in [Slots -> Task \cup {None}] /\ done' \subseteq JobId
        BY <1>11, <2>1 DEF RunStep, RunOk, RunErr, TypeOK, WorkerTypeOK, Task, Stages
    <2> QED
        BY <1>11, <2>2 DEF RunStep, RunOk, RunErr, NoFault, TypeOK, WorkerTypeOK, mintVars, storeVars
<1>12. ASSUME NEW k \in Slots, slot[k] # None
       PROVE slot[k] \in Task /\ slot[k].id \in JobId /\ slot[k].attempts \in Nat
    BY <1>12 DEF TypeOK, WorkerTypeOK, Task
<1>13. ASSUME NEW k \in Slots, Complete(k) PROVE TypeOK'
    BY <1>12, <1>13 DEF Complete, WantsComplete, FreeSlot, NoFault, TypeOK, WorkerTypeOK, mintVars
<1>14. ASSUME NEW k \in Slots, Release(k) PROVE TypeOK'
    <2>1. slot[k] # None
        BY <1>14 DEF Release, WantsRelease
    <2>2. kind[slot[k].id] \in Names
        BY <1>12, <2>1 DEF MintedOnly
    <2>3. now + BackoffOf(kind[slot[k].id], slot[k].attempts) \in Nat
        BY <1>12, <2>1, <2>2, BackoffType DEF TypeOK, WorkerTypeOK
    <2>4. jobs' \in [JobId -> Row \cup {None}]
        BY <1>8, <1>12, <1>14, <2>1, <2>3 DEF Release
    <2> QED
        BY <1>14, <2>4 DEF Release, FreeSlot, NoFault, TypeOK, WorkerTypeOK, mintVars
<1>15. ASSUME NEW k \in Slots, Fail(k) PROVE TypeOK'
    <2>1. slot[k].id \in JobId
        BY <1>12, <1>15 DEF Fail, WantsFail
    <2>2. nextFail \in FailId
        BY <1>15 DEF Fail, Bury, TypeOK, FailId
    <2>3. /\ jobs' \in [JobId -> Row \cup {None}]
          /\ failed' \in [FailId -> JobId \cup {None}]
          /\ nextFail' \in Nat \ {0}
        BY <1>15, <2>1, <2>2 DEF Fail, Bury, TypeOK
    <2> QED
        BY <1>15, <2>3 DEF Fail, FreeSlot, NoFault, TypeOK, WorkerTypeOK, mintVars
<1>16. ASSUME NEW k \in Slots, OutcomeLost(k) PROVE TypeOK'
    BY <1>16 DEF OutcomeLost, FreeSlot, Fault, TypeOK, WorkerTypeOK, mintVars, storeVars
<1>17. ASSUME NEW o \in Operators, RetryCommit(o) PROVE TypeOK'
    <2>1. op[o] \in [row: FailId, job: JobId]
        BY <1>17 DEF RetryCommit, TypeOK
    <2>2. Push(kind[op[o].job], DefaultMaxAttempts, now) /\ kind[op[o].job] \in Names \cup {None}
        BY <1>17, <2>1 DEF RetryCommit, TypeOK, WorkerTypeOK
    <2>3. /\ jobs' \in [JobId -> Row \cup {None}]
          /\ kind' \in [JobId -> Names \cup {None}]
          /\ nextId' \in Nat \ {0}
        BY <1>0, <2>2 DEF TypeOK, WorkerTypeOK
    <2> QED
        BY <1>17, <2>1, <2>3 DEF RetryCommit, TypeOK, WorkerTypeOK, workerVars
<1>18. ASSUME NEW o \in Operators, RetryAbort(o) PROVE TypeOK'
    BY <1>18 DEF RetryAbort, TypeOK, WorkerTypeOK, workerVars, mintVars
<1>19. ASSUME NEW o \in Operators, NEW f \in FailId, RetryRead(o, f) PROVE TypeOK'
    BY <1>19 DEF RetryRead, TypeOK, WorkerTypeOK, workerVars, mintVars
<1>20. CASE Tick
    BY <1>20 DEF Tick, Advance, TypeOK, WorkerTypeOK, workerVars, mintVars, storeVars
<1>21. CASE UNCHANGED vars
    BY <1>21 DEF vars, TypeOK, WorkerTypeOK
<1> QED
    BY Steps, <1>1, <1>2, <1>3, <1>5, <1>6, <1>7, <1>9, <1>10, <1>11, <1>13, <1>14, <1>15,
       <1>16, <1>17, <1>18, <1>19, <1>20, <1>21 DEF ClaimNothing
-----------------------------------------------------------------------------
(* The ledger: no job is lost, none is both pending and failed.            *)

LEMMA LedgerInit == Init => LedgerInv
BY DEF Init, WorkerInit, LedgerInv, MintedOnly, OkIsDone, RetryKnown, NoJobLost,
       NeverPendingAndFailed, Buried, JobId

\* Fail adds its job to the failed ones and touches no other row.
LEMMA BuryEffect ==
    ASSUME TypeOK, LedgerInv, NEW i \in JobId, Bury(i)
    PROVE  Buried' = Buried \cup {i}
<1>1. nextFail \in FailId /\ failed[nextFail] = None
    BY FailAssumption DEF Bury, TypeOK, FailId, LedgerInv, MintedOnly
<1>2. failed' = [failed EXCEPT ![nextFail] = i] /\ i # None
    BY NoRowAssumption DEF Bury
<1> QED
    BY <1>1, <1>2 DEF Buried, TypeOK

\* Retry takes at most its own job out of the failed ones.
LEMMA RetryEffect ==
    ASSUME TypeOK, LedgerInv, NEW o \in Operators, RetryCommit(o)
    PROVE  /\ op[o].job \in JobId /\ op[o].job \in Buried \cup requeued
           /\ nextId \in JobId /\ nextId' = nextId + 1
           /\ Buried' \in {Buried, Buried \ {op[o].job}}
<1>1. op[o] \in [row: FailId, job: JobId]
    BY DEF RetryCommit, TypeOK
<1>2. failed[op[o].row] \in {None, op[o].job} /\ op[o].job \in Buried \cup requeued
    BY DEF RetryCommit, LedgerInv, RetryKnown
<1>3. failed' = [failed EXCEPT ![op[o].row] = None]
    BY DEF RetryCommit
<1>4. Buried \ {op[o].job} \subseteq Buried' /\ Buried' \subseteq Buried
    BY <1>1, <1>2, <1>3 DEF Buried, TypeOK
<1>5. nextId \in JobId /\ nextId' = nextId + 1
    BY QueueAssumption DEF RetryCommit, Push, MintId, TypeOK, WorkerTypeOK, JobId
<1> QED
    BY <1>1, <1>2, <1>4, <1>5

\* Settled jobs have ids that were minted, so none of them is the next one.
LEMMA SettledMinted ==
    ASSUME TypeOK, MintedOnly
    PROVE  \A i \in Buried \cup requeued \cup done : i \in JobId /\ i < nextId /\ i # nextId
<1>1. \A i \in Buried : i \in JobId
    BY DEF Buried, TypeOK
<1>2. \A i \in requeued \cup done : i \in JobId
    BY DEF TypeOK, WorkerTypeOK
<1>3. \A i \in Buried \cup requeued \cup done : i < nextId
    BY DEF MintedOnly
<1>4. \A i \in JobId : i < nextId => i # nextId
    BY DEF JobId
<1> QED
    BY <1>1, <1>2, <1>3, <1>4

\* Pushing a job keeps MintedOnly when nothing else but the failed jobs and
\* the operators, which may only let go, has changed.
LEMMA MintedPush ==
    ASSUME TypeOK, MintedOnly,
           nextId \in JobId, nextId' = nextId + 1,
           \A i \in JobId : i # nextId => jobs'[i] = jobs[i] /\ kind'[i] = kind[i],
           kind'[nextId] \in Names,
           UNCHANGED <<hand, slot, nextFail>>,
           Buried' \cup requeued' \cup done' \subseteq Buried \cup requeued \cup done,
           \A f \in FailId : failed'[f] = None \/ failed'[f] = failed[f],
           \A o \in Operators : op'[o] = None \/ op'[o] = op[o]
    PROVE  MintedOnly'
<1>1. \A i \in JobId : i < nextId => i < nextId'
    BY DEF JobId
<1>2. nextId < nextId'
    BY DEF JobId
<1>3. \A i \in JobId : i < nextId' => i < nextId \/ i = nextId
    BY DEF JobId
<1>4. /\ \A w \in Workers : hand[w] # None => hand[w].id \in JobId
      /\ \A k \in Slots : slot[k] # None => slot[k].id \in JobId
      /\ \A o \in Operators : op[o] # None => op[o].job \in JobId
    BY DEF TypeOK, WorkerTypeOK, Rec, Task
<1>5. \A i \in JobId : i < nextId' => kind'[i] \in Names
    BY <1>3 DEF MintedOnly
<1>6. \A i \in JobId : jobs'[i] # None => i < nextId'
    BY <1>1, <1>2 DEF MintedOnly
<1>7. \A o \in Operators : op'[o] # None => op'[o].job < nextId'
    BY <1>1, <1>4 DEF MintedOnly
<1>8. \A i \in Buried' \cup requeued' \cup done' : i < nextId'
    BY <1>1, SettledMinted
<1>9. /\ \A w \in Workers : hand'[w] # None => hand'[w].id < nextId'
      /\ \A k \in Slots : slot'[k] # None => slot'[k].id < nextId'
    BY <1>1, <1>4 DEF MintedOnly
<1> QED
    BY <1>5, <1>6, <1>7, <1>8, <1>9 DEF MintedOnly

\* Reserving a row, in Claim, neither adds nor removes one.
LEMMA ReserveKeepsRows ==
    ASSUME TypeOK, NEW w \in Workers, loop[w] = "claiming", StillMine(hand[w]), Reserve(hand[w])
    PROVE  \A i \in JobId : (jobs'[i] # None) <=> (jobs[i] # None)
<1>1. hand[w] \in Rec
    BY DEF TypeOK, WorkerTypeOK
<1>2. hand[w].id \in JobId /\ jobs[hand[w].id] \in Row
    BY <1>1 DEF StillMine, TypeOK, Rec
<1>3. hand[w].at \in Nat /\ hand[w].attempts + 1 \in Nat
    BY <1>1 DEF Rec
<1>4. jobs'[hand[w].id] =
        [jobs[hand[w].id] EXCEPT !.reserved = hand[w].at, !.attempts = hand[w].attempts + 1]
    BY <1>2 DEF Reserve, TypeOK, Row
<1>5. jobs'[hand[w].id] \in Row
    BY <1>2, <1>3, <1>4 DEF Row
<1>6. \A i \in JobId : i # hand[w].id => jobs'[i] = jobs[i]
    BY <1>2 DEF Reserve, TypeOK
<1> QED
    BY <1>2, <1>5, <1>6, NoRowAssumption

\* Neither does Release, whether or not the row is still there.
LEMMA ReleaseKeepsRows ==
    ASSUME TypeOK, NEW i \in JobId, NEW t \in Nat, RowRelease(i, t)
    PROVE  \A j \in JobId : (jobs'[j] # None) <=> (jobs[j] # None)
<1>1. CASE jobs[i] = None
    BY <1>1 DEF RowRelease
<1>2. CASE jobs[i] # None
    <2>1. jobs[i] \in Row
        BY <1>2 DEF TypeOK
    <2>2. jobs'[i] = [jobs[i] EXCEPT !.reserved = None, !.available = t]
        BY <1>2 DEF RowRelease, TypeOK
    <2>3. jobs'[i] \in Row
        BY <2>1, <2>2 DEF Row
    <2>4. \A j \in JobId : j # i => jobs'[j] = jobs[j]
        BY <1>2 DEF RowRelease, TypeOK
    <2> QED
        BY <1>2, <2>3, <2>4, NoRowAssumption
<1> QED
    BY <1>1, <1>2

\* A step that changes no table and takes its records from where they were.
LEMMA LedgerQuiet ==
    ASSUME TypeOK, LedgerInv,
           UNCHANGED <<kind, nextId, failed, nextFail, requeued, op>>,
           \A i \in JobId : (jobs'[i] # None) <=> (jobs[i] # None),
           \A w \in Workers : hand'[w] # None =>
               \/ hand[w] # None /\ hand'[w].id = hand[w].id
               \/ hand'[w].id \in JobId /\ jobs[hand'[w].id] # None,
           \A k \in Slots : slot'[k] # None =>
               \/ slot[k] # None /\ slot'[k].id = slot[k].id
               \/ \E w \in Workers : hand[w] # None /\ slot'[k].id = hand[w].id,
           done \subseteq done',
           \A i \in done' \ done : i < nextId,
           \A k \in Slots : slot'[k] # None /\ slot'[k].stage = "ok" => slot'[k].id \in done'
    PROVE  LedgerInv'
<1>1. Buried' = Buried
    BY DEF Buried
<1>2. MintedOnly'
    BY <1>1 DEF LedgerInv, MintedOnly
<1>3. OkIsDone' /\ RetryKnown'
    BY <1>1 DEF LedgerInv, OkIsDone, RetryKnown
<1>4. NoJobLost' /\ NeverPendingAndFailed'
    <2>1. \A i \in Buried \cup requeued : i \in JobId
        BY DEF Buried, TypeOK
    <2> QED
        BY <1>1, <2>1 DEF LedgerInv, NoJobLost, NeverPendingAndFailed
<1> QED
    BY <1>2, <1>3, <1>4 DEF LedgerInv

LEMMA LedgerStep == TypeOK /\ LedgerInv /\ [Next]_vars => LedgerInv'
<1> SUFFICES ASSUME TypeOK, LedgerInv, [Next]_vars PROVE LedgerInv'
    OBVIOUS
<1>a. TypeOK'
    BY TypeStep DEF LedgerInv
<1>b. ASSUME NEW k \in Slots, slot[k] # None
      PROVE  slot[k] \in Task /\ slot[k].id \in JobId /\ slot[k].id < nextId
    BY <1>b DEF TypeOK, WorkerTypeOK, Task, LedgerInv, MintedOnly
<1>c. ASSUME NEW w \in Workers, hand[w] # None
      PROVE  hand[w] \in Rec /\ hand[w].id \in JobId /\ hand[w].id < nextId
    BY <1>c DEF TypeOK, WorkerTypeOK, Rec, LedgerInv, MintedOnly
<1>d. ASSUME NEW k \in Slots, slot[k] # None, slot[k].stage = "ok"
      PROVE  slot[k].id \in done
    BY <1>d DEF LedgerInv, OkIsDone
<1>2. ASSUME NEW w \in Workers, LoopStep(w) PROVE LedgerInv'
    <2> USE DEF mintVars, storeVars, LoopStep
    <2>1. CASE StartDraining(w)
        BY <1>2, <2>1, <1>c, <1>d, LedgerQuiet DEF StartDraining
    <2>2. CASE Drained(w)
        BY <1>2, <2>2, <1>c, <1>d, LedgerQuiet DEF Drained
    <2>3. CASE Restart(w)
        BY <1>2, <2>3, <1>c, <1>d, LedgerQuiet DEF Restart
    <2>4. CASE DrainTimeout(w)
        BY <1>2, <2>4, <1>c, <1>d, LedgerQuiet DEF DrainTimeout, Vanish, TypeOK, WorkerTypeOK
    <2>5. ASSUME NEW k \in Slots, TakeSlot(w, k) PROVE LedgerInv'
        <3>1. hand[w] # None
            BY <2>5 DEF TakeSlot, TypeOK, WorkerTypeOK
        <3>2. slot'[k].id = hand[w].id /\ slot'[k].stage = "run"
            BY <2>5 DEF TakeSlot, TypeOK, WorkerTypeOK
        <3>3. \A x \in Slots : x # k => slot'[x] = slot[x]
            BY <2>5 DEF TakeSlot, TypeOK, WorkerTypeOK
        <3>4. \A x \in Workers : hand'[x] = None \/ hand'[x] = hand[x]
            BY <2>5 DEF TakeSlot, TypeOK, WorkerTypeOK
        <3>5. UNCHANGED <<kind, nextId, failed, nextFail, requeued, op, jobs, done>>
            BY <1>2, <2>5 DEF TakeSlot
        <3>6. \A x \in Slots : slot'[x] # None /\ slot'[x].stage = "ok" => slot'[x].id \in done'
            BY <3>2, <3>3, <3>5, <1>d
        <3>7. \A x \in Slots : slot'[x] # None =>
               \/ slot[x] # None /\ slot'[x].id = slot[x].id
               \/ \E v \in Workers : hand[v] # None /\ slot'[x].id = hand[v].id
            BY <3>1, <3>2, <3>3
        <3>8. \A x \in Workers : hand'[x] # None =>
               \/ hand[x] # None /\ hand'[x].id = hand[x].id
               \/ hand'[x].id \in JobId /\ jobs[hand'[x].id] # None
            BY <3>4
        <3> QED
            BY <3>5, <3>6, <3>7, <3>8, LedgerQuiet
    <2> QED
        BY <1>2, <2>1, <2>2, <2>3, <2>4, <2>5
<1>3. ASSUME NEW w \in Workers, ClaimSelect(w) PROVE LedgerInv'
    <2>1. PICK i \in JobId :
            /\ FirstClaimable(w, i, now)
            /\ EnterClaim(w, [id |-> i, attempts |-> jobs[i].attempts,
                              max |-> jobs[i].max, at |-> now])
            /\ UNCHANGED <<clock, mintVars, storeVars>>
        BY <1>3 DEF ClaimSelect
    <2>2. jobs[i] # None
        BY <2>1 DEF FirstClaimable, Claimable
    <2>3. hand'[w].id = i /\ \A x \in Workers : x # w => hand'[x] = hand[x]
        BY <2>1 DEF EnterClaim, TypeOK, WorkerTypeOK
    <2> QED
        BY <2>1, <2>2, <2>3, <1>d, LedgerQuiet DEF EnterClaim, mintVars, storeVars
<1>5. ASSUME NEW w \in Workers, ClaimUpdate(w) PROVE LedgerInv'
    <2>1. hand[w] # None /\ hand[w] \in Rec
        BY <1>c, <1>5 DEF ClaimUpdate, TypeOK, WorkerTypeOK
    <2>2. hand'[w].id = hand[w].id /\ \A x \in Workers : x # w => hand'[x] = hand[x]
        BY <1>5, <2>1 DEF ClaimUpdate, Receive, TypeOK, WorkerTypeOK, Rec
    <2>3. \A i \in JobId : (jobs'[i] # None) <=> (jobs[i] # None)
        BY ReserveKeepsRows, <1>5 DEF ClaimUpdate
    <2> QED
        BY <1>5, <2>1, <2>2, <2>3, <1>d, LedgerQuiet DEF ClaimUpdate, Receive, mintVars
<1>6. ASSUME NEW w \in Workers, ClaimMiss(w) PROVE LedgerInv'
    <2>1. \A x \in Workers : hand'[x] = None \/ hand'[x] = hand[x]
        BY <1>6 DEF ClaimMiss, ReceiveNothing, TypeOK, WorkerTypeOK
    <2> QED
        BY <1>6, <2>1, <1>d, LedgerQuiet DEF ClaimMiss, ReceiveNothing, mintVars, storeVars
<1>7. ASSUME NEW w \in Workers, ClaimError(w) PROVE LedgerInv'
    <2>1. \A x \in Workers : hand'[x] = None \/ hand'[x] = hand[x]
        BY <1>7 DEF ClaimError, ReceiveNothing, TypeOK, WorkerTypeOK
    <2>2. \A i \in JobId : (jobs'[i] # None) <=> (jobs[i] # None)
        BY ReserveKeepsRows, <1>7 DEF ClaimError
    <2> QED
        BY <1>7, <2>1, <2>2, <1>d, LedgerQuiet DEF ClaimError, ReceiveNothing, mintVars
<1>9. ASSUME NEW w \in Workers, ShutdownRelease(w) PROVE LedgerInv'
    <2>1. \A x \in Workers : hand'[x] = None \/ hand'[x] = hand[x]
        BY <1>9 DEF ShutdownRelease, HandBack, TypeOK, WorkerTypeOK
    <2>2. hand[w].id \in JobId
        BY <1>c, <1>9 DEF ShutdownRelease, HandBack, TypeOK, WorkerTypeOK
    <2>3. \A i \in JobId : (jobs'[i] # None) <=> (jobs[i] # None)
        BY ReleaseKeepsRows, <1>9, <2>2 DEF ShutdownRelease, TypeOK, WorkerTypeOK
    <2> QED
        BY <1>9, <2>1, <2>3, <1>d, LedgerQuiet DEF ShutdownRelease, HandBack, mintVars
<1>10. ASSUME NEW w \in Workers, Interrupt(w) PROVE LedgerInv'
    <2>1. \A x \in Workers : hand'[x] = None \/ hand'[x] = hand[x]
        BY <1>10 DEF Interrupt, Cancel, Crash, Vanish, TypeOK, WorkerTypeOK
    <2>2. \A k \in Slots : slot'[k] = None \/ slot'[k] = slot[k]
        BY <1>10 DEF Interrupt, Cancel, Crash, Vanish, TypeOK, WorkerTypeOK
    <2>3. UNCHANGED <<jobs, done, kind, nextId, failed, nextFail, requeued, op>>
        BY <1>10 DEF Interrupt, Cancel, Crash, Vanish, mintVars, storeVars
    <2> QED
        BY <2>1, <2>2, <2>3, <1>d, LedgerQuiet
<1>11. ASSUME NEW k \in Slots, RunStep(k) PROVE LedgerInv'
    <2>1. slot[k] # None /\ slot[k] \in Task
        BY <1>b, <1>11 DEF RunStep, RunOk, RunErr
    <2>2. slot'[k].id = slot[k].id /\ \A x \in Slots : x # k => slot'[x] = slot[x]
        BY <1>11, <2>1 DEF RunStep, RunOk, RunErr, TypeOK, WorkerTypeOK, Task
    <2>3. slot'[k].stage = "ok" => slot[k].id \in done'
        BY <1>11, <2>1 DEF RunStep, RunOk, RunErr, TypeOK, WorkerTypeOK, Task
    <2>4. done \subseteq done' /\ \A i \in done' \ done : i < nextId
        BY <1>b, <1>11, <2>1 DEF RunStep, RunOk, RunErr
    <2>5. UNCHANGED <<jobs, hand, kind, nextId, failed, nextFail, requeued, op>>
        BY <1>11 DEF RunStep, RunOk, RunErr, mintVars, storeVars
    <2> QED
        BY <2>1, <2>2, <2>3, <2>4, <2>5, <1>d, LedgerQuiet
<1>12. ASSUME NEW k \in Slots, FreeSlot(k)
       PROVE  /\ \A x \in Slots : slot'[x] = None \/ slot'[x] = slot[x]
              /\ UNCHANGED <<hand, done>>
    BY <1>12 DEF FreeSlot, TypeOK, WorkerTypeOK
<1>13. ASSUME NEW k \in Slots, OutcomeLost(k) PROVE LedgerInv'
    BY <1>12, <1>13, <1>d, LedgerQuiet DEF OutcomeLost, mintVars, storeVars
<1>14. ASSUME NEW k \in Slots, Release(k) PROVE LedgerInv'
    <2>1. slot[k] # None /\ kind[slot[k].id] \in Names /\ slot[k].attempts \in Nat
        BY <1>b, <1>14 DEF Release, WantsRelease, LedgerInv, MintedOnly, Task
    <2>2. now + BackoffOf(kind[slot[k].id], slot[k].attempts) \in Nat
        BY <2>1, BackoffType DEF TypeOK, WorkerTypeOK
    <2>3. \A i \in JobId : (jobs'[i] # None) <=> (jobs[i] # None)
        BY <1>b, ReleaseKeepsRows, <1>14, <2>1, <2>2 DEF Release
    <2> QED
        BY <1>12, <1>14, <2>3, <1>d, LedgerQuiet DEF Release, mintVars
<1>15. ASSUME NEW k \in Slots, Complete(k) PROVE LedgerInv'
    <2>1. slot[k] # None /\ slot[k].id \in JobId /\ slot[k].id \in done
        BY <1>b, <1>d, <1>15 DEF Complete, WantsComplete
    <2>2. jobs' = [jobs EXCEPT ![slot[k].id] = None]
        BY <1>15 DEF Complete
    <2>3. /\ \A x \in Slots : slot'[x] = None \/ slot'[x] = slot[x]
          /\ UNCHANGED <<hand, done, kind, nextId, failed, nextFail, requeued, op>>
        BY <1>12, <1>15 DEF Complete, mintVars
    <2>4. Buried' = Buried
        BY <2>3 DEF Buried
    <2>5. \A i \in JobId : jobs'[i] = None \/ jobs'[i] = jobs[i]
        BY <2>1, <2>2 DEF TypeOK
    <2>6. MintedOnly' /\ OkIsDone' /\ RetryKnown'
        BY <2>3, <2>4, <2>5 DEF LedgerInv, MintedOnly, OkIsDone, RetryKnown
    <2>7. NoJobLost'
        BY <2>1, <2>2, <2>3, <2>4 DEF LedgerInv, NoJobLost, TypeOK
    <2>8. NeverPendingAndFailed'
        <3>1. \A i \in Buried \cup requeued : i \in JobId
            BY DEF Buried, TypeOK
        <3> QED
            BY <2>3, <2>4, <2>5, <3>1 DEF LedgerInv, NeverPendingAndFailed
    <2> QED
        BY <2>6, <2>7, <2>8 DEF LedgerInv
<1>16. ASSUME NEW k \in Slots, Fail(k) PROVE LedgerInv'
    <2>1. slot[k] # None /\ slot[k].id \in JobId /\ slot[k].id < nextId
        BY <1>b, <1>16 DEF Fail, WantsFail
    <2>2. Bury(slot[k].id)
        BY <1>16 DEF Fail
    <2>3. Buried' = Buried \cup {slot[k].id}
        BY <2>1, <2>2, BuryEffect
    <2>4. /\ \A x \in Slots : slot'[x] = None \/ slot'[x] = slot[x]
          /\ UNCHANGED <<hand, done, kind, nextId, requeued, op>>
        BY <1>12, <1>16 DEF Fail, mintVars
    <2>5. jobs' = [jobs EXCEPT ![slot[k].id] = None]
        BY <2>2 DEF Bury
    <2>6. \A i \in JobId : jobs'[i] = None \/ jobs'[i] = jobs[i]
        BY <2>1, <2>5 DEF TypeOK
    <2>7. /\ nextFail \in FailId /\ nextFail' = nextFail + 1
          /\ failed' = [failed EXCEPT ![nextFail] = slot[k].id]
        BY <2>2, FailAssumption DEF Bury, FailId, TypeOK
    <2>8. MintedOnly'
        BY <2>1, <2>3, <2>4, <2>6, <2>7 DEF LedgerInv, MintedOnly, TypeOK, FailId
    <2>9. OkIsDone'
        BY <2>4 DEF LedgerInv, OkIsDone
    <2>10. RetryKnown'
        <3> SUFFICES ASSUME NEW o \in Operators, op[o] # None
                     PROVE  /\ op[o].job \in Buried' \cup requeued
                            /\ op[o].row < nextFail'
                            /\ failed'[op[o].row] \in {None, op[o].job}
            BY <2>4 DEF RetryKnown
        <3>1. op[o] \in [row: FailId, job: JobId]
            BY DEF TypeOK
        <3>2. /\ op[o].job \in Buried \cup requeued
              /\ op[o].row < nextFail
              /\ failed[op[o].row] \in {None, op[o].job}
            BY DEF LedgerInv, RetryKnown
        <3> QED
            BY <2>3, <2>7, <3>1, <3>2 DEF TypeOK, FailId
    <2>11. NoJobLost'
        BY <2>1, <2>3, <2>4, <2>5 DEF LedgerInv, NoJobLost, TypeOK
    <2>12. NeverPendingAndFailed'
        <3>1. \A i \in Buried \cup requeued : i \in JobId
            BY DEF Buried, TypeOK
        <3>2. jobs'[slot[k].id] = None
            BY <2>1, <2>5 DEF TypeOK
        <3> QED
            BY <2>3, <2>4, <2>6, <3>1, <3>2 DEF LedgerInv, NeverPendingAndFailed
    <2> QED
        BY <2>8, <2>9, <2>10, <2>11, <2>12 DEF LedgerInv
<1>17. ASSUME NEW n \in Names, NEW m \in Nat \ {0}, NEW t \in Nat, Push(n, m, t)
       PROVE  /\ nextId \in JobId /\ nextId' = nextId + 1
              /\ \A i \in JobId : i # nextId => jobs'[i] = jobs[i] /\ kind'[i] = kind[i]
              /\ kind'[nextId] \in Names /\ jobs'[nextId] # None
    <2>1. nextId \in JobId /\ nextId' = nextId + 1
        BY <1>17, QueueAssumption DEF Push, MintId, TypeOK, WorkerTypeOK, JobId
    <2>2. \A i \in JobId : i # nextId => jobs'[i] = jobs[i] /\ kind'[i] = kind[i]
        BY <1>17, <2>1 DEF Push, MintId, TypeOK, WorkerTypeOK
    <2>3. kind'[nextId] \in Names
        BY <1>17, <2>1 DEF Push, MintId, TypeOK, WorkerTypeOK
    <2>4. [attempts |-> 0, max |-> m, available |-> t, reserved |-> None] \in Row
        BY DEF Row
    <2>5. jobs'[nextId] # None
        BY <1>17, <2>1, <2>4, NoRowAssumption DEF Push, TypeOK
    <2> QED
        BY <2>1, <2>2, <2>3, <2>5
<1>18. ASSUME NEW n \in Names, NEW d \in 0..MaxDelay, Dispatch(n, d) PROVE LedgerInv'
    <2>1. Push(n, MaxAttemptsOf[n], now + d) /\ MaxAttemptsOf[n] \in Nat \ {0} /\ now + d \in Nat
        BY <1>18, QueueAssumption DEF Dispatch, TypeOK, WorkerTypeOK
    <2>2. UNCHANGED <<hand, slot, done, failed, nextFail, requeued, op>>
        BY <1>18 DEF Dispatch, workerVars
    <2>3. Buried' = Buried
        BY <2>2 DEF Buried
    <2>4. MintedOnly'
        BY <1>17, <2>1, <2>2, <2>3, MintedPush DEF LedgerInv
    <2>5. OkIsDone' /\ RetryKnown'
        BY <2>2, <2>3 DEF LedgerInv, OkIsDone, RetryKnown
    <2>6. NoJobLost'
        BY <1>17, <2>1, <2>2, <2>3 DEF LedgerInv, NoJobLost, JobId
    <2>7. NeverPendingAndFailed'
        <3>1. \A i \in Buried \cup requeued : i \in JobId /\ i # nextId
            BY SettledMinted DEF LedgerInv
        <3> QED
            BY <1>17, <2>1, <2>2, <2>3, <3>1 DEF LedgerInv, NeverPendingAndFailed
    <2> QED
        BY <2>4, <2>5, <2>6, <2>7 DEF LedgerInv
<1>19. ASSUME NEW o \in Operators, RetryCommit(o) PROVE LedgerInv'
    <2>1. /\ op[o].job \in JobId /\ op[o].job \in Buried \cup requeued
          /\ Buried' \in {Buried, Buried \ {op[o].job}}
        BY <1>19, RetryEffect
    <2>2. kind[op[o].job] \in Names /\ op[o].job < nextId
        BY <1>19, <2>1 DEF RetryCommit, LedgerInv, MintedOnly
    <2>3. Push(kind[op[o].job], DefaultMaxAttempts, now)
        BY <1>19 DEF RetryCommit
    <2>4. /\ nextId \in JobId /\ nextId' = nextId + 1
          /\ \A i \in JobId : i # nextId => jobs'[i] = jobs[i] /\ kind'[i] = kind[i]
          /\ kind'[nextId] \in Names /\ jobs'[nextId] # None
        BY <1>17, <2>2, <2>3, QueueAssumption DEF TypeOK, WorkerTypeOK
    <2>5. UNCHANGED <<hand, slot, done, nextFail>> /\ requeued' = requeued \cup {op[o].job}
        BY <1>19 DEF RetryCommit, workerVars
    <2>6. op' = [op EXCEPT ![o] = None] /\ failed' = [failed EXCEPT ![op[o].row] = None]
        BY <1>19 DEF RetryCommit
    <2>7. op[o].row \in FailId
        BY <1>19 DEF RetryCommit, TypeOK
    <2>8. \A f \in FailId : failed'[f] = None \/ failed'[f] = failed[f]
        BY <2>6, <2>7 DEF TypeOK
    <2>9. \A x \in Operators : op'[x] = None \/ op'[x] = op[x]
        BY <2>6 DEF TypeOK
    <2>10. MintedOnly'
        <3>1. Buried' \cup requeued' \cup done' \subseteq Buried \cup requeued \cup done
            BY <2>1, <2>5
        <3> QED
            BY <2>4, <2>5, <2>8, <2>9, <3>1, MintedPush DEF LedgerInv
    <2>11. OkIsDone'
        BY <2>5 DEF LedgerInv, OkIsDone
    <2>12. RetryKnown'
        BY <2>1, <2>5, <2>8, <2>9, <1>a DEF LedgerInv, RetryKnown, TypeOK
    <2>13. NoJobLost'
        BY <2>1, <2>4, <2>5 DEF LedgerInv, NoJobLost, JobId
    <2>14. NeverPendingAndFailed'
        <3>1. \A i \in Buried' \cup requeued' : i \in Buried \cup requeued
            BY <2>1, <2>5
        <3>2. \A i \in Buried \cup requeued : i \in JobId /\ i # nextId
            BY SettledMinted DEF LedgerInv
        <3> QED
            BY <2>4, <3>1, <3>2 DEF LedgerInv, NeverPendingAndFailed
    <2> QED
        BY <2>10, <2>11, <2>12, <2>13, <2>14 DEF LedgerInv
<1>20. ASSUME NEW o \in Operators, RetryAbort(o) PROVE LedgerInv'
    <2>1. \A x \in Operators : op'[x] = None \/ op'[x] = op[x]
        BY <1>20 DEF RetryAbort, TypeOK
    <2>2. UNCHANGED <<hand, slot, done, jobs, kind, nextId, failed, nextFail, requeued>>
        BY <1>20 DEF RetryAbort, workerVars, mintVars
    <2>3. Buried' = Buried
        BY <2>2 DEF Buried
    <2> QED
        BY <2>1, <2>2, <2>3 DEF LedgerInv, MintedOnly, OkIsDone, RetryKnown, NoJobLost,
                                NeverPendingAndFailed
<1>21. ASSUME NEW o \in Operators, NEW f \in FailId, RetryRead(o, f) PROVE LedgerInv'
    <2>1. op'[o] = [row |-> f, job |-> failed[f]] /\ \A x \in Operators : x # o => op'[x] = op[x]
        BY <1>21 DEF RetryRead, TypeOK
    <2>2. UNCHANGED <<hand, slot, done, jobs, kind, nextId, failed, nextFail, requeued>>
        BY <1>21 DEF RetryRead, workerVars, mintVars
    <2>3. Buried' = Buried
        BY <2>2 DEF Buried
    <2>4. failed[f] \in Buried /\ failed[f] < nextId
        BY <1>21 DEF RetryRead, Buried, LedgerInv, MintedOnly
    <2>5. f < nextFail
        BY <1>21 DEF RetryRead, LedgerInv, MintedOnly, TypeOK, FailId
    <2>6. \A x \in Operators : op'[x] # None =>
            /\ op'[x].job \in Buried \cup requeued
            /\ op'[x].row < nextFail
            /\ failed[op'[x].row] \in {None, op'[x].job}
            /\ op'[x].job < nextId
        BY <2>1, <2>4, <2>5 DEF LedgerInv, RetryKnown, MintedOnly
    <2> QED
        BY <2>2, <2>3, <2>6 DEF LedgerInv, MintedOnly, OkIsDone, RetryKnown, NoJobLost,
                                NeverPendingAndFailed
<1>22. CASE Tick
    BY <1>22, <1>d, LedgerQuiet DEF Tick, workerVars, mintVars, storeVars
<1>23. CASE UNCHANGED vars
    BY <1>23, <1>d, LedgerQuiet DEF vars
<1> QED
    BY Steps, <1>2, <1>3, <1>5, <1>6, <1>7, <1>9, <1>10, <1>11, <1>13, <1>14, <1>15, <1>16,
       <1>18, <1>19, <1>20, <1>21, <1>22, <1>23 DEF ClaimNothing

\* DBQueue is type correct.
THEOREM TypeCorrect == Spec => []TypeOK
<1>1. Init => TypeOK /\ LedgerInv
    BY TypeInit, LedgerInit
<1>2. TypeOK /\ LedgerInv /\ [Next]_vars => (TypeOK /\ LedgerInv)'
    BY TypeStep, LedgerStep DEF LedgerInv
<1> QED
    BY <1>1, <1>2, PTL DEF Spec

\* With any number of workers, crashes, overruns and operators, no dispatched
\* job is lost by the database driver.
THEOREM JobsSurvive == Spec => []NoJobLost
<1>1. Init => TypeOK /\ LedgerInv
    BY TypeInit, LedgerInit
<1>2. TypeOK /\ LedgerInv /\ [Next]_vars => (TypeOK /\ LedgerInv)'
    BY TypeStep, LedgerStep DEF LedgerInv
<1>3. LedgerInv => NoJobLost
    BY DEF LedgerInv
<1> QED
    BY <1>1, <1>2, <1>3, PTL DEF Spec

\* The transaction of Fail and the fresh id of Retry keep a job from ever
\* being pending and failed at once.
THEOREM PendingXorFailed == Spec => []NeverPendingAndFailed
<1>1. Init => TypeOK /\ LedgerInv
    BY TypeInit, LedgerInit
<1>2. TypeOK /\ LedgerInv /\ [Next]_vars => (TypeOK /\ LedgerInv)'
    BY TypeStep, LedgerStep DEF LedgerInv
<1>3. LedgerInv => NeverPendingAndFailed
    BY DEF LedgerInv
<1> QED
    BY <1>1, <1>2, <1>3, PTL DEF Spec
-----------------------------------------------------------------------------
(* Exclusive claims, when no claim outlives its reservation.               *)

\* ExclusiveClaim without the set of holders.
Apart ==
    /\ \A w, v \in Workers :
          loop[w] = "holding" /\ loop[v] = "holding" /\ hand[w].id = hand[v].id => w = v
    /\ \A k, l \in Slots :
          slot[k] # None /\ slot[l] # None /\ slot[k].id = slot[l].id => k = l
    /\ \A w \in Workers, k \in Slots :
          loop[w] = "holding" /\ slot[k] # None => hand[w].id # slot[k].id

HeldInv == HeldIsReserved /\ Apart

LEMMA ApartIsExclusive ==
    ASSUME TypeOK, Apart
    PROVE  ExclusiveClaim
<1> SUFFICES ASSUME NEW i \in JobId, NEW x \in Holders(i), NEW y \in Holders(i) PROVE x = y
    BY DEF ExclusiveClaim
<1>1. \/ x \in Workers /\ loop[x] = "holding" /\ hand[x].id = i
      \/ x \in Slots /\ slot[x] # None /\ slot[x].id = i
    BY DEF Holders
<1>2. \/ y \in Workers /\ loop[y] = "holding" /\ hand[y].id = i
      \/ y \in Slots /\ slot[y] # None /\ slot[y].id = i
    BY DEF Holders
<1> QED
    BY <1>1, <1>2 DEF Apart

LEMMA HeldInit == Init => HeldInv
BY DEF Init, WorkerInit, HeldInv, HeldIsReserved, Apart

\* Holders that keep their record and their reservation, or let go, stay apart.
LEMMA HeldQuiet ==
    ASSUME HeldInv, now' = now,
           \A w \in Workers : loop'[w] = "claiming" =>
               hand'[w].at <= now /\ now <= hand'[w].at + Timeout,
           \A w \in Workers : loop'[w] = "holding" =>
               /\ loop[w] = "holding" /\ hand'[w] = hand[w]
               /\ jobs'[hand[w].id] = jobs[hand[w].id],
           \A k \in Slots : slot'[k] # None =>
               /\ slot[k] # None /\ slot'[k].id = slot[k].id /\ slot'[k].at = slot[k].at
               /\ jobs'[slot[k].id] = jobs[slot[k].id]
    PROVE  HeldInv'
<1>1. HeldIsReserved'
    BY DEF HeldInv, HeldIsReserved, Reserves
<1>2. Apart'
    BY DEF HeldInv, Apart
<1> QED
    BY <1>1, <1>2 DEF HeldInv

\* A row that the guarded UPDATE of Claim matches is held by nobody.
LEMMA FreeRow ==
    ASSUME TypeOK, HeldInv, NEW v \in Workers, loop[v] = "claiming", StillMine(hand[v])
    PROVE  /\ \A w \in Workers : loop[w] = "holding" => hand[w].id # hand[v].id
           /\ \A k \in Slots : slot[k] # None => slot[k].id # hand[v].id
<1>1. hand[v] \in Rec /\ hand[v].at <= now /\ now \in Nat
    BY DEF TypeOK, WorkerTypeOK, HeldInv, HeldIsReserved
<1>2. ASSUME NEW r, r.at \in Nat, Reserves(r), r.id = hand[v].id PROVE FALSE
    BY <1>1, <1>2, NoneNotNat, QueueAssumption DEF Reserves, StillMine, NotReserved, Rec
<1>3. \A w \in Workers : loop[w] = "holding" => hand[w].at \in Nat /\ Reserves(hand[w])
    BY DEF TypeOK, WorkerTypeOK, Rec, HeldInv, HeldIsReserved
<1>4. \A k \in Slots : slot[k] # None => slot[k].at \in Nat /\ Reserves(slot[k])
    BY DEF TypeOK, WorkerTypeOK, Task, HeldInv, HeldIsReserved
<1> QED
    BY <1>2, <1>3, <1>4

LEMMA HeldStep ==
    ASSUME ~overran', TypeOK, MintedOnly, HeldInv, [Next]_vars
    PROVE  HeldInv'
<1>a. ASSUME NEW w \in Workers, loop[w] \in {"claiming", "holding"}
      PROVE  hand[w] # None /\ hand[w] \in Rec /\ hand[w].id \in JobId /\ hand[w].id # nextId
    <2>1. hand[w] # None /\ hand[w] \in Rec /\ hand[w].id < nextId
        BY <1>a DEF TypeOK, WorkerTypeOK, MintedOnly
    <2> QED
        BY <2>1 DEF Rec, JobId, TypeOK, WorkerTypeOK
<1>b. ASSUME NEW k \in Slots, slot[k] # None
      PROVE  slot[k] \in Task /\ slot[k].id \in JobId /\ slot[k].id # nextId
    <2>1. slot[k] \in Task /\ slot[k].id < nextId
        BY <1>b DEF TypeOK, WorkerTypeOK, MintedOnly
    <2> QED
        BY <2>1 DEF Task, JobId, TypeOK, WorkerTypeOK
<1>c. \A w \in Workers : loop[w] = "claiming" => hand[w].at <= now /\ now <= hand[w].at + Timeout
    BY DEF HeldInv, HeldIsReserved
<1>1. ASSUME UNCHANGED <<now, jobs>>,
             \A w \in Workers : loop'[w] \in {"claiming", "holding"} =>
                 loop'[w] = loop[w] /\ hand'[w] = hand[w],
             \A k \in Slots : slot'[k] # None =>
                 slot[k] # None /\ slot'[k].id = slot[k].id /\ slot'[k].at = slot[k].at
      PROVE  HeldInv'
    BY <1>1, <1>c, HeldQuiet
<1>2. ASSUME NEW w \in Workers, LoopStep(w) PROVE HeldInv'
    <2> USE DEF storeVars, LoopStep
    <2>1. CASE StartDraining(w)
        BY <1>1, <1>2, <2>1 DEF StartDraining, TypeOK, WorkerTypeOK
    <2>2. CASE Drained(w)
        BY <1>1, <1>2, <2>2 DEF Drained, TypeOK, WorkerTypeOK
    <2>3. CASE Restart(w)
        BY <1>1, <1>2, <2>3 DEF Restart, TypeOK, WorkerTypeOK
    <2>4. CASE DrainTimeout(w)
        BY <1>1, <1>2, <2>4 DEF DrainTimeout, Vanish, TypeOK, WorkerTypeOK
    <2>5. ASSUME NEW k \in Slots, TakeSlot(w, k) PROVE HeldInv'
        <3>1. loop[w] = "holding" /\ loop'[w] = "poll" /\ slot[k] = None
            BY <2>5 DEF TakeSlot, TypeOK, WorkerTypeOK
        <3>2. slot'[k].id = hand[w].id /\ slot'[k].at = hand[w].at
            BY <2>5 DEF TakeSlot, TypeOK, WorkerTypeOK
        <3>3. \A x \in Slots : x # k => slot'[x] = slot[x]
            BY <2>5 DEF TakeSlot, TypeOK, WorkerTypeOK
        <3>4. \A v \in Workers : v # w => loop'[v] = loop[v] /\ hand'[v] = hand[v]
            BY <2>5 DEF TakeSlot, TypeOK, WorkerTypeOK
        <3>5. UNCHANGED <<now, jobs>>
            BY <1>2
        <3>6. HeldIsReserved'
            BY <3>1, <3>2, <3>3, <3>4, <3>5 DEF HeldInv, HeldIsReserved, Reserves
        <3>7. Apart'
            BY <3>1, <3>2, <3>3, <3>4 DEF HeldInv, Apart
        <3> QED
            BY <3>6, <3>7 DEF HeldInv
    <2> QED
        BY <1>2, <2>1, <2>2, <2>3, <2>4, <2>5
<1>3. ASSUME NEW w \in Workers, ClaimSelect(w) PROVE HeldInv'
    <2>1. PICK i \in JobId :
            /\ EnterClaim(w, [id |-> i, attempts |-> jobs[i].attempts,
                              max |-> jobs[i].max, at |-> now])
            /\ UNCHANGED <<clock, mintVars, storeVars>>
        BY <1>3 DEF ClaimSelect
    <2>2. loop'[w] = "claiming" /\ hand'[w].at = now
        BY <2>1 DEF EnterClaim, TypeOK, WorkerTypeOK
    <2>3. \A v \in Workers : v # w => loop'[v] = loop[v] /\ hand'[v] = hand[v]
        BY <2>1 DEF EnterClaim, TypeOK, WorkerTypeOK
    <2>4. UNCHANGED <<now, jobs, slot>> /\ now \in Nat
        BY <2>1 DEF EnterClaim, storeVars, TypeOK, WorkerTypeOK
    <2>5. now <= now + Timeout
        BY <2>4, QueueAssumption
    <2> QED
        BY <2>2, <2>3, <2>4, <2>5, <1>c, HeldQuiet
<1>4. ASSUME NEW w \in Workers, loop[w] = "claiming", Reserve(hand[w])
      PROVE  \A i \in JobId : i # hand[w].id => jobs'[i] = jobs[i]
    BY <1>4, <1>a DEF Reserve, TypeOK
<1>5. ASSUME NEW w \in Workers, ClaimUpdate(w) PROVE HeldInv'
    <2>1. loop[w] = "claiming" /\ StillMine(hand[w]) /\ Reserve(hand[w])
        BY <1>5 DEF ClaimUpdate
    <2>2. hand[w] \in Rec /\ hand[w].id \in JobId
        BY <1>a, <2>1
    <2>3. hand'[w].id = hand[w].id /\ hand'[w].at = hand[w].at
        BY <1>5, <2>2 DEF ClaimUpdate, Receive, TypeOK, WorkerTypeOK, Rec
    <2>4. \A v \in Workers : v # w => loop'[v] = loop[v] /\ hand'[v] = hand[v]
        BY <1>5 DEF ClaimUpdate, Receive, TypeOK, WorkerTypeOK
    <2>5. loop'[w] = "holding" /\ UNCHANGED <<now, slot>>
        BY <1>5 DEF ClaimUpdate, Receive, TypeOK, WorkerTypeOK
    <2>6. /\ \A v \in Workers : loop[v] = "holding" => hand[v].id # hand[w].id
          /\ \A k \in Slots : slot[k] # None => slot[k].id # hand[w].id
        BY <2>1, FreeRow
    <2>7. jobs[hand[w].id] \in Row /\ hand[w].at \in Nat /\ hand[w].attempts + 1 \in Nat
        BY <2>1, <2>2 DEF StillMine, TypeOK, Rec
    <2>8. jobs'[hand[w].id] =
            [jobs[hand[w].id] EXCEPT !.reserved = hand[w].at, !.attempts = hand[w].attempts + 1]
        BY <2>1, <2>2, <2>7 DEF Reserve, TypeOK, Row
    <2>9. jobs'[hand[w].id] \in Row /\ jobs'[hand[w].id].reserved = hand[w].at
        BY <2>7, <2>8 DEF Row
    <2>10. Reserves(hand[w])'
        BY <2>1, <2>3, <2>5, <2>9, <1>c, NoRowAssumption DEF Reserves
    <2>11. HeldIsReserved'
        <3>1. \A v \in Workers : v # w /\ loop[v] = "holding" => Reserves(hand[v])'
            BY <1>a, <1>4, <2>1, <2>4, <2>5, <2>6 DEF HeldInv, HeldIsReserved, Reserves
        <3>2. \A k \in Slots : slot[k] # None => Reserves(slot[k])'
            BY <1>b, <1>4, <2>1, <2>5, <2>6 DEF HeldInv, HeldIsReserved, Reserves
        <3> QED
            BY <1>c, <2>4, <2>5, <2>10, <3>1, <3>2 DEF HeldIsReserved
    <2>12. Apart'
        BY <2>3, <2>4, <2>5, <2>6 DEF HeldInv, Apart
    <2> QED
        BY <2>11, <2>12 DEF HeldInv
<1>6. ASSUME NEW w \in Workers, ClaimMiss(w) PROVE HeldInv'
    BY <1>1, <1>6 DEF ClaimMiss, ReceiveNothing, storeVars, TypeOK, WorkerTypeOK
<1>7. ASSUME NEW w \in Workers, ClaimError(w) PROVE HeldInv'
    <2>1. /\ loop[w] = "claiming" /\ loop'[w] = "poll" /\ UNCHANGED <<now, slot>>
          /\ \A v \in Workers : v # w => loop'[v] = loop[v] /\ hand'[v] = hand[v]
        BY <1>7 DEF ClaimError, ReceiveNothing, TypeOK, WorkerTypeOK
    <2>2. CASE UNCHANGED jobs
        BY <1>1, <2>1, <2>2
    <2>3. CASE StillMine(hand[w]) /\ Reserve(hand[w])
        <3>1. /\ \A v \in Workers : loop[v] = "holding" => hand[v].id # hand[w].id
              /\ \A k \in Slots : slot[k] # None => slot[k].id # hand[w].id
            BY <2>1, <2>3, FreeRow
        <3>2. \A i \in JobId : i # hand[w].id => jobs'[i] = jobs[i]
            BY <1>4, <2>1, <2>3
        <3> QED
            BY <1>a, <1>b, <1>c, <2>1, <3>1, <3>2, HeldQuiet
    <2> QED
        BY <1>7, <2>2, <2>3 DEF ClaimError
<1>8. ASSUME NEW i \in JobId, NEW t, RowRelease(i, t)
      PROVE  \A j \in JobId : j # i => jobs'[j] = jobs[j]
    BY <1>8 DEF RowRelease, TypeOK
<1>9. ASSUME NEW w \in Workers, ShutdownRelease(w) PROVE HeldInv'
    <2>1. /\ loop[w] = "holding" /\ loop'[w] = "poll" /\ UNCHANGED <<now, slot>>
          /\ \A v \in Workers : v # w => loop'[v] = loop[v] /\ hand'[v] = hand[v]
        BY <1>9 DEF ShutdownRelease, HandBack, TypeOK, WorkerTypeOK
    <2>2. \A j \in JobId : j # hand[w].id => jobs'[j] = jobs[j]
        BY <1>a, <1>8, <1>9, <2>1 DEF ShutdownRelease
    <2>3. /\ \A v \in Workers : loop[v] = "holding" /\ v # w => hand[v].id # hand[w].id
          /\ \A k \in Slots : slot[k] # None => slot[k].id # hand[w].id
        BY <2>1 DEF HeldInv, Apart
    <2> QED
        BY <1>a, <1>b, <1>c, <2>1, <2>2, <2>3, HeldQuiet
<1>10. ASSUME NEW w \in Workers, Interrupt(w) PROVE HeldInv'
    <2>1. CASE Cancel(w)
        BY <1>1, <1>10, <2>1 DEF Interrupt, Cancel, storeVars
    <2>2. CASE Crash(w)
        BY <1>1, <1>10, <2>2 DEF Interrupt, Crash, Vanish, storeVars, TypeOK, WorkerTypeOK
    <2> QED
        BY <1>10, <2>1, <2>2 DEF Interrupt
<1>11. ASSUME NEW k \in Slots, RunStep(k) PROVE HeldInv'
    <2>1. slot[k] # None
        BY <1>11 DEF RunStep, RunOk, RunErr
    <2>2. slot'[k].id = slot[k].id /\ slot'[k].at = slot[k].at
        BY <1>b, <1>11, <2>1 DEF RunStep, RunOk, RunErr, TypeOK, WorkerTypeOK, Task
    <2>3. \A x \in Slots : x # k => slot'[x] = slot[x]
        BY <1>11 DEF RunStep, RunOk, RunErr, TypeOK, WorkerTypeOK
    <2>4. UNCHANGED <<now, jobs, loop, hand>>
        BY <1>11 DEF RunStep, RunOk, RunErr, storeVars
    <2> QED
        BY <1>1, <2>1, <2>2, <2>3, <2>4
<1>12. ASSUME NEW k \in Slots, slot[k] # None, FreeSlot(k), now' = now,
              \A j \in JobId : j # slot[k].id => jobs'[j] = jobs[j]
       PROVE  HeldInv'
    <2>1. slot'[k] = None /\ \A x \in Slots : x # k => slot'[x] = slot[x]
        BY <1>12 DEF FreeSlot, TypeOK, WorkerTypeOK
    <2>2. UNCHANGED <<loop, hand>>
        BY <1>12 DEF FreeSlot
    <2>3. /\ \A v \in Workers : loop[v] = "holding" => hand[v].id # slot[k].id
          /\ \A x \in Slots : x # k /\ slot[x] # None => slot[x].id # slot[k].id
        BY <1>12 DEF HeldInv, Apart
    <2> QED
        BY <1>a, <1>b, <1>c, <1>12, <2>1, <2>2, <2>3, HeldQuiet
<1>13. ASSUME NEW k \in Slots, Complete(k) PROVE HeldInv'
    <2>1. slot[k] # None /\ FreeSlot(k) /\ now' = now
        BY <1>13 DEF Complete, WantsComplete
    <2>2. \A j \in JobId : j # slot[k].id => jobs'[j] = jobs[j]
        BY <1>13 DEF Complete, TypeOK
    <2> QED
        BY <1>12, <2>1, <2>2
<1>14. ASSUME NEW k \in Slots, Release(k) PROVE HeldInv'
    <2>1. slot[k] # None /\ FreeSlot(k) /\ now' = now
        BY <1>14 DEF Release, WantsRelease
    <2>2. \A j \in JobId : j # slot[k].id => jobs'[j] = jobs[j]
        BY <1>b, <1>8, <1>14, <2>1 DEF Release
    <2> QED
        BY <1>12, <2>1, <2>2
<1>15. ASSUME NEW k \in Slots, Fail(k) PROVE HeldInv'
    <2>1. slot[k] # None /\ FreeSlot(k) /\ now' = now
        BY <1>15 DEF Fail, WantsFail
    <2>2. \A j \in JobId : j # slot[k].id => jobs'[j] = jobs[j]
        BY <1>15 DEF Fail, Bury, TypeOK
    <2> QED
        BY <1>12, <2>1, <2>2
<1>16. ASSUME NEW k \in Slots, OutcomeLost(k) PROVE HeldInv'
    BY <1>12, <1>16 DEF OutcomeLost, WantsComplete, WantsRelease, WantsFail, storeVars
<1>17. ASSUME NEW n, NEW m, NEW t, Push(n, m, t), UNCHANGED <<now, loop, hand, slot>>
       PROVE  HeldInv'
    <2>1. \A j \in JobId : j # nextId => jobs'[j] = jobs[j]
        BY <1>17 DEF Push, TypeOK
    <2> QED
        BY <1>a, <1>b, <1>c, <1>17, <2>1, HeldQuiet
<1>18. ASSUME NEW n \in Names, NEW d \in 0..MaxDelay, Dispatch(n, d) PROVE HeldInv'
    BY <1>17, <1>18 DEF Dispatch, workerVars
<1>19. ASSUME NEW o \in Operators, RetryCommit(o) PROVE HeldInv'
    BY <1>17, <1>19 DEF RetryCommit, workerVars
<1>20. ASSUME NEW o \in Operators, RetryAbort(o) PROVE HeldInv'
    BY <1>1, <1>20 DEF RetryAbort, workerVars
<1>21. ASSUME NEW o \in Operators, NEW f \in FailId, RetryRead(o, f) PROVE HeldInv'
    BY <1>1, <1>21 DEF RetryRead, workerVars
<1>22. CASE Tick
    <2>1. now' = now + 1 /\ Punctual(Timeout) /\ UNCHANGED <<loop, hand, slot, jobs>>
        BY <1>22 DEF Tick, Advance, workerVars, storeVars
    <2>2. ASSUME NEW a \in Nat, a <= now, now < a + Timeout
          PROVE  a <= now + 1 /\ now + 1 <= a + Timeout
        BY <2>2, QueueAssumption DEF TypeOK, WorkerTypeOK
    <2>3. \A w \in Workers : hand[w] # None => hand[w].at \in Nat /\ now < hand[w].at + Timeout
        BY <2>1 DEF Punctual, TypeOK, WorkerTypeOK, Rec
    <2>4. \A k \in Slots : slot[k] # None => slot[k].at \in Nat /\ now < slot[k].at + Timeout
        BY <2>1 DEF Punctual, TypeOK, WorkerTypeOK, Task
    <2>5. HeldIsReserved'
        BY <1>a, <2>1, <2>2, <2>3, <2>4 DEF HeldInv, HeldIsReserved, Reserves
    <2>6. Apart'
        BY <2>1 DEF HeldInv, Apart
    <2> QED
        BY <2>5, <2>6 DEF HeldInv
<1>23. CASE UNCHANGED vars
    BY <1>1, <1>23 DEF vars
<1> QED
    BY Steps, <1>2, <1>3, <1>5, <1>6, <1>7, <1>9, <1>10, <1>11, <1>13, <1>14, <1>15, <1>16,
       <1>18, <1>19, <1>20, <1>21, <1>22, <1>23 DEF ClaimNothing

\* Once a claim has outlived its reservation, that stays on record.
LEMMA OverrunSticks == [Next]_vars /\ ~overran' => ~overran
<1> SUFFICES ASSUME [Next]_vars, ~overran' PROVE ~overran
    OBVIOUS
<1>1. CASE Tick
    BY <1>1 DEF Tick, Advance
<1>2. ASSUME UNCHANGED clock PROVE ~overran
    BY <1>2
<1> QED
    BY Steps, <1>1, <1>2
    DEF Dispatch, LoopStep, ClaimNothing, ClaimSelect, ClaimUpdate, ClaimMiss, ClaimError,
        ShutdownRelease, Interrupt, RunStep, Complete, Release, Fail, OutcomeLost,
        RetryCommit, RetryAbort, RetryRead, vars

\* As long as claims are dealt with inside the reservation timeout, any number
\* of workers with any number of tokens never hold the same job twice,
\* although Claim reads the row in one statement and reserves it in another.
THEOREM OneHolder == Spec => []ExclusiveClaim
<1> DEFINE PunctualInv == ~overran => HeldInv
<1>1. Init => TypeOK /\ LedgerInv /\ PunctualInv
    BY TypeInit, LedgerInit, HeldInit
<1>2. TypeOK /\ LedgerInv /\ PunctualInv /\ [Next]_vars => (TypeOK /\ LedgerInv /\ PunctualInv)'
    BY TypeStep, LedgerStep, HeldStep, OverrunSticks DEF LedgerInv
<1>3. TypeOK /\ PunctualInv => ExclusiveClaim
    BY ApartIsExclusive DEF HeldInv, ExclusiveClaim
<1> QED
    BY <1>1, <1>2, <1>3, PTL DEF Spec
-----------------------------------------------------------------------------
(* DBQueue implements JobLedger.                                           *)

LEMMA LedgerStart == Init => Ledger!Init
BY DEF Init, WorkerInit, Ledger!Init, Minted, Stored, Buried, JobId

\* Steps that leave the ledger alone.
LEMMA LedgerStutter ==
    ASSUME UNCHANGED <<nextId, failed, requeued, done>>,
           \A i \in JobId : (jobs'[i] # None) <=> (jobs[i] # None)
    PROVE  UNCHANGED Ledger!vars
BY DEF Ledger!vars, Minted, Stored, Buried

LEMMA LedgerSimulates ==
    ASSUME TypeOK, LedgerInv, [Next]_vars
    PROVE  [Ledger!Next]_(Ledger!vars)
<1>b. ASSUME NEW k \in Slots, slot[k] # None
      PROVE  slot[k] \in Task /\ slot[k].id \in JobId /\ slot[k].id < nextId
    BY <1>b DEF TypeOK, WorkerTypeOK, Task, LedgerInv, MintedOnly
<1>1. ASSUME UNCHANGED <<nextId, failed, requeued, done, jobs>>
      PROVE  UNCHANGED Ledger!vars
    BY <1>1, LedgerStutter
<1>2. ASSUME NEW w \in Workers, LoopStep(w) PROVE UNCHANGED Ledger!vars
    <2>1. UNCHANGED done
        BY <1>2 DEF LoopStep, StartDraining, Drained, Restart, DrainTimeout, Vanish, TakeSlot
    <2> QED
        BY <1>1, <1>2, <2>1 DEF LoopStep, mintVars, storeVars
<1>3. ASSUME NEW w \in Workers, ClaimSelect(w) PROVE UNCHANGED Ledger!vars
    BY <1>1, <1>3 DEF ClaimSelect, EnterClaim, mintVars, storeVars
<1>5. ASSUME NEW w \in Workers, ClaimUpdate(w) PROVE UNCHANGED Ledger!vars
    BY ReserveKeepsRows, <1>5, LedgerStutter DEF ClaimUpdate, Receive, mintVars
<1>6. ASSUME NEW w \in Workers, ClaimMiss(w) PROVE UNCHANGED Ledger!vars
    BY <1>1, <1>6 DEF ClaimMiss, ReceiveNothing, mintVars, storeVars
<1>7. ASSUME NEW w \in Workers, ClaimError(w) PROVE UNCHANGED Ledger!vars
    BY ReserveKeepsRows, <1>7, LedgerStutter DEF ClaimError, ReceiveNothing, mintVars
<1>9. ASSUME NEW w \in Workers, ShutdownRelease(w) PROVE UNCHANGED Ledger!vars
    <2>1. hand[w].id \in JobId /\ now \in Nat
        BY <1>9 DEF ShutdownRelease, HandBack, TypeOK, WorkerTypeOK, Rec
    <2>2. \A i \in JobId : (jobs'[i] # None) <=> (jobs[i] # None)
        BY <1>9, <2>1, ReleaseKeepsRows DEF ShutdownRelease
    <2> QED
        BY <1>9, <2>2, LedgerStutter DEF ShutdownRelease, HandBack, mintVars
<1>10. ASSUME NEW w \in Workers, Interrupt(w) PROVE UNCHANGED Ledger!vars
    <2>1. UNCHANGED done
        BY <1>10 DEF Interrupt, Cancel, Crash, Vanish
    <2> QED
        BY <1>1, <1>10, <2>1 DEF Interrupt, mintVars, storeVars
<1>11. ASSUME NEW k \in Slots, RunStep(k) PROVE [Ledger!Next]_(Ledger!vars)
    <2>1. UNCHANGED <<nextId, failed, requeued, jobs>>
        BY <1>11 DEF RunStep, mintVars, storeVars
    <2>2. CASE RunErr(k)
        BY <1>1, <2>1, <2>2 DEF RunErr
    <2>3. CASE RunOk(k)
        <3>1. slot[k].id \in Minted /\ slot[k].id \in JobId /\ done' = done \cup {slot[k].id}
            BY <1>b, <2>3 DEF RunOk, Minted
        <3>2. Ledger!Succeed(slot[k].id)
            BY <2>1, <3>1 DEF Ledger!Succeed, Minted, Stored, Buried
        <3> QED
            BY <3>1, <3>2 DEF Ledger!Next
    <2> QED
        BY <1>11, <2>2, <2>3 DEF RunStep
<1>12. ASSUME NEW k \in Slots, Complete(k) PROVE Ledger!Next
    <2>1. slot[k].id \in JobId /\ slot[k].id \in done
        BY <1>b, <1>12 DEF Complete, WantsComplete, LedgerInv, OkIsDone
    <2>2. UNCHANGED <<nextId, failed, requeued, done>> /\ Stored' = Stored \ {slot[k].id}
        BY <1>12, <2>1 DEF Complete, FreeSlot, mintVars, Stored, TypeOK
    <2>3. Buried' = Buried /\ Minted' = Minted
        BY <2>2 DEF Buried, Minted
    <2>4. Ledger!Settled(slot[k].id)
        BY <2>1 DEF Ledger!Settled
    <2>5. Ledger!Leave(slot[k].id)
        BY <2>2, <2>3, <2>4 DEF Ledger!Leave
    <2>6. \E i \in JobId : Ledger!Leave(i)
        BY <2>1, <2>5
    <2> QED
        BY <2>6 DEF Ledger!Next
<1>13. ASSUME NEW k \in Slots, Release(k) PROVE UNCHANGED Ledger!vars
    <2>1. /\ slot[k].id \in JobId /\ kind[slot[k].id] \in Names
          /\ slot[k].attempts \in Nat /\ now \in Nat
        BY <1>b, <1>13 DEF Release, WantsRelease, LedgerInv, MintedOnly, Task, TypeOK, WorkerTypeOK
    <2>2. now + BackoffOf(kind[slot[k].id], slot[k].attempts) \in Nat
        BY <2>1, BackoffType
    <2>3. \A i \in JobId : (jobs'[i] # None) <=> (jobs[i] # None)
        BY <1>13, <2>1, <2>2, ReleaseKeepsRows DEF Release
    <2> QED
        BY <1>13, <2>3, LedgerStutter DEF Release, FreeSlot, mintVars
<1>14. ASSUME NEW k \in Slots, Fail(k) PROVE Ledger!Next
    <2>1. slot[k].id \in JobId /\ slot[k].id \in Minted
        BY <1>b, <1>14 DEF Fail, WantsFail, Minted
    <2>2. Buried' = Buried \cup {slot[k].id}
        BY <1>14, <2>1, BuryEffect DEF Fail
    <2>3. UNCHANGED <<nextId, requeued, done>> /\ Stored' = Stored \ {slot[k].id}
        BY <1>14, <2>1 DEF Fail, Bury, FreeSlot, mintVars, Stored, TypeOK
    <2>4. Minted' = Minted
        BY <2>3 DEF Minted
    <2>5. Ledger!Bury(slot[k].id)
        BY <2>1, <2>2, <2>3, <2>4 DEF Ledger!Bury
    <2> QED
        BY <2>1, <2>5 DEF Ledger!Next
<1>15. ASSUME NEW k \in Slots, OutcomeLost(k) PROVE UNCHANGED Ledger!vars
    BY <1>1, <1>15 DEF OutcomeLost, FreeSlot, mintVars, storeVars
<1>16. ASSUME NEW n, NEW m \in Nat \ {0}, NEW t \in Nat, Push(n, m, t)
       PROVE  /\ nextId \in JobId /\ nextId \notin Minted
              /\ Minted' = Minted \cup {nextId} /\ Stored' = Stored \cup {nextId}
    <2>1. nextId \in JobId /\ nextId' = nextId + 1
        BY <1>16, QueueAssumption DEF Push, MintId, TypeOK, WorkerTypeOK, JobId
    <2>2. nextId \notin Minted /\ Minted' = Minted \cup {nextId}
        BY <2>1 DEF Minted, JobId
    <2>3. [attempts |-> 0, max |-> m, available |-> t, reserved |-> None] \in Row
        BY DEF Row
    <2>4. Stored' = Stored \cup {nextId}
        BY <1>16, <2>1, <2>3, NoRowAssumption DEF Push, Stored, TypeOK
    <2> QED
        BY <2>1, <2>2, <2>4
<1>17. ASSUME NEW n \in Names, NEW d \in 0..MaxDelay, Dispatch(n, d) PROVE Ledger!Next
    <2>1. Push(n, MaxAttemptsOf[n], now + d) /\ MaxAttemptsOf[n] \in Nat \ {0} /\ now + d \in Nat
        BY <1>17, QueueAssumption DEF Dispatch, TypeOK, WorkerTypeOK
    <2>2. UNCHANGED <<failed, requeued, done>>
        BY <1>17 DEF Dispatch, workerVars
    <2>3. /\ nextId \in JobId /\ nextId \notin Minted
          /\ Minted' = Minted \cup {nextId} /\ Stored' = Stored \cup {nextId}
        BY <1>16, <2>1
    <2>4. Buried' = Buried
        BY <2>2 DEF Buried
    <2>5. Ledger!Push(nextId)
        BY <2>2, <2>3, <2>4 DEF Ledger!Push
    <2> QED
        BY <2>3, <2>5 DEF Ledger!Next
<1>18. ASSUME NEW o \in Operators, RetryCommit(o) PROVE Ledger!Next
    <2>1. /\ op[o].job \in JobId /\ op[o].job \in Buried \cup requeued
          /\ Buried' \in {Buried, Buried \ {op[o].job}}
        BY <1>18, RetryEffect
    <2>2. Push(kind[op[o].job], DefaultMaxAttempts, now)
        BY <1>18 DEF RetryCommit
    <2>3. UNCHANGED done /\ requeued' = requeued \cup {op[o].job}
        BY <1>18 DEF RetryCommit, workerVars
    <2>4. /\ nextId \in JobId /\ nextId \notin Minted
          /\ Minted' = Minted \cup {nextId} /\ Stored' = Stored \cup {nextId}
        BY <1>16, <2>2, QueueAssumption DEF TypeOK, WorkerTypeOK
    <2>5. Ledger!Requeue(op[o].job, nextId)
        BY <2>1, <2>3, <2>4 DEF Ledger!Requeue
    <2> QED
        BY <2>1, <2>4, <2>5 DEF Ledger!Next
<1>19. ASSUME NEW o \in Operators, RetryAbort(o) PROVE UNCHANGED Ledger!vars
    BY <1>1, <1>19 DEF RetryAbort, workerVars, mintVars
<1>20. ASSUME NEW o \in Operators, NEW f \in FailId, RetryRead(o, f) PROVE UNCHANGED Ledger!vars
    BY <1>1, <1>20 DEF RetryRead, workerVars, mintVars
<1>21. CASE Tick
    BY <1>1, <1>21 DEF Tick, workerVars, mintVars, storeVars
<1>22. CASE UNCHANGED vars
    BY <1>1, <1>22 DEF vars
<1> QED
    BY Steps, <1>2, <1>3, <1>5, <1>6, <1>7, <1>9, <1>10, <1>11, <1>12, <1>13, <1>14, <1>15,
       <1>17, <1>18, <1>19, <1>20, <1>21, <1>22 DEF ClaimNothing

\* The database driver keeps the promise of JobLedger: every transaction of
\* every worker and operator is a step of the ledger or leaves it alone.
THEOREM ImplementsLedger == Spec => RefinesLedger
<1>1. Init => TypeOK /\ LedgerInv
    BY TypeInit, LedgerInit
<1>2. TypeOK /\ LedgerInv /\ [Next]_vars => (TypeOK /\ LedgerInv)'
    BY TypeStep, LedgerStep DEF LedgerInv
<1>3. TypeOK /\ LedgerInv /\ [Next]_vars => [Ledger!Next]_(Ledger!vars)
    BY LedgerSimulates
<1> QED
    BY <1>1, <1>2, <1>3, LedgerStart, PTL DEF Spec, RefinesLedger, Ledger!Spec
-----------------------------------------------------------------------------
(* What is over is over, when no claim outlives its reservation.           *)

FailedOnce == \A f, g \in FailId : failed[f] # None /\ failed[f] = failed[g] => f = g

\* A held job has a row, so it is neither failed nor requeued, and Fail records
\* it for the first time.
LEMMA FailedOnceStep ==
    ASSUME TypeOK, LedgerInv, HeldInv, FailedOnce, [Next]_vars
    PROVE  FailedOnce'
<1>1. ASSUME \A f \in FailId : failed'[f] = None \/ failed'[f] = failed[f] PROVE FailedOnce'
    BY <1>1 DEF FailedOnce
<1>2. ASSUME NEW k \in Slots, Fail(k) PROVE FailedOnce'
    <2>1. slot[k] # None /\ slot[k].id \in JobId /\ Bury(slot[k].id)
        BY <1>2 DEF Fail, WantsFail, TypeOK, WorkerTypeOK, Task
    <2>2. jobs[slot[k].id] # None
        BY <2>1 DEF HeldInv, HeldIsReserved, Reserves
    <2>3. \A f \in FailId : failed[f] # slot[k].id
        <3>1. slot[k].id \notin Buried /\ slot[k].id # None
            BY <2>1, <2>2, NoRowAssumption DEF LedgerInv, NeverPendingAndFailed
        <3> QED
            BY <3>1 DEF Buried
    <2>4. failed' = [failed EXCEPT ![nextFail] = slot[k].id]
        BY <2>1 DEF Bury
    <2> QED
        BY <2>3, <2>4 DEF FailedOnce, TypeOK
<1>3. ASSUME NEW o \in Operators, RetryCommit(o) PROVE FailedOnce'
    BY <1>1, <1>3 DEF RetryCommit, TypeOK
<1> QED
    BY Steps, <1>1, <1>2, <1>3
    DEF Dispatch, LoopStep, ClaimNothing, ClaimSelect, ClaimUpdate, ClaimMiss, ClaimError,
        ShutdownRelease, Interrupt, RunStep, Complete, Release, OutcomeLost, RetryAbort,
        RetryRead, Tick, storeVars, vars

\* As long as claims stay inside the reservation timeout, a job on record as
\* failed, or taken from there by an operator, is held by no goroutine of any
\* worker, and no job is recorded as failed twice.
THEOREM FailedIsOver == Spec => []BuriedIsOver
<1> DEFINE PunctualInv == ~overran => HeldInv /\ FailedOnce
<1>1. Init => TypeOK /\ LedgerInv /\ PunctualInv
    BY TypeInit, LedgerInit, HeldInit DEF Init, FailedOnce
<1>2. TypeOK /\ LedgerInv /\ PunctualInv /\ [Next]_vars => (TypeOK /\ LedgerInv /\ PunctualInv)'
    BY TypeStep, LedgerStep, HeldStep, FailedOnceStep, OverrunSticks DEF LedgerInv
<1>3. TypeOK /\ LedgerInv /\ PunctualInv => BuriedIsOver
    <2> SUFFICES ASSUME TypeOK, LedgerInv, HeldInv, FailedOnce PROVE BuriedIsOver
        BY DEF BuriedIsOver
    <2>1. \A i \in Buried \cup requeued : jobs[i] = None
        BY DEF LedgerInv, NeverPendingAndFailed
    <2>2. /\ \A w \in Workers : loop[w] = "holding" => jobs[hand[w].id] # None
          /\ \A k \in Slots : slot[k] # None => jobs[slot[k].id] # None
        BY DEF HeldInv, HeldIsReserved, Reserves
    <2>3. \A i \in Buried \cup requeued : Holders(i) = {}
        BY <2>1, <2>2 DEF Holders
    <2> QED
        BY <2>3 DEF BuriedIsOver, FailedOnce
<1> QED
    BY <1>1, <1>2, <1>3, PTL DEF Spec
-----------------------------------------------------------------------------
(* A job that is done is not run again.                                    *)

DoneInv == StopIsFault /\ DoneIsCompleting

LEMMA DoneInit == Init => DoneInv
BY DEF Init, WorkerInit, DoneInv, StopIsFault, DoneIsCompleting

\* A step in which no Run returns, and which keeps the goroutines that are about
\* to call Complete, or is a fault, or removes the row.
LEMMA DoneQuiet ==
    ASSUME TypeOK, DoneInv, faults' \in Nat, faults' >= faults,
           \A w \in Workers : ctx'[w] = "cancelled" => ctx[w] = "cancelled" \/ faults' > 0,
           \A w \in Workers : loop'[w] = "draining" =>
               loop[w] = "draining" \/ ctx[w] = "cancelled",
           done' = done,
           \A i \in done : jobs'[i] # None => jobs[i] # None,
           \A k \in Slots : slot[k] # None /\ slot[k].stage = "ok" =>
               \/ slot'[k] = slot[k]
               \/ faults' > 0
               \/ jobs'[slot[k].id] = None
    PROVE  DoneInv'
<1>1. faults > 0 => faults' > 0
    BY DEF TypeOK, WorkerTypeOK
<1>2. StopIsFault'
    BY <1>1 DEF DoneInv, StopIsFault
<1>3. DoneIsCompleting'
    BY <1>1 DEF DoneInv, DoneIsCompleting
<1> QED
    BY <1>2, <1>3 DEF DoneInv

LEMMA DoneStep == TypeOK /\ LedgerInv /\ DoneInv /\ [Next]_vars => DoneInv'
<1> SUFFICES ASSUME TypeOK, LedgerInv, DoneInv, [Next]_vars PROVE DoneInv'
    OBVIOUS
<1>0. faults \in Nat /\ done \subseteq JobId /\ nextId \notin done
    <2>1. faults \in Nat /\ done \subseteq JobId
        BY DEF TypeOK, WorkerTypeOK
    <2> QED
        BY <2>1, SettledMinted DEF LedgerInv
<1>a. Fault => faults' \in Nat /\ faults' >= faults /\ faults' > 0
    BY <1>0 DEF Fault
<1>b. NoFault => faults' \in Nat /\ faults' >= faults
    BY <1>0 DEF NoFault
<1>c. /\ \A w \in Workers : loop[w] = "holding" => hand[w].id \in JobId
      /\ \A k \in Slots : slot[k] # None => slot[k] \in Task /\ slot[k].id \in JobId
      /\ now \in Nat
    BY DEF TypeOK, WorkerTypeOK, Rec, Task
<1>1. ASSUME NEW n, NEW m, NEW t, Push(n, m, t),
             UNCHANGED <<loop, ctx, slot, done, faults>>
      PROVE  DoneInv'
    <2>1. \A i \in done : jobs'[i] # None => jobs[i] # None
        BY <1>0, <1>1 DEF Push, TypeOK
    <2> QED
        BY <1>0, <1>1, <2>1, DoneQuiet
<1>2. ASSUME NEW n \in Names, NEW d \in 0..MaxDelay, Dispatch(n, d) PROVE DoneInv'
    BY <1>1, <1>2 DEF Dispatch, NoFault, workerVars
<1>3. ASSUME NEW w \in Workers, LoopStep(w) PROVE DoneInv'
    <2>1. UNCHANGED jobs
        BY <1>3 DEF LoopStep, storeVars
    <2>2. CASE StartDraining(w) \/ Drained(w) \/ Restart(w)
        BY <1>b, <2>1, <2>2, DoneQuiet DEF StartDraining, Drained, Restart, TypeOK, WorkerTypeOK
    <2>3. CASE DrainTimeout(w)
        <3>1. faults > 0
            BY <2>3 DEF DrainTimeout, DoneInv, StopIsFault
        <3>2. \A v \in Workers : loop'[v] = "draining" => loop[v] = "draining"
            BY <2>3 DEF DrainTimeout, Vanish, TypeOK, WorkerTypeOK
        <3> QED
            BY <1>b, <2>1, <2>3, <3>1, <3>2, DoneQuiet DEF DrainTimeout, Vanish, NoFault
    <2>4. ASSUME NEW k \in Slots, TakeSlot(w, k) PROVE DoneInv'
        <3>1. \A x \in Slots : slot[x] # None => slot'[x] = slot[x]
            BY <2>4 DEF TakeSlot, TypeOK, WorkerTypeOK
        <3>2. \A v \in Workers : loop'[v] = "draining" => loop[v] = "draining"
            BY <2>4 DEF TakeSlot, TypeOK, WorkerTypeOK
        <3> QED
            BY <1>b, <2>1, <2>4, <3>1, <3>2, DoneQuiet DEF TakeSlot
    <2> QED
        BY <1>3, <2>2, <2>3, <2>4 DEF LoopStep
<1>4. ASSUME NEW w \in Workers,
             ClaimSelect(w) \/ ClaimUpdate(w) \/ ClaimMiss(w) \/ ClaimError(w)
      PROVE  DoneInv'
    <2>1. \A i \in JobId : jobs'[i] # None => jobs[i] # None
        BY <1>4, ReserveKeepsRows DEF ClaimSelect, ClaimUpdate, ClaimMiss, ClaimError, storeVars
    <2>2. \A v \in Workers : loop'[v] = "draining" => loop[v] = "draining"
        BY <1>4 DEF ClaimSelect, ClaimUpdate, ClaimMiss, ClaimError, EnterClaim, Receive,
                    ReceiveNothing, TypeOK, WorkerTypeOK
    <2>3. UNCHANGED <<ctx, slot, done>> /\ (NoFault \/ Fault)
        BY <1>4 DEF ClaimSelect, ClaimUpdate, ClaimMiss, ClaimError, EnterClaim, Receive, ReceiveNothing
    <2> QED
        BY <1>0, <1>a, <1>b, <2>1, <2>2, <2>3, DoneQuiet
<1>5. ASSUME NEW w \in Workers, ShutdownRelease(w) PROVE DoneInv'
    <2>1. \A j \in JobId : jobs'[j] # None => jobs[j] # None
        BY <1>5, <1>c, ReleaseKeepsRows DEF ShutdownRelease, HandBack
    <2>2. \A v \in Workers : loop'[v] = "draining" => loop[v] = "draining"
        BY <1>5 DEF ShutdownRelease, HandBack, TypeOK, WorkerTypeOK
    <2>3. UNCHANGED <<ctx, slot, done>> /\ (NoFault \/ Fault)
        BY <1>5 DEF ShutdownRelease, HandBack
    <2> QED
        BY <1>0, <1>a, <1>b, <2>1, <2>2, <2>3, DoneQuiet
<1>6. ASSUME NEW w \in Workers, Interrupt(w) PROVE DoneInv'
    <2>1. Fault /\ UNCHANGED <<jobs, done>>
        BY <1>6 DEF Interrupt, Cancel, Crash, Vanish, storeVars
    <2>2. \A v \in Workers : loop'[v] = "draining" => loop[v] = "draining"
        BY <1>6 DEF Interrupt, Cancel, Crash, Vanish, TypeOK, WorkerTypeOK
    <2> QED
        BY <1>a, <2>1, <2>2, DoneQuiet
<1>7. ASSUME NEW k \in Slots, RunStep(k) PROVE DoneInv'
    <2>1. slot[k] # None /\ slot[k] \in Task /\ slot[k].stage = "run"
        BY <1>7, <1>c DEF RunStep, RunOk, RunErr
    <2>2. \A x \in Slots : x # k => slot'[x] = slot[x]
        BY <1>7 DEF RunStep, RunOk, RunErr, TypeOK, WorkerTypeOK
    <2>3. UNCHANGED <<jobs, faults, loop, ctx>>
        BY <1>7 DEF RunStep, RunOk, RunErr, NoFault, storeVars
    <2>4. CASE RunErr(k)
        BY <1>0, <2>1, <2>2, <2>3, <2>4, DoneQuiet DEF RunErr
    <2>5. CASE RunOk(k)
        <3>1. slot'[k] = [slot[k] EXCEPT !.stage = "ok"] /\ done' = done \cup {slot[k].id}
            BY <2>5 DEF RunOk, TypeOK, WorkerTypeOK
        <3>2. slot'[k] \in Task /\ slot'[k].id = slot[k].id /\ slot'[k].stage = "ok"
            BY <2>1, <3>1 DEF Task, Stages
        <3>3. slot'[k] # None
            BY <2>1, <3>1, <3>2, NoneAssumption
        <3>4. ASSUME NEW i \in done', ~(faults' > 0), jobs'[i] # None
              PROVE  \E x \in Slots : slot'[x] # None /\ slot'[x].id = i /\ slot'[x].stage = "ok"
            <4>1. CASE i = slot[k].id
                BY <3>2, <3>3, <4>1
            <4>2. CASE i # slot[k].id
                <5>1. PICK x \in Slots : slot[x] # None /\ slot[x].id = i /\ slot[x].stage = "ok"
                    BY <2>3, <3>1, <3>4, <4>2 DEF DoneInv, DoneIsCompleting
                <5> QED
                    BY <2>1, <2>2, <5>1
            <4> QED
                BY <4>1, <4>2
        <3>5. DoneIsCompleting'
            BY <3>4 DEF DoneIsCompleting
        <3> QED
            BY <2>3, <3>5 DEF DoneInv, StopIsFault
    <2> QED
        BY <1>7, <2>4, <2>5 DEF RunStep
<1>8. ASSUME NEW k \in Slots, slot[k] # None, FreeSlot(k), NoFault,
             \A j \in JobId : jobs'[j] # None => jobs[j] # None,
             slot[k].stage = "ok" => jobs'[slot[k].id] = None
      PROVE  DoneInv'
    <2>1. \A x \in Slots : x # k => slot'[x] = slot[x]
        BY <1>8 DEF FreeSlot, TypeOK, WorkerTypeOK
    <2> QED
        BY <1>0, <1>b, <1>8, <2>1, DoneQuiet DEF FreeSlot
<1>9. ASSUME NEW k \in Slots, Complete(k) PROVE DoneInv'
    <2>1. slot[k] # None /\ slot[k].id \in JobId
        BY <1>9, <1>c DEF Complete, WantsComplete
    <2> QED
        BY <1>8, <1>9, <2>1 DEF Complete, TypeOK
<1>10. ASSUME NEW k \in Slots, Release(k) PROVE DoneInv'
    <2>1. slot[k] # None /\ slot[k].id \in JobId /\ slot[k].stage = "err" /\ slot[k].id < nextId
        BY <1>10, <1>c DEF Release, WantsRelease, LedgerInv, MintedOnly
    <2>2. kind[slot[k].id] \in Names /\ slot[k].attempts \in Nat
        BY <2>1, <1>c DEF LedgerInv, MintedOnly, Task
    <2>3. now + BackoffOf(kind[slot[k].id], slot[k].attempts) \in Nat
        BY <1>c, <2>2, BackoffType
    <2> QED
        BY <1>8, <1>10, <2>1, <2>3, ReleaseKeepsRows DEF Release
<1>11. ASSUME NEW k \in Slots, Fail(k) PROVE DoneInv'
    <2>1. slot[k] # None /\ slot[k].stage # "ok"
        BY <1>11 DEF Fail, WantsFail
    <2> QED
        BY <1>8, <1>11, <2>1 DEF Fail, Bury, TypeOK
<1>12. ASSUME NEW k \in Slots, OutcomeLost(k) PROVE DoneInv'
    BY <1>a, <1>12, DoneQuiet DEF OutcomeLost, FreeSlot, storeVars
<1>13. ASSUME NEW o \in Operators, RetryCommit(o) PROVE DoneInv'
    BY <1>1, <1>13 DEF RetryCommit, workerVars
<1>14. ASSUME NEW o \in Operators, RetryAbort(o) \/ \E f \in FailId : RetryRead(o, f) PROVE DoneInv'
    BY <1>0, <1>14, DoneQuiet DEF RetryAbort, RetryRead, workerVars
<1>15. CASE Tick \/ UNCHANGED vars
    BY <1>0, <1>15, DoneQuiet DEF Tick, vars, workerVars, storeVars
<1> QED
    BY Steps, <1>2, <1>3, <1>4, <1>5, <1>6, <1>7, <1>9, <1>10, <1>11, <1>12, <1>13, <1>14, <1>15
    DEF ClaimNothing

\* Only handing a record to a goroutine runs a job, and the job of a record that
\* is held is not one that somebody is completing.
LEMMA RerunStep ==
    ASSUME TypeOK, DoneInv, ~overran => HeldInv, [Next]_vars,
           NEW i \in JobId, i \in done, tries'[i] > tries[i]
    PROVE  faults > 0 \/ overran
<1>0. tries[i] \in Nat
    BY DEF TypeOK, WorkerTypeOK
<1>1. CASE UNCHANGED tries
    BY <1>0, <1>1
<1>2. ASSUME NEW w \in Workers, NEW k \in Slots, TakeSlot(w, k), ~overran PROVE faults > 0
    <2>1. loop[w] = "holding" /\ hand[w].id = i
        <3>1. hand[w].id # i => tries'[i] = tries[i]
            BY <1>2 DEF TakeSlot, TypeOK, WorkerTypeOK
        <3> QED
            BY <1>0, <1>2, <3>1 DEF TakeSlot
    <2>2. jobs[i] # None
        BY <1>2, <2>1 DEF HeldInv, HeldIsReserved, Reserves
    <2>3. \A x \in Slots : slot[x] # None => slot[x].id # i
        BY <1>2, <2>1 DEF HeldInv, Apart
    <2> QED
        BY <2>2, <2>3 DEF DoneInv, DoneIsCompleting
<1> QED
    BY Steps, <1>1, <1>2
    DEF Dispatch, LoopStep, StartDraining, Drained, Restart, DrainTimeout, Vanish, ClaimNothing,
        ClaimSelect, ClaimUpdate, ClaimMiss, ClaimError, EnterClaim, Receive, ReceiveNothing,
        ShutdownRelease, HandBack, Interrupt, Cancel, Crash, RunStep, RunOk, RunErr, Complete,
        Release, Fail, OutcomeLost, FreeSlot, RetryCommit, RetryAbort, RetryRead, Tick,
        workerVars, vars

\* A job whose Run returned nil is run again only after a fault or an overrun: no
\* interleaving of selects, guarded updates, completions, releases and retries of
\* any number of workers and operators repeats it.
THEOREM RunsOnce == Spec => RerunOnlyAfterFault
<1> DEFINE PunctualInv == ~overran => HeldInv
           Rerun == \A i \in JobId : i \in done /\ tries'[i] > tries[i] => faults > 0 \/ overran
<1>1. Init => TypeOK /\ LedgerInv /\ PunctualInv /\ DoneInv
    BY TypeInit, LedgerInit, HeldInit, DoneInit
<1>2. TypeOK /\ LedgerInv /\ PunctualInv /\ DoneInv /\ [Next]_vars
      => (TypeOK /\ LedgerInv /\ PunctualInv /\ DoneInv)'
    BY TypeStep, LedgerStep, HeldStep, OverrunSticks, DoneStep DEF LedgerInv
<1>3. TypeOK /\ LedgerInv /\ PunctualInv /\ DoneInv /\ [Next]_vars => [Rerun]_vars
    BY RerunStep
<1> QED
    BY <1>1, <1>2, <1>3, PTL DEF Spec, RerunOnlyAfterFault
=============================================================================
