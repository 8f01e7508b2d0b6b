-------------------------- MODULE RedisQueueProofs --------------------------
(***************************************************************************)
(* Theorems about RedisQueue, for any number of workers, tokens, jobs and  *)
(* operators, any cap on the failed list and any bounds on time and faults.*)
(***************************************************************************)
EXTENDS RedisQueue, SequenceTheorems, WellFoundedInduction, TLAPS

USE DEF clock

\* The steps of the system, one case per action.
LEMMA Steps ==
    ASSUME Next
    PROVE  \/ \E n \in Names, d \in 0..MaxDelay : Dispatch(n, d)
           \/ \E w \in Workers :
                \/ LoopStep(w) \/ ClaimNothing(w) \/ Claim(w) \/ ClaimDrop(w) \/ ClaimLost(w)
                \/ ShutdownRelease(w) \/ Interrupt(w)
           \/ \E k \in Slots :
                \/ RunStep(k) \/ Complete(k) \/ Release(k) \/ Fail(k) \/ OutcomeLost(k)
           \/ \E o \in Operators :
                \/ RetryPush(o) \/ RetryRemove(o) \/ RetryAbort(o)
                \/ \E x \in 1..Len(failed) : RetryRead(o, x)
           \/ Tick
BY DEF Next, WorkerStep, SlotStep, RetryStep

\* A backoff is a delay, whatever the attempt.
LEMMA BackoffType ==
    ASSUME NEW n \in Names, NEW a \in Nat
    PROVE  BackoffOf(n, a) \in Nat
<1> DEFINE m == IF a < 1 THEN 1 ELSE a
<1>1. m \in Nat
    OBVIOUS
<1>2. m * m \in Nat
    BY <1>1
<1>3. m * m * BackoffUnit \in Nat
    <2> HIDE DEF m
    <2> QED BY <1>2, QueueAssumption
<1>4. DefaultBackoff(a) \in Nat
    BY <1>3, QueueAssumption DEF DefaultBackoff
<1> QED
    BY <1>4, QueueAssumption DEF BackoffOf

\* What a worker, a goroutine, an operator or a key holds, when it holds something.
LEMMA HeldTypes ==
    ASSUME TypeOK
    PROVE  /\ \A w \in Workers : loop[w] = "holding" => hand[w] # None
           /\ \A w \in Workers : hand[w] # None =>
                 /\ hand[w] \in Rec /\ hand[w].id \in JobId /\ hand[w].max \in Nat \ {0}
                 /\ hand[w].attempts \in Nat /\ hand[w].at \in Nat
           /\ \A k \in Slots : slot[k] # None =>
                 /\ slot[k] \in Task /\ slot[k].id \in JobId /\ slot[k].max \in Nat \ {0}
                 /\ slot[k].attempts \in Nat /\ slot[k].at \in Nat
           /\ \A o \in Operators : op[o] # None =>
                 /\ op[o] \in [entry: Entry, pushed: BOOLEAN] /\ op[o].entry \in Entry
                 /\ op[o].entry.id \in JobId /\ op[o].entry.max \in Nat \ {0}
           /\ now \in Nat
BY DEF TypeOK, WorkerTypeOK, Rec, Task, Entry

\* The time a failed attempt is released to.
LEMMA ReleaseTime ==
    ASSUME TypeOK, MintedOnly, NEW k \in Slots, slot[k] # None
    PROVE  now + BackoffOf(kind[slot[k].id], slot[k].attempts) \in Nat
<1>1. kind[slot[k].id] \in Names
    BY HeldTypes DEF MintedOnly
<1> QED
    BY <1>1, HeldTypes, BackoffType
-----------------------------------------------------------------------------
(* The failed list.                                                        *)

\* A set of numbers that is not empty has a least one.
LEMMA NatMin ==
    ASSUME NEW S \in SUBSET Nat, S # {}
    PROVE  \E x \in S : \A y \in S : x <= y
<1> DEFINE R == {p \in Nat \X Nat : p[1] < p[2]}
<1>1. IsWellFoundedOn(R, Nat)
    BY NatLessThanWellFounded, Zenon DEF OpToRel
<1>2. \A y, x \in S : y < x => <<y, x>> \in R
    OBVIOUS
<1> HIDE DEF R
<1>3. PICK x \in S : \A y \in S : ~(<<y, x>> \in R)
    BY <1>1, WFMin, Zenon
<1>4. \A y \in S : ~(y < x)
    BY <1>2, <1>3
<1> QED
    BY <1>4

\* LPUSH and LTRIM: the new entry is in front, and what falls off is on record.
LEMMA BuryEffect ==
    ASSUME TypeOK, NEW r, r.id \in JobId, r.max \in Nat \ {0}, r.attempts \in Nat, Bury(r)
    PROVE  /\ failed' \in Seq(Entry) /\ Len(failed') <= FailedCap
           /\ trimmed' \subseteq JobId /\ trimmed \subseteq trimmed'
           /\ r.id \in FailedIds'
           /\ FailedIds \subseteq FailedIds' \cup trimmed'
           /\ FailedIds' \subseteq FailedIds \cup {r.id}
           /\ trimmed' \subseteq trimmed \cup FailedIds \cup {r.id}
           /\ Forget(r.id)
<1> DEFINE e == [id |-> r.id, max |-> r.max, attempts |-> r.attempts]
           longer == <<e>> \o failed
<1>1. e \in Entry /\ e.id = r.id
    BY DEF Entry
<1>2. /\ failed' = IF Len(longer) > FailedCap THEN SubSeq(longer, 1, FailedCap) ELSE longer
      /\ trimmed' = trimmed \cup (IF Len(longer) > FailedCap THEN {longer[Len(longer)].id} ELSE {})
      /\ Forget(r.id)
    BY DEF Bury
<1> HIDE DEF e
<1>3. failed \in Seq(Entry) /\ Len(failed) \in Nat /\ Len(failed) <= FailedCap /\ FailedCap \in Nat \ {0}
    BY CapAssumption DEF TypeOK
<1>4. /\ longer \in Seq(Entry) /\ Len(longer) = Len(failed) + 1 /\ longer[1] = e
      /\ \A x \in 1..Len(failed) : longer[x + 1] = failed[x]
      /\ \A x \in 1..Len(longer) : x # 1 => longer[x] = failed[x - 1]
    BY <1>1, <1>3
<1> HIDE DEF longer
<1>5. \A x \in 1..Len(longer) : longer[x] \in Entry /\ longer[x].id \in JobId
    <2>1. \A x \in 1..Len(longer) : longer[x] \in Entry
        BY <1>4, ElementOfSeq
    <2> QED
        BY <2>1 DEF Entry
<1>6. CASE Len(longer) > FailedCap
    <2>1. failed' = SubSeq(longer, 1, FailedCap) /\ Len(longer) = FailedCap + 1
        BY <1>2, <1>3, <1>4, <1>6
    <2>2. /\ failed' \in Seq(Entry) /\ Len(failed') = FailedCap
          /\ \A x \in 1..FailedCap : failed'[x] = longer[x]
        BY <1>3, <1>4, <2>1
    <2>3. trimmed' = trimmed \cup {longer[FailedCap + 1].id}
        BY <1>2, <1>6, <2>1
    <2>4. trimmed' \subseteq JobId
        BY <1>3, <1>5, <2>1, <2>3 DEF TypeOK
    <2>5. r.id \in FailedIds'
        BY <1>1, <1>3, <1>4, <2>2 DEF FailedIds
    <2>6. ASSUME NEW x \in 1..Len(failed) PROVE failed[x].id \in FailedIds' \cup trimmed'
        <3>1. x + 1 \in 1..FailedCap \/ x + 1 = FailedCap + 1
            BY <1>3, <1>4, <2>1
        <3> QED
            BY <1>4, <2>2, <2>3, <3>1 DEF FailedIds
    <2>7. ASSUME NEW x \in 1..FailedCap PROVE failed'[x].id \in FailedIds \cup {r.id}
        <3>1. x # 1 => x - 1 \in 1..Len(failed)
            BY <1>3, <1>4, <2>1
        <3>2. x \in 1..Len(longer)
            BY <1>3, <2>1
        <3> QED
            BY <1>1, <1>4, <2>2, <3>1, <3>2 DEF FailedIds
    <2>8. FailedIds \subseteq FailedIds' \cup trimmed'
        BY <2>6 DEF FailedIds
    <2>9. FailedIds' \subseteq FailedIds \cup {r.id}
        <3>1. \A x \in 1..Len(failed') : failed'[x].id \in FailedIds \cup {r.id}
            BY <2>2, <2>7
        <3>2. FailedIds' = {failed'[x].id : x \in 1..Len(failed')}
            BY DEF FailedIds
        <3> QED
            BY <3>1, <3>2, Zenon
    <2>10. trimmed' \subseteq trimmed \cup FailedIds
        <3>1. FailedCap \in 1..Len(failed) /\ longer[FailedCap + 1] = failed[FailedCap]
            BY <1>3, <1>4, <2>1
        <3> QED
            BY <2>3, <3>1 DEF FailedIds
    <2> QED
        BY <1>2, <1>3, <2>2, <2>3, <2>4, <2>5, <2>8, <2>9, <2>10
<1>7. CASE ~(Len(longer) > FailedCap)
    <2>1. failed' = longer /\ trimmed' = trimmed /\ Len(longer) <= FailedCap
        BY <1>2, <1>3, <1>4, <1>7
    <2>2. r.id \in FailedIds'
        BY <1>1, <1>3, <1>4, <2>1 DEF FailedIds
    <2>3. ASSUME NEW x \in 1..Len(failed) PROVE failed[x].id \in FailedIds'
        <3>1. x + 1 \in 1..Len(longer)
            BY <1>3, <1>4
        <3> QED
            BY <1>4, <2>1, <3>1 DEF FailedIds
    <2>4. ASSUME NEW x \in 1..Len(longer) PROVE longer[x].id \in FailedIds \cup {r.id}
        <3>1. x # 1 => x - 1 \in 1..Len(failed)
            BY <1>3, <1>4
        <3> QED
            BY <1>1, <1>4, <3>1 DEF FailedIds
    <2>5. FailedIds \subseteq FailedIds'
        BY <2>3 DEF FailedIds
    <2>6. FailedIds' \subseteq FailedIds \cup {r.id}
        <3>1. FailedIds' = {longer[x].id : x \in 1..Len(longer)}
            BY <2>1 DEF FailedIds
        <3> QED
            BY <2>4, <3>1, Zenon
    <2>7. trimmed' \subseteq JobId
        BY <2>1 DEF TypeOK
    <2> QED
        BY <1>2, <1>4, <2>1, <2>2, <2>5, <2>6, <2>7
<1> QED
    BY <1>6, <1>7

\* LREM 1: at most the entry that was asked for goes.
LEMMA WithoutEffect ==
    ASSUME TypeOK, NEW e \in Entry, failed' = Without(e)
    PROVE  /\ failed' \in Seq(Entry) /\ Len(failed') <= FailedCap
           /\ FailedIds' \subseteq FailedIds
           /\ FailedIds \subseteq FailedIds' \cup {e.id}
<1> DEFINE hits == {x \in 1..Len(failed) : failed[x] = e}
           least == CHOOSE y \in hits : \A z \in hits : y <= z
<1>1. failed \in Seq(Entry) /\ Len(failed) \in Nat /\ Len(failed) <= FailedCap /\ FailedCap \in Nat \ {0}
    BY CapAssumption DEF TypeOK
<1>2. CASE hits = {}
    BY <1>1, <1>2 DEF Without, FailedIds
<1>3. CASE hits # {}
    <2>1. failed' = SubSeq(failed, 1, least - 1) \o SubSeq(failed, least + 1, Len(failed))
        BY <1>3 DEF Without
    <2>2. \E y \in hits : \A z \in hits : y <= z
        <3>1. hits \in SUBSET Nat
            BY <1>1
        <3> HIDE DEF hits
        <3> QED BY <1>3, <3>1, NatMin
    <2>3. least \in 1..Len(failed) /\ failed[least] = e
        <3>1. least \in hits
            BY <2>2
        <3> QED BY <3>1
    <2> HIDE DEF hits, least
    <2>4. /\ failed' \in Seq(Entry) /\ Len(failed') = Len(failed) - 1
          /\ \A x \in 1..Len(failed') : failed'[x] = IF x < least THEN failed[x] ELSE failed[x + 1]
        <3> DEFINE front == SubSeq(failed, 1, least - 1)
                   back == SubSeq(failed, least + 1, Len(failed))
        <3>0. \A x \in 1..Len(failed) : failed[x] \in Entry
            BY <1>1, ElementOfSeq
        <3>1. /\ front \in Seq(Entry) /\ Len(front) = least - 1
              /\ \A x \in 1..(least - 1) : front[x] = failed[x]
            BY <1>1, <2>3, <3>0, SubSeqProperties
        <3>2. /\ back \in Seq(Entry) /\ Len(back) = Len(failed) - least
              /\ \A x \in 1..(Len(failed) - least) : back[x] = failed[least + x]
            BY <1>1, <2>3, <3>0, SubSeqProperties
        <3> HIDE DEF front, back
        <3>3. /\ failed' \in Seq(Entry) /\ Len(failed') = Len(front) + Len(back)
              /\ \A x \in 1..(Len(front) + Len(back)) : failed'[x] =
                    IF x <= Len(front) THEN front[x] ELSE back[x - Len(front)]
            <4>1. failed' = front \o back
                BY <2>1 DEF front, back
            <4> QED
                BY <3>1, <3>2, <4>1, ConcatProperties
        <3>4. ASSUME NEW x \in 1..Len(failed')
              PROVE  failed'[x] = IF x < least THEN failed[x] ELSE failed[x + 1]
            <4>1. CASE x < least
                BY <1>1, <2>3, <3>1, <3>2, <3>3, <4>1
            <4>2. CASE ~(x < least)
                <5>1. x - (least - 1) \in 1..(Len(failed) - least) /\ ~(x <= Len(front))
                    BY <1>1, <2>3, <3>1, <3>2, <3>3, <4>2
                <5>2. failed'[x] = back[x - (least - 1)]
                    BY <1>1, <2>3, <3>1, <3>2, <3>3, <5>1
                <5>3. least + (x - (least - 1)) = x + 1
                    BY <1>1, <2>3, <3>3
                <5> QED
                    BY <3>2, <4>2, <5>1, <5>2, <5>3
            <4> QED
                BY <4>1, <4>2
        <3> QED
            BY <1>1, <2>3, <3>1, <3>2, <3>3, <3>4
    <2>5. ASSUME NEW x \in 1..Len(failed') PROVE failed'[x].id \in FailedIds
        <3>1. x \in 1..Len(failed) /\ x + 1 \in 1..Len(failed)
            BY <1>1, <2>4
        <3> QED
            BY <2>4, <3>1 DEF FailedIds
    <2>6. ASSUME NEW x \in 1..Len(failed), x # least PROVE failed[x].id \in FailedIds'
        <3>1. CASE x < least
            <4>1. x \in 1..Len(failed')
                BY <1>1, <2>3, <2>4, <3>1
            <4> QED BY <2>4, <3>1, <4>1 DEF FailedIds
        <3>2. CASE x > least
            <4>1. x - 1 \in 1..Len(failed') /\ ~(x - 1 < least) /\ (x - 1) + 1 = x
                BY <1>1, <2>3, <2>4, <3>2
            <4> QED BY <2>4, <4>1 DEF FailedIds
        <3> QED BY <2>3, <2>6, <3>1, <3>2
    <2>7. FailedIds' \subseteq FailedIds
        <3>1. FailedIds' = {failed'[x].id : x \in 1..Len(failed')}
            BY DEF FailedIds
        <3> QED
            BY <2>5, <3>1, Zenon
    <2>8. FailedIds \subseteq FailedIds' \cup {e.id}
        BY <2>3, <2>6 DEF FailedIds
    <2> QED
        BY <1>1, <2>4, <2>7, <2>8
<1> QED
    BY <1>2, <1>3
-----------------------------------------------------------------------------
(* The sorted sets and the hashes.                                         *)

LEMMA PushEffect ==
    ASSUME TypeOK, NEW n \in Names \cup {None}, NEW m \in Nat \ {0}, NEW t \in Nat, Push(n, m, t)
    PROVE  /\ nextId \in JobId /\ nextId' = nextId + 1 /\ nextId' \in Nat \ {0}
           /\ records' \in [JobId -> (Nat \ {0}) \cup {None}] /\ records'[nextId] # None
           /\ pending' \in [JobId -> Nat \cup {None}] /\ pending'[nextId] # None
           /\ kind' \in [JobId -> Names \cup {None}] /\ kind'[nextId] = n
           /\ \A i \in JobId : i # nextId =>
                 records'[i] = records[i] /\ pending'[i] = pending[i] /\ kind'[i] = kind[i]
<1>1. nextId \in JobId /\ nextId' = nextId + 1 /\ nextId' \in Nat \ {0}
    BY QueueAssumption DEF Push, MintId, TypeOK, WorkerTypeOK, JobId
<1> QED
    BY <1>1, NoneNotNat DEF Push, MintId, TypeOK, WorkerTypeOK

\* The claim script takes the first job that is due out of pending, after it has
\* handed back every lapsed reservation.
LEMMA MoveEffect ==
    ASSUME TypeOK, NEW w \in Workers, NEW i \in JobId, NEW s \in Nat \cup {None}, FirstDue(w, i),
           pending' = [Refilled(w) EXCEPT ![i] = None],
           reserved' = [Unreserved(w) EXCEPT ![i] = s]
    PROVE  /\ pending' \in [JobId -> Nat \cup {None}] /\ pending'[i] = None
           /\ reserved' \in [JobId -> Nat \cup {None}] /\ reserved'[i] = s
           /\ kind[i] # None
           /\ pending[i] # None \/ (reserved[i] # None /\ reserved[i] <= now)
           /\ \A j \in JobId : j # i =>
                 \/ pending'[j] = pending[j] /\ reserved'[j] = reserved[j]
                 \/ /\ reserved[j] # None /\ reserved[j] <= now
                    /\ pending'[j] = now /\ reserved'[j] = None
<1>1. Refilled(w) \in [JobId -> Nat \cup {None}] /\ Unreserved(w) \in [JobId -> Nat \cup {None}]
    BY HeldTypes DEF Refilled, Unreserved, TypeOK
<1>2. \A j \in JobId :
        \/ Refilled(w)[j] = pending[j] /\ Unreserved(w)[j] = reserved[j]
        \/ /\ reserved[j] # None /\ reserved[j] <= now
           /\ Refilled(w)[j] = now /\ Unreserved(w)[j] = None
    BY DEF Refilled, Unreserved, Stale
<1>3. kind[i] # None /\ Refilled(w)[i] # None
    BY DEF FirstDue, Due, InQueue
<1> QED
    BY <1>1, <1>2, <1>3

LEMMA TakeEffect ==
    ASSUME TypeOK, NEW w \in Workers, NEW i \in JobId, ScriptTake(w, i)
    PROVE  /\ attempts' \in [JobId -> Nat]
           /\ pending' \in [JobId -> Nat \cup {None}] /\ pending'[i] = None
           /\ reserved' \in [JobId -> Nat \cup {None}] /\ reserved'[i] = now + Timeout
           /\ kind[i] # None /\ records[i] # None /\ records[i] \in Nat \ {0}
           /\ pending[i] # None \/ (reserved[i] # None /\ reserved[i] <= now)
           /\ \A j \in JobId : j # i =>
                 \/ pending'[j] = pending[j] /\ reserved'[j] = reserved[j]
                 \/ /\ reserved[j] # None /\ reserved[j] <= now
                    /\ pending'[j] = now /\ reserved'[j] = None
<1>1. now + Timeout \in Nat
    BY HeldTypes, QueueAssumption
<1>2. attempts' \in [JobId -> Nat] /\ records[i] # None /\ records[i] \in Nat \ {0}
    BY DEF ScriptTake, TypeOK
<1>3. /\ FirstDue(w, i)
      /\ pending' = [Refilled(w) EXCEPT ![i] = None]
      /\ reserved' = [Unreserved(w) EXCEPT ![i] = now + Timeout]
    BY DEF ScriptTake
<1> QED
    BY <1>1, <1>2, <1>3, MoveEffect

\* Release writes the record again and puts the job into pending.
LEMMA PutBackEffect ==
    ASSUME TypeOK, NEW r, r.id \in JobId, r.max \in Nat \ {0}, NEW t \in Nat, PutBack(r, t)
    PROVE  /\ records' \in [JobId -> (Nat \ {0}) \cup {None}] /\ records'[r.id] # None
           /\ pending' \in [JobId -> Nat \cup {None}] /\ pending'[r.id] # None
           /\ reserved' \in [JobId -> Nat \cup {None}] /\ reserved'[r.id] = None
           /\ \A j \in JobId : j # r.id =>
                 UNCHANGED <<records[j], pending[j], reserved[j]>>
BY NoneNotNat DEF PutBack, TypeOK

\* Complete and Fail drop the record and the reservation.
LEMMA ForgetEffect ==
    ASSUME TypeOK, NEW i \in JobId, Forget(i)
    PROVE  /\ records' \in [JobId -> (Nat \ {0}) \cup {None}] /\ records'[i] = None
           /\ reserved' \in [JobId -> Nat \cup {None}] /\ reserved'[i] = None
           /\ attempts' \in [JobId -> Nat]
           /\ \A j \in JobId : j # i => records'[j] = records[j] /\ reserved'[j] = reserved[j]
BY DEF Forget, TypeOK
-----------------------------------------------------------------------------
LEMMA TypeInit == Init => TypeOK
<1> SUFFICES ASSUME Init PROVE TypeOK
    OBVIOUS
<1>1. overran \in BOOLEAN
    BY DEF Init, WorkerInit
<1>2. failed \in Seq(Entry) /\ Len(failed) <= FailedCap
    BY CapAssumption, EmptySeq DEF Init
<1>3. /\ pending \in [JobId -> Nat \cup {None}] /\ reserved \in [JobId -> Nat \cup {None}]
      /\ records \in [JobId -> (Nat \ {0}) \cup {None}] /\ attempts \in [JobId -> Nat]
      /\ requeued \subseteq JobId /\ trimmed \subseteq JobId
      /\ op \in [Operators -> [entry: Entry, pushed: BOOLEAN] \cup {None}]
    BY DEF Init
<1> QED
    BY <1>1, <1>2, <1>3, QueueAssumption DEF Init, WorkerInit, TypeOK, WorkerTypeOK

\* Every step keeps the types: the worker's share first, then the keys.
LEMMA TypeStep == TypeOK /\ MintedOnly /\ [Next]_vars => TypeOK'
<1> SUFFICES ASSUME TypeOK, MintedOnly, [Next]_vars PROVE TypeOK'
    OBVIOUS
<1> USE QueueAssumption, NoneNotNat, NoneAssumption
<1>1. ASSUME NEW n \in Names, NEW d \in 0..MaxDelay, Dispatch(n, d) PROVE TypeOK'
    <2>1. Push(n, MaxAttemptsOf[n], now + d) /\ now + d \in Nat /\ MaxAttemptsOf[n] \in Nat \ {0}
        BY <1>1 DEF Dispatch, TypeOK, WorkerTypeOK
    <2>2. /\ records' \in [JobId -> (Nat \ {0}) \cup {None}] /\ pending' \in [JobId -> Nat \cup {None}]
          /\ nextId' \in Nat \ {0} /\ kind' \in [JobId -> Names \cup {None}]
        BY <2>1, PushEffect
    <2> QED
        BY <1>1, <2>2 DEF Dispatch, NoFault, TypeOK, WorkerTypeOK, workerVars
<1>2. ASSUME NEW w \in Workers, LoopStep(w) PROVE TypeOK'
    <2> USE DEF TypeOK, WorkerTypeOK, mintVars, storeVars, NoFault
    <2>1. CASE StartDraining(w)
        BY <1>2, <2>1 DEF LoopStep, StartDraining
    <2>2. CASE Drained(w)
        BY <1>2, <2>2 DEF LoopStep, Drained
    <2>3. CASE Restart(w)
        BY <1>2, <2>3 DEF LoopStep, Restart
    <2>4. CASE DrainTimeout(w)
        BY <1>2, <2>4 DEF LoopStep, DrainTimeout, Vanish
    <2>5. ASSUME NEW k \in Slots, TakeSlot(w, k) PROVE TypeOK'
        <3>1. hand[w] \in Rec
            BY <2>5 DEF TakeSlot
        <3>2. slot' \in [Slots -> Task \cup {None}] /\ tries' \in [JobId -> Nat]
            BY <2>5, <3>1 DEF TakeSlot, Rec, Task, Stages
        <3> QED
            BY <1>2, <2>5, <3>2 DEF LoopStep, TakeSlot
    <2> QED
        BY <1>2, <2>1, <2>2, <2>3, <2>4, <2>5 DEF LoopStep
<1>3. ASSUME NEW w \in Workers, Claim(w) PROVE TypeOK'
    <2>1. PICK i \in JobId :
            /\ ScriptTake(w, i)
            /\ Receive(w, [id |-> i, attempts |-> attempts[i] + 1, max |-> records[i], at |-> now])
            /\ NoFault /\ UNCHANGED <<clock, mintVars, records, failed, requeued, trimmed, op>>
        BY <1>3 DEF Claim
    <2>2. /\ attempts' \in [JobId -> Nat] /\ records[i] \in Nat \ {0}
          /\ pending' \in [JobId -> Nat \cup {None}] /\ reserved' \in [JobId -> Nat \cup {None}]
        BY <2>1, TakeEffect
    <2>3. [id |-> i, attempts |-> attempts[i] + 1, max |-> records[i], at |-> now] \in Rec
        BY <2>2 DEF Rec, TypeOK, WorkerTypeOK
    <2>4. overran' \in BOOLEAN
        BY <2>1 DEF TypeOK, WorkerTypeOK
    <2> QED
        BY <2>1, <2>2, <2>3, <2>4 DEF Receive, NoFault, TypeOK, WorkerTypeOK, mintVars
<1>4. ASSUME NEW w \in Workers, ClaimDrop(w) PROVE TypeOK'
    <2>1. pending' \in [JobId -> Nat \cup {None}] /\ reserved' \in [JobId -> Nat \cup {None}]
        <3>1. PICK i \in JobId : ScriptDrop(w, i)
            BY <1>4 DEF ClaimDrop
        <3>2. /\ FirstDue(w, i)
              /\ pending' = [Refilled(w) EXCEPT ![i] = None]
              /\ reserved' = [Unreserved(w) EXCEPT ![i] = None]
            BY <3>1 DEF ScriptDrop
        <3> QED
            BY <3>2, MoveEffect
    <2>2. attempts' = attempts
        BY <1>4 DEF ClaimDrop, ScriptDrop
    <2> QED
        BY <1>4, <2>1, <2>2 DEF ClaimDrop, NoFault, TypeOK, WorkerTypeOK, workerVars, mintVars
<1>5. ASSUME NEW w \in Workers, ClaimLost(w) PROVE TypeOK'
    <2>1. /\ attempts' \in [JobId -> Nat]
          /\ pending' \in [JobId -> Nat \cup {None}] /\ reserved' \in [JobId -> Nat \cup {None}]
        BY <1>5, TakeEffect DEF ClaimLost
    <2> QED
        BY <1>5, <2>1 DEF ClaimLost, Fault, TypeOK, WorkerTypeOK, workerVars, mintVars
<1>6. ASSUME NEW w \in Workers, ShutdownRelease(w) PROVE TypeOK'
    <2>1. hand[w].id \in JobId /\ hand[w].max \in Nat \ {0} /\ now \in Nat
        BY <1>6, HeldTypes DEF ShutdownRelease, HandBack
    <2>2. /\ records' \in [JobId -> (Nat \ {0}) \cup {None}]
          /\ pending' \in [JobId -> Nat \cup {None}] /\ reserved' \in [JobId -> Nat \cup {None}]
        BY <1>6, <2>1, PutBackEffect DEF ShutdownRelease, TypeOK
    <2> QED
        BY <1>6, <2>2 DEF ShutdownRelease, HandBack, Fault, NoFault, TypeOK, WorkerTypeOK, mintVars
<1>7. ASSUME NEW w \in Workers, Interrupt(w) PROVE TypeOK'
    <2>1. CASE Cancel(w)
        BY <1>7, <2>1 DEF Interrupt, Cancel, Fault, TypeOK, WorkerTypeOK, mintVars, storeVars
    <2>2. CASE Crash(w)
        BY <1>7, <2>2 DEF Interrupt, Crash, Vanish, Fault, TypeOK, WorkerTypeOK, mintVars, storeVars
    <2> QED
        BY <1>7, <2>1, <2>2 DEF Interrupt
<1>8. ASSUME NEW k \in Slots, RunStep(k) PROVE TypeOK'
    <2>1. slot[k] \in Task
        BY <1>8, HeldTypes DEF RunStep, RunOk, RunErr
    <2>2. slot' \in [Slots -> Task \cup {None}] /\ done' \subseteq JobId
        <3>1. /\ slot' = [slot EXCEPT ![k].stage = "ok"] \/ slot' = [slot EXCEPT ![k].stage = "err"]
              /\ done' = done \/ done' = done \cup {slot[k].id}
            BY <1>8 DEF RunStep, RunOk, RunErr
        <3>2. slot \in [Slots -> Task \cup {None}] /\ done \subseteq JobId
            BY DEF TypeOK, WorkerTypeOK
        <3> QED
            BY <2>1, <3>1, <3>2 DEF Task, Stages
    <2> QED
        BY <1>8, <2>2 DEF RunStep, RunOk, RunErr, NoFault, TypeOK, WorkerTypeOK, mintVars, storeVars
<1>9. ASSUME NEW k \in Slots, Complete(k) PROVE TypeOK'
    <2>1. slot[k].id \in JobId /\ Forget(slot[k].id)
        BY <1>9, HeldTypes DEF Complete, WantsComplete
    <2>2. /\ records' \in [JobId -> (Nat \ {0}) \cup {None}]
          /\ reserved' \in [JobId -> Nat \cup {None}] /\ attempts' \in [JobId -> Nat]
        BY <2>1, ForgetEffect
    <2> QED
        BY <1>9, <2>2 DEF Complete, FreeSlot, NoFault, TypeOK, WorkerTypeOK, mintVars
<1>10. ASSUME NEW k \in Slots, Release(k) PROVE TypeOK'
    <2>1. slot[k] # None /\ slot[k].id \in JobId /\ slot[k].max \in Nat \ {0}
        BY <1>10, HeldTypes DEF Release, WantsRelease
    <2>2. /\ records' \in [JobId -> (Nat \ {0}) \cup {None}]
          /\ pending' \in [JobId -> Nat \cup {None}] /\ reserved' \in [JobId -> Nat \cup {None}]
        BY <1>10, <2>1, ReleaseTime, PutBackEffect DEF Release
    <2> QED
        BY <1>10, <2>2 DEF Release, FreeSlot, NoFault, TypeOK, WorkerTypeOK, mintVars
<1>11. ASSUME NEW k \in Slots, Fail(k) PROVE TypeOK'
    <2>1. /\ slot[k] # None /\ slot[k].id \in JobId /\ slot[k].max \in Nat \ {0}
          /\ slot[k].attempts \in Nat /\ Bury(slot[k])
        BY <1>11, HeldTypes DEF Fail, WantsFail
    <2>2. /\ failed' \in Seq(Entry) /\ Len(failed') <= FailedCap /\ trimmed' \subseteq JobId
          /\ Forget(slot[k].id)
        BY <2>1, BuryEffect
    <2>3. /\ records' \in [JobId -> (Nat \ {0}) \cup {None}]
          /\ reserved' \in [JobId -> Nat \cup {None}] /\ attempts' \in [JobId -> Nat]
        BY <2>1, <2>2, ForgetEffect
    <2> QED
        BY <1>11, <2>2, <2>3 DEF Fail, FreeSlot, NoFault, TypeOK, WorkerTypeOK, mintVars
<1>12. ASSUME NEW k \in Slots, OutcomeLost(k) PROVE TypeOK'
    BY <1>12 DEF OutcomeLost, FreeSlot, Fault, TypeOK, WorkerTypeOK, mintVars, storeVars
<1>13. ASSUME NEW o \in Operators, RetryPush(o) PROVE TypeOK'
    <2>1. /\ op[o] \in [entry: Entry, pushed: BOOLEAN] /\ now \in Nat
          /\ op[o].entry.id \in JobId /\ op[o].entry.max \in Nat \ {0}
        BY <1>13, HeldTypes DEF RetryPush
    <2>2. /\ Push(kind[op[o].entry.id], op[o].entry.max, now)
          /\ kind[op[o].entry.id] \in Names \cup {None}
        BY <1>13, <2>1 DEF RetryPush, TypeOK, WorkerTypeOK
    <2>3. /\ records' \in [JobId -> (Nat \ {0}) \cup {None}] /\ pending' \in [JobId -> Nat \cup {None}]
          /\ nextId' \in Nat \ {0} /\ kind' \in [JobId -> Names \cup {None}]
        BY <2>1, <2>2, PushEffect
    <2>4. op' \in [Operators -> [entry: Entry, pushed: BOOLEAN] \cup {None}]
        BY <1>13, <2>1 DEF RetryPush, TypeOK
    <2> QED
        BY <1>13, <2>1, <2>3, <2>4 DEF RetryPush, TypeOK, WorkerTypeOK, workerVars
<1>14. ASSUME NEW o \in Operators, RetryRemove(o) PROVE TypeOK'
    <2>1. failed' \in Seq(Entry) /\ Len(failed') <= FailedCap
        BY <1>14, HeldTypes, WithoutEffect DEF RetryRemove
    <2> QED
        BY <1>14, <2>1 DEF RetryRemove, TypeOK, WorkerTypeOK, workerVars, mintVars
<1>15. ASSUME NEW o \in Operators, RetryAbort(o) PROVE TypeOK'
    BY <1>15 DEF RetryAbort, TypeOK, WorkerTypeOK, workerVars, mintVars
<1>16. ASSUME NEW o \in Operators, NEW x \in 1..Len(failed), RetryRead(o, x) PROVE TypeOK'
    <2>1. failed[x] \in Entry
        BY ElementOfSeq DEF TypeOK
    <2>2. op' \in [Operators -> [entry: Entry, pushed: BOOLEAN] \cup {None}]
        BY <1>16, <2>1 DEF RetryRead, TypeOK
    <2> QED
        BY <1>16, <2>2 DEF RetryRead, TypeOK, WorkerTypeOK, workerVars, mintVars
<1>17. CASE Tick
    BY <1>17 DEF Tick, Advance, TypeOK, WorkerTypeOK, workerVars, mintVars, storeVars
<1>18. CASE UNCHANGED vars
    BY <1>18 DEF vars, TypeOK, WorkerTypeOK
<1> QED
    BY Steps, <1>1, <1>2, <1>3, <1>4, <1>5, <1>6, <1>7, <1>8, <1>9, <1>10, <1>11, <1>12, <1>13,
       <1>14, <1>15, <1>16, <1>17, <1>18 DEF ClaimNothing
-----------------------------------------------------------------------------
(* What is dropped is settled, and what has a record can be found again.   *)

\* What a step leaves in the hands of workers, in the keys and on the list.
HoldersKept ==
    /\ \A w \in Workers : hand'[w] # None => hand'[w].id < nextId
    /\ \A k \in Slots : slot'[k] # None =>
          slot'[k].id < nextId /\ (slot'[k].stage = "ok" => slot'[k].id \in done')

KeysKept ==
    /\ \A i \in JobId : pending'[i] # None \/ reserved'[i] # None \/ records'[i] # None => i < nextId
    /\ \A i \in JobId : records'[i] # None => pending'[i] # None \/ reserved'[i] # None
    /\ \A i \in JobId : records[i] # None => records'[i] # None \/ i \in done' \/ i \in FailedIds'

ListKept ==
    /\ \A o \in Operators : op'[o] # None =>
          op'[o].entry.id < nextId /\ (op'[o].pushed => op'[o].entry.id \in requeued')
    /\ \A i \in FailedIds' : i < nextId
    /\ FailedIds \subseteq FailedIds' \cup requeued' \cup trimmed'
    /\ requeued \subseteq requeued' /\ trimmed \subseteq trimmed'

LEMMA StoreInit == Init => StoreInv
<1> SUFFICES ASSUME Init PROVE StoreInv
    OBVIOUS
<1>1. FailedIds = {}
    BY DEF Init, FailedIds
<1>2. nextId = 1 /\ \A i \in JobId : ~(i < 1)
    BY DEF Init, WorkerInit, JobId
<1> QED
    BY <1>1, <1>2 DEF Init, WorkerInit, StoreInv, MintedOnly, OutcomesKnown, NoOrphanRecord, NoJobLost

\* Steps that mint no job.
LEMMA StoreQuiet ==
    ASSUME StoreInv, UNCHANGED <<kind, nextId>>, done \subseteq done',
           HoldersKept, KeysKept, ListKept
    PROVE  StoreInv'
<1>1. MintedOnly'
    BY DEF StoreInv, MintedOnly, HoldersKept, KeysKept, ListKept
<1>2. OutcomesKnown'
    BY DEF HoldersKept, ListKept, OutcomesKnown
<1>3. NoOrphanRecord'
    BY DEF KeysKept, NoOrphanRecord
<1>4. NoJobLost'
    BY DEF StoreInv, NoJobLost, KeysKept, ListKept
<1> QED
    BY <1>1, <1>2, <1>3, <1>4 DEF StoreInv

LEMMA HoldersSame ==
    ASSUME StoreInv, done \subseteq done',
           \A w \in Workers : hand'[w] # None => hand[w] # None /\ hand'[w].id = hand[w].id,
           \A k \in Slots : slot'[k] # None =>
               /\ slot[k] # None /\ slot'[k].id = slot[k].id
               /\ slot'[k].stage = "ok" => slot[k].stage = "ok" \/ slot[k].id \in done'
    PROVE  HoldersKept
BY DEF StoreInv, MintedOnly, OutcomesKnown, HoldersKept

LEMMA KeysSame == StoreInv /\ UNCHANGED <<pending, reserved, records>> => KeysKept
BY DEF StoreInv, MintedOnly, NoOrphanRecord, KeysKept

LEMMA ListSame == StoreInv /\ UNCHANGED <<failed, requeued, trimmed, op>> => ListKept
<1> SUFFICES ASSUME StoreInv, UNCHANGED <<failed, requeued, trimmed, op>> PROVE ListKept
    OBVIOUS
<1>1. FailedIds' = FailedIds
    BY DEF FailedIds
<1> QED
    BY <1>1 DEF StoreInv, MintedOnly, OutcomesKnown, ListKept

\* A push gives a new id to a job that has a record and is pending.
LEMMA StorePush ==
    ASSUME TypeOK, StoreInv, NEW n \in Names, NEW m \in Nat \ {0}, NEW t \in Nat, Push(n, m, t),
           UNCHANGED <<hand, slot, done, reserved, failed, trimmed>>,
           requeued \subseteq requeued',
           \A o \in Operators : op'[o] # None =>
               /\ op[o] # None /\ op'[o].entry = op[o].entry
               /\ op'[o].pushed => op[o].pushed \/ op[o].entry.id \in requeued'
    PROVE  StoreInv'
<1>1. /\ nextId \in JobId /\ nextId' = nextId + 1 /\ kind'[nextId] = n
      /\ records'[nextId] # None /\ pending'[nextId] # None
      /\ \A i \in JobId : i # nextId =>
            records'[i] = records[i] /\ pending'[i] = pending[i] /\ kind'[i] = kind[i]
    BY PushEffect
<1>2. /\ \A i \in JobId : i < nextId => i < nextId'
      /\ nextId < nextId'
      /\ \A i \in JobId : i < nextId' => i < nextId \/ i = nextId
    BY <1>1 DEF JobId
<1>3. FailedIds' = FailedIds /\ FailedIds \subseteq JobId
    <2>1. \A x \in 1..Len(failed) : failed[x] \in Entry
        BY ElementOfSeq DEF TypeOK
    <2> QED
        BY <2>1 DEF FailedIds, Entry
<1>4. MintedOnly'
    <2>1. \A i \in JobId : i < nextId' => kind'[i] \in Names
        BY <1>1, <1>2 DEF StoreInv, MintedOnly
    <2>2. \A i \in JobId : pending'[i] # None \/ reserved'[i] # None \/ records'[i] # None => i < nextId'
        BY <1>1, <1>2 DEF StoreInv, MintedOnly
    <2>3. \A w \in Workers : hand'[w] # None => hand'[w].id < nextId'
        BY <1>2, HeldTypes DEF StoreInv, MintedOnly
    <2>4. \A k \in Slots : slot'[k] # None => slot'[k].id < nextId'
        BY <1>2, HeldTypes DEF StoreInv, MintedOnly
    <2>5. \A o \in Operators : op'[o] # None => op'[o].entry.id < nextId'
        BY <1>2, HeldTypes DEF StoreInv, MintedOnly
    <2>6. \A i \in FailedIds' : i < nextId'
        BY <1>2, <1>3 DEF StoreInv, MintedOnly
    <2> QED
        BY <2>1, <2>2, <2>3, <2>4, <2>5, <2>6 DEF MintedOnly
<1>5. OutcomesKnown'
    BY DEF StoreInv, OutcomesKnown
<1>6. NoOrphanRecord'
    BY <1>1 DEF StoreInv, NoOrphanRecord
<1>7. NoJobLost'
    BY <1>1, <1>2, <1>3 DEF StoreInv, NoJobLost
<1> QED
    BY <1>4, <1>5, <1>6, <1>7 DEF StoreInv

LEMMA StoreStep == TypeOK /\ StoreInv /\ [Next]_vars => StoreInv'
<1> SUFFICES ASSUME TypeOK, StoreInv, [Next]_vars PROVE StoreInv'
    OBVIOUS
<1> USE HeldTypes
<1>0. /\ \A i \in JobId : pending[i] # None \/ reserved[i] # None \/ records[i] # None => i < nextId
      /\ \A w \in Workers : hand[w] # None => hand[w].id < nextId
      /\ \A k \in Slots : slot[k] # None => slot[k].id < nextId
      /\ MintedOnly
    BY DEF StoreInv, MintedOnly
<1>1. ASSUME NEW n \in Names, NEW d \in 0..MaxDelay, Dispatch(n, d) PROVE StoreInv'
    <2>1. Push(n, MaxAttemptsOf[n], now + d) /\ now + d \in Nat /\ MaxAttemptsOf[n] \in Nat \ {0}
        BY <1>1, QueueAssumption DEF Dispatch
    <2> QED
        BY <1>1, <2>1, StorePush DEF Dispatch, workerVars
<1>2. ASSUME NEW w \in Workers, LoopStep(w) PROVE StoreInv'
    <2>1. KeysKept /\ ListKept /\ UNCHANGED <<kind, nextId>>
        BY <1>2, KeysSame, ListSame DEF LoopStep, mintVars, storeVars
    <2>2. CASE StartDraining(w) \/ Drained(w) \/ Restart(w)
        BY <2>1, <2>2, HoldersSame, StoreQuiet DEF StartDraining, Drained, Restart
    <2>3. CASE DrainTimeout(w)
        <3>1. HoldersKept
            BY <2>3, HoldersSame DEF DrainTimeout, Vanish, TypeOK, WorkerTypeOK
        <3> QED
            BY <2>1, <2>3, <3>1, StoreQuiet DEF DrainTimeout, Vanish
    <2>4. ASSUME NEW k \in Slots, TakeSlot(w, k) PROVE StoreInv'
        <3>1. /\ hand[w] # None /\ done' = done
              /\ slot'[k].id = hand[w].id /\ slot'[k].stage = "run"
              /\ \A x \in Slots : x # k => slot'[x] = slot[x]
              /\ \A v \in Workers : hand'[v] # None => hand'[v] = hand[v]
            BY <2>4 DEF TakeSlot, TypeOK, WorkerTypeOK
        <3>2. HoldersKept
            BY <1>0, <3>1 DEF HoldersKept, StoreInv, OutcomesKnown
        <3> QED
            BY <2>1, <3>1, <3>2, StoreQuiet
    <2> QED
        BY <1>2, <2>2, <2>3, <2>4 DEF LoopStep
<1>3. ASSUME NEW w \in Workers, NEW i \in JobId, ScriptTake(w, i), UNCHANGED <<records, failed>>
      PROVE  KeysKept
    <2>1. /\ pending'[i] = None /\ reserved'[i] = now + Timeout /\ now + Timeout # None
          /\ pending[i] # None \/ reserved[i] # None
          /\ \A j \in JobId : j # i =>
               \/ pending'[j] = pending[j] /\ reserved'[j] = reserved[j]
               \/ reserved[j] # None /\ pending'[j] = now /\ now # None
        BY <1>3, TakeEffect, NoneNotNat, QueueAssumption
    <2> QED
        BY <1>0, <1>3, <2>1 DEF KeysKept, StoreInv, NoOrphanRecord
<1>4. ASSUME NEW w \in Workers, Claim(w) PROVE StoreInv'
    <2>1. PICK i \in JobId :
            /\ ScriptTake(w, i)
            /\ Receive(w, [id |-> i, attempts |-> attempts[i] + 1, max |-> records[i], at |-> now])
            /\ UNCHANGED <<mintVars, records, failed, requeued, trimmed, op>>
        BY <1>4 DEF Claim
    <2>2. i < nextId
        BY <1>0, <2>1, TakeEffect
    <2>3. /\ hand'[w].id = i /\ UNCHANGED <<slot, done>>
          /\ \A v \in Workers : v # w => hand'[v] = hand[v]
        BY <2>1 DEF Receive, TypeOK, WorkerTypeOK
    <2>4. HoldersKept
        BY <1>0, <2>2, <2>3 DEF HoldersKept, StoreInv, OutcomesKnown
    <2> QED
        BY <1>3, <2>1, <2>3, <2>4, ListSame, StoreQuiet DEF mintVars
<1>5. ASSUME NEW w \in Workers, ClaimDrop(w) PROVE StoreInv'
    <2>1. PICK i \in JobId : ScriptDrop(w, i)
        BY <1>5 DEF ClaimDrop
    <2>2. /\ FirstDue(w, i) /\ records[i] = None
          /\ pending' = [Refilled(w) EXCEPT ![i] = None]
          /\ reserved' = [Unreserved(w) EXCEPT ![i] = None]
        BY <2>1 DEF ScriptDrop
    <2>3. /\ pending'[i] = None /\ reserved'[i] = None
          /\ \A j \in JobId : j # i =>
               \/ pending'[j] = pending[j] /\ reserved'[j] = reserved[j]
               \/ reserved[j] # None /\ pending'[j] = now
        BY <2>2, MoveEffect
    <2>4. now # None
        BY NoneNotNat
    <2>5. KeysKept
        BY <1>0, <1>5, <2>2, <2>3, <2>4 DEF ClaimDrop, KeysKept, StoreInv, NoOrphanRecord
    <2> QED
        BY <1>5, <2>5, HoldersSame, ListSame, StoreQuiet DEF ClaimDrop, workerVars, mintVars
<1>6. ASSUME NEW w \in Workers, ClaimLost(w) PROVE StoreInv'
    BY <1>3, <1>6, HoldersSame, ListSame, StoreQuiet DEF ClaimLost, workerVars, mintVars
<1>7. ASSUME NEW r, r.id \in JobId, r.id < nextId, r.max \in Nat \ {0}, NEW t \in Nat, PutBack(r, t)
      PROVE  KeysKept
    BY <1>0, <1>7, PutBackEffect DEF KeysKept, StoreInv, NoOrphanRecord
<1>8. ASSUME NEW w \in Workers, ShutdownRelease(w) PROVE StoreInv'
    <2>1. KeysKept
        BY <1>0, <1>7, <1>8, KeysSame DEF ShutdownRelease, HandBack
    <2>2. HoldersKept
        BY <1>8, HoldersSame DEF ShutdownRelease, HandBack, TypeOK, WorkerTypeOK
    <2> QED
        BY <1>8, <2>1, <2>2, ListSame, StoreQuiet DEF ShutdownRelease, HandBack, mintVars
<1>9. ASSUME NEW w \in Workers, Interrupt(w) PROVE StoreInv'
    <2>1. /\ \A v \in Workers : hand'[v] # None => hand'[v] = hand[v]
          /\ \A k \in Slots : slot'[k] # None => slot'[k] = slot[k]
        BY <1>9 DEF Interrupt, Cancel, Crash, Vanish, TypeOK, WorkerTypeOK
    <2>2. HoldersKept
        BY <1>9, <2>1, HoldersSame DEF Interrupt, Cancel, Crash, Vanish
    <2> QED
        BY <1>9, <2>2, KeysSame, ListSame, StoreQuiet
        DEF Interrupt, Cancel, Crash, Vanish, mintVars, storeVars
<1>10. ASSUME NEW k \in Slots, RunStep(k) PROVE StoreInv'
    <2>1. slot[k] # None /\ slot[k] \in Task /\ done \subseteq done'
        BY <1>10 DEF RunStep, RunOk, RunErr
    <2>2. /\ slot'[k].id = slot[k].id /\ (slot'[k].stage = "ok" => slot[k].id \in done')
          /\ \A x \in Slots : x # k => slot'[x] = slot[x]
        BY <1>10, <2>1 DEF RunStep, RunOk, RunErr, TypeOK, WorkerTypeOK, Task
    <2>3. HoldersKept
        BY <1>10, <2>1, <2>2, HoldersSame DEF RunStep, RunOk, RunErr
    <2> QED
        BY <1>10, <2>1, <2>3, KeysSame, ListSame, StoreQuiet DEF RunStep, mintVars, storeVars
<1>11. ASSUME NEW k \in Slots, FreeSlot(k) PROVE HoldersKept /\ done' = done
    BY <1>11, HoldersSame DEF FreeSlot, TypeOK, WorkerTypeOK
<1>12. ASSUME NEW k \in Slots, slot[k] # None, Forget(slot[k].id), pending' = pending,
              slot[k].id \in done' \cup FailedIds'
       PROVE  KeysKept
    BY <1>0, <1>12, ForgetEffect DEF KeysKept, StoreInv, NoOrphanRecord
<1>13. ASSUME NEW k \in Slots, Complete(k) PROVE StoreInv'
    <2>1. slot[k] # None /\ Forget(slot[k].id) /\ FreeSlot(k) /\ slot[k].id \in done
        BY <1>13 DEF Complete, WantsComplete, StoreInv, OutcomesKnown
    <2>2. KeysKept
        BY <1>11, <1>12, <1>13, <2>1 DEF Complete
    <2> QED
        BY <1>11, <1>13, <2>1, <2>2, ListSame, StoreQuiet DEF Complete, mintVars
<1>14. ASSUME NEW k \in Slots, Release(k) PROVE StoreInv'
    <2>1. slot[k] # None /\ FreeSlot(k)
        BY <1>14 DEF Release, WantsRelease
    <2>2. KeysKept
        BY <1>0, <1>7, <1>14, <2>1, ReleaseTime DEF Release
    <2> QED
        BY <1>11, <1>14, <2>1, <2>2, ListSame, StoreQuiet DEF Release, mintVars
<1>15. ASSUME NEW k \in Slots, Fail(k) PROVE StoreInv'
    <2>1. slot[k] # None /\ Bury(slot[k]) /\ FreeSlot(k)
        BY <1>15 DEF Fail, WantsFail
    <2>2. /\ slot[k].id \in FailedIds' /\ trimmed \subseteq trimmed' /\ Forget(slot[k].id)
          /\ FailedIds \subseteq FailedIds' \cup trimmed'
          /\ FailedIds' \subseteq FailedIds \cup {slot[k].id}
        BY <2>1, BuryEffect
    <2>3. KeysKept
        BY <1>12, <1>15, <2>1, <2>2 DEF Fail
    <2>4. ListKept
        BY <1>0, <1>15, <2>1, <2>2 DEF Fail, ListKept, StoreInv, MintedOnly, OutcomesKnown
    <2> QED
        BY <1>11, <1>15, <2>1, <2>3, <2>4, StoreQuiet DEF Fail, mintVars
<1>16. ASSUME NEW k \in Slots, OutcomeLost(k) PROVE StoreInv'
    BY <1>11, <1>16, KeysSame, ListSame, StoreQuiet DEF OutcomeLost, mintVars, storeVars
<1>17. ASSUME NEW o \in Operators, RetryPush(o) PROVE StoreInv'
    <2>1. /\ op[o] # None /\ op[o] \in [entry: Entry, pushed: BOOLEAN]
          /\ kind[op[o].entry.id] \in Names
        BY <1>17 DEF RetryPush, StoreInv, MintedOnly
    <2>2. op'[o].entry = op[o].entry /\ \A p \in Operators : p # o => op'[p] = op[p]
        BY <1>17, <2>1 DEF RetryPush, TypeOK
    <2>3. Push(kind[op[o].entry.id], op[o].entry.max, now) /\ requeued' = requeued \cup {op[o].entry.id}
        BY <1>17 DEF RetryPush
    <2> QED
        BY <1>17, <2>1, <2>2, <2>3, StorePush DEF RetryPush, workerVars
<1>18. ASSUME NEW o \in Operators, RetryRemove(o) PROVE StoreInv'
    <2>1. op[o] # None /\ op[o].entry \in Entry /\ op[o].entry.id \in requeued
        BY <1>18 DEF RetryRemove, StoreInv, OutcomesKnown
    <2>2. FailedIds' \subseteq FailedIds /\ FailedIds \subseteq FailedIds' \cup {op[o].entry.id}
        BY <1>18, <2>1, WithoutEffect DEF RetryRemove
    <2>3. \A p \in Operators : op'[p] # None => op'[p] = op[p]
        BY <1>18 DEF RetryRemove, TypeOK
    <2>4. ListKept
        BY <1>18, <2>1, <2>2, <2>3 DEF RetryRemove, ListKept, StoreInv, MintedOnly, OutcomesKnown
    <2> QED
        BY <1>18, <2>4, HoldersSame, KeysSame, StoreQuiet DEF RetryRemove, workerVars, mintVars
<1>19. ASSUME NEW o \in Operators, UNCHANGED <<hand, slot, done, kind, nextId, pending, reserved, records,
                                               failed, requeued, trimmed>>,
              \A p \in Operators : op'[p] # None =>
                  \/ op'[p] = op[p]
                  \/ op'[p].entry.id \in FailedIds /\ ~op'[p].pushed
       PROVE  StoreInv'
    <2>1. FailedIds' = FailedIds
        BY <1>19 DEF FailedIds
    <2>2. ListKept
        BY <1>19, <2>1 DEF ListKept, StoreInv, MintedOnly, OutcomesKnown
    <2> QED
        BY <1>19, <2>2, HoldersSame, KeysSame, StoreQuiet
<1>20. ASSUME NEW o \in Operators, RetryAbort(o) PROVE StoreInv'
    <2>1. \A p \in Operators : op'[p] # None => op'[p] = op[p]
        BY <1>20 DEF RetryAbort, TypeOK
    <2> QED
        BY <1>19, <1>20, <2>1 DEF RetryAbort, workerVars, mintVars
<1>21. ASSUME NEW o \in Operators, NEW x \in 1..Len(failed), RetryRead(o, x) PROVE StoreInv'
    <2>1. op'[o].entry = failed[x] /\ ~op'[o].pushed /\ \A p \in Operators : p # o => op'[p] = op[p]
        BY <1>21 DEF RetryRead, TypeOK
    <2>2. failed[x].id \in FailedIds
        BY DEF FailedIds
    <2> QED
        BY <1>19, <1>21, <2>1, <2>2 DEF RetryRead, workerVars, mintVars
<1>22. CASE Tick \/ UNCHANGED vars
    BY <1>22, HoldersSame, KeysSame, ListSame, StoreQuiet DEF Tick, vars, workerVars, mintVars, storeVars
<1> QED
    BY Steps, <1>1, <1>2, <1>4, <1>5, <1>6, <1>8, <1>9, <1>10, <1>13, <1>14, <1>15, <1>16, <1>17,
       <1>18, <1>20, <1>21, <1>22 DEF ClaimNothing

LEMMA StoreAlways == Spec => [](TypeOK /\ StoreInv)
<1>1. Init => TypeOK /\ StoreInv
    BY TypeInit, StoreInit
<1>2. TypeOK /\ StoreInv /\ [Next]_vars => (TypeOK /\ StoreInv)'
    BY TypeStep, StoreStep DEF StoreInv
<1> QED
    BY <1>1, <1>2, PTL DEF Spec

\* Whatever overruns, crashes or is released late, every payload in the hash is
\* in one of the sorted sets, where a later claim finds it.
THEOREM RecordsReachable == Spec => []NoOrphanRecord
<1>1. StoreInv => NoOrphanRecord
    BY DEF StoreInv
<1> QED
    BY <1>1, StoreAlways, PTL

\* Every dispatched job keeps its record until its Run returned nil or it went on
\* the failed list; from there only an operator's retry, which has pushed it
\* again, or the trimming of the list takes it away.
THEOREM JobsSurvive == Spec => []NoJobLost
<1>1. StoreInv => NoJobLost
    BY DEF StoreInv
<1> QED
    BY <1>1, StoreAlways, PTL
-----------------------------------------------------------------------------
(* One home for each job, when no claim outlives its reservation.          *)

OneSet ==
    \A i \in JobId :
        /\ pending[i] = None \/ reserved[i] = None
        /\ (records[i] = None) <=> (pending[i] = None /\ reserved[i] = None)

\* No two holders of one job, without the set of holders.
Apart ==
    /\ \A w, v \in Workers :
          loop[w] = "holding" /\ loop[v] = "holding" /\ hand[w].id = hand[v].id => w = v
    /\ \A k, l \in Slots :
          slot[k] # None /\ slot[l] # None /\ slot[k].id = slot[l].id => k = l
    /\ \A w \in Workers, k \in Slots :
          loop[w] = "holding" /\ slot[k] # None => hand[w].id # slot[k].id

HomeInv == HeldIsReserved /\ Apart /\ OneSet

LEMMA ApartIsExclusive ==
    ASSUME TypeOK, Apart, NEW i \in JobId, NEW x \in Holders(i), NEW y \in Holders(i)
    PROVE  x = y
<1>1. \/ x \in Workers /\ loop[x] = "holding" /\ hand[x].id = i
      \/ x \in Slots /\ slot[x] # None /\ slot[x].id = i
    BY DEF Holders
<1>2. \/ y \in Workers /\ loop[y] = "holding" /\ hand[y].id = i
      \/ y \in Slots /\ slot[y] # None /\ slot[y].id = i
    BY DEF Holders
<1> QED
    BY <1>1, <1>2 DEF Apart

LEMMA HomeInit == Init => HomeInv
BY DEF Init, WorkerInit, HomeInv, HeldIsReserved, Apart, OneSet

\* The keys of job i are as they were.
Stays(i) == records'[i] = records[i] /\ pending'[i] = pending[i] /\ reserved'[i] = reserved[i]

\* Holders whose job stays in its place, or who let go, stay apart.
LEMMA HomeQuiet ==
    ASSUME HomeInv, now' = now, OneSet',
           \A w \in Workers : loop'[w] = "holding" =>
               loop[w] = "holding" /\ hand'[w] = hand[w] /\ Stays(hand[w].id),
           \A k \in Slots : slot'[k] # None =>
               /\ slot[k] # None /\ slot'[k].id = slot[k].id /\ slot'[k].at = slot[k].at
               /\ Stays(slot[k].id)
    PROVE  HomeInv'
<1>1. HeldIsReserved'
    BY DEF HomeInv, HeldIsReserved, Reserves, Stays
<1>2. Apart'
    BY DEF HomeInv, Apart
<1> QED
    BY <1>1, <1>2 DEF HomeInv

\* A job that the claim script finds due, or whose reservation has lapsed, is held
\* by nobody.
LEMMA FreeJob ==
    ASSUME TypeOK, HomeInv, NEW i \in JobId,
           pending[i] # None \/ (reserved[i] # None /\ reserved[i] <= now)
    PROVE  /\ \A w \in Workers : loop[w] = "holding" => hand[w].id # i
           /\ \A k \in Slots : slot[k] # None => slot[k].id # i
<1>1. ASSUME NEW r, r.at \in Nat, Reserves(r), r.id = i PROVE FALSE
    BY <1>1, HeldTypes, QueueAssumption DEF Reserves
<1> QED
    BY <1>1, HeldTypes DEF HomeInv, HeldIsReserved

\* The claim script moves job i and hands back lapsed ones.
LEMMA HomeTake ==
    ASSUME TypeOK, HomeInv, NEW w \in Workers, NEW i \in JobId, ScriptTake(w, i), records' = records
    PROVE  /\ OneSet'
           /\ \A v \in Workers : loop[v] = "holding" => hand[v].id # i /\ Stays(hand[v].id)
           /\ \A k \in Slots : slot[k] # None => slot[k].id # i /\ Stays(slot[k].id)
<1>1. /\ pending'[i] = None /\ reserved'[i] = now + Timeout /\ records[i] # None
      /\ pending[i] # None \/ (reserved[i] # None /\ reserved[i] <= now)
      /\ \A j \in JobId : j # i =>
            \/ pending'[j] = pending[j] /\ reserved'[j] = reserved[j]
            \/ /\ reserved[j] # None /\ reserved[j] <= now
               /\ pending'[j] = now /\ reserved'[j] = None
    BY TakeEffect
<1>2. now # None /\ now + Timeout # None
    BY HeldTypes, NoneNotNat, QueueAssumption
<1>3. OneSet'
    BY <1>1, <1>2 DEF HomeInv, OneSet
<1>4. \A v \in Workers : loop[v] = "holding" => hand[v].id # i /\ Stays(hand[v].id)
    BY <1>1, HeldTypes, FreeJob DEF Stays
<1>5. \A k \in Slots : slot[k] # None => slot[k].id # i /\ Stays(slot[k].id)
    BY <1>1, HeldTypes, FreeJob DEF Stays
<1> QED
    BY <1>3, <1>4, <1>5

LEMMA HomeStep ==
    ASSUME ~overran', TypeOK, MintedOnly, HomeInv, [Next]_vars
    PROVE  HomeInv'
<1> USE HeldTypes
<1>1. ASSUME UNCHANGED <<now, records, pending, reserved>>,
             \A w \in Workers : loop'[w] = "holding" => loop[w] = "holding" /\ hand'[w] = hand[w],
             \A k \in Slots : slot'[k] # None =>
                 slot[k] # None /\ slot'[k].id = slot[k].id /\ slot'[k].at = slot[k].at
      PROVE  HomeInv'
    <2>1. OneSet' /\ \A i \in JobId : Stays(i)
        BY <1>1 DEF HomeInv, OneSet, Stays
    <2> QED
        BY <1>1, <2>1, HomeQuiet
<1>2. ASSUME NEW w \in Workers, LoopStep(w) PROVE HomeInv'
    <2> USE DEF storeVars, LoopStep
    <2>1. CASE StartDraining(w)
        BY <1>1, <1>2, <2>1 DEF StartDraining, TypeOK, WorkerTypeOK
    <2>2. CASE Drained(w)
        BY <1>1, <1>2, <2>2 DEF Drained, TypeOK, WorkerTypeOK
    <2>3. CASE Restart(w)
        BY <1>1, <1>2, <2>3 DEF Restart, TypeOK, WorkerTypeOK
    <2>4. CASE DrainTimeout(w)
        BY <1>1, <1>2, <2>4 DEF DrainTimeout, Vanish, TypeOK, WorkerTypeOK
    <2>5. ASSUME NEW k \in Slots, TakeSlot(w, k) PROVE HomeInv'
        <3>1. loop[w] = "holding" /\ loop'[w] = "poll" /\ slot[k] = None
            BY <2>5 DEF TakeSlot, TypeOK, WorkerTypeOK
        <3>2. slot'[k].id = hand[w].id /\ slot'[k].at = hand[w].at
            BY <2>5 DEF TakeSlot, TypeOK, WorkerTypeOK
        <3>3. \A x \in Slots : x # k => slot'[x] = slot[x]
            BY <2>5 DEF TakeSlot, TypeOK, WorkerTypeOK
        <3>4. \A v \in Workers : v # w => loop'[v] = loop[v] /\ hand'[v] = hand[v]
            BY <2>5 DEF TakeSlot, TypeOK, WorkerTypeOK
        <3>5. UNCHANGED <<now, records, pending, reserved>>
            BY <1>2
        <3>6. HeldIsReserved'
            BY <3>1, <3>2, <3>3, <3>4, <3>5 DEF HomeInv, HeldIsReserved, Reserves
        <3>7. Apart' /\ OneSet'
            BY <3>1, <3>2, <3>3, <3>4, <3>5 DEF HomeInv, Apart, OneSet
        <3> QED
            BY <3>6, <3>7 DEF HomeInv
    <2> QED
        BY <1>2, <2>1, <2>2, <2>3, <2>4, <2>5
<1>3. ASSUME NEW w \in Workers, Claim(w) PROVE HomeInv'
    <2>1. PICK i \in JobId :
            /\ loop[w] = "poll" /\ ScriptTake(w, i) /\ UNCHANGED <<now, records>>
            /\ Receive(w, [id |-> i, attempts |-> attempts[i] + 1, max |-> records[i], at |-> now])
        BY <1>3 DEF Claim, Polling
    <2>2. loop'[w] = "holding" /\ hand'[w].id = i /\ hand'[w].at = now /\ slot' = slot
        BY <2>1 DEF Receive, TypeOK, WorkerTypeOK
    <2>3. \A v \in Workers : v # w => loop'[v] = loop[v] /\ hand'[v] = hand[v]
        BY <2>1 DEF Receive, TypeOK, WorkerTypeOK
    <2>4. /\ OneSet'
          /\ \A v \in Workers : loop[v] = "holding" => hand[v].id # i /\ Stays(hand[v].id)
          /\ \A k \in Slots : slot[k] # None => slot[k].id # i /\ Stays(slot[k].id)
        BY <2>1, HomeTake
    <2>5. pending'[i] = None /\ reserved'[i] = now + Timeout /\ records[i] # None
        BY <2>1, TakeEffect
    <2>6. Reserves(hand[w])'
        BY <2>1, <2>2, <2>5, TimeoutAssumption DEF Reserves
    <2>7. HeldIsReserved'
        <3>1. \A v \in Workers : v # w /\ loop[v] = "holding" => Reserves(hand[v])'
            BY <2>1, <2>3, <2>4 DEF HomeInv, HeldIsReserved, Reserves, Stays
        <3>2. \A k \in Slots : slot[k] # None => Reserves(slot[k])'
            BY <2>1, <2>2, <2>4 DEF HomeInv, HeldIsReserved, Reserves, Stays
        <3> QED
            BY <2>2, <2>3, <2>6, <3>1, <3>2 DEF HeldIsReserved
    <2>8. Apart'
        BY <2>2, <2>3, <2>4 DEF HomeInv, Apart
    <2> QED
        BY <2>4, <2>7, <2>8 DEF HomeInv
<1>4. ASSUME NEW w \in Workers, ClaimDrop(w) PROVE HomeInv'
    <2>1. PICK i \in JobId : ScriptDrop(w, i)
        BY <1>4 DEF ClaimDrop
    <2>2. /\ FirstDue(w, i) /\ records[i] = None
          /\ pending' = [Refilled(w) EXCEPT ![i] = None]
          /\ reserved' = [Unreserved(w) EXCEPT ![i] = None]
        BY <2>1 DEF ScriptDrop
    <2>3. pending[i] # None \/ reserved[i] # None
        BY <2>2, MoveEffect
    <2> QED
        BY <2>2, <2>3 DEF HomeInv, OneSet
<1>5. ASSUME NEW w \in Workers, ClaimLost(w) PROVE HomeInv'
    <2>1. PICK i \in JobId : ScriptTake(w, i)
        BY <1>5 DEF ClaimLost
    <2>2. records' = records
        BY <1>5 DEF ClaimLost
    <2>3. /\ OneSet'
          /\ \A v \in Workers : loop[v] = "holding" => Stays(hand[v].id)
          /\ \A k \in Slots : slot[k] # None => Stays(slot[k].id)
        BY <2>1, <2>2, HomeTake
    <2> QED
        BY <1>5, <2>3, HomeQuiet DEF ClaimLost, workerVars
<1>6. ASSUME NEW r, r.id \in JobId, r.max \in Nat \ {0}, NEW t \in Nat, PutBack(r, t)
      PROVE  OneSet' /\ \A j \in JobId : j # r.id => Stays(j)
    BY <1>6, PutBackEffect DEF HomeInv, OneSet, Stays
<1>7. ASSUME NEW w \in Workers, ShutdownRelease(w) PROVE HomeInv'
    <2>1. /\ loop[w] = "holding" /\ loop'[w] = "poll" /\ UNCHANGED <<now, slot>>
          /\ \A v \in Workers : v # w => loop'[v] = loop[v] /\ hand'[v] = hand[v]
        BY <1>7 DEF ShutdownRelease, HandBack, TypeOK, WorkerTypeOK
    <2>2. OneSet' /\ \A j \in JobId : j # hand[w].id => Stays(j)
        <3>1. CASE PutBack(hand[w], now)
            BY <1>6, <2>1, <3>1
        <3>2. CASE UNCHANGED <<records, reserved, pending>>
            BY <3>2 DEF HomeInv, OneSet, Stays
        <3> QED
            BY <1>7, <3>1, <3>2 DEF ShutdownRelease
    <2>3. /\ \A v \in Workers : loop[v] = "holding" /\ v # w => hand[v].id # hand[w].id
          /\ \A k \in Slots : slot[k] # None => slot[k].id # hand[w].id
        BY <2>1 DEF HomeInv, Apart
    <2> QED
        BY <2>1, <2>2, <2>3, HomeQuiet
<1>8. ASSUME NEW w \in Workers, Interrupt(w) PROVE HomeInv'
    <2>1. CASE Cancel(w)
        BY <1>1, <1>8, <2>1 DEF Interrupt, Cancel, storeVars
    <2>2. CASE Crash(w)
        BY <1>1, <1>8, <2>2 DEF Interrupt, Crash, Vanish, storeVars, TypeOK, WorkerTypeOK
    <2> QED
        BY <1>8, <2>1, <2>2 DEF Interrupt
<1>9. ASSUME NEW k \in Slots, RunStep(k) PROVE HomeInv'
    <2>1. slot[k] # None
        BY <1>9 DEF RunStep, RunOk, RunErr
    <2>2. slot'[k].id = slot[k].id /\ slot'[k].at = slot[k].at
        BY <1>9, <2>1 DEF RunStep, RunOk, RunErr, TypeOK, WorkerTypeOK, Task
    <2>3. \A x \in Slots : x # k => slot'[x] = slot[x]
        BY <1>9 DEF RunStep, RunOk, RunErr, TypeOK, WorkerTypeOK
    <2>4. UNCHANGED <<now, records, pending, reserved, loop, hand>>
        BY <1>9 DEF RunStep, RunOk, RunErr, storeVars
    <2> QED
        BY <1>1, <2>1, <2>2, <2>3, <2>4
<1>10. ASSUME NEW k \in Slots, slot[k] # None, FreeSlot(k), now' = now, OneSet',
              \A j \in JobId : j # slot[k].id => Stays(j)
       PROVE  HomeInv'
    <2>1. slot'[k] = None /\ \A x \in Slots : x # k => slot'[x] = slot[x]
        BY <1>10 DEF FreeSlot, TypeOK, WorkerTypeOK
    <2>2. UNCHANGED <<loop, hand>>
        BY <1>10 DEF FreeSlot
    <2>3. /\ \A v \in Workers : loop[v] = "holding" => hand[v].id # slot[k].id
          /\ \A x \in Slots : x # k /\ slot[x] # None => slot[x].id # slot[k].id
        BY <1>10 DEF HomeInv, Apart
    <2> QED
        BY <1>10, <2>1, <2>2, <2>3, HomeQuiet
<1>11. ASSUME NEW k \in Slots, slot[k] # None, Forget(slot[k].id), pending' = pending
       PROVE  OneSet' /\ \A j \in JobId : j # slot[k].id => Stays(j)
    <2>1. pending[slot[k].id] = None
        BY <1>11 DEF HomeInv, HeldIsReserved, Reserves
    <2> QED
        BY <1>11, <2>1, ForgetEffect DEF HomeInv, OneSet, Stays
<1>12. ASSUME NEW k \in Slots, Complete(k) PROVE HomeInv'
    <2>1. slot[k] # None /\ FreeSlot(k) /\ now' = now /\ Forget(slot[k].id) /\ pending' = pending
        BY <1>12 DEF Complete, WantsComplete
    <2> QED
        BY <1>10, <1>11, <2>1
<1>13. ASSUME NEW k \in Slots, Release(k) PROVE HomeInv'
    <2>1. slot[k] # None /\ FreeSlot(k) /\ now' = now
        BY <1>13 DEF Release, WantsRelease
    <2>2. OneSet' /\ \A j \in JobId : j # slot[k].id => Stays(j)
        BY <1>6, <1>13, <2>1, ReleaseTime DEF Release
    <2> QED
        BY <1>10, <2>1, <2>2
<1>14. ASSUME NEW k \in Slots, Fail(k) PROVE HomeInv'
    <2>1. slot[k] # None /\ FreeSlot(k) /\ now' = now /\ Forget(slot[k].id) /\ pending' = pending
        BY <1>14 DEF Fail, WantsFail, Bury
    <2> QED
        BY <1>10, <1>11, <2>1
<1>15. ASSUME NEW k \in Slots, OutcomeLost(k) PROVE HomeInv'
    <2>1. slot[k] # None /\ FreeSlot(k) /\ now' = now /\ UNCHANGED <<records, pending, reserved>>
        BY <1>15 DEF OutcomeLost, WantsComplete, WantsRelease, WantsFail, storeVars
    <2>2. OneSet' /\ \A j \in JobId : Stays(j)
        BY <2>1 DEF HomeInv, OneSet, Stays
    <2> QED
        BY <1>10, <2>1, <2>2
<1>16. ASSUME NEW n \in Names, NEW m \in Nat \ {0}, NEW t \in Nat, Push(n, m, t),
              UNCHANGED <<now, loop, hand, slot, reserved>>
       PROVE  HomeInv'
    <2>1. /\ nextId \in JobId /\ records'[nextId] # None /\ pending'[nextId] # None
          /\ \A i \in JobId : i # nextId => records'[i] = records[i] /\ pending'[i] = pending[i]
        BY <1>16, PushEffect
    <2>2. \A i \in JobId : i < nextId => i # nextId
        BY DEF JobId
    <2>3. reserved[nextId] = None
        BY <2>1, <2>2 DEF MintedOnly
    <2>4. OneSet'
        BY <1>16, <2>1, <2>3 DEF HomeInv, OneSet
    <2>5. /\ \A w \in Workers : loop[w] = "holding" => Stays(hand[w].id)
          /\ \A k \in Slots : slot[k] # None => Stays(slot[k].id)
        BY <1>16, <2>1, <2>2 DEF MintedOnly, Stays
    <2> QED
        BY <1>16, <2>4, <2>5, HomeQuiet
<1>17. ASSUME NEW n \in Names, NEW d \in 0..MaxDelay, Dispatch(n, d) PROVE HomeInv'
    <2>1. Push(n, MaxAttemptsOf[n], now + d) /\ now + d \in Nat /\ MaxAttemptsOf[n] \in Nat \ {0}
        BY <1>17, QueueAssumption DEF Dispatch
    <2> QED
        BY <1>16, <1>17, <2>1 DEF Dispatch, workerVars
<1>18. ASSUME NEW o \in Operators, RetryPush(o) PROVE HomeInv'
    <2>1. kind[op[o].entry.id] \in Names /\ op[o].entry.max \in Nat \ {0}
        BY <1>18 DEF RetryPush, MintedOnly
    <2>2. Push(kind[op[o].entry.id], op[o].entry.max, now)
        BY <1>18 DEF RetryPush
    <2> QED
        BY <1>16, <1>18, <2>1, <2>2 DEF RetryPush, workerVars
<1>19. ASSUME NEW o \in Operators,
              RetryRemove(o) \/ RetryAbort(o) \/ \E x \in 1..Len(failed) : RetryRead(o, x)
       PROVE  HomeInv'
    <2>1. UNCHANGED <<now, loop, hand, slot, records, pending, reserved>>
        BY <1>19 DEF RetryRemove, RetryAbort, RetryRead, workerVars
    <2> QED
        BY <1>1, <2>1
<1>20. CASE Tick
    <2>1. /\ now' = now + 1 /\ Punctual(Timeout - 1)
          /\ UNCHANGED <<loop, hand, slot, records, pending, reserved>>
        BY <1>20 DEF Tick, Advance, workerVars, storeVars
    <2>2. ASSUME NEW a \in Nat, a <= now, now < a + (Timeout - 1)
          PROVE  a <= now + 1 /\ now + 1 < a + Timeout
        BY <2>2, QueueAssumption
    <2>3. HeldIsReserved'
        BY <2>1, <2>2 DEF HomeInv, HeldIsReserved, Reserves, Punctual
    <2>4. Apart' /\ OneSet'
        BY <2>1 DEF HomeInv, Apart, OneSet
    <2> QED
        BY <2>3, <2>4 DEF HomeInv
<1>21. CASE UNCHANGED vars
    BY <1>1, <1>21 DEF vars
<1> QED
    BY Steps, <1>2, <1>3, <1>4, <1>5, <1>7, <1>8, <1>9, <1>12, <1>13, <1>14, <1>15, <1>17, <1>18,
       <1>19, <1>20, <1>21 DEF ClaimNothing

\* Once a claim has outlived its reservation, that stays on record.
LEMMA OverrunSticks == [Next]_vars /\ ~overran' => ~overran
<1> SUFFICES ASSUME [Next]_vars, ~overran' PROVE ~overran
    OBVIOUS
<1>1. CASE Tick
    BY <1>1 DEF Tick, Advance
<1>2. ASSUME UNCHANGED clock PROVE ~overran
    BY <1>2
<1> QED
    BY Steps, <1>1, <1>2
    DEF Dispatch, LoopStep, ClaimNothing, Claim, ClaimDrop, ClaimLost, ShutdownRelease, Interrupt,
        RunStep, Complete, Release, Fail, OutcomeLost, RetryPush, RetryRemove, RetryAbort,
        RetryRead, vars

\* As long as claims are over before their score is reached, every stored job is
\* in exactly one of the two sorted sets and at most one goroutine holds it; the
\* record that the script may find missing never is.
THEOREM OneHomeEach == Spec => []OneHome
<1> DEFINE PunctualInv == ~overran => HomeInv
<1>1. Init => PunctualInv
    BY HomeInit
<1>2. TypeOK /\ StoreInv /\ PunctualInv /\ [Next]_vars => PunctualInv'
    BY HomeStep, OverrunSticks DEF StoreInv
<1>3. TypeOK /\ PunctualInv => OneHome
    <2> SUFFICES ASSUME TypeOK, HomeInv, ~overran PROVE OneHome
        BY DEF OneHome
    <2>1. \A i \in JobId : \A x, y \in Holders(i) : x = y
        BY ApartIsExclusive DEF HomeInv
    <2> QED
        BY <2>1 DEF HomeInv, OneSet, OneHome
<1> QED
    BY <1>1, <1>2, <1>3, StoreAlways, PTL DEF Spec
-----------------------------------------------------------------------------
(* RedisQueue implements JobLedger but for a late Release.                 *)

\* What an operator has read was on record; a retry that is over, or an entry that
\* was trimmed, keeps it there.
LEMMA RetryKnownStep ==
    ASSUME TypeOK, StoreInv, RetryKnown, [Next]_vars
    PROVE  RetryKnown'
<1>1. ASSUME Buried \subseteq Buried' \cup requeued', requeued \subseteq requeued',
             \A o \in Operators : op'[o] # None =>
                 \/ op[o] # None /\ op'[o].entry = op[o].entry
                 \/ op'[o].entry.id \in Buried
      PROVE  RetryKnown'
    BY <1>1 DEF RetryKnown
<1>2. ASSUME UNCHANGED <<failed, trimmed, requeued, op>> PROVE RetryKnown'
    <2>1. Buried' = Buried
        BY <1>2 DEF Buried, FailedIds
    <2> QED
        BY <1>1, <1>2, <2>1
<1>3. ASSUME NEW k \in Slots, Fail(k) PROVE RetryKnown'
    <2>1. slot[k] # None /\ Bury(slot[k]) /\ UNCHANGED <<requeued, op>>
        BY <1>3 DEF Fail, WantsFail
    <2>2. FailedIds \subseteq FailedIds' \cup trimmed' /\ trimmed \subseteq trimmed'
        BY <2>1, HeldTypes, BuryEffect
    <2> QED
        BY <1>1, <2>1, <2>2 DEF Buried
<1>4. ASSUME NEW o \in Operators, RetryPush(o) PROVE RetryKnown'
    <2>1. /\ UNCHANGED <<failed, trimmed>> /\ requeued \subseteq requeued'
          /\ op[o] # None /\ op' = [op EXCEPT ![o].pushed = TRUE]
        BY <1>4 DEF RetryPush
    <2>2. Buried' = Buried
        BY <2>1 DEF Buried, FailedIds
    <2>3. \A p \in Operators : op'[p] # None => op[p] # None /\ op'[p].entry = op[p].entry
        BY <2>1, HeldTypes DEF TypeOK
    <2> QED
        BY <1>1, <2>1, <2>2, <2>3
<1>5. ASSUME NEW o \in Operators, RetryRemove(o) PROVE RetryKnown'
    <2>1. op[o] # None /\ op[o].entry \in Entry /\ op[o].entry.id \in requeued
        BY <1>5, HeldTypes DEF RetryRemove, StoreInv, OutcomesKnown
    <2>2. FailedIds \subseteq FailedIds' \cup {op[o].entry.id} /\ UNCHANGED <<trimmed, requeued>>
        BY <1>5, <2>1, WithoutEffect DEF RetryRemove
    <2>3. \A p \in Operators : op'[p] # None => op'[p] = op[p]
        BY <1>5 DEF RetryRemove, TypeOK
    <2> QED
        BY <1>1, <2>1, <2>2, <2>3 DEF Buried
<1>6. ASSUME NEW o \in Operators, RetryAbort(o) \/ \E x \in 1..Len(failed) : RetryRead(o, x)
      PROVE  RetryKnown'
    <2>1. UNCHANGED <<failed, trimmed, requeued>>
        BY <1>6 DEF RetryAbort, RetryRead
    <2>2. Buried' = Buried
        BY <2>1 DEF Buried, FailedIds
    <2>3. \A p \in Operators : op'[p] # None => op'[p] = op[p] \/ op'[p].entry.id \in FailedIds
        BY <1>6 DEF RetryAbort, RetryRead, TypeOK, FailedIds
    <2> QED
        BY <1>1, <2>1, <2>2, <2>3 DEF Buried
<1>7. CASE UNCHANGED vars
    BY <1>2, <1>7 DEF vars
<1> QED
    BY Steps, <1>2, <1>3, <1>4, <1>5, <1>6, <1>7
    DEF Dispatch, LoopStep, ClaimNothing, Claim, ClaimDrop, ClaimLost, ShutdownRelease, Interrupt,
        RunStep, Complete, Release, OutcomeLost, Tick, storeVars

LEMMA LedgerStart == Init => Ledger!Init
<1> SUFFICES ASSUME Init PROVE Ledger!Init
    OBVIOUS
<1>1. FailedIds = {}
    BY DEF Init, FailedIds
<1> QED
    BY <1>1 DEF Init, WorkerInit, Ledger!Init, Minted, Stored, Buried, JobId

\* Every step is one of the ledger's, or leaves it alone, or is a late Release.
LEMMA LedgerSimulates ==
    ASSUME TypeOK, StoreInv, RetryKnown, ~overran => HomeInv, [Next]_vars
    PROVE  [Ledger!Next \/ LateRelease]_(Ledger!vars)
<1>a. ASSUME NEW k \in Slots, slot[k] # None
      PROVE  slot[k].id \in JobId /\ slot[k].id \in Minted /\ slot[k].max \in Nat \ {0}
    BY <1>a, HeldTypes DEF StoreInv, MintedOnly, Minted
<1>1. ASSUME UNCHANGED <<nextId, failed, trimmed, requeued>>
      PROVE  Minted' = Minted /\ Buried' = Buried
    BY <1>1 DEF Minted, Buried, FailedIds
<1>2. ASSUME UNCHANGED <<nextId, failed, trimmed, requeued, done>>, Stored' = Stored
      PROVE  UNCHANGED Ledger!vars
    BY <1>1, <1>2 DEF Ledger!vars
<1>3. records' = records => Stored' = Stored
    BY DEF Stored
<1>4. ASSUME NEW w \in Workers,
             LoopStep(w) \/ Claim(w) \/ ClaimDrop(w) \/ ClaimLost(w) \/ ClaimNothing(w) \/ Interrupt(w)
      PROVE  UNCHANGED Ledger!vars
    <2>1. CASE LoopStep(w)
        BY <1>2, <1>3, <2>1 DEF LoopStep, StartDraining, Drained, Restart, DrainTimeout, Vanish, TakeSlot,
           mintVars, storeVars
    <2>2. CASE Claim(w) \/ ClaimDrop(w) \/ ClaimLost(w)
        BY <1>2, <1>3, <2>2 DEF Claim, Receive, ClaimDrop, ClaimLost, workerVars, mintVars
    <2>3. CASE ClaimNothing(w) \/ Interrupt(w)
        BY <1>2, <1>3, <2>3 DEF ClaimNothing, Interrupt, Cancel, Crash, Vanish, vars, mintVars, storeVars
    <2> QED
        BY <1>4, <2>1, <2>2, <2>3
<1>5. ASSUME NEW r, r.id \in JobId, r.id \in Minted, r.max \in Nat \ {0}, NEW t \in Nat, PutBack(r, t),
             ~overran => records[r.id] # None, UNCHANGED <<nextId, failed, trimmed, requeued, done>>
      PROVE  [Ledger!Next \/ LateRelease]_(Ledger!vars)
    <2>1. records'[r.id] # None /\ \A j \in JobId : j # r.id => records'[j] = records[j]
        BY <1>5, PutBackEffect
    <2>2. Stored' = Stored \cup {r.id}
        BY <1>5, <2>1 DEF Stored
    <2>3. CASE ~overran
        <3>1. Stored' = Stored
            BY <1>5, <2>2, <2>3 DEF Stored
        <3> QED
            BY <1>2, <1>5, <3>1
    <2>4. CASE overran
        BY <1>1, <1>5, <2>2, <2>4 DEF LateRelease
    <2> QED
        BY <2>3, <2>4
<1>6. ASSUME NEW w \in Workers, ShutdownRelease(w) PROVE [Ledger!Next \/ LateRelease]_(Ledger!vars)
    <2>1. /\ loop[w] = "holding" /\ hand[w].id \in JobId /\ hand[w].id \in Minted
          /\ hand[w].max \in Nat \ {0} /\ now \in Nat
          /\ UNCHANGED <<nextId, failed, trimmed, requeued, done>>
        BY <1>6, HeldTypes DEF ShutdownRelease, HandBack, StoreInv, MintedOnly, Minted, mintVars
    <2>2. ~overran => records[hand[w].id] # None
        BY <2>1 DEF HomeInv, HeldIsReserved, Reserves
    <2>3. CASE PutBack(hand[w], now)
        BY <1>5, <2>1, <2>2, <2>3
    <2>4. CASE records' = records
        BY <1>2, <1>3, <2>1, <2>4
    <2> QED
        BY <1>6, <2>3, <2>4 DEF ShutdownRelease
<1>7. ASSUME NEW k \in Slots, Release(k) PROVE [Ledger!Next \/ LateRelease]_(Ledger!vars)
    <2>1. slot[k] # None /\ UNCHANGED <<nextId, failed, trimmed, requeued, done>>
        BY <1>7 DEF Release, WantsRelease, FreeSlot, mintVars
    <2>2. ~overran => records[slot[k].id] # None
        BY <2>1 DEF HomeInv, HeldIsReserved, Reserves
    <2>3. now + BackoffOf(kind[slot[k].id], slot[k].attempts) \in Nat
        BY <2>1, ReleaseTime DEF StoreInv
    <2>4. PutBack(slot[k], now + BackoffOf(kind[slot[k].id], slot[k].attempts))
        BY <1>7 DEF Release
    <2> QED
        BY <1>5, <1>a, <2>1, <2>2, <2>3, <2>4
<1>8. ASSUME NEW k \in Slots, RunStep(k) PROVE [Ledger!Next]_(Ledger!vars)
    <2>1. UNCHANGED <<nextId, failed, trimmed, requeued>> /\ Stored' = Stored
        BY <1>3, <1>8 DEF RunStep, mintVars, storeVars
    <2>2. CASE RunErr(k)
        BY <1>2, <2>1, <2>2 DEF RunErr
    <2>3. CASE RunOk(k)
        <3>1. slot[k].id \in Minted /\ slot[k].id \in JobId /\ done' = done \cup {slot[k].id}
            BY <1>a, <2>3 DEF RunOk
        <3>2. Ledger!Succeed(slot[k].id)
            BY <1>1, <2>1, <3>1 DEF Ledger!Succeed
        <3> QED
            BY <3>1, <3>2 DEF Ledger!Next
    <2> QED
        BY <1>8, <2>2, <2>3 DEF RunStep
<1>9. ASSUME NEW i \in JobId, Forget(i) PROVE Stored' = Stored \ {i}
    BY <1>9, ForgetEffect DEF Stored
<1>10. ASSUME NEW k \in Slots, Complete(k) PROVE Ledger!Next
    <2>1. slot[k].id \in JobId /\ slot[k].id \in done
        BY <1>a, <1>10 DEF Complete, WantsComplete, StoreInv, OutcomesKnown
    <2>2. UNCHANGED <<nextId, failed, trimmed, requeued, done>> /\ Stored' = Stored \ {slot[k].id}
        BY <1>9, <1>10, <2>1 DEF Complete, FreeSlot, mintVars
    <2>3. Ledger!Leave(slot[k].id)
        BY <1>1, <2>1, <2>2 DEF Ledger!Leave, Ledger!Settled
    <2> QED
        BY <2>1, <2>3 DEF Ledger!Next
<1>11. ASSUME NEW k \in Slots, Fail(k) PROVE Ledger!Next
    <2>1. slot[k] # None /\ Bury(slot[k]) /\ UNCHANGED <<nextId, requeued, done>>
        BY <1>11 DEF Fail, WantsFail, FreeSlot, mintVars
    <2>2. /\ slot[k].id \in FailedIds' /\ trimmed \subseteq trimmed'
          /\ FailedIds \subseteq FailedIds' \cup trimmed'
          /\ FailedIds' \subseteq FailedIds \cup {slot[k].id}
          /\ trimmed' \subseteq trimmed \cup FailedIds \cup {slot[k].id}
          /\ Forget(slot[k].id)
        BY <2>1, HeldTypes, BuryEffect
    <2>3. Buried' = Buried \cup {slot[k].id}
        BY <2>2 DEF Buried
    <2>4. Stored' = Stored \ {slot[k].id} /\ Minted' = Minted
        BY <1>9, <1>a, <2>1, <2>2 DEF Minted
    <2>5. Ledger!Bury(slot[k].id)
        BY <1>a, <2>1, <2>3, <2>4 DEF Ledger!Bury
    <2> QED
        BY <1>a, <2>1, <2>5 DEF Ledger!Next
<1>12. ASSUME NEW k \in Slots, OutcomeLost(k) PROVE UNCHANGED Ledger!vars
    BY <1>2, <1>3, <1>12 DEF OutcomeLost, FreeSlot, mintVars, storeVars
<1>13. ASSUME NEW n \in Names, NEW m \in Nat \ {0}, NEW t \in Nat, Push(n, m, t)
       PROVE  /\ nextId \in JobId /\ nextId \notin Minted
              /\ Minted' = Minted \cup {nextId} /\ Stored' = Stored \cup {nextId}
    <2>1. /\ nextId \in JobId /\ nextId' = nextId + 1 /\ records'[nextId] # None
          /\ \A i \in JobId : i # nextId => records'[i] = records[i]
        BY <1>13, PushEffect
    <2>2. nextId \notin Minted /\ Minted' = Minted \cup {nextId}
        BY <2>1 DEF Minted, JobId
    <2> QED
        BY <2>1, <2>2 DEF Stored
<1>14. ASSUME NEW n \in Names, NEW d \in 0..MaxDelay, Dispatch(n, d) PROVE Ledger!Next
    <2>1. Push(n, MaxAttemptsOf[n], now + d) /\ MaxAttemptsOf[n] \in Nat \ {0} /\ now + d \in Nat
        BY <1>14, HeldTypes, QueueAssumption DEF Dispatch
    <2>2. UNCHANGED <<failed, trimmed, requeued, done>> /\ Buried' = Buried
        BY <1>14 DEF Dispatch, workerVars, Buried, FailedIds
    <2>3. /\ nextId \in JobId /\ nextId \notin Minted
          /\ Minted' = Minted \cup {nextId} /\ Stored' = Stored \cup {nextId}
        BY <1>13, <2>1
    <2>4. Ledger!Push(nextId)
        BY <2>2, <2>3 DEF Ledger!Push
    <2> QED
        BY <2>3, <2>4 DEF Ledger!Next
<1>15. ASSUME NEW o \in Operators, RetryPush(o) PROVE Ledger!Next
    <2>1. /\ op[o] # None /\ op[o].entry.id \in JobId /\ op[o].entry.id \in Buried \cup requeued
          /\ op[o].entry.max \in Nat \ {0} /\ kind[op[o].entry.id] \in Names /\ now \in Nat
        BY <1>15, HeldTypes DEF RetryPush, RetryKnown, StoreInv, MintedOnly
    <2>2. /\ Push(kind[op[o].entry.id], op[o].entry.max, now)
          /\ requeued' = requeued \cup {op[o].entry.id} /\ UNCHANGED <<failed, trimmed, done>>
        BY <1>15 DEF RetryPush, workerVars
    <2>3. Buried' = Buried
        BY <2>2 DEF Buried, FailedIds
    <2>4. /\ nextId \in JobId /\ nextId \notin Minted
          /\ Minted' = Minted \cup {nextId} /\ Stored' = Stored \cup {nextId}
        BY <1>13, <2>1, <2>2
    <2>5. Ledger!Requeue(op[o].entry.id, nextId)
        BY <2>1, <2>2, <2>3, <2>4 DEF Ledger!Requeue
    <2> QED
        BY <2>1, <2>4, <2>5 DEF Ledger!Next
<1>16. ASSUME NEW o \in Operators, RetryRemove(o) PROVE [Ledger!Next]_(Ledger!vars)
    <2>1. /\ op[o] # None /\ op[o].entry \in Entry /\ op[o].entry.id \in requeued
          /\ op[o].entry.id \in JobId
        BY <1>16, HeldTypes DEF RetryRemove, StoreInv, OutcomesKnown
    <2>2. /\ FailedIds' \subseteq FailedIds /\ FailedIds \subseteq FailedIds' \cup {op[o].entry.id}
          /\ UNCHANGED <<nextId, trimmed, requeued, done>> /\ Stored' = Stored
        BY <1>3, <1>16, <2>1, WithoutEffect DEF RetryRemove, mintVars, workerVars
    <2>3. Minted' = Minted
        BY <2>2 DEF Minted
    <2>4. CASE Buried' = Buried
        BY <2>2, <2>3, <2>4 DEF Ledger!vars
    <2>5. CASE Buried' = Buried \ {op[o].entry.id}
        <3>1. Ledger!Clear(op[o].entry.id)
            BY <2>1, <2>2, <2>3, <2>5 DEF Ledger!Clear
        <3> QED
            BY <2>1, <3>1 DEF Ledger!Next
    <2> QED
        BY <2>2, <2>4, <2>5 DEF Buried
<1>17. ASSUME NEW o \in Operators, RetryAbort(o) \/ \E x \in 1..Len(failed) : RetryRead(o, x)
       PROVE  UNCHANGED Ledger!vars
    BY <1>2, <1>3, <1>17 DEF RetryAbort, RetryRead, workerVars, mintVars
<1>18. CASE Tick \/ UNCHANGED vars
    BY <1>2, <1>3, <1>18 DEF Tick, vars, workerVars, mintVars, storeVars
<1> QED
    BY Steps, <1>4, <1>6, <1>7, <1>8, <1>10, <1>11, <1>12, <1>14, <1>15, <1>16, <1>17, <1>18

LedgerKept == TypeOK /\ StoreInv /\ RetryKnown /\ (~overran => HomeInv)

LEMMA LedgerAlways == Spec => []LedgerKept
<1>1. Init => LedgerKept
    BY TypeInit, StoreInit, HomeInit DEF Init, LedgerKept, RetryKnown
<1>2. LedgerKept /\ [Next]_vars => LedgerKept'
    BY TypeStep, StoreStep, RetryKnownStep, HomeStep, OverrunSticks DEF LedgerKept, StoreInv
<1> QED
    BY <1>1, <1>2, PTL DEF Spec

\* The Redis driver keeps the promise of JobLedger in every step of every worker
\* and operator, whatever is lost, trimmed or overruns, but for the Release of a
\* claim that outlived its reservation.
THEOREM LedgerButLate == Spec => LedgerButForLateRelease
<1>1. LedgerKept /\ [Next]_vars => [Ledger!Next \/ LateRelease]_(Ledger!vars)
    BY LedgerSimulates DEF LedgerKept
<1> QED
    BY <1>1, LedgerAlways, PTL DEF Spec, LedgerButForLateRelease

LEMMA StaysPunctual == ~Overrun => (Spec => []~overran)
<1> SUFFICES ASSUME ~Overrun PROVE Spec => []~overran
    OBVIOUS
<1>1. Init => ~overran
    BY DEF Init, WorkerInit
<1>2. ~overran /\ [Next]_vars => ~overran'
    <2> SUFFICES ASSUME ~overran, [Next]_vars PROVE ~overran'
        OBVIOUS
    <2>1. CASE Tick
        BY <2>1 DEF Tick, Advance
    <2>2. ASSUME UNCHANGED clock PROVE ~overran'
        BY <2>2
    <2> QED
        BY Steps, <2>1, <2>2
        DEF Dispatch, LoopStep, ClaimNothing, Claim, ClaimDrop, ClaimLost, ShutdownRelease, Interrupt,
            RunStep, Complete, Release, Fail, OutcomeLost, RetryPush, RetryRemove, RetryAbort,
            RetryRead, vars
<1> QED
    BY <1>1, <1>2, PTL DEF Spec

LEMMA PunctualSimulates == LedgerKept /\ ~overran /\ [Next]_vars => [Ledger!Next]_(Ledger!vars)
BY LedgerSimulates DEF LedgerKept, LateRelease

\* Where no claim outlives its reservation, the driver implements JobLedger
\* outright, as the database driver does.
THEOREM PunctualLedger == ~Overrun => (Spec => Ledger!Spec)
BY StaysPunctual, PunctualSimulates, LedgerStart, LedgerAlways, PTL DEF Spec, Ledger!Spec

\* Where no claim outlives its reservation, a job that Complete or Fail has removed
\* does not come back.
THEOREM PunctualRemoves == ~Overrun => (Spec => CompleteRemoves)
<1>1. [Ledger!Next]_(Ledger!vars) => Stored' \cap Minted \subseteq Stored
    BY DEF Ledger!Next, Ledger!vars, Ledger!Push, Ledger!Succeed, Ledger!Leave, Ledger!Bury, Ledger!Requeue,
           Ledger!Clear
<1>2. LedgerKept /\ ~overran /\ [Next]_vars =>
        [\A i \in JobId : i < nextId /\ records[i] = None => records'[i] = None]_vars
    BY <1>1, PunctualSimulates DEF Stored, Minted
<1> QED
    BY <1>2, StaysPunctual, LedgerAlways, PTL DEF Spec, CompleteRemoves
=============================================================================
