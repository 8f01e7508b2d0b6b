---------------------------- MODULE ServiceProofs ----------------------------
(***************************************************************************)
(* The scheduler, Remember, the migration runner and the rate limiter, for *)
(* any number of tasks, intervals, processes, calls, operators, migrations *)
(* and keys, and every limit, window and burst.                            *)
(***************************************************************************)
EXTENDS Schedule, Cache, Migrate, RateLimit, WellFoundedInduction, TLAPS
-----------------------------------------------------------------------------
(* The scheduler.                                                          *)

\* A task whose runs may not overlap is marked as running exactly while it is.
RunsAreMarked ==
    \A t \in Tasks \ AllowOverlap : inRun[t] = IF running[t] THEN 1 ELSE 0

ScheduleInv == now \in Nat /\ ScheduleTypeOK /\ RunsAreMarked

LEMMA ScheduleInitInv == now = 0 /\ ScheduleInit => ScheduleInv
<1>0. ScheduleInit => running \in [Tasks -> BOOLEAN] /\ cancelled \in BOOLEAN /\ lagged \in BOOLEAN
    BY Zenon DEF ScheduleInit
<1>1. ScheduleInit => ScheduleTypeOK
    BY <1>0 DEF ScheduleInit, ScheduleTypeOK
<1>2. ScheduleInit => RunsAreMarked
    BY DEF ScheduleInit, RunsAreMarked
<1> QED
    BY <1>1, <1>2 DEF ScheduleInv

LEMMA ScheduleStep == ScheduleInv /\ [ScheduleNext]_scheduleVars => ScheduleInv'
<1> SUFFICES ASSUME ScheduleInv, [ScheduleNext]_scheduleVars PROVE ScheduleInv'
    OBVIOUS
<1> USE ScheduleAssumption DEF ScheduleInv
<1>1. CASE Start
    BY <1>1 DEF Start, ScheduleTypeOK, RunsAreMarked
<1>2. CASE StartOnce
    BY <1>2 DEF StartOnce, taskVars, ScheduleTypeOK, RunsAreMarked, Zero
<1>3. CASE TakeTick
    BY <1>3 DEF TakeTick, taskVars, ScheduleTypeOK, RunsAreMarked, Zero
<1>4. CASE Checked \/ Cancel \/ Stop \/ Return
    BY <1>4 DEF Checked, Cancel, Stop, Return, taskVars, ScheduleTypeOK, RunsAreMarked
<1>5. ASSUME NEW t \in Tasks, Check(t) PROVE ScheduleInv'
    <2>1. last' \in [Tasks -> Nat \cup {Zero}] /\ spawned' \in [Tasks -> Nat]
        BY <1>5 DEF Check, ScheduleTypeOK
    <2>2. lagged' \in BOOLEAN /\ todo' \subseteq Tasks
        BY <1>5 DEF Check, ScheduleTypeOK
    <2> QED
        BY <1>5, <2>1, <2>2 DEF Check, ScheduleTypeOK, RunsAreMarked
<1>6. ASSUME NEW t \in Tasks, Enter(t) PROVE ScheduleInv'
    BY <1>6 DEF Enter, MayEnter, loopVars, ScheduleTypeOK, RunsAreMarked
<1>7. ASSUME NEW t \in Tasks, Skip(t) PROVE ScheduleInv'
    BY <1>7 DEF Skip, loopVars, ScheduleTypeOK, RunsAreMarked
<1>8. ASSUME NEW t \in Tasks, Finish(t) PROVE ScheduleInv'
    BY <1>8 DEF Finish, loopVars, ScheduleTypeOK, RunsAreMarked
<1>9. CASE ScheduleCrash
    BY <1>9 DEF ScheduleCrash, ScheduleTypeOK, RunsAreMarked, Zero
<1>10. CASE ScheduleTick
    BY <1>10 DEF ScheduleTick, Advance, taskVars, ScheduleTypeOK, RunsAreMarked
<1>11. CASE UNCHANGED scheduleVars
    BY <1>11 DEF scheduleVars, taskVars, loopVars, ScheduleTypeOK, RunsAreMarked
<1> QED
    BY <1>1, <1>2, <1>3, <1>4, <1>5, <1>6, <1>7, <1>8, <1>9, <1>10, <1>11 DEF ScheduleNext

LEMMA ScheduleAlways == ScheduleSpec => []ScheduleInv
BY ScheduleInitInv, ScheduleStep, PTL DEF ScheduleSpec

\* Scheduler.run looks at running again, under the lock that marks it: a task
\* without AllowOverlap never has two runs, however many goroutines were started
\* for it before the first of them got there.
THEOREM NoPiledCopies == ScheduleSpec => []NoSecondCopy
<1>1. ScheduleInv => NoSecondCopy
    BY DEF ScheduleInv, RunsAreMarked, NoSecondCopy
<1> QED
    BY <1>1, ScheduleAlways, PTL

\* The last time before x at which the clock showed the time task t is pinned to.
TargetBy(t, x) == IF x >= Target(t, x) THEN Target(t, x) ELSE Target(t, x) - DayLength

LEMMA LastTargetBy == \A t : LastTarget(t) = TargetBy(t, now)
BY DEF LastTarget, TargetBy

\* Days do not go backwards.
LEMMA TargetGrows ==
    ASSUME NEW t \in Tasks, NEW a \in Nat, NEW b \in Nat, a <= b, At[t] \in 0..DayLength - 1
    PROVE  /\ Target(t, a) \in Nat
           /\ TargetBy(t, a) \in Int /\ TargetBy(t, b) \in Int
           /\ TargetBy(t, a) <= TargetBy(t, b)
<1> DEFINE D == DayLength
           p == a \div D
           q == b \div D
<1>0. D \in Nat \ {0}
    BY ScheduleAssumption
<1>1. p \in Nat /\ q \in Nat /\ p <= q
    BY <1>0
<1>2. p * D \in Nat /\ q * D \in Nat
    BY <1>0, <1>1
<1>3. p < q => p * D + D <= q * D
    <2> SUFFICES ASSUME p < q PROVE p * D + D <= q * D
        OBVIOUS
    <2>1. q - p - 1 \in Nat
        BY <1>1
    <2>2. (q - p - 1) * D \in Nat
        BY <1>0, <2>1
    <2>3. q * D = p * D + D + (q - p - 1) * D
        BY <1>0, <1>1
    <2> QED
        BY <1>0, <1>2, <2>2, <2>3
<1>4. Target(t, a) = p * D + At[t] /\ Target(t, b) = q * D + At[t]
    BY DEF Target
<1> HIDE DEF p, q
<1>5. Target(t, a) \in Nat /\ Target(t, b) \in Nat
    BY <1>0, <1>2, <1>4
<1>6. CASE p = q
    BY <1>0, <1>4, <1>5, <1>6 DEF TargetBy
<1>7. CASE p < q
    BY <1>0, <1>2, <1>3, <1>4, <1>5, <1>7 DEF TargetBy
<1> QED
    BY <1>1, <1>6, <1>7

\* Ticks are not of the future, and no task began last before Run started.
TimesInv ==
    /\ phase = "off" => \A t \in Tasks : spawned[t] = 0
    /\ phase = "once" => since = Zero
    /\ slot <= now /\ tick <= now /\ since <= now
    /\ since # Zero => \A t \in Tasks : since <= last[t]

\* What OnSchedule asks of task t if it began now.
Overdue(t) ==
    /\ Pinned(t) => At[t] # Unreadable
    /\ \A earlier \in {last[t], since} \ {Zero} :
          IF Pinned(t) THEN earlier < LastTarget(t) ELSE now - earlier >= Every[t]

\* A goroutine that has not begun is the only one of its task, and what made the
\* task due when it was checked still does.
SpawnedIsDue ==
    ~lagged => \A t \in Tasks : spawned[t] > 0 => spawned[t] = 1 /\ Overdue(t)

DueInv == TimesInv /\ SpawnedIsDue

LEMMA OverdueStays ==
    ASSUME ScheduleInv, NEW t \in Tasks, Overdue(t), now' \in Nat, now <= now',
           last'[t] = last[t], since' = since
    PROVE  Overdue(t)'
<1> USE ScheduleAssumption
<1>1. CASE Pinned(t)
    <2>1. At[t] \in 0..DayLength - 1
        BY <1>1 DEF Overdue, Pinned
    <2>2. TargetBy(t, now) \in Int /\ TargetBy(t, now') \in Int /\ TargetBy(t, now) <= TargetBy(t, now')
        BY <2>1, TargetGrows DEF ScheduleInv
    <2>3. LastTarget(t) = TargetBy(t, now) /\ LastTarget(t)' = TargetBy(t, now')
        BY DEF LastTarget, TargetBy
    <2> HIDE DEF LastTarget
    <2> QED
        BY <1>1, <2>2, <2>3 DEF Overdue, ScheduleInv, ScheduleTypeOK, Zero, Pinned
<1>2. CASE ~Pinned(t)
    BY <1>2 DEF Overdue, ScheduleInv, ScheduleTypeOK, Zero, Pinned
<1> QED
    BY <1>1, <1>2

\* What due finds at a tick holds until the goroutine begins.
LEMMA DueIsOverdue ==
    ASSUME ScheduleInv, TimesInv, NEW t \in Tasks, phase \in {"scan", "once"},
           NEW lst \in Nat \cup {Zero}, lst = IF phase = "once" THEN Zero ELSE last[t],
           Due(t, tick, lst), now' = now, since' = since, last'[t] = lst
    PROVE  Overdue(t)'
<1> USE ScheduleAssumption
<1>0. lst # Zero => since <= lst
    BY DEF TimesInv, ScheduleInv, ScheduleTypeOK, Zero
<1>a. lst = Zero => since = Zero
    BY DEF TimesInv, ScheduleInv, ScheduleTypeOK, Zero
<1>1. CASE Pinned(t)
    <2>1. At[t] \in 0..DayLength - 1 /\ tick >= Target(t, tick) /\ lst < Target(t, tick)
        BY <1>1 DEF Due, DueAtTimeOfDay, Pinned
    <2>2. Target(t, tick) \in Nat /\ TargetBy(t, tick) = Target(t, tick)
          /\ TargetBy(t, tick) <= TargetBy(t, now) /\ TargetBy(t, now) \in Int
        BY <2>1, TargetGrows DEF ScheduleInv, ScheduleTypeOK, TimesInv, TargetBy
    <2>3. LastTarget(t)' = TargetBy(t, now)
        BY DEF LastTarget, TargetBy
    <2> QED
        BY <1>1, <1>0, <1>a, <2>1, <2>2, <2>3 DEF Overdue, Pinned, Unreadable, ScheduleInv, ScheduleTypeOK, Zero
<1>2. CASE ~Pinned(t)
    BY <1>2, <1>0, <1>a DEF Due, Overdue, Pinned, ScheduleInv, ScheduleTypeOK, TimesInv, Zero
<1> QED
    BY <1>1, <1>2

LEMMA DueInit == now = 0 /\ ScheduleInit => DueInv
BY DEF ScheduleInit, DueInv, TimesInv, SpawnedIsDue, Zero

LEMMA DueStep == ScheduleInv /\ DueInv /\ [ScheduleNext]_scheduleVars => DueInv'
<1> SUFFICES ASSUME ScheduleInv, DueInv, [ScheduleNext]_scheduleVars PROVE DueInv'
    OBVIOUS
<1> USE ScheduleAssumption DEF DueInv
<1>0. now' \in Nat /\ now <= now'
    BY DEF ScheduleInv, ScheduleNext, Start, StartOnce, TakeTick, Checked, Cancel, Stop, Return,
           Check, Enter, Skip, Finish, ScheduleCrash, ScheduleTick, Advance, scheduleVars
<1>a. ASSUME spawned' = spawned, lagged' = lagged, last' = last, since' = since
      PROVE  SpawnedIsDue'
    BY <1>0, <1>a, OverdueStays DEF SpawnedIsDue
<1>1. CASE Start
    BY <1>1 DEF Start, ScheduleInv, ScheduleTypeOK, TimesInv, SpawnedIsDue, Zero
<1>2. CASE StartOnce
    <2>1. \A t \in Tasks : spawned[t] = 0
        BY <1>2 DEF StartOnce, TimesInv
    <2> QED
        BY <1>2, <2>1 DEF StartOnce, taskVars, ScheduleInv, ScheduleTypeOK, TimesInv, SpawnedIsDue, Zero
<1>3. CASE TakeTick
    BY <1>3, <1>a DEF TakeTick, taskVars, ScheduleInv, ScheduleTypeOK, TimesInv, Zero
<1>4. CASE Checked \/ Cancel \/ Stop \/ Return
    <2>1. SpawnedIsDue'
        BY <1>4, <1>a DEF Checked, Cancel, Stop, Return, taskVars
    <2>2. TimesInv'
        BY <1>4 DEF Checked, Cancel, Stop, Return, taskVars, ScheduleInv, ScheduleTypeOK, TimesInv
    <2> QED
        BY <2>1, <2>2
<1>5. ASSUME NEW t \in Tasks, Check(t) PROVE DueInv'
    <2> DEFINE lst == IF phase = "once" THEN Zero ELSE last[t]
    <2>1. /\ phase \in {"scan", "once"} /\ last' = [last EXCEPT ![t] = lst]
          /\ spawned' = [spawned EXCEPT ![t] = IF Due(t, tick, lst) THEN @ + 1 ELSE @]
          /\ lagged' = (lagged \/ spawned[t] > 0)
          /\ UNCHANGED <<now, phase, slot, tick, since>>
        BY <1>5 DEF Check
    <2>2. lst \in Nat \cup {Zero}
        BY DEF ScheduleInv, ScheduleTypeOK
    <2> HIDE DEF lst
    <2>3. TimesInv'
        BY <2>1, <2>2 DEF TimesInv, ScheduleInv, ScheduleTypeOK, lst
    <2>4. ASSUME ~lagged', NEW u \in Tasks, spawned'[u] > 0 PROVE spawned'[u] = 1 /\ Overdue(u)'
        <3>0. ~lagged /\ ~(spawned[t] > 0)
            BY <2>1, <2>4, Zenon
        <3>1. ~lagged /\ spawned[t] = 0
            BY <3>0 DEF ScheduleInv, ScheduleTypeOK
        <3>2. CASE u = t
            <4>1. Due(t, tick, lst) /\ spawned'[u] = 1 /\ last'[t] = lst
                BY <2>1, <2>4, <3>1, <3>2 DEF ScheduleInv, ScheduleTypeOK
            <4> QED
                BY <2>1, <2>2, <3>2, <4>1, DueIsOverdue DEF lst
        <3>3. CASE u # t
            <4>1. spawned'[u] = spawned[u] /\ last'[u] = last[u]
                BY <2>1, <3>3 DEF ScheduleInv, ScheduleTypeOK
            <4> QED
                BY <1>0, <2>1, <2>4, <3>1, <4>1, OverdueStays DEF SpawnedIsDue
        <3> QED
            BY <3>2, <3>3
    <2> QED
        BY <2>3, <2>4 DEF SpawnedIsDue
<1>6. ASSUME NEW t \in Tasks, Enter(t) \/ Skip(t) PROVE DueInv'
    <2>1. /\ spawned[t] > 0 /\ spawned' = [spawned EXCEPT ![t] = @ - 1]
          /\ last' \in {last, [last EXCEPT ![t] = now]}
          /\ UNCHANGED <<now, phase, slot, tick, since, lagged>>
        BY <1>6 DEF Enter, Skip, loopVars
    <2>2. TimesInv'
        BY <2>1 DEF TimesInv, ScheduleInv, ScheduleTypeOK
    <2>3. ASSUME ~lagged', NEW u \in Tasks, spawned'[u] > 0 PROVE spawned'[u] = 1 /\ Overdue(u)'
        <3>1. u # t
            BY <2>1, <2>3 DEF ScheduleInv, ScheduleTypeOK, SpawnedIsDue
        <3>2. spawned'[u] = spawned[u] /\ last'[u] = last[u]
            BY <2>1, <3>1 DEF ScheduleInv, ScheduleTypeOK
        <3> QED
            BY <1>0, <2>1, <2>3, <3>2, OverdueStays DEF SpawnedIsDue
    <2> QED
        BY <2>2, <2>3 DEF SpawnedIsDue
<1>7. ASSUME NEW t \in Tasks, Finish(t) PROVE DueInv'
    BY <1>7, <1>a DEF Finish, loopVars, TimesInv
<1>8. CASE ScheduleCrash
    BY <1>8 DEF ScheduleCrash, TimesInv, SpawnedIsDue, ScheduleInv, Zero
<1>9. CASE ScheduleTick
    <2>1. SpawnedIsDue'
        BY <1>9, <1>a DEF ScheduleTick, taskVars
    <2>2. TimesInv'
        BY <1>9 DEF ScheduleTick, Advance, taskVars, ScheduleInv, ScheduleTypeOK, TimesInv, Zero
    <2> QED
        BY <2>1, <2>2
<1>10. CASE UNCHANGED scheduleVars
    BY <1>10, <1>a DEF scheduleVars, taskVars, loopVars, TimesInv
<1> QED
    BY <1>1, <1>2, <1>3, <1>4, <1>5, <1>6, <1>7, <1>8, <1>9, <1>10 DEF ScheduleNext

\* Every, Daily and the seeding of the last-run times: as long as goroutines begin
\* before their task is checked again, a task begins no earlier than an interval
\* after it last began, a pinned one once for each time the clock shows its time,
\* and nothing that was due before Run started, also when ticks were missed.
THEOREM BeginsOnSchedule == ScheduleSpec => OnSchedule
<1>1. ASSUME ScheduleInv, DueInv, [ScheduleNext]_scheduleVars,
             NEW t \in Tasks, inRun'[t] > inRun[t], ~lagged
      PROVE  Overdue(t)
    <2>1. Enter(t)
        BY <1>1, ScheduleAssumption DEF ScheduleNext, Start, StartOnce, TakeTick, Checked, Cancel, Stop, Return,
               Check, Enter, Skip, Finish, ScheduleCrash, ScheduleTick, taskVars, scheduleVars, ScheduleInv,
               ScheduleTypeOK
    <2> QED
        BY <1>1, <2>1 DEF Enter, DueInv, SpawnedIsDue
<1>2. ScheduleInv /\ DueInv /\ [ScheduleNext]_scheduleVars =>
        [\A t \in Tasks : inRun'[t] > inRun[t] /\ ~lagged =>
            \A earlier \in {last[t], since} \ {Zero} :
                IF Pinned(t) THEN earlier < LastTarget(t) ELSE now - earlier >= Every[t]]_scheduleVars
    BY <1>1 DEF Overdue
<1> QED
    BY <1>2, ScheduleAlways, DueInit, DueStep, PTL DEF ScheduleSpec, OnSchedule
-----------------------------------------------------------------------------
(* Remember.                                                               *)

\* A flight that stores has a value; a process that computed since the entry was
\* last lost finds the entry, or is about to write it.
FlightsInv ==
    /\ \A p \in Procs : Doing(p, "store") => flight[p].val \in Version
    /\ \A p \in supplied : entry # Nothing \/ Doing(p, "store")
    /\ \A p \in Procs : Doing(p, "compute") => p \notin supplied

CacheInv == now \in Nat /\ CacheTypeOK /\ FlightsInv

LEMMA CacheInitInv == now = 0 /\ CacheInit => CacheInv
<1> SUFFICES ASSUME now = 0, CacheInit PROVE CacheInv
    OBVIOUS
<1>1. CacheTypeOK
    BY CacheAssumption DEF CacheInit, CacheTypeOK, Version, Call
<1>2. FlightsInv
    BY DEF CacheInit, FlightsInv, Doing
<1> QED
    BY <1>1, <1>2 DEF CacheInv

\* A call goes on by itself.
LEMMA CallsQuiet ==
    ASSUME CacheInv, call' \in [Calls -> Call],
           UNCHANGED <<now, truth, entry, flight, replaced, supplied>>
    PROVE  CacheInv'
BY DEF CacheInv, CacheTypeOK, FlightsInv, Doing

\* A flight moves on without writing the entry, or the entry is lost.
LEMMA FlightMoves ==
    ASSUME CacheInv, NEW p \in Procs, flight[p] # Nothing,
           NEW s \in {"recheck", "drop", "compute"},
           flight' = [flight EXCEPT ![p].step = s],
           flight[p].step \in {"recheck", "drop"},
           entry' \in Entry \cup {Nothing},
           supplied' = {} \/ (supplied' = supplied /\ entry' = entry /\ (s = "compute" => entry = Nothing)),
           UNCHANGED <<now, truth, call, replaced>>
    PROVE  CacheInv'
<1>1. flight[p] \in Flight
    BY DEF CacheInv, CacheTypeOK
<1>2. /\ flight'[p] = [flight[p] EXCEPT !.step = s] /\ flight'[p] \in Flight
      /\ flight'[p].step = s /\ \A q \in Procs : q # p => flight'[q] = flight[q]
    BY <1>1 DEF CacheInv, CacheTypeOK, Flight
<1>3. CacheTypeOK'
    BY <1>2 DEF CacheInv, CacheTypeOK
<1>4. p \in supplied => entry # Nothing
    BY DEF CacheInv, FlightsInv, Doing
<1>5. FlightsInv'
    BY <1>2, <1>4 DEF CacheInv, CacheTypeOK, FlightsInv, Doing
<1> QED
    BY <1>3, <1>5 DEF CacheInv

\* A flight ends: what it leaves in the store, and what its callers get.
LEMMA LandEffect ==
    ASSUME CacheInv, NEW p \in Procs, NEW v \in Version \cup {Nothing}, Land(p, v)
    PROVE  /\ flight' \in [Procs -> Flight \cup {Nothing}] /\ flight'[p] = Nothing
           /\ \A q \in Procs : q # p => flight'[q] = flight[q]
           /\ call' \in [Calls -> Call]
           /\ \A c \in Calls : \/ call'[c] = call[c]
                               \/ call'[c].val = v /\ call'[c].began = call[c].began
<1>1. /\ flight' = [flight EXCEPT ![p] = Nothing]
      /\ call' = [c \in Calls |-> IF ProcOf[c] = p /\ call[c].step = "wait"
                                  THEN [call[c] EXCEPT !.step = "done", !.val = v] ELSE call[c]]
    BY DEF Land
<1>2. \A c \in Calls : call[c] \in Call /\ [call[c] EXCEPT !.step = "done", !.val = v] \in Call
                       /\ [call[c] EXCEPT !.step = "done", !.val = v].val = v
                       /\ [call[c] EXCEPT !.step = "done", !.val = v].began = call[c].began
    BY DEF CacheInv, CacheTypeOK, Call
<1> QED
    BY <1>1, <1>2 DEF CacheInv, CacheTypeOK

LEMMA SetEffect ==
    ASSUME CacheInv, NEW v \in Version, Set(v)
    PROVE  /\ entry' \in Entry /\ entry' # Nothing /\ entry'.val = v
           /\ TTL # Forever => entry'.expires = now + TTL
BY CacheAssumption, NothingAssumption DEF Set, CacheInv, Entry

LEMMA FlightLands ==
    ASSUME CacheInv, NEW p \in Procs, NEW v \in Version \cup {Nothing}, Land(p, v),
           entry' \in Entry \cup {Nothing},
           \/ supplied' = {} /\ entry' = entry
           \/ supplied' = supplied /\ entry' # Nothing,
           UNCHANGED <<now, truth, replaced>>
    PROVE  CacheInv'
<1>1. CacheTypeOK'
    BY LandEffect DEF CacheInv, CacheTypeOK
<1>2. FlightsInv'
    BY LandEffect DEF CacheInv, CacheTypeOK, FlightsInv, Doing
<1> QED
    BY <1>1, <1>2 DEF CacheInv

LEMMA CacheStep == CacheInv /\ [CacheNext]_cacheVars => CacheInv'
<1> SUFFICES ASSUME CacheInv, [CacheNext]_cacheVars PROVE CacheInv'
    OBVIOUS
<1> USE CacheAssumption
<1>1. ASSUME NEW c \in Calls, Hit(c) \/ Miss(c) \/ MissDrop(c) PROVE CacheInv'
    <2>1. PICK s \in {"done", "join", "drop"}, v \in Version \cup {Nothing} : Begin(c, s, v)
        BY <1>1 DEF Hit, Miss, MissDrop, Live, CacheInv, CacheTypeOK, Entry
    <2>2. call' \in [Calls -> Call]
        BY <2>1 DEF Begin, CacheInv, CacheTypeOK, Call
    <2> QED
        BY <2>1, <2>2, CallsQuiet DEF Begin
<1>2. ASSUME NEW c \in Calls, Drop(c) PROVE CacheInv'
    <2>1. call' \in [Calls -> Call]
        BY <1>2 DEF Drop, Step, CacheInv, CacheTypeOK, Call
    <2> QED
        BY <1>2, <2>1 DEF Drop, Lose, CacheInv, CacheTypeOK, FlightsInv, Doing
<1>3. ASSUME NEW c \in Calls, Join(c) PROVE CacheInv'
    <2> DEFINE p == ProcOf[c]
               f == [step |-> "recheck", val |-> Nothing, asof |-> 0]
    <2>1. call' \in [Calls -> Call]
        BY <1>3 DEF Join, Step, CacheInv, CacheTypeOK, Call
    <2>2. f \in Flight /\ p \in Procs
        BY DEF Flight
    <2>3. /\ flight' = IF flight[p] # Nothing THEN flight ELSE [flight EXCEPT ![p] = f]
          /\ UNCHANGED <<now, truth, entry, replaced, supplied>>
        BY <1>3 DEF Join
    <2>4. f.step = "recheck"
        OBVIOUS
    <2> HIDE DEF f, p
    <2>5. CacheTypeOK'
        BY <2>1, <2>2, <2>3 DEF CacheInv, CacheTypeOK
    <2>6. \A q \in Procs : flight'[q] = flight[q] \/ (flight[q] = Nothing /\ flight'[q] = f)
        BY <2>2, <2>3 DEF CacheInv, CacheTypeOK
    <2>7. FlightsInv'
        BY <2>3, <2>4, <2>6 DEF CacheInv, CacheTypeOK, FlightsInv, Doing
    <2> QED
        BY <2>3, <2>5, <2>7 DEF CacheInv
<1>4. ASSUME NEW p \in Procs, RecheckMiss(p) \/ RecheckError(p) \/ RecheckMissDrop(p) \/ FlightDrop(p)
      PROVE  CacheInv'
    <2>1. entry \in Entry \cup {Nothing}
        BY DEF CacheInv, CacheTypeOK
    <2> QED
        BY <1>4, <2>1, FlightMoves DEF RecheckMiss, RecheckError, RecheckMissDrop, FlightDrop, Goto, Doing, Lose
<1>5. ASSUME NEW p \in Procs, RecheckHit(p) PROVE CacheInv'
    <2>1. entry \in Entry /\ entry # Nothing /\ entry.val \in Version
        BY <1>5 DEF RecheckHit, Live, CacheInv, CacheTypeOK, Entry
    <2> QED
        BY <1>5, <2>1, FlightLands DEF RecheckHit
<1>6. ASSUME NEW p \in Procs, Compute(p) PROVE CacheInv'
    <2> DEFINE f == [step |-> "store", val |-> truth, asof |-> now]
    <2>1. f \in Flight /\ f # Nothing /\ f.step = "store" /\ f.val \in Version
        BY NothingAssumption DEF Flight, CacheInv, CacheTypeOK
    <2>2. flight' = [flight EXCEPT ![p] = f] /\ supplied' = supplied \cup {p}
          /\ UNCHANGED <<now, truth, entry, call, replaced>>
        BY <1>6 DEF Compute
    <2> HIDE DEF f
    <2>3. flight'[p] = f /\ \A q \in Procs : q # p => flight'[q] = flight[q]
        BY <2>2 DEF CacheInv, CacheTypeOK
    <2>4. CacheTypeOK'
        BY <2>1, <2>2 DEF CacheInv, CacheTypeOK
    <2>5. FlightsInv'
        BY <2>1, <2>2, <2>3 DEF CacheInv, CacheTypeOK, FlightsInv, Doing
    <2> QED
        BY <2>2, <2>4, <2>5 DEF CacheInv
<1>7. ASSUME NEW p \in Procs, ComputeError(p) PROVE CacheInv'
    BY <1>7, FlightLands DEF ComputeError, CacheInv, CacheTypeOK
<1>8. ASSUME NEW p \in Procs, Store(p) \/ StoreError(p) PROVE CacheInv'
    <2>1. flight[p].val \in Version
        BY <1>8 DEF Store, StoreError, CacheInv, FlightsInv
    <2>2. CASE Store(p)
        BY <2>1, <2>2, SetEffect, FlightLands DEF Store
    <2>3. CASE StoreError(p)
        BY <2>1, <2>3, FlightLands DEF StoreError, CacheInv, CacheTypeOK
    <2> QED
        BY <1>8, <2>2, <2>3
<1>9. CASE Update
    BY <1>9 DEF Update, CacheInv, CacheTypeOK, FlightsInv, Doing, Version
<1>10. CASE Evict
    BY <1>10 DEF Evict, Lose, CacheInv, CacheTypeOK, FlightsInv, Doing
<1>11. CASE CacheTick
    BY <1>11 DEF CacheTick, Advance, CacheInv, CacheTypeOK, FlightsInv, Doing
<1>12. CASE UNCHANGED cacheVars
    BY <1>12 DEF cacheVars, CacheInv, CacheTypeOK, FlightsInv, Doing
<1> QED
    BY <1>1, <1>2, <1>3, <1>4, <1>5, <1>6, <1>7, <1>8, <1>9, <1>10, <1>11, <1>12 DEF CacheNext

LEMMA CacheAlways == CacheSpec => []CacheInv
BY CacheInitInv, CacheStep, PTL DEF CacheSpec

\* The second look inside the group: as long as the entry is not lost, a process
\* calls compute once for it, in every interleaving of its calls with those of the
\* other processes, with drops of expired entries and with evictions.
THEOREM ComputesOnce == CacheSpec => ComputedOnce
<1>1. CacheInv /\ [CacheNext]_cacheVars =>
        [\A p \in Procs : Doing(p, "compute") /\ Doing(p, "store")' => p \notin supplied]_cacheVars
    BY DEF CacheInv, FlightsInv
<1> QED
    BY <1>1, CacheAlways, PTL DEF CacheSpec, ComputedOnce

\* Value v is none, is current, or was no longer ago than a lifetime and a
\* computation before t.
StillGood(v, t) ==
    v # Nothing /\ replaced[v] # Nothing => t <= replaced[v] + TTL + MaxCompute

VersionsInv == \A v \in Version : replaced[v] # Nothing => v < truth /\ replaced[v] <= now

EntryFresh ==
    entry # Nothing =>
        /\ entry.expires # 0 /\ entry.expires <= now + TTL
        /\ StillGood(entry.val, entry.expires)

\* compute read what was current, and lasts no longer than it may.
FlightsFresh ==
    \A p \in Procs : Doing(p, "store") =>
        /\ flight[p].asof <= now /\ now <= flight[p].asof + MaxCompute
        /\ replaced[flight[p].val] # Nothing => flight[p].asof <= replaced[flight[p].val]

CallsFresh ==
    \A c \in Calls :
        /\ call[c].began <= now
        /\ call[c].step = "done" => StillGood(call[c].val, call[c].began)

FreshInv == VersionsInv /\ EntryFresh /\ FlightsFresh /\ CallsFresh

LEMMA FreshInit == now = 0 /\ CacheInit => FreshInv
BY DEF CacheInit, FreshInv, VersionsInv, EntryFresh, FlightsFresh, CallsFresh, Doing

\* A call or a flight goes on by itself; the entry stays or is lost.
LEMMA FreshQuiet ==
    ASSUME CacheInv, FreshInv, UNCHANGED <<now, truth, replaced>>,
           entry' \in {entry, Nothing},
           \A p \in Procs : flight'[p] = flight[p] \/ ~Doing(p, "store")',
           \A c \in Calls : \/ call'[c].began = call[c].began /\ call'[c].step # "done"
                            \/ call'[c] = call[c]
    PROVE  FreshInv'
<1>1. VersionsInv' /\ EntryFresh'
    BY DEF FreshInv, VersionsInv, EntryFresh, StillGood
<1>2. FlightsFresh'
    BY DEF FreshInv, FlightsFresh, Doing
<1>3. CallsFresh'
    BY DEF FreshInv, CallsFresh, StillGood
<1> QED
    BY <1>1, <1>2, <1>3 DEF FreshInv

\* A flight ends with a value that is still good for everyone who waited for it.
LEMMA FreshLands ==
    ASSUME CacheInv, FreshInv, NEW p \in Procs, NEW v \in Version \cup {Nothing}, Land(p, v),
           UNCHANGED <<now, truth, replaced>>, EntryFresh',
           StillGood(v, now)
    PROVE  FreshInv'
<1> USE CacheAssumption, NothingAssumption
<1>1. VersionsInv'
    BY DEF FreshInv, VersionsInv
<1>2. FlightsFresh'
    BY LandEffect DEF FreshInv, FlightsFresh, Doing
<1>3. ASSUME NEW c \in Calls
      PROVE  call'[c].began <= now' /\ (call'[c].step = "done" => StillGood(call[c].val, call[c].began)')
    <2>1. call[c].began \in Nat /\ call[c].began <= now
        BY DEF CacheInv, CacheTypeOK, Call, FreshInv, CallsFresh
    <2>2. CASE call'[c] = call[c]
        BY <2>1, <2>2 DEF FreshInv, CallsFresh, StillGood
    <2>3. CASE call'[c].val = v /\ call'[c].began = call[c].began
        BY <2>1, <2>3 DEF StillGood, CacheInv, CacheTypeOK
    <2> QED
        BY <2>2, <2>3, LandEffect
<1>4. CallsFresh'
    BY <1>3 DEF CallsFresh
<1> QED
    BY <1>1, <1>2, <1>4 DEF FreshInv

LEMMA FreshStep == TTL # Forever /\ CacheInv /\ FreshInv /\ [CacheNext]_cacheVars => FreshInv'
<1> SUFFICES ASSUME TTL # Forever, CacheInv, FreshInv, [CacheNext]_cacheVars PROVE FreshInv'
    OBVIOUS
<1> USE CacheAssumption, NothingAssumption
<1>0. /\ \A c \in Calls : call[c] \in Call
      /\ entry # Nothing => entry \in Entry /\ entry.val \in Version /\ entry.expires \in Nat
      /\ \A p \in Procs : flight[p] # Nothing => flight[p] \in Flight /\ flight[p].asof \in Nat
      /\ \A v \in Version : replaced[v] # Nothing => replaced[v] \in Nat
      /\ now \in Nat
    BY DEF CacheInv, CacheTypeOK, Entry, Flight
<1>1. ASSUME NEW c \in Calls, Hit(c) PROVE FreshInv'
    <2>1. /\ call' = [call EXCEPT ![c] = [step |-> "done", val |-> entry.val, began |-> now]]
          /\ UNCHANGED <<now, truth, entry, flight, replaced>>
        BY <1>1 DEF Hit, Begin
    <2>2. StillGood(entry.val, now)
        BY <1>0, <1>1 DEF Hit, Live, Expired, FreshInv, EntryFresh, StillGood
    <2>3. CallsFresh'
        BY <1>0, <2>1, <2>2 DEF FreshInv, CallsFresh, StillGood, CacheInv, CacheTypeOK
    <2> QED
        BY <2>1, <2>3 DEF FreshInv, VersionsInv, EntryFresh, FlightsFresh, StillGood, Doing
<1>2. ASSUME NEW c \in Calls, Miss(c) \/ MissDrop(c) PROVE FreshInv'
    <2>1. PICK s \in {"join", "drop"} : Begin(c, s, Nothing)
        BY <1>2 DEF Miss, MissDrop
    <2>2. /\ call' = [call EXCEPT ![c] = [step |-> s, val |-> Nothing, began |-> now]]
          /\ UNCHANGED <<now, truth, entry, flight, replaced>>
        BY <2>1 DEF Begin
    <2>3. CallsFresh'
        BY <1>0, <2>2 DEF FreshInv, CallsFresh, StillGood, CacheInv, CacheTypeOK
    <2> QED
        BY <2>2, <2>3 DEF FreshInv, VersionsInv, EntryFresh, FlightsFresh, StillGood, Doing
<1>3. ASSUME NEW c \in Calls, Drop(c) \/ Join(c) PROVE FreshInv'
    <2>1. PICK s \in {"join", "wait"} : call' = [call EXCEPT ![c].step = s]
        BY <1>3 DEF Drop, Join, Step
    <2>2. \A d \in Calls : \/ call'[d].began = call[d].began /\ call'[d].step # "done"
                           \/ call'[d] = call[d]
        BY <1>0, <2>1 DEF CacheInv, CacheTypeOK, Call
    <2>3. \A p \in Procs : flight'[p] = flight[p] \/ ~Doing(p, "store")'
        BY <1>3 DEF Drop, Join, Doing, CacheInv, CacheTypeOK
    <2> QED
        BY <1>3, <2>2, <2>3, FreshQuiet DEF Drop, Join, Lose
<1>4. ASSUME NEW p \in Procs, RecheckMiss(p) \/ RecheckError(p) \/ RecheckMissDrop(p) \/ FlightDrop(p)
      PROVE  FreshInv'
    <2>1. PICK s \in {"compute", "drop"} : flight' = [flight EXCEPT ![p].step = s] /\ flight[p] # Nothing
        BY <1>4 DEF RecheckMiss, RecheckError, RecheckMissDrop, FlightDrop, Goto, Doing
    <2>2. \A q \in Procs : flight'[q] = flight[q] \/ ~Doing(q, "store")'
        BY <1>0, <2>1 DEF Doing, CacheInv, CacheTypeOK, Flight
    <2> QED
        BY <1>4, <2>2, FreshQuiet DEF RecheckMiss, RecheckError, RecheckMissDrop, FlightDrop, Lose
<1>5. ASSUME NEW p \in Procs, RecheckHit(p) PROVE FreshInv'
    <2>1. StillGood(entry.val, now) /\ entry.val \in Version
        BY <1>0, <1>5 DEF RecheckHit, Live, Expired, FreshInv, EntryFresh, StillGood
    <2>2. EntryFresh'
        BY <1>5 DEF RecheckHit, FreshInv, EntryFresh, StillGood
    <2> QED
        BY <1>5, <2>1, <2>2, FreshLands DEF RecheckHit
<1>6. ASSUME NEW p \in Procs, Compute(p) PROVE FreshInv'
    <2> DEFINE f == [step |-> "store", val |-> truth, asof |-> now]
    <2>1. f.val = truth /\ f.asof = now
        OBVIOUS
    <2>2. flight' = [flight EXCEPT ![p] = f] /\ UNCHANGED <<now, truth, entry, call, replaced>>
        BY <1>6 DEF Compute
    <2> HIDE DEF f
    <2>3. flight'[p] = f /\ \A q \in Procs : q # p => flight'[q] = flight[q]
        BY <2>2 DEF CacheInv, CacheTypeOK
    <2>4. truth \in Nat /\ replaced[truth] = Nothing
        BY DEF FreshInv, VersionsInv, CacheInv, CacheTypeOK, Version
    <2>5. FlightsFresh'
        BY <1>0, <2>1, <2>2, <2>3, <2>4 DEF FreshInv, FlightsFresh, Doing
    <2> QED
        BY <2>2, <2>5 DEF FreshInv, VersionsInv, EntryFresh, CallsFresh, StillGood
<1>7. ASSUME NEW p \in Procs, ComputeError(p) PROVE FreshInv'
    <2>1. EntryFresh'
        BY <1>7 DEF ComputeError, FreshInv, EntryFresh, StillGood
    <2> QED
        BY <1>7, <2>1, FreshLands DEF ComputeError, StillGood
<1>8. ASSUME NEW p \in Procs, Store(p) \/ StoreError(p) PROVE FreshInv'
    <2> DEFINE v == flight[p].val
    <2>0. UNCHANGED <<now, truth, replaced>> /\ Land(p, v) /\ Doing(p, "store")
        BY <1>8 DEF Store, StoreError
    <2>1. v \in Version /\ flight[p].asof \in Nat
        BY <1>0, <2>0 DEF CacheInv, FlightsInv, Doing
    <2>2. /\ now <= flight[p].asof + MaxCompute
          /\ replaced[v] # Nothing => flight[p].asof <= replaced[v] /\ replaced[v] \in Nat
        BY <1>0, <2>0, <2>1 DEF FreshInv, FlightsFresh
    <2>3. StillGood(v, now) /\ StillGood(v, now + TTL)
        BY <1>0, <2>1, <2>2 DEF StillGood
    <2>4. CASE Store(p)
        <3>1. entry'.val = v /\ entry'.expires = now + TTL
            BY <2>1, <2>4, SetEffect DEF Store
        <3>2. EntryFresh'
            BY <1>0, <2>0, <2>3, <3>1 DEF EntryFresh, StillGood, Forever
        <3> QED
            BY <2>0, <2>1, <2>3, <3>2, FreshLands
    <2>5. CASE StoreError(p)
        <3>1. EntryFresh'
            BY <2>5 DEF StoreError, FreshInv, EntryFresh, StillGood
        <3> QED
            BY <2>0, <2>1, <2>3, <3>1, FreshLands
    <2> QED
        BY <1>8, <2>4, <2>5
<1>9. CASE Update
    <2>1. /\ truth \in Version /\ truth' = truth + 1 /\ replaced' = [replaced EXCEPT ![truth] = now]
          /\ UNCHANGED <<now, entry, flight, call>>
        BY <1>9 DEF Update, CacheInv, CacheTypeOK
    <2>2. VersionsInv'
        BY <1>0, <2>1 DEF FreshInv, VersionsInv, CacheInv, CacheTypeOK, Version
    <2>3. ASSUME NEW v \in Version \cup {Nothing}, NEW t \in Nat, StillGood(v, t), t <= now + TTL
          PROVE  StillGood(v, t)'
        BY <1>0, <2>1, <2>3 DEF StillGood, CacheInv, CacheTypeOK, Version
    <2>4. EntryFresh'
        BY <1>0, <2>1, <2>3 DEF FreshInv, EntryFresh
    <2>5. FlightsFresh'
        <3>1. \A p \in Procs : Doing(p, "store") => flight[p].val \in Version
            BY DEF CacheInv, FlightsInv
        <3> QED
            BY <1>0, <2>1, <3>1 DEF FreshInv, FlightsFresh, Doing, CacheInv, CacheTypeOK
    <2>6. CallsFresh'
        <3>1. \A c \in Calls : call[c].val \in Version \cup {Nothing} /\ call[c].began \in Nat
            BY <1>0 DEF Call
        <3> QED
            BY <1>0, <2>1, <2>3, <3>1 DEF FreshInv, CallsFresh
    <2> QED
        BY <2>2, <2>4, <2>5, <2>6 DEF FreshInv
<1>10. CASE Evict
    BY <1>10, FreshQuiet DEF Evict, Lose
<1>11. CASE CacheTick
    <2>1. now' = now + 1 /\ UNCHANGED <<truth, entry, flight, call, replaced>>
        BY <1>11 DEF CacheTick, Advance
    <2>2. VersionsInv' /\ EntryFresh'
        BY <1>0, <2>1 DEF FreshInv, VersionsInv, EntryFresh, StillGood
    <2>3. FlightsFresh'
        BY <1>0, <1>11, <2>1 DEF CacheTick, FreshInv, FlightsFresh, Doing
    <2>4. CallsFresh'
        <3>1. \A c \in Calls : call[c].began \in Nat
            BY <1>0 DEF Call
        <3> QED
            BY <1>0, <2>1, <3>1 DEF FreshInv, CallsFresh, StillGood
    <2> QED
        BY <2>2, <2>3, <2>4 DEF FreshInv
<1>12. CASE UNCHANGED cacheVars
    BY <1>12 DEF cacheVars, FreshInv, VersionsInv, EntryFresh, FlightsFresh, CallsFresh, StillGood, Doing
<1> QED
    BY <1>1, <1>2, <1>3, <1>4, <1>5, <1>6, <1>7, <1>8, <1>9, <1>10, <1>11, <1>12 DEF CacheNext

\* What Remember returns was current no longer ago than the lifetime and one
\* computation before the call began, although a flight that computed before a
\* change may write its value back after the change has deleted the entry.
THEOREM NeverStaler == CacheSpec => []StaleForOneLifetime
<1>1. FreshInv => StaleForOneLifetime
    BY DEF FreshInv, CallsFresh, StillGood, StaleForOneLifetime
<1>2. CASE TTL # Forever
    BY <1>1, <1>2, CacheAlways, FreshInit, FreshStep, PTL DEF CacheSpec
<1>3. CASE TTL = Forever
    <2>1. StaleForOneLifetime
        BY <1>3 DEF StaleForOneLifetime
    <2> QED
        BY <2>1, PTL
<1> QED
    BY <1>2, <1>3
-----------------------------------------------------------------------------
(* Migrations: what Min and Max choose.                                    *)

LEMMA LeastOf ==
    ASSUME NEW S \in SUBSET Nat, S # {}
    PROVE  Min(S) \in S /\ \A y \in S : Min(S) <= y
<1> DEFINE R == {p \in Nat \X Nat : p[1] < p[2]}
<1>1. IsWellFoundedOn(R, Nat)
    BY NatLessThanWellFounded, Zenon DEF OpToRel
<1>2. \A y, x \in S : y < x => <<y, x>> \in R
    OBVIOUS
<1> HIDE DEF R
<1>3. PICK x \in S : \A y \in S : ~(<<y, x>> \in R)
    BY <1>1, WFMin, Zenon
<1>4. \A y \in S : ~(y < x)
    BY <1>2, <1>3
<1>5. \A y \in S : x <= y
    BY <1>4
<1> QED
    BY <1>5 DEF Min

LEMMA GreatestOf ==
    ASSUME NEW S \in SUBSET Nat, S # {}, NEW b \in Nat, \A x \in S : x <= b
    PROVE  Max(S) \in S /\ \A y \in S : Max(S) >= y
<1> DEFINE U == {u \in Nat : \A x \in S : x <= u}
           m == Min(U)
<1>1. U \in SUBSET Nat /\ U # {}
    OBVIOUS
<1>2. m \in U /\ \A u \in U : m <= u
    BY <1>1, LeastOf
<1> HIDE DEF m
<1>3. m \in S
    <2> SUFFICES ASSUME m \notin S PROVE FALSE
        OBVIOUS
    <2>1. \A x \in S : x <= m /\ x # m
        BY <1>2
    <2>2. PICK x \in S : TRUE
        OBVIOUS
    <2>3. m > 0 /\ m - 1 \in Nat
        BY <1>2, <2>1, <2>2
    <2>4. \A y \in S : y <= m - 1
        BY <1>2, <2>1
    <2> QED
        BY <1>2, <2>3, <2>4
<1>4. \A y \in S : m >= y
    BY <1>2
<1> QED
    BY <1>3, <1>4 DEF Max

(* What a command is, and what it may do beside others.                    *)

\* A command that applies or undoes has something to do, an Up a batch to use.
CommandsInv ==
    \A o \in Operators :
        /\ op[o].step \in {"up", "down"} => op[o].todo # {}
        /\ op[o].step = "up" => op[o].n \in 1..MaxBatch

BatchesInv == \A m \in Migrations : batchOf[m] <= MaxBatch

MigrateInv == MigrateTypeOK /\ SchemaIsRecorded /\ CommandsInv /\ BatchesInv

LEMMA MigrateInitInv == MigrateInit => MigrateInv
<1> SUFFICES ASSUME MigrateInit PROVE MigrateInv
    OBVIOUS
<1>1. NoCommand \in Command /\ NoCommand.step = "idle"
    BY DEF NoCommand, Command
<1>2. MigrateTypeOK
    BY <1>1 DEF MigrateInit, MigrateTypeOK
<1>3. SchemaIsRecorded /\ BatchesInv
    BY MigrateAssumption DEF MigrateInit, SchemaIsRecorded, Applied, BatchesInv
<1>4. CommandsInv
    BY <1>1 DEF MigrateInit, CommandsInv
<1> QED
    BY <1>2, <1>3, <1>4 DEF MigrateInv

LEMMA HighestIs ==
    ASSUME MigrateInv
    PROVE  /\ HighestBatch \in Nat
           /\ \A m \in Migrations : batchOf[m] \in Nat /\ batchOf[m] <= HighestBatch
           /\ HighestBatch # 0 => \E m \in Migrations : batchOf[m] = HighestBatch
<1> DEFINE S == {batchOf[m] : m \in Migrations} \cup {0}
<1>0. \A m \in Migrations : batchOf[m] \in Nat /\ batchOf[m] <= MaxBatch
    BY DEF MigrateInv, MigrateTypeOK, BatchesInv
<1>1. S \in SUBSET Nat /\ S # {} /\ \A x \in S : x <= MaxBatch
    BY <1>0, MigrateAssumption
<1>2. Max(S) \in S /\ \A y \in S : Max(S) >= y
    BY <1>1, GreatestOf, MigrateAssumption
<1>3. HighestBatch = Max(S)
    BY DEF HighestBatch
<1>4. HighestBatch \in S /\ \A y \in S : HighestBatch >= y
    BY <1>2, <1>3
<1> QED
    BY <1>0, <1>1, <1>4

LEMMA SubjectIs ==
    ASSUME MigrateInv, NEW o \in Operators, op[o].step \in {"up", "down"}
    PROVE  Subject(o) \in op[o].todo /\ Subject(o) \in Migrations
<1>1. op[o].todo \in SUBSET Migrations /\ op[o].todo # {}
    BY DEF MigrateInv, MigrateTypeOK, Command, CommandsInv
<1>2. op[o].todo \in SUBSET Nat /\ \A m \in op[o].todo : m <= NMigrations
    BY <1>1, MigrateAssumption DEF Migrations
<1>3. Min(op[o].todo) \in op[o].todo
    BY <1>1, <1>2, LeastOf
<1>4. Max(op[o].todo) \in op[o].todo
    BY <1>1, <1>2, GreatestOf, MigrateAssumption
<1> QED
    BY <1>1, <1>3, <1>4 DEF Subject

LEMMA ProceedEffect ==
    ASSUME MigrateInv, NEW o \in Operators, NEW c \in Command, Proceed(o, c)
    PROVE  /\ op' \in [Operators -> Command] /\ op'[o] = c
           /\ \A p \in Operators : p # o => op'[p] = op[p]
           /\ crowded' \in BOOLEAN
           /\ ~crowded' => ~crowded
           /\ ~crowded' /\ c # NoCommand => \A p \in Operators : p # o => op[p] = NoCommand
<1>1. crowded' = (crowded \/ (c # NoCommand /\ \E p \in Operators \ {o} : op[p] # NoCommand))
    BY DEF Proceed
<1>2. crowded' \in BOOLEAN
    BY <1>1, Zenon
<1>3. ~crowded' => ~crowded /\ ~(c # NoCommand /\ \E p \in Operators \ {o} : op[p] # NoCommand)
    BY <1>1, Zenon
<1> QED
    BY <1>2, <1>3 DEF Proceed, MigrateInv, MigrateTypeOK

\* A command goes on, the database stays as it is.
LEMMA ProceedQuiet ==
    ASSUME MigrateInv, NEW o \in Operators, NEW c \in Command, Proceed(o, c),
           c.step \in {"up", "down"} => c.todo # {},
           c.step = "up" => c.n \in 1..MaxBatch,
           UNCHANGED <<batchOf, schema, before, fresh>>
    PROVE  MigrateInv'
<1>1. MigrateTypeOK' /\ CommandsInv'
    BY ProceedEffect DEF MigrateInv, MigrateTypeOK, CommandsInv
<1>2. SchemaIsRecorded' /\ BatchesInv'
    BY DEF MigrateInv, SchemaIsRecorded, Applied, BatchesInv
<1> QED
    BY <1>1, <1>2 DEF MigrateInv

LEMMA NoCommandIs ==
    /\ NoCommand \in Command /\ NoCommand.step = "idle" /\ NoCommand.todo = {}
    /\ NoCommand.exact = FALSE /\ NoCommand.refresh = FALSE
BY DEF NoCommand, Command

LEMMA AfterRollbackIs ==
    ASSUME NEW c \in Command
    PROVE  AfterRollback(c) \in Command /\ AfterRollback(c).step \in {"idle", "reup"}
BY DEF AfterRollback, NoCommand, Command

\* What Up settles when it reads.
LEMMA UpReadIs ==
    ASSUME MigrateInv, NEW o \in Operators, NEW code \in SUBSET Migrations, NEW steps \in Nat,
           UpRead(o, code, steps)
    PROVE  \E c \in Command :
              /\ Proceed(o, c) /\ UNCHANGED <<batchOf, schema, before, fresh>>
              /\ \/ c = NoCommand
                 \/ /\ c.step = "up" /\ c.todo # {} /\ c.todo \cap Applied = {}
                    /\ c.n = HighestBatch + 1 /\ c.n \in 1..MaxBatch /\ c.left = Applied
<1> DEFINE pending == Take(steps, code \ Applied)
           c == [NoCommand EXCEPT !.step = "up", !.todo = pending, !.n = NextBatch, !.left = Applied]
<1>1. /\ Proceed(o, IF pending = {} THEN NoCommand ELSE c)
      /\ NextBatch <= MaxBatch /\ UNCHANGED <<batchOf, schema, before, fresh>>
    BY DEF UpRead
<1>2. pending \subseteq code \ Applied
    BY DEF Take
<1>3. NextBatch \in Nat /\ NextBatch > 0 /\ NextBatch = HighestBatch + 1
    BY HighestIs DEF NextBatch
<1>4. Applied \subseteq Migrations
    BY DEF Applied
<1> HIDE DEF pending
<1>6. c \in Command
    BY <1>2, <1>3, <1>4, NoCommandIs DEF Command
<1>7. c.step = "up" /\ c.todo = pending /\ c.n = NextBatch /\ c.left = Applied
    BY NoCommandIs DEF Command
<1> HIDE DEF c
<1>8. NextBatch \in 1..MaxBatch
    BY <1>1, <1>3, MigrateAssumption
<1> QED
    BY <1>1, <1>2, <1>3, <1>6, <1>7, <1>8, NoCommandIs

LEMMA UpReadKeeps ==
    ASSUME MigrateInv, NEW o \in Operators, NEW code \in SUBSET Migrations, NEW steps \in Nat,
           UpRead(o, code, steps)
    PROVE  MigrateInv'
<1>1. PICK c \in Command :
              /\ Proceed(o, c) /\ UNCHANGED <<batchOf, schema, before, fresh>>
              /\ \/ c = NoCommand
                 \/ c.step = "up" /\ c.todo # {} /\ c.n \in 1..MaxBatch
    BY UpReadIs
<1> QED
    BY <1>1, ProceedQuiet, NoCommandIs

\* What a rollback settles when it reads.
Targets(n) == {m \in Applied : batchOf[m] >= Lowest(IF n = 0 THEN 1 ELSE n)}

LEMMA RollbackReadIs ==
    ASSUME MigrateInv, NEW o \in Operators, NEW n \in Nat, NEW c \in Command, RollbackRead(o, n, c)
    PROVE  \E d \in Command :
              /\ Proceed(o, d) /\ UNCHANGED <<batchOf, schema, before, fresh>>
              /\ \/ d = AfterRollback(c) /\ d.step \in {"idle", "reup"}
                 \/ /\ d.step = "down" /\ d.todo = Targets(n) /\ d.todo # {}
                    /\ d.exact = c.exact /\ d.left = c.left
<1> DEFINE T == Targets(n)
           d == [c EXCEPT !.step = "down", !.todo = T]
<1>1. Proceed(o, IF T # {} THEN d ELSE AfterRollback(c)) /\ UNCHANGED <<batchOf, schema, before, fresh>>
    BY DEF RollbackRead, Targets
<1>2. T \subseteq Migrations
    BY DEF Targets, Applied
<1> HIDE DEF T
<1>3. d \in Command /\ d.step = "down" /\ d.todo = T /\ d.exact = c.exact /\ d.left = c.left
    BY <1>2 DEF Command
<1> HIDE DEF d
<1>4. CASE T # {}
    BY <1>1, <1>3, <1>4 DEF T
<1>5. CASE T = {}
    BY <1>1, <1>5, AfterRollbackIs
<1> QED
    BY <1>4, <1>5

LEMMA RollbackReadKeeps ==
    ASSUME MigrateInv, NEW o \in Operators, NEW n \in Nat, NEW c \in Command, RollbackRead(o, n, c)
    PROVE  MigrateInv'
<1>1. PICK d \in Command :
              /\ Proceed(o, d) /\ UNCHANGED <<batchOf, schema, before, fresh>>
              /\ \/ d.step \in {"idle", "reup"}
                 \/ d.step = "down" /\ d.todo # {}
    BY RollbackReadIs
<1> QED
    BY <1>1, ProceedQuiet

LEMMA RestIs ==
    ASSUME NEW c \in Command, NEW m \in c.todo
    PROVE  \/ /\ Rest(c, m) = AfterRollback(c) /\ Rest(c, m) \in Command
              /\ Rest(c, m).step \in {"idle", "reup"} /\ c.todo = {m}
           \/ /\ Rest(c, m) \in Command /\ Rest(c, m).todo = c.todo \ {m} /\ Rest(c, m).todo # {}
              /\ Rest(c, m).step = c.step /\ Rest(c, m).n = c.n
              /\ Rest(c, m).exact = c.exact /\ Rest(c, m).left = c.left
<1>1. CASE c.todo # {m}
    <2> DEFINE d == [c EXCEPT !.todo = @ \ {m}]
    <2>1. Rest(c, m) = d
        BY <1>1 DEF Rest
    <2>2. d \in Command /\ d.todo = c.todo \ {m} /\ d.step = c.step /\ d.n = c.n /\ d.exact = c.exact
          /\ d.left = c.left
        BY DEF Command
    <2>3. c.todo \ {m} # {}
        BY <1>1
    <2> HIDE DEF d
    <2> QED
        BY <2>1, <2>2, <2>3
<1>2. CASE c.todo = {m}
    BY <1>2, AfterRollbackIs DEF Rest
<1> QED
    BY <1>1, <1>2

\* A migration and its row are one transaction, when it is applied ...
LEMMA UpApplyIs ==
    ASSUME MigrateInv, NEW o \in Operators, UpApply(o)
    PROVE  /\ Subject(o) \in op[o].todo /\ Subject(o) \in Migrations
           /\ Proceed(o, Rest(op[o], Subject(o)))
           /\ batchOf[Subject(o)] = 0 /\ batchOf' = [batchOf EXCEPT ![Subject(o)] = op[o].n]
           /\ op[o].n \in 1..MaxBatch
           /\ Applied' = Applied \cup {Subject(o)}
           /\ schema' = schema \cup {Subject(o)}
           /\ before' = op[o].left /\ fresh' = TRUE
<1>1. Subject(o) \in op[o].todo /\ Subject(o) \in Migrations
    BY SubjectIs DEF UpApply
<1>2. op[o].n \in 1..MaxBatch
    BY DEF UpApply, MigrateInv, CommandsInv
<1>3. batchOf' = [batchOf EXCEPT ![Subject(o)] = op[o].n]
    BY DEF UpApply
<1>4. Applied' = Applied \cup {Subject(o)}
    BY <1>1, <1>2, <1>3, MigrateAssumption DEF Applied, MigrateInv, MigrateTypeOK
<1> QED
    BY <1>1, <1>2, <1>3, <1>4 DEF UpApply

\* ... and when it is undone.
LEMMA RollbackApplyIs ==
    ASSUME MigrateInv, NEW o \in Operators, RollbackApply(o)
    PROVE  /\ Subject(o) \in op[o].todo /\ Subject(o) \in Migrations
           /\ Proceed(o, Rest(op[o], Subject(o)))
           /\ batchOf' = [batchOf EXCEPT ![Subject(o)] = 0]
           /\ Applied' = Applied \ {Subject(o)}
           /\ schema' = schema \ {Subject(o)}
           /\ before' = before /\ fresh' = FALSE
<1>1. Subject(o) \in op[o].todo /\ Subject(o) \in Migrations
    BY SubjectIs DEF RollbackApply
<1>2. batchOf' = [batchOf EXCEPT ![Subject(o)] = 0]
    BY DEF RollbackApply
<1>3. Applied' = Applied \ {Subject(o)}
    BY <1>1, <1>2 DEF Applied, MigrateInv, MigrateTypeOK
<1> QED
    BY <1>1, <1>2, <1>3 DEF RollbackApply

LEMMA MigrateStep == MigrateInv /\ [MigrateNext]_migrateVars => MigrateInv'
<1> SUFFICES ASSUME MigrateInv, [MigrateNext]_migrateVars PROVE MigrateInv'
    OBVIOUS
<1>0. \A o \in Operators : op[o] \in Command
    BY DEF MigrateInv, MigrateTypeOK
<1>1. ASSUME NEW o \in Operators, NEW code \in SUBSET Migrations, Up(o, code) PROVE MigrateInv'
    <2>1. PICK steps \in Nat : UpRead(o, code, steps)
        BY <1>1, MigrateAssumption DEF Up
    <2> QED
        BY <2>1, UpReadKeeps
<1>2. ASSUME NEW o \in Operators, NEW code \in SUBSET Migrations, Rollback(o, code) PROVE MigrateInv'
    <2>1. PICK n \in 0..MaxBatch :
             RollbackRead(o, n, [NoCommand EXCEPT !.code = code, !.exact = fresh /\ n <= 1, !.left = before])
        BY <1>2 DEF Rollback
    <2>2. (fresh /\ n <= 1) \in BOOLEAN /\ before \subseteq Migrations
        BY DEF MigrateInv, MigrateTypeOK
    <2>3. [NoCommand EXCEPT !.code = code, !.exact = fresh /\ n <= 1, !.left = before] \in Command
        BY <2>2, NoCommandIs DEF Command
    <2> QED
        BY <2>1, <2>3, RollbackReadKeeps
<1>3. ASSUME NEW o \in Operators, NEW code \in SUBSET Migrations, NEW refresh \in BOOLEAN,
             ResetBegin(o, code, refresh)
      PROVE  MigrateInv'
    <2> DEFINE c == [NoCommand EXCEPT !.step = "reset", !.code = code, !.n = HighestBatch, !.refresh = refresh]
    <2>1. Proceed(o, c) /\ UNCHANGED <<batchOf, schema, before, fresh>>
        BY <1>3 DEF ResetBegin
    <2>2. c \in Command /\ c.step = "reset"
        BY HighestIs, NoCommandIs DEF Command
    <2> HIDE DEF c
    <2> QED
        BY <2>1, <2>2, ProceedQuiet
<1>4. ASSUME NEW o \in Operators, UpApply(o) PROVE MigrateInv'
    <2>0. PICK m \in Migrations :
             /\ m \in op[o].todo /\ Proceed(o, Rest(op[o], m))
             /\ batchOf' = [batchOf EXCEPT ![m] = op[o].n] /\ op[o].n \in 1..MaxBatch
             /\ Applied' = Applied \cup {m} /\ schema' = schema \cup {m}
             /\ before' = op[o].left /\ fresh' = TRUE
        BY <1>4, UpApplyIs
    <2>1. PICK c \in Command :
             /\ c = Rest(op[o], m)
             /\ c.step \in {"idle", "reup"} \/ (c.todo # {} /\ c.n \in 1..MaxBatch)
        BY <1>0, <2>0, RestIs
    <2>2. op' \in [Operators -> Command] /\ crowded' \in BOOLEAN
          /\ op'[o] = c /\ \A p \in Operators : p # o => op'[p] = op[p]
        BY <2>0, <2>1, ProceedEffect
    <2>3. op[o].left \subseteq Migrations /\ op[o].n \in Nat /\ op[o].n <= MaxBatch
        BY <1>0, <2>0, MigrateAssumption DEF Command
    <2>4. MigrateTypeOK'
        BY <2>0, <2>2, <2>3 DEF MigrateInv, MigrateTypeOK
    <2>5. CommandsInv'
        BY <2>1, <2>2 DEF MigrateInv, CommandsInv
    <2>6. SchemaIsRecorded'
        BY <2>0 DEF MigrateInv, SchemaIsRecorded
    <2>7. BatchesInv'
        BY <2>0, <2>3 DEF MigrateInv, MigrateTypeOK, BatchesInv
    <2> QED
        BY <2>4, <2>5, <2>6, <2>7 DEF MigrateInv
<1>5. ASSUME NEW o \in Operators, RollbackApply(o) PROVE MigrateInv'
    <2>0. PICK m \in Migrations :
             /\ m \in op[o].todo /\ Proceed(o, Rest(op[o], m))
             /\ batchOf' = [batchOf EXCEPT ![m] = 0]
             /\ Applied' = Applied \ {m} /\ schema' = schema \ {m}
             /\ before' = before /\ fresh' = FALSE
        BY <1>5, RollbackApplyIs
    <2>1. PICK c \in Command :
             /\ c = Rest(op[o], m)
             /\ c.step \in {"idle", "reup"} \/ (c.todo # {} /\ c.step = op[o].step)
        BY <1>0, <2>0, RestIs
    <2>2. op' \in [Operators -> Command] /\ crowded' \in BOOLEAN
          /\ op'[o] = c /\ \A p \in Operators : p # o => op'[p] = op[p]
        BY <2>0, <2>1, ProceedEffect
    <2>3. MigrateTypeOK'
        BY <2>0, <2>2 DEF MigrateInv, MigrateTypeOK
    <2>4. CommandsInv'
        BY <1>5, <2>1, <2>2 DEF MigrateInv, CommandsInv, RollbackApply
    <2>5. SchemaIsRecorded'
        BY <2>0 DEF MigrateInv, SchemaIsRecorded
    <2>6. BatchesInv'
        BY <2>0, MigrateAssumption DEF MigrateInv, MigrateTypeOK, BatchesInv
    <2> QED
        BY <2>3, <2>4, <2>5, <2>6 DEF MigrateInv
<1>6. ASSUME NEW o \in Operators, ResetRead(o) PROVE MigrateInv'
    <2> DEFINE c == [op[o] EXCEPT !.exact = TRUE, !.left = {}]
    <2>1. c \in Command /\ op[o].n \in Nat
        BY <1>0 DEF Command
    <2> QED
        BY <1>6, <2>1, RollbackReadKeeps DEF ResetRead
<1>7. ASSUME NEW o \in Operators, RefreshUp(o) PROVE MigrateInv'
    <2>1. op[o].code \in SUBSET Migrations
        BY <1>0 DEF Command
    <2> QED
        BY <1>7, <2>1, UpReadKeeps DEF RefreshUp
<1>8. ASSUME NEW o \in Operators, Fail(o) PROVE MigrateInv'
    BY <1>8, ProceedQuiet, NoCommandIs DEF Fail
<1>9. CASE UNCHANGED migrateVars
    BY <1>9 DEF migrateVars, MigrateInv, MigrateTypeOK, SchemaIsRecorded, Applied, CommandsInv, BatchesInv
<1> QED
    BY <1>1, <1>2, <1>3, <1>4, <1>5, <1>6, <1>7, <1>8, <1>9 DEF MigrateNext

LEMMA MigrateAlways == MigrateSpec => []MigrateInv
BY MigrateInitInv, MigrateStep, PTL DEF MigrateSpec

\* A migration and its row are one transaction: whatever commands any number of
\* operators run at the same time, each from the list it read, and wherever they
\* fail, the schema has the changes of exactly the migrations on record.
THEOREM SchemaMatchesRecord == MigrateSpec => []SchemaIsRecorded
<1>1. MigrateInv => SchemaIsRecorded
    BY DEF MigrateInv
<1> QED
    BY <1>1, MigrateAlways, PTL

(* Commands that run alone.                                                *)

\* n is the batch of the last migrations that were applied.
IsTop(n) == /\ \A m \in Migrations : batchOf[m] <= n
            /\ \E m \in Migrations : batchOf[m] = n

Below(n) == {m \in Applied : batchOf[m] < n}

\* What a command that runs alone still knows when it goes on: an Up, that its batch
\* is above every other; a Reset, that nothing is above the batches it counted; an
\* exact rollback, that it takes away all but what it promised to leave.
Knows(c) ==
    /\ c.step = "up" => c.left = Below(c.n) /\ \A m \in Migrations : batchOf[m] <= c.n
    /\ c.step = "reset" => \A m \in Migrations : batchOf[m] <= c.n
    /\ c.step = "down" /\ c.exact => c.left = Applied \ c.todo

AloneInv ==
    ~crowded =>
        /\ \A o, p \in Operators : o # p => op[o] = NoCommand \/ op[p] = NoCommand
        /\ \A o \in Operators : Knows(op[o])
        /\ fresh => \E n \in Nat : n > 0 /\ IsTop(n) /\ before = Below(n)

LEMMA IdleKnows == Knows(NoCommand) /\ \A c : c.step \in {"idle", "reup"} => Knows(c)
BY NoCommandIs DEF Knows

LEMMA AloneInit == MigrateInit => AloneInv
BY IdleKnows, Zenon DEF MigrateInit, AloneInv

\* A step of o that leaves what the others know.
LEMMA AloneStep ==
    ASSUME MigrateInv, AloneInv, NEW o \in Operators, NEW c \in Command, Proceed(o, c),
           op[o] # NoCommand \/ c # NoCommand,
           ~crowded /\ ~crowded' => Knows(op[o])' /\ (fresh => \E n \in Nat : n > 0 /\ IsTop(n) /\ before = Below(n))'
    PROVE  AloneInv'
<1> SUFFICES ASSUME ~crowded' 
             PROVE  /\ \A p, q \in Operators : p # q => op'[p] = NoCommand \/ op'[q] = NoCommand
                    /\ \A p \in Operators : Knows(op[p])'
                    /\ (fresh => \E n \in Nat : n > 0 /\ IsTop(n) /\ before = Below(n))'
    BY DEF AloneInv
<1>1. ~crowded
    BY ProceedEffect
<1>2. \A p \in Operators : p # o => op'[p] = NoCommand
    BY <1>1, ProceedEffect DEF AloneInv
<1>3. \A p \in Operators : p # o => Knows(op[p])'
    BY <1>2, NoCommandIs DEF Knows
<1> QED
    BY <1>1, <1>2, <1>3

LEMMA KnowsStays ==
    ASSUME UNCHANGED batchOf
    PROVE  /\ Applied' = Applied /\ \A n : Below(n)' = Below(n) /\ (IsTop(n)' <=> IsTop(n))
           /\ HighestBatch' = HighestBatch
           /\ \A c \in Command : Knows(c)' <=> Knows(c)
BY DEF Applied, Below, IsTop, HighestBatch, Knows

\* A command reads: the database is as it was.
LEMMA AloneReads ==
    ASSUME MigrateInv, AloneInv, NEW o \in Operators, NEW c \in Command, Proceed(o, c),
           ~crowded => Knows(c), UNCHANGED <<batchOf, before, fresh>>
    PROVE  AloneInv'
<1>1. op'[o] = c
    BY ProceedEffect
<1>2. Knows(c)' <=> Knows(c)
    BY KnowsStays
<1>3. Knows(op[o])' <=> Knows(c)
    BY <1>1 DEF Knows, Below, Applied
<1>4. ~crowded => (fresh => \E n \in Nat : n > 0 /\ IsTop(n) /\ before = Below(n))'
    BY KnowsStays DEF AloneInv
<1>5. CASE op[o] # NoCommand \/ c # NoCommand
    BY <1>3, <1>4, <1>5, AloneStep
<1>6. CASE op[o] = NoCommand /\ c = NoCommand
    <2>1. op' = op /\ (~crowded' => ~crowded)
        BY <1>1, <1>6, ProceedEffect DEF MigrateInv, MigrateTypeOK
    <2>2. \A p \in Operators : Knows(op[p])' <=> Knows(op[p])
        BY <2>1 DEF Knows, Below, Applied
    <2> QED
        BY <2>1, <2>2, <1>4 DEF AloneInv
<1> QED
    BY <1>5, <1>6

LEMMA UpReadAlone ==
    ASSUME MigrateInv, AloneInv, NEW o \in Operators, NEW code \in SUBSET Migrations, NEW steps \in Nat,
           UpRead(o, code, steps)
    PROVE  AloneInv'
<1>1. PICK c \in Command :
              /\ Proceed(o, c) /\ UNCHANGED <<batchOf, schema, before, fresh>>
              /\ \/ c = NoCommand
                 \/ c.step = "up" /\ c.n = HighestBatch + 1 /\ c.left = Applied
    BY UpReadIs
<1>2. CASE c = NoCommand
    BY <1>1, <1>2, IdleKnows, AloneReads
<1>3. CASE c.step = "up" /\ c.n = HighestBatch + 1 /\ c.left = Applied
    <2>1. \A m \in Migrations : batchOf[m] <= c.n /\ batchOf[m] < c.n
        BY <1>3, HighestIs
    <2>2. Below(c.n) = Applied
        BY <2>1 DEF Below, Applied
    <2>3. Knows(c)
        BY <1>3, <2>1, <2>2 DEF Knows
    <2> QED
        BY <1>1, <2>3, AloneReads
<1> QED
    BY <1>1, <1>2, <1>3

LEMMA MaxWithOne == ASSUME NEW a \in Int PROVE Max({a, 1}) = IF a > 1 THEN a ELSE 1
<1> DEFINE b == IF a > 1 THEN a ELSE 1
<1>1. b \in {a, 1} /\ \A y \in {a, 1} : b >= y
    OBVIOUS
<1>2. \A x \in {a, 1} : (\A y \in {a, 1} : x >= y) => x = b
    OBVIOUS
<1> HIDE DEF b
<1>3. Max({a, 1}) = b
    BY <1>1, <1>2 DEF Max
<1> QED
    BY <1>3 DEF b

LEMMA TopIsHighest ==
    ASSUME MigrateInv, NEW n \in Nat, n > 0, IsTop(n) PROVE HighestBatch = n
<1>1. HighestBatch <= n
    BY HighestIs DEF IsTop
<1>2. n <= HighestBatch
    BY HighestIs DEF IsTop
<1> QED
    BY <1>1, <1>2, HighestIs

LEMMA RollbackReadAlone ==
    ASSUME MigrateInv, AloneInv, NEW o \in Operators, NEW n \in Nat, NEW c \in Command,
           RollbackRead(o, n, c),
           ~crowded /\ c.exact => c.left = Applied \ Targets(n)
    PROVE  AloneInv'
<1>1. PICK d \in Command :
              /\ Proceed(o, d) /\ UNCHANGED <<batchOf, schema, before, fresh>>
              /\ \/ d.step \in {"idle", "reup"}
                 \/ d.step = "down" /\ d.todo = Targets(n) /\ d.exact = c.exact /\ d.left = c.left
    BY RollbackReadIs
<1>2. ~crowded => Knows(d)
    BY <1>1 DEF Knows
<1> QED
    BY <1>1, <1>2, AloneReads

\* Rollback of the last batch leaves what was applied before the last Up.
LEMMA LastBatch ==
    ASSUME MigrateInv, AloneInv, ~crowded, fresh, NEW n \in {0, 1}
    PROVE  before = Applied \ Targets(n)
<1>1. PICK b \in Nat : b > 0 /\ IsTop(b) /\ before = Below(b)
    BY DEF AloneInv
<1>2. HighestBatch = b
    BY <1>1, TopIsHighest
<1>3. Lowest(1) = b
    <2>1. HighestBatch - 1 + 1 = b
        BY <1>2, HighestIs
    <2> QED
        BY <1>1, <2>1, MaxWithOne DEF Lowest
<1>4. Targets(n) = {m \in Applied : batchOf[m] >= b}
    BY <1>3 DEF Targets
<1>5. \A m \in Applied : batchOf[m] \in Nat
    BY HighestIs DEF Applied
<1> QED
    BY <1>1, <1>4, <1>5 DEF Below

\* A rollback of at least as many batches as there are leaves nothing.
LEMMA EveryBatch ==
    ASSUME MigrateInv, NEW n \in Nat, \A m \in Migrations : batchOf[m] <= n
    PROVE  Applied \ Targets(n) = {}
<1>1. CASE n = 0
    BY <1>1, HighestIs DEF Applied
<1>2. CASE n > 0
    <2>1. HighestBatch \in Nat /\ HighestBatch <= n
        BY <1>2, HighestIs
    <2>2. HighestBatch - n + 1 \in Int /\ ~(HighestBatch - n + 1 > 1)
        BY <2>1
    <2>3. Lowest(n) = 1
        BY <2>2, MaxWithOne DEF Lowest
    <2>4. \A m \in Applied : batchOf[m] >= 1
        BY HighestIs DEF Applied
    <2> QED
        BY <1>2, <2>3, <2>4 DEF Targets
<1> QED
    BY <1>1, <1>2

LEMMA AloneNext == MigrateInv /\ AloneInv /\ [MigrateNext]_migrateVars => AloneInv'
<1> SUFFICES ASSUME MigrateInv, AloneInv, [MigrateNext]_migrateVars PROVE AloneInv'
    OBVIOUS
<1>0. \A o \in Operators : op[o] \in Command
    BY DEF MigrateInv, MigrateTypeOK
<1>1. ASSUME NEW o \in Operators, NEW code \in SUBSET Migrations, Up(o, code) PROVE AloneInv'
    <2>1. PICK steps \in Nat : UpRead(o, code, steps)
        BY <1>1, MigrateAssumption DEF Up
    <2> QED
        BY <2>1, UpReadAlone
<1>2. ASSUME NEW o \in Operators, NEW code \in SUBSET Migrations, Rollback(o, code) PROVE AloneInv'
    <2>1. PICK n \in 0..MaxBatch :
             RollbackRead(o, n, [NoCommand EXCEPT !.code = code, !.exact = fresh /\ n <= 1, !.left = before])
        BY <1>2 DEF Rollback
    <2>2. (fresh /\ n <= 1) \in BOOLEAN /\ before \subseteq Migrations
        BY DEF MigrateInv, MigrateTypeOK
    <2> DEFINE c == [NoCommand EXCEPT !.code = code, !.exact = fresh /\ n <= 1, !.left = before]
    <2>3. c \in Command /\ c.left = before
        BY <2>2, NoCommandIs DEF Command
    <2>4. c.exact = (fresh /\ n <= 1)
        BY NoCommandIs DEF Command
    <2>5. c.exact => fresh /\ n <= 1
        BY <2>4, Zenon
    <2> HIDE DEF c
    <2>6. ~crowded /\ c.exact => c.left = Applied \ Targets(n)
        <3> SUFFICES ASSUME ~crowded, c.exact PROVE c.left = Applied \ Targets(n)
            OBVIOUS
        <3>1. fresh /\ n <= 1
            BY <2>5
        <3>2. n \in {0, 1}
            BY <3>1
        <3> QED
            BY <2>3, <3>1, <3>2, LastBatch
    <2>7. RollbackRead(o, n, c) /\ n \in Nat
        BY <2>1 DEF c
    <2> QED
        BY <2>3, <2>6, <2>7, RollbackReadAlone
<1>3. ASSUME NEW o \in Operators, NEW code \in SUBSET Migrations, NEW refresh \in BOOLEAN,
             ResetBegin(o, code, refresh)
      PROVE  AloneInv'
    <2> DEFINE c == [NoCommand EXCEPT !.step = "reset", !.code = code, !.n = HighestBatch, !.refresh = refresh]
    <2>1. Proceed(o, c) /\ UNCHANGED <<batchOf, schema, before, fresh>>
        BY <1>3 DEF ResetBegin
    <2>2. c \in Command /\ c.step = "reset" /\ c.n = HighestBatch
        BY HighestIs, NoCommandIs DEF Command
    <2> HIDE DEF c
    <2>3. Knows(c)
        BY <2>2, HighestIs DEF Knows
    <2> QED
        BY <2>1, <2>2, <2>3, AloneReads
<1>4. ASSUME NEW o \in Operators, UpApply(o) PROVE AloneInv'
    <2>0. PICK m \in Migrations :
             /\ m \in op[o].todo /\ Proceed(o, Rest(op[o], m))
             /\ batchOf[m] = 0 /\ batchOf' = [batchOf EXCEPT ![m] = op[o].n] /\ op[o].n \in 1..MaxBatch
             /\ Applied' = Applied \cup {m}
             /\ before' = op[o].left /\ fresh' = TRUE
        BY <1>4, UpApplyIs
    <2>1. PICK c \in Command :
             /\ c = Rest(op[o], m)
             /\ \/ c.step \in {"idle", "reup"}
                \/ c.step = op[o].step /\ c.n = op[o].n /\ c.left = op[o].left
        BY <1>0, <2>0, RestIs
    <2>2. op'[o] = c /\ op[o].step = "up" /\ op[o] # NoCommand
        BY <1>4, <2>0, <2>1, ProceedEffect, NoCommandIs DEF UpApply
    <2>3. PICK n \in 1..MaxBatch : n = op[o].n
        BY <2>0
    <2>4. ASSUME ~crowded
          PROVE  (\A k \in Migrations : batchOf[k] <= n)' /\ Below(n)' = op[o].left /\ IsTop(n)'
        <3>1. op[o].left = Below(n) /\ \A k \in Migrations : batchOf[k] <= n
            BY <2>2, <2>3, <2>4 DEF AloneInv, Knows
        <3>2. batchOf'[m] = n /\ \A k \in Migrations : k # m => batchOf'[k] = batchOf[k]
            BY <2>0, <2>3 DEF MigrateInv, MigrateTypeOK
        <3>3. \A k \in Migrations : batchOf'[k] <= n
            BY <3>1, <3>2, MigrateAssumption
        <3>4. m \notin Applied /\ Applied \subseteq Migrations
            BY <2>0 DEF Applied
        <3>5. Below(n)' = Below(n)
            BY <2>0, <3>2, <3>4, MigrateAssumption DEF Below
        <3> QED
            BY <3>1, <3>2, <3>3, <3>5 DEF IsTop
    <2>5. ASSUME ~crowded PROVE Knows(op[o])'
        BY <2>1, <2>2, <2>3, <2>4, <2>5 DEF Knows
    <2>6. ASSUME ~crowded PROVE (\E b \in Nat : b > 0 /\ IsTop(b) /\ before = Below(b))'
        <3>1. n \in Nat /\ n > 0
            BY MigrateAssumption
        <3> QED
            BY <2>0, <2>4, <2>6, <3>1
    <2> QED
        BY <2>0, <2>1, <2>2, <2>5, <2>6, AloneStep
<1>5. ASSUME NEW o \in Operators, RollbackApply(o) PROVE AloneInv'
    <2>0. PICK m \in Migrations :
             /\ m \in op[o].todo /\ Proceed(o, Rest(op[o], m))
             /\ Applied' = Applied \ {m} /\ fresh' = FALSE
        BY <1>5, RollbackApplyIs
    <2>1. PICK c \in Command :
             /\ c = Rest(op[o], m)
             /\ \/ c.step \in {"idle", "reup"}
                \/ c.step = op[o].step /\ c.exact = op[o].exact /\ c.left = op[o].left /\ c.todo = op[o].todo \ {m}
        BY <1>0, <2>0, RestIs
    <2>2. op'[o] = c /\ op[o].step = "down" /\ op[o] # NoCommand
        BY <1>5, <2>0, <2>1, ProceedEffect, NoCommandIs DEF RollbackApply
    <2>3. ASSUME ~crowded PROVE Knows(op[o])'
        <3>1. op[o].exact => op[o].left = Applied \ op[o].todo
            BY <2>2, <2>3 DEF AloneInv, Knows
        <3> QED
            BY <2>0, <2>1, <2>2, <3>1 DEF Knows
    <2> QED
        BY <2>0, <2>1, <2>2, <2>3, AloneStep
<1>6. ASSUME NEW o \in Operators, ResetRead(o) PROVE AloneInv'
    <2> DEFINE c == [op[o] EXCEPT !.exact = TRUE, !.left = {}]
    <2>1. c \in Command /\ op[o].n \in Nat /\ c.left = {}
        BY <1>0 DEF Command
    <2>2. RollbackRead(o, op[o].n, c) /\ op[o].step = "reset"
        BY <1>6 DEF ResetRead
    <2> HIDE DEF c
    <2>3. ~crowded => Applied \ Targets(op[o].n) = {}
        BY <2>1, <2>2, EveryBatch DEF AloneInv, Knows
    <2> QED
        BY <2>1, <2>2, <2>3, RollbackReadAlone
<1>7. ASSUME NEW o \in Operators, RefreshUp(o) PROVE AloneInv'
    <2>1. op[o].code \in SUBSET Migrations
        BY <1>0 DEF Command
    <2> QED
        BY <1>7, <2>1, UpReadAlone DEF RefreshUp
<1>8. ASSUME NEW o \in Operators, Fail(o) PROVE AloneInv'
    BY <1>8, AloneReads, NoCommandIs, IdleKnows DEF Fail
<1>9. CASE UNCHANGED migrateVars
    <2>1. \A o \in Operators : Knows(op[o])' <=> Knows(op[o])
        BY <1>9 DEF migrateVars, Knows, Below, Applied
    <2> QED
        BY <1>9, <2>1, KnowsStays DEF migrateVars, AloneInv
<1> QED
    BY <1>1, <1>2, <1>3, <1>4, <1>5, <1>6, <1>7, <1>8, <1>9 DEF MigrateNext

\* Rollback undoes an Up as a unit and Reset undoes everything: run alone, the last
\* step of an exact rollback leaves what was applied before the last Up, and a
\* Reset nothing, after any history of commands, also failed and partial ones.
THEOREM RollsBackExactly == MigrateSpec => RollbackIsExact
<1>1. ASSUME MigrateInv, AloneInv, [MigrateNext]_migrateVars, NEW o \in Operators,
             ~crowded, op[o].exact, RollbackApply(o), op[o].todo = {Subject(o)}
      PROVE  Applied' = op[o].left
    <2>1. Applied' = Applied \ {Subject(o)} /\ op[o].step = "down"
        BY <1>1, RollbackApplyIs DEF RollbackApply
    <2>2. op[o].left = Applied \ op[o].todo
        BY <1>1, <2>1 DEF AloneInv, Knows
    <2> QED
        BY <1>1, <2>1, <2>2
<1>2. MigrateInv /\ AloneInv /\ [MigrateNext]_migrateVars =>
        [\A o \in Operators :
            ~crowded /\ op[o].exact /\ RollbackApply(o) /\ op[o].todo = {Subject(o)} =>
                Applied' = op[o].left]_migrateVars
    BY <1>1
<1> QED
    BY <1>2, MigrateAlways, AloneInit, AloneNext, PTL DEF MigrateSpec, RollbackIsExact
-----------------------------------------------------------------------------
(* The rate limiter: what it lets through, and what its sweep leaves.      *)

USE RateLimitAssumption, NoBucketAssumption

(* The products the refill is made of.                                     *)

LEMMA Products ==
    ASSUME NEW a \in Nat, NEW b \in Nat
    PROVE  /\ a * b \in Nat
           /\ \A c \in Nat : (a + c) * b = a * b + c * b
           /\ \A c \in Nat : a <= c => a * b <= c * b
<1>1. a * b \in Nat
    OBVIOUS
<1>2. \A c \in Nat : (a + c) * b = a * b + c * b
    OBVIOUS
<1>3. ASSUME NEW c \in Nat, a <= c PROVE a * b <= c * b
    <2>1. c - a \in Nat
        BY <1>3
    <2>2. (c - a) * b \in Nat
        BY <2>1
    <2>3. c * b = a * b + (c - a) * b
        OBVIOUS
    <2> QED
        BY <2>2, <2>3, <1>1
<1> QED
    BY <1>1, <1>2, <1>3

\* A refill from r to t and one from s to r are a refill from s to t.
LEMMA RefillAdds ==
    ASSUME NEW s \in Nat, NEW r \in Nat, NEW t \in Nat, s <= r, r <= t
    PROVE  /\ (t - s) * Limit = (t - r) * Limit + (r - s) * Limit
           /\ (t - s) * Limit \in Nat /\ (t - r) * Limit \in Nat /\ (r - s) * Limit \in Nat
<1>1. t - s \in Nat /\ t - r \in Nat /\ r - s \in Nat /\ t - s = (t - r) + (r - s)
    OBVIOUS
<1>2. ((t - r) + (r - s)) * Limit = (t - r) * Limit + (r - s) * Limit
    BY <1>1, Products
<1> QED
    BY <1>1, <1>2, Products

LEMMA Capacity == Burst * Window \in Nat
BY Products

\* Two windows refill the burst.
LEMMA TwoWindows ==
    ASSUME Burst <= 2 * Limit, NEW d \in Nat, d > 2 * Window
    PROVE  d * Limit >= Burst * Window
<1>1. (2 * Window) * Limit <= d * Limit
    BY Products
<1>2. Burst * Window <= (2 * Limit) * Window
    BY Products
<1>3. (2 * Limit) * Window = (2 * Window) * Limit
    OBVIOUS
<1>4. d * Limit \in Nat /\ Burst * Window \in Nat /\ (2 * Limit) * Window \in Nat
    BY Products
<1> QED
    BY <1>1, <1>2, <1>3, <1>4
-----------------------------------------------------------------------------
(* Types, and that nothing lies in the future.                             *)

LimiterInv == LimiterTypeOK /\ InThePast

LEMMA LimiterInvInit == now = 0 /\ LimiterInit => LimiterInv
<1>1. -Window \in Int /\ -Window <= 0
    OBVIOUS
<1> QED
    BY <1>1 DEF LimiterInit, LimiterInv, LimiterTypeOK, InThePast

\* The sweep keeps a bucket as it is or removes it.
LEMMA SweptOr ==
    ASSUME LimiterInv, NEW k \in Keys
    PROVE  Swept[k] = buckets[k] \/ Swept[k] = NoBucket
BY DEF Swept

LEMMA CurrentType ==
    ASSUME LimiterInv, NEW k \in Keys
    PROVE  /\ Current(k) \in Bucket /\ Current(k).seen = now
           /\ Current(k).tokens <= Burst * Window
<1>1. CASE Swept[k] = NoBucket
    BY <1>1, Capacity DEF Current, LimiterInv, InThePast, Bucket
<1>2. CASE Swept[k] # NoBucket
    <2>1. Swept[k] = buckets[k] /\ buckets[k] \in Bucket /\ buckets[k].seen <= now
        BY <1>2, SweptOr DEF LimiterInv, LimiterTypeOK, InThePast
    <2>2. now - buckets[k].seen \in Nat /\ now \in Nat /\ buckets[k].tokens \in Nat
        BY <2>1 DEF LimiterInv, InThePast, Bucket
    <2>3. (now - buckets[k].seen) * Limit \in Nat
        BY <2>2, Products
    <2> DEFINE full == buckets[k].tokens + (now - buckets[k].seen) * Limit
    <2>4. full \in Nat
        BY <2>2, <2>3
    <2>5. Current(k) = [tokens |-> IF full > Burst * Window THEN Burst * Window ELSE full,
                        seen |-> now]
        BY <1>2, <2>1 DEF Current, Refill
    <2> HIDE DEF full
    <2> QED
        BY <2>4, <2>5, <2>2, Capacity DEF Bucket
<1> QED
    BY <1>1, <1>2

LEMMA DrawType ==
    ASSUME LimiterInv, NEW k \in Keys
    PROVE  Draw(drawn[k]) \in [most: Nat, at: Nat] /\ Draw(drawn[k]).at = now
<1>1. drawn[k] \in [most: Nat, at: Nat] /\ now \in Nat /\ now - drawn[k].at \in Nat
    BY DEF LimiterInv, LimiterTypeOK, InThePast
<1>2. (now - drawn[k].at) * Limit \in Nat
    BY <1>1, Products
<1> DEFINE left == drawn[k].most - (now - drawn[k].at) * Limit
<1>3. left \in Int
    BY <1>1, <1>2
<1>4. Draw(drawn[k]) = [most |-> (IF left > 0 THEN left ELSE 0) + Window, at |-> now]
    BY DEF Draw
<1> HIDE DEF left
<1> QED
    BY <1>1, <1>3, <1>4

\* What Allow(k) does to the buckets, whether or not it lets k through.
LEMMA Looked ==
    ASSUME LimiterInv, NEW k \in Keys, NEW b \in Bucket, b.seen = now,
           buckets' = [Swept EXCEPT ![k] = b],
           lastSweep' = IF SweepDue THEN now ELSE lastSweep,
           now' = now,
           drawn' = drawn \/ drawn' = [drawn EXCEPT ![k] = Draw(drawn[k])]
    PROVE  LimiterInv'
<1>1. Swept \in [Keys -> Bucket \cup {NoBucket}]
    BY DEF Swept, LimiterInv, LimiterTypeOK
<1>2. buckets' \in [Keys -> Bucket \cup {NoBucket}]
    BY <1>1
<1>3. drawn' \in [Keys -> [most: Nat, at: Nat]]
    BY DrawType DEF LimiterInv, LimiterTypeOK
<1>4. lastSweep' \in Int /\ lastSweep' <= now' /\ now' \in Nat
    BY DEF LimiterInv, LimiterTypeOK, InThePast
<1>5. ASSUME NEW j \in Keys PROVE drawn'[j].at <= now' /\ (j # k => drawn'[j] = drawn[j])
    BY DrawType DEF LimiterInv, LimiterTypeOK, InThePast
<1>6. ASSUME NEW j \in Keys, buckets'[j] # NoBucket
      PROVE  drawn'[j].at <= buckets'[j].seen /\ buckets'[j].seen <= now'
    <2>1. CASE j = k
        BY <2>1, <1>1, <1>5, <1>4
    <2>2. CASE j # k
        BY <2>2, <1>1, <1>5, <1>6, SweptOr DEF LimiterInv, InThePast
    <2> QED
        BY <2>1, <2>2
<1> QED
    BY <1>2, <1>3, <1>4, <1>5, <1>6 DEF LimiterInv, LimiterTypeOK, InThePast

LEMMA AllowLooks ==
    ASSUME LimiterInv, NEW k \in Keys, Allow(k)
    PROVE  /\ [Current(k) EXCEPT !.tokens = @ - Window] \in Bucket
           /\ [Current(k) EXCEPT !.tokens = @ - Window].seen = now
           /\ [Current(k) EXCEPT !.tokens = @ - Window].tokens = Current(k).tokens - Window
BY CurrentType DEF Allow, Bucket

LEMMA LimiterInvStep == LimiterInv /\ [LimiterNext]_limiterVars => LimiterInv'
<1> SUFFICES ASSUME LimiterInv, [LimiterNext]_limiterVars PROVE LimiterInv'
    OBVIOUS
<1>1. ASSUME NEW k \in Keys, Allow(k) PROVE LimiterInv'
    <2>1. drawn' = [drawn EXCEPT ![k] = Draw(drawn[k])]
        BY <1>1 DEF Allow, LimiterInv, LimiterTypeOK
    <2> QED
        BY <1>1, <2>1, AllowLooks, Looked DEF Allow
<1>2. ASSUME NEW k \in Keys, Refuse(k) PROVE LimiterInv'
    BY <1>2, CurrentType, Looked DEF Refuse
<1>3. ASSUME NEW k \in Keys, Reset(k) PROVE LimiterInv'
    BY <1>3 DEF Reset, LimiterInv, LimiterTypeOK, InThePast
<1>4. CASE LimiterTick
    BY <1>4 DEF LimiterTick, Advance, LimiterInv, LimiterTypeOK, InThePast, Bucket
<1>5. CASE UNCHANGED limiterVars
    BY <1>5 DEF limiterVars, LimiterInv, LimiterTypeOK, InThePast
<1> QED
    BY <1>1, <1>2, <1>3, <1>4, <1>5 DEF LimiterNext

\* Buckets and history are well typed, for every limit, window and burst: in
\* particular no bucket is ever overdrawn, as Allow checks for a whole token.
THEOREM LimiterTyped == LimiterSpec => []LimiterTypeOK
<1>1. LimiterInv => LimiterTypeOK
    BY DEF LimiterInv
<1> QED
    BY <1>1, LimiterInvInit, LimiterInvStep, PTL DEF LimiterSpec
-----------------------------------------------------------------------------
(* The sweep.                                                              *)

LEMMA SweepLeaves ==
    ASSUME LimiterInv, NothingIdleKept, NEW k \in Keys, NEW b \in Bucket, b.seen = now,
           buckets' = [Swept EXCEPT ![k] = b],
           lastSweep' = IF SweepDue THEN now ELSE lastSweep
    PROVE  NothingIdleKept'
<1> SUFFICES ASSUME NEW j \in Keys, buckets'[j] # NoBucket
             PROVE  lastSweep' - buckets'[j].seen <= 2 * Window
    BY DEF NothingIdleKept
<1>1. Swept \in [Keys -> Bucket \cup {NoBucket}] /\ now \in Nat /\ lastSweep \in Int /\ lastSweep <= now
    BY DEF Swept, LimiterInv, LimiterTypeOK, InThePast
<1>2. CASE j = k
    BY <1>1, <1>2
<1>3. CASE j # k
    <2>1. buckets'[j] = Swept[j] /\ Swept[j] = buckets[j] /\ buckets[j] \in Bucket
        BY <1>1, <1>3, SweptOr
    <2>2. CASE SweepDue
        BY <2>1, <2>2, <1>1 DEF Swept, Idle, Bucket
    <2>3. CASE ~SweepDue
        BY <2>1, <2>3 DEF NothingIdleKept
    <2> QED
        BY <2>2, <2>3
<1> QED
    BY <1>2, <1>3

LEMMA SweepStep == LimiterInv /\ NothingIdleKept /\ [LimiterNext]_limiterVars => NothingIdleKept'
<1> SUFFICES ASSUME LimiterInv, NothingIdleKept, [LimiterNext]_limiterVars PROVE NothingIdleKept'
    OBVIOUS
<1>1. ASSUME NEW k \in Keys, Allow(k) PROVE NothingIdleKept'
    BY <1>1, AllowLooks, SweepLeaves DEF Allow
<1>2. ASSUME NEW k \in Keys, Refuse(k) PROVE NothingIdleKept'
    BY <1>2, CurrentType, SweepLeaves DEF Refuse
<1>3. ASSUME NEW k \in Keys, Reset(k) PROVE NothingIdleKept'
    BY <1>3 DEF Reset, NothingIdleKept, LimiterInv, LimiterTypeOK
<1>4. CASE LimiterTick \/ UNCHANGED limiterVars
    BY <1>4 DEF LimiterTick, limiterVars, NothingIdleKept
<1> QED
    BY <1>1, <1>2, <1>3, <1>4 DEF LimiterNext

\* sweep keeps the map of buckets from growing for ever: no bucket outlives a
\* sweep that found it idle for two windows.
THEOREM IdleGone == LimiterSpec => []NothingIdleKept
<1>1. now = 0 /\ LimiterInit => LimiterInv /\ NothingIdleKept
    BY LimiterInvInit DEF LimiterInit, NothingIdleKept
<1>2. LimiterInv /\ NothingIdleKept /\ [LimiterNext]_limiterVars => (LimiterInv /\ NothingIdleKept)'
    BY LimiterInvStep, SweepStep
<1> QED
    BY <1>1, <1>2, PTL DEF LimiterSpec
-----------------------------------------------------------------------------
(* What a key gets.                                                        *)

\* The sweep keeps the balance: what it discards had time to refill.
LEMMA SweptBalanced ==
    ASSUME Burst <= 2 * Limit, LimiterInv, Balanced, NEW k \in Keys
    PROVE  Potential(k, Swept[k])
<1>1. CASE Swept[k] = buckets[k]
    BY <1>1 DEF Balanced
<1>2. CASE Swept[k] # buckets[k]
    <2> DEFINE b == buckets[k]
    <2>1. Swept[k] = NoBucket /\ b # NoBucket /\ Idle(b)
        BY <1>2 DEF Swept
    <2>2. b \in Bucket /\ drawn[k] \in [most: Nat, at: Nat] /\ now \in Nat
        BY <2>1 DEF LimiterInv, LimiterTypeOK, InThePast
    <2>3. drawn[k].at <= b.seen /\ b.seen <= now
        BY <2>1 DEF LimiterInv, InThePast
    <2>4. /\ (now - drawn[k].at) * Limit = (now - b.seen) * Limit + (b.seen - drawn[k].at) * Limit
          /\ (now - drawn[k].at) * Limit \in Nat /\ (now - b.seen) * Limit \in Nat
          /\ (b.seen - drawn[k].at) * Limit \in Nat
        BY <2>2, <2>3, RefillAdds DEF Bucket
    <2>5. (now - b.seen) * Limit >= Burst * Window
        <3>1. now - b.seen \in Nat /\ now - b.seen > 2 * Window
            BY <2>1, <2>2, <2>3 DEF Idle, Bucket
        <3> QED
            BY <3>1, TwoWindows
    <2>6. b.tokens + drawn[k].most <= Burst * Window + (b.seen - drawn[k].at) * Limit
        BY <2>1 DEF Balanced, Potential
    <2>7. b.tokens \in Nat /\ drawn[k].most \in Nat
        BY <2>2 DEF Bucket
    <2> QED
        BY <2>1, <2>4, <2>5, <2>6, <2>7, Capacity DEF Potential
<1> QED
    BY <1>1, <1>2

\* What k may take now and what it took in excess fit into the capacity.
LEMMA CurrentBalanced ==
    ASSUME Burst <= 2 * Limit, LimiterInv, Balanced, NEW k \in Keys
    PROVE  Current(k).tokens + drawn[k].most <= Burst * Window + (now - drawn[k].at) * Limit
<1>0. /\ drawn[k] \in [most: Nat, at: Nat] /\ now \in Nat /\ drawn[k].at <= now
      /\ Potential(k, Swept[k])
    BY SweptBalanced DEF LimiterInv, LimiterTypeOK, InThePast
<1>1. CASE Swept[k] = NoBucket
    <2>1. Current(k).tokens = Burst * Window
        BY <1>1 DEF Current
    <2>2. (now - drawn[k].at) * Limit \in Nat
        BY <1>0, Products
    <2> QED
        BY <1>0, <1>1, <2>1, <2>2, Capacity DEF Potential
<1>2. CASE Swept[k] # NoBucket
    <2> DEFINE b == buckets[k]
    <2>1. Swept[k] = b /\ b \in Bucket /\ drawn[k].at <= b.seen /\ b.seen <= now
        BY <1>2, SweptOr DEF LimiterInv, LimiterTypeOK, InThePast
    <2>2. /\ (now - drawn[k].at) * Limit = (now - b.seen) * Limit + (b.seen - drawn[k].at) * Limit
          /\ (now - drawn[k].at) * Limit \in Nat /\ (now - b.seen) * Limit \in Nat
          /\ (b.seen - drawn[k].at) * Limit \in Nat
        BY <1>0, <2>1, RefillAdds DEF Bucket
    <2>3. b.tokens \in Nat /\ drawn[k].most \in Nat
        BY <1>0, <2>1 DEF Bucket
    <2>4. b.tokens + drawn[k].most <= Burst * Window + (b.seen - drawn[k].at) * Limit
        BY <1>0, <1>2, <2>1 DEF Potential
    <2>5. /\ Current(k).tokens <= b.tokens + (now - b.seen) * Limit
          /\ Current(k).tokens \in Nat
        <3>1. Current(k) = Refill(b)
            BY <1>2, <2>1 DEF Current
        <3> QED
            BY <3>1, <2>2, <2>3, Capacity, CurrentType DEF Refill, Bucket
    <2> QED
        BY <2>2, <2>3, <2>4, <2>5, Capacity
<1> QED
    BY <1>1, <1>2

LEMMA BalancedStep ==
    ASSUME Burst <= 2 * Limit, LimiterInv, Balanced, [LimiterNext]_limiterVars
    PROVE  Balanced'
<1>t. /\ drawn \in [Keys -> [most: Nat, at: Nat]] /\ now \in Nat
      /\ Swept \in [Keys -> Bucket \cup {NoBucket}]
    BY DEF Swept, LimiterInv, LimiterTypeOK, InThePast
<1>1. ASSUME NEW k \in Keys, Allow(k) PROVE Balanced'
    <2> DEFINE c == Current(k)
               left == drawn[k].most - (now - drawn[k].at) * Limit
    <2>1. /\ c \in Bucket /\ c.tokens \in Nat /\ c.tokens <= Burst * Window /\ c.tokens >= Window
        BY <1>1, CurrentType DEF Allow, Bucket
    <2>2. c.tokens + left <= Burst * Window /\ left \in Int
        <3>1. now - drawn[k].at \in Nat /\ drawn[k].most \in Nat
            BY <1>t DEF LimiterInv, InThePast
        <3>2. (now - drawn[k].at) * Limit \in Nat
            BY <3>1, Products
        <3> QED
            BY <3>1, <3>2, <2>1, CurrentBalanced, Capacity
    <2>3. /\ buckets'[k] = [c EXCEPT !.tokens = @ - Window] /\ buckets'[k] \in Bucket
          /\ buckets'[k].tokens = c.tokens - Window /\ buckets'[k].seen = now
        BY <1>1, <1>t, AllowLooks DEF Allow
    <2>4. drawn'[k].most = (IF left > 0 THEN left ELSE 0) + Window /\ drawn'[k].at = now
        BY <1>1, <1>t DEF Allow, Draw
    <2>5. buckets'[k] # NoBucket /\ now' = now
        BY <1>1, <2>3 DEF Allow
    <2> HIDE DEF left, c
    <2>6. (buckets'[k].seen - drawn'[k].at) * Limit = 0
        BY <2>3, <2>4, <1>t
    <2>7. Potential(k, buckets[k])' /\ drawn'[k].most <= Burst * Window
        BY <2>1, <2>2, <2>3, <2>4, <2>5, <2>6, Capacity DEF Potential
    <2>8. ASSUME NEW j \in Keys, j # k
          PROVE  Potential(j, buckets[j])' /\ drawn'[j].most <= Burst * Window
        <3>1. buckets'[j] = Swept[j] /\ drawn'[j] = drawn[j] /\ now' = now
            BY <1>1, <1>t, <2>8 DEF Allow
        <3> QED
            BY <3>1, SweptBalanced DEF Potential, Balanced
    <2> QED
        BY <2>7, <2>8 DEF Balanced
<1>2. ASSUME NEW k \in Keys, Refuse(k) PROVE Balanced'
    <2>1. /\ buckets'[k] = Current(k) /\ drawn' = drawn /\ now' = now
          /\ \A j \in Keys : j # k => buckets'[j] = Swept[j]
        BY <1>2, <1>t DEF Refuse
    <2>2. buckets'[k] # NoBucket /\ Potential(k, buckets[k])'
        BY <2>1, CurrentType, CurrentBalanced DEF Potential
    <2>3. ASSUME NEW j \in Keys, j # k PROVE Potential(j, buckets[j])'
        BY <2>1, <2>3, SweptBalanced DEF Potential
    <2> QED
        BY <2>1, <2>2, <2>3 DEF Balanced
<1>3. ASSUME NEW k \in Keys, Reset(k) PROVE Balanced'
    <2>1. /\ buckets'[k] = NoBucket /\ drawn'[k].most = 0 /\ drawn'[k].at = now /\ now' = now
          /\ \A j \in Keys : j # k => buckets'[j] = buckets[j] /\ drawn'[j] = drawn[j]
        BY <1>3, <1>t DEF Reset, LimiterInv, LimiterTypeOK
    <2>2. (now' - drawn'[k].at) * Limit = 0
        BY <2>1, <1>t
    <2>3. Potential(k, buckets[k])' /\ drawn'[k].most <= Burst * Window
        BY <2>1, <2>2, Capacity DEF Potential
    <2>4. ASSUME NEW j \in Keys, j # k
          PROVE  Potential(j, buckets[j])' /\ drawn'[j].most <= Burst * Window
        BY <2>1, <2>4 DEF Potential, Balanced
    <2> QED
        BY <2>3, <2>4 DEF Balanced
<1>4. CASE LimiterTick
    <2>1. now' = now + 1 /\ buckets' = buckets /\ drawn' = drawn
        BY <1>4 DEF LimiterTick, Advance
    <2>2. ASSUME NEW k \in Keys PROVE Potential(k, buckets[k])'
        <3>1. CASE buckets[k] # NoBucket
            BY <2>1, <3>1 DEF Potential, Balanced
        <3>2. CASE buckets[k] = NoBucket
            <4>1. drawn[k].at \in Nat /\ drawn[k].at <= now /\ drawn[k].most \in Nat
                BY <1>t DEF LimiterInv, InThePast
            <4>2. /\ (now - drawn[k].at) * Limit <= (now + 1 - drawn[k].at) * Limit
                  /\ (now - drawn[k].at) * Limit \in Nat /\ (now + 1 - drawn[k].at) * Limit \in Nat
                <5>1. /\ now - drawn[k].at \in Nat /\ now + 1 - drawn[k].at \in Nat
                      /\ now - drawn[k].at <= now + 1 - drawn[k].at
                    BY <4>1, <1>t
                <5> QED
                    BY <5>1, Products
            <4>3. drawn[k].most <= (now - drawn[k].at) * Limit
                BY <3>2 DEF Balanced, Potential
            <4>4. drawn[k].most <= (now + 1 - drawn[k].at) * Limit
                BY <4>1, <4>2, <4>3
            <4>5. now' - drawn'[k].at = now + 1 - drawn[k].at /\ drawn'[k].most = drawn[k].most
                BY <2>1, <1>t, <4>1
            <4>6. drawn'[k].most <= (now' - drawn'[k].at) * Limit
                BY <4>4, <4>5, Zenon
            <4> QED
                BY <2>1, <3>2, <4>6, Zenon DEF Potential
        <3> QED
            BY <3>1, <3>2
    <2> QED
        BY <2>1, <2>2 DEF Balanced
<1>5. CASE UNCHANGED limiterVars
    BY <1>5 DEF limiterVars, Balanced, Potential
<1> QED
    BY <1>1, <1>2, <1>3, <1>4, <1>5 DEF LimiterNext

\* A limiter whose burst is refilled by two windows, as New's is, never lets
\* more than the burst and the refill through, in any stretch of time.
THEOREM BurstAndRefill == LimiterSpec => []NeverMoreThanRefilled
<1> DEFINE Fits == Burst <= 2 * Limit => Balanced
<1>1. now = 0 /\ LimiterInit => LimiterInv /\ Fits
    <2> SUFFICES ASSUME now = 0, LimiterInit PROVE LimiterInv /\ Balanced
        OBVIOUS
    <2>1. 0 * Limit = 0 /\ 0 - 0 = 0
        OBVIOUS
    <2> QED
        BY <2>1, LimiterInvInit, Capacity DEF LimiterInit, Balanced, Potential
<1>2. LimiterInv /\ Fits /\ [LimiterNext]_limiterVars => (LimiterInv /\ Fits)'
    <2> SUFFICES ASSUME LimiterInv, Fits, [LimiterNext]_limiterVars PROVE LimiterInv' /\ Fits'
        OBVIOUS
    <2>1. Burst <= 2 * Limit => Balanced'
        BY BalancedStep
    <2> QED
        BY <2>1, LimiterInvStep
<1>3. LimiterInv /\ Fits => NeverMoreThanRefilled
    BY DEF NeverMoreThanRefilled, Balanced
<1> QED
    BY <1>1, <1>2, <1>3, PTL DEF LimiterSpec
=============================================================================
