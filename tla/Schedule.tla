------------------------------ MODULE Schedule ------------------------------
(***************************************************************************)
(* Package schedule: a Scheduler whose loop checks its tasks at every tick *)
(* and starts a goroutine for each that is due.                            *)
(*                                                                         *)
(* A goroutine that was started and the one that has entered Task.Run are  *)
(* two different states: due reads running and last, which only run, later *)
(* and elsewhere, writes.  Tasks are checked one by one, in order, each    *)
(* under its own lock.                                                     *)
(***************************************************************************)
EXTENDS Clock

CONSTANTS
    NTasks,         \* the tasks are 1..NTasks, in the order of their names
    Every,          \* Every[t]: the interval
    At,             \* At[t]: the time of day, NotPinned or Unreadable
    AllowOverlap,   \* the tasks whose runs may overlap
    DayLength,      \* 24 hours
    ScheduleEnd,    \* bound: the clock
    MaxSpawned      \* bound: goroutines of a task that have not entered run

Tasks == 1..NTasks

NotPinned == -1     \* At is ""
Unreadable == -2    \* parseAt fails
Zero == -1          \* the zero time.Time, before every other

ASSUME ScheduleAssumption ==
    /\ NTasks \in Nat
    /\ Every \in [Tasks -> Nat \ {0}]
    /\ DayLength \in Nat \ {0}
    /\ At \in [Tasks -> {NotPinned, Unreadable} \cup 0..DayLength - 1]
    /\ AllowOverlap \subseteq Tasks
    /\ ScheduleEnd \in Nat /\ MaxSpawned \in Nat

VARIABLES
    phase,      \* where the call of Run or RunOnce is; "off": there is none
    cancelled,  \* is Run's context done?
    slot,       \* the tick waiting in the ticker's channel, or Zero
    tick,       \* the time of the tick being handled
    todo,       \* tasks of that tick still to be checked
    running,    \* Task.running
    last,       \* Task.last
    spawned,    \* spawned[t]: goroutines that have not entered run
    inRun,      \* inRun[t]: goroutines inside Task.Run
    since,      \* history: when Run started, Zero in RunOnce
    lagged      \* history: was a task checked while its goroutine had not begun?

taskVars == <<running, last, spawned, inRun>>
loopVars == <<phase, cancelled, slot, tick, todo, since, lagged>>
scheduleVars == <<now, taskVars, loopVars>>

ScheduleTypeOK ==
    /\ phase \in {"off", "loop", "scan", "once", "waiting"}
    /\ cancelled \in BOOLEAN /\ lagged \in BOOLEAN
    /\ slot \in Nat \cup {Zero} /\ tick \in Nat /\ since \in Nat \cup {Zero}
    /\ todo \subseteq Tasks
    /\ running \in [Tasks -> BOOLEAN]
    /\ last \in [Tasks -> Nat \cup {Zero}]
    /\ spawned \in [Tasks -> Nat] /\ inRun \in [Tasks -> Nat]

ScheduleInit ==
    /\ phase = "off" /\ cancelled = FALSE /\ slot = Zero /\ tick = 0 /\ todo = {}
    /\ running = [t \in Tasks |-> FALSE]
    /\ last = [t \in Tasks |-> Zero]
    /\ spawned = [t \in Tasks |-> 0]
    /\ inRun = [t \in Tasks |-> 0]
    /\ since = Zero /\ lagged = FALSE
-----------------------------------------------------------------------------
(* When a task is due.                                                     *)

\* The pinned time on the day of t0.
Target(t, t0) == (t0 \div DayLength) * DayLength + At[t]

DueAtTimeOfDay(t, at, lst) ==
    At[t] # Unreadable /\ at >= Target(t, at) /\ lst < Target(t, at)

Pinned(t) == At[t] # NotPinned /\ Every[t] >= DayLength

Due(t, at, lst) ==
    /\ ~(running[t] /\ t \notin AllowOverlap)
    /\ IF Pinned(t) THEN DueAtTimeOfDay(t, at, lst)
       ELSE lst = Zero \/ at - lst >= Every[t]
-----------------------------------------------------------------------------
(* Run and RunOnce.                                                        *)

\* Faulty variant: the last-run times are not seeded.
Start_m1 ==
    /\ phase = "off"
    /\ phase' = "loop" /\ cancelled' = FALSE /\ slot' = Zero /\ since' = now
    /\ UNCHANGED <<now, tick, todo, running, last, spawned, inRun, lagged>>

\* Run begins: the last-run times are seeded, the ticker starts.
Start ==
    /\ phase = "off"
    /\ last' = [t \in Tasks |-> now]
    /\ phase' = "loop" /\ cancelled' = FALSE /\ slot' = Zero /\ since' = now
    /\ UNCHANGED <<now, tick, todo, running, spawned, inRun, lagged>>

\* RunOnce begins.
StartOnce ==
    /\ phase = "off"
    /\ phase' = "once" /\ tick' = now /\ todo' = Tasks /\ since' = Zero
    /\ UNCHANGED <<now, cancelled, slot, lagged, taskVars>>

\* The loop takes the waiting tick.
TakeTick ==
    /\ phase = "loop" /\ slot # Zero
    /\ phase' = "scan" /\ tick' = slot /\ slot' = Zero /\ todo' = Tasks
    /\ UNCHANGED <<now, cancelled, since, lagged, taskVars>>

\* The next task is checked and, when due, gets a goroutine.  RunOnce forgets
\* when it ran.
Check(t) ==
    LET lst == IF phase = "once" THEN Zero ELSE last[t]
    IN  /\ phase \in {"scan", "once"} /\ t \in todo /\ \A u \in todo : t <= u
        /\ last' = [last EXCEPT ![t] = lst]
        /\ todo' = todo \ {t}
        /\ Due(t, tick, lst) => spawned[t] < MaxSpawned
        /\ spawned' = [spawned EXCEPT ![t] = IF Due(t, tick, lst) THEN @ + 1 ELSE @]
        /\ lagged' = (lagged \/ spawned[t] > 0)
        /\ UNCHANGED <<now, phase, cancelled, slot, tick, running, inRun, since>>

\* Every task is checked: the loop goes on, RunOnce waits.
Checked ==
    /\ phase \in {"scan", "once"} /\ todo = {}
    /\ phase' = IF phase = "scan" THEN "loop" ELSE "waiting"
    /\ UNCHANGED <<now, cancelled, slot, tick, todo, since, lagged, taskVars>>

Cancel ==
    /\ phase \in {"loop", "scan"} /\ ~cancelled
    /\ cancelled' = TRUE
    /\ UNCHANGED <<now, phase, slot, tick, todo, since, lagged, taskVars>>

\* The loop sees the context done, also when a tick is waiting.
Stop ==
    /\ phase = "loop" /\ cancelled
    /\ phase' = "waiting"
    /\ UNCHANGED <<now, cancelled, slot, tick, todo, since, lagged, taskVars>>

\* wg.Wait, then Run or RunOnce returns.
Return ==
    /\ phase = "waiting"
    /\ \A t \in Tasks : spawned[t] = 0 /\ inRun[t] = 0
    /\ phase' = "off"
    /\ UNCHANGED <<now, cancelled, slot, tick, todo, since, lagged, taskVars>>
-----------------------------------------------------------------------------
(* Scheduler.run, in a goroutine of its own.                               *)

\* Faulty variant: running is not looked at again.
MayEnter_m1(t) == TRUE

MayEnter(t) == ~running[t] \/ t \in AllowOverlap

Enter(t) ==
    /\ spawned[t] > 0 /\ MayEnter(t)
    /\ spawned' = [spawned EXCEPT ![t] = @ - 1]
    /\ running' = [running EXCEPT ![t] = TRUE]
    /\ last' = [last EXCEPT ![t] = now]
    /\ inRun' = [inRun EXCEPT ![t] = @ + 1]
    /\ UNCHANGED <<now, loopVars>>

Skip(t) ==
    /\ spawned[t] > 0 /\ ~MayEnter(t)
    /\ spawned' = [spawned EXCEPT ![t] = @ - 1]
    /\ UNCHANGED <<now, running, last, inRun, loopVars>>

\* Task.Run returned, failed or panicked.
Finish(t) ==
    /\ inRun[t] > 0
    /\ inRun' = [inRun EXCEPT ![t] = @ - 1]
    /\ running' = [running EXCEPT ![t] = FALSE]
    /\ UNCHANGED <<now, last, spawned, loopVars>>
-----------------------------------------------------------------------------
\* The process dies; what it knew dies with it.
ScheduleCrash ==
    /\ phase # "off"
    /\ phase' = "off" /\ cancelled' = FALSE /\ slot' = Zero /\ tick' = 0 /\ todo' = {}
    /\ running' = [t \in Tasks |-> FALSE]
    /\ last' = [t \in Tasks |-> Zero]
    /\ spawned' = [t \in Tasks |-> 0]
    /\ inRun' = [t \in Tasks |-> 0]
    /\ since' = Zero /\ lagged' = FALSE
    /\ UNCHANGED now

\* The clock, and the ticker: a tick nobody has taken keeps the next one out.
ScheduleTick ==
    /\ Advance(ScheduleEnd)
    /\ slot' = IF phase \in {"loop", "scan"} /\ slot = Zero THEN now' ELSE slot
    /\ UNCHANGED <<phase, cancelled, tick, todo, since, lagged, taskVars>>

ScheduleNext ==
    \/ Start \/ StartOnce \/ TakeTick \/ Checked \/ Cancel \/ Stop \/ Return
    \/ \E t \in Tasks : Check(t) \/ Enter(t) \/ Skip(t) \/ Finish(t)
    \/ ScheduleCrash \/ ScheduleTick

ScheduleSpec == now = 0 /\ ScheduleInit /\ [][ScheduleNext]_scheduleVars
-----------------------------------------------------------------------------
(* Properties.                                                             *)

\* "A task that takes longer than its interval would otherwise pile up copies
\* of itself": without AllowOverlap there is never a second run of a task, also
\* when two of its goroutines were started before the first entered run.
NoSecondCopy == \A t \in Tasks \ AllowOverlap : inRun[t] <= 1

\* The last time the clock showed the pinned time.
LastTarget(t) == IF now >= Target(t, now) THEN Target(t, now) ELSE Target(t, now) - DayLength

\* Every, Daily and "a deploy should not trigger every daily job": as long as
\* goroutines begin before their task is checked again, a task begins only an
\* interval after it last began, a pinned one only once for each time the
\* clock shows its time, and neither for what was due before Run started.
OnSchedule ==
    [][\A t \in Tasks : inRun'[t] > inRun[t] /\ ~lagged =>
          \A earlier \in {last[t], since} \ {Zero} :
              IF Pinned(t) THEN earlier < LastTarget(t) ELSE now - earlier >= Every[t]
      ]_scheduleVars
=============================================================================
