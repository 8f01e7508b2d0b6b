------------------------------ MODULE Migrate ------------------------------
(***************************************************************************)
(* Package migrate: the Runner, run by several operators (or deploys) on   *)
(* one database.  Nothing locks them out of each other: a command reads    *)
(* schema_migrations once, and each migration is a transaction of its own. *)
(*                                                                         *)
(* Databases with transactional DDL, as the runner's comment says.  Up     *)
(* fails on a schema that has the migration already.                       *)
(***************************************************************************)
EXTENDS Integers, FiniteSets, FiniteSetsExt

CONSTANTS
    NMigrations,    \* the migrations are 1..NMigrations, in the order of their ids
    Irreversible,   \* the ones without a Down function
    Operators,      \* who runs commands
    MaxBatch        \* bound: batch numbers

Migrations == 1..NMigrations

ASSUME MigrateAssumption ==
    /\ NMigrations \in Nat /\ MaxBatch \in Nat
    /\ Irreversible \subseteq Migrations

VARIABLES
    batchOf,    \* batchOf[m]: the batch of m in schema_migrations, 0 without a row
    schema,     \* the migrations whose changes the schema has
    op,         \* op[o]: the command operator o runs
    before,     \* history: what was applied before the last Up that applied something
    fresh,      \* history: has nothing been rolled back since that Up?
    crowded     \* history: have two commands run at the same time?

migrateVars == <<batchOf, schema, op, before, fresh, crowded>>

\* A command: the migrations registered in the binary it runs from, the ones it
\* still has to apply or undo, n the batch Up uses or the batches Reset found,
\* and whether it is a Refresh.  History: left is
\* what an Up found applied, or what a rollback promises to leave applied, when
\* it promises that at all (exact).
Command == [step: {"idle", "up", "reset", "down", "reup"}, code: SUBSET Migrations,
            todo: SUBSET Migrations, n: Nat, refresh: BOOLEAN,
            exact: BOOLEAN, left: SUBSET Migrations]

NoCommand == [step |-> "idle", code |-> {}, todo |-> {}, n |-> 0, refresh |-> FALSE,
         exact |-> FALSE, left |-> {}]

MigrateTypeOK ==
    /\ schema \subseteq Migrations /\ before \subseteq Migrations
    /\ batchOf \in [Migrations -> Nat]
    /\ op \in [Operators -> Command]
    /\ fresh \in BOOLEAN /\ crowded \in BOOLEAN

MigrateInit ==
    /\ batchOf = [m \in Migrations |-> 0]
    /\ schema = {} /\ before = {}
    /\ op = [o \in Operators |-> NoCommand]
    /\ fresh = FALSE /\ crowded = FALSE
-----------------------------------------------------------------------------
(* What a command reads.                                                   *)

Applied == {m \in Migrations : batchOf[m] > 0}
HighestBatch == Max({batchOf[m] : m \in Migrations} \cup {0})

\* The first n of S in id order, all of them when n is 0.
Take(n, S) == IF n = 0 THEN S ELSE {m \in S : Cardinality({k \in S : k < m}) < n}

\* Faulty variant: the last batch is used again.
NextBatch_m1 == Max({HighestBatch, 1})

NextBatch == HighestBatch + 1

Lowest(batches) == Max({HighestBatch - batches + 1, 1})

\* The command of o becomes c; it may run beside the commands of others.
Proceed(o, c) ==
    /\ op' = [op EXCEPT ![o] = c]
    /\ crowded' = (crowded \/ (c # NoCommand /\ \E p \in Operators \ {o} : op[p] # NoCommand))
-----------------------------------------------------------------------------
(* Up.                                                                     *)

\* What is pending and the batch are settled here; nothing pending ends it.
UpRead(o, code, steps) ==
    LET pending == Take(steps, code \ Applied)
    IN  /\ NextBatch <= MaxBatch
        /\ Proceed(o, IF pending = {} THEN NoCommand
                  ELSE [NoCommand EXCEPT !.step = "up", !.todo = pending, !.n = NextBatch,
                                       !.left = Applied])
        /\ UNCHANGED <<batchOf, schema, before, fresh>>

Up(o, code) == op[o] = NoCommand /\ \E steps \in 0..NMigrations : UpRead(o, code, steps)

Subject(o) == IF op[o].step = "up" THEN Min(op[o].todo) ELSE Max(op[o].todo)

\* A Refresh goes on with Up.
AfterRollback(c) ==
    IF c.refresh THEN [NoCommand EXCEPT !.step = "reup", !.code = c.code] ELSE NoCommand

\* What is left of a command when m is done.
Rest(c, m) ==
    IF c.todo # {m} THEN [c EXCEPT !.todo = @ \ {m}]
    ELSE AfterRollback(c)

\* Faulty variant: the row is written outside the transaction, and may be lost.
UpApply_m1(o) ==
    LET m == Subject(o)
    IN  /\ op[o].step = "up" /\ m \notin schema
        /\ schema' = schema \cup {m}
        /\ batchOf' \in {batchOf, [batchOf EXCEPT ![m] = op[o].n]}
        /\ Proceed(o, Rest(op[o], m))
        /\ UNCHANGED <<before, fresh>>

\* One transaction: the migration's Up and its row.
UpApply(o) ==
    LET m == Subject(o)
    IN  /\ op[o].step = "up" /\ m \notin schema /\ batchOf[m] = 0
        /\ schema' = schema \cup {m}
        /\ batchOf' = [batchOf EXCEPT ![m] = op[o].n]
        /\ before' = op[o].left
        /\ fresh' = TRUE
        /\ Proceed(o, Rest(op[o], m))

\* An error of a transaction, a cancelled context, a killed process, or a
\* rollback of what is not in the code or has no Down: the command is over.
Fail(o) ==
    /\ op[o] # NoCommand
    /\ Proceed(o, NoCommand)
    /\ UNCHANGED <<batchOf, schema, before, fresh>>
-----------------------------------------------------------------------------
(* Rollback, Reset and Refresh.                                            *)

\* Rollback reads the rows of the last batches, at least one; when there are
\* none it is done, and a Refresh goes on.
RollbackRead(o, n, c) ==
    LET batches == IF n = 0 THEN 1 ELSE n
        targets == {m \in Applied : batchOf[m] >= Lowest(batches)}
    IN  /\ Proceed(o, IF targets # {} THEN [c EXCEPT !.step = "down", !.todo = targets]
                  ELSE AfterRollback(c))
        /\ UNCHANGED <<batchOf, schema, before, fresh>>

Rollback(o, code) ==
    /\ op[o] = NoCommand
    /\ \E n \in 0..MaxBatch :
          RollbackRead(o, n, [NoCommand EXCEPT !.code = code, !.exact = fresh /\ n <= 1, !.left = before])

\* Reset reads the highest batch, and then Rollback reads again.
ResetBegin(o, code, refresh) ==
    /\ op[o] = NoCommand
    /\ Proceed(o, [NoCommand EXCEPT !.step = "reset", !.code = code, !.n = HighestBatch,
                          !.refresh = refresh])
    /\ UNCHANGED <<batchOf, schema, before, fresh>>

ResetRead(o) ==
    /\ op[o].step = "reset"
    /\ RollbackRead(o, op[o].n, [op[o] EXCEPT !.exact = TRUE, !.left = {}])

\* One transaction: the migration's Down and the delete of its row, newest
\* migration first.
RollbackApply(o) ==
    LET m == Subject(o)
    IN  /\ op[o].step = "down" /\ m \in op[o].code \ Irreversible
        /\ schema' = schema \ {m}
        /\ batchOf' = [batchOf EXCEPT ![m] = 0]
        /\ fresh' = FALSE
        /\ Proceed(o, Rest(op[o], m))
        /\ UNCHANGED <<before>>

RefreshUp(o) == op[o].step = "reup" /\ UpRead(o, op[o].code, 0)
-----------------------------------------------------------------------------
\* A command may be run from any branch, with the migrations it has.
MigrateNext ==
    \E o \in Operators :
        \/ \E code \in SUBSET Migrations :
              \/ Up(o, code) \/ Rollback(o, code)
              \/ \E refresh \in BOOLEAN : ResetBegin(o, code, refresh)
        \/ UpApply(o) \/ RollbackApply(o) \/ ResetRead(o) \/ RefreshUp(o) \/ Fail(o)

MigrateSpec == MigrateInit /\ [][MigrateNext]_migrateVars
-----------------------------------------------------------------------------
(* Properties.                                                             *)

\* "A failure leaves every earlier migration applied and this one fully rolled
\* back": the schema has the changes of exactly the recorded migrations, also
\* with commands of several operators, each working from a stale list.
SchemaIsRecorded == schema = Applied

\* Up, "Every migration applied by a single Up call shares a batch number, so
\* Rollback can undo them as a unit", and Reset, "rolls back every applied
\* migration": run alone, a rollback that ends without an error leaves what was
\* applied before the last Up, and a Reset leaves nothing, after any history of
\* failed commands, partial runs and changing binaries.
RollbackIsExact ==
    [][\A o \in Operators :
          ~crowded /\ op[o].exact /\ RollbackApply(o) /\ op[o].todo = {Subject(o)} =>
              Applied' = op[o].left
      ]_migrateVars
=============================================================================
