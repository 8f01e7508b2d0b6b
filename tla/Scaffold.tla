------------------------------ MODULE Scaffold ------------------------------
(***************************************************************************)
(* The ry commands that write files: new, the make: generators, db:compose *)
(* and key:generate, from cmd/ry/internal/commands and scaffold.           *)
(*                                                                         *)
(* A generator looks for collisions once and then writes file by file: it  *)
(* may fail after any of them, the developer edits meanwhile, and a second *)
(* generator may run beside it.                                            *)
(*                                                                         *)
(* A path is a tuple, a migration <<name, second>>; of a file's content    *)
(* there is the template it came from and the edits made to it, of .env    *)
(* also the key and the connection string.                                 *)
(***************************************************************************)
EXTENDS Naturals, Sequences, FiniteSets, SequencesExt

CONSTANTS
    Gens,       \* generators started, each once
    Orders,     \* the orders given to them: a set of functions
    Grounds,    \* the directories to start from: see Ground
    Tree,       \* Tree[o]: the paths of template overlay o
    Rank,       \* Rank[f]: the place of a path in sorted order
    MaxSecond,  \* bound: the clock, whose second names a migration
    MaxEdits,   \* bound: files edited, and edits of one file
    Absent,     \* no file, no project, no key
    Unset       \* a flag that was not given

EnvFile == <<".env">>
ManifestFile == <<"ryla.yaml">>
ComposeFile == <<"compose.yaml">>

MigrationNames == {"create_users", "create_posts", "add_two_factor_to_users"}
Paths == DOMAIN Rank \cup (MigrationNames \X (0..MaxSecond))
Templates == DOMAIN Tree \cup {<<"make">>, <<"make", "mongo">>, <<"compose">>, <<"you">>, <<"partial">>}

ASSUME ScaffoldAssumption ==
    /\ {EnvFile, ManifestFile, ComposeFile} \subseteq DOMAIN Rank
    /\ \A o \in DOMAIN Tree : Tree[o] \subseteq DOMAIN Rank
    /\ Rank \in [DOMAIN Rank -> Nat]
    /\ MaxSecond \in Nat /\ MaxEdits \in Nat \ {0}
-----------------------------------------------------------------------------
(* What ry new offers.                                                     *)

\* Whether a database runs as a server, which a compose file can hold.
Databases == [sqlite |-> FALSE, mongo |-> TRUE, postgres |-> TRUE, mysql |-> TRUE]

WebModes == [
    mvc    |-> [overlay |-> "mvc", templ |-> TRUE, frontend |-> "none"],
    api    |-> [overlay |-> "api", templ |-> FALSE, frontend |-> "none"],
    react  |-> [overlay |-> "spa", templ |-> FALSE, frontend |-> "react"],
    svelte |-> [overlay |-> "spa", templ |-> FALSE, frontend |-> "svelte"]]

Languages == {"ts", "js"}

isDocumentStore(p) == p.db = "mongo"

Setups == {"docker", "external", "skip"}

\* The answers without questions; the styling only changes the text of templates.
applyDefaults(a) == [
    db |-> IF a.db = Unset THEN "sqlite" ELSE a.db,
    web |-> IF a.web = Unset THEN "mvc" ELSE a.web,
    lang |-> IF a.lang = Unset THEN "ts" ELSE a.lang,
    setup |-> IF a.url # Unset THEN "external" ELSE IF a.setup = Unset THEN "docker" ELSE a.setup]

\* askDBSetup: only a server is asked about.
askDBSetup(db) == IF Databases[db] THEN Setups ELSE {"skip"}

\* The answers with questions, about what no flag says.  A connection string given
\* as a flag is not asked about, and not used.
prompt(a) == {p \in [db: DOMAIN Databases, web: DOMAIN WebModes, lang: Languages, setup: Setups] :
    /\ a.db # Unset => p.db = a.db
    /\ a.web # Unset => p.web = a.web
    /\ a.lang # Unset => p.lang = a.lang
    /\ IF a.setup # Unset THEN p.setup = a.setup
       ELSE IF a.url # Unset THEN p.setup = "skip" ELSE p.setup \in askDBSetup(p.db)}

answers(a) == IF a.asks THEN prompt(a) ELSE {applyDefaults(a)}

LookupDatabase(db) == db \in DOMAIN Databases
LookupWebMode(web) == web \in DOMAIN WebModes

\* NewProject refuses what it does not know.
NewProject(p) ==
    /\ LookupDatabase(p.db) /\ LookupWebMode(p.web)
    /\ WebModes[p.web].frontend # "none" => p.lang \in Languages

\* Project.Overlays: the most specific comes last.
Overlays(p) ==
    LET web == WebModes[p.web]
    IN  <<<<"base">>, <<"db", p.db>>, <<"web", web.overlay>>>>
        \o (IF web.frontend = "none" THEN <<>> ELSE <<<<"frontend", web.frontend, p.lang>>>>)

\* make:auth and make:2fa split their templates the same way.
AuthOverlays(what, p) ==
    <<<<what, "shared">>, <<what, IF p.web = "mvc" THEN "mvc" ELSE "json">>,
      <<what, IF isDocumentStore(p) THEN "mongo" ELSE "sql">>>>

\* What ryla.yaml says of a project.
Manifest == [db: DOMAIN Databases, web: DOMAIN WebModes]

\* The templates that are built into ry have every overlay.
ASSUME OverlaysAssumption ==
    /\ \A p \in [db: DOMAIN Databases, web: DOMAIN WebModes, lang: Languages] : ToSet(Overlays(p)) \subseteq DOMAIN Tree
    /\ \A p \in Manifest, what \in {"auth", "2fa"} : ToSet(AuthOverlays(what, p)) \subseteq DOMAIN Tree

\* plan: where each file comes from; a later overlay wins.
plan(overlays) ==
    [f \in UNION {Tree[o] : o \in ToSet(overlays)} |->
        overlays[CHOOSE n \in DOMAIN overlays :
                    f \in Tree[overlays[n]] /\ \A m \in (n + 1)..Len(overlays) : f \notin Tree[overlays[m]]]]
-----------------------------------------------------------------------------
(* What a command does, as a sequence of stages.  Generator.Run and        *)
(* RenderTo are one kind: files to write, from their templates.            *)

Writes(sources) == [op |-> "files", sources |-> sources, name |-> "none"]
RenderTo(f, template) == Writes([x \in {f} |-> template])
Migration(name) == [op |-> "migration", sources |-> <<>>, name |-> name]
Do(op) == [op |-> op, sources |-> <<>>, name |-> "none"]

\* runNew, after its checks.
NewStages(a, p) ==
    <<Writes(plan(Overlays(p)))>>
    \o (IF p.setup = "docker" /\ Databases[p.db] THEN <<RenderTo(ComposeFile, <<"compose">>)>>
        ELSE IF p.setup = "external" THEN <<Do("dsn")>> ELSE <<>>)
    \o <<Do("go")>>
    \o (IF a.skipDeps THEN <<>>
        ELSE (IF WebModes[p.web].templ THEN <<Do("go"), Do("go")>> ELSE <<>>) \o <<Do("go")>>)

\* make:controller, make:job, make:request, make:middleware.
MakeStages(a) == <<RenderTo(a.path, <<"make">>)>>

\* make:test, make:seeder and make:model have a template for each kind of store.
StubOf(p) == IF isDocumentStore(p) THEN <<"make", "mongo">> ELSE <<"make">>

SeederStages(a, p) == <<RenderTo(a.path, StubOf(p))>>

ModelStages(a, p) ==
    <<RenderTo(a.path, StubOf(p))>>
    \o (IF isDocumentStore(p) \/ a.skipMigration THEN <<>> ELSE <<Migration("create_posts")>>)

AuthStages(p) ==
    <<Writes(plan(AuthOverlays("auth", p)))>>
    \o (IF isDocumentStore(p) THEN <<>> ELSE <<Migration("create_users")>>)

TwoFactorStages(p) ==
    <<Writes(plan(AuthOverlays("2fa", p)))>>
    \o (IF isDocumentStore(p) THEN <<>> ELSE <<Migration("add_two_factor_to_users")>>)

Stages(a, p) ==
    CASE a.kind = "new" -> NewStages(a, p)
      [] a.kind = "make" -> MakeStages(a)
      [] a.kind = "seeder" -> SeederStages(a, p)
      [] a.kind = "model" -> ModelStages(a, p)
      [] a.kind = "migration" -> <<Migration("create_posts")>>
      [] a.kind = "auth" -> AuthStages(p)
      [] a.kind = "2fa" -> TwoFactorStages(p)
      [] a.kind = "compose" -> <<RenderTo(ComposeFile, <<"compose">>)>>
      [] a.kind = "key" -> <<Do("key")>>

ASSUME OrdersAssumption ==
    \A o \in Orders : \A g \in Gens :
        /\ o[g].kind \in {"new", "make", "seeder", "model", "migration", "auth", "2fa", "compose", "key"}
        /\ o[g].path \in DOMAIN Rank
        /\ o[g].force \in BOOLEAN
-----------------------------------------------------------------------------
VARIABLES
    disk,       \* disk[f]: the file at f, or Absent
    secrets,    \* what .env holds: the key and the connection string
    project,    \* what ryla.yaml says, or Absent
    clock,      \* the second
    maker         \* maker[g]: a generator

scaffoldVars == <<disk, secrets, project, clock, maker>>

File == [from: Templates, edits: 0..MaxEdits]
Secrets == [key: Gens \cup {"yours", Absent}, dsn: {"default", "external", Absent}]

\* .env as it was read.
Env == [file: File, secrets: Secrets]

\* A directory to start from.
Ground == [project: Manifest \cup {Absent}, files: SUBSET Paths, key: {"yours", Absent}]

ASSUME GroundsAssumption == Grounds \subseteq Ground /\ Absent \notin File

\* A generator: its order and answers, the stages left, the files of the current
\* stage left to write, the .env it has read to write it back, and (history) the
\* files that were there when it began.
ScaffoldTypeOK ==
    /\ disk \in [Paths -> File \cup {Absent}]
    /\ secrets \in Secrets
    /\ project \in Manifest \cup {Absent}
    /\ clock \in 0..MaxSecond
    /\ \A g \in Gens :
         /\ maker[g].state \in {"ready", "on", "done", "failed"}
         /\ DOMAIN maker[g].todo \subseteq Paths /\ maker[g].found \subseteq Paths
         /\ maker[g].env \in Env \cup {Absent}

ScaffoldInit ==
    /\ \E s \in Grounds :
         /\ disk = [f \in Paths |-> IF f \in s.files THEN [from |-> <<"you">>, edits |-> 0] ELSE Absent]
         /\ project = s.project
         /\ secrets = [key |-> s.key, dsn |-> IF EnvFile \in s.files THEN "default" ELSE Absent]
    /\ clock = 0
    /\ \E o \in Orders :
         maker = [g \in Gens |-> [order |-> o[g], state |-> "ready", stages |-> <<>>, web |-> Absent,
                                todo |-> <<>>, env |-> Absent, found |-> {}]]

Present == {f \in Paths : disk[f] # Absent}
Going(g) == maker[g].state = "on"
Stage(g) == Head(maker[g].stages)
Writing(g) == DOMAIN maker[g].todo # {}

\* The command ends with an error; what it wrote stays.
GenFail(g) == maker' = [maker EXCEPT ![g].state = "failed", ![g].env = Absent]

\* The current stage is over.
GenOn(g) == maker' = [maker EXCEPT ![g].stages = Tail(@), ![g].todo = <<>>, ![g].env = Absent,
                               ![g].state = IF Len(maker[g].stages) = 1 THEN "done" ELSE "on"]
-----------------------------------------------------------------------------
(* The steps of a command.                                                 *)

\* Whether ry new goes ahead: a project it knows, an empty destination, and a
\* framework to build against: a release or a checkout.
checkDestination == Present = {}
CanStart(a, p) == checkDestination /\ NewProject(p) /\ a.framework \in {"release", "checkout"}

\* The other commands need a project, and some a kind of project.
Applies(a) ==
    /\ project # Absent
    /\ a.kind = "migration" => ~isDocumentStore(project)
    /\ a.kind = "compose" => Databases[project.db]

GenBegin(g) ==
    LET a == maker[g].order
        Starts(p) == maker' = [maker EXCEPT ![g].state = "on", ![g].stages = Stages(a, p),
                                        ![g].web = [db |-> p.db, web |-> p.web], ![g].found = Present]
    IN  /\ maker[g].state = "ready"
        /\ IF a.kind = "new"
           THEN \/ \E p \in answers(a) : CanStart(a, p) /\ Starts(p)
                \/ (a.asks \/ \E p \in answers(a) : ~CanStart(a, p)) /\ GenFail(g)
           ELSE IF Applies(a) THEN Starts(project) ELSE GenFail(g)
        /\ UNCHANGED <<disk, secrets, project, clock>>

\* The files of a stage; a migration is named by the current second.
StageFiles(g) ==
    IF Stage(g).op = "migration" THEN [f \in {<<Stage(g).name, clock>>} |-> <<"make">>] ELSE Stage(g).sources

\* Faulty variant: only the first file is looked for.
checkCollisions_m1(files) == \E f \in DOMAIN files : f \in Present /\ \A h \in DOMAIN files \cap DOMAIN Rank :
                                 f \in DOMAIN Rank => Rank[f] <= Rank[h]

checkCollisions(files) == \E f \in DOMAIN files : f \in Present

\* Without --force, nothing is written when one of the files is there.
GenCheck(g) ==
    /\ Going(g) /\ ~Writing(g) /\ Stage(g).op \in {"files", "migration"}
    /\ IF ~maker[g].order.force /\ checkCollisions(StageFiles(g)) THEN GenFail(g)
       ELSE maker' = [maker EXCEPT ![g].todo = StageFiles(g)]
    /\ UNCHANGED <<disk, secrets, project, clock>>

\* The next file in sorted order.
NextFile(files) == CHOOSE f \in DOMAIN files :
    \A h \in DOMAIN files \cap DOMAIN Rank : f \in DOMAIN Rank => Rank[f] <= Rank[h]

\* One file is rendered and written.
writeFile(g) ==
    LET todo == maker[g].todo
        f == NextFile(todo)
        left == [h \in DOMAIN todo \ {f} |-> todo[h]]
    IN  /\ Going(g) /\ Writing(g)
        /\ disk' = [disk EXCEPT ![f] = [from |-> todo[f], edits |-> 0]]
        /\ secrets' = IF f = EnvFile THEN [key |-> g, dsn |-> "default"] ELSE secrets
        /\ project' = IF f = ManifestFile THEN maker[g].web ELSE project
        /\ IF DOMAIN left = {} THEN GenOn(g) ELSE maker' = [maker EXCEPT ![g].todo = left]
        /\ UNCHANGED clock

\* .env is read, and has to be fit for the change, ...
ReadsEnv(g, fit) ==
    /\ maker[g].env = Absent
    /\ IF disk[EnvFile] # Absent /\ fit
       THEN maker' = [maker EXCEPT ![g].env = [file |-> disk[EnvFile], secrets |-> secrets]]
       ELSE GenFail(g)
    /\ UNCHANGED <<disk, secrets, project, clock>>

\* What a command that has read .env makes of it: key:generate replaces or adds
\* the key's line, setEnvDSN replaces the line of the connection string.
Updated(g) == IF Stage(g).op = "key" THEN [maker[g].env.secrets EXCEPT !.key = g]
              ELSE [maker[g].env.secrets EXCEPT !.dsn = "external"]

keyGenerate(g) ==
    /\ Going(g) /\ Stage(g).op = "key"
    /\ ReadsEnv(g, secrets.key = Absent \/ maker[g].order.force)

setEnvDSN(g) ==
    /\ Going(g) /\ Stage(g).op = "dsn"
    /\ ReadsEnv(g, secrets.dsn # Absent)

\* ... and written back as a whole, over what is there by then.
writeEnv(g) ==
    /\ Going(g) /\ maker[g].env # Absent
    /\ disk' = [disk EXCEPT ![EnvFile] = maker[g].env.file]
    /\ secrets' = Updated(g)
    /\ GenOn(g)
    /\ UNCHANGED <<project, clock>>

\* go mod edit, go get -tool, templ generate, go mod tidy: they add to the
\* project what is not of the templates.
Toolchain(g) ==
    /\ Going(g) /\ Stage(g).op = "go" /\ GenOn(g)
    /\ UNCHANGED <<disk, secrets, project, clock>>

\* What is left of .env when its writing was cut short.
CutShort(s) == [key: {s.key, Absent}, dsn: {s.dsn, Absent}]

\* A template or a tool that fails, or a file that cannot be written to its end:
\* a file of a template, or the .env that was read.  A manifest cut short may still
\* say enough.
GenError(g) ==
    LET f == IF Writing(g) THEN NextFile(maker[g].todo) ELSE EnvFile
        content == IF Writing(g) THEN [key |-> g, dsn |-> "default"] ELSE Updated(g)
    IN  /\ Going(g) /\ GenFail(g)
        /\ \/ /\ Writing(g) \/ Stage(g).op = "go" \/ maker[g].env # Absent
              /\ UNCHANGED <<disk, secrets, project>>
           \/ /\ Writing(g) \/ maker[g].env # Absent
              /\ disk' = [disk EXCEPT ![f] = [from |-> <<"partial">>, edits |-> 0]]
              /\ secrets' \in IF f = EnvFile THEN CutShort(content) ELSE {secrets}
              /\ project' \in IF f = ManifestFile THEN {maker[g].web, Absent} ELSE {project}
        /\ UNCHANGED clock
-----------------------------------------------------------------------------
(* The developer and the clock.                                            *)

EditFile(f) ==
    /\ Cardinality({x \in Present : disk[x].edits > 0}) < MaxEdits
    /\ f \in Present => disk[f].edits < MaxEdits
    /\ disk' = [disk EXCEPT ![f] = [from |-> IF @ = Absent THEN <<"you">> ELSE @.from,
                                    edits |-> IF @ = Absent THEN 1 ELSE @.edits + 1]]
    /\ secrets' \in IF f = EnvFile THEN {secrets, [secrets EXCEPT !.key = "yours"], [secrets EXCEPT !.dsn = Absent]}
                   ELSE {secrets}
    /\ UNCHANGED <<project, clock, maker>>

NextSecond == clock < MaxSecond /\ clock' = clock + 1 /\ UNCHANGED <<disk, secrets, project, maker>>

ScaffoldNext ==
    \/ \E g \in Gens : GenBegin(g) \/ GenCheck(g) \/ writeFile(g) \/ setEnvDSN(g) \/ keyGenerate(g)
                       \/ writeEnv(g) \/ Toolchain(g) \/ GenError(g)
    \/ \E f \in DOMAIN Rank \ {ManifestFile} : EditFile(f)
    \/ NextSecond

ScaffoldSpec == ScaffoldInit /\ [][ScaffoldNext]_scaffoldVars
-----------------------------------------------------------------------------
(* Properties.                                                             *)

\* make:auth, "It never touches your existing files", and "refusing to
\* overwrite": without --force a command changes no file that was there when it
\* began, although it looks and writes stage by stage.  The one exception is the
\* .env that key:generate has read without a key; where nobody changed that
\* meanwhile and the writing does not fail, only the key is new.
KeepsYours ==
    [][\A g \in Gens : maker'[g] # maker[g] /\ ~maker[g].order.force =>
          /\ \A f \in maker[g].found \ {EnvFile} : disk'[f] = disk[f]
          /\ EnvFile \in maker[g].found /\ <<disk'[EnvFile], secrets'>> # <<disk[EnvFile], secrets>> =>
                /\ maker[g].env # Absent /\ maker[g].env.secrets.key = Absent
                /\ maker[g].env = [file |-> disk[EnvFile], secrets |-> secrets] /\ maker'[g].state # "failed" =>
                      disk'[EnvFile] = disk[EnvFile] /\ secrets' = [secrets EXCEPT !.key = g]]_scaffoldVars
=============================================================================
