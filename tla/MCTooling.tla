----------------------------- MODULE MCTooling -----------------------------
(***************************************************************************)
(* The tools of the ry command on small instances.  They share no state,   *)
(* so a behaviour runs one of them and the others stay as they began.      *)
(***************************************************************************)
EXTENDS DevLoop, Launch, Scaffold, Release

CONSTANTS k1, k2, g1, g2, a1, a2

\* ry dev.
ProjectDirs == {<<>>, <<"app">>, <<"storage">>}
AddedDirs == {<<"app", "api">>}
ProjectFiles == {<<"app", "page.templ">>, <<"app", "api", "api.go">>}
ProjectViews == {<<"app", "page.templ">>}
TemplOutput == <<"app", "page_templ.go">>
ProjectIgnores == {<<"storage">>, <<"app", "vendored">>}

\* Commands side by side, in projects with everything and with nothing.
Machine(docker, node) == [docker |-> docker, box |-> "down", node |-> node, modules |-> "none"]
Full == [server |-> TRUE, dsn |-> [form |-> "url", host |-> "localhost"], compose |-> TRUE,
         noDocker |-> FALSE, vite |-> TRUE, ts |-> TRUE, strict |-> FALSE]
Plain == [server |-> FALSE, dsn |-> [form |-> "none", host |-> NoHost], compose |-> FALSE,
          noDocker |-> FALSE, vite |-> FALSE, ts |-> FALSE, strict |-> TRUE]
FourScenes ==
    {[conf |-> Full, world |-> Machine("up", TRUE), taken |-> {AppPort}],
     [conf |-> Full, world |-> Machine("stopped", FALSE), taken |-> {}],
     [conf |-> [Full EXCEPT !.dsn.host = "db.example.com"], world |-> Machine("absent", TRUE), taken |-> {VitePort, VitePort + 1}],
     [conf |-> Plain, world |-> Machine("absent", FALSE), taken |-> {AppPort}]}
FivePairs == {(k1 :> p[1]) @@ (k2 :> p[2]) : p \in
    {<<"build", "build">>, <<"build", "forward">>, <<"forward", "forward">>, <<"dev", "forward">>, <<"build", "start">>}}

\* Generators side by side, in an empty directory and in two projects.  Of every
\* overlay there are the files that another one has too, and one of its own.
PathOrder == <<<<".env">>, <<"app", "auth_core.go">>, <<"app", "two_factor.go">>, <<"app", "user.go">>,
               <<"compose.yaml">>, <<"routes", "auth.go">>, <<"routes", "web.go">>, <<"ryla.yaml">>>>
PathRank == [f \in ToSet(PathOrder) |-> CHOOSE n \in DOMAIN PathOrder : PathOrder[n] = f]
OverlayTree ==
    [o \in {<<"base">>} |-> {<<".env">>, <<"routes", "web.go">>, <<"ryla.yaml">>}]
    @@ [o \in {<<"db", d>> : d \in DOMAIN Databases} |-> IF o[2] = "mongo" THEN {<<".env">>} ELSE {}]
    @@ [o \in {<<"web", m>> : m \in {"mvc", "api", "spa"}} |-> {<<"routes", "web.go">>}]
    @@ [o \in {<<"frontend", f, l>> : f \in {"react", "svelte"}, l \in Languages} |-> {}]
    @@ [o \in {<<"auth", x>> : x \in {"shared", "mvc", "json", "sql", "mongo"}} |->
          CASE o[2] = "shared" -> {<<"app", "auth_core.go">>}
            [] o[2] \in {"mvc", "json"} -> {<<"routes", "auth.go">>}
            [] o[2] \in {"sql", "mongo"} -> {<<"app", "user.go">>}]
    @@ [o \in {<<"2fa", x>> : x \in {"shared", "mvc", "json", "sql", "mongo"}} |->
          IF o[2] = "shared" THEN {<<"app", "two_factor.go">>} ELSE {}]
Order(kind) == [kind |-> kind, force |-> FALSE, path |-> <<"app", "user.go">>, skipMigration |-> FALSE,
                skipDeps |-> FALSE, framework |-> "release", asks |-> FALSE, db |-> Unset, web |-> Unset,
                lang |-> Unset, setup |-> Unset, url |-> Unset]
OrderPairs == {(g1 :> p[1]) @@ (g2 :> p[2]) : p \in {
    <<[Order("new") EXCEPT !.db = "mongo", !.url = "given", !.web = "react"], Order("make")>>,
    <<[Order("new") EXCEPT !.framework = "missing"], Order("new")>>,
    <<[Order("new") EXCEPT !.asks = TRUE, !.web = "api", !.lang = "ts", !.skipDeps = TRUE], Order("key")>>,
    <<Order("auth"), Order("model")>>,
    <<[Order("auth") EXCEPT !.force = TRUE], Order("2fa")>>,
    <<Order("migration"), Order("model")>>,
    <<Order("auth"), Order("seeder")>>,
    <<Order("key"), Order("key")>>,
    <<Order("compose"), [Order("key") EXCEPT !.force = TRUE]>>}}
Started(db, key, files) ==
    [project |-> [db |-> db, web |-> "mvc"], files |-> files \cup {EnvFile, ManifestFile}, key |-> key]
ThreeGrounds == {
    [project |-> Absent, files |-> {}, key |-> Absent],
    Started("sqlite", "yours", {<<"create_posts", 1>>}),
    Started("mongo", Absent, {<<"app", "user.go">>})}

\* Two commands that ask for the newest version, or that update without asking.
Rel(kind, n) == [kind |-> kind, n |-> n]
Notice == [update |-> FALSE, self |-> FALSE, all |-> FALSE, check |-> FALSE, refresh |-> FALSE, disabled |-> FALSE]
Update == [Notice EXCEPT !.update = TRUE, !.disabled = TRUE]
FourInstalls == {[cli |-> x[1], framework |-> x[2], asks |-> (a1 :> x[3]) @@ (a2 :> x[4])] : x \in {
    <<Rel("release", 1), Rel("pseudo", 2), Notice, [Update EXCEPT !.refresh = TRUE, !.check = TRUE]>>,
    <<Rel("pseudo", 2), Rel("release", 1), [Update EXCEPT !.self = TRUE], Update>>,
    <<Rel("dev", 0), NoEntry, Update, [Notice EXCEPT !.disabled = TRUE]>>,
    <<Rel("release", 1), Rel("local", 0), Update, [Update EXCEPT !.all = TRUE]>>}}
-----------------------------------------------------------------------------
VARIABLE tool   \* the tool that runs

Tools == {"dev", "launch", "scaffold", "release"}

Init ==
    /\ tool \in Tools
    /\ DevInit /\ LaunchInit /\ ScaffoldInit /\ ReleaseInit
    /\ tool = "launch" \/ (conf = Plain /\ \A c \in Commands : cmd[c].kind = "forward")
    /\ tool = "scaffold" \/ (project = Absent /\ maker[g2].order.kind = "make")
    /\ tool = "release" \/ framework = NoEntry

Next ==
    /\ UNCHANGED tool
    /\ \/ tool = "dev" /\ DevNext /\ UNCHANGED <<launchVars, scaffoldVars, releaseVars>>
       \/ tool = "launch" /\ LaunchNext /\ UNCHANGED <<devVars, scaffoldVars, releaseVars>>
       \/ tool = "scaffold" /\ ScaffoldNext /\ UNCHANGED <<devVars, launchVars, releaseVars>>
       \/ tool = "release" /\ ReleaseNext /\ UNCHANGED <<devVars, launchVars, scaffoldVars>>

\* A behaviour of another tool is none in which ry dev's loop runs.
Spec == Init /\ [][Next]_<<tool, devVars, launchVars, scaffoldVars, releaseVars>> /\ DevFairness

\* The state of every tool is of its type: what it reads and writes keeps to what
\* the others left there.
TypeOK == DevTypeOK /\ LaunchTypeOK /\ ScaffoldTypeOK /\ ReleaseTypeOK
=============================================================================
