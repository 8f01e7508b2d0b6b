------------------------------- MODULE Launch -------------------------------
(***************************************************************************)
(* The ry commands that build and run an application: dev, build, start    *)
(* and the commands they forward to it (migrate, routes, queue:work, ...), *)
(* from cmd/ry/internal/commands (run, dbstart, port) and frontend.        *)
(*                                                                         *)
(* Several commands run side by side in one project: they share the        *)
(* container of the database, the ports, the generated code, the           *)
(* frontend's dist directory and the binaries, while the developer saves   *)
(* and any of the programs they call may fail.                             *)
(***************************************************************************)
EXTENDS Naturals, Sequences, FiniteSets, FiniteSetsExt

CONSTANTS
    Commands,       \* commands started, each once
    KindsRun,       \* the kinds of command that run side by side: a set of functions
    Scenes,         \* a project and a machine: see Config and World
    Hosts,          \* hosts a connection string may name
    Loopback,       \* those that are this machine
    AppPort,        \* the port the application asks for; 0 is any
    VitePort,       \* Vite's default port
    ScanLimit,      \* how many ports further ry looks
    MaxPort,        \* the last port there is
    MaxVersion,     \* bound: saves
    NoHost, NoPort, \* no host, no port
    Gone, Torn      \* a dist without any file of a build, and with some of one

ASSUME LaunchAssumption ==
    /\ Loopback \subseteq Hosts /\ NoHost \notin Hosts
    /\ AppPort \in 0..MaxPort /\ VitePort \in 1..MaxPort /\ ScanLimit \in Nat \ {0}
    /\ MaxPort \in Nat /\ NoPort \notin 0..MaxPort /\ MaxVersion \in Nat
    /\ Gone \notin 0..MaxVersion /\ Torn \notin 0..MaxVersion /\ Gone # Torn
    /\ KindsRun \subseteq [Commands -> {"dev", "build", "start", "forward"}]

\* A project: its database and how .env names it, whether there is a compose
\* file, whether RYLA_NO_DOCKER is set, whether the frontend is built with Vite,
\* whether it is checked as TypeScript, and whether --strict-port was given.
Config == [server: BOOLEAN, dsn: [form: {"none", "socket", "address", "url", "keywords", "unreadable"},
                                  host: Hosts \cup {NoHost}],
           compose: BOOLEAN, noDocker: BOOLEAN, vite: BOOLEAN, ts: BOOLEAN, strict: BOOLEAN]

Kinds == {"dev", "build", "start", "forward"}
Parts == {"go", "views", "web"}
Versions == [Parts -> 0..MaxVersion]

\* What dist holds, and what a binary is made of: it embeds whatever is in dist.
Dists == 0..MaxVersion \cup {Gone, Torn}
Binaries == {v \in [Parts -> Dists] : v["go"] \in 0..MaxVersion /\ v["views"] \in 0..MaxVersion}

VARIABLES
    conf,       \* the project
    world,      \* what the machine has: Docker and the container, Node and node_modules
    taken,      \* ports somebody listens on
    ver,        \* the sources: Go, views, frontend
    out,        \* generated code, dist, the dev binary and the release binary
    cmd         \* cmd[c]: a command

launchVars == <<conf, world, taken, ver, out, cmd>>

World == [docker: {"absent", "stopped", "up"}, box: {"down", "starting", "healthy"},
          node: BOOLEAN, modules: {"none", "partial", "full"}]

ASSUME ScenesAssumption == Scenes \subseteq [conf: Config, world: World, taken: SUBSET (1..MaxPort)]

\* keep is the placeholder in dist that makes the project compile without a build
\* of the frontend.
Out == [gen: 0..MaxVersion, dist: Dists, keep: BOOLEAN, dev: Binaries, release: Binaries, released: BOOLEAN]

\* A command: how far it is in its plan, the sources it found when it began and
\* those its builds read, what it wrote or ran, and whether another command
\* crossed it: touched dist while it was being filled or waited to be embedded,
\* or replaced the binary before it was run.
Cmd == [kind: Kinds, at: 0..10, state: {"on", "failed"}, waits: BOOLEAN, addr: 0..MaxPort \cup {NoPort},
        began: Versions, read: Binaries, ran: Binaries, crossed: BOOLEAN]

NoVersion == [x \in Parts |-> 0]

LaunchTypeOK ==
    /\ conf \in Config
    /\ world \in World
    /\ taken \subseteq 1..MaxPort
    /\ ver \in Versions
    /\ out \in Out
    /\ cmd \in [Commands -> Cmd]

LaunchInit ==
    /\ \E s \in Scenes : conf = s.conf /\ world = s.world /\ taken = s.taken
    /\ ver = NoVersion
    /\ \E d \in IF conf.vite THEN {0, Gone} ELSE {Gone} :
         out = [gen |-> 0, dist |-> d, keep |-> TRUE, dev |-> NoVersion, release |-> NoVersion, released |-> FALSE]
    /\ \E k \in KindsRun :
         cmd = [c \in Commands |-> [kind |-> k[c], at |-> 0, state |-> "on", waits |-> FALSE, addr |-> NoPort,
                                    began |-> NoVersion, read |-> NoVersion, ran |-> NoVersion, crossed |-> FALSE]]
-----------------------------------------------------------------------------
(* What a command does, in order.                                          *)

DevPlan == <<"services", "addr", "vite", "templ", "read", "write", "run">>

\* Faulty variant: the Go build embeds the frontend of the build before.
BuildPlan_m1 == <<"templ", "read", "write", "ensure", "check", "bundle", "empty", "fill", "keep">>

BuildPlan == <<"ensure", "check", "bundle", "empty", "fill", "keep", "templ", "read", "write">>
StartPlan == <<"stat", "services", "run">>
ForwardPlan == <<"services", "templ", "read", "write", "run">>

Plan(kind) ==
    CASE kind = "dev" -> DevPlan
      [] kind = "build" -> BuildPlan
      [] kind = "start" -> StartPlan
      [] kind = "forward" -> ForwardPlan

At(c, step) == LET k == cmd[c] IN k.state = "on" /\ k.at \in DOMAIN Plan(k.kind) /\ Plan(k.kind)[k.at] = step

Over(c) == cmd[c].at > Len(Plan(cmd[c].kind))

On(c) == cmd' = [cmd EXCEPT ![c].at = @ + 1, ![c].waits = FALSE]

\* The command ends with an error.
Fail(c) == cmd' = [cmd EXCEPT ![c].state = "failed"]

Launched(c) ==
    /\ cmd[c].at = 0
    /\ cmd' = [cmd EXCEPT ![c].at = 1, ![c].began = ver]
    /\ UNCHANGED <<conf, world, taken, ver, out>>
-----------------------------------------------------------------------------
(* The database's container.                                               *)

\* The host a connection string names, if a published port can be behind it.
dsnHost(dsn) ==
    CASE dsn.form = "none" -> "localhost"
      [] dsn.form \in {"socket", "unreadable"} -> NoHost
      [] dsn.form \in {"address", "url", "keywords"} -> dsn.host

isLocalDSN(dsn) == dsnHost(dsn) \in Loopback \cup {NoHost, "localhost"}

\* Whether this project expects a container at all.
composeDatabase == ~conf.noDocker /\ conf.server /\ conf.compose /\ isLocalDSN(conf.dsn)

\* Nothing to start, or no Docker to start it with.
ServicesSkip(c) ==
    /\ At(c, "services") /\ (~composeDatabase \/ world.docker = "absent")
    /\ On(c)
    /\ UNCHANGED <<conf, world, taken, ver, out>>

\* docker compose up --wait: also when the container runs already.
composeUp(c) ==
    /\ At(c, "services") /\ composeDatabase /\ world.docker = "up" /\ ~cmd[c].waits
    /\ world' = [world EXCEPT !.box = IF @ = "down" THEN "starting" ELSE @]
    /\ cmd' = [cmd EXCEPT ![c].waits = TRUE]
    /\ UNCHANGED <<conf, taken, ver, out>>

ServicesReady(c) ==
    /\ At(c, "services") /\ cmd[c].waits /\ world.box = "healthy"
    /\ On(c)
    /\ UNCHANGED <<conf, world, taken, ver, out>>

composeFailure(c) ==
    /\ At(c, "services") /\ composeDatabase
    /\ world.docker = "stopped" \/ (cmd[c].waits /\ world.box = "down")
    /\ Fail(c)
    /\ UNCHANGED <<conf, world, taken, ver, out>>

\* The container becomes healthy, or goes down for reasons of its own.
Container ==
    /\ world.box # "down"
    /\ world' = [world EXCEPT !.box = IF @ = "starting" THEN "healthy" ELSE "down"]
    /\ UNCHANGED <<conf, taken, ver, out, cmd>>
-----------------------------------------------------------------------------
(* Ports.                                                                  *)

Free(low, high) == {p \in low..Min({high, MaxPort}) : p \notin taken}

resolveDevAddr(p) ==
    IF p = 0 \/ p \notin taken THEN p
    ELSE IF conf.strict \/ Free(p + 1, p + ScanLimit) = {} THEN NoPort
    ELSE Min(Free(p + 1, p + ScanLimit))

\* Faulty variant: with every port taken, the one after the last is as good.
freePort_m1(p) == IF Free(p, p + ScanLimit - 1) = {} THEN p + ScanLimit ELSE Min(Free(p, p + ScanLimit - 1))

freePort(p) == IF Free(p, p + ScanLimit - 1) = {} THEN NoPort ELSE Min(Free(p, p + ScanLimit - 1))

Addr(c) ==
    /\ At(c, "addr")
    /\ IF resolveDevAddr(AppPort) = NoPort THEN Fail(c)
       ELSE cmd' = [cmd EXCEPT ![c].at = @ + 1, ![c].addr = resolveDevAddr(AppPort)]
    /\ UNCHANGED <<conf, world, taken, ver, out>>
-----------------------------------------------------------------------------
(* The frontend.                                                           *)

\* Node and Vite are there, after npm install where there was no node_modules;
\* an install that fails may leave half of them behind.
Ensure(c) ==
    /\ At(c, "ensure") \/ At(c, "vite")
    /\ conf.vite
    /\ world.modules # "full"
    /\ \E m \in IF world.node /\ world.modules = "none" THEN {"none", "partial", "full"} ELSE {world.modules} :
         /\ world' = [world EXCEPT !.modules = m]
         /\ IF m = "full" THEN UNCHANGED cmd ELSE Fail(c)
    /\ UNCHANGED <<conf, taken, ver, out>>

Ensured == world.node /\ world.modules = "full"

NoFrontend(c) ==
    /\ \E step \in {"vite", "ensure", "check", "bundle", "empty", "fill", "keep"} : At(c, step)
    /\ ~conf.vite
    /\ On(c)
    /\ UNCHANGED <<conf, world, taken, ver, out>>

\* Vite's dev server, on a port of its own.
StartDev(c) ==
    /\ At(c, "vite") /\ conf.vite /\ Ensured
    /\ IF freePort(VitePort) = NoPort THEN Fail(c) /\ UNCHANGED taken
       ELSE On(c) /\ taken' = taken \cup {freePort(VitePort)}
    /\ UNCHANGED <<conf, world, ver, out>>

EnsureDone(c) ==
    /\ At(c, "ensure") /\ conf.vite /\ Ensured /\ On(c)
    /\ UNCHANGED <<conf, world, taken, ver, out>>

typeCheck(c) ==
    /\ At(c, "check") /\ conf.vite
    /\ On(c) \/ (conf.ts /\ Fail(c))
    /\ UNCHANGED <<conf, world, taken, ver, out>>

\* A build that fills dist, or has filled it and not embedded it yet.
Embedding(o) == cmd[o].kind = "build" /\ \E step \in {"fill", "keep", "templ", "read"} : At(o, step)

\* The commands after c, now r, has changed what is in dist.
Crosses(c, r) ==
    [o \in Commands |-> IF o = c THEN r ELSE IF Embedding(o) THEN [cmd[o] EXCEPT !.crossed = TRUE] ELSE cmd[o]]

Further(c) == [cmd[c] EXCEPT !.at = @ + 1, !.waits = FALSE]

\* Vite reads the sources, ...
BundleReads(c) ==
    /\ At(c, "bundle") /\ conf.vite
    /\ cmd' = [cmd EXCEPT ![c].at = @ + 1, ![c].read["web"] = ver["web"]]
    /\ UNCHANGED <<conf, world, taken, ver, out>>

\* ... empties dist, the placeholder included, ...
BundleEmpties(c) ==
    /\ At(c, "empty") /\ conf.vite
    /\ out' = [out EXCEPT !.dist = Gone, !.keep = FALSE]
    /\ cmd' = Crosses(c, Further(c))
    /\ UNCHANGED <<conf, world, taken, ver>>

\* ... and fills it; what another command did there meanwhile may be what stays.
BundleFills(c) ==
    /\ At(c, "fill") /\ conf.vite
    /\ \E d \in {cmd[c].read["web"]} \cup (IF cmd[c].crossed THEN {out.dist, Torn} ELSE {}) :
         out' = [out EXCEPT !.dist = d]
    /\ cmd' = Crosses(c, Further(c))
    /\ UNCHANGED <<conf, world, taken, ver>>

\* Both take a while: some files are gone, or there, and others not.
BundlePart(c) ==
    /\ conf.vite
    /\ \/ At(c, "empty") /\ out.dist # Gone /\ \E k \in {out.keep, FALSE} : out' = [out EXCEPT !.dist = Torn, !.keep = k]
       \/ At(c, "fill") /\ out' = [out EXCEPT !.dist = Torn]
    /\ cmd' = Crosses(c, cmd[c])
    /\ UNCHANGED <<conf, world, taken, ver>>

\* A build of the frontend that fails or is stopped leaves dist as it is then,
\* without the placeholder once it was emptied.
BundleFails(c) ==
    /\ At(c, "bundle") \/ At(c, "empty") \/ At(c, "fill")
    /\ conf.vite /\ Fail(c)
    /\ UNCHANGED <<conf, world, taken, ver, out>>

writeKeepFile(c) ==
    /\ At(c, "keep") /\ conf.vite
    /\ \/ On(c) /\ out' = [out EXCEPT !.keep = TRUE]
       \/ ~out.keep /\ Fail(c) /\ UNCHANGED out
    /\ UNCHANGED <<conf, world, taken, ver>>
-----------------------------------------------------------------------------
(* Building and running.                                                   *)

RunTempl(c) ==
    /\ At(c, "templ")
    /\ \/ On(c) /\ out' = [out EXCEPT !.gen = ver["views"]]
       \/ Fail(c) /\ UNCHANGED out
    /\ UNCHANGED <<conf, world, taken, ver>>

\* go build reads the sources, and embeds what is in dist, which has to be
\* something ...
GoReads(c) ==
    /\ At(c, "read")
    /\ \/ /\ conf.vite => out.keep \/ out.dist # Gone
          /\ cmd' = [cmd EXCEPT ![c].at = @ + 1,
                                ![c].read = [ver EXCEPT !["views"] = out.gen, !["web"] = out.dist]]
       \/ Fail(c)
    /\ UNCHANGED <<conf, world, taken, ver, out>>

\* ... and writes the binary: ry build its own, the others the one in storage/tmp.
GoWrites(c) ==
    LET k == cmd[c].kind
    IN  /\ At(c, "write")
        /\ out' = IF k = "build" THEN [out EXCEPT !.release = cmd[c].read, !.released = TRUE]
                  ELSE [out EXCEPT !.dev = cmd[c].read]
        /\ cmd' = [d \in Commands |->
                     IF d = c THEN [cmd[c] EXCEPT !.at = @ + 1, !.ran = cmd[c].read]
                     ELSE IF At(d, "run") /\ k # "build" THEN [cmd[d] EXCEPT !.crossed = TRUE] ELSE cmd[d]]
        /\ UNCHANGED <<conf, world, taken, ver>>

\* ry start runs what ry build wrote, if it did.
Stat(c) ==
    /\ At(c, "stat")
    /\ IF out.released THEN On(c) ELSE Fail(c)
    /\ UNCHANGED <<conf, world, taken, ver, out>>

runBinary(c) ==
    /\ At(c, "run")
    /\ cmd' = [cmd EXCEPT ![c].at = @ + 1,
                          ![c].ran = IF cmd[c].kind = "start" THEN out.release ELSE out.dev]
    /\ UNCHANGED <<conf, world, taken, ver, out>>
-----------------------------------------------------------------------------
SaveSource(x) ==
    /\ ver["go"] + ver["views"] + ver["web"] < MaxVersion
    /\ ver' = [ver EXCEPT ![x] = @ + 1]
    /\ UNCHANGED <<conf, world, taken, out, cmd>>

LaunchNext ==
    \/ \E c \in Commands :
         \/ Launched(c) \/ ServicesSkip(c) \/ composeUp(c) \/ ServicesReady(c) \/ composeFailure(c)
         \/ Addr(c) \/ Ensure(c) \/ NoFrontend(c) \/ StartDev(c) \/ EnsureDone(c) \/ typeCheck(c)
         \/ BundleReads(c) \/ BundleEmpties(c) \/ BundleFills(c) \/ BundlePart(c) \/ BundleFails(c)
         \/ writeKeepFile(c) \/ RunTempl(c) \/ GoReads(c) \/ GoWrites(c) \/ Stat(c) \/ runBinary(c)
    \/ Container
    \/ \E x \in Parts : SaveSource(x)

LaunchSpec == LaunchInit /\ [][LaunchNext]_launchVars
-----------------------------------------------------------------------------
(* Properties.                                                             *)

\* Whether a binary is made of nothing older than what c found when it began.
NoOlder(v, c) == v["go"] >= cmd[c].began["go"] /\ v["views"] >= cmd[c].began["views"]

\* A command that has written its binary to storage/tmp.
BuiltDev(d) == cmd[d].kind \in {"dev", "forward"} /\ cmd[d].at >= Len(Plan(cmd[d].kind))

\* A command that got through has built and run nothing older than what it
\* found when it began: templ before the compiler, the frontend before the
\* embedding, also while other commands build.  Where another command crossed
\* it, the binary that runs is no older than what one that wrote it found, and
\* the frontend in a release is not spoken of.
NothingOlderRuns ==
    \A c \in Commands : Over(c) =>
        /\ cmd[c].kind = "build" => NoOlder(cmd[c].ran, c)
        /\ cmd[c].kind = "build" /\ conf.vite /\ ~cmd[c].crossed =>
              cmd[c].ran["web"] \in cmd[c].began["web"]..MaxVersion
        /\ cmd[c].kind \in {"dev", "forward"} =>
              \E d \in Commands : (d = c \/ cmd[c].crossed) /\ BuiltDev(d) /\ NoOlder(cmd[c].ran, d)
=============================================================================
