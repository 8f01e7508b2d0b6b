------------------------------ MODULE Release ------------------------------
(***************************************************************************)
(* Which version is the newest, and updating to it: `ry update` and the    *)
(* notice the other commands end with, from commands/update.go, root.go    *)
(* and release/release.go.                                                 *)
(*                                                                         *)
(* The module proxy answers from two caches that lag behind each other;    *)
(* what a command learns is kept in a file for a day, which commands that  *)
(* run at the same time read and replace.                                  *)
(*                                                                         *)
(* A release is a number; a build between release n - 1 and n has a        *)
(* pseudo-version, which semver puts between the two.                      *)
(***************************************************************************)
EXTENDS Integers, FiniteSets

CONSTANTS
    Askers,         \* commands started, each once
    Installs,       \* what they are asked to do and the versions there are
    CheckInterval,  \* how long a look-up is kept, in hours
    MaxRelease,     \* bound: releases
    MaxHour,        \* bound: the clock
    NoEntry         \* no cache file; no project; no version to tell

ASSUME ReleaseAssumption ==
    CheckInterval \in Nat /\ MaxRelease \in Nat \ {0} /\ MaxHour \in Nat

\* Version(), and the framework's version in go.mod, which is also "local".
Version == [kind: {"release", "pseudo", "dirty", "dev", "local"}, n: 0..MaxRelease]

\* What a command is: one that ends with the notice, or ry update with its flags.
Ask == [update: BOOLEAN, self: BOOLEAN, all: BOOLEAN, check: BOOLEAN, refresh: BOOLEAN, disabled: BOOLEAN]

Endpoints == {"@latest", "@v/list"}

VARIABLES
    hour,
    tagged,     \* the newest release there is
    proxy,      \* proxy[e]: the newest release endpoint e knows of
    entry,      \* the cache file: a version, 0 for a failure, and when it was written
    cli,        \* the version of ry that is installed
    framework,  \* the version in the project's go.mod, or NoEntry outside one
    asker,      \* asker[c]: a command
    news        \* history: news[v], since when both endpoints know of v

releaseVars == <<hour, tagged, proxy, entry, cli, framework, asker, news>>

Hours == 0..MaxHour
Versions0 == 0..MaxRelease

\* A command: where it is, what each endpoint told it (0: an error), the answer
\* and when it had it, its own version and that of the project, what it says is
\* behind, and what it has yet to update.
Asker == [ask: Ask, at: {"ready", "latest", "list", "write", "told", "done", "failed"},
          heard: [Endpoints -> Versions0], since: Hours, info: Versions0, toldAt: Hours,
          own: Version, framework: Version \cup {NoEntry}, says: SUBSET {"self", "project"},
          left: SUBSET {"self", "project"}]

\* The cache file.
Entry == [version: Versions0, at: Hours]

ASSUME InstallsAssumption ==
    /\ Installs \subseteq [cli: Version, framework: Version \cup {NoEntry}, asks: [Askers -> Ask]]
    /\ NoEntry \notin Hours /\ NoEntry \notin Version /\ NoEntry \notin Entry

Unheard == [e \in Endpoints |-> 0]

ReleaseTypeOK ==
    /\ hour \in Hours /\ tagged \in Versions0
    /\ proxy \in [Endpoints -> 0..tagged]
    /\ entry \in Entry \cup {NoEntry}
    /\ cli \in Version /\ framework \in Version \cup {NoEntry}
    /\ asker \in [Askers -> Asker]
    /\ news \in [Versions0 -> Hours \cup {NoEntry}]

ReleaseInit ==
    /\ hour = 0 /\ tagged = 1
    /\ proxy = [e \in Endpoints |-> 1]
    /\ entry = NoEntry
    /\ \E s \in Installs :
         /\ cli = s.cli /\ framework = s.framework
         /\ asker = [c \in Askers |-> [ask |-> s.asks[c], at |-> "ready", heard |-> Unheard, since |-> 0,
                                       info |-> 0, toldAt |-> 0, own |-> s.cli, framework |-> NoEntry,
                                       says |-> {}, left |-> {}]]
    /\ news = [v \in Versions0 |-> IF v = 1 THEN 0 ELSE NoEntry]
-----------------------------------------------------------------------------
(* The world, followed as long as there is a command that has not been told. *)

Untold == \E c \in Askers : asker[c].at \in {"ready", "latest", "list", "write"}

Tag ==
    /\ Untold /\ tagged < MaxRelease
    /\ tagged' = tagged + 1
    /\ UNCHANGED <<hour, proxy, entry, cli, framework, asker, news>>

CatchUp(e) ==
    /\ Untold /\ proxy[e] < tagged
    /\ proxy' = [proxy EXCEPT ![e] = tagged]
    /\ news' = [v \in Versions0 |->
                  IF news[v] = NoEntry /\ \A x \in Endpoints : proxy'[x] >= v THEN hour ELSE news[v]]
    /\ UNCHANGED <<hour, tagged, entry, cli, framework, asker>>

\* A look-up is given up after seconds: it can cross one full hour, not two.
HourPasses ==
    /\ Untold /\ hour < MaxHour
    /\ \A c \in Askers : asker[c].at \in {"latest", "list", "write"} => asker[c].since = hour
    /\ hour' = hour + 1
    /\ UNCHANGED <<tagged, proxy, entry, cli, framework, asker, news>>
-----------------------------------------------------------------------------
(* Looking up the newest version.                                          *)

\* Faulty variant: an answer is kept until somebody asks for a fresh one.
readCache_m1 == entry # NoEntry

\* A failure that was remembered counts as an answer, too.
readCache == entry # NoEntry /\ hour - entry.at <= CheckInterval

\* The order of semver: a pseudo-version is below the release it leads to.
SemVer(b) == IF b.kind = "pseudo" THEN 2 * b.n - 1 ELSE 2 * b.n

\* A build of a dirty tree, "dev" and a local checkout are never out of date; a
\* build with a pseudo-version is compared like a release.
IsNewer(current, latest) ==
    current # NoEntry /\ latest # 0 /\ current.kind \in {"release", "pseudo"} /\ 2 * latest > SemVer(current)

\* The command has its answer, where version 0 is none, and says what is behind.
Told(r, v) == [r EXCEPT !.at = "told", !.info = v, !.toldAt = hour, !.since = 0, !.heard = Unheard,
                        !.says = {x \in {"self", "project"} : IsNewer(IF x = "self" THEN r.own ELSE r.framework, v)}]

\* gatherStatus: the versions are read before the look-up, Cached or Refresh.
gatherStatus(c) ==
    LET a == asker[c].ask
        r == [asker[c] EXCEPT !.own = cli, !.framework = framework, !.since = hour]
    IN  /\ asker[c].at = "ready"
        /\ asker' = [asker EXCEPT ![c] =
             IF a.refresh \/ (~a.disabled /\ ~readCache) THEN [r EXCEPT !.at = "latest"]
             ELSE Told(r, IF a.disabled THEN 0 ELSE entry.version)]
        /\ UNCHANGED <<hour, tagged, proxy, entry, cli, framework, news>>

\* latestEndpoint, then highestListed; each may fail.
Fetch(c) ==
    LET e == IF asker[c].at = "latest" THEN "@latest" ELSE "@v/list"
    IN  /\ asker[c].at \in {"latest", "list"}
        /\ \E v \in {proxy[e], 0} :
             asker' = [asker EXCEPT ![c].heard[e] = v, ![c].at = IF @ = "latest" THEN "list" ELSE "write"]
        /\ UNCHANGED <<hour, tagged, proxy, entry, cli, framework, news>>

\* Latest: the higher of what the endpoints said, if one of them said anything.
Latest(heard) == IF heard["@v/list"] > heard["@latest"] THEN heard["@v/list"] ELSE heard["@latest"]

\* The answer is written to the file, which may fail without a word: also a
\* failure, but not by Refresh.
writeCache(c) ==
    LET v == Latest(asker[c].heard)
        kept == IF v # 0 \/ ~asker[c].ask.refresh THEN {[version |-> v, at |-> hour]} ELSE {}
    IN  /\ asker[c].at = "write"
        /\ entry' \in {entry} \cup kept
        /\ asker' = [asker EXCEPT ![c] = Told(asker[c], v)]
        /\ UNCHANGED <<hour, tagged, proxy, cli, framework, news>>

-----------------------------------------------------------------------------
(* Updating.                                                               *)

\* What is to be updated: outside a project the CLI, whatever was asked.
applyUpdate(c) ==
    LET a == asker[c].ask
        self == a.self \/ a.all \/ asker[c].framework = NoEntry
        left == (IF self THEN {"self"} ELSE {})
                \cup (IF asker[c].framework # NoEntry /\ (a.all \/ ~a.self) THEN {"project"} ELSE {})
    IN  /\ asker[c].at = "told" /\ asker[c].left = {}
        /\ asker' = IF ~a.update \/ a.check THEN [asker EXCEPT ![c].at = "done"]
                    ELSE [asker EXCEPT ![c].left = left]
        /\ UNCHANGED <<hour, tagged, proxy, entry, cli, framework, news>>

UpdateDone(c, part) ==
    asker' = [asker EXCEPT ![c].left = @ \ {part}, ![c].at = IF asker[c].left = {part} THEN "done" ELSE @]

UpdateFails(c) == asker' = [asker EXCEPT ![c].at = "failed"]

\* go install: the version is the one the proxy calls the latest.
UpdateSelf(c) ==
    /\ asker[c].at = "told" /\ "self" \in asker[c].left
    /\ \/ UpdateDone(c, "self") /\ cli' = [kind |-> "release", n |-> proxy["@latest"]]
       \/ UpdateFails(c) /\ UNCHANGED cli
    /\ UNCHANGED <<hour, tagged, proxy, entry, framework, news>>

\* go get, then go mod tidy, whose failure leaves the new version in go.mod.
UpdateProject(c) ==
    LET pinned == [kind |-> "release", n |-> proxy["@latest"]]
        local == asker[c].framework.kind = "local"
    IN  /\ asker[c].at = "told" /\ asker[c].left = {"project"}
        /\ \/ ~local /\ UpdateDone(c, "project") /\ framework' = pinned
           \/ ~local /\ UpdateFails(c) /\ framework' = pinned
           \/ UpdateFails(c) /\ UNCHANGED framework
        /\ UNCHANGED <<hour, tagged, proxy, entry, cli, news>>

ReleaseNext ==
    \/ Tag \/ HourPasses \/ \E e \in Endpoints : CatchUp(e)
    \/ \E c \in Askers : gatherStatus(c) \/ Fetch(c) \/ writeCache(c) \/ applyUpdate(c)
                         \/ UpdateSelf(c) \/ UpdateProject(c)

ReleaseSpec == ReleaseInit /\ [][ReleaseNext]_releaseVars
-----------------------------------------------------------------------------
(* Properties.                                                             *)

\* CheckInterval: a release is noticed within a day.  A command that is told a
\* version, from the file or from the proxy, is told nothing older than what
\* both endpoints knew of a day and the time of one look-up before, whichever
\* command wrote the file and although a slow one may write what it heard over
\* the fresher answer of another; and what it says is behind, a release or a
\* pseudo-version, is below a release there is.
NewsWithinADay ==
    \A c \in Askers : asker[c].at \in {"told", "done", "failed"} /\ asker[c].info # 0 =>
        /\ \A v \in Versions0 : news[v] # NoEntry /\ news[v] + CheckInterval + 1 < asker[c].toldAt =>
              asker[c].info >= v
        /\ "self" \in asker[c].says => SemVer(asker[c].own) < 2 * tagged
        /\ "project" \in asker[c].says => SemVer(asker[c].framework) < 2 * tagged

\* IsNewer, "A development build - anything untagged, dirty, or carrying a
\* pseudo-version - is never out of date": no command says so of one.
DevBuildNeverBehind ==
    \A c \in Askers :
        /\ "self" \in asker[c].says => asker[c].own.kind = "release"
        /\ "project" \in asker[c].says => asker[c].framework.kind = "release"
=============================================================================
