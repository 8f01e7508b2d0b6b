------------------------------ MODULE DevLoop ------------------------------
(***************************************************************************)
(* `ry dev`: the watcher rebuilds and restarts the application when its    *)
(* sources change (cmd/ry/internal/watcher), the application's server      *)
(* shuts down when it is told to (app/server.go), and the pages open in a  *)
(* browser notice that the server was replaced (devreload).                *)
(*                                                                         *)
(* Four actors: the developer who saves files and opens pages, the         *)
(* watcher's loop, the child process, the browser.  Saves arrive while a   *)
(* build runs, and the child ends when it likes.                           *)
(***************************************************************************)
EXTENDS Naturals, FiniteSets, SequencesExt

CONSTANTS
    Files,      \* paths (sequences of names) of the sources the developer saves
    Views,      \* those of them that templ turns into Go code
    Generated,  \* the path templ writes
    OldDirs,    \* directories there are when ry dev starts; the root is <<>>
    NewDirs,    \* directories the developer may add
    Ignores,    \* what ry dev ignores: one name, or a path from the root
    HiddenNames, TemplNames, BackupNames, WatchedNames, \* names by how they are spelled
    Pages,      \* pages open in the browser
    Boots,      \* boot ids; enough for a fresh one at every start
    MaxSaves,   \* bound: saves
    QueueLimit, \* bound: events the operating system keeps for the watcher
    None        \* no boot id

ASSUME DevLoopAssumption ==
    /\ Views \subseteq Files
    /\ MaxSaves \in Nat /\ QueueLimit \in Nat
    /\ IsFiniteSet(Boots) /\ IsFiniteSet(Pages)
    /\ Cardinality(Boots) > 2 * Cardinality(Pages) + 1
    /\ None \notin Boots

\* Paths are sequences of names, and sources are named so that a change is noticed.
ASSUME PathsAssumption ==
    /\ \A f \in Files : f \in Seq(STRING) /\ f # <<>> /\ Last(f) \in WatchedNames \ (TemplNames \cup BackupNames)
    /\ OldDirs \subseteq Seq(STRING) /\ Ignores \subseteq Seq(STRING)

VARIABLES
    saved,      \* saved[f]: how often f was saved
    broken,     \* files that do not compile as they were last saved
    dirs,       \* directories there are
    watched,    \* directories the watcher was added to
    events,     \* file events the loop has not taken yet
    pending,    \* an event was taken and the debounce timer runs
    loop,       \* where the watcher's loop is
    gen,        \* the views as templ last compiled them
    attempt,    \* the sources the last build read, and which of them were broken
    bin,        \* the sources of the binary in storage/tmp
    cancelled,  \* Ctrl-C
    server,     \* the child process
    page,       \* page[p]: a page in the browser
    missed      \* history: an event was dropped

sourceVars == <<saved, broken, dirs>>
watchVars == <<watched, events, pending, loop, gen, attempt, bin, cancelled, missed>>
devVars == <<sourceVars, watchVars, server, page>>

Sources == [Files -> Nat]

\* A child: is it alive, with an ordinary request in flight, which one, built from what.
Server == [state: {"off", "up", "draining", "gone"}, busy: BOOLEAN, boot: Boots, build: Sources]

\* A page: what the browser shows, the instance that served it, the boot id its
\* script has been told, and whether its event stream is open.
Page == [at: {"closed", "html", "mute", "script", "reload", "error"},
         served: Boots, build: Sources, boot: Boots \cup {None}, open: BOOLEAN]

DevTypeOK ==
    /\ saved \in Sources /\ gen \in Sources /\ bin \in Sources
    /\ broken \subseteq Files
    /\ dirs \subseteq OldDirs \cup NewDirs /\ watched \subseteq dirs
    /\ \A e \in events : e.op \in {"write", "create"}
    /\ pending \in BOOLEAN /\ cancelled \in BOOLEAN /\ missed \in BOOLEAN
    /\ loop \in {"begin", "select", "stop", "templ", "build", "compile", "start", "quit", "ended"}
    /\ attempt \in [src: Sources, broken: SUBSET Files]
    /\ server \in Server
    /\ page \in [Pages -> Page]

Nothing == [f \in Files |-> 0]
NoAttempt == [src |-> Nothing, broken |-> {}]

\* A page without a document of the application.
Empty(at) == [at |-> at, served |-> CHOOSE b \in Boots : TRUE, build |-> Nothing, boot |-> None, open |-> FALSE]

DevInit ==
    /\ saved = Nothing /\ gen = Nothing /\ bin = Nothing
    /\ broken = {}
    /\ dirs = OldDirs /\ watched = {}
    /\ events = {} /\ pending = FALSE
    /\ loop = "begin"
    /\ attempt = NoAttempt
    /\ cancelled = FALSE /\ missed = FALSE
    /\ server = [state |-> "off", busy |-> FALSE, boot |-> CHOOSE b \in Boots : TRUE, build |-> Nothing]
    /\ page = [p \in Pages |-> Empty("closed")]
-----------------------------------------------------------------------------
(* Which events count.                                                     *)

\* A bare name is ignored at any depth, a path only from the root; so is
\* whatever has a hidden name in its path.
ignored(path) ==
    \/ \E ig \in Ignores : IF Len(ig) = 1 THEN ig[1] \in Range(path) ELSE IsPrefix(ig, path)
    \/ \E i \in DOMAIN path : path[i] \in HiddenNames

\* The directories below root, without the ignored ones and what they hold.
addDirs(root) ==
    {d \in dirs : IsPrefix(root, d) /\ (d = root \/ ~ignored(SubSeq(d, Len(root) + 1, Len(d))))}

\* Faulty variant: the loop reacts to the code templ writes itself.
relevant_m1(e) ==
    /\ e.op # "chmod"
    /\ Last(e.path) \notin BackupNames
    /\ ~ignored(e.path)
    /\ Last(e.path) \in WatchedNames

relevant(e) ==
    /\ e.op # "chmod"
    /\ Last(e.path) \notin TemplNames \cup BackupNames
    /\ ~ignored(e.path)
    /\ Last(e.path) \in WatchedNames

\* The operating system reports what happens in a watched directory; when its
\* queue is full it drops the event and all the loop sees is an error.
Notify(op, path) ==
    LET e == [op |-> op, path |-> path]
    IN  IF Front(path) \notin watched THEN UNCHANGED <<events, missed>>
        ELSE IF Cardinality(events) < QueueLimit THEN events' = events \cup {e} /\ UNCHANGED missed
        ELSE events' = events /\ missed' = (missed \/ e \notin events)
-----------------------------------------------------------------------------
(* The developer.                                                          *)

Save(f) ==
    /\ MapThenSumSet(LAMBDA g : saved[g], Files) < MaxSaves /\ Front(f) \in dirs
    /\ saved' = [saved EXCEPT ![f] = @ + 1]
    /\ broken' \in {broken \cup {f}, broken \ {f}}
    /\ Notify("write", f)
    /\ UNCHANGED <<dirs, watched, pending, loop, gen, attempt, bin, cancelled, server, page>>

MakeDir(d) ==
    /\ d \notin dirs
    /\ dirs' = dirs \cup {d}
    /\ Notify("create", d)
    /\ UNCHANGED <<saved, broken, watched, pending, loop, gen, attempt, bin, cancelled, server, page>>

Cancel ==
    /\ cancelled' = TRUE
    /\ UNCHANGED <<sourceVars, watched, events, pending, loop, gen, attempt, bin, missed, server, page>>

\* What a Go build compiles: the sources as they are, the views as templ left them.
Current == [f \in Files |-> IF f \in Views THEN gen[f] ELSE saved[f]]
-----------------------------------------------------------------------------
(* The child process and its server.                                       *)

\* The process is gone and with it every connection.
Exit ==
    /\ server' = [server EXCEPT !.state = "gone", !.busy = FALSE]
    /\ page' = [p \in Pages |-> [page[p] EXCEPT !.open = FALSE]]
    /\ UNCHANGED <<sourceVars, watchVars>>

Request ==
    /\ server.state = "up"
    /\ server' = [server EXCEPT !.busy = TRUE]
    /\ UNCHANGED <<sourceVars, watchVars, page>>

Answer ==
    /\ server.state \in {"up", "draining"} /\ server.busy
    /\ server' = [server EXCEPT !.busy = FALSE]
    /\ UNCHANGED <<sourceVars, watchVars, page>>

Crash == server.state = "up" /\ Exit

Open == server.busy \/ \E p \in Pages : page[p].open

\* Shutdown returns once nothing is open.
Drained == server.state = "draining" /\ ~Open /\ Exit

\* Something is still open when Shutdown times out, or when SIGKILL comes,
\* three seconds after SIGTERM.
Forced == server.state = "draining" /\ Open /\ Exit

\* The stream of a page ends: the server's context, every request's base
\* context, was cancelled, or the write timed out.
StreamEnds(p) ==
    /\ page[p].open
    /\ page' = [page EXCEPT ![p].open = FALSE]
    /\ UNCHANGED <<sourceVars, watchVars, server>>
-----------------------------------------------------------------------------
(* The loop.                                                               *)

Goto(s) == loop' = s

Begin ==
    /\ loop = "begin" /\ Goto("stop")
    /\ watched' = addDirs(<<>>)
    /\ UNCHANGED <<sourceVars, events, pending, gen, attempt, bin, cancelled, missed, server, page>>

\* Every relevant event sets the debounce timer back.
TakeEvent(e) ==
    /\ loop = "select"
    /\ events' = events \ {e}
    /\ pending' = (pending \/ relevant(e))
    /\ watched' = IF relevant(e) /\ e.op = "create" /\ e.path \in dirs
                  THEN watched \cup addDirs(e.path) ELSE watched
    /\ UNCHANGED <<sourceVars, loop, gen, attempt, bin, cancelled, missed, server, page>>

\* The timer fires: a rebuild.
TimerFires ==
    /\ loop = "select" /\ pending /\ Goto("stop")
    /\ pending' = FALSE
    /\ UNCHANGED <<sourceVars, watched, events, gen, attempt, bin, cancelled, missed, server, page>>

\* SIGTERM: the server stops accepting and waits for what is open.
Terminate ==
    /\ loop \in {"stop", "quit"} /\ server.state = "up"
    /\ server' = [server EXCEPT !.state = "draining"]
    /\ UNCHANGED <<sourceVars, watchVars, page>>

\* Nothing to stop, or the child has gone: the rebuild goes on, or ry dev ends.
Stopped ==
    /\ loop \in {"stop", "quit"} /\ server.state \in {"off", "gone"}
    /\ Goto(IF loop = "stop" THEN "templ" ELSE "ended")
    /\ UNCHANGED <<sourceVars, watched, events, pending, gen, attempt, bin, cancelled, missed, server, page>>

\* templ writes Go code beside the views, which the watcher sees as well.
Templ ==
    /\ loop = "templ" /\ broken \cap Views = {} /\ Goto("build")
    /\ gen' = saved
    /\ Notify("write", Generated)
    /\ UNCHANGED <<sourceVars, watched, pending, attempt, bin, cancelled, server, page>>

TemplFails ==
    /\ loop = "templ" /\ (broken \cap Views # {} \/ cancelled) /\ Goto("select")
    /\ attempt' = [src |-> Current, broken |-> broken]
    /\ UNCHANGED <<sourceVars, watched, events, pending, gen, bin, cancelled, missed, server, page>>

Build ==
    /\ loop = "build" /\ Goto("compile")
    /\ attempt' = [src |-> Current, broken |-> broken \ Views]
    /\ UNCHANGED <<sourceVars, watched, events, pending, gen, bin, cancelled, missed, server, page>>

Built ==
    /\ loop = "compile" /\ attempt.broken = {} /\ Goto("start")
    /\ bin' = attempt.src
    /\ attempt' = NoAttempt
    /\ UNCHANGED <<sourceVars, watched, events, pending, gen, cancelled, missed, server, page>>

BuildFails ==
    /\ loop = "compile" /\ (attempt.broken # {} \/ cancelled) /\ Goto("select")
    /\ UNCHANGED <<sourceVars, watched, events, pending, gen, attempt, bin, cancelled, missed, server, page>>

\* newBootID: an id nobody has seen.
newBootID == CHOOSE b \in Boots : b # server.boot /\ \A p \in Pages : b \notin {page[p].served, page[p].boot}

\* Faulty variant: what was saved during the build is taken for part of it.
Start_m1 ==
    /\ loop = "start" /\ Goto("select")
    /\ \E s \in {"up", "gone"} :
         server' = [state |-> s, busy |-> FALSE, boot |-> newBootID, build |-> bin]
    /\ events' = {}
    /\ UNCHANGED <<sourceVars, watched, pending, gen, attempt, bin, cancelled, missed, page>>

\* A new child with a boot id of its own; it may fail to start or to bind.
Start ==
    /\ loop = "start" /\ Goto("select")
    /\ \E s \in {"up", "gone"} :
         server' = [state |-> s, busy |-> FALSE, boot |-> newBootID, build |-> bin]
    /\ UNCHANGED <<sourceVars, watched, events, pending, gen, attempt, bin, cancelled, missed, page>>

\* Faulty variant: the loop returns and leaves the child to itself.
Quit_m1 ==
    /\ loop = "select" /\ cancelled /\ Goto("ended")
    /\ UNCHANGED <<sourceVars, watched, events, pending, gen, attempt, bin, cancelled, missed, server, page>>

\* ctx.Done, which the loop may see after other cases that are ready.
Quit ==
    /\ loop = "select" /\ cancelled /\ Goto("quit")
    /\ UNCHANGED <<sourceVars, watched, events, pending, gen, attempt, bin, cancelled, missed, server, page>>
-----------------------------------------------------------------------------
(* The browser.                                                            *)

Show(p, r) == page' = [page EXCEPT ![p] = r] /\ UNCHANGED <<sourceVars, watchVars, server>>

\* An HTML response, with the script tag the middleware puts into it.
Fresh == [at |-> "html", served |-> server.boot, build |-> server.build, boot |-> None, open |-> FALSE]

\* The developer opens the page, or loads it again.
Visit(p) == server.state = "up" /\ Show(p, Fresh)

\* The browser fetches the script, from whichever server is there by then.
LoadScript(p) ==
    /\ page[p].at = "html"
    /\ Show(p, IF server.state = "up" THEN [page[p] EXCEPT !.at = "script"] ELSE Empty("mute"))

\* Faulty variant: the script does not compare.
Connect_m1(p) ==
    /\ page[p].at = "script" /\ ~page[p].open /\ server.state = "up"
    /\ Show(p, [page[p] EXCEPT !.open = TRUE, !.boot = IF @ = None THEN server.boot ELSE @])

\* The event stream opens and its first message is the boot id: the script
\* keeps the first one it is told, and reloads the page when it is told another.
Connect(p) ==
    LET g == page[p]
    IN  /\ g.at = "script" /\ ~g.open /\ server.state = "up"
        /\ Show(p, [g EXCEPT !.open = TRUE,
                             !.boot = IF @ = None THEN server.boot ELSE @,
                             !.at = IF g.boot \in {None, server.boot} THEN @ ELSE "reload"])

Reload(p) ==
    /\ page[p].at = "reload"
    /\ Show(p, IF server.state = "up" THEN Fresh ELSE Empty("error"))
-----------------------------------------------------------------------------
Rebuild ==
    \/ Begin \/ Terminate \/ Stopped \/ Templ \/ TemplFails \/ Build \/ Built \/ BuildFails \/ Start

DevNext ==
    \/ \E f \in Files : Save(f)
    \/ \E d \in NewDirs : MakeDir(d)
    \/ Cancel
    \/ Request \/ Answer \/ Crash \/ Drained \/ Forced
    \/ Rebuild \/ TimerFires \/ Quit \/ \E e \in events : TakeEvent(e)
    \/ \E p \in Pages : Visit(p) \/ LoadScript(p) \/ Connect(p) \/ Reload(p) \/ StreamEnds(p)

\* The loop runs, and its select, which chooses at random, passes over no case
\* for ever; a child that was told to end does (SIGKILL sees to it); the browser
\* does its part.  Nobody has to save, open a page or stop ry dev.
DevFairness ==
    /\ WF_devVars(Rebuild) /\ WF_devVars(TimerFires) /\ WF_devVars(Quit)
    /\ WF_devVars(\E e \in events : TakeEvent(e))
    /\ WF_devVars(Drained \/ Forced)
    /\ \A p \in Pages : WF_devVars(LoadScript(p) \/ Connect(p) \/ Reload(p))

DevSpec == DevInit /\ [][DevNext]_devVars /\ DevFairness
-----------------------------------------------------------------------------
(* Properties.                                                             *)

\* The files the watcher follows: in directories it found when it started.
Followed == {f \in Files : Front(f) \in OldDirs /\ ~ignored(f)}

Runs(fs) == server.state # "off" /\ \A f \in fs : server.build[f] = saved[f]

\* The last save is built and started, although saves arrive during a build and
\* one burst is one rebuild: in the end ry dev has been stopped, an event was
\* dropped on the way to it, the sources do not compile, or the child that was
\* started last was built from them; and the loop rests.
LastSaveRuns ==
    <>[](cancelled \/ missed \/ (loop = "select" /\ (broken \cup (attempt.broken \ Followed) # {} \/ Runs(Followed))))

\* There is one child at a time: nothing is built, started or left behind while the
\* child before still runs or answers.
OneChild == loop \in {"templ", "build", "compile", "start", "ended"} => server.state \in {"off", "gone"}

\* The loop rests only on the last save: with no timer running and no event that counts
\* waiting, what was started last was built from the sources as they are, although
\* saves arrive while templ and the compiler have read and not yet written; unless
\* Ctrl-C came, an event was dropped, or the sources do not compile.
RestIsCurrent ==
    loop = "select" /\ ~pending /\ (\A e \in events : ~relevant(e)) =>
        cancelled \/ missed \/ broken \cup (attempt.broken \ Followed) # {} \/ Runs(Followed)

\* What Run says of new directories: "A new directory has to be watched too, or
\* files created inside it after this point are invisible."
EverySaveRuns ==
    <>[](cancelled \/ missed \/ (loop = "select" /\ (broken # {} \/ Runs(Files))))

\* devreload: a page shows the build that runs, or visibly failed to load,
\* whatever restarts it slept through; provided that its script got to run and
\* the first boot id it was told was that of the instance that served the page.
PagesCatchUp ==
    <>[](\A p \in Pages : LET g == page[p] IN
            \/ g.at \in {"closed", "mute", "error"} \/ server.state # "up"
            \/ g.boot \notin {None, g.served}
            \/ g.build = server.build)

\* A page whose event stream is open and that need not reload, as the boot id the stream
\* told first is that of the instance that served it, shows the build that runs, however
\* often the child was replaced: no two instances share a boot id.
OpenIsCurrent ==
    \A p \in Pages : page[p].at = "script" /\ page[p].open /\ page[p].boot = page[p].served =>
        page[p].build = server.build

\* Ctrl-C ends ry dev whatever it was doing, a build and a child that is still
\* answering included, and leaves no child behind.
StopsWhole == cancelled ~> [](loop = "ended" /\ server.state \in {"off", "gone"})
=============================================================================
