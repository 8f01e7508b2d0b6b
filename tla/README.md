# A TLA+ development of Ryla

Ryla is a Go web framework: a library (`queue`, `session`, `cache`, `schedule`,
`migrate`, ...), a command line tool (`cmd/ry`) that scaffolds and runs
applications, and the project's own site.  This directory holds TLA+ models of
the parts where state is shared between processes, goroutines, requests or
restarts, the TLC configurations that check them on small instances, and TLAPS
proofs of the most important facts for every size.

Module names below are files here; paths such as `queue/worker.go` are relative
to `src/`.  `PROJECT.json` maps every definition to the lines it models.

## 1. Inventory

| Component | State | Operations | Hard behaviour |
|---|---|---|---|
| `queue` worker (`worker.go`) | loop goroutine, semaphore, in-flight records, context | `Run`, `process`, `run`, shutdown, drain timeout | claims before it has a token; hand-back at shutdown; a job that hangs; a process that dies |
| `queue` drivers (`db_driver.go`, `mongo/`, `redis/`) | jobs, reservations, attempts, failed jobs | `Push`, `Claim`, `Complete`, `Release`, `Fail`, `Retry` | workers race for a job; reservations lapse while the job runs, then late calls arrive; multi-write operations cut short |
| `session` (`middleware.go`, stores), `auth` login | rows, browser cookies, a session per request | `Load`, `Touch`, `Regenerate`, `Save`, `Destroy`, `DestroyForUser`, `Prune` | read at the start of a request, written at its end; overlapping requests; failed saves; lost answers |
| `schedule` | last-run times, running flags, the ticker | `Run`, `RunOnce`, `due`, `run` | `due` reads what a goroutine of an earlier tick has yet to write; restarts |
| `ratelimit` | buckets, last sweep | `Allow`, `Reset`, `sweep` | the sweep discards a bucket whatever it holds |
| `cache` | entries, one singleflight group per process | `Remember`, `Get`, `Set`, `Delete`, `Clear`, `Prune` | a miss that arrives after the value was stored; an old value written back |
| `migrate` | `schema_migrations`, the schema | `Up`, `Rollback`, `Reset`, `Refresh` | two deploys at once; a run cut short; binaries from other branches |
| `session/redis` | keys and a per-user index, which expire by themselves | as `session`, command by command | index and session are two keys; each operation is several commands |
| `cookie`, `csrf`, `flash` | signed cookies in a browser with several tabs | `Set`, `Get`, `Delete`; `Protect`; `Add`, `Pull` | a request carries the cookies of the moment it was sent; answers arrive in any order |
| `twofactor` and the flow generated around it | the account's columns, a pending secret per session, the throttle, the vault's key | set up, enable, challenge, recover, disable | read, verify and write without a transaction; the shared throttle |
| `mail` | a queued job, an SMTP exchange | `Queued.Send`, `SendJob.Run`, `SMTPMailer.Send` | the server takes the message and the answer is lost; several recipients |
| `ry dev`: watcher, `app` server, `devreload` | sources, events, generated code, binary, child process, open pages | save, rebuild, restart, drain, reload | events during a rebuild; shutdown raced by requests and by SIGKILL; pages that sleep through restarts |
| `ry dev`, `build`, `start`, forwarded commands | container, ports, `node_modules`, `dist`, binaries | the steps of each command | two commands share all of it; any step fails |
| `ry new`, `make:`, `db:compose`, `key:generate` | the files of a project, `.env`, `ryla.yaml` | check for collisions, write file by file | two generators and a developer; a failure in the middle |
| `ry update` and the notice | the cached newest version, the proxy's two endpoints | look up, cache, update | commands that overwrite each other's cache |
| `bearer`, `auth` tokens, `router`, `validate`, `middleware`, `config`, `log`, `view`, `db`/`mongo`/`redis` clients, `testing`, `site`, templates | little or none shared | wiring, pure functions, I/O | little for a model checker |

How they interact: an application dispatches jobs through a driver
(`mail` among them) and runs workers as separate processes which meet only in
the store; the session middleware wraps handlers, `auth` and `twofactor` change
the request's session and the middleware saves it; `twofactor` guards its
verifier with `ratelimit`; `schedule` and the workers run in processes of their
own and are stopped by a cancelled context; `ry dev` builds the application,
runs it as a child and restarts it, and the pages it serves find that out from
`devreload`; every `ry` command shares the project's files, containers, ports and
binaries with the others.

What makes each correct: a dispatched job is never lost, is held by one
goroutine at a time and ends; a session id belongs to one user and ends when it
is ended; a task has one copy and starts on schedule; a key gets its burst and
no more; a value is computed once and is stale for a bounded time; the schema is
what is recorded; "log out everywhere" finds every session; a recovery code
lets in once; a mail goes to all its recipients or to none; a second tab does
not break the first; what was saved last is what runs and what pages show; a
generator changes nothing of yours.  Section 3 says how that is stated.  `PROJECT.json` lists the
hazards one by one, at their lines, each with the properties that would catch it.

## 2. Modules

| Module | Models |
|---|---|
| `QueueWorker` | `queue/worker.go`, `queue.go`: worker loop, tokens, shutdown, outcomes of a run, backoff |
| `DBQueue` | `QueueWorker` with `queue/db_driver.go` |
| `MongoQueue` | `QueueWorker` with `queue/mongo/mongo.go` |
| `RedisQueue` | `QueueWorker` with `queue/redis/redis.go` |
| `JobLedger` | abstract specification: what `queue` promises of a job |
| `DBQueueProofs`, `MongoQueueProofs`, `RedisQueueProofs`, `JobLedgerProofs` | proofs about the queue |
| `Session` | `session` with the database and MongoDB stores, `auth.Login` and `Logout`, the session cookie |
| `Clock` | the clock of the in-process services |
| `Schedule`, `RateLimit`, `Cache`, `Migrate` | the packages of the same names |
| `SessionProofs`; `ServiceProofs` | proofs about `Session`; about `Schedule`, `RateLimit`, `Cache` and `Migrate` |
| `RedisSessions` | `session/redis/redis.go` |
| `Browser` | `cookie`, `csrf` and `flash`, with the browser |
| `TwoFactor` | `twofactor` over `RateLimit`, with the controllers `ry make:2fa` generates |
| `Mail` | `mail/job.go`, `mail/mailer.go`, the validation of `mail/message.go` |
| `WebProofs` | proofs about `RedisSessions`, `Browser`, `TwoFactor` and `Mail`, and about all the services of `MCServices` |
| `DevLoop` | `ry dev`: `watcher`, `toolchain`, `app/server.go`, `devreload` |
| `Launch` | `commands/run.go`, `dbstart.go`, `port.go`, `frontend`: dev, build, start, forwarded commands |
| `Scaffold` | `commands/new.go`, `make.go`, `auth.go`, `dbsetup.go`, `key.go`, `scaffold`, `twofactor.go`: what generators write |
| `Release` | `release`, `commands/update.go`, the notice in `root.go` |
| `ToolingProofs` | proofs about `DevLoop`, `Launch`, `Scaffold` and `Release`, and about `MCTooling` |
| `MC*` | instances for TLC |

**Queue.**  `loop[w]`, `ctx[w]` and `hand[w]` are the loop goroutine of
`Worker.Run`: its position, its context and the record between `Claim` and the
semaphore; `slot[k]` is the goroutine that owns token `k`.  Actions of
`QueueWorker` are the worker's half of a step; each driver conjoins the store's
half, so that a call is one step exactly where the driver makes it atomic.  In
`DBQueue`, `Claim` is a select (`ClaimSelect`) and a guarded update
(`ClaimUpdate`, `ClaimMiss`, `ClaimError`) under READ COMMITTED, `Fail` is one
transaction, `Retry` reads and then commits.  In `MongoQueue`, `Claim` is one
`FindOneAndUpdate`, `Fail` two writes, `Retry` three calls.  In `RedisQueue`,
`Claim` is the Lua script, the others are `MULTI` pipelines, `Retry` three
calls, and the failed list is trimmed.  `Crash` and `DrainTimeout` lose what is
in memory, `Restart` starts over.  Job payloads are the job's id and name; what
a job does is whether `Run` returns nil or an error (a panic is an error).
`done`, `tries`, `requeued`, `trimmed` and `overran` are history.  A claim is
*punctual* while the clock is within its reservation; `overran` records that
some claim was not, and properties that need punctual claims say so.

**Session.**  `req[q]` is a request in flight with its copy of the session; its
phases are the middleware's: load (two steps when the row has expired), handler,
save at the first write, answer.  `Carried` sessions are those some request has
in memory.  The data is the user it identifies; any other key only makes it
dirty.  Cookies do not expire in the browser.  An id is numbered when first
saved: before, nobody knows it.

**Schedule.**  A goroutine that was started (`spawned`) and one inside the task
(`inRun`) are distinct.  The ticker's channel holds one tick; a slow loop loses
the others.  Time of day is the clock modulo `DayLength`.

**RateLimit.**  A token is `Window` units, so the refill of `limit/window` per
unit of time is exact in the integers; float rounding is left out.
`drawn` is history: the largest excess of what was let through over what
refilled, over all stretches that end now.

**Cache.**  One key; `flight[p]` is the singleflight of a process; reading an
expired entry and deleting it are two steps.  `truth` is what `compute` would
return, changed by the application at any time.

**Migrate.**  A command reads `schema_migrations` once; each migration is a
transaction.  Any operator may run from a binary with any subset of migrations.
Databases with transactional DDL only (the runner's own caveat).

**RedisSessions.**  One user.  `keys[s]` has the expiry in the payload and the one
of Redis, `index` is the set of ids; every Redis command is a step of its own.
`astray` is history: sessions whose last save or `Destroy` was cut short, or whose
`SAdd` was undone by a concurrent `DestroyForUser` or by the end of the index.
Requests are no longer than `MaxVisit`, which with `Minute` fits into the hour the
index is kept longer (an assumption; see the observations below).

**Browser.**  One browser.  A request keeps the cookies it was sent with; the
server never sees what it has just set.  `Handlers` are the sequences of `Add` and
`Pull` a handler makes.  `was` is history: overlaps, refusals, messages told.

**TwoFactor.**  One account.  `account` is the row, `ask[s]` a request with the
account as it read it.  Read, throttle (`Allow`), `Reset` and write are steps of
their own; the buckets are those of `RateLimit`.  A code of the app is the secret
it was computed from and does not age.

**Mail.**  The queue is reduced to what the queue modules establish of it: claim,
retry, give up.  The mail server takes a message (`Takes`) before its answer
arrives (`Acknowledge`), and every command may fail in between.

**DevLoop.**  `loop` is the position in `Watcher.Run` and `rebuild`; `events` is
what the operating system has queued.  templ and the compiler read the sources in
one step and write in a later one.  `server` is the child: up, draining, gone.
`page[p]` is a page: the HTML, its script, its event stream and the boot id the
script was told first.

**Launch.**  Each kind of command is a sequence of steps (`DevPlan`, `BuildPlan`,
...); `cmd[c].at` is the position.  The sources are a version number each for Go,
views and frontend, and an artefact is the versions it was made from.  A frontend
build is four steps: Vite reads the sources, empties `dist` with the placeholder,
fills it, and `writeKeepFile` puts the placeholder back.  In between, and after a
failure, `dist` is `Gone` or `Torn`, and that is what a Go build at the time embeds.
`crossed` is history: another command touched `dist` while this one filled it or had
yet to embed it, or replaced the binary before it was run.

**Scaffold.**  A command is a sequence of stages, each a set of files to render
(with or without a check for collisions) or another effect; a stage checks, then
writes one file per step.  A file's content is its template and the edits.
`key:generate` and `setEnvDSN` read `.env` in one step (`ReadsEnv`) and write all of it
back in a later one (`writeEnv`).  Every write may fail and leave part of the file
(`GenError`).

**Release.**  A release is a number.  `entry` is the cache file, replaced as a
whole; `proxy[e]` lags behind `tagged`.  A pseudo-version lies between two releases
(`SemVer`).

Faulty variants of an operator are kept next to it, named `Op_m1`, `Op_m2`; no
specification uses them.  Each shows, for one property, that the property fails
when the code is wrong in that way.

## 3. Runs

Passing runs, all exhaustive:

| Run | Instance | Shows |
|---|---|---|
| `db_queue` | 2 workers with 1 token, one with an old binary; 2 jobs; overruns; 1 fault; 1 operator | `NeverPendingAndFailed`, `RefinesLedger` (and so that no job is lost) with no condition; `ExclusiveClaim`, `BuriedIsOver` while claims are punctual; `RerunOnlyAfterFault` |
| `db_liveness` | 1 worker, 1 token, 2 jobs, 2 faults | `EventuallySettled`, `ShutdownCompletes` |
| `mongo_queue` | as `db_queue` | `RefinesLedger`, `ExclusiveClaim` (with `TriesCounted`), `PendingAndFailedOnlyAfterFault` |
| `redis_queue` | as `db_queue`, 1 job name, a failed list of 1 | `NoOrphanRecord`, `OneHome`, `LedgerButForLateRelease` |
| `session` | 1 browser, 2 accounts, 2 ids; a lifetime of 2 minutes, extensions of up to 1 skipped; requests one after the other over 4 minutes, 2 at once at minutes 2 and 3 | `OneOwner`, `EndedStaysEnded`, `LogoutSticks`, `SlidingExpiry` |
| `services` | one of: scheduler (2 tasks, 2 days), limiter (2 keys, 3 windows), cache (3 calls in 2 processes), migrations (3, one irreversible, 2 operators), browser (2 tabs, 2 tokens, 2 messages, 2 keys), Redis sessions (2 requests, 2 sessions), two-factor (2 sessions, 2 enrolments), mail (up to 3 recipients) | `NoSecondCopy`, `OnSchedule`; `NeverMoreThanRefilled`; `ComputedOnce`, `StaleForOneLifetime`; `SchemaIsRecorded`, `RollbackIsExact`; `FormsHold`, `FlashOnce`; `EverySessionListed`; `CodeSpentOnce`; `MailWhole` |
| `tooling` | one of: `ry dev` (2 files, one in a directory that may be added, 1 page), 2 commands side by side in 4 projects, 2 generators in 3 directories, 2 commands that share the cached version | `LastSaveRuns`, `PagesCatchUp`, `StopsWhole`, `RestIsCurrent`; `NothingOlderRuns`; `KeepsYours`; `NewsWithinADay` |

Runs that are meant to fail, each a disagreement between the code and what the
repository says of it:

| Run | What happens |
|---|---|
| `db_claim_race` | `DBDriver.Claim` re-checks the reservation but not `available_at` and `attempts`: a row that another worker claimed and released after the select is reserved at once, with the old count of attempts.  `db_driver.go:71` says such a worker takes nothing. |
| `redis_resurrect` | A late `Release` writes the record of a completed job back.  `driver.go:55`: "Complete removes a finished job". |
| `session_destroy` | `Destroy` of a dirty session (one `Touch` just extended is enough) deletes the row, and the save that follows inserts it again and sets the cookie.  `store.go:21`: "Destroy removes a session and clears its cookie." |
| `release_pseudo` | `IsNewer` compares a pseudo-version like any other, so a project that requires a commit is told it is behind after the next tag.  `release.go:169` says such a build is never "out of date". |
| `dev_newdir` | The event of a new directory is dropped by `relevant`, which wants a watched extension, before the loop gets to add the directory: files saved in it start no rebuild.  The comment in `watcher.go` says a new directory "has to be watched too". |

One more observation is in a precondition instead: the comment of `sweep` says
discarded buckets "have refilled completely", which needs `Burst <= 2 * Limit`.
`New` guarantees it, `NewWithBurst` does not; `NeverMoreThanRefilled` states it.

### Further observations

What the models made visible and no run is about: what nothing in the repository
speaks against, what a property states as its premise, and, where a line is cited,
further disagreements with a comment:

* Queue: a record handed back at shutdown (`worker.go:97`), and a claim whose answer was
  lost, keep the attempt they counted, so a job can be failed after fewer runs than its
  limit.  Two operators who retry one failed job of the database driver both read it
  before either deletes it, and it is queued twice (`db_driver.go:170` does not check
  what it deleted).
* Sessions: a request that loaded its session before `DestroyForUser` and saves it
  afterwards stores the row again, user included (`db_store.go:102` upserts), although
  `db_store.go:36` says that deleting the row ends the session immediately;
  `EndedStaysEnded` is about sessions no request carries.  When the save after a logout
  fails, the answer still goes out and the old session is still there; `LogoutSticks` is
  about saves that succeed.
* Redis sessions: `Destroy` removes the index entry before the key, so a `Del` that
  fails leaves a live session `DestroyForUser` cannot find; a save that crosses a
  `DestroyForUser` loses its entry; an index that ends between `SAdd` and `Expire`
  leaves a session unlisted; a request that lasts more than an hour can shorten
  the index below another session's life.  (`astray` and `MaxVisit`.)
* Two-factor: the generated `Recover` reads, verifies and writes without a
  transaction, so two recoveries that overlap can spend one code, or bring a spent
  one back.  `CodeSpentOnce` is stated for recoveries that do not overlap.
* Mail: `Send` returns `Quit`'s error after the message was taken, so a retry sends
  it again.  `MailWhole` counts those attempts (`unsure`).
* Flash: of two `Add` calls in one handler the first message is lost; `Pull` and
  then `Add` brings back what was pulled.  (`told` counts the last message,
  `again` the pulled ones.)
* `ry dev`: a page whose first event stream opens after a restart adopts the new
  boot id and keeps showing the old build (the proviso of `PagesCatchUp`); `.env`
  has a watched extension and is hidden by `ignored`; a failed build's message says
  the previous build is still running, but it was stopped before; the base context
  of requests is cancelled when the shutdown begins.
* Commands: forwarded commands and `ry dev` build to the same path, and two `ry build`
  share `dist`, so that a release can embed an emptied or half-filled frontend
  (`crossed`); a frontend build cut short leaves `dist` without the placeholder, which
  `frontend.go:45` says survives there, and the project does not compile; the probes of the
  application's port and of Vite's can agree on the same port; a connection string
  for a socket starts the container.
* Generators: `ry new` that fails midway leaves a directory a retry refuses;
  `make:auth` and `make:model` that fail before the migration can be repeated only
  with `--force`, and in a later second that writes a second migration; `key:generate`
  writes back all of the `.env` it has read, so that a save in between is lost, and a
  write that fails leaves part of a file that was yours.
* Releases: a failed look-up is remembered for the whole interval; `ry update`
  installs what `@latest` says while the notice takes the larger of both answers.

### Bounds

`MaxId`, `MaxFails`, `MaxSid`, `MaxVersion`, `MaxBatch`, `MaxSpawned` bound ids
and counters; `MaxTime`, `MaxClock`, `ScheduleEnd`, `LimiterEnd`, `CacheEnd` the
clock, as do `RedisEnd` and `MaxHour`; `MaxTokens`, `MaxFlashes`, `MaxKeys`,
`MaxIds`, `MaxSecrets`, `MaxEnrolments`, `MaxVaultKeys`, `MaxUnsure`, `MaxSaves`,
`MaxEdits`, `MaxSecond`, `MaxRelease` and `QueueLimit` bound what their names say
(see the modules); `MaxFaults` crashes, shutdowns and failed calls; `MaxDelay` a dispatch's
delay; `MaxCompute` how long a computation lasts; `Overrun` says whether a claim
may outlive its reservation.  Why they are enough: two holders of one job, or
two requests with one session, are all a race here needs; a claim lapses and is
taken over within two ticks of a timeout of one; the second job or id shows that
actions do not confuse jobs, and is the one a `Retry` mints.  In `db_liveness`
the clock bound is above the longest time two jobs with two attempts and two
faults can take, so it never stops a reservation from lapsing; a smaller bound
would make `EventuallySettled` fail.  The limiter's three windows cover a sweep
that discards a bucket and another window after it.  The migrations are three
so that a batch can have a gap.  The Redis timeout is two, because a
reservation there lapses at the tick it is due.  In `session` a browser has two
requests out only at the times in `Rush`: before, they come one after the other, and
`Rush` holds the last minute of a session saved at the beginning and the first one
after it, so that a row is live, expires and is dropped while two requests carry it;
four minutes are enough for an extension that `Touch` skips and one that it saves.
In `tooling` the boot ids are
more than the instances that can be told apart at one time, so an id is never
reused while something remembers it.

`session` and `services` use symmetry over interchangeable requests, accounts,
calls, operators, tabs and sessions (no temporal liveness is checked there, and no definition
picks one of them), and a view that drops history variables once no property
reads them any more: after requests have overlapped, or commands have run at the
same time, the properties over those variables are vacuous and no guard reads
them.

Deadlock is checked in the queue runs.  The runs of `MCSession`, `MCServices` and `MCTooling` switch
it off: their clocks, ids, calls or commands run out and the system may stop there.

### Fairness

`LoopFairness` is weak fairness of each worker's loop: a goroutine that can take
a step is scheduled (Go's scheduler), and a stopped process is started again
(an assumption on the deployment; the package's promise that jobs survive a
restart is empty without it).  It says nothing of faults, dispatches or
retries.  `JobsReturn` (jobs end, the clock runs) is not part of
`FairSpec`: it is the premise of `EventuallySettled`, while `ShutdownCompletes`
holds without it, for jobs that hang.

`DevFairness` is weak fairness of the steps of `ry dev`'s loop, one by one: Go's
`select` chooses at random among the cases that are ready, so none is passed over
for ever; of the end of a child that was told to stop (`terminate` sends SIGKILL
after its grace period); and of what a browser does by itself with an open page.
Nobody has to save, open a page or press Ctrl-C.

## 4. Proofs

For every number of workers, tokens, jobs, operators, requests, browsers, tabs,
tasks, migrations and commands, and every value of the bounds, from the named
assumptions on constants only.  Each invariance proof has the same shape: `Init`
establishes an inductive invariant, every action preserves it, it implies the
property.  What follows names what each invariant adds to the property.

Some safety properties are proved and no run repeats them: `NoJobLost` of the database
and of the Redis queue, which the runs see through the ledger properties, and `OneChild`
and `OpenIsCurrent` of `ry dev`, whose consequences `StopsWhole` and `PagesCatchUp` state.

**Database queue** (`DBQueueProofs`).

* `TypeCorrect`, `JobsSurvive`, `PendingXorFailed`.  `NoJobLost`
  is not inductive: `Complete` removes a row, so one must know that the goroutine
  has seen `Run` return nil (`OkIsDone`); `RetryCommit` clears a failure, so
  what an operator read must be failed or requeued (`RetryKnown`); a fresh id
  must be in nobody's hands (`MintedOnly`).  These with `NoJobLost` and
  `NeverPendingAndFailed` are `LedgerInv`, inductive together with `TypeOK`.
* `OneHolder`: `ExclusiveClaim`.  Under `~overran`, whoever holds a record holds
  its reservation and the clock is within it (`HeldIsReserved`), and no two hold
  the same (`Apart`); the guard of the update then excludes a row anybody holds.
* `FailedIsOver`: `BuriedIsOver`, from the same and `FailedOnce`: no two rows of
  `failed_jobs` are of one job.
* `RunsOnce`: `RerunOnlyAfterFault`, an action property: without a fault a job
  that is done and still stored is with a goroutine about to complete it
  (`DoneIsCompleting`), and a process stops only by a fault (`StopIsFault`).
* `ImplementsLedger`: `DBQueue` refines `JobLedger`, by simulation of each action
  under `TypeOK` and `LedgerInv`.  `JobLedgerProofs!LedgerAccounts` and
  `LedgerForgets` are what the ledger promises, and hence what any driver that
  refines it promises: no job is lost and an id that left never comes back.

**MongoDB queue** (`MongoQueueProofs`).

* `ImplementsLedger`: the same refinement without transactions.  The order of the
  writes matters: the ledger counts a job as failed from the first write of `Fail`,
  and a retry pushes before it deletes, so that each single write is a ledger step.
* `FailsWhole`: `PendingAndFailedOnlyAfterFault`, with `StopIsFault`.
* `OneHolder`: `ExclusiveClaim`, `TriesCounted` included.  The number of
  runs and of claims in hand is bounded by the document's attempts (`ClaimsPaid`),
  a statement about the cardinality of the holders; it assumes finitely many
  workers (`WorkersAssumption`).

**Redis queue** (`RedisQueueProofs`).

* `RecordsReachable` (`NoOrphanRecord`), `JobsSurvive` (`NoJobLost`, with the retries
  that are under way and the trimmed list), `OneHomeEach` (`OneHome`: while claims are
  punctual, a stored job is in exactly one sorted set, and whoever holds it holds its
  reservation).  The timeout is at least a millisecond, since `timeout()` replaces
  zero (`TimeoutAssumption`).
* `LedgerButLate` (`LedgerButForLateRelease`): the simulation of `JobLedger`, with
  the hash of records as its queue and an entry that `LTRIM` dropped still counted as
  a failure on record.  Every script, pipeline and call of `Retry` is a ledger step or
  changes nothing of it, also with claims that overrun, except `Release`.  That one
  writes the record whether or not there is one; `OneHome`'s invariant shows that
  while claims are punctual there always is.  What an operator has read must be on
  record or requeued (`RetryKnown`).
* `PunctualLedger` and `PunctualRemoves`: hence, where no claim outlives its
  reservation (`~Overrun`), the driver implements `JobLedger` outright, and
  `CompleteRemoves`, which `redis_resurrect` refutes for claims that overrun, holds.

**Session** (`SessionProofs`).

* `SessionTyped`, `NoHandOver` (`OneOwner`), `DeletedForGood` (`EndedStaysEnded`).
  They need that every id in a row, a cookie, a request or an answer was drawn
  (`KnownIds`), that the user a request carries under an id is nobody or the one
  the id was first saved for (`CarriedOwner`), and that no request carries an ended
  id (`NotCarried`).
* `LogoutHolds` (`LogoutSticks`) and `LifetimeSlides` (`SlidingExpiry`).  Both
  properties are about one browser that sends one request at a time, while all
  others do as they like; so the invariant (`SoloInv`) starts with the fact that a
  session id is one browser's, whatever overlaps (`PrivateIds`).  On top of it:
  what a request of a browser that has logged out will leave is a session of nobody
  (`LeavesGuest`), and the lifetime a request has in memory is the one it will find
  in the store once it is through (`LivesOn`).

**Services** (`ServiceProofs`).

* `NoPiledCopies` (`NoSecondCopy`): the running flag is set exactly while a run is
  inside.  `BeginsOnSchedule` (`OnSchedule`): what made a task due when it was
  checked still does when its goroutine begins (`SpawnedIsDue`); the times of day
  need the arithmetic of `Target`.
* `ComputesOnce` (`ComputedOnce`): a process that computed since the entry was last
  lost finds the entry, or is about to write it (`FlightsInv`).  `NeverStaler`
  (`StaleForOneLifetime`): entries, flights and calls each hold a value that is
  current or was recently enough (`EntryFresh`, `FlightsFresh`, `CallsFresh`).
* `SchemaMatchesRecord` (`SchemaIsRecorded`); `RollsBackExactly` (`RollbackIsExact`):
  what a command that runs alone knew when it read still holds when it goes on
  (`Knows`), which is where the choice of the batch, `Lowest`, has to be right for
  batches with gaps.
* `LimiterTyped`, `BurstAndRefill` (`NeverMoreThanRefilled`) and `IdleGone`
  (`NothingIdleKept`, which no run repeats).  The second needs the potential
  argument `Potential`: tokens and the excess drawn together never exceed the
  capacity, once both are brought to the present.

**Web** (`WebProofs`).

* `MailGoesWhole` (`MailWhole`): where an attempt is says whom the server has
  accepted by then and whether it can have taken the message (`AttemptInv`).
* `CodesAreSpent` (`CodeSpentOnce`): while recoveries do not overlap, neither the one
  under way nor the account holds a code that was used (`SpendingInv`); codes of
  different enrolments are different (`Issued`).
* `SessionsAreListed` (`EverySessionListed`): what is alive, not astray and not being
  saved is in an index that lives at least as long (`ListedInv`), also while a
  `DestroyForUser` works through what it read (`WipeInv`).  The premise
  `MaxVisit + Minute <= Hour` is an assumption of `RedisSessions`.
* `FormsKeepWorking` (`FormsHold`): at most one request is out without a token, and
  then the browser has none; any other carries the browser's token, in its form too
  (`OneToken`).
* `MessagesShownOnce` (`FlashOnce`) has a hypothesis, `AddsLast`: a handler that adds
  and pulls does not pull last.  `Pull` reads the request, so a handler that pulls
  after it has added deletes the cookie it has just set, and the message is lost; the
  proof does not go through without it, and the handlers of the run satisfy it.

* `ServicesTyped`: `TypeOK` of `MCServices`, the invariant of whichever service the
  behaviour follows.  New here is that the two-factor flow keeps the limiter's buckets
  in order (`ThrottleStep`): it draws on them in the limiter's own steps, and a
  restart empties them.

**Tooling** (`ToolingProofs`).

* `NewsReachesAll` (`NewsWithinADay`): what is in the file, what a look-up has heard
  and what a command was told are each no older than what both endpoints knew of at
  a time of its own (`EntryInv`, `LookInv`, `ToldInv`, stated with `Covers`); that a
  look-up crosses at most one full hour is a guard of the clock.
* `LaunchTyped` and `RunsWhatItFound` (`NothingOlderRuns`): a command that is past
  `templ` or the compiler has generated code and a binary no older than what it began
  with; from Vite's end to the embedding `dist` holds what its own Vite has read, and
  at its last step the binary is the one it wrote, unless it was crossed (`UpToDate`).
  For commands that were: the binary in `storage/tmp`, and every one that was run, is
  no older than what some command that wrote one there began with (`BinaryInv`).
* `ScaffoldTyped` and `NothingOverwritten` (`KeepsYours`): what a generator without
  `--force` found when it began is still there and is not among the files it is about to
  write (`Spares`), although its stages are checked one by one while another generator
  and the developer write and writes fail.  The exception is `.env`: `Spares` also says
  that one read to be written back had no key, and that `ry new`, which alone replaces
  the connection string, found nothing.  Under it lie the types of what every command is made of:
  its stages, the templates of an overlay, the files a stage renders (`StageSet`).
* `ChildrenDoNotOverlap` (`OneChild`), `RestsOnTheLastSave` (`RestIsCurrent`) and
  `PagesShowWhatRuns` (`OpenIsCurrent`): the safety halves of what `LastSaveRuns`,
  `PagesCatchUp` and `StopsWhole` say of `ry dev`.  `BuildInv`: at every position of the
  rebuild, what was read of a file since it began is the file as it is, or the loop
  will hear of the change (`Known`: its event waits, was taken and the timer runs, or
  was dropped); likewise for what keeps a build from succeeding.  It rests on
  `WatchInv`, that every followed file lies in a watched directory, and on `relevant`
  accepting the event of every source.  `PageInv`: an open stream is one of the child
  that runs, and a page served under the boot id of that child shows its build.
* `ToolsTyped`: `TypeOK` of `MCTooling`.

Assumptions the proofs add to those TLC needs say that the null value of a variable
is none of its values (`NoCookieAssumption`, `NothingAssumption`,
`NoMoveAssumption`, ...), and that what an instance supplies is of its type
(`InstallsAssumption`, `ScenesAssumption`, `OrdersAssumption`, `GroundsAssumption`,
`Handlers` in `BrowserAssumption`).  Two say more: `OverlaysAssumption`, that the
templates built into `ry` have every overlay a project can ask for, and
`PathsAssumption`, that the sources `ry dev` follows have names it watches and that are
not those of templ's output or of an editor's backups.  `DevLoopAssumption` has finitely
many boot ids and pages, so that there is always an unused id.  TLC evaluates each of
them on the instances of section 3.

Only model-checked: `EventuallySettled`, `ShutdownCompletes`, `LastSaveRuns`,
`PagesCatchUp` and `StopsWhole`, since liveness under fairness is outside what the
prover handles.  Every invariant and every action property of the passing runs is
proved.  The proofs are about the specification of one component (`MailSpec`,
`LaunchSpec`, ...) where the run composes several that share at most the clock.

## 5. Plan

Done, in this order: queue (worker, three drivers, ledger), session and login,
schedule, rate limiter, cache, migrations; then `ry dev` with server and pages, the
commands, generators and releases; Redis sessions, browser cookies, two-factor,
mail; then the proofs of every safety property of these.  To come:

1. `bearer` (tokens revoked while in use) and the cookie store of `session`; the
   memory cache's eviction order; purposes and expiry of `auth` tokens.
2. Liveness of `Schedule`; the router's names as operators checked against a
   reference definition.

## 6. Not modelled

Cryptography and encodings; MIME, templates, logging, terminal output; validation rules and
word inflection (functions over strings); MySQL's implicit commits in
migrations; SQLite's snapshot refusals (a subset of the steps of `DBQueue`);
float rounding in the limiter; the window of time in which a two-factor code is
good; the text of generated files, except the two-factor flow, which `TwoFactor`
needs; the Windows variant of stopping a child.  `PROJECT.json` gives the reason for each component.
