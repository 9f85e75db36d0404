# Envoker in TLA+

TLA+ models of Envoker: its worker pool and migrator, the process that serves
HTTP requests, the generated repositories with the pages they serve, and the
tools that generate them; the TLC runs that check the models on small instances,
and TLAPS proofs of their main invariants for every instance. Paths are relative
to `src/`.

Run everything in this directory:

    tlc -workers 2 -config PoolOnce.cfg MCWorkerPool     # and the other runs of the
table below     tlapm WorkerPoolProofs.tla                           # and the other
*Proofs.tla

## The system

Envoker is a Go service template: an HTTP API over PostgreSQL repositories,
a generic worker pool, and a tool chain that migrates a database, reflects its
schema and generates the repositories, stores and HTTP bridges from it.

| component | state it keeps | operations | what makes it correct |
|---|---|---|---|
| worker pool (`infrastructure/workers`) | `running`, the context, the error channel, one goroutine per worker, a job per goroutine, error counts per worker | `Start`, `Stop`, the worker loop (checkout, hooks, process with retries, complete or fail) | a task is in one worker's hands, is answered for once, never silently lost; shutdown drains; no panic ends the process |
| pool metrics (`infrastructure/workers/metrics.go`) | atomic counters, extremes under a mutex, logger goroutines | `Record...`, `GetSnapshot`, `Start`, `Stop` | a snapshot never contradicts itself; the last one is exact |
| migrator (`infrastructure/postgresdb/migrate.go`) | the table `schema_migrations` | `Migrate` | every file takes effect once, in order, and a nil result is true, whatever races, fails or crashes |
| repositories, stores, bridges (`core/repositories`, `bridge/repositories`) | the rows of four tables | `Create`, `Get`, `Update`, `Delete`, `Archive`, `List`, and their HTTP handlers | a call answered with OK did what was asked and nothing else; four lists of columns per entity agree |
| pagination (`List` of the above, `core/scaffolding/fop`, `infrastructure/postgresdb/fop.go`, `bridge/scaffolding/fopbridge`) | none beyond the rows; the cursor is the client's | `List`, `ListBy...` | walking the pages shows every stable row once; the cursors lead where they say |
| web handler and middleware (`infrastructure/web`, `bridge/scaffolding`) | mux, middleware slices, expvar counters | `Handle`, `Group`, the chain CORS, Logger, Errors, Metrics, Panics, `Respond` | one answer per request that tells failure from success and no trace of a panic; everything is counted |
| server (`infrastructure/web/server.go`, `app/envoker/main.go`) | listener, two channels, requests in flight, the connection pool | start, signal, graceful shutdown, `Close` of the pool | exit code 0 means that all was answered; a signal ends the process; no statement is cut off |
| environment (`sdk/environment`) | none | `ParseEnvTags` | precedence of variable, value and default |
| generators (`app/generators`) | files on disk | `generate` per table, layer and file | custom files are never overwritten; what is announced is there; the three layers agree |
| reflector (`schema/reflector`, `app/tooling`) | the JSON file | `reflect-schema` | no key on a column that the description lacks |
| others (`sdk/cryptids`, `logger`, `telemetry`, `validation`, admin UI, `mediastores`) | none that others depend on | | |

How they interact: `main` builds the database pool, the repositories, the web
handler and the server; a request passes the middleware, a bridge handler, a
repository and its store (calls), and comes back as an encoder that `Respond`
writes. The worker pool calls a `Processor` that its user supplies, and
records in a metrics object that loggers read concurrently (shared state). The
migrator and the generators meet the rest only through the database and the
file system. `pool.ctx`, `running` and the error channel are the shared state of
the pool; `startMutex` orders `Start` calls, `stopMutex` orders `Stop` calls, and
nothing orders one with the other.

What is hard: interleavings of `Start`, `Stop` and the workers; panics at every place
that calls user code; retries that race the cancellation; snapshots read load by load;
concurrent, crashing and retrying migrators; pages read while rows change; middleware
slices shared by append; a shutdown whose deadline passes at once; generators that
fail between two files. `PROJECT.json` lists these under "hazards", each at its line.

## Modules

| module | models | role |
|---|---|---|
| `WorkerPool` | `workers.go`, `middleware.go`, `model.go`, `hooks.go` | detailed specification |
| `TaskLedger` | | what a pool promises about tasks; `WorkerPool` implements it (`Ledger == INSTANCE TaskLedger WITH ...`) |
| `MCWorkerPool` | | symmetry for TLC |
| `WorkerPoolProofs` | | theorems |
| `PoolMetrics`, `MCPoolMetrics`, `PoolMetricsProofs` | `metrics.go` | as above |
| `Migrator` | `migrate.go` | detailed specification |
| `MigrationHistory` | | what a forward-only migrator promises; `Migrator` implements it |
| `MCMigrator`, `MigratorProofs` | | releases for TLC; theorems |
| `Entities`, `EntitiesProofs` | the four generated entities as shipped | structs, statements and parameters as sets of columns; theorems about them and about what the generators write |
| `Records` | handlers, repository methods and statements except `List` | extends `Entities` |
| `Listing` | `List`, `ListBy...`, cursors, filters, orders | extends `Records` |
| `SortedWalk` | | what reading pages of a changing list promises; `Listing` implements it |
| `GeneratedCode` | `app/generators`: what is in the files; `schema/reflector`: types and keys | operators; the result has the shape of `Entities` |
| `MCListing`, `ListingProofs` | | `Listing` with `GeneratedCode`, tables for TLC; theorems |
| `EnvTags` | `sdk/environment/tags.go` | operators |
| `RouteGroups`, `RouteGroupsProofs` | `routegroups.go`, `handler.go`: registration | slices with shared arrays; theorem |
| `WebPipeline` | middleware, handlers, `response.go`, `mid`, `metrics`, `errs` | one request among others |
| `Server` | `main.go`, `server.go`, the opening and closing of the connection pool | extends `WebPipeline`, `EnvTags` |
| `GracefulServer` | | what the process promises to its clients; `Server` implements it (`Promise`) |
| `MCServer`, `ServerProofs` | | `Server` with `RouteGroups`; theorems |
| `Generator` | `generate`, `reflect-schema`, migrations and programmers around one directory | extends `GeneratedCode` |
| `MCGenerator`, `GeneratorProofs` | | tables for TLC; theorems |

Every module contains, before the definition it varies, an operator with a
plausible mistake in that definition (`CloseWithoutWait` before `WaitAndClose`,
`ChecksumIgnored` before `AlreadyApplied`, ...). No specification uses them: put
in the place of the definition, each makes one property of one run fail, which
shows that the property depends on the code.

### WorkerPool

`pc[w]` is where goroutine `w` is: `select` (the loop's select), `process` (pre
hooks or an attempt of `Process`), `backoff`, `deferred` (work's deferred
function), `exited`. `starter` and `stopper` are the program counters of `Start`
and `Stop` calls: `Start` is split where another goroutine can see a difference
(context made, each `go`, `running = true`, the wait and `close`, `running =
false`), `Stop` into its check, `cancel()` and `running = false`. The data race on
`running` (two mutexes) is thereby every interleaving of its reads and writes.
The actions are the code's calls with each of their outcomes: `CheckoutTask`,
`CheckoutFails`, `CheckoutPanics`; `ProcessSucceeds`, `ProcessFails`, `TaskPanics`;
`PostHookPanics`; `Report` (Complete or Fail returned, with or without error) and
`ReportPanics`. An action that ends a work cycle contains all that follows in the
code: the middleware's count and verdict and the loop's switch (`AfterWork`,
`Dispatch`). Panics outside every recovery (a second `close`, a send on a closed
channel) set `crashed`, after which no goroutine moves.

Abstractions. Errors are told apart as `errors.Is` does (`noWork`, `workerStop`,
`poolStop`, anything else; an error that is two of them at once is left out).
Time is not modelled: tickers and backoffs may fire at any moment, so polling
intervals have no place. Logging, options and the metrics calls are left out;
`PoolMetrics` has the latter, in the order in which `worker` and `work` make them.
The processor is external: it hands out a ready task or fails or panics; Fail
may retire the task or put it back; an error of Complete or Fail leaves the task
checked out. Pre-process hooks are part of `process`: their errors are only
logged and their panics are the task's panics.

`TaskLedger` knows tasks, hands and answers only. Its fair version says that
what is in a worker's hands is answered for or lost in the end.

### PoolMetrics

One action per atomic operation: a task's count, the addition of its duration
and the critical section of the extremes are three steps, a snapshot is seven
loads. After a snapshot another may start, by a logger or caller at any time or
by `LoggerMetrics.Stop`, which `Start` calls once all workers are gone.

### Migrator

A process's `pc` and `at` say which call of `applyMigration` it will make and for
which file; the calls are single steps because each is one round trip, and
everything may happen between two of them. `record` is the committed table;
`executed` counts commits of a version's SQL. `Embedded[p][v]` is the content of
file `v` in the release of process `p`, `None` if that release lacks it; versions
are numbers in the order of `sort.Strings`, and a checksum is the content. Any
call may fail (`CallFails`, `LookupFails`, `StartFails`), a commit also after it took
effect (`CommitAnswerLost`), the process may die anywhere and run again.
PostgreSQL is external: transactions are atomic, an INSERT waits while another
transaction holds the same key (`KeyHeld`) and conflicts with a committed one,
and the transaction of a process that died is rolled back at once.

### Entities, Records and Listing

The generated code of the four entities has the same control flow and differs in
its columns. `Entities` records the columns of every struct, statement, filter,
parser and parameter of each (`Layers[entity]`); `Records` and `Listing` are the
control flow, and look up in `Layers` whether the column they follow is in the
list that the code consults. The model follows one column of one entity, which is
any (`Init` chooses): a row is its key, its two stamps and that column's value.
A column that is missing from one list is thereby seen as an update that does
not change, or a filter that does not narrow.

An action of `Records` is one call: the handler's refusals, the statement with
its outcomes (done, failed, done and reported as failed, for the answer of
PostgreSQL may be lost), and the code of the error. Calls interleave as whole
statements. `Listing` adds a client who reads page after page. `FirstQuery` is the
statement for the page (one row more than asked for), `SecondQuery` the one for
the page before, with the same cursor and both order and comparison turned
round; anything may happen between them. `stable`, `shown` and `twice` are history.

Abstractions. Values, stamps and keys are small numbers in the order of their
collation; times are any, as two clocks set them; NULL is the greatest value, as
ORDER BY has it. A cursor is the pair it encodes (base64 and JSON are not built up,
and the client sends only cursors it was given). SQL is the set of rows that
satisfies its WHERE. PostgreSQL is external: a statement is atomic.

`SortedWalk` says what pagination promises: turn by turn the reader moves ahead in
the sort order and is shown all that the list then holds in between.

`MCListing` states one property about data alone: `ShippedIsGenerated`, that
`Generated(Reflect(Tables[entity]))`, the generators applied to the tables of the
migrations, is what `Entities` records of the shipped files. Both sides were
written down from different sources: `Entities` from the shipped Go files,
`GeneratedCode` from the migrations, the reflector and the generators.

### EnvTags, RouteGroups, WebPipeline and Server

`EnvTags` is `ParseEnvTags` as a function of the fields. `Server` uses it for the two
variables whose absence, emptiness or bad text change what the process does; the
number of connections may also be set to 0, which a list of origins cannot be.

`RouteGroups` has Go's slices: an array, a length, and `append` that writes into
the array where there is room and grows by the allocator's size classes where
there is none. A route's chain is read from the cells when it is registered.
Size classes are listed up to 16 cells; a larger array is taken as it is asked for.

`WebPipeline` has one request per element of `Requests`. `at[q]` is how many
middlewares it is inside of; it goes down in one step (nothing on the way down
touches what others see), may take a connection, and comes up one middleware at
a time with its result or its panic: `Panics`, `MidErrors`, `Metrics`, `PassesBy`. An
Encoder is its kind, its code and where its text is from: written for the client
(`own`), quoting the error of a repository or of the driver (`quoted`, as the generated
handlers do in every `Internal` error), or the inside of a panic or of an error that
is not of package errs (`inside`). Only the last is kept from the client
(`TracesStayInside`); quoted text passes `mid.Errors` and `Respond`. `Respond` chooses the
status as the code does, with 500 for every error.

`Server` is `run` from the first configuration to `os.Exit`. `phase` is where `run` is,
`listener` the goroutine it starts, `errors` and `shutdown` its channels with one
place each. The context of the shutdown has 30 nanoseconds, so `ShutdownExpires` may
come whenever something is in flight; then `ClosePool` and `PoolClosed` are the two
halves of the deferred `pg.Close`, which waits for connections that are out, and
`Exit` cuts what is left. Goroutines of requests go on until `Exit`, and so does the
listener's. `ListenAndServe` may return an error before it listens (`listener` becomes
`stopped`) or after it has served (`failed`). In the second case nothing closes the
connections it accepted: requests in flight go on, `Accept` still lets new ones in on
open connections, and `run` takes the error from its channel and closes the pool under
them, without a `Shutdown`. Which of its connections is idle, and which not yet closed
by its client, is left open, so a request may come at any moment until `Exit`.

`GracefulServer` is the same process as its clients see it: a door, the fate of each
request and an exit code. The door is open while requests may come in. It opens once
(the listener) and is closed for good by the shutdown, by a listener that could not
listen or by the end; a listener that fails after it served leaves it open. A request
is worked out with a good or a bad result, and answered with success only after a good
one; only an end of the process drops it, and an end with code 0 drops none. In
`Server` a fate is read off what the request's goroutine holds (`Fate`): it is
`working` on the way down, waiting for a connection or holding one, and good or bad on
the way up, whichever middleware it is in.

Abstractions. Handlers are external to the chain: they return any Encoder or panic,
after a statement or without. An answer that is written has reached its client unless
the client had left; a write that fails is not modelled. The goroutine gauge, which
some requests sample, is left out. Headers, bodies, trace identifiers, the mux's
matching of paths and TLS are not modelled; a request has found its route.

### GeneratedCode and Generator

`GeneratedCode` follows a table of the migrations through the reflector (type
names, Go types, nullability, keys) and the field builders of the three generators
into the columns of each struct, statement and parameter list.

`Generator` has the programs that meet in the schema and in files. `History` is what each
version of a table has: columns, a primary key and foreign keys, which a migration may
change in any way, as long as a foreign key is on a column of its version. A
description is three versions, for three queries read its columns, primary key and
foreign keys; a primary key whose query fails, or whose column was not listed, is
logged and left out (`ReadPrimaryKey`). `Validated` is `ValidateSchema`: a primary key,
and for each foreign key a column of that name. `reflector` and `generator` say where
each program is. Writing a file is two steps: `os.Create` truncates it, then the
template is executed and goimports rewrites the file. goimports may fail and leave
anything (`Mangled`); the code logs that and goes on. Each program may fail where it
returns errors and be killed anywhere. `announced` is what `PrintSummary` claimed. A
`generated.go` is the description it was made of, a custom file is a scaffold or
somebody's work.

`AnnouncedIsWritten` says what the announcement is worth: the files are those of the
description unless goimports spoilt one, each part of the description is something that
the table once had, the parts are not older than the ones read before them, and every
key is on a column of the description. It does not say that the description was ever
true as a whole, for it need not have been (see Findings).

## Runs

| run | shows | bounds |
|---|---|---|
| `pool_once` | `LedgerBalanced`, `OneStartNeverCrashes`, `ErrorChannelHasRoom`, `OneStopCancels`, `LimitStopsWorker` | one Start, two Stops, 2 workers, 2 tasks, 2 attempts, error limit 1, each task handed out at most twice |
| `pool_live` | `CancelDrains`, `AnswersEveryClaim` under fairness | the same with one Stop and no limit |
| `pool_restart` | `KeepsLedger` where Starts follow each other and end the process | two Starts, two Stops, 1 task, `MaxRetries` 0 (one attempt), error limit 1 |
| `pool_start_twice`, `pool_stop_request` | findings, see below | as above |
| `metrics` | `InProgressNeverNegative`, `ShutdownSnapshotExact`, `ShutdownAverageWithinExtremes` | 2 workers, 3 tasks, 2 durations |
| `migrate` | `AppliedExactlyOnce`, `SuccessIsComplete`, `AppliedInOrder`, `KeepsHistory`, `EveryRunEnds` | 3 processes, 3 versions, 2 releases: the later one inserts a file and edits another |
| `migrate_lookup` | finding | the same |
| `records` | `StableRowsShown`, `NothingShownTwice`, `KeepsSortedWalk`, `PreviousCursorLeadsBack`, `KnownFiltersHold`, `CallsDoWhatTheySay`, `ShippedIsGenerated` | tasks by priority: any table of up to 3 rows, 2 times, pages of 1 and 2, one change at any moment; every entity by every column: one row, one change while nobody lists |
| `web` | `TracesStayInside`, `FailureNeverLooksLikeSuccess`, `CountersAgree`, `CleanExitAnswersAll`, `EmptyIsNotUnset`, `NoStatementCut`, `KeepsPromise`, `SignalEndsProcess`, `RoutesRunTheirOwn` | 2 requests (1 without CORS), 1 connection, 2 signals; and, apart from these, 3 groups and 2 routes in every order |
| `web_status` | finding | the same |
| `generate` | `AnnouncedIsWritten`, `FilesKept` | 2 tables, 3 versions of one, 2 runs of each program, 1 failure or crash, 1 edit |

One run of each component also checks its type invariant.

Why these bounds are enough. Two workers and two tasks let a task return to the
queue and be taken by another worker while a third step of the first is
pending; two Stops and two Starts give each ordering of two calls that a mutex
does or does not exclude; two deliveries distinguish "once" from "once per
hand-out"; with two attempts there is a first, a last and a backoff. `MaxDeliveries`
and `MaxTasks` are the only counters cut by a guard; they bound the processor, not
the pool. `errorCount` is bounded by the limit where the limit is installed and
constant where it is not. Three migrators let one wait for a second while a third
of another release commits. Symmetry is used in safety runs only, over sets of
interchangeable goroutines and tasks. Deadlock is checked in every run but those named
below; `Terminated` lets the pool stop where the program really may.

`records`: three rows and pages of one and two give a first, a middle and a last page,
a full and a partial one, and equal stamps that the key has to separate; one change at
any moment comes before, between or after the two queries of any request, ahead of the
reader or behind. The columns differ only in the lists they are in, which one row
shows. `web`: two requests and one connection make one wait for the other, hold the
connection while the pool closes, and be counted while the other panics; the second
signal finds the channel taken. Without CORS a request meets one middleware less and
nothing else, so one request is let in there; and one of the two has the route with
middleware of its own, and its client stays. Registrations do not meet the running
server in the code (all happen before it starts), nor in the run. Three groups and two
routes suffice to make two appends into one array, one after the other. `generate`: a
fault in the first run of a program and a whole second one, of which the second may be
without `-force`, and a migration at any moment of a reflection. The table that
changes first gets a column with a foreign key on it and then loses another column:
what is read across the first migration is refused, what is read across the second is
not. The other table stays, `-table` asks for the first only, `-force` comes without
`-layers`, and the edited file is its `store.go`; the generator treats all tables and
all custom files alike. `MCStep` leaves out orders that make no difference: a
migration waits for the next query about its table; a reflection queries before or
after a run of `generate`, with which it shares no file until it writes; and once its
tables are loaded, a run of `generate` meets neither the database nor the JSON file,
so changes of these wait for its end. That nobody edits while `generate` runs is a
bound of `Generator` itself: an editor that creates a custom file between the look
(`fileExists`) and `os.Create` would lose its work. `CHECK_DEADLOCK FALSE` in the
configurations of `MCServer` and in `Generate.cfg`: the process exits, and the
programs are not started again.

### Fairness

`FairSpec` of `WorkerPool`: goroutines that can run do run (weak fairness of the steps
of a `Start` or `Stop` in progress and of a worker inside a work cycle; the
processor's calls return), and a select whose two branches keep being ready takes each
of them again and again (strong fairness of `SeeDone`; Go chooses among ready branches
at random). Nobody has to call Start or Stop, cancel, or offer a task. There is no
fairness on polling: a poll that finds nothing leaves the state as it was, and weak
fairness would then force one of the polls that ends the worker. `FairSpec` of
`Migrator`: the driver's calls return, but none has to fail, so that no wait is ended
by an error; PostgreSQL wakes the waiters of a key, so an INSERT is not passed over
for ever (strong fairness).

`FairSpec` of `Server` (`MCSpec` of `MCServer` repeats it): `run` goes on when it can, which
Go's scheduler gives, and a statement that holds a connection ends, for its context
or the database ends it. Nothing is assumed of handlers, clients or signals: a
handler may hang for ever, and the process must still end.

## Findings

Each is a run that expects a violation of what the repository says.

- `pool_start_twice`: a second `Start` ends the process, for the error channel is
  made once and closed by each (`workers.go:238`; `:70` says `startMutex` protects
  against multiple Start calls).
- `pool_stop_request`: a request for the pool's shutdown is queued where nobody
  reads it (`workers.go:315`; `:19`, `:74`).
- `migrate_lookup`: any failure of the look-up counts as a missing row
  (`migrate.go:114`; `:124` names "no rows" only). The primary key makes this
  harmless for the data, as `AppliedExactlyOnce` shows, but the SQL runs again.
- `web_status`: every error is answered with 500, for `Respond` overwrites the status
  that the error chose (`response.go:50`; `errs.go:106` says that the framework can use
  the correct one).

Other things the models show, which no text of the repository denies or which
follow from the code at once, and for which there is no run:

- `work` returns nil for a task that panicked (`workers.go:409`), which the loop takes
  for success and which resets the consecutive-error count.
- A snapshot taken while tasks complete may have an average above its maximum
  (`metrics.go:223`). At shutdown it has not (`ShutdownAverageWithinExtremes`).
- Lists in another order than created_at skip and repeat rows, or fail, because the
  cursor holds created_at whatever the order is (`tasksrepo/generated.go:219`). All
  properties of pages are stated for created_at.
- An error of the query for the page before is silent: the answer has no previous
  page (`tasksrepo/generated.go:235`).
- GET `/users/{user_id}/user-sessions` would refuse every request, as its handler
  demands a session_id (`usersessionsrepobridge/generated.go:297`); main.go does not
  register it. A duplicate key is answered as Internal. Range filters have no
  parameters, DEFAULTs of columns in an INSERT never apply, `Archive` leaves
  updated_at and is not routed.
- From the third level of groups on, routes may run each other's middleware: two
  appends into an array with room (`routegroups.go:20`). `RoutesRunTheirOwn` is stated
  for two levels, which is what the repository uses.
- The shutdown's deadline is 30 nanoseconds (`main.go:136`); `ShutdownTimeout` is read
  by nobody. A Shutdown with a request in flight therefore fails and exits with 1.
- The error of a repository, with the text of the driver, reaches the client of a
  generated handler: it is quoted in an `Internal` error (`tasksrepobridge/generated.go:217`
  and the like), `mid.Errors` replaces `InternalOnlyLog` only (`mid/errors.go:34`), and
  `Respond` sends the text (`response.go:52`).
- A listener that fails after it served ends the process without a Shutdown
  (`main.go:129`): the pool is closed under requests, and requests are cut.
- A description that was read across a migration may be of no version. Validation
  refuses it only if it lacks a primary key or has a foreign key on a column it lacks
  (`analyzer.go:297`, `:310`); if a column was dropped, or a foreign key put on an older
  column, between two queries, the mixture is generated and announced.
- A file that goimports left half-written is announced as complete
  (`repositorygen/generator.go:343`, and the same in the other generators).
- `generate` says "All tables generated successfully!" whatever happened
  (`app/generators/main.go`), so `AnnouncedIsWritten` is about the line per table. A
  custom file that was truncated and not written exists, and no later run repairs
  it. Without `-force` a run that was interrupted cannot be continued for that table.

## Proofs

Constants are arbitrary up to the named assumptions: workers are a finite
non-empty set, `NoTask` is no task, `Unset` exceeds every duration, `Embedded` maps
processes to releases, lists of middleware are sequences. Each safety and
each action property of the passing runs is a theorem; so are the four refinements.

`WorkerPoolProofs`. The invariants are not inductive alone. `IInv` adds: a busy
worker holds a task and is the only one to hold it, a worker in backoff has an
attempt left, at most one `Start` holds `startMutex`, a worker exists only while a
`Start` is in progress, and a closed channel or a finishing `Start` means that all
workers have exited. From it: `TypeCorrect`, `LedgerAlwaysBalanced` (every delivery
is in hand, reported or dropped), `ChannelAlwaysHasRoom` (what was sent is at most
the number of exited workers), `OneStartIsSafe`, `StopCancelsOnce` (`running` is true
only from `EnterWait` to the first `StopClear`, and with one Start is not set again),
`LimitIsKept`, and the refinement `PoolKeepsLedger`, one step of the pool at a time.

`PoolMetricsProofs`. `CountersBalance` relates each counter to the number of workers
at a label; `SnapshotBehind` says that a snapshot's settled tasks never exceed
the checked out ones it loaded later, because it loads them first;
`ShutdownFrozen` says that after all workers are gone the loads equal the counters.
From these: `CountersTyped`, `NeverNegative`, `ShutdownExact`.

`AverageWithinExtremes` would follow from a sum over all tasks, which no invariant can
name without a history. `TotalBounded` does without: for every m no longer than
any duration in the total, m times their number is at most the total, and the same
from the other side. A duration is added to the total before it changes the extremes,
so "any duration in the total" is what the extremes say and what the workers between
the two steps still hold; a task is counted before its duration is added, so `Summed`
leaves out the workers between these. At shutdown nobody is between any two, m can
be either extreme, and integer division keeps the order. `MinimumIsOfATask` is for the
pool that settled nothing.

`MigratorProofs`. `Sound`: what a running process has passed is applied as its
release has it; `Exclusive`: a transaction about to commit is the only one of its
version, and the version has no row. From these and the properties themselves:
`MigratorTyped`, `AppliedOnce`, `SuccessMeansComplete`, `OrderIsKept`, and the
refinement `MigratorKeepsHistory`.

`ListingProofs`. Keys, times, writes and sizes of pages are arbitrary; the table is
finite. The invariant says that what was shown lies at or behind the reader's place
(the next cursor, or the one sent), and that every stable row was shown or lies ahead.
It rests on lemmas about `FirstOf`: the first n rows of a finite set form an initial
segment of the order, so the last of them separates what the page had from what
is left. From it `ListingTyped`, `NoRowTwice`, `NoRowSkipped`, and `ReadingIsAWalk`, the
refinement of `SortedWalk`.

A second invariant, `PageInv`, says that a page shows rows of the list that was asked
for (it keeps what the query found, whatever happens to the table afterwards),
and that the query for the page before runs only with a cursor. With it:
`FiltersHold`, which needs from `EntitiesProofs` that a parameter is passed on through
every layer; `AnswersAreTrue`, one step per call, which needs that every column
reaches the statements, or a call would say OK for a column it left out;
and `PreviousPageIsBefore`. That one rests on turning the order round: the query for
the page before is a query for a page in the flipped order (`FlipTurnsRound`), so what
it finds is an initial segment of that order (`FirstOfIsInitial`), and the rows from
its last one up to the cursor are the first page behind the cursor it yields
(`InitialIsFirst`).

`EntitiesProofs`. Two statements about the shipped columns, `EveryColumnIsWritten` and
`EveryParameterIsPassed`, entity by entity. They are about constants. The proofs about
`Listing` take nothing else from the four entities but which of them archive a status.
`GeneratorsAgree` is about any table, not these four: if it has a key and the two stamps,
which are columns of their own and no JSON, then what the three generators make of it
fits together (`LayersAgree`): an INSERT has the columns of its struct, an UPDATE
those of its own, a scan those of the entity, and the bridge's parameters are those of
the parser, the filter and the WHERE clause. Each generator decides this with field
builders of its own.

`GeneratorsWrite` says what they write, for any table of the types that the migrations
use: the field builders of three packages come down to the entity's fields without the
stamps, without the key or without the JSON columns (`LayersOf`). With it
`AllAsGenerated` compares the migrations with the shipped code, entity by entity: the
columns of each type as the reflector sees them (`TasksGroups` and its like), from these
the fields of the entity, the parsers and the searched columns, and by `GeneratorsWrite`
all the rest. `ListingProofs` concludes `ShippedAsGenerated` from it and from `PageInv`.
The tables are arbitrary in `GeneratorsAgree` and `GeneratorsWrite` only; `AllAsGenerated`
is about the four that exist.

`ServerProofs`. Requests, connections and signals are arbitrary. `WellBuilt`: a chain
is CORS or not, Logger, Errors, Metrics, Panics, and the route's own. Per request the
invariant says how far up a panic or its inside can still be: no panic outside Panics,
no inside of one, or of a foreign error, outside Errors. For the process it says which
phases have a listener, an exit code and a pool, and what the channels hold: requests
are in flight behind a closing pool only with exit code 1, after a `Shutdown` that ran
out of time or a listener that failed late. The counters need sets: who was counted,
counted as an error, recovered; each counter is the size of its set, and when nothing
is in flight the sets are those of the answered requests. From these `ServerTyped`,
`TracesStay`, `FailuresShow`, `CountersAreRight`, `CleanExit`, and the action property
`StatementsEnd`. `EmptyStaysEmpty` has an invariant of its own, `ConfigInv`, which
names the two middleware lists the handler can have and for which settings: a variable
set to nothing does not get its default. It needs what `ParseEnvTags` returns for a
single field (`OneField`).

`ServerKeepsPromise` is the refinement of `GracefulServer`, one step of the process at a
time. No step changes more than one fate, but for the end, which changes all that are
unsettled (`OneFateTurns`, `EndRefines`): these are the requests in flight
(`UnsettledIsInFlight`). That an end with code 0 drops none is not a guard of `Server`:
it is the invariant behind `CleanExit`, and that a bad result never becomes a success is
the one behind `FailuresShow`. The attempt to prove it showed a step the first version of
`Server` should not have had: a listener that began to listen after the process had
ended, for its goroutine looked at no phase.

`RouteGroupsProofs`. Lists, groups and routes are arbitrary in number and length, and
the allocator enters only by giving at least what was asked for (`CapIsEnough`). That
each slice holds what its group was given is not inductive: an append to one of two
slices that share an array may write into the other. `EndsBehind` says why it does
not on the first two levels: every slice that shares an array with such a group ends
at or behind the group's end. A group of `WebHandler.Group` fills its array, so a group
in it either appends nothing or gets an array of its own. `AppendIs` says what append
does (it keeps every cell but those behind the end of its slice, or makes an array),
and `GroupKept` that this leaves alone every group that ends no later. The invariant
stops at the second level as the property does: what is appended twice to a group of
that level is written into the same cells.

`GeneratorProofs`. Tables, the packages they share, layers and all bounds are
arbitrary. The invariant follows the generator through a table: what comes before the
layer it is at is written; the layer's `generated.go` is written once the first file
is left behind; while a file is torn nothing of its package and layer counts as
announced; without `-force` the first file of a layer is absent until it is created. A
description's columns are never newer than its primary key, nor that newer than its
foreign keys, nor these newer than the database, for the queries run in this order;
`GoodKey` says that a primary key that was read is among the columns. That every
foreign key has its column is what validation adds. `History` is arbitrary. From it
`GeneratorTyped`, `AnnouncedHolds`, and the action property `WorkIsKept`.

Only model-checked: liveness (`CancelDrains`, `AnswersEveryClaim`, `EveryRunEnds`,
`SignalEndsProcess`), which needs fairness and ENABLED, beyond the prover; and the four
findings, which are counterexamples.

## Not modelled

- `sdk/cryptids`, `logger`, `telemetry`, `validation`: pure functions and output.
- The admin user interface (third-party components) and `mediastores` (empty).
- Of the pool's metrics: panic, checkout and retry counters, which behave as the
  task counters do, and rates over the wall clock; the loggers' output.
- Of the generators: names, import lists, formatting; `schema/mapper.go`, the
  DeriveFilterSpecs family and the older templates, which nothing calls. They are a
  large part of the lines that the models do not cover.
- Of the reflector: indexes, constraints and comments, which no generator reads;
  `WriteSQL`.
- Of pagination: integer cursors (`ApplyIntCursorPagination` has no caller) and cursors
  that a client made up.
- Of the web handler: headers, form decoding, file serving. Of the configuration:
  `.env` files, and variables that change no control flow. Of the database connection:
  tracing, escaping, the test database.
- Flags and usage texts of the command line tools.
