# Anole in TLA+

Specifications of Anole: of its durable queue and the conversions that run from
it, of the plans a conversion follows and the checks its output must pass, of the
adapters that run the engines, of the web service and of the restore of the
application state, with the TLC configurations that check them and the TLAPS
proofs about them.  Paths are relative to the repository; line numbers are given
where a reader will want to look.

1. The system · 2. Modules · 3. Runs · 4. Properties · 5. Fairness · 6. Proofs ·
7. Findings and divergences · 8. Not modelled

## 1. The system

Anole converts files locally.  One Rust core (`crates/core`) is driven by a
command line (`crates/cli`), a Tauri desktop program (`apps/desktop`) and an HTTP
server with a small web client (`crates/server`, `apps/web`).  Two things make it
more than a wrapper around conversion engines.  Its work is durable: jobs live in
an SQLite database, several processes may work on the same database, each may die
at any moment, and no crash may turn into a false success or an overwritten file
(`docs/specs/JOB_RECOVERY.md`, ADR-0003, ADR-0008, ADR-0009, ADR-0010).  And it
distrusts its engines: what will be done is planned, shown and approved by hash,
and what an engine wrote is inspected again and compared with the plan before it
may reach the destination.

| Component | State | Operations | Talks to |
|---|---|---|---|
| Job store (`job_store.rs`, `domain.rs`) | job rows, event log, output reservations, idempotency keys, batches, selections, revalidations | create (single, batch, idempotent), transition, claim, queue, bulk actions, cleanup events, record revalidation, migrate on open | everyone, through one SQLite connection each |
| Queue execution (`application/job_execution.rs`) | a window: hydrated candidates, workers, milestones, pause tokens | admit, prepare, spawn, apply a milestone, join, settle, abort, pause | store, scheduler, runner, report callback |
| Scheduler (`scheduler.rs`) | active requests, reserved memory, exclusivity keys | try_admit, release | the window loop |
| Planner and workflow (`capabilities.rs`, `workflow.rs`, `planner.rs`, `pdf.rs`, ...) | passwords waiting for their plan | offer routes, inspect, plan, hash, approve | surfaces, runner |
| Runner and adapters (`runner.rs`, `eml.rs`, `msg.rs`, `mbox.rs`) | a staging path per job | stage, run an engine, announce, validate, re-check, commit without replacing | engines, files |
| Inspection and validation (`inspect.rs`, `validation.rs`, `pdf.rs`, `structured.rs`, `archive.rs`, `document.rs`, `office.rs`, ...) | none | probes and comparisons | runner |
| Chains (`chain.rs`) | a staging directory per queued job | run the hops, forward the last one, remove the directory | runner |
| Recovery and bulk (`job_recovery.rs`, `bulk_jobs.rs`, CLI `jobs ...`, desktop start) | none | interrupt active jobs, clean staging paths, cancel, resume, retry | store, staging paths |
| Reports (`report_service.rs`) | one JSON file per job | save, read, persist before terminal | files, store |
| Single conversions (`conversion_service.rs`) | none | run_prepared | store, runner, reports |
| Web jobs (`crates/server/src/web.rs`) | uploads and jobs in memory, conversion slots | upload, create job, execute with a timeout, finish, sweep, download | ConversionService |
| Application state (`application_state.rs`, `maintenance.rs`) | bundle files, safety copies, restore journal | backup, restore, recover an interrupted restore; snapshot, compact, integrity | all state files |
| Engine registry and packs (`engine_registry.rs`, `engine_pack.rs`) | an active pointer per engine, installed versions | set active, recover with fallback, verify | files |
| Desktop shell, command line | gates and slots of the user interface | commands, start-up | core services |
| User interfaces (`apps/desktop/src`, `apps/web/src`) | projections of job lists | render | shell, server |

Interaction in short.  A surface inspects an input, plans, and either runs the
plan at once or creates a job row together with the reservation of its output
path.  A window (one process, any number of them) hydrates queued rows, asks the
scheduler which candidate may run, claims it with a compare-and-set, re-checks
input and engines, moves it to Running and spawns a worker.  The worker runs the
adapter of the plan, which writes to a staging path derived from the job's ID,
validates, and commits by a rename that never replaces.  The loop applies what
the workers report: a milestone moves the job to Validating, the result saves the
report and settles the job.  Recovery, bulk actions, CLI commands and the desktop
write to the same rows and remove the same staging paths.

### What is hard here

* **Several actors on one row.**  The claim is a compare-and-set, the transitions
  after it are not: they test the state, not the owner.
* **Staging paths are shared names.**  Every process derives the same path from a
  job ID, so a cleanup, a recovery or a second attempt can meet a live worker.
* **Messages and results race.**  Milestones travel in a channel, results in a
  join set, and the loop polls both in random order.
* **Steps that fail one by one.**  Report, transition and release are separate;
  every adapter has twenty ways out and has to clean up on each.
* **Crashes** between any two writes, including crashes of recovery itself.
* **Files and rows are two systems.**  A restore renames parts and switches a
  database with only a journal file to tie them together; a web job has a record
  in memory, a row in the store and files on disk.
* **One rule written three times.**  What a route needs is decided by extension in
  `capabilities.rs`, by content in `workflow.rs` and by the plan's first step in
  `runner.rs`; what an output must be is computed by the planner, by the engine's
  arguments and by the validator.
* **Stale knowledge.**  Inputs are edited, engines replaced and processes
  restarted between preview, approval, run and commit.

The hazards with their lines are in `PROJECT.json`, each with the properties that
would catch it going wrong.

### What makes each component correct

* Job store: one reservation for each live job and none for others, a contiguous
  event log that agrees with the row, bulk outcomes that tell the truth, bindings
  that never change, success that is final.
* Queue execution: no success without a validated file and a report, one owner for
  a claimed job, no job dropped, no file replaced, a pause that ends.
* Scheduler: exact books, policy and exclusivity kept, no starvation, no window that
  stops for want of resources.
* Chains: only the last product is delivered, failure delivers nothing, no staging
  left unexplained.
* Planning: the three routes agree, what the planner accepts the runner accepts,
  losses are declared, and what runs is what was approved.
* Validation: an output as planned passes, a damaged one does not.
* Adapters: staging is removed on every way out, nothing unvalidated is published,
  no foreign file touched, a cancelled run ends.
* Web jobs: the answer of the API agrees with the files, slots are neither lost nor
  doubled, everyone gets an answer.
* Application state: never a mixture of old and new, nothing lost before the commit,
  an honest outcome, a recovery that can always finish.

## 2. Modules

| Module | Models | Role |
|---|---|---|
| `JobStates` | `can_transition_to` (domain.rs), the two notions of "terminal", bulk targets | operators shared by the rest |
| `JobStore` | `SqliteJobStore` | state machine of the database |
| `Delivery` | what the queue promises about one output | abstract specification |
| `QueueWindow` | windows, workers, recovery, bulk, CLI and desktop commands | composition; implements `Delivery` |
| `ChainRun` | `execute_conversion_chain` inside the queue, over several attempts | state machine; implements `Delivery` |
| `Scheduler` | `ResourceScheduler` and the loop that asks it | state machine |
| `AdapterRun` | the 21 adapters of `execute_plan_observed`, each as the program of its steps | state machine |
| `Routes` | `capabilities.rs`, the lane choice of `workflow.rs`, the dispatch of `runner.rs` | operators |
| `MediaPlan`, `MediaCheck` | inspection, plans, encoder arguments and validation of images, sound and video | operators |
| `PdfPlan` | PDF inspection, rendering, text, the page operations, metadata, OCR, watermark, and their checks | operators |
| `DataPlan` | structured data and archives | operators |
| `MailPlan` | EML, MSG and MBOX exports | operators |
| `DocumentPlan` | Pandoc, office, browser print, image to PDF and OCR lanes | operators |
| `Conversion` | preview, approval, run and retry of one conversion, over the planning modules | state machine, composition |
| `WebJobs` | uploads, jobs, slots, watchdog, finish, sweep, download of `web.rs` | state machine |
| `StateRestore` | `ApplicationStateService::restore` and recovery, per file operation | state machine |
| `JobStoreProofs`, `QueueWindowProofs`, `ChainRunProofs`, `WebJobsProofs`, `StateRestoreProofs` | | theorems about the module of that name |
| `WorkerProofs` | | theorems about `Scheduler` (whose specification is `SchedulerSpec`) and `AdapterRun` (`Spec`) |
| `ConversionProofs`, `VerdictProofs` | | theorems about `Conversion`: approval and plans; verdicts and losses |
| `MC...` | | instances for TLC |

The modules cut the system along its shared state.  `JobStore` looks at rows only
and lets every caller do every legal call, so what it shows holds for all surfaces.
`QueueWindow` keeps of the rows only the state column (the transition table is
`JobStates`, the same one) and adds windows, workers, files and the order of steps;
it gives each job a destination of its own, which the reservations of `JobStore`
justify.  `Scheduler`, `ChainRun` and `AdapterRun` open up three places that
`QueueWindow` keeps coarse: which candidate is admitted, what a worker does when the
plan is a chain, and what an adapter does between its start and its result.
`Conversion` opens up the fourth, what the plan is and whether the output obeys it.

### JobStore

`state`, `request`, `sequence`, `events`, `owner` (output reservations, keyed by
the resolved path), `bound` (idempotency keys) and `evidence` (revalidations) are
the tables.  `identity` is the file system's answer to "what is this path really",
which changes when a link is retargeted (`RetargetPath`); the key of a reservation
is resolved anew at each call, as `reservation_key` does.  A call that touches one
job is one action, because it runs in one IMMEDIATE transaction.  Calls that loop
over jobs are a transaction `txn` processed member by member, with the rollback
image kept; while it is open no other write happens (SQLite has one writer).  A
rollback may come at any point: an error, a failing cleanup callback, a crash.

### QueueWindow and Delivery

`step[w][j]` is where window *w* is with job *j*: pending, in the loop's hands
(`claimed`, `planned`, `reported`, `marked`), in its worker (`starting`, `engine`,
`staged`, `checked`, `clear`) or waiting to be joined (`ok`, `error`, `cancelled`,
`panic`).  A candidate is among the window's active jobs before it is claimed; when the
claim itself errs (`ClaimErrs`) it is `unclaimed` there, and the abort settles it by what
the store says of it, although another window may have it.  The history variable `robbed`
keeps the jobs that were taken from their owner in this way; what the properties say of
owners, stored states and deliveries, they say of the other jobs (section 7,
`OneExecutor`).  `staged[j]` is the one staging file every process derives from the job's
ID; it remembers whose engine writes it, whether it is complete and whether its
content has been validated.  `final[j]` is the destination.  The milestone channel
is a set per window, which is what a channel polled in random order against the
join set amounts to for one message per job.  Recovery runs in two steps per job
(interrupt, then clean) and can stop between them; a CLI command is three separate
looks at the store and the file system.  What else is commanded while such a CLI
command is between its looks is a parameter (`Overlapping`, `MayCommand`); the runs
and proofs exclude it, because the code does not survive it (section 7).

`Delivery` has one phase per job and one product per destination.  Its point is
what it does not allow: a delivery by an attempt that did not publish, a second
publication, a product that changes.  A job that is taken from the attempt at work on it
is `lost` (`Lose`): its stray attempt may still publish (`Stray`), and only what is at its
destination is promised to stay.  `Phase` maps the stored state and the
windows' steps to it; `Forget` is the abstract step of a crash or an abort that
loses the publications of a window's jobs.  `Freeing` says whether users make room at a
destination again: never in `QueueWindow` (`FALSE`), between two attempts of a chain
(`TRUE`), and not once the job was delivered.

### ChainRun

A queued job whose plan is a chain, over several attempts, with the window reduced to what it
does with the result.  `dir` is the staging directory named after the job, `partials` the
files that the last hop may leave beside the destination under its random ID, `littered`
whether the last chain to start ended without removing its directory, `leaked` whether its
last hop returned an error past the cleanup of its partial (`LeaksPartial`; the adapters have
such exits, `KnownLeaks`).  Two kinds of caller are modelled: those that save reports through
`ReportService`, and those that only look.  `ChainDelivers` maps the module to `Delivery`:
for an onlooker a chain is one conversion, and what its first hops commit to the staging
directory is not seen.

### Scheduler

Policy arithmetic (`SchedulerPolicy::bounded`, class ranks, memory figures) and the
admission scan are translated as they are; a plan is a sequence of hops of step
kinds.  The loop is reduced to the moments at which resources are taken and given
back: admitted, dropped, joined, aborted.  Aborting releases some jobs a second
time, as `abort_active_window` does.

### AdapterRun

`Body` gives each adapter its program: a sequence of step names taken from its
function in order (`OfficePdf`, `PdfRender`, `MarkupPdf`, `Ffmpeg`, ...), each with
the error paths that the function has at that point (`?` with and without
`cleanup_partial`).  The steps are actions shared by all adapters: begin staging,
ask for an engine, spawn, wait, time out, kill, read, write, announce the milestone,
validate, compare the input, commit, sweep.  `staged` is the staging path and what
is in it, `loose` an engine that outlived its run, `stray` whether such an engine
wrote where nobody expected it, `ended` the step that ended the run.  A run may be
cancelled, its future dropped (the web watchdog and a closed window do that) or its
process killed; recovery and another attempt follow.

Simplifications: the size ladder has 2 of its up to 4 attempts, OCR 2 pages, a
mailbox one mail; validators are perfect here (their judgement is `Conversion`'s
subject); `cleanup_partial`, which swallows its errors, always succeeds.

### Planning: Routes, ...Plan, MediaCheck and Conversion

A file is a record of the features that inspection, planning or a check reads:
container, extension, streams with codecs, pages with size, rotation and text, lock,
metadata keys, records of a table, entries of an archive, words of a document, the
parts of a mail.  A plan is a record with its lane, operation, first step's engine,
arguments and declared losses.  `InspectX`, `PlanX`, `XEngine` (what an obedient
engine makes of the plan) and `ValidateX` are translated function by function.
`Damage` lists what a faulty engine may do to an output (shorten it, drop a stream
or a page, take another codec or size, keep what it should lose, mix up words).

`Conversion` runs one request through them: `asked` (preview), `ready` (approved by
hash), `running`, `made`, `committed`, `failed`, `refused`.  `EditInput`, `EditMore`
(a further file of a merge), `ReplaceEngine` and `LoseEngine` may come between any two,
and `Restart` empties `secrets`, the map from plan ID to password.  `input`, `more` and
`version` count revisions of the first input, of the further files and of the engines; a
plan is stamped with the three it was made of, `read` with the three at the engine's run.
The history variable `late` says which of them changed after the last preparation.

`Routes` contains the three decisions: `RequiredEngines` and
`EnsureRouteAvailable` (the offer), `LaneOf` (preparation) and `AdapterFor`
(dispatch).  The gaps between them are named predicates (`OfferGaps`, `PlanGaps`,
`HonestGaps`, `Unchecked...`), each a sentence of section 7; a property then says
that there are no others.

### WebJobs

`record` and `file` are an upload's record in memory and its file, `job` the map of
jobs, `task` where `execute_web_job` is with a job, `line` and `free` the fair
semaphore, `row` the durable row, `output` and `zip` the artifacts, `reader` the
downloads.  An action is what happens between two awaits.  A record may expire at
any time after it was made and the watchdog may fire at any time, so no property
rests on a duration.

### StateRestore

One action per file operation.  `live` is the state (the parts a restore swaps and
the database), `old` the parts renamed away, `safety` the safety copy of the
database, `journal` and `backup` the journal file and the backup it has while it is
replaced.  `pc` is the next operation of the running process; `mem` is its own copy
of the journal, which differs from the file exactly when a save is due or has
failed.  `Stop` may come at any point, and `InstallFails` and `GivesUp` let any
operation fail: inside the closure of `install_prepared_bundle` a failure rolls back
in the process, elsewhere the error is returned.  Each switch of the database,
a restore's and a rollback's alike, takes an automatic snapshot of the one that is there
and then prunes to the `Retention` (5 in the code) youngest files named like one, which the
safety copy is too: `snapshots` counts those that are younger than it.  `safetyBundle` is
the pre-restore bundle, which nothing removes.  `before`, `target` and `refused` are
history variables for the properties.

## 3. Runs

| Run | Question | Bounds | Distinct states |
|---|---|---|---|
| `job_store` | Do reservations, transactions, bulk outcomes, bindings and reopening hold with jobs that compete? | 2 jobs, 2 output keys, 1 idempotency key, 2 members, 2 events after creation | 487 k |
| `job_store_history` | Do histories stay contiguous and runs tied to claims over a long life? | 1 job, 8 events: two full claim-run rounds and cleanup events | 449 k |
| `queue_window` | Do two windows share a job safely, under crashes, claims that err, recovery and every surface's requeue, and does the whole implement `Delivery`? | 1 job, 2 windows, 3 requeues | 1.3 M |
| `queue_window_parallel` | Does one window handle two concurrent jobs, pauses, panics, aborts, racing cancels; does a pause end it? | 2 jobs, 1 window, 1 requeue; fairness | 436 k |
| `chain_run` | Does a chain deliver its last hop only, account for its leftovers and end when paused? | 2 hops (the code's maximum), 3 attempts; fairness | 11 k |
| `scheduler` | Are the books exact, the policy kept and every job served? | 4 jobs, every assignment of 3 plans, parallelism 3, 2 CPUs; fairness | 162 k |
| `state_restore` | Is a restore all or nothing wherever it is cut short? | 2 swapped parts and the database, 2 user versions, 5 snapshots kept, unlimited crashes, failures and repetitions | 434 k |
| `web_jobs` | Do answers, files, rows and slots agree, and does everyone get an answer? | 2 clients, 1 upload, 2 jobs, 1 slot, 1 download; fairness | 217 k |
| `adapters` | What does each adapter leave behind, publish and promise on every way out? | 21 adapters, 2 attempts; fairness | 98 k |
| `planning` | Do offer, plan, run and validation agree, and is what was approved what is published? | every route of 25 formats with each engine missing, some hundred files per lane with one option varied at a time, 2 tries, 6 pages of which the details of 5 fit; one edit each of the input, a further file and an engine | 924 k |
| `chain_report` | (violation) is a chain's success recorded? | as `chain_run` | |
| `restore_rollback` | (violation) can every interrupted restore be recovered? | 1 user version | |

Why the bounds are enough.  Conflicts over a reservation need two jobs and two keys; three
would add only permutations.  `QueueWindow` treats jobs alike and couples them only through
the window (parallelism, abort, settling), which two jobs exercise; two windows are what a
claim can be raced by.  One requeue gives a second attempt while traces of the first remain,
three let both windows come back to a job that the other one had in between.  The refinement
of `Delivery` was also run with two jobs in one window (the instance of
`queue_window_parallel`), and that of `ChainRun` (`ChainDelivers`) on the instance of
`chain_run`.  The proofs cover every number of jobs, windows, hops and requeues. Chains have
at most two hops in the code.  In the scheduler, four jobs with three slots make every limit
bite.  In `StateRestore` a rollback goes through its parts in reverse and a cleanup in order,
so two parts show a swap before and a swap after any point of interruption; two user versions
tell an old state brought back from the present one (three parts and two versions, 8.4 M
states, find nothing more).  Five snapshots are what the code keeps.  In `WebJobs` one upload
that two jobs use and one slot are where they meet; the proofs cover the rest.  `AdapterRun`
needs a second attempt to meet what the first left. `Conversion` handles one request at a
time because nothing but passwords and input files is shared between requests, and both are
changed by its other actions; its files are chosen so that every branch of every planner and
every check is taken.

The windows of the queue runs may crash without limit.  `queue_window` leaves the
command "cancel" to `queue_window_parallel` (one window), because with it two windows
do meet on one job, as they do after a claim that errs, whose jobs are told apart by
`robbed` (section 7, `OneExecutor`).  Both set `Overlapping = FALSE` and
`LiveRecovery = FALSE`; `queue_window_parallel` has the bulk service as its only surface
because `StatesAreTrue` says that a requeue cleans up, which the desktop's does not.

## 4. Properties

| Property | Says |
|---|---|
| `ReservationIntegrity` | the integrity report's reservation queries find nothing, at any moment and after any link change |
| `BulkOutcomesTruthful`, `BindingStable` | a bulk outcome says what happened to the row, and a conflict that the member's own destination is held by another job; an idempotency key keeps its job |
| `ReopenChangesNothing` | the backfill of `migrate`, which keys by raw text, never has work to do |
| `HistoryIntegrity`, `OneRunPerClaim`, `SuccessIsFinal` | the event log is contiguous and ends in the row's state; each start of an engine has a claim of its own; no sequence of calls rewrites a success |
| `OneOwner`, `NothingDropped`, `NeverOverwrites`, `RecoveryInterruptsAll` | who works on a job (one that the abort after a failed claim took from its owner excepted), and what becomes of it and of foreign files |
| `StatesAreTrue` | stored success implies a validated product with its report; a queued job has no leftover that its requeue should have removed; with the same exception |
| `DeliversAsPromised` | `QueueWindow` implements `Delivery`, in which a job taken from its owner is lost |
| `PauseImmediateEnds`, `PauseEndsChain` | a pause ends although no engine ends by itself |
| `DeliversLastHop`, `FailedDeliversNothing`, `LeftoverExplained` | chains: a success is the last hop's product, a failure put nothing at the destination; a directory or partial that stays is one of the listed cases |
| `LedgerHolds`, `WithinPolicy`, `ExclusiveKeys`, `EveryoneServed` | the scheduler's books; an idle window always admits; no starvation |
| `AllOrNothing`, `NothingLost`, `OutcomeIsHonest` | restore: the old state or the new; the old database is in its place, in the safety copy or, once that was pruned, in the safety bundle; the answer agrees with the disk |
| `FilesMatchJobs` | a success keeps its artifact and its completed row, a failure keeps neither, the input of both goes |
| `AdmissionExact` | one conversion per client address, every permit free or held by exactly one conversion |
| `EverythingEnds` | every accepted job gets an answer though its engine hangs; every upload is removed |
| `StagingAccounted` | what is left at a staging path is explained by one of the listed leaks |
| `PublishesOnlyValidated`, `ToldBeforePublished`, `ForeignKept`, `RunsEnd` | adapters; the exceptions are the adapters that write in place and the two that do not listen |
| `ExecutedAsApproved` | the plan that runs is the one shown, made of the same inputs and engines; the output was made of the first input as shown; a further file of a merge or an engine differs only if it changed after the preparation |
| `LanesAgree` | offer, preparation and dispatch agree but for `OfferGaps` |
| `PlannedRuns` | what was planned does not fail for its arguments but for `PlanGaps` |
| `VerdictsRight` | obedient outputs pass but for `HonestGaps`, damaged ones fail but for `Unchecked...` |
| `LossIsDeclared` | streams, keys and mails that are missing in an obedient output were declared dropped |
| `LadderIsExhausted` | a size target is met, or the last attempt used the highest quality factor of the ladder |
| `PasswordsServeOnce` | a password reaches only the engine of its plan, once |

`PROJECT.json` names for each of them a change of the model, as a plausible bug would
make it, under which TLC finds the property violated.

## 5. Fairness

* `QueueWindow`: weak fairness of each window's loop and of each worker, because the
  Tokio runtime polls every task that is ready.  None of the engine's own exit
  (`EngineFinishes`, `EngineFails`), of crashes, users or recovery.
* `ChainRun`: weak fairness of the chain's steps and of the loop; a hop in its engine
  need not end by itself.
* `Scheduler`: weak fairness of the loop and of the end of each conversion;
  `EveryoneServed` is about jobs that wait for others, so it must assume that those end
  (engines have timeouts).
* `WebJobs`: weak fairness of the tasks, of the watchdog (its timer fires in the end),
  of the passing of time for uploads and of the sweeper's tick.  The semaphore is first
  come, first served, so no strong fairness is needed.  None of engines or clients.
* `AdapterRun`: weak fairness of the run's own steps, its time limits and its kills;
  none of an engine's exit.
* `JobStore`, `StateRestore` and `Conversion` have no liveness properties and no
  fairness.

## 6. Proofs

Every theorem holds for all values of the constants under the named assumptions of
the modules (for instance `NoJob \notin Jobs`, `Hops \in Nat \ {0}`, finitely many
jobs), which only say what the constants stand for.

**JobStoreProofs.**  `IInv` says the same four things of the current tables and of the
rollback image of an open transaction: types, a request for every row, the reservation
row by row, the history row by row.  The image is the reason for the strengthening: a
rollback brings it back at any time.  Lemmas on the row writers (`Reserve` gives one
key and leaves others alone, a state write appends one linked event, only a requeue
leaves a terminal state) carry all operations.  Proved: `TypeCorrectness`,
`ReservationCorrectness`, `HistoryCorrectness`, `SuccessStaysFinal` (an open transaction
never finished a job itself, so its rollback cannot undo a success) and
`ReopenIsIdempotent` (with `ReservationIntegrity` no job lacks a reservation, so the
backfill has no input).

Three more results span several steps, each with an invariant on top of `IInv`.
`RunInv`: a job that may be started next was queued and inspected after each of its
earlier runs, in the rows and in the image; only a planned job is started,
only an inspecting one planned, only a queued one inspected, so `OneRunForEachClaim`
follows for histories of any length.  `BindInv`: a bound key names an existing row, and an
open transaction binds no key and rewrites no request of an older row, so its rollback
restores nothing different (`BindingsAreStable`).  `Progress`: the members of a transaction
are processed in order, those done are as recorded, the others as in the image, and in a
requeueing transaction nobody who holds a key loses his last one; from it
`BatchIsAllOrNothing` (`AllOrNothing` of `JobStore`, which no configuration names) and
`BulkOutcomesAreTruthful`.

**ChainRunProofs.**  The properties speak of recorded states, long after the commit.
`IInv` follows the product from the commit of the last hop through the cleaning and the
report to the record (`OnItsWay`, `OwnPlaces`), says which stored states go with which
place in the window (`StateFollows`), and where a partial can be (`PartialsKnown`).
Proved, for chains of any length and any number of attempts: `TypeCorrectness`,
`LastHopDelivered`, `FailureDeliversNothing`, `StagingIsAccountedFor`, and
`ChainKeepsThePromise`: every step of a chain, of its window and of what happens between
two attempts is a step of `Delivery` or a stutter.  The commit of the last hop is
`Publish`, the record `Deliver`; a directory that cannot be removed, a panic and a crash
are `Forget`, so none of them can turn into a delivery later.

**WorkerProofs**, scheduler.  `Books` is what the scheduler knows by itself (reserved memory
equal to the sum of the active requests and within the budget, keys equal to those of the
active jobs, class counts within the limits); `Accounted` ties it to the window: whoever
has a worker or is being prepared is active.  Releases that happen twice are why `Books`
must hold for jobs that left.  The sum is a fold, which the provers cannot unfold by
induction; it is characterised instead by a weight function on subsets (`IsSum`), which
exists and is unique for every finite set, because a smallest set without one would have a
smaller one (`SumExists`, `SumUnique`).  That an idle window always finds a job to admit
rests on the sizes of the classes (`SmallClasses`), each of which fits an empty machine.
Proved, for any number of jobs, any plans and any machine: `TypeCorrectness`,
`LedgerIsExact`, `KeysAreExclusive`, `WorkersWithinPolicy`.

**WorkerProofs**, adapters. An adapter is data, the sequence of its steps. What the argument
needs of a program is stated as six facts and proved for each of the twenty-one: where the
steps stand (`Shape`: a commit follows the check of the destination, which follows the
validation), which adapters have the special ones (`Roles`), that the milestone is sent once
and before a commit (`ToldOnce`), that the input is compared after the last step that reads
it (`ReadFirst`), that only tidying follows a commit (`CommitsLast`) and that a step which
fails without cleaning up has nothing staged or a known leak (`Places`). Every step then has
one of three effects: it goes on (`Moves`), it ends the run (`Stops`) or it leaves the
ladder (`Jumps`), and only these are shown to keep the invariant: the milestone is sent when
its step is behind (`ToldAsPassed`), the engine read the planned input once it was compared
(`InputAsRead`), nobody but a loose engine touches a file between its validation and the
commit (`Validated`), nothing is staged before the first or after the last of the steps that
stage (`Bare`), and what an attempt left is one of the listed leaks until the next one
begins (`Leftover`). Proved, for any set of adapters and any number of attempts:
`TypeCorrect`, `LeftoversAreExplained`, `OnlyValidatedIsPublished`, `MilestoneComesFirst`,
`ForeignFilesAreKept`. The assumption `AdaptersAssumption` says that the adapters are some
of those that have a program.

**ConversionProofs.**  Two invariants.  `IInv` needs nothing of what a plan looks like:
`StampsOrdered` orders the revisions of the first input (a plan's is at
most the present one, an output's at least the plan's until they are compared) and says of
the further files and the engines that they are those of the plan or changed `late`,
`PlanIsShown` carries the
approval through the run, `SecretsByPlan` says that every registered password belongs to an
ID given out already, so that a new plan's can replace none.  Proved from it, for any set of
files, requests and engines: `ExecutesAsApproved`, `PasswordsServeOneEngine`.

`PlanInv`, relative to `IInv`, is about the plan itself.  Each of the planners, from
`PlanMp4` to the office exports, has a lemma: it declines for a reason that is not
a missing engine, or makes a plan that its lane's adapter gets, accepts and can open
unless it has one of the gaps (`PlanNowIsSound`; a planner is a list of tests of which the
first that fails decides, `RefusalIsATest`, and its options are within what it tested).
`PlanIsSound` keeps that through approval, run and retry: it depends on the plan and the
request alone, and each preparation establishes it anew.  `OnTheLadder` follows the attempts at a
size target up to the last rung, whose value `LadderEnds` computes for every first one.
Proved: `LanesAreAgreed`, `PlannedIsRunnable`, `LadderIsClimbed`.  The assumption
`CasesAssumption` says what a request and a file are.  A request's file has one of the
classes of the capability table, its operation is one of the operations, its numbers are
numbers.  `KnownFile` says of a file what its container gives it (`MediaFile`, `PdfFile`,
`RecordFile`, `ArchiveFile`, `MailFile`, `DocumentFile`): streams of the four kinds in
order, a width where there is a picture, pages in order, entries of the kinds that
`archive.rs` distinguishes, one message in a file that is not a mailbox, and in a message
an HTML part that says what the plain one says where it has nothing of its own.  It says
nothing of how many streams, pages, records, entries or messages there are, or what is in
them.  TLC evaluates it for the cases of the run.

**VerdictProofs.**  `VerdictInv`, on top of those two, keeps which planner made the plan of
which file (`Origin`), that the output was written for this plan with the password of this
plan, and that what was committed was not refused.  This makes of a property of runs one of
files: what is `Judged` is an output that an obedient engine makes of the plan, or one of
its `Damage`, together with the validator's word on it.  Then each lane is followed once,
for every file: what a plan of it is like (`DocumentsFit`, `MailsFit`, `DataFits`, `PdfFits`,
`MediaFits`), that the validator accepts the obedient output unless `HonestGaps` names it
(`...Honest`), and that a damage is refused unless `UncheckedPdf`, `UncheckedData`,
`UncheckedMail`, `UncheckedDocument` or `UncheckedMedia` names it (`...Caught`).  Media plans are
of five kinds (cleaned file, movie, sound, GIF, picture); for each the streams of the output
are counted by kind (`MappedStreams`, `CountJoined`, `CountAppended`) and its size and
duration computed as ffmpeg and as the validator do (`SameHeight`, `DurationCompared`).
Data and mail rest on lemmas about sequences: picking members keeps their order
(`PickedMembers`), flattening keeps members and adds up lengths (`FlattenedMembers`,
`FlattenedLength`), a tally of an archive does not depend on the order (`SameTally`), a
mailbox that was joined comes apart again at the same places (`MailboxComesApart`).
These are stated without recursion: `FlatIs` gives the fold of `FlattenSeq` its unfolding,
everything else follows from places and ranks (`Nth`).  Proved: `VerdictsAreRight` and
`LossIsAlwaysDeclared`, under `CasesAssumption` and `PagesAssumption` (pdfinfo's bounded
output has room for at most as many pages as pdf.rs allows).

Attempts to prove the two showed where the gaps had been stated too narrowly or the model
was wrong, because the files of the run do not vary two options at a time: the cases below
under *Validation* and *Routes and plans* that are marked with a star were found this way
and have a file in the run now, and the pages of an operation, which a fold had given in
reverse order, are in the order of `pdf.rs`.

**WebJobsProofs.**  `Staged` ties the state in the map of jobs to the place of the task,
`Judged` the row and the artifact to the verdict that a task carries to its end, `Used`
the upload of a job to its record, its file and whoever is about to remove it, `InLine`
the queue of the semaphore to the waiting tasks.  The permits are a cardinality, which a
step changes by one or not at all.  Proved, for any number of clients, uploads, jobs,
downloads and permits: `TypeCorrect`, `AdmissionIsExact`, `FilesMatch`.

**QueueWindowProofs.**  `Ownership` says who works on a job that no abort took from its
owner: whoever holds it is a window whose process runs, and what the store says of the job
fits the step of the window that has it (`Fits`).  `ClaimErrors` says that only a window that
aborts has a job it did not claim; settling it either finds nobody at work on the job or robs
it (`SettlingDisowns`, `DisowningKeeps`), and of a robbed job there is left to show that
nothing at its destination is replaced (`RobbedPromise`).  `FileInv` says the same of the
files: whose engine writes the staging file, that a worker past the check has a validated one
of its own, what is at the destination when a job is recorded as successful.  `Marked` (while
recovery runs, whatever is still Running or Validating is on its list) is needed for recovery
alone. The hypotheses `Calm` are the ones without which the code does not keep these facts
(section 7): recovery does not run beside a live window, no command is given while one of the
CLI is between its steps, and a planned job is cancelled only where no other window could
take it (one window, no CLI).  Proved under them, for any number of jobs, windows and
requeues: `OwnersAreAlone` (without the command "cancel"), `StoreIsTrue` (without the
desktop's requeue), `NothingUnvalidated`, `JobsAreLetGoProperly`, `RecoveryIsThorough`, and
`DeliveryIsKept`: every step of `QueueWindow` is a step of `Delivery` or a stutter.  Without
any hypothesis: `TypeCorrect` and `DestinationsAreKept`.

**StateRestoreProofs.**  A recovery does not know how far a restore or the last recovery
came; it knows the journal it finds.  `Disk` therefore speaks of that journal only: either
there is none and the state is whole, or it is committed and the bundle complete, or it can
be undone (`UndoableFrom`): each recorded part is untouched or its old content is set
aside, each part not recorded is untouched, and the safety copy is there unless nothing is
left to put back.  The safety copy may be pruned while a rollback has it in its hands, and
after that every later recovery gives up: `Safe` says where the old database then is.
That a journal can be undone is proved for every file operation
(`Recorded`, `MovedOut`, `PutThere`, `PutBack`, `DatabasePut`, `SwapBack`, `SafetyGone`), for
the journal on disk, its backup and the process's own copy alike, since a rollback inside
the restore follows the copy and a later one the file.  Proved, for any number of parts in
any order: `TypeCorrect`, `RestoreIsAllOrNothing`, `RestoreLosesNothing`, `RestoreIsHonest`.
That a recovery can always finish is not among them: it is false (section 7).

Every safety invariant and every action property that a passing run checks is thus stated
by a theorem, and so are the two refinements of `Delivery`.  Only model-checked: all liveness
(`EveryoneServed`, `RunsEnd`, `PauseImmediateEnds`, `PauseEndsChain`, `EverythingEnds`), since
`ENABLED` and fairness are out of the provers' reach.  `Conversion` has no type invariant: the
fields of its files and plans differ by lane, and what its proofs need of them is in `KnownFile`,
`Sound` and `Origin`.

`TypeOK` is proved for `JobStore`, `QueueWindow`, `ChainRun`, `Scheduler`, `AdapterRun`,
`WebJobs` and `StateRestore` and therefore in no configuration.

## 7. Findings and divergences

Each of the first two is a run that TLC refutes, with the line it contradicts in
`PROJECT.json`.

* `chain_report` (chain.rs:393): hops run under fresh IDs, `ReportService::save` refuses
  a report whose ID is not the job's, and the error aborts the window: a queued chain
  that succeeded is Interrupted with its output in place.
* `restore_rollback` (application_state.rs:917): the rollback removes the safety copy of
  the database before the journal that still demands it; a crash in between makes every
  later start fail, although the old state is back.

Four more are stated as definitions that the code does not keep; a reader can put them
into the named configuration to see the counterexample.

* `CommitsOnlyValidated` (`MCQueueWindow` with `LiveRecovery = TRUE`; runner.rs:507
  against the comment at runner.rs:57): nothing keeps recovery from interrupting a live
  window's jobs; after a retry two engines share a staging path and the old worker may
  commit what the new one is still writing.
* `OneExecutor` (`MCQueueWindow` with the command "cancel"; job_execution.rs:705 against
  `docs/testing/JOB_EXECUTION_SERVICE.md:21`): Planned can be cancelled, and the window
  does not notice that the job it goes on with has been claimed by another.  `MCQueueWindow`
  as it is refutes it too, by a claim that errs: the candidate is inserted into
  `active_jobs` (job_execution.rs:292) before it is claimed (650), so the abort (577-594)
  settles a job that another window runs (Running and Validating become Interrupted,
  Inspecting and Planned Failed); it can be requeued and claimed while the first worker
  goes on, and the two share a staging path (`robbed` in `QueueWindow`).  With
  `Overlapping = TRUE` and three requeues `OneOwner` and `OneExecutor` fail without
  "cancel": a retry of the CLI that looked at the job earlier (main.rs:2041) puts it back
  to Queued (main.rs:2060) after another window has claimed and planned it; likewise a
  cancel that saw it Planned cancels it while it runs.
* `OneInstance` (`MCScheduler` with `ThreeJobs`, `ChainPlans`, parallelism 4, 4 CPUs;
  job_execution.rs:232 against scheduler.rs:170): the request is made from the first hop,
  so browser and office instances of a second hop are not exclusive.
* `ExistingDestinationKept` (`MCAdapterRun`; msg.rs:372, eml.rs:530, mbox.rs:715 against
  `docs/USER_GUIDE.md:17`): mail is written to the destination itself, and a file that
  appeared since the check is overwritten; a failed write or a crash leaves a truncated
  mail there.

### Queue, store and recovery

* A rollback of a restore takes an automatic snapshot and prunes to the youngest five
  (maintenance.rs:1044-1083); the safety copy is named `jobs.sqlite3.pre-state-restore.*`
  (application_state.rs:760) and is pruned with them.  After five younger snapshots, that is
  after recoveries that were cut short again and again, it is gone, and every later start
  is refused; the old database is still in the safety bundle, from which nothing puts it
  back by itself (`NothingLost`; a second cause of `RollbackRefused`).
* `interrupt_active_jobs` (job_store.rs:2056) selects Running and Validating, while
  `docs/specs/JOB_RECOVERY.md:150` includes Inspecting: a job whose process dies while it
  is being prepared stays Inspecting, and no command moves it.
* `record_revalidation` (job_store.rs:1157) accepts a Failed job; when that job is retried
  the integrity check (maintenance.rs:752) calls the store inconsistent and backup,
  compaction and restore are refused until the job ends.
* `abort_active_window` (job_execution.rs:583) settles an Inspecting or Planned job as
  Failed, where `docs/testing/JOB_EXECUTION_SERVICE.md:22` speaks of Interrupted.
* The CLI's `transition_stored_job` (main.rs:2057) checks, cleans and transitions in three
  steps and can remove the partial of a newer attempt (ADR-0008:27).
* A milestone that is applied after its job was requeued and claimed again marks the new
  attempt Validating (job_execution.rs:415).
* The desktop's `requeue_job` (lib.rs:1610) does not clean the staging path, unlike the
  bulk service (bulk_jobs.rs:10); the next attempt then fails on it.
* The last hop of a chain stages under a random ID (chain.rs:393); a crash, or
  an error that passes the adapter's cleanup, leaves a partial that no recovery can find
  (`LeftoverExplained` names both).
* Two software encodes may run at once on larger machines (scheduler.rs:56), where
  `docs/specs/RESOURCE_SCHEDULER.md:40` has one.
* Input drift found by the runner ends in Failed, where `docs/specs/JOB_RECOVERY.md:50`
  has Blocked.

### Adapters

* `KnownLeaks` lists the ways out that leave the staging path: an error of a child's
  `wait()`; arguments read after the directory was made (PDF pages, HEIF, Magick); the
  directory listing of HEIF; the input's file stem, which the two office lanes look up
  (runner.rs:700, 982) after their directory was made; the lookup of pdfinfo after the
  milestone of PDF operations; a worker's own error in archives and PDF metadata; a mailbox
  directory that cannot be removed.  The mailbox's `.fw-mbox-{job}` is not among the paths
  recovery removes.
* `Deaf`: pdftoppm inside PDF OCR and qpdf inside a mailbox run without a time limit and
  without the cancellation token, so a cancelled run may never end.
* The output of tesseract is read through a tail of 64 KiB (runner.rs:3095).
* The size ladder starts at 20 and stops at 38 when no factor is given, while the comment
  at runner.rs:459 speaks of the maximum factor.

### Web jobs

* `TimesOut` leaves the durable row Running and the staging path in place; a restart
  forgets uploads and jobs and leaves their files; a broken upload leaves a file that
  nothing removes.
* One upload can serve two jobs, although a comment says exactly one; the second then
  loses its input and fails.
* Concurrent first downloads of a paged artifact write the same archive, and an archive
  finished after the sweep is orphaned.  A refused admission leaves its job directory.

### Routes and plans

* Offered without an engine that preparation then asks for: PDF to Markdown (pdfinfo),
  raster images to PDF (ffprobe).  By extension the offer misses SVG content named HTML
  and HEIC content named JPEG.
* The gate accepts the alias "markdown" while `prepare_conversion` matches no such branch;
  the jpeg branch of `plan_image` cannot be reached through the gate; flac, ogg, opus and
  aac are planned but not known targets of the gate.
* mbox to PDF needs more at execution than the qpdf that is asked for; a watermark needs
  pdftotext only at execution.
* The encoder's factor, preset and bit rate are tested by the runner only.  The paths of a
  merge are joined by ";", so a path with one cannot be merged.  Only the first input is
  compared at the start and before the commit (runner.rs:115, 3029); the joint fingerprint of
  a merge is compared at preparation (pdf.rs:1117), so a further file that changes after it
  goes into the output.  A password is trimmed for encryption and decryption and not for
  inspection; text export of a locked PDF is planned with a password and runs without it;
  metadata needs a clear-text trailer.
* MP4 with mixed subtitles drops all of them without saying so (`MixedSubtitles`).
* (star) Of a file with several pictures (HEIC) one is converted, which no plan declares
  (`OtherPictures`).
* The password is not in the plan's hash; the one of a preview that never runs stays in
  memory.  Engine binaries are compared by the preparation and by the queue's claim
  (job_execution.rs:677), not at the run of a direct conversion, except for pdfinfo in the
  document lanes (runner.rs:541, 1205).
* `capabilities.rs` says that a workbook's active sheet is exported by soffice; the code
  writes all sheets itself.

### Validation

* Refused although as planned: cleaned files with subtitles, cover art or an unusual codec,
  (star) also cleaned images of another codec or with more streams than one; `.aac`, whose
  frames are taken for MP3 (inspect.rs:245); heights that ffmpeg rounds otherwise than
  `validation.rs:403`, (star) among them those that round to zero; titles outside Latin-1; PDF
  operations whose page details exceed the 64 KiB tail (pdf.rs:995 against the page limit of
  pdf.rs:24); a workbook that is empty; a page with only script or style sent to the browser;
  (star) an EPUB of a text of which a fifth is script; documents whose scripts, link targets
  or markup within a word are compared as words.
* Passed although damaged: order, rotation and content of pages after a PDF operation
  (pages are counted); a watermark on any page suffices, where the message (pdf.rs:2208)
  speaks of every page; transparency lost by HEIC to PNG; encryption of a document that
  cannot be inspected; payloads of archive entries, which the plan promises to keep; the
  format of a text export; office documents, with a warning.
* Mail: characters written as entities are dropped by the sanitizer and by the text
  extraction, although the plan promises "normalized textual content"; script text shows
  in the text export of an HTML-only mail; separators of a mailbox are checked against
  the string in memory and not the file; an empty plain part hides the HTML one; only
  the first text part is kept; (star) a line that its sender began with ">From"
  loses the ">" if some message of the mailbox has a Content-Length.
* Archives: repacking 7z returns `Ok(false)` to go on where reading returns true (the
  library's convention decides); locked ZIP entries and links in a tar pass inspection and
  fail at execution.

## 8. Not modelled

* Bytes: parsing of containers, fonts, XML, mail encodings.  A file is described by the
  features that the code's decisions depend on.
* Argument strings of engines, except for the values that a check reads again.
* Clocks.  The age-based fair order of hydration is a constant of `Scheduler`; expiry and
  watchdogs may come at any time.
* The archive of a bundle: a restore begins with a validated one.  Concurrent programs
  during a restore, which ADR-0010 excludes.
* The rename protocol of report files and of engine pointers (two renames with a backup,
  like the journal in `StateRestore`); engine packs, whose checks are cryptographic.
* The gates of the desktop shell, its explorer integration and its installation; argument
  parsing and printing of the CLI; headers and multipart bodies of the HTTP server.
* Folder batches (a pure mapping of paths), presets and settings beyond their swap.
* A panic of the spawned web job (web.rs:673): its job would stay Running, and
  the sweep passes over running jobs.
* Power failure: each completed file operation is taken to be durable, SQLite is taken to
  be atomic.
* Telemetry, progress and wait-reason rows, listings, the user interfaces, packaging.
