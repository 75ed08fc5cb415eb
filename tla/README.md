# Wakeplane in TLA+

A verification development for the Wakeplane daemon (`src/`): modules that model
its control, TLC configurations that check them on small instances, and proofs
checked by TLAPS. This file gives the inventory of the system, what is modelled
and how, what the runs and the proofs show, and the plan for the rest.

## 1. The system

Wakeplane is one Go process over one SQL store (SQLite or PostgreSQL). It keeps
schedules, materialises their due slots as rows of a *run ledger*, claims due
rows under a lease, executes them with one of four executors, and records the
outcome, a retry or a dead letter. There is one daemon with one worker ID; what
runs concurrently is inside it: the planner loop, the dispatcher loop, one
goroutine per execution with a heartbeat goroutine beside it, and the API
handlers. All of them meet in the store, and only there, except for
`Dispatcher.active`, the in-memory registry of cancel functions.

### Inventory

| Component | State it keeps | Operations | What makes it correct |
|---|---|---|---|
| Run ledger (`store/store.go`, `store/external_jobs.go`) | `schedule_runs`, `worker_leases`, `dead_letters`, `external_jobs`, receipts | InsertRun, ClaimRunWithToken, MarkRunRunningWithLease, RenewLeaseWithToken, FinishRunWithLease, CompleteFailureWithLease, RequeueExternalRun, ResetClaimedRun, FinishRun, SaveExternalJob, ReconcileExternalJob, pruning | a row follows its life cycle; only the current claim writes; an outcome and what follows from it commit together |
| Dispatcher tick (`dispatcher/dispatcher.go`) | the tick's clock reading, expired leases, candidates | recoverExpiredLeases, ListCandidateRuns, prepareScheduleForClaim, enforceQueuePolicy, claim | capacity and overlap policy; recovery takes only what has expired; coalescing keeps the newest |
| Dispatcher execution | one goroutine pair per claim, contexts, `active` | executeRun, heartbeat, cancelRun, Shutdown | a late execution cannot disturb a newer claim; its clean-up, and recovery's cancellation, leave the newer execution alone |
| Executors (`executors/`) | none (tracked jobs: through checkpoints) | Execute; for tracked jobs submit, poll, checkpoint | a tracked job is submitted once per occurrence and its result is the remote one |
| Planner, scheduler loop (`planner/`, `scheduler/`) | `schedules.next_run_at` | materializeSchedule under three misfire policies | each slot is materialised exactly once, decided by its lateness |
| Schedule editing (`app/service.go`) | `schedules` | create, replace, patch, pause, resume, trigger, delete | edits are not lost; a paused schedule plans nothing |
| Service life cycle (`app/service.go`, `cli/root.go`) | `runDone`, `runCancel`, `activeWG`, the store's handle | Run, CloseContext, runDispatcher, Shutdown, runServe | the store is closed after everything that uses it has stopped; a shutdown completes |
| Trigger events (`store/events.go`, `app/events.go`) | `trigger_events` | TriggerEvent | one run per event, committed with its record; an answer is true |
| Retention (`store`, `app`) | none of its own | PruneTerminalRunsBefore, compactPrunedExternalJobs | unresolved remote work and the memory of events survive |
| Time calculation (`timecalc/`) | none | NextAfter, bounds | the slots of a schedule in its window, without gap or invention; delays double up to the maximum |
| Domain, API, CLI, MCP, console, config, logging, docs generator | none of their own | validation, decoding, rendering | — |
| Example automation runner (`examples/automation-runner`) | job table in memory and in `jobs.json`, queue, directory lock | newRunner, submit, work, execute, deliver, persist, Close | idempotent by key; a recorded job is neither lost nor done twice at once; a native notification is accepted at most once |

The components interact by calls and through the tables. Planner, triggers and
events insert `pending` rows; the dispatcher tick is the only claimer; the
execution of a claim and lease recovery compete to end it, decided by lease
token and expiry under the row's lock; the API changes the schedule row that
the dispatcher read earlier. Hard behaviours are therefore: values read before
a transaction and used in it (`startedAt`, the heartbeat's clock, the tick's
clock, the list of expired leases, the schedule row), executions that outlive
their lease, retries and requeues of the same row, store errors and process
death between any two transactions, and edits between any two reads. The list
`hazards` in `PROJECT.json` gives each at its line with the properties that
would catch it.

## 2. Modules

| Module | Role |
|---|---|
| `RunLedger` | ledger, dispatcher tick, executions, heartbeats, tracked jobs, operator edits, crashes |
| `RunLifecycle` | abstract specification: what the ledger promises for every attempt |
| `Planner` | planner loop, misfire policies, and the API calls that change schedules |
| `ExternalJobs` | one tracked HTTP job: submission, polling, checkpoints, deadline, reconciliation, retention |
| `JobService` | abstract specification: what a runner of remote jobs promises |
| `Runner` | the example automation runner, which implements `JobService` |
| `TriggerEvents` | deliveries of events as concurrent transactions, with retention and deletion |
| `ServiceLifecycle` | Run, the two loops, CloseContext, Dispatcher.Shutdown and runServe |
| `TimeCalc` | `NextAfter`, previews, and the delays of retries |
| `MCRunLedger`, `MCPlanner`, `MCExternalJobs`, `MCRunner`, `MCTriggerEvents`, `MCTimeCalc` | instances for TLC; `ServiceLifecycle` needs none |
| `RunLedgerProofs`, `RunExecutionProofs` | theorems about `RunLedger`: the ledger and its refinement; the executions and coalescing |
| `PlannerProofs`, `ExternalJobsProofs`, `RunnerProofs`, `TriggerEventsProofs`, `ServiceLifecycleProofs`, `TimeCalcProofs` | theorems about the module each is named for |

How they fit together: `ExternalJobs` refines what `RunLedger` says of a tracked
job in three steps (open, terminal, resolved by an operator) into the exchange
with a runner, and takes `JobService` for that runner, one per origin. `Runner`
is shown to implement `JobService`, so what `ExternalJobs` relies on is what the
example provides. `TimeCalc` computes the slots that `Planner` takes as a set and
the delay that `RunLedger` takes as the constant `Backoff`. `TriggerEvents` and
`Planner` end in the insertion of a pending run, which is `InsertRun` of
`RunLedger`. `ServiceLifecycle` starts and stops the loops whose bodies `Planner`
and `RunLedger` model, and the executions.

### `RunLedger`

A run is a pair of occurrence and attempt, which is what the unique index on
`(occurrence_key, attempt)` makes of `schedule_runs`. The tables are functions:

| Variable | Code |
|---|---|
| `status`, `due` | `schedule_runs.status`, `due_time` (for a retry equal to `retry_available_at`) |
| `lease`, `expires` | `worker_leases`: the token as the ordinal of the claim, and `expires_at` |
| `dead` | `dead_letters` |
| `jobs` | `external_jobs.job_status` of an occurrence: none, open, or a terminal status |
| `policy` | `schedules`: overlap, `max_concurrency`, whether the target is a tracked HTTP job |
| `phase`, `tickNow`, `expired`, `cands`, `cur`, `seen`, `signals`, `skips` | the program counter and local variables of `Dispatcher.Tick` |
| `execs` | the goroutines in `executeRun`: claim, program counter, clock reading not yet used, heartbeat, context, outcome |
| `active` | `Dispatcher.active` |
| `claims` | ghost: number of claims, the source of fresh tokens |

One action is one call of the store (a transaction, or a statement where the code
uses none) or of the cancel registry, with the in-memory code up to the next, and
the code's guards and early returns are its guards:

* `TickBegin`, `RecoverClaimed`, `RecoverRunning`, `CancelRecovered`, `TickAbort`:
  lease recovery. The list is read once; each item is rechecked under the row's
  lock, against the tick's clock where the code passes it on and against a fresh
  reading in `completeFailure`. `cancelRun` follows the confirmed commit as a step
  of its own; a lost confirmation ends the tick without it (`TickAbort`).
* `ListCandidateRuns`, `GetSchedule`, `PrepareScheduleForClaim`,
  `UnresolvedExternalJobCount`, `ListActiveRuns`, `CancelReplaced`,
  `EnforceQueuePolicy`, `SkipQueuedRun`, `ClearSkippedLease`, `ClaimRunWithToken`,
  `TickEnd`: one pass over the due rows in order of due time. The schedule row is
  read in `GetSchedule` and used up to `ClaimRunWithToken`, with edits in between;
  between the count, the list of active runs and each `cancelRun` executions start,
  register and finish. `FinishRun`'s update and its removal of the lease, whose
  error is ignored, are two steps. `CandidateError` is a store error of one
  candidate at any of these points; a claim whose confirmation is lost starts no
  execution.
* `BeginExecution`, `MarkRunRunning`, `registerCancel`, `HeartbeatBegin`,
  `RenewLeaseWithToken`, `ContextEnds`, `CheckpointSubmission`,
  `CheckpointTerminal`, `ExecutorReturns`, `FinishExecution`, `AbandonExecution`:
  an execution. The readings of `startedAt` and of the heartbeat's clock are steps
  of their own, and so is `registerCancel`, which replaces whatever entry the run
  has, also that of a newer execution. A terminal checkpoint may be committed while
  its confirmation is lost.
* `InsertRun`, `EditPolicy`, `ReconcileExternalJob`, `AdvanceClock`, `Restart`:
  planner and triggers, the operator, time, and the death of the process, after
  which only the tables survive.

Decisions worth knowing when comparing with the code:

* One daemon has one worker ID, so `claimed_by_worker_id` and the owner checks
  that compare it carry no information beyond the lease and are left out.
* Rows are ordered by `due_time, created_at`; `created_at` is dropped, and rows
  with equal due times come in any order.
* `DropLease` sets `expires` to 0 with the row's removal.
* The default branch of `recoverExpiredLeases` (a lease of a run that is not
  active) cannot be reached: that is `LeaseIffActive`. The same holds for the
  executor that is not registered: all four are.
* In `RecoverRunning` the read of the external job and the transaction are one
  step. A job can appear between them only through a checkpoint, which needs an
  unexpired lease, and the transaction then finds the lease unexpired.
* An execution deadline may fire at any moment: its length is unrelated to the
  lease's in the code.
* Identity preconditions of `ReconcileExternalJob` (job ID, lookup URL) are left
  out, which allows it more often; an observation that leaves the job open
  changes nothing here.
* Tracked jobs whose checkpoint finds the lease lost return an error whose
  record the ledger refuses too.
* Left out as write-only for the daemon: receipts, `last_run_at`, error texts,
  result payloads. The delay of `backoffFor` is the constant `Backoff`.
* A slot inserted as `skipped` by a misfire never meets the dispatcher and
  belongs to the planner's module.

### `RunLifecycle`

The promise without clocks, tokens, policies, jobs, goroutines and crashes: an
occurrence is inserted once; a queued attempt is leased while no attempt of its
occurrence is; a leased one starts, waits again, ends, or fails together with
the insertion of its successor; only a queued attempt without lease is skipped.
`RunLedger` implements it with `leased <- {r \in RunIds : lease[r] # 0}`.

### `Planner`

Everything that reads a schedule row, computes, and writes *all* its columns back
with `UpdateSchedule`: the planner's tick and the handlers of create, replace,
patch, pause, resume and delete. Nothing detects a write in between, so read
and write are separate steps on both sides.

| Variable | Code |
|---|---|
| `row`, `exists` | `schedules`: enabled, `paused_at` set or not, slots, misfire policy, `next_run_at` |
| `runs` | `schedule_runs` as the planner left them for a slot: pending, skipped by `skip`, skipped by `run_once_if_late` (the error text tells which) |
| `call` | handlers that have read a row and not yet written it |
| `phase`, `tickNow`, `todo`, `cur`, `due` | program counter and local variables of `Planner.Tick` |

* The times at which a schedule fires are a set of slots; `NextAfter` is its next
  element, and the code's `now - 1ns` makes it the first one at or after `now`.
  What `timecalc` computes from a cron expression, an interval or a date is
  not in this module.
* `ListAllSchedules` reads all rows at once; `FindNext` is the branch without
  `next_run_at`; `BeginMaterialize`, `InsertOccurrence` for each due slot in
  order, and `SaveNext` are the rest of `materializeSchedule`. An insert that
  meets an existing run is passed over, one for a deleted schedule fails on the
  foreign key, and a store error ends the schedule's turn.
* A handler's clock reading lies anywhere between its read and its write
  (`t \in call[c].at..now`). `EditSchedule` is any replace or patch.
* `row.since` is a history variable: the clock reading from which an API call last
  computed `next_run_at`. `PlannerLosesNoSlot` asks the planner for the slots from
  there on, so a slot that an edit itself leaves behind does not count against the
  planner; it counts in `CatchUpRecordsAll`, which does not look at `since` and is
  violated (section 5).
* `BlankRow` stands for a row not created yet; IDs are not used twice.

### `ExternalJobs` and `JobService`

One occurrence, its attempts, and every execution of it that is alive at the same
time.

| Variable | Code |
|---|---|
| `runs`, `lease`, `claims` | the ledger as `RunLedger` has it, with a lease reduced to its token and whether it has expired |
| `row` | the row of `external_jobs`: status, target frozen at the first start, deadline (named by the attempt that fixed it), whether the runner's job ID is known, compacted or not |
| `execs` | goroutines in `executeRun`/`executeJob`: step, context, the job they loaded or observed, the result |
| `active`, `toCancel` | `Dispatcher.active` for the runs of the occurrence; the run recovery has requeued and not yet cancelled |
| `rec` | a request to reconcile: the row it read and what it observed |
| `posted`, `remote` | submissions sent, which arrive at any later time or never, once or again; the runners |
| `passed` | deadlines that have elapsed |

* `RecoverLease` commits the requeue. `CancelRecovered` comes later, only after a
  confirmed commit, and reaches only the execution registered at that moment. An
  execution that stalls before `Register`, was overwritten there, or whose
  recovery lost its confirmation goes on submitting, polling and saving beside the
  newer claim.
* `Load`, `MarkRunning`, `Register`, `SaveIntent`, `Post`, `Answer`/`NoAnswer`,
  `SaveObservation`, `Return` and `Abandon` are `executeRun` with `executeJob` inside. The
  intent is committed before anything is sent; a commit whose confirmation is
  lost looks like a failure to the execution while the row is there.
* `SubmissionArrives` needs only that the submission was sent: it may come after
  the execution gave up, the lease expired, or the daemon restarted.
* `Claim` takes any target: the operator may edit the schedule between any two
  claims. The origin is part of a target; that a runner meets a key with
  different instructions is what `SameInstructions` excludes.
* `ReconcileBegin`, `ReconcileObserve`, `ReconcileCommit` are three steps because
  the store is read, the runner asked and the store written with nothing held
  in between.
* `Prune` is retention with a cut-off between two attempts, and the compaction of
  the row in the same transaction.
* `JobService` is the contract in four sentences: a key names at most one job, its
  instructions do not change, its status moves forward, an ended job stays as it
  ended.

### `Runner`

| Variable | Code |
|---|---|
| `mem`, `disk` | `runner.jobs`, `jobs.json` |
| `phase` | the process: down, up, stopping (context cancelled), closed (`Close` has fenced writers), released (lock given up) |
| `handlers`, `queue`, `worker` | submissions recorded and not yet queued, the channel, the worker goroutines |
| `flight` | notifications on their way to the provider |
| `sends`, `accepts` | history: what was sent and what the provider accepted |
| `unsaved`, `stops`, `faults` | history of failed updates; bounds |

* A write of the table is one step with three outcomes: saved, failed with the
  old file in place, failed with the new file in place (the directory sync).
  Memory is rolled back in both failures.
* An exchange with the provider is `Send`, `Provider`, `Replied`, with
  `SendBreaks` for a time-out after which the request may still arrive. Answers
  are told apart as `notificationError` does: confirmed, confirmed without ID,
  429, other 4xx, 5xx, broken.
* The contents of a report are not modelled: the sources can be read or cannot.

### `TriggerEvents`

Each statement of `Store.TriggerEvent` is a step of a transaction on a pool with
`MaxConns` connections. Isolation is READ COMMITTED, PostgreSQL's default: an
insert that meets an uncommitted row of the same identity waits (`holder`), and
each statement sees what is committed when it starts. With one connection, which
is SQLite's pool, the transactions follow each other. `Abort` is a cancelled
request or a failing statement, `Crash` rolls back what is open; a commit may
succeed and its confirmation be lost. `Prune` and `Delete` remove runs.

A consequence worth knowing: the run ID a duplicate is answered with is that of
the first attempt. When retention has pruned that attempt while a later one is
still pending, a repeated delivery is answered 410, although the occurrence is
alive. `AnswersTrue` says what 410 does mean: the run it names existed and was
removed.

### `ServiceLifecycle`

Contexts are named by the Run they belong to; an execution's context derives from
the Run's. The loops are reduced to tick, wait and off, and `select` picks among
ready channels. `CloseBegin`, `Shutdown`, `CloseStore` and `CloseTimeout` are
`CloseContext` by any number of callers. Two owners are distinguished at the
start: `runServe`, which listens, runs and closes in the order its group and its
`defer` impose, and an embedding program, which may Run again after a Run ended and
close at any moment from several goroutines. The HTTP server of an embedding
program is its own and not modelled.

`beginRun` looks at `runDone` only, so an embedding program may call `Run` after it
began to close; `examples/embedded` starts `Run` in a goroutine and closes when its
server's `ListenAndServe` returns, without waiting for `Run` to have begun. The
model lets it, and records it in the history variable `reopened`: a Run begun after
a Close ticks on a store that is closed or about to be. `StoreClosedLast`,
`NoAddAfterWait` and the first part of `ShutdownCompletes` are therefore about
services that are not reopened. `runServe` calls `Run` once and closes after it
returned.

A request begins while the server serves, and on a connection accepted before also
while `server.Shutdown` drains or after it gave up.

### `TimeCalc`

Instants are multiples of 1/`Sub` second, `Sub` standing for 10^9, so that
fractions of a second at the anchor, at the window's edges and at the moment of
the request are told apart. A cron expression is the set of its slots (parsing
is a library's). The state machine is the loop that uses the function: `Slot`
asks for the next slot from the last one, as the planner and the preview do;
`Fails` asks `backoffFor` for the next delay.

The slots a schedule ought to have are computed from the documented anchor
(`DocumentedAnchor`: `anchor_at`, otherwise `start_at`, otherwise the creation) and
not from what the code stored, with the one exception named `AnchoredAtRequest`,
which section 5 describes.

## 3. Runs

| Run | Instance | Question | States |
|---|---|---|---|
| `lease` | 1 occurrence, 2 attempts, 2 claims each, TTL 2, clock to 3; schedule edited between tracked `allow` and untracked `replace` | do heartbeats, late executions, recovery, crashes and edits keep the ledger and the cancel registry consistent, and does the ledger implement `RunLifecycle` | 1.5 M |
| `queue` | 3 occurrences, candidates cut at 1; edited between tracked `queue_latest` and untracked `replace`, which both grant one slot | do unresolved jobs hold capacity, is remote work never coalesced away, does a skipped run leave a newer one queued | 1.7 M |
| `planner` | 1 schedule, slots changed between {1, 2} and {2}, all three misfire policies, 2 calls, 2 faults, clock to 3; fair | does the planner pass a slot, does `skip` give up only stale ones, does late work run once, does planning catch up | 0.6 M |
| `external_jobs` | 2 targets on two origins, one with a lookup URL, 2 attempts, 2 claims | is the work submitted once with one set of instructions, never out of sight, and is the checkpoint true and only moved forward, with live executions of lost leases beside the owner | 0.7 M |
| `runner` | 3 keys (one offered as native or webhook, two plain), table of 2, 2 workers, 2 sends, 2 stops, 1 failed write; fair | does the runner implement `JobService`, finish its jobs and deliver within its policy | 0.4 M |
| `events` | 4 deliveries of one event, one with another payload, 2 connections; fair | one run per event, true answers, no delivery waits for ever | 0.2 M |
| `lifecycle` | 1 execution at a time, 2 closers or runServe, 1 request, 2 Runs; fair | does the store close last, and does a shutdown complete | 54 k |
| `timecalc` | `Sub` 3, time to 10, intervals 1 and 2, four crons, every window and instant; delays 1 to 9, 5 attempts, previews of 2 | are the returned slots exactly the schedule's, do delays double up to the maximum | 0.3 M |
| `planner_pause`, `planner_edit_drops`, `replace_silent`, `trackers_stuck` | see section 5 | one documented claim each, violated | — |

The type invariant of `RunLedger` is checked in `lease`; those of the other
modules with tables are theorems (section 4), which is more.

### Bounds

`MaxTime` stops the clock, `MaxClaims` the claims of one run, `CandidateLimit` is
the code's 64, `Lateness` the distance between a slot's due time and its insertion.
`lease` needs a clock that passes an expiry after a claim and one after a renewal,
and a second claim that overtakes the first execution, before or after that one
registers. `queue` has two occurrences more than slots, so that there is something
to coalesce while one is active or unresolved. Its candidate limit of 1 cuts every
tick; that a second candidate of the tick was skipped or overtaken since it was
listed is left to the theorems (the limit 2 passes too, but not within five minutes
on every machine). Its occurrences are symmetric: nothing orders them and all belong
to one schedule. A run comes back to the queue there by a deferred tracker, and a
claim is orphaned by a crash; its clock stops before a lease expires, which `lease`
covers, and `WithinCapacityHolds` and `SkipLeavesSuccessorHolds` (section 4) have no
such bound.

In `planner` the clock outlives the last slot: while a tick's time equals a slot
exactly, an exhausted schedule finds that slot again, which real time ends. Two
slots in a row that are late by different amounts, and a slot set that loses its
first slot, are what the policies and the edits tell apart; two faults interrupt
one tick and its repetition. `LateWorkRuns` holds under edits that keep the slots
after the one that was superseded, which both slot sets do: an operator who removes
the later slot as well removes what was to run.

`external_jobs`: two claims let a late execution meet the one that resumed the job,
or a second attempt resubmit after a lost answer; two targets let every edit matter.
`runner`: two stops are a crash and a shutdown, or the repetition of an interrupted
send; two workers with a table of two make the queue full; the third key is refused
for room. `events`: two senders race for the connections while two wait, and the
fourth delivery carries the conflicting payload. `lifecycle`: two concurrent closers
with a deadline each, and a second Run while the execution of the first is still
alive or after a Close began; one execution slot, used again when it is free,
because two of them multiply the run time by twelve and the safety properties are
theorems for any number. `timecalc`: three units to a second are the least with a
fraction on both sides of another.

Where a run says `CHECK_DEADLOCK FALSE` the system really may stop: the daemon is
closed, every delivery answered, the runner's process gone for good, the
occurrence finished, the loop over.

### Fairness

* `Planner`: time passes and the planner's goroutine keeps taking its next step: its
  ticker fires again after every tick, and a tick makes finitely many store calls.
  Store errors, crashes and calls are not fair, only finitely many.
* `Runner`: weak fairness of each worker and each waiting handler, which are
  goroutines, and of `main`'s way through its shutdown. Not of `Restart`, clients,
  the provider or a signal. A worker that waits for the provider proceeds by its
  client's time-out.
* `TriggerEvents`: strong fairness of each request: `database/sql` hands out
  connections and PostgreSQL row locks in the order they were asked for, so one that
  is free again and again reaches everyone. Nothing obliges the operator, the
  dispatcher or retention to act.
* `ServiceLifecycle`: weak fairness of goroutines; strong fairness of the two stops,
  since Go's `select` chooses at random among ready channels and does not ignore one
  for ever. Executors are cooperative: they return once their context has ended.
  `runServe` calls `Run`, and its `Close` is deferred and therefore happens; an
  embedding program need call neither. `RequestEnds` is not fair: a request may hang
  until `server.Shutdown` gives up.
* `RunLedger`, `ExternalJobs`, `TimeCalc` assume none and check safety only.

### Mutants

Every property of a passing run has a mutant in `PROJECT.json`: a variant of one
mapped operator, defined just before it, that a plausible slip in the code would
produce (an update by ID instead of by token, a lease row left behind, a resubmission
to the edited target, a connection kept while waiting for another), under
which TLC finds the property violated.

## 4. Proofs

### The ledger

`RunLedgerProofs` proves for every set of schedules and occurrences, every set
of policies, every number of attempts and every bound (the named assumptions of
`RunLedger`: `ScheduleOf` maps a finite set of occurrences to schedules,
policies are those validation accepts, times and bounds are natural numbers):

| Theorem | States |
|---|---|
| `TypeCorrect` | `Spec => []TypeOK` |
| `LeaseIffActiveHolds`, `RetryChainHolds`, `OneActiveAttemptHolds`, `DeadLettersMatchHolds` | the ledger invariants |
| `LedgerRefinesLifecycle` | `RunLedger` implements `RunLifecycle` |
| `TerminalStableHolds` | recorded outcomes are never rewritten |
| `SkipsOnlyUnsubmittedHolds` | coalescing discards only queued runs without a remote job |
| `WithinCapacityHolds` | capacity is never exceeded |
| `RecoveryRespectsRenewalHolds` | the dispatcher never takes a run whose lease is unexpired |
| `OnlyOwnerWritesHolds` | an execution writes only under its current claim |
| `RecoverySparesOwnerHolds` | recovery's `cancelRun` reaches no execution that owns its claim |

The inductive invariant `Inv` has four parts. `TypeInv` is `TypeOK` with the facts
that a phase of the tick carries (a candidate is set exactly in the phases that use
it). `LedgerInv` is the conjunction of `LeaseIffActive`, `RetryChain` and
`DeadLettersMatch`: none is inductive alone, since that a finished attempt has no
lease is what makes a retry insert find no row, and the chain is what makes at most
one attempt queued or active. `SkipsQueued` says of the dispatcher's list of runs to
skip that they are still queued, unsubmitted and without lease: `FinishRun` updates
by ID with no guard on the status, and is right only because no other goroutine
claims, so the list read in `EnforceQueuePolicy` cannot go stale before
`SkipQueuedRun` uses it. This fact is what `TerminalStable`, `SkipsOnlyUnsubmitted`
and the refinement rest on. `CurSettled` says that a run just recovered has no lease
and one just skipped is still skipped: the dispatcher is the only claimer, so nobody
takes it between the commit and the `cancelRun` or the removal of the lease that
follow. The three transactions shared by several actions (`FinishRunTx`,
`ReleaseRunTx`, the unconditional skip) have lemmas of their own, and each action
has one lemma for the ledger and one for the refinement.

`WithinCapacity` needs in addition that an open job or an active row of an
occurrence is counted by `OtherActive` of any other, and a cardinality argument
over finite sets for the claim that adds one.

### The executions

`RunExecutionProofs` goes on from there, under the same assumptions:

| Theorem | States |
|---|---|
| `RegistrationKeptHolds` | an execution that is registered stays so until it ends or another execution of its run registers |
| `SuccessMeansJobSucceededHolds` | a run with a remote job succeeds only if the job did |
| `SkipLeavesSuccessorHolds` | coalescing leaves an unsubmitted run queued that is due no earlier |

`ClaimsApart` says that executions have claims of their own and that no lease is
newer than the last claim: an older execution that cleans up then removes its own
registration or none. `JobInv` adds to `SuccessMeansJobSucceeded` what the owner
of a run knows of its job: one that tracks none has none, and one that returned a
success has a job that succeeded, which no checkpoint of a late execution undoes,
since a resolved status is final. `SuccessorKept` says that during the skips the
run kept by `EnforceQueuePolicy` is still queued. Each of the three was checked by
TLC on instances of the runs `lease` and `queue`.

### The planner

`PlannerProofs` proves of `Planner`, again for all constants (slots are a nonempty
choice of subsets of `1..MaxTime`, policies are the three of the code):

| Theorem | States |
|---|---|
| `PlannerTypeCorrect` | `Spec => []TypeOK` |
| `PlannerLosesNoSlotHolds` | of the slots from the clock reading of the last edit on, `next_run_at` passes none without a run |
| `OnlyStaleMisfiresHolds` | a slot found within one polling interval is not recorded as misfired |
| `LateWorkRunsHolds` | with `run_once_if_late` and unedited slots (`KeepsLateWork`) `next_run_at` passes a superseded slot only when a later one is pending |

`PlannerLosesNoSlot` speaks of the rows in the table, which is not inductive: a row is
written long after it was read. `PlanInv` therefore says of every copy that a
handler or the planner holds that the slots below its `next` have runs, and of
the row being materialised that each slot up to the tick's time is recorded or
still to be inserted. Copies stay good because recorded slots stay recorded
while the schedule lives (`Grows`), and a deleted schedule never lives again,
so its copies promise nothing. That `NextAfter` passes over no slot needs the
least element of a set of naturals (`EarliestBelow`, from the well-foundedness of
`<` in the library).

`LateWorkRuns` again has to be said of every copy of a row (`CopiesLate`), since any
of them may be written back. `GivenUp` is what carries it through an interrupted
tick: a slot is superseded only when a later slot was due at the same tick, so the
repetition, at a later time, still finds that later slot due and the last due slot
is inserted as pending. `KeepsLateWork` (one policy, one slot set) is narrower than
what the run `planner` checks, where policies and slots are edited.

### Tracked jobs

`ExternalJobsProofs` proves for any targets, attempts and number of claims:

| Theorem | States |
|---|---|
| `TypeCorrect` | `Spec => []TypeOK` |
| `SameInstructionsHolds` | every submission of an occurrence carries the same instructions to the same runner |
| `NoOrphanWorkHolds` | nothing is submitted without a row; an unresolved row keeps its target and a run |
| `CheckpointTrueHolds` | a checkpoint is never ahead of the runner; a run succeeds only when its job did |
| `CheckpointForwardHolds` | no writer moves a checkpoint back |
| `OwnerInSyncHolds` | the row is what the execution with the live lease last loaded or saved |

`SameInstructions` looks at what was sent, which is not inductive: what will be
sent sits in the memory of executions and of a reconciliation. `OneSnapshot` says
that all of these, the row and the submissions name one target. `TruthAt` says of
every copy of the row what `CheckpointTrue` says of the row; copies stay truthful
because a remote job only advances (the lemmas on `Rank`). That a late execution
does no harm rests on `LeaseInv` (tokens are told apart) with `InSync` for the one
that holds the live lease, and not on its cancellation, which may come late or never;
and on the comparison with the loaded row that
reconciliation makes (`RecInv`).

### The example runner

`RunnerProofs` proves for any keys, requests, workers, table size and bounds:

| Theorem | States |
|---|---|
| `TypeCorrect` | `Spec => []TypeOK` |
| `HeldOnceHolds` | an unfinished job is in one hand and never in two, but for one whose update could not be saved |
| `SendsWithinPolicyHolds` | a notification is sent at most `MaxDeliveries` times; a native provider accepts it at most once |
| `DeliveryTruthfulHolds` | "sent" was accepted; a native "failed" was not and never will be |
| `WritesUnderLockHolds` | the file changes only under the directory lock |
| `KeepsServiceHolds` | `Runner` implements `JobService` |

Table and file may differ in one job, the last whose update was not saved: it is in
nobody's hand, and the file is at most one step of the job ahead (`DiskInv`). That
is why a restart, which makes the file the table, is a step or a stutter of
`JobService`. `Told` says what an entry claims of the sends, of both tables, because
the file becomes the table; `Knows` says what a worker may conclude at each step
from the provider's answer. A native send is marked before it leaves and never
repeated after a crash, so `Clean` (nothing accepted, nothing in flight) holds
whenever the mark is absent. Each step of the refinement is one of the two cases
of `Writes`: an update saved, or one whose save failed.

### Time

`TimeCalcProofs` proves for any resolution of the clock, intervals, anchors, sets of
cron slots, windows, last instant and policies:

| Theorem | States |
|---|---|
| `NoSlotSkippedHolds` | a loop over `NextAfter` returns the slots of its schedule in order and without a gap |
| `DelaysDoubleHolds` | the n-th delay is the initial one doubled n - 1 times, at most the maximum |

The first rests on `NextAfterIsNext`: `NextAfter` returns the least slot later than
its argument, or nil when there is none. For an interval that is arithmetic with a
variable divisor: `ElapsedIsFloor` (subtracting seconds and units with a borrow
gives the whole seconds between two instants) and `CadenceNext` (one interval more
than have elapsed is the next multiple). The second is a fact about a recursive
function for every argument, where the library's induction theorems cannot be
used. It goes by the least counterexample instead (`MinIsLeast`): the closed form
`Delay` solves the recursion, and a least attempt at which another solution
differs would follow one at which it agrees. That 2^(n+1) is twice 2^n comes from
counting subsets (`PowerDoubles`).

### Trigger events

`TriggerEventsProofs` proves for every set of deliveries, events and payloads and
any number of connections:

| Theorem | States |
|---|---|
| `EventsTypeCorrect` | `Spec => []TypeOK` |
| `OneRunPerEventHolds` | an event has at most one run, ever |
| `EventHasRunHolds` | a recorded event has its run, with its payload |
| `AnswersTrueHolds` | every answer is true of the ledger |

What makes it inductive: the uncommitted row of an event belongs to one
transaction that is about to decide (`HolderDecides`), which holds it alone, of an
event not recorded, and keeps the schedule from being deleted (`NewHolds`); until
the deletion the record of a run's event names that run, also when the run has
been pruned (`RunsRecorded`). The last is why retention leaves `trigger_events`
alone: without the record a repeated delivery would run again. `Honest` ties what
a request has read to what it will be told.

### The service

`ServiceLifecycleProofs` proves for any number of executions, closers, requests
and Runs:

| Theorem | States |
|---|---|
| `LifecycleTypeCorrect` | `Spec => []TypeOK`; the service's handle is of the last Run or none |
| `StoreClosedLastHolds` | the store is closed after both loops and every execution, unless the service is reopened |
| `NoAddAfterWaitHolds` | no execution joins `activeWG` once a `Shutdown` waits on it, unless the service is reopened |
| `RequestsSeeStoreHolds` | under `runServe` only requests that `server.Shutdown` gave up meet a closed store |

The argument: a Run in progress has its handle in the service (`RunHasHandle`), so
every closer that began knows it (`CloserKnowsRun`, as long as nothing is reopened)
and drains only when the loops are off (`DrainsAfterLoops`). Executions start only
from a loop, so once one closer has drained them there are none
(`ClosedAfterDrain`), whatever the other closers do. `ServerFirst` is the order
`runServe` imposes.

### Only model-checked

Every invariant and action property that a passing run checks is a theorem
(`LateWorkRuns` for one policy and one slot set). What is left to TLC is liveness:
`EventuallyPlanned`, `JobsFinish`, `AllAnswered`, `ShutdownCompletes` need fairness
and ENABLED, which the prover does not handle.

## 5. Where code and documentation differ

Shown by a run:

* `replace_silent`: with `max_concurrency` 1 the early return on capacity comes
  before the `replace` case, so the active run is not signalled;
  `docs/public/policies.md:38` and `docs/replace-semantics.md` say it is.
* `planner_pause`: the planner writes back `enabled` and `paused_at` from the row
  it listed, so a pause that commits during its turn is undone;
  `docs/public/schedules.md:104` says the planner stops.

* `planner_edit_drops`: replace and patch recompute `next_run_at` from the present
  whatever they change (`service.go:291`, `:327`), so a slot due and not yet
  materialised is dropped, also under `catch_up` and by an edit of the name alone;
  resuming a schedule that was not paused does the same.
  `docs/public/policies.md:99` says every missed occurrence is materialised.
* `trackers_stuck`: two requeued trackers of a schedule edited from `allow` to a
  policy with one slot each count the other's unresolved job, and neither can be
  claimed (`external_jobs.go:308`), nor reconciled while its run is queued.
  `docs/public/executors.md:39` says polling resumes after recovery.

Met while modelling, visible in the definitions, and without a run of their own:

* An interval created or previewed with a `start_at` and without `anchor_at` is
  anchored at the moment of the request (`service.go:235`, `preview.go:23`);
  `docs/public/schedules.md:57` says the anchor is then `start_at`. `NoSlotSkipped`
  takes the documented anchor in every other case and names this one
  (`AnchoredAtRequest`), where it checks the cadence from the anchor the code took.
* An execution that stalls between its running commit (`dispatcher.go:248`) and
  `registerCancel` (`:268`) while its lease expires, is recovered and the run claimed
  again, replaces the newer execution's entry (`:457`). The owner is then out of
  reach of `cancelRun` and of `Shutdown`'s sweep; the end of its Run's context and
  its deadline still reach it. `RegistrationKept` therefore excepts a registration
  and covers the clean-up.
* For the same reason the cancellations of `replace` miss an execution that has yet
  to register when the loop passes it (`dispatcher.go:179`): nothing cancels it
  until a later tick considers the waiting run again.
* `prepareScheduleForClaim` calls `enforceQueuePolicy` under every overlap policy
  once `max_concurrency` is reached (`dispatcher.go:149`), so a `forbid` schedule
  skips all but the newest of the runs that wait. `docs/public/policies.md:11`
  says nothing is skipped.

## 6. Not modelled

* Cron parsing and time zones (a library), the contents of the example's reports,
  HTTP and CLI decoding and rendering, the console, MCP, logging, configuration,
  templates, the documentation generator and the deployment check: no state of
  their own.
* Deletion of a schedule under a running execution: the ledger's rows cascade
  away. Deletion is modelled where it meets the planner and event deliveries.
* Starvation at the candidate limit: runs of a blocked schedule fill the 64
  candidates of a tick and starve other schedules. It needs two schedules, a full
  queue and a liveness property of the ledger, beyond the instances in reach.
* Liveness of the ledger: a due run is eventually claimed and ends. Clock and
  claims are bounded in every instance, so an eventual claim cannot be told from
  the bound.

## 7. Plan

1. A ledger whose clock is relative to its leases, so that it needs no bound, and
   on it the liveness of a due run and the candidate limit.
2. The refinement of `RunLedger`'s view of a tracked job by `ExternalJobs`, stated
   and proved: both have the same checkpoint under different detail.
3. Safety lemmas that the liveness properties lean on, as theorems: that a
   delivery of `TriggerEvents` which waits for a connection or a row is waiting
   for one that somebody will release, and that each wait of a shutdown is for a
   goroutine whose context has ended.
