# A TLA+ model of the evaluation engine

This directory specifies, model-checks and partly proves the protocol parts of
the evaluation engine: a FastAPI service that stores evaluation runs in a
database and executes them one at a time in a queue worker inside the same
process. `PROJECT.json` maps every definition to the lines it models and lists
runs, mutants, hazards, findings and theorems.

Run a check with `tlc -config X.cfg M.tla`, where `M` is the MC module that
PROJECT.json names for the run (`MCQueueWorker`, `MCSchedules`, `MCMemberships`,
`MCRunSubmission`, `MCMeasurements`), and a proof with `tlapm P.tla`, where `P` is one of
the eight modules whose name ends in `Proofs`.

## The system

| Component | State | Operations | Interacts with |
|---|---|---|---|
| Queue worker (`services/queue_worker.py`) | claim of the one execution slot, heartbeat row | `claim_next`, `_execute_claim`, `_retry_or_fail`, `_mark_*`, `stop` | run rows, runners, audit, schedules |
| Runners (`runners/*.py`) | status and result rows of the claimed run | create, batch loop, cancellation checks, complete, fail, interrupt | worker, batch-writer thread, activation |
| Run API (`api/main.py`, `baseline_service.py`) | run rows | submit, cancel, retry, mark baseline | worker, through the database only |
| Run recovery (`run_recovery.py`) | run rows | interrupt abandoned runs at startup | worker |
| Schedules (`schedule_service.py`) | schedules, executions | create, (de)activate, dispatch due ones | run rows, usage, templates |
| Usage limits (`usage_service.py`) | counters derived from rows, snapshots | check, overview, set limits | every create operation |
| Identity (`identity_service.py`) | users, memberships, sessions, throttles | sign in and out, members, passwords | every request |
| Datasets (`dataset_service.py`) | datasets, versions, active flag | upload, add version, activate, delete | runs pin a version |
| Release policies (`release_policy_service.py`) | revisions | create, approve, verify | runs bind a revision |
| Operations (`operations_service.py`) | audit events, retention, legal hold | record, retain, preview, purge | every row of a project |
| Scenario evaluation (`scenarios/`, `scenario_service.py`) | manifest, results, imported evidence | run, evaluate, import, compare | its own tables |
| Evaluators, providers, reports, billing, notifications, demo, UI, CLI | little or none | scoring, network calls, formatting | see `components` in PROJECT.json |

**What is hard.** One asyncio loop runs the worker and most handlers, so code
between two awaits excludes other loop code, but `claim_next`, `retry_now`,
`mark_baseline`, the schedule dispatcher and the batch writer run in threads and
commit between any two statements. Rows carry no version: a handler that reads a
row and writes it later overwrites what was committed in between, except where
the UPDATE repeats its predicate. The runner commits `failed` and `completed`
before the worker decides what becomes of the run, so these statuses are
transient. Audit events and heartbeats are separate transactions after the
commit they describe. A stop cancels coroutines but not threads. The complete
list, each with its line, is `hazards` in PROJECT.json.

**What makes it correct.** Queue: bounded attempts, cancelled runs stay out,
evidence is never lost or mixed, completed means complete, nothing is left
running unattended, everything queued is settled. Schedules: one run per
occurrence, the next time moves past now. Usage: concurrent admissions exceed a
limit by a bounded amount. Identity: an owner always remains. Datasets: one active
version (with concurrent uploads at most one for each of them), a pinned one never goes
away. Policies: a run is never bound to less than
the policy it was submitted under. Retention: nothing is deleted under a hold, and
no version a run needs. Figures and verdicts: they rest on complete evidence, do not
depend on the order of rows, presentation or labels, and never turn an error into a
pass. Scenarios: a verdict over a trace stands whatever evidence arrives later, and the
files and links that show it agree with what is stored.

## Modules

| Module | Role |
|---|---|
| `RunLifecycle` | What the queue promises about a run: one execution at a time, a bounded number of them, terminal statuses are final, work that lost its executor is interrupted |
| `QueueWorker` | The detailed protocol of worker, runner, handlers, threads, stop, crash and restart |
| `MCQueueWorker` | Instances for TLC |
| `QueueWorkerProofs` | Theorems about the queue: types, attempts, cancellation, result rows, archives and the audit trail |
| `QueueLifecycleProofs` | Extends it: the refinement of `RunLifecycle`, and what holds when commits succeed |
| `Recurrence` | What recurring evaluations promise: a schedule has one next time, which is served once, at that time or later |
| `Schedules` | Recurring evaluations: schedule rows, execution history, dispatchers, the project purge |
| `MCSchedules` | Instances for TLC |
| `SchedulesProofs` | Theorems about schedules, the refinement of `Recurrence` among them |
| `Memberships` | Members of a workspace and the last-owner guard |
| `MCMemberships` | Instances for TLC |
| `MembershipsProofs` | Theorems about the guard |
| `DatasetRegistry` | Datasets, their numbered versions and the active flag; uploads and activations that read and write in two steps |
| `ReleasePolicies` | Revisions of a project's release policy and their approval |
| `RunSubmission` | Extends both: a run from the capacity check over the lookup of its policy to its insertion, against retries, deletions, legal hold and retention |
| `MCRunSubmission` | Symmetry for TLC |
| `RunSubmissionProofs` | Theorems about submitted runs |
| `RunMetrics` | Pure: which result rows count, and the figures of an evaluator |
| `BaselineComparison` | Extends it: results arrive and disappear while a comparison reads them; the verdict of the release check |
| `PairwiseMetrics` | The presentation order, the judge, the counts and the Elo ratings of a pairwise run |
| `ScenarioScoring` | The checks of a contract on evidence that grows, the decision of a case and its dimensions |
| `ScenarioRunner` | The command-line runner and its two files |
| `ScenarioSuites` | Suite versions, imports, links and the comparison of two imported runs |
| `Measurements` | The composition of the last six, which share no state |
| `MCMeasurements` | Policies, rows, contracts and the Elo curve for TLC |
| `MeasurementsProofs` | Theorems about their protocols: answers, presentation, files, links, version numbers |
| `VerdictsProofs` | Extends it: what a pass means, in scoring, suites and release checks |
| `FiguresProofs` | Extends it: what the sums and ratings compute, for any number of rows and cases |

`RunSubmission` composes registry and policies: its `Next` interleaves their actions
with its own and adds the guards that couple them (a request needs the project, an
upload under way does not look at it again). `Measurements` puts five modules without
common variables side by side; `studied` picks the one a behaviour follows, because
their product says nothing that each alone does not say.

Queue and schedules meet in the database: a dispatch inserts a queued run with
one commit, which is one `Submit` of `QueueWorker`. They share no other state,
so they are separate modules. Memberships share no state with either.
`Execute` of `RunSubmission` abstracts the whole protocol of the queue to its outcome.

### State of `QueueWorker`

| Variable | Code |
|---|---|
| `status`, `attempts`, `cancelReq`, `parent`, `baseline` | columns `status`, `attempt_count`, `cancellation_requested_at`, `parent_run_id`, `is_baseline` of a run row |
| `nextAt` | `next_attempt_at`: `"due"` is null or a time already reached, `"later"` one after the clock or after the `now` of the claim in progress |
| `results`, `archive` | active result rows per batch, rows of `run_attempt_archives` |
| `audit` | `audit_events`, restricted to the actions in `Audited` |
| `pc`, `claim`, `batch`, `inflight`, `event`, `stopping` | where the worker coroutine is, the run it claimed, the batch it executes, the outcome of the batch not yet written, the audit event still to be written, and a stop that waits for the claim thread |
| `cancelling`, `retrying`, `marking`, `auditing` | handlers between their read and their write, and audit records still to be written |
| `outages` | counts stops and crashes, for the bound |

Single-model and pairwise runs share the protocol line by line, so a run's kind
is abstracted and the run ids of both tables form one order (`created_at`).
A batch stands for the rows one transaction writes, and its outcome only tells
whether all of them are transient provider errors. `worker_id`,
`worker_claimed_at` and the heartbeat row are displayed and never read by a
decision; they are left out. Provider and judge errors are outcomes of rows, not
exceptions (`_run_example` catches them).

### Actions

`Submit`; `CancelRead`, `CancelWrite` (`cancel_run`); `RetryRead`, `Accelerate`,
`InsertRetry` (`retry_now`); `BaselineRead`, `BaselineWrite`; `RecordApiEvent`;
`Poll`, `ClaimRead`, `ClaimCommit`, `ClaimLost`, `ClaimRecorded`,
`ClaimRecordFails` (`claim_next`); `CancelBeforeStart`, `BuildRunner`,
`BuildFails`, `StartRunner`, `CancelSeen`, `GenerateBatch`, `PersistBatch`,
`NextBatch`, `CompleteRun`, `RecordActivation`, `RunnerRaises` (`_execute_claim`
and the runner); `AfterRaise`, `AfterReturn` with `MarkCancelled`,
`MarkNonretryableFailure`, `ExhaustRetries`, `ScheduleRetry`,
`ClearCompletedClaim`; `RecordEvent`, `RecordEventFails`, `WorkerCommitFails`;
`BackoffElapses`; `Stop`, `DrainWriter`, `Crash`, `Restart`.

While `cancel_run` is between its SELECT and its commit it holds the event loop:
every step of the worker coroutine needs `LoopFree`, the threads do not. This is
the reason why the unconditional write of a handler that saw `running` never
hits a queued row, and why a handler that saw `queued` can only race with the
claim of that row.

Operators introduced by a comment that starts with "Mutation" are plausible bugs, used only to show
that a property can be broken by a change of the definition that follows them.

### State and actions of `Schedules`

| Variable | Code |
|---|---|
| `row` | the schedule row: absent, `active` or not, deleted by a purge |
| `next` | `next_execution_at`, in units of time smaller than a period |
| `executions` | `schedule_executions`: schedule, `scheduled_for`, `created_at`, `status` |
| `runs` | ids in `evaluation_runs` that a schedule created (`uuid5` of schedule and time, the same as the execution's id) |
| `anchor` | history variable: the first `next_execution_at` |
| `clock` | `_now()`; it never steps back |
| `pc`, `now`, `todo`, `current`, `planned` | a thread in `trigger_due`: its `now`, its `due_ids`, and the schedule and `scheduled_for` of `_trigger_one` |
| `purging`, `doomed` | a thread in `purge_project_data` and the run ids it has read |
| `aborts` | counts passes that an exception or a crash ended, for the bound |

`Create`, `SetActive` (API); `RetainRun` (`apply_retention`); `PurgeRead`,
`PurgeCommit`, `PurgeFails` (`purge_project_data`, with one schedule per
project); `ListNothing`, `ListDue`, `OpenSchedule`, `Trigger`, `Conflict`,
`FinishPass` (`trigger_due`, `_trigger_one`); `Abort`; `Tick`.

`Locking` chooses the database. With PostgreSQL the schedule row is locked from
`OpenSchedule` to the commit, and the purge's lock on the project row makes the
foreign key of a new run wait (`RunRefused`). SQLite ignores `FOR UPDATE` and
its SELECTs are outside a transaction: between read and commit everything may
happen, and only the primary key of the execution refuses a second one. The
repository documents one dispatcher for SQLite; the model has any number.
`_next_after` adds the period until the time is past `now`; `NextAfter` is the
closed form of that loop. Everything that fails before the final commit (no
template, no capacity, no connection, `create_run`) is one failed occurrence.

### State and actions of `Memberships`

| Variable | Code |
|---|---|
| `role` | `workspace_memberships.role` per user of one workspace, `"none"` without a row |
| `pc`, `op`, `target`, `wanted` | a thread in `add_member`, `update_member_role` or `remove_member` and its arguments |
| `seen` | the role in the row it has read |
| `gone` | requests whose row was deleted after they read it (they know it by id) |
| `held` | owner rows locked by the guard of a request, until its transaction ends |

`Authorize` (the handler's check that the caller is an owner), `ReadMembership`,
`NotFound`, `LockOwners` and `Refuse` (`_assert_owner_remains`), `Write` with its
cases `InsertMember`, `UpdateRole`, `RemoveMember`, and `RollBack` for whatever
else ends a transaction. `Locking` chooses the database as for schedules. A
writer waits for locked rows; a deadlock of two writers ends in `RollBack`.
`client_viewer` differs from `viewer` only in project access and is left out;
so are users, tokens and passwords.

### State and actions of `RunSubmission`

| Variable | Code |
|---|---|
| `dataset`, `version` | rows of `datasets` (with the latest version number) and `dataset_versions` (dataset, number, `is_active`) |
| `upload` | a request in `add_version` or `set_active_version` between its read and its flush, with the versions it saw active |
| `drafted`, `approved` | the revision numbers of the project's policy and which of them are approved |
| `project` | there, seen without revisions by `delete_project`, or gone |
| `run` | rows of `evaluation_runs` and `pairwise_runs`: dataset, pinned version, project, policy revision, status; `retry` and `began` are history variables |
| `request` | a submission between its three transactions |
| `runLimit`, `hold` | the plan's limit on runs and the workspace's legal hold |
| `retention` | the rows an open `apply_retention` transaction will delete |

`CreateDataset`, `BeginUpload`, `CommitAdd`, `CommitActivate`, `AbandonUpload`
(`dataset_service.py`; a row that vanished makes the flush fail); `CreateRevision`,
`Approve`; `Admit`, `BindPolicy`, `StoreRun`, `Reject` (`create_run` and
`create_pairwise_run`); `Retry`, `Execute`; `SetRunLimit`, `SetHold`;
`DeleteDataset`, `CheckProject`, `DeleteProject`; `BeginRetention`, `EndRetention`.
The database is PostgreSQL: foreign keys and row locks hold. Rows keep their
identifiers for ever, so a deleted one is never used again. Age is left open:
retention may select any terminal run and any unreferenced inactive version. A run
that the capacity check admitted may be stored with another version than the one it
counted, as in the code.

### State and actions of `Measurements`

`BaselineComparison` keeps the rules of the run's policy, the stored rows and the
status of both runs, and for one comparison what it has read: first the run records
(`Start`, `StartUnfinished`), then each run's results (`ReadCurrent`, `ReadBaseline`)
and, for the slices, each run's results once more (`ReadSlices`), all in sessions of
their own. `RunExample`, `Complete` and `DeleteRun` go on meanwhile. `Conclude` gives
the answer; `answers` remembers all of them. Scores are whole numbers of `1/Scale`,
shares are compared by cross-multiplication, so rounding plays no part. An average is
the sum of the scores over the valid rows, a pass rate counts scores of at least
`PassThreshold`. `BaselineRows` are the completed results a comparison may meet, with
duplicates and strays that runs from before the unique result identity may hold.

`PairwiseMetrics` stores one comparison per case: `GenerationFails`, `JudgeFails`, or
`JudgeAnswers` with an opinion shown in a random order and turned back. Elo ratings are
integers (thousandths of the K factor of 32 points) and are reported rounded to a tenth
of a point, or not at all without a valid comparison (`Reported`, `NoRating`); the averages
are kept as exact sums and are not rounded. `ExpectedScore` is a constant, of
which only three facts are assumed, for the leads that this many cases can produce: it is
in `0..1000`, `ExpectedScore(-lead) = 1000 - ExpectedScore(lead)`, and a tie takes less
from the leader than the lead (so it does: with a factor of 32 it takes less than a tenth
of it). The instance interpolates the logistic curve.

`ScenarioScoring` records calls, documents and effects one by one until a trace is
complete; `Checks` are the checks `evaluate` and `evaluate_trace` make of what is there.
What is not a trace (`ValueKinds`: outputs with the grounding claims, schedules, states,
citations, budgets, revenue figures) is a comparison that is `absent`, `met` or `unmet`:
`absent` when what holds the value was not exported, and then the check is unverified;
`unmet` also when the path is missing in something that was exported, and then the check
has failed (`assert_value`). An output is part of all evidence (`Always`), so it is never
absent. `RecordValue` may turn `met` and `unmet` into each other in any later export. The
other checks of a schedule exist only when its shape is valid (`Checked`), a reference
that nobody reviewed leaves a check unverified (`ReferenceChecks`), and authorization is
checked only where the contract requires it. `Dimensions` selects checks by kind; the code
does so by the prefix or the suffix of a name, which a contract with unusual names could
defeat. Left out are the checks of multi-turn evidence, and without any revenue evidence
the code reports one unverified check where the model reports one for each figure, which
decides the same.
`ScenarioRunner` follows `run_scenarios`: `ExecuteScenario`, `WriteLine`,
`SaveManifest`, and the endings `Finish`, `Interrupt`, `WriteFails`, `Kill`. `Interrupt` is a cancellation,
which arrives while an agent is awaited; a second Ctrl-C can also raise `KeyboardInterrupt`
after a result was counted and before its line was written, and then the manifest counts
one result more than the file holds. That is not modelled. In
`ScenarioSuites` every request is two steps, `ReadNumber`/`StoreSuite`,
`BeginImport`/`StoreImport`, `BeginShare`/`StoreShare`, or ends in `Refuse`;
`EndShare`, `DeleteEvidenceRun` and `DeleteSuite` are one step each.

## Runs

| Run | Bounds | Question | States |
|---|---|---|---|
| `QueueRetries` | 2 runs, 2 attempts, 1 batch, 1 retry thread, no faults | Do the handlers' threads and the worker keep cancelled runs out of the queue, and the audit history true? | 1.2 M |
| `QueueFaults` | 2 runs, 2 attempts, 1 batch, every fault, 1 outage | Budget, archive and lifecycle under failing commits, failing bookkeeping, stop and crash | 0.2 M |
| `QueueBatches` | 1 run, 3 attempts, 2 batches, every fault, 1 outage, 1 baseline thread, cancellations audited | Do rows of attempts mix, is completed complete? | 0.2 M |
| `QueueLiveness` | 2 runs, 1 attempt, 1 retry thread, 1 stop | Does a graceful stop leave a run unattended, or a cancelled run completed? Are cancellations and queued runs settled? | 0.1 M |
| `SchedulesLocked` | 2 schedules (periods 2 and 3), 2 dispatchers, row locks, clock to 2, 1 abort | Do history and runs tell the same story, and is a paused or purged schedule left alone? | 1.5 M |
| `SchedulesUnlocked` | 1 schedule (period 2), 2 dispatchers, no row locks, clock to 3, 1 abort | Is every planned time executed exactly once? Are schedules served as if each occurrence took one instant? Is a due schedule executed? | 0.1 M |
| `MembersGuarded` | 3 users, 2 requests, row locks | Does a guarded demotion or removal leave an owner? | 38 k |
| `OwnersPostgres` | 2 users, 3 requests, row locks | Finding, see below | |
| `SubmissionLimits` | 1 dataset, 1 version, 3 runs, 2 submitters, 2 revisions, limit 1, hold set and lifted | Are concurrent submissions bound to the policy in force, how far do they exceed the limit, and does a hold stop retention? | 1.8 M |
| `SubmissionVersions` | 2 datasets, 3 versions, 2 runs of both kinds, 2 uploaders, 1 submitter, limit 2, within `Explored` | Does the version of a run stay stored, and how many versions can overlapping uploads leave active? | 0.7 M |
| `Measurements` | 2 cases, 2 evaluators, 2 backends, 4 policies, 4 baselines; 3 pairwise cases; 6 contracts with 2 items per trace; 3 scenarios; 2 suites, 2 runs, 1 link, 2 clients | Do figures, verdicts, files and links say what the evidence says? | 1.0 M |
| `RetryParent` | 2 runs | Finding, see below | |

**Why the bounds are enough.** Two runs are what the single slot, the order of
claims and a parent with its child need; a third run only waits. Two attempts
show the last but one and the last of the budget, three attempts (one run) an
inner one. Two batches give a first and a last. Handlers of one kind only
interfere through rows, so one thread of a kind next to the worker shows every
pair of steps; `Accelerate` and `InsertRetry` of two threads commute. One outage
is followed by a full restart, from which the state is again one that the model
reaches without outages, apart from interrupted rows.

For schedules, two dispatchers race for one schedule; two schedules make a pass
with a list that grows stale. A period of 2 and a clock to 3 contain an
occurrence on time, a late one, one made up for after a gap of a period or
more (with a first delay of 0 or 1), and the next. One abort shows what a pass leaves to the next.

For memberships, two users are the last two owners and a third a new one; the
guard of one request races with the write of one other. `OwnerRemains` fails
with concurrent requests (below); what the locks do guarantee is
`GuardedWriteLeavesOwner`. A workspace without an owner accepts no request
any more, so the runs that reach one do not check for deadlock.

For submissions, two submitters pass one check together and one run of room is
enough to see both exceed it; three runs leave room for a retry. Each run has one
limit, so `SetRunLimit` never changes it there: that the bound survives a changing limit
is the theorem `OvershootHolds`, for every finite set of limits. Two revisions can be
approved in either order. Two datasets and two versions let a pin name a version of
the other dataset and let an active version change while a run resolves it. Two uploaders
overlap, and three versions are the fewest that could all be active against
`ActiveBounded`. All of this together is too much for TLC, so `SubmissionVersions` stops at
the states outside `Explored` (`MCRunSubmission`): uploads use every version and uploader in
one dataset as long as there is no run or request, which change neither versions nor flags;
beside runs and requests at most two versions are used (`MaxVersions`), and datasets, runs
and uploads are at most three together (`MaxBusy`). `SubmissionLimits` has no such bound.
What lies beyond is covered by the theorems `VersionStays` and `ActiveStaysBounded`.
Each submission run has a single limit, 1 in `SubmissionLimits` and 2 in `SubmissionVersions`.

For the measurements, two cases are the smallest set with a case that counts and one
that does not, and two evaluators the smallest with one that lacks evidence. The
policies are: none approved, drops only, a minimum with full coverage, and a minimum
with a slice of its own. Three pairwise cases are needed for an Elo order with a win,
a tie and an error, but too few to see many ties wear a lead down to nothing, which
is why `UnbeatenLeads` claims a lead only after a win in the last case, and why its theorem
matters. The six contracts have each kind of check between them, one with an effect policy
that does not require authorization. Two suites and two clients make two uploads that compute the same
number, and an upload, import or link that races with a deletion.

The `Measurements` and submission runs do not check for deadlock: a behaviour ends
when every case is stored, every runner has exited or every identifier is used.

`RunningIsHeld` needs that neither bookkeeping nor a commit fails, and
`CancelledNeverCompletes` that no commit fails and the process does not die
between `completed` and the worker's second look: with these faults the code
does leave such rows (the first are interrupted at the next restart), so both
properties name their condition and are checked where it holds.

**Fairness.** `SF(Worker)`: the loop and its threads keep running; strong,
because a cancel handler disables the worker's steps again and again. Weak
fairness for a handler that has begun to write, for the writer thread and the
restart (the deployment restarts the process), for a retry thread and for the
clock. No fault, no outage and no request ever has to happen. `QueueDrains`
assumes that users eventually stop pressing retry on queued runs, because each
press moves `next_attempt_at`. For schedules, `FairSpec` has weak fairness of
every dispatcher: `_schedule_loop` catches what a pass raises and starts the
next, and the shield keeps a stop from abandoning one. Neither the clock nor
the API has to move.

## Refinement

`VisibleState` maps the rows to `RunLifecycle`: what the worker holds is
running whatever transient status the runner committed; a row that says running
although nobody holds it is stalled. Every step of `QueueWorker` is a step of
`RunLifecycle` or a stutter (`ImplementsLifecycle`, checked under every
fault, and proved with retry threads and without faults too, as `QueueImplementsLifecycle`).

`Recurring` maps the tables of `Schedules` to `Recurrence`: the row, its next time and
the executions, each seen as what was served, when, and whether with a run (one that
retention removed later still counts). Only a commit is visible: what a dispatcher
listed, read or gave up is a stutter, and `Trigger` is one `Serve`, although its time and
its row may be old by then. On SQLite two dispatchers may hold the same occurrence, and
only the first commit maps to `Serve`; the primary key refuses the other
(`ImplementsRecurrence`, checked without row locks and proved for both databases as
`SchedulesImplementRecurrence`).

## Findings

1. `RetryParent`: the runner commits `failed` before the worker requeues the run;
   a `retry_now` thread in between creates a child of a run that executes again.
2. `OwnersPostgres`: the guard looks at the role that was read before any lock. A
   request that read an editor writes it after the editor became the only owner.
   SQLite ignores `FOR UPDATE`; with `Locking = FALSE` two owners who demote each
   other are enough.

**Known divergences without a run.** The actions for these are in the modules; no
property is stated about them.

- `mark_baseline` reads `completed` in a thread and marks the run in a later UPDATE
  (`BaselineWrite`): an all-transient requeue or a late cancellation in between
  leaves a baseline that is not completed.
- A run cancelled while queued is settled by the handler, which never records
  `run.cancelled` (`CancelWrite`); `PILOT_REHEARSAL.md:20` tells the operator to
  verify it.
- On SQLite a dispatch that commits after `purge_project_data` has listed the runs
  leaves a run of the purged schedule (`PurgeRead`, `PurgeCommit` without `Locking`).
- Two uploads at once give two versions one number and leave both active.
- Retention deletes a version that was activated after it was selected (`EndRetention`
  looks at references, not at the flag).
- A verified check that is not over a trace can be reversed by what is exported later: a
  missing output path, a grounding claim or a schedule without a shape is a failure
  (`assert_value`, `schedule_shape`), as is a citation not yet listed, and a budget is met
  by a total that has not run on. `SCENARIO_EVALUATION.md:97` and
  `tests/test_scenarios.py:45` mean the first so.
- `grounding_source` fails without its quote on a trace that is not complete, when every
  document of the source has a content (`SourceStatus`).
- After a win and some sixty ties both ratings are reported as 1500.0: a tie takes about a
  tenth of a lead, and `get_pairwise_run_metrics` rounds.

## Proofs

`QueueWorkerProofs` proves, for all values of the constants that satisfy
`ConstantsAssumption`:

- `TypeCorrect`: `Spec => []TypeOK`.
- `BudgetKept`: `Spec => []AttemptBudget`.
- `CancellationIsFinal`: `Spec => []CancelledNotQueued`.

The inductive invariant `Inv` adds two facts to these. `AbsentIsBlank`: a row
that does not exist has no attempts and no request, so a new run starts fresh.
`CancelHoldsLoop`: while a cancel handler is between read and write the worker
is at an await, no stop is under way, the row exists, and if the handler saw it
running it is not queued. Without the second, `CancelledNotQueued` is not
inductive: the unconditional write could hit a run that was just requeued.
`RowsOK` and `CancelHoldsLoop` are proved step by step with four lemmas that
name the only ways rows change (`Unchanged`, `NewRow`, `Moved`, and the write of
`CancelWrite`).

The second half of the module proves, from the same assumption and under every set of
faults, what the queue leaves in the database:

- `OneAttemptActive`: `Spec => []AttemptsNeverMix`.
- `EveryRestartArchived`: `Spec => []ArchivePerRestart`.
- `CompletedIsComplete`: `Spec => []CompletedHasAllBatches`.
- `ClaimIsAccepted`: `Spec => []ClaimNeverRefused`.
- `EvidenceIsKept`: `Spec => EvidenceKept`, an action property.
- `AuditIsTruthful`: `Spec => []AuditTruthful`.

None of these is inductive: what a row may hold depends on how far the worker is with
it. `EvidenceInv` adds to `Inv` what a row holds in each status (`RunEvidence`: the
attempts up to the last but one are archived, the last one is active or archived, never
both), what is true of the run the worker holds at each point of the code
(`ClaimPhase`: the batches stored so far, and the status the last commit left), and that
a row which a cancel handler has read is as it was read or has been claimed since
(`CancelPending`). The last is why the handler's unconditional UPDATE cannot interrupt a
run that has just been archived. `AuditIsTruthful` is proved relative to it: no final
event of the run the worker holds is recorded yet, and the one it is about to record is
true of the row (`ClaimAudit`).

`QueueLifecycleProofs` proves:

- `QueueImplementsLifecycle`: `Spec => ImplementsLifecycle`. A run the worker holds is
  seen as running, so a step is visible only when the worker takes a run or lets go of
  one; `ClaimPhase` says which statuses the run may have then. The lemmas name the ways
  a step can look (`NothingSeen`, `SeenHolding`, `SeenLetGo`, `OneRunMoves`), and every
  action is one of them.
- `RunningIsAlwaysHeld`: `Spec => []RunningIsHeld`, from `RunningHeld`, which is
  inductive together with `EvidenceInv` when bookkeeping and commits succeed.
- `CancelledIsNeverCompleted`: `Spec => []CancelledNeverCompletes`, from `CancelledHeld`:
  a completed run with an accepted request is one that the worker still has to look at.

`SchedulesProofs` proves, for all values of the constants that satisfy
`SchedulesAssumption` (any periods, any number of dispatchers, with or without
row locks):

- `TypeCorrect`: `Spec => []TypeOK`.
- `OccurrencesExact`: `Spec => []EveryOccurrenceOnce`.
- `RunsAccounted`: `Spec => []RunsHaveOccurrences`.
- `PauseHolds`: `Spec => PausedNeverTriggered`.
- `SchedulesImplementRecurrence`: `Spec => ImplementsRecurrence`.

The inductive invariant `Inv` says that executions lie behind `next`
(`HistoryBehindNext`), never account for the same time (`NoOverlap`), that
`next` stays on the grid of planned times (`NextIsPlanned`) and that every
earlier time of the grid is accounted for (`NothingSkipped`). What makes it
inductive without locks is `StaleIsTaken`: the time a dispatcher has read is
still the schedule's next time, or its execution is already in the history and
the primary key refuses a second one. The step of `Trigger` rests on arithmetic
lemmas about `NextAfter` (`NextAfterIsNext`) and the grid (`PlannedGap`).
`RunsAccounted` adds `PurgeSeesAll`, what the lock on the project row is for;
`PauseHolds` adds `LockHolds`, what the lock on the schedule row is for.
The refinement needs all of `Inv` and `PassesInv`: the `now` of a pass is not after the
clock, and a schedule that is being purged is still there. The step
of `Trigger` (`TriggerServes`) counts the periods missed with the same lemmas.

`MembershipsProofs` proves, for any users (finitely many) and any requests,
`TypeCorrect` (`Spec => []TypeOK`) and `GuardHolds`
(`Spec => GuardedWriteLeavesOwner`). The inductive invariant adds `LocksInv`: a
guarded write that is still to come holds the locks of two different owners who
are still owners. It is needed because the count is as old as the lock: that nobody can
write a locked row is what keeps it true until the commit.

`RunSubmissionProofs` proves, from `RegistryAssumption` and `SubmissionAssumption` (any
number of datasets, versions, uploaders and revisions; finitely many runs and
submitters; any finite set of limits):

- `TypeCorrect`: `Spec => []SubmissionTypeOK`.
- `VersionStays`: `Spec => []PinnedVersionStays`. Inductive as `VersionInv`; uploads and
  activations never take a version away (`VersionsStand`), and a deletion that would is
  rolled back by the foreign key, which is the condition of `EndRetention`.
- `PolicyBound`: `Spec => []PolicyInForce`. `PolicyInv` adds what a request has
  established: while the project is there, the policy it was admitted under is at most
  the latest approved one, and the one it is bound to is approved. Approvals only raise
  the latest (`PolicyRises`), and the deletion of the project unbinds every run.
- `HoldHolds`: `Spec => HoldStopsRetention`. `HoldInv`: no hold while a retention is open.
- `OvershootHolds`: `Spec => []OvershootBounded`. `CountInv` counts the requests that
  passed the check together with the runs; the check admits one only when both fit
  below the greatest limit plus the number of submitters. It rests on a lemma that a
  finite set of integers has a greatest element (`MaxOfFinite`), by well-foundedness
  of strict inclusion.
- `ActiveStaysBounded`: `Spec => []ActiveBounded`, for any finite set of uploaders.
  `ActiveInv` charges every active version of a dataset to a request of its own (`Owned`:
  an injection into the uploaders) in such a way that a request which is about to write has
  seen the version charged to it, and so switches it off; or the dataset has only the
  version it was created with, which everyone about to write has seen (`Untouched`). A
  write moves the charge of its request to the version it switches on (`NewCharge`);
  everything else only takes charges away (`ChargesStand`). The pigeonhole principle
  (`FS_Injection`) gives the bound.

`MeasurementsProofs` proves, from the assumptions of the six modules:

- `OneAnswer`: `Spec => []OneDecisiveAnswer`. `AnswersInv`: once the current run has
  completed there are row sets `C` and `B` such that everything stored or read of a
  run is the whole set or nothing, and every decisive answer is the verdict over the
  two. What is nothing measures nothing (`NothingMeasured`) and decides nothing
  (`EmptyDecidesNothing`).
- `Fair`: `Spec => []FairPresentation`, because showing and turning back cancel
  (`SwapsCancel`).
- `ManifestTrue`, `PassedTrue`: `Spec => []ManifestFollowsLines` and
  `Spec => []PassedHasLines`, from `RunnerInv`, which says phase by phase how far the
  manifest is behind the lines.
- `Retained`, `NumbersName`: `Spec => []ServedIsRetained` and
  `Spec => []NumberNamesContent`, from `SuitesInv`: kept suites have different numbers,
  a kept run has its suite with the number it names, a live link has its run.

`VerdictsProofs` proves, from the same assumptions, what a pass means:

- `PassMeansContract`: `Spec => []PassedKeepsContract`. `CaptureInv` is the type of the
  evidence; each check of a tool or an effect that passed is traced back to a complete
  trace and to what it holds. That every effect was authorized follows for the contracts
  that require it; without the requirement there is no check to follow from.
- `VerdictsAreFinal`: `Spec => VerdictsStand`. A complete trace is left alone by every
  step, so a verified check over one is one of the checks over the evidence that has
  grown, and no two checks share kind and subject, which needs that a contract has one call
  budget and one bound on irrelevant sources. A found quote stays because documents are
  only added. A decided safety dimension consists of such checks only.
- `PassMeetsRules`: `Spec => []PassedMeetsRules`. A judgement of a dimension is never
  "passed", so a comparison that passes is one where every dimension kept the verdict;
  a limit of 100 percent, which the code does not look at, cannot be exceeded
  (`NeverMoreThanAll`).
- `ErrorsHideNothing`: `Spec => []ErrorsNeverPass`, by counting: sufficient evidence under
  full coverage has one scored row for every case, and an error takes one away
  (`SufficientCounts`, `OnePerCase`, `ErrorUncovers`).
- `PassRestsOnEvidence`: `Spec => []PassedHasEvidence`. `StoredInv` says that rows are
  finitely many and that only the similarity evaluator names a backend. The slices are
  read a second time; that they are the same rows follows from `AnswersInv` (either read
  is everything or nothing) and `EmptyDecidesNothing`.

The assumptions these rest on are the code's: one evaluator records a backend
(`semantic_similarity`), a policy that is not empty has a scope for all the cases, a
contract has at most one call budget, and a dimension passes no more cases than it has.

`FiguresProofs` proves what compares sums and ratings, for any number of rows and cases:

- `BetterStaysPassed`: `Spec => []BetterNeverFails`. Raising one score of the current run
  raises the sum of its evaluator by as much and loses no evidence and no passing row
  (`SumRescored`), in every slice the row is in and in none of the others, so no rule
  that held is broken (`BetterFailsLess`). The same for a baseline that is worse.
- `LabelsExchange`: `Spec => []LabelsAreNeutral`. Exchanging the models maps the evaluated
  rows one to one to mirrored rows (`Mirror`): counts and sums go with them
  (`SumRenamed`), and in the ratings every step is the mirrored step.
- `WinnerLeads`: `Spec => []UnbeatenLeads`. The ratings always add up to what they began
  with, so they are one number, the lead. A win raises it and a tie takes less than all
  of it, so it never becomes negative without a loss, and whatever it was before, a win in
  the last case leaves it at the K factor or more, which rounding to a tenth of a point
  cannot hide (`RoundingKeepsOrder`).

These are inductions over data, and the library's induction theorems take an operator
that the provers cannot instantiate. The induction is therefore by a least
counterexample: `WFMin` gives a smallest set in a family of finite sets
(`SmallestMember`) and a least number in a set of numbers (`LeastNumber`). With the first,
every finite set has a function from its subsets to their sums that does not depend on
the order in which elements are taken (`IsSum`, `SumExists`), and the sum of the model, which
picks its elements with CHOOSE, is its value (`PickedSum`). With the second, the ratings,
a fold over the cases, are a function of the number of cases played (`IsGame`, `GameExists`).
What they add to the assumptions is about pairwise runs: the cases have an order, the rows
that old runs hold are finitely many, and the three facts about `ExpectedScore` above.

**Only model-checked.** `CancelSettles`, `QueueDrains` and `DueIsExecuted`: they are liveness
under fairness, which needs ENABLED, and that is beyond the prover. Every action
property and every safety invariant of a passing run is a theorem.
`QueueDrains` and `CancelSettles` are checked with
one attempt for each run, so the wait between two attempts is not part of them.

## Plan

1. *(done)* `RunLifecycle`, `QueueWorker`, their runs; type correctness, budget
   and cancellation proved.
2. *(done)* `Schedules` with its runs; exact occurrences, runs and pauses proved.
3. *(done)* `Memberships`: the last-owner guard, and its theorem.
4. *(done)* Proof that `QueueWorker` implements `RunLifecycle`; the evidence invariants
   and the audit trail; what holds when commits succeed.
5. *(done)* `RunMetrics`, `BaselineComparison`, `PairwiseMetrics`: the algorithms of
   both runners and of `BaselineService.compare` under concurrent deletion.
6. *(done)* `DatasetRegistry`, `ReleasePolicies`, `RunSubmission`: versions, policies,
   limits, legal hold and retention around the submission of a run.
7. *(done)* `ScenarioScoring`, `ScenarioRunner`, `ScenarioSuites`.
8. *(done)* What a pass means, as theorems: scoring, suites, release checks.
9. *(done)* The figures as theorems: sums, labels and ratings; `Recurrence`, which
   `Schedules` is shown to implement.
10. Left: schedules and queue in one module, with retention against executing runs;
   sessions and the sign-in throttle.

## Not modelled

Text scoring, prompts, network clients, rendering, the statistics of judge
calibration (floating-point), the UI and the command-line programs except the scenario
runner (`run_eval.py` executes in a process of its own on the same database). Sign-in,
sessions, the throttle and access by project. Provider connections, billing,
notifications, templates and report links, which are rows without a protocol of their
own or behave like the scenario links. The digests and snapshots of a run's
configuration: a mismatch is an exception of the runner or an inconclusive comparison.
The counters of the plan other than runs and cases, which use the same check, and the
rollover of the month. Deployments with several worker processes: the code documents
that recovery supports one.
