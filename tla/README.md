# A TLA+ verification of AegisHunt

AegisHunt replays packet captures of completed telemetry sources through a
detection pipeline, stores flows, detections and alerts in SQLite, and lets
analysts hunt, open cases and give feedback. This directory models the parts of
it that keep state, checks them with TLC on small instances, and proves the
safety properties of the core with TLAPS for every size of the instance.

Paths below are relative to the repository; `runtime/x.py` stands for
`src/aegishunt/runtime/x.py`.

## 1. Inventory

| Part | State it keeps | Operations | What is hard |
| --- | --- | --- | --- |
| Runtime job lifecycle (`runtime/job_store.py`, `job_transitions.py`, `worker.py`, `control.py`, `service.py`) | `runtime_jobs`, `runtime_attempts`, `runtime_workers`; in each worker process the claimed job, observed counters, the heartbeat clock and the stop event | create, claim, start attempt, mark running, observe, persist, pause, resume, complete, fail, interrupt, reconcile, recover; start, poll, shutdown | processes, operators and the wall clock interleave; leases; crashes; attempt limit; fencing by name |
| Runtime pipeline (`runtime/pipeline.py`, `output_repository.py`) | the output ledger and the evidence of a job | persist a batch, reuse evidence after recovery, final downstream | crash between batches, replay from packet zero, exactly-once evidence |
| Runtime preflight and environment (`runtime/preflight.py`, `environment.py`, `demo/artifacts.py`) | snapshots in job rows, demo environments and their pointer | snapshot, verify, resolve, prepare | artifacts change between creation, attempts and recovery |
| Database (`storage/database.py`) | sessions and transactions | `session.begin()` blocks | SELECT before BEGIN: lost updates |
| Schema migrations (`storage/migrations.py`) | tables, columns, version rows | initialise, upgrade | crash between DDL and version row, two processes starting |
| Model registry (`storage/repositories/core.py`, `api/model_service.py`) | the active version per engine | register, activate | expected version read before the lock |
| Ingestion (`ingestion/`) | stored files and telemetry sources | upload, sample, inspect, move, complete, fail | five transactions and three file operations; duplicate checksums; inspection and replay read a file with different code |
| Packets, flows, features (`flows/`) | flow table, deadline heap, segment state | decode, key, packet, expiry, flush, compaction, extract | lazily deleted deadlines, timeouts, captures out of order, malformed frames |
| Detection, correlation, hypotheses, explanations (`detection/`, `correlation/`, `hunting/`, `explainability/`) | detections, alerts, groups, hypotheses | score, band, explain, correlate, generate | repetition over a growing set, window edges, boundary values |
| Cases and feedback (`cases/`, `feedback/`) | cases, notes, references, hypothesis status, feedback, candidate data sets | open, transition, link, note, verdict, close, record, change, build | two analysts, stale writes |
| Artifact directories (`artifact_io.py` and the bundle writers) | version directories | stage, rename, verify | crash between files, shared staging path |
| Data sets (`datasets/`) | rows, partitions, manifests, reports | gate, split, write, link | leakage between partitions, half-written files |
| Models (`ml/supervised`, `ml/anomaly`, `ml/fusion`) | experiments, frozen test reports, bundles, policies | train, select, evaluate, publish | configuration and data edited between calls, test rows in a selection |
| Evaluation pages (`api/evaluation_service.py`) | none of their own | find, verify, read | evidence half written or edited |
| API and demo service (`api/`) | an in-process worker for the demo | HTTP routes | the demo worker claims whatever is oldest |
| Runtime status and samples, frontend, delivery, command lines, scripts | none | rendering, packaging | - |

How they interact: the API and the CLI call `RuntimeJobService` (operator
transactions). Worker processes and operators share nothing but the database
and, through the lease, the wall clock. A worker runs preflight, the packet
loop (flow aggregation, detection, batches), correlation and hypotheses, all
inside one claimed attempt; its control monitor turns operator wishes found in
the job row into pauses, and its stop event turns signals into interruptions.

What makes the core correct: a job has at most one open attempt and it is the
lease holder's; a row never leaves its contract (`RuntimeJob.validate_state`
rejects it on every read, which would make lists unreadable); attempts that
ended are kept as evidence; a lease is not stolen before it expires and not
renewed by anyone but the process that drives the job; the attempt limit never
blocks the queue; terminal states stay; shutdown and pause are answered.

Of the rest the same kind of thing is asked: that no overlap of callers, crash
or edit leaves state that a later reader takes for something it is not. A
closed case stays closed; a verdict on an alert is one somebody gives; a
published directory verifies; a job runs with what it was pinned to; a completed
source is whole and is read the way it was counted; a schema version stands for
its columns; partitions share nothing; a bundle carries the evaluation of its
own model.

## 2. Modules

| Module | Models |
| --- | --- |
| `RuntimeJobRow` | one job row with its attempts; each repository transition as a precondition `CanOp` and a result `Op`; the predicates of a sound row |
| `RuntimeJobs` | operators, worker processes (a program counter `pc` per thread), worker rows, leases in ticks, crashes, signals, errors; one transaction = one action |
| `RuntimeLifecycle` | what the queue promises: waiting, held, stopped and ended jobs and an append-only history of attempts; `RuntimeJobs` implements it |
| `MCRuntimeJobs` | the TLC instances of `RuntimeJobs` |
| `RuntimeSessions` | the same row under what pysqlite really isolates: a session reads, and commits its changed columns later |
| `RuntimeJobsProofs`, `RuntimeLeaseProofs` | what transitions preserve; the inductive invariant; fencing, clocks and leases, and the implementation of the lifecycle |
| `FlowTable` | what the flow aggregator promises: a table of open segments that is scanned on every packet; the operators on segments |
| `FlowAggregation` | the aggregator as written: the same table with the deadline heap, its pops, pushes and compaction |
| `MCFlowAggregation` | the TLC instance of `FlowAggregation` |
| `FlowAggregationProofs` | the heap covers the table and implements the scan; timeouts and splits of segments; no packet is lost |
| `Correlation` | `correlate_alerts` as a function of a set of alerts: windows per entity, limits, identity of groups |
| `RuntimeOutput` | what a replay stores over all its attempts: flows, detections, alerts, ledger, groups, hypotheses, durable counters; analysts beside it |
| `MCRuntimeOutput` | the TLC instances of `RuntimeOutput` |
| `UninterruptedReplay` | what becomes durable of a replay that is read once, without interruptions; `RuntimeOutput` implements it |
| `RuntimeOutputProofs` | what a replay stores is kept, created once, complete, bounded, and refused only because of an analyst; types and counters |
| `InvestigationCases` | one case, its hypothesis, references, notes and verdict feedback under overlapping sessions |
| `AnalystFeedback` | feedback on alerts and cases, alert verdicts, candidate data sets and exports |
| `ArtifactStore` | the four kinds of versioned directories: staging, rename, removal after a failure, crashes, processes that start again under one id |
| `AtomicVersions` | what the writers of versioned directories promise: a whole version of one author appears, and stays; `ArtifactStore` implements it |
| `ModelRegistry` | registration and activation of bundle versions by overlapping calls |
| `PinnedArtifacts` | what a job is pinned to and what creation, workers, recovery, the demo routes and the status pages find for it |
| `Ingestion` | files to telemetry sources: five transactions, three file operations, lost calls |
| `Migrations` | initialisation of a database of any version by two processes that may die |
| `Datasets` | the gates of a data set and the split between them |
| `DatasetFiles` | temporary file, hard link and order of the files of a data set |
| `ModelLab` | experiments, frozen tests and bundles of the three kinds of models, with edits and crashes between the calls |
| `ModelSelection` | metrics, thresholds, calibration, normalisation, candidate order and fusion weights as functions of validation data |
| `HeldOut` | which rows fit, select and evaluate in the fusion experiments and in the supervised search |
| `EvaluationEvidence` | the files of a fusion experiment as they are written, edited and read by the evaluation pages |
| `Triage` | scores of a flow to risk, severity, reasons and contributions; alerts to groups with scores; groups to hypotheses with templates |
| `Captures` | the two readers of capture files and the decoding of frames |
| `FlowFeatures` | the state of a segment and the features computed from it |
| `JsonEvents` | inspection of JSON and JSON Lines in chunks |
| `Parts` | the variable `part`, and what the variables of the other parts are meanwhile |
| `AnalystWork` | `InvestigationCases` and `AnalystFeedback` side by side, their assumptions and properties |
| `StorageWork` | `ArtifactStore`, `Ingestion`, `Captures`, `FlowFeatures`, `DatasetFiles`, `Datasets`, `Migrations` and `RuntimeSessions` side by side |
| `ModelWork` | `ModelRegistry`, `ModelLab`, `HeldOut`, `PinnedArtifacts` and `EvaluationEvidence` side by side |
| `AnalystProofs` | theorems about `AnalystWork`: cases and feedback under any overlap of calls |
| `SourceProofs` | theorems about `StorageWork`: uploads and samples, the readers of a capture, the features of a segment |
| `StorageProofs` | theorems about the rest of `StorageWork`: what is stored after any faults and crashes, and what the gates of a data set let pass |
| `ModelProofs` | theorems about `ModelWork`: registry, bundles, rows held out, pinned artifacts and evaluation pages |
| `MCRecords` | the TLC instance of the three, and of `ModelSelection`, `Triage` and `JsonEvents` beside them |

`RuntimeOutput` extends `Correlation`; `RuntimeJobs` extends `RuntimeJobRow`,
which `RuntimeSessions` shares; `FlowAggregation` instantiates `FlowTable`.

The components around the runtime share no state in the program except for what
a module names as its input. `AnalystWork`, `StorageWork` and `ModelWork`
therefore compose them as alternatives: `part` says whose behaviour it is, only
that part's Next is enabled, and the variables of the others stay `Unused`.
Each of them has an `Init`, `Next` and `Spec` of its own, an `ASSUME` of what its
parts need of the constants, and the properties, which say what a part promises
when it is `part`. `MCRecords` adds the parts that are algorithms, for whose
states it has seven generic variables, and is what TLC runs.

### How state and actions correspond to the code

`jobs[j]` is the row of `runtime_jobs` with its `runtime_attempts`. Its fields
keep the column names; `lease` is the number of ticks before
`lease_expires_at`, `Expired` or `NoLease`. `workers[w]` is the row of
`runtime_workers` (status, whether `degraded_reason` is set, age of
`heartbeat_at`). `proc[w]` is the local state
of a worker's thread: `pc` (listed in the module header), the claimed job and
attempt, the packets read, the heartbeat clock of the control monitor, and
whether an exception is escaping. `stop[w]` is the `threading.Event`.

Every action is one `session.begin()` block, or one step of the thread between
two of them. `ClaimJob` is `claim_next` + `start_attempt` + worker row in one
transaction, as in `run_once`. `ControlTurn` is the whole of `control.check`:
telemetry, `mark_paused`, job heartbeat, worker heartbeat and resource sample;
`PausedTurn` is one turn of `_wait_while_paused`; `SampleTurn` is
`capture_resource_sample`. Each takes whether the sampler is broken: `Check`,
`PauseTurn` and `Sample` are the turns with a working one, `SamplerFails` the
turns that mark the worker degraded and let the replay go on. `Finish` is
`set_stage` + `complete`. Each repository method that raises becomes the
disjunct `Refused`, which leads to `_fail` as in `run_once`. Exceptions raised
inside the `except` clause (`_fail`, `_interrupt`) are the `dying` flag: the
`finally` clause still runs, then `run_forever` ends.

In the flow modules `flow[k]` is the entry of `_active` for the canonical key
`k` (`NoFlow` if absent), `segment_counts` is `_segment_counts`, `deadlines` is
the heap `_deadlines`, `finalized` collects what `process` and the flushes
return. `ProcessPacket` is one call of `process` that returns, `RaiseLimit` one
that raises `FlowLimitError`; expiry, the capacity close, the limit, the new or
extended segment, the two pushed deadlines and the compaction are all in the
one action, in the code's order. `EndOfCapture` and `ManualFlush` are the
flushes. `arrived`, `clock` and `ordered` are history variables: what came in
and whether it came in order.

In `RuntimeOutput` the database is `flows`, `detections`, `alert`, `ledger`,
`groups` and `hypotheses`, and `attempts` holds the durable counters of each
attempt; `pending`, `correlated` and `observed` are the local variables and
fields of `RuntimePipelineRunner`, gone when the worker stops. `Read` is one
turn of the packet loop up to the batch threshold (or the flush at the end),
`PersistBatch` and `RefuseBatch` are `_persist_batch`, `Correlate` is
`_maybe_correlate` when it is due, `Complete` is `_finalize_downstream`, and
`RefuseDownstream` what correlation raises in either. `Fail` is `_fail` with its
three classes of errors. `GiveVerdict` is `update_verdict`, `ScoreFlow`,
`CorrelateAll` and `GenerateAll` are the commands `detection evaluate`,
`hunt correlate` and `hunt generate-hypotheses`. `processed`, `foreign` and
`refusal` are history variables.

`Correlation` is stateless: `Window` is the inner loop of `candidate_clusters`,
`Windows` the outer one, `AcceptableRuns` the inputs on which nothing raises
`CorrelationInputError`, `CorrelatedGroups[S]` what `correlate_alerts` returns.

The modules with overlapping sessions (`InvestigationCases`, `AnalystFeedback`,
`ModelRegistry`) have an action for the reads and checks that precede the first
INSERT or UPDATE, which run outside any transaction, and one for what happens
from the write lock to COMMIT, re-reads included. `session[a]` holds the copies
a call made; a commit writes the columns in which the copy differs from what was
read, by primary key. A call that is refused changes nothing and is no action;
`Abandon` is a call that fails before its commit.

The modules about files (`ArtifactStore`, `DatasetFiles`, `Ingestion`,
`ModelLab`, `EvaluationEvidence`) have an action per file-system call that
another process can see: exclusive creation, write, link, rename, removal. A
name stands for the file one call created: a link takes the file that has the
temporary name by then, and `Unlink` takes that name from whomever has it. A
crash loses the caller and leaves the files. What an operator may do to a file
by hand (`Damage`, `Edit`, `Reconfigure`, `PublishFiles`) is an action where the
code checks for it.

In `PinnedArtifacts` a process has the settings it started with until it is
restarted, and at most one call. `CreateReplay`, `ClaimJob` and `Recover` resolve
an environment and read its runtime policy; `LoadBundles` and the two
`LoadPolicy` read the rest in the order of `RuntimePreflightVerifier`, one after
another; `Add`, `StartRun` and `Requeue` are the comparison with the snapshot and
what follows it. A run then produces evidence in any number of steps (`Replay`,
`CompleteRun`) with what its call has loaded and the settings of its process:
`Used`, which `ran_with` collects. The operator may act between any two of these.
`Migrations` has one action per statement, as SQLite commits DDL
on its own.

`Datasets`, `ModelSelection`, `HeldOut`, `Triage`, `Captures`, `FlowFeatures` and
`JsonEvents` are algorithms: `Init` chooses an input, steps follow the passes of
the code, and the property compares the result with a definition that does not
follow the code (a grammar of arrays, the largest admissible value, no row in
common).

Operators named `Op_Variant` are faulty forms of `Op`. No action uses them;
they are substituted for `Op` to see that a property notices the fault.

### Abstractions

- In `RuntimeJobs` transactions are serial. `RuntimeSessions` drops this for
  one job and shows where it matters.
- One live process per `worker_id`. The CLI takes the name from a required
  option and nothing enforces that it is unique.
- Observed counters are reduced to the number of packets; `progress_total` is
  the number of packets of the pinned source and does not change. Durable
  counters, stages (a function of the status in committed rows), audit records
  and timestamps are left out.
- The worker status STARTING is the default of the record and is never written;
  the fields of a resource sample are left out.
- `run_one_and_stop` is `run_forever` with a shutdown request after the first
  cycle: `Signal` covers it.
- A second process for a `worker_id` starts only after the first is gone.
- Of a flow the timestamps, first and last seen and the packet count are kept;
  sizes, directions, TCP flags and the features computed at the end are not.
  Timestamps are whole microseconds. A timeout is the least whole time that
  reaches the configured seconds; its deadline, a `timedelta` that rounds, is
  that time or one microsecond before (`DeadlineAssumption`).
- The heap is a set of entries: one packet pops all that are due, so their
  order among themselves does not matter. Segments closed by one packet are
  returned in a sorted order, which is left out.
- `RuntimeOutput` has one worker at a time: which process may drive a job, and
  that a late one is fenced off, is the matter of `RuntimeJobs`. A crash and the
  reconciliation of the lease are one step. Control points, pauses and observed
  progress are left out, as they store no evidence.
- A checksum or a snapshot stands for what it is computed from: of an alert its
  verdict and the number of its updates (`updated_at`); all else of a stored
  row never changes. Flow ids and detection ids are functions of the flow
  (UUID5), so a flow number names all three.
- Flows scored from the command line are scored with the models of the job. The
  repositories have no unique key on the flow of a detection; scoring with other
  models would store a second one, which this model has not.
- Which groups (alerts and entity keys) match a rule with a sufficient score
  (`Matched`), and which pass the hypothesis gate (`Gated`), are constants of
  `RuntimeOutput`: both are functions of immutable evidence, which `Triage`
  computes. An alert's verdict decides eligibility only.
- Time passes at any point (`Tick`): a tick is any amount of time, leases and
  heartbeats are compared in whole ticks.
- Estimators are constants: what a fitted model computes is a score per row, a
  monotone map of it, or nothing but the identity of what it was fitted with.
  Ratios are exact integers over a common denominator; the rounding of floats is
  left out except where noted (timeouts of flows).
- Texts, notes, reasons, audit rows and reports are left out, as are request
  schemas, paging and queries that only read.
- In `Captures` files end at a 32-bit word and have one byte order; in
  `JsonEvents` a text is a sequence of tokens and a token is a byte; in
  `FlowFeatures` deviations are kept as squares. Each header comment lists what
  its module leaves out.
- `FlowAggregation` is checked with deadlines that are exactly the timeouts; a
  timeout that `timedelta` rounds down is in section 5 only.
- In `PinnedArtifacts` a bundle is never overwritten in place, as its writers refuse
  to: the checksums of a fusion policy or explanation that are taken in a second
  read are those of the first. A damaged bundle or capture is noticed when it is
  verified, not after. Settings that are in no snapshot (`local_explanation_top_k`)
  are left out.
- In `EvaluationEvidence` an edit never restores what a file had before.
- `DatasetFiles` keeps two partitions and two reports; `Ingestion` gives every call
  a staging file of its own, and in the run of `ArtifactStore` every writer is a
  process: threads that share the staging path of an artifact are left out there.

## 3. Runs

| Run | Instance | Question and answer |
| --- | --- | --- |
| `jobs_safety` | 2 workers on 1 job, 2 attempts, 1 packet, 2 faults; or 1 worker on 2 jobs with 1 fault (`BoundedNext`); lease 2 ticks, stale 3 | rows, history, queue, fencing, leases, terminal states, every transaction a step of the lifecycle; a worker restarted under the same name drives another job and the orphaned lease runs out: hold |
| `jobs_liveness` | 2 workers, 1 job, 1 attempt, 1 fault | shutdown drains, replays settle, pauses are answered: hold |
| `pause_final` | 1 worker, no fault | a pause after the last control point lets the finished replay complete: **violated** |
| `orphan` | 1 worker that is always restarted, 1 fault | an expired lease is reconciled: **violated**, only `start` does it |
| `sessions_race` | 2 workers, an operator, a starter; 2 attempts that end | the row stays readable: **violated** |
| `flows` | 3 keys, 5 packets with times 0..3; active timeout 3, idle 2; 3 packets per flow, 2 open flows, compaction above 3 entries | the heap implements the scan; no packet lost, heap bounded, timeouts respected, splits due: hold |
| `output` | 6 flows, 5 of them alerts, in batches {1, 2}, {3, 5, 6}, {4}; 2 entities, window 3, groups of at most 2; 2 attempts, one verdict, one flow scored outside | created once, counted truthfully, refused only after an analyst's step, groups bounded, evidence kept, the durable output that of one replay without interruptions: hold |
| `output_verdict` | the same | a recovery reuses exact output: **violated** after a verdict |
| `records` | the components around the runtime, below | hold |
| `activation_race` | 2 callers, 1 engine, 3 versions, 5 activations | an engine has exactly one active version: **violated** by calls that overlap |
| `cases_race` | 2 analysts, 4 calls on one case | closed is terminal: **violated** by a change that read the case before |
| `recovery_pinned` | 2 jobs, 2 prepared demo environments, 1 edit | a recovery finds what the job is pinned to: **violated** for a demo environment |

`records` checks each part with an instance of its own (`MCRecords`):

| Part | Instance | Property |
| --- | --- | --- |
| sessions | two workers, an operator and a starter on one row; attempts stay open (with attempts that end it is `sessions_race`) | `OpenAttemptMirrored` |
| cases | 2 analysts, 4 calls, at most 2 references and 2 notes | `ReferencesMirrored`, `FeedbackMatchesCase` |
| feedback | 2 analysts, 2 alerts of which one flow may be used, 1 case, 3 calls, 1 artifact version | `VerdictIsBacked`, `CandidatesAccountForFeedback` |
| store | 2 writers in processes of their own, 2 kinds of directories, 2 crashes | `VersionsAreAtomic` |
| registry | 2 callers, 2 engines, 2 versions, 3 activations that overlap in every way | `ActivationIsOptimistic` |
| pinned | 2 jobs, 2 processes, 2 demo environments, 1 edit at any point of a call; calls and processes bounded by `Bounded` | `RunsPinned`, `EffectiveIsPinned` |
| pages | a fusion experiment with 2 edits, at any time | `EffectiveIsPinned` |
| files | 2 sources, a sample, a short, a tabular and an oversized file, 2 faults | `SourcesAreSound` |
| captures | 6 capture files whole, cut after every word, or with a word changed to any of a dozen values; at most 2 records, 1 interface, 58 bytes | `SourcesAreSound` |
| events | 5,375 texts, all short ones and longer ones with strings, nesting and blanks; chunks of 3 tokens, records of 6, depth 2, 2 records | `ComputedIsSound` |
| segment | up to 4 packets of both sides, in any order | `SourcesAreSound` |
| schema | databases of every version, 2 processes, 2 crashes | `VersionIsWhole` |
| gates | 7,776 data sets of four rows that share groups, sessions, labels or features; split sizes for 3 to 12 groups | `PassedIsSeparated` |
| splits | four attack patterns of up to three families; five rows in four groups in two folds | `BundleIsEvaluated` |
| data_files | three commands that overlap, 2 faults | `PublishedIsWhole` |
| lab | 2 callers, 8 configurations of three kinds, 3 editions of the data, 2 changes by hand | `BundleIsEvaluated` |
| choice | 1,152 validation sets of three rows in two or three groups, with ties; 3 thresholds, 2 estimators by 3 normalisations, 2 pairs of weights | `ComputedIsSound` |
| leads | 3,460 batches of four flows between two sources and two destinations, three risk policies, one alert dismissed | `ComputedIsSound` |

`ComputedIsSound`, `SourcesAreSound`, `BundleIsEvaluated` and `EffectiveIsPinned` are conjunctions:
each conjunct is the property of one part, stated and commented in its own
module.

Why the bounds are enough. Two workers are what a lease can be contended by, and
names are interchangeable (symmetry). Two attempts are the first recovery and
the first hit of the limit. One packet gives a control point before and after it
and an end of capture; observed progress then has two values. A lease of two
ticks leaves room for a heartbeat in time, a late one and an expired one; the
stale threshold is the next larger value. Two faults allow a crash of each
worker, a crash after a signal, and an error on the attempt after a crash. A
second job is created for one worker only: an orphaned lease beside another job
takes a worker that dies and starts again under its name, and no other.
`BoundedNext` of `MCRuntimeJobs` says so. The proofs remove all of these bounds
for safety.

For flows, three keys over two open flows reach the limit, and let one key's
packet expire another's segment; five packets in 0..3 exceed the packets per
flow, both timeouts, a reopened key, and a heap of stale entries above the
compaction threshold (1,024 in the code, 3 here); packets may come out of
order. The capture ends, so these runs do not check for deadlock.

For outputs, two attempts let the second meet anything the first left behind: a
prefix of the batches, groups of an earlier correlation, hypotheses. Three
batches with a correlation after the first and the second give each kind of
refusal a state before, between and after them. The alerts are chosen so that a
later alert cuts a window (4 in y), two entities share a group (1 and 2), and a
verdict makes a group too large (without 1). Flows may all be stored already by
ingestion. Rejected, conflicting and oversized inputs all occur. The job ends,
so deadlock is not checked.

For `records`, two analysts, writers, callers or processes are what a stale copy
takes: one that read and one that commits in between. They are interchangeable
in every part (`Analysis` permutes them). Two crashes let the second meet what
the first left, under the same process id if the system gives it out again.
Three or four calls are a first write, an overlapping pair, and one that sees
the result. Three commands on a data set are what a robbed file takes: one that
writes it, one that finds it and removes it, one that creates the next. Two
processes with pinned artifacts are one that has claimed or created a job and
one with other settings; `Bounded` of `MCRecords` lets their calls overlap
before a job is run and a demo environment prepared (calls meet only in the rows
of jobs, and what others call changes nothing a run has loaded), and once both
jobs exist one process has done nothing yet. The inputs of the algorithms are
not all there are up to a size, but chosen so that every branch is taken and
every comparison meets a tie; the faulty variants in the modules show that the
properties depend on them. These parts stop when their inputs or calls are used
up, so deadlock is not checked.

Fairness. `WF(Advance(w))`: a started thread keeps taking its next step, as
nothing in it waits for another thread except the SQLite lock (released at
commit, with a busy timeout). `WF(Capture(w))`: the pacer's sleep is a finite
number of quanta with a control point each, so the next packet comes even
though control points are enabled all the time. Operators, faults, starts and
time are not fair. `RestartSpec` adds that a worker that is down is started
again, for `orphan` only: it makes the counterexample stronger.

## 4. Proofs

For all values of the constants that satisfy `WorkerAssumption`,
`BoundAssumption` and `TimingAssumption` (heartbeat < lease < stale, which
`WorkerPolicy.validate_timing` enforces):

| Theorem | Property |
| --- | --- |
| `TypeCorrect` | `TypeOK` |
| `RowsAreValid` | `RowsValid` |
| `HistoriesAreValid` | `HistoryValid` |
| `QueueFlows` | `QueueNeverJams` |
| `EndedStaysEnded` | `EndedIsFinal` (a definition of `RuntimeJobsProofs`, in no run) |
| `HistoryStays` | `HistoryIsKept` (the same) |
| `WorkersAreFenced` | `Fenced` |
| `OwnersAreInStep` | `OwnerInStep` |
| `FailedWorkersHoldNothing` | `FailedHoldsNothing` |
| `LeasesAreNotStolen` | `LeaseNotStolen` |
| `OrphanLeasesRunOut` | `OrphanLeaseRunsOut` |
| `QueueImplementsLifecycle` | `LifecycleSpec` |

The argument. `RowOK` collects the row predicates and one strengthening,
`Fresh`: a queued row carries no progress and no current attempt over, without
which a claim could inherit them. Each transition `Op` has a lemma `OpFollows`:
from a sound row, under `CanOp`, the result is a sound row that keeps every
ended attempt, and is the row itself if the job is over. `IInv` is the types,
"a process past its claim knows its job", and `RowOK` of every row; `RowsStep`
shows that every action applies transitions only.

The lease properties need more: `Fence` extends `Fenced` to the points after
completion, from which an error leads back to `_fail`; `Clocks` says that the
unexpired part of a lease plus the age of the holder's heartbeat is at most the
lease, so that a stale worker's leases have all expired when `start` calls it
failed. `LeaseStep` classifies what any step may do to a lease (nothing, an
operator's switch, reconciliation, a tick, a claim, a renewal by the driver, a
release by the driver); the five theorems follow from it.

For the lifecycle, `Phases` and `Histories` are what the refinement mapping sees
of the rows. Each transition of a row has a lemma that says what becomes of its
phase and history: nothing (`Alike`), or one of the lifecycle's actions. The
history of a row depends only on owners and outcomes of its attempts
(`SameOutcomes`), and the open attempt is the last one, which `IInv` knows.
`OneRow` lifts this to the table; reconciliation at `Start`, which may change
many rows at once, is `GiveUp` of a set. `StepFollows` joins them.

For flows, for all values that satisfy `TimeAssumption`, `LimitAssumption` and
`DeadlineAssumption`:

| Theorem | Property |
| --- | --- |
| `FlowTypesCorrect` | `TypeOK` |
| `HeapCoversTable` | `DeadlinesCover` if `DeadlinesReach` |
| `HeapImplementsScan` | `TableSpec` if `DeadlinesReach` |
| `HeapStaysBounded` | `HeapBounded` |
| `SegmentsKeepTimeouts` | `SegmentsRespectTimeouts` if `DeadlinesReach` |
| `SplitsStayDue` | `SplitsAreDue` if `DeadlinesReach` |
| `NoPacketIsLost` | `NoPacketLost` |

`DeadlinesCover` (both current deadlines of every open segment are in the heap)
is what makes lazy deletion right: pops remove only what is due, and what is
due and not expired is either stale or belongs to the packet's own key, which
pushes again; compaction rebuilds from the table. Under `DeadlinesReach` (the
deadlines are exactly the timeouts) the keys that expire are then `Overdue`,
and each step of the heap version is a step of `TableSpec`.
`SegmentsRespectTimeouts` and `SplitsAreDue` need in addition that in an
ordered capture the timestamps of open segments grow and do not exceed `clock`.
`NoPacketIsLost` needs no ordered capture and no `DeadlinesReach`: `Chains` says
of every key that its segments,
finalized and open, are numbered without a gap and that their packets, joined in
that order, are those that arrived. A new segment extends the chain by one, a
packet extends its last segment, and closing one changes nothing in it. The join
is a recursive function: the invariant carries one that satisfies its equations
(`Chained`), and that there is no other follows from the least number at which
the two would differ.
`DeadlinesReach` cannot be dropped: with `IdleDeadline` one below `IdleTimeout`
the implementation of `TableSpec` fails (section 5).

For outputs, for all values that satisfy `AlertAssumption`,
`CaptureAssumption` and `RunAssumption`:

| Theorem | Property |
| --- | --- |
| `EvidenceStays` | `EvidenceKept` |
| `CompletedIsWhole` | `CompletionIsWhole` (a part of `ReplaysAsOne`) |
| `InterruptionsStayHidden` | `ReplaysAsOne` |
| `AnalystsRefuse` | `OnlyAnalystsRefuse` |
| `OutputTypesCorrect` | `TypeOK` |
| `CountersAreTruthful` | `CountersTruthful` |
| `GroupsStayBounded` | `GroupsBounded` |
| `RowsAreCreatedOnce` | `CreatedOnce` |

`Progress` says that the committed and the pending flows of a running attempt
are together those closed by the packets read; with `position > Packets` at the
end, and `Covered` (what was committed is in the ledger), a completed job is
whole. `Evidence` says that what belongs to a flow comes in order: a ledger
entry with the detection, the detection with the flow, an alert with the
detection of an alerting flow. A batch therefore adds to flows that have no
detection, and replaces nothing. For refusals, `Untouched` adds that as long as
no verdict was given the ledger and the snapshots of groups are what would be
computed now, and that a detection outside the ledger is one scored from the
command line. For the counters, `Counting` adds that committed and pending flows
are disjoint (a flow closes once) and that the worker's memory of groups is
finite; `CountAdds`, `BatchCredits` and `DownstreamCredits` reduce a step to
sums of cardinalities of disjoint sets. `KInv` adds `Known`: rows that others
stored, and groups and hypotheses the worker remembers, are stored rows. A step
then adds to `created` what it adds to the tables, and the sum over the attempts
changes by what the last of them, or a new one with no counts, changes.

`Windows` cuts one window after the other from the alerts of an entity, which is
a recursive function of sets. `Rests` is the least family that holds the alerts
and, with each set of them, what is left when its window is cut; every call of
the function is for one of these, and a window is bounded because it takes, in the
order of the alerts from its anchor on, only what ends within the configured time
after the anchor starts. A group's alerts are those of one window.

For the implementation of `UninterruptedReplay`, `InPrefix` says that the ledger
holds all flows that closed up to some packet. A batch is a prefix of the capture
too, whatever the attempt reads again, and of two prefixes one contains the other
(`BatchExtends`): committing a batch moves the ledger to the longer one, which is
a step of the abstract replay or no change (`BatchCommits`). All other steps leave
the ledger alone (`LedgerStays`), or end the job.

For the components around the runtime the theorems are about `AnalystSpec`,
`StorageSpec` and `ModelSpec`, the specifications `MCRecords` puts side by side,
under `AnalystAssumption`, `StorageAssumption` and `ModelAssumption`. These are
ASSUMEd in the three modules (TLC evaluates them on `records`) and are
conjunctions of one assumption per part, which is what the program guarantees.
Type theorems are about the specification of the part itself.

| Theorem | Property | Assumed of the part |
| --- | --- | --- |
| `CasesTypesCorrect` | `CaseWork!TypeOK` | a case starts with finitely many objects; bounds are numbers |
| `ReferencesAreMirrored` | `ReferencesMirrored` | the same |
| `VerdictsComeWithFeedback` | `FeedbackMatchesCase` | the same |
| `ReviewsTypesCorrect` | `Reviews!TypeOK` | verdicts are those of the enumeration |
| `VerdictsAreBacked` | `VerdictIsBacked` | the same |
| `CandidatesAreAccountedFor` | `CandidatesAccountForFeedback` | the same |
| `StoreTypesCorrect` | `Store!TypeOK` | no two writers are threads of one process, or their kinds do not clean up after a failed mkdir |
| `PublishedIsVerified` | what is published has all its files, each as its checksum says (`Store!PublishedVerifies`, in no run) | the same |
| `PublishedVersionsStay` | a version at its destination never changes (in no run) | the same |
| `VersionsImplemented` | `VersionsAreAtomic` | the same |
| `FilesTypesCorrect` | `Files!TypeOK` | each content is of a known nature |
| `CapturesTypesCorrect` | `Readings!TypeOK` | the words of a file are numbers; a frame has the fields that are decoded |
| `SegmentTypesCorrect` | `Segment!TypeOK` | times and sizes of packets are natural numbers |
| `SourcesAreWhole` | `SourcesAreSound` | the three above |
| `DataFilesTypesCorrect` | `DataFiles!TypeOK` | no command has the name that stands for none |
| `PublishedFilesAreWhole` | `PublishedIsWhole` | the same |
| `GatesTypesCorrect` | `Gates!TypeOK` | data sets have rows, of equally many features; a tolerance and ratios that are numbers |
| `PassedDataIsSeparated` | `PassedIsSeparated` | the same |
| `SchemaTypesCorrect` | `Schema!TypeOK` | none |
| `RecordedVersionsAreWhole` | `VersionIsWhole` | none |
| `OpenAttemptStaysMirrored` | `OpenAttemptMirrored` | no session ends the job (`Ending` is FALSE) |
| `RegistryTypesCorrect` | `Registry!TypeOK` | no version has the name that stands for none |
| `ActivationsAreOptimistic` | `ActivationIsOptimistic` | the same |
| `LabTypesCorrect` | `Lab!TypeOK` | none |
| `SplitsTypesCorrect` | `Splits!TypeOK` | no family has the name that stands for none |
| `BundlesAreEvaluated` | `BundleIsEvaluated` | both |
| `PagesTypesCorrect` | `Pages!TypeOK` | none |
| `PinsTypesCorrect` | `Pins!TypeOK` | demo environments are numbered |
| `JobsRunPinned` | `RunsPinned` | the same |
| `PagesNamePinnedModels` | `EffectiveIsPinned` | the same |

Every bound on calls, crashes, faults and edits is an arbitrary number in them.
Calls overlap and edits fall wherever the code lets them. Two assumptions are
restrictions: the writers of the stores are commands in processes of their own, and
no session ends the job, as the row itself breaks otherwise (`sessions_race`).

Three of these properties hold but for what a history variable names, since the
code promises no more:

- `overtaken`: engines for which a call flushed what another call had changed
  since it was read. Of the others `ActivationIsOptimistic` says that one version
  is active; of all engines, that a version stops being active only by a call
  whose caller named it as the active one, which is what the comparison with the
  expected version is for.
- `robbed`: names whose temporary file another command removed while it was
  written or linked. All other partitions and downloads are whole and of the
  command of their manifest; that the files a manifest names are there and that its
  reports are of one command holds for robbed names too.
- `reader.touched`: files edited after a page took their checksum. Everything else
  it shows is what the policy was made from.

The invariants, and why they are needed:

- `CasesInv`: a session that has read the case holds a copy whose references are
  a subset of the rows (`CopyOf`), and a session of `add_evidence` one that was
  below the bound with its own reference added. The append-only check of
  `update` compares the copy with the row, so a copy that passes has all rows.
- `ReviewsInv`: the feedback behind an alert's verdict is not about to be
  replaced by a call that believes the alert has another one (`Backs`); the
  check that the alert was not updated meanwhile is what keeps it.
- `StoreInv`: a staging directory is there for one writer at most
  (`OwnersAreAlone`), it holds exactly what that writer wrote
  (`WritesOwnFiles`), and what a failed `mkdir` met is never removed by the
  handler of the writer that met it (`NothingForeignToRemove`). For
  `AtomicVersions`, a rename that succeeds therefore puts a whole directory of its
  writer where there was none (`PublishCreates`), and no other step touches a
  destination (`StoreStepSeen`).
- `FilesInv`: where a call is determines what its row and the store have
  (`CallFollows`).
- `CapturesInv`: a function from places in the file to numbers of packets describes
  the path of the inspection (`Walked`), and the reader stands on that path with as
  many packets as the function says (`Follows`). From any place both step to the
  same next one if the reader steps at all (`ReaderFollows`), so it can neither lose
  the framing nor find more. `DecodingIsSound` is about one frame: each of its layers
  is cut or whole (`CutsFail`), and the answer to a packet has the same key
  (`PacketAnswered`). What the options of an interface say stays an arbitrary
  resolution; that units are positive is what the timestamps need.
- `SegmentInv`: the lists of a segment agree (`PacketsAgree`): a size
  and a time for every packet, a flag counted at most once a packet and only for TCP,
  and `first_seen` and `last_seen` the outermost of the times. What is computed from them is about one segment: `Sorted` is its
  numbers in ascending order (`SortedOrders`), so the gaps add up to the duration
  (`GapsAddUp`); the square of a deviation is not negative, and zero only where all
  numbers are the same (`VarianceIsCounted`); a quartile lies between its neighbours and
  they come in order (`QuartilesAscend`); the left end of the sliding window is the
  least index within a second, so the largest window is the densest second
  (`BurstIsDensest`); the phase reaches 3 exactly when the three observations were made
  in order (`HandshakeFound`). Sums and passes are recursive functions: `Climb` again.
- `DataFilesInv`: what a command writes under its own name is its own, and the
  temporary file it links is still the one it wrote unless the name is robbed
  (`CommandOK`, `Underway`); a command that has not come to a name has nothing there
  (`Unopened`), one that is past it found it free and left a file (`Found`, `Made`).
  `Published` relates the names to the manifest. A step of one command concerns one
  name (`Moves`), which leaves the others' places as they were.
- `SchemaInv`: the columns come before the version that names them
  (`DatabaseInv`), and what a process has read of versions and columns can only
  have grown since (`Knows`).
- `RegistryInv`: versions of an engine are distinct; a call that is not stale has
  the status of its target, and the version it found active, as they are now, and
  what it found active is what its caller expects. The flush of such a call moves
  the one active row; that of a stale call makes its engine `overtaken`. An INSERT
  reads under the lock and cannot be stale.
- `PagesInv`: what a page has shown is what is on disk, and from the hash comparison
  on what the policy was made from, but for what was touched (`ReaderInv`); before
  the first edit the files written so far are whole (`Untouched`).
- `SessionsInv`: once a worker has claimed, no other drives, and only that worker
  and the operator have sessions under way, each on a copy whose attempt mirrors it
  (`InFlight`). A flush writes the columns in which the copy differs from what was
  read; `MergeMirrors` shows that row and attempt then still agree if nobody else
  changed the status that it changes, which is so because worker and operator
  leave different statuses (`WorkerFlight`, `OperatorFlight`).
- `LabInv`: an experiment's directory only grows (`Grows`), its parts name each other
  (`DirectoryOK`); a call holds what it has read of a directory that still has it
  (`CallOK`, `HasDirectory`); no two calls build one experiment. A bundle then has
  its model, selection and report from one directory (`BundleOK`).
- `SplitsInv`: the first engines of a fusion experiment are those of the timeline,
  whatever was held out since, and an experiment reads one stage to fit, one to
  select and one to evaluate (`ReadApart`), where a group lies in one stage.
- `GatesInv`: a data set that passed was asked every question with the partition it
  got (`Passed`). That near rows are found although each row is compared only with
  a window of the pivot feature is `NearAreJoined`: rows near each other in every
  feature are so in the pivot, whichever it is. `JoinedStayTogether` says that a
  later `union()` never parts what an earlier one joined, so that near rows are in
  one component at the end, and `NearStayTogether` that the gate then refuses a
  partition that parts them. `SizesAddUp` and `PartitionIsWhole` are about the
  arithmetic of the split, rounding included. The passes over rows are recursive
  functions: `Climb` is the induction they need, a least counterexample.
- `PinsInv`: what a running call has loaded, with the settings of its process, is the
  snapshot of its job, which stays as it is once created; a call before its
  comparison may have loaded anything. Bundles of the base root are numbered
  generations, those of a demo environment its own, so that bundles determine where
  they are found; the queue has an oldest job whenever a job is queued (`Smallest`).

Only model-checked: `StopDrains`, `ReplaySettles` and `PauseAnswered` (liveness
under fairness is out of the prover's reach); `ComputedIsSound`, which compares
recursive computations over tokens, scores and groups with definitions that do not
follow the code, an induction over data for each; the conjunction of all types in
`MCRecords` (the conjuncts of `choice`, `leads` and `events` are in no theorem, the
others are); and the statements that are violated.

## 5. Where code and documentation disagree

Each of the first seven has a run.

1. `pause_final`: `set_stage` and `update_durable_progress` accept
   `pause_requested`, `complete` (`runtime/job_transitions.py:139`) does not.
   `docs/pr-phase14-corrective.md:44-46` claims the batch in flight survives.
2. `orphan`: `docs/architecture.md:316` and `docs/runtime_pipeline.md:60`
   state reconciliation without the restriction to start-up that
   `docs/runtime_recovery.md` gives.
3. `sessions_race`: a pause committed after the attempt ended leaves a row that
   `runtime/contracts.py:285` rejects on every read.
4. `output_verdict`: `_output_checksum` (`runtime/pipeline.py:99-117`) contains
   the analyst's verdict and the time of it. After a verdict on an alert of an
   interrupted replay every recovery is refused as a conflict with the ledger,
   although `docs/runtime_recovery.md:26-27` says that exact output is reused
   and `docs/architecture.md:288-289` that verdicts leave the evidence alone.
5. `cases_race`: `docs/investigation_cases.md:41` says that a closed case is
   terminal; a status change that read the case before it was closed commits
   over it (`storage/repositories/core.py:468` writes without a condition).
6. `recovery_pinned`: `docs/runtime_recovery.md:15-16` says that recovery queues
   the same pinned snapshot; for a job pinned to a demo environment `recover`
   (`runtime/service.py:220`) compares the snapshot with the base settings and
   refuses.
7. `activation_race`: `docs/use_cases.md:216-218` promises exactly one active
   version, concurrent activation included. `activate`
   (`storage/repositories/core.py:753`) compares the active version it read with
   the expected one and flushes by primary key: a call that found its target
   active while another replaced it leaves none active, two that read before
   either writes leave two.

Met in the models without a run of their own:

- `_wait_while_paused` (`runtime/control.py:263`) raises on `pause_requested`: a
  resume and a pause within one poll fail the paused replay;
  `docs/runtime_recovery.md:37` claims the same attempt goes on.
- `timedelta` rounds a timeout such as 1/3 s down, the entry of the heap is
  popped one microsecond before `_timeout_reason` agrees, and unless the flow
  gets another packet nobody looks at it again; `docs/architecture.md:332-334`
  says that the heap leaves the timeouts as they were.
- A replay hashes its capture in the preflight and reads it again for its
  packets, so that a change in between is not noticed, although
  `docs/runtime_pipeline.md:45` says that any drift fails before packet processing.
- The second of two processes that initialise one database may be refused
  (`storage/database.py:85-88`), against `docs/data_model.md:188`.
- `POST /models/train` of `docs/use_cases.md:197-201` does not exist.

Seen in the models without contradicting a document:

- A verdict between two correlations ends the job for good (the snapshot in a
  stored group differs, and the error is not retryable); a false-positive
  verdict can make a window too large and end the job; one set of alerts can be
  stored as two groups when it was found through fewer entities the second time.
- The demo worker claims the oldest queued job, whosoever it is
  (`api/demo_service.py:221`), the demo may pick a failed or running source
  (`demo_service.py:199`), and two demo environments share the checksum of their
  runtime policy (`runtime/environment.py:67`). `get_by_checksum` orders by a
  random id where it means the earliest.
- A crash or a database error between the transactions of an ingestion leaves
  the source running or pending for ever. A JSON file `[]` is accepted with no
  records, an empty one is refused.
- The staging path of an artifact names the process, not the thread
  (`artifact_io.py:75`): two threads of one process share it. Commands on one
  data set that overlap can publish a mix: each removes the temporary file it
  cannot create (`datasets/io.py:39,57`; `robbed` in `DatasetFiles`).
- A crash between the frozen test and its metrics lets the test be evaluated
  again; one between the metrics and the bundle leaves an experiment without a
  bundle for ever; a data set rewritten between the gate and the load of a
  partition is not noticed (`supervised/data.py:245`), nor a configuration
  edited between parsing and hashing (`supervised/service.py:231`,
  `anomaly/service.py:399`).
- Candidate ids of fusion thresholds collide when two thresholds agree in three
  digits (`fusion/selection.py:123`); `minimum_benign_groups` is compared with
  rows; the better single engine is found without regard to its false positive
  rate; anomaly policy 2.0.0 is refused when LOF has no threshold within the
  limit (`anomaly/service.py:315-319`).
- The reader of captures is stricter than the inspection, so a completed source
  may turn out unreadable when it is replayed. The error "replayed packet count
  exceeds pinned source evidence" (`runtime/pipeline.py:268`) cannot occur.
- "burst" contains "rst", so that a connection burst counts as repeated failures
  (`correlation/rules.py:83-86`). Two templates of hypotheses cannot be reached,
  and the confidence of a hypothesis is never below 0.65 once it passes the gate.
- The evaluation pages hash a file and then read it again
  (`api/evaluation_service.py:277`): an edit in between shows contents under a
  checksum that is not theirs (`reader.touched` in `EvaluationEvidence`).

## 6. Not modelled

What is left, and why:

- What estimators compute: fitting, cross-validation scores, latency and size of
  a model. There is no control state, and the numbers have no exact counterpart.
- Rendering: the Streamlit pages, model cards, reports, case exports as text.
- Request and response schemas, paging, and routes that only read.
- Conversion of rows of tabular data sets and of CSV telemetry, field by field.
- Build, benchmark and validation scripts, container files, delivery material.
- Configuration parsing; where a configured relation matters (timing, weights,
  bands) it is an assumption or a guard of the module.

Worth doing next: the lemmas that `ComputedIsSound` would need for `Triage` and
`ModelSelection`, where the recursion is over sets, and for `JsonEvents`.
