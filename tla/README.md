# A TLA+ verification of affective-belief-persistence

This directory holds TLA+ modules that model the stateful core of
`affective_belief_persistence`, the configurations with which TLC checks small
instances of them, and proofs that TLAPS checks for every instance.
`P` below stands for `src/src/affective_belief_persistence`.

## 1. The system

The repository simulates an agent over a number of days (actions, resources,
memory, beliefs), interferes with it (a "reality shock" and an intervention
that reframes or blocks memories), measures how beliefs persist, and carries an
offline *sprint supervisor* that runs a project workflow of tasks by agents.

| Component | Code | State it keeps | Operations | Interacts with |
|---|---|---|---|---|
| Supervisor | `P/orchestration/scheduler.py`, `state.py`, `graph.py`, `registry.py`, `workflow.py` | task statuses, attempt and retry counts, artifacts, gates, hand-offs, phase; `workflow-state.json`, `workflow-events.jsonl`, `workflow-summary.json` | start, resume, one wave (mark ready, skip, lease, save, execute, apply, save), propagate failures, pause, finish | leases, budget, validation by calls; workers by a thread pool; its later self by files |
| Path leases | `P/orchestration/leases.py` | active leases, id sequence | acquire, heartbeat, release, expire | called by the supervisor's own thread, one call after another |
| Sprint budget | `P/orchestration/budgets.py` | usage of six amounts, limits | observe, can_start, charge, training decision | called by the supervisor; usage is saved with its state |
| Result validation | `P/orchestration/validation.py`, `contracts.py` | none | validate a worker's proposal | called by the supervisor |
| Event log | `P/orchestration/events.py` | append-only events | append, write | written after the state |
| Day engine | `P/simulation/*` | simulation state, records | one day: retrieve, select, consequence, speak, commit, checkpoint | memory, model and intervention by callbacks |
| Memory | `P/memory/*` | episodes, access log, revisions, belief history, blocked set | context, stage, commit, checkpoint, restore | staged in a day, committed at its end |
| Interventions | `P/interventions/*` | observed shock, activation, overlay | observe, activate, stage, commit, abort, checkpoint, restore | wraps the memory, driven by the harness |
| Harness | `P/harness/*` | a cell's runtime, model ledger, evidence, composite checkpoint | step, run, capture, resume, compare | composes the four above |
| Plain run | `P/simulation/engine.py` (`run_and_write_simulation`) | engine state, checkpoint sequence; the files of an output directory | start, resume, step, pause, checkpoint, replay, write sidecar and manifest | the caller's memory object, its later self by files |
| Model adapters | `P/models/*` | response cache, invocation records, selected decisions | select action, generate language, with look-up, send, retry, repair | called by the model bridge; a transport by calls |
| Pilot gateway and budget | `P/gate3/*` | open reservations, calls, used amounts | reserve, settle, assert settled; stamp a request and its reply | around every live call |
| Offline evaluation | `P/evaluation/matrix.py`, `runner.py` | results of a client, budget account, a write-once store of raw results | expand the matrix, run a slice, start, add a result, put | executors by calls, other evaluations by the store |
| Metrics and analysis | `P/evaluation/metrics.py`, `analysis.py`, `contracts.py` | none | metrics of observations, recovery, reduction, block contrasts, sign-flip test, bootstrap, Holm | read results |
| Data, safety, schemas, CLI | `P/data`, `P/safety.py`, `P/schemas.py`, `P/cli.py`, `P/runner.py`, `P/reporting` | none that changes between calls | pure functions and one-pass writers | read finished runs |

What makes them hard, and what makes them correct:

* **Supervisor.** The process can be killed between any two file writes and is
  resumed from what is there; workers return in any order; leases expire under
  a running worker; admission, charging and the wall clock all consult one
  budget at different instants; the loop continues without a wave as long as
  something changed. Correct means: no task starts before its dependencies, no
  attempt runs that the disk does not know of, nothing settled is undone,
  a registered artifact is the one in its file, gates follow tasks, usage
  stays within limits, waves do not collide, the summary is true of the
  checkpoint, every call of `run()` ends.
* **Leases.** Calls of several agents arrive in any order around expiry;
  conflicts are decided by pairwise scope comparison after canonicalisation.
  Correct means exclusive paths, a bounded number of workers and no revival.
* **Day, memory, intervention, harness.** A day is a transaction over five
  stores that fail and roll back separately, and a run is resumed from a bundle
  of five checkpoints that must belong together. Correct means: a day that
  failed leaves no trace, a resumed run produces the same days, an intervention
  happens exactly once and touches one layer.
* **Plain run.** Four kinds of file are written at different times; a crash or
  an error may come between any two, and nothing ties the memory that a caller
  brings back to the checkpoint it resumes from. Correct means: what is reported
  is the trajectory that nothing interrupts, progress on disk is never undone,
  and a run that is started again completes.
* **Adapters.** Retries, one repair request and a cache around an endpoint that
  may answer the same request differently each time. Correct means: the cache
  never contradicts an answer, a repeated call needs no network and ends as
  before, every send has a reason, every call ends.
* **Pilot budget.** Several reservations are out at once and come back in any
  order, twice or never. Correct means: the limits hold whatever comes back, and
  the account tells what was used.
* **Offline evaluation.** A call of `run` that raises or dies returns nothing of
  its slice; two evaluations share one store whose `put` is not atomic. Correct
  means: no assignment is executed again once it has a result, every pointer
  resolves to a whole file, the budget counts what was done over all calls.
* **Metrics and analysis.** Empty denominators, missing days, invalid decisions,
  ties and untestable hypotheses; two implementations of one recovery curve.
  Correct means: invalid or missing data never help, related values agree, the
  tests claim what their definition gives.

## 2. Modules

| Module | Models |
|---|---|
| `LeaseRules` | scope overlap, canonicalisation, liveness of a lease and the grant decision (pure) |
| `BudgetRules` | observation, projection, limits, admission, training decision (pure) |
| `ResultValidation` | the comparisons of `validate_worker_result`, in order, over an abstract worker result (pure) |
| `WorkflowDefinition` | the definition's constants and assumptions, task life cycle, `WorkflowState` and what `graph.py` and `state.py` compute on it |
| `Supervisor` | the process: one action per step of `run()` and its helpers, workers, disk, crash and resume; the properties and the inductive invariant |
| `DurableWorkflow` | the abstract specification: what a reader of the checkpoint may rely on |
| `PathLeases` | the lease manager on its own, with every entry point and any caller |
| `MemoryLedger` | the memory as one record: episodes, revisions, accesses, audit records, belief; ranking and the writes of a commit (pure) |
| `Treatment` | what each intervention does to a memory and to the directives, its record, and the validator of that record (pure) |
| `Cell` | the Gate 2 cell: a day as a transaction over simulation, memory, intervention runtime, model ledger and evidence; failure, checkpoint, resume; its properties and inductive invariant |
| `SimulationRun` | the plain engine over a memory: days, cadence, pause, checkpoint, replay, the files of a run, crash, error and resume |
| `ProviderReply` | what the adapters test of a status, an envelope and a text; what the gateway does to request and reply (pure) |
| `ModelAdapter` | a call of either stage with look-up, send, retry, repair, over a cache that outlives the adapter |
| `PilotBudget` | the pilot's account with any number of calls under way |
| `PilotLedger` | the abstract specification of the account: what is spent and what is held for each call that is out |
| `OfflineEvaluation` | the matrix, the resumable runner with its hard budget, the store step by step, several evaluations on one store |
| `EvaluationLedger` | the abstract specification of the evaluations: what whoever analyses their results may rely on |
| `Fractions` | quotients as exact fractions |
| `MetricRules`, `AnalysisRules` | the formulas of `metrics.py` and `analysis.py`, with the admission of `contracts.py` (pure) |
| `DecisionMetrics`, `RecoveryCohort`, `BlockAnalysis`, `ConfirmatoryFamily` | the parts of an evaluation as observations come in: decisions, follow-up days, block contrasts, the family of tests |
| `Evaluation` | the four parts side by side, each on variables of its own; `part` says which one a behaviour exercises |
| `SupervisorProofs`, `PathLeasesProofs`, `CellProofs`, `SimulationRunProofs`, `ModelAdapterProofs`, `PilotBudgetProofs` | theorems of one component each |
| `EvaluationProofs` | theorems of the offline evaluation and of the evaluation rules |
| `DataFacts` | facts about naturals, finite sets and sums that several of them cite |
| `MCSupervisor`, `MCPathLeases`, `MCCell`, `MCSimulationRun`, `MCModelAdapter`, `MCPilotBudget`, `MCOfflineEvaluation`, `MCEvaluation` | the instances that TLC checks |

`LeaseRules`, `BudgetRules` and `ResultValidation` are extended by
`WorkflowDefinition`, which `Supervisor` extends; `Supervisor` instantiates
`DurableWorkflow` under the mapping `ledger <- Ledger(saved)`. In the same way
`PilotBudget` instantiates `PilotLedger` (spent is what the settled calls used, held
the open reservations, the books are closed once `assert_settled` has passed and
until the next reservation) and
`OfflineEvaluation` instantiates `EvaluationLedger` (the results are those the clients
have, kept are the payloads whose files are whole). The grant rules
that `PathLeases` checks are the ones `Supervisor` uses. `Cell` extends
`Treatment`, which extends `MemoryLedger`; `SimulationRun` extends the same
`MemoryLedger`. `ModelAdapter` extends `ProviderReply`. `Evaluation`
extends the four evaluation parts; `MCEvaluation` gives it its observations.

### How Supervisor's state and steps correspond to the code

`state` is `self.state` together with the usage of `self.budgets`; `saved`,
`journal`, `files` and `summary` are the files; `agent` and `results` are the
wave in progress; `leases` is the manager's set; `pc` is the point in `run()`
where the next state change happens:

* `Start`, `Resume`: the constructor and `resume`. Both write a checkpoint.
* `SaveState`, `SaveRaises`, `SaveJournal`: `_checkpoint`, which observes the
  clock, may raise, and replaces two files, the state first.
* `Finish`, `WriteSummary`, `Pause`, `BeginIteration`: the head of the loop, the
  terminal branch, `max_waves`, `_mark_ready`.
* `SkipUnavailable`: `_skip_unavailable_optional_training`.
* `NoFreeAgent`, `OverBudget`, `LeaseRefused`, `LeaseGranted`: the outcomes of
  `_lease_task` in the order of its returns; `StartWave` and `NothingLeased`
  the end of the lease loop.
* `PropagateFailure`, `LeaveOpen`, `LoopAgain`, `Stall`: an iteration without work.
* `WorkerReturns`: one future completes, with any result, an exception, or too late.
* `ApplyCompleted`, `ApplyRetry`, `ApplyEscalated`, `LeaseLost`: `_apply_result`,
  its helpers and the release of the lease, in task-id order.
* `WaveDone`, `Tick`, `Crash`: the end of the wave, time, a kill.

Statuses that a task only passes through inside one call (`leased`,
`validating`, `blocked`) are applied inside the action; that each visible change
decomposes into allowed transitions (`TransitionsAllowed`) is a theorem.
A task's file holds the number of the attempt that wrote it. A worker result
is the outcome of each comparison the validator makes. Agent selection is the
least eligible agent that is not busy, eligibility being a constant computed from
role, type and path authorisation. Segments of a path are one-character names,
for which sequence order is Python's string order.

### How Cell's state and steps correspond to the code

`treatment`, `memory`, `instructions`, `shock`, `applied` and `staged` are the
`InterventionRuntime` (its spec's condition, its `MemoryRuntime`, the active
directives, `shock_validation`, `records`, `_pending_activation`); `context` is
what `HarnessMemoryBridge` captured at the last retrieval; `ledger`, `pending`
and `traces` are the `Gate2DeterministicModel`; `days` are the engine's records,
`evidence` the chain of `HarnessStepEvidence`, `archive` the composite
checkpoints taken so far. `decision` and `drafts` are local variables of
`SimulationEngine.step`, `before` those of `CellExecution.step`. `pc` names the
next step of the day:

* `BeginDay`: `CellExecution.step` up to the `try`, with the snapshot, which
  discards a pending activation and is validated.
* `Retrieve`: `context_for_action` through bridge, intervention runtime and
  memory: the shock is observed, on the activation day the treatment is staged
  on a clone, then retrieval ranks and the overlay is captured.
* `Select`, `Stage`, `Speak`: `select_action`; commitment, debit, consequence
  and drafts; `generate_public_language`, which closes the trace.
* `KeepAudit`, `KeepEpisode`, `FinishCommit`: the writes of `commit_after_step`
  one by one, then the belief, the installation of what was staged and the new
  simulation state.
* `Attest`: `_evidence_for_step` with its cross-checks.
* `Fail`: any exception at any of these points, and the `except` branch.
* `StartCell`, `Capture`, `Restore`: `start_cell`,
  `capture_composite_checkpoint` and `restore_composite_checkpoint`. `Restore`
  is offered a pointer, a simulation checkpoint, a runtime checkpoint and an
  evidence chain of any captured bundles, so what holds of it holds by the
  comparisons it makes.

A SHA-256 hash stands for the value it is taken of, so a chain of hashes is the
sequence it ends and comparing hashes is comparing values. What only depends on
the event, the seed and the configuration is a function: a formation's
candidates of a day (`Candidates`), the score of an episode (`Score`), the
model's choice (`Action`). A decision is identified with the input it was made on.
A memory is its id; text, facts and tags are functions of it. Where an order is
decided by the code and read by nobody (the access log, the revisions, the ids
that a retrieval selected), the model keeps the set; where it decides something,
which memories are among the best `TopK`, `Order` is the set of pairs of the
sorted ranking and `Best` its head.

### How the other modules correspond to the code

**SimulationRun.** `records` and `sequence` are the engine's state and
`checkpoint_sequence`, `memory` the caller's object (`hasMemory` says whether
there is one), `disk` the output directory. `Step` is `SimulationEngine.step`
with the whole of `commit_after_step`, which may refuse half-way and leave what
it kept; `MakeDirectory` and `WriteCheckpoint` are `_write_checkpoint`; `Pause`
is `max_steps`; `WriteRecords`, `Replay`, `WriteMemory` and `WriteManifest` are
the rest of `run_and_write_simulation`. `Resume` takes the checkpoint. Both it and
`Start` take any memory a caller may have: the object that survived, the sidecar or
a new one. Nothing in the code asks a new run for a new memory.

**ModelAdapter.** `call` is the prompt that is being answered (its `invalid`
field holds the text that a repair shows), `invocations` the records of the call,
`cache` the response cache, `selected` the adapter's own decisions. `CacheHit`,
`CacheMiss`, `SendTimesOut`, `SendDirect`, `SendThroughGateway` and
`GatewayRefuses` are the body of `_invoke_text`; `Parse` is what `select_action`
and `generate_public_language` do with a text. `Restart` ends the process.
`answers` is a history variable.

**PilotBudget.** `Reserve`, `Settle` and `AssertSettled` are the three methods of
the account, `open` its `_open`; `actual` is what the provider really used,
which the account learns only when a call is settled. A call that is refused
changes nothing. The account does not close: it admits calls after
`assert_settled` as before, and `accepted` says whether that has passed with
nothing reserved since.

**OfflineEvaluation.** One process per design, all on one `store`. `Resume` is the
head of `run` up to the schedule, `Start` is `start_trajectory`. `Execute` is an
executor that returns, raises or says that the budget is used up, in time or late;
`DeclareModelCall` is one that declares a call of a live model, which an offline
account refuses. `Put`, `Create` and `Write` are the steps of `ImmutableRawResultStore.put`
between which another process may step, `EndOfSlice` is the return. `saved` is what
the client keeps of the last call that returned.

**Evaluation rules.** A record with `NA` is a value that is missing with a reason.
Rates are counted in tenths and quotients are exact, where the code works in
doubles and rounds. An action records one observation, provided its model in
`contracts.py` accepts it; the metrics are operators over what was recorded. A
dictionary or a list of rows is a function over its keys or its indices, so a
total over it is a `SumFunction`, in whatever order the code adds.

## 3. What the runs check

| Run | Instance | Question |
|---|---|---|
| `supervisor_diamond` | 4 tasks: a gated branch, an optional GPU branch, a join; 2 agents, 3 processes, clock 0..2 | everything that relates memory to disk, refinement, termination |
| `supervisor_fan` | 3 independent tasks with conflicting scopes and agents, token limit 2, leases of 1 instant, 2 processes | exclusion in a wave, retries, what reaches a file |
| `path_leases` | 7 kinds of request by 3 agents on 3 tasks, 2 workers, 4 leases, clock 0..3 | exclusion of paths, worker limit, no revival |
| `cell` | 5 cells (the four arms of one formation, one arm of another), 5 days, shock on day 3, treatment on day 4, 6 memories, 2 retrieved, 2 bundles | what failures, checkpoints and resumes may do to a cell; what each treatment changes |
| `simulation_run` | 5 days, a checkpoint every 2, 4 memories, with and without a memory, 3 interruptions | what a manifest can describe after crashes, errors, pauses and resumes with any memory |
| `model_adapter` | one request, 3 calls, 1 retry, 5 texts, 14 envelopes, direct and through the gateway | what cache, retry and repair do together |
| `pilot_budget` | 3 calls, 3 kinds of reservation, 4 kinds of usage, clock 0..2 | whether the account holds its limits and tells the truth |
| `offline_evaluation` | a pilot of 2 assignments and a primary design of 1 on one store, slices of 1 and 2, 1 second, 1 death | what slices, errors, deaths and a shared store do to results and budget |
| `evaluation_rules` | up to 4 observations of each kind; 2 trajectories of 5 follow-up days; 3 blocks in 2 families; 4 hypotheses | whether the formulas agree with one another and with their reference definitions |
| `third_attempt`, `optional_failure`, `scope_dropped` | the smallest instance of each | statements of documents or comments that the code does not keep |

**Invariants and action properties.** `DependencySafety`,
`AttemptsRecordedFirst`, `RegisteredArtifactsOnDisk`, `UsageWithinLimits`,
`SummaryTruthful` and `JournalNeverAhead` relate what a process holds, what the
files hold and what a later process makes of them. `ImplementsDurableWorkflow`
is the refinement. `RunEnds` is the liveness property. `WaveExclusive`,
`RetriesBounded` and `OnlyValidatedFiles` concern one wave.

Of the cell, `Aligned` says that between days all stores agree with the end of
the evidence chain and nothing of a failed day is left; `Reproducible` that
executions of one cell, resumed or not and whatever failed in them, give the
same evidence, which is what `_cell_manifest` compares; `ArmsMatch` that the
arms of a formation cannot be told apart before the activation day, which is
what `_validate_pre_intervention_matching` compares; `OnlyItsLayer` that from
that day on the model's input changes in the layer of the cell's intervention
and in no other; `TreatmentLasts` that the treatment stays in force;
`MemoryTellsDays` that the memory is exactly the history of the days;
`NoCheckRefuses` that none of the many cross-checks on the way can stop a
cell: whatever step comes next, its guards hold (they are named, and the actions
use the same definitions); `ResumesWhole` that a resumed
execution takes all its stores from one bundle.

`ManifestIsUninterrupted` says that a manifest describes the trajectory that
nothing interrupts, and that without a memory this already holds of every
checkpoint. `CheckpointGrows` says that a checkpoint is replaced only by one
that continues it and that no file gets ahead of it. `RunCompletes` is liveness,
with one exception that the code really has: a crash between the making of the
directory and the first checkpoint strands the run (`Stranded`). The property does
not catch that case, it names it; what it catches is a run that stops at any later
point and that a resume would not take to its end.

`CacheConsistent` joins two facts: what is cached can be used, and no send ever
meets another answer under its key. `ReplayFaithful` says that a call whose
answers are stored never sends again, in any process, and ends as it did;
`SendsJustified` that every attempt after the first follows a transient failure
of the same request, a repair follows a malformed text, and both are bounded.
`CallEnds` is liveness.

`AccountTrue` is about the account's limits (`LimitsKept`) and its truth: what
counts is what was settled plus what is out, and a pilot that passes
`assert_settled` has, until it reserves again, used exactly that.
`ImplementsPilotLedger` is the refinement: to whoever pays, a call is held for before
it is made and charged once, never above what was held, and nothing is out while the
books are closed.

`ResultsSound` says that an assignment with a result is not executed again and
that a client's pointers lead to whole files; `BudgetHonest` that started
trajectories and elapsed time count what was done over all calls and that "budget
exhausted" is said only with assignments pending, and only when the time is up or an
executor has said so; `EvaluationEnds` is liveness of a client
that goes on. `ImplementsEvaluationLedger` is the refinement: whatever slices, errors
and deaths lie between, a client's results are at any time those of the first
assignments of the matrix, none changes, their bytes are kept by then and stay, and
all but the last of them together took less than the limit.

`MetricsAgree`, `OutcomesAgree`, `ContrastsSound` and `HolmIsClosedTest` compare
formulas with each other: every record passes the validator of `MetricRecord`
and related metrics do not contradict; the daily, per-trajectory and cohort
outcomes agree between `metrics.py` and `analysis.py`; a contrast accounts for
every block, changes sign with the arms and has the smallest p-value its
complete blocks allow; Holm's adjustment equals the closed test, written down
independently over all subsets of hypotheses. `InvalidContributesNothing` is an
action property: recording an invalid decision moves no value.

**Bounds.** `MaxStarts` bounds the processes: two resumes are enough for a
crash during the recovery of a crash, and for a summary that outlives two
processes. `MaxTime` and `MaxLeases` bound the clock and the leases; they are
guards of `Tick`, `Start`, `Resume` and `Acquire` alone, so the rest of the
behaviour is not cut. In the diamond the wall limit is below the clock's end,
so saving does raise; in the fan the token limit is below the sum of what the
admitted siblings charge and a lease lives shorter than the clock, so a charge
is refused and a lease is lost under a running worker. In `path_leases` the
clock outlives every lease and the requests include every pair of exemptions.
In `cell` two days precede the shock, one lies between it and the treatment
and one follows, so every case of the calendar occurs; the memories include one
about the partner from the shock's day (not a target), one without an
interpretation and one that may not be retrieved; scores tie and depend on the
action. `MaxBundles` bounds the captured checkpoints, in `Capture` alone: two
are enough to mix the parts of two bundles of one cell or of two cells. Failed
days and resumes are not bounded.

In `simulation_run` the cadence does not divide the days, so a checkpoint comes from
the cadence, from a pause and from completion; three interruptions allow a crash, a
resume with the wrong memory that is refused, and another crash; a candidate of a
late day contradicts an earlier one, so the belief moves. In `model_adapter` three
calls let a first call fill the cache, a second use it and a third depend on both;
two attempts are enough for a retry to succeed and to be exhausted; the provider's
answers cover every category that the code distinguishes between retry, repair and
refusal, and the repair of a text that is not JSON is longer than the gateway
admits, as is one reply. In `pilot_budget` the worst cases fill the limits in
different measures, so a refund makes room for a call that was refused. In
`offline_evaluation` a trajectory may take longer than the whole limit, both
evaluations may leave the same bytes, and one death is enough to leave a partial
file that every other put meets. In `evaluation_rules` four observations cover every
pair of a valid and an invalid, a missing and a zero-valued one; five follow-up days
contain recovery at the first pair, at the last and around a missing day; three
blocks filled from four kinds of trajectory include ties and a missing arm; four
hypotheses include equal, zero, capped and untestable p-values. `MaxCalls`,
`MaxCrashes`, `MaxInterruptions` and `MaxObservations` bound only the action that
begins a call, kills a process, interrupts or records.

**Fairness.** `FairSpec` asks for weak fairness of the supervisor's own thread
(`SupervisorStep`) and of each worker's return. The first says that a running
process runs; the code does not wait for anything else, and `Crash`, `Pause`,
`Start`, `Resume` and `Tick` get no fairness. The second is an assumption about
the executor: `_execute_wave` compares the runtime only after the worker has
returned and offers nothing against one that hangs (see section 6).
`CHECK_DEADLOCK FALSE` appears where the system may really stop: after
`MaxStarts` processes nobody starts another. `Cell` states no fairness and no
liveness: whether a day is tried again is up to the caller. `NoCheckRefuses` is
the safety side of progress.

In `ModelAdapter` the adapter's steps are fair: a call runs in its client's
thread, and a transport returns or times out. In `OfflineEvaluation` the runner's
own steps and the executor are fair, and so is a client that calls `run` again
with a positive slice while its evaluation has not ended; deaths are not, and the
property excepts evaluations whose calls raise again and again. In `SimulationRun`
a process makes progress and somebody starts it again; interruptions are finitely
many by their bound. This is asked only of runs without a memory, because with a
memory of the wrong day a resumed run may be refused for ever. `PilotBudget` and
the evaluation rules state no liveness: their clients owe them nothing.
`CHECK_DEADLOCK FALSE` stands where all calls have been made, all results
returned or all observations recorded.

**Findings.** Each violation run checks one sentence of the repository:

* `third_attempt`: ADR-0005 says a third automatic attempt is never scheduled.
  An interrupted attempt is repeated on resume whatever the limit.
* `optional_failure`: ADR-0006 says optional training must not block a valid
  offline MVP. An optional task that fails (instead of being skipped) leaves
  its dependents pending and `run()` raises.
* `scope_dropped`: canonicalisation keeps a nested subtree and drops its parent
  when the nested name sorts before `*`.

**Disagreements without a run.** These were met while modelling; the models
behave as the code does in each case, and each was seen in a counterexample of
TLC. They have no run of their own.

* `orchestration/scheduler.py:784`: the iteration that escalates the last open
  task for its budget ends in "workflow made no progress", unsaved, on every resume.
* `orchestration/validation.py:62`: a later comparison overwrites the category
  `SAFETY_BOUNDARY` and the result is retried, which
  `docs/safety-and-claims.md:35` excludes.
* `models/base.py:374`: there is no replay mode. A call whose body the retention
  policy did not keep is sent again, where `docs/model-runner.md:128` says that a
  replay never calls a live provider.
* `models/base.py:386`: an error that the transport itself raises, such as the
  gateway's, ends the call with no invocation record.
* `evaluation/runner.py:158`: a process that dies between creating and writing a
  raw result makes every later put of these bytes fail.
* `evaluation/runner.py:211`: a complete evaluation whose last trajectory crossed
  the time limit raises when it is run again.
* `evaluation/runner.py:378`: an outcome with empty bytes is valid, and the put of
  its bytes raises away the slice.
* `evaluation/metrics.py`: the opportunity cost of a trajectory with invalid
  decisions counts fewer decisions than are eligible; a recovery curve keeps a
  trajectory whose last days are missing at risk to the end of the horizon.
* `simulation/engine.py:364`: the memory's sidecar of a paused run lags behind the
  checkpoint that a later run has written.

## 4. What is proved

All theorems hold for every value of the constants that satisfies the named
assumptions, which are what `load_workflow`, the registry, the settings' models
and the managers' constructors validate. In particular they hold for any number
of processes, any clock, any worker, any provider and any executor. Every safety
invariant that the passing runs check is proved, and so are their refinements and
their other action properties.

**Supervisor.** `DependencySafety` is not inductive: that a task which is ready
in memory has its dependencies done in memory says nothing about the checkpoint
once `StartWave` saves it, and the refinement needs that a task settles only on
dependencies that an *earlier* checkpoint shows. `InductiveInv` adds:
`WaveInv` (which tasks a wave holds at each `pc`, and that before execution the
checkpoint records exactly their attempts), `MemoryExtendsDisk` (memory equals
the checkpoint at rest; otherwise it extends it: settled tasks have not moved,
counters have not fallen, and whatever left `pending` did so on dependencies
the checkpoint already shows), `ArtifactsInv` and `GatesMatch`. The proof
classifies steps: `Start`, `Resume` and `SaveState` change what memory or disk
are; a `MovingStep` moves memory along one operation of the life cycle, whose
effect a lemma states once (`TransitionFacts`, `LaunchFacts`, `CompleteFacts`,
...) and whose compatibility with the checkpoint a second group of lemmas
shows (`StepsMove`, `MoveKeepsExtends`, ...); an `EndingStep` loses memory; a
`QuietStep` touches neither. `Refinement` follows because `SaveState` is the
only step that changes the ledger and `Extends(state, saved)` is exactly the
condition of `Advance`.

Theorems: `TypeCorrect`, `Inductive`, `DependencyOrder`, `AttemptOnRecord`,
`ArtifactsDurable`, `GatesFollowTasks`, `SettledForGood`, `Refinement`.

**The supervisor's limits.** The second part of `SupervisorProofs` proves another
layer, `LimitsInv`, on top of `InductiveInv`. It says what `InductiveInv` leaves out:
leases and agents of a wave (`WaveExclusive` needs that a lease granted in the
loop conflicts with none granted before, and that expiry only removes), the
counters and the number of processes that saw them (a retry is counted once per
rejected result, and an attempt beyond the retries belongs to a crash), usage in
memory and on disk, and what `Finish` decided before it wrote a summary.
Theorems: `LimitsInductive`, `UsageStaysWithin`, `WavesAreExclusive`,
`RetriesStayBounded`, `SummaryStaysTrue`, `JournalStaysBehind`,
`FilesAreValidated`, `OnlyAllowedMoves`.

**Path leases.** `Exclusion` needs that live leases are pairwise compatible,
which `Acquire` establishes and renewal keeps because only live leases are
renewed, and a lemma about scopes: two scopes that cover one path overlap.
`BoundedWorkers` counts owners. Theorems: `LeaseTypes`, `Exclusion`,
`BoundedWorkers`, `NoRevival`.

**Cell.** `Aligned` speaks of an execution between days; a day has up to nine
steps and may fail at each, and a resume brings back stores of long ago.
`CellInv` therefore says the same of three copies of the stores (`StoreInv`):
the live ones between days, those that a running day would go back to, and those
of every bundle; and for a running day how far its stores have moved at each
`pc` (`UncommittedInv`: only the shock, the staged clone and, while the commit
writes, the memory; `CommittedInv`: all but the evidence). That a treatment
stays in force needs that each write of the commit only extends episodes and
never touches revisions or blocked ids (`MemoryGrows`: `AuditGrows`,
`EpisodeGrows`, `BeliefGrows`), and that its record describes the clone it was
staged on (`TreatmentInForce`). `LoadKeeps` is the one lemma behind starting,
failing and resuming. The theorems hold for every calendar, set of cells, score,
model and number of checkpoints (`MemoriesAssumption`, `CalendarAssumption`,
`CellAssumption`): `CellTypes`, `CellInductive`, `CellAligned`,
`TreatmentHolds`, `WholeResume`.

`Reproducible` and `ArmsMatch` compare whole histories. The proof states a day as a
relation `Lived(c, s, t)` between the stores before and after it: every part of `t` is
an expression of `s`, except the memory after the episodes were appended one by one,
of which there is exactly one (`KeepsOne`). `Determined` says at each `pc` how much of
the day's outcome is there already, so that a day that is attested has been lived
(`AttestLives`) and every execution, live or captured, has been grown day by day from
a fresh one (`ChainInv`). Two such executions agree as far as both go (`GrowsAgree`),
and two arms before the activation day, because only the treatment and the ledger's
start could tell them apart and the first is not read until then (`ArmsLiveAlike`).
Induction over the days and over the episodes of a day is an argument about the least
counterexample (`Least`). Theorems: `CellGrows`, `Reproducibility`, `ArmsStayMatched`.

What memory says and what the model is shown are invariants of such a chain of days.
`Told` says of the stores after n days that memory tells those days (`TellsDays`: an
episode for every candidate of every day with the record it came from, a retrieval and
its accesses for every day, a belief that cites exactly what is stored), and that the
directives, the blocked ids and the revisions are those of the cell's own treatment of
the memories from before the shock (`TreatedAs`). `LivedTells` shows that one more day
keeps it, and that the day's input showed its layers so (`ShownItsLayer`): a fresh
memory satisfies it, the staged treatment moves one layer (`SourceTold`), the audit,
the episodes and the belief each extend the account by that day (`AuditOfDay`,
`EpisodesOnDay`, `BeliefCites`). `GrowsTells` carries it along the chain, again by a
least counterexample, and so is what `FlattenSeq` makes of the episodes of all days,
which is recursive. Candidates of one event are distinct, as `world.py:243` validates;
this is a conjunct of `CellAssumption`. Theorems: `LayersStayApart`,
`MemoryStaysTrue`.

`NoCheckRefuses` follows. The checks of the runtime and of the harness pass by
`CellInv` (`SnapshotPasses`, `TreatmentPasses`, `ContextPasses`, `CallPasses`); those of
the memory because the account holds nothing of the day that is being written, and
the targets of a treatment are episodes that the account dates before the shock
(`CommitPasses`, `TargetsPass`, `AttestPasses`). Here a hypothesis is needed that no
validator checks: `SoundScenario`. A memory that is a candidate of two days would be
refused as a duplicate on the second, and one that supports and contradicts the
belief is refused by `update_belief_evidence`. All 184 events of the repository's
data satisfy it, because their generator puts the day into each id; TLC evaluates it
on the instance of `cell`. Theorem: `ChecksPass`.

**Plain run.** `ManifestIsUninterrupted` follows from the replay: the records of a
finished run are compared with a trajectory from day 1, and nothing changes them
between the comparison and the manifest. `RunInv` says which files are there at
each `pc`, that the days are numbered and the checkpoint's records begin the
current ones, that what the replay approved is what the report holds, and that
without a memory each day is a function of its event. Assumption:
`SimulationRunAssumption`. Theorems: `ManifestsAreUninterrupted`, `CheckpointsGrow`.

**Model adapter.** `AdapterInv` relates cache, invocation records and the call in
progress: before a send the look-up found nothing (`SendInv`), a text is parsed
under a key that had none before (`TextInv`), a repair is under way because of a
malformed text on record (`RepairInv`), sends are counted by stage and attempt
(`CountInv`), and a call that is marked replayable finds in the cache what it
ended with (`ReplayInv`), which stays true because the cache only grows.
Assumption: `AdapterAssumption`. Theorems: `AdapterInductive`,
`CacheNeverContradicts`, `FaithfulReplay`, `JustifiedSends`, `CacheIsStable`.

**Pilot budget.** That limits hold needs that what was settled lay within its
reservation, for then a refund is never negative. `AccountTrue` compares the
counters with sums over the open reservations and over the settled calls: each step
adds one member to such a set or takes one away. The refinement follows from the
same sums: `Reserve` holds (`ReserveHolds`), `Settle` charges (`SettleCharges`), an
answer that is not settled yet is unseen (`AnswerUnseen`). Assumption:
`PilotAssumption`. Theorems: `LimitsAlwaysKept`, `AccountStaysTrue`,
`AcceptedIsSettled`, `LedgerRefinement`.

**Offline evaluation.** `StoreInv` says that a file which is only created belongs to
at most one evaluation, the one that is about to write it, or to a dead one, and
that results whose client or slice holds them point to whole files; `SliceInv`
that scheduled positions have no saved result and that a slice's own results are
none of the client's. Assumption: `EvaluationAssumption`. Theorems: `ResultsAreSound`,
`NothingIsOverwritten`, `FilesHaveOneWriter`.

`BudgetHonest` needs in addition an account of every design (`HonestInv`): its counters
are those of the client's and the slice's results together (`Account`), only one
result can cross the limit, because `Start` refuses once it is reached, and what a
call said last is still so (`Verdict`). That the matrix lists no assignment
twice is `MatrixAssumption` (`matrix.py:88-103` validates it). Theorem:
`BudgetStaysHonest`.

The refinement needs where an evaluation stands (`Reached`): its client has the results
of the first m assignments, with the slice of the first n, the slice goes on to the
l-th, and without the n-th the time was not up. A call that returns makes m equal
to n, one that raises n equal to m, one that starts chooses l (`NextOnes`: what has no
result begins right after the m-th), and a result raises n by one because positions
are worked through in order. `StepSlides` shows that every step does one of these
things to one evaluation and nothing to the others. Theorem: `LedgerRefinement`.

**Evaluation rules.** What an observation may carry is assumed, and no more than
the models of `contracts.py` validate: `ObservationAssumption` (the types of the
fields, and that a missing value is none of them), `FamilyAssumption` (p-values
between 0 and 1), `BlockAssumption` (finitely many blocks, a positive
`required_valid_count`) and `MetricAssumption`, which asks of the integrity
thresholds only what the numbers of `metrics.py:27-29` have: 10 of 14 days and 8 of
the 11 treated ones are so many that two of them are always adjacent. Values,
the number of observations and the size of the cohort are arbitrary.

* `MetricsStayInAgreement`: each metric is a count over a count or a sum over a
  count. Lemmas about sums over filtered indices bound the one by the other, so
  the record passes the ranges of `MetricRecord`; that nothing is spent without a
  choice and no decision is biased without an intrusion are inclusions between the
  filters. `InvalidNeverContributes`: an invalid row is outside the filters.
* `OutcomesStayInAgreement`: `FollowUpInv` says that the days are records of
  admissible days and the cohort holds only what `recovery_time` can return. Two
  valid days are adjacent by a pigeonhole, hence a trajectory without excess
  recovers. The product of daily shares and the survival are recursive functions,
  whose existence is shown by a least counterexample; both are the part of the
  cohort that is at risk the day after. The restricted mean is then a double count
  of the pairs of a trajectory and a day on which it is still at risk.
* `ContrastsStaySound`: `BlockInv` says that an arm holds quotients or `NA`. Swapping
  the arms negates every contrast, and with it the sum of every sign pattern, hence
  the same p-value. The observed pattern and its mirror image are extreme, and they
  are two. A block without a difference pairs the patterns that differ only in it,
  which doubles the extreme ones and all. A draw that replaces one block by another
  of its family moves the mean by their difference.
* `HolmStaysClosed`: the running maximum over the sorted family equals the maximum,
  over the subsets that contain a hypothesis, of the subset's Bonferroni value: no
  subset exceeds the step of its earliest tested member, and the hypotheses from
  that rank on are a subset that attains it.

**Sums.** `SumFunctionOnSet` of the community modules is a fold, defined by `CHOOSE`
of a recursive function. `DataFacts` shows that the function exists and is unique,
layer by layer of subsets with at most n members, and from that what the proofs
cite: adding a member adds its value, and a sum depends on the values only.
`EvaluationProofs` does the same for sums of fractions, up to `Same`.

**Running down.** Of termination the part is proved that needs no fairness: a number
that every step of a call, a run or a process lowers, that nothing else raises while
it is under way, and that is zero exactly when it has ended, for all values of
the constants. So none of them can go on for ever; in particular no retry, repair,
replay, slice or round of the supervisor's loop repeats without end.

* Adapter: the sends left of both stages (`ModelAdapterProofs!CallsRunDown`).
* Plain run: the days left, and the steps from the last of them to the manifest
  (`SimulationRunProofs!RunsComeDown`).
* Evaluation: five steps for each assignment left of the slice, and the return
  (`EvaluationProofs!CallsComeDown`). No evaluation delays another one on the store.
* Supervisor: the rounds of the loop that are left times a bound on the steps of one,
  plus the position in this one (`SupervisorProofs!RunsComeDown`). A round that is not
  the last one has moved a task (`changed`, or a wave), and a task has at most ten moves
  left: three for each attempt and one to its end. `Tick` and `Pause` change nothing.

**Only model-checked.** `RunEnds`, `CallEnds`, `EvaluationEnds` and `RunCompletes`
stay with TLC: beyond a number that runs down they need that some step is enabled
until the end, and fairness; `ENABLED` and liveness are out of the prover's reach. That
`SoundScenario` and the assumptions hold of an instance is what TLC evaluates on
each run. The findings are counterexamples.

## 5. Plan

1. Done: supervisor, leases, budget, validation, with proofs of every safety property.
2. Done: the cell over memory, interventions and the day engine, with proofs of
   every safety property.
3. Done: the plain run with its files, the model adapter with its cache, the pilot
   budget and the offline evaluation, with proofs of every safety property.
4. Done: the rules of metrics and analysis, with proofs of every safety property.
5. Done: abstract specifications of the pilot's account and of the evaluations, with
   their refinement proved as `Supervisor`'s is; that every call, run and process runs
   down.
6. Left: an abstract specification of the adapter's cache with its refinement; the
   order in which `graph.py` names a workflow's tasks (Kahn's algorithm) and the pure
   loaders, each against a reference definition.

## 6. What is not modelled

Text: prompts, byte-level parsing of model output, JSON schemas, safety wording,
report layout. Hashes are modelled by what they identify. Scenario loading, data
generation, schema and safety checks and the command line are straight-line or
pure code without state that changes between calls. `require_start`, `remaining`
and the retry and malformed-output charges of the budget have no caller in the
supervisor. In the supervisor, blockers, decisions, timestamps and event
contents are left out because no step reads them; the two file replacements of
`_checkpoint` are atomic each, so a directory with only a temporary file (a dead
end for both a start and a resume) does not arise; every task has output files
of its own. In the cell, `blocked_condition_tags`, `accept_validated_proposal`,
`activate` and `prepare_pre_action` have no caller in the package; resources and
goal progress are functions of the action; a `KeyboardInterrupt` is not caught by
the roll-back and ends the process.

Of the adapters the mock, the legacy `decide` wrapper and the wording of prompts
are left out; adapters on one cache run one after another, because nothing in the
package runs two at once. Of Gate 3, preflight, authorization and the gateway's
probe are sequences of independent comparisons over static documents. Costs are
whole numbers where the code adds doubles. Of the evaluation, percentiles, the
Monte Carlo test, the arithmetic that composes H1-H6, sensitivities, plots and
configuration parsing are left out; binary floating point, its rounding and its
tolerances are replaced by exact fractions. So the sign-flip test of the model counts
an assignment as extreme if it is at least as far out as the observed one, where
`analysis.py:503-511` allows 1e-15 less.

Hazards of the code that the list of hazards does not carry: a worker that hangs
blocks its wave (`scheduler.py:516`); a resume compares workflow id and task names
but not the definition's hash (269); a kill before the first replacement leaves a
directory that neither starts nor resumes (283); two tasks may declare one output
path (542); a transport's own error leaves no record (`models/base.py:386`);
doubles at a threshold (`metrics.py:125`); the tolerance by which the sign-flip test
compares sums of doubles (`analysis.py:503`), which decides whether an assignment as
extreme as the observed one is counted; a crash before the first checkpoint of a plain
run leaves a directory that neither starts nor resumes (`simulation/engine.py:444`).
