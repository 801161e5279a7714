----------------------------- MODULE Supervisor -----------------------------
(***************************************************************************)
(* The sprint supervisor of orchestration/scheduler.py: one process that   *)
(* advances a workflow in waves.  Each iteration of run() marks ready      *)
(* tasks, skips optional GPU tasks that the budget cannot pay for, leases  *)
(* tasks to agents, saves a checkpoint, runs the leased tasks on worker    *)
(* threads, applies their results in task-id order and saves again.        *)
(*                                                                         *)
(* The process can be killed between any two steps; what it had in memory  *)
(* is then gone and only the files remain (saved, journal, files,          *)
(* summary).  A new process resumes from the saved checkpoint.  An         *)
(* exception that leaves run() ends the process in the same way.           *)
(***************************************************************************)
EXTENDS WorkflowDefinition

CONSTANTS
  WorkerResults,  \* per task: the results its worker may return
  NoResult,       \* the worker has not returned yet
  MaxStarts,      \* bound: how many processes are ever started
  MaxTime         \* bound: the last instant of the clock

ASSUME SupervisorAssumption ==
  /\ WorkerResults \in [Tasks -> SUBSET WorkerResult]
  /\ NoResult \notin WorkerResult
  /\ MaxStarts \in Nat
  /\ MaxTime \in Nat

VARIABLES
  pc,        \* where the process is; "off" when there is none
  ret,       \* where it continues once a checkpoint is written
  state,     \* self.state, with the usage of self.budgets
  todo,      \* tasks that the loop in progress has not reached yet
  changed,   \* run()'s local `changed'
  agent,     \* the wave: the agent each scheduled task was given to
  results,   \* what the wave's workers have returned
  leases,    \* the lease manager's active set
  now,       \* the clock
  saved,     \* disk: workflow-state.json
  journal,   \* disk: the statuses that workflow-events.jsonl ends in
  files,     \* disk: per task, the attempt its artifact files come from
  summary,   \* disk: status of workflow-summary.json
  fault,     \* how the last process ended
  starts     \* processes started so far

memory == <<ret, state, todo, changed, agent, results, leases>>
disk   == <<saved, journal, files, summary>>
vars   == <<pc, memory, now, disk, fault, starts>>

NoAgent == 0

NoWork == [t \in Tasks |-> NoAgent]

Work == {t \in Tasks : agent[t] # NoAgent}

BusyAgents == {agent[t] : t \in Work}

Init ==
  /\ pc = "off" /\ ret = "top"
  /\ state = FreshState
  /\ todo = {} /\ changed = FALSE
  /\ agent = NoWork
  /\ results = [t \in Tasks |-> NoResult]
  /\ leases = {}
  /\ now = 0
  /\ saved = NoCheckpoint
  /\ journal = FreshState.status
  /\ files = [t \in Tasks |-> 0]
  /\ summary = "none"
  /\ fault = "none"
  /\ starts = 0

\* The process ends; its memory is lost.  The caller says what is on disk.
Ends(why) ==
  /\ pc' = "off" /\ ret' = "top"
  /\ fault' = why
  /\ state' = FreshState
  /\ todo' = {} /\ changed' = FALSE
  /\ agent' = NoWork
  /\ results' = [t \in Tasks |-> NoResult]
  /\ leases' = {}
  /\ UNCHANGED <<now, starts>>

\* Write a checkpoint, then continue at `next'.
Checkpoint(next) == pc' = "save" /\ ret' = next

-----------------------------------------------------------------------------
(***************************************************************************)
(* Supervisor.__init__.  A constructor that finds the budget exceeded      *)
(* raises before it writes anything.                                       *)
(***************************************************************************)
Start ==
  /\ pc = "off" /\ starts < MaxStarts
  /\ saved = NoCheckpoint
  /\ ~ Exceeded(NoUsage, Limits, now)
  /\ state' = FreshState
  /\ Checkpoint("top")
  /\ starts' = starts + 1 /\ fault' = "none"
  /\ UNCHANGED <<todo, changed, agent, results, leases, now, disk>>

\* An injected clock goes on from now; the default LogicalClock restarts
\* just after the instant the checkpoint was taken.
Resume ==
  /\ pc = "off" /\ starts < MaxStarts
  /\ saved # NoCheckpoint
  /\ now' \in saved.usage["wall"] .. now
  /\ ~ Exceeded(saved.usage, Limits, now')
  /\ state' = RecoverInterrupted(saved)
  /\ Checkpoint("top")
  /\ starts' = starts + 1 /\ fault' = "none"
  /\ UNCHANGED <<todo, changed, agent, results, leases, disk>>

-----------------------------------------------------------------------------
(***************************************************************************)
(* _checkpoint: two atomic file replacements, the state first.             *)
(***************************************************************************)
SaveState ==
  /\ pc = "save"
  /\ ~ Exceeded(Observed(state.usage, now), Limits, now)
  /\ state' = [state EXCEPT !.usage = Observed(@, now)]
  /\ saved' = state'
  /\ pc' = "log"
  /\ UNCHANGED <<ret, todo, changed, agent, results, leases, now,
                 journal, files, summary, fault, starts>>

SaveRaises ==
  /\ pc = "save"
  /\ Exceeded(Observed(state.usage, now), Limits, now)
  /\ Ends("budget")
  /\ UNCHANGED disk

SaveJournal ==
  /\ pc = "log"
  /\ journal' = state.status
  /\ pc' = ret
  /\ UNCHANGED <<memory, now, saved, files, summary, fault, starts>>

-----------------------------------------------------------------------------
(***************************************************************************)
(* The head of run()'s loop.  "again" is the head after an iteration that  *)
(* ran no wave: its wave count has not moved, so max_waves cannot fire.    *)
(***************************************************************************)
Pause ==
  /\ pc = "top" /\ ~ IsTerminal(state)
  /\ summary' = "paused"
  /\ UNCHANGED <<pc, memory, now, saved, journal, files, fault, starts>>

\* Mutant of Finish: a terminal workflow counts as completed.
FinishTerminalIsCompleted ==
  /\ pc \in {"top", "again"} /\ IsTerminal(state)
  /\ state' = [state EXCEPT !.phase = "completed"]
  /\ Checkpoint("end")
  /\ UNCHANGED <<todo, changed, agent, results, leases, now, disk, fault, starts>>

Finish ==
  /\ pc \in {"top", "again"} /\ IsTerminal(state)
  /\ state' = [state EXCEPT !.phase =
                 IF Succeeded(state) THEN "completed" ELSE "failed"]
  /\ Checkpoint("end")
  /\ UNCHANGED <<todo, changed, agent, results, leases, now, disk, fault, starts>>

WriteSummary ==
  /\ pc = "end"
  /\ summary' = state.phase
  /\ Ends("none")
  /\ UNCHANGED <<saved, journal, files>>

BeginIteration ==
  /\ pc \in {"top", "again"} /\ ~ IsTerminal(state)
  /\ state' = MarkReady(state)
  /\ pc' = "skip"
  /\ UNCHANGED <<ret, todo, changed, agent, results, leases, now, disk,
                 fault, starts>>

\* Mutant of SkipUnavailable: the skip is counted but never applied.
SkipCountedOnly ==
  /\ pc = "skip"
  /\ changed' = (Skipped(state, now) # {})
  /\ todo' = {t \in Tasks \ Skipped(state, now) : state.status[t] = "ready"}
  /\ pc' = "lease"
  /\ UNCHANGED <<ret, state, agent, results, leases, now, disk, fault, starts>>

SkipUnavailable ==
  /\ pc = "skip"
  /\ changed' = (Skipped(state, now) # {})
  /\ state' = SkipOptional(state, now)
  /\ todo' = {t \in Tasks : state'.status[t] = "ready"}
  /\ pc' = "lease"
  /\ UNCHANGED <<ret, agent, results, leases, now, disk, fault, starts>>

-----------------------------------------------------------------------------
(***************************************************************************)
(* _lease_task for the next ready task, and the end of the lease loop.     *)
(***************************************************************************)
Leasing(t) ==
  /\ pc = "lease"
  /\ IsNext(t, todo)
  /\ Cardinality(Work) < MaxWorkers
  /\ todo' = todo \ {t}

\* Mutant of Selectable: an agent may be given two tasks of a wave.
SelectableEvenIfBusy(t) == Eligible[t]

Selectable(t) == Eligible[t] \ BusyAgents

\* min(candidates) of AgentRegistry.select
Chosen(t, a) == a \in Selectable(t) /\ \A b \in Selectable(t) : a <= b

Affordable(t) == CanStart(state.usage, BudgetRequest(t), Limits, now)

Acquirable(t, a) ==
  Grantable(Live(leases, now), LeaseOf(t, a, now), MaxWorkers)

NoFreeAgent(t) ==
  /\ Leasing(t)
  /\ Selectable(t) = {}
  /\ UNCHANGED <<pc, ret, state, changed, agent, results, leases, now, disk,
                 fault, starts>>

OverBudget(t) ==
  /\ Leasing(t)
  /\ Selectable(t) # {} /\ ~ Affordable(t)
  /\ state' = BlockAndEscalate(state, t)
  /\ UNCHANGED <<pc, ret, changed, agent, results, leases, now, disk,
                 fault, starts>>

\* LeaseConflictError or LeaseCapacityError: the task stays ready.
LeaseRefused(t) ==
  /\ Leasing(t)
  /\ Affordable(t)
  /\ \E a \in Agents : Chosen(t, a) /\ ~ Acquirable(t, a)
  /\ leases' = Live(leases, now)
  /\ UNCHANGED <<pc, ret, state, changed, agent, results, now, disk,
                 fault, starts>>

LeaseGranted(t) ==
  /\ Leasing(t)
  /\ Affordable(t)
  /\ \E a \in Agents :
       /\ Chosen(t, a) /\ Acquirable(t, a)
       /\ leases' = Live(leases, now) \cup {LeaseOf(t, a, now)}
       /\ agent' = [agent EXCEPT ![t] = a]
  /\ state' = Transition(Transition(state, t, "leased"), t, "running")
  /\ UNCHANGED <<pc, ret, changed, results, now, disk, fault, starts>>

LeaseLoopDone ==
  pc = "lease" /\ (todo = {} \/ Cardinality(Work) >= MaxWorkers)

\* Mutant of StartWave: the wave starts without a checkpoint.
StartWaveUnsaved ==
  /\ LeaseLoopDone /\ Work # {}
  /\ state' = [state EXCEPT !.phase = "executing"]
  /\ todo' = {} /\ changed' = FALSE
  /\ pc' = "execute"
  /\ UNCHANGED <<ret, agent, results, leases, now, disk, fault, starts>>

StartWave ==
  /\ LeaseLoopDone /\ Work # {}
  /\ state' = [state EXCEPT !.phase = "executing"]
  /\ todo' = {} /\ changed' = FALSE
  /\ Checkpoint("execute")
  /\ UNCHANGED <<agent, results, leases, now, disk, fault, starts>>

NothingLeased ==
  /\ LeaseLoopDone /\ Work = {}
  /\ todo' = {t \in Tasks : state.status[t] \in Open}
  /\ pc' = "propagate"
  /\ UNCHANGED <<ret, state, changed, agent, results, leases, now, disk,
                 fault, starts>>

-----------------------------------------------------------------------------
(***************************************************************************)
(* An iteration without work: _propagate_dependency_failures visits the    *)
(* tasks in topological order, then run() saves and loops, or gives up.    *)
(***************************************************************************)
\* Mutant of PropagateFailure: an optional dependency counts as required.
PropagateOptionalFailure(t) ==
  /\ pc = "propagate" /\ IsNext(t, todo)
  /\ \E d \in AllDeps(t) : state.status[d] \in Failed
  /\ state' = BlockAndEscalate(state, t)
  /\ todo' = todo \ {t}
  /\ changed' = TRUE
  /\ UNCHANGED <<pc, ret, agent, results, leases, now, disk, fault, starts>>

PropagateFailure(t) ==
  /\ pc = "propagate" /\ IsNext(t, todo)
  /\ \E d \in Deps[t] : state.status[d] \in Failed
  /\ state' = BlockAndEscalate(state, t)
  /\ todo' = todo \ {t}
  /\ changed' = TRUE
  /\ UNCHANGED <<pc, ret, agent, results, leases, now, disk, fault, starts>>

LeaveOpen(t) ==
  /\ pc = "propagate" /\ IsNext(t, todo)
  /\ \A d \in Deps[t] : state.status[d] \notin Failed
  /\ todo' = todo \ {t}
  /\ UNCHANGED <<pc, ret, state, changed, agent, results, leases, now, disk,
                 fault, starts>>

LoopAgain ==
  /\ pc = "propagate" /\ todo = {} /\ changed
  /\ changed' = FALSE
  /\ Checkpoint("again")
  /\ UNCHANGED <<state, todo, agent, results, leases, now, disk,
                 fault, starts>>

\* raise OrchestrationError("workflow made no progress; ...")
Stall ==
  /\ pc = "propagate" /\ todo = {} /\ ~ changed
  /\ Ends("stalled")
  /\ UNCHANGED disk

-----------------------------------------------------------------------------
(***************************************************************************)
(* _execute_wave: the workers of the wave return in any order.             *)
(***************************************************************************)
WorkerReturns(t) ==
  /\ pc = "execute" /\ t \in Work /\ results[t] = NoResult
  /\ \E r \in WorkerResults[t] \cup {WorkerRaised, RuntimeExceeded} :
        results' = [results EXCEPT ![t] = r]
  /\ UNCHANGED <<pc, ret, state, todo, changed, agent, leases, now, disk,
                 fault, starts>>

(***************************************************************************)
(* _apply_result, in task-id order once every worker has returned.         *)
(***************************************************************************)
Applying(t) ==
  /\ pc = "execute"
  /\ \A u \in Work : results[u] # NoResult
  /\ t \in Work /\ \A u \in Work : t <= u

Validated(t) == Passed(results[t], t \in Gates)

\* Mutant of Chargeable: the charge is applied without the limit check.
AlwaysChargeable(t) == TRUE

Chargeable(t) == CanStart(state.usage, ChargeFor(t, results[t]), Limits, now)

Accepted(t) == Validated(t) /\ Chargeable(t)

\* Mutant of MayRetry: off by one.
MayRetryOnceMore(t) ==
  /\ ~ Validated(t)
  /\ Retryable(results[t], t \in Gates)
  /\ state.attempts[t] <= MaxAttempts[t]

MayRetry(t) ==
  /\ ~ Validated(t)
  /\ Retryable(results[t], t \in Gates)
  /\ state.attempts[t] < MaxAttempts[t]

\* Mutant of Materialized: files are written before the result is accepted.
MaterializedAnyway(t) ==
  IF results[t].artifacts THEN [files EXCEPT ![t] = state.attempts[t]] ELSE files

\* Mutant of Materialized: an existing file is kept.
MaterializedOnce(t) ==
  IF Accepted(t) /\ results[t].artifacts /\ files[t] = 0
  THEN [files EXCEPT ![t] = state.attempts[t]] ELSE files

\* The artifacts of an accepted result are on disk before the task completes.
Materialized(t) ==
  IF Accepted(t) /\ results[t].artifacts
  THEN [files EXCEPT ![t] = state.attempts[t]] ELSE files

CompleteTask(s, t, r) ==
  LET done    == Transition(Transition(s, t, "validating"), t, "completed")
      charged == [done EXCEPT !.usage = Project(@, ChargeFor(t, r), now)]
      opened  == IF t \in Gates THEN [charged EXCEPT !.gates = @ \cup {t}] ELSE charged
      stored  == [opened EXCEPT !.artifacts[t] = s.attempts[t]]
  IN  IF r.artifacts
      THEN [stored EXCEPT !.handoffs = @ \cup ({t} \X Dependents(t))]
      ELSE opened

Held(t) == \E l \in Live(leases, now) : l.task = t

\* Releasing the lease; the item leaves the wave.
Release(t) ==
  /\ Held(t)
  /\ leases' = {l \in Live(leases, now) : l.task # t}
  /\ agent' = [agent EXCEPT ![t] = NoAgent]
  /\ results' = [results EXCEPT ![t] = NoResult]
  /\ UNCHANGED <<pc, ret, todo, changed, now, saved, journal, summary,
                 fault, starts>>

ApplyCompleted(t) ==
  /\ Applying(t) /\ Accepted(t)
  /\ files' = Materialized(t)
  /\ state' = CompleteTask(state, t, results[t])
  /\ Release(t)

ApplyRetry(t) ==
  /\ Applying(t) /\ MayRetry(t)
  /\ state' = Transition(Transition(state, t, "validating"), t, "retry")
  /\ Release(t)
  /\ UNCHANGED files

ApplyEscalated(t) ==
  /\ Applying(t) /\ ~ Accepted(t) /\ ~ MayRetry(t)
  /\ state' = BlockAndEscalate(Transition(state, t, "validating"), t)
  /\ Release(t)
  /\ UNCHANGED files

\* The lease expired while its worker ran: release raises LeaseNotFoundError.
LeaseLost(t) ==
  /\ Applying(t) /\ ~ Held(t)
  /\ files' = Materialized(t)
  /\ Ends("lease")
  /\ UNCHANGED <<saved, journal, summary>>

\* Mutant of WaveDone: the events are written out before the checkpoint.
WaveDoneLogsFirst ==
  /\ pc = "execute" /\ Work = {}
  /\ state' = [state EXCEPT !.phase = "integrating"]
  /\ journal' = state.status
  /\ Checkpoint("top")
  /\ UNCHANGED <<todo, changed, agent, results, leases, now, saved, files,
                 summary, fault, starts>>

WaveDone ==
  /\ pc = "execute" /\ Work = {}
  /\ state' = [state EXCEPT !.phase = "integrating"]
  /\ Checkpoint("top")
  /\ UNCHANGED <<todo, changed, agent, results, leases, now, disk, fault, starts>>

-----------------------------------------------------------------------------
(***************************************************************************)
(* The environment: time passes, the process is killed.                    *)
(***************************************************************************)
Tick ==
  /\ now < MaxTime
  /\ now' = now + 1
  /\ UNCHANGED <<pc, memory, disk, fault, starts>>

Crash ==
  /\ pc # "off"
  /\ Ends("crash")
  /\ UNCHANGED disk

LeaseStep(t) ==
  NoFreeAgent(t) \/ OverBudget(t) \/ LeaseRefused(t) \/ LeaseGranted(t)

PropagateStep(t) == PropagateFailure(t) \/ LeaveOpen(t)

ApplyStep(t) ==
  ApplyCompleted(t) \/ ApplyRetry(t) \/ ApplyEscalated(t) \/ LeaseLost(t)

\* One step of the supervisor's own thread.
SupervisorStep ==
  \/ SaveState \/ SaveRaises \/ SaveJournal
  \/ Finish \/ WriteSummary \/ BeginIteration \/ SkipUnavailable
  \/ StartWave \/ NothingLeased \/ LoopAgain \/ Stall \/ WaveDone
  \/ \E t \in Tasks : LeaseStep(t) \/ PropagateStep(t) \/ ApplyStep(t)

Next ==
  \/ Start \/ Resume \/ Pause \/ Tick \/ Crash
  \/ SupervisorStep
  \/ \E t \in Tasks : WorkerReturns(t)

Spec == Init /\ [][Next]_vars

(***************************************************************************)
(* A running process takes its steps, and the executor's calls return.     *)
(***************************************************************************)
FairSpec ==
  /\ Spec
  /\ WF_vars(SupervisorStep)
  /\ \A t \in Tasks : WF_vars(WorkerReturns(t))

-----------------------------------------------------------------------------
(***************************************************************************)
(* Properties.                                                             *)
(***************************************************************************)

\* Every variable has its type.
TypeOK ==
  /\ pc \in {"off", "save", "log", "top", "again", "skip", "lease",
             "propagate", "execute", "end"}
  /\ ret \in {"top", "again", "execute", "end"}
  /\ state \in WorkflowState
  /\ todo \subseteq Tasks
  /\ changed \in BOOLEAN
  /\ agent \in [Tasks -> Agents \cup {NoAgent}]
  /\ results \in [Tasks -> WorkerResult \cup {NoResult}]
  /\ leases \subseteq [task: Tasks, agent: Agents, scopes: {CanonicalScopes(Scopes[t]) : t \in Tasks},
                       access: {"write"}, shared: {FALSE}, expires: Nat]
  /\ now \in Nat
  /\ saved \in WorkflowState
  /\ journal \in [Tasks -> TaskStatus]
  /\ files \in [Tasks -> Nat]
  /\ summary \in {"none", "paused", "completed", "failed"}
  /\ fault \in {"none", "crash", "budget", "stalled", "lease"}
  /\ starts \in Nat

(***************************************************************************)
(* Neither in memory nor in the checkpoint is a task past pending, unless  *)
(* it was escalated, before its required dependencies completed and its    *)
(* optional ones completed or were cancelled (graph.dependencies_completed *)
(* as guarded by _mark_ready, through every crash and resume).             *)
(***************************************************************************)
RespectsDependencies(s) ==
  \A t \in Tasks : s.status[t] \notin {"pending", "escalated"} =>
                      DependenciesCompleted(s, t)

DependencySafety == RespectsDependencies(state) /\ RespectsDependencies(saved)

(***************************************************************************)
(* Before a worker runs an attempt, the checkpoint on disk already says    *)
(* that this attempt of this task is running (the _checkpoint before       *)
(* _execute_wave): after a crash no attempt number is ever used twice and  *)
(* no task that the checkpoint calls settled is run again.                 *)
(***************************************************************************)
AttemptsRecordedFirst ==
  pc = "execute" =>
    \A t \in Work : /\ saved.status[t] = "running"
                    /\ saved.attempts[t] = state.attempts[t]
                    /\ state.status[t] = "running"

(***************************************************************************)
(* What the checkpoint settles stays settled: no later checkpoint, written *)
(* by this process or by one that resumed, changes a completed, cancelled  *)
(* or escalated task, or lowers an attempt or retry count.                 *)
(***************************************************************************)
CheckpointsOnlyAdvance ==
  [][\A t \in Tasks :
        /\ saved.status[t] \in Settled => saved'.status[t] = saved.status[t]
        /\ saved'.attempts[t] >= saved.attempts[t]
        /\ saved'.retries[t] >= saved.retries[t]]_vars

(***************************************************************************)
(* The artifact that the checkpoint registers for a completed task is the  *)
(* one in its file: files are written before the checkpoint that names     *)
(* them and no later attempt overwrites them (_materialize_artifacts).     *)
(***************************************************************************)
ArtifactsOnDisk(s) ==
  \A t \in Tasks : s.artifacts[t] # 0 =>
     /\ s.status[t] = "completed"
     /\ files[t] = s.artifacts[t]
     /\ {t} \X Dependents(t) \subseteq s.handoffs

RegisteredArtifactsOnDisk == ArtifactsOnDisk(saved)

(***************************************************************************)
(* The tasks of a wave have different agents, are at most MaxWorkers, and  *)
(* no two of them with unexpired leases may write overlapping scopes       *)
(* (registry.select, the run() loop bound and PathLeaseManager.acquire).   *)
(***************************************************************************)
WaveExclusive ==
  /\ Cardinality(Work) <= MaxWorkers
  /\ \A t, u \in Work : t # u =>
       /\ agent[t] # agent[u]
       /\ Held(t) /\ Held(u) =>
            ~ ScopesOverlap(CanonicalScopes(Scopes[t]), CanonicalScopes(Scopes[u]))

(***************************************************************************)
(* Automatic retries stay below max_attempts, and only an interruption     *)
(* adds an attempt beyond it: one for each process after the first         *)
(* (_result_failure, recover_to_ready).                                    *)
(***************************************************************************)
RetriesBounded ==
  \A t \in Tasks :
    /\ state.retries[t] < MaxAttempts[t]
    /\ state.attempts[t] + 1 <= MaxAttempts[t] + (IF starts = 0 THEN 1 ELSE starts)

(***************************************************************************)
(* No checkpoint ever records usage beyond a limit: admission, charging    *)
(* and the wall-clock check together keep the account within its limits.   *)
(***************************************************************************)
UsageWithinLimits == Fits(state.usage, Limits) /\ Fits(saved.usage, Limits)

(***************************************************************************)
(* A gate is open exactly when its task completed, in memory and on disk.  *)
(***************************************************************************)
GatesMatch ==
  \A s \in {state, saved} :
    s.gates = {t \in Gates : s.status[t] = "completed"}

(***************************************************************************)
(* The summary file tells the truth about the checkpoint next to it, in    *)
(* every order of crashes: "completed" only over a checkpoint in which the *)
(* final task, every mandatory task and every gate are done, "failed" only *)
(* over a terminal one that is not; a run that returns leaves a verdict.   *)
(***************************************************************************)
SummaryTruthful ==
  /\ "completed" \in {summary, saved.phase} => Succeeded(saved)
  /\ "failed" \in {summary, saved.phase} => IsTerminal(saved) /\ ~ Succeeded(saved)
  /\ pc = "off" /\ starts > 0 /\ fault = "none" => summary \in {"completed", "failed"}

(***************************************************************************)
(* The event file is never ahead of the checkpoint: what its last events   *)
(* call settled, the checkpoint calls settled in the same way.             *)
(***************************************************************************)
JournalNeverAhead ==
  \A t \in Tasks : journal[t] \in Settled => saved.status[t] = journal[t]

(***************************************************************************)
(* A process changes a task only along ALLOWED_TASK_TRANSITIONS, passing   *)
(* at most through the statuses it does not leave visible, so transition() *)
(* never raises InvalidTaskTransition.                                     *)
(***************************************************************************)
Passing == {"leased", "validating", "blocked"}

Reaches(t, from, to) ==
  \/ Allowed(t, from, to)
  \/ \E p \in Passing : Allowed(t, from, p) /\ Allowed(t, p, to)
  \/ \E p, q \in Passing : Allowed(t, from, p) /\ Allowed(t, p, q) /\ Allowed(t, q, to)

TransitionsAllowed ==
  [][pc # "off" /\ pc' # "off" =>
       \A t \in Tasks : state'.status[t] # state.status[t] =>
                          Reaches(t, state.status[t], state'.status[t])]_vars

(***************************************************************************)
(* Nothing a worker proposes reaches a file unless every comparison of     *)
(* validate_worker_result held and its usage was charged.                  *)
(***************************************************************************)
OnlyValidatedFiles ==
  [][\A t \in Tasks : files'[t] # files[t] =>
       /\ results[t].task_matches /\ results[t].succeeded
       /\ results[t].ids_match /\ results[t].paths_match /\ results[t].paths_safe
       /\ results[t].checks_passed
       /\ t \in Gates => results[t].evidence
       /\ CanStart(state.usage, ChargeFor(t, results[t]), Limits, now)]_vars

(***************************************************************************)
(* The checkpoint file implements DurableWorkflow: seen through its        *)
(* settled statuses, each new checkpoint is one step of the ledger.        *)
(***************************************************************************)
Ledger(s) ==
  [t \in Tasks |-> IF s.status[t] \in Settled THEN s.status[t] ELSE "open"]

Durable == INSTANCE DurableWorkflow WITH ledger <- Ledger(saved)

ImplementsDurableWorkflow == Durable!Spec

(***************************************************************************)
(* Every call of run() comes to an end: the wave loop cannot go round for  *)
(* ever, however often it iterates without work.                           *)
(***************************************************************************)
RunEnds == pc # "off" ~> pc = "off"

-----------------------------------------------------------------------------
(***************************************************************************)
(* The inductive invariant behind the theorems.  WaveInv says where a wave *)
(* can be and which tasks it holds; MemoryExtendsDisk says what the        *)
(* process knows beyond its last checkpoint: nothing the checkpoint        *)
(* settled has moved, and whatever became ready since then did so on       *)
(* dependencies that the checkpoint already shows done; ArtifactsInv says  *)
(* the same of memory as RegisteredArtifactsOnDisk of the checkpoint.      *)
(***************************************************************************)
AtRest == {"top", "again", "log", "end"}

InWave ==
  \/ pc \in {"lease", "execute"}
  \/ pc \in {"save", "log"} /\ ret = "execute"

Ending == pc = "end" \/ (pc \in {"save", "log"} /\ ret = "end")

PhaseInv == Ending => state.phase \in {"completed", "failed"}

StatusInv(s) ==
  \A t \in Tasks : /\ s.status[t] \notin Passing
                   /\ s.status[t] = "cancelled" => t \in Optional

WaveInv ==
  /\ Work # {} => InWave
  /\ \A t \in Tasks : state.status[t] = "running" <=> t \in Work
  /\ pc = "lease" => \A t \in todo : state.status[t] = "ready"
  /\ pc = "propagate" => \A t \in todo : state.status[t] \in Open
  /\ pc = "execute" => \A t \in Work : /\ saved.status[t] = "running"
                                       /\ saved.attempts[t] = state.attempts[t]

\* s is what a process may know that started from the checkpoint c.
Extends(s, c) ==
  \A t \in Tasks :
    /\ c.status[t] \in Settled => s.status[t] = c.status[t]
    /\ s.attempts[t] >= c.attempts[t]
    /\ s.retries[t] >= c.retries[t]
    /\ s.status[t] \notin {"pending", "escalated"} => DependenciesCompleted(c, t)
    /\ s.status[t] = "escalated" =>
         \/ c.status[t] = "escalated"
         \/ DependenciesCompleted(c, t)
         \/ \E d \in Deps[t] : s.status[d] \in {"cancelled", "escalated"}

MemoryExtendsDisk ==
  /\ pc \in AtRest => state = saved
  /\ pc # "off" => Extends(state, saved)

ArtifactsInv == ArtifactsOnDisk(state) /\ ArtifactsOnDisk(saved)

InductiveInv ==
  /\ TypeOK /\ PhaseInv /\ DependencySafety /\ StatusInv(state) /\ StatusInv(saved)
  /\ WaveInv /\ MemoryExtendsDisk /\ ArtifactsInv /\ GatesMatch

(***************************************************************************)
(* What the limits and the verdict rest on: every lease in memory belongs  *)
(* to a task of the wave; an attempt is a first one, a retry or follows an *)
(* interruption, of which every process but the first had one; a phase     *)
(* that is final describes the tasks next to it.                           *)
(***************************************************************************)
LeasesInv ==
  /\ Cardinality(Work) <= MaxWorkers
  /\ \A t, u \in Work : agent[t] = agent[u] => t = u
  /\ \A l \in leases : /\ l.task \in Work /\ agent[l.task] = l.agent
                       /\ l.scopes = CanonicalScopes(Scopes[l.task])
  /\ \A l, m \in Live(leases, now) : l.task # m.task => ~ ScopesOverlap(l.scopes, m.scopes)

Processes == IF starts = 0 THEN 1 ELSE starts

Counted(s, processes) ==
  \A t \in Tasks :
    /\ s.retries[t] < MaxAttempts[t]
    /\ s.retries[t] <= s.attempts[t]
    /\ s.status[t] = "running" => s.retries[t] < s.attempts[t]
    /\ s.attempts[t] + 1 <= s.retries[t] + processes + (IF s.status[t] \in Open THEN 0 ELSE 1)

CountersInv ==
  /\ starts = 0 => saved = NoCheckpoint /\ pc = "off"
  /\ Counted(state, Processes) /\ Counted(saved, Processes)

Verdict(s, phase) ==
  /\ phase = "completed" => IsTerminal(s) /\ Succeeded(s)
  /\ phase = "failed" => IsTerminal(s) /\ ~ Succeeded(s)

VerdictInv ==
  /\ Verdict(state, state.phase) /\ Verdict(saved, saved.phase) /\ Verdict(saved, summary)
  /\ pc = "off" /\ starts > 0 /\ fault = "none" => summary \in {"completed", "failed"}

LimitsInv == LeasesInv /\ CountersInv /\ VerdictInv /\ UsageWithinLimits

-----------------------------------------------------------------------------
(***************************************************************************)
(* Statements that the documents make and the code does not keep.          *)
(***************************************************************************)

\* "A third automatic attempt is never scheduled" (ADR-0005), for the
\* configured max_attempts in place of two.
NoAttemptBeyondMax == \A t \in Tasks : state.attempts[t] <= MaxAttempts[t]

\* Optional GPU training "must not block a valid offline MVP" (ADR-0006): the
\* supervisor does not give up while the only failures are optional tasks'.
OptionalFailureNotBlocking ==
  [][fault' = "stalled" /\ pc = "propagate" =>
       \E t \in Tasks \ Optional : state.status[t] \in Failed]_vars
=============================================================================
