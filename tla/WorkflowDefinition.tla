------------------------- MODULE WorkflowDefinition -------------------------
(***************************************************************************)
(* What a validated workflow definition and agent registry fix for a run   *)
(* (orchestration/workflow.py, contracts.py, registry.py), and the state   *)
(* that orchestration/state.py and graph.py keep and compute from it.      *)
(***************************************************************************)
EXTENDS LeaseRules, BudgetRules, ResultValidation

CONSTANTS
  Tasks,          \* task ids; their numeric order is the order of the id strings
  Rank,           \* position of each task in DependencyGraph's topological order
  Deps,           \* required dependencies of each task
  OptDeps,        \* optional dependencies of each task
  Optional,       \* the tasks declared optional
  MaxAttempts,    \* budget.max_attempts of each task
  NeedTokens,     \* budget.max_tokens of each task
  NeedGpu,        \* budget.required_gpu_hours of each task
  Gates,          \* the tasks that carry a gate
  FinalTask,      \* final_task_id
  Scopes,         \* authorized_files of each task
  Agents,         \* agent ids, in the order of the id strings
  Eligible,       \* per task: enabled agents with its role, type and paths
  MaxWorkers,     \* min(definition.max_workers, registry.max_workers)
  Limits,         \* the sprint's budget limits
  TTL             \* default_ttl_seconds of the lease manager

AllDeps(t) == Deps[t] \cup OptDeps[t]

Dependents(t) == {d \in Tasks : t \in AllDeps(d)}

ASSUME TasksAssumption ==
  /\ IsFiniteSet(Tasks)
  /\ Tasks \subseteq Nat
  /\ FinalTask \in Tasks
  /\ Optional \subseteq Tasks
  /\ Gates \subseteq Tasks

ASSUME GraphAssumption ==
  /\ Rank \in [Tasks -> Nat]
  /\ Deps \in [Tasks -> SUBSET Tasks]
  /\ OptDeps \in [Tasks -> SUBSET Tasks]
  /\ \A t, u \in Tasks : Rank[t] = Rank[u] => t = u
  /\ \A t \in Tasks : \A d \in AllDeps(t) : Rank[d] < Rank[t]
  /\ \A t \in Tasks : Deps[t] \cap OptDeps[t] = {}

ASSUME BudgetAssumption ==
  /\ MaxAttempts \in [Tasks -> 1 .. 3]
  /\ NeedTokens \in [Tasks -> Nat]
  /\ NeedGpu \in [Tasks -> Nat]
  /\ \A t \in Tasks : NeedGpu[t] > 0 => t \in Optional
  /\ Limits \in [Amounts \cup {"deadline"} -> Nat \cup {NoLimit}]
  /\ Limits["wall"] # NoLimit /\ Limits["training"] # NoLimit

ASSUME WorkersAssumption ==
  /\ Agents \subseteq Nat \ {0}
  /\ Eligible \in [Tasks -> SUBSET Agents]
  /\ MaxWorkers \in 1 .. 3
  /\ TTL \in Nat \ {0}

\* Repository scopes are normalized paths, never empty ones.
ASSUME ScopesAssumption ==
  \A t \in Tasks : \A s \in Scopes[t] : s \in Seq(Nat) \ {<< >>}

-----------------------------------------------------------------------------
(***************************************************************************)
(* Task lifecycle.  Statuses a task only passes through inside one         *)
(* supervisor call (leased, validating, blocked) are part of the table and *)
(* of Transition, and are never left visible between two actions.          *)
(***************************************************************************)
TaskStatus ==
  {"pending", "ready", "leased", "running", "validating", "completed",
   "retry", "blocked", "escalated", "cancelled"}

AllowedTransitions ==
  [pending    |-> {"ready", "blocked"},
   ready      |-> {"leased", "blocked"},
   leased     |-> {"running"},
   running    |-> {"validating"},
   validating |-> {"completed", "retry", "blocked"},
   retry      |-> {"ready", "blocked"},
   blocked    |-> {"escalated"},
   escalated  |-> {"ready", "cancelled"},
   completed  |-> {},
   cancelled  |-> {}]

Allowed(t, from, to) ==
  \/ to \in AllowedTransitions[from]
  \/ t \in Optional /\ to = "cancelled" /\ from \in {"pending", "ready"}

Open      == {"pending", "ready", "retry"}
Active    == {"leased", "running", "validating"}
Settled   == {"completed", "cancelled", "escalated"}
Failed    == {"blocked", "escalated", "cancelled"}

(***************************************************************************)
(* WorkflowState.  artifacts[t] is the attempt whose artifacts are         *)
(* registered for t (0: none); gates the tasks whose gate has passed;      *)
(* handoffs the registered <<producer, consumer>> pairs; usage the budget  *)
(* account's totals.  Fields that no step reads (events, blockers,         *)
(* decisions, active agents, timestamps) are left out.                     *)
(***************************************************************************)
Phases == {"none", "ready", "executing", "integrating", "completed", "failed"}

WorkflowState ==
  [status    : [Tasks -> TaskStatus],
   attempts  : [Tasks -> Nat],
   retries   : [Tasks -> Nat],
   artifacts : [Tasks -> Nat],
   gates     : SUBSET Tasks,
   handoffs  : SUBSET (Tasks \X Tasks),
   usage     : Usage,
   phase     : Phases]

FreshState ==
  [status    |-> [t \in Tasks |-> "pending"],
   attempts  |-> [t \in Tasks |-> 0],
   retries   |-> [t \in Tasks |-> 0],
   artifacts |-> [t \in Tasks |-> 0],
   gates     |-> {},
   handoffs  |-> {},
   usage     |-> NoUsage,
   phase     |-> "ready"]

\* No checkpoint file: the phase "none" is never saved.
NoCheckpoint == [FreshState EXCEPT !.phase = "none"]

Transition(s, t, target) ==
  LET moved == [s EXCEPT !.status[t] = target] IN
  CASE target = "running" -> [moved EXCEPT !.attempts[t] = @ + 1]
    [] target = "retry"   -> [moved EXCEPT !.retries[t] = @ + 1]
    [] OTHER              -> moved

BlockAndEscalate(s, t) == Transition(Transition(s, t, "blocked"), t, "escalated")

DependenciesCompleted(s, t) ==
  /\ \A d \in Deps[t] : s.status[d] = "completed"
  /\ \A d \in OptDeps[t] : s.status[d] \in {"completed", "cancelled"}

\* Mutant of MarkReady: optional dependencies are forgotten.
MarkReadyIgnoringOptional(s) ==
  [s EXCEPT !.status =
     [t \in Tasks |->
        IF /\ s.status[t] \in {"pending", "retry"}
           /\ \A d \in Deps[t] : s.status[d] = "completed"
        THEN "ready" ELSE s.status[t]]]

MarkReady(s) ==
  [s EXCEPT !.status =
     [t \in Tasks |->
        IF s.status[t] \in {"pending", "retry"} /\ DependenciesCompleted(s, t)
        THEN "ready" ELSE s.status[t]]]

RecoverInterrupted(s) ==
  [s EXCEPT !.status =
     [t \in Tasks |-> IF s.status[t] \in Active THEN "ready" ELSE s.status[t]]]

IsTerminal(s) == \A t \in Tasks : s.status[t] \in Settled

Succeeded(s) ==
  /\ s.status[FinalTask] = "completed"
  /\ \A t \in Tasks \ Optional : s.status[t] = "completed"
  /\ Gates \subseteq s.gates

-----------------------------------------------------------------------------
(***************************************************************************)
(* Budget and lease questions the supervisor asks about one task.          *)
(***************************************************************************)
BudgetRequest(t) ==
  [tokens |-> NeedTokens[t], gpu |-> NeedGpu[t], training |-> NeedGpu[t]]

ChargeFor(t, r) ==
  [tokens |-> r.tokens, gpu |-> r.gpu,
   training |-> IF NeedGpu[t] > 0 THEN r.gpu ELSE 0]

Skipped(s, now) ==
  {t \in Optional : /\ s.status[t] = "ready"
                    /\ NeedGpu[t] > 0
                    /\ ~ TrainingApproved(s.usage, NeedGpu[t], Limits, now)}

SkipOptional(s, now) ==
  [s EXCEPT !.status =
     [t \in Tasks |-> IF t \in Skipped(s, now) THEN "cancelled" ELSE s.status[t]]]

\* The lease that _lease_task asks for, and the manager's record of it.
LeaseOf(t, agent, now) ==
  [task |-> t, agent |-> agent, scopes |-> CanonicalScopes(Scopes[t]),
   access |-> "write", shared |-> FALSE, expires |-> now + TTL]

\* t is the next task of S in the graph's topological order.
IsNext(t, S) == t \in S /\ \A u \in S : Rank[t] <= Rank[u]
=============================================================================
