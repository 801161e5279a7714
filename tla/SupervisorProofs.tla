-------------------------- MODULE SupervisorProofs --------------------------
(***************************************************************************)
(* Theorems about the supervisor, for every workflow, every budget, every  *)
(* set of worker results, any number of processes and any clock.           *)
(***************************************************************************)
EXTENDS Supervisor, FiniteSetTheorems, TLAPS

-----------------------------------------------------------------------------
(***************************************************************************)
(* What the operations on a workflow state preserve and change.            *)
(***************************************************************************)

\* The account's observation of time keeps the usage well typed.
LEMMA ObservedType ==
  ASSUME NEW u \in Usage, NEW n \in Nat
  PROVE  /\ Observed(u, n) \in Usage
         /\ Observed(u, n)["wall"] >= u["wall"]
BY DEF Observed, Usage, Amounts

\* Charging a worker's reported usage keeps the account well typed.
LEMMA ChargeType ==
  ASSUME NEW u \in Usage, NEW n \in Nat, NEW t \in Tasks, NEW r \in WorkerResult
  PROVE  Project(u, ChargeFor(t, r), n) \in Usage
<1>1. r.tokens \in Nat /\ r.gpu \in Nat
  BY DEF WorkerResult
<1>2. ASSUME NEW a \in Amounts
      PROVE  Requested(ChargeFor(t, r), a) \in Nat
  <2>1. CASE a = "tokens"
    BY <1>1, <2>1 DEF Requested, ChargeFor
  <2>2. CASE a = "gpu"
    BY <1>1, <2>2 DEF Requested, ChargeFor
  <2>3. CASE a = "training"
    BY <1>1, <2>3 DEF Requested, ChargeFor
  <2>4. CASE a \notin {"tokens", "gpu", "training"}
    BY <2>4 DEF Requested, ChargeFor
  <2>. QED BY <2>1, <2>2, <2>3, <2>4
<1>3. Observed(u, n) \in Usage
  BY ObservedType
<1>. QED BY <1>2, <1>3 DEF Project, Usage

\* A transition moves one task and touches nothing but its counters.
LEMMA TransitionFacts ==
  ASSUME NEW s \in WorkflowState, NEW t \in Tasks, NEW x \in TaskStatus
  PROVE  LET n == Transition(s, t, x) IN
         /\ n \in WorkflowState
         /\ n.status = [s.status EXCEPT ![t] = x]
         /\ n.attempts = IF x = "running" THEN [s.attempts EXCEPT ![t] = @ + 1]
                                          ELSE s.attempts
         /\ n.retries = IF x = "retry" THEN [s.retries EXCEPT ![t] = @ + 1]
                                       ELSE s.retries
         /\ n.artifacts = s.artifacts
         /\ n.gates = s.gates
         /\ n.handoffs = s.handoffs
         /\ n.usage = s.usage
         /\ n.phase = s.phase
<1>. DEFINE m == [s EXCEPT !.status[t] = x]
            n == Transition(s, t, x)
<1>1. /\ m \in WorkflowState
      /\ m.status = [s.status EXCEPT ![t] = x]
      /\ m.attempts = s.attempts /\ m.retries = s.retries
      /\ m.artifacts = s.artifacts /\ m.gates = s.gates
      /\ m.handoffs = s.handoffs /\ m.usage = s.usage /\ m.phase = s.phase
  BY DEF WorkflowState
<1>2. CASE x = "running"
  <2>1. n = [m EXCEPT !.attempts[t] = @ + 1]
    BY <1>2 DEF Transition
  <2>. HIDE DEF m, n
  <2>2. n \in WorkflowState
    BY <1>1, <2>1 DEF WorkflowState
  <2>. QED BY <1>1, <1>2, <2>1, <2>2 DEF n, WorkflowState
<1>3. CASE x = "retry"
  <2>1. n = [m EXCEPT !.retries[t] = @ + 1]
    BY <1>3 DEF Transition
  <2>. HIDE DEF m, n
  <2>2. n \in WorkflowState
    BY <1>1, <2>1 DEF WorkflowState
  <2>. QED BY <1>1, <1>3, <2>1, <2>2 DEF n, WorkflowState
<1>4. CASE x \notin {"running", "retry"}
  <2>1. n = m
    BY <1>4 DEF Transition
  <2>. QED BY <1>1, <1>4, <2>1
<1>. QED BY <1>2, <1>3, <1>4

\* Escalation through blocked changes the status of one task only.
LEMMA EscalateFacts ==
  ASSUME NEW s \in WorkflowState, NEW t \in Tasks
  PROVE  LET n == BlockAndEscalate(s, t) IN
         /\ n \in WorkflowState
         /\ n.status = [s.status EXCEPT ![t] = "escalated"]
         /\ n.attempts = s.attempts
         /\ n.retries = s.retries
         /\ n.artifacts = s.artifacts
         /\ n.gates = s.gates
         /\ n.handoffs = s.handoffs
         /\ n.usage = s.usage
         /\ n.phase = s.phase
<1>. DEFINE m == Transition(s, t, "blocked")
            n == Transition(m, t, "escalated")
<1>1. /\ m \in WorkflowState
      /\ m.status = [s.status EXCEPT ![t] = "blocked"]
      /\ m.attempts = s.attempts /\ m.retries = s.retries
      /\ m.artifacts = s.artifacts /\ m.gates = s.gates
      /\ m.handoffs = s.handoffs /\ m.usage = s.usage /\ m.phase = s.phase
  BY TransitionFacts DEF TaskStatus
<1>. HIDE DEF m
<1>2. /\ n \in WorkflowState
      /\ n.status = [m.status EXCEPT ![t] = "escalated"]
      /\ n.attempts = m.attempts /\ n.retries = m.retries
      /\ n.artifacts = m.artifacts /\ n.gates = m.gates
      /\ n.handoffs = m.handoffs /\ n.usage = m.usage /\ n.phase = m.phase
  BY <1>1, TransitionFacts, ZenonT(60) DEF TaskStatus
<1>. HIDE DEF n
<1>3. n.status = [s.status EXCEPT ![t] = "escalated"]
  BY <1>1, <1>2 DEF WorkflowState
<1>. QED BY <1>1, <1>2, <1>3 DEF BlockAndEscalate, n, m

\* A granted task ends the call running, with one more attempt.
LEMMA LaunchFacts ==
  ASSUME NEW s \in WorkflowState, NEW t \in Tasks
  PROVE  LET n == Transition(Transition(s, t, "leased"), t, "running") IN
         /\ n \in WorkflowState
         /\ n.status = [s.status EXCEPT ![t] = "running"]
         /\ n.attempts = [s.attempts EXCEPT ![t] = @ + 1]
         /\ n.retries = s.retries
         /\ n.artifacts = s.artifacts
         /\ n.gates = s.gates
         /\ n.handoffs = s.handoffs
         /\ n.usage = s.usage
         /\ n.phase = s.phase
<1>. DEFINE m == Transition(s, t, "leased")
            n == Transition(m, t, "running")
<1>1. /\ m \in WorkflowState
      /\ m.status = [s.status EXCEPT ![t] = "leased"]
      /\ m.attempts = s.attempts /\ m.retries = s.retries
      /\ m.artifacts = s.artifacts /\ m.gates = s.gates
      /\ m.handoffs = s.handoffs /\ m.usage = s.usage
      /\ m.phase = s.phase
  BY TransitionFacts DEF TaskStatus
<1>. HIDE DEF m
<1>2. /\ n \in WorkflowState
      /\ n.status = [m.status EXCEPT ![t] = "running"]
      /\ n.attempts = [m.attempts EXCEPT ![t] = @ + 1] /\ n.retries = m.retries
      /\ n.artifacts = m.artifacts /\ n.gates = m.gates
      /\ n.handoffs = m.handoffs /\ n.usage = m.usage
      /\ n.phase = m.phase
  BY <1>1, TransitionFacts, ZenonT(60) DEF TaskStatus
<1>. HIDE DEF n
<1>3. n.status = [s.status EXCEPT ![t] = "running"]
  BY <1>1, <1>2 DEF WorkflowState
<1>. QED BY <1>1, <1>2, <1>3 DEF n, m

\* A retried task passes through validating and has one more retry.
LEMMA RetryFacts ==
  ASSUME NEW s \in WorkflowState, NEW t \in Tasks
  PROVE  LET n == Transition(Transition(s, t, "validating"), t, "retry") IN
         /\ n \in WorkflowState
         /\ n.status = [s.status EXCEPT ![t] = "retry"]
         /\ n.attempts = s.attempts
         /\ n.retries = [s.retries EXCEPT ![t] = @ + 1]
         /\ n.artifacts = s.artifacts
         /\ n.gates = s.gates
         /\ n.handoffs = s.handoffs
         /\ n.usage = s.usage
         /\ n.phase = s.phase
<1>. DEFINE m == Transition(s, t, "validating")
            n == Transition(m, t, "retry")
<1>1. /\ m \in WorkflowState
      /\ m.status = [s.status EXCEPT ![t] = "validating"]
      /\ m.attempts = s.attempts /\ m.retries = s.retries
      /\ m.artifacts = s.artifacts /\ m.gates = s.gates
      /\ m.handoffs = s.handoffs /\ m.usage = s.usage
      /\ m.phase = s.phase
  BY TransitionFacts DEF TaskStatus
<1>. HIDE DEF m
<1>2. /\ n \in WorkflowState
      /\ n.status = [m.status EXCEPT ![t] = "retry"]
      /\ n.attempts = m.attempts /\ n.retries = [m.retries EXCEPT ![t] = @ + 1]
      /\ n.artifacts = m.artifacts /\ n.gates = m.gates
      /\ n.handoffs = m.handoffs /\ n.usage = m.usage
      /\ n.phase = m.phase
  BY <1>1, TransitionFacts, ZenonT(60) DEF TaskStatus
<1>. HIDE DEF n
<1>3. n.status = [s.status EXCEPT ![t] = "retry"]
  BY <1>1, <1>2 DEF WorkflowState
<1>. QED BY <1>1, <1>2, <1>3 DEF n, m

\* A rejected task passes through validating and blocked.
LEMMA RejectFacts ==
  ASSUME NEW s \in WorkflowState, NEW t \in Tasks
  PROVE  LET n == BlockAndEscalate(Transition(s, t, "validating"), t) IN
         /\ n \in WorkflowState
         /\ n.status = [s.status EXCEPT ![t] = "escalated"]
         /\ n.attempts = s.attempts
         /\ n.retries = s.retries
         /\ n.artifacts = s.artifacts
         /\ n.gates = s.gates
         /\ n.handoffs = s.handoffs
         /\ n.usage = s.usage
         /\ n.phase = s.phase
<1>. DEFINE m == Transition(s, t, "validating")
            n == BlockAndEscalate(m, t)
<1>1. /\ m \in WorkflowState
      /\ m.status = [s.status EXCEPT ![t] = "validating"]
      /\ m.attempts = s.attempts /\ m.retries = s.retries
      /\ m.artifacts = s.artifacts /\ m.gates = s.gates
      /\ m.handoffs = s.handoffs /\ m.usage = s.usage
      /\ m.phase = s.phase
  BY TransitionFacts DEF TaskStatus
<1>. HIDE DEF m
<1>2. /\ n \in WorkflowState
      /\ n.status = [m.status EXCEPT ![t] = "escalated"]
      /\ n.attempts = m.attempts /\ n.retries = m.retries
      /\ n.artifacts = m.artifacts /\ n.gates = m.gates
      /\ n.handoffs = m.handoffs /\ n.usage = m.usage
      /\ n.phase = m.phase
  BY <1>1, EscalateFacts, ZenonT(60)
<1>. HIDE DEF n
<1>3. n.status = [s.status EXCEPT ![t] = "escalated"]
  BY <1>1, <1>2 DEF WorkflowState
<1>. QED BY <1>1, <1>2, <1>3 DEF n, m

\* An accepted task completes, is charged, opens its gate and, if it
\* produced artifacts, registers them and their handoffs.
LEMMA CompleteFacts ==
  ASSUME now \in Nat, NEW s \in WorkflowState, NEW t \in Tasks,
         NEW r \in WorkerResult
  PROVE  LET n == CompleteTask(s, t, r) IN
         /\ n \in WorkflowState
         /\ n.status = [s.status EXCEPT ![t] = "completed"]
         /\ n.attempts = s.attempts
         /\ n.retries = s.retries
         /\ n.artifacts = IF r.artifacts
                          THEN [s.artifacts EXCEPT ![t] = s.attempts[t]]
                          ELSE s.artifacts
         /\ n.gates = IF t \in Gates THEN s.gates \cup {t} ELSE s.gates
         /\ n.handoffs = IF r.artifacts
                         THEN s.handoffs \cup ({t} \X Dependents(t))
                         ELSE s.handoffs
         /\ n.usage = Project(s.usage, ChargeFor(t, r), now)
         /\ n.phase = s.phase
<1>. DEFINE m == Transition(s, t, "validating")
            done == Transition(m, t, "completed")
            charged == [done EXCEPT !.usage = Project(@, ChargeFor(t, r), now)]
            opened == IF t \in Gates THEN [charged EXCEPT !.gates = @ \cup {t}]
                                     ELSE charged
            stored == [opened EXCEPT !.artifacts[t] = s.attempts[t]]
            n == IF r.artifacts
                 THEN [stored EXCEPT !.handoffs = @ \cup ({t} \X Dependents(t))]
                 ELSE opened
<1>0. n = CompleteTask(s, t, r)
  BY DEF CompleteTask
<1>1. /\ m \in WorkflowState
      /\ m.status = [s.status EXCEPT ![t] = "validating"]
      /\ m.attempts = s.attempts /\ m.retries = s.retries
      /\ m.artifacts = s.artifacts /\ m.gates = s.gates
      /\ m.handoffs = s.handoffs
      /\ m.usage = s.usage /\ m.phase = s.phase
  BY TransitionFacts DEF TaskStatus
<1>. HIDE DEF m
<1>2. /\ done \in WorkflowState
      /\ done.status = [m.status EXCEPT ![t] = "completed"]
      /\ done.attempts = m.attempts /\ done.retries = m.retries
      /\ done.artifacts = m.artifacts /\ done.gates = m.gates
      /\ done.handoffs = m.handoffs
      /\ done.usage = m.usage /\ done.phase = m.phase
  BY <1>1, TransitionFacts, ZenonT(60) DEF TaskStatus
<1>. HIDE DEF done
<1>3. done.status = [s.status EXCEPT ![t] = "completed"]
  BY <1>1, <1>2 DEF WorkflowState
<1>4. Project(done.usage, ChargeFor(t, r), now) \in Usage
  BY <1>2, ChargeType DEF WorkflowState
<1>5. /\ charged \in WorkflowState
      /\ charged.status = done.status
      /\ charged.attempts = done.attempts /\ charged.retries = done.retries
      /\ charged.artifacts = done.artifacts /\ charged.gates = done.gates
      /\ charged.handoffs = done.handoffs
      /\ charged.usage = Project(done.usage, ChargeFor(t, r), now)
      /\ charged.phase = done.phase
  BY <1>2, <1>4 DEF WorkflowState
<1>. HIDE DEF charged
<1>6. /\ opened \in WorkflowState
      /\ opened.status = charged.status
      /\ opened.attempts = charged.attempts /\ opened.retries = charged.retries
      /\ opened.artifacts = charged.artifacts
      /\ opened.gates = IF t \in Gates THEN charged.gates \cup {t} ELSE charged.gates
      /\ opened.handoffs = charged.handoffs
      /\ opened.usage = charged.usage /\ opened.phase = charged.phase
  <2>1. CASE t \in Gates
    BY <1>5, <2>1, TasksAssumption DEF WorkflowState
  <2>2. CASE t \notin Gates
    BY <1>5, <2>2
  <2>. QED BY <2>1, <2>2
<1>. HIDE DEF opened
<1>7. /\ stored \in WorkflowState
      /\ stored.status = opened.status
      /\ stored.attempts = opened.attempts /\ stored.retries = opened.retries
      /\ stored.artifacts = [opened.artifacts EXCEPT ![t] = s.attempts[t]]
      /\ stored.gates = opened.gates
      /\ stored.handoffs = opened.handoffs
      /\ stored.usage = opened.usage /\ stored.phase = opened.phase
  BY <1>6 DEF WorkflowState
<1>. HIDE DEF stored
<1>8. {t} \X Dependents(t) \subseteq Tasks \X Tasks
  BY DEF Dependents
<1>9. CASE r.artifacts
  <2>1. n = [stored EXCEPT !.handoffs = @ \cup ({t} \X Dependents(t))]
    BY <1>9
  <2>2. stored.handoffs \cup ({t} \X Dependents(t)) \in SUBSET (Tasks \X Tasks)
    BY <1>7, <1>8 DEF WorkflowState
  <2>. HIDE DEF n
  <2>3. n \in WorkflowState
    BY <1>7, <2>1, <2>2 DEF WorkflowState
  <2>. QED BY <1>0, <1>1, <1>2, <1>3, <1>5, <1>6, <1>7, <1>9, <2>1, <2>3 DEF WorkflowState
<1>10. CASE ~ r.artifacts
  BY <1>0, <1>1, <1>2, <1>3, <1>5, <1>6, <1>10
<1>. QED BY <1>9, <1>10

\* The three passes over all tasks change statuses only.
LEMMA PassFacts ==
  ASSUME NEW s \in WorkflowState,
         NEW n \in {MarkReady(s), SkipOptional(s, now), RecoverInterrupted(s)}
  PROVE  /\ n \in WorkflowState
         /\ n.attempts = s.attempts
         /\ n.retries = s.retries
         /\ n.artifacts = s.artifacts
         /\ n.gates = s.gates
         /\ n.handoffs = s.handoffs
         /\ n.usage = s.usage
         /\ n.phase = s.phase
<1>1. CASE n = MarkReady(s)
  BY <1>1 DEF MarkReady, WorkflowState, TaskStatus
<1>2. CASE n = SkipOptional(s, now)
  BY <1>2 DEF SkipOptional, WorkflowState, TaskStatus
<1>3. CASE n = RecoverInterrupted(s)
  BY <1>3 DEF RecoverInterrupted, WorkflowState, TaskStatus
<1>. QED BY <1>1, <1>2, <1>3

-----------------------------------------------------------------------------
(***************************************************************************)
(* Every step of a running process that changes the state in memory is     *)
(* a Move: a task that moves was not settled, does not become pending, and *)
(* leaves pending only when the checkpoint c shows its dependencies done,  *)
(* or to be escalated after one that it requires.                          *)
(***************************************************************************)
MayMove(s, n, c, t) ==
  /\ s.status[t] \notin Settled
  /\ n.status[t] \notin Passing \cup {"pending"}
  /\ n.status[t] = "cancelled" => t \in Optional
  /\ \/ s.status[t] # "pending"
     \/ DependenciesCompleted(c, t)
     \/ /\ n.status[t] = "escalated"
        /\ \E d \in Deps[t] : s.status[d] \in {"cancelled", "escalated"}

Move(s, n, c) ==
  /\ s \in WorkflowState /\ n \in WorkflowState
  /\ \A t \in Tasks :
       /\ n.attempts[t] >= s.attempts[t]
       /\ n.retries[t] >= s.retries[t]
       /\ n.status[t] = s.status[t] \/ MayMove(s, n, c, t)

\* What a checkpoint shows done stays done in any state that extends it.
LEMMA DoneStaysDone ==
  ASSUME NEW s \in WorkflowState, NEW c \in WorkflowState, NEW t \in Tasks,
         \A d \in Tasks : c.status[d] \in Settled => s.status[d] = c.status[d],
         DependenciesCompleted(c, t)
  PROVE  DependenciesCompleted(s, t)
<1>1. Deps[t] \subseteq Tasks /\ OptDeps[t] \subseteq Tasks
  BY GraphAssumption
<1>2. \A d \in Deps[t] : s.status[d] = "completed"
  BY <1>1 DEF DependenciesCompleted, Settled
<1>3. \A d \in OptDeps[t] : s.status[d] \in {"completed", "cancelled"}
  BY <1>1 DEF DependenciesCompleted, Settled
<1>. QED BY <1>2, <1>3 DEF DependenciesCompleted

\* A move keeps what memory owes to the checkpoint.
LEMMA MoveKeepsExtends ==
  ASSUME NEW s, NEW n, NEW c \in WorkflowState, Move(s, n, c), Extends(s, c)
  PROVE  Extends(n, c)
<1>. SUFFICES ASSUME NEW t \in Tasks
              PROVE  /\ c.status[t] \in Settled => n.status[t] = c.status[t]
                     /\ n.attempts[t] >= c.attempts[t]
                     /\ n.retries[t] >= c.retries[t]
                     /\ n.status[t] \notin {"pending", "escalated"} =>
                          DependenciesCompleted(c, t)
                     /\ n.status[t] = "escalated" =>
                          \/ c.status[t] = "escalated"
                          \/ DependenciesCompleted(c, t)
                          \/ \E d \in Deps[t] : n.status[d] \in {"cancelled", "escalated"}
  BY DEF Extends
<1>1. n.status[t] = s.status[t] \/ MayMove(s, n, c, t)
  BY DEF Move
<1>2. c.status[t] \in Settled => n.status[t] = c.status[t]
  BY <1>1 DEF MayMove, Extends
<1>3. n.attempts[t] >= c.attempts[t] /\ n.retries[t] >= c.retries[t]
  <2>1. /\ n.attempts[t] \in Nat /\ s.attempts[t] \in Nat /\ c.attempts[t] \in Nat
        /\ n.retries[t] \in Nat /\ s.retries[t] \in Nat /\ c.retries[t] \in Nat
    BY DEF Move, WorkflowState
  <2>. QED BY <2>1 DEF Move, Extends
<1>4. (\E d \in Deps[t] : s.status[d] \in {"cancelled", "escalated"}) =>
         \E d \in Deps[t] : n.status[d] \in {"cancelled", "escalated"}
  <2>. SUFFICES ASSUME NEW d \in Deps[t], s.status[d] \in {"cancelled", "escalated"}
                PROVE  n.status[d] = s.status[d]
    OBVIOUS
  <2>1. d \in Tasks
    BY GraphAssumption
  <2>. QED BY <2>1 DEF Move, MayMove, Settled
<1>5. n.status[t] \notin {"pending", "escalated"} => DependenciesCompleted(c, t)
  <2>1. s.status[t] \notin {"pending", "escalated"} => DependenciesCompleted(c, t)
    BY DEF Extends
  <2>. QED BY <1>1, <2>1 DEF MayMove, Settled
<1>6. ASSUME n.status[t] = "escalated"
      PROVE  \/ c.status[t] = "escalated"
             \/ DependenciesCompleted(c, t)
             \/ \E d \in Deps[t] : s.status[d] \in {"cancelled", "escalated"}
  BY <1>1, <1>6 DEF MayMove, Settled, Extends
<1>. QED BY <1>2, <1>3, <1>4, <1>5, <1>6

\* A move keeps the order of the graph.
LEMMA MoveKeepsDependencies ==
  ASSUME NEW s, NEW n, NEW c \in WorkflowState, Move(s, n, c), Extends(s, c)
  PROVE  RespectsDependencies(n)
<1>1. Extends(n, c)
  BY MoveKeepsExtends
<1>2. n \in WorkflowState
  BY DEF Move
<1>3. \A d \in Tasks : c.status[d] \in Settled => n.status[d] = c.status[d]
  BY <1>1 DEF Extends
<1>4. ASSUME NEW t \in Tasks, n.status[t] \notin {"pending", "escalated"}
      PROVE  DependenciesCompleted(n, t)
  <2>1. DependenciesCompleted(c, t)
    BY <1>1, <1>4 DEF Extends
  <2>. QED BY <1>2, <1>3, <2>1, DoneStaysDone
<1>. QED BY <1>4 DEF RespectsDependencies

\* A move keeps each status visible and each cancellation optional.
LEMMA MoveKeepsStatusInv ==
  ASSUME NEW s, NEW n, NEW c, Move(s, n, c), StatusInv(s)
  PROVE  StatusInv(n)
BY DEF Move, MayMove, StatusInv

-----------------------------------------------------------------------------
(***************************************************************************)
(* Type correctness.                                                       *)
(***************************************************************************)
LEMMA FreshType == FreshState \in WorkflowState /\ NoCheckpoint \in WorkflowState
<1>1. FreshState \in WorkflowState
  BY DEF FreshState, WorkflowState, TaskStatus, NoUsage, Usage, Phases
<1>. QED BY <1>1 DEF NoCheckpoint, WorkflowState, Phases

\* The first state is well formed.
LEMMA InitType == Init => TypeOK /\ PhaseInv
<1>. SUFFICES ASSUME Init
              PROVE  TypeOK /\ PhaseInv
  OBVIOUS
<1>1. FreshState.status \in [Tasks -> TaskStatus]
  BY FreshType DEF WorkflowState
<1>2. TypeOK
  BY <1>1, FreshType DEF Init, TypeOK, NoWork
<1>. QED BY <1>2 DEF Init, PhaseInv, Ending

\* A process that ends leaves well-typed variables if its disk is.
LEMMA EndsType ==
  ASSUME TypeOK, NEW why \in {"none", "crash", "budget", "stalled", "lease"},
         Ends(why),
         saved' = saved, journal' = journal, files' \in [Tasks -> Nat],
         summary' \in {"none", "paused", "completed", "failed"}
  PROVE  TypeOK'
BY FreshType DEF TypeOK, Ends, NoWork

\* The leases after a call are among those before and the one just granted.
LEMMA LeaseType ==
  ASSUME TypeOK, NEW t \in Tasks, NEW a \in Agents
  PROVE  LeaseOf(t, a, now) \in
           [task: Tasks, agent: Agents, scopes: {CanonicalScopes(Scopes[u]) : u \in Tasks},
            access: {"write"}, shared: {FALSE}, expires: Nat]
BY WorkersAssumption DEF LeaseOf, TypeOK

\* The files after a result is handled are well typed.
LEMMA MaterializedType ==
  ASSUME TypeOK, NEW t \in Tasks
  PROVE  Materialized(t) \in [Tasks -> Nat]
BY DEF TypeOK, Materialized, WorkflowState

\* The result of a worker that has returned is a worker's result.
LEMMA ResultType ==
  ASSUME TypeOK, NEW t \in Tasks, Applying(t)
  PROVE  results[t] \in WorkerResult
BY DEF TypeOK, Applying

\* The two results that the supervisor makes up are worker results.
LEMMA MadeUpResults == WorkerRaised \in WorkerResult /\ RuntimeExceeded \in WorkerResult
BY DEF WorkerRaised, RuntimeExceeded, FailureResult, WorkerResult, WellFormed,
       FailureCategories

\* Every step keeps states well formed.
LEMMA TypeStep == TypeOK /\ PhaseInv /\ [Next]_vars => TypeOK'
<1>. SUFFICES ASSUME TypeOK, PhaseInv, [Next]_vars
              PROVE  TypeOK'
  OBVIOUS
<1>. USE DEF memory, disk
<1>1. CASE Start
  <2>1. starts' \in Nat
    BY <1>1 DEF Start, TypeOK
  <2>. QED BY <1>1, <2>1, FreshType DEF Start, Checkpoint, TypeOK
<1>2. CASE Resume
  <2>1. RecoverInterrupted(saved) \in WorkflowState
    BY PassFacts DEF TypeOK
  <2>2. now' \in Nat
    BY <1>2 DEF Resume, TypeOK, WorkflowState, Usage, Amounts
  <2>3. starts' \in Nat
    BY <1>2 DEF Resume, TypeOK
  <2>. QED BY <1>2, <2>1, <2>2, <2>3 DEF Resume, Checkpoint, TypeOK
<1>3. CASE SaveState
  <2>1. state' \in WorkflowState
    BY <1>3, ObservedType DEF SaveState, TypeOK, WorkflowState
  <2>. QED BY <1>3, <2>1 DEF SaveState, TypeOK
<1>4. CASE SaveRaises
  BY <1>4, EndsType DEF SaveRaises, TypeOK
<1>5. CASE SaveJournal
  BY <1>5 DEF SaveJournal, TypeOK, WorkflowState
<1>6. CASE Pause
  BY <1>6 DEF Pause, TypeOK
<1>7. CASE Finish
  <2>1. state' \in WorkflowState
    BY <1>7 DEF Finish, TypeOK, WorkflowState, Phases
  <2>. QED BY <1>7, <2>1 DEF Finish, Checkpoint, TypeOK
<1>8. CASE WriteSummary
  <2>1. summary' \in {"none", "paused", "completed", "failed"}
    BY <1>8 DEF WriteSummary, PhaseInv, Ending
  <2>. QED BY <1>8, <2>1, EndsType DEF WriteSummary, TypeOK
<1>9. CASE BeginIteration
  <2>1. state' \in WorkflowState
    BY <1>9, PassFacts DEF BeginIteration, TypeOK
  <2>. QED BY <1>9, <2>1 DEF BeginIteration, TypeOK
<1>10. CASE SkipUnavailable
  <2>1. state' \in WorkflowState
    BY <1>10, PassFacts DEF SkipUnavailable, TypeOK
  <2>. QED BY <1>10, <2>1 DEF SkipUnavailable, TypeOK
<1>11. ASSUME NEW t \in Tasks, LeaseStep(t)
       PROVE  TypeOK'
  <2>1. CASE NoFreeAgent(t)
    BY <2>1 DEF NoFreeAgent, Leasing, TypeOK
  <2>2. CASE OverBudget(t)
    BY <2>2, EscalateFacts DEF OverBudget, Leasing, TypeOK
  <2>3. CASE LeaseRefused(t)
    BY <2>3 DEF LeaseRefused, Leasing, TypeOK, Live
  <2>4. CASE LeaseGranted(t)
    <3>1. PICK a \in Agents :
             /\ leases' = Live(leases, now) \cup {LeaseOf(t, a, now)}
             /\ agent' = [agent EXCEPT ![t] = a]
      BY <2>4 DEF LeaseGranted
    <3>2. state' \in WorkflowState
      BY <2>4, LaunchFacts DEF LeaseGranted, TypeOK
    <3>3. /\ leases' \subseteq [task: Tasks, agent: Agents, scopes: {CanonicalScopes(Scopes[u]) : u \in Tasks},
                               access: {"write"}, shared: {FALSE}, expires: Nat]
          /\ agent' \in [Tasks -> Agents \cup {NoAgent}]
      BY <3>1, LeaseType DEF Live, TypeOK
    <3>. QED BY <2>4, <3>2, <3>3 DEF LeaseGranted, Leasing, TypeOK
  <2>. QED BY <1>11, <2>1, <2>2, <2>3, <2>4 DEF LeaseStep
<1>12. CASE StartWave
  <2>1. state' \in WorkflowState
    BY <1>12 DEF StartWave, TypeOK, WorkflowState, Phases
  <2>. QED BY <1>12, <2>1 DEF StartWave, Checkpoint, TypeOK
<1>13. CASE NothingLeased
  BY <1>13 DEF NothingLeased, TypeOK
<1>14. ASSUME NEW t \in Tasks, PropagateStep(t)
       PROVE  TypeOK'
  <2>1. CASE PropagateFailure(t)
    BY <2>1, EscalateFacts DEF PropagateFailure, TypeOK
  <2>2. CASE LeaveOpen(t)
    BY <2>2 DEF LeaveOpen, TypeOK
  <2>. QED BY <1>14, <2>1, <2>2 DEF PropagateStep
<1>15. CASE LoopAgain
  BY <1>15 DEF LoopAgain, Checkpoint, TypeOK
<1>16. CASE Stall
  BY <1>16, EndsType DEF Stall, TypeOK
<1>17. ASSUME NEW t \in Tasks, WorkerReturns(t)
       PROVE  TypeOK'
  <2>1. PICK r \in WorkerResults[t] \cup {WorkerRaised, RuntimeExceeded} :
           results' = [results EXCEPT ![t] = r]
    BY <1>17 DEF WorkerReturns
  <2>2. r \in WorkerResult
    BY MadeUpResults, SupervisorAssumption
  <2>. QED BY <1>17, <2>1, <2>2 DEF WorkerReturns, TypeOK
<1>18. ASSUME NEW t \in Tasks, ApplyStep(t)
       PROVE  TypeOK'
  <2>1. CASE ApplyCompleted(t)
    <3>1. state' \in WorkflowState
      BY <2>1, CompleteFacts, ResultType DEF ApplyCompleted, TypeOK
    <3>2. files' \in [Tasks -> Nat]
      BY <2>1, MaterializedType DEF ApplyCompleted
    <3>. QED BY <2>1, <3>1, <3>2, ZenonT(60) DEF ApplyCompleted, Release, Live, TypeOK
  <2>2. CASE ApplyRetry(t)
    <3>1. state' \in WorkflowState
      BY <2>2, RetryFacts DEF ApplyRetry, TypeOK
    <3>. QED BY <2>2, <3>1, ZenonT(60) DEF ApplyRetry, Release, Live, TypeOK
  <2>3. CASE ApplyEscalated(t)
    <3>1. state' \in WorkflowState
      BY <2>3, RejectFacts DEF ApplyEscalated, TypeOK
    <3>. QED BY <2>3, <3>1, ZenonT(60) DEF ApplyEscalated, Release, Live, TypeOK
  <2>4. CASE LeaseLost(t)
    BY <2>4, EndsType, MaterializedType DEF LeaseLost, TypeOK
  <2>. QED BY <1>18, <2>1, <2>2, <2>3, <2>4 DEF ApplyStep
<1>19. CASE WaveDone
  <2>1. state' \in WorkflowState
    BY <1>19 DEF WaveDone, TypeOK, WorkflowState, Phases
  <2>. QED BY <1>19, <2>1 DEF WaveDone, Checkpoint, TypeOK
<1>20. CASE Tick
  <2>1. now' \in Nat
    BY <1>20 DEF Tick, TypeOK
  <2>. QED BY <1>20, <2>1, ZenonT(60) DEF Tick, TypeOK
<1>21. CASE Crash
  BY <1>21, EndsType DEF Crash, TypeOK
<1>22. CASE UNCHANGED vars
  BY <1>22, ZenonT(60) DEF vars, TypeOK
<1>. QED
  BY <1>1, <1>2, <1>3, <1>4, <1>5, <1>6, <1>7, <1>8, <1>9, <1>10, <1>11,
     <1>12, <1>13, <1>14, <1>15, <1>16, <1>17, <1>18, <1>19, <1>20, <1>21,
     <1>22 DEF Next, SupervisorStep

\* The verdict is set before the last checkpoint and stands until the summary.
LEMMA PhaseStep == TypeOK /\ PhaseInv /\ [Next]_vars => PhaseInv'
<1>. SUFFICES ASSUME TypeOK, PhaseInv, [Next]_vars
              PROVE  PhaseInv'
  OBVIOUS
<1>. USE DEF memory, disk, PhaseInv, Ending
<1>1. CASE Start \/ Resume
  BY <1>1 DEF Start, Resume, Checkpoint
<1>2. CASE SaveState
  BY <1>2 DEF SaveState, TypeOK, WorkflowState
<1>3. CASE SaveJournal
  BY <1>3 DEF SaveJournal
<1>4. CASE SaveRaises \/ WriteSummary \/ Stall \/ Crash
  BY <1>4 DEF SaveRaises, WriteSummary, Stall, Crash, Ends
<1>5. CASE Pause \/ Tick \/ UNCHANGED vars
  BY <1>5 DEF Pause, Tick, vars
<1>6. CASE Finish
  BY <1>6 DEF Finish, TypeOK, WorkflowState
<1>7. CASE BeginIteration \/ SkipUnavailable \/ NothingLeased
  BY <1>7 DEF BeginIteration, SkipUnavailable, NothingLeased
<1>8. CASE StartWave \/ LoopAgain \/ WaveDone
  BY <1>8 DEF StartWave, LoopAgain, WaveDone, Checkpoint
<1>9. ASSUME NEW t \in Tasks, LeaseStep(t)
      PROVE  PhaseInv'
  BY <1>9 DEF LeaseStep, NoFreeAgent, OverBudget, LeaseRefused, LeaseGranted, Leasing
<1>10. ASSUME NEW t \in Tasks, PropagateStep(t)
      PROVE  PhaseInv'
  BY <1>10 DEF PropagateStep, PropagateFailure, LeaveOpen
<1>11. ASSUME NEW t \in Tasks, WorkerReturns(t)
      PROVE  PhaseInv'
  BY <1>11 DEF WorkerReturns
<1>12. ASSUME NEW t \in Tasks, ApplyStep(t)
      PROVE  PhaseInv'
  BY <1>12 DEF ApplyStep, ApplyCompleted, ApplyRetry, ApplyEscalated, LeaseLost,
               Applying, Release, Ends
<1>. QED
  BY <1>1, <1>2, <1>3, <1>4, <1>5, <1>6, <1>7, <1>8, <1>9, <1>10, <1>11,
     <1>12 DEF Next, SupervisorStep

(***************************************************************************)
(* Every variable keeps its type, for every workflow.                      *)
(***************************************************************************)
THEOREM TypeCorrect == Spec => []TypeOK
<1>1. TypeOK /\ PhaseInv /\ [Next]_vars => (TypeOK /\ PhaseInv)'
  BY TypeStep, PhaseStep
<1>. QED BY InitType, <1>1, PTL DEF Spec

-----------------------------------------------------------------------------
(***************************************************************************)
(* The steps that change the state in memory are moves.                    *)
(***************************************************************************)
\* A task's status that is neither pending nor settled may move to any
\* status that it may be left in.
LEMMA OneTaskMoves ==
  ASSUME NEW s \in WorkflowState, NEW n \in WorkflowState,
         NEW c, NEW t \in Tasks,
         NEW x \in {"running", "completed", "retry", "escalated"},
         s.status[t] \notin Settled \cup {"pending"},
         n.status = [s.status EXCEPT ![t] = x],
         \A u \in Tasks : n.attempts[u] >= s.attempts[u],
         \A u \in Tasks : n.retries[u] >= s.retries[u]
  PROVE  Move(s, n, c)
<1>1. s.status \in [Tasks -> TaskStatus]
  BY DEF WorkflowState
<1>2. MayMove(s, n, c, t)
  BY <1>1 DEF MayMove, Passing
<1>3. \A u \in Tasks : u # t => n.status[u] = s.status[u]
  BY <1>1
<1>. QED BY <1>2, <1>3 DEF Move

\* Counters that do not change have not gone down.
LEMMA CountersStand ==
  ASSUME NEW s \in WorkflowState, NEW n,
         n.attempts = s.attempts, n.retries = s.retries
  PROVE  \A u \in Tasks : n.attempts[u] >= s.attempts[u] /\ n.retries[u] >= s.retries[u]
BY DEF WorkflowState

\* A change that leaves every status alone is a move.
LEMMA NoTaskMoves ==
  ASSUME NEW s \in WorkflowState, NEW n \in WorkflowState, NEW c,
         n.status = s.status, n.attempts = s.attempts, n.retries = s.retries
  PROVE  Move(s, n, c)
BY CountersStand DEF Move

\* _mark_ready moves tasks whose dependencies memory, hence disk, shows done.
LEMMA MarkReadyMoves ==
  ASSUME NEW s \in WorkflowState
  PROVE  Move(s, MarkReady(s), s)
<1>. DEFINE n == MarkReady(s)
<1>1. n \in WorkflowState /\ n.attempts = s.attempts /\ n.retries = s.retries
  BY PassFacts
<1>2. ASSUME NEW t \in Tasks
      PROVE  n.status[t] = s.status[t] \/ MayMove(s, n, s, t)
  <2>1. n.status[t] = IF s.status[t] \in {"pending", "retry"} /\ DependenciesCompleted(s, t)
                      THEN "ready" ELSE s.status[t]
    BY DEF MarkReady, WorkflowState
  <2>. QED BY <2>1 DEF MayMove, Passing, Settled
<1>. HIDE DEF n
<1>3. Move(s, n, s)
  BY <1>1, <1>2, CountersStand DEF Move
<1>. QED BY <1>3 DEF n

\* Skipping moves ready tasks that are optional.
LEMMA SkipMoves ==
  ASSUME NEW s \in WorkflowState, NEW c
  PROVE  Move(s, SkipOptional(s, now), c)
<1>. DEFINE n == SkipOptional(s, now)
<1>1. n \in WorkflowState /\ n.attempts = s.attempts /\ n.retries = s.retries
  BY PassFacts
<1>2. ASSUME NEW t \in Tasks
      PROVE  n.status[t] = s.status[t] \/ MayMove(s, n, c, t)
  <2>1. n.status[t] = IF t \in Skipped(s, now) THEN "cancelled" ELSE s.status[t]
    BY DEF SkipOptional, WorkflowState
  <2>2. t \in Skipped(s, now) => t \in Optional /\ s.status[t] = "ready"
    BY DEF Skipped
  <2>. QED BY <2>1, <2>2 DEF MayMove, Passing, Settled
<1>. HIDE DEF n
<1>3. Move(s, n, c)
  BY <1>1, <1>2, CountersStand DEF Move
<1>. QED BY <1>3 DEF n

MovingStep ==
  \/ Finish \/ BeginIteration \/ SkipUnavailable \/ StartWave \/ WaveDone
  \/ \E t \in Tasks : \/ OverBudget(t) \/ LeaseGranted(t) \/ PropagateFailure(t)
                      \/ ApplyCompleted(t) \/ ApplyRetry(t) \/ ApplyEscalated(t)

\* A step inside a phase moves the workflow state as Move says.
LEMMA StepsMove ==
  ASSUME InductiveInv, MovingStep
  PROVE  Move(state, state', saved) /\ saved' = saved
<1>0. /\ state \in WorkflowState /\ saved \in WorkflowState
      /\ todo \subseteq Tasks /\ now \in Nat
  BY DEF InductiveInv, TypeOK
<1>. USE DEF disk
<1>1. CASE Finish \/ StartWave \/ WaveDone
  <2>1. /\ state' \in WorkflowState /\ state'.status = state.status
        /\ state'.attempts = state.attempts /\ state'.retries = state.retries
    BY <1>0, <1>1 DEF Finish, StartWave, WaveDone, WorkflowState, Phases
  <2>2. saved' = saved
    BY <1>1 DEF Finish, StartWave, WaveDone
  <2>. QED BY <1>0, <2>1, <2>2, NoTaskMoves
<1>2. CASE BeginIteration
  <2>1. state = saved
    BY <1>2 DEF BeginIteration, InductiveInv, MemoryExtendsDisk, AtRest
  <2>. QED BY <1>0, <1>2, <2>1, MarkReadyMoves DEF BeginIteration
<1>3. CASE SkipUnavailable
  BY <1>0, <1>3, SkipMoves DEF SkipUnavailable
<1>4. ASSUME NEW t \in Tasks, OverBudget(t)
      PROVE  Move(state, state', saved) /\ saved' = saved
  <2>1. state.status[t] = "ready"
    BY <1>4 DEF OverBudget, Leasing, IsNext, InductiveInv, WaveInv
  <2>2. /\ state' \in WorkflowState
        /\ state'.status = [state.status EXCEPT ![t] = "escalated"]
        /\ state'.attempts = state.attempts /\ state'.retries = state.retries
    BY <1>0, <1>4, EscalateFacts DEF OverBudget
  <2>. QED BY <1>0, <1>4, <2>1, <2>2, OneTaskMoves, CountersStand DEF OverBudget, Settled
<1>5. ASSUME NEW t \in Tasks, LeaseGranted(t)
      PROVE  Move(state, state', saved) /\ saved' = saved
  <2>1. state.status[t] = "ready"
    BY <1>5 DEF LeaseGranted, Leasing, IsNext, InductiveInv, WaveInv
  <2>2. /\ state' \in WorkflowState
        /\ state'.status = [state.status EXCEPT ![t] = "running"]
        /\ state'.attempts = [state.attempts EXCEPT ![t] = @ + 1]
        /\ state'.retries = state.retries
    BY <1>0, <1>5, LaunchFacts DEF LeaseGranted
  <2>3. \A u \in Tasks : /\ state'.attempts[u] >= state.attempts[u]
                         /\ state'.retries[u] >= state.retries[u]
    <3>1. state.attempts \in [Tasks -> Nat] /\ state.retries \in [Tasks -> Nat]
      BY <1>0 DEF WorkflowState
    <3>. QED BY <2>2, <3>1
  <2>. QED BY <1>0, <1>5, <2>1, <2>2, <2>3, OneTaskMoves DEF LeaseGranted, Settled
<1>6. ASSUME NEW t \in Tasks, PropagateFailure(t)
      PROVE  Move(state, state', saved) /\ saved' = saved
  <2>1. state.status[t] \in Open
    BY <1>6 DEF PropagateFailure, IsNext, InductiveInv, WaveInv
  <2>2. /\ state' \in WorkflowState
        /\ state'.status = [state.status EXCEPT ![t] = "escalated"]
        /\ state'.attempts = state.attempts /\ state'.retries = state.retries
    BY <1>0, <1>6, EscalateFacts DEF PropagateFailure
  <2>3. \E d \in Deps[t] : state.status[d] \in {"cancelled", "escalated"}
    <3>1. PICK d \in Deps[t] : state.status[d] \in Failed
      BY <1>6 DEF PropagateFailure
    <3>2. d \in Tasks
      BY GraphAssumption
    <3>. QED BY <3>1, <3>2 DEF InductiveInv, StatusInv, Failed, Passing
  <2>4. state.status \in [Tasks -> TaskStatus]
    BY <1>0 DEF WorkflowState
  <2>5. MayMove(state, state', saved, t)
    BY <2>1, <2>2, <2>3, <2>4 DEF MayMove, Open, Settled, Passing
  <2>6. \A u \in Tasks : u # t => state'.status[u] = state.status[u]
    BY <2>2, <2>4
  <2>7. saved' = saved
    BY <1>6 DEF PropagateFailure
  <2>. QED BY <1>0, <2>2, <2>5, <2>6, <2>7, CountersStand DEF Move
<1>7. ASSUME NEW t \in Tasks, ApplyCompleted(t) \/ ApplyRetry(t) \/ ApplyEscalated(t)
      PROVE  Move(state, state', saved) /\ saved' = saved
  <2>1. state.status[t] = "running" /\ Applying(t)
    BY <1>7 DEF ApplyCompleted, ApplyRetry, ApplyEscalated, Applying, InductiveInv, WaveInv
  <2>2. results[t] \in WorkerResult
    BY <2>1, ResultType DEF InductiveInv
  <2>3. saved' = saved
    BY <1>7 DEF ApplyCompleted, ApplyRetry, ApplyEscalated, Release
  <2>4. CASE ApplyCompleted(t)
    <3>1. /\ state' \in WorkflowState
          /\ state'.status = [state.status EXCEPT ![t] = "completed"]
          /\ state'.attempts = state.attempts /\ state'.retries = state.retries
      BY <1>0, <2>2, <2>4, CompleteFacts DEF ApplyCompleted
    <3>. QED BY <1>0, <2>1, <2>3, <3>1, OneTaskMoves, CountersStand DEF Settled
  <2>5. CASE ApplyRetry(t)
    <3>1. /\ state' \in WorkflowState
          /\ state'.status = [state.status EXCEPT ![t] = "retry"]
          /\ state'.attempts = state.attempts
          /\ state'.retries = [state.retries EXCEPT ![t] = @ + 1]
      BY <1>0, <2>5, RetryFacts DEF ApplyRetry
    <3>2. \A u \in Tasks : /\ state'.attempts[u] >= state.attempts[u]
                           /\ state'.retries[u] >= state.retries[u]
      <4>1. state.attempts \in [Tasks -> Nat] /\ state.retries \in [Tasks -> Nat]
        BY <1>0 DEF WorkflowState
      <4>. QED BY <3>1, <4>1
    <3>. QED BY <1>0, <2>1, <2>3, <3>1, <3>2, OneTaskMoves DEF Settled
  <2>6. CASE ApplyEscalated(t)
    <3>1. /\ state' \in WorkflowState
          /\ state'.status = [state.status EXCEPT ![t] = "escalated"]
          /\ state'.attempts = state.attempts /\ state'.retries = state.retries
      BY <1>0, <2>6, RejectFacts DEF ApplyEscalated
    <3>. QED BY <1>0, <2>1, <2>3, <3>1, OneTaskMoves, CountersStand DEF Settled
  <2>. QED BY <1>7, <2>4, <2>5, <2>6
<1>. QED BY <1>1, <1>2, <1>3, <1>4, <1>5, <1>6, <1>7 DEF MovingStep

-----------------------------------------------------------------------------
(***************************************************************************)
(* The other steps: those that end a process, and those that touch neither *)
(* the state in memory nor the checkpoint.                                 *)
(***************************************************************************)
EndingStep ==
  SaveRaises \/ WriteSummary \/ Stall \/ Crash \/ \E t \in Tasks : LeaseLost(t)

QuietStep ==
  \/ SaveJournal \/ Pause \/ NothingLeased \/ LoopAgain \/ Tick \/ UNCHANGED vars
  \/ \E t \in Tasks : \/ NoFreeAgent(t) \/ LeaseRefused(t) \/ LeaveOpen(t)
                      \/ WorkerReturns(t)

\* The steps, by what they leave of the workflow state.
LEMMA StepCases ==
  [Next]_vars => \/ Start \/ Resume \/ SaveState
                 \/ MovingStep \/ EndingStep \/ QuietStep
BY DEF Next, SupervisorStep, LeaseStep, PropagateStep, ApplyStep, MovingStep,
       EndingStep, QuietStep

\* A step that ends the run keeps only what is saved.
LEMMA EndingStepFacts ==
  ASSUME EndingStep
  PROVE  /\ pc' = "off" /\ state' = FreshState /\ saved' = saved
         /\ agent' = NoWork /\ todo' = {}
BY DEF EndingStep, SaveRaises, WriteSummary, Stall, Crash, LeaseLost, Ends, disk

\* A quiet step leaves the workflow state.
LEMMA QuietStepFacts ==
  ASSUME QuietStep
  PROVE  /\ state' = state /\ saved' = saved /\ agent' = agent
         /\ files' = files
         /\ pc' \in AtRest => pc \in AtRest
         /\ pc' # "off" => pc # "off"
<1>. USE DEF memory, disk, AtRest
<1>1. CASE SaveJournal
  BY <1>1 DEF SaveJournal
<1>2. CASE Pause \/ Tick \/ UNCHANGED vars
  BY <1>2 DEF Pause, Tick, vars
<1>3. CASE NothingLeased
  BY <1>3 DEF NothingLeased, LeaseLoopDone
<1>4. CASE LoopAgain
  BY <1>4 DEF LoopAgain, Checkpoint
<1>5. ASSUME NEW t \in Tasks, \/ NoFreeAgent(t) \/ LeaseRefused(t)
                              \/ LeaveOpen(t) \/ WorkerReturns(t)
      PROVE  /\ state' = state /\ saved' = saved /\ agent' = agent
             /\ files' = files /\ pc' = pc
  BY <1>5 DEF NoFreeAgent, LeaseRefused, LeaveOpen, WorkerReturns, Leasing
<1>. QED BY <1>1, <1>2, <1>3, <1>4, <1>5 DEF QuietStep

\* A process takes its moving steps while it runs, away from a checkpoint.
LEMMA MovingStepFacts ==
  ASSUME MovingStep
  PROVE  pc # "off" /\ pc' # "off" /\ pc' \notin AtRest
<1>. USE DEF AtRest
<1>1. CASE Finish \/ StartWave \/ WaveDone
  BY <1>1 DEF Finish, StartWave, WaveDone, LeaseLoopDone, Checkpoint
<1>2. CASE BeginIteration \/ SkipUnavailable
  BY <1>2 DEF BeginIteration, SkipUnavailable
<1>3. ASSUME NEW t \in Tasks, OverBudget(t) \/ LeaseGranted(t)
      PROVE  pc = "lease" /\ pc' = "lease"
  BY <1>3 DEF OverBudget, LeaseGranted, Leasing
<1>4. ASSUME NEW t \in Tasks, PropagateFailure(t)
      PROVE  pc = "propagate" /\ pc' = "propagate"
  BY <1>4 DEF PropagateFailure
<1>5. ASSUME NEW t \in Tasks, ApplyCompleted(t) \/ ApplyRetry(t) \/ ApplyEscalated(t)
      PROVE  pc = "execute" /\ pc' = "execute"
  BY <1>5 DEF ApplyCompleted, ApplyRetry, ApplyEscalated, Applying, Release
<1>. QED BY <1>1, <1>2, <1>3, <1>4, <1>5 DEF MovingStep

\* Where a workflow begins: nothing attempted and nothing passed.
LEMMA FreshFacts ==
  \A s \in {FreshState, NoCheckpoint} :
     /\ \A t \in Tasks : /\ s.status[t] = "pending" /\ s.attempts[t] = 0
                         /\ s.retries[t] = 0 /\ s.artifacts[t] = 0
     /\ s.gates = {}
     /\ RespectsDependencies(s) /\ StatusInv(s)
BY DEF FreshState, NoCheckpoint, RespectsDependencies, StatusInv, Passing

\* The recovered state is one that the checkpoint allows.
LEMMA RecoverFacts ==
  ASSUME NEW c \in WorkflowState, RespectsDependencies(c), StatusInv(c)
  PROVE  LET n == RecoverInterrupted(c) IN
         /\ Extends(n, c) /\ RespectsDependencies(n) /\ StatusInv(n)
         /\ \A t \in Tasks : n.status[t] # "running"
         /\ \A t \in Tasks : n.status[t] = "completed" <=> c.status[t] = "completed"
<1>. DEFINE n == RecoverInterrupted(c)
<1>1. n \in WorkflowState /\ n.attempts = c.attempts /\ n.retries = c.retries
  BY PassFacts
<1>2. \A t \in Tasks : n.status[t] = IF c.status[t] \in Active THEN "ready" ELSE c.status[t]
  BY DEF RecoverInterrupted, WorkflowState
<1>. HIDE DEF n
<1>3. \A t \in Tasks : c.status[t] \in Settled => n.status[t] = c.status[t]
  BY <1>2 DEF Settled, Active
<1>4. \A t \in Tasks : n.status[t] \notin {"pending", "escalated"} =>
                          DependenciesCompleted(c, t)
  BY <1>2 DEF RespectsDependencies, Active
<1>5. Extends(n, c)
  <2>1. c.attempts \in [Tasks -> Nat] /\ c.retries \in [Tasks -> Nat]
    BY DEF WorkflowState
  <2>2. \A t \in Tasks : n.status[t] = "escalated" => c.status[t] = "escalated"
    BY <1>2
  <2>. QED BY <1>1, <1>3, <1>4, <2>1, <2>2 DEF Extends
<1>6. RespectsDependencies(n)
  BY <1>1, <1>3, <1>4, DoneStaysDone DEF RespectsDependencies
<1>7. StatusInv(n)
  BY <1>2 DEF StatusInv, Passing
<1>8. \A t \in Tasks : n.status[t] # "running"
  BY <1>2 DEF Active
<1>9. \A t \in Tasks : n.status[t] = "completed" <=> c.status[t] = "completed"
  BY <1>2 DEF Active
<1>. QED BY <1>5, <1>6, <1>7, <1>8, <1>9 DEF n

\* A state extends itself as soon as it respects the graph.
LEMMA ExtendsItself ==
  ASSUME NEW s \in WorkflowState, RespectsDependencies(s)
  PROVE  Extends(s, s)
<1>1. s.attempts \in [Tasks -> Nat] /\ s.retries \in [Tasks -> Nat]
  BY DEF WorkflowState
<1>. QED BY <1>1 DEF Extends, RespectsDependencies

(***************************************************************************)
(* Memory keeps extending the checkpoint, and both keep to the graph.      *)
(***************************************************************************)
LEMMA MemoryStep ==
  ASSUME InductiveInv, [Next]_vars
  PROVE  /\ RespectsDependencies(state') /\ RespectsDependencies(saved')
         /\ StatusInv(state') /\ StatusInv(saved')
         /\ pc' \in AtRest => state' = saved'
         /\ pc' # "off" => Extends(state', saved')
<1>1. /\ state \in WorkflowState /\ saved \in WorkflowState
      /\ RespectsDependencies(state) /\ RespectsDependencies(saved)
      /\ StatusInv(state) /\ StatusInv(saved)
      /\ pc \in AtRest => state = saved
      /\ pc # "off" => Extends(state, saved)
  BY DEF InductiveInv, TypeOK, DependencySafety, MemoryExtendsDisk
<1>. USE DEF disk
<1>2. CASE Start
  <2>1. state' = FreshState /\ saved' = NoCheckpoint /\ pc' = "save"
    BY <1>2 DEF Start, Checkpoint
  <2>2. Extends(FreshState, NoCheckpoint)
    BY FreshFacts DEF Extends, Settled
  <2>. QED BY <2>1, <2>2, FreshFacts DEF AtRest
<1>3. CASE Resume
  <2>1. state' = RecoverInterrupted(saved) /\ saved' = saved /\ pc' = "save"
    BY <1>3 DEF Resume, Checkpoint
  <2>. QED BY <1>1, <2>1, RecoverFacts DEF AtRest
<1>4. CASE SaveState
  <2>1. saved' = state' /\ pc' = "log" /\ state'.status = state.status
    BY <1>1, <1>4 DEF SaveState, WorkflowState
  <2>2. state' \in WorkflowState
    BY TypeStep DEF InductiveInv, TypeOK
  <2>3. RespectsDependencies(state') /\ StatusInv(state')
    BY <1>1, <2>1 DEF RespectsDependencies, StatusInv, DependenciesCompleted
  <2>. QED BY <2>1, <2>2, <2>3, ExtendsItself
<1>5. CASE MovingStep
  <2>1. Move(state, state', saved) /\ saved' = saved
    BY <1>5, StepsMove
  <2>2. pc # "off" /\ pc' \notin AtRest
    BY <1>5, MovingStepFacts
  <2>. QED BY <1>1, <2>1, <2>2, MoveKeepsExtends, MoveKeepsDependencies,
              MoveKeepsStatusInv
<1>6. CASE EndingStep
  BY <1>1, <1>6, EndingStepFacts, FreshFacts DEF AtRest
<1>7. CASE QuietStep
  BY <1>1, <1>7, QuietStepFacts
<1>. QED BY <1>2, <1>3, <1>4, <1>5, <1>6, <1>7, StepCases

(***************************************************************************)
(* A wave's tasks are the running ones, recorded before they run.          *)
(***************************************************************************)
LEMMA WaveStep ==
  ASSUME InductiveInv, [Next]_vars
  PROVE  WaveInv'
<1>0. /\ state \in WorkflowState /\ saved \in WorkflowState
      /\ agent \in [Tasks -> Agents \cup {NoAgent}]
      /\ todo \subseteq Tasks
      /\ now \in Nat
      /\ state.status \in [Tasks -> TaskStatus]
      /\ WaveInv
  BY DEF InductiveInv, TypeOK, WorkflowState
<1>. USE DEF memory, disk, InWave, WaveInv
<1>1. CASE Start
  <2>1. /\ state' = FreshState /\ agent' = agent /\ pc' = "save" /\ pc = "off"
    BY <1>1 DEF Start, Checkpoint
  <2>2. Work = {}
    BY <1>0, <2>1
  <2>3. Work' = {}
    BY <2>1, <2>2 DEF Work
  <2>. QED BY <2>1, <2>3, FreshFacts
<1>2. CASE Resume
  <2>1. /\ state' = RecoverInterrupted(saved) /\ agent' = agent
        /\ pc' = "save" /\ pc = "off"
    BY <1>2 DEF Resume, Checkpoint
  <2>2. Work' = {}
    BY <1>0, <2>1 DEF Work
  <2>3. RespectsDependencies(saved) /\ StatusInv(saved)
    BY DEF InductiveInv, DependencySafety
  <2>. QED BY <1>0, <2>1, <2>2, <2>3, RecoverFacts
<1>3. CASE SaveState
  <2>1. /\ state'.status = state.status /\ state'.attempts = state.attempts
        /\ agent' = agent /\ pc = "save" /\ pc' = "log" /\ ret' = ret
    BY <1>0, <1>3 DEF SaveState, WorkflowState
  <2>2. Work' = Work
    BY <2>1 DEF Work
  <2>. QED BY <1>0, <2>1, <2>2
<1>4. CASE EndingStep
  <2>1. Work' = {}
    BY <1>4, EndingStepFacts DEF Work, NoWork
  <2>. QED BY <1>4, <2>1, EndingStepFacts, FreshFacts
<1>5. CASE QuietStep
  <2>1. state' = state /\ saved' = saved /\ Work' = Work
    BY <1>5, QuietStepFacts DEF Work
  <2>2. CASE SaveJournal
    <3>1. state = saved /\ pc = "log" /\ pc' = ret /\ ret' = ret
      BY <2>2 DEF SaveJournal, InductiveInv, MemoryExtendsDisk, AtRest
    <3>2. ret \in {"top", "again", "execute", "end"}
      BY DEF InductiveInv, TypeOK
    <3>3. Work \subseteq Tasks
      BY DEF Work
    <3>4. pc' = "execute" => \A t \in Work : /\ saved.status[t] = "running"
                                            /\ saved.attempts[t] = state.attempts[t]
      BY <1>0, <3>1, <3>3
    <3>. QED BY <1>0, <2>1, <3>1, <3>2, <3>4
  <2>3. CASE Pause \/ Tick \/ UNCHANGED vars
    <3>1. pc' = pc /\ ret' = ret /\ todo' = todo
      BY <2>3 DEF Pause, Tick, vars
    <3>. QED BY <1>0, <2>1, <3>1
  <2>4. CASE NothingLeased
    <3>1. pc' = "propagate" /\ Work = {} /\ todo' = {t \in Tasks : state.status[t] \in Open}
      BY <2>4 DEF NothingLeased
    <3>. QED BY <1>0, <2>1, <3>1
  <2>5. CASE LoopAgain
    <3>1. pc' = "save" /\ pc = "propagate"
      BY <2>5 DEF LoopAgain, Checkpoint
    <3>. QED BY <1>0, <2>1, <3>1
  <2>6. ASSUME NEW t \in Tasks, \/ NoFreeAgent(t) \/ LeaseRefused(t)
                                \/ LeaveOpen(t) \/ WorkerReturns(t)
        PROVE  pc' = pc /\ ret' = ret /\ todo' \subseteq todo
    BY <2>6 DEF NoFreeAgent, LeaseRefused, LeaveOpen, WorkerReturns, Leasing
  <2>7. ASSUME NEW t \in Tasks, \/ NoFreeAgent(t) \/ LeaseRefused(t)
                                \/ LeaveOpen(t) \/ WorkerReturns(t)
        PROVE  WaveInv'
    BY <1>0, <2>1, <2>6, <2>7
  <2>. QED BY <1>5, <2>2, <2>3, <2>4, <2>5, <2>7 DEF QuietStep
<1>6. CASE MovingStep
  <2>1. CASE Finish \/ WaveDone
    <3>1. /\ state'.status = state.status /\ agent' = agent /\ pc' = "save"
          /\ Work = {}
      BY <1>0, <2>1 DEF Finish, WaveDone, Checkpoint, WorkflowState
    <3>2. Work' = {}
      BY <3>1 DEF Work
    <3>. QED BY <1>0, <3>1, <3>2
  <2>2. CASE StartWave
    <3>1. /\ state'.status = state.status /\ agent' = agent
          /\ pc' = "save" /\ ret' = "execute"
      BY <1>0, <2>2 DEF StartWave, Checkpoint, WorkflowState
    <3>2. Work' = Work
      BY <3>1 DEF Work
    <3>. QED BY <1>0, <3>1, <3>2
  <2>3. CASE BeginIteration
    <3>1. /\ state' = MarkReady(state) /\ agent' = agent /\ Work = {} /\ pc' = "skip"
      BY <1>0, <2>3 DEF BeginIteration
    <3>2. \A t \in Tasks : state'.status[t] \in {state.status[t], "ready"}
      BY <1>0, <3>1 DEF MarkReady, WorkflowState
    <3>3. Work' = {}
      BY <3>1 DEF Work
    <3>. QED BY <1>0, <3>1, <3>2, <3>3
  <2>4. CASE SkipUnavailable
    <3>1. /\ state' = SkipOptional(state, now) /\ agent' = agent /\ Work = {}
          /\ pc' = "lease" /\ todo' = {t \in Tasks : state'.status[t] = "ready"}
      BY <1>0, <2>4 DEF SkipUnavailable
    <3>2. \A t \in Tasks : state'.status[t] \in {state.status[t], "cancelled"}
      BY <1>0, <3>1 DEF SkipOptional, WorkflowState
    <3>3. Work' = {}
      BY <3>1 DEF Work
    <3>. QED BY <1>0, <3>1, <3>2, <3>3
  <2>5. ASSUME NEW t \in Tasks, OverBudget(t)
        PROVE  WaveInv'
    <3>1. /\ pc = "lease" /\ pc' = pc /\ t \in todo /\ todo' = todo \ {t}
          /\ agent' = agent
      BY <2>5 DEF OverBudget, Leasing, IsNext
    <3>2. state'.status = [state.status EXCEPT ![t] = "escalated"]
      BY <1>0, <2>5, EscalateFacts DEF OverBudget
    <3>3. Work' = Work
      BY <3>1 DEF Work
    <3>. QED BY <1>0, <3>1, <3>2, <3>3
  <2>6. ASSUME NEW t \in Tasks, LeaseGranted(t)
        PROVE  WaveInv'
    <3>1. /\ pc = "lease" /\ pc' = pc /\ t \in todo /\ todo' = todo \ {t}
      BY <2>6 DEF LeaseGranted, Leasing, IsNext
    <3>2. state'.status = [state.status EXCEPT ![t] = "running"]
      BY <1>0, <2>6, LaunchFacts DEF LeaseGranted
    <3>3. PICK a \in Agents : agent' = [agent EXCEPT ![t] = a]
      BY <2>6 DEF LeaseGranted
    <3>4. Work' = Work \cup {t}
      BY <1>0, <3>3, WorkersAssumption DEF Work, NoAgent
    <3>. QED BY <1>0, <3>1, <3>2, <3>4
  <2>7. ASSUME NEW t \in Tasks, PropagateFailure(t)
        PROVE  WaveInv'
    <3>1. /\ pc = "propagate" /\ pc' = pc /\ t \in todo /\ todo' = todo \ {t}
          /\ agent' = agent
      BY <2>7 DEF PropagateFailure, IsNext
    <3>2. state'.status = [state.status EXCEPT ![t] = "escalated"]
      BY <1>0, <2>7, EscalateFacts DEF PropagateFailure
    <3>3. Work' = Work /\ Work = {}
      BY <1>0, <3>1 DEF Work
    <3>. QED BY <1>0, <3>1, <3>2, <3>3
  <2>8. ASSUME NEW t \in Tasks, ApplyCompleted(t) \/ ApplyRetry(t) \/ ApplyEscalated(t)
        PROVE  WaveInv'
    <3>1. /\ pc = "execute" /\ pc' = pc /\ t \in Work /\ Applying(t)
          /\ agent' = [agent EXCEPT ![t] = NoAgent] /\ saved' = saved
      BY <2>8 DEF ApplyCompleted, ApplyRetry, ApplyEscalated, Applying, Release
    <3>2. results[t] \in WorkerResult
      BY <3>1, ResultType DEF InductiveInv
    <3>3. PICK x \in {"completed", "retry", "escalated"} :
             /\ state'.status = [state.status EXCEPT ![t] = x]
             /\ state'.attempts = state.attempts
      <4>1. CASE ApplyCompleted(t)
        <5>1. /\ state'.status = [state.status EXCEPT ![t] = "completed"]
              /\ state'.attempts = state.attempts
          <6>1. state' = CompleteTask(state, t, results[t])
            BY <4>1 DEF ApplyCompleted
          <6>. HIDE DEF WaveInv, InWave
          <6>. QED BY <1>0, <3>2, <6>1, CompleteFacts
        <5>. QED BY <5>1
      <4>2. CASE ApplyRetry(t)
        BY <1>0, <4>2, RetryFacts DEF ApplyRetry
      <4>3. CASE ApplyEscalated(t)
        BY <1>0, <4>3, RejectFacts DEF ApplyEscalated
      <4>. QED BY <2>8, <4>1, <4>2, <4>3
    <3>4. Work' = Work \ {t}
      BY <1>0, <3>1 DEF Work
    <3>. QED BY <1>0, <3>1, <3>3, <3>4
  <2>. QED BY <1>6, <2>1, <2>2, <2>3, <2>4, <2>5, <2>6, <2>7, <2>8 DEF MovingStep
<1>. QED BY <1>1, <1>2, <1>3, <1>4, <1>5, <1>6, StepCases

(***************************************************************************)
(* Artifacts, their files and gates follow the completed tasks.            *)
(***************************************************************************)
\* Only an accepted result completes a task or registers anything.
LEMMA OthersRegisterNothing ==
  ASSUME InductiveInv, MovingStep, \A t \in Tasks : ~ ApplyCompleted(t)
  PROVE  /\ state'.artifacts = state.artifacts /\ state'.gates = state.gates
         /\ state'.handoffs = state.handoffs /\ files' = files
         /\ \A t \in Tasks : state'.status[t] = "completed" <=> state.status[t] = "completed"
<1>0. /\ state \in WorkflowState /\ now \in Nat
      /\ state.status \in [Tasks -> TaskStatus]
  BY DEF InductiveInv, TypeOK, WorkflowState
<1>1. ASSUME NEW t \in Tasks, state.status[t] = "completed"
      PROVE  state'.status[t] = "completed"
  BY <1>1, StepsMove DEF Move, MayMove, Settled
<1>. USE DEF disk
<1>2. CASE Finish \/ StartWave \/ WaveDone
  BY <1>0, <1>2 DEF Finish, StartWave, WaveDone, WorkflowState
<1>3. CASE BeginIteration
  <2>1. state' = MarkReady(state) /\ files' = files
    BY <1>3 DEF BeginIteration
  <2>2. \A t \in Tasks : state'.status[t] \in {state.status[t], "ready"}
    BY <1>0, <2>1 DEF MarkReady, WorkflowState
  <2>. QED BY <1>0, <1>1, <2>1, <2>2, PassFacts
<1>4. CASE SkipUnavailable
  <2>1. state' = SkipOptional(state, now) /\ files' = files
    BY <1>4 DEF SkipUnavailable
  <2>2. \A t \in Tasks : state'.status[t] \in {state.status[t], "cancelled"}
    BY <1>0, <2>1 DEF SkipOptional, WorkflowState
  <2>. QED BY <1>0, <1>1, <2>1, <2>2, PassFacts
<1>5. ASSUME NEW t \in Tasks, OverBudget(t) \/ PropagateFailure(t)
      PROVE  /\ state'.artifacts = state.artifacts /\ state'.gates = state.gates
             /\ state'.handoffs = state.handoffs /\ files' = files
             /\ \A u \in Tasks : state'.status[u] = "completed" =>
                                   state.status[u] = "completed"
  <2>1. state' = BlockAndEscalate(state, t) /\ files' = files
    BY <1>5 DEF OverBudget, PropagateFailure
  <2>2. state'.status = [state.status EXCEPT ![t] = "escalated"]
    BY <1>0, <2>1, EscalateFacts
  <2>3. \A u \in Tasks : state'.status[u] \in {state.status[u], "escalated"}
    BY <1>0, <2>2
  <2>. QED BY <1>0, <2>1, <2>3, EscalateFacts
<1>6. ASSUME NEW t \in Tasks, LeaseGranted(t)
      PROVE  /\ state'.artifacts = state.artifacts /\ state'.gates = state.gates
             /\ state'.handoffs = state.handoffs /\ files' = files
             /\ \A u \in Tasks : state'.status[u] = "completed" =>
                                   state.status[u] = "completed"
  <2>1. state' = Transition(Transition(state, t, "leased"), t, "running") /\ files' = files
    BY <1>6 DEF LeaseGranted
  <2>2. state'.status = [state.status EXCEPT ![t] = "running"]
    BY <1>0, <2>1, LaunchFacts
  <2>3. \A u \in Tasks : state'.status[u] \in {state.status[u], "running"}
    BY <1>0, <2>2
  <2>. QED BY <1>0, <2>1, <2>3, LaunchFacts
<1>7. ASSUME NEW t \in Tasks, ApplyRetry(t)
      PROVE  /\ state'.artifacts = state.artifacts /\ state'.gates = state.gates
             /\ state'.handoffs = state.handoffs /\ files' = files
             /\ \A u \in Tasks : state'.status[u] = "completed" =>
                                   state.status[u] = "completed"
  <2>1. state' = Transition(Transition(state, t, "validating"), t, "retry") /\ files' = files
    BY <1>7 DEF ApplyRetry
  <2>2. state'.status = [state.status EXCEPT ![t] = "retry"]
    BY <1>0, <2>1, RetryFacts
  <2>3. \A u \in Tasks : state'.status[u] \in {state.status[u], "retry"}
    BY <1>0, <2>2
  <2>. QED BY <1>0, <2>1, <2>3, RetryFacts
<1>8. ASSUME NEW t \in Tasks, ApplyEscalated(t)
      PROVE  /\ state'.artifacts = state.artifacts /\ state'.gates = state.gates
             /\ state'.handoffs = state.handoffs /\ files' = files
             /\ \A u \in Tasks : state'.status[u] = "completed" =>
                                   state.status[u] = "completed"
  <2>1. state' = BlockAndEscalate(Transition(state, t, "validating"), t) /\ files' = files
    BY <1>8 DEF ApplyEscalated
  <2>2. state'.status = [state.status EXCEPT ![t] = "escalated"]
    BY <1>0, <2>1, RejectFacts
  <2>3. \A u \in Tasks : state'.status[u] \in {state.status[u], "escalated"}
    BY <1>0, <2>2
  <2>. QED BY <1>0, <2>1, <2>3, RejectFacts
<1>. QED BY <1>1, <1>2, <1>3, <1>4, <1>5, <1>6, <1>7, <1>8 DEF MovingStep

\* What ArtifactsInv and GatesMatch say of one state and the files.
Registered(s, f) ==
  /\ s.gates = {t \in Gates : s.status[t] = "completed"}
  /\ \A t \in Tasks : s.artifacts[t] # 0 =>
       /\ s.status[t] = "completed"
       /\ f[t] = s.artifacts[t]
       /\ {t} \X Dependents(t) \subseteq s.handoffs

\* Nothing is registered for a running task, so its file may be replaced.
LEMMA RunningUnregistered ==
  ASSUME InductiveInv, NEW t \in Tasks, Applying(t)
  PROVE  /\ state.status[t] = "running" /\ saved.status[t] = "running"
         /\ state.artifacts[t] = 0 /\ saved.artifacts[t] = 0
<1>1. state.status[t] = "running" /\ saved.status[t] = "running"
  BY DEF Applying, InductiveInv, WaveInv
<1>. QED BY <1>1 DEF InductiveInv, ArtifactsInv, ArtifactsOnDisk

\* Materializing a task's outputs leaves those of the others.
LEMMA MaterializedElsewhere ==
  ASSUME InductiveInv, NEW t \in Tasks, NEW u \in Tasks \ {t}
  PROVE  Materialized(t)[u] = files[u]
BY DEF Materialized, InductiveInv, TypeOK

\* Gates, artifacts and handoffs stay with what is completed.
LEMMA RegisteredStep ==
  ASSUME InductiveInv, [Next]_vars
  PROVE  Registered(state', files') /\ Registered(saved', files')
<1>0. /\ state \in WorkflowState /\ saved \in WorkflowState /\ now \in Nat
      /\ state.status \in [Tasks -> TaskStatus]
      /\ files \in [Tasks -> Nat]
      /\ Registered(state, files) /\ Registered(saved, files)
  BY DEF InductiveInv, TypeOK, WorkflowState, ArtifactsInv, ArtifactsOnDisk,
         GatesMatch, Registered
<1>00. Gates \subseteq Tasks
  BY TasksAssumption
<1>. USE DEF disk
<1>1. CASE Start
  <2>1. state' = FreshState /\ saved' = saved /\ files' = files
    BY <1>1 DEF Start
  <2>. QED BY <1>0, <1>00, <2>1, FreshFacts DEF Registered
<1>2. CASE Resume
  <2>1. state' = RecoverInterrupted(saved) /\ saved' = saved /\ files' = files
    BY <1>2 DEF Resume
  <2>2. \A t \in Tasks : state'.status[t] = "completed" <=> saved.status[t] = "completed"
    BY <1>0, <2>1, RecoverFacts DEF InductiveInv, DependencySafety
  <2>3. /\ state'.artifacts = saved.artifacts /\ state'.gates = saved.gates
        /\ state'.handoffs = saved.handoffs
    BY <1>0, <2>1, PassFacts
  <2>. QED BY <1>0, <1>00, <2>1, <2>2, <2>3 DEF Registered
<1>3. CASE SaveState
  <2>1. /\ saved' = state' /\ files' = files
        /\ state'.status = state.status /\ state'.artifacts = state.artifacts
        /\ state'.gates = state.gates /\ state'.handoffs = state.handoffs
    BY <1>0, <1>3 DEF SaveState, WorkflowState
  <2>. QED BY <1>0, <2>1 DEF Registered
<1>4. CASE QuietStep
  BY <1>0, <1>4, QuietStepFacts
<1>5. CASE EndingStep
  <2>1. state' = FreshState /\ saved' = saved
    BY <1>5, EndingStepFacts
  <2>2. CASE files' = files
    BY <1>0, <1>00, <2>1, <2>2, FreshFacts DEF Registered
  <2>3. CASE files' # files
    <3>1. PICK t \in Tasks : LeaseLost(t)
      BY <1>5, <2>3 DEF EndingStep, SaveRaises, WriteSummary, Stall, Crash
    <3>2. files' = Materialized(t) /\ Applying(t)
      BY <3>1 DEF LeaseLost
    <3>3. saved.artifacts[t] = 0
      BY <3>2, RunningUnregistered
    <3>4. \A u \in Tasks : u # t => files'[u] = files[u]
      BY <3>2, MaterializedElsewhere
    <3>. QED BY <1>0, <1>00, <2>1, <3>3, <3>4, FreshFacts DEF Registered
  <2>. QED BY <2>2, <2>3
<1>6. ASSUME NEW t \in Tasks, ApplyCompleted(t)
      PROVE  Registered(state', files') /\ Registered(saved', files')
  <2>1. /\ Applying(t) /\ Accepted(t) /\ files' = Materialized(t) /\ saved' = saved
        /\ state' = CompleteTask(state, t, results[t])
    BY <1>6 DEF ApplyCompleted, Release
  <2>2. results[t] \in WorkerResult
    BY <2>1, ResultType DEF InductiveInv
  <2>3. /\ state'.status = [state.status EXCEPT ![t] = "completed"]
        /\ state'.artifacts = IF results[t].artifacts
                              THEN [state.artifacts EXCEPT ![t] = state.attempts[t]]
                              ELSE state.artifacts
        /\ state'.gates = IF t \in Gates THEN state.gates \cup {t} ELSE state.gates
        /\ state'.handoffs = IF results[t].artifacts
                             THEN state.handoffs \cup ({t} \X Dependents(t))
                             ELSE state.handoffs
    BY <1>0, <2>1, <2>2, CompleteFacts, ZenonT(60)
  <2>4. /\ state.artifacts[t] = 0 /\ saved.artifacts[t] = 0
        /\ state.status[t] = "running"
    BY <2>1, RunningUnregistered
  <2>5. \A u \in Tasks : u # t => files'[u] = files[u]
    BY <2>1, MaterializedElsewhere
  <2>6. results[t].artifacts => files'[t] = state.attempts[t]
    BY <1>0, <2>1 DEF Materialized
  <2>7. Registered(saved', files')
    BY <1>0, <2>1, <2>4, <2>5 DEF Registered
  <2>8. state'.gates = {u \in Gates : state'.status[u] = "completed"}
    <3>1. \A u \in Gates : state'.status[u] = "completed" <=>
                            u = t \/ state.status[u] = "completed"
      BY <1>0, <1>00, <2>3
    <3>2. state.gates = {u \in Gates : state.status[u] = "completed"}
      BY <1>0 DEF Registered
    <3>. QED BY <2>3, <3>1, <3>2
  <2>9. ASSUME NEW u \in Tasks, state'.artifacts[u] # 0
        PROVE  /\ state'.status[u] = "completed"
               /\ files'[u] = state'.artifacts[u]
               /\ {u} \X Dependents(u) \subseteq state'.handoffs
    <3>0. state.artifacts \in [Tasks -> Nat]
      BY <1>0 DEF WorkflowState
    <3>1. CASE u = t
      <4>1. results[t].artifacts
        BY <2>3, <2>4, <2>9, <3>0, <3>1
      <4>2. state'.artifacts[t] = state.attempts[t]
        BY <2>3, <3>0, <4>1
      <4>. QED BY <1>0, <2>3, <2>6, <3>1, <4>1, <4>2
    <3>2. CASE u # t
      <4>1. state'.artifacts[u] = state.artifacts[u] /\ state'.status[u] = state.status[u]
        BY <1>0, <2>3, <3>0, <3>2
      <4>2. state.handoffs \subseteq state'.handoffs
        BY <2>3
      <4>. QED BY <1>0, <2>5, <2>9, <3>2, <4>1, <4>2 DEF Registered
    <3>. QED BY <3>1, <3>2
  <2>. QED BY <2>7, <2>8, <2>9 DEF Registered
<1>7. CASE MovingStep /\ \A t \in Tasks : ~ ApplyCompleted(t)
  <2>1. /\ state'.artifacts = state.artifacts /\ state'.gates = state.gates
        /\ state'.handoffs = state.handoffs /\ files' = files
        /\ \A t \in Tasks : state'.status[t] = "completed" <=> state.status[t] = "completed"
    BY <1>7, OthersRegisterNothing
  <2>2. saved' = saved
    BY <1>7, StepsMove
  <2>. QED BY <1>0, <1>00, <2>1, <2>2 DEF Registered
<1>. QED BY <1>1, <1>2, <1>3, <1>4, <1>5, <1>6, <1>7, StepCases

-----------------------------------------------------------------------------
(***************************************************************************)
(* The inductive invariant and what follows from it.                       *)
(***************************************************************************)
LEMMA InitInductive == Init => InductiveInv
<1>. SUFFICES ASSUME Init
              PROVE  InductiveInv
  OBVIOUS
<1>1. Work = {}
  BY DEF Init, Work, NoWork
<1>2. TypeOK /\ PhaseInv
  BY InitType
<1>3. state = FreshState /\ saved = NoCheckpoint /\ pc = "off"
  BY DEF Init
<1>4. Gates \subseteq Tasks
  BY TasksAssumption
<1>. QED BY <1>1, <1>2, <1>3, <1>4, FreshFacts DEF InductiveInv, DependencySafety,
            WaveInv, MemoryExtendsDisk, AtRest, ArtifactsInv, ArtifactsOnDisk, GatesMatch

\* Every step keeps the inductive invariant.
LEMMA NextInductive == InductiveInv /\ [Next]_vars => InductiveInv'
<1>. SUFFICES ASSUME InductiveInv, [Next]_vars
              PROVE  InductiveInv'
  OBVIOUS
<1>1. TypeOK' /\ PhaseInv'
  BY TypeStep, PhaseStep DEF InductiveInv
<1>2. DependencySafety' /\ StatusInv(state)' /\ StatusInv(saved)' /\ MemoryExtendsDisk'
  BY MemoryStep DEF DependencySafety, MemoryExtendsDisk, RespectsDependencies,
                    StatusInv, Extends
<1>3. WaveInv'
  BY WaveStep
<1>4. ArtifactsInv' /\ GatesMatch'
  BY RegisteredStep DEF Registered, ArtifactsInv, ArtifactsOnDisk, GatesMatch
<1>. QED BY <1>1, <1>2, <1>3, <1>4 DEF InductiveInv

(***************************************************************************)
(* The inductive invariant holds of every workflow, in every state.        *)
(***************************************************************************)
THEOREM Inductive == Spec => []InductiveInv
BY InitInductive, NextInductive, PTL DEF Spec

(***************************************************************************)
(* No task runs, completes or is skipped before its dependencies allow it, *)
(* through any number of crashes and resumes.                              *)
(***************************************************************************)
THEOREM DependencyOrder == Spec => []DependencySafety
<1>1. InductiveInv => DependencySafety
  BY DEF InductiveInv
<1>. QED BY <1>1, Inductive, PTL

(***************************************************************************)
(* An attempt is on record before its worker runs.                         *)
(***************************************************************************)
THEOREM AttemptOnRecord == Spec => []AttemptsRecordedFirst
<1>1. InductiveInv => AttemptsRecordedFirst
  <2>1. Work \subseteq Tasks
    BY DEF Work
  <2>. QED BY <2>1 DEF InductiveInv, WaveInv, AttemptsRecordedFirst
<1>. QED BY <1>1, Inductive, PTL

(***************************************************************************)
(* What a checkpoint registers is in the files.                            *)
(***************************************************************************)
THEOREM ArtifactsDurable == Spec => []RegisteredArtifactsOnDisk
<1>1. InductiveInv => RegisteredArtifactsOnDisk
  BY DEF InductiveInv, ArtifactsInv, RegisteredArtifactsOnDisk
<1>. QED BY <1>1, Inductive, PTL

(***************************************************************************)
(* A gate is open exactly when its task completed.                         *)
(***************************************************************************)
THEOREM GatesFollowTasks == Spec => []GatesMatch
<1>1. InductiveInv => GatesMatch
  BY DEF InductiveInv
<1>. QED BY <1>1, Inductive, PTL

\* The checkpoint changes only when it is replaced by what memory holds.
LEMMA CheckpointChange ==
  ASSUME InductiveInv, [Next]_vars
  PROVE  \/ saved' = saved
         \/ /\ saved'.status = state.status /\ saved'.attempts = state.attempts
            /\ saved'.retries = state.retries
            /\ Extends(state, saved)
<1>1. state \in WorkflowState
  BY DEF InductiveInv, TypeOK
<1>2. CASE Start \/ Resume
  BY <1>2 DEF Start, Resume, disk
<1>3. CASE SaveState
  BY <1>1, <1>3 DEF SaveState, WorkflowState, InductiveInv, MemoryExtendsDisk
<1>. QED BY <1>2, <1>3, StepCases, StepsMove, EndingStepFacts, QuietStepFacts

(***************************************************************************)
(* Whatever a checkpoint has settled, every later checkpoint repeats.      *)
(***************************************************************************)
THEOREM SettledForGood == Spec => CheckpointsOnlyAdvance
<1>1. ASSUME InductiveInv, [Next]_vars
      PROVE  [\A t \in Tasks :
                /\ saved.status[t] \in Settled => saved'.status[t] = saved.status[t]
                /\ saved'.attempts[t] >= saved.attempts[t]
                /\ saved'.retries[t] >= saved.retries[t]]_vars
  <2>1. /\ saved.attempts \in [Tasks -> Nat] /\ saved.retries \in [Tasks -> Nat]
    BY <1>1 DEF InductiveInv, TypeOK, WorkflowState
  <2>2. CASE saved' = saved
    BY <2>1, <2>2
  <2>3. CASE /\ saved'.status = state.status /\ saved'.attempts = state.attempts
             /\ saved'.retries = state.retries
             /\ Extends(state, saved)
    BY <2>3 DEF Extends
  <2>. QED BY <1>1, <2>2, <2>3, CheckpointChange
<1>. QED BY <1>1, Inductive, PTL DEF Spec, CheckpointsOnlyAdvance

(***************************************************************************)
(* The checkpoint file implements the ledger of DurableWorkflow.           *)
(***************************************************************************)
THEOREM Refinement == Spec => ImplementsDurableWorkflow
<1>1. Init => Durable!Init
  BY FreshFacts DEF Init, Durable!Init, Ledger, Settled
<1>2. ASSUME InductiveInv, [Next]_vars
      PROVE  [Durable!Advance]_(Ledger(saved))
  <2>1. CASE saved' = saved
    BY <2>1 DEF Ledger
  <2>2. CASE saved'.status = state.status /\ Extends(state, saved)
    <3>0. /\ state.status \in [Tasks -> TaskStatus] /\ saved.status \in [Tasks -> TaskStatus]
          /\ StatusInv(state)
      BY <1>2 DEF InductiveInv, TypeOK, WorkflowState
    <3>1. Ledger(saved)' = [t \in Tasks |-> IF state.status[t] \in Settled
                                            THEN state.status[t] ELSE "open"]
      BY <2>2 DEF Ledger
    <3>2. Ledger(saved)' \in [Tasks -> Durable!Entries]
      BY <3>1 DEF Durable!Entries, Settled
    <3>3. ASSUME NEW t \in Tasks, DependenciesCompleted(saved, t)
          PROVE  Durable!DependenciesSettled(t)
      BY <3>3, GraphAssumption DEF DependenciesCompleted, Durable!DependenciesSettled,
                                   Ledger, Settled
    <3>4. ASSUME NEW t \in Tasks
          PROVE  \/ Ledger(saved)'[t] = Ledger(saved)[t]
                 \/ /\ Ledger(saved)[t] = "open" /\ Ledger(saved)'[t] = "completed"
                    /\ Durable!DependenciesSettled(t)
                 \/ /\ Ledger(saved)[t] = "open" /\ Ledger(saved)'[t] = "cancelled"
                    /\ t \in Optional /\ Durable!DependenciesSettled(t)
                 \/ /\ Ledger(saved)[t] = "open" /\ Ledger(saved)'[t] = "escalated"
                    /\ \/ Durable!DependenciesSettled(t)
                       \/ \E d \in Deps[t] : Ledger(saved)'[d] \in {"cancelled", "escalated"}
      <4>1. Ledger(saved)[t] = IF saved.status[t] \in Settled THEN saved.status[t] ELSE "open"
        BY DEF Ledger
      <4>2. Ledger(saved)'[t] = IF state.status[t] \in Settled THEN state.status[t] ELSE "open"
        BY <3>1
      <4>3. CASE saved.status[t] \in Settled \/ state.status[t] \notin Settled
        BY <2>2, <4>1, <4>2, <4>3 DEF Extends
      <4>4. CASE saved.status[t] \notin Settled /\ state.status[t] \in {"completed", "cancelled"}
        <5>1. DependenciesCompleted(saved, t)
          BY <2>2, <4>4 DEF Extends
        <5>2. state.status[t] = "cancelled" => t \in Optional
          BY <3>0 DEF StatusInv
        <5>. QED BY <3>3, <4>1, <4>2, <4>4, <5>1, <5>2 DEF Settled
      <4>5. CASE saved.status[t] \notin Settled /\ state.status[t] = "escalated"
        <5>1. \/ DependenciesCompleted(saved, t)
              \/ \E d \in Deps[t] : state.status[d] \in {"cancelled", "escalated"}
          BY <2>2, <4>5 DEF Extends, Settled
        <5>2. (\E d \in Deps[t] : state.status[d] \in {"cancelled", "escalated"}) =>
                \E d \in Deps[t] : Ledger(saved)'[d] \in {"cancelled", "escalated"}
          BY <3>1, GraphAssumption DEF Settled
        <5>. QED BY <3>3, <4>1, <4>2, <4>5, <5>1, <5>2 DEF Settled
      <4>. QED BY <4>3, <4>4, <4>5 DEF Settled
    <3>. QED BY <3>2, <3>4 DEF Durable!Advance
  <2>. QED BY <1>2, <2>1, <2>2, CheckpointChange
<1>. QED BY <1>1, <1>2, Inductive, PTL DEF Spec, ImplementsDurableWorkflow, Durable!Spec

(***************************************************************************)
(* The limits on usage, workers and attempts, the truth of the summary and *)
(* of the event file, and what may reach the artifact files.               *)
(***************************************************************************)

-----------------------------------------------------------------------------
(* The usage *)

\* An account that has used nothing is within any limits.
LEMMA NothingUsedFits == Fits(NoUsage, Limits)
BY BudgetAssumption DEF Fits, NoUsage, Amounts, NoLimit

\* A moving step charges nothing, or charges what was found to fit.
LEMMA MovingUsage ==
  ASSUME InductiveInv, MovingStep
  PROVE  state'.usage = state.usage \/ Fits(state'.usage, Limits)
<1>0. state \in WorkflowState /\ now \in Nat
  BY DEF InductiveInv, TypeOK
<1>1. CASE Finish \/ StartWave \/ WaveDone
  BY <1>0, <1>1 DEF Finish, StartWave, WaveDone, WorkflowState
<1>2. CASE BeginIteration \/ SkipUnavailable
  BY <1>0, <1>2, PassFacts DEF BeginIteration, SkipUnavailable
<1>3. ASSUME NEW t \in Tasks, OverBudget(t) \/ PropagateFailure(t)
      PROVE  state'.usage = state.usage
  BY <1>0, <1>3, EscalateFacts DEF OverBudget, PropagateFailure
<1>4. ASSUME NEW t \in Tasks, LeaseGranted(t)
      PROVE  state'.usage = state.usage
  BY <1>0, <1>4, LaunchFacts DEF LeaseGranted
<1>5. ASSUME NEW t \in Tasks, ApplyRetry(t)
      PROVE  state'.usage = state.usage
  BY <1>0, <1>5, RetryFacts DEF ApplyRetry
<1>6. ASSUME NEW t \in Tasks, ApplyEscalated(t)
      PROVE  state'.usage = state.usage
  BY <1>0, <1>6, RejectFacts DEF ApplyEscalated
<1>7. ASSUME NEW t \in Tasks, ApplyCompleted(t)
      PROVE  Fits(state'.usage, Limits)
  <2>1. results[t] \in WorkerResult
    BY <1>7, ResultType DEF ApplyCompleted, InductiveInv
  <2>2. state'.usage = Project(state.usage, ChargeFor(t, results[t]), now)
    BY <1>0, <1>7, <2>1, CompleteFacts DEF ApplyCompleted
  <2>3. ~ Exceeded(Project(state.usage, ChargeFor(t, results[t]), now), Limits, now)
    BY <1>7 DEF ApplyCompleted, Accepted, Chargeable, CanStart
  <2>. QED BY <2>2, <2>3 DEF Exceeded
<1>. QED BY <1>1, <1>2, <1>3, <1>4, <1>5, <1>6, <1>7 DEF MovingStep

\* Charges, observations of the clock and restarts keep the account within its limits.
LEMMA UsageStep ==
  ASSUME InductiveInv, UsageWithinLimits, [Next]_vars
  PROVE  UsageWithinLimits'
<1>0. state \in WorkflowState /\ saved \in WorkflowState
  BY DEF InductiveInv, TypeOK
<1>1. CASE Start
  BY <1>1, NothingUsedFits DEF Start, disk, FreshState, UsageWithinLimits
<1>2. CASE Resume
  <2>1. state'.usage = saved.usage /\ saved' = saved
    BY <1>0, <1>2, PassFacts DEF Resume, disk
  <2>. QED BY <2>1 DEF UsageWithinLimits
<1>3. CASE SaveState
  <2>1. state'.usage = Observed(state.usage, now) /\ saved' = state'
    BY <1>0, <1>3 DEF SaveState, WorkflowState
  <2>2. Fits(Observed(state.usage, now), Limits)
    BY <1>3 DEF SaveState, Exceeded
  <2>. QED BY <2>1, <2>2 DEF UsageWithinLimits
<1>4. CASE MovingStep
  BY <1>4, MovingUsage, StepsMove DEF UsageWithinLimits
<1>5. CASE EndingStep
  BY <1>5, EndingStepFacts, NothingUsedFits DEF FreshState, UsageWithinLimits
<1>6. CASE QuietStep
  BY <1>6, QuietStepFacts DEF UsageWithinLimits
<1>. QED BY <1>1, <1>2, <1>3, <1>4, <1>5, <1>6, StepCases

-----------------------------------------------------------------------------
(* The verdict *)

\* Whether a workflow has ended, and how, depends on its statuses and gates alone.
LEMMA SameVerdict ==
  ASSUME NEW s, NEW n, \A t \in Tasks : n.status[t] = s.status[t], n.gates = s.gates
  PROVE  (IsTerminal(n) <=> IsTerminal(s)) /\ (Succeeded(n) <=> Succeeded(s))
BY TasksAssumption DEF IsTerminal, Succeeded

\* Gates follow the statuses.
LEMMA SameGates ==
  ASSUME InductiveInv, GatesMatch', NEW s \in {state, saved}, NEW n \in {state', saved'},
         \A t \in Tasks : n.status[t] = s.status[t]
  PROVE  n.gates = s.gates
<1>1. Gates \subseteq Tasks
  BY TasksAssumption
<1>2. s.gates = {t \in Gates : s.status[t] = "completed"}
  BY DEF InductiveInv, GatesMatch
<1>3. n.gates = {t \in Gates : n.status[t] = "completed"}
  BY DEF GatesMatch
<1>. QED BY <1>1, <1>2, <1>3

\* A moving step that does not write a phase keeps it.
LEMMA MovingPhase ==
  ASSUME InductiveInv, MovingStep
  PROVE  \/ Finish
         \/ state'.phase \in {"executing", "integrating"}
         \/ state'.phase = state.phase
<1>0. state \in WorkflowState /\ now \in Nat
  BY DEF InductiveInv, TypeOK
<1>1. CASE StartWave \/ WaveDone
  BY <1>0, <1>1 DEF StartWave, WaveDone, WorkflowState
<1>2. CASE BeginIteration \/ SkipUnavailable
  BY <1>0, <1>2, PassFacts DEF BeginIteration, SkipUnavailable
<1>3. ASSUME NEW t \in Tasks, OverBudget(t) \/ PropagateFailure(t)
      PROVE  state'.phase = state.phase
  BY <1>0, <1>3, EscalateFacts DEF OverBudget, PropagateFailure
<1>4. ASSUME NEW t \in Tasks, LeaseGranted(t)
      PROVE  state'.phase = state.phase
  BY <1>0, <1>4, LaunchFacts DEF LeaseGranted
<1>5. ASSUME NEW t \in Tasks, ApplyRetry(t)
      PROVE  state'.phase = state.phase
  BY <1>0, <1>5, RetryFacts DEF ApplyRetry
<1>6. ASSUME NEW t \in Tasks, ApplyEscalated(t)
      PROVE  state'.phase = state.phase
  BY <1>0, <1>6, RejectFacts DEF ApplyEscalated
<1>7. ASSUME NEW t \in Tasks, ApplyCompleted(t)
      PROVE  state'.phase = state.phase
  <2>1. results[t] \in WorkerResult
    BY <1>7, ResultType DEF ApplyCompleted, InductiveInv
  <2>. QED BY <1>0, <1>7, <2>1, CompleteFacts DEF ApplyCompleted
<1>. QED BY <1>1, <1>2, <1>3, <1>4, <1>5, <1>6, <1>7 DEF MovingStep

\* A settled task does not move, so that a workflow that has ended stays as it is.
LEMMA EndedStaysEnded ==
  ASSUME InductiveInv, MovingStep, IsTerminal(state)
  PROVE  \A t \in Tasks : state'.status[t] = state.status[t]
BY StepsMove DEF Move, MayMove, IsTerminal

\* Nothing but the end of run() writes a final phase, and it describes the tasks.
LEMMA MovingVerdict ==
  ASSUME InductiveInv, GatesMatch', Verdict(state, state.phase), MovingStep
  PROVE  Verdict(state', state'.phase)
<1>0. state \in WorkflowState
  BY DEF InductiveInv, TypeOK
<1>1. CASE Finish
  <2>1. /\ state'.phase = IF Succeeded(state) THEN "completed" ELSE "failed"
        /\ state'.status = state.status /\ IsTerminal(state)
    BY <1>0, <1>1 DEF Finish, WorkflowState
  <2>2. state'.gates = state.gates
    BY <2>1, SameGates
  <2>. QED BY <2>1, <2>2, SameVerdict DEF Verdict
<1>2. CASE state'.phase \in {"executing", "integrating"}
  BY <1>2 DEF Verdict
<1>3. CASE state'.phase = state.phase
  <2>1. CASE IsTerminal(state)
    <3>1. \A t \in Tasks : state'.status[t] = state.status[t]
      BY <2>1, EndedStaysEnded
    <3>2. state'.gates = state.gates
      BY <3>1, SameGates
    <3>. QED BY <1>3, <3>1, <3>2, SameVerdict DEF Verdict
  <2>2. CASE ~ IsTerminal(state)
    BY <1>3, <2>2 DEF Verdict
  <2>. QED BY <2>1, <2>2
<1>. QED BY <1>1, <1>2, <1>3, MovingPhase

\* What a summary says is said of a checkpoint that stays.
LEMMA VerdictStep ==
  ASSUME InductiveInv, InductiveInv', VerdictInv, [Next]_vars
  PROVE  VerdictInv'
<1>0. /\ state \in WorkflowState /\ saved \in WorkflowState
      /\ GatesMatch'
  BY DEF InductiveInv, TypeOK
<1>1. CASE Start
  <2>1. /\ state' = FreshState /\ saved' = saved /\ summary' = summary /\ pc' = "save"
    BY <1>1 DEF Start, disk, Checkpoint
  <2>. QED BY <2>1 DEF VerdictInv, Verdict, FreshState
<1>2. CASE Resume
  <2>1. /\ state' = RecoverInterrupted(saved)
        /\ saved' = saved /\ summary' = summary /\ pc' = "save"
    BY <1>2 DEF Resume, disk, Checkpoint
  <2>2. state'.phase = saved.phase
    BY <1>0, <2>1, PassFacts
  <2>3. CASE IsTerminal(saved)
    <3>1. \A t \in Tasks : state'.status[t] = saved.status[t]
      BY <1>0, <2>1, <2>3 DEF RecoverInterrupted, WorkflowState, IsTerminal, Settled, Active
    <3>2. state'.gates = saved.gates
      BY <1>0, <3>1, SameGates
    <3>. QED BY <2>1, <2>2, <3>1, <3>2, SameVerdict DEF VerdictInv, Verdict
  <2>4. CASE ~ IsTerminal(saved)
    BY <2>1, <2>2, <2>4 DEF VerdictInv, Verdict
  <2>. QED BY <2>3, <2>4
<1>3. CASE SaveState
  <2>1. /\ saved' = state' /\ state'.status = state.status /\ state'.phase = state.phase
        /\ summary' = summary /\ pc = "save" /\ pc' = "log"
    BY <1>0, <1>3 DEF SaveState, WorkflowState
  <2>2. state'.gates = state.gates
    BY <1>0, <2>1, SameGates
  <2>3. Verdict(state', state'.phase)
    BY <2>1, <2>2, SameVerdict DEF VerdictInv, Verdict
  <2>4. Verdict(saved', summary')
    <3>1. CASE IsTerminal(saved)
      <4>1. \A t \in Tasks : state'.status[t] = saved.status[t]
        BY <2>1, <3>1 DEF InductiveInv, MemoryExtendsDisk, Extends, IsTerminal
      <4>2. state'.gates = saved.gates
        BY <1>0, <4>1, SameGates
      <4>. QED BY <2>1, <4>1, <4>2, SameVerdict DEF VerdictInv, Verdict
    <3>2. CASE ~ IsTerminal(saved)
      BY <2>1, <3>2 DEF VerdictInv, Verdict
    <3>. QED BY <3>1, <3>2
  <2>. QED BY <2>1, <2>3, <2>4 DEF VerdictInv
<1>4. CASE MovingStep
  <2>1. saved' = saved /\ pc' # "off"
    BY <1>4, StepsMove, MovingStepFacts
  <2>2. summary' = summary
    BY <1>4 DEF MovingStep, Finish, BeginIteration, SkipUnavailable, StartWave, WaveDone,
                OverBudget, LeaseGranted, PropagateFailure, ApplyCompleted, ApplyRetry,
                ApplyEscalated, Release, disk
  <2>. QED BY <1>0, <1>4, <2>1, <2>2, MovingVerdict DEF VerdictInv
<1>5. CASE EndingStep
  <2>1. pc' = "off" /\ state' = FreshState /\ saved' = saved
    BY <1>5, EndingStepFacts
  <2>2. CASE WriteSummary
    <3>1. summary' = state.phase /\ state = saved
      BY <2>2 DEF WriteSummary, InductiveInv, MemoryExtendsDisk, AtRest
    <3>2. state.phase \in {"completed", "failed"}
      BY <2>2 DEF WriteSummary, InductiveInv, PhaseInv, Ending
    <3>. QED BY <2>1, <3>1, <3>2 DEF VerdictInv, Verdict, FreshState
  <2>3. CASE ~ WriteSummary
    <3>1. summary' = summary /\ fault' # "none"
      BY <1>5, <2>3 DEF EndingStep, SaveRaises, Stall, Crash, LeaseLost, Ends, disk
    <3>. QED BY <2>1, <3>1 DEF VerdictInv, Verdict, FreshState
  <2>. QED BY <2>2, <2>3
<1>6. CASE QuietStep
  <2>1. state' = state /\ saved' = saved /\ (pc' # "off" => pc # "off")
    BY <1>6, QuietStepFacts
  <2>2. CASE Pause
    BY <2>1, <2>2 DEF Pause, VerdictInv, Verdict
  <2>3. CASE ~ Pause
    <3>1. UNCHANGED <<summary, fault, starts>> /\ (pc' = "off" => pc = "off")
      <4>1. CASE SaveJournal
        BY <4>1 DEF SaveJournal, InductiveInv, TypeOK
      <4>2. CASE NothingLeased \/ LoopAgain \/ Tick \/ UNCHANGED vars
        BY <4>2 DEF NothingLeased, LoopAgain, Tick, vars, disk, memory, Checkpoint
      <4>3. ASSUME NEW t \in Tasks, \/ NoFreeAgent(t) \/ LeaseRefused(t)
                                    \/ LeaveOpen(t) \/ WorkerReturns(t)
            PROVE  UNCHANGED <<summary, fault, starts, pc>>
        BY <4>3 DEF NoFreeAgent, LeaseRefused, LeaveOpen, WorkerReturns, disk
      <4>. QED BY <1>6, <2>3, <4>1, <4>2, <4>3 DEF QuietStep
    <3>. QED BY <2>1, <3>1 DEF VerdictInv
  <2>. QED BY <2>2, <2>3
<1>. QED BY <1>1, <1>2, <1>3, <1>4, <1>5, <1>6, StepCases

-----------------------------------------------------------------------------
(* The counters *)

\* Counters and statuses decide; more processes allow more attempts.
LEMMA CountedStays ==
  ASSUME NEW s \in WorkflowState, NEW n \in WorkflowState, NEW p \in Nat, NEW q \in Nat,
         p <= q, Counted(s, p),
         \A t \in Tasks : /\ n.attempts[t] = s.attempts[t] /\ n.retries[t] = s.retries[t]
                          /\ n.status[t] = "running" => s.status[t] = "running"
                          /\ n.status[t] \in Open => s.status[t] \in Open
  PROVE  Counted(n, q)
<1>. SUFFICES ASSUME NEW t \in Tasks
              PROVE  /\ n.retries[t] < MaxAttempts[t]
                     /\ n.retries[t] <= n.attempts[t]
                     /\ n.status[t] = "running" => n.retries[t] < n.attempts[t]
                     /\ n.attempts[t] + 1 <= n.retries[t] + q
                                             + (IF n.status[t] \in Open THEN 0 ELSE 1)
  BY DEF Counted
<1>1. s.attempts[t] \in Nat /\ s.retries[t] \in Nat
  BY DEF WorkflowState
<1>2. /\ s.retries[t] < MaxAttempts[t]
      /\ s.retries[t] <= s.attempts[t]
      /\ s.status[t] = "running" => s.retries[t] < s.attempts[t]
      /\ s.attempts[t] + 1 <= s.retries[t] + p + (IF s.status[t] \in Open THEN 0 ELSE 1)
  BY DEF Counted
<1>. QED BY <1>1, <1>2

\* An attempt is started: it is a first one, or a retry or an interruption came before.
LEMMA CountedLaunch ==
  ASSUME NEW s \in WorkflowState, NEW n \in WorkflowState, NEW p \in Nat, NEW t \in Tasks,
         Counted(s, p), s.status[t] = "ready",
         n.status = [s.status EXCEPT ![t] = "running"],
         n.attempts = [s.attempts EXCEPT ![t] = @ + 1], n.retries = s.retries
  PROVE  Counted(n, p)
<1>. SUFFICES ASSUME NEW u \in Tasks
              PROVE  /\ n.retries[u] < MaxAttempts[u]
                     /\ n.retries[u] <= n.attempts[u]
                     /\ n.status[u] = "running" => n.retries[u] < n.attempts[u]
                     /\ n.attempts[u] + 1 <= n.retries[u] + p
                                             + (IF n.status[u] \in Open THEN 0 ELSE 1)
  BY DEF Counted
<1>1. /\ s.attempts \in [Tasks -> Nat] /\ s.retries \in [Tasks -> Nat]
      /\ s.status \in [Tasks -> TaskStatus]
  BY DEF WorkflowState
<1>2. /\ s.retries[u] < MaxAttempts[u]
      /\ s.retries[u] <= s.attempts[u]
      /\ s.status[u] = "running" => s.retries[u] < s.attempts[u]
      /\ s.attempts[u] + 1 <= s.retries[u] + p + (IF s.status[u] \in Open THEN 0 ELSE 1)
  BY DEF Counted
<1>3. CASE u = t
  BY <1>1, <1>2, <1>3 DEF Open
<1>4. CASE u # t
  BY <1>1, <1>2, <1>4
<1>. QED BY <1>3, <1>4

\* A retry is granted below the maximum of attempts, so below that of retries.
LEMMA CountedRetry ==
  ASSUME NEW s \in WorkflowState, NEW n \in WorkflowState, NEW p \in Nat, NEW t \in Tasks,
         Counted(s, p), s.status[t] = "running", s.attempts[t] < MaxAttempts[t],
         n.status = [s.status EXCEPT ![t] = "retry"],
         n.attempts = s.attempts, n.retries = [s.retries EXCEPT ![t] = @ + 1]
  PROVE  Counted(n, p)
<1>. SUFFICES ASSUME NEW u \in Tasks
              PROVE  /\ n.retries[u] < MaxAttempts[u]
                     /\ n.retries[u] <= n.attempts[u]
                     /\ n.status[u] = "running" => n.retries[u] < n.attempts[u]
                     /\ n.attempts[u] + 1 <= n.retries[u] + p
                                             + (IF n.status[u] \in Open THEN 0 ELSE 1)
  BY DEF Counted
<1>1. /\ s.attempts \in [Tasks -> Nat] /\ s.retries \in [Tasks -> Nat]
      /\ s.status \in [Tasks -> TaskStatus] /\ MaxAttempts[u] \in Nat
  BY BudgetAssumption DEF WorkflowState
<1>2. /\ s.retries[u] < MaxAttempts[u]
      /\ s.retries[u] <= s.attempts[u]
      /\ s.status[u] = "running" => s.retries[u] < s.attempts[u]
      /\ s.attempts[u] + 1 <= s.retries[u] + p + (IF s.status[u] \in Open THEN 0 ELSE 1)
  BY DEF Counted
<1>3. CASE u = t
  BY <1>1, <1>2, <1>3 DEF Open
<1>4. CASE u # t
  BY <1>1, <1>2, <1>4
<1>. QED BY <1>3, <1>4

\* An interrupted attempt is paid for by the process that finds it.
LEMMA CountedRecovery ==
  ASSUME NEW s \in WorkflowState, NEW p \in Nat, Counted(s, p), StatusInv(s)
  PROVE  Counted(RecoverInterrupted(s), p + 1)
<1>. DEFINE n == RecoverInterrupted(s)
<1>1. n \in WorkflowState /\ n.attempts = s.attempts /\ n.retries = s.retries
  BY PassFacts
<1>2. \A t \in Tasks : n.status[t] = IF s.status[t] \in Active THEN "ready" ELSE s.status[t]
  BY DEF RecoverInterrupted, WorkflowState
<1>. HIDE DEF n
<1>. SUFFICES ASSUME NEW t \in Tasks
              PROVE  /\ n.retries[t] < MaxAttempts[t]
                     /\ n.retries[t] <= n.attempts[t]
                     /\ n.status[t] = "running" => n.retries[t] < n.attempts[t]
                     /\ n.attempts[t] + 1 <= n.retries[t] + (p + 1)
                                             + (IF n.status[t] \in Open THEN 0 ELSE 1)
  BY DEF Counted, n
<1>3. s.attempts[t] \in Nat /\ s.retries[t] \in Nat
  BY DEF WorkflowState
<1>4. /\ s.retries[t] < MaxAttempts[t]
      /\ s.retries[t] <= s.attempts[t]
      /\ s.attempts[t] + 1 <= s.retries[t] + p + (IF s.status[t] \in Open THEN 0 ELSE 1)
  BY DEF Counted
<1>5. n.status[t] # "running"
  BY <1>2 DEF Active
<1>6. n.attempts[t] = s.attempts[t] /\ n.retries[t] = s.retries[t]
  BY <1>1
<1>. QED BY <1>3, <1>4, <1>5, <1>6

\* Nothing was tried yet.
LEMMA CountedFresh ==
  ASSUME NEW p \in Nat, p >= 1
  PROVE  Counted(FreshState, p) /\ Counted(NoCheckpoint, p)
<1>1. ASSUME NEW t \in Tasks
      PROVE  MaxAttempts[t] >= 1 /\ MaxAttempts[t] \in Nat
  BY BudgetAssumption
<1>. QED BY <1>1, FreshFacts DEF Counted, Open

\* A moving step starts an attempt, grants a retry, or touches no counter.
LEMMA MovingCounted ==
  ASSUME InductiveInv, MovingStep, NEW p \in Nat, Counted(state, p)
  PROVE  Counted(state', p)
<1>0. /\ state \in WorkflowState /\ now \in Nat /\ state' \in WorkflowState
      /\ state.status \in [Tasks -> TaskStatus]
  BY StepsMove DEF InductiveInv, TypeOK, Move, WorkflowState
<1>1. CASE Finish \/ StartWave \/ WaveDone
  <2>1. /\ state'.status = state.status /\ state'.attempts = state.attempts
        /\ state'.retries = state.retries
    BY <1>0, <1>1 DEF Finish, StartWave, WaveDone, WorkflowState
  <2>. QED BY <2>1 DEF Counted
<1>2. CASE BeginIteration
  <2>1. state'.attempts = state.attempts /\ state'.retries = state.retries
    BY <1>0, <1>2, PassFacts DEF BeginIteration
  <2>2. \A t \in Tasks : /\ state'.status[t] = "running" => state.status[t] = "running"
                         /\ state'.status[t] \in Open => state.status[t] \in Open
    BY <1>0, <1>2 DEF BeginIteration, MarkReady, Open, WorkflowState
  <2>. QED BY <1>0, <2>1, <2>2, CountedStays
<1>3. CASE SkipUnavailable
  <2>1. state'.attempts = state.attempts /\ state'.retries = state.retries
    BY <1>0, <1>3, PassFacts DEF SkipUnavailable
  <2>2. \A t \in Tasks : /\ state'.status[t] = "running" => state.status[t] = "running"
                         /\ state'.status[t] \in Open => state.status[t] \in Open
    BY <1>0, <1>3 DEF SkipUnavailable, SkipOptional, Open, WorkflowState
  <2>. QED BY <1>0, <2>1, <2>2, CountedStays
<1>4. ASSUME NEW t \in Tasks, NEW x \in {"escalated", "completed"},
             state'.status = [state.status EXCEPT ![t] = x],
             state'.attempts = state.attempts, state'.retries = state.retries
      PROVE  Counted(state', p)
  <2>1. \A u \in Tasks : /\ state'.status[u] = "running" => state.status[u] = "running"
                         /\ state'.status[u] \in Open => state.status[u] \in Open
    BY <1>0, <1>4 DEF Open
  <2>. QED BY <1>0, <1>4, <2>1, CountedStays
<1>5. ASSUME NEW t \in Tasks, OverBudget(t) \/ PropagateFailure(t)
      PROVE  Counted(state', p)
  <2>1. /\ state'.status = [state.status EXCEPT ![t] = "escalated"]
        /\ state'.attempts = state.attempts /\ state'.retries = state.retries
    BY <1>0, <1>5, EscalateFacts DEF OverBudget, PropagateFailure
  <2>. QED BY <1>4, <2>1
<1>6. ASSUME NEW t \in Tasks, ApplyEscalated(t)
      PROVE  Counted(state', p)
  <2>1. /\ state'.status = [state.status EXCEPT ![t] = "escalated"]
        /\ state'.attempts = state.attempts /\ state'.retries = state.retries
    BY <1>0, <1>6, RejectFacts DEF ApplyEscalated
  <2>. QED BY <1>4, <2>1
<1>7. ASSUME NEW t \in Tasks, ApplyCompleted(t)
      PROVE  Counted(state', p)
  <2>1. results[t] \in WorkerResult
    BY <1>7, ResultType DEF ApplyCompleted, InductiveInv
  <2>2. /\ state'.status = [state.status EXCEPT ![t] = "completed"]
        /\ state'.attempts = state.attempts /\ state'.retries = state.retries
    BY <1>0, <1>7, <2>1, CompleteFacts DEF ApplyCompleted
  <2>. QED BY <1>4, <2>2
<1>8. ASSUME NEW t \in Tasks, LeaseGranted(t)
      PROVE  Counted(state', p)
  <2>1. state.status[t] = "ready"
    BY <1>8 DEF LeaseGranted, Leasing, IsNext, InductiveInv, WaveInv
  <2>2. /\ state'.status = [state.status EXCEPT ![t] = "running"]
        /\ state'.attempts = [state.attempts EXCEPT ![t] = @ + 1]
        /\ state'.retries = state.retries
    BY <1>0, <1>8, LaunchFacts DEF LeaseGranted
  <2>. QED BY <1>0, <2>1, <2>2, CountedLaunch
<1>9. ASSUME NEW t \in Tasks, ApplyRetry(t)
      PROVE  Counted(state', p)
  <2>1. state.status[t] = "running" /\ state.attempts[t] < MaxAttempts[t]
    BY <1>9 DEF ApplyRetry, Applying, MayRetry, InductiveInv, WaveInv
  <2>2. /\ state'.status = [state.status EXCEPT ![t] = "retry"]
        /\ state'.attempts = state.attempts
        /\ state'.retries = [state.retries EXCEPT ![t] = @ + 1]
    BY <1>0, <1>9, RetryFacts DEF ApplyRetry
  <2>. QED BY <1>0, <2>1, <2>2, CountedRetry
<1>. QED BY <1>1, <1>2, <1>3, <1>5, <1>6, <1>7, <1>8, <1>9 DEF MovingStep

\* Only a start is counted.
LEMMA StartsCount ==
  ASSUME [Next]_vars
  PROVE  Start \/ Resume \/ starts' = starts
BY DEF Next, SupervisorStep, LeaseStep, PropagateStep, ApplyStep, Pause, Tick, Crash,
       SaveState, SaveRaises, SaveJournal, Finish, WriteSummary, BeginIteration,
       SkipUnavailable, StartWave, NothingLeased, LoopAgain, Stall, WaveDone, NoFreeAgent,
       OverBudget, LeaseRefused, LeaseGranted, PropagateFailure, LeaveOpen, ApplyCompleted,
       ApplyRetry, ApplyEscalated, LeaseLost, WorkerReturns, Release, Ends, vars

\* The counters stay explained by retries and interruptions.
LEMMA CountersStep ==
  ASSUME InductiveInv, CountersInv, [Next]_vars
  PROVE  CountersInv'
<1>0. /\ state \in WorkflowState /\ saved \in WorkflowState /\ starts \in Nat
      /\ StatusInv(saved)
  BY DEF InductiveInv, TypeOK
<1>00. Processes \in Nat /\ Processes >= 1
  BY <1>0 DEF Processes
<1>1. CASE Start
  <2>1. state' = FreshState /\ saved' = NoCheckpoint /\ starts' = starts + 1
    BY <1>1 DEF Start, disk
  <2>2. Processes' \in Nat /\ Processes' >= 1 /\ starts' # 0
    BY <1>0, <2>1 DEF Processes
  <2>. QED BY <2>1, <2>2, CountedFresh DEF CountersInv
<1>2. CASE Resume
  <2>1. /\ state' = RecoverInterrupted(saved) /\ saved' = saved /\ starts' = starts + 1
        /\ saved # NoCheckpoint
    BY <1>2 DEF Resume, disk
  <2>2. starts # 0 /\ Processes' = Processes + 1
    BY <1>0, <2>1 DEF CountersInv, Processes
  <2>3. Counted(saved, Processes + 1)
    BY <1>0, <1>00, CountedStays DEF CountersInv
  <2>. QED BY <1>0, <1>00, <2>1, <2>2, <2>3, CountedRecovery DEF CountersInv
<1>3. CASE starts' = starts
  <2>1. Processes' = Processes
    BY <1>3 DEF Processes
  <2>2. CASE SaveState
    <3>1. /\ saved' = state' /\ state'.status = state.status
          /\ state'.attempts = state.attempts /\ state'.retries = state.retries
      BY <1>0, <2>2 DEF SaveState, WorkflowState
    <3>2. starts # 0
      BY <2>2 DEF SaveState, CountersInv
    <3>. QED BY <1>3, <2>1, <3>1, <3>2 DEF CountersInv, Counted
  <2>3. CASE MovingStep
    BY <1>00, <1>3, <2>1, <2>3, MovingCounted, MovingStepFacts, StepsMove DEF CountersInv
  <2>4. CASE EndingStep
    BY <1>00, <1>3, <2>1, <2>4, EndingStepFacts, CountedFresh DEF CountersInv
  <2>5. CASE QuietStep
    BY <1>3, <2>1, <2>5, QuietStepFacts DEF CountersInv
  <2>6. CASE Start \/ Resume
    BY <1>1, <1>2, <2>6
  <2>. QED BY <2>2, <2>3, <2>4, <2>5, <2>6, StepCases
<1>. QED BY <1>1, <1>2, <1>3, StartsCount

-----------------------------------------------------------------------------
(* The wave *)

\* The prefix of a normalized scope is a sequence.
LEMMA PrefixIsSequence ==
  ASSUME NEW s \in Seq(Nat) \ {<< >>}
  PROVE  ScopePrefix(s) \in Seq(Nat)
BY DEF ScopePrefix

\* Scopes overlap in both directions, as do sets of them.
LEMMA OverlapSymmetric ==
  ASSUME NEW S, NEW R, \A s \in S \cup R : s \in Seq(Nat) \ {<< >>}, ScopesOverlap(S, R)
  PROVE  ScopesOverlap(R, S)
<1>1. PICK s \in S, r \in R : PathsOverlap(s, r)
  BY DEF ScopesOverlap
<1>. DEFINE l == ScopePrefix(s)
            k == ScopePrefix(r)
<1>2. Len(l) \in Nat /\ Len(k) \in Nat
  BY PrefixIsSequence
<1>3. /\ \A i \in 1 .. Len(l) : i <= Len(k) => l[i] = k[i]
      /\ \/ Len(l) = Len(k)
         \/ Len(l) < Len(k) /\ IsSubtree(s)
         \/ Len(k) < Len(l) /\ IsSubtree(r)
  BY <1>1 DEF PathsOverlap
<1>4. \A i \in 1 .. Len(k) : i <= Len(l) => k[i] = l[i]
  BY <1>2, <1>3
<1>5. PathsOverlap(r, s)
  BY <1>3, <1>4 DEF PathsOverlap
<1>. QED BY <1>5 DEF ScopesOverlap

\* What a lease covers is among the files that its task may touch.
LEMMA CanonicalScopesType ==
  ASSUME NEW t \in Tasks
  PROVE  \A s \in CanonicalScopes(Scopes[t]) : s \in Seq(Nat) \ {<< >>}
BY ScopesAssumption DEF CanonicalScopes

\* A wave that loses tasks and leases stays exclusive.
LEMMA FewerLeases ==
  ASSUME InductiveInv, LeasesInv, leases' \subseteq leases,
         now' >= now \/ leases = {}, now' \in Nat,
         \A t \in Tasks : agent'[t] \in {agent[t], NoAgent},
         \A l \in leases' : agent'[l.task] = agent[l.task]
  PROVE  LeasesInv'
<1>0. now \in Nat /\ IsFiniteSet(Tasks) /\ MaxWorkers \in Nat
  BY TasksAssumption, WorkersAssumption DEF InductiveInv, TypeOK
<1>1. Work' \subseteq Work /\ Work \subseteq Tasks
  BY DEF Work
<1>2. IsFiniteSet(Work) /\ IsFiniteSet(Work')
  BY <1>0, <1>1, FS_Subset
<1>3. Cardinality(Work') <= Cardinality(Work) /\ Cardinality(Work') \in Nat /\ Cardinality(Work) \in Nat
  BY <1>1, <1>2, FS_Subset, FS_CardinalityType
<1>4. Cardinality(Work') <= MaxWorkers
  BY <1>0, <1>3 DEF LeasesInv
<1>5. \A t \in Work' : agent'[t] = agent[t]
  BY DEF Work
<1>6. \A t, u \in Work' : agent'[t] = agent'[u] => t = u
  BY <1>1, <1>5 DEF LeasesInv
<1>7. \A l \in leases' : /\ l.task \in Work' /\ agent'[l.task] = l.agent
                         /\ l.scopes = CanonicalScopes(Scopes[l.task])
  BY DEF LeasesInv, Work
<1>8. \A l \in leases : l.expires \in Nat
  BY DEF InductiveInv, TypeOK
<1>9. Live(leases', now') \subseteq Live(leases, now)
  BY <1>0, <1>8 DEF Live
<1>10. \A l, m \in Live(leases', now') : l.task # m.task => ~ ScopesOverlap(l.scopes, m.scopes)
  BY <1>9 DEF LeasesInv
<1>. QED BY <1>4, <1>6, <1>7, <1>10 DEF LeasesInv

\* A new lease is held against all live ones, and its agent had none.
LEMMA OneMoreLease ==
  ASSUME InductiveInv, LeasesInv, NEW t \in Tasks, LeaseGranted(t)
  PROVE  LeasesInv'
<1>0. /\ now \in Nat /\ IsFiniteSet(Tasks) /\ MaxWorkers \in Nat /\ TTL \in Nat
      /\ agent \in [Tasks -> Agents \cup {NoAgent}]
  BY TasksAssumption, WorkersAssumption DEF InductiveInv, TypeOK
<1>1. PICK a \in Agents :
        /\ Chosen(t, a) /\ Acquirable(t, a)
        /\ leases' = Live(leases, now) \cup {LeaseOf(t, a, now)}
        /\ agent' = [agent EXCEPT ![t] = a]
  BY DEF LeaseGranted
<1>2. /\ now' = now /\ state.status[t] = "ready" /\ Cardinality(Work) < MaxWorkers
  BY DEF LeaseGranted, Leasing, IsNext, InductiveInv, WaveInv
<1>3. t \notin Work /\ a # NoAgent /\ a \notin BusyAgents
  BY <1>1, <1>2, WorkersAssumption
     DEF InductiveInv, WaveInv, Chosen, Selectable, NoAgent
<1>4. Work' = Work \cup {t} /\ Work \subseteq Tasks
  BY <1>0, <1>1, <1>3 DEF Work
<1>5. /\ IsFiniteSet(Work) /\ Cardinality(Work) \in Nat
      /\ Cardinality(Work') = Cardinality(Work) + 1
  BY <1>0, <1>3, <1>4, FS_Subset, FS_CardinalityType, FS_AddElement
<1>6. Cardinality(Work') <= MaxWorkers
  BY <1>0, <1>2, <1>5
<1>7. \A u \in Work : agent'[u] = agent[u] /\ agent[u] # a
  BY <1>0, <1>1, <1>3, <1>4 DEF BusyAgents
<1>8. agent'[t] = a
  BY <1>0, <1>1
<1>9. \A u, v \in Work' : agent'[u] = agent'[v] => u = v
  BY <1>4, <1>7, <1>8 DEF LeasesInv
<1>. DEFINE w == LeaseOf(t, a, now)
<1>10. /\ w.task = t /\ w.agent = a /\ w.scopes = CanonicalScopes(Scopes[t])
       /\ w.access = "write" /\ w.shared = FALSE
  BY DEF LeaseOf
<1>. HIDE DEF w
<1>11. \A l \in Live(leases, now) : l \in leases
  BY DEF Live
<1>12. \A l \in Live(leases, now) :
         /\ l.task \in Work /\ agent[l.task] = l.agent
         /\ l.scopes = CanonicalScopes(Scopes[l.task])
  BY <1>11 DEF LeasesInv
<1>13. \A l \in leases' : /\ l.task \in Work' /\ agent'[l.task] = l.agent
                          /\ l.scopes = CanonicalScopes(Scopes[l.task])
  BY <1>1, <1>4, <1>7, <1>8, <1>10, <1>12 DEF w
<1>14. ASSUME NEW l \in Live(leases, now)
       PROVE  ~ ScopesOverlap(w.scopes, l.scopes) /\ ~ ScopesOverlap(l.scopes, w.scopes)
  <2>1. Compatible(l, w)
    BY <1>1, <1>14 DEF Acquirable, Grantable, w
  <2>2. l.agent # w.agent
    BY <1>7, <1>10, <1>12, <1>14
  <2>3. ~ ScopesOverlap(w.scopes, l.scopes)
    BY <1>10, <2>1, <2>2 DEF Compatible
  <2>4. \A s \in w.scopes \cup l.scopes : s \in Seq(Nat) \ {<< >>}
    BY <1>4, <1>10, <1>12, <1>14, CanonicalScopesType
  <2>5. ~ ScopesOverlap(l.scopes, w.scopes)
    <3>1. PICK S, R : S = l.scopes /\ R = w.scopes
      OBVIOUS
    <3>. QED BY <2>3, <2>4, <3>1, OverlapSymmetric
  <2>. QED BY <2>3, <2>5
<1>15. \A l \in Live(leases', now') : l = w \/ l \in Live(leases, now)
  BY <1>1, <1>2 DEF Live, w
<1>16. \A l, m \in Live(leases', now') : l.task # m.task => ~ ScopesOverlap(l.scopes, m.scopes)
  BY <1>14, <1>15 DEF LeasesInv
<1>. QED BY <1>6, <1>9, <1>13, <1>16 DEF LeasesInv

\* A released task takes its leases with it.
LEMMA ReleasedLeases ==
  ASSUME InductiveInv, LeasesInv, NEW t \in Tasks, Release(t)
  PROVE  LeasesInv'
<1>1. /\ agent' = [agent EXCEPT ![t] = NoAgent]
      /\ leases' = {l \in Live(leases, now) : l.task # t} /\ now' = now
      /\ agent \in [Tasks -> Agents \cup {NoAgent}] /\ now \in Nat
  BY DEF Release, InductiveInv, TypeOK
<1>2. leases' \subseteq leases
  BY <1>1 DEF Live
<1>3. \A l \in leases' : l.task \in Tasks /\ l.task # t
  BY <1>1, <1>2 DEF InductiveInv, TypeOK
<1>. QED BY <1>1, <1>2, <1>3, FewerLeases

\* The wave stays exclusive: leases come one by one, and go with their tasks.
LEMMA LeasesStep ==
  ASSUME InductiveInv, InductiveInv', LeasesInv, [Next]_vars
  PROVE  LeasesInv'
<1>0. now \in Nat /\ now' \in Nat
  BY DEF InductiveInv, TypeOK
<1>. USE DEF disk, memory
<1>1. CASE Start \/ Resume
  <2>1. agent' = agent /\ leases' = leases /\ pc = "off"
    BY <1>1 DEF Start, Resume
  <2>2. Work = {}
    BY <2>1 DEF InductiveInv, WaveInv, InWave
  <2>3. leases = {}
    BY <2>2 DEF LeasesInv
  <2>. QED BY <1>0, <2>1, <2>3, FewerLeases
<1>2. CASE SaveState
  <2>1. agent' = agent /\ leases' = leases /\ now' = now
    BY <1>2 DEF SaveState
  <2>. QED BY <1>0, <2>1, FewerLeases
<1>3. CASE EndingStep
  <2>1. agent' = NoWork /\ leases' = {} /\ now' = now
    BY <1>3 DEF EndingStep, SaveRaises, WriteSummary, Stall, Crash, LeaseLost, Ends
  <2>2. \A t \in Tasks : agent'[t] = NoAgent
    BY <2>1 DEF NoWork
  <2>. QED BY <1>0, <2>1, <2>2, FewerLeases
<1>4. CASE QuietStep
  <2>1. agent' = agent
    BY <1>4, QuietStepFacts
  <2>2. leases' \subseteq leases /\ now' >= now
    <3>1. CASE SaveJournal \/ Pause \/ NothingLeased \/ LoopAgain \/ Tick \/ UNCHANGED vars
      BY <1>0, <3>1 DEF SaveJournal, Pause, NothingLeased, LoopAgain, Tick, vars
    <3>2. ASSUME NEW t \in Tasks, \/ NoFreeAgent(t) \/ LeaseRefused(t)
                                  \/ LeaveOpen(t) \/ WorkerReturns(t)
          PROVE  leases' \subseteq leases /\ now' = now
      BY <3>2 DEF NoFreeAgent, LeaseRefused, LeaveOpen, WorkerReturns, Live
    <3>. QED BY <1>0, <1>4, <3>1, <3>2 DEF QuietStep
  <2>. QED BY <1>0, <2>1, <2>2, FewerLeases
<1>5. CASE MovingStep
  <2>1. ASSUME agent' = agent, leases' = leases, now' = now
        PROVE  LeasesInv'
    BY <1>0, <2>1, FewerLeases
  <2>2. CASE Finish \/ BeginIteration \/ SkipUnavailable \/ StartWave \/ WaveDone
    BY <2>1, <2>2 DEF Finish, BeginIteration, SkipUnavailable, StartWave, WaveDone
  <2>3. ASSUME NEW t \in Tasks, OverBudget(t) \/ PropagateFailure(t)
        PROVE  LeasesInv'
    BY <2>1, <2>3 DEF OverBudget, PropagateFailure
  <2>4. ASSUME NEW t \in Tasks, LeaseGranted(t)
        PROVE  LeasesInv'
    BY <2>4, OneMoreLease
  <2>5. ASSUME NEW t \in Tasks, ApplyCompleted(t) \/ ApplyRetry(t) \/ ApplyEscalated(t)
        PROVE  LeasesInv'
    BY <2>5, ReleasedLeases DEF ApplyCompleted, ApplyRetry, ApplyEscalated
  <2>. QED BY <1>5, <2>2, <2>3, <2>4, <2>5 DEF MovingStep
<1>. QED BY <1>1, <1>2, <1>3, <1>4, <1>5, StepCases

-----------------------------------------------------------------------------
(* The event file *)

\* Events are written from a checkpoint that is already there, and it stays settled.
LEMMA JournalStep ==
  ASSUME InductiveInv, JournalNeverAhead, [Next]_vars
  PROVE  JournalNeverAhead'
<1>1. CASE SaveJournal
  <2>1. journal' = state.status /\ saved' = saved /\ state = saved
    BY <1>1 DEF SaveJournal, InductiveInv, MemoryExtendsDisk, AtRest
  <2>. QED BY <2>1 DEF JournalNeverAhead
<1>2. CASE ~ SaveJournal
  <2>1. journal' = journal
    BY <1>2 DEF Next, SupervisorStep, LeaseStep, PropagateStep, ApplyStep, Start, Resume,
       Pause, Tick, Crash, SaveState, SaveRaises, Finish, WriteSummary, BeginIteration,
       SkipUnavailable, StartWave, NothingLeased, LoopAgain, Stall, WaveDone, NoFreeAgent,
       OverBudget, LeaseRefused, LeaseGranted, PropagateFailure, LeaveOpen, ApplyCompleted,
       ApplyRetry, ApplyEscalated, LeaseLost, WorkerReturns, Release, Ends, vars, disk
  <2>2. \A t \in Tasks : saved.status[t] \in Settled => saved'.status[t] = saved.status[t]
    BY CheckpointChange DEF Extends
  <2>. QED BY <2>1, <2>2 DEF JournalNeverAhead
<1>. QED BY <1>1, <1>2

-----------------------------------------------------------------------------
(* The theorems *)

\* A fresh start is within all limits.
LEMMA InitLimits == Init => LimitsInv
<1>. SUFFICES ASSUME Init
              PROVE  LimitsInv
  OBVIOUS
<1>1. state = FreshState /\ saved = NoCheckpoint /\ starts = 0 /\ leases = {}
      /\ summary = "none" /\ pc = "off"
  BY DEF Init
<1>2. Work = {}
  BY DEF Init, Work, NoWork
<1>3. LeasesInv
  <2>1. Cardinality(Work) = 0 /\ MaxWorkers >= 0
    BY <1>2, FS_EmptySet, WorkersAssumption
  <2>. QED BY <1>1, <1>2, <2>1 DEF LeasesInv, Live
<1>4. CountersInv
  BY <1>1, CountedFresh DEF CountersInv, Processes
<1>5. VerdictInv
  BY <1>1 DEF VerdictInv, Verdict, FreshState, NoCheckpoint
<1>6. UsageWithinLimits
  BY <1>1, NothingUsedFits DEF UsageWithinLimits, FreshState, NoCheckpoint
<1>. QED BY <1>3, <1>4, <1>5, <1>6 DEF LimitsInv

(***************************************************************************)
(* The invariant of the limits holds of every workflow, through crashes    *)
(* and resumes.                                                            *)
(***************************************************************************)
THEOREM LimitsInductive == Spec => []LimitsInv
<1>1. InductiveInv /\ InductiveInv' /\ LimitsInv /\ [Next]_vars => LimitsInv'
  BY LeasesStep, CountersStep, VerdictStep, UsageStep DEF LimitsInv
<1>. QED BY InitLimits, Inductive, <1>1, PTL DEF Spec

(***************************************************************************)
(* No checkpoint records, and no memory holds, usage beyond a limit        *)
(* (budgets.py: admission, charging and observation together).             *)
(***************************************************************************)
THEOREM UsageStaysWithin == Spec => []UsageWithinLimits
<1>1. LimitsInv => UsageWithinLimits
  BY DEF LimitsInv
<1>. QED BY <1>1, LimitsInductive, PTL

(***************************************************************************)
(* A wave has its workers' bound, an agent per task and no two live leases *)
(* on overlapping scopes (scheduler.py, _lease_task; leases.py, acquire).  *)
(***************************************************************************)
THEOREM WavesAreExclusive == Spec => []WaveExclusive
<1>1. LimitsInv => WaveExclusive
  <2>. SUFFICES ASSUME LeasesInv
                PROVE  WaveExclusive
    BY DEF LimitsInv
  <2>1. ASSUME NEW t \in Work, NEW u \in Work, t # u, Held(t), Held(u)
        PROVE  ~ ScopesOverlap(CanonicalScopes(Scopes[t]), CanonicalScopes(Scopes[u]))
    <3>1. PICK l \in Live(leases, now) : l.task = t
      BY <2>1 DEF Held
    <3>2. PICK m \in Live(leases, now) : m.task = u
      BY <2>1 DEF Held
    <3>3. l \in leases /\ m \in leases
      BY DEF Live
    <3>. QED BY <2>1, <3>1, <3>2, <3>3 DEF LeasesInv
  <2>. QED BY <2>1 DEF LeasesInv, WaveExclusive
<1>. QED BY <1>1, LimitsInductive, PTL

(***************************************************************************)
(* Retries stay below max_attempts, and attempts beyond it follow          *)
(* interruptions, one for each process after the first (state.py,          *)
(* recover_to_ready; scheduler.py, _result_failure).                       *)
(***************************************************************************)
THEOREM RetriesStayBounded == Spec => []RetriesBounded
<1>1. InductiveInv /\ LimitsInv => RetriesBounded
  <2>. SUFFICES ASSUME InductiveInv, LimitsInv, NEW t \in Tasks
                PROVE  /\ state.retries[t] < MaxAttempts[t]
                       /\ state.attempts[t] + 1 <= MaxAttempts[t] + Processes
    BY DEF RetriesBounded, Processes
  <2>1. /\ state.retries[t] \in Nat /\ state.attempts[t] \in Nat /\ starts \in Nat
        /\ MaxAttempts[t] \in Nat
    BY BudgetAssumption DEF InductiveInv, TypeOK, WorkflowState
  <2>2. Processes \in Nat
    BY <2>1 DEF Processes
  <2>3. /\ state.retries[t] < MaxAttempts[t]
        /\ state.attempts[t] + 1 <= state.retries[t] + Processes + 1
    BY <2>1, <2>2 DEF LimitsInv, CountersInv, Counted
  <2>. QED BY <2>1, <2>2, <2>3
<1>. QED BY <1>1, Inductive, LimitsInductive, PTL

(***************************************************************************)
(* The summary next to a checkpoint describes it, whatever was killed and  *)
(* resumed since it was written (scheduler.py, _write_summary).            *)
(***************************************************************************)
THEOREM SummaryStaysTrue == Spec => []SummaryTruthful
<1>1. LimitsInv => SummaryTruthful
  BY DEF LimitsInv, VerdictInv, Verdict, SummaryTruthful
<1>. QED BY <1>1, LimitsInductive, PTL

(***************************************************************************)
(* The event file never tells of a task what its checkpoint does not.      *)
(***************************************************************************)
THEOREM JournalStaysBehind == Spec => []JournalNeverAhead
<1>1. Init => JournalNeverAhead
  BY FreshFacts DEF Init, JournalNeverAhead, Settled
<1>2. InductiveInv /\ JournalNeverAhead /\ [Next]_vars => JournalNeverAhead'
  BY JournalStep
<1>. QED BY <1>1, <1>2, Inductive, PTL DEF Spec

(***************************************************************************)
(* Only what passed every comparison, and could be charged, reaches a file *)
(* (contracts.py, validate_worker_result; scheduler.py, _apply_result).    *)
(***************************************************************************)
THEOREM FilesAreValidated == Spec => OnlyValidatedFiles
<1>1. ASSUME InductiveInv, [Next]_vars
      PROVE  [\A t \in Tasks : files'[t] # files[t] =>
                /\ results[t].task_matches /\ results[t].succeeded
                /\ results[t].ids_match /\ results[t].paths_match /\ results[t].paths_safe
                /\ results[t].checks_passed
                /\ t \in Gates => results[t].evidence
                /\ CanStart(state.usage, ChargeFor(t, results[t]), Limits, now)]_vars
  <2>1. files' = files \/ \E t \in Tasks : Applying(t) /\ files' = Materialized(t)
    BY <1>1 DEF Next, SupervisorStep, LeaseStep, PropagateStep, ApplyStep, Start, Resume,
       Pause, Tick, Crash, SaveState, SaveRaises, SaveJournal, Finish, WriteSummary,
       BeginIteration, SkipUnavailable, StartWave, NothingLeased, LoopAgain, Stall, WaveDone,
       NoFreeAgent, OverBudget, LeaseRefused, LeaseGranted, PropagateFailure, LeaveOpen,
       ApplyCompleted, ApplyRetry, ApplyEscalated, LeaseLost, WorkerReturns, Release, Ends,
       vars, disk
  <2>2. ASSUME NEW t \in Tasks, Applying(t), files' = Materialized(t), NEW u \in Tasks,
               files'[u] # files[u]
        PROVE  u = t /\ Accepted(t)
    BY <1>1, <2>2, MaterializedElsewhere DEF Materialized
  <2>3. ASSUME NEW t \in Tasks, Accepted(t)
        PROVE  /\ results[t].task_matches /\ results[t].succeeded
               /\ results[t].ids_match /\ results[t].paths_match /\ results[t].paths_safe
               /\ results[t].checks_passed
               /\ t \in Gates => results[t].evidence
               /\ CanStart(state.usage, ChargeFor(t, results[t]), Limits, now)
    <3>1. \A i \in 1 .. 8 : ~ Comparisons(results[t], t \in Gates)[i].fails
      BY <2>3 DEF Accepted, Validated, Passed, Failures
    <3>2. /\ ~ Comparisons(results[t], t \in Gates)[1].fails
          /\ ~ Comparisons(results[t], t \in Gates)[2].fails
          /\ ~ Comparisons(results[t], t \in Gates)[3].fails
          /\ ~ Comparisons(results[t], t \in Gates)[4].fails
          /\ ~ Comparisons(results[t], t \in Gates)[5].fails
          /\ ~ Comparisons(results[t], t \in Gates)[6].fails
          /\ ~ Comparisons(results[t], t \in Gates)[8].fails
      BY <3>1
    <3>3. /\ ~ ~ results[t].task_matches /\ ~ ~ results[t].succeeded
          /\ ~ (results[t].succeeded /\ ~ results[t].ids_match)
          /\ ~ (results[t].succeeded /\ ~ results[t].paths_match)
          /\ ~ (results[t].succeeded /\ ~ results[t].paths_safe)
          /\ ~ (results[t].succeeded /\ ~ results[t].checks_passed)
          /\ ~ (results[t].succeeded /\ t \in Gates /\ ~ results[t].evidence)
      BY <3>2, Zenon DEF Comparisons
    <3>4. CanStart(state.usage, ChargeFor(t, results[t]), Limits, now)
      BY <2>3 DEF Accepted, Chargeable
    <3>. QED BY <3>3, <3>4
  <2>. QED BY <2>1, <2>2, <2>3
<1>. QED BY <1>1, Inductive, PTL DEF Spec, OnlyValidatedFiles

-----------------------------------------------------------------------------
(***************************************************************************)
(* The life cycle: transition() never meets a pair of statuses that        *)
(* ALLOWED_TASK_TRANSITIONS lacks.                                         *)
(***************************************************************************)
\* The ways in which a step of a process moves one task.
LEMMA WaysAreAllowed ==
  ASSUME NEW t
  PROVE  /\ \A from \in {"pending", "ready", "retry", "running"} : Reaches(t, from, "escalated")
         /\ Reaches(t, "pending", "ready") /\ Reaches(t, "retry", "ready")
         /\ t \in Optional => Reaches(t, "ready", "cancelled")
         /\ Reaches(t, "ready", "running")
         /\ Reaches(t, "running", "completed") /\ Reaches(t, "running", "retry")
<1>1. /\ Allowed(t, "pending", "ready") /\ Allowed(t, "pending", "blocked")
      /\ Allowed(t, "ready", "leased") /\ Allowed(t, "ready", "blocked")
      /\ Allowed(t, "leased", "running") /\ Allowed(t, "running", "validating")
      /\ Allowed(t, "validating", "completed") /\ Allowed(t, "validating", "retry")
      /\ Allowed(t, "validating", "blocked")
      /\ Allowed(t, "retry", "ready") /\ Allowed(t, "retry", "blocked")
      /\ Allowed(t, "blocked", "escalated")
      /\ t \in Optional => Allowed(t, "ready", "cancelled")
  BY DEF Allowed, AllowedTransitions
<1>2. "leased" \in Passing /\ "validating" \in Passing /\ "blocked" \in Passing
  BY DEF Passing
<1>. QED BY <1>1, <1>2 DEF Reaches

\* One task moves and the others stay.
LEMMA OneIsAllowed ==
  ASSUME state \in WorkflowState, NEW t \in Tasks, NEW to,
         state'.status = [state.status EXCEPT ![t] = to], Reaches(t, state.status[t], to),
         NEW u \in Tasks, state'.status[u] # state.status[u]
  PROVE  Reaches(u, state.status[u], state'.status[u])
<1>1. state.status \in [Tasks -> TaskStatus]
  BY DEF WorkflowState
<1>2. u = t /\ state'.status[u] = to
  BY <1>1
<1>. QED BY <1>2

\* A step inside a phase takes a task only where its machine allows.
LEMMA MovesAreAllowed ==
  ASSUME InductiveInv, MovingStep, NEW u \in Tasks, state'.status[u] # state.status[u]
  PROVE  Reaches(u, state.status[u], state'.status[u])
<1>0. state \in WorkflowState /\ now \in Nat /\ state.status \in [Tasks -> TaskStatus]
  BY DEF InductiveInv, TypeOK, WorkflowState
<1>1. CASE Finish \/ StartWave \/ WaveDone
  BY <1>0, <1>1 DEF Finish, StartWave, WaveDone, WorkflowState
<1>2. CASE BeginIteration
  <2>1. state'.status[u] = "ready" /\ state.status[u] \in {"pending", "retry"}
    BY <1>0, <1>2 DEF BeginIteration, MarkReady, WorkflowState
  <2>. QED BY <2>1, WaysAreAllowed
<1>3. CASE SkipUnavailable
  <2>1. state'.status[u] = "cancelled" /\ u \in Skipped(state, now)
    BY <1>0, <1>3 DEF SkipUnavailable, SkipOptional, WorkflowState
  <2>2. u \in Optional /\ state.status[u] = "ready"
    BY <2>1 DEF Skipped
  <2>. QED BY <2>1, <2>2, WaysAreAllowed
<1>4. ASSUME NEW t \in Tasks, OverBudget(t)
      PROVE  Reaches(u, state.status[u], state'.status[u])
  <2>1. state.status[t] = "ready"
    BY <1>4 DEF OverBudget, Leasing, IsNext, InductiveInv, WaveInv
  <2>2. state'.status = [state.status EXCEPT ![t] = "escalated"]
    BY <1>0, <1>4, EscalateFacts DEF OverBudget
  <2>3. Reaches(t, state.status[t], "escalated")
    BY <2>1, WaysAreAllowed
  <2>. QED BY <1>0, <2>2, <2>3, OneIsAllowed
<1>5. ASSUME NEW t \in Tasks, LeaseGranted(t)
      PROVE  Reaches(u, state.status[u], state'.status[u])
  <2>1. state.status[t] = "ready"
    BY <1>5 DEF LeaseGranted, Leasing, IsNext, InductiveInv, WaveInv
  <2>2. state'.status = [state.status EXCEPT ![t] = "running"]
    BY <1>0, <1>5, LaunchFacts DEF LeaseGranted
  <2>3. Reaches(t, state.status[t], "running")
    BY <2>1, WaysAreAllowed
  <2>. QED BY <1>0, <2>2, <2>3, OneIsAllowed
<1>6. ASSUME NEW t \in Tasks, PropagateFailure(t)
      PROVE  Reaches(u, state.status[u], state'.status[u])
  <2>1. state.status[t] \in Open
    BY <1>6 DEF PropagateFailure, IsNext, InductiveInv, WaveInv
  <2>2. state'.status = [state.status EXCEPT ![t] = "escalated"]
    BY <1>0, <1>6, EscalateFacts DEF PropagateFailure
  <2>3. Reaches(t, state.status[t], "escalated")
    BY <2>1, WaysAreAllowed DEF Open
  <2>. QED BY <1>0, <2>2, <2>3, OneIsAllowed
<1>7. ASSUME NEW t \in Tasks, ApplyCompleted(t) \/ ApplyRetry(t) \/ ApplyEscalated(t)
      PROVE  Reaches(u, state.status[u], state'.status[u])
  <2>1. state.status[t] = "running" /\ Applying(t)
    BY <1>7 DEF ApplyCompleted, ApplyRetry, ApplyEscalated, Applying, InductiveInv, WaveInv
  <2>2. results[t] \in WorkerResult
    BY <2>1, ResultType DEF InductiveInv
  <2>3. CASE ApplyCompleted(t)
    <3>1. state'.status = [state.status EXCEPT ![t] = "completed"]
      BY <1>0, <2>2, <2>3, CompleteFacts DEF ApplyCompleted
    <3>2. Reaches(t, state.status[t], "completed")
      BY <2>1, WaysAreAllowed
    <3>. QED BY <1>0, <3>1, <3>2, OneIsAllowed
  <2>4. CASE ApplyRetry(t)
    <3>1. state'.status = [state.status EXCEPT ![t] = "retry"]
      BY <1>0, <2>4, RetryFacts DEF ApplyRetry
    <3>2. Reaches(t, state.status[t], "retry")
      BY <2>1, WaysAreAllowed
    <3>. QED BY <1>0, <3>1, <3>2, OneIsAllowed
  <2>5. CASE ApplyEscalated(t)
    <3>1. state'.status = [state.status EXCEPT ![t] = "escalated"]
      BY <1>0, <2>5, RejectFacts DEF ApplyEscalated
    <3>2. Reaches(t, state.status[t], "escalated")
      BY <2>1, WaysAreAllowed
    <3>. QED BY <1>0, <3>1, <3>2, OneIsAllowed
  <2>. QED BY <1>7, <2>3, <2>4, <2>5
<1>. QED BY <1>1, <1>2, <1>3, <1>4, <1>5, <1>6, <1>7 DEF MovingStep

(***************************************************************************)
(* While a process runs, every task moves along ALLOWED_TASK_TRANSITIONS,  *)
(* through at most two statuses that a call does not leave behind          *)
(* (orchestration/state.py, transition).                                   *)
(***************************************************************************)
THEOREM OnlyAllowedMoves == Spec => TransitionsAllowed
<1>1. ASSUME InductiveInv, [Next]_vars
      PROVE  pc # "off" /\ pc' # "off" =>
               \A t \in Tasks : state'.status[t] # state.status[t] =>
                                  Reaches(t, state.status[t], state'.status[t])
  <2>. SUFFICES ASSUME pc # "off", pc' # "off", NEW t \in Tasks,
                       state'.status[t] # state.status[t]
                PROVE  Reaches(t, state.status[t], state'.status[t])
    OBVIOUS
  <2>1. CASE Start \/ Resume
    BY <2>1 DEF Start, Resume
  <2>2. CASE SaveState
    BY <1>1, <2>2 DEF SaveState, InductiveInv, TypeOK, WorkflowState
  <2>3. CASE MovingStep
    BY <1>1, <2>3, MovesAreAllowed
  <2>4. CASE EndingStep \/ QuietStep
    BY <2>4, EndingStepFacts, QuietStepFacts
  <2>. QED BY <1>1, <2>1, <2>2, <2>3, <2>4, StepCases
<1>. QED BY <1>1, Inductive, PTL DEF Spec, TransitionsAllowed

-----------------------------------------------------------------------------
(***************************************************************************)
(* Every call of run() runs down.                                          *)
(***************************************************************************)
\* How many times a task can still move: three for each attempt it has left, and a task
\* that is not settled always has one, for an interruption takes no attempt away.
MovesLeft(s, t) ==
  LET spare == IF s.attempts[t] < MaxAttempts[t] THEN MaxAttempts[t] - s.attempts[t] ELSE 0
      left == IF spare = 0 THEN 1 ELSE spare
  IN CASE s.status[t] \in {"pending", "retry"} -> 3 * left
       [] s.status[t] = "ready"                -> 3 * left - 1
       [] s.status[t] = "running"              -> 3 * spare + 1
       [] OTHER                                -> 0

MovesAhead(s) == {m \in Tasks \X (1 .. 10) : m[2] <= MovesLeft(s, m[1])}

\* The iteration in progress has done something for which run() will go round again.
GoesRound ==
  \/ pc = "lease" /\ (changed \/ Work # {})
  \/ pc = "propagate" /\ changed
  \/ pc = "execute"
  \/ pc \in {"save", "log"} /\ ret = "execute"

Rounds == Cardinality(MovesAhead(state)) + (IF GoesRound THEN 1 ELSE 0)

\* How many steps the iteration in progress has left, at most.
AtMost(point) ==
  CASE point = "end"     -> 1
    [] point = "execute" -> 2 * Cardinality(Tasks) + 1
    [] OTHER             -> 3 * Cardinality(Tasks) + 6

Position ==
  CASE pc = "save"      -> AtMost(ret) + 2
    [] pc = "log"       -> AtMost(ret) + 1
    [] pc = "skip"      -> 3 * Cardinality(Tasks) + 5
    [] pc = "lease"     -> 2 * Cardinality(Tasks) + 4 + Cardinality(todo)
    [] pc = "propagate" -> 1 + Cardinality(todo)
    [] pc = "execute"   -> 1 + Cardinality(Work)
                             + Cardinality({t \in Work : results[t] = NoResult})
    [] OTHER            -> AtMost(pc)

\* How many steps the process and its workers have left, at most: each round but the
\* last one has a move.
StepsLeft ==
  IF pc = "off" THEN 0 ELSE (3 * Cardinality(Tasks) + 8) * Rounds + Position

\* Every step of the supervisor's thread and of a worker leaves fewer; time and a signal
\* to pause change nothing.
RunsDown ==
  [][/\ SupervisorStep \/ (\E t \in Tasks : WorkerReturns(t)) => StepsLeft' < StepsLeft
     /\ Pause \/ Tick => StepsLeft' = StepsLeft]_vars

\* A task has at most ten moves.
LEMMA MovesLeftIs ==
  ASSUME NEW s \in WorkflowState, NEW t \in Tasks
  PROVE  MovesLeft(s, t) \in 0 .. 10
<1>1. s.attempts[t] \in Nat /\ MaxAttempts[t] \in 1 .. 3
  BY BudgetAssumption DEF WorkflowState
<1>. QED BY <1>1 DEF MovesLeft

\* What is ahead of a state can be counted.
LEMMA MovesAheadAre ==
  ASSUME NEW s
  PROVE  IsFiniteSet(MovesAhead(s)) /\ Cardinality(MovesAhead(s)) \in Nat
<1>1. IsFiniteSet(Tasks \X (1 .. 10))
  <2>1. IsFiniteSet(1 .. 10) /\ IsFiniteSet(Tasks)
    <3>1. 1 \in Int /\ 10 \in Int
      OBVIOUS
    <3>2. IsFiniteSet(1 .. 10)
      BY ONLY <3>1, FS_Interval
    <3>. QED BY <3>2, TasksAssumption
  <2>. QED BY <2>1, FS_Product
<1>2. MovesAhead(s) \subseteq Tasks \X (1 .. 10)
  BY DEF MovesAhead
<1>. QED BY <1>1, <1>2, FS_Subset, FS_CardinalityType

\* Where no task has more moves, there are no more ahead.
LEMMA NoMoreMoves ==
  ASSUME NEW s \in WorkflowState, NEW n \in WorkflowState,
         \A t \in Tasks : MovesLeft(n, t) <= MovesLeft(s, t)
  PROVE  /\ MovesAhead(n) \subseteq MovesAhead(s)
         /\ Cardinality(MovesAhead(n)) <= Cardinality(MovesAhead(s))
<1>1. MovesAhead(n) \subseteq MovesAhead(s)
  <2>. SUFFICES ASSUME NEW m \in Tasks \X (1 .. 10), m[2] <= MovesLeft(n, m[1])
                PROVE  m[2] <= MovesLeft(s, m[1])
    BY DEF MovesAhead
  <2>1. m[1] \in Tasks /\ m[2] \in 1 .. 10
    OBVIOUS
  <2>2. MovesLeft(n, m[1]) \in 0 .. 10 /\ MovesLeft(s, m[1]) \in 0 .. 10
    BY <2>1, MovesLeftIs
  <2>. QED BY <2>1, <2>2
<1>. QED BY <1>1, MovesAheadAre, FS_Subset

\* Where one task has fewer besides, there are fewer ahead.
LEMMA FewerMoves ==
  ASSUME NEW s \in WorkflowState, NEW n \in WorkflowState,
         \A t \in Tasks : MovesLeft(n, t) <= MovesLeft(s, t),
         NEW u \in Tasks, MovesLeft(n, u) < MovesLeft(s, u)
  PROVE  Cardinality(MovesAhead(n)) < Cardinality(MovesAhead(s))
<1>1. MovesLeft(n, u) \in 0 .. 10 /\ MovesLeft(s, u) \in 0 .. 10
  BY MovesLeftIs
<1>. DEFINE m == <<u, MovesLeft(s, u)>>
<1>2. m \in Tasks \X (1 .. 10) /\ m[1] = u /\ m[2] = MovesLeft(s, u)
  BY <1>1
<1>. HIDE DEF m
<1>3. m \in MovesAhead(s) /\ m \notin MovesAhead(n)
  BY <1>1, <1>2 DEF MovesAhead
<1>4. MovesAhead(n) \subseteq MovesAhead(s)
  BY NoMoreMoves
<1>5. /\ Cardinality(MovesAhead(n)) <= Cardinality(MovesAhead(s))
      /\ Cardinality(MovesAhead(n)) = Cardinality(MovesAhead(s)) => MovesAhead(n) = MovesAhead(s)
  BY <1>4, MovesAheadAre, FS_Subset
<1>. QED BY <1>3, <1>5, MovesAheadAre

\* One task moves along its machine and the others stay.
LEMMA OneMoveFewer ==
  ASSUME NEW s \in WorkflowState, NEW n \in WorkflowState, NEW t \in Tasks, NEW x,
         n.status = [s.status EXCEPT ![t] = x],
         \/ /\ s.status[t] \in {"pending", "ready", "retry", "running"}
            /\ x \in {"completed", "escalated"}
            /\ n.attempts = s.attempts
         \/ /\ s.status[t] = "ready" /\ x = "running"
            /\ n.attempts = [s.attempts EXCEPT ![t] = @ + 1]
         \/ /\ s.status[t] = "running" /\ x = "retry"
            /\ s.attempts[t] < MaxAttempts[t]
            /\ n.attempts = s.attempts
  PROVE  Cardinality(MovesAhead(n)) < Cardinality(MovesAhead(s))
<1>0. /\ s.status \in [Tasks -> TaskStatus] /\ s.attempts \in [Tasks -> Nat]
      /\ n.status \in [Tasks -> TaskStatus] /\ n.attempts \in [Tasks -> Nat]
  BY DEF WorkflowState
<1>1. ASSUME NEW u \in Tasks, u # t
      PROVE  MovesLeft(n, u) <= MovesLeft(s, u)
  <2>1. n.status[u] = s.status[u] /\ n.attempts[u] = s.attempts[u]
    BY <1>0, <1>1
  <2>2. MovesLeft(n, u) = MovesLeft(s, u)
    BY <2>1 DEF MovesLeft
  <2>. QED BY <2>2, MovesLeftIs
<1>2. MovesLeft(n, t) < MovesLeft(s, t)
  <2>1. s.attempts[t] \in Nat /\ MaxAttempts[t] \in 1 .. 3 /\ n.status[t] = x
    BY <1>0, BudgetAssumption
  <2>2. CASE /\ s.status[t] \in {"pending", "ready", "retry", "running"}
             /\ x \in {"completed", "escalated"}
    BY <2>1, <2>2 DEF MovesLeft
  <2>3. CASE /\ s.status[t] = "ready" /\ x = "running"
             /\ n.attempts = [s.attempts EXCEPT ![t] = @ + 1]
    <3>1. n.attempts[t] = s.attempts[t] + 1
      BY <1>0, <2>3
    <3>. QED BY <2>1, <2>3, <3>1 DEF MovesLeft
  <2>4. CASE /\ s.status[t] = "running" /\ x = "retry"
             /\ s.attempts[t] < MaxAttempts[t]
             /\ n.attempts = s.attempts
    BY <2>1, <2>4 DEF MovesLeft
  <2>. QED BY <2>2, <2>3, <2>4
<1>3. \A u \in Tasks : MovesLeft(n, u) <= MovesLeft(s, u)
  <2>1. MovesLeft(n, t) <= MovesLeft(s, t)
    BY <1>2, MovesLeftIs
  <2>. QED BY <1>1, <2>1
<1>. QED BY <1>2, <1>3, FewerMoves

\* _mark_ready gives no task a move.
LEMMA MarkReadyFewer ==
  ASSUME NEW s \in WorkflowState
  PROVE  Cardinality(MovesAhead(MarkReady(s))) <= Cardinality(MovesAhead(s))
<1>. DEFINE n == MarkReady(s)
<1>1. n \in WorkflowState /\ n.attempts = s.attempts
  BY PassFacts
<1>2. \A t \in Tasks : \/ n.status[t] = s.status[t]
                       \/ s.status[t] \in {"pending", "retry"} /\ n.status[t] = "ready"
  BY DEF MarkReady, WorkflowState
<1>. HIDE DEF n
<1>3. ASSUME NEW t \in Tasks
      PROVE  MovesLeft(n, t) <= MovesLeft(s, t)
  <2>1. s.attempts[t] \in Nat /\ MaxAttempts[t] \in 1 .. 3
    BY BudgetAssumption DEF WorkflowState
  <2>2. CASE n.status[t] = s.status[t]
    <3>1. MovesLeft(n, t) = MovesLeft(s, t)
      BY <1>1, <2>2 DEF MovesLeft
    <3>. QED BY <3>1, MovesLeftIs
  <2>3. CASE s.status[t] \in {"pending", "retry"} /\ n.status[t] = "ready"
    BY <1>1, <2>1, <2>3 DEF MovesLeft
  <2>. QED BY <1>2, <2>2, <2>3
<1>4. Cardinality(MovesAhead(n)) <= Cardinality(MovesAhead(s))
  BY <1>1, <1>3, NoMoreMoves
<1>. QED BY <1>4 DEF n

\* A task that is skipped loses the moves it had.
LEMMA SkipFewer ==
  ASSUME NEW s \in WorkflowState
  PROVE  /\ Cardinality(MovesAhead(SkipOptional(s, now))) <= Cardinality(MovesAhead(s))
         /\ Skipped(s, now) # {} =>
              Cardinality(MovesAhead(SkipOptional(s, now))) < Cardinality(MovesAhead(s))
<1>. DEFINE n == SkipOptional(s, now)
<1>1. n \in WorkflowState /\ n.attempts = s.attempts
  BY PassFacts
<1>2. \A t \in Tasks : n.status[t] = IF t \in Skipped(s, now) THEN "cancelled" ELSE s.status[t]
  BY DEF SkipOptional, WorkflowState
<1>. HIDE DEF n
<1>3. \A t \in Skipped(s, now) : t \in Tasks /\ s.status[t] = "ready"
  BY TasksAssumption DEF Skipped
<1>4. ASSUME NEW t \in Skipped(s, now)
      PROVE  MovesLeft(n, t) < MovesLeft(s, t)
  <2>1. s.attempts[t] \in Nat /\ MaxAttempts[t] \in 1 .. 3
    BY <1>3, BudgetAssumption DEF WorkflowState
  <2>. QED BY <1>2, <1>3, <2>1 DEF MovesLeft
<1>5. ASSUME NEW t \in Tasks
      PROVE  MovesLeft(n, t) <= MovesLeft(s, t)
  <2>1. CASE t \in Skipped(s, now)
    BY <1>4, <2>1, MovesLeftIs, <1>1
  <2>2. CASE t \notin Skipped(s, now)
    <3>1. MovesLeft(n, t) = MovesLeft(s, t)
      BY <1>1, <1>2, <2>2 DEF MovesLeft
    <3>. QED BY <3>1, MovesLeftIs
  <2>. QED BY <2>1, <2>2
<1>6. Cardinality(MovesAhead(n)) <= Cardinality(MovesAhead(s))
  BY <1>1, <1>5, NoMoreMoves
<1>7. Skipped(s, now) # {} => Cardinality(MovesAhead(n)) < Cardinality(MovesAhead(s))
  BY <1>1, <1>3, <1>4, <1>5, FewerMoves
<1>. QED BY <1>6, <1>7 DEF n

\* Where no task moves, as many moves are ahead.
LEMMA SameMoves ==
  ASSUME NEW s, NEW n, n.status = s.status, n.attempts = s.attempts
  PROVE  Cardinality(MovesAhead(n)) = Cardinality(MovesAhead(s))
<1>1. \A t \in Tasks : MovesLeft(n, t) = MovesLeft(s, t)
  BY DEF MovesLeft
<1>2. \A m \in Tasks \X (1 .. 10) : m[1] \in Tasks
  OBVIOUS
<1>3. MovesAhead(n) = MovesAhead(s)
  BY <1>1, <1>2 DEF MovesAhead
<1>. QED BY <1>3

-----------------------------------------------------------------------------
\* The position of a running process in its iteration.
PositionInv == pc # "off" => Position \in 1 .. (3 * Cardinality(Tasks) + 8)

\* A part of the tasks has at most their number.
LEMMA PartOfTasks ==
  ASSUME NEW S, S \subseteq Tasks
  PROVE  /\ IsFiniteSet(S) /\ Cardinality(S) \in Nat
         /\ Cardinality(Tasks) \in Nat /\ Cardinality(S) <= Cardinality(Tasks)
BY TasksAssumption, FS_Subset, FS_CardinalityType

\* One task less, and one less in number.
LEMMA OneTaskLess ==
  ASSUME NEW S, S \subseteq Tasks, NEW t \in S
  PROVE  Cardinality(S \ {t}) \in Nat /\ Cardinality(S) = Cardinality(S \ {t}) + 1
<1>1. IsFiniteSet(S) /\ Cardinality(S) \in Nat
  BY PartOfTasks
<1>2. Cardinality(S \ {t}) = Cardinality(S) - 1
  BY <1>1, FS_RemoveElement
<1>3. IsFiniteSet(S \ {t}) /\ Cardinality(S \ {t}) \in Nat
  BY PartOfTasks
<1>. QED BY <1>1, <1>2, <1>3

\* The type invariant bounds the position.
LEMMA PositionIs == TypeOK => PositionInv
<1>. SUFFICES ASSUME TypeOK, pc # "off"
              PROVE  Position \in 1 .. (3 * Cardinality(Tasks) + 8)
  BY DEF PositionInv
<1>. DEFINE n == Cardinality(Tasks)
            waiting == Cardinality({t \in Work : results[t] = NoResult})
            toVisit == Cardinality(todo)
            working == Cardinality(Work)
<1>1. todo \subseteq Tasks /\ Work \subseteq Tasks /\ {t \in Work : results[t] = NoResult} \subseteq Tasks
  BY DEF TypeOK, Work
<1>2. n \in Nat /\ toVisit \in 0 .. n /\ working \in 0 .. n /\ waiting \in 0 .. n
  BY <1>1, PartOfTasks
<1>3. /\ pc \in {"save", "log", "top", "again", "skip", "lease", "propagate", "execute", "end"}
      /\ ret \in {"top", "again", "execute", "end"}
  BY DEF TypeOK
<1>. HIDE DEF n, waiting, toVisit, working
<1>4. Position = CASE pc = "save"      -> AtMost(ret) + 2
                   [] pc = "log"       -> AtMost(ret) + 1
                   [] pc = "skip"      -> 3 * n + 5
                   [] pc = "lease"     -> 2 * n + 4 + toVisit
                   [] pc = "propagate" -> 1 + toVisit
                   [] pc = "execute"   -> 1 + working + waiting
                   [] OTHER            -> AtMost(pc)
  BY DEF Position, n, waiting, toVisit, working
<1>5. \A p : AtMost(p) = CASE p = "end"     -> 1
                           [] p = "execute" -> 2 * n + 1
                           [] OTHER         -> 3 * n + 6
  BY DEF AtMost, n
<1>6. Position \in 1 .. (3 * n + 8)
  BY <1>2, <1>3, <1>4, <1>5
<1>. QED BY <1>6 DEF n

\* There is a number of rounds.
LEMMA RoundsAre == Rounds \in Nat /\ Rounds' \in Nat
BY MovesAheadAre DEF Rounds

\* Arithmetic of rounds and positions.
LEMMA RoundsAndPositions ==
  ASSUME NEW k \in Nat, NEW r \in Nat, NEW s \in Nat, NEW p \in 1 .. k, NEW q \in 1 .. k,
         s < r \/ (s <= r /\ q < p)
  PROVE  k * s + q < k * r + p
<1>1. k * s \in Nat /\ k * r \in Nat
  OBVIOUS
<1>2. CASE s < r
  <2>1. PICK d \in Nat : r = s + 1 + d
    <3>1. r - s - 1 \in Nat /\ r = s + 1 + (r - s - 1)
      BY <1>2
    <3>. QED BY <3>1
  <2>2. k * r = k * s + k + k * d /\ k * d \in Nat
    BY <2>1
  <2>. QED BY <1>1, <2>2
<1>3. CASE s = r /\ q < p
  BY <1>1, <1>3
<1>. QED BY <1>2, <1>3

\* A process that has ended has no steps left, a running one has.
LEMMA StepsLeftIs ==
  PositionInv => StepsLeft \in Nat /\ (StepsLeft = 0 <=> pc = "off")
<1>. SUFFICES ASSUME PositionInv
              PROVE  StepsLeft \in Nat /\ (StepsLeft = 0 <=> pc = "off")
  OBVIOUS
<1>1. Cardinality(Tasks) \in Nat /\ Rounds \in Nat
  BY PartOfTasks, RoundsAre
<1>2. CASE pc = "off"
  BY <1>2 DEF StepsLeft
<1>3. CASE pc # "off"
  <2>1. PICK k \in Nat : k = 3 * Cardinality(Tasks) + 8
    BY <1>1
  <2>2. k * Rounds \in Nat /\ Position \in 1 .. k
    BY <1>1, <1>3, <2>1 DEF PositionInv
  <2>3. StepsLeft = k * Rounds + Position
    BY <1>3, <2>1 DEF StepsLeft
  <2>. QED BY <1>3, <2>2, <2>3
<1>. QED BY <1>2, <1>3

\* Ways to run down: the process ends, a round is over, or the iteration goes on.
LEMMA WaysDown ==
  ASSUME PositionInv, PositionInv', pc # "off",
         \/ pc' = "off"
         \/ Rounds' < Rounds
         \/ Rounds' <= Rounds /\ Position' < Position
  PROVE  StepsLeft' < StepsLeft
<1>1. Cardinality(Tasks) \in Nat /\ Rounds \in Nat /\ Rounds' \in Nat
  BY PartOfTasks, RoundsAre
<1>2. PICK k \in Nat : k = 3 * Cardinality(Tasks) + 8
  BY <1>1
<1>3. Position \in 1 .. k /\ StepsLeft = k * Rounds + Position
  BY <1>2 DEF PositionInv, StepsLeft
<1>4. CASE pc' = "off"
  <2>1. StepsLeft' = 0
    BY <1>4 DEF StepsLeft
  <2>2. k * Rounds \in Nat
    BY <1>1
  <2>. QED BY <1>3, <2>1, <2>2
<1>5. CASE pc' # "off"
  <2>1. Position' \in 1 .. k /\ StepsLeft' = k * Rounds' + Position'
    BY <1>2, <1>5 DEF PositionInv, StepsLeft
  <2>2. Rounds' < Rounds \/ (Rounds' <= Rounds /\ Position' < Position)
    BY <1>5
  <2>. QED BY <1>1, <1>3, <2>1, <2>2, RoundsAndPositions
<1>. QED BY <1>4, <1>5

-----------------------------------------------------------------------------
\* _checkpoint and the ends of the iterations.
LEMMA CheckpointsRunDown ==
  ASSUME InductiveInv, PositionInv, PositionInv',
         \/ SaveState \/ SaveJournal \/ Finish \/ StartWave \/ LoopAgain \/ WaveDone
  PROVE  StepsLeft' < StepsLeft
<1>0. /\ Cardinality(Tasks) \in Nat /\ todo \subseteq Tasks /\ Cardinality(todo) \in Nat
      /\ Cardinality(MovesAhead(state)) \in Nat /\ state \in WorkflowState
      /\ ret \in {"top", "again", "execute", "end"}
  BY PartOfTasks, MovesAheadAre DEF InductiveInv, TypeOK
<1>1. CASE SaveState
  <2>1. /\ pc = "save" /\ pc' = "log" /\ ret' = ret
        /\ state' = [state EXCEPT !.usage = Observed(@, now)]
    BY <1>1 DEF SaveState
  <2>2. state'.status = state.status /\ state'.attempts = state.attempts
    BY <1>0, <2>1 DEF WorkflowState
  <2>3. Rounds' = Rounds
    BY <2>1, <2>2, SameMoves DEF Rounds, GoesRound
  <2>4. Position' < Position
    BY <1>0, <2>1 DEF Position, AtMost
  <2>. QED BY <2>1, <2>3, <2>4, WaysDown, RoundsAre
<1>2. CASE SaveJournal
  <2>1. pc = "log" /\ pc' = ret /\ ret' = ret /\ state' = state /\ agent' = agent
    BY <1>2 DEF SaveJournal, memory
  <2>2. Rounds' = Rounds
    BY <1>0, <2>1 DEF Rounds, GoesRound
  <2>3. CASE ret = "execute"
    <3>1. Work' \subseteq Tasks /\ {t \in Work' : results'[t] = NoResult} \subseteq Tasks
      BY DEF Work
    <3>2. /\ Cardinality(Work') \in 0 .. Cardinality(Tasks)
          /\ Cardinality({t \in Work' : results'[t] = NoResult}) \in 0 .. Cardinality(Tasks)
      BY <3>1, PartOfTasks
    <3>3. Position' = 1 + Cardinality(Work') + Cardinality({t \in Work' : results'[t] = NoResult})
      BY <2>1, <2>3 DEF Position
    <3>4. Position = 2 * Cardinality(Tasks) + 2
      BY <1>0, <2>1, <2>3 DEF Position, AtMost
    <3>5. Position' < Position
      BY <1>0, <3>2, <3>3, <3>4
    <3>. QED BY <2>1, <2>2, <3>5, WaysDown, RoundsAre
  <2>4. CASE ret # "execute"
    <3>1. Position' < Position
      BY <1>0, <2>1, <2>4 DEF Position, AtMost
    <3>. QED BY <2>1, <2>2, <3>1, WaysDown, RoundsAre
  <2>. QED BY <2>3, <2>4
<1>3. CASE Finish
  <2>1. /\ pc \in {"top", "again"} /\ pc' = "save" /\ ret' = "end"
        /\ state'.status = state.status /\ state'.attempts = state.attempts
    BY <1>0, <1>3 DEF Finish, Checkpoint, WorkflowState
  <2>2. Rounds' = Rounds
    BY <2>1, SameMoves DEF Rounds, GoesRound
  <2>3. Position' < Position
    BY <1>0, <2>1 DEF Position, AtMost
  <2>. QED BY <2>1, <2>2, <2>3, WaysDown, RoundsAre
<1>4. CASE StartWave
  <2>1. /\ pc = "lease" /\ pc' = "save" /\ ret' = "execute" /\ Work # {}
        /\ state'.status = state.status /\ state'.attempts = state.attempts
    BY <1>0, <1>4 DEF StartWave, LeaseLoopDone, Checkpoint, WorkflowState
  <2>2. Rounds' = Rounds
    BY <2>1, SameMoves DEF Rounds, GoesRound
  <2>3. Position' < Position
    BY <1>0, <2>1 DEF Position, AtMost
  <2>. QED BY <2>1, <2>2, <2>3, WaysDown, RoundsAre
<1>5. CASE LoopAgain
  <2>1. pc = "propagate" /\ changed /\ pc' = "save" /\ ret' = "again" /\ state' = state
    BY <1>5 DEF LoopAgain, Checkpoint
  <2>2. Rounds' < Rounds
    BY <1>0, <2>1 DEF Rounds, GoesRound
  <2>. QED BY <2>1, <2>2, WaysDown
<1>6. CASE WaveDone
  <2>1. /\ pc = "execute" /\ pc' = "save" /\ ret' = "top"
        /\ state'.status = state.status /\ state'.attempts = state.attempts
    BY <1>0, <1>6 DEF WaveDone, Checkpoint, WorkflowState
  <2>2. Rounds' < Rounds
    BY <1>0, <2>1, SameMoves DEF Rounds, GoesRound
  <2>. QED BY <2>1, <2>2, WaysDown
<1>. QED BY <1>1, <1>2, <1>3, <1>4, <1>5, <1>6

\* The passes over the tasks at the head of an iteration.
LEMMA PassesRunDown ==
  ASSUME InductiveInv, PositionInv, PositionInv',
         BeginIteration \/ SkipUnavailable \/ NothingLeased
  PROVE  StepsLeft' < StepsLeft
<1>0. /\ Cardinality(Tasks) \in Nat /\ state \in WorkflowState
      /\ todo \subseteq Tasks /\ Cardinality(todo) \in Nat
      /\ Cardinality(MovesAhead(state)) \in Nat /\ Cardinality(MovesAhead(state')) \in Nat
  BY PartOfTasks, MovesAheadAre DEF InductiveInv, TypeOK
<1>1. CASE BeginIteration
  <2>1. pc \in {"top", "again"} /\ pc' = "skip" /\ state' = MarkReady(state)
    BY <1>1 DEF BeginIteration
  <2>2. Cardinality(MovesAhead(state')) <= Cardinality(MovesAhead(state))
    BY <1>0, <2>1, MarkReadyFewer
  <2>3. Rounds' <= Rounds
    BY <1>0, <2>1, <2>2 DEF Rounds, GoesRound
  <2>4. Position' < Position
    BY <1>0, <2>1 DEF Position, AtMost
  <2>. QED BY <2>1, <2>3, <2>4, WaysDown
<1>2. CASE SkipUnavailable
  <2>1. /\ pc = "skip" /\ pc' = "lease" /\ agent' = agent
        /\ changed' = (Skipped(state, now) # {})
        /\ state' = SkipOptional(state, now)
        /\ todo' \subseteq Tasks
    BY <1>2 DEF SkipUnavailable
  <2>2. Work = {}
    BY <2>1 DEF InductiveInv, WaveInv, InWave
  <2>3. Work' = {}
    BY <2>1, <2>2 DEF Work
  <2>4. Rounds' <= Rounds
    <3>1. CASE Skipped(state, now) = {}
      <4>1. Cardinality(MovesAhead(state')) <= Cardinality(MovesAhead(state))
        BY <1>0, <2>1, SkipFewer
      <4>2. ~ GoesRound' /\ ~ GoesRound
        BY <2>1, <2>3, <3>1 DEF GoesRound
      <4>. QED BY <1>0, <4>1, <4>2 DEF Rounds
    <3>2. CASE Skipped(state, now) # {}
      <4>1. Cardinality(MovesAhead(state')) < Cardinality(MovesAhead(state))
        BY <1>0, <2>1, <3>2, SkipFewer
      <4>. QED BY <1>0, <4>1 DEF Rounds
    <3>. QED BY <3>1, <3>2
  <2>5. Cardinality(todo') \in 0 .. Cardinality(Tasks)
    BY <2>1, PartOfTasks
  <2>6. Position' < Position
    BY <1>0, <2>1, <2>5 DEF Position
  <2>. QED BY <2>1, <2>4, <2>6, WaysDown
<1>3. CASE NothingLeased
  <2>1. /\ pc = "lease" /\ pc' = "propagate" /\ Work = {} /\ changed' = changed
        /\ state' = state /\ todo' \subseteq Tasks
    BY <1>3 DEF NothingLeased, LeaseLoopDone
  <2>2. Rounds' = Rounds
    BY <2>1 DEF Rounds, GoesRound
  <2>3. Cardinality(todo') \in 0 .. Cardinality(Tasks)
    BY <2>1, PartOfTasks
  <2>4. Position' < Position
    BY <1>0, <2>1, <2>3 DEF Position
  <2>. QED BY <2>1, <2>2, <2>4, WaysDown, RoundsAre
<1>. QED BY <1>1, <1>2, <1>3

\* The lease loop and _propagate_dependency_failures: a task less to visit, and a move
\* less before the iteration has something to go round for.
LEMMA LoopsRunDown ==
  ASSUME InductiveInv, PositionInv, PositionInv', NEW t \in Tasks,
         LeaseStep(t) \/ PropagateStep(t)
  PROVE  StepsLeft' < StepsLeft
<1>0. /\ Cardinality(Tasks) \in Nat /\ state \in WorkflowState
      /\ todo \subseteq Tasks /\ Cardinality(todo) \in Nat
      /\ Cardinality(MovesAhead(state)) \in Nat /\ Cardinality(MovesAhead(state')) \in Nat
  BY PartOfTasks, MovesAheadAre DEF InductiveInv, TypeOK
<1>1. /\ t \in todo /\ todo' = todo \ {t} /\ pc' = pc /\ pc \in {"lease", "propagate"}
  BY DEF LeaseStep, PropagateStep, NoFreeAgent, OverBudget, LeaseRefused, LeaseGranted,
         Leasing, IsNext, PropagateFailure, LeaveOpen
<1>2. Position' < Position
  <2>1. Cardinality(todo') \in Nat /\ Cardinality(todo) = Cardinality(todo') + 1
    BY <1>0, <1>1, OneTaskLess
  <2>. QED BY <1>0, <1>1, <2>1 DEF Position
<1>3. Rounds' <= Rounds
  <2>1. CASE NoFreeAgent(t) \/ LeaseRefused(t) \/ LeaveOpen(t)
    <3>1. state' = state /\ agent' = agent /\ changed' = changed /\ ret' = ret
      BY <2>1 DEF NoFreeAgent, LeaseRefused, LeaveOpen
    <3>2. Work' = Work
      BY <3>1 DEF Work
    <3>. QED BY <1>0, <1>1, <3>1, <3>2 DEF Rounds, GoesRound
  <2>2. CASE OverBudget(t)
    <3>1. /\ pc = "lease" /\ state' = BlockAndEscalate(state, t) /\ agent' = agent
          /\ changed' = changed
      BY <2>2 DEF OverBudget, Leasing
    <3>2. state.status[t] = "ready"
      BY <1>1, <3>1 DEF InductiveInv, WaveInv
    <3>3. /\ state' \in WorkflowState /\ state'.attempts = state.attempts
          /\ state'.status = [state.status EXCEPT ![t] = "escalated"]
      BY <1>0, <3>1, EscalateFacts
    <3>4. Cardinality(MovesAhead(state')) < Cardinality(MovesAhead(state))
      BY <1>0, <3>2, <3>3, OneMoveFewer
    <3>. QED BY <1>0, <3>4 DEF Rounds
  <2>3. CASE LeaseGranted(t)
    <3>1. pc = "lease" /\ state' = Transition(Transition(state, t, "leased"), t, "running")
      BY <2>3 DEF LeaseGranted, Leasing
    <3>2. state.status[t] = "ready"
      BY <1>1, <3>1 DEF InductiveInv, WaveInv
    <3>3. /\ state' \in WorkflowState
          /\ state'.attempts = [state.attempts EXCEPT ![t] = @ + 1]
          /\ state'.status = [state.status EXCEPT ![t] = "running"]
      BY <1>0, <3>1, LaunchFacts
    <3>4. Cardinality(MovesAhead(state')) < Cardinality(MovesAhead(state))
      BY <1>0, <3>2, <3>3, OneMoveFewer
    <3>. QED BY <1>0, <3>4 DEF Rounds
  <2>4. CASE PropagateFailure(t)
    <3>1. pc = "propagate" /\ state' = BlockAndEscalate(state, t)
      BY <2>4 DEF PropagateFailure
    <3>2. state.status[t] \in {"pending", "ready", "retry"}
      BY <1>1, <3>1 DEF InductiveInv, WaveInv, Open
    <3>3. /\ state' \in WorkflowState /\ state'.attempts = state.attempts
          /\ state'.status = [state.status EXCEPT ![t] = "escalated"]
      BY <1>0, <3>1, EscalateFacts
    <3>4. Cardinality(MovesAhead(state')) < Cardinality(MovesAhead(state))
      BY <1>0, <3>2, <3>3, OneMoveFewer
    <3>. QED BY <1>0, <3>4 DEF Rounds
  <2>. QED BY <2>1, <2>2, <2>3, <2>4 DEF LeaseStep, PropagateStep
<1>. QED BY <1>1, <1>2, <1>3, WaysDown

\* A worker that returns is waited for no longer.
LEMMA WorkersRunDown ==
  ASSUME InductiveInv, PositionInv, PositionInv', NEW t \in Tasks, WorkerReturns(t)
  PROVE  StepsLeft' < StepsLeft
<1>. DEFINE waiting == {u \in Work : results[u] = NoResult}
            after == {u \in Work : results'[u] = NoResult}
<1>1. /\ pc = "execute" /\ pc' = pc /\ state' = state /\ agent' = agent /\ t \in waiting
      /\ ret' = ret /\ changed' = changed
  BY DEF WorkerReturns
<1>2. PICK r \in WorkerResults[t] \cup {WorkerRaised, RuntimeExceeded} :
        results' = [results EXCEPT ![t] = r]
  BY DEF WorkerReturns
<1>3. r # NoResult
  BY SupervisorAssumption, MadeUpResults
<1>4. results \in [Tasks -> WorkerResult \cup {NoResult}] /\ Work \subseteq Tasks /\ Work' = Work
  BY <1>1 DEF InductiveInv, TypeOK, Work
<1>5. after = waiting \ {t}
  BY <1>2, <1>3, <1>4
<1>6. waiting \subseteq Tasks
  BY <1>4
<1>7. /\ Cardinality(Work) \in Nat
      /\ Position = 1 + Cardinality(Work) + Cardinality(waiting)
      /\ Position' = 1 + Cardinality(Work) + Cardinality(after)
  BY <1>1, <1>4, PartOfTasks DEF Position
<1>. HIDE DEF waiting, after
<1>8. Cardinality(after) \in Nat /\ Cardinality(waiting) = Cardinality(after) + 1
  BY <1>1, <1>5, <1>6, OneTaskLess
<1>9. Position' < Position
  BY <1>7, <1>8
<1>10. Rounds' = Rounds
  BY <1>1 DEF Rounds, GoesRound
<1>. QED BY <1>1, <1>9, <1>10, WaysDown, RoundsAre

\* A result that is applied leaves its task with fewer moves.
LEMMA ResultsRunDown ==
  ASSUME InductiveInv, PositionInv, PositionInv', NEW t \in Tasks, ApplyStep(t)
  PROVE  StepsLeft' < StepsLeft
<1>0. /\ state \in WorkflowState /\ now \in Nat
      /\ Cardinality(MovesAhead(state)) \in Nat /\ Cardinality(MovesAhead(state')) \in Nat
  BY MovesAheadAre DEF InductiveInv, TypeOK
<1>1. pc = "execute" /\ state.status[t] = "running" /\ Applying(t)
  BY DEF ApplyStep, ApplyCompleted, ApplyRetry, ApplyEscalated, LeaseLost, Applying,
         InductiveInv, WaveInv
<1>2. results[t] \in WorkerResult
  BY <1>1, ResultType DEF InductiveInv
<1>3. CASE LeaseLost(t)
  BY <1>1, <1>3, WaysDown DEF LeaseLost, Ends
<1>4. ASSUME pc' = pc, Cardinality(MovesAhead(state')) < Cardinality(MovesAhead(state))
      PROVE  StepsLeft' < StepsLeft
  <2>1. Rounds' < Rounds
    BY <1>0, <1>1, <1>4 DEF Rounds, GoesRound
  <2>. QED BY <1>1, <2>1, WaysDown
<1>5. CASE ApplyCompleted(t)
  <2>1. pc' = pc /\ state' = CompleteTask(state, t, results[t])
    BY <1>5 DEF ApplyCompleted, Release
  <2>2. /\ state' \in WorkflowState /\ state'.attempts = state.attempts
        /\ state'.status = [state.status EXCEPT ![t] = "completed"]
    BY <1>0, <1>2, <2>1, CompleteFacts
  <2>. QED BY <1>0, <1>1, <1>4, <2>1, <2>2, OneMoveFewer
<1>6. CASE ApplyRetry(t)
  <2>1. /\ pc' = pc /\ state.attempts[t] < MaxAttempts[t]
        /\ state' = Transition(Transition(state, t, "validating"), t, "retry")
    BY <1>6 DEF ApplyRetry, MayRetry, Release
  <2>2. /\ state' \in WorkflowState /\ state'.attempts = state.attempts
        /\ state'.status = [state.status EXCEPT ![t] = "retry"]
    BY <1>0, <2>1, RetryFacts
  <2>. QED BY <1>0, <1>1, <1>4, <2>1, <2>2, OneMoveFewer
<1>7. CASE ApplyEscalated(t)
  <2>1. /\ pc' = pc
        /\ state' = BlockAndEscalate(Transition(state, t, "validating"), t)
    BY <1>7 DEF ApplyEscalated, Release
  <2>2. /\ state' \in WorkflowState /\ state'.attempts = state.attempts
        /\ state'.status = [state.status EXCEPT ![t] = "escalated"]
    BY <1>0, <2>1, RejectFacts
  <2>. QED BY <1>0, <1>1, <1>4, <2>1, <2>2, OneMoveFewer
<1>. QED BY <1>3, <1>5, <1>6, <1>7 DEF ApplyStep

\* The steps together.
LEMMA EveryStepRunsDown ==
  ASSUME InductiveInv, PositionInv, PositionInv',
         SupervisorStep \/ \E t \in Tasks : WorkerReturns(t)
  PROVE  StepsLeft' < StepsLeft
<1>1. CASE SaveRaises \/ WriteSummary \/ Stall
  <2>1. pc # "off" /\ pc' = "off"
    BY <1>1 DEF SaveRaises, WriteSummary, Stall, Ends
  <2>. QED BY <2>1, WaysDown
<1>2. CASE ~ (SaveRaises \/ WriteSummary \/ Stall)
  BY <1>2, CheckpointsRunDown, PassesRunDown, LoopsRunDown, WorkersRunDown, ResultsRunDown
  DEF SupervisorStep
<1>. QED BY <1>1, <1>2

\* A signal to pause and the passing of time are not steps of the run.
LEMMA OutsideStays ==
  ASSUME Pause \/ Tick
  PROVE  StepsLeft' = StepsLeft
<1>1. UNCHANGED <<pc, ret, state, todo, changed, agent, results>>
  BY DEF Pause, Tick, memory
<1>. QED BY <1>1 DEF StepsLeft, Rounds, GoesRound, Position, Work

(***************************************************************************)
(* No run() goes on for ever, however its workers answer and whatever was  *)
(* interrupted before: each step of the process lowers a number that is    *)
(* zero exactly when the process has ended, and no passing of time raises  *)
(* it (scheduler.py, the loop of run() with _apply_result and              *)
(* _propagate_dependency_failures).                                        *)
(***************************************************************************)
THEOREM RunsComeDown ==
  Spec => [](StepsLeft \in Nat /\ (StepsLeft = 0 <=> pc = "off")) /\ RunsDown
<1>1. InductiveInv => PositionInv
  BY PositionIs DEF InductiveInv
<1>2. PositionInv => StepsLeft \in Nat /\ (StepsLeft = 0 <=> pc = "off")
  BY StepsLeftIs
<1>3. InductiveInv /\ PositionInv /\ PositionInv' /\ [Next]_vars =>
        [/\ SupervisorStep \/ (\E t \in Tasks : WorkerReturns(t)) => StepsLeft' < StepsLeft
         /\ Pause \/ Tick => StepsLeft' = StepsLeft]_vars
  BY EveryStepRunsDown, OutsideStays
<1>. QED BY <1>1, <1>2, <1>3, Inductive, PTL DEF Spec, RunsDown
=============================================================================
