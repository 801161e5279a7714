------------------------- MODULE OfflineEvaluation -------------------------
(***************************************************************************)
(* The offline evaluation runner (evaluation/runner.py): it works through  *)
(* the matrix of a design (evaluation/matrix.py) in slices, under a hard   *)
(* budget of time, and keeps raw results in a write-once store.            *)
(*                                                                         *)
(* There is one process per design, all on the same store.  A call of run  *)
(* starts from the results that its client kept from the last one that     *)
(* returned; a call that raises or whose process dies returns nothing.  A  *)
(* run id is what it is taken of, a pointer is the payload it names.       *)
(***************************************************************************)
EXTENDS Integers, SequencesExt

CONSTANTS
  Designs,       \* design kind -> its formations, interventions, families and seeds
  Payloads,      \* what a trajectory may leave as raw bytes
  Slices,        \* the values of max_new_results a client uses
  MaxSeconds,    \* max_wall_clock_seconds
  Durations,     \* how long the executor may take
  WriteTimes,    \* how long a write to the store may take
  MaxCrashes     \* bounds the deaths of processes

Kinds == DOMAIN Designs

ASSUME EvaluationAssumption ==
  /\ MaxSeconds \in Nat \ {0} /\ MaxCrashes \in Nat
  /\ Slices \subseteq Nat /\ Durations \subseteq Nat /\ WriteTimes \subseteq Nat
  /\ 0 \in Durations
  /\ \A kind \in Kinds : \A part \in {"formations", "interventions", "families", "seeds"} :
       Designs[kind][part] \in Seq(Range(Designs[kind][part]))

VARIABLES
  store,      \* payload -> whether its file is whole or only created
  saved,      \* the results the client has: run id -> result
  pc,         \* where the call of run stands
  scheduled,  \* the positions in the matrix that are left of this slice
  added,      \* its results
  started,    \* HardBudgetAccount.trajectories_started
  spent,      \* HardBudgetAccount.elapsed_seconds
  outcome,    \* what the executor returned and how long it took
  exhausted,  \* budget_exhausted
  last,       \* how the last call ended
  crashes     \* history: how many processes died

vars == <<store, saved, pc, scheduled, added, started, spent, outcome, exhausted, last, crashes>>
local == <<scheduled, added, started, spent, outcome, exhausted>>

-----------------------------------------------------------------------------
(* expand_experiment_matrix *)

\* The Cartesian product in the order of two nested loops.
Cross(s, t) ==
  [i \in 1..(Len(s) * Len(t)) |->
     <<s[((i - 1) \div Len(t)) + 1], t[((i - 1) % Len(t)) + 1]>>]

Matrix ==
  [kind \in Kinds |->
     LET d == Designs[kind]
     IN Cross(Cross(Cross(d.formations, d.interventions), d.families), d.seeds)]

RunIds == [kind \in Kinds |-> Range(Matrix[kind])]

\* ExperimentMatrix accepts no assignment twice (validate_matrix).
ASSUME MatrixAssumption == \A kind \in Kinds : IsInjective(Matrix[kind])

-----------------------------------------------------------------------------
NoPayload == [none |-> TRUE]
EmptyPayload == [none |-> FALSE]

\* What an executor returns, or what stands for the error that it raised: a missing
\* result, whose reason is the budget ("over_budget") or anything else.
Outcomes == [status : {"valid", "invalid"}, payload : Payloads, elapsed : Durations]
  \cup [status : {"missing"}, payload : {NoPayload, EmptyPayload}, elapsed : Durations]
  \cup [status : {"over_budget"}, payload : {NoPayload}, elapsed : Durations]

Results == {o \in Outcomes : o.payload # EmptyPayload}

Places == {"idle", "next", "execute", "put", "create", "write"}

Endings == {"none", "complete", "paused", "budget_exhausted",
            "time_exceeded", "offline_error", "empty_result", "different_bytes", "died"}

\* Results, schedules and endings of the evaluations; what is stored is whole or only
\* created.
TypeOK ==
  /\ DOMAIN store \subseteq Payloads
  /\ \A p \in DOMAIN store : store[p] \in {"created", "whole"}
  /\ \A k \in Kinds :
       /\ DOMAIN saved[k] \subseteq RunIds[k] /\ Range(saved[k]) \subseteq Results
       /\ DOMAIN added[k] \subseteq RunIds[k] /\ Range(added[k]) \subseteq Results
       /\ pc[k] \in Places
       /\ scheduled[k] \subseteq DOMAIN Matrix[k]
       /\ started[k] \in 0..Len(Matrix[k])
       /\ spent[k] \in Nat
       /\ outcome[k] \in Outcomes
       /\ exhausted[k] \in BOOLEAN
       /\ last[k] \in Endings
  /\ crashes \in 0..MaxCrashes

NoResults == <<>>
NoOutcome == [status |-> "missing", payload |-> NoPayload, elapsed |-> 0]

Init ==
  /\ store = <<>>
  /\ saved = [k \in Kinds |-> NoResults]
  /\ pc = [k \in Kinds |-> "idle"]
  /\ scheduled = [k \in Kinds |-> {}]
  /\ added = [k \in Kinds |-> NoResults]
  /\ started = [k \in Kinds |-> 0]
  /\ spent = [k \in Kinds |-> 0]
  /\ outcome = [k \in Kinds |-> NoOutcome]
  /\ exhausted = [k \in Kinds |-> FALSE]
  /\ last = [k \in Kinds |-> "none"]
  /\ crashes = 0

Elapsed(results) == SumFunction([id \in DOMAIN results |-> results[id].elapsed])

-----------------------------------------------------------------------------
(* How a call ends *)

\* What it kept in local variables is gone.
Forget(k) ==
  /\ scheduled' = [scheduled EXCEPT ![k] = {}]
  /\ added' = [added EXCEPT ![k] = NoResults]
  /\ started' = [started EXCEPT ![k] = 0]
  /\ outcome' = [outcome EXCEPT ![k] = NoOutcome]
  /\ exhausted' = [exhausted EXCEPT ![k] = FALSE]
  /\ pc' = [pc EXCEPT ![k] = "idle"]

\* Mutant of Status: a slice that was cut short counts as exhausted.
StatusWithoutPause(k, results, overTime) ==
  IF DOMAIN results = RunIds[k] THEN "complete" ELSE "budget_exhausted"
Status(k, results, overTime) ==
  IF DOMAIN results = RunIds[k] THEN "complete"
  ELSE IF overTime THEN "budget_exhausted" ELSE "paused"

\* run returns the progress, and its client keeps the results.
Return(k, results, overTime) ==
  /\ saved' = [saved EXCEPT ![k] = results]
  /\ last' = [last EXCEPT ![k] = Status(k, results, overTime)]
  /\ Forget(k)
  /\ UNCHANGED spent

\* run raises: what this slice added is lost.
Raise(k, why) ==
  /\ last' = [last EXCEPT ![k] = why]
  /\ Forget(k)
  /\ UNCHANGED <<saved, spent>>

OverTime(seconds) == seconds >= MaxSeconds

With(f, key, value) == [k \in DOMAIN f \cup {key} |-> IF k = key THEN value ELSE f[k]]

\* Mutant of Combined: prior results are dropped.
CombinedOfSlice(k) == added[k]
Combined(k) ==
  [id \in DOMAIN added[k] \cup DOMAIN saved[k] |->
     IF id \in DOMAIN added[k] THEN added[k][id] ELSE saved[k][id]]

-----------------------------------------------------------------------------
(* One call of run *)

\* The first of a set of positions.
FirstOf(positions, limit) ==
  {n \in positions : Cardinality({m \in positions : m < n}) < limit}

\* Mutant of Schedule: assignments with a result are run again.
ScheduleAll(k, limit) == FirstOf(DOMAIN Matrix[k], limit)
\* schedule: what has no result, in the order of the matrix.
Schedule(k, limit) ==
  FirstOf({n \in DOMAIN Matrix[k] : Matrix[k][n] \notin DOMAIN saved[k]}, limit)

\* Mutant of PriorStarted: the count starts anew.
PriorStartedNone(k) == 0
PriorStarted(k) == Cardinality(DOMAIN saved[k])
\* Mutant of PreviousElapsed: the time starts anew.
PreviousElapsedNone(k) == 0
PreviousElapsed(k) == Elapsed(saved[k])

\* A prior elapsed time above the limit is an error, at the limit it is a state.
Resume(k, limit) ==
  /\ pc[k] = "idle"
  /\ IF PreviousElapsed(k) > MaxSeconds
     THEN Raise(k, "time_exceeded")
     ELSE /\ pc' = [pc EXCEPT ![k] = "next"]
          /\ scheduled' = [scheduled EXCEPT ![k] = Schedule(k, limit)]
          /\ added' = [added EXCEPT ![k] = NoResults]
          /\ started' = [started EXCEPT ![k] = PriorStarted(k)]
          /\ spent' = [spent EXCEPT ![k] = PreviousElapsed(k)]
          /\ UNCHANGED <<saved, outcome, exhausted, last>>
  /\ UNCHANGED <<store, crashes>>

\* start_trajectory
BudgetLeft(k) == ~OverTime(spent[k]) /\ started[k] < Len(Matrix[k])

EndOfSlice(k) ==
  /\ pc[k] = "next"
  /\ scheduled[k] = {} \/ exhausted[k] \/ ~BudgetLeft(k)
  /\ Return(k, Combined(k), exhausted[k] \/ scheduled[k] # {})
  /\ UNCHANGED <<store, crashes>>

Start(k) ==
  /\ pc[k] = "next"
  /\ scheduled[k] # {} /\ ~exhausted[k] /\ BudgetLeft(k)
  /\ started' = [started EXCEPT ![k] = @ + 1]
  /\ pc' = [pc EXCEPT ![k] = "execute"]
  /\ UNCHANGED <<store, saved, scheduled, added, spent, outcome, exhausted, last, crashes>>

\* Positions are worked through in their order.
IsNext(k, n) == n \in scheduled[k] /\ \A m \in scheduled[k] : n <= m

\* The result joins the slice, which ends if the executor met the budget; otherwise the
\* time is checked.
AddResult(k, o, seconds) ==
  /\ \E n \in scheduled[k] :
       /\ IsNext(k, n)
       /\ added' = [added EXCEPT ![k] = With(@, Matrix[k][n], o)]
       /\ scheduled' = [scheduled EXCEPT ![k] = @ \ {n}]
  /\ spent' = [spent EXCEPT ![k] = seconds]
  /\ outcome' = [outcome EXCEPT ![k] = NoOutcome]
  /\ exhausted' = [exhausted EXCEPT ![k] = o.status = "over_budget" \/ OverTime(seconds)]
  /\ pc' = [pc EXCEPT ![k] = "next"]
  /\ UNCHANGED <<saved, started, last>>

\* The executor returns an outcome, or raises: BudgetExceededError when it asks for the
\* time or declares a model call too late, but nothing keeps it from raising the same
\* error of its own in time.
Execute(k, o) ==
  /\ pc[k] = "execute"
  /\ IF o.payload = NoPayload
     THEN AddResult(k, o, spent[k] + o.elapsed)
     ELSE IF o.payload = EmptyPayload
     THEN Raise(k, "empty_result")
     ELSE /\ outcome' = [outcome EXCEPT ![k] = o]
          /\ spent' = [spent EXCEPT ![k] = @ + o.elapsed]
          /\ pc' = [pc EXCEPT ![k] = "put"]
          /\ UNCHANGED <<saved, scheduled, added, started, exhausted, last>>
  /\ UNCHANGED <<store, crashes>>

\* It declares a model call in time, or raises the same error of its own.
DeclareModelCall(k) ==
  /\ pc[k] = "execute"
  /\ Raise(k, "offline_error")
  /\ UNCHANGED <<store, crashes>>

-----------------------------------------------------------------------------
(* ImmutableRawResultStore.put, whose steps other processes come between *)

\* A file that is there must have the payload's bytes: one that is only created has not.
Compare(k, seconds) ==
  /\ IF store[outcome[k].payload] = "whole"
     THEN AddResult(k, outcome[k], spent[k] + seconds)
     ELSE Raise(k, "different_bytes")
  /\ UNCHANGED <<store, crashes>>

Put(k, seconds) ==
  /\ pc[k] = "put"
  /\ IF outcome[k].payload \in DOMAIN store
     THEN Compare(k, seconds)
     ELSE /\ pc' = [pc EXCEPT ![k] = "create"]
          /\ UNCHANGED <<store, saved, last, crashes, local>>

\* Mutant of Create: the file is opened for writing, whoever created it.
CreateAnyway(k, seconds) ==
  /\ pc[k] = "create"
  /\ store' = With(store, outcome[k].payload, "created")
  /\ pc' = [pc EXCEPT ![k] = "write"]
  /\ UNCHANGED <<saved, last, crashes, local>>
\* open("xb"): another process may have created the file in between.
Create(k, seconds) ==
  /\ pc[k] = "create"
  /\ IF outcome[k].payload \in DOMAIN store
     THEN Compare(k, seconds)
     ELSE /\ store' = With(store, outcome[k].payload, "created")
          /\ pc' = [pc EXCEPT ![k] = "write"]
          /\ UNCHANGED <<saved, last, crashes, local>>

\* Mutant of Write: the bytes are not flushed.
WriteLater(k, seconds) ==
  /\ pc[k] = "write"
  /\ AddResult(k, outcome[k], spent[k] + seconds)
  /\ UNCHANGED <<store, crashes>>
Write(k, seconds) ==
  /\ pc[k] = "write"
  /\ store' = [store EXCEPT ![outcome[k].payload] = "whole"]
  /\ AddResult(k, outcome[k], spent[k] + seconds)
  /\ UNCHANGED crashes

Crash(k) ==
  /\ pc[k] # "idle"
  /\ crashes < MaxCrashes
  /\ Raise(k, "died")
  /\ crashes' = crashes + 1
  /\ UNCHANGED store

-----------------------------------------------------------------------------
ExecutorStep(k) ==
  \/ \E o \in Outcomes : Execute(k, o)
  \/ DeclareModelCall(k)

RunStep(k) ==
  \/ EndOfSlice(k) \/ Start(k)
  \/ \E seconds \in WriteTimes : Put(k, seconds) \/ Create(k, seconds) \/ Write(k, seconds)

Next ==
  \E k \in Kinds :
    \/ \E limit \in Slices : Resume(k, limit)
    \/ RunStep(k) \/ ExecutorStep(k) \/ Crash(k)

Spec == Init /\ [][Next]_vars

\* Executors return, and a client goes on until the evaluation has ended.
Ended(k) == last[k] \in {"complete", "budget_exhausted", "time_exceeded"}

FairSpec ==
  /\ Spec
  /\ \A k \in Kinds :
       /\ WF_vars(RunStep(k)) /\ WF_vars(ExecutorStep(k))
       /\ WF_vars(\E limit \in Slices \ {0} : ~Ended(k) /\ Resume(k, limit))

-----------------------------------------------------------------------------
(* Properties *)

\* An assignment whose result the client has is never executed again, whatever
\* slices, errors and deaths lie in between (evaluation/runner.py:326).
NeverTwice ==
  \A k \in Kinds : pc[k] = "execute" =>
    \A n \in scheduled[k] : IsNext(k, n) => Matrix[k][n] \notin DOMAIN saved[k]

\* Results that a client has stay as they are, and a file that is whole is never touched
\* again, whoever stores the same bytes (runner.py:149-158, 399).
NothingOverwritten ==
  [][/\ \A k \in Kinds : \A id \in DOMAIN saved[k] :
          id \in DOMAIN saved'[k] /\ saved'[k][id] = saved[k][id]
     /\ \A p \in DOMAIN store :
          p \in DOMAIN store' /\ (store[p] = "whole" => store'[p] = "whole")]_vars

\* Every result with a payload points to a whole file, also after another process
\* died while it wrote: verify never refuses a client's own results (runner.py:311).
PointersResolve ==
  \A k \in Kinds : \A id \in DOMAIN saved[k] :
    saved[k][id].payload # NoPayload =>
      saved[k][id].payload \in DOMAIN store /\ store[saved[k][id].payload] = "whole"

\* The trajectory budget, which is as large as the matrix, never stops a run, and what
\* counts against it are the results: a lost slice is given back (runner.py:231, 343).
CountsResults ==
  \A k \in Kinds :
    pc[k] = "next" => /\ started[k] = Cardinality(DOMAIN saved[k]) + Cardinality(DOMAIN added[k])
                      /\ scheduled[k] # {} => started[k] < Len(Matrix[k])

\* All the trajectories of one evaluation together, over all its calls, took less than
\* the limit, or less than the limit without one of them: none starts when the time is up
\* (runner.py:226, 339).
Bounded(results) ==
  \/ Elapsed(results) < MaxSeconds
  \/ \E id \in DOMAIN results : Elapsed(results) - results[id].elapsed < MaxSeconds
WorkBounded == \A k \in Kinds : Bounded(Combined(k))

\* Among some results is one whose executor said that the budget was used up.
ClaimedOver(results) == \E id \in DOMAIN results : results[id].status = "over_budget"

\* A call says that the budget is used up only when it is, or an executor said so: it then
\* left assignments pending, and before that the slice ended for no other reason
\* (runner.py:365-371, 391-411).
StatusTruthful ==
  \A k \in Kinds :
    /\ pc[k] = "next" /\ exhausted[k] => OverTime(spent[k]) \/ ClaimedOver(added[k])
    /\ last[k] = "budget_exhausted" /\ pc[k] = "idle" =>
         DOMAIN saved[k] # RunIds[k] /\ (OverTime(spent[k]) \/ ClaimedOver(saved[k]))

\* What the budget counts is what was done, over all calls, and what it says is true.
BudgetHonest == CountsResults /\ WorkBounded /\ StatusTruthful

\* What a client holds was executed once and can be verified.
ResultsSound == NeverTwice /\ PointersResolve

\* A client that goes on ends with every assignment or at the limit, unless its calls raise.
EvaluationEnds ==
  \A k \in Kinds :
    \/ <>Ended(k)
    \/ []<>(last[k] \in {"offline_error", "empty_result", "different_bytes", "died"})

\* Clients' results and the raw store implement EvaluationLedger: results are a prefix of
\* the matrix, stay, point to bytes that are there, and took the time that there was.
Ledger == INSTANCE EvaluationLedger WITH
  results <- saved,
  kept <- {p \in DOMAIN store : store[p] = "whole"}

ImplementsEvaluationLedger == Ledger!Spec
=============================================================================
