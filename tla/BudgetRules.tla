---------------------------- MODULE BudgetRules -----------------------------
(***************************************************************************)
(* The pure rules of orchestration/budgets.py.  Usage and requests are     *)
(* records over the six budgeted amounts; limits add the deadline.  Time   *)
(* is counted from the account's started_at, so elapsed time is `now'.     *)
(***************************************************************************)
EXTENDS Integers

NoLimit == -1               \* a limit left at None

Amounts == {"wall", "tokens", "gpu", "training", "retries", "malformed"}

Usage == [Amounts -> Nat]

NoUsage == [a \in Amounts |-> 0]

Observed(usage, now) ==
  [usage EXCEPT !["wall"] = IF now <= @ THEN @ ELSE now]

\* A request is a partial assignment: amounts it does not name are zero.
Requested(request, a) == IF a \in DOMAIN request THEN request[a] ELSE 0

Project(usage, request, now) ==
  [a \in Amounts |-> Observed(usage, now)[a] + Requested(request, a)]

PastDeadline(limits, now) ==
  limits.deadline # NoLimit /\ now > limits.deadline

Fits(usage, limits) ==
  \A a \in Amounts : limits[a] # NoLimit => usage[a] <= limits[a]

Exceeded(usage, limits, now) == ~ Fits(usage, limits) \/ PastDeadline(limits, now)

CanStart(usage, request, limits, now) ==
  ~ Exceeded(Project(usage, request, now), limits, now)

\* training_decision(...).should_train
TrainingApproved(usage, hours, limits, now) ==
  LET seen == Observed(usage, now) IN
  /\ hours > 0
  /\ ~ PastDeadline(limits, now)
  /\ seen["wall"] < limits["wall"]
  /\ seen["training"] + hours <= limits["training"]
  /\ limits["gpu"] # NoLimit => seen["gpu"] + hours <= limits["gpu"]
=============================================================================
