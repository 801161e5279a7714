-------------------------- MODULE ResultValidation --------------------------
(***************************************************************************)
(* validate_worker_result of orchestration/validation.py.  A worker result *)
(* is abstracted to the outcome of each comparison the function makes:     *)
(*   task_matches   result.task_id is the leased task                      *)
(*   succeeded      the worker reports success                             *)
(*   category       the failure category it reports ("none" on success)    *)
(*   retryable      whether it calls its failure retryable                 *)
(*   ids_match      proposed artifact IDs are the expected ones            *)
(*   paths_match    proposed paths are the declared output paths           *)
(*   paths_safe     every proposed path is relative and does not escape    *)
(*   checks_passed  every acceptance test is among the passed checks       *)
(*   artifacts      at least one artifact is proposed                      *)
(*   reason         a no-artifact reason is given                          *)
(*   evidence       consumed artifacts include the gate's evidence         *)
(*   tokens, gpu    the usage the worker reports                           *)
(***************************************************************************)
EXTENDS Naturals, Sequences

FailureCategories ==
  {"model_unavailable", "schema_mismatch", "dependency_missing",
   "validation_failure", "budget_exceeded", "safety_boundary",
   "reproducibility_failure", "human_decision_required",
   "runtime_interrupted", "file_lease_conflict"}

\* The shapes that WorkerResult's own validator accepts.
WellFormed(r) ==
  IF r.succeeded
  THEN /\ r.category = "none" /\ ~ r.retryable
       /\ ~ (r.artifacts /\ r.reason)
       /\ ~ r.artifacts => r.paths_safe
  ELSE r.category # "none" /\ ~ r.artifacts /\ ~ r.reason

WorkerResult ==
  {r \in [task_matches: BOOLEAN, succeeded: BOOLEAN,
          category: FailureCategories \cup {"none"}, retryable: BOOLEAN,
          ids_match: BOOLEAN, paths_match: BOOLEAN, paths_safe: BOOLEAN,
          checks_passed: BOOLEAN, artifacts: BOOLEAN, reason: BOOLEAN,
          evidence: BOOLEAN, tokens: Nat, gpu: Nat] : WellFormed(r)}

(***************************************************************************)
(* The comparisons in source order.  Each failing one overwrites the       *)
(* category, so the category of the last failing comparison stands.        *)
(***************************************************************************)
Comparisons(r, gated) ==
  << [fails |-> ~ r.task_matches,
      category |-> "schema_mismatch"],
     [fails |-> ~ r.succeeded,
      category |-> r.category],
     [fails |-> r.succeeded /\ ~ r.ids_match,
      category |-> "validation_failure"],
     [fails |-> r.succeeded /\ ~ r.paths_match,
      category |-> "validation_failure"],
     [fails |-> r.succeeded /\ ~ r.paths_safe,
      category |-> "safety_boundary"],
     [fails |-> r.succeeded /\ ~ r.checks_passed,
      category |-> "validation_failure"],
     [fails |-> r.succeeded /\ ~ r.artifacts /\ ~ r.reason,
      category |-> "schema_mismatch"],
     [fails |-> r.succeeded /\ gated /\ ~ r.evidence,
      category |-> "dependency_missing"] >>

Failures(r, gated) == {i \in 1 .. 8 : Comparisons(r, gated)[i].fails}

Passed(r, gated) == Failures(r, gated) = {}

Category(r, gated) ==
  LET last == CHOOSE i \in Failures(r, gated) :
                 \A j \in Failures(r, gated) : j <= i
  IN  Comparisons(r, gated)[last].category

Retryable(r, gated) ==
  /\ ~ Passed(r, gated)
  /\ \/ ~ r.succeeded /\ r.retryable
     \/ Category(r, gated) = "validation_failure"

-----------------------------------------------------------------------------
(***************************************************************************)
(* The two results that the supervisor puts in place of the worker's own   *)
(* (Supervisor._execute_wave): the worker raised, or it ran too long.      *)
(***************************************************************************)
FailureResult(category, retryable) ==
  [task_matches |-> TRUE, succeeded |-> FALSE, category |-> category,
   retryable |-> retryable, ids_match |-> FALSE, paths_match |-> FALSE,
   paths_safe |-> TRUE, checks_passed |-> FALSE, artifacts |-> FALSE,
   reason |-> FALSE, evidence |-> FALSE, tokens |-> 0, gpu |-> 0]

WorkerRaised == FailureResult("model_unavailable", TRUE)

RuntimeExceeded == FailureResult("budget_exceeded", FALSE)
=============================================================================
