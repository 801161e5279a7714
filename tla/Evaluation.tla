----------------------------- MODULE Evaluation -----------------------------
(***************************************************************************)
(* The pure parts of the evaluation, each fed one observation at a time    *)
(* and none touching another: decision metrics, follow-ups, block          *)
(* contrasts and the family of tests.  A behaviour exercises one of them.  *)
(***************************************************************************)
EXTENDS DecisionMetrics, RecoveryCohort, BlockAnalysis, ConfirmatoryFamily

VARIABLE part   \* which of the four this behaviour exercises

\* None is no value of any field, and the fields have the types that contracts.py gives them.
ASSUME ObservationAssumption ==
  /\ NA \notin BOOLEAN \cup Int \cup [num : Int, den : Int]
  /\ NA \notin MissingReason \cup {InvalidScenario.reason}
  /\ \A d \in ActionCandidates : IsAction(d)
  /\ \A d \in RetrievalCandidates : IsRetrieval(d)
  /\ \A d \in DayCandidates : IsDay(d)

\* Names are numbers here; a p-value lies between 0 and 1.
ASSUME FamilyAssumption ==
  /\ Hypotheses \subseteq Int /\ IsFiniteSet(Hypotheses)
  /\ Scale \in Nat /\ PValues \subseteq 0..Scale

rulesVars == <<part, decisionVars, followUpVars, blockVars, pvalues>>

Parts == {"decisions", "follow-up", "blocks", "family"}

RulesInit == part \in Parts /\ DecisionInit /\ FollowUpInit /\ BlockInit /\ FamilyInit

RulesNext ==
  /\ UNCHANGED part
  /\ \/ part = "decisions" /\ DecisionNext /\ UNCHANGED <<followUpVars, blockVars, pvalues>>
     \/ part = "follow-up" /\ FollowUpNext /\ UNCHANGED <<decisionVars, blockVars, pvalues>>
     \/ part = "blocks" /\ BlockNext /\ UNCHANGED <<decisionVars, followUpVars, pvalues>>
     \/ part = "family" /\ FamilyNext /\ UNCHANGED <<decisionVars, followUpVars, blockVars>>

RulesSpec == RulesInit /\ [][RulesNext]_rulesVars

-----------------------------------------------------------------------------
(* Ten metrics of the same decisions: every record passes MetricRecord's   *)
(* own validator, and related metrics do not contradict each other.        *)
MetricsAgree == ReportsAdmissible /\ NoSpendWithoutChoice /\ BiasNeedsIntrusion

(* The daily, the per-trajectory and the cohort's outcomes of one          *)
(* follow-up agree, in metrics.py and between metrics.py and analysis.py,  *)
(* and a missing day never helps.                                          *)
OutcomesAgree ==
  /\ MissingNeverHelps
  /\ ZeroPersistenceRecovers /\ FullyCoherentRecovers /\ FactsBoundCoherence
  /\ CurvesAgree /\ RestrictedMeanIsMean

(* A hypothesis' result accounts for every block, does not depend on which *)
(* arm is called left, and claims no more evidence than its complete       *)
(* blocks can give (evaluation/analysis.py:497-524, 737-820).              *)
ContrastsSound ==
  /\ EveryBlockCounted /\ SwapNegates
  /\ SmallestPValue /\ NullBlockAddsNothing /\ IntervalIsWithinFamilies
=============================================================================
