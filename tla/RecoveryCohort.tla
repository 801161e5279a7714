--------------------------- MODULE RecoveryCohort ---------------------------
(***************************************************************************)
(* Follow-up of one trajectory after another: each day's paired allocation *)
(* and coherence components come in, the complete trajectory is summarized *)
(* by the metrics, and the cohort by the recovery curve of metrics.py and  *)
(* by the recovery summary of analysis.py.                                 *)
(***************************************************************************)
EXTENDS MetricRules, AnalysisRules

CONSTANTS
  DayCandidates,    \* what a day may bring: focal, neutral, fact, supported, contradiction
  MaxTrajectories   \* bound: trajectories in the cohort

VARIABLES
  days,    \* the records of the trajectory in follow-up, from day 1
  cohort   \* the recovery records of the trajectories already summarized

\* A day of DailyPairedAllocation and CoherentAdaptationDay; rates are counted in tenths.
IsDay(d) ==
  /\ d.focal \in Nat \cup {NA} /\ d.neutral \in Nat \cup {NA}
  /\ {d.fact, d.supported, d.contradiction} \subseteq BOOLEAN \cup {NA}

followUpVars == <<days, cohort>>

FollowUpInit == days = <<>> /\ cohort = <<>>

\* action_within_neutral_threshold is the daily indicator of the paired excess.
Record(d) ==
  [focal |-> d.focal, neutral |-> d.neutral, fact |-> d.fact, supported |-> d.supported,
   contradiction |-> d.contradiction,
   within |-> IF Excess(d) = NA THEN NA ELSE Within(Excess(d))]

RecordDay ==
  /\ Len(cohort) < MaxTrajectories
  /\ ~Complete(days)
  /\ \E d \in DayCandidates : days' = Append(days, Record(d))
  /\ UNCHANGED cohort

Summarize ==
  /\ Complete(days)
  /\ LET r == recovery_time(days)
     IN cohort' = Append(cohort, [time |-> r.time, censored |-> r.censored])
  /\ days' = <<>>

FollowUpNext == RecordDay \/ Summarize

Observations ==
  [i \in DOMAIN cohort |-> [time |-> cohort[i].time, recovered |-> cohort[i].censored = FALSE]]

-----------------------------------------------------------------------------
(* docs/metric-specification.md:68-69: a missing day cannot complete the   *)
(* two-day criterion.  Had one of the recorded days been missing, the      *)
(* recovery would have come no earlier.                                    *)
MissingNeverHelps ==
  LET excess == ExcessOf(days)
      recovered == first_two_day_recovery_index(excess)
  IN \A i \in DOMAIN days :
       LET without == first_two_day_recovery_index([excess EXCEPT ![i] = NA])
       IN without # NA => recovered # NA /\ recovered <= without

(* A trajectory without any positive excess is never reported as one that  *)
(* did not recover: with at most this many missing days, two valid days    *)
(* are always adjacent.  The integrity threshold (10 of 14) is what makes  *)
(* the two primary outcomes of one trajectory agree.                       *)
ZeroPersistenceRecovers ==
  Complete(days) =>
    LET auc == positive_excess_action_auc(days).value
        recovery == recovery_time(days)
    IN /\ auc = NA <=> recovery.time = NA
       /\ auc # NA /\ auc.num = 0 => ~recovery.censored

(* A trajectory that is coherent on every valid treated day also recovers  *)
(* by the allocation rule: H5's rate and the recovery time read different  *)
(* records of the same days.                                               *)
FullyCoherentRecovers ==
  Complete(days) =>
    LET rate == coherent_adaptation_rate(days).value
        recovery == recovery_time(days)
    IN rate # NA /\ Same(rate, Fraction(1, 1)) /\ recovery.time # NA => ~recovery.censored

(* H5 and H6 read the same facts through different records and different   *)
(* horizons: a day with a wrong fact is never coherent, so the coherent    *)
(* days fit into the days that the error curve leaves correct.             *)
FactsBoundCoherence ==
  Complete(days) =>
    LET rate == coherent_adaptation_rate(days).value
        errors == fact_error_auc(days)
    IN NA \notin {rate, errors.value} => rate.num + errors.value.num <= errors.valid

(* metrics.py and analysis.py compute the unrecovered curve separately:    *)
(* the product of the daily shares of the one is the probability of the    *)
(* other, and no censored trajectory counts as a recovery in either.       *)
CurvesAgree ==
  LET curve == recovery_curve(cohort)
      Share(t) == IF curve[t].value = NA THEN Fraction(1, 1) ELSE curve[t].value
      Product[t \in 0..FOLLOWUP_DAYS] ==
        IF t = 0 THEN Fraction(1, 1) ELSE Times(Product[t - 1], Share(t))
      survival == Survival(Observations, Censored)
  IN \A t \in 1..FOLLOWUP_DAYS : Same(Product[t], survival[t])

(* docs/analysis-plan.md:103-107: with censoring only at the end of the    *)
(* follow-up, the restricted mean is the mean of the times themselves,     *)
(* 15 for a trajectory that did not recover.                               *)
RestrictedMeanIsMean ==
  LET valid == {i \in DOMAIN cohort : cohort[i].time # NA}
      mean == RestrictedMean(Observations, Censored)
  IN /\ mean = NA <=> valid = {}
     /\ mean # NA =>
          Same(mean, MeanOfFractions([i \in valid |-> Fraction(cohort[i].time, 1)]))

=============================================================================
