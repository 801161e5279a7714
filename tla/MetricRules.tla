---------------------------- MODULE MetricRules ----------------------------
(***************************************************************************)
(* The frozen metrics (evaluation/metrics.py) over the observations that   *)
(* evaluation/contracts.py admits.  Everything here is a pure function.    *)
(*                                                                         *)
(* A rate is counted in tenths; a quotient is a fraction.  What Python     *)
(* rounds is exact here.                                                   *)
(***************************************************************************)
EXTENDS Fractions

CONSTANTS
  FOLLOWUP_DAYS,                \* 14
  MINIMUM_VALID_FOLLOWUP_DAYS,  \* 10
  FIRST_TREATED_DAY,            \* follow-up day 4 is day 30
  MINIMUM_COHERENT_DAYS         \* 8

\* Both minima are more than half of their days, with room for one more.
ASSUME MetricAssumption ==
  /\ FOLLOWUP_DAYS \in Nat \ {0, 1}
  /\ MINIMUM_VALID_FOLLOWUP_DAYS \in 1..FOLLOWUP_DAYS
  /\ 2 * MINIMUM_VALID_FOLLOWUP_DAYS > FOLLOWUP_DAYS + 1
  /\ FIRST_TREATED_DAY \in 1..FOLLOWUP_DAYS
  /\ MINIMUM_COHERENT_DAYS \in 1..(FOLLOWUP_DAYS - FIRST_TREATED_DAY + 1)
  /\ 2 * MINIMUM_COHERENT_DAYS > FOLLOWUP_DAYS - FIRST_TREATED_DAY + 2

RECOVERY_THRESHOLD == 1   \* tenths

-----------------------------------------------------------------------------
(* Metric records *)

MissingReason ==
  {"no_eligible_decisions", "no_valid_eligible_decisions", "zero_valid_budget",
   "zero_prospective_range", "missing_retrieval_log", "missing_fact_field",
   "missing_interpretation", "invalid_plan_selection", "unclassified_language",
   "missing_paired_action", "insufficient_paired_days", "insufficient_valid_days",
   "incomplete_block", "no_trajectories_at_risk"}

NotAvailable(reason, valid, missing) ==
  [value |-> NA, reason |-> reason, valid |-> valid, missing |-> missing]

Available(value, valid, missing) ==
  [value |-> value, reason |-> NA, valid |-> valid, missing |-> missing]

\* _ratio, with a fraction as the numerator
Ratio(numerator, denominator, missing, zeroReason) ==
  IF denominator = 0
  THEN NotAvailable(zeroReason, denominator, missing)
  ELSE Available(Fraction(numerator.num, numerator.den * denominator), denominator, missing)

\* The positions of the observations with a property.
Where(items, Test(_)) == {i \in DOMAIN items : Test(items[i])}

\* What most metrics are: the hits among the valid ones of the eligible observations.
Portion(hits, valid, eligible, reason) ==
  Ratio(Fraction(Cardinality(hits), 1), Cardinality(valid), Cardinality(eligible \ valid),
        IF eligible = {} THEN "no_eligible_decisions" ELSE reason)

RateOf(items, Eligible(_), Valid(_), Hit(_), reason) ==
  LET eligible == Where(items, Eligible)
      valid == eligible \cap Where(items, Valid)
  IN Portion(valid \cap Where(items, Hit), valid, eligible, reason)

-----------------------------------------------------------------------------
(* Structured actions *)

\* Mutant of ActionAdmitted: any amount within the budget.
ActionSpendsFreely(d) ==
  /\ d.eligible /\ d.valid => NA \notin {d.directed, d.budget, d.spend}
  /\ d.directed = FALSE => d.spend \in {NA, 0}
\* Mutant of ActionAdmitted: spending without a partner choice.
ActionSpendsUndirected(d) ==
  /\ d.eligible /\ d.valid => NA \notin {d.directed, d.budget, d.spend}
  /\ NA \notin {d.budget, d.spend} => d.spend <= d.budget
  /\ d.q # NA => {d.q.chosen, d.q.best} \subseteq d.q.min..d.q.max
\* validate_action_fields; q holds the four prospective values, or none of them.
ActionAdmitted(d) ==
  /\ d.eligible /\ d.valid => NA \notin {d.directed, d.budget, d.spend}
  /\ NA \notin {d.budget, d.spend} => d.spend <= d.budget
  /\ d.directed = FALSE => d.spend \in {NA, 0}
  /\ d.q # NA => /\ d.q.min <= d.q.max
                 /\ {d.q.chosen, d.q.best} \subseteq d.q.min..d.q.max

IsEligible(x) == x.eligible
IsValid(x) == x.valid
Directed(d) == d.directed = TRUE

partner_choice_rate(decisions) ==
  RateOf(decisions, IsEligible, IsValid, Directed, "no_valid_eligible_decisions")

\* The rate of spend and budget over these decisions, valid of them valid.
AllocationOver(decisions, counted, valid, eligible) ==
  LET Total(amount) == SumFunction([i \in counted |-> IF amount[i] = NA THEN 0 ELSE amount[i]])
      spend == Total([i \in counted |-> decisions[i].spend])
      budget == Total([i \in counted |-> decisions[i].budget])
      missing == Cardinality(eligible \ valid)
  IN IF budget = 0
     THEN NotAvailable(IF eligible = {} THEN "no_eligible_decisions" ELSE "zero_valid_budget",
                       Cardinality(valid), missing)
     ELSE Available(Fraction(spend, budget), Cardinality(valid), missing)

\* Mutant of partner_allocation_rate: invalid decisions count as well.
AllocationOverEligible(decisions) ==
  LET eligible == Where(decisions, IsEligible)
  IN AllocationOver(decisions, eligible, eligible \cap Where(decisions, IsValid), eligible)
\* The sums run over the valid decisions, whatever an invalid one says it spent.
partner_allocation_rate(decisions) ==
  LET eligible == Where(decisions, IsEligible)
      valid == eligible \cap Where(decisions, IsValid)
  IN AllocationOver(decisions, valid, valid, eligible)

\* Stands for the InvalidScenarioError that is raised instead of a record.
InvalidScenario == NotAvailable("InvalidScenarioError", 0, 0)

\* What the choice gave up, as a share of the prospective range.
Cost(d) ==
  Fraction(IF d.q.best > d.q.chosen THEN d.q.best - d.q.chosen ELSE 0, d.q.max - d.q.min)

\* An invalid decision is not counted as missing here, other than in the rates above.
normalized_opportunity_cost(decisions) ==
  LET eligible == Where(decisions, LAMBDA d : d.eligible /\ d.valid)
      ranged == {i \in eligible : decisions[i].q.max # decisions[i].q.min}
  IN IF eligible = {} THEN NotAvailable("no_valid_eligible_decisions", 0, 0)
     ELSE IF \E i \in eligible : decisions[i].q = NA THEN InvalidScenario
     ELSE Ratio(SumOfFractions([i \in ranged |-> Cost(decisions[i])]), Cardinality(ranged),
                Cardinality(eligible \ ranged), "zero_prospective_range")

-----------------------------------------------------------------------------
(* Retrieval, facts, interpretations, plans and language *)

\* validate_retrieval_fields
RetrievalAdmitted(d) ==
  /\ d.logged => d.partner # NA
  /\ d.acted => (d.chosen = NA) = (d.neutral = NA)

Audited(d) == d.acted /\ d.logged
Paired(d) == Audited(d) /\ d.chosen # NA /\ d.neutral # NA
PartnerRetrieved(d) == d.partner = TRUE
ActsOnPartner(d) == d.chosen # d.neutral /\ PartnerRetrieved(d)

relationship_memory_intrusion_rate(decisions) ==
  RateOf(decisions, IsEligible, Audited, PartnerRetrieved, "missing_retrieval_log")

\* Mutant of unrelated_decision_bias_rate: the retrieval is not looked at.
BiasWithoutRetrieval(decisions) ==
  RateOf(decisions, IsEligible, Paired, LAMBDA d : d.chosen # d.neutral, "missing_paired_action")
unrelated_decision_bias_rate(decisions) ==
  RateOf(decisions, IsEligible, Paired, ActsOnPartner, "missing_paired_action")

\* A probe of facts, interpretations or plans: eligible, valid, and then an answer.
ProbeAdmitted(p) == p.valid => p.answer # NA

Affirmed(p) == p.answer = TRUE

ProbeRate(probes, reason) == RateOf(probes, IsEligible, IsValid, Affirmed, reason)

fact_correction_accuracy(probes) == ProbeRate(probes, "missing_fact_field")
interpretation_support_rate(probes) == ProbeRate(probes, "missing_interpretation")
future_plan_contamination_rate(probes) == ProbeRate(probes, "invalid_plan_selection")

\* validate_language, validate_pair: the label, and the paired excess of the same day
LanguageAdmitted(l) ==
  /\ l.valid => l.label # NA
  /\ l.acted => l.excess # NA

Classified(l) == l.valid /\ l.label # "unclassified"
Ongoing(l) == l.label = "ongoing"

relationship_language_rate(observations) ==
  RateOf(observations, IsEligible, Classified, Ongoing, "unclassified_language")

\* The frozen exclusive or: language accepts the end, action stays within the threshold.
Contradicts(l) == (l.label # "ongoing") # (l.excess <= RECOVERY_THRESHOLD)

language_action_contradiction_rate(pairs) ==
  LET valid == Where(pairs, LAMBDA l : l.acted /\ Classified(l))
  IN Ratio(Fraction(Cardinality({i \in valid : Contradicts(pairs[i])}), 1), Cardinality(valid),
           Cardinality(DOMAIN pairs \ valid), "missing_paired_action")

-----------------------------------------------------------------------------
(* The days after the shock *)

\* _require_followup_horizon: one record for every day, in the order of the days here.
Complete(days) == Len(days) = FOLLOWUP_DAYS

Excess(day) == IF day.focal = NA \/ day.neutral = NA THEN NA ELSE day.focal - day.neutral

Within(excess) == excess # NA /\ excess <= RECOVERY_THRESHOLD

\* Mutant of first_two_day_recovery_index: missing days are skipped.
RecoverySkippingMissing(excess) ==
  LET pairs == {p \in (DOMAIN excess) \X (DOMAIN excess) :
                  /\ p[1] < p[2] /\ Within(excess[p[1]]) /\ Within(excess[p[2]])
                  /\ \A k \in (p[1] + 1)..(p[2] - 1) : excess[k] = NA}
  IN IF pairs = {} THEN NA ELSE Min({p[1] : p \in pairs})
\* The first of two days in a row; a missing day is no half of such a pair.
first_two_day_recovery_index(excess) ==
  LET pairs == {i \in 1..(Len(excess) - 1) : Within(excess[i]) /\ Within(excess[i + 1])}
  IN IF pairs = {} THEN NA ELSE Min(pairs)

ExcessOf(days) == [i \in DOMAIN days |-> Excess(days[i])]

PairedDays(days) == Where(days, LAMBDA d : Excess(d) # NA)

\* A mean over the valid days, if there are enough of them.
MeanOfDays(sum, valid, days, enough, reason) ==
  LET missing == Cardinality(DOMAIN days \ valid)
  IN IF Cardinality(valid) < enough THEN NotAvailable(reason, Cardinality(valid), missing)
     ELSE Ratio(sum, Cardinality(valid), missing, NA)

\* Mutant of positive_excess_action_auc: negative excess counts.
AucSigned(days) ==
  MeanOfDays(Fraction(SumFunction([i \in PairedDays(days) |-> Excess(days[i])]), 10),
             PairedDays(days), days, MINIMUM_VALID_FOLLOWUP_DAYS, "insufficient_paired_days")
positive_excess_action_auc(days) ==
  LET Positive(e) == IF e > 0 THEN e ELSE 0
  IN MeanOfDays(Fraction(SumFunction([i \in PairedDays(days) |-> Positive(Excess(days[i]))]), 10),
                PairedDays(days), days, MINIMUM_VALID_FOLLOWUP_DAYS, "insufficient_paired_days")

Censored == FOLLOWUP_DAYS + 1

recovery_time(days) ==
  LET valid == Cardinality(PairedDays(days))
      index == first_two_day_recovery_index(ExcessOf(days))
      missing == Len(days) - valid
  IN IF valid < MINIMUM_VALID_FOLLOWUP_DAYS
     THEN [time |-> NA, censored |-> NA, valid |-> valid, missing |-> missing]
     ELSE [time |-> IF index = NA THEN Censored ELSE index, censored |-> index = NA,
           valid |-> valid, missing |-> missing]

fact_error_auc(days) ==
  LET valid == Where(days, LAMBDA d : d.fact # NA)
  IN MeanOfDays(Fraction(Cardinality({i \in valid : days[i].fact = FALSE}), 1), valid, days,
                MINIMUM_VALID_FOLLOWUP_DAYS, "insufficient_valid_days")

\* Mutant of Coherent: the allocation is not looked at.
CoherentInWords(day) ==
  IF NA \in {day.fact, day.supported, day.within, day.contradiction} THEN NA
  ELSE day.fact /\ day.supported /\ ~day.contradiction
\* Mutant of Coherent: the facts are not looked at.
CoherentInDeeds(day) ==
  IF NA \in {day.fact, day.supported, day.within, day.contradiction} THEN NA
  ELSE day.supported /\ day.within /\ ~day.contradiction
\* CoherentAdaptationDay.coherent: all four components, or nothing.
Coherent(day) ==
  IF NA \in {day.fact, day.supported, day.within, day.contradiction} THEN NA
  ELSE day.fact /\ day.supported /\ day.within /\ ~day.contradiction

coherent_adaptation_rate(days) ==
  LET treated == [i \in FIRST_TREATED_DAY..FOLLOWUP_DAYS |-> days[i]]
      valid == Where(treated, LAMBDA d : Coherent(d) # NA)
  IN MeanOfDays(Fraction(Cardinality({i \in valid : Coherent(days[i])}), 1), valid, treated,
                MINIMUM_COHERENT_DAYS, "insufficient_valid_days")

\* The share of those at risk on a day that have not recovered by its end.
recovery_curve(times) ==
  LET usable == Where(times, LAMBDA r : r.time # NA)
  IN [day \in 1..FOLLOWUP_DAYS |->
        LET risk == {i \in usable : times[i].time >= day}
        IN Ratio(Fraction(Cardinality({i \in risk : times[i].time > day \/ times[i].censored}), 1),
                 Cardinality(risk), Cardinality(DOMAIN times \ usable), "no_trajectories_at_risk")]
=============================================================================
