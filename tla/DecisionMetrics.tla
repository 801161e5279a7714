-------------------------- MODULE DecisionMetrics --------------------------
(***************************************************************************)
(* The decision-level metrics while a trajectory's observations come in:   *)
(* structured actions, retrieval audits, probes and the joined             *)
(* language/action pairs, in any order.  An observation that its model in  *)
(* evaluation/contracts.py refuses is never recorded.                      *)
(***************************************************************************)
EXTENDS MetricRules

CONSTANTS
  ActionCandidates, RetrievalCandidates, ProbeCandidates, LanguageCandidates,
  MaxObservations   \* bound: observations of one trajectory

VARIABLES actions, retrievals, probes, language

\* The fields of ActionDecision and of RetrievalDecision.
IsAction(d) ==
  /\ d.eligible \in BOOLEAN /\ d.valid \in BOOLEAN /\ d.directed \in BOOLEAN \cup {NA}
  /\ d.budget \in Nat \cup {NA} /\ d.spend \in Nat \cup {NA}
  /\ d.q # NA => /\ d.q.chosen \in Int /\ d.q.best \in Int
                 /\ d.q.min \in Int /\ d.q.max \in Int

IsRetrieval(d) ==
  /\ d.eligible \in BOOLEAN /\ d.acted \in BOOLEAN /\ d.logged \in BOOLEAN
  /\ d.partner \in BOOLEAN \cup {NA}

decisionVars == <<actions, retrievals, probes, language>>

Recorded == Len(actions) + Len(retrievals) + Len(probes) + Len(language)

DecisionInit ==
  /\ actions = <<>>
  /\ retrievals = <<>>
  /\ probes = <<>>
  /\ language = <<>>

RecordAction ==
  /\ Recorded < MaxObservations
  /\ \E d \in ActionCandidates :
       /\ ActionAdmitted(d)
       /\ actions' = Append(actions, d)
  /\ UNCHANGED <<retrievals, probes, language>>

RecordRetrieval ==
  /\ Recorded < MaxObservations
  /\ \E d \in RetrievalCandidates :
       /\ RetrievalAdmitted(d)
       /\ retrievals' = Append(retrievals, d)
  /\ UNCHANGED <<actions, probes, language>>

RecordProbe ==
  /\ Recorded < MaxObservations
  /\ \E p \in ProbeCandidates :
       /\ ProbeAdmitted(p)
       /\ probes' = Append(probes, p)
  /\ UNCHANGED <<actions, retrievals, language>>

RecordLanguage ==
  /\ Recorded < MaxObservations
  /\ \E l \in LanguageCandidates :
       /\ LanguageAdmitted(l)
       /\ language' = Append(language, l)
  /\ UNCHANGED <<actions, retrievals, probes>>

DecisionNext == RecordAction \/ RecordRetrieval \/ RecordProbe \/ RecordLanguage

-----------------------------------------------------------------------------
Reports ==
  [pcr  |-> partner_choice_rate(actions),
   par  |-> partner_allocation_rate(actions),
   noc  |-> normalized_opportunity_cost(actions),
   rmir |-> relationship_memory_intrusion_rate(retrievals),
   udbr |-> unrelated_decision_bias_rate(retrievals),
   fca  |-> fact_correction_accuracy(probes),
   isr  |-> interpretation_support_rate(probes),
   fpcr |-> future_plan_contamination_rate(probes),
   rlr  |-> relationship_language_rate(language),
   lacr |-> language_action_contradiction_rate(language)]

InRange(record) ==
  \/ record.value = NA /\ record.reason # NA
  \/ /\ record.reason = NA
     /\ Leq(Fraction(0, 1), record.value) /\ Leq(record.value, Fraction(1, 1))

-----------------------------------------------------------------------------
(* Every record that a metric builds passes MetricRecord's own validator:  *)
(* a share between 0 and 1, or NA with a reason.  The validators of the    *)
(* observations are what makes it so: the metric that meets a record out   *)
(* of range raises in the middle of the evaluation.                        *)
ReportsAdmissible ==
  \A m \in DOMAIN Reports : InRange(Reports[m])

Counted(x) == x.eligible /\ x.valid
Heard(d) == d.eligible /\ d.acted /\ d.logged

\* Of what this step adds to a sequence, nothing passes the test.
AddsNone(old, new, Counts(_)) == \A i \in (Len(old) + 1)..Len(new) : ~ Counts(new[i])

(* docs/metric-specification.md:27-30: an invalid decision contributes     *)
(* neither numerator nor denominator, and a denominator counts eligible    *)
(* decisions only.  Recording one changes the value of no metric.          *)
InvalidContributesNothing ==
  [][/\ AddsNone(actions, actions', Counted)
     /\ AddsNone(retrievals, retrievals', Heard)
     /\ AddsNone(probes, probes', Counted)
     /\ AddsNone(language, language', Counted)
     => \A m \in DOMAIN Reports \ {"lacr"} : Reports[m].value = Reports'[m].value]_decisionVars

(* A trajectory that never chose the partner spent nothing on the partner: *)
(* the two action metrics, of the same decisions, cannot disagree about    *)
(* whether there was partner-directed action at all.                       *)
NoSpendWithoutChoice ==
  LET pcr == Reports.pcr.value
      par == Reports.par.value
  IN pcr # NA /\ par # NA => (pcr.num = 0 => par.num = 0)

(* The bias rate counts a differing action only when a partner record was  *)
(* retrieved: spillover is never reported of a trajectory whose retrievals *)
(* show no intrusion, although its denominator is the narrower one.        *)
BiasNeedsIntrusion ==
  LET udbr == Reports.udbr.value
      rmir == Reports.rmir.value
  IN udbr # NA => rmir # NA /\ (udbr.num > 0 => rmir.num > 0)

=============================================================================
