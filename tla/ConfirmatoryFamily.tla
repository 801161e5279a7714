------------------------- MODULE ConfirmatoryFamily -------------------------
(***************************************************************************)
(* H1-H6 as one family under Holm's correction while their tests are       *)
(* reported in any order.  A hypothesis without a p-value stays in the     *)
(* family.                                                                 *)
(***************************************************************************)
EXTENDS AnalysisRules

CONSTANTS
  Hypotheses,   \* numbers, in the order of their names
  PValues,      \* what a test may report, in units of 1 / Scale
  Scale

VARIABLE pvalues   \* [Hypotheses -> PValues \cup {NA}]

FamilyInit == pvalues = [h \in Hypotheses |-> NA]

Report(h, value) ==
  /\ pvalues[h] = NA
  /\ pvalues' = [pvalues EXCEPT ![h] = value]

FamilyNext == \E h \in Hypotheses, value \in PValues : Report(h, value)

Adjusted(h) == holm_adjust(Scale, pvalues, h)

-----------------------------------------------------------------------------
PFor(h) == IF pvalues[h] = NA THEN Scale ELSE pvalues[h]

Bonferroni(family) == CappedProduct(Scale, Cardinality(family), Min({PFor(h) : h \in family}))

(* Step-down Holm is the closed Bonferroni test: the adjusted p-value of a *)
(* hypothesis is the largest Bonferroni p-value of any sub-family that     *)
(* contains it, where a hypothesis that could not be tested counts as one  *)
(* with p = 1.  The familywise level of docs/analysis-plan.md:95-97 rests  *)
(* on this, and the running maximum and the family size are what gives it. *)
HolmIsClosedTest ==
  \A h \in Hypotheses :
    pvalues[h] # NA =>
      Adjusted(h) = Max({Bonferroni(family) : family \in {f \in SUBSET Hypotheses : h \in f}})
=============================================================================
