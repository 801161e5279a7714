--------------------------- MODULE BlockAnalysis ---------------------------
(***************************************************************************)
(* One hypothesis: the trajectories of two arms are reduced to one value   *)
(* each, in any order, and the two arms are joined block by block.  A      *)
(* second summary of the same block and arm is refused.  The arms can be   *)
(* analysed at any time; what is absent then is missing, not dropped.      *)
(***************************************************************************)
EXTENDS AnalysisRules

CONSTANTS
  Blocks,          \* records [family, seed]
  Trajectories,    \* the daily values that a trajectory may bring
  REQUIRED         \* required_valid_count

ASSUME BlockAssumption ==
  /\ IsFiniteSet(Blocks)
  /\ REQUIRED \in Nat \ {0}
  /\ Trajectories \subseteq Seq(Int \cup {NA})

VARIABLES left, right   \* partial functions from blocks to reduced values

blockVars == <<left, right>>

BlockInit == left = <<>> /\ right = <<>>

WithSummary(arm, block, values) ==
  [b \in DOMAIN arm \cup {block} |-> IF b = block THEN Reduce(values, REQUIRED) ELSE arm[b]]

ReduceLeft ==
  /\ \E block \in Blocks \ DOMAIN left, values \in Trajectories :
       left' = WithSummary(left, block, values)
  /\ UNCHANGED right

ReduceRight ==
  /\ \E block \in Blocks \ DOMAIN right, values \in Trajectories :
       right' = WithSummary(right, block, values)
  /\ UNCHANGED left

BlockNext == ReduceLeft \/ ReduceRight

Contrasts == BlockContrasts(left, right)
Result == Analysis(Contrasts)
Swapped == Analysis(BlockContrasts(right, left))
Assigned == DOMAIN left \cup DOMAIN right

-----------------------------------------------------------------------------
(* docs/analysis-plan.md:119-121: every block that either arm reports      *)
(* appears once, with a value exactly when both arms have one, and the     *)
(* strata account for each of them.                                        *)
EveryBlockCounted ==
  Assigned # {} =>
    /\ Result.assigned = Cardinality(Assigned)
    /\ Valid(Contrasts) = {b \in DOMAIN left \cap DOMAIN right : NA \notin {left[b], right[b]}}
    /\ Result.valid = SumFunction([f \in DOMAIN Result.strata |-> Result.strata[f].valid])

(* The two-sided test does not depend on which arm is called left:         *)
(* swapping the arms negates the mean and leaves the p-value, the counts   *)
(* and the reason for an undefined effect as they were.                    *)
SwapNegates ==
  Assigned # {} =>
    /\ Swapped.valid = Result.valid
    /\ Swapped.undefined = Result.undefined
    /\ Result.valid > 0 => /\ Same(Swapped.p, Result.p)
                           /\ Same(Swapped.mean, Negated(Result.mean))

(* The exact p-value is never smaller than the enumeration resolves: the   *)
(* observed signs and their mirror image are among the extreme ones, so    *)
(* that n complete blocks never reach significance below 2 / 2^n.          *)
SmallestPValue ==
  Assigned # {} /\ Result.valid > 0 =>
    Leq(Fraction(2, 2 ^ Result.valid), Result.p)

(* A complete block that shows no difference adds no evidence: the p-value *)
(* is the same with it and without it.                                     *)
NullBlockAddsNothing ==
  \A b \in Valid(Contrasts) :
    Contrasts[b].num = 0 /\ Valid(Contrasts) # {b} =>
      Same(SignFlip(Contrasts), SignFlip([Contrasts EXCEPT ![b] = NA]))

(* The bootstrap resamples inside a model family: every draw keeps each    *)
(* family's weight, so that the interval collapses to the mean exactly     *)
(* when no family's complete blocks differ among themselves, however far   *)
(* apart the families are.                                                 *)
IntervalIsWithinFamilies ==
  Valid(Contrasts) # {} =>
    ((\A draw \in Draws(Contrasts) : Same(DrawMean(Contrasts, draw), Result.mean))
     <=> \A a, b \in Valid(Contrasts) : a.family = b.family => Same(Contrasts[a], Contrasts[b]))

=============================================================================
