--------------------------- MODULE AnalysisRules ---------------------------
(***************************************************************************)
(* evaluation/analysis.py: from a trajectory's daily values to paired      *)
(* block contrasts, their sign-flip test, Holm's correction and the        *)
(* recovery summary.  A block is a pair of model family and seed; NA       *)
(* stands for a value that is missing with a reason.                       *)
(***************************************************************************)
EXTENDS Fractions

(* reduce_trajectory_observations *)
Reduce(values, required) ==
  LET valid == {i \in DOMAIN values : values[i] # NA}
  IN IF Cardinality(valid) < required THEN NA
     ELSE MeanOfFractions([i \in valid |-> Fraction(values[i], 1)])

\* Mutant of BlockContrasts: blocks that one arm lacks are dropped.
ContrastsOfBoth(left, right) ==
  [block \in DOMAIN left \cap DOMAIN right |->
     IF NA \in {left[block], right[block]} THEN NA ELSE Minus(left[block], right[block])]
(* form_paired_block_contrasts: every block that either arm reports. *)
BlockContrasts(left, right) ==
  [block \in DOMAIN left \cup DOMAIN right |->
     IF \/ block \notin DOMAIN left \cap DOMAIN right
        \/ NA \in {left[block], right[block]}
     THEN NA ELSE Minus(left[block], right[block])]

Valid(contrasts) == {block \in DOMAIN contrasts : contrasts[block] # NA}

MeanOver(contrasts, blocks) == MeanOfFractions([b \in blocks |-> contrasts[b]])

Absolute(a) == IF a.num < 0 THEN Negated(a) ELSE a

(* paired_sign_flip_randomization, enumerated: the share of the sign       *)
(* vectors whose sum is at least as far from zero as the observed one.     *)
Flipped(contrasts, signs) ==
  SumOfFractions([b \in Valid(contrasts) |->
                    IF b \in signs THEN contrasts[b] ELSE Negated(contrasts[b])])

\* The sum of the values as they are is the one where no sign is flipped.
AtLeastObserved(contrasts, signs) ==
  Leq(Absolute(Flipped(contrasts, Valid(contrasts))), Absolute(Flipped(contrasts, signs)))

\* Mutant of SignFlip: one-sided.
OneSidedSignFlip(contrasts) ==
  LET valid == Valid(contrasts)
  IN Fraction(Cardinality({signs \in SUBSET valid :
                Leq(Flipped(contrasts, valid), Flipped(contrasts, signs))}), 2 ^ Cardinality(valid))
\* Mutant of SignFlip: the observed assignment is not counted.
StrictSignFlip(contrasts) ==
  LET valid == Valid(contrasts)
  IN Fraction(Cardinality({signs \in SUBSET valid :
                ~Leq(Absolute(Flipped(contrasts, signs)), Absolute(Flipped(contrasts, valid)))}),
              2 ^ Cardinality(valid))
\* Mutant of SignFlip: incomplete blocks are flipped too.
SignFlipOverAssigned(contrasts) ==
  Fraction(Cardinality({signs \in SUBSET Valid(contrasts) : AtLeastObserved(contrasts, signs)}),
           2 ^ Cardinality(DOMAIN contrasts))
SignFlip(contrasts) ==
  Fraction(Cardinality({signs \in SUBSET Valid(contrasts) : AtLeastObserved(contrasts, signs)}),
           2 ^ Cardinality(Valid(contrasts)))

(* hedges_g_z: only why it is undefined; its square root is out of reach. *)
HedgesUndefined(contrasts) ==
  LET valid == Valid(contrasts)
  IN IF Cardinality(valid) < 2 THEN "fewer_than_two_complete_blocks"
     ELSE IF \A a, b \in valid : Same(contrasts[a], contrasts[b]) THEN "zero_variance"
     ELSE NA

Families(contrasts) == {block.family : block \in DOMAIN contrasts}
Stratum(contrasts, family) == {block \in DOMAIN contrasts : block.family = family}

\* Mutant of Draws: families are pooled.
PooledDraws(contrasts) == [Valid(contrasts) -> Valid(contrasts)]
(* One draw of stratified_percentile_cluster_bootstrap: as many blocks as  *)
(* each family has, with replacement, from the same family.                *)
Draws(contrasts) ==
  {draw \in [Valid(contrasts) -> Valid(contrasts)] :
     \A block \in Valid(contrasts) : draw[block].family = block.family}

DrawMean(contrasts, draw) ==
  MeanOfFractions([b \in Valid(contrasts) |-> contrasts[draw[b]]])

(* analyze_block_contrasts, of at least one assigned block *)
Analysis(contrasts) ==
  LET valid == Valid(contrasts)
      mean == MeanOver(contrasts, valid)
  IN [assigned |-> Cardinality(DOMAIN contrasts),
      valid |-> Cardinality(valid),
      mean |-> IF valid = {} THEN NA ELSE mean,
      p |-> IF valid = {} THEN NA ELSE SignFlip(contrasts),
      undefined |-> HedgesUndefined(contrasts),
      matches |-> IF valid = {} THEN NA ELSE mean.num > 0,   \* expected "positive"
      strata |-> [family \in Families(contrasts) |->
                    LET own == Stratum(contrasts, family) \cap valid
                    IN [valid |-> Cardinality(own),
                        mean |-> IF own = {} THEN NA ELSE MeanOver(contrasts, own)]]]

-----------------------------------------------------------------------------
(* holm_adjust.  A p-value is a whole number of 1/Scale; the family is     *)
(* ordered by p and then by name, the names being numbers here.            *)
CappedProduct(scale, factor, p) == IF factor * p > scale THEN scale ELSE factor * p

\* Mutant of holm_adjust: untestable hypotheses leave the family.
HolmOfTestable(scale, p, h) ==
  LET valid == {g \in DOMAIN p : p[g] # NA}
      Before(g) == {k \in valid : p[k] < p[g] \/ (p[k] = p[g] /\ k < g)}
      Candidate(g) == CappedProduct(scale, Cardinality(valid) - Cardinality(Before(g)), p[g])
  IN IF p[h] = NA THEN NA ELSE Max({Candidate(g) : g \in Before(h) \cup {h}})
holm_adjust(scale, p, h) ==
  LET Before(g) == {k \in DOMAIN p : p[k] # NA /\ (p[k] < p[g] \/ (p[k] = p[g] /\ k < g))}
      Candidate(g) == CappedProduct(scale, Cardinality(DOMAIN p) - Cardinality(Before(g)), p[g])
  IN IF p[h] = NA THEN NA ELSE Max({Candidate(g) : g \in Before(h) \cup {h}})

-----------------------------------------------------------------------------
(* summarize_recovery: a sequence of [time, recovered], time NA when       *)
(* missing.  survival[t] is the unrecovered probability after time t.      *)
\* Mutant of AtRisk: those of the day itself have left.
AtRiskAfter(rows, t) == Cardinality({i \in DOMAIN rows : rows[i].time # NA /\ rows[i].time > t})
AtRisk(rows, t) == Cardinality({i \in DOMAIN rows : rows[i].time # NA /\ rows[i].time >= t})
Events(rows, t) == Cardinality({i \in DOMAIN rows : rows[i].time = t /\ rows[i].recovered})
Remaining(rows, t) ==
  IF AtRisk(rows, t) = 0 THEN Fraction(1, 1)
  ELSE Fraction(AtRisk(rows, t) - Events(rows, t), AtRisk(rows, t))

Survival(rows, horizon) ==
  LET S[t \in 0..horizon] == IF t = 0 THEN Fraction(1, 1) ELSE Times(S[t - 1], Remaining(rows, t))
  IN S

\* Mutant of RestrictedMean: the day's survival instead of the one before.
MeanAfterwards(rows, horizon) ==
  LET S == Survival(rows, horizon)
  IN IF \A i \in DOMAIN rows : rows[i].time = NA THEN NA
     ELSE SumOfFractions([t \in 1..horizon |-> S[t]])
\* Discrete RMST is the sum of S(t - 1) over t = 1..horizon.
RestrictedMean(rows, horizon) ==
  LET S == Survival(rows, horizon)
  IN IF \A i \in DOMAIN rows : rows[i].time = NA THEN NA
     ELSE SumOfFractions([t \in 1..horizon |-> S[t - 1]])
=============================================================================
