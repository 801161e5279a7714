----------------------------- MODULE Fractions -----------------------------
(***************************************************************************)
(* Quotients as exact fractions, for what the code computes in binary      *)
(* floating point.  No fraction is reduced: compare with Same and Leq.     *)
(***************************************************************************)
EXTENDS Integers, SequencesExt

CONSTANT NA   \* None: a value that is missing, with a reason

Fraction(n, d) == [num |-> n, den |-> d]

Plus(a, b) == Fraction(a.num * b.den + b.num * a.den, a.den * b.den)
Minus(a, b) == Fraction(a.num * b.den - b.num * a.den, a.den * b.den)
Times(a, b) == Fraction(a.num * b.num, a.den * b.den)
Negated(a) == Fraction(-a.num, a.den)
Leq(a, b) == a.num * b.den <= b.num * a.den
Same(a, b) == a.num * b.den = b.num * a.den

\* Of the values of a function, which may be a sequence.
SumOfFractions(f) == FoldFunction(Plus, Fraction(0, 1), f)
MeanOfFractions(f) ==
  LET sum == SumOfFractions(f) IN Fraction(sum.num, sum.den * Cardinality(DOMAIN f))
=============================================================================
