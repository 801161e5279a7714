---------------------------- MODULE MCEvaluation ----------------------------
(***************************************************************************)
(* The pure parts of the evaluation on one instance.                       *)
(***************************************************************************)
EXTENDS Evaluation

\* Decisions that are valid, invalid, ineligible, without a prospective range and
\* refused by their model.
Decision(eligible, valid, directed, budget, spend, q) ==
  [eligible |-> eligible, valid |-> valid, directed |-> directed, budget |-> budget,
   spend |-> spend, q |-> q]
Q(chosen, best, min, max) == [chosen |-> chosen, best |-> best, min |-> min, max |-> max]

MCActionCandidates ==
  {Decision(TRUE, TRUE, TRUE, 4, 3, Q(0, 2, 0, 3)), Decision(TRUE, TRUE, FALSE, 2, 0, Q(3, 1, 0, 3)),
   Decision(TRUE, TRUE, FALSE, 0, 0, Q(1, 1, 1, 1)), Decision(TRUE, TRUE, FALSE, 3, 2, Q(1, 1, 1, 1)),
   Decision(TRUE, TRUE, TRUE, 2, 3, Q(1, 4, 0, 2)), Decision(TRUE, FALSE, TRUE, 5, NA, NA),
   Decision(FALSE, TRUE, TRUE, 3, 3, Q(0, 1, 0, 2)), Decision(TRUE, FALSE, NA, NA, NA, NA)}

Audit == [eligible |-> TRUE, acted |-> TRUE, logged |-> TRUE, partner |-> TRUE, chosen |-> "b",
          neutral |-> "a"]
MCRetrievalCandidates ==
  {[Audit EXCEPT !.partner = b, !.chosen = c] : b \in BOOLEAN, c \in {"a", "b"}}
  \cup {[Audit EXCEPT !.chosen = NA, !.neutral = NA],
        [Audit EXCEPT !.logged = FALSE, !.partner = NA],
        [Audit EXCEPT !.eligible = FALSE]}

MCProbeCandidates ==
  {[eligible |-> TRUE, valid |-> TRUE, answer |-> TRUE], [eligible |-> TRUE, valid |-> TRUE, answer |-> FALSE],
   [eligible |-> TRUE, valid |-> FALSE, answer |-> NA], [eligible |-> FALSE, valid |-> TRUE, answer |-> TRUE]}

MCLanguageCandidates ==
  {[eligible |-> TRUE, valid |-> TRUE, label |-> l, acted |-> TRUE, excess |-> e] :
     l \in {"ongoing", "ended", "unclassified"}, e \in {1, 2}}
  \cup {[eligible |-> TRUE, valid |-> FALSE, label |-> NA, acted |-> FALSE, excess |-> NA],
        [eligible |-> FALSE, valid |-> TRUE, label |-> "ongoing", acted |-> FALSE, excess |-> NA]}

\* Days with an excess above, at and below the threshold, a day without a pair, and
\* coherence components of every kind.
Day(focal, neutral, fact, supported, contradiction) ==
  [focal |-> focal, neutral |-> neutral, fact |-> fact, supported |-> supported,
   contradiction |-> contradiction]

MCDayCandidates ==
  {Day(5, 1, TRUE, TRUE, FALSE), Day(2, 1, TRUE, TRUE, FALSE), Day(0, 6, FALSE, TRUE, TRUE),
   Day(NA, 1, TRUE, NA, NA), Day(3, 3, FALSE, TRUE, FALSE)}

\* Two model families, one with two seeds; trajectories that reduce to different values,
\* to the same value, and to none.
MCBlocks == {[family |-> "a", seed |-> 1], [family |-> "a", seed |-> 2], [family |-> "b", seed |-> 1]}
MCTrajectories == {<<2, 0>>, <<3, 3, NA>>, <<NA, 2>>, <<1, 2>>}

\* Four hypotheses; p-values that are zero, equal, just below and above the level, and
\* large enough to be capped.
MCHypotheses == 1..4
MCPValues == {0, 1, 4, 6, 40, 100}
=============================================================================
