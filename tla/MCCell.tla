------------------------------- MODULE MCCell -------------------------------
(***************************************************************************)
(* Instances of Cell for TLC: five days, the shock on the third and the    *)
(* intervention on the fourth, so that two days precede the shock, one     *)
(* lies between it and the intervention, and one follows.                  *)
(***************************************************************************)
EXTENDS Cell

\* The four arms of a formation with instructions and partner memories, and an
\* arm of a formation where its intervention finds nothing to remove.
MCCells ==
  [formation : {"romantic"}, intervention : Conditions] \cup
  {[formation |-> "neutral", intervention |-> "instruction_removal"]}

\* Episodes 1, 3, 4 and 5 are about the partner, 4 is the shock's; 6 may not
\* be retrieved.
MCCandidates(formation, day) ==
  CASE formation = "romantic" /\ day = 1 -> <<1, 2>>
    [] formation = "romantic" /\ day = 2 -> <<3, 6>>
    [] formation = "romantic" /\ day = 3 -> <<4>>
    [] formation = "romantic" /\ day = 4 -> <<5>>
    [] formation = "neutral" /\ day = 2 -> <<2>>
    [] OTHER -> <<>>

\* Recent and partner episodes score high, reframed ones low; what the agent
\* did that day counts; 1 and 3 can tie.
MCScore(day, episode, revision) ==
  LET recency == IF day - episode.day > 2 THEN 0 ELSE 1
      salience == IF episode.id \in Partner THEN 4 ELSE 1
  IN recency + salience + episode.action - (IF revision > 1 THEN 2 ELSE 0)

\* The choice depends on everything that the model is shown.
MCAction(input) ==
  (Cardinality(input.selected) + Cardinality(input.instructions)
     + Cardinality(input.belief.supporting)
     + Cardinality({s \in input.selected : s[2] > 1})) % 2

ASSUME MCScenario == SoundScenario
=============================================================================
