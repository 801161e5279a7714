-------------------------- MODULE EvaluationLedger --------------------------
(***************************************************************************)
(* What the offline evaluation promises to whoever analyses its results,   *)
(* while evaluations are interrupted, repeated and run side by side: each  *)
(* design's results are those of the first assignments of its matrix, what *)
(* was reported once stays, the raw bytes that a result points to are kept *)
(* by then, and no assignment was begun after the time was up.             *)
(***************************************************************************)
EXTENDS Integers, Sequences, Functions

CONSTANTS Matrix, NoPayload, MaxSeconds

VARIABLES
  results,   \* per design: assignment -> its result
  kept       \* the payloads that can be read

\* The first n assignments of a design.
Until(design, n) == {Matrix[design][i] : i \in 1..n}

Time(reported, ids) ==
  SumFunctionOnSet([id \in DOMAIN reported |-> reported[id].elapsed], ids)

Init ==
  /\ DOMAIN results = DOMAIN Matrix
  /\ \A design \in DOMAIN Matrix : DOMAIN results[design] = {}
  /\ kept = {}

Keep ==
  /\ kept \subseteq kept'
  /\ UNCHANGED results

Report(design) ==
  \E m, n \in 0 .. Len(Matrix[design]) :
    LET reported == results'[design]
    IN /\ m <= n
       /\ DOMAIN results[design] = Until(design, m) /\ DOMAIN reported = Until(design, n)
       /\ \A id \in Until(design, m) : reported[id] = results[design][id]
       /\ \A id \in Until(design, n) : reported[id].payload \in kept \cup {NoPayload}
       /\ m < n => Time(reported, Until(design, n - 1)) < MaxSeconds
       /\ results' = [results EXCEPT ![design] = reported]
       /\ UNCHANGED kept

Next == Keep \/ \E design \in DOMAIN Matrix : Report(design)

Spec == Init /\ [][Next]_<<results, kept>>
=============================================================================
