-------------------------- MODULE DurableWorkflow ---------------------------
(***************************************************************************)
(* What the supervisor's checkpoint promises to whoever reads it, at any   *)
(* instant, crashes included: a ledger that says of each task whether it   *)
(* is still open or how it was settled.                                    *)
(***************************************************************************)
CONSTANTS Tasks, Deps, OptDeps, Optional

VARIABLE ledger

Entries == {"open", "completed", "cancelled", "escalated"}

\* The ledger already shows everything that t waits for.
DependenciesSettled(t) ==
  /\ \A d \in Deps[t] : ledger[d] = "completed"
  /\ \A d \in OptDeps[t] : ledger[d] \in {"completed", "cancelled"}

Init == ledger = [t \in Tasks |-> "open"]

(***************************************************************************)
(* One checkpoint may settle several tasks.  A settled entry never         *)
(* changes.  A task completes, or is skipped, only when an earlier         *)
(* checkpoint already shows its dependencies done; it is escalated then,   *)
(* or because a required dependency is known not to complete.              *)
(***************************************************************************)
Advance ==
  /\ ledger' \in [Tasks -> Entries]
  /\ \A t \in Tasks :
       \/ ledger'[t] = ledger[t]
       \/ ledger[t] = "open" /\ ledger'[t] = "completed" /\ DependenciesSettled(t)
       \/ /\ ledger[t] = "open" /\ ledger'[t] = "cancelled"
          /\ t \in Optional /\ DependenciesSettled(t)
       \/ /\ ledger[t] = "open" /\ ledger'[t] = "escalated"
          /\ \/ DependenciesSettled(t)
             \/ \E d \in Deps[t] : ledger'[d] \in {"cancelled", "escalated"}

Spec == Init /\ [][Advance]_ledger
=============================================================================
