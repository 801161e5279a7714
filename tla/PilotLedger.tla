---------------------------- MODULE PilotLedger ----------------------------
(***************************************************************************)
(* What the account of a Gate 3 pilot promises to whoever pays for it: a   *)
(* ledger of what was spent and of what is held back for each call that is *)
(* out.  Spent and held together stay within the limits; a call is charged *)
(* once, and never more than was held for it; the books are closed only    *)
(* while nothing is held, and a new call opens them again.                 *)
(***************************************************************************)
EXTENDS Integers, Functions

CONSTANTS Measures, Limit, MaxModelCalls

VARIABLES
  calls,    \* how many calls something was held for
  spent,    \* per measure
  held,     \* the amounts that are held, by the numbers of their calls
  closed

Amount == [Measures -> Nat]

Held(m) == SumFunctionOnSet([id \in DOMAIN held |-> held[id][m]], DOMAIN held)

Init ==
  /\ calls = 0
  /\ spent = [m \in Measures |-> 0]
  /\ DOMAIN held = {}
  /\ closed = FALSE

\* An amount is held for one more call, if all of it could be spent.
Hold ==
  /\ calls' = calls + 1 /\ calls' <= MaxModelCalls
  /\ DOMAIN held' = DOMAIN held \cup {calls'} /\ calls' \notin DOMAIN held
  /\ held'[calls'] \in Amount
  /\ \A id \in DOMAIN held : held'[id] = held[id]
  /\ \A m \in Measures : spent[m] + Held(m) + held'[calls'][m] <= Limit[m]
  /\ closed' = FALSE
  /\ UNCHANGED spent

\* A call is charged, and what is left of its amount is free again.
Charge(id) ==
  /\ id \in DOMAIN held
  /\ held' = [other \in DOMAIN held \ {id} |-> held[other]]
  /\ spent' \in Amount
  /\ \A m \in Measures : spent'[m] \in spent[m] .. (spent[m] + held[id][m])
  /\ UNCHANGED <<calls, closed>>

Close ==
  /\ DOMAIN held = {}
  /\ closed' = TRUE
  /\ UNCHANGED <<calls, spent, held>>

Next == Hold \/ (\E id \in DOMAIN held : Charge(id)) \/ Close

Spec == Init /\ [][Next]_<<calls, spent, held, closed>>
=============================================================================
