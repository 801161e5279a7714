---------------------------- MODULE PilotBudget ----------------------------
(***************************************************************************)
(* The account of a Gate 3 pilot (gate3/budget.py): before a call goes to  *)
(* the provider its worst case is reserved, after the answer the           *)
(* reservation is settled for what was used.  Any number of calls may be   *)
(* under way; answers come in any order, late or never, and a provider may *)
(* have used more than was reserved.  The client reports what the provider *)
(* used, and may report it again.                                          *)
(*                                                                         *)
(* Costs are whole numbers here, where the code adds doubles.              *)
(***************************************************************************)
EXTENDS Integers, Functions

CONSTANTS
  MaxModelCalls, Limit,   \* Gate3Budget: calls, and a limit for each measure
  MaxSeconds,
  Reservable,             \* the worst cases that a client reserves
  Reportable,             \* what a provider may have used
  MaxTime                 \* bounds the clock

Measures == {"input_tokens", "output_tokens", "estimated_cost_usd"}
Amounts == [Measures -> Nat]

ASSUME PilotAssumption ==
  /\ MaxModelCalls \in Nat
  /\ Limit \in Amounts
  /\ MaxSeconds \in Nat /\ MaxTime \in Nat
  /\ Reservable \subseteq Amounts
  /\ Reportable \subseteq Amounts

VARIABLES
  now,
  calls,      \* calls reserved so far; their numbers are the reservation ids
  used,       \* input_tokens, output_tokens and estimated_cost_usd
  open,       \* ids of _open
  reserved,   \* id -> what was reserved
  actual,     \* id -> what the provider used, once it has answered
  accepted    \* assert_settled has returned, and nothing was reserved since

vars == <<now, calls, used, open, reserved, actual, accepted>>

TypeOK ==
  /\ now \in Nat
  /\ calls \in Nat
  /\ used \in [Measures -> Int]
  /\ open \subseteq DOMAIN reserved
  /\ reserved \in [1..calls -> Amounts]
  /\ DOMAIN actual \subseteq 1..calls
  /\ \A id \in DOMAIN actual : actual[id] \in Amounts
  /\ accepted \in BOOLEAN

Init ==
  /\ now = 0
  /\ calls = 0
  /\ used = [m \in Measures |-> 0]
  /\ open = {}
  /\ reserved = [id \in {} |-> 0]
  /\ actual = [id \in {} |-> 0]
  /\ accepted = FALSE

\* _check_time: the limit itself is too late.
InTime == now < MaxSeconds

With(f, id, value) == [i \in DOMAIN f \cup {id} |-> IF i = id THEN value ELSE f[i]]

\* reserve_call: the reservation counts in full from now on.  A call that does not
\* fit, or comes too late, is refused and changes nothing.  assert_settled does not close
\* the account: what is reserved after it is not what it has looked at.
Reserve(amount) ==
  /\ InTime
  /\ calls + 1 <= MaxModelCalls
  /\ \A m \in Measures : used[m] + amount[m] <= Limit[m]
  /\ calls' = calls + 1
  /\ used' = [m \in Measures |-> used[m] + amount[m]]
  /\ open' = open \cup {calls + 1}
  /\ reserved' = With(reserved, calls + 1, amount)
  /\ accepted' = FALSE
  /\ UNCHANGED <<now, actual>>

\* The provider has answered a call, or used something for an answer that got lost.
Answer(id, usage) ==
  /\ id \notin DOMAIN actual
  /\ actual' = With(actual, id, usage)
  /\ UNCHANGED <<now, calls, used, open, reserved, accepted>>

\* Mutant of Settleable: a reservation is settled as often as it is reported.
SettleableAgain(id) ==
  /\ id \in DOMAIN actual
  /\ \A m \in Measures : actual[id][m] <= reserved[id][m]
\* Mutant of Settleable: usage is compared with the limits.
SettleableWithinLimit(id) ==
  /\ id \in open \cap DOMAIN actual
  /\ \A m \in Measures : actual[id][m] <= Limit[m]
\* What settle_call accepts: an open reservation, and no more than it.  Anything else
\* is refused and leaves the reservation as it is.
Settleable(id) ==
  /\ id \in open \cap DOMAIN actual
  /\ \A m \in Measures : actual[id][m] <= reserved[id][m]

\* Mutant of Settled: the actual usage is added to the reservation.
SettledOnTop(id) == [m \in Measures |-> used[m] + actual[id][m]]
Settled(id) == [m \in Measures |-> used[m] + (actual[id][m] - reserved[id][m])]

Settle(id) ==
  /\ Settleable(id)
  /\ used' = Settled(id)
  /\ open' = open \ {id}
  /\ UNCHANGED <<now, calls, reserved, actual, accepted>>

\* Mutant of AssertSettled: open reservations are not looked at.
AssertInTime ==
  /\ InTime
  /\ accepted' = TRUE
  /\ UNCHANGED <<now, calls, used, open, reserved, actual>>
\* assert_settled, at the end of a pilot.
AssertSettled ==
  /\ InTime
  /\ open = {}
  /\ accepted' = TRUE
  /\ UNCHANGED <<now, calls, used, open, reserved, actual>>

Tick ==
  /\ now < MaxTime
  /\ now' = now + 1
  /\ UNCHANGED <<calls, used, open, reserved, actual, accepted>>

Next ==
  \/ \E amount \in Reservable : Reserve(amount)
  \/ \E id \in 1..calls :
       \/ \E usage \in Reportable : Answer(id, usage)
       \/ Settle(id)
  \/ AssertSettled
  \/ Tick

Spec == Init /\ [][Next]_vars

-----------------------------------------------------------------------------
(* Properties *)

Of(amounts, m) == [id \in DOMAIN amounts |-> amounts[id][m]]
Total(ids, amounts, m) == SumFunctionOnSet(Of(amounts, m), ids)

\* docs/decisions/0023-explicit-hash-bound-gate-3-authorization.md:30: whatever comes
\* back, in whatever order, what counts against the budget never exceeds it, also after
\* reservations were given back (gate3/budget.py:111-116).
LimitsKept ==
  /\ calls <= MaxModelCalls
  /\ \A m \in Measures : used[m] <= Limit[m]

\* What counts is what was settled and the worst case of what is still out.
Accounted ==
  \A m \in Measures :
    used[m] = Total(1..calls \ open, actual, m) + Total(open, reserved, m)

\* ADR 0023:30-31: usage above a reservation is a hard failure and not accounted for
\* afterwards.  A pilot that passes assert_settled used exactly what the account says:
\* no call is out, none used more than it reserved, and the sum is within the limits, until
\* it reserves again.
AcceptedIsTrue ==
  accepted =>
    /\ DOMAIN actual = 1..calls
    /\ \A id \in 1..calls, m \in Measures : actual[id][m] <= reserved[id][m]
    /\ \A m \in Measures : /\ used[m] = Total(1..calls, actual, m)
                           /\ used[m] <= Limit[m]

\* What was settled is known and within its reservation.
SettledWithinReservation ==
  \A id \in 1..calls \ open :
    id \in DOMAIN actual /\ \A m \in Measures : actual[id][m] <= reserved[id][m]

\* The account stays within its limits and tells the truth, while calls are out and at the
\* end.
AccountTrue == LimitsKept /\ Accounted /\ AcceptedIsTrue

\* The account implements PilotLedger: spent is what the settled calls used, and held
\* the reservations that are open.
Ledger == INSTANCE PilotLedger WITH
  spent <- [m \in Measures |-> Total(1..calls \ open, actual, m)],
  held <- [id \in open |-> reserved[id]],
  closed <- accepted

ImplementsPilotLedger == Ledger!Spec
=============================================================================
