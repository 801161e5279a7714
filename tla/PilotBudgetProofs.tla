------------------------- MODULE PilotBudgetProofs -------------------------
(***************************************************************************)
(* Proofs about PilotBudget, for any limits, amounts and number of calls.  *)
(***************************************************************************)
EXTENDS PilotBudget, DataFacts

BudgetInv ==
  /\ TypeOK
  /\ LimitsKept
  /\ SettledWithinReservation
  /\ accepted => open = {}

\* A reservation counts in full and stays open.
LEMMA ReserveInv ==
  ASSUME PilotAssumption, BudgetInv, NEW amount \in Reservable, Reserve(amount)
  PROVE  BudgetInv'
<1>. USE DEF BudgetInv
<1>1. /\ amount \in Amounts /\ Limit \in Amounts /\ MaxModelCalls \in Nat
      /\ calls \in Nat /\ used \in [Measures -> Int]
      /\ calls' = calls + 1 /\ calls + 1 <= MaxModelCalls
      /\ used' = [m \in Measures |-> used[m] + amount[m]]
      /\ \A m \in Measures : used[m] + amount[m] <= Limit[m]
      /\ open' = open \cup {calls + 1}
      /\ reserved' = With(reserved, calls + 1, amount)
      /\ UNCHANGED <<now, actual>>
  BY DEF PilotAssumption, Reserve, TypeOK
<1>2. used' \in [Measures -> Int]
  BY <1>1 DEF Amounts
<1>3. DOMAIN reserved = 1..calls /\ 1..calls' = (1..calls) \cup {calls + 1}
      /\ calls + 1 \notin 1..calls
  BY <1>1 DEF TypeOK
<1>4. reserved' \in [1..calls' -> Amounts]
  BY <1>1, <1>3 DEF TypeOK, With
<1>5. \A id \in 1..calls : reserved'[id] = reserved[id]
  BY <1>1, <1>3 DEF With
<1>6. ~accepted' /\ accepted' \in BOOLEAN
  BY Zenon DEF Reserve
<1>7. TypeOK'
  BY <1>1, <1>2, <1>3, <1>4, <1>6 DEF TypeOK
<1>8. LimitsKept'
  BY <1>1 DEF LimitsKept
<1>9. SettledWithinReservation'
  BY <1>1, <1>3, <1>5 DEF SettledWithinReservation
<1>. QED BY <1>6, <1>7, <1>8, <1>9

\* An answer changes what is known of a call that is still out.
LEMMA AnswerInv ==
  ASSUME PilotAssumption, BudgetInv, NEW id \in 1..calls, NEW usage \in Reportable, Answer(id, usage)
  PROVE  BudgetInv'
<1>. USE DEF BudgetInv
<1>1. /\ usage \in Amounts /\ id \notin DOMAIN actual
      /\ actual' = With(actual, id, usage)
      /\ UNCHANGED <<now, calls, used, open, reserved, accepted>>
  BY DEF PilotAssumption, Answer
<1>2. /\ DOMAIN actual' = DOMAIN actual \cup {id}
      /\ actual'[id] = usage
      /\ \A i \in DOMAIN actual : actual'[i] = actual[i]
  BY <1>1 DEF With
<1>3. TypeOK'
  BY <1>1, <1>2 DEF TypeOK
<1>4. LimitsKept' /\ SettledWithinReservation'
  BY <1>1, <1>2 DEF LimitsKept, SettledWithinReservation
<1>. QED BY <1>1, <1>3, <1>4

\* A settlement gives back what was not used.
LEMMA SettleInv ==
  ASSUME PilotAssumption, BudgetInv, NEW id \in 1..calls, Settle(id)
  PROVE  BudgetInv'
<1>. USE DEF BudgetInv
<1>1. /\ id \in open /\ id \in DOMAIN actual
      /\ \A m \in Measures : actual[id][m] <= reserved[id][m]
      /\ used' = [m \in Measures |-> used[m] + (actual[id][m] - reserved[id][m])]
      /\ open' = open \ {id}
      /\ UNCHANGED <<now, calls, reserved, actual, accepted>>
  BY DEF Settle, Settleable, Settled
<1>2. /\ actual[id] \in Amounts /\ reserved[id] \in Amounts /\ Limit \in Amounts
      /\ used \in [Measures -> Int]
  BY <1>1 DEF TypeOK, PilotAssumption
<1>3. used' \in [Measures -> Int] /\ \A m \in Measures : used'[m] <= used[m]
  BY <1>1, <1>2 DEF Amounts
<1>4. TypeOK'
  BY <1>1, <1>3 DEF TypeOK
<1>5. LimitsKept'
  BY <1>1, <1>2, <1>3 DEF LimitsKept, Amounts
<1>6. SettledWithinReservation'
  BY <1>1 DEF SettledWithinReservation
<1>. QED BY <1>1, <1>4, <1>5, <1>6

\* Nothing is reserved at first.
LEMMA InitialInv ==
  ASSUME PilotAssumption, Init
  PROVE  BudgetInv
<1>1. /\ calls = 0 /\ now = 0 /\ accepted = FALSE /\ open = {}
      /\ used = [m \in Measures |-> 0]
      /\ DOMAIN reserved = {} /\ DOMAIN actual = {} /\ 1..calls = {}
  BY DEF Init
<1>2. reserved \in [1..calls -> Amounts]
  BY <1>1 DEF Init
<1>3. TypeOK
  <2>1. accepted \in BOOLEAN
    BY <1>1, Zenon
  <2>2. used \in [Measures -> Int]
    BY <1>1
  <2>3. calls \in Nat /\ now \in Nat
    BY <1>1
  <2>. QED BY <1>1, <1>2, <2>1, <2>2, <2>3 DEF TypeOK
<1>4. LimitsKept
  BY <1>1 DEF LimitsKept, PilotAssumption, Amounts
<1>. QED BY <1>1, <1>3, <1>4 DEF BudgetInv, SettledWithinReservation

\* Every step keeps the invariant.
LEMMA StepInv ==
  ASSUME PilotAssumption, BudgetInv, [Next]_vars
  PROVE  BudgetInv'
<1>1. CASE \E amount \in Reservable : Reserve(amount)
  BY <1>1, ReserveInv
<1>2. CASE \E id \in 1..calls, usage \in Reportable : Answer(id, usage)
  BY <1>2, AnswerInv
<1>3. CASE \E id \in 1..calls : Settle(id)
  BY <1>3, SettleInv
<1>4. CASE AssertSettled \/ Tick \/ UNCHANGED vars
  <2>1. UNCHANGED <<calls, used, open, reserved, actual>>
    BY <1>4 DEF AssertSettled, Tick, vars
  <2>2. now' \in Nat
    BY <1>4 DEF BudgetInv, TypeOK, AssertSettled, Tick, vars
  <2>3. accepted' \in BOOLEAN /\ (accepted' => open = {})
    <3>1. CASE AssertSettled
      BY <3>1, Zenon DEF AssertSettled
    <3>2. CASE Tick \/ UNCHANGED vars
      <4>1. accepted' = accepted
        BY <3>2 DEF Tick, vars
      <4>. QED BY <4>1, Zenon DEF BudgetInv, TypeOK
    <3>. QED BY <1>4, <3>1, <3>2
  <2>. QED BY <2>1, <2>2, <2>3 DEF BudgetInv, TypeOK, LimitsKept, SettledWithinReservation
<1>. QED BY <1>1, <1>2, <1>3, <1>4 DEF Next

\* Whatever comes back, in whatever order, late, twice or never, what counts is within
\* the limits (gate3/budget.py:51-116).
THEOREM LimitsAlwaysKept == Spec => []LimitsKept
<1>1. Init => BudgetInv
  BY InitialInv, PilotAssumption
<1>2. BudgetInv /\ [Next]_vars => BudgetInv'
  BY StepInv, PilotAssumption
<1>3. BudgetInv => LimitsKept
  BY DEF BudgetInv
<1>. QED BY <1>1, <1>2, <1>3, PTL DEF Spec

\* A pilot that passed assert_settled has no call out until it reserves again, and none of
\* its calls used more than it had reserved (gate3/budget.py:118-121).
THEOREM AcceptedIsSettled ==
  Spec => [](accepted => /\ open = {}
                         /\ \A id \in 1..calls, m \in Measures : actual[id][m] <= reserved[id][m])
<1>1. Init => BudgetInv
  BY InitialInv, PilotAssumption
<1>2. BudgetInv /\ [Next]_vars => BudgetInv'
  BY StepInv, PilotAssumption
<1>3. BudgetInv => (accepted => /\ open = {}
                                /\ \A id \in 1..calls, m \in Measures : actual[id][m] <= reserved[id][m])
  BY DEF BudgetInv, SettledWithinReservation
<1>. QED BY <1>1, <1>2, <1>3, PTL DEF Spec
-----------------------------------------------------------------------------
(***************************************************************************)
(* The account as a sum.                                                   *)
(***************************************************************************)

\* Reservation ids are finitely many, and so are those that are open.
LEMMA FiniteIds ==
  ASSUME BudgetInv
  PROVE  IsFiniteSet(open) /\ IsFiniteSet(1..calls \ open) /\ open \in SUBSET (1..calls)
<1>1. calls \in Nat /\ open \in SUBSET (1..calls)
  BY DEF BudgetInv, TypeOK
<1>2. IsFiniteSet(1..calls)
  <2>1. 0 \in Int /\ 1 \in Int /\ calls \in Int
    BY <1>1
  <2>. QED BY <2>1, FS_Interval
<1>3. 1..calls \ open \in SUBSET (1..calls)
  OBVIOUS
<1>. QED BY <1>1, <1>2, <1>3, FS_Subset

\* Every amount that the account adds up is an integer.
LEMMA AmountsAreInt ==
  ASSUME BudgetInv, NEW m \in Measures
  PROVE  /\ \A i \in 1..calls \ open : Of(actual, m)[i] = actual[i][m]
         /\ \A i \in DOMAIN actual : Of(actual, m)[i] \in Int
         /\ \A i \in 1..calls \ open : i \in DOMAIN actual
         /\ \A i \in 1..calls : Of(reserved, m)[i] = reserved[i][m] /\ Of(reserved, m)[i] \in Int
BY DEF BudgetInv, TypeOK, SettledWithinReservation, Amounts, Of

\* Both parts of the account are integers.
LEMMA TotalsAreInt ==
  ASSUME BudgetInv, NEW m \in Measures
  PROVE  Total(1..calls \ open, actual, m) \in Int /\ Total(open, reserved, m) \in Int
BY FiniteIds, AmountsAreInt, SumType DEF Total

\* A reservation is added to what is open.
LEMMA ReserveAccounted ==
  ASSUME PilotAssumption, BudgetInv, Accounted, NEW amount \in Reservable, Reserve(amount)
  PROVE  Accounted'
<1>1. /\ amount \in Amounts
      /\ calls \in Nat /\ calls' = calls + 1
      /\ used' = [m \in Measures |-> used[m] + amount[m]]
      /\ open' = open \cup {calls + 1}
      /\ reserved' = With(reserved, calls + 1, amount)
      /\ actual' = actual
  BY DEF PilotAssumption, Reserve, BudgetInv, TypeOK
<1>2. DOMAIN reserved = 1..calls /\ 1..calls' \ open' = 1..calls \ open /\ calls + 1 \notin open
  BY <1>1 DEF BudgetInv, TypeOK
<1>. SUFFICES ASSUME NEW m \in Measures
              PROVE  used'[m] = Total(1..calls' \ open', actual', m) + Total(open', reserved', m)
  BY DEF Accounted
<1>3. PICK f, g, x : f = Of(reserved', m) /\ g = Of(reserved, m) /\ x = calls + 1
  OBVIOUS
<1>4. f[x] = amount[m] /\ amount[m] \in Int /\ \A i \in 1..calls : f[i] = g[i]
  BY <1>1, <1>2, <1>3 DEF Of, With, Amounts
<1>5. \A i \in open : f[i] = g[i] /\ g[i] \in Int
  BY <1>3, <1>4, FiniteIds, AmountsAreInt
<1>6. SumFunctionOnSet(f, open \cup {x}) = SumFunctionOnSet(f, open) + f[x]
  BY <1>2, <1>3, <1>4, <1>5, FiniteIds, SumAdd
<1>7. SumFunctionOnSet(f, open) = SumFunctionOnSet(g, open)
  BY <1>5, FiniteIds, SumSame
<1>8. Total(open', reserved', m) = Total(open, reserved, m) + amount[m]
  BY <1>1, <1>3, <1>4, <1>6, <1>7 DEF Total
<1>9. Total(1..calls' \ open', actual', m) = Total(1..calls \ open, actual, m)
  BY <1>1, <1>2
<1>10. used[m] = Total(1..calls \ open, actual, m) + Total(open, reserved, m) /\ used'[m] = used[m] + amount[m]
  BY <1>1 DEF Accounted
<1>. QED BY <1>4, <1>8, <1>9, <1>10, TotalsAreInt

\* An answer is not counted before it is settled.
LEMMA AnswerAccounted ==
  ASSUME PilotAssumption, BudgetInv, Accounted, NEW id \in 1..calls, NEW usage \in Reportable,
         Answer(id, usage)
  PROVE  Accounted'
<1>1. /\ id \notin DOMAIN actual
      /\ actual' = With(actual, id, usage)
      /\ UNCHANGED <<calls, used, open, reserved>>
  BY DEF Answer
<1>. SUFFICES ASSUME NEW m \in Measures
              PROVE  used'[m] = Total(1..calls' \ open', actual', m) + Total(open', reserved', m)
  BY DEF Accounted
<1>2. PICK f, g : f = Of(actual', m) /\ g = Of(actual, m)
  OBVIOUS
<1>3. \A i \in 1..calls \ open : f[i] = g[i]
  BY <1>1, <1>2, AmountsAreInt DEF Of, With
<1>4. SumFunctionOnSet(f, 1..calls \ open) = SumFunctionOnSet(g, 1..calls \ open)
  BY <1>3, FiniteIds, SumSame
<1>5. Total(1..calls' \ open', actual', m) = Total(1..calls \ open, actual, m)
  BY <1>1, <1>2, <1>4 DEF Total
<1>. QED BY <1>1, <1>5 DEF Accounted

\* A settlement moves its call from what is open to what is settled.
LEMMA SettleAccounted ==
  ASSUME PilotAssumption, BudgetInv, Accounted, NEW id \in 1..calls, Settle(id)
  PROVE  Accounted'
<1>1. /\ id \in open /\ id \in DOMAIN actual
      /\ used' = [m \in Measures |-> used[m] + (actual[id][m] - reserved[id][m])]
      /\ open' = open \ {id}
      /\ UNCHANGED <<calls, reserved, actual>>
  BY DEF Settle, Settleable, Settled
<1>. DEFINE Closed == 1..calls \ open
            Rest == open \ {id}
<1>2. /\ 1..calls' \ open' = Closed \cup {id} /\ id \notin Closed
      /\ open = Rest \cup {id} /\ id \notin Rest
  BY <1>1
<1>3. IsFiniteSet(Closed) /\ IsFiniteSet(Rest)
  BY FiniteIds, FS_Subset
<1>. SUFFICES ASSUME NEW m \in Measures
              PROVE  used'[m] = Total(1..calls' \ open', actual', m) + Total(open', reserved', m)
  BY DEF Accounted
<1>4. PICK f, g : f = Of(actual, m) /\ g = Of(reserved, m)
  OBVIOUS
<1>5. f[id] = actual[id][m] /\ g[id] = reserved[id][m]
  BY <1>1, <1>4, AmountsAreInt DEF Of
<1>6. (\A i \in Closed \cup {id} : f[i] \in Int) /\ \A i \in Rest \cup {id} : g[i] \in Int
  BY <1>1, <1>4, FiniteIds, AmountsAreInt
<1>7. used'[m] = used[m] + (f[id] - g[id])
  BY <1>1, <1>5
<1>8. used[m] = SumFunctionOnSet(f, Closed) + SumFunctionOnSet(g, open)
  BY <1>4 DEF Accounted, Total
<1>9. /\ Total(1..calls' \ open', actual', m) = SumFunctionOnSet(f, Closed \cup {id})
      /\ Total(open', reserved', m) = SumFunctionOnSet(g, Rest)
  BY <1>1, <1>2, <1>4 DEF Total
<1>. HIDE DEF Closed, Rest
<1>10. SumFunctionOnSet(f, Closed \cup {id}) = SumFunctionOnSet(f, Closed) + f[id]
  BY <1>2, <1>3, <1>6, SumAdd
<1>11. SumFunctionOnSet(g, Rest \cup {id}) = SumFunctionOnSet(g, Rest) + g[id]
  BY <1>2, <1>3, <1>6, SumAdd
<1>12. SumFunctionOnSet(f, Closed) \in Int /\ SumFunctionOnSet(g, Rest) \in Int
  BY <1>3, <1>6, SumType
<1>13. PICK c, o, u, v : /\ c = SumFunctionOnSet(f, Closed) /\ o = SumFunctionOnSet(g, Rest)
                         /\ u = f[id] /\ v = g[id]
  OBVIOUS
<1>14. c \in Int /\ o \in Int /\ u \in Int /\ v \in Int
  BY <1>6, <1>12, <1>13
<1>15. used'[m] = (c + (o + v)) + (u - v)
  BY <1>2, <1>7, <1>8, <1>11, <1>13
<1>16. Total(1..calls' \ open', actual', m) = c + u /\ Total(open', reserved', m) = o
  BY <1>9, <1>10, <1>13
<1>. QED BY <1>14, <1>15, <1>16

\* Every step keeps the account equal to what was settled and what is out.
LEMMA StepAccounted ==
  ASSUME PilotAssumption, BudgetInv, Accounted, [Next]_vars
  PROVE  Accounted'
<1>1. CASE \E amount \in Reservable : Reserve(amount)
  BY <1>1, ReserveAccounted
<1>2. CASE \E id \in 1..calls, usage \in Reportable : Answer(id, usage)
  BY <1>2, AnswerAccounted
<1>3. CASE \E id \in 1..calls : Settle(id)
  BY <1>3, SettleAccounted
<1>4. CASE AssertSettled \/ Tick \/ UNCHANGED vars
  BY <1>4 DEF AssertSettled, Tick, vars, Accounted
<1>. QED BY <1>1, <1>2, <1>3, <1>4 DEF Next

\* An empty account is accounted for.
LEMMA InitialAccounted ==
  ASSUME PilotAssumption, Init
  PROVE  Accounted
<1>1. open = {} /\ 1..calls \ open = {} /\ used = [m \in Measures |-> 0]
  BY DEF Init
<1>. SUFFICES ASSUME NEW m \in Measures
              PROVE  used[m] = Total(1..calls \ open, actual, m) + Total(open, reserved, m)
  BY DEF Accounted
<1>2. Total({}, actual, m) = 0 /\ Total({}, reserved, m) = 0
  BY SumOfNone DEF Total
<1>3. Total(1..calls \ open, actual, m) = 0 /\ Total(open, reserved, m) = 0
  BY <1>1, <1>2
<1>4. used[m] = 0
  BY <1>1
<1>. QED BY <1>3, <1>4

\* Whatever is reserved, answered or lost, settled or refused, in any order: what counts
\* against the limits never exceeds them and is exactly what the settled calls used and the
\* worst case of those still out, and a pilot that assert_settled accepts used what its
\* account says (gate3/budget.py:51-121).
THEOREM AccountStaysTrue == Spec => []AccountTrue
<1>1. Init => BudgetInv /\ Accounted
  BY InitialInv, InitialAccounted, PilotAssumption
<1>2. BudgetInv /\ Accounted /\ [Next]_vars => (BudgetInv /\ Accounted)'
  BY StepInv, StepAccounted, PilotAssumption
<1>3. BudgetInv /\ Accounted => AccountTrue
  <2>1. SUFFICES ASSUME BudgetInv, Accounted, accepted
                 PROVE  AcceptedIsTrue
    BY DEF AccountTrue, AcceptedIsTrue, BudgetInv
  <2>2. open = {} /\ 1..calls \ open = 1..calls
    BY <2>1 DEF BudgetInv
  <2>3. /\ DOMAIN actual = 1..calls
        /\ \A id \in 1..calls, m \in Measures : actual[id][m] <= reserved[id][m]
    BY <2>1, <2>2 DEF BudgetInv, TypeOK, SettledWithinReservation
  <2>4. ASSUME NEW m \in Measures
        PROVE  used[m] = Total(1..calls, actual, m) /\ used[m] <= Limit[m]
    <3>1. Total({}, reserved, m) = 0
      BY SumOfNone DEF Total
    <3>2. used[m] = Total(1..calls, actual, m) + 0
      BY <2>1, <2>2, <3>1 DEF Accounted
    <3>3. Total(1..calls, actual, m) \in Int
      BY <2>1, <2>2, TotalsAreInt
    <3>. QED BY <2>1, <3>2, <3>3 DEF BudgetInv, LimitsKept
  <2>. QED BY <2>3, <2>4 DEF AcceptedIsTrue
<1>. QED BY <1>1, <1>2, <1>3, PTL DEF Spec

-----------------------------------------------------------------------------
(***************************************************************************)
(* The account implements the ledger.                                      *)
(***************************************************************************)
\* What the ledger reads as spent and as held.
Spent == [m \in Measures |-> Total(1..calls \ open, actual, m)]
Outstanding == [id \in open |-> reserved[id]]

\* The ledger adds up as the account does.
LEMMA SameSum ==
  ASSUME NEW f, NEW S
  PROVE  Ledger!SumFunctionOnSet(f, S) = SumFunctionOnSet(f, S)
BY DEF Ledger!SumFunctionOnSet, Ledger!FoldFunctionOnSet, Ledger!MapThenFoldSet,
       SumFunctionOnSet, FoldFunctionOnSet, MapThenFoldSet

\* What is held is what the open reservations add up to.
LEMMA HeldIs ==
  ASSUME BudgetInv, NEW m \in Measures
  PROVE  Ledger!Held(m) = Total(open, reserved, m)
<1>1. PICK f, g : f = [id \in open |-> reserved[id][m]] /\ g = Of(reserved, m)
  OBVIOUS
<1>2. DOMAIN Outstanding = open /\ [id \in DOMAIN Outstanding |-> Outstanding[id][m]] = f
  BY <1>1 DEF Outstanding
<1>3. \A id \in open : f[id] = g[id]
  BY <1>1, FiniteIds, AmountsAreInt
<1>4. Ledger!Held(m) = Ledger!SumFunctionOnSet(f, open)
  BY <1>2 DEF Ledger!Held, Outstanding
<1>5. SumFunctionOnSet(f, open) = SumFunctionOnSet(g, open)
  BY <1>3, FiniteIds, SumSame
<1>. QED BY <1>1, <1>4, <1>5, SameSum DEF Total

\* What is spent and what is held are amounts.
LEMMA LedgerTypes ==
  ASSUME BudgetInv, NEW m \in Measures
  PROVE  Spent[m] \in Nat /\ Total(open, reserved, m) \in Nat
<1>1. PICK f, g : f = Of(actual, m) /\ g = Of(reserved, m)
  OBVIOUS
<1>2. \A id \in 1..calls \ open : f[id] \in Int /\ 0 <= f[id]
  <2>. SUFFICES ASSUME NEW id \in 1..calls \ open
                PROVE  f[id] \in Nat
    OBVIOUS
  <2>1. id \in DOMAIN actual /\ f[id] = actual[id][m]
    BY <1>1, AmountsAreInt
  <2>. QED BY <2>1 DEF BudgetInv, TypeOK, Amounts
<1>3. \A id \in open : g[id] \in Int /\ 0 <= g[id]
  <2>. SUFFICES ASSUME NEW id \in open
                PROVE  g[id] \in Nat
    OBVIOUS
  <2>1. id \in 1..calls /\ g[id] = reserved[id][m]
    BY <1>1, FiniteIds, AmountsAreInt
  <2>. QED BY <2>1 DEF BudgetInv, TypeOK, Amounts
<1>4. /\ SumFunctionOnSet(f, 1..calls \ open) \in Int /\ 0 <= SumFunctionOnSet(f, 1..calls \ open)
      /\ SumFunctionOnSet(g, open) \in Int /\ 0 <= SumFunctionOnSet(g, open)
  BY <1>2, <1>3, FiniteIds, SumBelow
<1>. QED BY <1>1, <1>4 DEF Spent, Total

\* A reservation is held; what is spent stands.
LEMMA ReserveHolds ==
  ASSUME PilotAssumption, BudgetInv, Accounted, NEW amount \in Reservable, Reserve(amount)
  PROVE  Ledger!Hold
<1>1. /\ amount \in Amounts /\ calls \in Nat
      /\ calls' = calls + 1 /\ calls + 1 <= MaxModelCalls
      /\ open' = open \cup {calls + 1} /\ reserved' = With(reserved, calls + 1, amount)
      /\ \A m \in Measures : used[m] + amount[m] <= Limit[m]
      /\ accepted' = FALSE /\ UNCHANGED actual
  BY DEF PilotAssumption, Reserve, BudgetInv, TypeOK
<1>2. /\ DOMAIN reserved = 1..calls /\ open \subseteq 1..calls
      /\ calls + 1 \notin open /\ 1..calls' \ open' = 1..calls \ open
  BY <1>1 DEF BudgetInv, TypeOK
<1>3. Spent' = Spent
  BY <1>1, <1>2 DEF Spent
<1>4. /\ DOMAIN Outstanding = open /\ DOMAIN Outstanding' = open'
      /\ Outstanding'[calls'] = amount
      /\ \A id \in open : Outstanding'[id] = Outstanding[id]
  BY <1>1, <1>2 DEF Outstanding, With
<1>5. ASSUME NEW m \in Measures
      PROVE  Spent[m] + Ledger!Held(m) + amount[m] <= Limit[m]
  <2>1. used[m] = Spent[m] + Total(open, reserved, m)
    BY DEF Accounted, Spent
  <2>. QED BY <1>1, <2>1, HeldIs
<1>6. Amounts = Ledger!Amount
  BY DEF Amounts, Ledger!Amount
<1>. QED BY <1>1, <1>2, <1>3, <1>4, <1>5, <1>6 DEF Ledger!Hold, Spent, Outstanding

\* A settlement is charged, within what was held for its call.
LEMMA SettleCharges ==
  ASSUME PilotAssumption, BudgetInv, NEW id \in 1..calls, Settle(id)
  PROVE  Ledger!Charge(id) /\ id \in open
<1>1. /\ id \in open /\ id \in DOMAIN actual /\ open' = open \ {id}
      /\ \A m \in Measures : actual[id][m] <= reserved[id][m]
      /\ UNCHANGED <<calls, reserved, actual, accepted>>
  BY DEF Settle, Settleable
<1>2. actual[id] \in Amounts /\ reserved[id] \in Amounts
  BY <1>1 DEF BudgetInv, TypeOK
<1>3. ASSUME NEW m \in Measures
      PROVE  Spent'[m] = Spent[m] + actual[id][m]
  <2>. DEFINE Closed == 1..calls \ open
  <2>1. 1..calls' \ open' = Closed \cup {id} /\ id \notin Closed
    BY <1>1
  <2>2. PICK f : f = Of(actual, m)
    OBVIOUS
  <2>3. (\A i \in Closed \cup {id} : f[i] \in Int) /\ f[id] = actual[id][m]
    <3>1. f[id] = actual[id][m]
      BY <1>1, <2>2 DEF Of
    <3>. QED BY <1>1, <2>2, <3>1, AmountsAreInt
  <2>4. IsFiniteSet(Closed)
    BY FiniteIds
  <2>5. Spent'[m] = SumFunctionOnSet(f, Closed \cup {id}) /\ Spent[m] = SumFunctionOnSet(f, Closed)
    BY <1>1, <2>1, <2>2 DEF Spent, Total
  <2>. HIDE DEF Closed
  <2>6. SumFunctionOnSet(f, Closed \cup {id}) = SumFunctionOnSet(f, Closed) + f[id]
    BY <2>1, <2>3, <2>4, SumAdd
  <2>. QED BY <2>3, <2>5, <2>6
<1>4. ASSUME NEW m \in Measures
      PROVE  Spent'[m] \in Nat /\ Spent'[m] \in Spent[m] .. (Spent[m] + reserved[id][m])
  BY <1>1, <1>2, <1>3, LedgerTypes DEF Amounts
<1>5. Spent' \in Ledger!Amount
  BY <1>4 DEF Spent, Ledger!Amount
<1>6. /\ DOMAIN Outstanding = open /\ Outstanding[id] = reserved[id]
      /\ Outstanding' = [other \in open \ {id} |-> Outstanding[other]]
  BY <1>1 DEF Outstanding
<1>. QED BY <1>1, <1>4, <1>5, <1>6 DEF Ledger!Charge, Spent, Outstanding

\* An answer that is not settled yet changes nothing in the ledger.
LEMMA AnswerUnseen ==
  ASSUME BudgetInv, NEW id \in 1..calls, NEW usage \in Reportable, Answer(id, usage)
  PROVE  UNCHANGED <<calls, Spent, Outstanding, accepted>>
<1>1. /\ id \notin DOMAIN actual /\ actual' = With(actual, id, usage)
      /\ UNCHANGED <<calls, open, reserved, accepted>>
  BY DEF Answer
<1>2. ASSUME NEW m \in Measures
      PROVE  Total(1..calls \ open, actual', m) = Total(1..calls \ open, actual, m)
  <2>1. PICK f, g : f = Of(actual', m) /\ g = Of(actual, m)
    OBVIOUS
  <2>2. \A i \in 1..calls \ open : f[i] = g[i]
    BY <1>1, <2>1, AmountsAreInt DEF Of, With
  <2>3. SumFunctionOnSet(f, 1..calls \ open) = SumFunctionOnSet(g, 1..calls \ open)
    BY <2>2, FiniteIds, SumSame
  <2>. QED BY <2>1, <2>3 DEF Total
<1>3. Spent' = Spent
  BY <1>1, <1>2 DEF Spent
<1>. QED BY <1>1, <1>3 DEF Outstanding

\* Whoever reads the account as a ledger sees calls held for and charged once, in some
\* order, within the limits: every step of the account is one of the ledger or unseen
\* (gate3/budget.py:51-121).
THEOREM LedgerRefinement == Spec => ImplementsPilotLedger
<1>1. Init => BudgetInv /\ Accounted
  BY InitialInv, InitialAccounted, PilotAssumption
<1>2. BudgetInv /\ Accounted /\ [Next]_vars => (BudgetInv /\ Accounted)'
  BY StepInv, StepAccounted, PilotAssumption
<1>3. Init => Ledger!Init
  <2>. SUFFICES ASSUME Init PROVE Ledger!Init
    OBVIOUS
  <2>1. calls = 0 /\ open = {} /\ accepted = FALSE /\ 1..calls \ open = {}
    BY DEF Init
  <2>2. \A m \in Measures : Total(1..calls \ open, actual, m) = 0
    BY <2>1, SumOfNone DEF Total
  <2>. QED BY <2>1, <2>2 DEF Ledger!Init
<1>4. ASSUME BudgetInv, Accounted, [Next]_vars
      PROVE  [Ledger!Next]_<<calls, Spent, Outstanding, accepted>>
  <2>1. CASE \E amount \in Reservable : Reserve(amount)
    BY <1>4, <2>1, ReserveHolds, PilotAssumption DEF Ledger!Next
  <2>2. CASE \E id \in 1..calls, usage \in Reportable : Answer(id, usage)
    BY <1>4, <2>2, AnswerUnseen
  <2>3. CASE \E id \in 1..calls : Settle(id)
    <3>1. PICK id \in open : Ledger!Charge(id)
      BY <1>4, <2>3, SettleCharges, PilotAssumption
    <3>. QED BY <3>1 DEF Ledger!Next
  <2>4. CASE AssertSettled
    <3>1. open = {} /\ accepted' = TRUE /\ UNCHANGED <<calls, open, actual, reserved>>
      BY <2>4 DEF AssertSettled
    <3>2. Ledger!Close
      BY <3>1 DEF Ledger!Close
    <3>. QED BY <3>2 DEF Ledger!Next
  <2>5. CASE Tick \/ UNCHANGED vars
    BY <2>5 DEF Tick, vars, Spent, Outstanding
  <2>. QED BY <1>4, <2>1, <2>2, <2>3, <2>4, <2>5 DEF Next
<1>. QED BY <1>1, <1>2, <1>3, <1>4, PTL
     DEF Spec, ImplementsPilotLedger, Ledger!Spec, Spent, Outstanding
=============================================================================
