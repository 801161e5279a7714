--------------------------- MODULE MCPilotBudget ---------------------------
(* Three calls whose worst cases fill the token and the cost limits in different ways, *)
(* and a provider that stays below a reservation, meets it or exceeds it. *)
EXTENDS PilotBudget

Amount(input, output, cost) ==
  [m \in Measures |-> CASE m = "input_tokens" -> input
                        [] m = "output_tokens" -> output
                        [] m = "estimated_cost_usd" -> cost]

MCLimit == Amount(4, 3, 3)
MCReservable == {Amount(2, 1, 1), Amount(1, 2, 0), Amount(3, 1, 2)}
MCReportable == {Amount(0, 0, 0), Amount(1, 1, 0), Amount(2, 1, 1), Amount(1, 2, 2)}
=============================================================================
