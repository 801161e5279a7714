------------------------ MODULE MCOfflineEvaluation ------------------------
(***************************************************************************)
(* A pilot of two assignments and a primary design of one, whose executors *)
(* may leave the same bytes.                                               *)
(***************************************************************************)
EXTENDS OfflineEvaluation

Design(seeds) ==
  [formations |-> <<"neutral_connection">>, interventions |-> <<"none">>,
   families |-> <<"qwen">>, seeds |-> seeds]

MCDesigns == "pilot" :> Design(<<1, 2>>) @@ "primary" :> Design(<<3>>)
=============================================================================
