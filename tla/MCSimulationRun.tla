--------------------------- MODULE MCSimulationRun ---------------------------
(* Five days with a checkpoint after every second; the candidates of the first and the *)
(* third day are retrieved, and a later day contradicts what they support. *)
EXTENDS SimulationRun

MCCandidates(day) == CASE day = 1 -> <<1, 2>> [] day = 3 -> <<3>> [] day = 4 -> <<4>> [] OTHER -> <<>>
MCScore(day, episode, revision) == IF day - episode.day > 1 THEN 1 ELSE 2
MCAction(request) == Cardinality(request.selected) % 2
=============================================================================
