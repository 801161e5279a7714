---------------------------- MODULE MCSupervisor ----------------------------
(***************************************************************************)
(* Instances of Supervisor for TLC.                                        *)
(***************************************************************************)
EXTENDS Supervisor, TLC

\* The ways a worker's result differs for the supervisor.
Good(tokens, gpu) ==
  [task_matches |-> TRUE, succeeded |-> TRUE, category |-> "none",
   retryable |-> FALSE, ids_match |-> TRUE, paths_match |-> TRUE,
   paths_safe |-> TRUE, checks_passed |-> TRUE, artifacts |-> TRUE,
   reason |-> FALSE, evidence |-> TRUE, tokens |-> tokens, gpu |-> gpu]

NoArtifact    == [Good(0, 0) EXCEPT !.artifacts = FALSE, !.reason = TRUE]
MissingChecks == [Good(1, 0) EXCEPT !.checks_passed = FALSE]
NoEvidence    == [Good(1, 0) EXCEPT !.evidence = FALSE]
Dir(name)  == <<name, Star>>
File(d, f) == <<d, f>>

\* A diamond with an optional GPU branch: 1 -> {2 (GPU), 3 (gate)} -> 4.
DiamondTasks    == 1 .. 4
DiamondRank     == <<1, 2, 3, 4>>
DiamondDeps     == <<{}, {1}, {1}, {3}>>
DiamondOptDeps  == <<{}, {}, {}, {2}>>
DiamondOptional == {2}
DiamondAttempts == <<1, 2, 2, 1>>
DiamondTwice    == <<2, 2, 2, 2>>
DiamondTokens   == <<1, 1, 1, 1>>
DiamondGpu      == <<0, 1, 0, 0>>
DiamondGates    == {3}
DiamondAgents   == {1, 2}
DiamondEligible == <<{1, 2}, {1}, {1, 2}, {2}>>
DiamondScopes   == <<{Dir(97)}, {Dir(98)}, {Dir(99), File(97, 98)}, {Dir(97)}>>
DiamondResults  == <<{Good(1, 0)}, {Good(1, 1)}, {Good(1, 0), MissingChecks, NoEvidence}, {Good(1, 0)}>>
DiamondLimits   == [wall |-> 1, tokens |-> 4, gpu |-> NoLimit, training |-> 1,
                    retries |-> 3, malformed |-> 1, deadline |-> NoLimit]

\* Three independent tasks that compete for scopes and agents: 1 and 2 write
\* overlapping paths, 1 and 3 need the same agent.
FanTasks    == 1 .. 3
FanRank     == <<2, 1, 3>>
FanNone     == <<{}, {}, {}>>
FanAttempts == <<2, 1, 2>>
FanTokens   == <<1, 1, 1>>
FanGpu      == <<0, 0, 0>>
FanScopes   == <<{Dir(97)}, {File(97, 98), Dir(99)}, {Dir(98)}>>
FanEligible == <<{1}, {2}, {1}>>
FanResults  == <<{Good(1, 0)}, {Good(2, 0)}, {NoArtifact, MissingChecks}>>
FanLimits   == [wall |-> 3, tokens |-> 2, gpu |-> 0, training |-> 0,
                retries |-> 3, malformed |-> 1, deadline |-> NoLimit]
=============================================================================
