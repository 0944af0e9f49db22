------------------------------ MODULE MCTeamRun ------------------------------
(***************************************************************************)
(* Instances of TeamRun: one team that may run twice, and two teams        *)
(* planned before either runs.                                             *)
(***************************************************************************)
EXTENDS TeamRun, TLC

CONSTANTS first, second

OneTeam == {first}
TwoTeams == {first, second}
OnePhases ==
    {<<part, "verification">> : part \in {"probe", "diagnosis", "implementation"}}
TwoPhases == {<<"implementation", "implementation">>}

P(mode, failure, minimum) ==
    [mode |-> mode, failure |-> failure, width |-> 2, minimum |-> minimum]
OnePolicies == first :> {P("sequential", "best_effort", 1), P("parallel", "fail_fast", 1)}
OneSizes == first :> {0, 2}
TwoPolicies == [t \in TwoTeams |-> {P("sequential", "best_effort", 1)}]
TwoSizes == first :> {2} @@ second :> {1}

=============================================================================
