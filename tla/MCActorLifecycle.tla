--------------------------- MODULE MCActorLifecycle --------------------------
(* A lead agent, a team below it and the team's member, which the lead also *)
(* counts among its children.                                               *)
EXTENDS ActorLifecycle, TLC

CONSTANTS lead, crew, member, root, none, i1, i2, i3, i4, nobody, o1, o2

MCIds == {lead, crew, member}
MCTeams == {crew}
MCParent == (lead :> root @@ crew :> lead @@ member :> lead)
MCTeamOf == (lead :> none @@ crew :> none @@ member :> crew)
MCOneEach == (lead :> {i1} @@ crew :> {i2} @@ member :> {i3})
MCTwoForLead == [MCOneEach EXCEPT ![lead] = {i1, i4}]
MCPolicy ==
    (lead :> [mode |-> "retain_session", retainOnFailure |-> FALSE, cascade |-> TRUE]
     @@ crew :> [mode |-> "adaptive", retainOnFailure |-> FALSE, cascade |-> TRUE]
     @@ member :> [mode |-> "persist", retainOnFailure |-> TRUE, cascade |-> FALSE])
=============================================================================
