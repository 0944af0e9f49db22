---------------------------- MODULE MCActorBudgets ----------------------------
(* Small instances of ActorBudgets for TLC. *)
EXTENDS ActorBudgets

CONSTANTS agent, root, team

ABid(tokens, minimum, score) == [tokens |-> tokens, minimum |-> minimum, score |-> score]

\* A modest bid, a large one that comes first in the order of the scores, and two
\* that arrive together.
MCBatches == {<<ABid(1, 1, 1)>>, <<ABid(2, 3, 1), ABid(3, 1, 1)>>}

MCLimits == {2, 4}
MCOpenLimits == {NoLimit, 2, 4}

OneAgent == {agent}
OneRoot == {root}
OneTeam == {team}
=============================================================================
