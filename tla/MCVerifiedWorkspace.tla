------------------------ MODULE MCVerifiedWorkspace ------------------------
(***************************************************************************)
(* VerifiedWorkspace with two files.  A content is worth its number: a     *)
(* file passes its group at 3 and each step below it is one failure.  The  *)
(* reward counts the groups, but is 0 while the file "p" is broken, the    *)
(* hard gate of the code's scorecards.                                     *)
(***************************************************************************)
EXTENDS VerifiedWorkspace, FiniteSets, TLC

MCGrade(w) ==
    LET passed == {p \in Paths : w[p] = 3}
    IN  [groups   |-> [p \in Paths |-> IF w[p] = 3 THEN 1 ELSE 0],
         reward   |-> IF w["p"] < 2 THEN 0 ELSE Cardinality(passed),
         frontier |-> (3 - w["p"]) + (3 - w["q"])]

\* A command can leave "q" out, a tool cannot.
MCEdits == {<<"p", 1>>, <<"q", 2>>, <<"q", 3>>, <<"q", 0>>}

TwoAgents == Permutations(Agents)

MCStarts == {[p |-> 2, q |-> 1], [p |-> 3, q |-> 0]}
=============================================================================
