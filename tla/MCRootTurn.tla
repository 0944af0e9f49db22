------------------------------ MODULE MCRootTurn ------------------------------
(***************************************************************************)
(* Instances of RootTurn: one turn with any kind of task, resumed or not,  *)
(* and two questions that overlap on one runtime.                          *)
(***************************************************************************)
EXTENDS RootTurn, TLC

CONSTANTS task, question

Question == [mutation |-> FALSE, audit |-> FALSE, long |-> FALSE, feedback |-> FALSE,
             deferred |-> FALSE]
Task == [Question EXCEPT !.mutation = TRUE]
VerifiedWork == [calls |-> TRUE, changed |-> TRUE, check |-> "pass"]

OneTurn == {task}
LongTask == [Task EXCEPT !.long = TRUE, !.audit = TRUE]
OneGoals == task :> {Question, [Question EXCEPT !.long = TRUE, !.audit = TRUE],
                     Task, [Task EXCEPT !.feedback = TRUE], LongTask,
                     [LongTask EXCEPT !.deferred = TRUE]}
OnePrior == task :> {VerifiedWork}

\* One to three members: custom ones, one without the tools it needs, and
\* phases missing, doubled and out of order.
Researcher == Regular(0, TRUE)
Coder == Regular(1, TRUE)
Tester == Regular(2, FALSE)
Custom == [Researcher EXCEPT !.custom = TRUE]
SomeProposals == { <<Coder>>, <<Custom>>, <<Custom, Tester>>, <<Tester, Coder>>,
                   <<Tester, Tester, Custom>>, <<Custom, Researcher, Tester>> }

TwoTurns == {task, question}
TwoGoals == [t \in TwoTurns |-> {Question}]
TwoPrior == [t \in TwoTurns |-> {NoCalls}]

=============================================================================
