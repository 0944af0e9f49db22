------------------------------- MODULE RootTurn -------------------------------
(***************************************************************************)
(* A user's turn at the root: Runtime.ts, handleUserTurnWithRecovery,      *)
(* executeUserTurn and runRequiredRootExecution, with the execution tree   *)
(* (executionTree.ts), the loop guard (taskLoop.ts) and the root's state   *)
(* machine, which all turns of a runtime share.                            *)
(*                                                                         *)
(* A call's pc names the await it stands at.  What models and tools answer *)
(* is abstracted to what the turn tells apart: of the tool calls made,     *)
(* whether they changed the workspace and whether a verification of the    *)
(* latest change passed.                                                   *)
(*                                                                         *)
(* How delegation is decided is DelegationDecision's; what a round does    *)
(* inside is left out, and so are messages, conversation, usage and        *)
(* events.  An agent that fails inside its tool loop loses the calls of    *)
(* that loop: they are on record only in the messages of the step, from    *)
(* which the execution cache is written when the step ends.                *)
(***************************************************************************)
EXTENDS DelegationDecision, FiniteSets

CONSTANTS
    Turns,         \* calls of handleUserTurnWithRecovery
    Goals,         \* turn -> the kinds of task it may be given
    Prior,         \* turn -> what the execution cache may hold of such a task
    MaxStepsPerTurn, MaxRounds, ExploratoryRounds,
    Window,        \* maxExecutionClosureAttempts
    MaxStalled,    \* maxStalledIterations
    MaxAttempts    \* attempts at a turn that fails transiently

\* mutation, audit: taskRequiresRootWorkspaceMutation, taskRequiresAcceptanceAudit
\* long: requiresLongHorizonLoop; feedback: containsExternalExecutionFeedback;
\* deferred: the task declares an external verification loop whose first verdict
\* is still to come
Goal == [mutation : BOOLEAN, audit : BOOLEAN, long : BOOLEAN, feedback : BOOLEAN,
         deferred : BOOLEAN]

\* What a sequence of tool calls shows: is there any, did one change the
\* workspace, and how did verification end after the last change?
Evidence == {e \in [calls : BOOLEAN, changed : BOOLEAN, check : {"none", "pass", "fail"}] :
                 e.changed \/ e.check # "none" => e.calls}
NoCalls == [calls |-> FALSE, changed |-> FALSE, check |-> "none"]

ASSUME RootTurnAssumption ==
    /\ Goals \in [Turns -> SUBSET Goal]
    /\ Prior \in [Turns -> SUBSET Evidence]
    /\ MaxStepsPerTurn \in Nat /\ MaxRounds \in Nat \ {0}
    /\ ExploratoryRounds \in Nat \ {0} /\ Window \in Nat \ {0}
    /\ MaxStalled \in Nat \ {0} /\ MaxAttempts \in Nat \ {0}

VARIABLES
    fsm,       \* the root's state machine
    pc,        \* turn -> where it is
    goal,      \* turn -> its task
    tries,     \* turn -> attempts begun
    tree,      \* turn -> status of its execution tree
    steps,     \* turn -> steps in the tree
    open,      \* turn -> the steps that are running
    disk,      \* turn -> status of the tree as last written
    rounds,    \* turn -> delegation rounds
    clock,     \* turn -> "early", "reserve" (execution reserve reached) or "out"
    cache,     \* turn -> the execution cache's record of the task's tool calls
    made,      \* turn -> the calls of the step under way, as its messages tell
    resumed,   \* turn -> the calls it resumed from
    known,     \* turn -> the delegated calls it can see
    flags,     \* turn -> decisions it carries along
    exec,      \* turn -> the state of runRequiredRootExecution
    closure,   \* turn -> requiredExecutionClosure
    \* what really happened
    work,      \* turn -> the workspace: "clean", or "changed" since a verification
               \* last passed, or changed by calls of which no record is left
    shared     \* turn -> was another call in flight during this one?

treeVars == <<tree, steps, open, disk>>
workVars == <<cache, made, resumed, known, exec, closure, work>>
vars == <<fsm, pc, goal, tries, treeVars, rounds, clock, flags, workVars, shared>>

\* FSM.registerDefaultTransitions, the edges of a root turn.
Edges ==
    { <<"solo", "input_received">>, <<"input_received", "assess_task">>,
      <<"assess_task", "solo_reasoning">>, <<"assess_task", "delegate_planning">>,
      <<"solo_reasoning", "respond">>, <<"delegate_planning", "spawn_subagents">>,
      <<"spawn_subagents", "wait_subagents">>, <<"wait_subagents", "synthesize">>,
      <<"wait_subagents", "assess_task">>, <<"assess_task", "synthesize">>,
      <<"synthesize", "respond">>, <<"respond", "turn_done">>, <<"turn_done", "solo">> }

\* The places where a turn awaits a transition: to which state, and what is next.
Moves ==
    [input    |-> <<"input_received", "assess">>,
     assess   |-> <<"assess_task", "decide">>,
     think    |-> <<"solo_reasoning", "answer">>,
     plan     |-> <<"delegate_planning", "spawn">>,
     spawn    |-> <<"spawn_subagents", "round">>,
     wait     |-> <<"wait_subagents", "endRound">>,
     giveUp   |-> <<"wait_subagents", "close">>,
     reassess |-> <<"assess_task", "continue">>,
     handOff  |-> <<"assess_task", "close">>,
     merge    |-> <<"synthesize", "compose">>,
     clarify  |-> <<"solo_reasoning", "endStep">>,
     respond  |-> <<"respond", "deliver">>,
     settle   |-> <<"turn_done", "rest">>,
     rest     |-> <<"solo", "finish">>]

\* The places where a step of the tree is started, and what follows.
Starts == [startAlone |-> "think", startRound |-> "plan", startExec |-> "execute",
           startMerge |-> "merge", startAsk |-> "clarify"]

Working == {"decide", "answer", "round", "endRound", "continue", "execute", "attempt",
            "audit", "executed", "compose", "endStep", "accept", "contract", "deliver",
            "finish", "update"}
Returned == {"done", "failed"}
InFlight(t) == pc[t] \notin {"uncalled"} \cup Returned

Flags == [ask : {"none", "first", "later"}, blocked : BOOLEAN, delegated : BOOLEAN,
          last : {"plain", "handoff", "final"}, plan : Plan]
Execution == [calls : Evidence, tried : BOOLEAN, left : 0..Window, stalled : 0..MaxStalled,
              audit : {"none", "passed", "defect", "unproved"}, invalid : BOOLEAN,
              stuck : BOOLEAN]

NoPlan == Brief(Solve, 0, 0)
Fresh == [ask |-> "none", blocked |-> FALSE, delegated |-> FALSE, last |-> "plain",
          plan |-> NoPlan]
NoExec == [calls |-> NoCalls, tried |-> FALSE, left |-> 0, stalled |-> 0,
           audit |-> "none", invalid |-> FALSE, stuck |-> FALSE]

ReservedSteps(t) == IF goal[t].mutation THEN 2 ELSE 1
MaxSteps(t) == IF MaxStepsPerTurn > ReservedSteps(t) THEN MaxStepsPerTurn
               ELSE ReservedSteps(t) + 1
Goes(t, place) == pc' = [pc EXCEPT ![t] = place]

\* The calls of e and then those of f.
ThenOldChecksStand(e, f) ==
    [calls |-> e.calls \/ f.calls,
     changed |-> e.changed \/ f.changed,
     check |-> IF f.check # "none" THEN f.check ELSE e.check]

Then(e, f) ==
    [calls |-> e.calls \/ f.calls,
     changed |-> e.changed \/ f.changed,
     check |-> IF f.changed \/ f.check # "none" THEN f.check ELSE e.check]

\* analyzeWorkspaceExecutionClosure, but for the acceptance audit.
Verified(e) == e.changed /\ e.check = "pass"

\* The workspace after the calls of f, which may have left no record.
After(w, f, recorded) ==
    IF f.check = "pass" THEN "clean"
    ELSE IF f.changed /\ w # "changed" THEN (IF recorded THEN "changed" ELSE "unseen")
    ELSE w
\* Calls f that are made and recorded.
Works(t, f) ==
    /\ work' = [work EXCEPT ![t] = After(@, f, TRUE)]
    /\ made' = [made EXCEPT ![t] = Then(@, f)]


\* Some calls of a round are reported, others not; in either order, that of the
\* messages m.
WorksAndLoses(t, e, lost, m) ==
    \/ /\ m = Then(e, lost)
       /\ work' = [work EXCEPT ![t] = After(After(@, e, TRUE), lost, FALSE)]
    \/ /\ m = Then(lost, e)
       /\ work' = [work EXCEPT ![t] = After(After(@, lost, FALSE), e, TRUE)]

Init ==
    /\ fsm = "solo"
    /\ pc = [t \in Turns |-> "uncalled"]
    /\ goal \in [Turns -> Goal] /\ \A t \in Turns : goal[t] \in Goals[t]
    /\ tries = [t \in Turns |-> 0]
    /\ tree = [t \in Turns |-> "none"] /\ disk = [t \in Turns |-> "none"]
    /\ steps = [t \in Turns |-> 0] /\ open = [t \in Turns |-> {}]
    /\ rounds = [t \in Turns |-> 0]
    /\ clock = [t \in Turns |-> "early"]
    /\ cache \in [Turns -> Evidence] /\ \A t \in Turns : cache[t] \in Prior[t]
    /\ made = [t \in Turns |-> NoCalls]
    /\ resumed = [t \in Turns |-> NoCalls] /\ known = [t \in Turns |-> NoCalls]
    /\ flags = [t \in Turns |-> Fresh]
    /\ exec = [t \in Turns |-> NoExec]
    /\ closure = [t \in Turns |-> "none"]
    /\ work = [t \in Turns |-> After("clean", cache[t], TRUE)]
    /\ shared = [t \in Turns |-> FALSE]

-----------------------------------------------------------------------------
\* The beginning: a tree, the user's message, the first decision.

\* The local variables of executeUserTurn; nothing was called in its step yet.
Forgets(t) ==
    /\ rounds' = [rounds EXCEPT ![t] = 0]
    /\ clock' = [clock EXCEPT ![t] = "early"]
    /\ made' = [made EXCEPT ![t] = NoCalls]
    /\ resumed' = [resumed EXCEPT ![t] = NoCalls]
    /\ known' = [known EXCEPT ![t] = NoCalls]
    /\ flags' = [flags EXCEPT ![t] = Fresh]
    /\ exec' = [exec EXCEPT ![t] = NoExec]
    /\ closure' = [closure EXCEPT ![t] = "none"]

Begin(t) ==
    /\ pc[t] \in {"uncalled", "retrying"}
    /\ Goes(t, "input")
    /\ tries' = [tries EXCEPT ![t] = @ + 1]
    /\ tree' = [tree EXCEPT ![t] = "running"]
    /\ disk' = [disk EXCEPT ![t] = "running"]
    /\ steps' = [steps EXCEPT ![t] = 0] /\ open' = [open EXCEPT ![t] = {}]
    /\ Forgets(t)
    /\ shared' = [u \in Turns |-> \/ shared[u]
                                  \/ u # t /\ InFlight(u)
                                  \/ u = t /\ \E v \in Turns \ {t} : InFlight(v)]
    /\ UNCHANGED <<fsm, goal, cache, work>>

\* A transition of the root's state machine; it throws where there is no edge.
Legal(t) == <<fsm, Moves[pc[t]][1]>> \in Edges

Transition(t) ==
    /\ pc[t] \in DOMAIN Moves
    /\ \/ Legal(t) /\ fsm' = Moves[pc[t]][1] /\ Goes(t, Moves[pc[t]][2])
       \/ ~Legal(t) /\ Goes(t, "failing") /\ UNCHANGED fsm
    /\ UNCHANGED <<goal, tries, treeVars, rounds, clock, flags, workVars, shared>>

\* findExecutionResumeState: a path of this task is on record.  Whether the texts
\* are alike and whether the path is open or has feedback to act on is left out.
Resumable(t) == cache[t].calls

\* collectResumedToolGrounding: all the calls on record, in their order.
Restored(t) == cache[t]

\* What is cached ends with a change that no verification passed.
Pending(t) == After("clean", cache[t], TRUE) = "changed"

\* The cache is consulted for a long workspace task; a resumed one is not planned
\* anew, but solved by the root or by a recovery team.  A change that was lost is
\* on record again if the resumed calls show one that is open.
Decide(t) ==
    /\ pc[t] = "decide"
    /\ \E d \in FirstBriefs :
           /\ d.long = goal[t].long /\ d.mutation = goal[t].mutation
           /\ d.resume # "none" => Resumable(t)
           /\ resumed' = [resumed EXCEPT ![t] = IF d.resume = "none" THEN @ ELSE Restored(t)]
           /\ work' = [work EXCEPT ![t] =
                  IF @ = "unseen" /\ d.resume # "none" /\ Pending(t) THEN "changed" ELSE @]
           /\ Goes(t, CASE d.brief.action = "solve" -> "startAlone"
                        [] d.brief.action = "spawn" -> "startRound"
                        [] d.brief.action = "ask" -> "startAsk")
           /\ flags' = [flags EXCEPT ![t] =
                  [@ EXCEPT !.plan = d.brief,
                            !.delegated = d.brief.action = "spawn",
                            !.ask = IF d.brief.action = "ask" THEN "first" ELSE flags[t].ask]]
    /\ UNCHANGED <<fsm, goal, tries, treeVars, rounds, clock, cache, made, known, exec,
                   closure, shared>>

\* RootExecutionTreeRegistry.startStep: refused when the tree is full.  What of the
\* plan matters later is whether its round is the last or a guided one.
StartStep(t) ==
    /\ pc[t] \in DOMAIN Starts
    /\ \/ /\ steps[t] < MaxSteps(t)
          /\ steps' = [steps EXCEPT ![t] = @ + 1]
          /\ open' = [open EXCEPT ![t] = @ \cup {steps'[t]}]
          /\ Goes(t, Starts[pc[t]])
       \/ /\ steps[t] >= MaxSteps(t)
          /\ Goes(t, "failing") /\ UNCHANGED <<steps, open>>
    /\ flags' = [flags EXCEPT ![t] =
           [@ EXCEPT !.plan = [NoPlan EXCEPT !.final = flags[t].plan.final,
                                             !.guided = flags[t].plan.guided]]]
    /\ UNCHANGED <<fsm, goal, tries, tree, disk, rounds, clock, workVars, shared>>

\* buildExecutionCacheSnapshot: the calls that the step's messages tell of, the
\* last of them m.
Snapshot(t, m) == Then(made[t], m)

\* The step under way is completed or failed and its snapshot is cached.
EndsStep(t, m) ==
    /\ open' = [open EXCEPT ![t] = @ \ {steps[t]}]
    /\ cache' = [cache EXCEPT ![t] = Then(@, Snapshot(t, m))]
    /\ made' = [made EXCEPT ![t] = NoCalls]
    /\ UNCHANGED <<tree, steps, disk>>

\* The root alone: reasoning, or for a workspace task its own execution.
Answer(t) ==
    /\ pc[t] = "answer"
    /\ Goes(t, IF goal[t].mutation THEN "execute" ELSE "endStep")
    /\ UNCHANGED <<fsm, goal, tries, treeVars, rounds, clock, flags, workVars, shared>>

-----------------------------------------------------------------------------
\* Delegation rounds.

\* A round that ends well: `e' is what it reports; `lost' are the calls of
\* members that failed (best effort) and all those of an evolution; m is all.
RoundEnds(t, e, lost, m, evolved) ==
    /\ pc[t] = "round"
    /\ Goes(t, "wait")
    /\ made' = [made EXCEPT ![t] = Then(@, m)]
    /\ rounds' = [rounds EXCEPT ![t] = @ + 1]
    /\ known' = [known EXCEPT ![t] = Then(@, e)]
    /\ flags' = [flags EXCEPT ![t] =
           [@ EXCEPT !.plan = NoPlan,
                     !.last = IF goal[t].mutation
                                 /\ (e.changed \/ (flags[t].plan.guided /\ ~evolved))
                              THEN "handoff"
                              ELSE IF flags[t].plan.final \/ evolved THEN "final" ELSE "plain"]]
    /\ WorksAndLoses(t, e, lost, m)
    /\ UNCHANGED <<fsm, goal, tries, treeVars, clock, cache, resumed, exec, closure, shared>>

\* A round that throws is recovered from.  The calls of members that finished a
\* tool loop stay in the team's cache; those of single agents are lost to the
\* turn.  Without the focused diagnosis that comes first, no member changes
\* anything.
RoundFails(t, e, lost, m, noDiagnosis) ==
    /\ pc[t] = "round"
    /\ Goes(t, "giveUp")
    /\ known' = [known EXCEPT ![t] = Then(@, e)]
    /\ noDiagnosis => flags[t].plan.guided /\ ~e.changed /\ ~lost.changed
    /\ flags' = [flags EXCEPT ![t] = [@ EXCEPT !.blocked = noDiagnosis, !.plan = NoPlan]]
    /\ rounds' = [rounds EXCEPT ![t] = @ + 1]
    /\ WorksAndLoses(t, e, lost, m)
    /\ EndsStep(t, m)
    /\ UNCHANGED <<fsm, goal, tries, clock, resumed, exec, closure, shared>>

\* RootTaskLoopController.evaluate: time, stalled fingerprints, steps left.
GuardContinuesToTheBrim(t, stalled) ==
    /\ clock[t] # "out" /\ ~stalled
    /\ MaxSteps(t) - steps[t] >= ReservedSteps(t)

GuardContinues(t, stalled) ==
    /\ clock[t] # "out" /\ ~stalled
    /\ MaxSteps(t) - steps[t] > ReservedSteps(t)

HandsOff(t) ==
    /\ goal[t].mutation
    /\ \/ flags[t].last = "handoff"
       \/ clock[t] # "early"
       \/ rounds[t] >= MaxRounds \/ rounds[t] >= ExploratoryRounds

EndRound(t, stalled) ==
    /\ pc[t] = "endRound"
    /\ EndsStep(t, NoCalls)
    /\ Goes(t, IF /\ flags[t].last = "plain" /\ rounds[t] < MaxRounds
                  /\ GuardContinues(t, stalled) /\ ~HandsOff(t)
               THEN "reassess" ELSE "handOff")
    /\ UNCHANGED <<fsm, goal, tries, rounds, clock, flags, resumed, known, exec,
                   closure, work, shared>>

\* decideRootContinuation: another round, a question, or neither.
Continue(t) ==
    /\ pc[t] = "continue"
    /\ \E d \in NextBriefs :
           /\ d.long = goal[t].long /\ d.mutation = goal[t].mutation
           /\ Goes(t, IF d.brief.action = "spawn" THEN "startRound" ELSE "close")
           /\ flags' = [flags EXCEPT ![t] =
                  [@ EXCEPT !.plan = IF d.brief.action = "spawn" THEN d.brief ELSE flags[t].plan,
                            !.ask = IF d.brief.action = "ask" THEN "later" ELSE flags[t].ask]]
    /\ UNCHANGED <<fsm, goal, tries, treeVars, rounds, clock, workVars, shared>>

\* After the rounds: the root's own execution, unless there is a question or the
\* focused diagnosis is missing; then what was resumed decides the closure.
Close(t) ==
    /\ pc[t] = "close"
    /\ LET asks == flags[t].ask # "none"
           blocked == goal[t].mutation /\ flags[t].blocked
       IN /\ flags' = [flags EXCEPT ![t] = [@ EXCEPT !.last = "plain", !.blocked = FALSE]]
          /\ rounds' = [rounds EXCEPT ![t] = 0]
          /\ Goes(t, IF asks THEN "startAsk"
                     ELSE IF goal[t].mutation /\ ~blocked THEN "startExec" ELSE "startMerge")
          /\ closure' = [closure EXCEPT ![t] =
                 IF asks \/ ~blocked THEN @
                 ELSE IF Verified(resumed[t]) THEN "closed" ELSE "open"]
    /\ UNCHANGED <<fsm, goal, tries, treeVars, clock, cache, made, resumed, known, exec,
                   work, shared>>

-----------------------------------------------------------------------------
\* runRequiredRootExecution: attempts until the workspace's change is verified
\* and, where required, accepted.

Accepted(t, x) == ~goal[t].audit \/ (x.audit = "passed" /\ ~x.invalid)
Closed(t, x) == Verified(x.calls) /\ Accepted(t, x)

\* What was delegated may be closed already; new external feedback reopens it.
Execute(t) ==
    /\ pc[t] = "execute"
    /\ LET calls == Then(resumed[t], known[t])
           reuse == Verified(calls) /\ ~goal[t].feedback
       IN /\ exec' = [exec EXCEPT ![t] = [NoExec EXCEPT !.calls = calls, !.left = Window]]
          /\ known' = [known EXCEPT ![t] = NoCalls]
          /\ Goes(t, IF reuse /\ (~goal[t].audit \/ goal[t].deferred) THEN "executed"
                     ELSE IF reuse /\ clock[t] # "out" THEN "audit" ELSE "attempt")
    /\ UNCHANGED <<fsm, goal, tries, treeVars, rounds, clock, flags, cache, made, resumed,
                   closure, work, shared>>

\* The end of a pass through the loop.
Judged(t, x) ==
    IF Closed(t, x) \/ x.stuck THEN "executed" ELSE "attempt"

\* Are there attempts, time and sense left?  An acceptance that is only unproved
\* gives no cause for another change.
LoopsOnUntimed(t) ==
    exec[t].left > 0 /\ ~(Verified(exec[t].calls) /\ exec[t].audit = "unproved")

LoopsOn(t) ==
    /\ exec[t].left > 0
    /\ exec[t].tried => clock[t] # "out"
    /\ ~(Verified(exec[t].calls) /\ exec[t].audit = "unproved")

LeaveLoop(t) ==
    /\ pc[t] = "attempt"
    /\ ~LoopsOn(t)
    /\ Goes(t, "executed")
    /\ UNCHANGED <<fsm, goal, tries, treeVars, rounds, clock, flags, workVars, shared>>

\* One grounded attempt, with calls f.  A change to the workspace opens another
\* window of attempts and voids the last audit; one that shows nothing new ends
\* them, at once if there is anything to show.
Attempt(t, f, advanced) ==
    /\ pc[t] = "attempt"
    /\ LoopsOn(t)
    /\ f.changed \/ f.check = "pass" => advanced
    /\ advanced => f.calls
    /\ LET x == exec[t]
           y == [x EXCEPT !.calls = Then(x.calls, f), !.tried = TRUE,
                          !.left = IF f.changed THEN Window ELSE x.left - 1,
                          !.invalid = x.invalid \/ f.changed,
                          !.stalled = IF advanced THEN 0 ELSE x.stalled + 1,
                          !.stuck = ~advanced /\ (x.calls.calls \/ x.stalled + 1 >= MaxStalled)]
           audits == /\ Verified(y.calls) /\ goal[t].audit
                     /\ y.invalid \/ y.audit = "none"
                     /\ clock[t] # "out"
       IN /\ exec' = [exec EXCEPT ![t] = y]
          /\ Goes(t, IF audits THEN "audit" ELSE Judged(t, y))
    /\ Works(t, f)
    /\ UNCHANGED <<fsm, goal, tries, treeVars, rounds, clock, flags, cache, resumed,
                   known, closure, shared>>

\* runRootAcceptanceAudit, with calls f of its own: it passes only if the calls
\* of all show a passed verification.
Audit(t, f, verdict) ==
    /\ pc[t] = "audit"
    /\ LET x == [exec[t] EXCEPT !.calls = Then(exec[t].calls, f), !.audit = verdict,
                              !.invalid = FALSE]
       IN /\ verdict = "passed" => f.calls /\ Verified(x.calls)
          /\ exec' = [exec EXCEPT ![t] = x]
          /\ Goes(t, Judged(t, x))
    /\ Works(t, f)
    /\ UNCHANGED <<fsm, goal, tries, treeVars, rounds, clock, flags, cache, resumed,
                   known, closure, shared>>

\* The closure of what the execution returns; delegated work is then merged.
Executed(t) ==
    /\ pc[t] = "executed"
    /\ closure' = [closure EXCEPT ![t] =
           IF Verified(exec[t].calls) /\ (~goal[t].audit \/ exec[t].audit = "passed")
           THEN "closed" ELSE "open"]
    /\ IF flags[t].delegated
       THEN EndsStep(t, NoCalls) /\ Goes(t, "startMerge")
       ELSE UNCHANGED <<treeVars, cache, made>> /\ Goes(t, "compose")
    /\ exec' = [exec EXCEPT ![t] =
           IF flags[t].delegated THEN NoExec ELSE [NoExec EXCEPT !.calls = exec[t].calls]]
    /\ UNCHANGED <<fsm, goal, tries, rounds, clock, flags, resumed, known, work, shared>>

-----------------------------------------------------------------------------
\* The answer.

Compose(t) ==
    /\ pc[t] = "compose"
    /\ Goes(t, "endStep")
    /\ UNCHANGED <<fsm, goal, tries, treeVars, rounds, clock, flags, workVars, shared>>

EndStep(t) ==
    /\ pc[t] = "endStep"
    /\ EndsStep(t, NoCalls)
    /\ exec' = [exec EXCEPT ![t] = NoExec]
    /\ Goes(t, "accept")
    /\ UNCHANGED <<fsm, goal, tries, rounds, clock, flags, resumed, known, closure,
                   work, shared>>

\* auditRootResponseAcceptance: a model judges how complete the answer is, unless
\* the turn only asks back; work on the workspace was judged by its closure.
MayBeRejected(t) == ~goal[t].mutation /\ flags[t].ask # "first"

\* enforceRootResponseAcceptance and then enforceExplicitRootOutputContract: the
\* answer may be repaired, in a step of its own if the tree has room for one.
\* A step whose start fails half-way stays open.
Repair(t, needed, stranded) ==
    /\ pc[t] \in {"accept", "contract"}
    /\ needed /\ pc[t] = "accept" => MayBeRejected(t)
    /\ LET tracked == needed /\ steps[t] < MaxSteps(t)
       IN /\ stranded => tracked
          /\ steps' = [steps EXCEPT ![t] = IF tracked THEN @ + 1 ELSE @]
          /\ open' = [open EXCEPT ![t] = IF stranded THEN @ \cup {steps'[t]} ELSE @]
    /\ Goes(t, IF pc[t] = "accept" THEN "contract" ELSE "respond")
    /\ UNCHANGED <<fsm, goal, tries, tree, disk, rounds, clock, flags, workVars, shared>>

\* The response is sent and recorded, marked if the closure is open.
Deliver(t) ==
    /\ pc[t] = "deliver"
    /\ Goes(t, "settle")
    /\ UNCHANGED <<fsm, goal, tries, treeVars, rounds, clock, flags, workVars, shared>>

Finish(t) ==
    /\ pc[t] = "finish"
    /\ tree' = [tree EXCEPT ![t] = IF @ = "failed" THEN @ ELSE "completed"]
    /\ \/ disk' = [disk EXCEPT ![t] = tree'[t]] /\ Goes(t, "update")
       \/ disk' = [disk EXCEPT ![t] = "unwritten"] /\ Goes(t, "failing")
    /\ UNCHANGED <<fsm, goal, tries, steps, open, rounds, clock, flags, workVars, shared>>

\* proposeMemoryUpdates, then the result.
Return(t) ==
    /\ pc[t] = "update"
    /\ Goes(t, "done")
    /\ UNCHANGED <<fsm, goal, tries, treeVars, rounds, clock, flags, workVars, shared>>

-----------------------------------------------------------------------------
\* Failures, retries and time.

\* Where a model or a tool answers, a failure of its transport is transient.
Transient == {"decide", "answer", "continue", "execute", "attempt", "audit",
              "compose", "accept", "contract"}

\* The exception takes what the call knew with it: what the cache does not say
\* of a change is no longer on record.
Fail(t, transient) ==
    /\ InFlight(t)
    /\ pc[t] \notin {"failing", "failingTransiently", "resetting", "resettingTransiently",
                     "retrying"}
    /\ transient => pc[t] \in Transient
    /\ Goes(t, IF transient THEN "failingTransiently" ELSE "failing")
    /\ Forgets(t)
    /\ work' = [work EXCEPT ![t] =
           IF @ = "changed" /\ ~Pending(t) THEN "unseen" ELSE @]
    /\ UNCHANGED <<fsm, goal, tries, treeVars, cache, shared>>

\* A running tree of which no step is open is taken for finished.
RecoverOpenStepsOnly(t) ==
    /\ pc[t] \in {"failing", "failingTransiently"}
    /\ Goes(t, IF pc[t] = "failing" THEN "resetting" ELSE "resettingTransiently")
    /\ IF tree[t] = "running" /\ open[t] # {}
       THEN /\ tree' = [tree EXCEPT ![t] = "failed"]
            /\ open' = [open EXCEPT ![t] = {n \in @ : \E m \in @ : m > n}]
            /\ disk' = [disk EXCEPT ![t] = "failed"]
       ELSE UNCHANGED <<tree, open, disk>>
    /\ UNCHANGED <<fsm, goal, tries, steps, rounds, clock, flags, workVars, shared>>

\* recoverFailedRootTurn: a running tree fails, with its last open step; the
\* write of that tree may fail as well.
Recover(t) ==
    /\ pc[t] \in {"failing", "failingTransiently"}
    /\ Goes(t, IF pc[t] = "failing" THEN "resetting" ELSE "resettingTransiently")
    /\ IF tree[t] = "running"
       THEN /\ tree' = [tree EXCEPT ![t] = "failed"]
            /\ open' = [open EXCEPT ![t] = {n \in @ : \E m \in @ : m > n}]
            /\ disk' \in {[disk EXCEPT ![t] = "failed"], [disk EXCEPT ![t] = "unwritten"]}
       ELSE UNCHANGED <<tree, open, disk>>
    /\ UNCHANGED <<fsm, goal, tries, steps, rounds, clock, flags, workVars, shared>>

\* The machine is reset, whoever else may be using it; then the caller gets the
\* error, or the turn is tried again.
Reset(t) ==
    /\ pc[t] \in {"resetting", "resettingTransiently"}
    /\ fsm' = "solo"
    /\ Goes(t, IF pc[t] = "resettingTransiently" /\ tries[t] < MaxAttempts
               THEN "retrying" ELSE "failed")
    /\ UNCHANGED <<goal, tries, treeVars, rounds, clock, flags, workVars, shared>>

\* The wall clock of the turn, where it spends its time.
Tick(t) ==
    /\ pc[t] \in {"round", "continue", "attempt", "audit"}
    /\ goal[t].mutation /\ clock[t] # "out"
    /\ clock' = [clock EXCEPT ![t] = IF @ = "early" THEN "reserve" ELSE "out"]
    /\ UNCHANGED <<fsm, pc, goal, tries, treeVars, rounds, flags, workVars, shared>>

\* No call is under way.
Rest ==
    /\ \A t \in Turns : ~InFlight(t)
    /\ UNCHANGED vars

\* Where no change is asked for, nobody looks at the calls.
Reports(t) == IF goal[t].mutation THEN Evidence ELSE {NoCalls}

Delegates(t) ==
    \/ pc[t] = "round" /\ \E e, lost \in Reports(t) : \E m \in {Then(e, lost), Then(lost, e)} :
           \/ \E evolved \in BOOLEAN : RoundEnds(t, e, lost, m, evolved)
           \/ \E noDiagnosis \in BOOLEAN : RoundFails(t, e, lost, m, noDiagnosis)
    \/ \E stalled \in BOOLEAN : EndRound(t, stalled)
    \/ Continue(t)
    \/ Close(t)

Executes(t) ==
    \/ Execute(t)
    \/ LeaveLoop(t)
    \/ pc[t] = "attempt" /\ \E f \in Evidence : \E advanced \in BOOLEAN :
           Attempt(t, f, advanced)
    \/ pc[t] = "audit" /\ \E f \in Evidence : \E verdict \in {"passed", "defect", "unproved"} :
           Audit(t, f, verdict)
    \/ Executed(t)

Concludes(t) ==
    \/ Compose(t) \/ EndStep(t)
    \/ \E needed \in BOOLEAN : \E stranded \in BOOLEAN : Repair(t, needed, stranded)
    \/ Deliver(t) \/ Finish(t) \/ Return(t)
    \/ Recover(t) \/ Reset(t)

Proceeds(t) ==
    \/ Begin(t) \/ Transition(t) \/ Decide(t) \/ StartStep(t) \/ Answer(t)
    \/ Delegates(t) \/ Executes(t) \/ Concludes(t)

Next ==
    \/ \E t \in Turns :
           \/ Proceeds(t)
           \/ \E transient \in BOOLEAN : Fail(t, transient)
           \/ Tick(t)
    \/ Rest

\* Every await ends and time passes.
Fairness == \A t \in Turns : WF_vars(Proceeds(t)) /\ WF_vars(Tick(t))

Spec == Init /\ [][Next]_vars
FairSpec == Spec /\ Fairness

-----------------------------------------------------------------------------
Places == {"uncalled", "retrying", "failing", "failingTransiently", "resetting",
           "resettingTransiently", "close"} \cup Returned \cup Working
          \cup DOMAIN Moves \cup DOMAIN Starts

\* Every variable keeps its type.
TypeOK ==
    /\ fsm \in {e[1] : e \in Edges}
    /\ pc \in [Turns -> Places]
    /\ goal \in [Turns -> Goal]
    /\ tries \in [Turns -> 0..MaxAttempts]
    /\ tree \in [Turns -> {"none", "running", "completed", "failed"}]
    /\ disk \in [Turns -> {"none", "running", "completed", "failed", "unwritten"}]
    /\ steps \in [Turns -> Nat] /\ open \in [Turns -> SUBSET Nat]
    /\ \A t \in Turns : steps[t] \in 0..MaxSteps(t) /\ open[t] \subseteq 1..steps[t]
    /\ rounds \in [Turns -> 0..MaxRounds]
    /\ clock \in [Turns -> {"early", "reserve", "out"}]
    /\ cache \in [Turns -> Evidence] /\ made \in [Turns -> Evidence]
    /\ resumed \in [Turns -> Evidence] /\ known \in [Turns -> Evidence]
    /\ flags \in [Turns -> Flags] /\ exec \in [Turns -> Execution]
    /\ closure \in [Turns -> {"none", "closed", "open"}]
    /\ work \in [Turns -> {"clean", "changed", "unseen"}] /\ shared \in [Turns -> BOOLEAN]

\* Reported as done: a workspace task was answered without the notice that its
\* closure is unmet, and not with a question.
Claimed(t) == /\ pc[t] = "done" /\ goal[t].mutation
              /\ flags[t].ask = "none" /\ closure[t] # "open"

\* A workspace task is reported as done only if a verification passed at or
\* after the last change that any actor of the turn put on record: the root, the
\* agents of a round, failed ones included, the audit, or an earlier attempt.
ClaimsAreVerified == \A t \in Turns : Claimed(t) => work[t] # "changed"

\* README.md:82-84: "Workspace mutations close only when a successful
\* verification occurs at or after the latest successful mutation; an older
\* passing check is never reused as proof for newer state."
NeverReusesAnOlderCheck == \A t \in Turns : Claimed(t) => work[t] = "clean"

\* The rounds leave room for the steps that must follow: no turn fails because
\* its tree is full.
RoomToFinish == \A t \in Turns : pc[t] \in DOMAIN Starts => steps[t] < MaxSteps(t)

\* A long-horizon task on the workspace begins with a team as long as the root may
\* have a child, unless it is resumed or answers the model's question itself; and
\* whatever was proposed, reduced to a budget, filtered and scored, any of its
\* teams that has room for three members runs them in order, with a verifier
\* after an implementer.
LongTasksAreStaged ==
    \A t \in Turns : goal[t].long /\ goal[t].mutation =>
        /\ pc[t] \in {"startAlone", "startAsk"} /\ rounds[t] = 0 /\ flags[t].plan.open =>
               resumed[t].calls \/ flags[t].plan.answer
        /\ pc[t] = "startRound" /\ flags[t].plan.wide /\ TeamFirst => flags[t].plan.staged

\* When a call returns or is about to be retried its tree is closed, in memory
\* and, unless that very write failed, on disk.
SettledTrees ==
    \A t \in Turns :
        /\ pc[t] \in Returned \cup {"retrying"} =>
               tree[t] \in {"completed", "failed"} /\ disk[t] \in {tree[t], "unwritten"}
        /\ pc[t] = "done" => tree[t] = "completed" /\ disk[t] = tree[t]

\* However turns overlapped and failed, once none is under way the state
\* machine they share is where the next turn must find it.
IdleMeansSolo == (\A t \in Turns : pc[t] \in Returned \cup {"uncalled"}) => fsm = "solo"

\* A turn that has the runtime for itself never asks for a transition its state
\* machine does not have, on any path.
LoneTurnsMove == \A t \in Turns : pc[t] \in DOMAIN Moves /\ ~shared[t] => Legal(t)

\* A turn ends: the loops of rounds and of attempts, which every change to the
\* workspace extends, are bounded by the clock.
EveryTurnEnds == \A t \in Turns : InFlight(t) ~> pc[t] \in Returned

=============================================================================
