--------------------------- MODULE GroundingLoop ---------------------------
(***************************************************************************)
(* How actors, one after the other, work on one workspace through tools:   *)
(* the loop of plan, call and observe (core/tools/executionLoop.ts), the   *)
(* planning around it (core/runtime/Runtime.ts, runGroundingCheck, with    *)
(* the rules of core/tools/planner.ts and executionIntent.ts) and the      *)
(* closure loop of runAgent, which begins another grounding run until the  *)
(* change is made and verified or nothing moves any more.                  *)
(*                                                                         *)
(* All decisions are taken from the log of the calls made so far, the      *)
(* calls of earlier actors included.  A call is a tool, a path and an      *)
(* outcome; what the text of a task or a model's answer makes of a plan is *)
(* a choice among the plans that the rules let through.  The verifier is   *)
(* the command the task declares; a model may ask for any other command,   *)
(* which changes the workspace without a checkpoint.  A run that throws    *)
(* takes its calls with it: the actors after it do not see them.           *)
(***************************************************************************)
EXTENDS Integers, FiniteSets, FiniteSetsExt, SequencesExt

CONSTANTS Sources,        \* the source files
          Manifests,      \* those that declare dependencies
          Grader,         \* the source of the verifier, which nothing may change
          NoPath,         \* the path of a shell command; no external feedback
          MaxRounds, MaxRunCalls, MaxFailures,   \* executionLoop configuration
          ShellLimit,     \* maxCalls of an actor's shell.exec binding
          NoGainLimit,    \* attemptLimit of workspaceTargetNeedsFreshNoGainEvidence
          MaxLog,         \* bound: calls in a behaviour
          MaxLoopFaults,  \* bound: reads, changes and commands that fail
          MaxActors       \* bound: actors in a behaviour

ASSUME NoPathIsNone == NoPath \notin Sources \cup {Grader}
ASSUME GraderIsApart == Grader \notin Sources
ASSUME ManifestsAreSources == Manifests \subseteq Sources
ASSUME LimitsAreNaturals ==
    /\ MaxRounds \in Nat \ {0} /\ MaxRunCalls \in Nat \ {0}
    /\ MaxFailures \in Nat \ {0} /\ ShellLimit \in Nat
    /\ NoGainLimit \in Nat \ {0}
    /\ MaxLog \in Nat /\ MaxLoopFaults \in Nat /\ MaxActors \in Nat

VARIABLES log,     \* the tool calls made so far, by every actor, as they are passed on
          actor,   \* the actor at work
          run,     \* its grounding run
          saved    \* the files with a checkpoint: their paths, and if it has a baseline

loopVars == <<log, actor, run, saved>>

Kinds == {"builder", "tester", "prober"}
Shell == {"verify", "install", "probe", "command"}
Files == Sources \cup {Grader}

Plan(t, p) == [tool |-> t, path |-> p]
Verification == Plan("verify", NoPath)
Install == Plan("install", NoPath)
Probe == Plan("probe", NoPath)
\* A shell command that counts as a change of the workspace.
Command == Plan("command", NoPath)

(***************************************************************************)
(* Reading the log.  Outcomes of a verification: it passed; it failed      *)
(* (path: the source its output names); it timed out, its tool is missing  *)
(* or the call was refused before it ran; or it brought a scorecard that   *)
(* is not perfect.  With that the candidate of a path was accepted, or there  *)
(* was none (graded); it was retained for what it improved (kept) or for   *)
(* nothing at all (idle); it was rolled back, for nothing (rolledback),    *)
(* though some group improved (traded), or though it passed, like the      *)
(* baseline (restored).  A synthesis can be rejected before it writes.     *)
(***************************************************************************)
Graded == {"graded", "kept", "idle", "rolledback", "traded"}
Succeeded(x) == x.outcome \in {"ok", "applied", "passed", "restored"} \cup Graded
IsMutation(x) == x.tool \in {"mutate", "command"} /\ Succeeded(x)
IsVerify(x) == x.tool = "verify"
Probed(x) == x.tool = "probe" /\ Succeeded(x)
Installed(x) == x.tool = "install" /\ Succeeded(x)
Passed(x) == x.outcome \in {"passed", "restored"}
RolledBack(x) == x.outcome \in {"rolledback", "traded", "restored"}
IsScored(x) == Passed(x) \/ x.outcome \in Graded

Indices(c, T(_)) == {i \in DOMAIN c : T(c[i])}
Latest(S) == IF S = {} THEN 0 ELSE Max(S)
After(i, S) == {j \in S : j > i}

\* The members of a sequence for which T holds, in their order: SelectSeq, which
\* the provers do not know, as a recursive function.
At(s, I) ==
    LET upTo[i \in 0..Len(s)] ==
          IF i = 0 THEN <<>>
          ELSE IF i \in I THEN Append(upTo[i - 1], s[i]) ELSE upTo[i - 1]
    IN  upTo[Len(s)]
Sift(s, T(_)) == At(s, Indices(s, T))

\* effectiveWorkspaceMutationCallIndices: a roll-back undoes the latest change
\* that is still there among those of its path and those of shell commands.
Effective(c) ==
    LET undone(there, i) ==
          Latest({k \in there : c[k].tool = "command" \/ c[k].path = c[i].path})
        upTo[i \in 0..Len(c)] ==
          IF i = 0 THEN {}
          ELSE IF IsMutation(c[i]) THEN upTo[i - 1] \cup {i}
          ELSE IF RolledBack(c[i]) THEN upTo[i - 1] \ {undone(upTo[i - 1], i)}
          ELSE upTo[i - 1]
    IN  upTo[Len(c)]

Mutates(plan) == plan.tool \in {"mutate", "command"}

\* Faults: any verification counts for the change, whenever it was made; only
\* a call that succeeded is not repeated; nothing is without gain.
PendingVerifierOnce(c) == Effective(c) # {} /\ Indices(c, IsVerify) = {}
CachedSuccess(c, plan) ==
    LET equal(x) == x.tool = plan.tool /\ x.path = plan.path /\ Succeeded(x)
    IN  ~Mutates(plan) /\ Indices(c, equal) # {}
GainingAll(c, plans) == plans

\* planPostMutationVerification: the latest change has not been tried, or
\* it failed and what it needs has been installed since.
PendingVerifier(c) ==
    LET m == Latest(Effective(c))
        tried == After(m, Indices(c, IsVerify))
        failed == {i \in tried : ~Passed(c[i])}
        installed == After(Latest(failed), Indices(c, Installed))
    IN  /\ m > 0
        /\ IF failed = {} THEN tried = {}
           ELSE installed # {} /\ After(Latest(installed), tried) = {}

\* latestRejectedVerifierCandidate: its path, or NoPath.
RejectedCandidate(c) ==
    LET answer(x) == IsMutation(x) \/ Probed(x)
        r == Latest(Indices(c, RolledBack))
    IN  IF r > Latest(Indices(c, answer)) THEN c[r].path ELSE NoPath

\* latestUnresolvedSynthesisRejection: its path, or NoPath.
RejectedSynthesis(c) ==
    LET rejection(x) == x.outcome = "rejected"
        evidence(x) == IsMutation(x) \/ (Succeeded(x) /\ x.tool \in {"read", "probe"})
        r == Latest(Indices(c, rejection))
    IN  IF r > Latest(Indices(c, evidence)) THEN c[r].path ELSE NoPath

ReadOf(c, p) == LET read(x) == x.tool = "read" /\ x.path = p /\ Succeeded(x)
                IN  Latest(Indices(c, read))

\* workspaceTargetNeedsFreshNoGainEvidence: candidates of the path were rolled back
\* without any gain and none elsewhere has brought one since; or they were retained
\* without any, and it and the verifier were not both read since.
Fruitless(x, p) == x.outcome \in {"rolledback", "restored"} /\ x.path = p
Idled(x, p) == x.outcome = "idle" /\ x.path = p
NoGain(c, p) ==
    LET fruitless(x) == Fruitless(x, p)
        idled(x) == Idled(x, p)
        progress(x) == x.outcome = "kept" /\ x.path # p
        R == Indices(c, fruitless)
        K == Indices(c, idled)
    IN  \/ /\ Cardinality(R) >= NoGainLimit
           /\ After(Latest(R), Indices(c, progress)) = {}
        \/ /\ Cardinality(R) < NoGainLimit
           /\ Cardinality(K) >= NoGainLimit
           /\ \E f \in {p, Grader} : ReadOf(c, f) <= Latest(K)

NoMutation(plans) == Sift(plans, LAMBDA plan : ~Mutates(plan))
Gaining(c, plans) ==
    Sift(plans, LAMBDA plan : plan.tool = "mutate" => ~NoGain(c, plan.path))
SingleMutation(plans) ==
    LET first == SelectInSeq(plans, Mutates)
    IN  SubSeq(plans, 1, first)
          \o NoMutation(SubSeq(plans, first + 1, Len(plans)))

\* The latest call with the plan's fingerprint; every change has its own.
Previous(c, plan) ==
    LET equal(x) == x.tool = plan.tool /\ (plan.tool = "read" => x.path = plan.path)
    IN  IF Mutates(plan) THEN 0 ELSE Latest(Indices(c, equal))

\* workspaceMutationTouchesPath
Touching(c, p) == {j \in Effective(c) : c[j].tool = "command" \/ c[j].path = p}

\* cachedToolPlanDecision: an equal call was made and no later change that is still
\* there made it stale.  A verification that timed out is stale at once.
Cached(c, plan) ==
    LET i == Previous(c, plan)
        declaring == {j \in Effective(c) : c[j].path \in Manifests}
    IN  i > 0 /\ CASE plan.tool = "read" -> After(i, Touching(c, plan.path)) = {}
                   [] IsVerify(plan) -> /\ c[i].outcome # "timedout"
                                        /\ After(i, Effective(c)) = {}
                   [] plan = Install -> Succeeded(c[i]) /\ After(i, declaring) = {}
                   [] OTHER -> Succeeded(c[i])

(***************************************************************************)
(* The planner.  A set of plan sequences stands for what it may return:    *)
(* which of them depends on texts the model does not keep, and the empty   *)
(* sequence, where it is a member, hands over to the next rule.            *)
(***************************************************************************)
Nothing == {<<>>}
OrElse(A, B) == (A \ Nothing) \cup (IF <<>> \in A THEN B ELSE {})
Reads(P) == {<<Plan("read", p)>> : p \in P}
Mutations(P) == {<<Plan("mutate", p)>> : p \in P}

LatestFailure(c) ==
    LET failure(x) == x.tool \in Shell
                      /\ ~(IF IsVerify(x) THEN Passed(x) ELSE Succeeded(x))
    IN  Latest(Indices(c, failure))

\* extractFailureLocations: its output names a source.
NamesSource(x) == IsVerify(x) /\ x.outcome = "failed"

\* A verification, since the latest change, that names a source.
Localized(c) == After(Latest(Effective(c)), Indices(c, NamesSource))

\* planEnvironmentRecovery
EnvironmentRecovery(c) ==
    LET f == LatestFailure(c)
    IN  IF /\ f > 0 /\ c[f].outcome = "missing"
           /\ {i \in Localized(c) : i < f} = {}
           /\ After(f, Indices(c, Installed)) = {}
        THEN {<<Install>>} ELSE Nothing

\* Asked for since call i, successfully or not, and nothing was changed since.
Asked(c, plan, i) ==
    LET equal(x) == x.tool = plan.tool /\ x.path = plan.path
        asked == Latest(After(i, Indices(c, equal)))
    IN  asked > 0 /\ After(asked, Indices(c, IsMutation)) = {}

\* planWorkspaceFailureFollowUps: read the source the failure names.
FailureFollowUps(c) ==
    LET S == {i \in Localized(c) : i <= LatestFailure(c)}
        p == c[Latest(S)].path
    IN  IF S # {} /\ ~Asked(c, Plan("read", p), Latest(S)) THEN Reads({p}) ELSE Nothing

\* latestRollbackForCurrentWorkspace: the path of the latest candidate that was
\* rolled back, or NoPath when the workspace was changed since.
LatestRollback(c) ==
    LET r == Latest(Indices(c, RolledBack))
    IN  IF r > Latest(Indices(c, IsMutation)) THEN c[r].path ELSE NoPath

\* The installer cannot resolve a dependency that a manifest which was read
\* declares: read it again when it changed since, repair it otherwise.
ManifestRepair(c) ==
    LET changed(p) == Latest({i \in Indices(c, IsMutation) : c[i].path = p})
        observed == {p \in Manifests : ReadOf(c, p) > 0}
        stale == {p \in observed : changed(p) > ReadOf(c, p)}
    IN  IF c[LatestFailure(c)].tool # "install" THEN Nothing
        ELSE Nothing \cup Reads(stale) \cup Mutations(observed \ stale)

\* The sources read after call i and since the latest change.
ReadSince(c, i) == {p \in Sources : ReadOf(c, p) > Max({i, Latest(Effective(c))})}

\* The failure names a source, and it (or the definition the failure is about)
\* was read since.
LocalRepair(c) == Nothing \cup Mutations(ReadSince(c, Latest(Localized(c))))

\* It names none, or the candidate was rolled back: the sources that were read
\* since (before, after a roll-back) with the verifier's own.
StructuralRepair(c) ==
    LET from == IF LatestRollback(c) = NoPath THEN LatestFailure(c) ELSE 0
    IN  Nothing \cup Mutations(ReadSince(c, from))

\* The failure, or a scorecard that is not perfect (verifierScorecardState), is
\* newer than the latest change.
Unsolved(c) ==
    LET f == LatestFailure(c)
    IN  /\ IsVerify(c[f]) /\ c[f].outcome \notin {"missing", "refused"}
        /\ f > Latest(Effective(c))

\* planWorkspaceRepairTransition
RepairTransition(c) ==
    LET repair == IF ~Unsolved(c) THEN Nothing
                  ELSE IF LatestRollback(c) = NoPath /\ Localized(c) # {} THEN LocalRepair(c)
                  ELSE StructuralRepair(c)
    IN  IF LatestFailure(c) = 0 THEN Nothing ELSE OrElse(ManifestRepair(c), repair)

\* Before an external feedback is answered: a manifest nobody read, the side of a
\* failed import that the run changed since it was read.
FeedbackEvidence(c, changed) ==
    LET unread == {q \in Sources : ReadOf(c, q) = 0}
        stale == {q \in Sources : changed[q] > ReadOf(c, q)}
    IN  Nothing \cup Reads(unread \cup stale)

\* planExternalFeedbackRepair: a source that the feedback is about, read since
\* the run itself changed it (c ends with the run's own calls).
ExternalRepair(c, own, p) ==
    LET before == Len(c) - Len(own)
        made(q) == {i \in Indices(own, IsMutation) : own[i].path = q}
        changed == [q \in Sources |-> IF made(q) = {} THEN 0 ELSE before + Max(made(q))]
        current == {q \in Sources : ReadOf(c, q) > changed[q]}
    IN  IF p = NoPath THEN Nothing
        ELSE OrElse(FeedbackEvidence(c, changed), Nothing \cup Mutations(current))

\* planWorkspaceEvidenceFollowUps
Evidence(c) == Nothing \cup Reads({p \in Files : ReadOf(c, p) = 0})

\* A source that was read and has no change that is still there; after a change
\* that was undone, only when the verifier has failed since.
Unimplemented(c, p) ==
    LET failed(x) == IsVerify(x) /\ ~Passed(x)
        attempt == Latest({i \in Indices(c, IsMutation) : c[i].path = p})
    IN  /\ ReadOf(c, p) > 0
        /\ {i \in Effective(c) : c[i].path = p} = {}
        /\ attempt = 0 \/ After(attempt, Indices(c, failed)) # {}

\* planGroundedImplementationTransition
ImplementationTransition(c) ==
    Nothing \cup Mutations({p \in Sources : Unimplemented(c, p)})

\* countGroundedContractMatches and the like score the sources that were read: any
\* may be the best.
BestTargets(c) == {p \in Sources : ReadOf(c, p) > 0}

\* rankGroundedSynthesisTargets, without those that brought no gain.
GroundedTargets(c) == {p \in BestTargets(c) : ~NoGain(c, p)}

\* recoverGroundedSynthesisPlan: the best target, or nothing when it is the one
\* that was rolled back last.
GroundedSynthesis(c) ==
    LET r == Latest(Indices(c, RolledBack))
        rejected == IF r = 0 THEN {} ELSE {c[r].path}
    IN  Nothing \cup Mutations(GroundedTargets(c) \ rejected)

\* planGroundedExecutionTransition
ExecutionTransition(c) ==
    IF Effective(c) # {} THEN Nothing ELSE GroundedSynthesis(c)

\* shouldSuppressRepeatedPlannedCall
Repeated(c, plan) ==
    LET i == Previous(c, plan)
    IN  i > 0 /\ (plan.tool \in {"read", "verify"} => After(i, Effective(c)) = {})

(***************************************************************************)
(* planNextToolRound: what it lets through of a model's answer.            *)
(***************************************************************************)
LastVerify(c) == Latest(Indices(c, IsVerify))
Verified(c) == LastVerify(c) > Latest(Effective(c)) /\ Passed(c[LastVerify(c)])
Unverified(c) == LastVerify(c) > Latest(Effective(c)) /\ ~Passed(c[LastVerify(c)])

\* alignSynthesisRepairTargetWithFailure: the change may be moved to a file that the
\* failure is about; it is of a path that is not without gain.
Changes(c) == Mutations({p \in Sources : ~NoGain(c, p)})

\* What can be read out of an answer, a truncated or prosaic one included
\* (recoverCompleteToolPlanningResponse, recoverProseToolPlanningResponse); an
\* answer that cannot be read is the empty plan.
Proposals == {Plan("read", p) : p \in Files} \cup {Verification}

\* Calls that are not repeated, with one change at most, of a file or by a command:
\* a call before it, or the verifier after it.
Answers(c, withChanges) ==
    LET novel == {x \in Proposals : ~Repeated(c, x)}
        changes == {<<Command>>} \cup IF withChanges THEN Changes(c) ELSE {}
        others == {<<x>> : x \in novel}
    IN  Nothing \cup others \cup changes
          \cup {x \o y : x \in others, y \in changes}
          \cup {y \o <<Verification>> : y \in IF Verification \in novel THEN changes ELSE {}}

\* isDestructiveRepairOverwrite: a change that would overwrite a file that works is
\* dropped, or made exact (convertObservedOverwriteToExactReplace).
KeptOrDropped(changes) == {changes, <<>>}

\* After a failed verification: the change, or else the inspections.
Focused(c, plans) ==
    LET reads(plan) == plan.tool = "read"
        inspected == {i \in DOMAIN c : c[i].tool = "read" /\ Succeeded(c[i])}
        changes == Sift(plans, Mutates)
        inspections == Sift(plans, reads)
    IN  IF After(LastVerify(c), inspected) = {}
        THEN {IF changes # <<>> THEN changes ELSE SubSeq(inspections, 1, Min({1, Len(inspections)}))}
        ELSE {IF kept = <<>> THEN inspections ELSE kept : kept \in KeptOrDropped(changes)}

\* Those of the plans S that move an execution task on.
Advancing(c, S) ==
    LET advances(plan) ==
          Mutates(plan) \/ IF Effective(c) # {} /\ ~Unverified(c) THEN IsVerify(plan)
                          ELSE plan.tool = "read"
    IN  {plans \in S : \E plan \in Range(plans) : advances(plan)}

\* recoverPostMutationVerificationPlan
RecoveredVerification(c) ==
    LET m == Latest(Effective(c))
    IN  IF m > 0 /\ LastVerify(c) < m /\ LastVerify(c) > 0 THEN {<<Verification>>} ELSE Nothing

\* What planNextToolRound falls back on when no answer moves the task on.
Recovered(c) ==
    OrElse(RecoveredVerification(c),
           IF Effective(c) = {} \/ Unverified(c) THEN GroundedSynthesis(c) ELSE Nothing)

ModelPlans(c, kind) ==
    CASE kind = "tester" -> {plans \in Answers(c, FALSE) : Len(plans) < 2}
      [] kind = "builder" /\ Effective(c) # {} /\ Verified(c) -> Nothing
      [] kind = "builder" /\ ~(Effective(c) # {} /\ Verified(c)) ->
           LET focused == IF ~Unverified(c) THEN Answers(c, TRUE)
                          ELSE UNION {Focused(c, plans) : plans \in Answers(c, TRUE)}
           IN  Advancing(c, focused) \cup Recovered(c)
      [] OTHER -> Nothing

(***************************************************************************)
(* What a grounding run sees: the calls of the actors before it and of the *)
(* actor itself, or the actor's own only.                                  *)
(***************************************************************************)
From(i) == SubSeq(log, i + 1, Len(log))
View == From(run.view)
RunCalls == From(run.from)
Own == From(actor.from)

\* rejectedCandidateIsSuperseded
Standing(path) ==
    IF actor.feedback \in {NoPath, path} THEN path ELSE NoPath
Rejected ==
    LET own == RejectedCandidate(RunCalls)
    IN  IF own # NoPath THEN own ELSE Standing(RejectedCandidate(View))

Builder == actor.kind = "builder"

(***************************************************************************)
(* Planning before the first call (runGroundingCheck).                     *)
(***************************************************************************)
\* pendingAuthoritativeVerifierPlan
Barrier(c) == IF PendingVerifier(c) THEN {<<Verification>>} ELSE Nothing

Regrounded(c, plans) ==
    IF RejectedSynthesis(c) = NoPath THEN plans
    ELSE <<Plan("read", RejectedSynthesis(c))>>

\* The diagnosis of a prober comes first: a fresh read of the source that its task
\* names, if it names one, and the instrumented verifier.
Probing(plans) ==
    LET fresh == {r \in Reads(Sources) : ~Contains(plans, r[1])}
    IN  IF actor.kind # "prober" THEN {plans}
        ELSE {r \o <<Probe>> \o plans : r \in Nothing \cup fresh}

\* The causal rules, asked only when nothing else is planned.
Causal(c) ==
    OrElse(IF actor.feedback = NoPath THEN RepairTransition(c) ELSE Nothing,
    OrElse(ExternalRepair(c, <<>>, actor.feedback),
    OrElse(EnvironmentRecovery(c),
    OrElse(Evidence(c), ImplementationTransition(c)))))

\* The plans the first round may begin with, given what was suggested and what
\* the model answers (nothing, when it is not asked).
FirstPlans(c, suggested, answers) ==
    LET tests(plan) == actor.kind = "tester" /\ IsVerify(plan)
        new == Sift(suggested, LAMBDA plan : tests(plan) \/ ~Cached(c, plan))
        rejected == Standing(RejectedCandidate(c)) # NoPath
        mayChange == Builder /\ ~rejected
        usable == Probing(Regrounded(c, new))
        kept == IF rejected THEN {NoMutation(plans) : plans \in usable} ELSE usable
        caused == IF mayChange THEN OrElse(kept, Causal(c)) ELSE kept
        inspects(plan) == plan.tool = "read" \/ Mutates(plan)
        asksModel(plans) == RejectedSynthesis(c) = NoPath /\ SelectInSeq(plans, inspects) = 0
        more(plans) ==
            IF ~asksModel(plans) THEN {plans}
            ELSE {plans \o Sift(m, LAMBDA plan : ~Contains(plans, plan)) : m \in answers}
        modelled == UNION {more(plans) : plans \in caused}
        grounded == IF mayChange THEN OrElse(modelled, ExecutionTransition(c))
                    ELSE modelled
        free == {SingleMutation(Gaining(c, plans)) : plans \in grounded}
    IN  IF RejectedSynthesis(c) = NoPath THEN OrElse(Barrier(c), free) ELSE free

(***************************************************************************)
(* Planning after a round (planNext).                                      *)
(***************************************************************************)
Closed ==
    LET test(x) == IsVerify(x) /\ Passed(x)
    IN  \/ actor.kind = "prober" /\ Indices(RunCalls, Probed) # {}
        \/ actor.kind = "tester" /\ Indices(RunCalls, test) # {}
        \/ actor.feedback # NoPath

GainingOf(c, S) == {Gaining(c, plans) : plans \in S}

\* The last rules: evidence, then the model, unless a rejected synthesis stands.
Replanned(c) ==
    OrElse(Evidence(c),
           IF RejectedSynthesis(c) # NoPath THEN Nothing
           ELSE GainingOf(c, ModelPlans(c, actor.kind)))

OpenPlans ==
    LET c == View
        changes == IF ~Builder THEN Nothing
                   ELSE OrElse(GainingOf(c, ExternalRepair(c, RunCalls, actor.feedback)),
                               GainingOf(c, RepairTransition(c)))
    IN  IF Rejected # NoPath THEN Nothing
        ELSE OrElse(changes,
             OrElse(EnvironmentRecovery(c),
             OrElse(FailureFollowUps(c), IF Closed THEN Nothing ELSE Replanned(c))))

NextPlans == OrElse(Barrier(View), OpenPlans)

(***************************************************************************)
(* The loop (AgentToolExecutionLoop).                                      *)
(***************************************************************************)
\* shellPlanWasInvalidatedByWorkspaceStateChange
Invalidated(plan) ==
    LET i == Previous(RunCalls, plan)
        moves(x) == Succeeded(x) /\ x.tool \in {"mutate", "install"}
    IN  /\ plan.tool \in Shell /\ i > 0
        /\ After(i, Indices(RunCalls, moves)) # {}

UniquePlans(plans) ==
    Sift(plans, LAMBDA plan : plan \notin run.seen \/ Invalidated(plan))

Fingerprints(plans) == {plan \in Range(plans) : ~Mutates(plan)}

\* The calls from the run's first, those of the round from its start.
NoRun == [pc |-> "none", view |-> 0, from |-> 0, start |-> 0, pending |-> <<>>,
          failures |-> 0, rounds |-> 0, seen |-> {}]
NoActor == [pc |-> "none", n |-> 0, kind |-> "builder", feedback |-> NoPath,
            from |-> 0, recovered |-> FALSE]

LoopInit ==
    /\ log = <<>>
    /\ actor = NoActor
    /\ run = NoRun
    /\ saved = <<>>

\* recoveryFeedbackFocus: the source that feedback in the task of a builder is about.
Feedbacks(kind) == {NoPath} \cup IF kind = "builder" THEN Sources ELSE {}

\* runAgent begins; the actors of a task work one after the other.
Hire(kind, feedback) ==
    /\ actor.pc \in {"none", "done", "failed"} /\ actor.n < MaxActors
    /\ feedback \in Feedbacks(kind)
    /\ actor' = [pc |-> "working", n |-> actor.n + 1, kind |-> kind,
                 feedback |-> feedback, from |-> Len(log), recovered |-> FALSE]
    /\ run' = NoRun
    /\ UNCHANGED <<log, saved>>

\* The reason why a run stopped is only reported.
Stopped(view, from) == [NoRun EXCEPT !.pc = "stopped", !.view = view, !.from = from]
Stop == run' = Stopped(run.view, run.from)

StartRun(view, plans) ==
    /\ run' = IF plans = <<>> THEN Stopped(view, Len(log))
              ELSE [NoRun EXCEPT !.pc = "executing", !.view = view, !.from = Len(log),
                                 !.start = Len(log), !.pending = plans,
                                 !.rounds = 1, !.seen = Fingerprints(plans)]
    /\ UNCHANGED <<log, saved>>

\* The bound on behaviours: no run begins and no call is made on a full log.
Room == Len(log) < MaxLog

\* What toolPlanner.plan makes of the task: the files it names, its command.
TaskReads == Nothing \cup Reads(Sources)
TaskCommands == IF actor.kind = "builder" THEN {<<Verification>>, <<>>} ELSE Nothing

\* Or of the tester's duty: the verifier of its task, or the last one.
Suggested ==
    LET duty == IF actor.kind = "tester" THEN {<<Verification>>} ELSE {}
    IN  IF duty # {} /\ Indices(log, IsVerify) # {} THEN duty
        ELSE duty \cup {reads \o commands : reads \in TaskReads, commands \in TaskCommands}

BeginRun ==
    /\ actor.pc = "working" /\ run.pc = "none" /\ Room
    /\ LET testing(suggested) == actor.kind = "tester" /\ suggested = <<Verification>>
       IN  \E answers \in {ModelPlans(log, actor.kind)} :
           \E plans \in UNION {FirstPlans(log, suggested,
                                         IF testing(suggested) THEN Nothing ELSE answers) :
                                suggested \in Suggested} : StartRun(0, plans)
    /\ actor' = [actor EXCEPT !.pc = "grounding"]

\* executeToolForAgent: the count of the actor's shell calls, then the call.
ShellCalls ==
    LET made(x) == x.tool \in Shell /\ x.outcome # "refused"
    IN  Cardinality(Indices(Own, made))

Result(outcome, path) == [outcome |-> outcome, path |-> path]

\* What a verification may bring.  The candidate a scorecard is about is the first
\* file with a checkpoint that was taken on a baseline.  With nothing saved a
\* scorecard that fell behind the record restores a file that changed in between.
Verdicts ==
    LET of(outcomes, P) == {Result(o, p) : o \in outcomes, p \in P}
        based == {i \in DOMAIN saved : saved[i].based}
    IN  of({"passed", "missing", "timedout", "graded"}, {NoPath})
          \cup of({"failed"}, Sources)
          \cup IF saved = <<>> THEN of({"rolledback", "restored"}, Sources)
               ELSE IF based = {} THEN {}
               ELSE of({"kept", "idle", "rolledback", "traded", "restored"},
                       {saved[Min(based)].path})

Faults ==
    LET fault(x) == ~IsVerify(x) /\ x.outcome = "failed"
    IN  Cardinality(Indices(log, fault))

Results(plan) ==
    IF plan.tool \in Shell /\ ShellCalls >= ShellLimit
    THEN {Result("refused", NoPath)}
    ELSE IF IsVerify(plan) THEN Verdicts
    ELSE {Result(o, plan.path) :
            o \in (CASE plan.tool = "mutate" -> {"applied", "rejected"}
                      [] plan = Command -> {"applied"}
                      [] OTHER -> {"ok"})
                    \cup (IF Faults < MaxLoopFaults THEN {"failed"} ELSE {})}

\* The files with a checkpoint after the call: a scorecard settles them all, and a
\* command takes none.
SavedAfter(call) ==
    LET new == /\ call.tool = "mutate" /\ Succeeded(call)
               /\ \A i \in DOMAIN saved : saved[i].path # call.path
    IN  IF IsVerify(call) /\ IsScored(call) THEN <<>>
        ELSE IF ~new THEN saved
        ELSE Append(saved, [path |-> call.path, based |-> Indices(View, IsScored) # {}])

Execute ==
    /\ run.pc = "executing" /\ Room
    /\ LET plan == Head(run.pending)
       IN  \E r \in Results(plan) :
             LET call == [tool |-> plan.tool, path |-> r.path, outcome |-> r.outcome]
                 failures == IF Succeeded(call) THEN 0 ELSE run.failures + 1
                 broken == plan.tool = "install" /\ ~Installed(call)
                 over == broken \/ Len(run.pending) = 1
             IN  /\ log' = Append(log, call)
                 /\ saved' = SavedAfter(call)
                 /\ IF failures >= MaxFailures \/ Len(RunCalls) + 1 >= MaxRunCalls
                    THEN Stop
                    ELSE run' = [run EXCEPT
                           !.failures = failures,
                           !.pending = IF over THEN <<>> ELSE Tail(@),
                           !.pc = IF over THEN "planning" ELSE "executing"]
    /\ UNCHANGED actor

PlanNext ==
    /\ run.pc = "planning"
    /\ \E next \in NextPlans :
         LET unique == UniquePlans(next)
         IN  IF unique = <<>> \/ run.rounds >= MaxRounds THEN Stop
             ELSE run' = [run EXCEPT
                    !.pc = "executing", !.start = Len(log), !.pending = unique,
                    !.seen = @ \cup Fingerprints(unique),
                    !.rounds = @ + 1]
    /\ UNCHANGED <<log, actor, saved>>

\* maxWallClockMs, before a call or a round.
RunOutOfTime ==
    /\ run.pc \in {"executing", "planning"}
    /\ Stop
    /\ UNCHANGED <<log, actor, saved>>

(***************************************************************************)
(* What runAgent makes of a run: done, failed, or another run.             *)
(***************************************************************************)
Grounded == actor.pc = "grounding" /\ run.pc = "stopped"

\* analyzeWorkspaceExecutionClosure on the actor's own calls.
WorkClosed ==
    LET m == Latest(Effective(Own))
        v == Latest(Indices(Own, IsVerify))
    IN  m > 0 /\ v > m /\ Passed(Own[v])

\* agentExecutionContinuationAdvanced
Advanced ==
    LET moved(x) == Succeeded(x) \/ IsVerify(x)
    IN  Indices(RunCalls, moved) # {}

FinishActor ==
    /\ Grounded
    /\ CASE Builder -> WorkClosed \/ actor.recovered
         [] actor.kind = "tester" -> Indices(Own, IsVerify) # {}
         [] OTHER -> Indices(Own, Probed) # {}
    /\ actor' = [actor EXCEPT !.pc = "done"]
    /\ run' = NoRun
    /\ UNCHANGED <<log, saved>>

\* The closure loop: another run unless the last one did not advance it.
Continue ==
    /\ Grounded /\ Builder /\ ~WorkClosed /\ ~actor.recovered /\ Room
    /\ run.from = actor.from \/ Advanced
    /\ \E answers \in {ModelPlans(log, actor.kind)} :
         \E plans \in UNION {FirstPlans(log, suggested, answers) : suggested \in Suggested} :
           StartRun(0, plans)
    /\ UNCHANGED actor

\* A tester without a verification of its own repeats the last one.
VerifyAfresh ==
    /\ Grounded /\ actor.kind = "tester" /\ run.view = 0 /\ Room
    /\ Indices(Own, IsVerify) = {} /\ Indices(log, IsVerify) # {}
    /\ \E plans \in FirstPlans(Own, <<Verification>>, Nothing) : StartRun(actor.from, plans)
    /\ UNCHANGED actor

\* A tester that verified again reports that; the others ask the model.
Answering ==
    \/ Builder /\ (WorkClosed \/ actor.recovered)
    \/ /\ actor.kind = "tester" /\ Indices(Own, IsVerify) # {}
       /\ Indices(SubSeq(log, 1, actor.from), IsVerify) = {}
            \/ {i \in Indices(Own, IsVerify) : Passed(Own[i])} = {}

\* The calls an answer may ask for, one or two of them.
Requests ==
    LET calls == {Plan("read", p) : p \in Sources} \cup {Verification, Install, Command}
                   \cup IF Builder THEN {Plan("mutate", p) : p \in Sources} ELSE {}
        novel == {plan \in calls : ~Cached(Own, plan)}
    IN  {<<x>> : x \in novel}
          \cup {pair \in novel \X novel : pair[1] # pair[2]}

\* The model's answer asks for tools: the runtime makes the calls it is about,
\* looking at the actor's own calls only.
Recover ==
    /\ Grounded /\ Answering /\ Room
    /\ \E requested \in Requests :
         \E plans \in FirstPlans(Own, requested, Nothing) : StartRun(actor.from, plans)
    /\ actor' = [actor EXCEPT !.recovered = TRUE]

\* The actor fails.  A builder whose last run did not advance it loses that run.
Fail ==
    /\ Grounded
    /\ CASE Builder -> /\ ~WorkClosed /\ ~actor.recovered
                       /\ run.from # actor.from /\ ~Advanced
         [] actor.kind = "tester" ->
              /\ Indices(Own, IsVerify) = {}
              /\ run.view # 0 \/ Indices(log, IsVerify) = {}
         [] OTHER -> Indices(Own, Probed) = {}
    /\ actor' = [actor EXCEPT !.pc = "failed"]
    /\ log' = IF Builder THEN SubSeq(log, 1, run.from) ELSE log
    /\ run' = NoRun
    /\ UNCHANGED saved

\* runGroundingCheck throws: runAgent passes on the calls of the runs before it only,
\* though what the others did to the workspace stays.
Throw ==
    /\ actor.pc = "grounding" /\ run.pc # "none"
    /\ log' = SubSeq(log, 1, run.from)
    /\ actor' = [actor EXCEPT !.pc = "failed"]
    /\ run' = NoRun
    /\ UNCHANGED saved

LoopNext ==
    \/ \E kind \in Kinds, feedback \in Sources \cup {NoPath} : Hire(kind, feedback)
    \/ BeginRun \/ Execute \/ PlanNext \/ RunOutOfTime
    \/ FinishActor \/ Continue \/ VerifyAfresh \/ Recover \/ Fail \/ Throw

LoopSpec == LoopInit /\ [][LoopNext]_loopVars

(***************************************************************************)
(* Properties                                                              *)
(***************************************************************************)
\* Two changes of the workspace never stand for one verification: between
\* any two of them that are passed on, by whichever actors and in whichever
\* runs, the verifier was called.  The barrier of
\* pendingAuthoritativeVerifierPlan is asked at the beginning of a run and
\* between rounds only, a run can be cut short between the change and its
\* verification, a roll-back makes an earlier change the latest one again,
\* and a run that recovers a tool request sees a part of the log.  Nobody
\* learns of the changes of a run that threw, or that ended its actor for
\* want of progress: they are not in the log.
TriedBeforeTheNext ==
    LET M == Indices(log, IsMutation)
    IN  \A i, j \in M : i < j => \E v \in i..j : IsVerify(log[v])

\* A path whose candidates were rolled back without gain NoGainLimit times is
\* not changed again until a change elsewhere has brought something, nor one
\* whose candidates were retained for nothing until it and the verifier were
\* read again: at the time of the change and not only when it was planned,
\* unless a verification of the same round has just judged the path so.
NoGainIsDeferred ==
    [][Len(log') > Len(log) /\ Last(log').tool = "mutate" =>
         LET p == Last(log').path
             judged(x) == Fruitless(x, p) \/ Idled(x, p)
         IN  ~NoGain(View, p) \/ After(run.start, Indices(log, judged)) # {}]_loopVars

\* A builder does not run the verifier twice on one workspace: something was
\* changed or installed in between, unless the first of the two timed out.
NoIdleVerification ==
    actor.pc # "none" /\ Builder =>
        LET V == Indices(Own, IsVerify)
            moved == Indices(Own, IsMutation) \cup Indices(Own, Installed)
        IN  \A i, j \in V :
              i < j => Own[i].outcome = "timedout" \/ moved \cap i..j # {}

\* "The latest verifier-rejected workspace hypothesis was rolled back. A
\* fresh diagnostic phase is required before another mutation": an actor
\* without external feedback reads or probes something before it changes the
\* path of its rejected candidate again.
RejectionIsDiagnosed ==
    LET diagnosis(x) == Succeeded(x) /\ x.tool \in {"read", "probe"}
    IN  actor.pc # "none" /\ actor.feedback = NoPath =>
          \A r \in DOMAIN Own, j \in Indices(Own, IsMutation) :
            RolledBack(Own[r]) /\ r < j /\ Own[j].path = Own[r].path =>
              Indices(Own, diagnosis) \cap r..j # {}
=============================================================================
