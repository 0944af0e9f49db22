-------------------------- MODULE DelegationDecision --------------------------
(***************************************************************************)
(* How the root decides whether, and to whom, a task is delegated:         *)
(* Runtime.ts, decideDelegation and what executeUserTurn makes of its      *)
(* result, with candidatePlanner.ts and ToMDelegationPlanner.ts.           *)
(*                                                                         *)
(* A proposed member is what the pipeline tells apart: its phase, whether  *)
(* its archetype is custom and whether it has the tools its task needs.    *)
(* What a model, a score or a cached pattern may answer is a set of        *)
(* decisions; each stage of the pipeline maps a decision to the decisions  *)
(* it may become.                                                          *)
(***************************************************************************)
EXTENDS Integers, Sequences, SequencesExt

CONSTANTS
    Proposals,          \* the sequences of members a model may propose
    TeamFirst,          \* teamFirstLongHorizon, and teams are enabled
    StructuralGate      \* may the structural policy decide first?

MaxMembers == 3

\* longHorizonMemberPhase: 0 evidence, 1 implementation, 2 verification.
Member == [phase : 0..2, custom : BOOLEAN, able : BOOLEAN]

ASSUME DelegationAssumption ==
    /\ Proposals \subseteq UNION {[1..n -> Member] : n \in 1..MaxMembers}
    /\ TeamFirst \in BOOLEAN /\ StructuralGate \in BOOLEAN

\* form: "independent"; "team" with a plan of its own, "bare" without one;
\* "unset" where it is left to the configuration.  staged: members run one after
\* the other.  final: nothing is reassessed after the round.  origin: the team
\* continues from cached state, or is the one guided by a verifier; or the task
\* answers the question itself.
Decision == [action : {"solve", "ask", "spawn"}, agents : Seq(Member),
             form : {"independent", "team", "bare", "unset"}, staged : BOOLEAN,
             final : BOOLEAN, origin : {"task", "cached", "guided", "answer"}]

Solve == [action |-> "solve", agents |-> <<>>, form |-> "independent",
          staged |-> FALSE, final |-> FALSE, origin |-> "task"]
Ask == [Solve EXCEPT !.action = "ask"]
Spawn(agents) == [Solve EXCEPT !.action = "spawn", !.agents = agents]

Regular(phase, able) == [phase |-> phase, custom |-> FALSE, able |-> able]
Spawns(d) == d.action = "spawn"

\* A decision cut down to some of its members: one alone is no team.
CutTo(d, agents) ==
    [d EXCEPT !.agents = agents,
              !.form = IF Len(agents) > 1 THEN @ ELSE "independent",
              !.staged = @ /\ Len(agents) > 1]

-----------------------------------------------------------------------------
\* What may be proposed.

\* normalizeCoordination, normalizeDelegationTeamPlan: one member is no team; a team
\* that is asked for may come without a plan, and a plan may be staged.
Forms(agents) ==
    IF Len(agents) > 1
    THEN { <<"independent", FALSE>>, <<"bare", FALSE>>, <<"team", FALSE>>, <<"team", TRUE>> }
    ELSE { <<"independent", FALSE>> }

ProposedAs(agents, form, staged, final, origin) ==
    [Spawn(agents) EXCEPT !.form = form, !.staged = staged, !.final = final, !.origin = origin]

\* normalizeDelegationDecision: valid members, at most three; what is asked of them
\* may be in words that speak of recovery.
Proposed ==
    UNION { { ProposedAs(a, f[1], f[2], final, origin) :
                  f \in Forms(a), final \in BOOLEAN, origin \in {"task", "cached"} } :
            a \in Proposals }

\* fallbackDelegationDecision, from the words of the task alone.
Fallbacks ==
    {Ask, Solve} \cup
    { [Spawn(a) EXCEPT !.form = "unset"] :
          a \in UNION { { <<Regular(0, able)>>, <<Regular(2, able)>>, <<Regular(1, able)>>,
                          <<Regular(0, able), Regular(2, able)>> } : able \in BOOLEAN } }

\* structuralDelegationGate: a child specification becomes one custom member.
Children == { <<[phase |-> p, custom |-> TRUE, able |-> able]>> : p \in 0..2, able \in BOOLEAN }
Gated == IF StructuralGate THEN {Solve} \cup {Spawn(a) : a \in Children} ELSE {}

-----------------------------------------------------------------------------
\* What constrains a proposal.

\* applyBudgetConstraints; purse: more than 2000 tokens left (or no limit), more
\* than 500, or less.
BudgetConstrained(d, purse) ==
    IF ~Spawns(d) \/ purse = "ample" THEN d
    ELSE IF purse = "spent" THEN Solve
    ELSE IF Len(d.agents) > 1
         THEN [Spawn(<<Head(d.agents)>>) EXCEPT !.final = d.final, !.origin = d.origin]
         ELSE d

\* The members at the places that have a key, in the order of their keys.
Arranged(agents, key) ==
    LET S == DOMAIN key
    IN [k \in 1..Cardinality(S) |->
            agents[CHOOSE i \in S : Cardinality({j \in S : key[j] < key[i]}) = k - 1]]

\* hasExecutableGroundingPath: an authorized tool for the evidence its task needs.
AbleOnes(agents) == Arranged(agents, [i \in {j \in DOMAIN agents : agents[j].able} |-> i])

\* constrainDelegationToExecutablePlans: members without one are dropped.
Executable(d) ==
    IF ~Spawns(d) THEN d
    ELSE LET able == AbleOnes(d.agents)
         IN IF able = <<>> THEN Solve
            ELSE IF able = d.agents THEN d ELSE CutTo(d, able)

\* auditComplexDirectDecision: a second opinion on solving a task of many parts
\* directly; malformed answers leave the first one.
Audited(d, purse) ==
    {d} \cup (IF d.action # "solve" THEN {}
              ELSE {BudgetConstrained(n, purse) : n \in Proposed \cup Fallbacks})

\* decideDelegation
Decided(purse) ==
    Gated \cup
    { Executable(BudgetConstrained(d, purse)) : d \in Fallbacks } \cup
    { Executable(d) :
          d \in UNION { Audited(BudgetConstrained(n, purse), purse) :
                            n \in Proposed \cup Fallbacks } }

-----------------------------------------------------------------------------
\* Long-horizon tasks.

\* buildLongHorizonTeamDecision
LongHorizonTeam(mutation, able) ==
    [Spawn(IF mutation THEN <<Regular(0, able), Regular(1, able), Regular(2, able)>>
           ELSE <<Regular(0, able), Regular(2, able)>>)
     EXCEPT !.form = "team", !.staged = TRUE]

\* A missing phase is added, or takes the place of a member whose phase another
\* one has too: a custom one if there is one, the last of them.
WithPhaseAppendedOnly(agents, phase, available, able) ==
    IF (\E i \in 1..Len(agents) : agents[i].phase = phase) \/ Len(agents) >= available
    THEN agents ELSE Append(agents, Regular(phase, able))

WithPhase(agents, phase, available, able) ==
    LET has(p, skip) == \E i \in (1..Len(agents)) \ skip : agents[i].phase = p
        twice == {i \in 1..Len(agents) : has(agents[i].phase, {i})}
        custom == {i \in twice : agents[i].custom}
    IN IF has(phase, {}) THEN agents
       ELSE IF Len(agents) < available THEN Append(agents, Regular(phase, able))
       ELSE IF twice = {} THEN agents
       ELSE [agents EXCEPT ![Max(IF custom # {} THEN custom ELSE twice)] = Regular(phase, able)]

\* The required phases, each added to those before it.
WithPhases(d, agents, mutation, available, able) ==
    LET with(a, phase) == WithPhase(a, phase, available, able)
    IN IF ~mutation THEN with(with(agents, 2), 0)
       ELSE IF d.origin = "task" THEN with(with(with(agents, 1), 2), 0)
       ELSE with(with(agents, 1), 2)

\* By phase, those of a phase in their order.
ByPhase(agents) ==
    Arranged(agents, [i \in DOMAIN agents |-> agents[i].phase * Len(agents) + i])

\* ensureLongHorizonTeamDecision: room is how many more agents the turn may have.
Ensured(d, mutation, room, able) ==
    LET available == Min({MaxMembers, room})
        kept == SubSeq(d.agents, 1, Min({Len(d.agents), available}))
        complete == WithPhases(d, kept, mutation, available, able)
        phases == {complete[i].phase : i \in 1..Len(complete)}
    IN IF ~TeamFirst \/ available < 2 \/ Len(complete) < 2 THEN d
       ELSE [d EXCEPT !.agents = ByPhase(complete), !.form = "team", !.final = FALSE,
                      !.staged = Cardinality(phases) > 1 \/ @]

\* overrideExecutableTaskClarification
Overridden(d, long, mutation, able) ==
    IF d.action # "ask" THEN {d}
    ELSE {[Solve EXCEPT !.origin = "answer"],
          IF long /\ mutation THEN LongHorizonTeam(TRUE, able) ELSE d}

-----------------------------------------------------------------------------
\* The choice among candidates.

\* A custom member's phase is read off the reason for its existence, which the
\* analysis of cognitive gaps rewrites.
Rephrased(agents) ==
    { a \in [1..Len(agents) -> Member] :
          \A i \in 1..Len(agents) :
              IF agents[i].custom THEN a[i].custom /\ a[i].able = agents[i].able
              ELSE a[i] = agents[i] }

\* ToMDelegationPlanner.completePlans: specialists for the gaps that are left
\* (what they are called matters to nobody any more).
Specialists(n) ==
    UNION { [1..k -> {Regular(p, able) : p \in 0..2, able \in BOOLEAN}] : k \in 0..n }

Completed(d, slots, preserve) ==
    LET kept == SubSeq(d.agents, 1, Min({Len(d.agents), slots}))
    IN { a \o more : a \in Rephrased(kept),
                     more \in IF preserve THEN {<<>>} ELSE Specialists(slots - Len(kept)) }

\* DefaultDelegationCandidatePlanner.select: the whole plan, with cached bindings
\* or without, or its first member; or nothing, when no score is good enough.
Candidates(d) ==
    {Solve, CutTo(d, d.agents)} \cup
    (IF Len(d.agents) > 1 /\ d.form \notin {"team", "bare"} THEN {CutTo(d, <<Head(d.agents)>>)}
     ELSE {})

\* selectDelegationCandidate: slots is how many members the root may have.
Selected(d, slots, preserve) ==
    IF ~Spawns(d) THEN {d}
    ELSE IF slots = 0 THEN {Solve}
    ELSE UNION { LET e == Executable([d EXCEPT !.agents = a])
                 IN IF Spawns(e) THEN Candidates(e) ELSE {e} :
                     a \in Completed(d, slots, preserve) }

-----------------------------------------------------------------------------
\* The decisions of a turn.

\* buildVerifierGuidedResumeRecoveryDecision: a probe unless there is a diagnosis
\* or fresh feedback already; a repairer and a verifier.
Guided(agents) ==
    [Spawn(agents) EXCEPT !.form = "team", !.staged = TRUE, !.origin = "guided"]

Recoveries(able) ==
    { Guided(a) : a \in { <<Regular(1, able), Regular(2, able)>>,
                          <<Regular(0, able), Regular(1, able), Regular(2, able)>> } }

\* The first decision.  resume: a cached execution is resumed, by the root alone
\* or by a recovery team.
FirstDecisions(long, mutation, resume, room, slots, purse, able) ==
    LET first == IF resume = "none" THEN Decided(purse)
                 ELSE IF resume = "alone" THEN {Solve} ELSE Recoveries(able)
        staged(d) == IF long /\ Spawns(d) THEN Ensured(d, mutation, room, able)
                     ELSE IF long /\ d.action = "solve" /\ resume = "none"
                          THEN LongHorizonTeam(mutation, able) ELSE d
        insisted(d) == long /\ Spawns(d)   \* requiredLongHorizonDecision
        selected(d) ==
            IF resume = "none"
            THEN Selected(d, slots, long \/ (Spawns(d) /\ d.form = "team")) ELSE {d}
        again(d) == IF long /\ Spawns(d) THEN Ensured(d, mutation, room, able) ELSE d
        settled(d, e) == IF insisted(d) /\ ~Spawns(e) /\ slots > 0 THEN d ELSE e
    IN UNION { { settled(d, again(e)) : e \in selected(d) } :
                   d \in UNION { Overridden(staged(p), long, mutation, able) : p \in first } }

\* ensureLongHorizonRecoveryContinuation: no end after a step that changed the
\* workspace while no verification closed it, but a repairer and a verifier.
Unclosed(able) ==
    [Spawn(<<Regular(1, able), Regular(2, able)>>)
     EXCEPT !.form = "team", !.staged = TRUE, !.origin = "cached"]

\* buildRequiredEvidenceFollowUp: a file the task names and nobody has read.
Evidenced(mutation, able) ==
    IF mutation THEN {} ELSE {[Spawn(<<Regular(2, able)>>) EXCEPT !.form = "unset"]}

\* decideRootContinuation: a question, an end, or more members.
Continuations(long, mutation, unclosed, able) ==
    {Ask} \cup Proposed \cup Evidenced(mutation, able)
    \cup {IF long /\ mutation /\ unclosed THEN Unclosed(able) ELSE Solve}

NextDecisions(long, mutation, unclosed, room, slots, purse, able) ==
    UNION { { IF long /\ Spawns(e) /\ (mutation \/ e.form \in {"team", "bare"})
              THEN Ensured(e, mutation, room, able) ELSE e :
                  e \in Selected(BudgetConstrained(d, purse), slots, TRUE) } :
              d \in Continuations(long, mutation, unclosed, able) }

\* In the order of the team, an implementer and then a verifier who sees its work.
Staged(d) ==
    /\ d.staged
    /\ \E i, j \in 1..Len(d.agents) :
           i < j /\ d.agents[i].phase = 1 /\ d.agents[j].phase = 2

\* What a turn remembers of a decision; wide, open: the turn has room for a whole
\* team, and the root for a child at all.
Plan == [action : {"solve", "ask", "spawn"}, staged : BOOLEAN, final : BOOLEAN,
         guided : BOOLEAN, answer : BOOLEAN, wide : BOOLEAN, open : BOOLEAN]

Brief(d, room, slots) ==
    [action |-> d.action, staged |-> Staged(d), final |-> d.final,
     guided |-> d.origin = "guided" /\ Len(d.agents) > 1,
     answer |-> d.origin = "answer", wide |-> room >= MaxMembers, open |-> slots > 0]

Rooms(long) == {r \in (0..MaxMembers) \X (0..MaxMembers) :
                    r[2] <= r[1] /\ (long \/ r[1] = r[2])}

Purses == {"ample", "low", "spent"}

\* Only a long task on the workspace is resumed.
Resumes(long, mutation) == IF long /\ mutation THEN {"none", "alone", "team"} ELSE {"none"}

\* Every first decision and every later one, with the task it is made for.
FirstBriefsFor(long, mutation, resume) ==
    UNION { { [long |-> long, mutation |-> mutation, resume |-> resume,
               brief |-> Brief(d, r[1], r[2])] :
                  d \in FirstDecisions(long, mutation, resume, r[1], r[2], purse, able) } :
            r \in Rooms(long), purse \in Purses, able \in BOOLEAN }

FirstBriefs ==
    UNION { UNION { FirstBriefsFor(long, mutation, resume) : resume \in Resumes(long, mutation) } :
            long \in BOOLEAN, mutation \in BOOLEAN }

NextBriefsFor(long, mutation) ==
    UNION { { [long |-> long, mutation |-> mutation, unclosed |-> unclosed,
               brief |-> Brief(d, r[1], r[2])] :
                  d \in NextDecisions(long, mutation, unclosed, r[1], r[2], purse, able) } :
            unclosed \in BOOLEAN, r \in Rooms(long), purse \in Purses, able \in BOOLEAN }

NextBriefs == UNION { NextBriefsFor(long, mutation) : long \in BOOLEAN, mutation \in BOOLEAN }

=============================================================================
