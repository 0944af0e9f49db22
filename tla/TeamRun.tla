------------------------------- MODULE TeamRun -------------------------------
(***************************************************************************)
(* Formal teams under one parent within one turn: Runtime.spawnTeam,       *)
(* spawnAgentIntoTeam and runTeam, the team registry with its state        *)
(* machine, the execution of members (team/execution.ts), the spawning of  *)
(* a member under the parent's and the turn's limits (validateSpawnPolicy, *)
(* spawnAgent) and the evidence members hand to each other                 *)
(* (executeAgentComputeNode).                                              *)
(*                                                                         *)
(* The member of a slot is one agent, so an agent is a pair of team and    *)
(* slot.  What a member does is abstracted to whether it reports tool      *)
(* calls, and whether it succeeds; the calls an agent reported stand for   *)
(* themselves as that agent.  Left out: messages, prompts, usage, patterns *)
(* and snapshots; several teams with members that recursively form teams.  *)
(***************************************************************************)
EXTENDS Integers, Sequences, FiniteSets, FiniteSetsExt

CONSTANTS
    Teams,
    MaxMembers,      \* maxMembersPerTeam: a team's slots are 1 .. MaxMembers
    Phases,          \* what the parts of a team's plans may be
    Policies,        \* team -> the execution policies it may be given
    Sizes,           \* team -> the numbers of members it may be planned with
    Extensible,      \* numbers of planned members to which spawnAgentIntoTeam adds
    Overlap,         \* may a team be planned while another one is open?
    MaxChildren,     \* maxChildren of the parent
    Levels,          \* the fewer children computeAllowedChildren may come down to
    MaxTurnAgents,   \* maxTotalAgentsPerTurn
    MaxRuns,         \* bound on the calls of runTeam
    MaxDescendants   \* bound on what members spawn below themselves

Slots == 1 .. MaxMembers
Agents == Teams \X Slots
Policy == [mode : {"sequential", "parallel"}, failure : {"fail_fast", "best_effort"},
           width : Nat \ {0}, minimum : Nat \ {0}]

\* longHorizonMemberPhase of a plan, and in phase 0 whether its role is that of the
\* verifier-guided diagnostic probe.
Parts == {"probe", "diagnosis", "implementation", "verification"}

ASSUME TeamRunAssumption ==
    /\ IsFiniteSet(Teams) /\ MaxMembers \in Nat \ {0}
    /\ Phases \subseteq [Slots -> Parts] /\ Policies \in [Teams -> SUBSET Policy]
    /\ Sizes \in [Teams -> SUBSET (0 .. MaxMembers)] /\ Extensible \subseteq 0 .. MaxMembers
    /\ Overlap \in BOOLEAN /\ MaxChildren \in Nat /\ Levels \subseteq Nat /\ MaxTurnAgents \in Nat
    /\ MaxRuns \in Nat /\ MaxDescendants \in Nat

VARIABLES
    run,       \* team -> where spawnTeam and runTeam are
    fsm,       \* team -> fsmState
    policy,    \* team -> executionPolicy
    phase,     \* team -> slot -> the part of the plan in it
    plans,     \* team -> slots of teamMemberPlans
    born,      \* team -> memberAgentIds, as slots
    status,    \* team -> memberStatuses
    items,     \* team -> slots the current run executes
    fresh,     \* team -> are they plans (or members that exist)?
    slot,      \* team, slot -> where its execution is
    before,    \* team, slot -> membersBefore, as their number
    blame,     \* team, slot -> teamMemberAgentId of its failure, as a slot (0: none)
    runs,      \* calls of runTeam
    reserve,   \* team -> its teamSpawnReservations entry
    children,  \* live children of the parent
    created,   \* turnAgentCounts of the turn
    afford,    \* children the remaining tokens allow
    cache,     \* team -> teamToolEvidenceCache
    seen,      \* team, slot -> sharedTeamToolCalls
    \* what really happened
    reported,  \* team -> agents whose calls were reported to it
    raced,     \* team -> those who reported while another of its members ran
    crossed,   \* team -> slots whose agent was created while another was at work
    refused,   \* reserved slots whose spawn the limits refused
    below      \* descendants of members

teamVars == <<run, fsm, policy, phase, plans, runs>>
memberVars == <<born, crossed, status, items, fresh, slot, before, blame>>
limitVars == <<reserve, children, created, afford, refused, below>>
evidenceVars == <<cache, seen, reported, raced>>
vars == <<teamVars, memberVars, limitVars, evidenceVars>>

\* Where an execution of a slot stands, and how it ends.
Busy == {"resolving", "spawning", "created", "running", "descending", "closing"}
Failed == {"failed", "handedOver", "blocked"}

\* A key of memberStatuses: a member, or a plan until a member stands for it.
Keys == {"plan", "agent"} \X Slots
NoStatus == [k \in Keys |-> "none"]
NoReserve == [held |-> FALSE, base |-> 0, planned |-> 0, consumed |-> 0]

Init ==
    /\ run = [t \in Teams |-> "none"] /\ fsm = [t \in Teams |-> "S_team_created"]
    /\ policy \in {f \in [Teams -> UNION {Policies[t] : t \in Teams}] :
                      \A t \in Teams : f[t] \in Policies[t]}
    /\ phase \in [Teams -> Phases]
    /\ plans = [t \in Teams |-> {}] /\ born = [t \in Teams |-> <<>>]
    /\ status = [t \in Teams |-> NoStatus]
    /\ items = [t \in Teams |-> {}] /\ fresh = [t \in Teams |-> TRUE]
    /\ slot = [a \in Agents |-> "idle"] /\ before = [a \in Agents |-> 0]
    /\ blame = [a \in Agents |-> 0]
    /\ runs = 0 /\ reserve = [t \in Teams |-> NoReserve]
    /\ children = 0 /\ created = 0 /\ afford = MaxChildren /\ below = 0
    /\ cache = [t \in Teams |-> {}] /\ seen = [a \in Agents |-> {}]
    /\ reported = [t \in Teams |-> {}] /\ raced = [t \in Teams |-> {}]
    /\ crossed = [t \in Teams |-> {}] /\ refused = {}

-----------------------------------------------------------------------------
(* Capacity *)

\* getOutstandingTeamReservations, except for one team's
Outstanding(ts) ==
    MapThenSumSet(LAMBDA t : IF reserve[t].held
                             THEN reserve[t].planned - reserve[t].consumed ELSE 0, ts)

LeftInTurn == IF created < MaxTurnAgents THEN MaxTurnAgents - created ELSE 0

Reservable ==
    LET ofChildren == afford - children - Outstanding(Teams)
        ofTurn == LeftInTurn - Outstanding(Teams)
    IN  Max({0, Min({ofChildren, ofTurn})})

\* Mutant: the reservation does not outlast the tokens.
MaySpawnAffordable(t) ==
    /\ children < afford - Outstanding(Teams \ {t})
    /\ reserve[t].held => reserve[t].consumed < reserve[t].planned

\* validateSpawnPolicy for a member of team t under the parent
MaySpawn(t) ==
    LET others == Outstanding(Teams \ {t})
        allowed == IF reserve[t].held
                   THEN Max({afford, reserve[t].base + reserve[t].planned})
                   ELSE afford - others
    IN  /\ children < allowed
        /\ IF reserve[t].held THEN reserve[t].consumed < reserve[t].planned
           ELSE LeftInTurn - others > 0

\* The remaining budget falls below one of computeAllowedChildren's levels.
Spend ==
    /\ \E n \in Levels : n < afford /\ afford' = n
    /\ UNCHANGED <<teamVars, memberVars, evidenceVars, reserve, children, created, refused,
                   below>>

-----------------------------------------------------------------------------
(* spawnTeam and spawnAgentIntoTeam *)

Open(t) == run[t] \notin {"none", "rejected", "over", "gone"}

\* Checked and reserved in one go; later awaits may still fail.
SpawnTeam(t) ==
    /\ run[t] = "none"
    /\ Overlap \/ \A u \in Teams : ~Open(u)
    /\ \E n \in Sizes[t] :
          /\ n > 0 => policy[t].minimum <= n
          /\ IF n > Reservable
             THEN run' = [run EXCEPT ![t] = "rejected"] /\ UNCHANGED <<plans, reserve>>
             ELSE /\ run' = [run EXCEPT ![t] = "registering"]
                  /\ plans' = [plans EXCEPT ![t] = 1 .. n]
                  /\ reserve' = [reserve EXCEPT ![t] =
                         [held |-> n > 0, base |-> children, planned |-> n, consumed |-> 0]]
    /\ UNCHANGED <<fsm, policy, phase, runs, memberVars, children, created, afford,
                   refused, below, evidenceVars>>

RegisterTeam(t) ==
    /\ run[t] = "registering"
    /\ run' = [run EXCEPT ![t] = "planned"]
    /\ UNCHANGED <<fsm, policy, phase, plans, runs, memberVars, limitVars, evidenceVars>>

FailToRegister(t) ==
    /\ run[t] = "registering"
    /\ run' = [run EXCEPT ![t] = "rejected"]
    /\ fsm' = [fsm EXCEPT ![t] = "S_team_failed"]
    /\ reserve' = [reserve EXCEPT ![t] = NoReserve]
    /\ UNCHANGED <<policy, phase, plans, runs, memberVars, children, created, afford,
                   refused, below, evidenceVars>>

\* The reservation does not grow; a plan added while plans are being executed
\* is dropped with them.
SpawnAgentIntoTeam(t) ==
    /\ Open(t) /\ run[t] # "registering" /\ fsm[t] \notin {"S_team_done", "S_team_failed"}
    /\ Len(born[t]) + Cardinality(plans[t]) < MaxMembers
    /\ reserve[t].planned \in Extensible
    /\ LET next == Max({0} \cup plans[t] \cup Range(born[t])) + 1
       IN  next \in Slots /\ plans' = [plans EXCEPT ![t] = @ \cup {next}]
    /\ UNCHANGED <<run, fsm, policy, phase, runs, memberVars, limitVars, evidenceVars>>

-----------------------------------------------------------------------------
(* runTeam, up to the members *)

Edges == [S_team_created |-> {"S_team_plan", "S_team_failed"},
          S_team_plan |-> {"S_member_spawn", "S_member_execute", "S_team_failed"},
          S_member_spawn |-> {"S_member_execute", "S_team_failed"},
          S_member_execute |-> {"S_member_aggregate", "S_team_failed"},
          S_member_aggregate |-> {"S_team_synthesize", "S_team_failed"},
          S_team_synthesize |-> {"S_team_done", "S_team_failed"},
          S_team_done |-> {"S_team_plan"},
          S_team_failed |-> {"S_team_plan"}]

Legal(t, to) == to = fsm[t] \/ to \in Edges[fsm[t]]

SetTask(t) ==
    status' = [status EXCEPT ![t] =
        [k \in Keys |-> IF k[1] = "agent" /\ k[2] \in Range(born[t]) THEN "pending"
                        ELSE "none"]]

\* Outcomes are locals of one call.
ForgetRun(t) ==
    /\ items' = [items EXCEPT ![t] = {}]
    /\ slot' = [a \in Agents |-> IF a[1] = t THEN "idle" ELSE slot[a]]
    /\ before' = [a \in Agents |-> IF a[1] = t THEN 0 ELSE before[a]]
    /\ blame' = [a \in Agents |-> IF a[1] = t THEN 0 ELSE blame[a]]
    /\ crossed' = [crossed EXCEPT ![t] = {}]

\* The task is set and its message on its way; an error up to here leaves the
\* team planning, for another call to start over.
Begin(t) ==
    /\ run[t] \in {"planned", "over"} /\ runs < MaxRuns
    /\ Overlap \/ \A u \in Teams \ {t} : ~Open(u)
    /\ runs' = runs + 1
    /\ SetTask(t)
    /\ Legal(t, "S_team_plan")
    /\ fsm' = [fsm EXCEPT ![t] = "S_team_plan"]
    /\ run' = [run EXCEPT ![t] = "begun"] \/ UNCHANGED run
    /\ ForgetRun(t)
    /\ UNCHANGED <<policy, phase, plans, born, fresh, limitVars, evidenceVars>>

Assign(t) ==
    /\ run[t] = "begun"
    /\ IF plans[t] = {} /\ born[t] = <<>>
       THEN run' = [run EXCEPT ![t] = "failing"] /\ UNCHANGED <<fsm, items, fresh>>
       ELSE /\ run' = [run EXCEPT ![t] = "execute"]
            /\ Legal(t, "S_member_execute")
            /\ fsm' = [fsm EXCEPT ![t] = "S_member_execute"]
            /\ fresh' = [fresh EXCEPT ![t] = plans[t] # {}]
            /\ items' = [items EXCEPT ![t] =
                   IF plans[t] # {} THEN plans[t] ELSE Range(born[t])]
    /\ UNCHANGED <<policy, phase, plans, runs, born, crossed, status, slot, before, blame,
                   limitVars, evidenceVars>>

-----------------------------------------------------------------------------
(* executeTeamItems *)

Key(t, i) == IF fresh[t] THEN <<"plan", i>> ELSE <<"agent", i>>
In(t, states) == {i \in items[t] : slot[<<t, i>>] \in states}
Width(t) == IF policy[t].mode = "sequential" THEN 1 ELSE policy[t].width
Stopped(t) == policy[t].failure = "fail_fast" /\ In(t, Failed) # {}

\* A probe that failed blocks the phases after it, and an implementation that failed
\* and changed nothing its verification; after another failure the team goes on.
FailedIn(t, part, ends) == \E i \in In(t, ends) : phase[t][i] = part
DependencyBlocked(t, i) ==
    /\ fresh[t]
    /\ \/ /\ phase[t][i] \in {"implementation", "verification"}
          /\ FailedIn(t, "probe", {"failed", "handedOver"})
       \/ /\ phase[t][i] = "verification"
          /\ FailedIn(t, "implementation", {"failed"})
          /\ ~FailedIn(t, "implementation", {"handedOver"})

StartMember(t, i) ==
    /\ run[t] = "execute" /\ slot[<<t, i>>] = "idle"
    /\ i \in items[t] /\ \A j \in In(t, {"idle"}) : i <= j
    /\ ~Stopped(t) /\ Cardinality(In(t, Busy)) < Width(t)
    /\ IF DependencyBlocked(t, i)
       THEN slot' = [slot EXCEPT ![<<t, i>>] = "blocked"] /\ UNCHANGED <<status, before>>
       ELSE /\ slot' = [slot EXCEPT ![<<t, i>>] = IF fresh[t] THEN "resolving" ELSE "running"]
            /\ status' = [status EXCEPT ![t][Key(t, i)] = "running"]
            /\ before' = [before EXCEPT ![<<t, i>>] = Len(born[t])]
    /\ UNCHANGED <<teamVars, born, crossed, items, fresh, blame, limitVars, evidenceVars>>

\* Mutant: any member the team has is taken for the one created.
CreatedAnyone(t, i) == IF fresh[t] /\ born[t] # <<>> THEN born[t][1] ELSE 0

\* The catch of executeTeamMember looks for the agent it created among the
\* members the team did not have before.
CreatedAgent(t, i) ==
    IF fresh[t] /\ Len(born[t]) > before[<<t, i>>] THEN born[t][before[<<t, i>>] + 1] ELSE 0

FailMember(t, i, how) ==
    /\ slot' = [slot EXCEPT ![<<t, i>>] = how]
    /\ blame' = [blame EXCEPT ![<<t, i>>] = CreatedAgent(t, i)]
    /\ status' = [status EXCEPT ![t][Key(t, i)] = "failed"]

CheckSpawn(t, i) ==
    /\ slot[<<t, i>>] = "resolving"
    /\ \/ /\ MaySpawn(t)
          /\ slot' = [slot EXCEPT ![<<t, i>>] = "spawning"]
          /\ UNCHANGED <<blame, status, refused>>
       \/ /\ ~MaySpawn(t)
          /\ FailMember(t, i, "failed")
          /\ refused' = IF reserve[t].held THEN refused \cup {<<t, i>>} ELSE refused
    /\ UNCHANGED <<teamVars, born, crossed, items, fresh, before, reserve, children,
                   created, afford, below, evidenceVars>>

Counted(t) ==
    /\ created' = created + 1
    /\ reserve' = [reserve EXCEPT ![t].consumed = Min({@ + 1, reserve[t].planned})]

CreateMember(t, i) ==
    /\ slot[<<t, i>>] = "spawning"
    /\ Counted(t)
    /\ children' = children + 1
    /\ slot' = [slot EXCEPT ![<<t, i>>] = "created"]
    /\ born' = [born EXCEPT ![t] = Append(@, i)]
    /\ crossed' = [crossed EXCEPT ![t] = IF In(t, Busy) \ {i} # {} THEN @ \cup {i} ELSE @]
    /\ status' = [status EXCEPT ![t][<<"agent", i>>] = "pending"]
    /\ UNCHANGED <<teamVars, items, fresh, before, blame, afford, refused, below,
                   evidenceVars>>

\* A creation that fails late takes its agent back but stays counted.
FailToCreate(t, i) ==
    /\ slot[<<t, i>>] \in {"resolving", "spawning", "created"}
    /\ FailMember(t, i, "failed")
    /\ \/ UNCHANGED <<created, reserve>>
       \/ slot[<<t, i>>] = "spawning" /\ Counted(t)
    /\ UNCHANGED <<teamVars, born, crossed, items, fresh, before, children, afford,
                   refused, below, evidenceVars>>

\* What the team has seen so far, or else what the turn's other teams have.
RunMember(t, i) ==
    /\ slot[<<t, i>>] = "created"
    /\ LET shared == IF cache[t] # {} THEN cache[t] ELSE UNION {cache[u] : u \in Teams}
       IN  /\ seen' = [seen EXCEPT ![<<t, i>>] = shared]
           /\ cache' = [cache EXCEPT ![t] = shared]
    /\ slot' = [slot EXCEPT ![<<t, i>>] = "running"]
    /\ UNCHANGED <<teamVars, born, crossed, status, items, fresh, before, blame, limitVars,
                   reported, raced>>

\* A running member delegates: it holds no reservation of its own.
CheckDescendant(t, i) ==
    /\ slot[<<t, i>>] = "running" /\ below < MaxDescendants
    /\ LeftInTurn - Outstanding(Teams) > 0
    /\ slot' = [slot EXCEPT ![<<t, i>>] = "descending"]
    /\ UNCHANGED <<teamVars, born, crossed, status, items, fresh, before, blame, limitVars,
                   evidenceVars>>

CreateDescendant(t, i) ==
    /\ slot[<<t, i>>] = "descending"
    /\ created' = created + 1 /\ below' = below + 1
    /\ slot' = [slot EXCEPT ![<<t, i>>] = "running"]
    /\ UNCHANGED <<teamVars, born, crossed, status, items, fresh, before, blame, reserve,
                   children, afford, refused, evidenceVars>>

Report(t, i) ==
    /\ reported' = [reported EXCEPT ![t] = @ \cup {<<t, i>>}]
    /\ raced' = [raced EXCEPT ![t] = IF In(t, {"running", "descending"}) \ {i} # {}
                                    THEN @ \cup {<<t, i>>} ELSE @]

\* Mutant: the calls of the members before it are not carried on.
MemberRanAlone(t, i) ==
    /\ slot[<<t, i>>] = "running" /\ fresh[t]
    /\ slot' = [slot EXCEPT ![<<t, i>>] = "closing"]
    /\ cache' = [cache EXCEPT ![t] = {<<t, i>>}] /\ Report(t, i)
    /\ UNCHANGED <<teamVars, born, crossed, status, items, fresh, before, blame, limitVars,
                   seen>>

\* runAgent resolves; a member that existed before leaves no evidence in the cache.
MemberRan(t, i) ==
    /\ slot[<<t, i>>] = "running"
    /\ IF fresh[t]
       THEN /\ slot' = [slot EXCEPT ![<<t, i>>] = "closing"]
            /\ UNCHANGED status
            /\ \/ /\ cache' = [cache EXCEPT ![t] = seen[<<t, i>>] \cup {<<t, i>>}]
                  /\ Report(t, i)
               \/ UNCHANGED <<cache, reported, raced>>
            /\ seen' = [seen EXCEPT ![<<t, i>>] = {}]
       ELSE /\ slot' = [slot EXCEPT ![<<t, i>>] = "completed"]
            /\ status' = [status EXCEPT ![t][<<"agent", i>>] = "completed"]
            /\ UNCHANGED evidenceVars
    /\ UNCHANGED <<teamVars, born, crossed, items, fresh, before, blame, limitVars>>

\* runAgent rejects: its calls come with the error, an effective change among
\* them hands the work over.
MemberFailed(t, i) ==
    /\ slot[<<t, i>>] = "running"
    /\ \/ FailMember(t, i, "failed") /\ UNCHANGED <<cache, reported, raced>>
       \/ /\ fresh[t]
          /\ FailMember(t, i, "failed") \/ FailMember(t, i, "handedOver")
          /\ cache' = [cache EXCEPT ![t] = @ \cup {<<t, i>>}]
          /\ Report(t, i)
    /\ UNCHANGED <<teamVars, born, crossed, items, fresh, before, limitVars, seen>>

CompleteMember(t, i) ==
    /\ slot[<<t, i>>] = "closing"
    /\ slot' = [slot EXCEPT ![<<t, i>>] = "completed"]
    /\ status' = [status EXCEPT ![t] = [@ EXCEPT ![<<"agent", i>>] = "completed",
                                                 ![<<"plan", i>>] = "none"]]
    /\ UNCHANGED <<teamVars, born, crossed, items, fresh, before, blame, limitVars,
                   evidenceVars>>

\* Its result does not reach the team, or reaches it and cannot be written.
FailToComplete(t, i) ==
    /\ slot[<<t, i>>] = "closing"
    /\ \/ FailMember(t, i, "failed")
       \/ /\ slot' = [slot EXCEPT ![<<t, i>>] = "failed"]
          /\ status' = [status EXCEPT ![t] = [@ EXCEPT ![<<"agent", i>>] = "completed",
                                                       ![<<"plan", i>>] = "failed"]]
          /\ UNCHANGED blame
    /\ UNCHANGED <<teamVars, born, crossed, items, fresh, before, limitVars, evidenceVars>>

-----------------------------------------------------------------------------
(* runTeam, after the members *)

\* Each outcome is recorded under the agent its failure names, or its key.
Blamed(t, i) == IF blame[<<t, i>>] = 0 THEN Key(t, i) ELSE <<"agent", blame[<<t, i>>]>>
Recorded(t) ==
    [k \in Keys |->
        IF \E i \in In(t, Failed) : Blamed(t, i) = k THEN "failed"
        ELSE IF \E i \in In(t, Failed) : Key(t, i) = k THEN "none"
        ELSE IF \E i \in In(t, {"idle"}) : Key(t, i) = k THEN "skipped"
        ELSE status[t][k]]

\* Mutants: the first failure ends the wait; items nobody took are waited for.
SettledAtFirstFailure(t) == Stopped(t) \/ In(t, Busy \cup {"idle"}) = {}
SettledWithoutSkips(t) == In(t, Busy \cup {"idle"}) = {}

\* All workers have returned.
Settled(t) == In(t, Busy) = {} /\ (In(t, {"idle"}) = {} \/ Stopped(t))
Suffices(t) ==
    /\ policy[t].failure = "fail_fast" => In(t, Failed) = {}
    /\ Cardinality(In(t, {"completed"})) >= policy[t].minimum

RecordOutcomes(t) ==
    /\ run[t] = "execute" /\ Settled(t)
    /\ status' = [status EXCEPT ![t] = Recorded(t)]
    /\ slot' = [a \in Agents |-> IF a[1] = t /\ a[2] \in In(t, {"idle"}) THEN "skipped"
                                 ELSE slot[a]]
    /\ plans' = [plans EXCEPT ![t] = {}]
    /\ IF Suffices(t)
       THEN /\ run' = [run EXCEPT ![t] = "synthesize"]
            /\ fsm' = [fsm EXCEPT ![t] = "S_team_synthesize"]
       ELSE run' = [run EXCEPT ![t] = "failing"] /\ UNCHANGED fsm
    /\ UNCHANGED <<policy, phase, runs, born, crossed, items, fresh, before, blame,
                   limitVars, evidenceVars>>

Synthesize(t) ==
    /\ run[t] = "synthesize"
    /\ \/ run' = [run EXCEPT ![t] = "resulting"]
       \/ run' = [run EXCEPT ![t] = "failing"]
    /\ UNCHANGED <<fsm, policy, phase, plans, runs, memberVars, limitVars, evidenceVars>>

SendResult(t) ==
    /\ run[t] = "resulting"
    /\ \/ /\ run' = [run EXCEPT ![t] = "closing"]
          /\ Legal(t, "S_team_done") /\ fsm' = [fsm EXCEPT ![t] = "S_team_done"]
       \/ run' = [run EXCEPT ![t] = "failing"] /\ UNCHANGED fsm
    /\ UNCHANGED <<policy, phase, plans, runs, memberVars, limitVars, evidenceVars>>

\* The catch: a team that is done already cannot fail, the call just ends.
Fail(t) ==
    /\ run[t] = "failing"
    /\ IF Legal(t, "S_team_failed")
       THEN /\ fsm' = [fsm EXCEPT ![t] = "S_team_failed"]
            /\ run' = [run EXCEPT ![t] = "closing"]
       ELSE run' = [run EXCEPT ![t] = "over"] /\ UNCHANGED fsm
    /\ UNCHANGED <<policy, phase, plans, runs, memberVars, limitVars, evidenceVars>>

\* The team's lifecycle ends the run: it and its members stay or leave.
Close(t) ==
    /\ run[t] = "closing"
    /\ ForgetRun(t)
    /\ reserve' = [reserve EXCEPT ![t] = NoReserve]
    /\ \/ run' = [run EXCEPT ![t] = "over"] /\ UNCHANGED children
       \/ run' = [run EXCEPT ![t] = "gone"] /\ children' = children - Len(born[t])
    /\ UNCHANGED <<fsm, policy, phase, plans, runs, born, status, fresh, created, afford,
                   refused, below, evidenceVars>>

FailToClose(t) ==
    /\ run[t] = "closing"
    /\ run' = [run EXCEPT ![t] = IF fsm[t] = "S_team_done" THEN "failing" ELSE "over"]
    /\ UNCHANGED <<fsm, policy, phase, plans, runs, memberVars, limitVars, evidenceVars>>

-----------------------------------------------------------------------------
Member(t, i) ==
    \/ StartMember(t, i) \/ CheckSpawn(t, i) \/ CreateMember(t, i) \/ FailToCreate(t, i)
    \/ RunMember(t, i) \/ CheckDescendant(t, i) \/ CreateDescendant(t, i)
    \/ MemberRan(t, i) \/ MemberFailed(t, i)
    \/ CompleteMember(t, i) \/ FailToComplete(t, i)

Advance(t) ==
    \/ Assign(t) \/ RecordOutcomes(t) \/ Synthesize(t) \/ SendResult(t)
    \/ Fail(t) \/ Close(t) \/ FailToClose(t)
    \/ \E i \in Slots : Member(t, i)

Next ==
    \/ Spend
    \/ \E t \in Teams : \/ SpawnTeam(t) \/ RegisterTeam(t) \/ FailToRegister(t)
                        \/ SpawnAgentIntoTeam(t) \/ Begin(t) \/ Advance(t)

Spec == Init /\ [][Next]_vars

\* Awaited calls settle, so a run that has begun goes on.
FairSpec == Spec /\ \A t \in Teams : WF_vars(Advance(t))

-----------------------------------------------------------------------------
(* Properties *)

TypeOK ==
    /\ run \in [Teams -> {"none", "registering", "rejected", "planned", "begun", "execute",
                          "synthesize", "resulting", "failing", "closing", "over", "gone"}]
    /\ fsm \in [Teams -> DOMAIN Edges] /\ \A t \in Teams : policy[t] \in Policies[t]
    /\ phase \in [Teams -> Phases]
    /\ plans \in [Teams -> SUBSET Slots] /\ items \in [Teams -> SUBSET Slots]
    /\ born \in [Teams -> UNION {[1 .. n -> Slots] : n \in 0 .. MaxMembers}]
    /\ status \in [Teams -> [Keys -> {"none", "pending", "running", "completed", "failed",
                                      "skipped"}]]
    /\ fresh \in [Teams -> BOOLEAN]
    /\ slot \in [Agents -> Busy \cup Failed \cup {"idle", "completed", "skipped"}]
    /\ before \in [Agents -> 0 .. MaxMembers] /\ blame \in [Agents -> 0 .. MaxMembers]
    /\ runs \in 0 .. MaxRuns /\ below \in Nat
    /\ reserve \in [Teams -> [held : BOOLEAN, base : Nat, planned : Nat, consumed : Nat]]
    /\ children \in Nat /\ created \in Nat /\ afford \in Nat
    /\ cache \in [Teams -> SUBSET Agents] /\ seen \in [Agents -> SUBSET Agents]
    /\ reported \in [Teams -> SUBSET Agents] /\ raced \in [Teams -> SUBSET Agents]
    /\ crossed \in [Teams -> SUBSET Slots] /\ refused \subseteq Agents

\* Capacity is reserved before the first member runs, so neither the tokens spent
\* nor descendants of members make the limits refuse a planned member
\* (validateSpawnPolicy under the reservation of spawnTeam).
ReservedMembersFit == refused = {}

\* Where members run one at a time, the agents created in a turn and those still
\* reserved never exceed the turn's limit, whoever creates them: the limit is
\* read before an agent is created and counted after.
WithinTurn ==
    (\A t \in Teams : policy[t].mode = "sequential")
        => created + Outstanding(Teams) <= MaxTurnAgents

\* The evidence a team shares is overwritten with less only where members raced: what
\* a member reported while no other one ran, of success or failure, stays for the
\* members after it and for the root, and in a sequential team that is all of it
\* (teamToolEvidenceCache, read before a member runs and written after).
EvidenceSurvives ==
    \A t \in Teams :
        /\ reported[t] \subseteq cache[t] \cup raced[t]
        /\ policy[t].mode = "sequential" => raced[t] = {}

\* A failure is recorded under the member that failed, and a member whose result is in
\* keeps it, unless its agent was created while another member was at work, and no
\* member of a sequential team is (the catch of executeTeamMember, recordMemberFailure).
FailuresAreTheirOwn ==
    \A t \in Teams :
        /\ \A i \in items[t] \ crossed[t] :
               /\ status[t][<<"agent", i>>] = "failed" => slot[<<t, i>>] \in Failed
               /\ slot[<<t, i>>] = "completed" => status[t][<<"agent", i>>] = "completed"
        /\ policy[t].mode = "sequential" => crossed[t] = {}

\* A team that goes on to its synthesis or its failure has no member at work and
\* none recorded as running, and one that is done has what its policy asks for.
SettledMeansQuiet ==
    \A t \in Teams :
        /\ run[t] \in {"synthesize", "resulting", "failing", "closing", "over"} =>
               /\ In(t, Busy) = {}
               /\ \A k \in Keys : status[t][k] # "running"
        /\ run[t] \in {"synthesize", "resulting", "closing"} /\ fsm[t] # "S_team_failed" => Suffices(t)

\* Every run of a team ends, with a result or an error.
EveryRunEnds == \A t \in Teams : (run[t] = "begun") ~> (run[t] \in {"over", "gone"})
=============================================================================
