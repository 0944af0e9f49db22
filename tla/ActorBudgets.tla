----------------------------- MODULE ActorBudgets -----------------------------
(***************************************************************************)
(* Who pays for a model call (Runtime.ts, requestAgentBudget to            *)
(* releaseAgentBudget and the callers of them): derived agents hold an     *)
(* allocation from their creation to the end of a run, the root and the    *)
(* teams get one for each call, and a host has some of its own, over one   *)
(* BudgetMarket.                                                           *)
(*                                                                         *)
(* Prompts, truncation of contexts, messages and events are left out; how  *)
(* long a prompt is shows as a call that is refused.  Exchanges over the   *)
(* queue do not fail.  What a disposed agent's run still does is left out, *)
(* and so is a second run of the same agent at the same time.              *)
(***************************************************************************)
EXTENDS BudgetMarket

CONSTANTS
  Agents,    \* derived agents
  Roots,     \* calls the root makes at the same time
  Teams      \* teams whose results are synthesized

Callers == Roots \cup Teams

VARIABLES
  at,        \* agent or caller -> where it is
  own,       \* agent or caller -> the allocation it was just given, 0 is none
  held,      \* agent -> its entry in agentBudgetAllocations, 0 is none
  cap,       \* agent -> its completion token limit, NoLimit is none
  spent,     \* agent -> what its calls used
  since,     \* agent -> what they had used when its run began
  outer,     \* agent -> the same of the run around a nested one
  uncounted, \* team -> tokens of its synthesis the session has not counted
  hosted,    \* the allocations of the host
  dropped    \* those that were forgotten while they were granted

ASSUME ActorAssumption ==
  Agents \cap Callers = {} /\ Roots \cap Teams = {}

actorVars == <<at, own, held, cap, spent, since, outer, uncounted, hosted, dropped>>
allVars == <<vars, actorVars>>

ActorInit ==
  /\ Init
  /\ at = [a \in Agents \cup Callers |-> "none"]
  /\ own = [a \in Agents \cup Callers |-> 0]
  /\ held = [a \in Agents |-> 0]
  /\ cap = [a \in Agents |-> NoLimit]
  /\ spent = [a \in Agents |-> 0] /\ since = [a \in Agents |-> 0]
  /\ outer = [a \in Agents |-> 0]
  /\ uncounted = [c \in Teams |-> 0]
  /\ hosted = {} /\ dropped = {}

Bids == {batch[1] : batch \in Batches \ {<<>>}}

\* An actor requests what it needs and is given it, or denied.
Requests(a, granted, denied) ==
  /\ \E b \in Bids : RequestMany(<<b>>, FALSE)
  /\ LET given == status'[issued'] = "granted"
     IN  /\ at' = [at EXCEPT ![a] = IF given THEN granted ELSE denied]
         /\ own' = [own EXCEPT ![a] = IF given THEN issued' ELSE 0]

RequestAgentBudget(a, granted, denied) ==
  /\ a \notin Teams
  /\ Requests(a, granted, denied)

RequestTeamSynthesisBudget(c) ==
  /\ c \in Teams
  /\ Requests(c, "asked", "none")

\* ensureUnlimitedAllocationCoverage: without a limit an allocation grows to what
\* it has to pay.
Covered(i, total) == IF limit = NoLimit THEN Greater(allocated[i], total) ELSE allocated[i]

\* A call of n tokens is counted, and the allocation has consumed the total then.
Pays(i, counted, total, closed) ==
  /\ used + counted <= MaxUsed /\ total <= MaxUsed
  /\ used' = used + counted
  /\ consumed' = [consumed EXCEPT ![i] = total]
  /\ allocated' = [allocated EXCEPT ![i] = Covered(i, total)]
  /\ extra' = [extra EXCEPT ![i] = @ + Covered(i, total) - allocated[i]]
  /\ status' = [status EXCEPT ![i] =
       IF total > Covered(i, total) THEN "exceeded"
       ELSE IF closed THEN "settled"
       ELSE IF limit = NoLimit THEN "granted" ELSE @]
  /\ UNCHANGED <<limit, requestVars, external>>

SettleDirectBudget(i, n) == Pays(i, n, n, TRUE)
ConsumeActiveAgentBudget(i, n) == Open(i) /\ Pays(i, n, consumed[i] + n, FALSE)

-----------------------------------------------------------------------------
(* Calls on an allocation of their own: completeAsRoot, completeJSONAsAgent, *)
(* the scorer of delegation candidates, completeAsTeam.                    *)

Ask(c) ==
  /\ at[c] = "none"
  /\ RequestAgentBudget(c, "asked", "none") \/ RequestTeamSynthesisBudget(c)
  /\ UNCHANGED <<held, cap, spent, since, outer, uncounted, hosted, dropped>>

Leaves(c) == at' = [at EXCEPT ![c] = "none"] /\ own' = [own EXCEPT ![c] = 0]

\* Fault: the allocation is left behind.
CallFailsSilently(c) ==
  /\ at[c] = "asked"
  /\ Leaves(c)
  /\ UNCHANGED <<vars, held, cap, spent, since, outer, uncounted, hosted, dropped>>

\* The prompt does not fit or the stream fails for good.
CallFails(c) ==
  /\ at[c] = "asked"
  /\ Release(own[c])
  /\ Leaves(c)
  /\ UNCHANGED <<held, cap, spent, since, outer, uncounted, hosted, dropped>>

\* A team's answer is settled before it is counted.
SettleTeamSynthesisBudget(c, n) ==
  /\ uncounted[c] = 0 /\ uncounted' = [uncounted EXCEPT ![c] = n]
  /\ Settle(own[c], n)

\* The answer is counted and settled at once, a team's is counted later.
CallReturns(c, n) ==
  /\ at[c] = "asked"
  /\ IF c \in Teams THEN SettleTeamSynthesisBudget(c, n)
     ELSE SettleDirectBudget(own[c], n) /\ UNCHANGED uncounted
  /\ Leaves(c)
  /\ UNCHANGED <<held, cap, spent, since, outer, hosted, dropped>>

Count(c) ==
  /\ uncounted[c] > 0
  /\ ModelCall(uncounted[c])
  /\ uncounted' = [uncounted EXCEPT ![c] = 0]
  /\ UNCHANGED <<at, own, held, cap, spent, since, outer, hosted, dropped>>

-----------------------------------------------------------------------------
(* Agents: spawnAgent, runAgent, releaseAgentRuntime.                      *)

Spawn(a) ==
  /\ at[a] = "none"
  /\ RequestAgentBudget(a, "creating", "none")
  /\ UNCHANGED <<held, cap, spent, since, outer, uncounted, hosted, dropped>>

\* Created, or its creation fails later on.
Create(a) ==
  /\ at[a] = "creating"
  /\ own' = [own EXCEPT ![a] = 0]
  /\ \/ /\ at' = [at EXCEPT ![a] = "ready"]
        /\ held' = [held EXCEPT ![a] = own[a]]
        /\ UNCHANGED vars
     \/ /\ at' = [at EXCEPT ![a] = "none"]
        /\ Release(own[a]) /\ UNCHANGED held
  /\ UNCHANGED <<cap, spent, since, outer, uncounted, hosted, dropped>>

\* A second restoration of the same agent finds that it exists after it was
\* granted an allocation, and throws.
SpawnAgain(a) ==
  /\ at[a] \notin {"none", "creating"}
  /\ \E b \in Bids : RequestMany(<<b>>, FALSE)
  /\ dropped' = dropped \cup {issued'}
  /\ UNCHANGED <<at, own, held, cap, spent, since, outer, uncounted, hosted>>

\* A run without an allocation asks for one; denied, it is rejected.
AskToRun(a) ==
  /\ at[a] = "ready" /\ held[a] = 0
  /\ RequestAgentBudget(a, "asking", "ready")
  /\ UNCHANGED <<held, cap, spent, since, outer, uncounted, hosted, dropped>>

\* What an agent may still use of an allocation.
Lease(i) == IF limit = NoLimit THEN NoLimit ELSE allocated[i]

Begin(a) ==
  /\ at[a] = "asking" \/ (at[a] = "ready" /\ held[a] # 0)
  /\ at' = [at EXCEPT ![a] = "running"]
  /\ held' = [held EXCEPT ![a] = IF at[a] = "asking" THEN own[a] ELSE @]
  /\ own' = [own EXCEPT ![a] = 0]
  /\ cap' = [cap EXCEPT ![a] = Lease(held'[a])]
  /\ since' = [since EXCEPT ![a] = spent[a]]
  /\ UNCHANGED <<vars, spent, outer, uncounted, hosted, dropped>>

Busy == {"running", "nested"}
Uses(a, n) ==
  /\ cap[a] # 0
  /\ spent' = [spent EXCEPT ![a] = @ + n]
  /\ cap' = [cap EXCEPT ![a] = IF @ = NoLimit THEN @ ELSE Greater(0, @ - n)]

\* completeAsAgent: counted by the session and by the agent.
Call(a, n) ==
  /\ at[a] \in Busy
  /\ Uses(a, n)
  /\ ModelCall(n)
  /\ UNCHANGED <<at, own, held, since, outer, uncounted, hosted, dropped>>

\* completeJSONAsAgent during a run: consumed of the allocation at once.
Decide(a, n) ==
  /\ at[a] = "running" /\ held[a] # 0
  /\ LET i == held[a]
     IN  /\ status[i] = "granted" /\ limit # NoLimit => allocated[i] > consumed[i]
         /\ ConsumeActiveAgentBudget(i, n)
  /\ Uses(a, n)
  /\ UNCHANGED <<at, own, held, since, outer, uncounted, hosted, dropped>>

\* ensureAgentSynthesisBudget: a continuation before a synthesis that needs more.
Continue(a, need) ==
  LET i == held[a]
      left == Greater(0, allocated[i] - consumed[i])
      rest == IF cap[a] = NoLimit THEN left ELSE Lesser(left, cap[a])
  IN  /\ at[a] = "running" /\ i # 0
      /\ status[i] = "granted" /\ rest < need
      /\ \E minimum \in 1..(need - rest) : Augment(i, need - rest, minimum)
      /\ cap' = [cap EXCEPT ![a] =
           IF limit = NoLimit THEN NoLimit ELSE rest + allocated'[i] - allocated[i]]
      /\ UNCHANGED <<at, own, held, spent, since, outer, uncounted, hosted, dropped>>

\* No child could be spawned: the agent runs again, alone, inside its run.
RunAlone(a) ==
  /\ at[a] = "running" /\ held[a] # 0
  /\ at' = [at EXCEPT ![a] = "nested"]
  /\ outer' = [outer EXCEPT ![a] = since[a]]
  /\ since' = [since EXCEPT ![a] = spent[a]]
  /\ cap' = [cap EXCEPT ![a] = Lease(held[a])]
  /\ UNCHANGED <<vars, own, held, spent, uncounted, hosted, dropped>>

\* A run ends; the failure of a nested one is the failure of the one around it.
Returns(a, well) ==
  /\ at' = [at EXCEPT ![a] = IF @ = "nested" /\ ~well THEN "failing" ELSE "ready"]
  /\ since' = [since EXCEPT ![a] = IF at'[a] = "failing" THEN outer[a] ELSE 0]
  /\ outer' = [outer EXCEPT ![a] = 0]
  /\ spent' = [spent EXCEPT ![a] = IF at'[a] = "failing" THEN @ ELSE 0]

\* settleAgentBudget with the usage of the run, unless it failed without any; it
\* throws when a run around it has consumed more, and forgets nothing then.
SettleRun(a, ok) ==
  LET i == held[a]
      total == spent[a] - since[a]
      closed == i = 0 \/ ~Open(i)
  IN  /\ at[a] \in Busy \cup {"failing"}
      /\ at[a] = "failing" => ~ok
      /\ ok \/ total > 0
      /\ IF closed THEN UNCHANGED vars
         ELSE IF total < consumed[i] THEN UNCHANGED vars
         ELSE Pays(i, 0, total, TRUE)
      /\ LET throws == ~closed /\ total < consumed[i]
         IN  /\ held' = [held EXCEPT ![a] = IF throws THEN @ ELSE 0]
             /\ cap' = [cap EXCEPT ![a] = IF throws THEN @ ELSE NoLimit]
             /\ Returns(a, ok /\ ~throws)
      /\ UNCHANGED <<own, uncounted, hosted, dropped>>

\* releaseAgentBudget: forgotten, also when it overran and is not released.
ReleaseRun(a) ==
  /\ at[a] \in Busy \cup {"failing"} /\ spent[a] = since[a]
  /\ IF held[a] # 0 /\ status[held[a]] = "granted" THEN Release(held[a]) ELSE UNCHANGED vars
  /\ held' = [held EXCEPT ![a] = 0] /\ cap' = [cap EXCEPT ![a] = NoLimit]
  /\ Returns(a, FALSE)
  /\ UNCHANGED <<own, uncounted, hosted, dropped>>

\* The agent is released or persisted, perhaps by a cascade in the middle of its
\* run: its entry is deleted, its allocation is not.
Dispose(a) ==
  /\ at[a] \in Busy \cup {"ready", "failing"}
  /\ at' = [at EXCEPT ![a] = "none"]
  /\ held' = [held EXCEPT ![a] = 0] /\ cap' = [cap EXCEPT ![a] = NoLimit]
  /\ dropped' = dropped \cup ({held[a]} \ {0})
  /\ spent' = [spent EXCEPT ![a] = 0] /\ since' = [since EXCEPT ![a] = 0]
  /\ outer' = [outer EXCEPT ![a] = 0]
  /\ UNCHANGED <<vars, own, uncounted, hosted>>

-----------------------------------------------------------------------------
(* The host: allocateBudgets, consumeBudget, settleBudget, releaseBudget,  *)
(* rebalanceBudgetMarket, setBudget.                                       *)

Host ==
  /\ \/ /\ \E batch \in Batches, runtime \in BOOLEAN : RequestMany(batch, runtime)
        /\ hosted' = hosted \cup ((issued + 1)..issued')
     \/ /\ \/ \E i \in hosted, n \in Amounts : Consume(i, n) \/ Settle(i, n)
           \/ \E i \in hosted : Release(i)
           \/ \E tokens \in Limits : Configure(tokens)
           \/ Rebalance
        /\ UNCHANGED hosted
  /\ UNCHANGED <<at, own, held, cap, spent, since, outer, uncounted, dropped>>

ActorNext ==
  \/ Host
  \/ \E c \in Callers : Ask(c) \/ CallFails(c) \/ (\E n \in Amounts : CallReturns(c, n))
  \/ \E c \in Teams : Count(c)
  \/ \E a \in Agents :
       \/ Spawn(a) \/ Create(a) \/ SpawnAgain(a) \/ AskToRun(a) \/ Begin(a)
       \/ \E n \in Amounts : Call(a, n) \/ Decide(a, n) \/ Continue(a, n)
       \/ RunAlone(a) \/ ReleaseRun(a) \/ Dispose(a)
       \/ \E ok \in BOOLEAN : SettleRun(a, ok)

ActorSpec == ActorInit /\ [][ActorNext]_allVars

-----------------------------------------------------------------------------
(* Properties.                                                             *)

\* Tokens that are set aside for an actor are its own: somebody will settle or
\* release every granted allocation, unless its agent was disposed of or restored
\* twice, and nobody's is somebody else's (Runtime.ts:4926, 5086, 15964, 16160).
EveryGrantHasItsPayer ==
  LET payers(i) == {a \in Agents : held[a] = i} \cup {a \in DOMAIN own : own[a] = i}
  IN  \A i \in Ids :
        /\ status[i] = "granted" /\ i \notin dropped \cup hosted => payers(i) # {}
        /\ Cardinality(payers(i)) <= 1

\* What an agent holds can still be paid from: nothing else settles or releases it
\* (Runtime.ts:4918, 5036).
HeldIsOpen == \A a \in Agents : held[a] # 0 => Open(held[a])
=============================================================================
