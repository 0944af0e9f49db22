# Roy: specifications of the agent runtime

Roy (`src/src`, TypeScript) is a runtime for hierarchical language-model agents: a root agent derives agents and
teams, pays them with tokens from a budget market, lets them change a shared workspace under verification, and
releases, retains or persists them when they are done. This directory holds TLA+ models of its coordination code,
the TLC runs that check them, and TLAPS proofs about them. File names below are relative to `src/src/core` unless
they start with `src/`.

## 1. The system

Everything runs on one Node.js thread. Code between two `await`s is atomic; at an `await` any other call that is
under way may run. The HTTP server starts requests without a lock per session, so two calls on one `Runtime`
really do overlap. What is "concurrent" below means that.

| component | state it keeps | operations | what is hard | what makes it correct |
|---|---|---|---|---|
| message queue (`queue/inMemoryQueue.ts`) | map of messages with status, attempt, delays | enqueue, dequeue, ack, fail, retry, cancel | callers overlap; priorities, delays, expiry | a message has one holder; what is settled stays settled |
| scheduler (`queue/scheduler.ts`) | running flag, loops, workers | start, stop, the polling loop | start and stop overlap; cancel while a worker works; a catch block that throws | loops survive, stop leaves none, messages settle |
| executor (`executor/Executor.ts`) | semaphore (active, waiters, closed), batch cursor | execute, executeAll, cleanup | woken waiters, timeouts whose activity goes on, close with waiters | slots counted, no lost wakeup, each call answered |
| budget market (`budget/`) | allocations, limit | requestMany, augment, consume, settle, release, configure, rebalance | usage is counted before it is consumed; the limit moves | no grant beyond bid or supply |
| budget leases (`runtime/Runtime.ts`, `agent/BaseAgent.ts`) | who holds which allocation | grants around runs, nested runs, decisions, teams, the host | runs nest, agents are disposed of or restored with a lease | every grant has somebody who settles it, once |
| recursive information runtime (`structural/recursiveRuntime.ts`) | node tree, requirements, dependencies, links | DERIVE, CONNECT, EXECUTE, REPORT, PRUNE, STOP, addDependency, ingest, supersede | calls that throw half way, reopening | no circular or groundless wait, one branch per gap |
| LHTB session and controller (`structural/lhtb*.ts`, `lhtbSessionCli.ts`) | events processed, requests, verdicts | command, observation, terminal request, snapshot, restore | late answers, a client that kills and restores the process | a command counts once, no resubmission without change |
| derived actors' lifecycle (`runtime/Runtime.ts`, `lifecycle/`) | registries, records, snapshots on disk | spawn, run, decide, cascade, persist, restore | all of them overlap; failures at every await; restarts | the gone are gone, the persisted can be restored |
| team runs (`Runtime.runTeam`, `team/`) | team FSM, members, reservations, shared evidence | plan, extend, run, rerun, synthesize | fail-fast against best-effort, shrinking limits, members that delegate | the reservation holds, evidence and blame stay apart |
| root turn (`Runtime.executeUserTurn`, `runtime/executionTree.ts`, `taskLoop.ts`) | step tree, task loop, FSM, record of calls | begin, delegate, execute, audit, repair, finalize, resume | guards against each other, resumed work, failure at every await | what is claimed is verified, the last steps have room |
| delegation decisions (`Runtime`, `delegation/`) | one decision | propose, promote, fill, reduce to a budget, ensure | eight passes that overwrite each other | long tasks get staged teams that fit the room |
| verified workspace (`Runtime.executeToolForAgent`, `memory/workspace.ts`) | files, checkpoints, transactions, record on disk | write, replace, synthesize, run commands, verify, roll back, accept, recover | crash between two writes, commands that change files without a checkpoint, stale scorecards, overlapping calls | roll-back is exact, the record is what was scored, a success is not below it |
| tool loop and planning (`tools/executionLoop.ts`, `tools/executionIntent.ts`, `tools/planner.ts`, `agent/UnifiedAgent.ts`) | log of calls, repairs pending, deferred paths | plan, call, observe, close | the rules read a log another actor has written to, or one that lost a run that threw | no change on top of an untried one, no idle verification |
| sessions and approvals (`src/src/server/`, `tools/approval.ts`) | id -> promise of a runtime; requests | get, close, sweep, shutdown; authorize, resolve | get during close, sweep during a turn, signals | no runtime lost, nothing runs undecided |
| message exchanges, mailboxes, signal bus | queues, handlers | enqueue, process, acknowledge; send, receive; signal, wait | two exchanges of one recipient | the acknowledged message is the one handled |
| evolution, agents, memory, context, skills, tools, llm, logging, config, CLI, `research/` | documents, prompts, models | text and I/O | - | - |

How they interact: a client call reaches the runtime through the session pool, the CLI or directly. A root turn
decides whether to delegate, asks the market for tokens, spawns agents and teams, runs them (their usage reaches the
market as a callback, then as `consume` and `settle`), lets each of them loop over tools whose changes the verified
workspace accepts or rolls back, and ends each run with a lifecycle decision that cascades to children. The
recursive information runtime is driven by the LHTB session alone. PROJECT.json lists every component, modelled or
not, and every hazard at its line.

## 2. The modules

| module | of | what it is |
|---|---|---|
| `RuntimeQueue` | `queue/inMemoryQueue.ts` | the queue as a data type: one operator per method; no method body has an await, so each is one step |
| `MessageScheduler` | `queue/scheduler.ts` | EXTENDS `RuntimeQueue`; loops, start, stop, clients |
| `AsyncExecutor` | `executor/Executor.ts` | semaphore, retries, timeouts, batch workers, cleanup |
| `BudgetPolicies` | `budget/policies.ts` | `allocate` of the three policies as sets of possible answers |
| `MarketAuction` | the market policy's promise | abstract: the whole batch is answered in one step with a grant `MarketGrants` allows |
| `MarketClearing` | `budget/policies.ts` 73-128 | the admission pass and the clearing rounds, bid by bid; implements `MarketAuction` |
| `BudgetMarket` | `budget/BudgetMarket.ts` | EXTENDS `BudgetPolicies`; the allocations and the session limit |
| `ActorBudgets` | the runtime's use of the market | EXTENDS `BudgetMarket`; runs, nested runs, decisions, teams and the host as the actors that request, consume, settle and release |
| `OrganizationRuntime` | `structural/recursiveRuntime.ts` | nodes, requirements, dependencies and links |
| `LhtbEpisode` | `structural/lhtbSession.ts`, `lhtbController.ts`, the session's RPC process and its client | an episode over an INSTANCE of `OrganizationRuntime` |
| `ActorLifecycle` | `runtime/Runtime.ts` 9084-9652, 10465-10720, `lifecycle/`, actor snapshots | calls (tasks) and their nested decisions (frames) over registries, records and snapshots |
| `TeamRun` | `Runtime.planTeam`, `runTeam`, `executeTeamItems`, `team/` | slots, reservations, the team's FSM, members at work in sequence or in parallel, evidence and blame; a slot's phase is told apart as far as a failure of it blocks others (`Parts`) |
| `DelegationDecision` | `Runtime` 14193-15080 and around, `delegation/` | the passes over a proposal as functions from decisions to sets of decisions |
| `RootTurn` | `Runtime.executeUserTurn`, `executionTree.ts`, `taskLoop.ts` | EXTENDS `DelegationDecision`; a turn with its tree, task loop and record of calls |
| `VerifiedWorkspace` | `Runtime.executeToolForAgent`, `memory/workspace.ts` | files, checkpoints, candidates, the verifier's artifacts and the accepted workspace on disk, commands that change files, crashes |
| `GroundingLoop` | `tools/executionLoop.ts`, `tools/executionIntent.ts`, `tools/planner.ts`, `agent/UnifiedAgent.ts` | actors one after the other, an actor's runs over tools, the planner's rules over the log of calls, runs that throw and take their calls with them |
| `ServerSessions` | `src/src/server/`, `tools/approval.ts` | requests, the pool, runtimes, approvals, the end of the process |
| `...Proofs` | | inductive invariants and theorems of the module they are named after; `BudgetMarketProofs`: of `BudgetMarket`, `ActorBudgets` and `MarketClearing`, `ToolExecutionProofs`: of `AsyncExecutor`, `VerifiedWorkspace` and `GroundingLoop`, `SessionProofs`: of `ServerSessions` and `LhtbEpisode` |
| `MC...` | | constants for TLC |

State corresponds to fields: `message` is the queue's map, `active`/`waiters`/`closed` the semaphore's, `granted`,
`consumed` and `status` the allocation's, `deps`, `req` and `held` the runtime's maps, `live` the registries of
agents and teams, `record` the `ActorLifecycleRegistry`, `snapshot` the files under `.roy/actors`, `log` of
`GroundingLoop` the tool calls made so far, `cache` of `RootTurn` those the execution cache has on disk and `made`
those that the messages of the step under way tell of. A program counter of a loop, call, turn
or run names the await it stands at. History variables (what a client was told, which tokens were used, who decided
an approval, who reported beside another member at work) exist for properties; no modelled branch of the code depends on them. Some definitions directly
before a definition of the code give a mistaken form of it (a lost wakeup, a guard one off); no action uses them.
They are what PROJECT.json's `mutants` put in the place of the right one, to see the properties fail.

### Decisions on atomicity and data

* A step is what the code does between two awaits. In `ActorLifecycle` a cascade moves through its children in one
  stretch while the code gives no way (`Proceed` before anything else may happen: `AllAwait`).
* `start()` runs each loop up to its first await; the model lets other steps in between, which only adds behaviours.
* In `OrganizationRuntime` calls are synchronous. A call that throws after having written is an action of its own
  (`DeriveRefused`, `ReportRefused`) with the partial effect.
* An awaited write or a worker or an activity may fail wherever the code lets an exception through.
* What a model answers, what a verifier scores and what a text says is a choice among the values the code tells
  apart. A rule over texts (is this failure the same as that one, does this file matter) is a choice too, limited by
  what the rule can see.

## 3. The runs

Every run finishes in under three minutes with two workers. Bounds are constants in the .cfg files, whose first lines
say what they instantiate. State counts are distinct states.

| run (cfg) | instance | why it is enough | properties | states |
|---|---|---|---|---|
| scheduler (`Scheduler`) | two loops and two fresh ones after a restart, two messages of two profiles (retried with backoff; urgent and expiring), clients that cancel in any state | two loops must meet over one message while another waits; one stop and restart gives loops of two generations | `HandedToOneLoop`, `NoOrphanedMessage`, `StoppedMeansIdle`, `SettledForGood`, `EventuallySettled` | 433,242 |
| executor (`Executor`) | one direct call beside a batch of three with two workers on one slot, two attempts, timeouts, backoff, cleanup at any moment | one slot makes every wakeup matter, a batch longer than its workers makes the shared cursor matter | `ActiveCountsOwners`, `OutcomeMatchesAttempts`, `EveryCallReturns` | 184,986 |
| budget_market (`Budget_market`) | an agent, the root, a team and a host; two allocations of up to three tokens, market policy, a limit of 2 or 4 that moves, usage up to three, one token of continuations | two allocations compete for a supply smaller than their bids; usage may overrun a grant | `GrantWithinBid`, `EveryGrantHasItsPayer`, `GrantsWithinSupply` | 287,022 |
| market_clearing (`Clearing`) | all 125 batches of three bids of five kinds under supplies 0 to 10; the weight of a bid in a round, `score * sqrt(unmet)`, is 1, 2 or 5, drawn afresh in every round | covers the real weights up to their ratios, and ties | `ImplementsAuction` (a refinement, with termination) | 26,576 |
| organization (`Organization`) | a root and two nodes with one objective, two requirements, two dependencies on two artifacts; symmetric; states that differ in links alone explored once (VIEW: no guard reads links) | three nodes suffice for a circle through a derived child, a transfer between siblings, a prune of a parent | `NoCircularWait`, `NoLostWakeup`, `OneBranchPerGap`, `VerdictsAreFinal` | 164,757 |
| lifecycle (`Lifecycle`) | a lead, its team, and a member that the lead also counts among its children; two calls at a time; a restart | every shape the cascade distinguishes: agent over team, team over member, member reached twice | `GoneMeansGone`, `NobodyIsLost`, `CascadeIsThorough` | 447,768 |
| turn (`Turn`) | one turn: question or workspace task, short or long, audited or not, new or resumed; 6 proposals, a purse ample, low or spent; three rounds, a window of two attempts, one retry | each guard of the loop is the one that ends it in some behaviour; a window of two can be opened again | `ClaimsAreVerified`, `RoomToFinish`, `LongTasksAreStaged`, `SettledTrees`, `EveryTurnEnds` | 203,287 |
| team (`Team`) | a team of two slots, sequential best-effort or parallel fail-fast, run twice, the first a probe, another diagnosis or an implementation, one descendant, three children at most | one member that fails before, while or after the other reports; a plain failure after which the next phase runs, and the probe's, after which it is blocked; a reservation exactly as large as what is left | `ReservedMembersFit`, `EvidenceSurvives`, `FailuresAreTheirOwn`, `SettledMeansQuiet`, `EveryRunEnds` | 207,692 |
| workspace (`Workspace`) | two agents of one transaction, two files of up to three contents or absent, four calls (writes, replacements, syntheses and commands that change a file, measure, do both or neither, under the official verifier or another), one crash or failed write | a file changed twice before a verdict, by one agent or two, a verdict on the other file in between, a command's change under a candidate, a scorecard left by an earlier run | `RollbackIsExact`, `AcceptedIsWhatWasScored`, `SuccessMeetsTheRecord` | 2,348,765 |
| grounding (`Grounding`) | two actors of any kind, one after the other, two files, a log of four calls, two rounds, three calls a run, two shell calls an actor, verifications that fail, time out or are judged, rejected changes, changes by commands, runs that throw | the second actor reads a log the first left at any point, or that lost the first's last run; one candidate without gain defers a path here (`NoGainLimit = 1`; two in the code, any number in the theorem) | `TriedBeforeTheNext`, `NoIdleVerification`, `NoGainIsDeferred` | 1,794,901 |
| lhtb (`Lhtb`) | the rollout and the nodewise client, a root and two possible children, six events, one late answer, one rejection, one trial from a checkpoint | a child, a grandchild or two children, each scheduled, returned or pruned before the budget of events ends | `EveryCommandIsAccountedOnce`, `NoIdleResubmission`, `NewbornActsFirst` | 914,699 |
| server (`Server`) | a client's, a socket's and the default session, room for one, two requests in the air, three in all, two runtimes, one fault | a session made anew while its runtime is closed; two callers of one approval | `NoRuntimeIsLost`, `NothingRunsUndecided` | 3,076,971 |

What some of them need said:

* **scheduler.** `EventuallySettled` has the disjunct that as many loops have crashed as run at a time: the throw of
  a catch block ends a loop for good. `StoppedMeansIdle` is stated for schedulers none of whose stops rejected; the
  proof found why. Start, let a client cancel a processing message so that a loop crashes, call `stop()`: it rejects
  while the other loop is still alive. Start again and stop: the second `stop()` awaits only the loops of the last
  start (`queue/scheduler.ts` 30-40) and resolves with the first generation's loop still alive.
* **budget_market.** The fixed and the unlimited policy have no run; the theorems cover every policy.
* **lifecycle.** Clients are careful in two ways, as constants: a restore runs alone, and nothing is created after a
  restart. Without the first a restore deletes the snapshot an overlapping persist has just written; without the
  second ids repeat while snapshots are named by id, and `NobodyIsLost` fails.
* **workspace** keeps the calls of the two agents apart (`Overlap = FALSE`): the code holds no lock, and with
  overlapping calls a checkpoint captured before another agent's roll-back brings the rejected content back, so that
  `AcceptedIsWhatWasScored` and `SuccessMeetsTheRecord` fail. A shell command may change any file, and only the three
  `fs` tools that change files take a checkpoint (`runtime/Runtime.ts` 3611). What a roll-back owes is therefore said per file: a file a tool changed
  goes back to what it was before the transaction's first tool changed it, whatever commands did to it since
  (`RollbackIsExact`); what a command did to another file stays, which is what the code does. `AcceptedIsWhatWasScored`
  leaves out the paths a change without a checkpoint, a crash, a failed write or a verdict below the record had touched
  (`strayed`), and says nothing of a record made from artifacts that the command judged did not write: for the official
  verifier (authority 100 and more) the code takes no snapshot of the artifacts (3259-3263), so an earlier
  run's scorecard may be attached, and the record then pairs a reward with files it was not measured on.
  `SuccessMeetsTheRecord` has the same exemption for a first run, none for what was brought back and verified again.
* **team** has `Overlap = FALSE` and nothing added to a planned team: two teams planned before either runs reserve
  the same room (`ReservedMembersFit` fails with `TwoTeams`). `EvidenceSurvives` and `FailuresAreTheirOwn` are stated of parallel
  teams too: what a member reports while another one runs may be overwritten, an agent created while another
  member is at work may be blamed for it (both happen), and nothing else is lost or confused. `raced` and `crossed` record
  just those, and the properties say that a sequential team has none.
* **grounding.** `MaxLoopFaults = 0`: a read, a change or an installation does not fail by itself there; verifications do,
  changes are rejected, and actors are cut short or throw at every point. The calls of a run that throws, and of
  the last run of a builder that ends without progress, are in no later actor's log (`Runtime.ts` 9942-9985, 10412): the next
  actor may change the workspace on top of them, untried. `TriedBeforeTheNext` is about the changes that are passed on. A
  verification that timed out is made again on the same workspace (21484-21487), which `NoIdleVerification` exempts.
* **lhtb.** The extractor may name any node as the owner of a new requirement, and the model lets it.
* **server** checks deadlock, and its behaviours are finite, so every request ends. A sweep may expire any subset of the
  sessions; a rejection nobody handles ends the process.

Deadlock is checked in turn, organization, lifecycle and server. `CHECK_DEADLOCK FALSE` stands where the system may stop:
all messages settled, all calls returned, all tokens used, all actors done.

### Properties the runs do not repeat

Each module states more than its run lists. Proved for all constants and not run: the types, `NoLoopCrashes` (without
cancellation in processing), `AttemptsWithinBudget`, `NoLostWakeup`, `ClosedAdmitsNobody` and `BatchComplete` of the
executor, `StatusTellsOverrun`, `ConsumptionStands`, `FinalIsFinal`, `PrunedChildrenAreDone`, `DecisionsStand`.
Checked while the models were written: `NoOvertaking`, `StopAnswers`, `RebalanceFits`, `TokensConserved`,
`NoDecisionWaitsInVain`, `LoneTurnsMove` and `IdleMeansSolo` (with two turns), `WithinTurn`, `EveryCallAnswers`,
`ExternalChildReportsItsOwn`, `HeldIsOpen`.

### Where the code does something else than it says

Found while modelling. Each is reproduced by the change of an instance that is named; the passing runs leave the case
out, or the property is stated so that it holds all the same.

| what | line | reproduced by |
|---|---|---|
| `start()` during `stop()` doubles the concurrency | `queue/scheduler.ts` 36 against the bound of `src/tests/RuntimeQueue.test.ts:105` | `WithinConcurrency` with `OverlappingControl = TRUE` and `Concurrency = 1`; `StoppedMeansIdle` with `OverlappingControl = TRUE`, `Concurrency = 1` and `MaxStops = 2` |
| the executor exceeds its limit by a slot promised to a woken waiter | `executor/Executor.ts` 95 | `WithinLimit` with two workers on one slot |
| a rebalance without a limit gives allocations each other's tokens | `budget/BudgetMarket.ts` 271 | `GrantWithinBid` with `MCOpenLimits` |
| an active optional link swallows the required one of a reuse | `structural/recursiveRuntime.ts` 275 | `ReuseIsConnected` |
| ids repeat after a restart while snapshots are named by id | `runtime/Runtime.ts` 10516 | `NobodyIsLost` with `SpawnAfterRestart = TRUE` and two bearers of an id |
| a turn can close on a verification older than the last change it saw | `runtime/Runtime.ts` 22119 | `NeverReusesAnOlderCheck` of `RootTurn` |
| teams planned together reserve the same room | `runtime/Runtime.ts` 6535 | `ReservedMembersFit` with `TwoTeams` (and its phases, policies and sizes), `Overlap = TRUE` and `MaxTurnAgents = 3` |
| a rejected change need not be followed by a diagnosis | `runtime/Runtime.ts` 19889 | `RejectionIsDiagnosed` of `GroundingLoop` |
| a macro step need not be the newborn's | `structural/lhtbController.ts` 166 | `MacroStepIsTheNewborns` (34 steps) |
| a child derived waiting and woken later is not given the turn before its parent decides again | `structural/lhtbController.ts` 198 ("it must wait for this child to act or return") | `WokenChildActsFirst` with three children and 14 events: n1 derives n3, which waits for n2; n2's return wakes n3 and hands the turn to n1. The attempt to prove `NewbornActsFirst` in that form found it |

Also observed, without a line of the repository that says otherwise:

* `releaseAgentBudget` forgets an overrun allocation (release refuses `exceeded`); a nested run settles only its own usage,
  so a later settlement throws "below already consumed" or understates the total; `releaseAgentRuntime` deletes an
  agent without settling; a spawn refused for an existing agent leaks its grant.
* The verifier-guided decision's `deny` is always overwritten by `allow`; the promotion of a long task bypasses budget
  and plan filters; completion by theory of mind may widen a plan the budget had reduced.
* `planExternalFeedbackRepair` counts changes among the run's own calls only, so a read made before an earlier run's change
  passes as a current base for a patch.
* An approval is never used up; `get` after the pool's `shutdown` makes a runtime nobody shuts down; one runtime's
  shutdown stops the process-wide event bus.

## 4. Fairness

* `MessageScheduler!FairSpec`: weak fairness of each loop's step, of time, and of stop()'s continuation. A resolved
  promise's continuation runs, a timer fires, and a worker that was handed a message answers or throws. That workers
  answer is an assumption on the embedding program, and `stop()` awaits them without a timeout, so it is needed.
  Clients are not fair: they may never call.
* `AsyncExecutor!FairSpec`: weak fairness of each call's continuation (an activity settles; with a timeout the
  attempt ends anyway), of the batch workers and of the batch's return.
* `MarketClearing!ClearingSpec`: weak fairness of the loop, which has no await.
* `RootTurn!FairSpec`, `TeamRun!FairSpec`: weak fairness of each turn's and each member's next step. A model or tool
  call answers or fails within its timeout, and the continuation runs. Nothing is assumed of what it answers; that turns
  and runs end is due to the code's own counters, and to the clock for a loop that keeps changing the workspace
  (`Tick`; the code bounds a turn by time there and nothing else).

* `VerifiedWorkspace!WorkspaceSpec`: weak fairness of each agent's next step, for `EveryCallAnswers`, which
  TLC checks with two calls in the place of four; a shell command ends by its own or by its timeout.

Weak fairness is enough: an enabled continuation stays enabled until it runs. `GroundingLoop`, `LhtbEpisode`
and `ServerSessions` state none: their properties are safety properties.

## 5. Proofs

All theorems hold for every value of the constants that satisfies the named assumptions of the modules (distinct names,
natural numbers, finite sets; TLC evaluates them in every run). Each component has an inductive invariant, a
lemma for each action or group of actions, and a theorem `...Invariance`; the others follow.

* **MessageSchedulerProofs** (`IInv`). `HandedToOneLoop` is not inductive: a dequeue could hand out a message that a
  loop holds unless what loops hold is known to be processing (`LoopsHold`); `AllAccounted` relates attempts and
  status. Theorems: `TypeCorrect`, `OneLoopPerMessage`, `NeverOrphaned`, `RetryBudget`, `SettlementIsFinal` (an action
  property), `LoopsSurvive` under the assumption that clients do not cancel messages in processing, and
  `StopsAreThorough` under the assumption that start and stop are not called across each other: `LoopsListed` says that
  a loop alive is among those the next `stop()` awaits, which the rejected stop above breaks.
* **ToolExecutionProofs**, of the executor (`IInv`). Counting slots needs the waiters queue to be exact
  (`QueueHoldsWaiting`, each once, proved with lemmas on sequences without duplicates) and empty once closed.
  `InProgress` adds what a call's place says about its attempts, and that no two workers are at the same place of the
  batch. Theorems: `SlotsAreCounted`, `WakeupsAreNotLost`, `QueueIsExact`, `ClosedIsClosed`, `OutcomesMatch`,
  `BatchesAreComplete`. Of the verified workspace (`WorkspaceInv`): none of its three properties is
  inductive, since each compares what a call finds with what another call left. The content a file had before the
  transaction is in one of three places: in the checkpoint that was kept, in the one the call that changed it still
  holds, or in the file itself. `Transaction` says that this content is what the file had when the transaction opened and
  what the record on disk has for it (`Origin`), and `Accepting` and `PuttingBack` say the same of a verdict between two
  of its writes; nothing is said of the record's content for a path in `strayed`: one a failed write, a crash, a
  verdict below the record or a shell command left with a change that no checkpoint covers. A command's
  change of a covered file leaves all of it true, since it is the checkpoint that is spoken of. `Measured` says when a scorecard is about the workspace as it is:
  the command wrote it (`fresh`) and changed nothing afterwards. Theorems:
  `RollbacksAreExact`, `RecordsAreWhatWasScored`, `SuccessesMeetTheRecord`, all for calls that do not overlap, which is
  the run's case (see **workspace** in section 3). Of the tool loop (`LoopInv`, checked with TLC on the run's
  instance): the rules judge plans by what they see of the log, the plans wait, and the properties are about the log
  at the time of the call. `Sound` is what every rule guarantees of the plans it lets through: one change at most, of a file or by a command, only
  where nothing it sees is untried and the path is not without gain, and, of a builder, one verification at most, only
  where something moved since the last or that one timed out (`Due`). It is proved rule by rule, for the first round
  (`FirstPlansAreSound`), the later ones (`NextPlansAreSound`) and the loop's own filter (`UniqueIsSound`). `Stands` is what is
  true of the waiting plans in the whole log; it follows from `Sound` because a run that sees its actor's own calls only begins
  after a verification of that actor, or to make one (`Sight`, `SoundStands`), and because who is no builder changes no
  file (`Restrained`), and it survives each call: no other change waits with a change, no other verification
  with a builder's. A verification that waits before a change may judge its path to be without gain; `Eased` allows that, counted
  from the round's start, as `NoGainIsDeferred` does. `Moving` is `NoIdleVerification` of the whole log. A run that throws, or is lost with
  its builder, cuts the log back to where it began; no actor is at work then, and the next sees the rest
  (`LossKeeps`, `StartKeeps`).
  A selection from a sequence is written as a recursive function (`At`, `Sift`), since the provers do not know
  `SelectSeq`; `AtFacts` says once what it returns. Theorems: `ChangesAreTried`, `BuildersDoNotRepeat`,
  `GainlessPathsRest` (an action property), for any sources, limits, kinds and number of actors.
* **BudgetMarketProofs**, of the market on its own (`IInv`: types, status against consumption, what is not issued has
  nothing): `OverrunIsTold`, `FinalAllocations`, `ConsumptionIsKept`. Over `ActorBudgets` (`AccountsInv`):
  `GrantsHaveTheirPayers` from `PayersInv`, which says where each actor's allocation is at each place of its runs
  (`Whereabouts`) and that nobody else has it (`Exclusive`); `BidsAreKept` under `Ordered`, every policy but the
  market without a limit, exactly the case the table above excludes; and `SupplyIsKept`, an action property, under every
  policy but the one that grants all it is asked for, with or without a supply.
  What is reserved is a sum over the granted allocations, folded by the community modules, so a section on sums comes
  first. The library's induction takes an operator as parameter; `SubsetInduction` is the same fact with a set of
  subsets for the operator, from the least size of a counterexample, and yields that a sum exists, may be taken apart
  at any element, grows with its parts and may be renamed. `AllocateFits` then says that no policy grants a batch more
  than its supply (first come by the least place where it would, the market by what `Cleared` requires), and
  `StepFits` that a step reserves more only by granting a batch, by an augmentation or by a rebalance, each within what
  the sums leave. Of the policy's loop (`ClearingInv`): `MarketAnswers`, that each step of the two passes is a step of
  `MarketAuction` or leaves it alone. While bids are admitted, each one served has what the auction's definition gives it
  after those ahead of it (`Admitting`, which needs that a ranking is a permutation, `RankingFacts`);
  afterwards some admission is below the grants and nobody it left out has any (`Rounds`), a round has given something
  once it is over, and no token is lost (`TokensConserved`), so what is answered is cleared.
* **OrganizationRuntimeProofs** (`Inv`). That edges are between existing nodes, that dependencies are acyclic, that a
  waiting node has an unresolved edge, and that the holders of a requirement lie on one path of the tree support each
  other: a derivation adds edges to a fresh child, so a circle would need an edge from nowhere. Acyclicity is stated by
  sets closed under dependency, not by paths, so that no induction on paths is needed. Theorems: `NoCircle`,
  `WakeupsArrive`, `OneBranch`, `PrunedAreDone`, `VerdictsStand`.
* **ActorLifecycleProofs**. `GoneIsGone` needs `Settled` (a gone actor is registered only while an agent with its id
  is between registration and record) and `Shape` (what a call's place says about it); it assumes nothing of clients.
  `NobodyLost` assumes `CarefulClients` and needs six more conjuncts (`PInv`): whoever is somewhere under an id was
  created under it (`Owned`), an id has one bearer (`OneBearer`), a restore is alone (`Lone`), its snapshot stays and
  nobody counts on it once the actor is registered (`Kept`), and a persisting decision goes on only with the snapshot
  written (`Written`). `CascadesAreThorough` (`CInv`) says of a decision under way that the children before its
  cursor are decided or not registered (`Thorough`); with a child registered anew behind the cursor it would be
  false, which `CarefulClients` excludes.
* **RootTurnProofs** (`IInv == TypeOK /\ \A t : Sound(t)`). `Sound` has six parts: the room left in the tree
  (`Room`), counters against their limits (`Counts`), the tree's status against the turn's place (`Closing`), the record
  of the turn's calls (`Records`), what guidance a plan carries (`Guidance`) and what the turn is about to claim
  (`Claims`). The record is the difficult one: it takes another form at each stage (the execution cache before the
  turn decides and after it failed, what was resumed and what rounds reported until it executes, then the execution's
  own list), and a claim rests on each form following from the one before. For `TypeCorrect` every pass of `DelegationDecision` is shown to keep the
  shape of a decision. Theorems: `ClaimsVerified`, `RoomIsLeft`, `TreesSettle`.
  `LongTasksStaged` follows the same passes and keeps two more things of a decision: its members are members
  (`Meant`), and wherever a long task's decision to spawn leaves the pipeline, the last pass was the one that fills in
  the missing phases (`WithPhasesFacts`: none is lost for another) and puts the members in order (`ByPhaseFacts`, from
  `ArrangedFacts`: places counted by how many keys are smaller are those of a sort). That a decision not to spawn can
  only be the answer to a question is the other half (`FirstStages`). `Stages` carries both from the decision to the
  step's start: a plan is open at no other place.
* **TeamRunProofs**, in two layers. `TInv`, for any constants: what the execution of a slot, its record and its outcome
  are to each other holds of each slot by itself (`Each`, `Orderly`): a failure is blamed on nobody, on the slot's own
  member or on one created beside another (`crossed`), and a member at work has read all that was reported when it began
  or since, but what was reported beside another (`raced`). Of a sequential team one slot at a time is at work, and
  both sets are empty (`Whole`). It gives, for sequential and parallel teams, `EvidenceIsKept`, `FailuresStayTheirOwn` and
  `SettledTeamsAreQuiet`. `Capacity`, for one team open at a time and nothing added to a planned one: a reservation is
  untouched until its plans are executed and is then used up no faster than slots get through (`Planned`, with a
  cardinality for slots still to come). It gives `ReservationsHold`. The two assumptions are those of the run; each is
  needed, since the table above has the case without the first.
* **SessionProofs**, of the server (`IInv`). Two halves that never meet: `Registry` relates the pool's map with the runtimes
  (what is listed was not taken for closing; what is alive and not taken is listed), `Consent` relates approvals
  with decisions and with the calls at work. Theorems: `NoRuntimeIsLostTheorem`, `NothingRunsUndecidedTheorem`,
  `DecisionsStandTheorem`. Of the benchmark's episode (`EpisodeInv`): any session the client holds may become the
  process's at the next restart, so what is true of the process's (`Sound`) is stated of the snapshot and of the
  checkpoint too. `Accounts` makes the pending request the last event and gives every other request one event that
  settles it; `Newborns` keeps a child that has not acted ready and everybody else quiet; `Progressed` and `Reported` are
  `NoIdleResubmission` and `ExternalChildReportsItsOwn` of a session. `Snapshots` orders the sessions by length and
  lets each know the commands given by its time; `Places` says what client and process assume of each other while one
  of them waits. That an outstanding newborn has the turn follows from `Context` alone (`ContextIsNewborn`), and that
  every event that decides something is of the node that has it (`TurnsAreTaken`) from the guards. Theorems:
  `CommandsAreAccounted`, `ResubmissionsHaveResults`, `NewbornsActFirst` (an action property),
  `ExternalChildrenReport`; they assume nothing of clients, deadlines, restarts or bounds.

Only model-checked, and why:

* liveness (`EventuallySettled`, `EveryCallReturns`, `EveryTurnEnds`, `EveryRunEnds`, and of `ImplementsAuction` that the
  loop ends; its steps are proved, `MarketAnswers`): fairness and ENABLED are out of the prover's reach;
* `RollbackIsExact`, `AcceptedIsWhatWasScored` and `SuccessMeetsTheRecord` where calls overlap: the last two are
  false there.

## 6. What the models leave out

* In the modelled components: texts, timestamps as such, events, logs, traces and metadata; `structuredClone`s and
  snapshots that copy state unchanged; the rationale and efficiency figures of the market; ACQUIRE.
* `ActorBudgets`: two runs of one agent at the same time, failing exchanges on the queue, what a disposed agent's run still
  does, the ablation that bypasses the market.
* `ActorLifecycle`: usage archives and messages, and what an actor does while it runs.
* `DelegationDecision`: the decisions of derived agents (13430-13669, 14038-14192: `TeamRun` lets any member descend),
  embeddings, the numbers behind a score.
* `TeamRun`: what a member is asked and answers, which of several phase names a slot has beyond the four of `Parts`, the
  synthesis' text, and what a member does between its start and its report other than to create descendants.
* `VerifiedWorkspace`: artifacts are written by verifications alone, and no command or tool changes or removes them
  otherwise; a write is whole or nothing; commands of two calls do not overlap (`Overlap = FALSE`), so neither do their
  snapshots of the artifacts.
* `RootTurn`: messages and conversation, what happens inside a round, activities and node snapshots of the tree, how
  alike a task must be to one in the cache and how much of the cache a resumed turn gets back. Of the guard over attempts,
  that a roll-back undoes an earlier effective change and that failures left unresolved are told apart by command
  (22598-22612): both only add behaviours to the model.
* `GroundingLoop`: repair targets out of the acceptance audit, web follow-ups, signature and layout inspections. The verifier is
  one command, which changes nothing itself; an installer such as pip changes nothing either, while any other shell command
  that may (npm install among them) is one call, `Command`; one that neither changes nor verifies is not proposed. A verification
  that passes brings a perfect scorecard, and one that timed out leaves none and names no source. The planner's model asks for a call, or for
  a change with a call before it or the verifier after it, the answer of an agent for one or two calls; a prober's answers are
  not modelled, nor is the truncation of the calls passed on to 80 (`boundExecutionToolFrontier`). Why a run stopped is only reported.
* `LhtbEpisode`: prompts, tree search (`selectWithMCTS` has no caller), topology profiles, policies' records. External access is
  taken to be that of a child derived to acquire something; the code asks `externalAccess.allowed` (1845-1853), which any
  child may have, so the model lets some children return whom the code would ask for a result first.
* `ServerSessions`: handlers that forward to one method of a runtime.
* Not modelled at all: the components so marked in PROJECT.json, each with its reason.

## 7. What is left

Modelled in this order: the queue and scheduler, the executor, the market, the organization, the lifecycle; then the turn
with its decisions, teams, the verified workspace, the tool loop, the LHTB episode, the server, the leases. Next:

1. `RootTurn` with several turns: `LoneTurnsMove` and `IdleMeansSolo`.
2. `WokenChildActsFirst` and the first hazard of `VerifiedWorkspace`, overlapping calls, once the code has an answer to
   them.
