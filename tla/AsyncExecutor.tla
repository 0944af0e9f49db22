---------------------------- MODULE AsyncExecutor ----------------------------
(***************************************************************************)
(* The activity executor (src/src/core/executor/Executor.ts): execute()    *)
(* runs an activity under a semaphore, with retries, a backoff and a       *)
(* timeout per attempt; executeAll() drives a batch through it with a pool *)
(* of workers; cleanup() closes it.                                        *)
(*                                                                         *)
(* A step is what the code does between two awaits.  A call's pc names the *)
(* await it stands at:                                                     *)
(*   "idle"      execute() was not called yet                              *)
(*   "waiting"   in the semaphore's waiters queue                          *)
(*   "woken"     its waiter was resolved, its continuation is scheduled    *)
(*   "acquired"  acquire() returned, the first attempt is about to start   *)
(*   "running"   an attempt is under way                                   *)
(*   "delaying"  in the backoff timer between two attempts                 *)
(*   "done"      execute() returned its result                             *)
(***************************************************************************)
EXTENDS Integers, Sequences, FiniteSets

CONSTANTS
  Calls,        \* the calls of execute()
  Batch,        \* those executeAll() makes, in the order of its activities
  Workers,      \* the min(maxConcurrent, #activities) workers of executeAll()
  NoCall,       \* the call of a worker that has made none yet
  Limit,        \* maxConcurrentActivities
  MaxAttempts,  \* retryPolicy.maxAttempts, at least 1
  HasTimeout,   \* is a timeoutMs configured?
  HasDelay      \* is initialDelayMs positive?

ASSUME ExecutorAssumption ==
  /\ IsFiniteSet(Calls)
  /\ NoCall \notin Calls
  /\ Batch \in Seq(Calls)
  /\ \A i, j \in 1..Len(Batch) : Batch[i] = Batch[j] => i = j
  /\ Limit \in Nat \ {0}
  /\ MaxAttempts \in Nat \ {0}
  /\ HasTimeout \in BOOLEAN
  /\ HasDelay \in BOOLEAN

VARIABLES
  active,    \* AsyncSemaphore.active
  waiters,   \* AsyncSemaphore.waiters
  closed,    \* the closed flags of the executor and of its semaphore
  pc,        \* where each call is
  attempt,   \* the attempt a call is at, or ended with
  outcome,   \* the result of a call: "none" until it is done
  zombies,   \* attempts of a call that timed out and still execute
  batch,     \* executeAll(): "none", "running" or "returned"
  next,      \* nextIndex, counted from 1
  worker     \* the last call each worker made

semaphoreVars == <<active, waiters, closed>>
callVars == <<pc, attempt, outcome, zombies>>
batchVars == <<batch, next, worker>>
vars == <<semaphoreVars, callVars, batchVars>>

Points == {"idle", "waiting", "woken", "acquired", "running", "delaying", "done"}

Outcomes == {"none", "success", "failure", "closed"}

Owning == {"acquired", "running", "delaying"}   \* between acquire and release

Owners == {c \in Calls : pc[c] \in Owning}
Woken == {c \in Calls : pc[c] = "woken"}
Waiting == {c \in Calls : pc[c] = "waiting"}
Queued == {waiters[i] : i \in 1..Len(waiters)}
Batched == {Batch[i] : i \in 1..Len(Batch)}

TypeOK ==
  /\ active \in Nat
  /\ waiters \in Seq(Calls)
  /\ closed \in BOOLEAN
  /\ pc \in [Calls -> Points]
  /\ attempt \in [Calls -> Nat]
  /\ outcome \in [Calls -> Outcomes]
  /\ zombies \in [Calls -> Nat]
  /\ batch \in {"none", "running", "returned"}
  /\ next \in Nat \ {0}
  /\ worker \in [Workers -> Calls \cup {NoCall}]

Init ==
  /\ active = 0
  /\ waiters = <<>>
  /\ closed = FALSE
  /\ pc = [c \in Calls |-> "idle"]
  /\ attempt = [c \in Calls |-> 0]
  /\ outcome = [c \in Calls |-> "none"]
  /\ zombies = [c \in Calls |-> 0]
  /\ batch = "none"
  /\ next = 1
  /\ worker = [w \in Workers |-> NoCall]

-----------------------------------------------------------------------------
(* AsyncSemaphore.                                                         *)

Goto(c, point) == pc' = [pc EXCEPT ![c] = point]

Finish(c, result) ==
  /\ Goto(c, "done")
  /\ outcome' = [outcome EXCEPT ![c] = result]

\* execute() up to its first await: it finds the executor closed, gets a
\* slot at once, or joins the waiters.
Enter(c) ==
  /\ pc[c] = "idle"
  /\ \/ /\ closed
        /\ Finish(c, "closed")
        /\ UNCHANGED semaphoreVars
     \/ /\ ~closed
        /\ active < Limit
        /\ active' = active + 1
        /\ Goto(c, "acquired")
        /\ UNCHANGED <<waiters, closed, outcome>>
     \/ /\ ~closed
        /\ active >= Limit
        /\ waiters' = Append(waiters, c)
        /\ Goto(c, "waiting")
        /\ UNCHANGED <<active, closed, outcome>>
  /\ UNCHANGED <<attempt, zombies>>

\* The continuation of a resolved waiter: acquire() looks at `closed' again,
\* but not at the limit.
Resume(c) ==
  /\ pc[c] = "woken"
  /\ \/ /\ closed
        /\ Finish(c, "closed")
        /\ UNCHANGED active
     \/ /\ ~closed
        /\ active' = active + 1
        /\ Goto(c, "acquired")
        /\ UNCHANGED outcome
  /\ UNCHANGED <<waiters, closed, attempt, zombies, batchVars>>

\* execute() ends: the finally block releases the slot and resolves the first
\* waiter, in the same step.
Release(c, result) ==
  /\ active' = active - 1
  /\ outcome' = [outcome EXCEPT ![c] = result]
  /\ IF waiters = <<>>
     THEN Goto(c, "done") /\ UNCHANGED waiters
     ELSE /\ pc' = [pc EXCEPT ![c] = "done", ![Head(waiters)] = "woken"]
          /\ waiters' = Tail(waiters)
  /\ UNCHANGED closed

\* Fault: the queued calls are dropped unanswered.
CleanupDropsWaiters ==
  /\ ~closed
  /\ closed' = TRUE
  /\ waiters' = <<>>
  /\ UNCHANGED <<active, callVars, batchVars>>

\* cleanup(): every waiter is rejected, running activities go on.
Cleanup ==
  /\ ~closed
  /\ closed' = TRUE
  /\ waiters' = <<>>
  /\ pc' = [c \in Calls |-> IF c \in Queued THEN "done" ELSE pc[c]]
  /\ outcome' = [c \in Calls |-> IF c \in Queued THEN "closed" ELSE outcome[c]]
  /\ UNCHANGED <<active, attempt, zombies, batchVars>>

-----------------------------------------------------------------------------
(* The attempts of execute().                                              *)

BeginFirstAttempt(c) ==
  /\ pc[c] = "acquired"
  /\ attempt' = [attempt EXCEPT ![c] = 1]
  /\ Goto(c, "running")
  /\ UNCHANGED <<semaphoreVars, outcome, zombies, batchVars>>

ActivityReturns(c) ==
  /\ pc[c] = "running"
  /\ Release(c, "success")
  /\ UNCHANGED <<attempt, zombies, batchVars>>

\* Faults: a failure ends the call without a release; without further attempts.
AttemptFailsKeepingSlot(c) ==
  /\ pc[c] = "running"
  /\ Finish(c, "failure")
  /\ UNCHANGED <<semaphoreVars, attempt>>

AttemptFailsEarly(c) ==
  /\ pc[c] = "running"
  /\ Release(c, "failure")
  /\ UNCHANGED attempt

\* The catch block of the retry loop: give up, wait, or try again at once.
AttemptFails(c) ==
  /\ pc[c] = "running"
  /\ \/ /\ attempt[c] = MaxAttempts
        /\ Release(c, "failure")
        /\ UNCHANGED attempt
     \/ /\ attempt[c] < MaxAttempts
        /\ HasDelay
        /\ Goto(c, "delaying")
        /\ UNCHANGED <<semaphoreVars, attempt, outcome>>
     \/ /\ attempt[c] < MaxAttempts
        /\ ~HasDelay
        /\ attempt' = [attempt EXCEPT ![c] = @ + 1]
        /\ UNCHANGED <<semaphoreVars, pc, outcome>>

ActivityThrows(c) ==
  /\ AttemptFails(c)
  /\ UNCHANGED <<zombies, batchVars>>

\* The timer wins the race of runWithTimeout(); nothing stops the activity.
AttemptTimesOut(c) ==
  /\ HasTimeout
  /\ AttemptFails(c)
  /\ zombies' = [zombies EXCEPT ![c] = @ + 1]
  /\ UNCHANGED batchVars

ZombieEnds(c) ==
  /\ zombies[c] > 0
  /\ zombies' = [zombies EXCEPT ![c] = @ - 1]
  /\ UNCHANGED <<semaphoreVars, pc, attempt, outcome, batchVars>>

DelayEnds(c) ==
  /\ pc[c] = "delaying"
  /\ attempt' = [attempt EXCEPT ![c] = @ + 1]
  /\ Goto(c, "running")
  /\ UNCHANGED <<semaphoreVars, outcome, zombies, batchVars>>

CallStep(c) ==
  \/ Resume(c) \/ BeginFirstAttempt(c) \/ ActivityReturns(c)
  \/ ActivityThrows(c) \/ AttemptTimesOut(c) \/ DelayEnds(c)

-----------------------------------------------------------------------------
(* The callers.                                                            *)

\* Someone calls execute() directly.
ClientExecutes(c) ==
  /\ c \notin Batched
  /\ Enter(c)
  /\ UNCHANGED batchVars

BeginBatch ==
  /\ batch = "none"
  /\ batch' = "running"
  /\ UNCHANGED <<semaphoreVars, callVars, next, worker>>

Free(w) == worker[w] \in {NoCall} \cup {c \in Calls : pc[c] = "done"}

\* A worker of executeAll() takes the next activity.
WorkerTakes(w) ==
  /\ batch = "running"
  /\ Free(w)
  /\ next <= Len(Batch)
  /\ worker' = [worker EXCEPT ![w] = Batch[next]]
  /\ next' = next + 1
  /\ Enter(Batch[next])
  /\ UNCHANGED batch

\* Promise.all(workers) resolves.
BatchReturns ==
  /\ batch = "running"
  /\ next > Len(Batch)
  /\ \A w \in Workers : Free(w)
  /\ batch' = "returned"
  /\ UNCHANGED <<semaphoreVars, callVars, next, worker>>

Next ==
  \/ \E c \in Calls : ClientExecutes(c) \/ CallStep(c) \/ ZombieEnds(c)
  \/ \E w \in Workers : WorkerTakes(w)
  \/ BeginBatch \/ BatchReturns \/ Cleanup

Spec == Init /\ [][Next]_vars

\* Continuations run, timers fire, and an attempt ends one way or the other.
Fairness ==
  /\ \A c \in Calls : WF_vars(CallStep(c))
  /\ \A w \in Workers : WF_vars(WorkerTakes(w))
  /\ WF_vars(BatchReturns)

FairSpec == Spec /\ Fairness

-----------------------------------------------------------------------------
(* Properties.                                                             *)

\* The semaphore's count is the number of calls between acquire and release:
\* no path through retries, timeouts, failures or close() leaks a slot or
\* frees one twice (Executor.ts:84-98, 143-165).
ActiveCountsOwners == active = Cardinality(Owners)

\* A call waits in the queue exactly while it awaits its waiter, and in one
\* place (Executor.ts:86-87, 96, 104).
QueueHoldsWaiting ==
  /\ Queued = Waiting
  /\ \A i, j \in 1..Len(waiters) : waiters[i] = waiters[j] => i = j

\* No lost wakeup: while calls queue, all slots are owned or on their way to a
\* woken call (Executor.ts:86-97).
NoLostWakeup ==
  waiters # <<>> => active + Cardinality(Woken) >= Limit

\* The semaphore never admits more than maxConcurrentActivities calls
\* (Executor.ts:84-90).
WithinLimit == active <= Limit

\* A call answers failure only after all its attempts, closed only without
\* any, success in between (Executor.ts:131-165).
OutcomeMatchesAttempts ==
  \A c \in Calls :
    /\ outcome[c] = "closed"  => attempt[c] = 0
    /\ outcome[c] = "failure" => attempt[c] = MaxAttempts
    /\ outcome[c] = "success" => attempt[c] \in 1..MaxAttempts

\* Once cleanup() ran no call gets a slot, not even one that a release woke
\* before (Executor.ts:85, 89, 104, 131).
ClosedAdmitsNobody ==
  [][\A c \in Calls : closed /\ pc[c] \notin Owning => pc'[c] \notin Owning]_vars

\* executeAll() returns only when every activity has its result, each run by
\* one worker (Executor.ts:175-187).
BatchComplete ==
  /\ batch = "returned" => \A c \in Batched : outcome[c] # "none"
  /\ \A v, w \in Workers : v # w /\ worker[v] # NoCall => worker[v] # worker[w]

\* Every call of execute() returns, however it was queued, closed, retried or
\* timed out (Executor.ts:127-166).
EveryCallReturns == \A c \in Calls : pc[c] # "idle" ~> pc[c] = "done"
=============================================================================
