--------------------------- MODULE MessageScheduler ---------------------------
(***************************************************************************)
(* The message scheduler (src/src/core/queue/scheduler.ts) over the        *)
(* in-memory queue: `concurrency' polling loops that dequeue, hand the     *)
(* message to a worker and acknowledge, retry or fail it, and the start()  *)
(* and stop() that begin and end them.                                     *)
(*                                                                         *)
(* A step is what the code does between two awaits.  A loop's pc names the *)
(* await it stands at:                                                     *)
(*   "poll"      before `while (this.running)'                             *)
(*   "got"       dequeue() returned a message                              *)
(*   "handling"  inside worker.handle(message)                             *)
(*   "caught"    in the catch block (the worker or ack() threw)            *)
(*   "sleep"     in the pollIntervalMs timer                               *)
(*   "exited"    the loop's promise resolved                               *)
(*   "crashed"   the loop's promise rejected                               *)
(* start() runs each loop up to its first await; here a new loop is placed *)
(* at "poll" and takes that step next, which only adds interleavings.      *)
(***************************************************************************)
EXTENDS RuntimeQueue

CONSTANTS
  Loops,             \* the loop instances that may ever be started
  NoMessage,         \* the job of a loop that holds no message
  Concurrency,       \* loops per start()
  RetryDelay,        \* retryDelayMs
  MaxStops,          \* bound on the calls of stop()
  CancelProcessing,  \* do clients cancel messages a worker is handling?
  OverlappingControl \* do clients call start() before stop() returned?

\* What the proofs need to know of the exponential backoff.
ASSUME BackoffAssumption ==
  \A p \in Profiles : \A n \in 0..p.maxRetries : 2^n \in Nat

ASSUME SchedulerAssumption ==
  /\ IsFiniteSet(Loops)
  /\ NoMessage \notin Ids
  /\ Concurrency \in Nat \ {0}
  /\ RetryDelay \in Nat
  /\ MaxStops \in Nat
  /\ CancelProcessing \in BOOLEAN
  /\ OverlappingControl \in BOOLEAN

VARIABLES
  accepted,  \* the routes some registered worker accepts
  running,   \* the running flag
  loops,     \* the loops field: the promises of the last start()
  control,   \* "idle", or "stopping" while a stop() awaits
  awaited,   \* the loops that stop() awaits
  rejected,  \* history: did a stop() reject?
  stops,     \* calls of stop() so far
  pc,        \* where each loop is
  job,       \* the id of the dequeued copy a loop works on
  copyRetry, \* the retryCount of that copy
  attempts   \* history: how often each message was dequeued

controlVars == <<running, loops, control, awaited, rejected, stops>>
loopVars == <<pc, job, copyRetry, attempts>>
vars == <<queueVars, accepted, controlVars, loopVars>>

Points == {"none", "poll", "got", "handling", "caught", "sleep", "exited",
           "crashed"}

Holding == {"got", "handling", "caught"}   \* a message is in the loop's hands

Live == Holding \cup {"poll", "sleep"}

Busy(l) == pc[l] \in Holding

SchedulerTypeOK ==
  /\ accepted \subseteq Routes
  /\ running \in BOOLEAN
  /\ loops \subseteq Loops
  /\ control \in {"idle", "stopping"}
  /\ awaited \subseteq Loops
  /\ rejected \in BOOLEAN
  /\ stops \in Nat
  /\ pc \in [Loops -> Points]
  /\ job \in [Loops -> Ids \cup {NoMessage}]
  /\ copyRetry \in [Loops -> Nat]
  /\ attempts \in [Ids -> Nat]

TypeOK == QueueTypeOK /\ SchedulerTypeOK

Init ==
  /\ QueueInit
  /\ accepted = {}
  /\ running = FALSE
  /\ loops = {}
  /\ control = "idle"
  /\ awaited = {}
  /\ rejected = FALSE
  /\ stops = 0
  /\ pc = [l \in Loops |-> "none"]
  /\ job = [l \in Loops |-> NoMessage]
  /\ copyRetry = [l \in Loops |-> 0]
  /\ attempts = [id \in Ids |-> 0]

-----------------------------------------------------------------------------
(* Control: start(), stop(), registerWorker() and the queue's clients.     *)

Start ==
  /\ ~running
  /\ OverlappingControl \/ control = "idle"
  /\ \E new \in SUBSET {l \in Loops : pc[l] = "none"} :
       /\ Cardinality(new) = Concurrency
       /\ loops' = new
       /\ pc' = [l \in Loops |-> IF l \in new THEN "poll" ELSE pc[l]]
  /\ running' = TRUE
  /\ UNCHANGED <<queueVars, accepted, control, awaited, rejected, stops, job,
                 copyRetry, attempts>>

Stop ==
  /\ control = "idle"
  /\ stops < MaxStops
  /\ running' = FALSE
  /\ control' = "stopping"
  /\ awaited' = loops
  /\ stops' = stops + 1
  /\ UNCHANGED <<queueVars, accepted, loops, rejected, loopVars>>

\* Fault: stop() does not await its loops.
StopReturnAtOnce ==
  /\ control = "stopping"
  /\ control' = "idle"
  /\ loops' = {}
  /\ awaited' = {}
  /\ UNCHANGED <<queueVars, accepted, running, rejected, stops, loopVars>>

\* Promise.all resolves; the field is cleared whatever start() put there.
StopReturn ==
  /\ control = "stopping"
  /\ \A l \in awaited : pc[l] = "exited"
  /\ control' = "idle"
  /\ loops' = {}
  /\ awaited' = {}
  /\ UNCHANGED <<queueVars, accepted, running, rejected, stops, loopVars>>

\* Promise.all rejects with the first rejected loop; the others go on.
StopReject ==
  /\ control = "stopping"
  /\ \E l \in awaited : pc[l] = "crashed"
  /\ control' = "idle"
  /\ awaited' = {}
  /\ rejected' = TRUE
  /\ UNCHANGED <<queueVars, accepted, running, loops, stops, loopVars>>

RegisterWorker(route) ==
  /\ route \notin accepted
  /\ accepted' = accepted \cup {route}
  /\ UNCHANGED <<queueVars, controlVars, loopVars>>

ClientEnqueue(id, p) ==
  /\ Enqueue(id, p)
  /\ UNCHANGED <<clock, accepted, controlVars, loopVars>>

ClientCancel(id) ==
  /\ Has(id, IF CancelProcessing THEN CancelFrom ELSE {"pending"})
  /\ message' = Moved(id, "cancelled")
  /\ UNCHANGED <<enqueued, clock, accepted, controlVars, loopVars>>

-----------------------------------------------------------------------------
(* A loop: runLoop() and the processNext() inlined in it.                  *)

Goto(l, point) == pc' = [pc EXCEPT ![l] = point]

\* processNext() ends: the loop drops its copy of the message.
Drop(l, point) ==
  /\ Goto(l, point)
  /\ job' = [job EXCEPT ![l] = NoMessage]
  /\ copyRetry' = [copyRetry EXCEPT ![l] = 0]

ExitLoop(l) ==
  /\ pc[l] = "poll"
  /\ ~running
  /\ Goto(l, "exited")
  /\ UNCHANGED <<queueVars, accepted, controlVars, job, copyRetry, attempts>>

TakeNext(l) ==
  /\ pc[l] = "poll"
  /\ running
  /\ \E id \in Ids :
       /\ Dequeue(id, Routes)
       /\ job' = [job EXCEPT ![l] = id]
       /\ copyRetry' = [copyRetry EXCEPT ![l] = message[id].retryCount]
       /\ attempts' = [attempts EXCEPT ![id] = @ + 1]
  /\ Goto(l, "got")
  /\ UNCHANGED <<clock, accepted, controlVars>>

\* Fault: a loop ends when the queue is empty.
FindNothingAndExit(l) ==
  /\ pc[l] = "poll"
  /\ running
  /\ DequeueNothing(Routes)
  /\ Goto(l, "exited")
  /\ UNCHANGED <<clock, accepted, controlVars, job, copyRetry, attempts>>

FindNothing(l) ==
  /\ pc[l] = "poll"
  /\ running
  /\ DequeueNothing(Routes)
  /\ Goto(l, "sleep")
  /\ UNCHANGED <<clock, accepted, controlVars, job, copyRetry, attempts>>

Wake(l) ==
  /\ pc[l] = "sleep"
  /\ Goto(l, "poll")
  /\ UNCHANGED <<queueVars, accepted, controlVars, job, copyRetry, attempts>>

\* No worker accepts the message: fail() it, outside any try block.
RejectUnaccepted(l) ==
  /\ pc[l] = "got"
  /\ message[job[l]].route \notin accepted
  /\ IF Has(job[l], FailFrom)
     THEN message' = Moved(job[l], "failed") /\ Drop(l, "poll")
     ELSE Drop(l, "crashed") /\ UNCHANGED message
  /\ UNCHANGED <<enqueued, clock, accepted, controlVars, attempts>>

BeginHandle(l) ==
  /\ pc[l] = "got"
  /\ message[job[l]].route \in accepted
  /\ Goto(l, "handling")
  /\ UNCHANGED <<queueVars, accepted, controlVars, job, copyRetry, attempts>>

\* Fault: the message is not acknowledged.
HandleReturnsUnacked(l) ==
  /\ pc[l] = "handling"
  /\ Drop(l, "poll")
  /\ UNCHANGED <<queueVars, accepted, controlVars, attempts>>

\* worker.handle() resolves and ack() runs; ack() throws into the catch
\* block when the message is no longer processing.
HandleReturns(l) ==
  /\ pc[l] = "handling"
  /\ IF Has(job[l], AckFrom)
     THEN message' = Moved(job[l], "completed") /\ Drop(l, "poll")
     ELSE Goto(l, "caught") /\ UNCHANGED <<message, job, copyRetry>>
  /\ UNCHANGED <<enqueued, clock, accepted, controlVars, attempts>>

HandleThrows(l) ==
  /\ pc[l] = "handling"
  /\ Goto(l, "caught")
  /\ UNCHANGED <<queueVars, accepted, controlVars, job, copyRetry, attempts>>

\* The retry budget is read from the dequeued copy, not from the queue.
RetriesLeft(l) == copyRetry[l] < message[job[l]].maxRetries

CatchRetry(l) ==
  /\ pc[l] = "caught"
  /\ RetriesLeft(l)
  /\ IF Has(job[l], RetryFrom)
     THEN /\ message' = Retried(job[l], clock + RetryDelay * 2^copyRetry[l])
          /\ Drop(l, "poll")
     ELSE Drop(l, "crashed") /\ UNCHANGED message
  /\ UNCHANGED <<enqueued, clock, accepted, controlVars, attempts>>

CatchFail(l) ==
  /\ pc[l] = "caught"
  /\ ~RetriesLeft(l)
  /\ IF Has(job[l], FailFrom)
     THEN message' = Moved(job[l], "failed") /\ Drop(l, "poll")
     ELSE Drop(l, "crashed") /\ UNCHANGED message
  /\ UNCHANGED <<enqueued, clock, accepted, controlVars, attempts>>

LoopStep(l) ==
  \/ ExitLoop(l) \/ TakeNext(l) \/ FindNothing(l) \/ Wake(l)
  \/ RejectUnaccepted(l) \/ BeginHandle(l) \/ HandleReturns(l)
  \/ HandleThrows(l) \/ CatchRetry(l) \/ CatchFail(l)

TimePasses == Tick /\ UNCHANGED <<accepted, controlVars, loopVars>>

Next ==
  \/ Start \/ Stop \/ StopReturn \/ StopReject
  \/ \E route \in Routes : RegisterWorker(route)
  \/ \E id \in Ids, p \in Profiles : ClientEnqueue(id, p)
  \/ \E id \in Ids : ClientCancel(id)
  \/ \E l \in Loops : LoopStep(l)
  \/ TimePasses

Spec == Init /\ [][Next]_vars

\* The event loop runs every ready continuation, timers fire, and a worker
\* answers, one way or the other; clients are under no obligation.
Fairness ==
  /\ \A l \in Loops : WF_vars(LoopStep(l))
  /\ WF_vars(TimePasses)
  /\ WF_vars(StopReturn \/ StopReject)

FairSpec == Spec /\ Fairness
-----------------------------------------------------------------------------
(* Properties.                                                             *)

\* No message is in the hands of two loops, whatever is cancelled, retried or
\* restarted meanwhile: dequeue() and the retry of the catch block hand a
\* message over exactly once (scheduler.ts:51, 68).
HandedToOneLoop ==
  \A l, k \in Loops : Busy(l) /\ Busy(k) /\ l # k => job[l] # job[k]

\* A processing message is always in the hands of a loop that will settle it,
\* also after a loop died: nothing else would ever move it again
\* (scheduler.ts:60-72).
NoOrphanedMessage ==
  \A id \in Ids :
    message[id].status = "processing" => \E l \in Loops : Busy(l) /\ job[l] = id

\* A message is dequeued at most maxRetries + 1 times, although the catch
\* block decides from the copy taken at dequeue() (scheduler.ts:64-70).
AttemptsWithinBudget ==
  \A id \in Ids : attempts[id] <= message[id].maxRetries + 1

\* A message enqueued without a delay is first dequeued before every younger
\* message of the same or a lower priority, whichever loops take them
\* (inMemoryQueue.ts:59-69).
NoOvertaking ==
  \A a, b \in Ids :
    /\ message[a].status = "pending" /\ attempts[a] = 0
    /\ message[a].availableAt = 0
    /\ message[b].status # "absent"
    /\ message[a].createdAt < message[b].createdAt
    /\ PriorityRank[message[a].priority] >= PriorityRank[message[b].priority]
    => attempts[b] = 0

\* Nothing brings a completed, cancelled or failed message back: the late
\* ack(), retry() or fail() of a loop that still holds a message a client
\* cancelled must be refused (inMemoryQueue.ts:166-170).
SettledForGood ==
  [][\A id \in Ids : Has(id, {"completed", "failed", "cancelled"})
       => message'[id].status = message[id].status]_vars

\* No loop dies: processNext() never rejects, so long as clients leave the
\* messages in processing alone (scheduler.ts:56, 68, 70).
NoLoopCrashes == \A l \in Loops : pc[l] # "crashed"

\* At most `concurrency' messages are worked on at once, also across a stop()
\* and a new start() (scheduler.ts:30-40).
WithinConcurrency ==
  Cardinality({l \in Loops : Busy(l)}) <= Concurrency

\* When stop() has resolved no loop is left that could touch the queue, unless
\* a stop() rejected before: it leaves loops behind that no later stop() of a
\* restarted scheduler awaits (scheduler.ts:36-40).
StoppedMeansIdle ==
  ~running /\ control = "idle" /\ ~rejected
    => \A l \in Loops : pc[l] \notin Live

\* While the scheduler runs, every message enqueued is settled in the end,
\* whatever the workers answer and even though clients may have cost it some
\* of its loops, but not all (scheduler.ts:77-84).
EventuallySettled ==
  \A id \in Ids :
    Has(id, {"pending", "processing"}) /\ running
      ~> \/ Has(id, {"completed", "failed", "cancelled"})
         \/ ~running
         \/ Cardinality({l \in Loops : pc[l] = "crashed"}) >= Concurrency

\* Every stop() returns, however the loops end (scheduler.ts:36-40).
StopAnswers == (control = "stopping") ~> (control = "idle")
=============================================================================
