------------------------ MODULE MessageSchedulerProofs ------------------------
(***************************************************************************)
(* Safety of the message scheduler, for any set of messages, loops,        *)
(* profiles and delays.  The invariants of MessageScheduler are not        *)
(* inductive: whether a loop may settle its message depends on what the    *)
(* queue says of that message, so the inductive invariant ties the two     *)
(* together.                                                               *)
(***************************************************************************)
EXTENDS MessageScheduler, TLAPS

\* What a loop holds is what the queue calls processing, unless a client
\* cancelled it; the copy it works on is up to date.
Holds(l) ==
  IF Busy(l)
  THEN /\ job[l] \in Ids
       /\ message[job[l]].status \in {"processing", "cancelled"}
       /\ copyRetry[l] = message[job[l]].retryCount
       /\ CancelProcessing \/ message[job[l]].status = "processing"
  ELSE TRUE

LoopsHold == \A l \in Loops : Holds(l)

\* The bookkeeping of one message.
Accounted(id) ==
  /\ message[id].status = "absent" => attempts[id] = 0 /\ message[id].retryCount = 0
  /\ message[id].status # "absent" =>
       \E p \in Profiles : message[id].maxRetries = p.maxRetries
  /\ message[id].retryCount <= message[id].maxRetries
  /\ message[id].status = "pending" => attempts[id] <= message[id].retryCount
  /\ attempts[id] <= message[id].retryCount + 1

AllAccounted == \A id \in Ids : Accounted(id)

IInv ==
  /\ TypeOK
  /\ LoopsHold
  /\ HandedToOneLoop
  /\ NoOrphanedMessage
  /\ AllAccounted

-----------------------------------------------------------------------------
(* The initial state.                                                      *)

LEMMA AbsentIsAMessage == Absent \in Message
  BY QueueAssumption DEF Absent, Message, Priorities

LEMMA InitInv == Init => IInv
<1> SUFFICES ASSUME Init PROVE IInv
  OBVIOUS
<1>1. TypeOK
  <2>1. QueueTypeOK
    BY AbsentIsAMessage DEF Init, QueueInit, QueueTypeOK
  <2>2. SchedulerTypeOK
    BY SchedulerAssumption DEF Init, SchedulerTypeOK, Points
  <2> QED BY <2>1, <2>2 DEF TypeOK
<1>2. \A l \in Loops : ~Busy(l)
  BY DEF Init, Busy, Holding
<1>3. \A id \in Ids : /\ message[id].status = "absent"
                      /\ message[id].retryCount = 0
                      /\ message[id].maxRetries = 0
                      /\ attempts[id] = 0
  BY DEF Init, QueueInit, Absent
<1>4. LoopsHold /\ HandedToOneLoop
  BY <1>2 DEF LoopsHold, Holds, HandedToOneLoop
<1>5. NoOrphanedMessage
  BY <1>3 DEF NoOrphanedMessage
<1>6. AllAccounted
  BY <1>3 DEF AllAccounted, Accounted
<1> QED BY <1>1, <1>4, <1>5, <1>6 DEF IInv

-----------------------------------------------------------------------------
(* Type correctness is preserved.                                          *)

LEMMA DelayIsNat ==
  ASSUME NEW now \in Nat, NEW delay \in Nat, NEW power \in Nat
  PROVE  now + delay * power \in Nat
  OBVIOUS

\* The backoff of a message within its retry budget is a natural number.
LEMMA BackoffIsNat ==
  ASSUME IInv, NEW l \in Loops, Busy(l), RetriesLeft(l)
  PROVE  clock + RetryDelay * 2^copyRetry[l] \in Nat
<1> USE DEF IInv, TypeOK, QueueTypeOK, SchedulerTypeOK, Message, ProfileType
<1>1. job[l] \in Ids /\ message[job[l]].status # "absent"
  BY DEF LoopsHold, Holds
<1>2. PICK p \in Profiles : message[job[l]].maxRetries = p.maxRetries
  BY <1>1 DEF AllAccounted, Accounted
<1>3. copyRetry[l] \in Nat /\ copyRetry[l] < p.maxRetries
  BY <1>2 DEF RetriesLeft
<1>6. p.maxRetries \in Nat /\ copyRetry[l] \in 0..p.maxRetries
  BY <1>3, QueueAssumption
<1>4. 2^copyRetry[l] \in Nat
  BY <1>6, BackoffAssumption
<1>5. clock \in Nat /\ RetryDelay \in Nat
  BY SchedulerAssumption
<1> QED BY <1>4, <1>5, DelayIsNat

LEMMA SweptType == ASSUME QueueTypeOK PROVE Swept \in [Ids -> Message]
  BY DEF QueueTypeOK, Swept, Message, Statuses

LEMMA LoopStepType ==
  ASSUME IInv, NEW l \in Loops, LoopStep(l)
  PROVE  TypeOK'
<1> USE DEF IInv, TypeOK, QueueTypeOK, SchedulerTypeOK, Goto, Drop, Points,
            Statuses, queueVars, controlVars, loopVars
<1>1. CASE ExitLoop(l)
  BY <1>1 DEF ExitLoop
<1>2. CASE TakeNext(l)
  <2>1. PICK id \in Ids : /\ Dequeue(id, Routes)
                          /\ job' = [job EXCEPT ![l] = id]
                          /\ copyRetry' = [copyRetry EXCEPT ![l] = message[id].retryCount]
                          /\ attempts' = [attempts EXCEPT ![id] = @ + 1]
    BY <1>2 DEF TakeNext
  <2>2. message' \in [Ids -> Message] /\ enqueued' = enqueued
    BY <2>1, SweptType DEF Dequeue, Message
  <2>3. message[id].retryCount \in Nat
    BY DEF Message
  <2>4. copyRetry' \in [Loops -> Nat] /\ job' \in [Loops -> Ids \cup {NoMessage}]
    BY <2>1, <2>3
  <2>5. attempts' \in [Ids -> Nat]
    BY <2>1
  <2>6. pc' \in [Loops -> Points] /\ UNCHANGED <<clock, accepted, controlVars>>
    BY <1>2 DEF TakeNext
  <2> QED BY <2>2, <2>4, <2>5, <2>6
<1>3. CASE FindNothing(l)
  BY <1>3, SweptType DEF FindNothing, DequeueNothing
<1>4. CASE Wake(l)
  BY <1>4 DEF Wake
<1>5. CASE RejectUnaccepted(l)
  <2>1. message' \in [Ids -> Message]
    BY <1>5 DEF RejectUnaccepted, Moved, Message
  <2> QED BY <1>5, <2>1 DEF RejectUnaccepted
<1>6. CASE BeginHandle(l)
  BY <1>6 DEF BeginHandle
<1>7. CASE HandleReturns(l)
  <2>1. message' \in [Ids -> Message]
    BY <1>7 DEF HandleReturns, Moved, Message
  <2> QED BY <1>7, <2>1 DEF HandleReturns
<1>8. CASE HandleThrows(l)
  BY <1>8 DEF HandleThrows
<1>9. CASE CatchRetry(l)
  <2>1. clock + RetryDelay * 2^copyRetry[l] \in Nat
    BY <1>9, BackoffIsNat DEF CatchRetry, Busy, Holding
  <2>2. message' \in [Ids -> Message]
    <3> DEFINE at == clock + RetryDelay * 2^copyRetry[l]
    <3> at \in Nat
      BY <2>1
    <3> message' = Retried(job[l], at) \/ message' = message
      BY <1>9 DEF CatchRetry
    <3> HIDE DEF at
    <3> QED BY <1>9 DEF Retried, Message
  <2> QED BY <1>9, <2>2 DEF CatchRetry
<1>10. CASE CatchFail(l)
  <2>1. message' \in [Ids -> Message]
    BY <1>10 DEF CatchFail, Moved, Message
  <2> QED BY <1>10, <2>1 DEF CatchFail
<1> QED BY <1>1, <1>2, <1>3, <1>4, <1>5, <1>6, <1>7, <1>8, <1>9, <1>10
        DEF LoopStep

LEMMA NextType == ASSUME IInv, [Next]_vars PROVE TypeOK'
<1> USE DEF IInv, TypeOK, QueueTypeOK, SchedulerTypeOK, queueVars,
            controlVars, loopVars
<1>1. CASE Start
  <2>1. PICK new \in SUBSET {l \in Loops : pc[l] = "none"} :
          /\ loops' = new
          /\ pc' = [l \in Loops |-> IF l \in new THEN "poll" ELSE pc[l]]
    BY <1>1 DEF Start
  <2>2. loops' \subseteq Loops /\ pc' \in [Loops -> Points]
    BY <2>1 DEF Points
  <2> QED BY <1>1, <2>2 DEF Start
<1>2. CASE Stop
  <2>1. stops' = stops + 1 /\ control' = "stopping" /\ awaited' = loops
    BY <1>2 DEF Stop
  <2>2. running' \in BOOLEAN
    BY <1>2 DEF Stop
  <2> QED BY <1>2, <2>1, <2>2 DEF Stop
<1>3. CASE StopReturn \/ StopReject
  BY <1>3 DEF StopReturn, StopReject
<1>4. ASSUME NEW route \in Routes, RegisterWorker(route) PROVE TypeOK'
  BY <1>4 DEF RegisterWorker
<1>5. ASSUME NEW id \in Ids, NEW p \in Profiles, ClientEnqueue(id, p)
      PROVE  TypeOK'
  <2>1. p \in ProfileType
    BY QueueAssumption
  <2>2. message' \in [Ids -> Message]
    BY <1>5, <2>1 DEF ClientEnqueue, Enqueue, ProfileType, Message, Statuses
  <2> QED BY <1>5, <2>2 DEF ClientEnqueue, Enqueue
<1>6. ASSUME NEW id \in Ids, ClientCancel(id) PROVE TypeOK'
  <2>1. message' \in [Ids -> Message]
    BY <1>6 DEF ClientCancel, Moved, Message, Statuses
  <2> QED BY <1>6, <2>1 DEF ClientCancel
<1>7. CASE TimePasses
  BY <1>7 DEF TimePasses, Tick
<1>8. CASE UNCHANGED vars
  BY <1>8 DEF vars
<1> QED BY <1>1, <1>2, <1>3, <1>4, <1>5, <1>6, <1>7, <1>8, LoopStepType
        DEF Next

-----------------------------------------------------------------------------
(* The part of the inductive invariant that ties loops and queue.          *)

Tied == LoopsHold /\ HandedToOneLoop /\ NoOrphanedMessage /\ AllAccounted

\* What the expiry sweep of dequeue() does to a message.
LEMMA SweptMessage ==
  ASSUME QueueTypeOK, NEW id \in Ids
  PROVE  /\ Swept[id].retryCount = message[id].retryCount
         /\ Swept[id].maxRetries = message[id].maxRetries
         /\ \/ Swept[id].status = message[id].status
            \/ message[id].status = "pending" /\ Swept[id].status = "failed"
  BY DEF QueueTypeOK, Swept, Message, Expires

\* A step that moves no loop in or out of its message and changes no message
\* but by letting it expire.
LEMMA NothingMoves ==
  ASSUME IInv,
         \A k \in Loops : /\ Busy(k)' = Busy(k)
                          /\ Busy(k) => /\ job'[k] = job[k]
                                        /\ copyRetry'[k] = copyRetry[k],
         attempts' = attempts,
         \/ message' = message
         \/ message' = Swept
  PROVE  Tied'
<1> USE DEF IInv, TypeOK
<1>1. \A id \in Ids :
        /\ message'[id].retryCount = message[id].retryCount
        /\ message'[id].maxRetries = message[id].maxRetries
        /\ \/ message'[id].status = message[id].status
           \/ message[id].status = "pending" /\ message'[id].status = "failed"
  BY SweptMessage
<1>2. LoopsHold'
  BY <1>1 DEF LoopsHold, Holds
<1>3. HandedToOneLoop'
  BY DEF HandedToOneLoop
<1>4. NoOrphanedMessage'
  BY <1>1 DEF NoOrphanedMessage
<1>5. AllAccounted'
  BY <1>1 DEF AllAccounted, Accounted
<1> QED BY <1>2, <1>3, <1>4, <1>5 DEF Tied

\* A loop takes a message: it was pending, so no other loop holds it.
LEMMA TakeNextTied ==
  ASSUME IInv, NEW l \in Loops, TakeNext(l)
  PROVE  Tied'
<1> USE DEF IInv, TypeOK
<1>1. PICK id \in Ids : /\ Dequeue(id, Routes)
                        /\ job' = [job EXCEPT ![l] = id]
                        /\ copyRetry' = [copyRetry EXCEPT ![l] = message[id].retryCount]
                        /\ attempts' = [attempts EXCEPT ![id] = @ + 1]
  BY DEF TakeNext
<1>2. message[id].status = "pending"
  BY <1>1, SweptMessage DEF Dequeue, Picked, Ready
<1>3. message' = [Swept EXCEPT ![id].status = "processing"]
  BY <1>1 DEF Dequeue
<1>4. /\ message'[id].status = "processing"
      /\ message'[id].retryCount = message[id].retryCount
      /\ message'[id].maxRetries = message[id].maxRetries
  BY <1>3, SweptType, SweptMessage DEF Message
<1>5. \A other \in Ids \ {id} :
        /\ message'[other].retryCount = message[other].retryCount
        /\ message'[other].maxRetries = message[other].maxRetries
        /\ \/ message'[other].status = message[other].status
           \/ message[other].status = "pending" /\ message'[other].status = "failed"
  BY <1>3, SweptType, SweptMessage
<1>6. /\ ~Busy(l) /\ Busy(l)'
      /\ \A k \in Loops \ {l} : /\ Busy(k)' = Busy(k)
                                /\ job'[k] = job[k]
                                /\ copyRetry'[k] = copyRetry[k]
  BY <1>1 DEF TakeNext, Goto, Busy, Holding, SchedulerTypeOK
<1>7. job'[l] = id /\ copyRetry'[l] = message[id].retryCount
  BY <1>1 DEF SchedulerTypeOK
<1>8. \A k \in Loops : Busy(k) => job[k] # id
  BY <1>2 DEF LoopsHold, Holds
<1>9. LoopsHold'
  <2> SUFFICES ASSUME NEW k \in Loops PROVE Holds(k)'
    BY DEF LoopsHold
  <2>1. CASE k = l
    BY <2>1, <1>4, <1>7 DEF Holds
  <2>2. CASE k # l
    BY <2>2, <1>5, <1>6, <1>8 DEF LoopsHold, Holds
  <2> QED BY <2>1, <2>2
<1>10. HandedToOneLoop'
  BY <1>6, <1>7, <1>8 DEF HandedToOneLoop
<1>11. NoOrphanedMessage'
  <2> SUFFICES ASSUME NEW m \in Ids, message'[m].status = "processing"
               PROVE  \E k \in Loops : Busy(k)' /\ job'[k] = m
    BY DEF NoOrphanedMessage
  <2>1. CASE m = id
    BY <2>1, <1>6, <1>7
  <2>2. CASE m # id
    <3>1. message[m].status = "processing"
      BY <2>2, <1>5
    <3>2. PICK k \in Loops : Busy(k) /\ job[k] = m
      BY <3>1 DEF NoOrphanedMessage
    <3> QED BY <3>2, <1>6
  <2> QED BY <2>1, <2>2
<1>12. AllAccounted'
  <2> SUFFICES ASSUME NEW m \in Ids PROVE Accounted(m)'
    BY DEF AllAccounted
  <2>1. attempts'[m] = IF m = id THEN attempts[m] + 1 ELSE attempts[m]
    BY <1>1 DEF SchedulerTypeOK
  <2>2. CASE m = id
    <3>1. /\ Accounted(m) /\ attempts[m] \in Nat
          /\ message[m].retryCount \in Nat
      BY DEF AllAccounted, QueueTypeOK, SchedulerTypeOK, Message
    <3> QED BY <2>1, <2>2, <1>2, <1>4, <3>1 DEF Accounted
  <2>3. CASE m # id
    BY <2>1, <2>3, <1>5 DEF AllAccounted, Accounted
  <2> QED BY <2>2, <2>3
<1> QED BY <1>9, <1>10, <1>11, <1>12 DEF Tied

\* A loop drops its message, which is no longer processing.
LEMMA DropTied ==
  ASSUME IInv, NEW l \in Loops, Busy(l), NEW held \in Ids, job[l] = held,
         NEW point, point \notin Holding, Drop(l, point),
         attempts' = attempts,
         \A id \in Ids : id # held => message'[id] = message[id],
         message'[held].status # "processing",
         Accounted(held)'
  PROVE  Tied'
<1> USE DEF IInv, TypeOK
<1>1. /\ ~Busy(l)'
      /\ \A k \in Loops \ {l} : /\ Busy(k)' = Busy(k)
                                /\ job'[k] = job[k]
                                /\ copyRetry'[k] = copyRetry[k]
  BY DEF Drop, Goto, Busy, SchedulerTypeOK
<1>2. \A k \in Loops \ {l} : Busy(k) => job[k] # held
  BY DEF HandedToOneLoop
<1>3. LoopsHold'
  BY <1>1, <1>2 DEF LoopsHold, Holds
<1>4. HandedToOneLoop'
  BY <1>1 DEF HandedToOneLoop
<1>5. NoOrphanedMessage'
  <2> SUFFICES ASSUME NEW m \in Ids, message'[m].status = "processing"
               PROVE  \E k \in Loops : Busy(k)' /\ job'[k] = m
    BY DEF NoOrphanedMessage
  <2>1. m # held /\ message[m].status = "processing"
    OBVIOUS
  <2>2. PICK k \in Loops : Busy(k) /\ job[k] = m
    BY <2>1 DEF NoOrphanedMessage
  <2> QED BY <2>1, <2>2, <1>1
<1>6. AllAccounted'
  <2> SUFFICES ASSUME NEW m \in Ids, m # held PROVE Accounted(m)'
    BY DEF AllAccounted
  <2> QED BY DEF AllAccounted, Accounted
<1> QED BY <1>3, <1>4, <1>5, <1>6 DEF Tied

LEMMA LoopStepTied ==
  ASSUME IInv, NEW l \in Loops, LoopStep(l)
  PROVE  Tied'
<1> USE DEF IInv, TypeOK
<1>1. Busy(l) => /\ job[l] \in Ids
                 /\ message[job[l]].status \in {"processing", "cancelled"}
                 /\ copyRetry[l] = message[job[l]].retryCount
                 /\ Accounted(job[l])
  BY DEF LoopsHold, Holds, AllAccounted
<1>2. CASE ExitLoop(l) \/ Wake(l)
  BY <1>2, NothingMoves
     DEF ExitLoop, Wake, Goto, Busy, Holding, SchedulerTypeOK, queueVars
<1>3. CASE FindNothing(l)
  BY <1>3, NothingMoves
     DEF FindNothing, DequeueNothing, Goto, Busy, Holding, SchedulerTypeOK
<1>4. CASE TakeNext(l)
  BY <1>4, TakeNextTied
<1>5. CASE BeginHandle(l) \/ HandleThrows(l)
  BY <1>5, NothingMoves
     DEF BeginHandle, HandleThrows, Goto, Busy, Holding, SchedulerTypeOK,
         queueVars
<1>6. ASSUME NEW held \in Ids, held = job[l], Busy(l), Drop(l, "crashed"),
             message' = message, attempts' = attempts,
             message[held].status # "processing"
      PROVE  Tied'
  <2>1. Accounted(held)'
    BY <1>1, <1>6 DEF Accounted
  <2> QED BY <1>6, <2>1, DropTied DEF Holding
<1>7. ASSUME NEW held \in Ids, held = job[l], Busy(l), Drop(l, "poll"),
             attempts' = attempts,
             NEW s \in {"failed", "completed"}, message' = Moved(held, s)
      PROVE  Tied'
  <2>1. /\ message'[held].status = s
        /\ message'[held].retryCount = message[held].retryCount
        /\ message'[held].maxRetries = message[held].maxRetries
        /\ \A id \in Ids : id # held => message'[id] = message[id]
    BY <1>1, <1>7 DEF Moved, QueueTypeOK, Message
  <2>2. Accounted(held)'
    BY <1>1, <1>7, <2>1 DEF Accounted
  <2> QED BY <1>7, <2>1, <2>2, DropTied DEF Holding
<1>8. CASE RejectUnaccepted(l) \/ CatchFail(l)
  <2>1. Busy(l) /\ attempts' = attempts
    BY <1>8 DEF RejectUnaccepted, CatchFail, Busy, Holding
  <2> PICK held \in Ids : held = job[l]
    BY <1>1, <2>1
  <2>2. CASE Has(held, FailFrom)
    <3>1. message' = Moved(held, "failed") /\ Drop(l, "poll")
      BY <1>8, <2>2 DEF RejectUnaccepted, CatchFail
    <3> QED BY <2>1, <3>1, <1>7
  <2>3. CASE ~Has(held, FailFrom)
    <3>1. message' = message /\ Drop(l, "crashed")
      BY <1>8, <2>3 DEF RejectUnaccepted, CatchFail
    <3> QED BY <2>1, <2>3, <3>1, <1>6 DEF Has, FailFrom
  <2> QED BY <2>2, <2>3
<1>10. CASE HandleReturns(l)
  <2>1. CASE Has(job[l], AckFrom)
    <3>1. Busy(l) /\ attempts' = attempts
      BY <1>10 DEF HandleReturns, Busy, Holding
    <3> PICK held \in Ids : held = job[l]
      BY <1>1, <3>1
    <3>2. message' = Moved(held, "completed") /\ Drop(l, "poll")
      BY <1>10, <2>1 DEF HandleReturns
    <3> QED BY <3>1, <3>2, <1>7
  <2>2. CASE ~Has(job[l], AckFrom)
    BY <1>10, <2>2, NothingMoves
       DEF HandleReturns, Goto, Busy, Holding, SchedulerTypeOK
  <2> QED BY <2>1, <2>2
<1>11. CASE CatchRetry(l)
  <2>1. /\ Busy(l) /\ RetriesLeft(l) /\ attempts' = attempts
        /\ \E id \in Ids : id = job[l]
    BY <1>1, <1>11 DEF CatchRetry, Busy, Holding
  <2>2. CASE ~Has(job[l], RetryFrom)
    BY <1>11, <1>6, <2>1, <2>2 DEF CatchRetry, Has, RetryFrom
  <2>3. CASE Has(job[l], RetryFrom)
    <3>1. PICK at : message' = Retried(job[l], at) /\ Drop(l, "poll")
      BY <1>11, <2>3 DEF CatchRetry
    <3> PICK held \in Ids : held = job[l]
      BY <2>1
    <3>2. /\ message'[held].status = "pending"
          /\ message'[held].retryCount = message[held].retryCount + 1
          /\ message'[held].maxRetries = message[held].maxRetries
          /\ \A id \in Ids : id # held => message'[id] = message[id]
      BY <1>1, <2>1, <3>1 DEF Retried, QueueTypeOK, Message
    <3>3. Accounted(held)'
      BY <1>1, <2>1, <3>1, <3>2
         DEF Accounted, RetriesLeft, QueueTypeOK, SchedulerTypeOK, Message
    <3> QED BY <2>1, <3>1, <3>2, <3>3, DropTied DEF Holding
  <2> QED BY <2>2, <2>3
<1> QED BY <1>2, <1>3, <1>4, <1>5, <1>8, <1>10, <1>11 DEF LoopStep

LEMMA NextTied == ASSUME IInv, [Next]_vars PROVE Tied'
<1> USE DEF IInv, TypeOK
<1>1. CASE Start
  BY <1>1, NothingMoves DEF Start, Busy, Holding, SchedulerTypeOK, queueVars
<1>2. CASE \/ Stop \/ StopReturn \/ StopReject \/ TimePasses \/ UNCHANGED vars
           \/ \E route \in Routes : RegisterWorker(route)
  BY <1>2, NothingMoves
     DEF Stop, StopReturn, StopReject, TimePasses, Tick, RegisterWorker, Busy,
         queueVars, controlVars, loopVars, vars
<1>3. ASSUME NEW id \in Ids, NEW p \in Profiles, ClientEnqueue(id, p)
      PROVE  Tied'
  <2>1. /\ message[id].status = "absent"
        /\ message'[id].status = "pending"
        /\ message'[id].retryCount = 0
        /\ message'[id].maxRetries = p.maxRetries
        /\ \A other \in Ids : other # id => message'[other] = message[other]
    BY <1>3 DEF ClientEnqueue, Enqueue, Has, QueueTypeOK
  <2>2. UNCHANGED <<pc, job, copyRetry, attempts>>
    BY <1>3 DEF ClientEnqueue, loopVars
  <2>3. \A k \in Loops : Busy(k) => job[k] # id
    BY <2>1 DEF LoopsHold, Holds
  <2>4. LoopsHold' /\ HandedToOneLoop'
    BY <2>1, <2>2, <2>3 DEF LoopsHold, Holds, HandedToOneLoop, Busy
  <2>5. NoOrphanedMessage'
    BY <2>1, <2>2 DEF NoOrphanedMessage, Busy
  <2>6. p.maxRetries \in Nat
    BY QueueAssumption DEF ProfileType
  <2>7. \A m \in Ids : Accounted(m)
    BY DEF AllAccounted
  <2>8. Accounted(id)'
    BY <2>1, <2>2, <2>6, <2>7 DEF Accounted
  <2>9. \A m \in Ids : m # id => Accounted(m)'
    BY <2>1, <2>2, <2>7 DEF Accounted
  <2> QED BY <2>4, <2>5, <2>8, <2>9 DEF Tied, AllAccounted
<1>4. ASSUME NEW id \in Ids, ClientCancel(id) PROVE Tied'
  <2>1. /\ message[id].status \in {"pending", "processing"}
        /\ message[id].status = "processing" => CancelProcessing
        /\ message'[id].status = "cancelled"
        /\ message'[id].retryCount = message[id].retryCount
        /\ message'[id].maxRetries = message[id].maxRetries
        /\ \A other \in Ids : other # id => message'[other] = message[other]
    BY <1>4 DEF ClientCancel, Has, CancelFrom, Moved, QueueTypeOK, Message
  <2>2. UNCHANGED <<pc, job, copyRetry, attempts>>
    BY <1>4 DEF ClientCancel, loopVars
  <2>3. LoopsHold' /\ HandedToOneLoop'
    BY <2>1, <2>2 DEF LoopsHold, Holds, HandedToOneLoop, Busy
  <2>4. NoOrphanedMessage'
    BY <2>1, <2>2 DEF NoOrphanedMessage, Busy
  <2>5. \A m \in Ids : Accounted(m)
    BY DEF AllAccounted
  <2>6. \A m \in Ids : Accounted(m)'
    BY <2>1, <2>2, <2>5 DEF Accounted
  <2> QED BY <2>3, <2>4, <2>6 DEF Tied, AllAccounted
<1> QED BY <1>1, <1>2, <1>3, <1>4, LoopStepTied DEF Next

-----------------------------------------------------------------------------
(* The theorems.                                                           *)

\* The inductive invariant: types, what each loop holds, and the retry
\* bookkeeping of each message.
THEOREM Invariance == Spec => []IInv
<1>1. IInv /\ [Next]_vars => IInv'
  BY NextType, NextTied DEF Tied, IInv
<1> QED BY InitInv, <1>1, PTL DEF Spec

\* Every variable keeps its type (scheduler.ts:11-16, inMemoryQueue.ts:22-23).
THEOREM TypeCorrect == Spec => []TypeOK
  BY Invariance, PTL DEF IInv

\* Two loops never work on one message, whatever clients cancel
\* (scheduler.ts:51, 68).
THEOREM OneLoopPerMessage == Spec => []HandedToOneLoop
  BY Invariance, PTL DEF IInv

\* A processing message is always in the hands of a loop (scheduler.ts:60-72).
THEOREM NeverOrphaned == Spec => []NoOrphanedMessage
  BY Invariance, PTL DEF IInv

\* No message is dequeued more often than its retry budget allows
\* (scheduler.ts:64-70).
THEOREM RetryBudget == Spec => []AttemptsWithinBudget
<1>1. IInv => AttemptsWithinBudget
  BY DEF IInv, TypeOK, QueueTypeOK, SchedulerTypeOK, Message, AllAccounted,
         Accounted, AttemptsWithinBudget
<1> QED BY Invariance, <1>1, PTL

LEMMA StepSettles ==
  ASSUME IInv, [Next]_vars, NEW id \in Ids,
         Has(id, {"completed", "failed", "cancelled"})
  PROVE  message'[id].status = message[id].status
<1> USE DEF IInv, TypeOK, QueueTypeOK
<1>1. CASE message' = message
  BY <1>1
<1>2. ASSUME NEW l \in Loops, LoopStep(l), message' # message
      PROVE  message'[id].status = message[id].status
  <2>1. Busy(l) => /\ job[l] \in Ids
                   /\ message[job[l]].status \in {"processing", "cancelled"}
    BY DEF LoopsHold, Holds
  <2>2. CASE TakeNext(l) \/ FindNothing(l)
    <3>1. Swept[id].status = message[id].status
      BY SweptMessage DEF Has
    <3>2. PICK other \in Ids :
            \/ message' = Swept
            \/ /\ Swept[other].status = "pending"
               /\ message' = [Swept EXCEPT ![other].status = "processing"]
      BY <2>2 DEF TakeNext, FindNothing, Dequeue, DequeueNothing, Picked, Ready
    <3>3. message'[id].status = Swept[id].status
      BY <3>1, <3>2, SweptType DEF Has
    <3> QED BY <3>1, <3>3
  <2>3. CASE RejectUnaccepted(l) \/ CatchFail(l) \/ HandleReturns(l)
    <3>1. Busy(l) /\ message[job[l]].status \in {"pending", "processing"}
      BY <1>2, <2>3
         DEF RejectUnaccepted, CatchFail, HandleReturns, Busy, Holding, Has,
             FailFrom, AckFrom
    <3>2. job[l] # id
      BY <3>1 DEF Has
    <3> QED BY <1>2, <2>3, <3>2
            DEF RejectUnaccepted, CatchFail, HandleReturns, Moved
  <2>4. CASE CatchRetry(l)
    <3>1. Busy(l) /\ message[job[l]].status \in {"processing", "failed"}
      BY <1>2, <2>4 DEF CatchRetry, Busy, Holding, Has, RetryFrom
    <3>2. job[l] # id
      BY <2>1, <3>1 DEF Has
    <3> QED BY <1>2, <2>4, <3>2 DEF CatchRetry, Retried
  <2> QED BY <1>2, <2>2, <2>3, <2>4
          DEF LoopStep, ExitLoop, Wake, BeginHandle, HandleThrows, queueVars
<1>3. ASSUME NEW other \in Ids, NEW p \in Profiles, ClientEnqueue(other, p)
      PROVE  message'[id].status = message[id].status
  BY <1>3 DEF ClientEnqueue, Enqueue, Has
<1>4. ASSUME NEW other \in Ids, ClientCancel(other)
      PROVE  message'[id].status = message[id].status
  BY <1>4 DEF ClientCancel, Moved, Has, CancelFrom
<1> QED BY <1>1, <1>2, <1>3, <1>4
        DEF Next, Start, Stop, StopReturn, StopReject, RegisterWorker,
            TimePasses, Tick, queueVars, vars

\* What is completed, failed or cancelled stays so, however late a loop comes
\* back to it (inMemoryQueue.ts:166-170, scheduler.ts:60-72).
THEOREM SettlementIsFinal == Spec => SettledForGood
<1>1. IInv /\ [Next]_vars =>
        [\A id \in Ids : Has(id, {"completed", "failed", "cancelled"})
           => message'[id].status = message[id].status]_vars
  BY StepSettles
<1> QED BY Invariance, <1>1, PTL DEF Spec, SettledForGood

\* If clients leave processing messages alone, no loop dies
\* (scheduler.ts:56, 68, 70).
THEOREM LoopsSurvive == ASSUME ~CancelProcessing PROVE Spec => []NoLoopCrashes
<1>1. Init => NoLoopCrashes
  BY DEF Init, NoLoopCrashes
<1>2. IInv /\ NoLoopCrashes /\ [Next]_vars => NoLoopCrashes'
  <2> SUFFICES ASSUME IInv, NoLoopCrashes, [Next]_vars, NEW k \in Loops
               PROVE  pc'[k] # "crashed"
    BY DEF NoLoopCrashes
  <2> USE DEF IInv, TypeOK, SchedulerTypeOK, NoLoopCrashes
  <2>1. ASSUME NEW l \in Loops, LoopStep(l) PROVE pc'[k] # "crashed"
    <3>1. Busy(l) => /\ Has(job[l], FailFrom)
                     /\ Has(job[l], RetryFrom)
      BY DEF LoopsHold, Holds, Has, FailFrom, RetryFrom
    <3>2. \E point \in Points \ {"crashed"} : Goto(l, point)
      BY <2>1, <3>1
         DEF LoopStep, ExitLoop, TakeNext, FindNothing, Wake, RejectUnaccepted,
             BeginHandle, HandleReturns, HandleThrows, CatchRetry, CatchFail,
             Drop, Busy, Holding, Points
    <3> QED BY <3>2 DEF Goto
  <2>2. CASE Start
    BY <2>2 DEF Start
  <2> QED BY <2>1, <2>2
          DEF Next, Stop, StopReturn, StopReject, RegisterWorker,
              ClientEnqueue, ClientCancel, TimePasses, loopVars, vars
<1> QED BY Invariance, <1>1, <1>2, PTL DEF Spec

\* While no stop() rejected, the loops field lists every loop that may still
\* act, and a stop() awaits exactly these.
LoopsListed ==
  /\ control = "stopping" => ~running
  /\ ~rejected =>
       /\ \A l \in Loops : pc[l] \in Live => l \in loops
       /\ control = "stopping" => awaited = loops
       /\ ~running /\ control = "idle" => \A l \in Loops : pc[l] \notin Live

\* If start() waits for a running stop(), a stop() that resolved leaves no loop
\* behind, however often the scheduler was stopped and started before, as long
\* as none of its stops rejected (scheduler.ts:30-40).
THEOREM StopsAreThorough ==
  ASSUME ~OverlappingControl PROVE Spec => []StoppedMeansIdle
<1>1. Init => LoopsListed
  BY DEF Init, LoopsListed, Live, Holding
<1>2. ASSUME IInv, LoopsListed, [Next]_vars PROVE LoopsListed'
  <2> USE DEF IInv, TypeOK, SchedulerTypeOK, LoopsListed
  <2>1. ASSUME NEW l \in Loops, LoopStep(l) PROVE LoopsListed'
    <3>1. pc[l] \in Live /\ \E point \in Points : Goto(l, point)
      BY <1>2, <2>1
         DEF LoopStep, ExitLoop, TakeNext, FindNothing, Wake, RejectUnaccepted,
             BeginHandle, HandleReturns, HandleThrows, CatchRetry, CatchFail,
             Drop, Live, Holding, Points
    <3>2. \A k \in Loops : pc'[k] \in Live => pc[k] \in Live
      BY <1>2, <3>1 DEF Goto
    <3>3. UNCHANGED controlVars
      BY <2>1
         DEF LoopStep, ExitLoop, TakeNext, FindNothing, Wake, RejectUnaccepted,
             BeginHandle, HandleReturns, HandleThrows, CatchRetry, CatchFail
    <3> QED BY <1>2, <3>2, <3>3 DEF controlVars
  <2>2. CASE Start
    <3>1. PICK new \in SUBSET {l \in Loops : pc[l] = "none"} :
            /\ loops' = new
            /\ pc' = [l \in Loops |-> IF l \in new THEN "poll" ELSE pc[l]]
      BY <1>2, <2>2 DEF Start
    <3>2. control = "idle" /\ ~running /\ UNCHANGED <<control, awaited, rejected>> /\ running'
      BY <1>2, <2>2 DEF Start
    <3>3. ~rejected => \A l \in Loops : pc'[l] \in Live => l \in new
      BY <1>2, <3>1, <3>2
    <3> QED BY <1>2, <3>1, <3>2, <3>3
  <2>3. CASE Stop
    BY <1>2, <2>3 DEF Stop, loopVars
  <2>4. CASE StopReturn
    <3>1. ~rejected => \A l \in Loops : pc[l] \notin Live
      BY <1>2, <2>4 DEF StopReturn, Live, Holding
    <3> QED BY <1>2, <2>4, <3>1 DEF StopReturn, loopVars
  <2>5. CASE StopReject
    BY <1>2, <2>5 DEF StopReject, loopVars
  <2>6. CASE UNCHANGED <<controlVars, pc>>
    BY <1>2, <2>6 DEF controlVars
  <2> QED BY <1>2, <2>1, <2>2, <2>3, <2>4, <2>5, <2>6
          DEF Next, RegisterWorker, ClientEnqueue, ClientCancel, TimePasses, loopVars, vars
<1>3. LoopsListed => StoppedMeansIdle
  BY DEF LoopsListed, StoppedMeansIdle
<1> QED BY Invariance, <1>1, <1>2, <1>3, PTL DEF Spec
=============================================================================
