------------------------- MODULE ToolExecutionProofs -------------------------
(***************************************************************************)
(* What runs a tool: the executor's semaphore, the workspace under         *)
(* verification that the tools change, and the loop that plans their       *)
(* calls; for any number of calls, slots, attempts, files and actors.      *)
(*                                                                         *)
(* The executor: counting the owners needs the finiteness of the calls;    *)
(* that no wakeup is lost needs to know that the queue of waiters holds    *)
(* exactly the waiting calls, each once, so that a release wakes a call    *)
(* that really waits.                                                      *)
(*                                                                         *)
(* The workspace: what a transaction remembers of a file is what the file  *)
(* held before its first change, as long as no other call comes between.   *)
(*                                                                         *)
(* The loop: what the rules let through, judged by what they saw of the    *)
(* log, still holds of the whole log when the turn of a plan comes.        *)
(***************************************************************************)
EXTENDS AsyncExecutor, VerifiedWorkspace, GroundingLoop, FiniteSetTheorems,
        SequenceTheorems, TLAPS

IInv ==
  /\ TypeOK
  /\ ActiveCountsOwners
  /\ QueueHoldsWaiting
  /\ NoLostWakeup
  /\ closed => waiters = <<>>

-----------------------------------------------------------------------------
(* Queues without duplicates.                                              *)

Elements(q) == {q[i] : i \in 1..Len(q)}

Distinct(q) == \A i, j \in 1..Len(q) : q[i] = q[j] => i = j

LEMMA AppendNew ==
  ASSUME NEW S, NEW q \in Seq(S), NEW e \in S, Distinct(q), e \notin Elements(q)
  PROVE  /\ Elements(Append(q, e)) = Elements(q) \cup {e}
         /\ Distinct(Append(q, e))
<1> DEFINE r == Append(q, e)
<1>1. /\ r \in Seq(S) /\ Len(r) = Len(q) + 1 /\ Len(q) \in Nat
      /\ \A i \in 1..Len(q) : r[i] = q[i]
      /\ r[Len(q) + 1] = e
  BY AppendProperties, LenProperties
<1> HIDE DEF r
<1>2. Elements(r) = Elements(q) \cup {e}
  <2>1. \A i \in 1..Len(r) : i \in 1..Len(q) \/ i = Len(q) + 1
    BY <1>1
  <2>2. \A i \in 1..Len(q) : i \in 1..Len(r)
    BY <1>1
  <2>3. Len(q) + 1 \in 1..Len(r)
    BY <1>1
  <2> QED BY <1>1, <2>1, <2>2, <2>3 DEF Elements
<1>3. Distinct(r)
  BY <1>1 DEF Distinct, Elements
<1> QED BY <1>2, <1>3 DEF r

LEMMA TailDistinct ==
  ASSUME NEW S, NEW q \in Seq(S), q # <<>>, Distinct(q)
  PROVE  /\ Head(q) \in Elements(q)
         /\ Elements(Tail(q)) = Elements(q) \ {Head(q)}
         /\ Distinct(Tail(q))
<1> DEFINE r == Tail(q)
<1>1. /\ Len(q) \in Nat \ {0} /\ Len(r) = Len(q) - 1
      /\ \A i \in 1..Len(r) : r[i] = q[i + 1]
      /\ Head(q) = q[1]
  BY HeadTailProperties, EmptySeq
<1> HIDE DEF r
<1>2. \A i \in 1..Len(r) : i + 1 \in 1..Len(q)
  BY <1>1
<1>3. \A i \in 1..Len(q) : i # 1 => i - 1 \in 1..Len(r) /\ r[i - 1] = q[i]
  BY <1>1
<1>4. Head(q) \in Elements(q)
  BY <1>1 DEF Elements
<1>5. Elements(r) = Elements(q) \ {Head(q)}
  <2>1. \A x \in Elements(r) : x \in Elements(q) /\ x # Head(q)
    BY <1>1, <1>2 DEF Elements, Distinct
  <2>2. \A x \in Elements(q) : x # Head(q) => x \in Elements(r)
    BY <1>1, <1>3 DEF Elements
  <2> QED BY <2>1, <2>2 DEF Elements
<1>6. Distinct(r)
  BY <1>1, <1>2 DEF Distinct
<1> QED BY <1>4, <1>5, <1>6 DEF r

-----------------------------------------------------------------------------
(* Initial state and types.                                                *)

LEMMA InitInv == Init => IInv
<1> SUFFICES ASSUME Init PROVE IInv
  OBVIOUS
<1>1. TypeOK
  <2>1. waiters \in Seq(Calls)
    BY EmptySeq DEF Init
  <2>2. next \in Nat \ {0} /\ active \in Nat
    BY DEF Init
  <2>3. worker \in [Workers -> Calls \cup {NoCall}]
    BY DEF Init
  <2> QED BY <2>1, <2>2, <2>3 DEF Init, TypeOK, Points, Outcomes
<1>2. Owners = {} /\ Waiting = {}
  BY DEF Init, Owners, Waiting, Owning
<1>3. ActiveCountsOwners
  BY <1>2, FS_EmptySet DEF Init, ActiveCountsOwners
<1>4. Len(waiters) = 0
  BY DEF Init
<1>5. QueueHoldsWaiting
  BY <1>2, <1>4 DEF QueueHoldsWaiting, Queued
<1>6. NoLostWakeup /\ (closed => waiters = <<>>)
  BY DEF Init, NoLostWakeup
<1> QED BY <1>1, <1>3, <1>5, <1>6 DEF IInv

LEMMA SetsAreFinite ==
  /\ IsFiniteSet(Owners) /\ Cardinality(Owners) \in Nat
  /\ IsFiniteSet(Woken) /\ Cardinality(Woken) \in Nat
<1>1. Owners \subseteq Calls /\ Woken \subseteq Calls
  BY DEF Owners, Woken
<1> QED BY <1>1, ExecutorAssumption, FS_Subset, FS_CardinalityType

\* A call that owns a slot is counted, so releasing it leaves active natural.
LEMMA OwnerIsCounted ==
  ASSUME IInv, NEW c \in Owners
  PROVE  active \in Nat \ {0} /\ active - 1 = Cardinality(Owners \ {c})
<1>1. Cardinality(Owners \ {c}) \in Nat
  BY SetsAreFinite, FS_RemoveElement, FS_CardinalityType
<1>2. Cardinality(Owners \ {c}) = Cardinality(Owners) - 1
  BY SetsAreFinite, FS_RemoveElement
<1> QED BY <1>1, <1>2, SetsAreFinite DEF IInv, ActiveCountsOwners

-----------------------------------------------------------------------------
(* The four ways a step changes the semaphore.                             *)

\* Who owns, waits or is woken, and the semaphore itself, stay the same.
LEMMA SameSemaphore ==
  ASSUME IInv, TypeOK', Owners' = Owners, Woken' = Woken, Waiting' = Waiting,
         UNCHANGED semaphoreVars
  PROVE  IInv'
  BY DEF IInv, ActiveCountsOwners, QueueHoldsWaiting, NoLostWakeup, Queued,
         semaphoreVars

LEMMA EnterInv ==
  ASSUME IInv, TypeOK', NEW c \in Calls, Enter(c)
  PROVE  IInv'
<1> USE DEF IInv, TypeOK
<1>1. pc[c] = "idle" /\ c \notin Owners /\ c \notin Waiting
  BY DEF Enter, Owners, Waiting, Owning
<1>2. CASE closed
  <2>1. Owners' = Owners /\ Woken' = Woken /\ Waiting' = Waiting
    BY <1>1, <1>2 DEF Enter, Finish, Goto, Owners, Woken, Waiting, Owning
  <2> QED BY <1>2, <2>1, SameSemaphore DEF Enter
<1>3. CASE ~closed /\ active < Limit
  <2>1. Owners' = Owners \cup {c} /\ Woken' = Woken /\ Waiting' = Waiting
    BY <1>1, <1>3, ExecutorAssumption
       DEF Enter, Goto, Owners, Woken, Waiting, Owning
  <2>2. active' = active + 1 /\ UNCHANGED <<waiters, closed>>
    BY <1>1, <1>3, ExecutorAssumption DEF Enter
  <2>3. ActiveCountsOwners'
    BY <1>1, <2>1, <2>2, SetsAreFinite, FS_AddElement DEF ActiveCountsOwners
  <2>4. QueueHoldsWaiting'
    BY <2>1, <2>2 DEF QueueHoldsWaiting, Queued
  <2>5. NoLostWakeup'
    BY <2>1, <2>2, SetsAreFinite, ExecutorAssumption DEF NoLostWakeup
  <2> QED BY <2>2, <2>3, <2>4, <2>5
<1>4. CASE ~closed /\ active >= Limit
  <2>1. Owners' = Owners /\ Woken' = Woken /\ Waiting' = Waiting \cup {c}
    <3>1. pc'[c] = "waiting" /\ \A b \in Calls \ {c} : pc'[b] = pc[b]
      BY <1>4, ExecutorAssumption DEF Enter, Goto
    <3>2. Owners' = Owners
      BY <1>1, <3>1 DEF Owners, Owning
    <3>3. Woken' = Woken /\ Waiting' = Waiting \cup {c}
      BY <1>1, <3>1 DEF Woken, Waiting
    <3> QED BY <3>2, <3>3
  <2>2. waiters' = Append(waiters, c) /\ UNCHANGED <<active, closed>>
    BY <1>1, <1>4, ExecutorAssumption DEF Enter
  <2>3. QueueHoldsWaiting'
    <3>1. Distinct(waiters) /\ c \notin Elements(waiters)
      BY <1>1 DEF QueueHoldsWaiting, Queued, Distinct, Elements
    <3>2. /\ Elements(Append(waiters, c)) = Elements(waiters) \cup {c}
          /\ Distinct(Append(waiters, c))
      BY <3>1, AppendNew
    <3>3. Queued' = Elements(Append(waiters, c)) /\ Queued = Elements(waiters)
      BY <2>2 DEF Queued, Elements
    <3>4. Queued' = Waiting'
      BY <2>1, <3>2, <3>3 DEF QueueHoldsWaiting
    <3> QED BY <2>2, <3>2, <3>4 DEF QueueHoldsWaiting, Distinct
  <2>4. ActiveCountsOwners' /\ NoLostWakeup'
    BY <1>4, <2>1, <2>2, SetsAreFinite, ExecutorAssumption
       DEF ActiveCountsOwners, NoLostWakeup
  <2> QED BY <1>4, <2>2, <2>3, <2>4
<1>5. active < Limit \/ active >= Limit
  BY ExecutorAssumption
<1> QED BY <1>2, <1>3, <1>4, <1>5

LEMMA ResumeInv ==
  ASSUME IInv, TypeOK', NEW c \in Calls, Resume(c)
  PROVE  IInv'
<1> USE DEF IInv, TypeOK
<1>1. c \in Woken /\ c \notin Owners
  BY DEF Resume, Woken, Owners, Owning
<1>2. Woken' = Woken \ {c} /\ Waiting' = Waiting /\ UNCHANGED <<waiters, closed>>
  BY DEF Resume, Finish, Goto, Woken, Waiting
<1>3. Cardinality(Woken') = Cardinality(Woken) - 1
  BY <1>1, <1>2, SetsAreFinite, FS_RemoveElement
<1>4. QueueHoldsWaiting'
  BY <1>2 DEF QueueHoldsWaiting, Queued
<1>5. CASE closed
  <2>1. Owners' = Owners /\ active' = active
    BY <1>5 DEF Resume, Finish, Goto, Owners, Owning
  <2> QED BY <1>2, <1>4, <1>5, <2>1 DEF ActiveCountsOwners, NoLostWakeup
<1>6. CASE ~closed
  <2>1. Owners' = Owners \cup {c} /\ active' = active + 1
    BY <1>6 DEF Resume, Finish, Goto, Owners, Owning
  <2>2. ActiveCountsOwners'
    BY <1>1, <2>1, SetsAreFinite, FS_AddElement DEF ActiveCountsOwners
  <2>3. NoLostWakeup'
    BY <1>2, <1>3, <2>1, SetsAreFinite, ExecutorAssumption DEF NoLostWakeup
  <2> QED BY <1>2, <1>4, <1>6, <2>2, <2>3
<1> QED BY <1>5, <1>6

LEMMA ReleaseInv ==
  ASSUME IInv, TypeOK', NEW c \in Calls, pc[c] = "running", NEW result,
         Release(c, result)
  PROVE  IInv'
<1> USE DEF IInv, TypeOK
<1>1. c \in Owners /\ c \notin Waiting
  BY DEF Owners, Owning, Waiting
<1>2. active' = active - 1 /\ closed' = closed
  BY DEF Release
<1>3. CASE waiters = <<>>
  <2>1. /\ Owners' = Owners \ {c} /\ Woken' = Woken /\ Waiting' = Waiting
        /\ waiters' = waiters
    BY <1>3 DEF Release, Goto, Owners, Woken, Waiting, Owning
  <2>2. ActiveCountsOwners'
    BY <1>1, <1>2, <2>1, OwnerIsCounted DEF ActiveCountsOwners
  <2>3. QueueHoldsWaiting' /\ NoLostWakeup'
    BY <1>3, <2>1 DEF QueueHoldsWaiting, Queued, NoLostWakeup
  <2> QED BY <1>2, <1>3, <2>1, <2>2, <2>3
<1>4. CASE waiters # <<>>
  <2> DEFINE h == Head(waiters)
  <2>1. /\ h \in Elements(waiters)
        /\ Elements(Tail(waiters)) = Elements(waiters) \ {h}
        /\ Distinct(Tail(waiters))
    BY <1>4, TailDistinct DEF QueueHoldsWaiting, Distinct
  <2>2. h \in Waiting /\ h # c /\ h \notin Owners /\ h \notin Woken
    BY <1>1, <2>1
       DEF QueueHoldsWaiting, Queued, Elements, Waiting, Owners, Owning, Woken
  <2>3. waiters' = Tail(waiters) /\ pc' = [pc EXCEPT ![c] = "done", ![h] = "woken"]
    BY <1>4 DEF Release
  <2> HIDE DEF h
  <2>4. /\ Owners' = Owners \ {c} /\ Woken' = Woken \cup {h}
        /\ Waiting' = Waiting \ {h}
    <3>1. /\ pc[c] \in Owning /\ pc[h] = "waiting"
          /\ pc'[c] = "done" /\ pc'[h] = "woken"
          /\ \A b \in Calls \ {c, h} : pc'[b] = pc[b]
      BY <1>1, <2>2, <2>3 DEF Owners, Waiting
    <3>2. Owners' = Owners \ {c}
      BY <2>2, <3>1 DEF Owners, Owning
    <3>3. Woken' = Woken \cup {h} /\ Waiting' = Waiting \ {h}
      BY <2>2, <3>1 DEF Woken, Waiting, Owning
    <3> QED BY <3>2, <3>3
  <2>5. ActiveCountsOwners'
    BY <1>1, <1>2, <2>4, OwnerIsCounted DEF ActiveCountsOwners
  <2>6. QueueHoldsWaiting'
    <3>1. Queued' = Elements(Tail(waiters)) /\ Queued = Elements(waiters)
      BY <2>3 DEF Queued, Elements
    <3>2. Queued' = Waiting'
      BY <2>1, <2>4, <3>1 DEF QueueHoldsWaiting
    <3> QED BY <2>1, <2>3, <3>2 DEF QueueHoldsWaiting, Distinct
  <2>7. Cardinality(Woken') = Cardinality(Woken) + 1
    BY <2>2, <2>4, SetsAreFinite, FS_AddElement
  <2>8. NoLostWakeup'
    BY <1>1, <1>2, <1>4, <2>7, OwnerIsCounted, SetsAreFinite, ExecutorAssumption
       DEF NoLostWakeup
  <2> QED BY <1>2, <1>4, <2>3, <2>5, <2>6, <2>8
<1> QED BY <1>3, <1>4

LEMMA CleanupInv == ASSUME IInv, TypeOK', Cleanup PROVE IInv'
<1> USE DEF IInv, TypeOK
<1>1. /\ waiters' = <<>> /\ active' = active
      /\ pc' = [c \in Calls |-> IF c \in Waiting THEN "done" ELSE pc[c]]
  BY DEF Cleanup, QueueHoldsWaiting
<1>2. Owners' = Owners /\ Waiting' = {}
  BY <1>1 DEF Owners, Owning, Waiting
<1>3. Len(waiters') = 0
  BY <1>1
<1>4. QueueHoldsWaiting'
  BY <1>2, <1>3 DEF QueueHoldsWaiting, Queued
<1> QED BY <1>1, <1>2, <1>4 DEF ActiveCountsOwners, NoLostWakeup

-----------------------------------------------------------------------------
(* Type correctness of every step.                                         *)

LEMMA EnterType ==
  ASSUME TypeOK, NEW c \in Calls, Enter(c)
  PROVE  /\ active' \in Nat /\ waiters' \in Seq(Calls) /\ closed' = closed
         /\ pc' \in [Calls -> Points] /\ outcome' \in [Calls -> Outcomes]
         /\ UNCHANGED <<attempt, zombies>>
<1> USE DEF TypeOK
<1>1. Append(waiters, c) \in Seq(Calls)
  BY AppendProperties
<1>2. waiters' \in Seq(Calls) /\ closed' = closed
  BY <1>1 DEF Enter, semaphoreVars
<1>5. active' \in Nat
  <2>1. active' = active \/ active' = active + 1
    BY DEF Enter, semaphoreVars
  <2> QED BY <2>1
<1>3. pc' \in [Calls -> Points]
  BY DEF Enter, Finish, Goto, Points
<1>4. outcome' \in [Calls -> Outcomes]
  BY DEF Enter, Finish, Outcomes
<1> QED BY <1>2, <1>3, <1>4, <1>5 DEF Enter

LEMMA ReleaseType ==
  ASSUME IInv, NEW c \in Calls, pc[c] = "running", NEW result \in Outcomes,
         Release(c, result)
  PROVE  /\ active' \in Nat /\ waiters' \in Seq(Calls) /\ closed' = closed
         /\ pc' \in [Calls -> Points] /\ outcome' \in [Calls -> Outcomes]
<1> USE DEF IInv, TypeOK
<1>1. active' \in Nat
  <2>1. c \in Owners
    BY DEF Owners, Owning
  <2>2. active \in Nat \ {0}
    BY <2>1, OwnerIsCounted
  <2> QED BY <2>2 DEF Release
<1>2. waiters # <<>> => Tail(waiters) \in Seq(Calls) /\ Head(waiters) \in Calls
  BY HeadTailProperties
<1>3. waiters' \in Seq(Calls) /\ closed' = closed
  BY <1>2 DEF Release
<1>4. pc' \in [Calls -> Points]
  BY <1>2 DEF Release, Goto, Points
<1>5. outcome' \in [Calls -> Outcomes]
  BY DEF Release
<1> QED BY <1>1, <1>3, <1>4, <1>5

LEMMA Bump ==
  ASSUME NEW f \in [Calls -> Nat], NEW c \in Calls
  PROVE  [f EXCEPT ![c] = f[c] + 1] \in [Calls -> Nat]
  OBVIOUS

LEMMA CallStepType ==
  ASSUME IInv, NEW c \in Calls, CallStep(c)
  PROVE  TypeOK'
<1> USE DEF IInv, TypeOK, semaphoreVars, batchVars
<1>1. CASE Resume(c)
  <2>1. active' \in Nat
    BY <1>1 DEF Resume
  <2>2. pc' \in [Calls -> Points] /\ outcome' \in [Calls -> Outcomes]
    BY <1>1 DEF Resume, Finish, Goto, Points, Outcomes
  <2> QED BY <1>1, <2>1, <2>2 DEF Resume
<1>2. CASE BeginFirstAttempt(c) \/ DelayEnds(c)
  <2>1. attempt' \in [Calls -> Nat]
    <3>1. CASE BeginFirstAttempt(c)
      BY <3>1 DEF BeginFirstAttempt
    <3>2. CASE DelayEnds(c)
      BY <3>2, Bump DEF DelayEnds
    <3> QED BY <1>2, <3>1, <3>2
  <2>2. pc' \in [Calls -> Points]
    BY <1>2 DEF BeginFirstAttempt, DelayEnds, Goto, Points
  <2> QED BY <1>2, <2>1, <2>2 DEF BeginFirstAttempt, DelayEnds
<1>3. CASE ActivityReturns(c)
  <2>1. /\ active' \in Nat /\ waiters' \in Seq(Calls) /\ closed' = closed
        /\ pc' \in [Calls -> Points] /\ outcome' \in [Calls -> Outcomes]
    BY <1>3, ReleaseType DEF ActivityReturns, Outcomes
  <2> QED BY <1>3, <2>1 DEF ActivityReturns
<1>4. ASSUME AttemptFails(c)
      PROVE  /\ active' \in Nat /\ waiters' \in Seq(Calls) /\ closed' = closed
             /\ pc' \in [Calls -> Points] /\ outcome' \in [Calls -> Outcomes]
             /\ attempt' \in [Calls -> Nat]
  <2>1. CASE Release(c, "failure") /\ UNCHANGED attempt
    BY <1>4, <2>1, ReleaseType DEF AttemptFails, Outcomes
  <2>2. CASE ~(Release(c, "failure") /\ UNCHANGED attempt)
    <3>1. attempt' \in [Calls -> Nat]
      <4>1. \/ attempt' = attempt
            \/ attempt' = [attempt EXCEPT ![c] = attempt[c] + 1]
        BY <1>4, <2>2 DEF AttemptFails
      <4>2. attempt \in [Calls -> Nat]
        OBVIOUS
      <4>3. [attempt EXCEPT ![c] = attempt[c] + 1] \in [Calls -> Nat]
        BY <4>2, Bump
      <4> QED BY <4>1, <4>2, <4>3
    <3>2. pc' \in [Calls -> Points]
      BY <1>4, <2>2 DEF AttemptFails, Goto, Points
    <3> QED BY <1>4, <2>2, <3>1, <3>2 DEF AttemptFails
  <2> QED BY <2>1, <2>2
<1>5. CASE ActivityThrows(c)
  BY <1>4, <1>5 DEF ActivityThrows
<1>6. CASE AttemptTimesOut(c)
  <2>1. zombies' \in [Calls -> Nat]
    BY <1>6, Bump DEF AttemptTimesOut
  <2> QED BY <1>4, <1>6, <2>1 DEF AttemptTimesOut
<1> QED BY <1>1, <1>2, <1>3, <1>5, <1>6 DEF CallStep

LEMMA NextType == ASSUME IInv, [Next]_vars PROVE TypeOK'
<1> USE DEF IInv, TypeOK, semaphoreVars, callVars, batchVars
<1>1. ASSUME NEW c \in Calls, ClientExecutes(c) PROVE TypeOK'
  BY <1>1, EnterType DEF ClientExecutes
<1>2. ASSUME NEW c \in Calls, ZombieEnds(c) PROVE TypeOK'
  BY <1>2 DEF ZombieEnds
<1>3. ASSUME NEW w \in Workers, WorkerTakes(w) PROVE TypeOK'
  <2>1. next \in 1..Len(Batch) /\ Batch[next] \in Calls
    BY <1>3, ExecutorAssumption, ElementOfSeq, LenProperties DEF WorkerTakes
  <2>2. worker' \in [Workers -> Calls \cup {NoCall}] /\ next' \in Nat \ {0}
    BY <1>3, <2>1 DEF WorkerTakes
  <2> QED BY <1>3, <2>1, <2>2, EnterType DEF WorkerTakes
<1>4. CASE BeginBatch \/ BatchReturns
  BY <1>4 DEF BeginBatch, BatchReturns
<1>5. CASE Cleanup
  <2>1. waiters' \in Seq(Calls)
    BY <1>5, EmptySeq DEF Cleanup
  <2> QED BY <1>5, <2>1 DEF Cleanup, Points, Outcomes
<1>6. CASE UNCHANGED vars
  BY <1>6 DEF vars
<1> QED BY <1>1, <1>2, <1>3, <1>4, <1>5, <1>6, CallStepType DEF Next

-----------------------------------------------------------------------------
(* The theorems.                                                           *)

LEMMA CallStepInv ==
  ASSUME IInv, TypeOK', NEW c \in Calls, CallStep(c)
  PROVE  IInv'
<1> USE DEF IInv, TypeOK
<1>1. CASE Resume(c)
  BY <1>1, ResumeInv
<1>2. CASE BeginFirstAttempt(c) \/ DelayEnds(c)
  <2>1. Owners' = Owners /\ Woken' = Woken /\ Waiting' = Waiting
    <3>1. pc[c] \in {"acquired", "delaying"} /\ pc' = [pc EXCEPT ![c] = "running"]
      BY <1>2 DEF BeginFirstAttempt, DelayEnds, Goto
    <3> QED BY <3>1 DEF Owners, Owning, Woken, Waiting
  <2> QED BY <1>2, <2>1, SameSemaphore DEF BeginFirstAttempt, DelayEnds
<1>3. CASE ActivityReturns(c)
  BY <1>3, ReleaseInv DEF ActivityReturns
<1>4. CASE ActivityThrows(c) \/ AttemptTimesOut(c)
  <2>1. AttemptFails(c)
    BY <1>4 DEF ActivityThrows, AttemptTimesOut
  <2>2. CASE Release(c, "failure")
    BY <2>1, <2>2, ReleaseInv DEF AttemptFails
  <2>3. CASE ~Release(c, "failure")
    <3>1. /\ pc[c] = "running" /\ UNCHANGED semaphoreVars
          /\ Goto(c, "delaying") \/ UNCHANGED pc
      BY <2>1, <2>3 DEF AttemptFails
    <3>2. Owners' = Owners /\ Woken' = Woken /\ Waiting' = Waiting
      BY <3>1 DEF Goto, Owners, Owning, Woken, Waiting
    <3> QED BY <3>1, <3>2, SameSemaphore
  <2> QED BY <2>2, <2>3
<1> QED BY <1>1, <1>2, <1>3, <1>4 DEF CallStep

LEMMA NextInv == ASSUME IInv, [Next]_vars PROVE IInv'
<1>1. TypeOK'
  BY NextType
<1>2. ASSUME NEW c \in Calls, ClientExecutes(c) PROVE IInv'
  BY <1>1, <1>2, EnterInv DEF ClientExecutes
<1>3. ASSUME NEW w \in Workers, WorkerTakes(w) PROVE IInv'
  <2>1. Batch[next] \in Calls
    BY <1>3, ExecutorAssumption, ElementOfSeq, LenProperties
       DEF WorkerTakes, IInv, TypeOK
  <2> QED BY <1>1, <1>3, <2>1, EnterInv DEF WorkerTakes
<1>4. CASE Cleanup
  BY <1>1, <1>4, CleanupInv
<1>5. ASSUME UNCHANGED <<semaphoreVars, pc>> PROVE IInv'
  BY <1>1, <1>5, SameSemaphore DEF Owners, Woken, Waiting
<1>6. CASE BeginBatch \/ BatchReturns \/ (\E c \in Calls : ZombieEnds(c))
  BY <1>5, <1>6 DEF BeginBatch, BatchReturns, ZombieEnds, callVars
<1>7. CASE UNCHANGED vars
  BY <1>5, <1>7 DEF vars, callVars
<1> QED BY <1>1, <1>2, <1>3, <1>4, <1>6, <1>7, CallStepInv DEF Next

\* The inductive invariant.
THEOREM Invariance == Spec => []IInv
  BY InitInv, NextInv, PTL DEF Spec

\* Every variable keeps its type (Executor.ts:73-116).
THEOREM TypeCorrect == Spec => []TypeOK
  BY Invariance, PTL DEF IInv

\* A slot is never leaked and never freed twice (Executor.ts:84-98, 143-165).
THEOREM SlotsAreCounted == Spec => []ActiveCountsOwners
  BY Invariance, PTL DEF IInv

\* No call waits while a slot is free and nobody is on the way to it
\* (Executor.ts:86-97).
THEOREM WakeupsAreNotLost == Spec => []NoLostWakeup
  BY Invariance, PTL DEF IInv

\* The waiters queue is exact (Executor.ts:86-87, 96, 104).
THEOREM QueueIsExact == Spec => []QueueHoldsWaiting
  BY Invariance, PTL DEF IInv

LEMMA StepAdmitsNobody ==
  ASSUME IInv, [Next]_vars, NEW c \in Calls, closed, pc[c] \notin Owning
  PROVE  pc'[c] \notin Owning
<1> USE DEF IInv, TypeOK, Owning
<1>1. waiters = <<>>
  OBVIOUS
<1>2. ASSUME NEW d \in Calls, Enter(d) PROVE pc'[c] \notin Owning
  BY <1>2 DEF Enter, Finish, Goto
<1>3. ASSUME NEW d \in Calls, NEW result, pc[d] = "running", Release(d, result)
      PROVE  pc'[c] \notin Owning
  BY <1>1, <1>3 DEF Release, Goto
<1>4. ASSUME NEW d \in Calls, CallStep(d) PROVE pc'[c] \notin Owning
  <2>1. CASE Resume(d)
    BY <2>1 DEF Resume, Finish, Goto
  <2>2. CASE BeginFirstAttempt(d) \/ DelayEnds(d)
    BY <2>2 DEF BeginFirstAttempt, DelayEnds, Goto
  <2>3. CASE ActivityReturns(d) \/ ActivityThrows(d) \/ AttemptTimesOut(d)
    <3>1. /\ pc[d] = "running"
          /\ \/ Release(d, "success") \/ Release(d, "failure")
             \/ Goto(d, "delaying") \/ UNCHANGED pc
      BY <2>3 DEF ActivityReturns, ActivityThrows, AttemptTimesOut, AttemptFails
    <3>2. CASE Goto(d, "delaying") \/ UNCHANGED pc
      BY <3>1, <3>2 DEF Goto
    <3> QED BY <3>1, <3>2, <1>3
  <2> QED BY <1>4, <2>1, <2>2, <2>3 DEF CallStep
<1>5. ASSUME NEW w \in Workers, WorkerTakes(w) PROVE pc'[c] \notin Owning
  <2>1. Batch[next] \in Calls
    BY <1>5, ExecutorAssumption, ElementOfSeq, LenProperties DEF WorkerTakes
  <2> QED BY <1>2, <1>5, <2>1 DEF WorkerTakes
<1> QED BY <1>2, <1>4, <1>5
        DEF Next, ClientExecutes, ZombieEnds, BeginBatch, BatchReturns, Cleanup,
            callVars, vars

\* After cleanup() no call gets a slot (Executor.ts:85, 89, 104, 131).
THEOREM ClosedIsClosed == Spec => ClosedAdmitsNobody
<1>1. IInv /\ [Next]_vars =>
        [\A c \in Calls :
           closed /\ pc[c] \notin Owning => pc'[c] \notin Owning]_vars
  BY StepAdmitsNobody
<1> QED BY Invariance, <1>1, PTL DEF Spec, ClosedAdmitsNobody

-----------------------------------------------------------------------------
(* Attempts, outcomes and the batch.                                       *)

\* What a call's place says of its attempts and its result.
CallProgress(c) ==
  /\ pc[c] \in {"idle", "waiting", "woken", "acquired"} => attempt[c] = 0
  /\ pc[c] = "running" => attempt[c] \in 1..MaxAttempts
  /\ pc[c] = "delaying" => attempt[c] \in 1..(MaxAttempts - 1)
  /\ pc[c] = "done" <=> outcome[c] # "none"
  /\ outcome[c] = "closed"  => attempt[c] = 0
  /\ outcome[c] = "failure" => attempt[c] = MaxAttempts
  /\ outcome[c] = "success" => attempt[c] \in 1..MaxAttempts

InProgress == \A c \in Calls : CallProgress(c)

LEMMA SameProgress ==
  ASSUME NEW c \in Calls, CallProgress(c), pc'[c] = pc[c], attempt'[c] = attempt[c],
         outcome'[c] = outcome[c]
  PROVE  CallProgress(c)'
  BY DEF CallProgress

LEMMA EnterProgress ==
  ASSUME IInv, InProgress, NEW c \in Calls, Enter(c)
  PROVE  InProgress'
<1> USE DEF IInv, TypeOK
<1>1. \A b \in Calls \ {c} : pc'[b] = pc[b] /\ outcome'[b] = outcome[b]
  BY DEF Enter, Finish, Goto
<1>2. /\ \/ pc'[c] = "done" /\ outcome'[c] = "closed"
         \/ pc'[c] \in {"acquired", "waiting"} /\ outcome'[c] = outcome[c]
      /\ pc[c] = "idle"
  BY DEF Enter, Finish, Goto
<1>3. UNCHANGED attempt
  BY DEF Enter
<1>4. CallProgress(c)'
  BY <1>2, <1>3 DEF InProgress, CallProgress
<1> QED BY <1>1, <1>3, <1>4, SameProgress DEF InProgress

\* A release ends one call and wakes another, which has made no attempt yet.
LEMMA ReleaseProgress ==
  ASSUME IInv, InProgress, NEW c \in Calls, pc[c] = "running", UNCHANGED attempt,
         NEW result \in {"success", "failure"}, Release(c, result),
         result = "failure" => attempt[c] = MaxAttempts
  PROVE  InProgress'
<1> USE DEF IInv, TypeOK
<1>1. \A b \in Calls \ {c} : outcome'[b] = outcome[b]
  BY DEF Release
<1>2. outcome'[c] = result
  BY DEF Release
<1>3. CASE waiters = <<>>
  <2>1. pc'[c] = "done" /\ \A b \in Calls \ {c} : pc'[b] = pc[b]
    BY <1>3 DEF Release, Goto
  <2>2. CallProgress(c)'
    BY <1>2, <2>1 DEF InProgress, CallProgress
  <2> QED BY <1>1, <2>1, <2>2, SameProgress DEF InProgress
<1>4. CASE waiters # <<>>
  <2>1. PICK h \in Calls : h = Head(waiters) /\ pc[h] = "waiting"
    BY <1>4, TailDistinct DEF QueueHoldsWaiting, Distinct, Queued, Elements, Waiting
  <2>2. pc' = [pc EXCEPT ![c] = "done", ![h] = "woken"]
    BY <1>4, <2>1 DEF Release
  <2>3. /\ pc'[c] = "done" /\ pc'[h] = "woken" /\ h # c
        /\ \A b \in Calls \ {c, h} : pc'[b] = pc[b]
    BY <2>1, <2>2
  <2>4. CallProgress(c)'
    BY <1>2, <2>3 DEF InProgress, CallProgress
  <2>5. CallProgress(h)'
    BY <1>1, <2>1, <2>3 DEF InProgress, CallProgress
  <2> QED BY <1>1, <2>3, <2>4, <2>5, SameProgress DEF InProgress
<1> QED BY <1>3, <1>4

LEMMA CallStepProgress ==
  ASSUME IInv, InProgress, NEW c \in Calls, CallStep(c)
  PROVE  InProgress'
<1> USE DEF IInv, TypeOK
<1>1. ASSUME \A b \in Calls \ {c} : /\ pc'[b] = pc[b] /\ attempt'[b] = attempt[b]
                                    /\ outcome'[b] = outcome[b],
             CallProgress(c)'
      PROVE  InProgress'
  BY <1>1, SameProgress DEF InProgress
<1>2. CASE Resume(c)
  <2>1. CallProgress(c)'
    BY <1>2 DEF Resume, Finish, Goto, InProgress, CallProgress
  <2> QED BY <1>1, <1>2, <2>1 DEF Resume, Finish, Goto
<1>3. CASE BeginFirstAttempt(c) \/ DelayEnds(c)
  <2>1. CallProgress(c)'
    BY <1>3, ExecutorAssumption DEF BeginFirstAttempt, DelayEnds, Goto, InProgress, CallProgress
  <2> QED BY <1>1, <1>3, <2>1 DEF BeginFirstAttempt, DelayEnds, Goto
<1>4. CASE ActivityReturns(c)
  BY <1>4, ReleaseProgress DEF ActivityReturns
<1>5. CASE ActivityThrows(c) \/ AttemptTimesOut(c)
  <2>1. AttemptFails(c)
    BY <1>5 DEF ActivityThrows, AttemptTimesOut
  <2>2. CASE attempt[c] = MaxAttempts /\ Release(c, "failure") /\ UNCHANGED attempt
    BY <2>1, <2>2, ReleaseProgress DEF AttemptFails
  <2>3. CASE attempt[c] < MaxAttempts /\ Goto(c, "delaying") /\ UNCHANGED <<attempt, outcome>>
    <3>1. CallProgress(c)'
      BY <2>1, <2>3, ExecutorAssumption DEF AttemptFails, Goto, InProgress, CallProgress
    <3> QED BY <1>1, <2>3, <3>1 DEF Goto
  <2>4. CASE /\ attempt[c] < MaxAttempts /\ UNCHANGED <<pc, outcome>>
             /\ attempt' = [attempt EXCEPT ![c] = attempt[c] + 1]
    <3>1. CallProgress(c)'
      BY <2>1, <2>4, ExecutorAssumption DEF AttemptFails, InProgress, CallProgress
    <3> QED BY <1>1, <2>4, <3>1
  <2> QED BY <2>1, <2>2, <2>3, <2>4 DEF AttemptFails
<1> QED BY <1>2, <1>3, <1>4, <1>5 DEF CallStep

LEMMA CleanupProgress ==
  ASSUME IInv, InProgress, Cleanup
  PROVE  InProgress'
<1> USE DEF IInv, TypeOK
<1>1. Queued = Waiting /\ UNCHANGED attempt
  BY DEF QueueHoldsWaiting, Cleanup
<1>2. ASSUME NEW c \in Calls PROVE CallProgress(c)'
  <2>1. CASE c \in Queued
    <3>1. pc[c] = "waiting" /\ pc'[c] = "done" /\ outcome'[c] = "closed"
      BY <1>1, <2>1 DEF Cleanup, Waiting
    <3> QED BY <1>1, <3>1 DEF InProgress, CallProgress
  <2>2. CASE c \notin Queued
    <3>1. pc'[c] = pc[c] /\ outcome'[c] = outcome[c]
      BY <2>2 DEF Cleanup
    <3> QED BY <1>1, <3>1, SameProgress DEF InProgress
  <2> QED BY <2>1, <2>2
<1> QED BY <1>2 DEF InProgress

LEMMA NextProgress == ASSUME IInv, InProgress, [Next]_vars PROVE InProgress'
<1>1. ASSUME NEW w \in Workers, WorkerTakes(w) PROVE InProgress'
  <2>1. Batch[next] \in Calls
    BY <1>1, ExecutorAssumption, ElementOfSeq, LenProperties DEF WorkerTakes, IInv, TypeOK
  <2> QED BY <1>1, <2>1, EnterProgress DEF WorkerTakes
<1>2. CASE UNCHANGED <<pc, attempt, outcome>>
  BY <1>2, SameProgress DEF InProgress
<1>3. CASE BeginBatch \/ BatchReturns \/ (\E c \in Calls : ZombieEnds(c)) \/ UNCHANGED vars
  BY <1>2, <1>3 DEF BeginBatch, BatchReturns, ZombieEnds, callVars, vars
<1> QED BY <1>1, <1>3, EnterProgress, CallStepProgress, CleanupProgress
        DEF Next, ClientExecutes

\* A call answers failure only after its last attempt, success after one of
\* them, closed after none (Executor.ts:131-165).
THEOREM OutcomesMatch == Spec => []OutcomeMatchesAttempts
<1>1. Init => InProgress
  BY DEF Init, InProgress, CallProgress
<1>2. InProgress => OutcomeMatchesAttempts
  BY DEF InProgress, CallProgress, OutcomeMatchesAttempts
<1> QED BY <1>1, <1>2, Invariance, NextProgress, PTL DEF Spec

\* The workers have taken the activities before next, each by one of them, and
\* nobody has called those from next on.
Taking ==
  /\ next <= Len(Batch) + 1
  /\ \A i \in 1..Len(Batch) : i >= next => pc[Batch[i]] = "idle"
  /\ \A i \in 1..Len(Batch) : i < next =>
       pc[Batch[i]] = "done" \/ \E w \in Workers : worker[w] = Batch[i]
  /\ \A w \in Workers : worker[w] # NoCall =>
       \E i \in 1..Len(Batch) : i < next /\ worker[w] = Batch[i]
  /\ \A v, w \in Workers : v # w /\ worker[v] # NoCall => worker[v] # worker[w]
  /\ batch = "returned" => \A c \in Batched : pc[c] = "done"

LEMMA BatchType ==
  /\ Len(Batch) \in Nat /\ Batch \in Seq(Calls)
  /\ \A i \in 1..Len(Batch) : Batch[i] \in Calls /\ Batch[i] \in Batched
  /\ Batched \subseteq Calls
  BY ExecutorAssumption, ElementOfSeq, LenProperties DEF Batched

LEMMA EnterMoves ==
  ASSUME IInv, NEW c \in Calls, Enter(c)
  PROVE  pc[c] = "idle" /\ \A b \in Calls \ {c} : pc'[b] = pc[b]
  BY DEF Enter, Finish, Goto, IInv, TypeOK

\* Only Enter takes a call out of "idle", and nothing out of "done".
LEMMA OthersMove ==
  ASSUME IInv, NEW b \in Calls,
         (\E c \in Calls : CallStep(c) \/ ZombieEnds(c)) \/ Cleanup \/ BeginBatch \/ BatchReturns
  PROVE  pc[b] \in {"idle", "done"} => pc'[b] = pc[b]
<1> USE DEF IInv, TypeOK
<1>1. ASSUME NEW c \in Calls, NEW result, pc[c] = "running", Release(c, result)
      PROVE  pc[b] \in {"idle", "done"} => pc'[b] = pc[b]
  <2>1. CASE waiters = <<>>
    BY <1>1, <2>1 DEF Release, Goto
  <2>2. CASE waiters # <<>>
    <3>1. Head(waiters) \in Calls /\ pc[Head(waiters)] = "waiting"
      BY <2>2, TailDistinct DEF QueueHoldsWaiting, Distinct, Queued, Elements, Waiting
    <3> QED BY <1>1, <2>2, <3>1 DEF Release
  <2> QED BY <2>1, <2>2
<1>2. ASSUME NEW c \in Calls, CallStep(c)
      PROVE  pc[b] \in {"idle", "done"} => pc'[b] = pc[b]
  <2>1. CASE Resume(c)
    BY <2>1 DEF Resume, Finish, Goto
  <2>2. CASE BeginFirstAttempt(c) \/ DelayEnds(c)
    BY <2>2 DEF BeginFirstAttempt, DelayEnds, Goto
  <2>3. CASE ActivityReturns(c) \/ ActivityThrows(c) \/ AttemptTimesOut(c)
    <3>1. /\ pc[c] = "running"
          /\ \/ Release(c, "success") \/ Release(c, "failure")
             \/ Goto(c, "delaying") \/ UNCHANGED pc
      BY <2>3 DEF ActivityReturns, ActivityThrows, AttemptTimesOut, AttemptFails
    <3>2. CASE Goto(c, "delaying") \/ UNCHANGED pc
      BY <3>1, <3>2 DEF Goto
    <3> QED BY <1>1, <3>1, <3>2
  <2> QED BY <1>2, <2>1, <2>2, <2>3 DEF CallStep
<1>3. CASE Cleanup
  BY <1>3 DEF Cleanup, QueueHoldsWaiting, Waiting
<1> QED BY <1>2, <1>3 DEF ZombieEnds, BeginBatch, BatchReturns, callVars

\* The calls of the batch stand still or finish, and the workers keep theirs.
LEMMA SameTaking ==
  ASSUME Taking, UNCHANGED batchVars,
         \A b \in Batched : pc[b] \in {"idle", "done"} => pc'[b] = pc[b]
  PROVE  Taking'
  BY BatchType DEF Taking, batchVars

LEMMA TakeKeepsTaking ==
  ASSUME IInv, Taking, NEW w \in Workers, WorkerTakes(w)
  PROVE  Taking'
<1> DEFINE c == Batch[next]
<1>1. next \in 1..Len(Batch) /\ next' = next + 1 /\ batch' = "running"
  BY BatchType DEF WorkerTakes, IInv, TypeOK
<1>2. worker'[w] = c /\ \A v \in Workers \ {w} : worker'[v] = worker[v]
  BY DEF WorkerTakes, IInv, TypeOK
<1>3. \A b \in Calls \ {c} : pc'[b] = pc[b]
  BY <1>1, BatchType, EnterMoves DEF WorkerTakes
<1>4. \A i \in 1..Len(Batch) : i # next => Batch[i] # c
  BY <1>1, ExecutorAssumption
<1>5. worker[w] = NoCall \/ pc[worker[w]] = "done"
  BY DEF WorkerTakes, Free, IInv, TypeOK
<1>6. ASSUME NEW i \in 1..Len(Batch), i >= next'
      PROVE  pc'[Batch[i]] = "idle"
  <2>1. i >= next /\ i # next
    BY <1>1, <1>6, BatchType
  <2>2. Batch[i] \in Calls \ {c} /\ pc[Batch[i]] = "idle"
    BY <1>4, <2>1, BatchType DEF Taking
  <2> QED BY <1>3, <2>2
<1>7. ASSUME NEW i \in 1..Len(Batch), i < next'
      PROVE  pc'[Batch[i]] = "done" \/ \E v \in Workers : worker'[v] = Batch[i]
  <2>1. CASE i = next
    BY <1>2, <2>1
  <2>2. CASE i # next
    <3>1. i < next /\ Batch[i] # c /\ Batch[i] \in Calls
      BY <1>1, <1>4, <1>7, <2>2, BatchType
    <3>2. pc'[Batch[i]] = pc[Batch[i]]
      BY <1>3, <3>1
    <3>3. CASE pc[Batch[i]] = "done"
      BY <3>2, <3>3
    <3>4. CASE pc[Batch[i]] # "done"
      <4>1. PICK v \in Workers : worker[v] = Batch[i]
        BY <3>1, <3>4 DEF Taking
      <4>2. v # w
        BY <1>5, <3>1, <3>4, <4>1, ExecutorAssumption
      <4> QED BY <1>2, <4>1, <4>2
    <3> QED BY <3>3, <3>4
  <2> QED BY <2>1, <2>2
<1>8. ASSUME NEW v \in Workers, worker'[v] # NoCall
      PROVE  \E i \in 1..Len(Batch) : i < next' /\ worker'[v] = Batch[i]
  <2>1. CASE v = w
    BY <1>1, <1>2, <2>1
  <2>2. CASE v # w
    BY <1>1, <1>2, <1>8, <2>2 DEF Taking
  <2> QED BY <2>1, <2>2
<1>9. \A v \in Workers : worker[v] # c
  BY <1>1, <1>4, BatchType, ExecutorAssumption DEF Taking
<1>10. \A u, v \in Workers : u # v /\ worker'[u] # NoCall => worker'[u] # worker'[v]
  BY <1>2, <1>9 DEF Taking
<1> QED BY <1>1, <1>6, <1>7, <1>8, <1>10 DEF Taking

LEMMA ReturnKeepsTaking ==
  ASSUME IInv, Taking, BatchReturns
  PROVE  Taking'
<1>1. \A b \in Batched : pc[b] = "done"
  <2> SUFFICES ASSUME NEW i \in 1..Len(Batch) PROVE pc[Batch[i]] = "done"
    BY DEF Batched
  <2>1. i < next
    BY BatchType DEF BatchReturns, IInv, TypeOK
  <2>2. \A w \in Workers : worker[w] = Batch[i] => pc[Batch[i]] = "done"
    BY BatchType, ExecutorAssumption DEF BatchReturns, Free
  <2> QED BY <2>1, <2>2 DEF Taking
<1> QED BY <1>1 DEF BatchReturns, Taking, callVars

\* executeAll() returns only when each activity has its result, and no two
\* workers take the same one (Executor.ts:175-187).
THEOREM BatchesAreComplete == Spec => []BatchComplete
<1>1. Init => Taking
  BY BatchType, ExecutorAssumption DEF Init, Taking
<1>2. ASSUME IInv, Taking, [Next]_vars PROVE Taking'
  <2>1. ASSUME NEW c \in Calls, ClientExecutes(c) PROVE Taking'
    <3>1. \A b \in Batched : pc'[b] = pc[b]
      BY <1>2, <2>1, EnterMoves, BatchType DEF ClientExecutes
    <3> QED BY <1>2, <2>1, <3>1, SameTaking DEF ClientExecutes
  <2>2. CASE (\E c \in Calls : CallStep(c) \/ ZombieEnds(c)) \/ Cleanup
    <3>1. UNCHANGED batchVars
      BY <2>2 DEF CallStep, Resume, BeginFirstAttempt, ActivityReturns, ActivityThrows,
                  AttemptTimesOut, DelayEnds, ZombieEnds, Cleanup
    <3> QED BY <1>2, <2>2, <3>1, OthersMove, SameTaking, BatchType
  <2>3. CASE BeginBatch
    BY <1>2, <2>3 DEF BeginBatch, Taking, callVars
  <2>4. CASE UNCHANGED vars
    BY <1>2, <2>4, SameTaking DEF vars, callVars
  <2> QED BY <1>2, <2>1, <2>2, <2>3, <2>4, TakeKeepsTaking, ReturnKeepsTaking DEF Next
<1>3. Init => InProgress
  BY DEF Init, InProgress, CallProgress
<1>4. InProgress /\ Taking => BatchComplete
  BY BatchType DEF InProgress, CallProgress, Taking, BatchComplete
<1> QED BY <1>1, <1>2, <1>3, <1>4, Invariance, NextProgress, PTL DEF Spec

-----------------------------------------------------------------------------
(***************************************************************************)
(* The verified workspace, for any files, contents, verifier, number of    *)
(* agents and of faults, with calls that do not overlap.  The three        *)
(* properties are about the end of a transaction; what carries them there  *)
(* is a relation between the workspace, its content before the first       *)
(* change (opened) and the record on disk: whatever currently stands for a *)
(* path's old content - its kept checkpoint, the checkpoint of a change    *)
(* not kept yet, the file itself if no tool changed it - is what opened    *)
(* has for it, and what the record has unless the path has strayed         *)
(* (Origin).  A shell command on a path with a checkpoint leaves both as   *)
(* they are, on any other it moves opened along and the path strays.       *)
(***************************************************************************)

\* The fields of a call.
Fields == {"pc", "tool", "path", "version", "held", "from", "ok", "score", "on", "todo",
           "failed", "record", "paths", "draft", "undone", "plain", "fresh", "moved"}

\* A call after its judgement, with the checkpoints in its own hands.
Judging == {"persisting", "drafted", "undoing"}

\* v stands for the content p had before the transaction, and for the recorded one.
Origin(v, p) ==
    /\ Kept # {} => opened[p] \in {v, Absent}
    /\ p \notin strayed => accepted.files[p] \in {v, Absent}

\* The call changed p, and its checkpoint is not kept yet.
Fresh(a, p) ==
    /\ call[a].pc = "executed" /\ call[a].tool \in Mutators /\ call[a].ok
    /\ call[a].held # NoCheckpoint /\ call[a].path = p

\* What the verifier says of a workspace.
Card(score, on) == on \in [Paths -> Contents] /\ score = Grade(on)

Types ==
    /\ files \in [Paths -> Contents] /\ accepted.files \in [Paths -> Contents]
    /\ scored.on \in [Paths -> Contents] /\ opened = [p \in Paths |-> opened[p]]
    /\ artifacts = NoArtifacts \/ Card(artifacts.score, artifacts.on)
    /\ accepted.score # NoScore => accepted.score.reward \in Int
    /\ call = [a \in Agents |-> call[a]]
    /\ checkpoints = [p \in Paths |-> checkpoints[p]]
    /\ \A p \in Kept : checkpoints[p].previous \in Versions

Alone == \A a, b \in Agents : call[a].pc # "idle" /\ call[b].pc # "idle" => a = b

\* What the files, the checkpoints and the record are to each other.
Transaction ==
    /\ \A a \in Agents : call[a].pc \in Judging \cup {"healing"} => Kept = {}
    /\ \A p \in Paths :
          /\ p \in Kept => Origin(checkpoints[p].previous, p)
          /\ p \notin Kept =>
                /\ \A a \in Agents : Fresh(a, p) => Origin(call[a].held.previous, p)
                /\ (\A a \in Agents : ~Fresh(a, p) /\ call[a].pc \notin Judging)
                       => Origin(files[p], p)

\* A change under way captured what it is about to overwrite.
Captured(a) ==
    call[a].tool \in Mutators =>
        /\ call[a].path \in Paths /\ call[a].version \in Versions /\ ~call[a].fresh
        /\ call[a].pc \in {"executing", "generating"} =>
              \/ files[call[a].path] = Absent /\ call[a].held = NoCheckpoint
              \/ /\ files[call[a].path] \in Versions /\ call[a].held # NoCheckpoint
                 /\ call[a].held.previous = files[call[a].path]
        /\ call[a].pc = "executed" /\ call[a].held # NoCheckpoint =>
              call[a].held.previous \in Versions

\* The result of a verification is about the workspace as it is, if it was measured
\* by this run and nothing changed since.
Measured(a) ==
    /\ call[a].pc = "called" => ~call[a].fresh
    /\ call[a].pc \in {"executing", "rerunning"} /\ call[a].fresh =>
          Card(artifacts.score, artifacts.on) /\ (~call[a].moved => artifacts.on = files)
    /\ call[a].pc = "executed" /\ call[a].tool = "shell.exec" /\ call[a].score # NoScore =>
          /\ Card(call[a].score, call[a].on)
          /\ call[a].fresh /\ ~call[a].moved => call[a].on = files
    /\ call[a].pc \in {"persisting", "drafted"} =>
          /\ Card(call[a].score, call[a].on)
          /\ call[a].fresh /\ ~call[a].moved => call[a].on = files

\* What is to be recorded.
Accepting(a) ==
    /\ call[a].pc = "persisting" =>
          \A p \in Paths : p \notin call[a].paths /\ p \notin strayed =>
             accepted.files[p] \in {files[p], Absent}
    /\ call[a].pc = "drafted" =>
          /\ call[a].draft \in [Paths -> Contents]
          /\ \A p \in Paths :
                \/ p \in call[a].paths /\ files[p] # Absent
                \/ p \notin call[a].paths /\ p \notin strayed
                => call[a].draft[p] \in {files[p], Absent}
    /\ call[a].pc = "drafted" =>
          \A p \in Paths : p \notin call[a].paths /\ p \notin strayed =>
             accepted.files[p] \in {files[p], Absent}

\* What is put back, and what was.
PuttingBack(a) ==
    /\ call[a].pc \in {"undoing", "healing"} =>
          call[a].todo = [p \in Paths |-> call[a].todo[p]]
    /\ call[a].pc = "undoing" =>
          \A p \in Paths :
             /\ call[a].todo[p] # NoCheckpoint =>
                   /\ call[a].todo[p].previous \in Versions
                   /\ opened[p] \in {call[a].todo[p].previous, Absent}
                   /\ p \notin strayed =>
                         accepted.files[p] \in {call[a].todo[p].previous, Absent}
             /\ call[a].todo[p] = NoCheckpoint =>
                   /\ ~call[a].failed => opened[p] \in {files[p], Absent}
                   /\ p \notin strayed => accepted.files[p] \in {files[p], Absent}
    /\ call[a].pc \in {"healing", "rerunning"} =>
          /\ call[a].record = accepted.score /\ accepted.score # NoScore
    /\ call[a].pc = "healing" =>
          \A p \in Paths : call[a].todo[p] # NoCheckpoint =>
                call[a].todo[p].previous = accepted.files[p]

\* What the result of a call says of the workspace.
Answered(a) ==
    /\ call[a].pc # "settling" => ~call[a].undone /\ ~call[a].plain
    /\ call[a].pc = "settling" /\ call[a].undone =>
          \A p \in Paths : opened[p] \in {files[p], Absent}
    /\ call[a].pc \in {"called", "executing", "generating", "executed"} =>
          call[a].record = NoScore
    /\ /\ call[a].pc = "settling" /\ call[a].plain /\ call[a].ok
       /\ call[a].fresh \/ call[a].record # NoScore
       /\ ~call[a].moved /\ accepted.score # NoScore
       => Grade(files).reward >= accepted.score.reward

CallOK(a) ==
    /\ DOMAIN call[a] = Fields
    /\ call[a].pc \in {"idle", "called", "executing", "generating", "executed", "settling",
                       "healing", "rerunning"} \cup Judging
    /\ call[a].pc \in Judging \cup {"healing", "rerunning"} => call[a].tool = "shell.exec"
    /\ call[a].pc # "idle" => call[a].tool \in Mutators \cup {"shell.exec"}
    /\ call[a].pc = "generating" => call[a].tool \in Mutators
    /\ call[a].pc # "idle" => Captured(a)
    /\ call[a].pc # "idle" /\ call[a].path \in Paths => call[a].version \in Contents
    /\ Measured(a) /\ Accepting(a) /\ PuttingBack(a) /\ Answered(a)

Scored == \A p \in Paths \ scored.apart : accepted.files[p] \in {scored.on[p], Absent}

WorkspaceInv == Types /\ Alone /\ Transaction /\ Scored /\ \A a \in Agents : CallOK(a)

-----------------------------------------------------------------------------
(* One call at a time.                                                     *)

OthersIdle(a) == \A b \in Agents : b # a => call[b].pc = "idle"

\* Transaction, said of the only call there is.
Mine(a) ==
    /\ call[a].pc \in Judging \cup {"healing"} => Kept = {}
    /\ \A p \in Paths :
          /\ p \in Kept => Origin(checkpoints[p].previous, p)
          /\ p \notin Kept =>
                /\ Fresh(a, p) => Origin(call[a].held.previous, p)
                /\ ~Fresh(a, p) /\ call[a].pc \notin Judging => Origin(files[p], p)

LEMMA OnlyOne ==
    ASSUME Alone, NEW a \in Agents, call[a].pc # "idle" PROVE OthersIdle(a)
BY DEF Alone, OthersIdle

LEMMA OneTransaction ==
    ASSUME NEW a \in Agents, OthersIdle(a) PROVE Transaction <=> Mine(a)
<1>1. \A b \in Agents, p \in Paths : b # a => ~Fresh(b, p) /\ call[b].pc \notin Judging
  BY DEF OthersIdle, Fresh, Judging
<1>2. \A b \in Agents : b # a => call[b].pc \notin Judging \cup {"healing"}
  BY DEF OthersIdle, Judging
<1> QED
  BY <1>1, <1>2, Zenon DEF Transaction, Mine

\* A step of a, all others being idle.
Turn(a) ==
    /\ DOMAIN call' = Agents
    /\ call' = [b \in Agents |-> call'[b]]
    /\ \A b \in Agents : b # a => call'[b] = call[b]

LEMMA OneCall ==
    ASSUME WorkspaceInv, NEW a \in Agents, OthersIdle(a), Turn(a),
           Types', Mine(a)', Scored', CallOK(a)'
    PROVE  WorkspaceInv'
<1>1. OthersIdle(a)'
  BY DEF OthersIdle, Turn
<1>2. Alone'
  BY <1>1 DEF OthersIdle, Alone
<1>3. Transaction'
  BY <1>1, OneTransaction, PTL
<1>4. ASSUME NEW b \in Agents, b # a PROVE CallOK(b)'
  <2>1. call'[b] = call[b] /\ call[b].pc = "idle" /\ CallOK(b)
    BY <1>4 DEF Turn, OthersIdle, WorkspaceInv
  <2> QED
    BY <2>1 DEF CallOK, Measured, Accepting, PuttingBack, Answered, Judging
<1> QED
  BY <1>2, <1>3, <1>4 DEF WorkspaceInv
-----------------------------------------------------------------------------
(* One lemma per action.                                                   *)

Outcome(a) == Turn(a) /\ Types' /\ Mine(a)' /\ Scored' /\ CallOK(a)'

LEMMA StepTurn ==
    ASSUME WorkspaceInv, NEW a \in Agents, NEW c, Step(a, c)
    PROVE  Turn(a) /\ call'[a] = c /\ call' = [b \in Agents |-> call'[b]]
BY DEF WorkspaceInv, Types, Step, Turn

LEMMA CallingStep ==
    ASSUME WorkspaceInv, ~Overlap, NEW a \in Agents, NEW t \in Mutators \cup {"shell.exec"},
           NEW p, NEW v \in Contents, t \in Mutators => p \in Paths /\ v \in Versions,
           Call(a, t, p, v)
    PROVE  OthersIdle(a) /\ Outcome(a)
<1> DEFINE c == [Idle EXCEPT !.pc = "called", !.tool = t, !.path = p, !.version = v]
<1>1. /\ DOMAIN c = Fields /\ c.pc = "called" /\ c.tool = t /\ c.path = p /\ c.version = v
      /\ c.undone = FALSE /\ c.plain = FALSE /\ c.fresh = FALSE /\ c.record = NoScore
  BY DEF Idle, Fields
<1>2. OthersIdle(a) /\ call[a].pc = "idle"
  BY DEF Call, Quiet, OthersIdle
<1>3. Step(a, c)
  BY DEF Call, Step
<1> HIDE DEF c
<1>4. Turn(a) /\ call'[a] = c
  BY <1>3, StepTurn
<1>5. UNCHANGED <<files, checkpoints, accepted, artifacts, opened, scored, strayed, Kept>>
  BY DEF Call, history, Kept
<1>6. Types' /\ Scored'
  BY <1>4, <1>5 DEF WorkspaceInv, Types, Scored, Turn
<1>7. Mine(a)
  BY <1>2, OneTransaction DEF WorkspaceInv
<1>8. Mine(a)'
  BY <1>1, <1>2, <1>4, <1>5, <1>7 DEF Mine, Fresh, Judging, Origin
<1>9. CallOK(a)'
  BY <1>1, <1>4 DEF CallOK, Captured, Measured, Accepting, PuttingBack, Answered, Judging
<1> QED
  BY <1>2, <1>4, <1>6, <1>8, <1>9 DEF Outcome

LEMMA CaptureStep ==
    ASSUME WorkspaceInv, NEW a \in Agents, OthersIdle(a), Capture(a) PROVE Outcome(a)
<1> DEFINE c == call[a]
           tracked == c.tool \in Mutators /\ files[c.path] # Absent
           held == IF ~tracked THEN NoCheckpoint
                   ELSE [previous |-> files[c.path], baseline |-> seen[a], at |-> Now]
           d == [c EXCEPT !.pc = "executing", !.held = held]
<1>1. c.pc = "called" /\ Step(a, d)
  BY DEF Capture
<1>2. CallOK(a) /\ Captured(a)
  BY <1>1 DEF WorkspaceInv, CallOK
<1>3. /\ DOMAIN d = Fields /\ d.pc = "executing" /\ d.held = held
      /\ d.tool = c.tool /\ d.path = c.path /\ d.version = c.version
      /\ d.undone = c.undone /\ d.plain = c.plain
      /\ d.fresh = c.fresh /\ d.moved = c.moved /\ d.record = c.record
  BY <1>2 DEF CallOK, Fields
<1>4. Turn(a) /\ call'[a] = d
  BY <1>1, StepTurn
<1>5. UNCHANGED <<files, checkpoints, accepted, artifacts, opened, scored, strayed, Kept>>
  BY DEF Capture, history, Kept
<1>6. c.tool \in Mutators =>
         /\ c.path \in Paths
         /\ \/ files[c.path] = Absent /\ held = NoCheckpoint
            \/ /\ files[c.path] \in Versions /\ held # NoCheckpoint
               /\ held.previous = files[c.path]
  BY <1>2 DEF Captured, NoCheckpoint, WorkspaceInv, Types, Contents
<1>7. /\ ~c.undone /\ ~c.plain /\ c.tool \in Mutators \cup {"shell.exec"}
      /\ ~c.fresh /\ c.record = NoScore /\ (c.path \in Paths => c.version \in Contents)
  BY <1>1, <1>2 DEF CallOK, Measured, Answered
<1> HIDE DEF c, d, held
<1>8. Types' /\ Scored'
  BY <1>4, <1>5 DEF WorkspaceInv, Types, Scored, Turn
<1>9. Mine(a)
  BY OneTransaction DEF WorkspaceInv
<1>10. Mine(a)'
  BY <1>1, <1>3, <1>4, <1>5, <1>9 DEF Mine, Fresh, Judging, Origin, c
<1>11. CallOK(a)'
  <2>1. Captured(a)'
    BY <1>2, <1>3, <1>4, <1>5, <1>6 DEF Captured, c
  <2> QED
    BY <2>1, <1>3, <1>4, <1>7 DEF CallOK, Measured, Accepting, PuttingBack, Answered, Judging
<1> QED
  BY <1>4, <1>8, <1>10, <1>11 DEF Outcome

LEMMA Overwritten ==
    ASSUME WorkspaceInv, NEW a \in Agents, OthersIdle(a),
           call[a].pc \in {"executing", "generating"}, call[a].tool \in Mutators,
           files' = [files EXCEPT ![call[a].path] = call[a].version], Succeeds(a),
           UNCHANGED <<checkpoints, accepted, artifacts>>, UNCHANGED history
    PROVE  Outcome(a)
<1> DEFINE c == call[a]
           d == [c EXCEPT !.pc = "executed", !.ok = TRUE]
<1>1. Step(a, d)
  BY DEF Succeeds
<1>2. CallOK(a) /\ Captured(a) /\ Answered(a) /\ Types /\ Mine(a)
  BY OneTransaction DEF WorkspaceInv, CallOK
<1>3. /\ DOMAIN d = Fields /\ d.pc = "executed" /\ d.held = c.held /\ d.ok
      /\ d.tool = c.tool /\ d.path = c.path /\ d.version = c.version
      /\ d.undone = c.undone /\ d.plain = c.plain
      /\ d.fresh = c.fresh /\ d.moved = c.moved /\ d.record = c.record
  BY <1>2 DEF CallOK, Fields
<1>4. Turn(a) /\ call'[a] = d
  BY <1>1, StepTurn
<1>5. UNCHANGED <<checkpoints, accepted, artifacts, opened, scored, strayed, Kept>>
  BY DEF history, Kept
<1>6. /\ c.path \in Paths /\ c.version \in Versions /\ ~c.undone /\ ~c.plain
      /\ ~c.fresh /\ c.record = NoScore
      /\ \/ files[c.path] = Absent /\ c.held = NoCheckpoint
         \/ /\ files[c.path] \in Versions /\ c.held # NoCheckpoint
            /\ c.held.previous = files[c.path]
  BY <1>2 DEF Captured, Answered
<1>7. /\ \A p \in Paths : files'[p] = IF p = c.path THEN c.version ELSE files[p]
      /\ files' \in [Paths -> Contents]
  BY <1>2, <1>6 DEF Types, Contents
<1>8. c.pc \in {"executing", "generating"} /\ c.tool \in Mutators
  OBVIOUS
<1> HIDE DEF d
<1>9. Types' /\ Scored'
  BY <1>2, <1>4, <1>5, <1>6, <1>7 DEF WorkspaceInv, Types, Scored, Turn
<1>10. Mine(a)'
  <2>1. d.pc \notin Judging \cup {"healing"}
    BY <1>3 DEF Judging
  <2>2. ASSUME NEW p \in Paths, p \in Kept PROVE Origin(checkpoints[p].previous, p)'
    BY <1>2, <1>5, <2>2 DEF Mine, Origin
  <2>3. ASSUME NEW p \in Paths, p \notin Kept PROVE Origin(files[p], p)
    BY <1>2, <1>8, <2>3 DEF Mine, Fresh, Judging
  <2>4. ASSUME NEW p \in Paths, p \notin Kept, Fresh(a, p)'
        PROVE  Origin(call[a].held.previous, p)'
    BY <1>3, <1>4, <1>5, <1>6, <2>3, <2>4 DEF Fresh, Origin
  <2>5. ASSUME NEW p \in Paths, p \notin Kept, ~Fresh(a, p)'
        PROVE  Origin(files[p], p)'
    <3>1. p # c.path \/ files[p] = Absent
      BY <1>3, <1>4, <1>6, <1>8, <2>5 DEF Fresh
    <3> QED
      BY <3>1, <1>5, <1>7, <2>3, <2>5 DEF Origin
  <2> QED
    BY <1>4, <1>5, <2>1, <2>2, <2>4, <2>5 DEF Mine
<1>11. CallOK(a)'
  <2>1. Captured(a)'
    BY <1>3, <1>4, <1>6, <1>7, ContentsApart DEF Captured
  <2> QED
    BY <2>1, <1>3, <1>4, <1>6, <1>8
    DEF CallOK, Measured, Accepting, PuttingBack, Answered, Judging, Mutators, Contents
<1> QED
  BY <1>4, <1>9, <1>10, <1>11 DEF Outcome

LEMMA Refused ==
    ASSUME WorkspaceInv, NEW a \in Agents, OthersIdle(a),
           call[a].pc \in {"executing", "generating"}, call[a].tool \in Mutators,
           Fails(a), UNCHANGED <<files, checkpoints, accepted, artifacts>>, UNCHANGED history
    PROVE  Outcome(a)
<1> DEFINE c == call[a]
           d == [c EXCEPT !.pc = "executed", !.ok = FALSE]
<1>1. Step(a, d)
  BY DEF Fails
<1>2. CallOK(a) /\ Captured(a) /\ Answered(a) /\ Types /\ Mine(a)
  BY OneTransaction DEF WorkspaceInv, CallOK
<1>3. /\ DOMAIN d = Fields /\ d.pc = "executed" /\ d.held = c.held /\ ~d.ok
      /\ d.tool = c.tool /\ d.path = c.path /\ d.version = c.version
      /\ d.undone = c.undone /\ d.plain = c.plain
      /\ d.fresh = c.fresh /\ d.moved = c.moved /\ d.record = c.record
  BY <1>2 DEF CallOK, Fields
<1>4. Turn(a) /\ call'[a] = d
  BY <1>1, StepTurn
<1>5. UNCHANGED <<files, checkpoints, accepted, artifacts, opened, scored, strayed, Kept>>
  BY DEF history, Kept
<1>6. c.pc \in {"executing", "generating"} /\ c.tool \in Mutators
  OBVIOUS
<1>7. /\ ~c.undone /\ ~c.plain /\ c.record = NoScore
      /\ c.path \in Paths => c.version \in Contents
  BY <1>2 DEF Answered, CallOK
<1> HIDE DEF d
<1>8. Types' /\ Scored'
  BY <1>2, <1>4, <1>5 DEF WorkspaceInv, Types, Scored, Turn
<1>9. Mine(a)'
  BY <1>2, <1>3, <1>4, <1>5, <1>6 DEF Mine, Fresh, Judging, Origin
<1>10. CallOK(a)'
  <2>1. Captured(a)'
    BY <1>2, <1>3, <1>4, <1>5, <1>6 DEF Captured
  <2> QED
    BY <2>1, <1>3, <1>4, <1>6, <1>7
    DEF CallOK, Measured, Accepting, PuttingBack, Answered, Judging, Mutators
<1> QED
  BY <1>4, <1>8, <1>9, <1>10 DEF Outcome

LEMMA WriteStep ==
    ASSUME WorkspaceInv, NEW a \in Agents, OthersIdle(a), Write(a) PROVE Outcome(a)
<1>1. call[a].pc = "executing" /\ call[a].tool \in Mutators
  BY DEF Write, Mutators
<1>2. UNCHANGED <<checkpoints, accepted, artifacts>> /\ UNCHANGED history
  BY DEF Write
<1> QED
  BY <1>1, <1>2, Overwritten, Refused DEF Write

LEMMA MaterializeStep ==
    ASSUME WorkspaceInv, NEW a \in Agents, OthersIdle(a), Materialize(a) PROVE Outcome(a)
<1>1. call[a].pc = "generating" /\ call[a].tool \in Mutators
  BY DEF Materialize, WorkspaceInv, CallOK
<1>2. UNCHANGED <<checkpoints, accepted, artifacts>> /\ UNCHANGED history
  BY DEF Materialize
<1> QED
  BY <1>1, <1>2, Overwritten, Refused DEF Materialize

LEMMA SnapshotStep ==
    ASSUME WorkspaceInv, NEW a \in Agents, OthersIdle(a), Snapshot(a) PROVE Outcome(a)
<1> DEFINE c == call[a]
           d == [c EXCEPT !.pc = "generating", !.from = files[c.path]]
<1>1. c.pc = "executing" /\ c.tool \in Mutators
  BY DEF Snapshot, Mutators
<1>2. UNCHANGED <<files, checkpoints, accepted, artifacts, history>>
  BY DEF Snapshot
<1>3. CASE Fails(a)
  BY <1>1, <1>2, <1>3, Refused
<1>4. CASE Step(a, d)
  <2>1. CallOK(a) /\ Captured(a) /\ Answered(a) /\ Types /\ Mine(a)
    BY <1>1, OneTransaction DEF WorkspaceInv, CallOK
  <2>2. /\ DOMAIN d = Fields /\ d.pc = "generating" /\ d.held = c.held
        /\ d.tool = c.tool /\ d.path = c.path /\ d.version = c.version
        /\ d.undone = c.undone /\ d.plain = c.plain
        /\ d.fresh = c.fresh /\ d.moved = c.moved /\ d.record = c.record
    BY <2>1 DEF CallOK, Fields
  <2>3. Turn(a) /\ call'[a] = d
    BY <1>4, StepTurn
  <2>4. UNCHANGED <<files, checkpoints, accepted, artifacts, opened, scored, strayed, Kept>>
    BY <1>2 DEF history, Kept
  <2>5. /\ ~c.undone /\ ~c.plain /\ c.record = NoScore
        /\ c.path \in Paths => c.version \in Contents
    BY <1>1, <2>1 DEF Answered, CallOK
  <2> HIDE DEF d
  <2>6. Types' /\ Scored'
    BY <2>1, <2>3, <2>4 DEF WorkspaceInv, Types, Scored, Turn
  <2>7. Mine(a)'
    BY <1>1, <2>1, <2>2, <2>3, <2>4 DEF Mine, Fresh, Judging, Origin
  <2>8. Captured(a)'
    BY <1>1, <2>1, <2>2, <2>3, <2>4 DEF Captured
  <2>9. CallOK(a)'
    BY <1>1, <2>8, <2>2, <2>3, <2>5
    DEF CallOK, Measured, Accepting, PuttingBack, Answered, Judging
  <2> QED
    BY <2>3, <2>6, <2>7, <2>9 DEF Outcome
<1> QED
  BY <1>3, <1>4 DEF Snapshot

\* What the command changes is covered by a checkpoint, or by none.
LEMMA AlterStep ==
    ASSUME WorkspaceInv, NEW a \in Agents, OthersIdle(a), Alter(a) PROVE Outcome(a)
<1> DEFINE c == call[a]
           d == [c EXCEPT !.moved = c.fresh]
<1>1. /\ c.tool = "shell.exec" /\ c.pc \in {"executing", "rerunning"} /\ c.path \in Paths
      /\ Step(a, d) /\ files' = [files EXCEPT ![c.path] = c.version]
      /\ UNCHANGED <<checkpoints, accepted, artifacts, scored, Kept>>
  BY DEF Alter, Runs, Kept
<1>2. /\ CallOK(a) /\ Measured(a) /\ Answered(a) /\ PuttingBack(a) /\ Types /\ Mine(a)
      /\ c.version \in Contents /\ DOMAIN c = Fields
  BY <1>1, OneTransaction DEF WorkspaceInv, CallOK
<1>3. /\ DOMAIN d = Fields /\ d.pc = c.pc /\ d.tool = c.tool /\ d.path = c.path
      /\ d.version = c.version /\ d.undone = c.undone /\ d.plain = c.plain
      /\ d.record = c.record /\ d.fresh = c.fresh /\ d.moved = c.fresh
      /\ d.todo = c.todo
  BY <1>2 DEF Fields
<1>4. Turn(a) /\ call'[a] = d
  BY <1>1, StepTurn
<1> HIDE DEF d
<1>5. /\ \A p \in Paths : files'[p] = IF p = c.path THEN c.version ELSE files[p]
      /\ files' \in [Paths -> Contents]
  BY <1>1, <1>2 DEF Types
<1>6. /\ opened' = [p \in Paths |-> opened'[p]]
      /\ \A p \in Paths : p # c.path \/ p \in Kept \/ Kept = {} => opened'[p] = opened[p]
      /\ c.path \notin Kept /\ Kept # {} => opened'[c.path] = c.version
      /\ strayed \subseteq strayed' /\ (c.path \notin Kept => c.path \in strayed')
  BY <1>1, <1>2, Zenon DEF Alter, Types
<1>7. Types'
  BY <1>1, <1>2, <1>4, <1>5, <1>6 DEF Types, Turn
<1>8. Scored'
  BY <1>1 DEF WorkspaceInv, Scored
<1>9. Mine(a)'
  <2>1. d.pc \notin Judging \cup {"healing"} /\ \A p \in Paths : ~Fresh(a, p)'
    BY <1>1, <1>3, <1>4 DEF Judging, Fresh
  <2>2. ASSUME NEW p \in Paths, p \in Kept PROVE Origin(checkpoints[p].previous, p)'
    BY <1>1, <1>2, <1>6, <2>2 DEF Mine, Origin
  <2>3. ASSUME NEW p \in Paths, p \notin Kept PROVE Origin(files[p], p)'
    <3>1. Origin(files[p], p)
      BY <1>1, <1>2, <2>3 DEF Mine, Fresh, Judging
    <3>2. CASE p = c.path
      BY <1>1, <1>5, <1>6, <2>3, <3>2 DEF Origin
    <3>3. CASE p # c.path
      BY <1>1, <1>5, <1>6, <3>1, <3>3 DEF Origin
    <3> QED
      BY <3>2, <3>3
  <2> QED
    BY <1>1, <1>4, <2>1, <2>2, <2>3 DEF Mine
<1>10. Measured(a)' /\ PuttingBack(a)' /\ Answered(a)'
  BY <1>1, <1>2, <1>3, <1>4 DEF Measured, PuttingBack, Answered, Judging
<1>11. CallOK(a)'
  BY <1>1, <1>2, <1>3, <1>4, <1>10 DEF CallOK, Captured, Accepting, Judging, Mutators
<1> QED
  BY <1>4, <1>7, <1>8, <1>9, <1>11 DEF Outcome

LEMMA MeasureStep ==
    ASSUME WorkspaceInv, NEW a \in Agents, OthersIdle(a), Measure(a) PROVE Outcome(a)
<1> DEFINE c == call[a]
           d == [c EXCEPT !.fresh = TRUE, !.moved = FALSE]
<1>1. /\ c.tool = "shell.exec" /\ c.pc \in {"executing", "rerunning"}
      /\ Step(a, d) /\ artifacts' = [score |-> Grade(files), on |-> files]
      /\ UNCHANGED <<files, checkpoints, accepted, opened, scored, strayed, Kept>>
  BY DEF Measure, Runs, history, Kept
<1>2. /\ CallOK(a) /\ Answered(a) /\ PuttingBack(a) /\ Types /\ Mine(a) /\ DOMAIN c = Fields
  BY OneTransaction DEF WorkspaceInv, CallOK
<1>3. /\ DOMAIN d = Fields /\ d.pc = c.pc /\ d.tool = c.tool /\ d.path = c.path
      /\ d.version = c.version /\ d.undone = c.undone /\ d.plain = c.plain
      /\ d.record = c.record /\ d.todo = c.todo
  BY <1>2 DEF Fields
<1>4. Turn(a) /\ call'[a] = d
  BY <1>1, StepTurn
<1> HIDE DEF d
<1>5. Card(artifacts.score, artifacts.on)' /\ artifacts'.on = files'
  BY <1>1, <1>2 DEF Card, Types
<1>6. Types' /\ Scored'
  BY <1>1, <1>2, <1>4, <1>5 DEF WorkspaceInv, Types, Scored, Turn
<1>7. Mine(a)'
  BY <1>1, <1>2, <1>3, <1>4 DEF Mine, Fresh, Judging, Origin, Mutators
<1>8. Measured(a)' /\ PuttingBack(a)' /\ Answered(a)'
  BY <1>1, <1>2, <1>3, <1>4, <1>5 DEF Measured, PuttingBack, Answered, Judging
<1>9. CallOK(a)'
  BY <1>1, <1>2, <1>3, <1>4, <1>8 DEF CallOK, Captured, Accepting, Judging, Mutators
<1> QED
  BY <1>4, <1>6, <1>7, <1>9 DEF Outcome

\* What a command's end can be read from.
LEMMA Readable ==
    ASSUME WorkspaceInv, NEW a \in Agents, call[a].pc \in {"executing", "rerunning"},
           NEW snapshot \in BOOLEAN, NEW card \in Scorecards(a, snapshot), card.score # NoScore
    PROVE  /\ Card(card.score, card.on) /\ (snapshot => call[a].fresh)
           /\ call[a].fresh /\ ~call[a].moved => card.on = files
<1>1. card = artifacts /\ (snapshot => call[a].fresh)
  BY DEF Scorecards, NoArtifacts
<1>2. Types /\ Measured(a)
  BY DEF WorkspaceInv, CallOK
<1> QED
  BY <1>1, <1>2 DEF Types, Measured, NoArtifacts

LEMMA VerifyStep ==
    ASSUME WorkspaceInv, NEW a \in Agents, OthersIdle(a), Verify(a) PROVE Outcome(a)
<1> DEFINE c == call[a]
<1>1. /\ c.pc = "executing" /\ c.tool = "shell.exec"
      /\ UNCHANGED <<files, checkpoints, accepted, artifacts, opened, scored, strayed, Kept>>
  BY DEF Verify, history, Kept
<1>2. /\ CallOK(a) /\ Answered(a) /\ Types /\ Mine(a) /\ DOMAIN c = Fields
      /\ ~c.undone /\ ~c.plain /\ c.record = NoScore
  BY <1>1, OneTransaction DEF WorkspaceInv, CallOK, Answered
<1>3. ASSUME NEW d, Step(a, d), DOMAIN d = Fields, d.tool = c.tool, d.path = c.path,
             d.version = c.version, d.undone = c.undone, d.plain = c.plain,
             d.record = c.record, d.pc \in {"executed", "settling"},
             /\ d.pc = "executed" /\ d.score # NoScore =>
                   Card(d.score, d.on) /\ (d.fresh /\ ~d.moved => d.on = files)
      PROVE  Outcome(a)
  <2>1. Turn(a) /\ call'[a] = d
    BY <1>3, StepTurn
  <2>2. Types' /\ Scored'
    BY <1>1, <1>2, <2>1 DEF WorkspaceInv, Types, Scored, Turn
  <2>3. Mine(a)'
    BY <1>1, <1>2, <1>3, <2>1 DEF Mine, Fresh, Judging, Origin, Mutators
  <2>4. Measured(a)'
    BY <1>1, <1>3, <2>1 DEF Measured, Card
  <2>5. CallOK(a)'
    BY <1>1, <1>2, <1>3, <2>1, <2>4
    DEF CallOK, Captured, Accepting, PuttingBack, Answered, Judging, Mutators
  <2> QED
    BY <2>1, <2>2, <2>3, <2>5 DEF Outcome
<1>4. CASE Step(a, [c EXCEPT !.pc = "settling"])
  <2> DEFINE d == [c EXCEPT !.pc = "settling"]
  <2>1. /\ DOMAIN d = Fields /\ d.tool = c.tool /\ d.path = c.path /\ d.version = c.version
        /\ d.undone = c.undone /\ d.plain = c.plain /\ d.record = c.record /\ d.pc = "settling"
    BY <1>2 DEF Fields
  <2> QED
    BY <1>3, <1>4, <2>1
<1>5. CASE ~Step(a, [c EXCEPT !.pc = "settling"])
  <2>1. PICK ok \in BOOLEAN, official \in BOOLEAN : \E card \in Scorecards(a, ~official) :
           Step(a, [c EXCEPT !.pc = "executed", !.ok = ok, !.score = card.score, !.on = card.on])
    BY <1>5 DEF Verify
  <2>2. PICK card \in Scorecards(a, ~official) :
           Step(a, [c EXCEPT !.pc = "executed", !.ok = ok, !.score = card.score, !.on = card.on])
    BY <2>1
  <2> DEFINE d == [c EXCEPT !.pc = "executed", !.ok = ok, !.score = card.score, !.on = card.on]
  <2>3. /\ DOMAIN d = Fields /\ d.tool = c.tool /\ d.path = c.path /\ d.version = c.version
        /\ d.undone = c.undone /\ d.plain = c.plain /\ d.record = c.record /\ d.pc = "executed"
        /\ d.score = card.score /\ d.on = card.on /\ d.fresh = c.fresh /\ d.moved = c.moved
    BY <1>2 DEF Fields
  <2> HIDE DEF d
  <2>4. d.score # NoScore => Card(d.score, d.on) /\ (d.fresh /\ ~d.moved => d.on = files)
    BY <1>1, <2>3, Readable
  <2>5. Step(a, d)
    BY <2>2 DEF d
  <2> QED
    BY <1>3, <2>3, <2>4, <2>5
<1> QED
  BY <1>4, <1>5

LEMMA RecordStep ==
    ASSUME WorkspaceInv, NEW a \in Agents, OthersIdle(a), Record(a) PROVE Outcome(a)
<1> DEFINE c == call[a]
           d == [c EXCEPT !.pc = "settling"]
<1>1. /\ c.pc = "executed" /\ c.tool # "shell.exec" /\ Step(a, d)
      /\ UNCHANGED <<files, accepted, artifacts, scored, strayed>>
  BY DEF Record
<1>2. CallOK(a) /\ Captured(a) /\ Answered(a) /\ Types /\ Mine(a)
  BY <1>1, OneTransaction DEF WorkspaceInv, CallOK
<1>3. /\ DOMAIN d = Fields /\ d.pc = "settling" /\ d.tool = c.tool
      /\ d.path = c.path /\ d.version = c.version /\ d.fresh = c.fresh
      /\ d.undone = c.undone /\ d.plain = c.plain
  BY <1>2 DEF CallOK, Fields
<1>4. Turn(a) /\ call'[a] = d
  BY <1>1, StepTurn
<1>5. /\ ~c.undone /\ ~c.plain /\ c.tool \in Mutators
      /\ c.path \in Paths => c.version \in Contents
  BY <1>1, <1>2 DEF Answered, CallOK
<1> HIDE DEF d
<1>6. Scored'
  BY <1>1 DEF WorkspaceInv, Scored
<1>7. CallOK(a)'
  <2>1. Captured(a)'
    BY <1>2, <1>3, <1>4 DEF Captured, CallOK, Fields, d
  <2> QED
    BY <2>1, <1>3, <1>4, <1>5
    DEF CallOK, Measured, Accepting, PuttingBack, Answered, Judging
<1>8. ~Fresh(a, c.path)' /\ \A p \in Paths : ~Fresh(a, p)'
  BY <1>3, <1>4 DEF Fresh
<1>9. CASE c.held = NoCheckpoint \/ ~c.ok \/ c.path \in Kept
  <2>1. UNCHANGED <<checkpoints, opened, Kept>>
    BY <1>9 DEF Record, Keep, Kept
  <2>2. Types'
    BY <1>1, <1>2, <1>4, <2>1 DEF Types, Turn
  <2>3. ASSUME NEW p \in Paths, p \notin Kept PROVE Origin(files[p], p)
    <3>1. ~Fresh(a, p) /\ c.pc \notin Judging
      BY <1>1, <1>9, <2>3 DEF Fresh, Judging
    <3> QED
      BY <3>1, <1>2, <2>3 DEF Mine
  <2>4. Mine(a)'
    BY <1>1, <1>2, <1>3, <1>4, <1>8, <2>1, <2>3 DEF Mine, Judging, Origin
  <2> QED
    BY <1>4, <1>6, <1>7, <2>2, <2>4 DEF Outcome
<1>10. CASE ~(c.held = NoCheckpoint \/ ~c.ok \/ c.path \in Kept)
  <2>1. /\ c.path \in Paths /\ Fresh(a, c.path)
        /\ c.held.previous \in Versions
    BY <1>1, <1>2, <1>5, <1>10 DEF Captured, Fresh
  <2>2. checkpoints' = [checkpoints EXCEPT ![c.path] = c.held]
    BY <1>10 DEF Record, Keep
  <2>3. /\ checkpoints' = [p \in Paths |-> checkpoints'[p]]
        /\ \A p \in Paths : checkpoints'[p] = IF p = c.path THEN c.held ELSE checkpoints[p]
    BY <1>2, <2>1, <2>2 DEF Types
  <2>4. /\ Kept' = Kept \cup {c.path} /\ c.path \notin Kept /\ Kept' # {}
    BY <1>10, <2>1, <2>3 DEF Kept
  <2>5. checkpoints' # checkpoints
    BY <1>10, <2>1, <2>3 DEF Kept
  <2>6. opened' = IF Kept = {} THEN [files EXCEPT ![c.path] = c.held.previous] ELSE opened
    BY <2>5 DEF Record
  <2>7. Types'
    <3>1. \A p \in Kept' : checkpoints[p]'.previous \in Versions
      BY <1>1, <1>2, <2>1, <2>3, <2>4 DEF Types, Kept
    <3>2. opened' = [p \in Paths |-> opened'[p]]
      BY <1>2, <2>6 DEF Types
    <3> QED
      BY <1>1, <1>2, <1>4, <2>3, <3>1, <3>2 DEF Types, Turn
  <2>8. ASSUME NEW p \in Paths, p \in Kept' PROVE Origin(checkpoints[p].previous, p)'
    <3>1. CASE p # c.path
      <4>1. p \in Kept /\ Origin(checkpoints[p].previous, p)
        BY <1>2, <2>4, <2>8, <3>1 DEF Mine
      <4>2. opened' = opened /\ checkpoints'[p] = checkpoints[p]
        BY <2>3, <2>6, <3>1, <4>1
      <4> QED
        BY <1>1, <4>1, <4>2 DEF Origin
    <3>2. CASE p = c.path
      <4>1. Origin(c.held.previous, p) /\ checkpoints'[p] = c.held
        BY <1>2, <2>1, <2>3, <2>4, <3>2 DEF Mine
      <4>2. Kept = {} => opened'[p] = c.held.previous
        BY <1>2, <2>6, <3>2 DEF Types
      <4>3. Kept # {} => opened' = opened
        BY <2>6
      <4> QED
        BY <1>1, <4>1, <4>2, <4>3 DEF Origin
    <3> QED
      BY <3>1, <3>2
  <2>9. ASSUME NEW p \in Paths, p \notin Kept' PROVE Origin(files[p], p)'
    <3>1. p # c.path /\ p \notin Kept /\ ~Fresh(a, p) /\ c.pc \notin Judging
      BY <1>1, <2>1, <2>4, <2>9 DEF Fresh, Judging
    <3>2. Origin(files[p], p)
      BY <1>2, <3>1 DEF Mine
    <3>3. Kept = {} => opened'[p] = files[p]
      BY <1>2, <2>6, <3>1 DEF Types
    <3>4. Kept # {} => opened' = opened
      BY <2>6
    <3> QED
      BY <1>1, <3>2, <3>3, <3>4 DEF Origin
  <2>10. Mine(a)'
    BY <1>3, <1>4, <1>8, <2>8, <2>9 DEF Mine, Judging
  <2> QED
    BY <1>4, <1>6, <1>7, <2>7, <2>10 DEF Outcome
<1> QED
  BY <1>9, <1>10

\* A verification sees every change kept or judged.
LEMMA AtJudgement ==
    ASSUME WorkspaceInv, NEW a \in Agents, OthersIdle(a), Judge(a)
    PROVE  /\ call[a].pc = "executed" /\ call[a].tool = "shell.exec"
           /\ CallOK(a) /\ Types /\ Mine(a) /\ ~call[a].undone /\ ~call[a].plain
           /\ call[a].record = NoScore
           /\ call[a].score # NoScore =>
                 /\ Card(call[a].score, call[a].on)
                 /\ call[a].fresh /\ ~call[a].moved => call[a].on = files
           /\ \A p \in Paths : p \notin Kept => Origin(files[p], p)
           /\ UNCHANGED <<files, accepted, artifacts, opened, scored, strayed>>
<1>1. /\ call[a].pc = "executed" /\ call[a].tool = "shell.exec"
      /\ UNCHANGED <<files, accepted, artifacts, opened, scored, strayed>>
  BY DEF Judge, history
<1>2. CallOK(a) /\ Measured(a) /\ Answered(a) /\ Types /\ Mine(a)
  BY OneTransaction DEF WorkspaceInv, CallOK
<1> QED
  BY <1>1, <1>2 DEF Measured, Answered, Mine, Fresh, Judging, Mutators

LEMMA JudgeStep ==
    ASSUME WorkspaceInv, NEW a \in Agents, OthersIdle(a), Judge(a) PROVE Outcome(a)
<1> DEFINE c == call[a]
           settled == [c EXCEPT !.pc = "settling"]
           plainly == [c EXCEPT !.pc = "settling", !.plain = TRUE]
           healing == [c EXCEPT !.pc = "healing", !.todo = Restoration,
                                !.record = accepted.score]
           persisting == [c EXCEPT !.pc = "persisting", !.paths = Kept]
           undoing == [c EXCEPT !.pc = "undoing", !.todo = checkpoints, !.record = Baseline]
<1>1. /\ c.pc = "executed" /\ c.tool = "shell.exec" /\ CallOK(a) /\ Types /\ Mine(a)
      /\ ~c.undone /\ ~c.plain /\ c.record = NoScore
      /\ c.score # NoScore => Card(c.score, c.on) /\ (c.fresh /\ ~c.moved => c.on = files)
      /\ \A p \in Paths : p \notin Kept => Origin(files[p], p)
      /\ UNCHANGED <<files, accepted, artifacts, opened, scored, strayed>>
  BY AtJudgement
<1>2. DOMAIN c = Fields
  BY <1>1 DEF CallOK
<1>3. Scored'
  BY <1>1 DEF WorkspaceInv, Scored
<1>4. UNCHANGED checkpoints => Kept' = Kept /\ \A p \in Paths : p \in Kept =>
         Origin(checkpoints[p].previous, p)'
  BY <1>1 DEF Kept, Mine, Origin
<1>5. CASE UNCHANGED checkpoints /\ Step(a, settled)
  <2>1. /\ DOMAIN settled = Fields /\ settled.pc = "settling" /\ settled.tool = c.tool
        /\ settled.path = c.path /\ settled.version = c.version
        /\ settled.undone = c.undone /\ settled.plain = c.plain
    BY <1>2 DEF Fields
  <2>2. Turn(a) /\ call'[a] = settled
    BY <1>5, StepTurn
  <2> HIDE DEF settled
  <2>3. Types'
    BY <1>1, <1>4, <1>5, <2>2 DEF Types, Turn
  <2>4. Mine(a)'
    BY <1>1, <1>4, <1>5, <2>1, <2>2 DEF Mine, Fresh, Judging, Origin
  <2>5. CallOK(a)'
    BY <1>1, <2>1, <2>2
    DEF CallOK, Captured, Measured, Accepting, PuttingBack, Answered, Judging, Mutators
  <2> QED
    BY <1>3, <2>2, <2>3, <2>4, <2>5 DEF Outcome
<1>6. CASE UNCHANGED checkpoints /\ Step(a, plainly) /\ ~Below(c.score) /\ c.score # NoScore
  <2>1. /\ DOMAIN plainly = Fields /\ plainly.pc = "settling" /\ plainly.tool = c.tool
        /\ plainly.path = c.path /\ plainly.version = c.version
        /\ plainly.undone = c.undone /\ plainly.record = c.record
        /\ plainly.fresh = c.fresh /\ plainly.moved = c.moved
    BY <1>2 DEF Fields
  <2>2. Turn(a) /\ call'[a] = plainly
    BY <1>6, StepTurn
  <2> HIDE DEF plainly
  <2>3. /\ c.fresh /\ ~c.moved /\ accepted.score # NoScore
        => Grade(files).reward >= accepted.score.reward
    <3> SUFFICES ASSUME c.fresh, ~c.moved, accepted.score # NoScore
                 PROVE  Grade(files).reward >= accepted.score.reward
      OBVIOUS
    <3>1. c.score = Grade(files)
      BY <1>1, <1>6 DEF Card
    <3>2. Grade(files).reward \in Int
      BY <1>1, RewardsAreNumbers DEF Types
    <3> QED
      BY <1>1, <1>6, <3>1, <3>2 DEF Below, Types
  <2>4. Types'
    BY <1>1, <1>4, <1>6, <2>2 DEF Types, Turn
  <2>5. Mine(a)'
    BY <1>1, <1>4, <1>6, <2>1, <2>2 DEF Mine, Fresh, Judging, Origin
  <2>6. CallOK(a)'
    BY <1>1, <2>1, <2>2, <2>3
    DEF CallOK, Captured, Measured, Accepting, PuttingBack, Answered, Judging, Mutators
  <2> QED
    BY <1>3, <2>2, <2>4, <2>5, <2>6 DEF Outcome
<1>7. CASE UNCHANGED checkpoints /\ Step(a, healing) /\ Below(c.score) /\ Kept = {}
  <2>1. /\ DOMAIN healing = Fields /\ healing.pc = "healing" /\ healing.tool = c.tool
        /\ healing.path = c.path /\ healing.version = c.version
        /\ healing.todo = Restoration /\ healing.record = accepted.score
        /\ healing.undone = c.undone /\ healing.plain = c.plain
    BY <1>2 DEF Fields
  <2>2. Turn(a) /\ call'[a] = healing
    BY <1>7, StepTurn
  <2> HIDE DEF healing
  <2>3. Types'
    BY <1>1, <1>4, <1>7, <2>2 DEF Types, Turn
  <2>4. Mine(a)'
    BY <1>1, <1>4, <1>7, <2>1, <2>2 DEF Mine, Fresh, Judging, Origin
  <2>5. PuttingBack(a)'
    <3>1. /\ Restoration = [p \in Paths |-> Restoration[p]]
          /\ \A p \in Paths : Restoration[p].previous = accepted.files[p]
      BY DEF Restoration, NoCheckpoint
    <3> QED
      BY <1>1, <1>7, <2>1, <2>2, <3>1 DEF PuttingBack, Below
  <2>6. CallOK(a)'
    BY <1>1, <2>1, <2>2, <2>5
    DEF CallOK, Captured, Measured, Accepting, Answered, Judging, Mutators
  <2> QED
    BY <1>3, <2>2, <2>3, <2>4, <2>6 DEF Outcome
<1>8. checkpoints' = NoCheckpoints =>
         Kept' = {} /\ checkpoints' = [p \in Paths |-> checkpoints'[p]]
  BY DEF Kept, NoCheckpoints
<1>9. CASE checkpoints' = NoCheckpoints /\ Step(a, persisting) /\ c.score # NoScore
  <2>1. /\ DOMAIN persisting = Fields /\ persisting.pc = "persisting"
        /\ persisting.tool = c.tool /\ persisting.paths = Kept
        /\ persisting.path = c.path /\ persisting.version = c.version
        /\ persisting.score = c.score /\ persisting.on = c.on
        /\ persisting.fresh = c.fresh /\ persisting.moved = c.moved
        /\ persisting.undone = c.undone /\ persisting.plain = c.plain
    BY <1>2 DEF Fields
  <2>2. Turn(a) /\ call'[a] = persisting
    BY <1>9, StepTurn
  <2> HIDE DEF persisting
  <2>3. Types'
    BY <1>1, <1>8, <1>9, <2>2 DEF Types, Turn
  <2>4. Mine(a)'
    BY <1>8, <1>9, <2>1, <2>2 DEF Mine, Fresh, Judging
  <2>5. Measured(a)'
    BY <1>1, <1>9, <2>1, <2>2 DEF Measured, Card
  <2>6. Accepting(a)'
    BY <1>1, <2>1, <2>2 DEF Accepting, Types, Origin
  <2>7. CallOK(a)'
    BY <1>1, <2>1, <2>2, <2>5, <2>6
    DEF CallOK, Captured, PuttingBack, Answered, Judging, Mutators
  <2> QED
    BY <1>3, <2>2, <2>3, <2>4, <2>7 DEF Outcome
<1>10. CASE checkpoints' = NoCheckpoints /\ Step(a, undoing) /\ Kept # {}
  <2>1. /\ DOMAIN undoing = Fields /\ undoing.pc = "undoing"
        /\ undoing.tool = c.tool /\ undoing.todo = checkpoints
        /\ undoing.path = c.path /\ undoing.version = c.version
        /\ undoing.undone = c.undone /\ undoing.plain = c.plain
    BY <1>2 DEF Fields
  <2>2. Turn(a) /\ call'[a] = undoing
    BY <1>10, StepTurn
  <2> HIDE DEF undoing
  <2>3. Types'
    BY <1>1, <1>8, <1>10, <2>2 DEF Types, Turn
  <2>4. Mine(a)'
    BY <1>8, <1>10, <2>1, <2>2 DEF Mine, Fresh, Judging
  <2>5. PuttingBack(a)'
    <3>1. ASSUME NEW p \in Paths, checkpoints[p] # NoCheckpoint
          PROVE  checkpoints[p].previous \in Versions /\ Origin(checkpoints[p].previous, p)
      BY <1>1, <3>1 DEF Types, Mine, Kept
    <3>2. ASSUME NEW p \in Paths, checkpoints[p] = NoCheckpoint PROVE Origin(files[p], p)
      BY <1>1, <3>2 DEF Kept
    <3> QED
      BY <1>1, <1>10, <2>1, <2>2, <3>1, <3>2 DEF PuttingBack, Origin, Types
  <2>6. CallOK(a)'
    BY <1>1, <2>1, <2>2, <2>5
    DEF CallOK, Captured, Measured, Accepting, Answered, Judging, Mutators
  <2> QED
    BY <1>3, <2>2, <2>3, <2>4, <2>6 DEF Outcome
<1> HIDE DEF settled, plainly, healing, persisting, undoing
<1> QED
  BY <1>5, <1>6, <1>7, <1>9, <1>10
  DEF Judge, settled, plainly, healing, persisting, undoing

LEMMA DraftStep ==
    ASSUME WorkspaceInv, NEW a \in Agents, OthersIdle(a), Draft(a) PROVE Outcome(a)
<1> DEFINE c == call[a]
           outdone == [c EXCEPT !.pc = "settling"]
           drafted == [c EXCEPT !.pc = "drafted", !.draft = Merged(c.paths)]
<1>1. /\ c.pc = "persisting"
      /\ UNCHANGED <<files, checkpoints, accepted, artifacts, opened, scored, Kept>>
  BY DEF Draft, Kept
<1>2. /\ CallOK(a) /\ DOMAIN c = Fields /\ c.tool = "shell.exec" /\ Measured(a) /\ Accepting(a)
      /\ ~c.undone /\ ~c.plain /\ Types /\ Mine(a) /\ Kept = {}
  BY <1>1, OneTransaction DEF WorkspaceInv, CallOK, Answered, Mine, Judging
<1>3. CASE Step(a, outdone) /\ strayed' = strayed \cup c.paths
  <2>1. /\ DOMAIN outdone = Fields /\ outdone.pc = "settling" /\ outdone.tool = c.tool
        /\ outdone.path = c.path /\ outdone.version = c.version
        /\ outdone.undone = c.undone /\ outdone.plain = c.plain
    BY <1>2 DEF Fields
  <2>2. Turn(a) /\ call'[a] = outdone
    BY <1>3, StepTurn
  <2> HIDE DEF outdone
  <2>3. Types' /\ Scored'
    BY <1>1, <1>2, <1>3, <2>2 DEF Types, Turn, Scored, WorkspaceInv
  <2>4. Mine(a)'
    BY <1>1, <1>2, <1>3, <2>1, <2>2 DEF Mine, Fresh, Judging, Origin, Accepting
  <2>5. CallOK(a)'
    BY <1>1, <1>2, <2>1, <2>2
    DEF CallOK, Captured, Measured, Accepting, PuttingBack, Answered, Judging, Mutators
  <2> QED
    BY <2>2, <2>3, <2>4, <2>5 DEF Outcome
<1>4. CASE Step(a, drafted) /\ UNCHANGED strayed
  <2>1. /\ DOMAIN drafted = Fields /\ drafted.pc = "drafted" /\ drafted.tool = c.tool
        /\ drafted.path = c.path /\ drafted.version = c.version
        /\ drafted.score = c.score /\ drafted.on = c.on /\ drafted.draft = Merged(c.paths)
        /\ drafted.paths = c.paths /\ drafted.fresh = c.fresh /\ drafted.moved = c.moved
        /\ drafted.undone = c.undone /\ drafted.plain = c.plain
    BY <1>2 DEF Fields
  <2>2. Turn(a) /\ call'[a] = drafted
    BY <1>4, StepTurn
  <2> HIDE DEF drafted
  <2>3. Types' /\ Scored'
    BY <1>1, <1>2, <1>4, <2>2 DEF Types, Turn, Scored, WorkspaceInv
  <2>4. Mine(a)'
    BY <1>1, <1>2, <1>4, <2>1, <2>2 DEF Mine, Fresh, Judging, Origin
  <2>5. Measured(a)'
    BY <1>1, <1>2, <2>1, <2>2 DEF Measured
  <2>6. Accepting(a)'
    <3>1. Merged(c.paths) \in [Paths -> Contents]
      BY <1>2 DEF Merged, Types
    <3>2. ASSUME NEW p \in Paths,
                 \/ p \in c.paths /\ files[p] # Absent
                 \/ p \notin c.paths /\ p \notin strayed
          PROVE  Merged(c.paths)[p] \in {files[p], Absent}
      BY <1>1, <1>2, <3>2 DEF Merged, Accepting
    <3> QED
      BY <1>1, <1>2, <1>4, <2>1, <2>2, <3>1, <3>2 DEF Accepting
  <2>7. CallOK(a)'
    BY <1>1, <1>2, <2>1, <2>2, <2>5, <2>6
    DEF CallOK, Captured, PuttingBack, Answered, Judging, Mutators
  <2> QED
    BY <2>2, <2>3, <2>4, <2>7 DEF Outcome
<1> HIDE DEF outdone, drafted
<1> QED
  BY <1>3, <1>4 DEF Draft, outdone, drafted

LEMMA PersistStep ==
    ASSUME WorkspaceInv, NEW a \in Agents, OthersIdle(a), Persist(a) PROVE Outcome(a)
<1> DEFINE c == call[a]
           d == [c EXCEPT !.pc = "settling"]
<1>1. /\ c.pc = "drafted" /\ Step(a, d)
      /\ strayed' = (strayed \ c.paths) \cup {p \in c.paths : files[p] = Absent}
      /\ scored' = [on |-> c.on, apart |-> IF c.fresh /\ ~c.moved THEN strayed' ELSE Paths]
      /\ accepted' = [score |-> c.score, files |-> c.draft]
      /\ UNCHANGED <<files, checkpoints, artifacts, opened, Kept>>
  BY DEF Persist, Kept
<1>2. /\ CallOK(a) /\ DOMAIN c = Fields /\ c.tool = "shell.exec" /\ Measured(a) /\ Accepting(a)
      /\ ~c.undone /\ ~c.plain /\ Types /\ Mine(a) /\ Kept = {}
  BY <1>1, OneTransaction DEF WorkspaceInv, CallOK, Answered, Mine, Judging
<1>3. /\ DOMAIN d = Fields /\ d.pc = "settling" /\ d.tool = c.tool
      /\ d.path = c.path /\ d.version = c.version
      /\ d.undone = c.undone /\ d.plain = c.plain
  BY <1>2 DEF Fields
<1>4. Turn(a) /\ call'[a] = d
  BY <1>1, StepTurn
<1> HIDE DEF d
<1>5. /\ accepted'.files = c.draft /\ accepted'.score = Grade(c.on)
      /\ c.on \in [Paths -> Contents] /\ c.draft \in [Paths -> Contents]
      /\ c.fresh /\ ~c.moved => c.on = files
  BY <1>1, <1>2 DEF Measured, Accepting, Card
<1>6. ASSUME NEW p \in Paths, p \notin strayed' PROVE c.draft[p] \in {files[p], Absent}
  BY <1>1, <1>2, <1>6 DEF Accepting
<1>7. accepted'.score.reward \in Int
  BY <1>5, RewardsAreNumbers
<1>8. Types'
  BY <1>1, <1>2, <1>4, <1>5, <1>7 DEF Types, Turn
<1>9. Scored'
  <2>1. CASE c.fresh /\ ~c.moved
    <3>1. scored'.apart = strayed' /\ scored'.on = files
      BY <1>1, <1>5, <2>1
    <3> QED
      BY <1>5, <1>6, <3>1 DEF Scored
  <2>2. CASE ~(c.fresh /\ ~c.moved)
    BY <1>1, <2>2 DEF Scored
  <2> QED
    BY <2>1, <2>2
<1>10. Mine(a)'
  BY <1>1, <1>2, <1>3, <1>4, <1>5, <1>6 DEF Mine, Fresh, Judging, Origin
<1>11. CallOK(a)'
  BY <1>1, <1>2, <1>3, <1>4
  DEF CallOK, Captured, Measured, Accepting, PuttingBack, Answered, Judging, Mutators
<1> QED
  BY <1>4, <1>8, <1>9, <1>10, <1>11 DEF Outcome

\* What one file put back leaves to do.
LEMMA PutBackStep ==
    ASSUME WorkspaceInv, NEW a \in Agents, OthersIdle(a), NEW p \in Paths,
           call[a].pc \in {"undoing", "healing"}, PutBack(a, p)
    PROVE  Outcome(a)
<1> DEFINE c == call[a]
           rest == [c.todo EXCEPT ![p] = NoCheckpoint]
           ok == [c EXCEPT !.todo = rest]
           bad == [c EXCEPT !.todo = rest, !.failed = TRUE]
<1>1. /\ c.todo[p] # NoCheckpoint
      /\ UNCHANGED <<checkpoints, accepted, artifacts, opened, scored, Kept>>
  BY DEF PutBack, Kept
<1>2. /\ CallOK(a) /\ DOMAIN c = Fields /\ c.tool = "shell.exec" /\ PuttingBack(a)
      /\ ~c.undone /\ ~c.plain /\ Types /\ Mine(a) /\ Kept = {}
  BY OneTransaction DEF WorkspaceInv, CallOK, Answered, Mine, Judging
<1>3. /\ rest = [q \in Paths |-> rest[q]]
      /\ \A q \in Paths : rest[q] = IF q = p THEN NoCheckpoint ELSE c.todo[q]
  BY <1>2 DEF PuttingBack
<1>4. c.pc \in {"undoing", "healing"}
  OBVIOUS
<1> HIDE DEF rest
<1>5. CASE /\ Step(a, ok) /\ files' = [files EXCEPT ![p] = c.todo[p].previous]
           /\ strayed' = IF c.pc = "healing" THEN strayed \ {p} ELSE strayed
  <2>1. /\ DOMAIN ok = Fields /\ ok.pc = c.pc /\ ok.tool = c.tool /\ ok.todo = rest
        /\ ok.path = c.path /\ ok.version = c.version
        /\ ok.failed = c.failed /\ ok.record = c.record
        /\ ok.undone = c.undone /\ ok.plain = c.plain
    BY <1>2 DEF Fields
  <2>2. Turn(a) /\ call'[a] = ok
    BY <1>5, StepTurn
  <2> HIDE DEF ok
  <2>3. c.todo[p].previous \in Contents
    BY <1>1, <1>2, <1>4 DEF PuttingBack, Contents, Types
  <2>4. /\ \A q \in Paths : files'[q] = IF q = p THEN c.todo[p].previous ELSE files[q]
        /\ files' \in [Paths -> Contents]
    BY <1>2, <1>5, <2>3 DEF Types
  <2>5. Types' /\ Scored'
    BY <1>1, <1>2, <1>5, <2>2, <2>4 DEF Types, Turn, Scored, WorkspaceInv
  <2>6. PuttingBack(a)'
    <3> DEFINE e == call'[a]
    <3>1. e.todo = [q \in Paths |-> e.todo[q]] /\ e.pc = c.pc
      BY <1>3, <2>1, <2>2
    <3>2. ASSUME c.pc = "undoing", NEW q \in Paths
          PROVE  /\ e.todo[q] # NoCheckpoint =>
                       /\ e.todo[q].previous \in Versions
                       /\ opened[q] \in {e.todo[q].previous, Absent}
                       /\ q \notin strayed => accepted.files[q] \in {e.todo[q].previous, Absent}
                 /\ e.todo[q] = NoCheckpoint =>
                       /\ ~e.failed => opened[q] \in {files'[q], Absent}
                       /\ q \notin strayed => accepted.files[q] \in {files'[q], Absent}
      <4>1. e.todo[q] = (IF q = p THEN NoCheckpoint ELSE c.todo[q]) /\ e.failed = c.failed
        BY <1>3, <2>1, <2>2
      <4>2. CASE q = p
        BY <1>1, <1>2, <2>4, <3>2, <4>1, <4>2 DEF PuttingBack
      <4>3. CASE q # p
        BY <1>2, <2>4, <3>2, <4>1, <4>3 DEF PuttingBack
      <4> QED
        BY <4>2, <4>3
    <3>3. ASSUME c.pc = "healing"
          PROVE  /\ e.record = accepted.score /\ accepted.score # NoScore
                 /\ \A q \in Paths : e.todo[q] # NoCheckpoint =>
                       e.todo[q].previous = accepted.files[q]
      BY <1>2, <1>3, <2>1, <2>2, <3>3 DEF PuttingBack
    <3> HIDE DEF e
    <3> QED
      BY <1>1, <1>5, <3>1, <3>2, <3>3 DEF PuttingBack, e
  <2>7. Mine(a)'
    <3>1. c.pc = "healing" => \A q \in Paths : Origin(files[q], q)
      BY <1>2 DEF Mine, Fresh, Judging
    <3>2. c.pc = "healing" => \A q \in Paths : Origin(files[q], q)'
      BY <1>1, <1>2, <1>5, <2>4, <3>1 DEF Origin, PuttingBack
    <3> QED
      BY <1>1, <1>2, <1>4, <2>1, <2>2, <3>2 DEF Mine, Fresh, Judging
  <2>8. CallOK(a)'
    BY <1>2, <1>4, <2>1, <2>2, <2>6
    DEF CallOK, Captured, Measured, Accepting, Answered, Judging, Mutators
  <2> QED
    BY <2>2, <2>5, <2>7, <2>8 DEF Outcome
<1>6. CASE Step(a, bad) /\ UNCHANGED files /\ strayed' = strayed \cup {p}
  <2>1. /\ DOMAIN bad = Fields /\ bad.pc = c.pc /\ bad.tool = c.tool /\ bad.todo = rest
        /\ bad.path = c.path /\ bad.version = c.version
        /\ bad.failed /\ bad.record = c.record
        /\ bad.undone = c.undone /\ bad.plain = c.plain
    BY <1>2 DEF Fields
  <2>2. Turn(a) /\ call'[a] = bad
    BY <1>6, StepTurn
  <2> HIDE DEF bad
  <2>3. Types' /\ Scored'
    BY <1>1, <1>2, <1>6, <2>2 DEF Types, Turn, Scored, WorkspaceInv
  <2>4. PuttingBack(a)'
    BY <1>1, <1>2, <1>3, <1>4, <1>6, <2>1, <2>2 DEF PuttingBack
  <2>5. Mine(a)'
    BY <1>1, <1>2, <1>4, <1>6, <2>1, <2>2 DEF Mine, Fresh, Judging, Origin
  <2>6. CallOK(a)'
    BY <1>2, <1>4, <2>1, <2>2, <2>4
    DEF CallOK, Captured, Measured, Accepting, Answered, Judging, Mutators
  <2> QED
    BY <2>2, <2>3, <2>5, <2>6 DEF Outcome
<1> HIDE DEF ok, bad
<1> QED
  BY <1>5, <1>6 DEF PutBack, ok, bad, rest

LEMMA UndoneStep ==
    ASSUME WorkspaceInv, NEW a \in Agents, OthersIdle(a), Undone(a) PROVE Outcome(a)
<1> DEFINE c == call[a]
<1>1. /\ c.pc = "undoing" /\ c.todo = NoCheckpoints
      /\ UNCHANGED <<files, checkpoints, accepted, artifacts, opened, scored, strayed, Kept>>
  BY DEF Undone, history, Kept
<1>2. /\ CallOK(a) /\ DOMAIN c = Fields /\ c.tool = "shell.exec" /\ PuttingBack(a)
      /\ ~c.undone /\ ~c.plain /\ Types /\ Mine(a) /\ Kept = {}
  BY <1>1, OneTransaction DEF WorkspaceInv, CallOK, Answered, Mine, Judging
<1>3. PICK d : /\ Step(a, d) /\ DOMAIN d = Fields /\ d.pc = "settling" /\ d.tool = c.tool
               /\ d.path = c.path /\ d.version = c.version
               /\ d.undone => ~c.failed
               /\ d.plain = c.plain
  <2>1. CASE c.failed
    <3> DEFINE d == [c EXCEPT !.pc = "settling"]
    <3>1. /\ Step(a, d) /\ DOMAIN d = Fields /\ d.pc = "settling" /\ d.tool = c.tool
          /\ d.path = c.path /\ d.version = c.version
          /\ ~d.undone /\ d.plain = c.plain
      BY <1>2, <2>1 DEF Fields, Undone
    <3> QED
      BY <3>1
  <2>2. CASE ~c.failed
    <3>1. PICK score \in ReadAs(c.score, c.record) :
             Step(a, [c EXCEPT !.pc = "settling", !.score = score, !.undone = TRUE])
      BY <2>2 DEF Undone
    <3> DEFINE d == [c EXCEPT !.pc = "settling", !.score = score, !.undone = TRUE]
    <3>2. /\ DOMAIN d = Fields /\ d.pc = "settling" /\ d.tool = c.tool
          /\ d.path = c.path /\ d.version = c.version /\ d.plain = c.plain
      BY <1>2 DEF Fields
    <3> QED
      BY <2>2, <3>1, <3>2
  <2> QED
    BY <2>1, <2>2
<1>4. Turn(a) /\ call'[a] = d
  BY <1>3, StepTurn
<1>5. \A p \in Paths : /\ ~c.failed => opened[p] \in {files[p], Absent}
                       /\ p \notin strayed => accepted.files[p] \in {files[p], Absent}
  BY <1>1, <1>2 DEF PuttingBack, NoCheckpoints
<1>6. Types' /\ Scored'
  BY <1>1, <1>2, <1>4 DEF Types, Turn, Scored, WorkspaceInv
<1>7. Mine(a)'
  BY <1>1, <1>2, <1>3, <1>4, <1>5 DEF Mine, Fresh, Judging, Origin
<1>8. CallOK(a)'
  BY <1>1, <1>2, <1>3, <1>4, <1>5
  DEF CallOK, Captured, Measured, Accepting, PuttingBack, Answered, Judging, Mutators
<1> QED
  BY <1>4, <1>6, <1>7, <1>8 DEF Outcome

LEMMA RerunStep ==
    ASSUME WorkspaceInv, NEW a \in Agents, OthersIdle(a), Rerun(a) PROVE Outcome(a)
<1> DEFINE c == call[a]
           d == IF c.failed
                  THEN [c EXCEPT !.pc = "settling", !.ok = FALSE, !.plain = TRUE]
                  ELSE [c EXCEPT !.pc = "rerunning", !.fresh = FALSE, !.moved = FALSE]
<1>1. /\ c.pc = "healing" /\ Step(a, d)
      /\ UNCHANGED <<files, checkpoints, accepted, artifacts, opened, scored, strayed, Kept>>
  BY DEF Rerun, history, Kept
<1>2. /\ CallOK(a) /\ DOMAIN c = Fields /\ c.tool = "shell.exec" /\ ~c.undone /\ ~c.plain
      /\ c.record = accepted.score /\ accepted.score # NoScore /\ Types /\ Mine(a)
  BY <1>1, OneTransaction DEF WorkspaceInv, CallOK, Answered, PuttingBack
<1>3. /\ DOMAIN d = Fields /\ d.tool = c.tool /\ d.path = c.path /\ d.version = c.version
      /\ d.undone = c.undone /\ d.record = c.record
      /\ \/ d.pc = "settling" /\ ~d.ok
         \/ d.pc = "rerunning" /\ ~d.fresh /\ d.plain = c.plain
  BY <1>2 DEF Fields
<1>4. Turn(a) /\ call'[a] = d
  BY <1>1, StepTurn
<1> HIDE DEF d
<1>5. Types' /\ Scored'
  BY <1>1, <1>2, <1>4 DEF Types, Turn, Scored, WorkspaceInv
<1>6. Mine(a)'
  BY <1>1, <1>2, <1>3, <1>4 DEF Mine, Fresh, Judging, Origin
<1>7. CallOK(a)'
  BY <1>1, <1>2, <1>3, <1>4
  DEF CallOK, Captured, Measured, Accepting, PuttingBack, Answered, Judging, Mutators
<1> QED
  BY <1>4, <1>5, <1>6, <1>7 DEF Outcome

LEMMA ReverifyStep ==
    ASSUME WorkspaceInv, NEW a \in Agents, OthersIdle(a), Reverify(a) PROVE Outcome(a)
<1> DEFINE c == call[a]
<1>1. /\ c.pc = "rerunning"
      /\ UNCHANGED <<files, checkpoints, accepted, artifacts, opened, scored, strayed, Kept>>
  BY DEF Reverify, history, Kept
<1>2. /\ CallOK(a) /\ DOMAIN c = Fields /\ c.tool = "shell.exec" /\ ~c.undone
      /\ c.record = accepted.score /\ Types /\ Mine(a)
  BY <1>1, OneTransaction DEF WorkspaceInv, CallOK, Answered, PuttingBack
<1>3. PICK ok \in BOOLEAN, card \in Scorecards(a, TRUE) :
         \E score \in ReadAs(card.score, c.record) :
            Step(a, [c EXCEPT !.pc = "settling", !.plain = TRUE, !.on = card.on,
                              !.ok = Reproduced(ok, card.score, c.record), !.score = score])
  BY DEF Reverify
<1>4. PICK score \in ReadAs(card.score, c.record) :
         Step(a, [c EXCEPT !.pc = "settling", !.plain = TRUE, !.on = card.on,
                           !.ok = Reproduced(ok, card.score, c.record), !.score = score])
  BY <1>3
<1> DEFINE d == [c EXCEPT !.pc = "settling", !.plain = TRUE, !.on = card.on,
                          !.ok = Reproduced(ok, card.score, c.record), !.score = score]
<1>5. /\ DOMAIN d = Fields /\ d.pc = "settling" /\ d.tool = c.tool /\ d.path = c.path
      /\ d.version = c.version /\ d.undone = c.undone /\ d.moved = c.moved
      /\ d.ok = Reproduced(ok, card.score, c.record)
  BY <1>2 DEF Fields
<1>6. Turn(a) /\ call'[a] = d
  BY <1>4, StepTurn
<1> HIDE DEF d
<1>7. d.ok /\ ~d.moved => Grade(files).reward >= accepted.score.reward
  <2> SUFFICES ASSUME d.ok, ~d.moved PROVE Grade(files).reward >= accepted.score.reward
    OBVIOUS
  <2>1. card.score # NoScore /\ card.score.reward >= accepted.score.reward
    BY <1>2, <1>5, Zenon DEF Reproduced
  <2>2. card.score = Grade(files)
    BY <1>1, <1>5, <2>1, Readable DEF Card
  <2> QED
    BY <2>1, <2>2
<1>8. Types' /\ Scored'
  BY <1>1, <1>2, <1>6 DEF Types, Turn, Scored, WorkspaceInv
<1>9. Mine(a)'
  BY <1>1, <1>2, <1>5, <1>6 DEF Mine, Fresh, Judging, Origin
<1>10. CallOK(a)'
  BY <1>1, <1>2, <1>5, <1>6, <1>7
  DEF CallOK, Captured, Measured, Accepting, PuttingBack, Answered, Judging, Mutators
<1> QED
  BY <1>6, <1>8, <1>9, <1>10 DEF Outcome

LEMMA SettleStep ==
    ASSUME WorkspaceInv, NEW a \in Agents, OthersIdle(a), Settle(a) PROVE Outcome(a)
<1>1. /\ call[a].pc = "settling" /\ Step(a, Idle)
      /\ opened' = IF Kept = {} THEN NoFiles ELSE opened
      /\ UNCHANGED <<files, checkpoints, accepted, artifacts, scored, strayed, Kept>>
  BY DEF Settle, Step, Kept
<1>2. DOMAIN Idle = Fields /\ Idle.pc = "idle" /\ ~Idle.undone /\ ~Idle.plain
  BY DEF Idle, Fields
<1>3. Types /\ Mine(a)
  BY OneTransaction DEF WorkspaceInv
<1>4. Turn(a) /\ call'[a] = Idle
  BY <1>1, StepTurn
<1>5. Types' /\ Scored'
  BY <1>1, <1>3, <1>4 DEF Types, Turn, Scored, WorkspaceInv, NoFiles
<1>6. Mine(a)'
  BY <1>1, <1>2, <1>3, <1>4 DEF Mine, Fresh, Judging, Origin
<1>7. CallOK(a)'
  BY <1>2, <1>4
  DEF CallOK, Captured, Measured, Accepting, PuttingBack, Answered, Judging
<1> QED
  BY <1>4, <1>5, <1>6, <1>7 DEF Outcome

LEMMA CrashStep == ASSUME WorkspaceInv, Crash PROVE WorkspaceInv'
<1>1. /\ checkpoints' = NoCheckpoints /\ Kept' = {}
      /\ checkpoints' = [p \in Paths |-> checkpoints'[p]]
      /\ call' = [a \in Agents |-> Idle]
      /\ strayed' = strayed \cup Kept \cup UNION {Exposed(a) : a \in Agents}
      /\ opened' = NoFiles /\ UNCHANGED <<files, accepted, artifacts, scored>>
  BY DEF Crash, NoCheckpoints, Kept
<1>2. \A a \in Agents : call'[a] = Idle
  BY <1>1
<1>3. DOMAIN Idle = Fields /\ Idle.pc = "idle" /\ ~Idle.undone /\ ~Idle.plain
  BY DEF Idle, Fields
<1>4. Types'
  BY <1>1 DEF Types, WorkspaceInv, NoFiles
<1>5. Alone' /\ Scored'
  BY <1>1, <1>2, <1>3 DEF Alone, Scored, WorkspaceInv
<1>6. Transaction'
  <2>1. ASSUME NEW p \in Paths, p \notin strayed' PROVE accepted.files[p] \in {files[p], Absent}
    <3>1. /\ p \notin strayed /\ p \notin Kept
          /\ \A a \in Agents : p \notin Exposed(a)
      BY <1>1, <2>1
    <3>2. \A a \in Agents : ~Fresh(a, p)
      BY <3>1 DEF Exposed, Fresh, Mutators
    <3>3. CASE \A a \in Agents : call[a].pc \notin Judging
      BY <3>1, <3>2, <3>3 DEF WorkspaceInv, Transaction, Origin
    <3>4. ASSUME NEW a \in Agents, call[a].pc \in Judging
          PROVE  accepted.files[p] \in {files[p], Absent}
      <4>1. /\ CallOK(a) /\ Accepting(a) /\ PuttingBack(a) /\ call[a].tool = "shell.exec"
            /\ call[a].tool \notin Mutators /\ p \notin Exposed(a)
        BY <3>1, <3>4 DEF WorkspaceInv, CallOK, Mutators
      <4>2. CASE call[a].pc = "persisting"
        BY <3>1, <4>1, <4>2 DEF Accepting, Exposed
      <4>3. CASE call[a].pc = "drafted"
        BY <3>1, <4>1, <4>3 DEF Accepting, Exposed
      <4>4. CASE call[a].pc = "undoing"
        BY <3>1, <4>1, <4>4 DEF PuttingBack, Exposed
      <4> QED
        BY <3>4, <4>2, <4>3, <4>4 DEF Judging
    <3> QED
      BY <3>3, <3>4
  <2> QED
    BY <1>1, <1>2, <1>3, <2>1 DEF Transaction, Origin, Fresh, Judging
<1>7. ASSUME NEW a \in Agents PROVE CallOK(a)'
  BY <1>2, <1>3
  DEF CallOK, Captured, Measured, Accepting, PuttingBack, Answered, Judging
<1> QED
  BY <1>4, <1>5, <1>6, <1>7 DEF WorkspaceInv

-----------------------------------------------------------------------------
(* The invariant, and what it says.                                        *)

LEMMA WorkspaceInitInv == WorkspaceInit => WorkspaceInv
<1> SUFFICES ASSUME WorkspaceInit PROVE WorkspaceInv
  OBVIOUS
<1>1. /\ files \in [Paths -> Contents] /\ checkpoints = NoCheckpoints /\ Kept = {}
      /\ accepted = NoRecord /\ call = [a \in Agents |-> Idle]
      /\ scored = [on |-> NoFiles, apart |-> {}] /\ strayed = {} /\ opened = NoFiles
      /\ artifacts = NoArtifacts
  BY StartsAreWorkspaces DEF WorkspaceInit, Kept, NoCheckpoints
<1>2. /\ DOMAIN Idle = Fields /\ Idle.pc = "idle" /\ ~Idle.undone /\ ~Idle.plain
      /\ NoFiles \in [Paths -> Contents] /\ \A p \in Paths : NoFiles[p] = Absent
      /\ NoRecord.score = NoScore /\ NoRecord.files = NoFiles
  BY DEF Idle, Fields, NoFiles, NoRecord, Contents
<1>3. \A a \in Agents : call[a] = Idle
  BY <1>1
<1>4. Types
  BY <1>1, <1>2 DEF Types, NoCheckpoints, NoFiles
<1>5. Alone /\ Scored
  BY <1>1, <1>2, <1>3 DEF Alone, Scored
<1>6. Transaction
  BY <1>1, <1>2, <1>3 DEF Transaction, Origin, Fresh, Judging
<1>7. ASSUME NEW a \in Agents PROVE CallOK(a)
  BY <1>2, <1>3
  DEF CallOK, Captured, Measured, Accepting, PuttingBack, Answered, Judging
<1> QED
  BY <1>4, <1>5, <1>6, <1>7 DEF WorkspaceInv

LEMMA BeginStep ==
    ASSUME WorkspaceInv, ~Overlap, NEW a \in Agents, Begin(a) PROVE WorkspaceInv'
<1>1. ASSUME NEW t \in Mutators, NEW x \in Edits, x[2] # Absent, Call(a, t, x[1], x[2])
      PROVE  OthersIdle(a) /\ Outcome(a)
  <2>1. x[1] \in Paths /\ x[2] \in Contents /\ x[2] \in Versions
    BY <1>1, EditsAreOfPaths DEF Contents
  <2> QED
    BY <1>1, <2>1, CallingStep
<1>2. ASSUME NEW p, NEW v \in Contents, Call(a, "shell.exec", p, v)
      PROVE  OthersIdle(a) /\ Outcome(a)
  BY <1>2, CallingStep DEF Mutators
<1>3. Absent \in Contents /\ \A x \in Edits : x[2] \in Contents
  BY EditsAreOfPaths DEF Contents
<1>4. OthersIdle(a) /\ Outcome(a)
  BY <1>1, <1>2, <1>3 DEF Begin
<1> QED
  BY <1>4, OneCall DEF Outcome

LEMMA ProgressStep ==
    ASSUME WorkspaceInv, NEW a \in Agents, Progress(a) PROVE WorkspaceInv'
<1>1. call[a].pc # "idle"
  BY DEF Progress, Capture, Write, Snapshot, Materialize, Alter, Measure, Runs, Verify,
         Record, Judge, Draft, Persist, Undo, Undone, Heal, Rerun, Reverify, Settle
<1>2. OthersIdle(a)
  BY <1>1, OnlyOne DEF WorkspaceInv
<1>3. Undo(a) \/ Heal(a) => Outcome(a)
  BY <1>2, PutBackStep DEF Undo, Heal
<1>4. Outcome(a)
  BY <1>2, <1>3, CaptureStep, WriteStep, SnapshotStep, MaterializeStep, AlterStep,
     MeasureStep, VerifyStep, RecordStep, JudgeStep, DraftStep, PersistStep, UndoneStep,
     RerunStep, ReverifyStep, SettleStep
  DEF Progress
<1> QED
  BY <1>2, <1>4, OneCall DEF Outcome

LEMMA WorkspaceSameInv == ASSUME WorkspaceInv, UNCHANGED workspaceVars PROVE WorkspaceInv'
<1>1. /\ UNCHANGED <<files, checkpoints, accepted, artifacts, call, opened, scored, strayed, Kept>>
  BY DEF workspaceVars, Kept
<1>2. Types' /\ Alone' /\ Scored' /\ Transaction'
  BY <1>1 DEF WorkspaceInv, Types, Alone, Scored, Transaction, Origin, Fresh
<1>3. ASSUME NEW a \in Agents PROVE CallOK(a)'
  BY <1>1 DEF WorkspaceInv, CallOK, Captured, Measured, Accepting, PuttingBack, Answered
<1> QED
  BY <1>2, <1>3 DEF WorkspaceInv

LEMMA WorkspaceNextInv == ASSUME WorkspaceInv, ~Overlap, [WorkspaceNext]_workspaceVars PROVE WorkspaceInv'
BY CrashStep, BeginStep, ProgressStep, WorkspaceSameInv DEF WorkspaceNext

\* executeToolForAgent keeps the relation at every await, through shell commands
\* that change files, failed writes and crashes.
THEOREM WorkspaceInvariance == ASSUME ~Overlap PROVE WorkspaceSpec => []WorkspaceInv
BY WorkspaceInitInv, WorkspaceNextInv, PTL DEF WorkspaceSpec

\* Checkpoints hold contents of files that exist, and so does the record.
THEOREM WorkspaceTypeCorrect == ASSUME ~Overlap PROVE WorkspaceSpec => []WorkspaceTypeOK
<1>1. WorkspaceInv => WorkspaceTypeOK
  BY DEF WorkspaceInv, Types, WorkspaceTypeOK
<1> QED
  BY <1>1, WorkspaceInvariance, PTL

\* A roll-back has put every file of the transaction back to its content before a
\* tool first changed it, over what shell commands did to it since, and has left
\* every other file as it found it (rollbackVerifierRegression).
THEOREM RollbacksAreExact ==
    ASSUME ~Overlap PROVE WorkspaceSpec => []RollbackIsExact
<1>1. WorkspaceInv => RollbackIsExact
  BY DEF WorkspaceInv, CallOK, Answered, RollbackIsExact
<1> QED
  BY <1>1, WorkspaceInvariance, PTL

\* Each recorded file has the content that the recorded scorecard was measured on,
\* except what shell commands, crashes, failed writes and verdicts below the record
\* had changed, and except a scorecard that was stale when it was read
\* (persistAcceptedVerifierWorkspaceCheckpoint).
THEOREM RecordsAreWhatWasScored ==
    ASSUME ~Overlap PROVE WorkspaceSpec => []AcceptedIsWhatWasScored
<1>1. WorkspaceInv => AcceptedIsWhatWasScored
  BY DEF WorkspaceInv, Scored, AcceptedIsWhatWasScored
<1> QED
  BY <1>1, WorkspaceInvariance, PTL

\* A verification without a candidate that reports success has measured a workspace
\* no worse than the record, or has brought the record back and measured that
\* (restorePersistentVerifierWorkspaceCheckpoint).
THEOREM SuccessesMeetTheRecord ==
    ASSUME ~Overlap PROVE WorkspaceSpec => []SuccessMeetsTheRecord
<1>1. WorkspaceInv => SuccessMeetsTheRecord
  BY DEF WorkspaceInv, CallOK, Answered, SuccessMeetsTheRecord
<1> QED
  BY <1>1, WorkspaceInvariance, PTL

-----------------------------------------------------------------------------
(* The loop of plan, call and observe.  An order of plans that the rules   *)
(* let through holds one change at most, only where every earlier change   *)
(* was tried, and, of a builder, one verification at most, only where      *)
(* something moved since the last one, or that one timed out.  A later run *)
(* may see less than the whole log: it does so only after a verification   *)
(* of its own actor, or to make one.                                       *)

Tools == {"mutate", "command", "read", "verify", "install", "probe"}
LogPaths == Files \cup {NoPath}
Plans == {x \in [tool : Tools, path : LogPaths] : IsVerify(x) => x = Verification}
\* Only a verification brings a verdict.
Judgements == {"passed", "restored", "missing", "timedout"} \cup Graded
LoggedCalls ==
    {x \in [tool : Tools, path : LogPaths,
            outcome : {"ok", "applied", "rejected", "failed", "refused"} \cup Judgements] :
       /\ x.outcome \in Judgements => IsVerify(x)
       /\ x.outcome = "rejected" => x.tool = "mutate"}

SavedFiles == [path : LogPaths, based : BOOLEAN]
LoopActors ==
    [pc : {"none", "working", "grounding", "done", "failed"}, n : Nat, kind : Kinds,
     feedback : Sources \cup {NoPath}, from : Nat, recovered : BOOLEAN]
LoopRuns ==
    [pc : {"none", "executing", "planning", "stopped"}, view : Nat, from : Nat, start : Nat,
     pending : Seq(Plans), failures : Nat, rounds : Nat, seen : SUBSET Plans]
LoopTypeOK ==
    /\ log \in Seq(LoggedCalls)
    /\ actor \in LoopActors /\ actor.from <= Len(log)
    /\ run \in LoopRuns /\ run.from <= Len(log) /\ run.start <= Len(log)
    /\ run.pc # "none" => actor.pc = "grounding" /\ actor.from <= run.from
    /\ saved \in Seq(SavedFiles)

TimedOut(x) == x.outcome = "timedout"
Moves(x) == IsMutation(x) \/ Installed(x)

\* Every change in c has been followed by a verification; every verification that
\* did not time out by a change or an installation.
Tried(c) ==
    \A i \in DOMAIN c : IsMutation(c[i]) => \E v \in DOMAIN c : v > i /\ IsVerify(c[v])
MovedSince(c, from) ==
    \A v \in DOMAIN c : v > from /\ IsVerify(c[v]) /\ ~TimedOut(c[v]) =>
      \E w \in DOMAIN c : w > v /\ Moves(c[w])
VerifiedSince(from) == \E v \in DOMAIN log : v > from /\ IsVerify(log[v])

OnlyVerifies(plans) == \A k \in DOMAIN plans : IsVerify(plans[k])
OneMutation(plans) ==
    \A j, k \in DOMAIN plans : Mutates(plans[j]) /\ Mutates(plans[k]) => j = k
OneVerification(plans) ==
    \A j, k \in DOMAIN plans : IsVerify(plans[j]) /\ IsVerify(plans[k]) => j = k

\* A run sees everything, or, having verified or about to, what its actor did.
Sight ==
    /\ actor.pc \in {"working", "grounding"} /\ actor.recovered =>
         VerifiedSince(actor.from)
    /\ run.pc \in {"executing", "planning"} =>
         \/ run.view = 0
         \/ /\ run.view = actor.from
            /\ \/ VerifiedSince(actor.from)
               \/ run.pc = "executing" /\ ~Builder /\ OnlyVerifies(run.pending)

\* Who is no builder changes no file.
Restrained ==
    actor.pc # "none" /\ ~Builder =>
      \A i \in DOMAIN log : i > actor.from => log[i].tool # "mutate"

\* The path is not without gain, or a verification after call i has found it so.
Judged(x, p) == Fruitless(x, p) \/ Idled(x, p)
Eased(view, i, p) ==
    ~NoGain(From(view), p) \/ \E v \in DOMAIN log : v > i /\ Judged(log[v], p)

\* What is true of plans that were let through by what is seen from `view', when
\* call i was the last, and remains true while they wait.
Stands(view, i, plans) ==
    /\ OneMutation(plans)
    /\ Builder => OneVerification(plans)
    /\ \A k \in DOMAIN plans : Mutates(plans[k]) => Tried(log)
    /\ \A k \in DOMAIN plans : plans[k].tool = "mutate" =>
         Builder /\ Eased(view, i, plans[k].path)
    /\ \A k \in DOMAIN plans : Builder /\ IsVerify(plans[k]) =>
         MovedSince(log, actor.from)
PlansStand ==
    run.pc = "executing" => run.pending # <<>> /\ Stands(run.view, run.start, run.pending)

\* NoIdleVerification, told of the whole log.
Moving ==
    actor.pc # "none" /\ Builder =>
      \A i, j \in DOMAIN log :
        i > actor.from /\ i < j /\ IsVerify(log[i]) /\ IsVerify(log[j]) /\ ~TimedOut(log[i]) =>
          \E w \in DOMAIN log : i < w /\ w < j /\ Moves(log[w])

LoopInv ==
    LoopTypeOK /\ Sight /\ Restrained /\ PlansStand /\ TriedBeforeTheNext /\ Moving

\* A non-empty set of numbers has a least one.
LEMMA NatMin ==
    ASSUME NEW T, T \subseteq Nat, T # {}
    PROVE  \E x \in T : \A y \in T : x <= y
<1> DEFINE R == {ss \in Nat \X Nat : ss[1] < ss[2]}
<1>1. IsWellFoundedOn(R, Nat)
  BY NatLessThanWellFounded, Zenon DEF OpToRel
<1>2. \A a, b \in Nat : a < b => <<a, b>> \in R
  OBVIOUS
<1> HIDE DEF R
<1>3. PICK x \in T : \A y \in T : ~(<<y, x>> \in R)
  BY <1>1, WFMin
<1>4. \A y \in T : ~(y < x) /\ y \in Nat /\ x \in Nat
  BY <1>2, <1>3
<1> QED BY <1>4

\* Latest is the greatest member of a set of places, and 0 when there is none.
LEMMA LatestFacts ==
    ASSUME NEW n \in Nat, NEW S, S \subseteq 1..n
    PROVE  /\ Latest(S) \in 0..n
           /\ S = {} => Latest(S) = 0
           /\ S # {} => Latest(S) \in S
           /\ \A y \in S : y <= Latest(S)
<1>1. CASE S = {}
  BY <1>1 DEF Latest
<1>2. CASE S # {}
  <2> DEFINE T == {n - y : y \in S}
  <2>1. T \subseteq Nat /\ T # {}
    <3>1. \A y \in S : n - y \in Nat
      OBVIOUS
    <3>2. PICK y \in S : TRUE
      BY <1>2
    <3>3. n - y \in T
      BY <3>2
    <3> QED BY <3>1, <3>3
  <2>2. PICK t \in T : \A u \in T : t <= u
    BY <2>1, NatMin, Zenon
  <2>3. PICK x \in S : t = n - x
    BY <2>2
  <2>4. \A y \in S : x >= y
    <3> TAKE y \in S
    <3>1. n - x <= n - y
      BY <2>2, <2>3
    <3> QED BY <3>1
  <2>5. Max(S) \in S /\ \A y \in S : Max(S) >= y
    BY <2>4, Zenon DEF Max
  <2>6. Latest(S) = Max(S)
    BY <1>2 DEF Latest
  <2>7. Latest(S) \in S /\ \A y \in S : Latest(S) >= y
    BY <2>5, <2>6
  <2> DEFINE l == Latest(S)
  <2>8. l \in S /\ \A y \in S : l >= y
    BY <2>7
  <2> HIDE DEF l
  <2>9. l \in 0..n /\ \A y \in S : y <= l
    BY <2>8
  <2> QED BY <2>8, <2>9, <1>2 DEF l
<1> QED BY <1>1, <1>2

\* The members at some places are members, in their order: place(k) is the place
\* of the k-th of them.
Thinned(t, s, I) ==
    \E place \in [DOMAIN t -> DOMAIN s \cap I] :
        /\ \A k \in DOMAIN t : t[k] = s[place[k]]
        /\ \A j, k \in DOMAIN t : j < k => place[j] < place[k]

\* The members of s at the places in I, as far as place n.
UpTo(s, I, n) ==
    CHOOSE f : f = [i \in 0..n |-> IF i = 0 THEN <<>>
                                   ELSE IF i \in I THEN Append(f[i - 1], s[i]) ELSE f[i - 1]]

LEMMA UpToFacts ==
    ASSUME NEW X, NEW s \in Seq(X), NEW I, NEW n \in Nat
    PROVE  UpTo(s, I, n) =
             [i \in 0..n |-> IF i = 0 THEN <<>>
                             ELSE IF i \in I THEN Append(UpTo(s, I, n)[i - 1], s[i])
                             ELSE UpTo(s, I, n)[i - 1]]
<1> DEFINE Built(f, m) == f = [i \in 0..m |-> IF i = 0 THEN <<>>
                                 ELSE IF i \in I THEN Append(f[i - 1], s[i]) ELSE f[i - 1]]
           T == {m \in Nat : ~\E f : Built(f, m)}
<1>1. T = {}
  <2> SUFFICES ASSUME T # {} PROVE FALSE
    OBVIOUS
  <2>1. T \subseteq Nat
    OBVIOUS
  <2> HIDE DEF T
  <2>2. PICK m \in T : \A y \in T : m <= y
    BY <2>1, NatMin, Zenon
  <2>3. m \in Nat /\ ~\E f : Built(f, m)
    BY DEF T
  <2>4. m # 0
    <3> DEFINE g == [i \in 0..0 |-> <<>>]
    <3>1. Built(g, 0)
      OBVIOUS
    <3> QED BY <3>1, <2>3, Zenon
  <2>5. m - 1 \in Nat /\ ~(m - 1 \in T)
    BY <2>2, <2>3, <2>4
  <2>6. PICK f : Built(f, m - 1)
    BY <2>5, Zenon DEF T
  <2> DEFINE g == [i \in 0..m |-> IF i < m THEN f[i]
                                  ELSE IF m \in I THEN Append(f[m - 1], s[m]) ELSE f[m - 1]]
  <2>7. \A i \in 0..m : g[i] = IF i = 0 THEN <<>>
                                ELSE IF i \in I THEN Append(g[i - 1], s[i]) ELSE g[i - 1]
    <3> TAKE i \in 0..m
    <3>1. CASE i < m
      <4>1. i \in 0..(m - 1)
        BY <3>1, <2>3
      <4>2. f[i] = IF i = 0 THEN <<>>
                   ELSE IF i \in I THEN Append(f[i - 1], s[i]) ELSE f[i - 1]
        BY <4>1, <2>6
      <4>3. i # 0 => i - 1 \in 0..m /\ i - 1 < m
        BY <2>3, <3>1
      <4>4. g[i] = f[i] /\ (i # 0 => g[i - 1] = f[i - 1])
        BY <4>3, <3>1
      <4> HIDE DEF g
      <4> QED BY <4>2, <4>4, Zenon
    <3>2. CASE i = m
      <4>1. m - 1 \in 0..m /\ m - 1 < m /\ m \in 0..m /\ ~(m < m)
        BY <2>3, <2>4
      <4>2. g[m - 1] = f[m - 1]
            /\ g[m] = IF m \in I THEN Append(f[m - 1], s[m]) ELSE f[m - 1]
        BY <4>1
      <4> HIDE DEF g
      <4> QED BY <4>2, <3>2, <2>4, Zenon
    <3> QED BY <3>1, <3>2, <2>3
  <2>8. g = [i \in 0..m |-> g[i]]
    OBVIOUS
  <2> HIDE DEF g
  <2>9. Built(g, m)
    BY <2>7, <2>8
  <2> QED BY <2>9, <2>3, Zenon
<1> HIDE DEF T
<1>2. \E f : Built(f, n)
  BY <1>1, Zenon DEF T
<1>3. UpTo(s, I, n) = CHOOSE f : Built(f, n)
  BY DEF UpTo
<1>4. Built(UpTo(s, I, n), n)
  BY <1>2, <1>3, Zenon
<1> QED BY <1>4, Zenon

\* What At returns: members of s at places in I, in their order.
LEMMA AtFacts ==
    ASSUME NEW X, NEW s \in Seq(X), NEW I
    PROVE  At(s, I) \in Seq(X) /\ Thinned(At(s, I), s, I)
<1> DEFINE f == UpTo(s, I, Len(s))
           Place(m, h) ==
             /\ h \in [1..Len(f[m]) -> {k \in DOMAIN s \cap I : k <= m}]
             /\ \A k \in 1..Len(f[m]) : f[m][k] = s[h[k]]
             /\ \A j, k \in 1..Len(f[m]) : j < k => h[j] < h[k]
           Good(m) == f[m] \in Seq(X) /\ \E h : Place(m, h)
           T == {m \in 0..Len(s) : ~Good(m)}
<1>1. Len(s) \in Nat /\ DOMAIN s = 1..Len(s)
  OBVIOUS
<1>2. \A i \in 0..Len(s) :
         f[i] = IF i = 0 THEN <<>>
                ELSE IF i \in I THEN Append(f[i - 1], s[i]) ELSE f[i - 1]
  <2>1. f = [i \in 0..Len(s) |-> IF i = 0 THEN <<>>
                ELSE IF i \in I THEN Append(f[i - 1], s[i]) ELSE f[i - 1]]
    BY <1>1, UpToFacts
  <2> HIDE DEF f
  <2> QED BY <2>1
<1>3. At(s, I) = f[Len(s)]
  BY DEF At, UpTo
<1> HIDE DEF f
<1>4. T = {}
  <2> SUFFICES ASSUME T # {} PROVE FALSE
    OBVIOUS
  <2>1. T \subseteq Nat
    BY <1>1
  <2>2. PICK m \in T : \A y \in T : m <= y
    BY <2>1, NatMin, Zenon
  <2>3. m \in 0..Len(s) /\ ~Good(m)
    BY <2>2
  <2>4. m # 0
    <3>1. f[0] = <<>> /\ 0 \in 0..Len(s)
      BY <1>1, <1>2
    <3>2. Place(0, <<>>)
      BY <3>1
    <3>3. f[0] \in Seq(X)
      BY <3>1
    <3> HIDE DEF Place
    <3>4. Good(0)
      BY <3>2, <3>3, Zenon
    <3> QED BY <3>4, <2>3
  <2>5. m - 1 \in 0..Len(s) /\ m - 1 \notin T
    <3> HIDE DEF Good, T
    <3> QED BY <2>2, <2>3, <2>4, <1>1
  <2>6. Good(m - 1)
    BY <2>5
  <2>7. PICK h : Place(m - 1, h)
    BY <2>6
  <2> DEFINE a == f[m - 1]
             n == Len(f[m - 1])
  <2>8. a \in Seq(X) /\ n \in Nat
    BY <2>6
  <2>9. m \in DOMAIN s /\ m \in Nat
    BY <2>3, <2>4, <1>1
  <2>10. CASE m \notin I
    <3>1. f[m] = a
      BY <2>10, <1>2, <2>3, <2>4
    <3>2. Place(m, h)
      BY <3>1, <2>7, <2>9
    <3>3. Good(m)
      BY <3>1, <3>2, <2>8, Zenon
    <3> QED BY <3>3, <2>3
  <2>11. CASE m \in I
    <3>1. f[m] = Append(a, s[m])
      BY <2>11, <1>2, <2>3, <2>4
    <3>2. s[m] \in X
      BY <2>9
    <3>3. f[m] \in Seq(X) /\ Len(f[m]) = n + 1
      BY <3>1, <3>2, <2>8
    <3>4. (\A k \in 1..n : f[m][k] = a[k]) /\ f[m][n + 1] = s[m]
      BY <3>1, <3>2, <2>8
    <3> DEFINE g == [k \in 1..(n + 1) |-> IF k <= n THEN h[k] ELSE m]
    <3>5. \A k \in 1..n : h[k] \in DOMAIN s \cap I /\ h[k] < m /\ h[k] \in Nat
      <4> TAKE k \in 1..n
      <4>1. h[k] \in {i \in DOMAIN s \cap I : i <= m - 1}
        BY <2>7
      <4> QED BY <4>1, <1>1, <2>9
    <3>6. g \in [1..(n + 1) -> {k \in DOMAIN s \cap I : k <= m}]
      <4> SUFFICES ASSUME NEW k \in 1..(n + 1)
                   PROVE  (IF k <= n THEN h[k] ELSE m) \in {i \in DOMAIN s \cap I : i <= m}
        OBVIOUS
      <4>1. CASE k <= n
        BY <4>1, <3>5, <2>8, <2>9
      <4>2. CASE ~(k <= n)
        BY <4>2, <2>9, <2>11
      <4> QED BY <4>1, <4>2
    <3>7. \A k \in 1..(n + 1) : f[m][k] = s[g[k]]
      <4> TAKE k \in 1..(n + 1)
      <4>1. CASE k <= n
        <5>1. k \in 1..n /\ g[k] = h[k]
          BY <4>1, <2>8
        <5>2. a[k] = s[h[k]]
          BY <5>1, <2>7
        <5> HIDE DEF g, a
        <5> QED BY <5>1, <5>2, <3>4
      <4>2. CASE ~(k <= n)
        <5>1. k = n + 1 /\ g[k] = m
          BY <4>2, <2>8
        <5> HIDE DEF g, a
        <5> QED BY <5>1, <3>4
      <4> QED BY <4>1, <4>2
    <3>8. \A j, k \in 1..(n + 1) : j < k => g[j] < g[k]
      <4> SUFFICES ASSUME NEW j \in 1..(n + 1), NEW k \in 1..(n + 1), j < k
                   PROVE  g[j] < g[k]
        OBVIOUS
      <4>1. j \in 1..n /\ g[j] = h[j]
        BY <2>8
      <4>2. CASE k <= n
        <5>1. k \in 1..n /\ g[k] = h[k]
          BY <4>2, <2>8
        <5>2. h[j] < h[k]
          BY <4>1, <5>1, <2>7
        <5> QED BY <4>1, <5>1, <5>2
      <4>3. CASE ~(k <= n)
        <5>1. g[k] = m
          BY <4>3
        <5> QED BY <4>1, <5>1, <3>5
      <4> QED BY <4>2, <4>3
    <3> HIDE DEF g, a
    <3>9. Place(m, g)
      BY <3>3, <3>6, <3>7, <3>8
    <3>10. Good(m)
      BY <3>3, <3>9, Zenon
    <3> QED BY <3>10, <2>3
  <2> QED BY <2>10, <2>11
<1>5. Good(Len(s))
  BY <1>4, <1>1
<1>6. PICK h : Place(Len(s), h)
  BY <1>5
<1> DEFINE t == f[Len(s)]
<1>7. t \in Seq(X) /\ DOMAIN t = 1..Len(t)
  BY <1>5
<1>8. /\ h \in [DOMAIN t -> DOMAIN s \cap I]
      /\ \A k \in DOMAIN t : t[k] = s[h[k]]
      /\ \A j, k \in DOMAIN t : j < k => h[j] < h[k]
  BY <1>6, <1>7
<1> HIDE DEF t
<1>9. Thinned(t, s, I)
  BY <1>8 DEF Thinned
<1> QED BY <1>3, <1>7, <1>9 DEF t

LEMMA PlacesOfLog ==
    ASSUME NEW c \in Seq(LoggedCalls)
    PROVE  /\ Len(c) \in Nat /\ DOMAIN c = 1..Len(c)
           /\ \A i \in DOMAIN c : c[i] \in LoggedCalls
  OBVIOUS

\* The changes that are still there, as far as place n.
UndoneChange(c, there, i) ==
    Latest({k \in there : c[k].tool = "command" \/ c[k].path = c[i].path})
Left(c, n) ==
    CHOOSE f : f = [i \in 0..n |->
      IF i = 0 THEN {}
      ELSE IF IsMutation(c[i]) THEN f[i - 1] \cup {i}
      ELSE IF RolledBack(c[i]) THEN f[i - 1] \ {UndoneChange(c, f[i - 1], i)}
      ELSE f[i - 1]]

LEMMA LeftFacts ==
    ASSUME NEW c, NEW n \in Nat
    PROVE  Left(c, n) = [i \in 0..n |->
             IF i = 0 THEN {}
             ELSE IF IsMutation(c[i]) THEN Left(c, n)[i - 1] \cup {i}
             ELSE IF RolledBack(c[i])
                  THEN Left(c, n)[i - 1] \ {UndoneChange(c, Left(c, n)[i - 1], i)}
             ELSE Left(c, n)[i - 1]]
<1> DEFINE Added(x, i) == IF IsMutation(c[i]) THEN x \cup {i}
                         ELSE IF RolledBack(c[i]) THEN x \ {UndoneChange(c, x, i)}
                         ELSE x
           Built(f, m) == f = [i \in 0..m |-> IF i = 0 THEN {} ELSE Added(f[i - 1], i)]
           T == {m \in Nat : ~\E f : Built(f, m)}
<1>1. Left(c, n) = CHOOSE f : Built(f, n)
  BY DEF Left
<1> HIDE DEF Added
<1>2. T = {}
  <2> SUFFICES ASSUME T # {} PROVE FALSE
    OBVIOUS
  <2>1. T \subseteq Nat
    OBVIOUS
  <2> HIDE DEF T
  <2>2. PICK m \in T : \A y \in T : m <= y
    BY <2>1, NatMin, Zenon
  <2>3. m \in Nat /\ ~\E f : Built(f, m)
    BY DEF T
  <2>4. m # 0
    <3> DEFINE g == [i \in 0..0 |-> {}]
    <3>1. Built(g, 0)
      OBVIOUS
    <3> QED BY <3>1, <2>3, Zenon
  <2>5. m - 1 \in Nat /\ ~(m - 1 \in T)
    BY <2>2, <2>3, <2>4
  <2>6. PICK f : Built(f, m - 1)
    BY <2>5, Zenon DEF T
  <2> DEFINE g == [i \in 0..m |-> IF i < m THEN f[i] ELSE Added(f[m - 1], m)]
  <2>7. \A i \in 0..m : g[i] = IF i = 0 THEN {} ELSE Added(g[i - 1], i)
    <3> TAKE i \in 0..m
    <3>1. CASE i < m
      <4>1. i \in 0..(m - 1)
        BY <3>1, <2>3
      <4>2. f[i] = IF i = 0 THEN {} ELSE Added(f[i - 1], i)
        BY <4>1, <2>6
      <4>3. i # 0 => i - 1 \in 0..m /\ i - 1 < m
        BY <2>3, <3>1
      <4>4. g[i] = f[i] /\ (i # 0 => g[i - 1] = f[i - 1])
        BY <4>3, <3>1
      <4> HIDE DEF g
      <4> QED BY <4>2, <4>4, Zenon
    <3>2. CASE i = m
      <4>1. m - 1 \in 0..m /\ m - 1 < m /\ m \in 0..m /\ ~(m < m)
        BY <2>3, <2>4
      <4>2. g[m - 1] = f[m - 1] /\ g[m] = Added(f[m - 1], m)
        BY <4>1
      <4> HIDE DEF g
      <4> QED BY <4>2, <3>2, <2>4, Zenon
    <3> QED BY <3>1, <3>2, <2>3
  <2>8. g = [i \in 0..m |-> g[i]]
    OBVIOUS
  <2> HIDE DEF g
  <2>9. Built(g, m)
    BY <2>7, <2>8
  <2> QED BY <2>9, <2>3, Zenon
<1> HIDE DEF T
<1>3. \E f : Built(f, n)
  BY <1>2, Zenon DEF T
<1>4. Built(Left(c, n), n)
  BY <1>1, <1>3, Zenon
<1> QED BY <1>4, Zenon DEF Added

\* A change that no verification followed is still there.
LEMMA EffectiveFacts ==
    ASSUME NEW c \in Seq(LoggedCalls)
    PROVE  /\ Effective(c) \subseteq DOMAIN c
           /\ \A i \in Effective(c) : IsMutation(c[i])
           /\ \A i \in DOMAIN c :
                IsMutation(c[i]) /\ (\A v \in DOMAIN c : v > i => ~IsVerify(c[v])) =>
                  i \in Effective(c)
<1> DEFINE f == Left(c, Len(c))
           Good(m) ==
             /\ f[m] \subseteq {i \in 1..m : IsMutation(c[i])}
             /\ \A i \in 1..m :
                  IsMutation(c[i]) /\ (\A v \in 1..m : v > i => ~IsVerify(c[v])) => i \in f[m]
           T == {m \in 0..Len(c) : ~Good(m)}
<1>1. Len(c) \in Nat /\ DOMAIN c = 1..Len(c)
  BY PlacesOfLog
<1>2. Effective(c) = f[Len(c)]
  BY Zenon DEF Effective, Left, UndoneChange
<1>3. \A i \in 0..Len(c) :
         f[i] = IF i = 0 THEN {}
                ELSE IF IsMutation(c[i]) THEN f[i - 1] \cup {i}
                ELSE IF RolledBack(c[i]) THEN f[i - 1] \ {UndoneChange(c, f[i - 1], i)}
                ELSE f[i - 1]
  <2>1. f = [i \in 0..Len(c) |->
               IF i = 0 THEN {}
               ELSE IF IsMutation(c[i]) THEN f[i - 1] \cup {i}
               ELSE IF RolledBack(c[i]) THEN f[i - 1] \ {UndoneChange(c, f[i - 1], i)}
               ELSE f[i - 1]]
    BY <1>1, LeftFacts
  <2> HIDE DEF f
  <2> QED BY <2>1
<1> HIDE DEF f
<1>4. T = {}
  <2> SUFFICES ASSUME T # {} PROVE FALSE
    OBVIOUS
  <2>1. T \subseteq Nat
    BY <1>1
  <2>2. PICK m \in T : \A y \in T : m <= y
    BY <2>1, NatMin, Zenon
  <2>3. m \in 0..Len(c) /\ ~Good(m) /\ m \in Nat
    BY <2>2, <1>1
  <2>4. m # 0
    <3>1. 0 \in 0..Len(c)
      BY <1>1
    <3>2. f[0] = {}
      BY <3>1, <1>3, Zenon
    <3>3. Good(0)
      BY <3>2
    <3> QED BY <3>3, <2>3
  <2>5. m - 1 \in 0..Len(c) /\ m - 1 \notin T
    <3> HIDE DEF Good, T
    <3> QED BY <2>2, <2>3, <2>4, <1>1
  <2>6. Good(m - 1)
    BY <2>5
  <2>7. m \in 1..Len(c) /\ m \in DOMAIN c
    BY <2>3, <2>4, <1>1
  <2>8. f[m] = IF IsMutation(c[m]) THEN f[m - 1] \cup {m}
               ELSE IF RolledBack(c[m]) THEN f[m - 1] \ {UndoneChange(c, f[m - 1], m)}
               ELSE f[m - 1]
    BY <1>3, <2>3, <2>4
  <2>9. f[m] \subseteq {i \in 1..m : IsMutation(c[i])}
    BY <2>6, <2>8, <2>3, <2>4
  <2>10. ASSUME NEW i \in 1..m, IsMutation(c[i]), \A v \in 1..m : v > i => ~IsVerify(c[v])
         PROVE  i \in f[m]
    <3>1. CASE i = m
      BY <3>1, <2>8, <2>10
    <3>2. CASE i # m
      <4>1. i \in 1..(m - 1) /\ m > i /\ m \in 1..m
        BY <3>2, <2>3
      <4>2. i \in f[m - 1]
        <5>1. \A v \in 1..(m - 1) : v \in 1..m
          BY <2>3
        <5> QED BY <4>1, <5>1, <2>6, <2>10
      <4>3. ~RolledBack(c[m])
        <5>1. c[m] \in LoggedCalls /\ ~IsVerify(c[m])
          BY <4>1, <2>7, <2>10, PlacesOfLog
        <5> QED BY <5>1 DEF LoggedCalls, Judgements, RolledBack, Graded
      <4> QED BY <4>2, <4>3, <2>8
    <3> QED BY <3>1, <3>2
  <2>11. Good(m)
    BY <2>9, <2>10
  <2> QED BY <2>11, <2>3
<1>5. Good(Len(c))
  BY <1>4, <1>1
<1> QED BY <1>1, <1>2, <1>5

\* Without a pending verification every change has been tried; a verification is
\* pending only where something was changed or installed since the last one.
LEMMA PendingFacts ==
    ASSUME NEW c \in Seq(LoggedCalls)
    PROVE  /\ ~PendingVerifier(c) => Tried(c)
           /\ PendingVerifier(c) => MovedSince(c, 0)
<1> DEFINE E == Effective(c)
           m == Latest(E)
           V == {i \in DOMAIN c : IsVerify(c[i])}
           tried == {j \in V : j > m}
           failed == {i \in tried : ~Passed(c[i])}
           installed == {j \in DOMAIN c : Installed(c[j]) /\ j > Latest(failed)}
           n == Len(c)
<1>1. PendingVerifier(c) <=>
        /\ m > 0
        /\ IF failed = {} THEN tried = {}
           ELSE installed # {} /\ {j \in tried : j > Latest(installed)} = {}
  <2>1. After(m, Indices(c, IsVerify)) = tried
    BY DEF After, Indices
  <2>2. After(Latest(failed), Indices(c, Installed)) = installed
    BY DEF After, Indices
  <2>3. After(Latest(installed), tried) = {j \in tried : j > Latest(installed)}
    BY DEF After
  <2> HIDE DEF installed
  <2>4. {i \in After(m, Indices(c, IsVerify)) : ~Passed(c[i])} = failed
    BY <2>1
  <2> HIDE DEF failed, tried, E
  <2> QED BY <2>1, <2>2, <2>3, <2>4, Zenon DEF PendingVerifier, E
<1>2. n \in Nat /\ DOMAIN c = 1..n /\ \A i \in DOMAIN c : c[i] \in LoggedCalls
  BY PlacesOfLog
<1>3. /\ E \subseteq 1..n
      /\ \A i \in E : IsMutation(c[i])
  BY <1>2, EffectiveFacts
<1>4. /\ m \in 0..n
      /\ E # {} => m \in E
      /\ E = {} => m = 0
      /\ \A y \in E : y <= m
  <2> HIDE DEF E
  <2> QED BY <1>2, <1>3, LatestFacts
<1> HIDE DEF m, E
<1>5. failed \subseteq 1..n /\ tried \subseteq 1..n /\ installed \subseteq 1..n
  BY <1>2
<1>6. ASSUME ~PendingVerifier(c) PROVE Tried(c)
  <2> SUFFICES ASSUME NEW i \in DOMAIN c, IsMutation(c[i]),
                      ~\E v \in DOMAIN c : v > i /\ IsVerify(c[v])
               PROVE  FALSE
    BY DEF Tried
  <2>1. i \in E
    BY EffectiveFacts DEF E
  <2>2. m >= i /\ m > 0
    BY <2>1, <1>2, <1>4
  <2>3. tried = {}
    BY <2>2, <1>2, <1>4
  <2>4. failed = {}
    BY <2>3
  <2> QED BY <1>1, <1>6, <2>2, <2>3, <2>4
<1>7. ASSUME PendingVerifier(c) PROVE MovedSince(c, 0)
  <2> SUFFICES ASSUME NEW v \in DOMAIN c, IsVerify(c[v])
               PROVE  \E w \in DOMAIN c : w > v /\ (IsMutation(c[w]) \/ Installed(c[w]))
    BY DEF MovedSince, Moves
  <2>1. m \in DOMAIN c /\ IsMutation(c[m]) /\ m \in Nat /\ v \in Nat
    BY <1>1, <1>2, <1>3, <1>4, <1>7
  <2>2. CASE v <= m
    <3>1. v # m
      BY <2>1 DEF IsMutation, IsVerify
    <3> QED BY <2>1, <2>2, <3>1
  <2>3. CASE v > m
    <3>1. v \in tried
      BY <2>3
    <3>2. failed # {}
      BY <3>1, <1>1, <1>7
    <3> DEFINE f == Latest(failed)
               j == Latest(installed)
    <3>3. f \in failed
      <4> HIDE DEF failed
      <4> QED BY <3>2, <1>5, <1>2, LatestFacts
    <3>4. installed # {} /\ ~\E y \in tried : y > j
      <4> HIDE DEF installed, tried, failed
      <4> QED BY <3>2, <1>1, <1>7
    <3>5. j \in installed
      <4> HIDE DEF installed
      <4> QED BY <3>4, <1>5, <1>2, LatestFacts
    <3>6. j \in DOMAIN c /\ Installed(c[j]) /\ j > f /\ f > m /\ j \in Nat /\ f \in Nat
      BY <3>3, <3>5, <1>2
    <3>7. ~(v > j)
      BY <3>1, <3>4
    <3>8. v # j
      BY <3>6 DEF Installed, IsVerify
    <3> QED BY <3>6, <3>7, <3>8, <2>1
  <2> QED BY <2>1, <2>2, <2>3, <1>2, <1>4
<1> QED BY <1>6, <1>7

\* A verification that would not repeat the last one.
FreshVerify(c) ==
    \/ LastVerify(c) = 0
    \/ TimedOut(c[LastVerify(c)])
    \/ \E k \in Effective(c) : k > LastVerify(c)

\* Something moved since the last verification, or that one timed out.
Due(c) == MovedSince(c, 0) \/ (LastVerify(c) > 0 /\ TimedOut(c[LastVerify(c)]))

LEMMA LastVerifyFacts ==
    ASSUME NEW c \in Seq(LoggedCalls)
    PROVE  /\ LastVerify(c) \in 0..Len(c)
           /\ \A v \in DOMAIN c : IsVerify(c[v]) => v <= LastVerify(c)
           /\ LastVerify(c) > 0 =>
                LastVerify(c) \in DOMAIN c /\ IsVerify(c[LastVerify(c)])
<1> DEFINE V == {i \in DOMAIN c : IsVerify(c[i])}
<1>1. V \subseteq 1..Len(c) /\ Len(c) \in Nat
  BY PlacesOfLog
<1>2. LastVerify(c) = Latest(V)
  BY DEF LastVerify, Indices
<1> HIDE DEF V
<1>3. /\ Latest(V) \in 0..Len(c)
      /\ V = {} => Latest(V) = 0
      /\ V # {} => Latest(V) \in V
      /\ \A y \in V : y <= Latest(V)
  BY <1>1, LatestFacts
<1> QED BY <1>1, <1>2, <1>3 DEF V

LEMMA FreshFacts ==
    ASSUME NEW c \in Seq(LoggedCalls), FreshVerify(c)
    PROVE  Due(c)
<1>1. Len(c) \in Nat /\ DOMAIN c = 1..Len(c)
  BY PlacesOfLog
<1>2. CASE LastVerify(c) = 0
  <2>1. \A v \in DOMAIN c : ~IsVerify(c[v])
    BY <1>2, <1>1, LastVerifyFacts
  <2> QED BY <2>1 DEF MovedSince, Due
<1>3. CASE \E k \in Effective(c) : k > LastVerify(c)
  <2>1. PICK k \in Effective(c) : k > LastVerify(c)
    BY <1>3
  <2>2. k \in DOMAIN c /\ IsMutation(c[k]) /\ k \in Nat
    BY <1>1, EffectiveFacts
  <2>3. \A v \in DOMAIN c : IsVerify(c[v]) => v < k /\ v \in Nat
    BY <2>1, <2>2, <1>1, LastVerifyFacts
  <2>4. MovedSince(c, 0)
    BY <2>2, <2>3 DEF MovedSince, Moves
  <2> QED BY <2>4 DEF Due
<1>4. CASE LastVerify(c) # 0 /\ TimedOut(c[LastVerify(c)])
  <2>1. LastVerify(c) \in 0..Len(c)
    BY LastVerifyFacts
  <2>2. LastVerify(c) > 0
    BY <2>1, <1>1, <1>4
  <2> QED BY <2>2, <1>4 DEF Due
<1> QED BY <1>2, <1>3, <1>4 DEF FreshVerify

\* What is true of a plan on the way: only builders change files, and a builder
\* verifies once, when that is not a repetition.
Loose(c, plans) ==
    /\ plans \in Seq(Plans)
    /\ \A k \in DOMAIN plans : plans[k].tool = "mutate" => Builder
    /\ Builder => /\ OneVerification(plans)
                  /\ \A k \in DOMAIN plans : IsVerify(plans[k]) => FreshVerify(c)

\* Leaving plans out does no harm.
LEMMA ThinnedIsLoose ==
    ASSUME NEW c, NEW s, Loose(c, s), NEW t \in Seq(Plans), NEW I, Thinned(t, s, I)
    PROVE  Loose(c, t) /\ (OneMutation(s) => OneMutation(t))
<1>1. PICK place \in [DOMAIN t -> DOMAIN s \cap I] :
           /\ \A k \in DOMAIN t : t[k] = s[place[k]]
           /\ \A j, k \in DOMAIN t : j < k => place[j] < place[k]
  BY DEF Thinned
<1>2. DOMAIN t = 1..Len(t) /\ DOMAIN s = 1..Len(s) /\ Len(s) \in Nat /\ Len(t) \in Nat
  BY DEF Loose
<1>3. \A k \in DOMAIN t : place[k] \in DOMAIN s /\ t[k] = s[place[k]]
  BY <1>1
<1>4. \A j, k \in DOMAIN t : place[j] = place[k] => j = k
  <2> SUFFICES ASSUME NEW j \in DOMAIN t, NEW k \in DOMAIN t, place[j] = place[k], j # k
               PROVE  FALSE
    OBVIOUS
  <2>1. j < k \/ k < j
    BY <1>2
  <2>2. place[j] < place[k] \/ place[k] < place[j]
    BY <2>1, <1>1
  <2>3. place[j] \in Nat /\ place[k] \in Nat
    BY <1>2, <1>3
  <2> QED BY <2>2, <2>3
<1>5. \A k \in DOMAIN t : t[k].tool = "mutate" => Builder
  BY <1>3 DEF Loose
<1>6. ASSUME Builder
      PROVE  OneVerification(t) /\ \A k \in DOMAIN t : IsVerify(t[k]) => FreshVerify(c)
  <2>1. OneVerification(s) /\ \A k \in DOMAIN s : IsVerify(s[k]) => FreshVerify(c)
    BY <1>6 DEF Loose
  <2>2. OneVerification(t)
    BY <2>1, <1>3, <1>4 DEF OneVerification
  <2>3. \A k \in DOMAIN t : IsVerify(t[k]) => FreshVerify(c)
    BY <2>1, <1>3
  <2> QED BY <2>2, <2>3
<1>7. OneMutation(s) => OneMutation(t)
  BY <1>3, <1>4 DEF OneMutation
<1>8. Loose(c, t)
  BY <1>5, <1>6 DEF Loose
<1> QED BY <1>7, <1>8

LEMMA AtIsLoose ==
    ASSUME NEW c, NEW s, Loose(c, s), NEW I
    PROVE  /\ Loose(c, At(s, I))
           /\ OneMutation(s) => OneMutation(At(s, I))
           /\ \A x \in Range(At(s, I)) : \E k \in DOMAIN s \cap I : x = s[k]
<1>1. s \in Seq(Plans)
  BY DEF Loose
<1>2. At(s, I) \in Seq(Plans) /\ Thinned(At(s, I), s, I)
  BY <1>1, AtFacts
<1>3. \A x \in Range(At(s, I)) : \E k \in DOMAIN s \cap I : x = s[k]
  BY <1>2 DEF Thinned, Range
<1> QED BY <1>2, <1>3, ThinnedIsLoose

\* Nothing, or one plan that neither changes nor verifies; or one change.
Unchanging == {<<>>} \cup {<<Plan(t, p)>> : t \in {"read", "install"}, p \in LogPaths}
Single == Unchanging \cup {<<Plan("mutate", p)>> : p \in Sources}

LEMMA OrElseFacts ==
    ASSUME NEW A, NEW B, NEW x \in OrElse(A, B)
    PROVE  (x \in A /\ x # <<>>) \/ (x \in B /\ <<>> \in A)
<1> DEFINE e == <<>>
<1>1. x \in (A \ {e}) \cup (IF e \in A THEN B ELSE {})
  BY Zenon DEF OrElse, Nothing
<1> HIDE DEF e
<1>2. (x \in A /\ x # e) \/ (x \in B /\ e \in A)
  BY <1>1
<1> QED BY <1>2 DEF e

LEMMA SingleFacts ==
    ASSUME NEW c, NEW plans \in Single
    PROVE  /\ plans \in Seq(Plans) /\ OneMutation(plans) /\ OneVerification(plans)
           /\ \A k \in DOMAIN plans : ~IsVerify(plans[k])
           /\ plans \in Unchanging => \A k \in DOMAIN plans : ~Mutates(plans[k])
           /\ (plans \in Unchanging \/ Builder) => Loose(c, plans)
<1>1. CASE plans = <<>>
  BY <1>1 DEF Loose, OneMutation, OneVerification
<1>2. ASSUME NEW t \in {"read", "install"}, NEW p \in LogPaths,
             plans = <<Plan(t, p)>>
      PROVE  /\ plans \in Seq(Plans) /\ OneMutation(plans) /\ OneVerification(plans)
             /\ \A k \in DOMAIN plans : ~IsVerify(plans[k])
             /\ \A k \in DOMAIN plans : ~Mutates(plans[k])
             /\ Loose(c, plans)
  <2>1. Plan(t, p) \in Plans /\ ~IsVerify(Plan(t, p)) /\ ~Mutates(Plan(t, p))
    BY DEF Plan, Plans, Tools, LogPaths, Files, IsVerify, Mutates
  <2> QED BY <2>1, <1>2 DEF Loose, OneMutation, OneVerification, Mutates
<1>3. ASSUME NEW p \in Sources, plans = <<Plan("mutate", p)>>
      PROVE  /\ plans \in Seq(Plans) /\ OneMutation(plans) /\ OneVerification(plans)
             /\ \A k \in DOMAIN plans : ~IsVerify(plans[k])
             /\ plans \notin Unchanging
             /\ Builder => Loose(c, plans)
  <2>1. Plan("mutate", p) \in Plans /\ ~IsVerify(Plan("mutate", p))
    BY DEF Plan, Plans, Tools, LogPaths, Files, IsVerify, Mutates
  <2>2. plans \notin Unchanging
    <3> SUFFICES ASSUME NEW t \in {"read", "install"}, NEW q, plans = <<Plan(t, q)>>
                 PROVE  FALSE
      BY <1>3 DEF Unchanging
    <3>1. Plan(t, q) = Plan("mutate", p)
      BY <1>3
    <3> QED BY <3>1 DEF Plan
  <2> QED BY <2>1, <2>2, <1>3 DEF Loose, OneMutation, OneVerification
<1>4. plans \in Unchanging =>
        \/ plans = <<>>
        \/ \E t \in {"read", "install"}, p \in LogPaths : plans = <<Plan(t, p)>>
  BY DEF Unchanging
<1>5. plans \in Unchanging \/ \E p \in Sources : plans = <<Plan("mutate", p)>>
  BY DEF Single
<1>6. CASE plans \in Unchanging
  <2>1. CASE plans = <<>>
    BY <1>1, <2>1
  <2>2. CASE plans # <<>>
    BY <1>2, <1>4, <1>6, <2>2
  <2> QED BY <2>1, <2>2
<1>7. CASE \E p \in Sources : plans = <<Plan("mutate", p)>>
  BY <1>3, <1>7
<1> QED BY <1>5, <1>6, <1>7

LEMMA ReadsAndMutations ==
    /\ Nothing \subseteq Unchanging /\ Nothing \subseteq Single /\ Unchanging \subseteq Single
    /\ \A P : P \subseteq LogPaths => Reads(P) \subseteq Unchanging
    /\ \A P : P \subseteq Sources => Mutations(P) \subseteq Single
  BY DEF Nothing, Unchanging, Single, Reads, Mutations, LogPaths, Files

\* The causal rules plan one thing at a time.
LEMMA RulesFacts ==
    ASSUME NEW c \in Seq(LoggedCalls)
    PROVE  /\ EnvironmentRecovery(c) \subseteq Unchanging
           /\ FailureFollowUps(c) \subseteq Unchanging
           /\ Evidence(c) \subseteq Unchanging
           /\ RepairTransition(c) \subseteq Single
           /\ ImplementationTransition(c) \subseteq Single
           /\ GroundedSynthesis(c) \subseteq Single
           /\ ExecutionTransition(c) \subseteq Single
           /\ \A own, p : ExternalRepair(c, own, p) \subseteq Single
<1>0. /\ Sources \subseteq LogPaths /\ Files \subseteq LogPaths /\ NoPath \in LogPaths
      /\ Manifests \subseteq Sources
  BY ManifestsAreSources DEF LogPaths, Files
<1>1. EnvironmentRecovery(c) \subseteq Unchanging
  BY <1>0 DEF EnvironmentRecovery, Unchanging, Install, Nothing
<1>2. FailureFollowUps(c) \subseteq Unchanging
  <2> DEFINE S == {i \in Localized(c) : i <= LatestFailure(c)}
             p == c[Latest(S)].path
  <2>1. S \subseteq 1..Len(c) /\ Len(c) \in Nat
    BY PlacesOfLog DEF Localized, After, Indices
  <2>2. S # {} => Latest(S) \in S
    <3> HIDE DEF S
    <3> QED BY <2>1, LatestFacts
  <2>3. S # {} => p \in LogPaths
    <3>1. S # {} => c[Latest(S)] \in LoggedCalls
      BY <2>1, <2>2, PlacesOfLog
    <3> QED BY <3>1 DEF LoggedCalls
  <2>4. FailureFollowUps(c) \subseteq IF S # {} THEN Nothing \cup Reads({p}) ELSE Nothing
    BY DEF FailureFollowUps
  <2> HIDE DEF S, p
  <2> QED BY <2>3, <2>4, ReadsAndMutations
<1>3. Evidence(c) \subseteq Unchanging
  BY <1>0, ReadsAndMutations DEF Evidence
<1>4. \A i : LocalRepair(c) \subseteq Single /\ ReadSince(c, i) \subseteq Sources
  BY ReadsAndMutations DEF LocalRepair, ReadSince
<1>5. StructuralRepair(c) \subseteq Single
  BY <1>4, ReadsAndMutations DEF StructuralRepair
<1>6. ManifestRepair(c) \subseteq Single
  <2> DEFINE observed == {p \in Manifests : ReadOf(c, p) > 0}
             stale == {p \in observed :
                         Latest({i \in Indices(c, IsMutation) : c[i].path = p}) > ReadOf(c, p)}
  <2>1. stale \subseteq LogPaths /\ observed \ stale \subseteq Sources
    BY <1>0
  <2>2. ManifestRepair(c) \subseteq Nothing \cup Reads(stale) \cup Mutations(observed \ stale)
    BY DEF ManifestRepair
  <2> HIDE DEF observed, stale
  <2> QED BY <2>1, <2>2, ReadsAndMutations
<1>7. RepairTransition(c) \subseteq Single
  <2> SUFFICES ASSUME NEW x \in RepairTransition(c) PROVE x \in Single
    OBVIOUS
  <2> DEFINE repair == IF ~Unsolved(c) THEN Nothing
                       ELSE IF LatestRollback(c) = NoPath /\ Localized(c) # {} THEN LocalRepair(c)
                       ELSE StructuralRepair(c)
  <2>1. repair \subseteq Single
    BY <1>4, <1>5, ReadsAndMutations
  <2>2. x \in Nothing \/ x \in OrElse(ManifestRepair(c), repair)
    BY DEF RepairTransition
  <2> HIDE DEF repair
  <2> QED BY <2>1, <2>2, <1>6, OrElseFacts, ReadsAndMutations
<1>8. ImplementationTransition(c) \subseteq Single
  BY ReadsAndMutations DEF ImplementationTransition
<1>9. GroundedSynthesis(c) \subseteq Single
  BY ReadsAndMutations DEF GroundedSynthesis, GroundedTargets, BestTargets
<1>10. ExecutionTransition(c) \subseteq Single
  BY <1>9, ReadsAndMutations DEF ExecutionTransition
<1>11. ASSUME NEW own, NEW p PROVE ExternalRepair(c, own, p) \subseteq Single
  <2> SUFFICES ASSUME NEW x \in ExternalRepair(c, own, p) PROVE x \in Single
    OBVIOUS
  <2>1. \A changed : FeedbackEvidence(c, changed) \subseteq Single
    BY <1>0, ReadsAndMutations DEF FeedbackEvidence
  <2>2. \A changed, y : y \in OrElse(FeedbackEvidence(c, changed),
                   Nothing \cup Mutations({q \in Sources : ReadOf(c, q) > changed[q]}))
                     => y \in Single
    <3> TAKE changed, y
    <3> DEFINE R == Nothing \cup Mutations({q \in Sources : ReadOf(c, q) > changed[q]})
    <3>1. R \subseteq Single
      BY ReadsAndMutations
    <3> HIDE DEF R
    <3> SUFFICES ASSUME y \in OrElse(FeedbackEvidence(c, changed), R) PROVE y \in Single
      BY DEF R
    <3> QED BY <2>1, <3>1, OrElseFacts
  <2>3. CASE p = NoPath
    BY <2>3, ReadsAndMutations DEF ExternalRepair
  <2>4. CASE p # NoPath
    <3> DEFINE before == Len(c) - Len(own)
               made(q) == {i \in Indices(own, IsMutation) : own[i].path = q}
               changed == [q \in Sources |-> IF made(q) = {} THEN 0 ELSE before + Max(made(q))]
    <3>1. x \in OrElse(FeedbackEvidence(c, changed),
                       Nothing \cup Mutations({q \in Sources : ReadOf(c, q) > changed[q]}))
      BY <2>4, Zenon DEF ExternalRepair
    <3> HIDE DEF changed
    <3> QED BY <3>1, <2>2
  <2> QED BY <2>3, <2>4
<1> QED BY <1>1, <1>2, <1>3, <1>7, <1>8, <1>9, <1>10, <1>11

LEMMA VerificationFacts ==
    /\ Verification \in Plans /\ IsVerify(Verification) /\ ~Mutates(Verification)
    /\ Verification.tool # "mutate"
    /\ Command \in Plans /\ ~IsVerify(Command) /\ Command.tool # "mutate"
    /\ \A p \in Files : /\ Plan("read", p) \in Plans
                        /\ ~IsVerify(Plan("read", p)) /\ ~Mutates(Plan("read", p))
    /\ \A p \in Sources : Plan("mutate", p) \in Plans /\ ~IsVerify(Plan("mutate", p))
  BY DEF Verification, Command, Plan, Plans, Tools, LogPaths, Files, IsVerify, Mutates

\* A verification that is neither cached nor repeated is fresh.
LEMMA NovelIsFresh ==
    ASSUME NEW c \in Seq(LoggedCalls)
    PROVE  /\ ~Cached(c, Verification) => FreshVerify(c)
           /\ ~Repeated(c, Verification) => FreshVerify(c)
<1> DEFINE V == {i \in DOMAIN c : IsVerify(c[i])}
           i == LastVerify(c)
<1>1. Verification.tool = "verify" /\ ~Mutates(Verification) /\ IsVerify(Verification)
  BY DEF Verification, Plan, Mutates, IsVerify
<1>2. Previous(c, Verification) = Latest(V)
  <2>1. {j \in DOMAIN c : /\ c[j].tool = Verification.tool
                          /\ Verification.tool = "read" => c[j].path = Verification.path} = V
    BY <1>1 DEF IsVerify
  <2> HIDE DEF V
  <2> QED BY <1>1, <2>1 DEF Previous, Indices
<1>3. LastVerify(c) = Latest(V)
  BY DEF LastVerify, Indices
<1>4. i \in Nat
  BY LastVerifyFacts, PlacesOfLog
<1> HIDE DEF V
<1>5. Previous(c, Verification) = i
  BY <1>2, <1>3
<1> HIDE DEF i
<1>6. ASSUME ~Cached(c, Verification) PROVE FreshVerify(c)
  <2>1. Verification.tool # "read" /\ Verification # Install
    BY <1>1 DEF Install, Plan
  <2>2. ~(i > 0 /\ c[i].outcome # "timedout" /\ After(i, Effective(c)) = {})
    BY <1>1, <1>5, <1>6, <2>1 DEF Cached
  <2>3. i = 0 \/ TimedOut(c[i]) \/ {j \in Effective(c) : j > i} # {}
    BY <2>2, <1>4 DEF After, TimedOut
  <2> QED BY <2>3 DEF FreshVerify, i
<1>7. ASSUME ~Repeated(c, Verification) PROVE FreshVerify(c)
  <2>1. i = 0 \/ {j \in Effective(c) : j > i} # {}
    BY <1>1, <1>4, <1>5, <1>7 DEF Repeated, After
  <2> QED BY <2>1 DEF FreshVerify, i
<1> QED BY <1>6, <1>7

\* Pairs of plans.
LEMMA OneOrTwo ==
    ASSUME NEW x \in Plans, NEW y \in Plans
    PROVE  /\ <<x>> \in Seq(Plans) /\ DOMAIN <<x>> = {1} /\ <<x>>[1] = x
           /\ <<x>> \o <<y>> \in Seq(Plans) /\ DOMAIN (<<x>> \o <<y>>) = {1, 2}
           /\ (<<x>> \o <<y>>)[1] = x /\ (<<x>> \o <<y>>)[2] = y
<1>1. <<x>> \in Seq(Plans) /\ DOMAIN <<x>> = {1} /\ <<x>>[1] = x
      /\ Len(<<x>>) = 1 /\ Len(<<y>>) = 1 /\ <<y>> \in Seq(Plans) /\ <<y>>[1] = y
  OBVIOUS
<1>2. /\ <<x>> \o <<y>> \in Seq(Plans)
      /\ Len(<<x>> \o <<y>>) = 2
      /\ (<<x>> \o <<y>>)[1] = x /\ (<<x>> \o <<y>>)[2] = y
  BY <1>1
<1>3. DOMAIN (<<x>> \o <<y>>) = 1..2
  BY <1>2
<1> QED BY <1>1, <1>2, <1>3

LEMMA AnswersFacts ==
    ASSUME NEW c \in Seq(LoggedCalls), NEW withChanges \in BOOLEAN, withChanges => Builder,
           NEW plans \in Answers(c, withChanges)
    PROVE  Loose(c, plans) /\ OneMutation(plans)
<1> DEFINE novel == {x \in Proposals : ~Repeated(c, x)}
           changes == {<<Command>>} \cup IF withChanges THEN Changes(c) ELSE {}
           others == {<<x>> : x \in novel}
           tested == IF Verification \in novel THEN changes ELSE {}
           v == <<Verification>>
<1>1. \/ plans = <<>> \/ plans \in others \/ plans \in changes
      \/ \E x \in others, y \in changes : plans = x \o y
      \/ \E y \in tested : plans = y \o v
  <2> DEFINE pairs == {x \o y : x \in others, y \in changes}
             tests == {y \o v : y \in tested}
  <2>1. Answers(c, withChanges) = Nothing \cup others \cup changes \cup pairs \cup tests
    BY DEF Answers
  <2> HIDE DEF novel, changes, others, tested, v, pairs, tests
  <2>2. \/ plans \in Nothing \/ plans \in others \/ plans \in changes
        \/ plans \in pairs \/ plans \in tests
    BY <2>1
  <2>3. plans \in pairs => \E x \in others, y \in changes : plans = x \o y
    BY DEF pairs
  <2>4. plans \in tests => \E y \in tested : plans = y \o v
    BY DEF tests
  <2>5. plans \in Nothing => plans = <<>>
    BY DEF Nothing
  <2> QED BY <2>2, <2>3, <2>4, <2>5
<1>2. \A x \in novel : /\ x \in Plans /\ ~Mutates(x) /\ x.tool # "mutate"
                       /\ IsVerify(x) => FreshVerify(c)
  <2> TAKE x \in novel
  <2>1. x = Verification \/ \E p \in Files : x = Plan("read", p)
    BY DEF Proposals
  <2>2. CASE x = Verification
    BY <2>2, VerificationFacts, NovelIsFresh
  <2>3. CASE \E p \in Files : x = Plan("read", p)
    BY <2>3, VerificationFacts DEF Mutates
  <2> QED BY <2>1, <2>2, <2>3 DEF Mutates
<1>3. \A y \in changes :
        \E z \in Plans : y = <<z>> /\ ~IsVerify(z) /\ (z.tool = "mutate" => Builder)
  <2> TAKE y \in changes
  <2>1. y = <<Command>> \/ (withChanges /\ y \in Changes(c))
    BY DEF changes
  <2>2. CASE y = <<Command>>
    BY <2>2, VerificationFacts
  <2>3. CASE withChanges /\ y \in Changes(c)
    <3>1. PICK p \in Sources : y = <<Plan("mutate", p)>>
      BY <2>3 DEF Changes, Mutations
    <3> QED BY <3>1, <2>3, VerificationFacts
  <2> QED BY <2>1, <2>2, <2>3
<1> HIDE DEF novel, changes
<1>10. tested \subseteq changes /\ (tested # {} => Verification \in novel)
  OBVIOUS
<1> HIDE DEF tested
<1>4. CASE plans = <<>>
  BY <1>4 DEF Loose, OneMutation, OneVerification
<1>5. CASE plans \in others
  <2>0. PICK x \in novel : plans = <<x>>
    BY <1>5
  <2>1. plans \in Seq(Plans) /\ DOMAIN plans = {1} /\ plans[1] = x
    BY <1>2, <2>0, OneOrTwo
  <2> QED BY <2>1, <1>2 DEF Loose, OneMutation, OneVerification
<1>6. CASE plans \in changes
  <2>1. PICK z \in Plans : plans = <<z>> /\ ~IsVerify(z) /\ (z.tool = "mutate" => Builder)
    BY <1>3, <1>6
  <2>2. plans \in Seq(Plans) /\ DOMAIN plans = {1} /\ plans[1] = z
    BY <2>1, OneOrTwo
  <2> QED BY <2>1, <2>2, <1>3, <1>6 DEF Loose, OneMutation, OneVerification
<1>7. ASSUME NEW a \in others, NEW y \in changes, plans = a \o y
      PROVE  Loose(c, plans) /\ OneMutation(plans)
  <2>0. PICK x \in novel : a = <<x>>
    OBVIOUS
  <2>1. PICK z \in Plans : y = <<z>> /\ ~IsVerify(z) /\ (z.tool = "mutate" => Builder)
    BY <1>3
  <2>2. /\ plans \in Seq(Plans) /\ DOMAIN plans = {1, 2}
        /\ plans[1] = x /\ plans[2] = z
    BY <2>0, <2>1, <1>2, <1>7, OneOrTwo
  <2> QED BY <2>1, <2>2, <1>2, <1>3 DEF Loose, OneMutation, OneVerification
<1>8. ASSUME NEW y \in tested, plans = y \o v
      PROVE  Loose(c, plans) /\ OneMutation(plans)
  <2>0. Verification \in novel /\ y \in changes
    BY <1>10
  <2>1. PICK z \in Plans : y = <<z>> /\ ~IsVerify(z) /\ (z.tool = "mutate" => Builder)
    BY <2>0, <1>3
  <2>2. /\ plans \in Seq(Plans) /\ DOMAIN plans = {1, 2}
        /\ plans[1] = z /\ plans[2] = Verification
    BY <2>1, <1>8, VerificationFacts, OneOrTwo
  <2>3. /\ FreshVerify(c) /\ IsVerify(Verification) /\ ~Mutates(Verification)
        /\ Verification.tool # "mutate"
    BY <2>0, <1>2, VerificationFacts
  <2> QED BY <2>0, <2>1, <2>2, <2>3, <1>3 DEF Loose, OneMutation, OneVerification
<1> HIDE DEF others, v
<1> QED BY <1>1, <1>4, <1>5, <1>6, <1>7, <1>8

LEMMA FocusedFacts ==
    ASSUME NEW c, NEW plans, Loose(c, plans), OneMutation(plans),
           NEW x \in Focused(c, plans)
    PROVE  Loose(c, x) /\ OneMutation(x)
<1> DEFINE C == {k \in DOMAIN plans : Mutates(plans[k])}
           R == {k \in DOMAIN plans : plans[k].tool = "read"}
           changes == At(plans, C)
           inspections == At(plans, R)
           first == SubSeq(inspections, 1, Min({1, Len(inspections)}))
<1>1. \/ x = changes \/ x = first \/ x = inspections
      \/ x \in KeptOrDropped(changes)
  <2>1. Sift(plans, Mutates) = changes
    BY DEF Sift, Indices
  <2>2. \A s : s = Sift(plans, Mutates) => s = changes
    BY <2>1
  <2> QED BY Zenon DEF Focused, Sift, Indices
<1>2. /\ Loose(c, changes) /\ OneMutation(changes)
      /\ Loose(c, inspections) /\ OneMutation(inspections)
  BY AtIsLoose
<1>3. Loose(c, <<>>) /\ OneMutation(<<>>)
  BY DEF Loose, OneMutation, OneVerification
<1>4. Loose(c, first) /\ OneMutation(first)
  <2> HIDE DEF inspections
  <2>1. inspections \in Seq(Plans) /\ Len(inspections) \in Nat
    BY <1>2 DEF Loose
  <2>2. CASE Len(inspections) = 0
    <3>1. Min({1, Len(inspections)}) = 0
      BY <2>2 DEF Min
    <3>2. first = <<>>
      BY <2>1, <3>1
    <3> QED BY <3>2, <1>3
  <2>3. CASE Len(inspections) > 0
    <3>1. Min({1, Len(inspections)}) = 1
      <4>1. 1 \in {1, Len(inspections)} /\ \A y \in {1, Len(inspections)} : 1 <= y
        BY <2>1, <2>3
      <4>2. \A a \in {1, Len(inspections)} :
              (\A y \in {1, Len(inspections)} : a <= y) => a = 1
        BY <2>1, <2>3
      <4> QED BY <4>1, <4>2, Zenon DEF Min
    <3>2. /\ first \in Seq(Plans) /\ DOMAIN first = {1}
          /\ first[1] = inspections[1] /\ 1 \in DOMAIN inspections
      <4>1. 1 \in DOMAIN inspections /\ \A i \in 1..1 : inspections[i] \in Plans
        BY <2>1, <2>3
      <4> DEFINE f == SubSeq(inspections, 1, 1)
      <4>2. f \in Seq(Plans) /\ Len(f) = 1 /\ f[1] = inspections[1]
        BY <4>1, SubSeqProperties
      <4>3. first = f
        BY <3>1
      <4> HIDE DEF f, first
      <4>4. DOMAIN first = 1..1
        BY <4>2, <4>3
      <4> QED BY <4>1, <4>2, <4>3, <4>4
    <3> HIDE DEF first
    <3> QED BY <3>2, <1>2 DEF Loose, OneMutation, OneVerification
  <2> QED BY <2>1, <2>2, <2>3
<1> HIDE DEF changes, inspections, first
<1>5. KeptOrDropped(changes) = {changes, <<>>}
  BY DEF KeptOrDropped
<1> QED BY <1>1, <1>2, <1>3, <1>4, <1>5

\* What the model plans.
LEMMA ModelFacts ==
    ASSUME NEW c \in Seq(LoggedCalls), NEW plans \in ModelPlans(c, actor.kind)
    PROVE  Loose(c, plans) /\ OneMutation(plans)
<1> DEFINE focused == IF ~Unverified(c) THEN Answers(c, TRUE)
                      ELSE UNION {Focused(c, s) : s \in Answers(c, TRUE)}
<1>1. Loose(c, <<>>) /\ OneMutation(<<>>)
  BY DEF Loose, OneMutation, OneVerification
<1>2. CASE actor.kind = "tester"
  <2>1. plans \in Answers(c, FALSE)
    BY <1>2 DEF ModelPlans
  <2> QED BY <2>1, AnswersFacts
<1>3. CASE actor.kind = "builder" /\ ~(Effective(c) # {} /\ Verified(c))
  <2>1. plans \in Advancing(c, focused) \/ plans \in Recovered(c)
    BY <1>3, Zenon DEF ModelPlans
  <2>2. Advancing(c, focused) \subseteq focused
    <3> HIDE DEF focused
    <3> QED BY DEF Advancing
  <2>3. Builder
    BY <1>3 DEF Builder
  <2>4. ASSUME plans \in focused PROVE Loose(c, plans) /\ OneMutation(plans)
    <3>1. CASE ~Unverified(c)
      <4>1. plans \in Answers(c, TRUE)
        BY <2>4, <3>1
      <4> QED BY <4>1, <2>3, AnswersFacts
    <3>2. CASE Unverified(c)
      <4>1. PICK s \in Answers(c, TRUE) : plans \in Focused(c, s)
        BY <2>4, <3>2
      <4>2. Loose(c, s) /\ OneMutation(s)
        BY <2>3, AnswersFacts
      <4> QED BY <4>1, <4>2, FocusedFacts
    <3> QED BY <3>1, <3>2
  <2>5. ASSUME plans \in Recovered(c) PROVE Loose(c, plans) /\ OneMutation(plans)
    <3> DEFINE B == IF Effective(c) = {} \/ Unverified(c) THEN GroundedSynthesis(c) ELSE Nothing
    <3>1. plans \in RecoveredVerification(c) \/ plans \in B
      BY <2>5, OrElseFacts, Zenon DEF Recovered
    <3>2. CASE plans \in B
      <4>1. plans \in Single
        BY <3>2, RulesFacts, ReadsAndMutations
      <4> QED BY <4>1, <2>3, SingleFacts
    <3>3. CASE plans \in RecoveredVerification(c)
      <4>1. plans = <<>> \/ (plans = <<Verification>> /\ FreshVerify(c))
        <5> DEFINE m == Latest(Effective(c))
        <5>1. m > 0 /\ LastVerify(c) < m => FreshVerify(c)
          <6>1. Effective(c) \subseteq 1..Len(c) /\ Len(c) \in Nat
            BY EffectiveFacts, PlacesOfLog
          <6>2. Effective(c) # {} => m \in Effective(c)
            BY <6>1, LatestFacts
          <6>3. Effective(c) = {} => m = 0
            BY <6>1, LatestFacts
          <6>4. LastVerify(c) \in Nat /\ m \in Nat
            BY LastVerifyFacts, <6>1, LatestFacts
          <6> HIDE DEF m
          <6> QED BY <6>2, <6>3, <6>4 DEF FreshVerify
        <5>2. plans \in IF m > 0 /\ LastVerify(c) < m /\ LastVerify(c) > 0
                        THEN {<<Verification>>} ELSE {<<>>}
          BY <3>3, Zenon DEF RecoveredVerification, Nothing
        <5> HIDE DEF m
        <5>3. CASE m > 0 /\ LastVerify(c) < m /\ LastVerify(c) > 0
          <6>1. plans \in {<<Verification>>}
            BY <5>2, <5>3, Zenon
          <6> QED BY <6>1, <5>1, <5>3, Zenon
        <5>4. CASE ~(m > 0 /\ LastVerify(c) < m /\ LastVerify(c) > 0)
          <6>1. plans \in {<<>>}
            BY <5>2, <5>4, Zenon
          <6> QED BY <6>1, Zenon
        <5> QED BY <5>3, <5>4
      <4>2. CASE plans = <<Verification>> /\ FreshVerify(c)
        <5>1. plans \in Seq(Plans) /\ DOMAIN plans = {1} /\ plans[1] = Verification
          BY <4>2, VerificationFacts, OneOrTwo
        <5> QED BY <5>1, <4>2, VerificationFacts DEF Loose, OneMutation, OneVerification
      <4> QED BY <4>1, <4>2, <1>1
    <3> QED BY <3>1, <3>2, <3>3
  <2> HIDE DEF focused
  <2> QED BY <2>1, <2>2, <2>4, <2>5
<1>4. CASE ~(actor.kind = "tester") /\ ~(actor.kind = "builder" /\ ~(Effective(c) # {} /\ Verified(c)))
  <2>1. plans = <<>>
    BY <1>4 DEF ModelPlans, Nothing
  <2> QED BY <2>1, <1>1
<1> QED BY <1>2, <1>3, <1>4

\* What is true of the plans that are let through on the strength of the calls c.
Sound(c, plans) ==
    /\ plans \in Seq(Plans) /\ OneMutation(plans)
    /\ \A k \in DOMAIN plans : Mutates(plans[k]) => Tried(c)
    /\ \A k \in DOMAIN plans : plans[k].tool = "mutate" =>
         Builder /\ ~NoGain(c, plans[k].path)
    /\ Builder => /\ OneVerification(plans)
                  /\ \A k \in DOMAIN plans : IsVerify(plans[k]) => Due(c)

NoChange(plans) == \A k \in DOMAIN plans : ~Mutates(plans[k])
Gains(c, plans) ==
    \A k \in DOMAIN plans : plans[k].tool = "mutate" => ~NoGain(c, plans[k].path)

LEMMA LooseIsSound ==
    ASSUME NEW c \in Seq(LoggedCalls), NEW plans, Loose(c, plans), OneMutation(plans),
           Gains(c, plans), NoChange(plans) \/ ~PendingVerifier(c)
    PROVE  Sound(c, plans)
<1>1. plans \in Seq(Plans)
  BY DEF Loose
<1>2. \A k \in DOMAIN plans : Mutates(plans[k]) => Tried(c)
  BY PendingFacts DEF NoChange
<1>3. \A k \in DOMAIN plans : plans[k].tool = "mutate" =>
        Builder /\ ~NoGain(c, plans[k].path)
  BY DEF Loose, Gains
<1>4. Builder => /\ OneVerification(plans)
                 /\ \A k \in DOMAIN plans : IsVerify(plans[k]) => Due(c)
  BY FreshFacts DEF Loose
<1> QED BY <1>1, <1>2, <1>3, <1>4 DEF Sound

LEMMA BarrierIsSound ==
    ASSUME NEW c \in Seq(LoggedCalls), PendingVerifier(c)
    PROVE  Sound(c, <<Verification>>)
<1> DEFINE plans == <<Verification>>
<1>1. /\ plans \in Seq(Plans) /\ DOMAIN plans = {1}
      /\ IsVerify(plans[1]) /\ ~Mutates(plans[1])
  BY VerificationFacts, OneOrTwo
<1> HIDE DEF plans
<1>2. Due(c)
  BY PendingFacts DEF Due
<1>3. Sound(c, plans)
  BY <1>1, <1>2 DEF Sound, OneMutation, OneVerification, Mutates
<1> QED BY <1>3 DEF plans

\* The barrier comes before every other rule.
LEMMA BarrierFirst ==
    ASSUME NEW c, NEW A, NEW plans \in OrElse(Barrier(c), A)
    PROVE  IF PendingVerifier(c) THEN plans = <<Verification>> ELSE plans \in A
<1>1. (plans \in Barrier(c) /\ plans # <<>>) \/ (plans \in A /\ <<>> \in Barrier(c))
  BY OrElseFacts
<1>2. CASE PendingVerifier(c)
  <2>1. Barrier(c) = {<<Verification>>} /\ <<>> # <<Verification>>
    BY <1>2 DEF Barrier
  <2> QED BY <1>1, <1>2, <2>1
<1>3. CASE ~PendingVerifier(c)
  <2>1. Barrier(c) = {<<>>}
    BY <1>3 DEF Barrier, Nothing
  <2> QED BY <1>1, <1>3, <2>1
<1> QED BY <1>2, <1>3

LEMMA GainingFacts ==
    ASSUME NEW c, NEW s, Loose(c, s)
    PROVE  /\ Loose(c, Gaining(c, s)) /\ Gains(c, Gaining(c, s))
           /\ OneMutation(s) => OneMutation(Gaining(c, s))
           /\ NoChange(s) => NoChange(Gaining(c, s))
           /\ OnlyVerifies(s) => OnlyVerifies(Gaining(c, s))
<1> DEFINE I == {k \in DOMAIN s : s[k].tool = "mutate" => ~NoGain(c, s[k].path)}
           t == At(s, I)
<1>1. Gaining(c, s) = t
  BY DEF Gaining, Sift, Indices
<1>2. /\ Loose(c, t)
      /\ OneMutation(s) => OneMutation(t)
      /\ \A x \in Range(t) : \E k \in DOMAIN s \cap I : x = s[k]
  BY AtIsLoose
<1> HIDE DEF t
<1>3. \A k \in DOMAIN t : t[k] \in Range(t)
  BY DEF Range
<1>4. Gains(c, t)
  BY <1>2, <1>3 DEF Gains
<1>5. (NoChange(s) => NoChange(t)) /\ (OnlyVerifies(s) => OnlyVerifies(t))
  BY <1>2, <1>3 DEF NoChange, OnlyVerifies
<1> QED BY <1>1, <1>2, <1>4, <1>5

LEMMA NoMutationFacts ==
    ASSUME NEW c, NEW s, Loose(c, s)
    PROVE  /\ Loose(c, NoMutation(s)) /\ NoChange(NoMutation(s))
           /\ OnlyVerifies(s) => OnlyVerifies(NoMutation(s))
<1> DEFINE I == {k \in DOMAIN s : ~Mutates(s[k])}
           t == At(s, I)
<1>1. NoMutation(s) = t
  BY DEF NoMutation, Sift, Indices
<1>2. Loose(c, t) /\ \A x \in Range(t) : \E k \in DOMAIN s \cap I : x = s[k]
  BY AtIsLoose
<1> HIDE DEF t
<1>3. \A k \in DOMAIN t : t[k] \in Range(t)
  BY DEF Range
<1> QED BY <1>1, <1>2, <1>3 DEF NoChange, OnlyVerifies

LEMMA SingleMutationFacts ==
    ASSUME NEW c, NEW s, Loose(c, s), Gains(c, s)
    PROVE  LET t == SingleMutation(s)
           IN  /\ Loose(c, t) /\ OneMutation(t) /\ Gains(c, t)
               /\ NoChange(s) => NoChange(t)
               /\ OnlyVerifies(s) => OnlyVerifies(t)
<1> DEFINE n == Len(s)
           M == {i \in 1..n : Mutates(s[i])}
           first == IF M # {} THEN Min(M) ELSE 0
           rest == SubSeq(s, first + 1, n)
           I == {k \in DOMAIN rest : ~Mutates(rest[k])}
           a == SubSeq(s, 1, first)
           b == At(rest, I)
           t == a \o b
<1>1. s \in Seq(Plans) /\ n \in Nat /\ DOMAIN s = 1..n /\ \A i \in 1..n : s[i] \in Plans
  BY DEF Loose
<1>2. SingleMutation(s) = t
  BY DEF SingleMutation, SelectInSeq, NoMutation, Sift, Indices
<1>3. first \in 0..n /\ \A i \in M : first <= i
  <2>1. CASE M = {}
    BY <2>1, <1>1
  <2>2. CASE M # {}
    <3>1. M \subseteq Nat /\ M \subseteq 1..n
      BY <1>1
    <3> HIDE DEF M
    <3>2. \E x \in M : \A y \in M : x <= y
      BY <3>1, <2>2, NatMin
    <3>3. Min(M) \in M /\ \A y \in M : Min(M) <= y
      BY <3>2, Zenon DEF Min
    <3>4. first = Min(M)
      BY <2>2
    <3> HIDE DEF first
    <3>5. first \in 1..n /\ \A y \in M : first <= y
      BY <3>1, <3>3, <3>4
    <3> QED BY <3>5, <1>1
  <2> QED BY <2>1, <2>2
<1> HIDE DEF first
<1>4. \A i \in 1..n : i < first => ~Mutates(s[i])
  BY <1>3, <1>1
<1>5. /\ a \in Seq(Plans) /\ Len(a) = first
      /\ \A i \in 1..first : a[i] = s[i]
  <2>1. \A i \in 1..first : s[i] \in Plans
    BY <1>1, <1>3
  <2>2. /\ a \in Seq(Plans) /\ Len(a) = IF 1 <= first THEN first - 1 + 1 ELSE 0
        /\ \A i \in 1..(first - 1 + 1) : a[i] = s[1 + i - 1]
    BY <2>1, <1>1, <1>3, SubSeqProperties
  <2> HIDE DEF a
  <2>3. first \in Nat
    BY <1>1, <1>3
  <2>4. \A i \in 1..first : 1 + i - 1 = i /\ i \in 1..(first - 1 + 1)
    BY <2>3
  <2> QED BY <2>2, <2>3, <2>4
<1>6. /\ rest \in Seq(Plans) /\ Len(rest) = n - first
      /\ \A i \in 1..(n - first) : rest[i] = s[first + i]
  <2>1. \A i \in (first + 1)..n : s[i] \in Plans
    BY <1>1, <1>3
  <2>2. /\ rest \in Seq(Plans)
        /\ Len(rest) = IF first + 1 <= n THEN n - (first + 1) + 1 ELSE 0
        /\ \A i \in 1..(n - (first + 1) + 1) : rest[i] = s[first + 1 + i - 1]
    BY <2>1, <1>1, <1>3, SubSeqProperties
  <2> HIDE DEF rest
  <2>3. first \in Nat /\ first <= n
    BY <1>1, <1>3
  <2>4. \A i \in 1..(n - first) :
           first + 1 + i - 1 = first + i /\ i \in 1..(n - (first + 1) + 1)
    BY <2>3, <1>1
  <2>5. Len(rest) = n - first
    <3> DEFINE l == Len(rest)
    <3>1. l = IF first + 1 <= n THEN n - (first + 1) + 1 ELSE 0
      BY <2>2
    <3> HIDE DEF l, n
    <3>2. n \in Nat
      BY <1>1 DEF n
    <3>3. l = n - first
      BY <3>1, <3>2, <2>3
    <3> QED BY <3>3 DEF l
  <2>6. \A i \in 1..(n - first) : rest[i] = s[first + i]
    <3> TAKE i \in 1..(n - first)
    <3>1. rest[i] = s[first + 1 + i - 1] /\ first + 1 + i - 1 = first + i
      BY <2>2, <2>4
    <3> QED BY <3>1
  <2> QED BY <2>2, <2>5, <2>6
<1> HIDE DEF a, rest, I
<1>7. b \in Seq(Plans) /\ Thinned(b, rest, I)
  BY <1>6, AtFacts
<1> HIDE DEF b
<1>8. PICK h \in [DOMAIN b -> DOMAIN rest \cap I] :
           /\ \A k \in DOMAIN b : b[k] = rest[h[k]]
           /\ \A j, k \in DOMAIN b : j < k => h[j] < h[k]
  BY <1>7 DEF Thinned
<1>9. /\ t \in Seq(Plans) /\ Len(t) = first + Len(b) /\ Len(b) \in Nat /\ first \in Nat
      /\ DOMAIN t = 1..(first + Len(b)) /\ DOMAIN b = 1..Len(b)
      /\ \A k \in 1..first : t[k] = a[k]
      /\ \A k \in 1..Len(b) : t[first + k] = b[k]
  <2>1. first \in Nat /\ b \in Seq(Plans) /\ Len(b) \in Nat
    BY <1>1, <1>3, <1>7
  <2>2. t \in Seq(Plans) /\ Len(t) = first + Len(b)
    BY <2>1, <1>5
  <2>3. \A k \in 1..(first + Len(b)) : t[k] = IF k <= first THEN a[k] ELSE b[k - first]
    BY <2>1, <1>5
  <2> HIDE DEF t
  <2>4. \A k \in 1..first : k \in 1..(first + Len(b)) /\ k <= first
    BY <2>1
  <2>5. \A k \in 1..Len(b) : /\ first + k \in 1..(first + Len(b)) /\ ~(first + k <= first)
                             /\ first + k - first = k
    BY <2>1
  <2>6. DOMAIN t = 1..(first + Len(b)) /\ DOMAIN b = 1..Len(b)
    BY <2>1, <2>2
  <2>7. \A k \in 1..first : t[k] = a[k]
    BY <2>3, <2>4
  <2>8. \A k \in 1..Len(b) : t[first + k] = b[k]
    <3> TAKE k \in 1..Len(b)
    <3>0. first \in Nat /\ k \in Nat
      BY <2>1
    <3>1. first + k \in 1..(first + Len(b)) /\ ~(first + k <= first) /\ first + k - first = k
      BY <2>5
    <3> DEFINE m == first + k
    <3>2. m \in 1..(first + Len(b)) /\ ~(m <= first) /\ m - first = k
      BY <3>0, <3>1
    <3> HIDE DEF m
    <3>3. t[m] = b[k]
      BY <2>3, <3>2
    <3> QED BY <3>3 DEF m
  <2> QED BY <2>1, <2>2, <2>6, <2>7, <2>8
<1> HIDE DEF t
<1> DEFINE place == [k \in DOMAIN t |-> IF k <= first THEN k ELSE first + h[k - first]]
<1>10. ASSUME NEW k \in DOMAIN t
       PROVE  /\ place[k] \in DOMAIN s /\ t[k] = s[place[k]]
              /\ k <= first => place[k] = k
              /\ k > first => /\ k - first \in DOMAIN b /\ h[k - first] \in Nat \ {0}
                              /\ place[k] = first + h[k - first] /\ ~Mutates(t[k])
  <2>1. CASE k <= first
    <3>1. k \in 1..first /\ k \in 1..n /\ k \in Nat /\ ~(k > first)
      BY <2>1, <1>1, <1>3, <1>9
    <3>2. place[k] = k
      BY <2>1
    <3> HIDE DEF place
    <3> QED BY <3>1, <3>2, <1>1, <1>5, <1>9
  <2>2. CASE k > first
    <3> DEFINE i == k - first
    <3>1. i \in 1..Len(b) /\ k = first + i
      BY <2>2, <1>9
    <3>2. h[i] \in DOMAIN rest \cap I
      BY <3>1, <1>8, <1>9
    <3>3. h[i] \in 1..(n - first) /\ DOMAIN rest = 1..(n - first)
      BY <3>2, <1>6, <1>1, <1>3, <1>9
    <3>4. t[k] = rest[h[i]]
      <4>1. t[k] = b[i]
        BY <3>1, <1>9
      <4> QED BY <4>1, <3>1, <1>8, <1>9
    <3>5. ~Mutates(rest[h[i]])
      BY <3>2 DEF I
    <3>6. rest[h[i]] = s[first + h[i]] /\ first + h[i] \in 1..n /\ h[i] \in Nat \ {0}
      BY <3>3, <1>1, <1>6, <1>9
    <3>7. ~(k <= first)
      BY <2>2, <1>9
    <3>8. place[k] = first + h[i]
      BY <3>7
    <3>9. i \in DOMAIN b
      BY <3>1, <1>9
    <3> HIDE DEF place
    <3> QED BY <3>4, <3>5, <3>6, <3>7, <3>8, <3>9, <1>1
  <2> QED BY <2>1, <2>2, <1>9
<1>11. ASSUME NEW j \in DOMAIN t, NEW k \in DOMAIN t, j < k
       PROVE  place[j] < place[k]
  <2>1. j \in Nat /\ k \in Nat
    BY <1>9
  <2>2. CASE k <= first
    <3>1. place[j] = j /\ place[k] = k
      <4> HIDE DEF place
      <4> QED BY <2>1, <2>2, <1>10, <1>11, <1>9
    <3> HIDE DEF place
    <3> QED BY <3>1, <1>11
  <2>3. CASE k > first /\ j <= first
    <3> HIDE DEF place
    <3> QED BY <2>1, <2>3, <1>10, <1>9
  <2>4. CASE k > first /\ j > first
    <3>1. j - first \in DOMAIN b /\ k - first \in DOMAIN b /\ j - first < k - first
      <4> HIDE DEF place
      <4> QED BY <2>1, <2>4, <1>9, <1>10, <1>11
    <3>2. h[j - first] < h[k - first]
      BY <3>1, <1>8
    <3> HIDE DEF place
    <3> QED BY <3>2, <2>4, <1>9, <1>10
  <2> QED BY <2>1, <2>2, <2>3, <2>4, <1>9
<1>12. place \in [DOMAIN t -> DOMAIN s \cap DOMAIN s]
  <2>1. \A k \in DOMAIN t : place[k] \in DOMAIN s
    <3> HIDE DEF place
    <3> QED BY <1>10
  <2>2. place = [k \in DOMAIN t |-> place[k]]
    OBVIOUS
  <2> HIDE DEF place
  <2> QED BY <2>1, <2>2
<1> HIDE DEF place
<1>13. Thinned(t, s, DOMAIN s)
  BY <1>10, <1>11, <1>12, Zenon DEF Thinned
<1>14. Loose(c, t)
  BY <1>9, <1>13, ThinnedIsLoose
<1>15. /\ Gains(c, t)
       /\ NoChange(s) => NoChange(t)
       /\ OnlyVerifies(s) => OnlyVerifies(t)
  BY <1>10 DEF Gains, NoChange, OnlyVerifies
<1>16. OneMutation(t)
  <2>1. \A k \in DOMAIN t : Mutates(t[k]) => k = first
    <3> SUFFICES ASSUME NEW k \in DOMAIN t, Mutates(t[k]) PROVE k = first
      OBVIOUS
    <3>1. k \in Nat /\ first \in Nat
      BY <1>9
    <3>2. k <= first
      BY <3>1, <1>10
    <3>3. t[k] = s[k] /\ k \in 1..n
      BY <3>2, <1>10, <1>1
    <3>4. ~(k < first)
      BY <3>3, <1>4
    <3> QED BY <3>1, <3>2, <3>4
  <2> QED BY <2>1 DEF OneMutation
<1> QED BY <1>2, <1>14, <1>15, <1>16

LEMMA EmptyIsLoose ==
    ASSUME NEW c
    PROVE  Loose(c, <<>>) /\ OneMutation(<<>>) /\ NoChange(<<>>)
  BY DEF Loose, OneMutation, OneVerification, NoChange

LEMMA ConcatFacts ==
    ASSUME NEW X, NEW a \in Seq(X), NEW b \in Seq(X)
    PROVE  /\ a \o b \in Seq(X) /\ Len(a \o b) = Len(a) + Len(b)
           /\ Len(a) \in Nat /\ Len(b) \in Nat
           /\ \A k \in DOMAIN (a \o b) :
                \/ k \in DOMAIN a /\ (a \o b)[k] = a[k]
                \/ k > Len(a) /\ k - Len(a) \in DOMAIN b /\ (a \o b)[k] = b[k - Len(a)]
<1> DEFINE t == a \o b
<1>1. /\ t \in Seq(X) /\ Len(t) = Len(a) + Len(b) /\ DOMAIN t = 1..(Len(a) + Len(b))
      /\ DOMAIN a = 1..Len(a) /\ DOMAIN b = 1..Len(b)
      /\ Len(a) \in Nat /\ Len(b) \in Nat
      /\ \A k \in 1..(Len(a) + Len(b)) : t[k] = IF k <= Len(a) THEN a[k] ELSE b[k - Len(a)]
  OBVIOUS
<1> HIDE DEF t
<1>2. ASSUME NEW k \in DOMAIN t
      PROVE  \/ k \in DOMAIN a /\ t[k] = a[k]
             \/ k > Len(a) /\ k - Len(a) \in DOMAIN b /\ t[k] = b[k - Len(a)]
  <2> DEFINE l == Len(a)
             m == Len(b)
  <2>1. l \in Nat /\ m \in Nat /\ k \in 1..(l + m)
    BY <1>1
  <2>2. t[k] = IF k <= l THEN a[k] ELSE b[k - l]
    BY <1>1
  <2>3. DOMAIN a = 1..l /\ DOMAIN b = 1..m
    BY <1>1
  <2> HIDE DEF l, m
  <2>4. \/ k \in DOMAIN a /\ t[k] = a[k]
        \/ k > l /\ k - l \in DOMAIN b /\ t[k] = b[k - l]
    BY <2>1, <2>2, <2>3
  <2> QED BY <2>4 DEF l
<1> QED BY <1>1, <1>2 DEF t

LEMMA ConcatIsLoose ==
    ASSUME NEW c, NEW a, NEW b, Loose(c, a), Loose(c, b),
           \A i \in DOMAIN a, j \in DOMAIN b : a[i] # b[j]
    PROVE  /\ Loose(c, a \o b)
           /\ NoChange(a) /\ NoChange(b) => NoChange(a \o b)
<1> DEFINE t == a \o b
<1>1. a \in Seq(Plans) /\ b \in Seq(Plans)
  BY DEF Loose
<1>2. t \in Seq(Plans) /\ DOMAIN t \subseteq Int /\ Len(a) \in Nat
  BY <1>1, ConcatFacts
<1>3. \A k \in DOMAIN t :
         \/ k \in DOMAIN a /\ t[k] = a[k]
         \/ k > Len(a) /\ k - Len(a) \in DOMAIN b /\ t[k] = b[k - Len(a)]
  BY <1>1, ConcatFacts
<1> HIDE DEF t
<1>4. NoChange(a) /\ NoChange(b) => NoChange(t)
  BY <1>3 DEF NoChange
<1>5. \A k \in DOMAIN t : t[k].tool = "mutate" => Builder
  BY <1>3 DEF Loose
<1>6. Builder => \A k \in DOMAIN t : IsVerify(t[k]) => FreshVerify(c)
  BY <1>3 DEF Loose
<1>7. ASSUME Builder, NEW j \in DOMAIN t, NEW k \in DOMAIN t, IsVerify(t[j]), IsVerify(t[k])
      PROVE  j = k
  <2>1. t[j] = Verification /\ t[k] = Verification
    BY <1>2, <1>7 DEF Plans
  <2>2. OneVerification(a) /\ OneVerification(b)
    BY <1>7 DEF Loose
  <2>3. CASE j \in DOMAIN a /\ t[j] = a[j]
    <3>1. CASE k \in DOMAIN a /\ t[k] = a[k]
      BY <2>2, <2>3, <3>1, <1>7 DEF OneVerification
    <3>2. CASE k > Len(a) /\ k - Len(a) \in DOMAIN b /\ t[k] = b[k - Len(a)]
      BY <2>1, <2>3, <3>2
    <3> QED BY <3>1, <3>2, <1>3
  <2>4. CASE j > Len(a) /\ j - Len(a) \in DOMAIN b /\ t[j] = b[j - Len(a)]
    <3>1. CASE k \in DOMAIN a /\ t[k] = a[k]
      BY <2>1, <2>4, <3>1
    <3>2. CASE k > Len(a) /\ k - Len(a) \in DOMAIN b /\ t[k] = b[k - Len(a)]
      <4>1. j - Len(a) = k - Len(a)
        BY <2>2, <2>4, <3>2, <1>7 DEF OneVerification
      <4> QED BY <4>1, <1>2
    <3> QED BY <3>1, <3>2, <1>3
  <2> QED BY <2>3, <2>4, <1>3
<1>8. Loose(c, t)
  BY <1>2, <1>5, <1>6, <1>7 DEF Loose, OneVerification
<1> QED BY <1>4, <1>8 DEF t

LEMMA RegroundedFacts ==
    ASSUME NEW c \in Seq(LoggedCalls), NEW plans, Loose(c, plans)
    PROVE  LET t == Regrounded(c, plans)
           IN  Loose(c, t) /\ (RejectedSynthesis(c) # NoPath => t # <<>> /\ NoChange(t))
<1>1. CASE RejectedSynthesis(c) = NoPath
  BY <1>1 DEF Regrounded
<1>2. CASE RejectedSynthesis(c) # NoPath
  <2> DEFINE E == {i \in DOMAIN c :
                     IsMutation(c[i]) \/ (Succeeded(c[i]) /\ c[i].tool \in {"read", "probe"})}
             R == {i \in DOMAIN c : c[i].outcome = "rejected"}
             r == Latest(R)
             p == RejectedSynthesis(c)
  <2>1. p = IF r > Latest(E) THEN c[r].path ELSE NoPath
    BY DEF RejectedSynthesis, Indices
  <2>2. Len(c) \in Nat /\ E \subseteq 1..Len(c) /\ R \subseteq 1..Len(c)
    BY PlacesOfLog
  <2> HIDE DEF E, R
  <2>3. Latest(E) \in Nat /\ (R = {} => r = 0) /\ (R # {} => r \in R) /\ r \in Nat
    <3>1. Latest(E) \in 0..Len(c)
      BY <2>2, LatestFacts
    <3>2. r \in 0..Len(c) /\ (R = {} => r = 0) /\ (R # {} => r \in R)
      BY <2>2, LatestFacts
    <3> QED BY <3>1, <3>2, <2>2
  <2>4. r \in DOMAIN c
    BY <2>1, <2>2, <2>3, <1>2, PlacesOfLog
  <2>5. p \in LogPaths
    <3>1. c[r] \in LoggedCalls
      BY <2>4, PlacesOfLog
    <3>2. c[r].path \in LogPaths
      BY <3>1 DEF LoggedCalls
    <3> HIDE DEF r
    <3> QED BY <2>1, <3>2 DEF LogPaths
  <2>6. Regrounded(c, plans) = <<Plan("read", p)>>
    BY <1>2 DEF Regrounded
  <2> HIDE DEF p
  <2>7. <<Plan("read", p)>> \in Unchanging /\ <<Plan("read", p)>> # <<>>
    BY <2>5 DEF Unchanging
  <2>8. Loose(c, <<Plan("read", p)>>) /\ NoChange(<<Plan("read", p)>>)
    BY <2>7, SingleFacts, ReadsAndMutations DEF NoChange
  <2> QED BY <2>6, <2>7, <2>8
<1> QED BY <1>1, <1>2

LEMMA ProbingFacts ==
    ASSUME NEW c, NEW plans, Loose(c, plans), NEW x \in Probing(plans)
    PROVE  /\ Loose(c, x) /\ (plans # <<>> /\ NoChange(plans) => x # <<>> /\ NoChange(x))
           /\ actor.kind # "prober" => x = plans
<1> DEFINE fresh == {r \in Reads(Sources) : ~Contains(plans, r[1])}
           Harmless(s) == \A k \in DOMAIN s : ~Mutates(s[k])
           Clean(s) == \A k \in DOMAIN s : s[k].tool # "mutate"
<1>1. CASE actor.kind # "prober"
  <2>1. x = plans
    BY <1>1 DEF Probing
  <2> QED BY <2>1
<1>2. CASE actor.kind = "prober"
  <2>1. Probing(plans) = {r \o <<Probe>> \o plans : r \in Nothing \cup fresh}
    BY <1>2 DEF Probing
  <2>2. PICK r \in Nothing \cup fresh : x = (r \o <<Probe>>) \o plans
    <3> HIDE DEF fresh
    <3> QED BY <2>1
  <2>3. ~Builder
    BY <1>2 DEF Builder
  <2>4. Probe \in Plans /\ ~Mutates(Probe) /\ Probe.tool # "mutate"
    BY DEF Probe, Plan, Plans, Tools, LogPaths, IsVerify, Mutates, Verification
  <2>5. r \in Seq(Plans) /\ Harmless(r) /\ Clean(r)
    <3>1. r \in Unchanging
      BY ReadsAndMutations DEF LogPaths, Files
    <3>2. r \in Seq(Plans) /\ Harmless(r)
      BY <3>1, SingleFacts, ReadsAndMutations
    <3> QED BY <3>2 DEF Mutates
  <2> DEFINE p == <<Probe>>
  <2>6. p \in Seq(Plans) /\ Len(p) = 1 /\ Harmless(p) /\ Clean(p)
    BY <2>4
  <2>7. plans \in Seq(Plans) /\ Clean(plans) /\ (NoChange(plans) => Harmless(plans))
    BY <2>3 DEF Loose, NoChange
  <2> HIDE DEF p
  <2> DEFINE q == r \o p
  <2>8. q \in Seq(Plans) /\ Len(q) > 0 /\ Harmless(q) /\ Clean(q)
    <3>1. q \in Seq(Plans) /\ Len(q) = Len(r) + Len(p) /\ Len(r) \in Nat
      BY <2>5, <2>6, ConcatFacts
    <3>2. ASSUME NEW k \in DOMAIN q PROVE ~Mutates(q[k]) /\ q[k].tool # "mutate"
      <4>1. \/ k \in DOMAIN r /\ q[k] = r[k]
            \/ k - Len(r) \in DOMAIN p /\ q[k] = p[k - Len(r)]
        BY <2>5, <2>6, ConcatFacts
      <4> HIDE DEF q
      <4> QED BY <4>1, <2>5, <2>6
    <3> QED BY <3>1, <3>2, <2>6
  <2>9. x = q \o plans
    BY <2>2 DEF p
  <2> HIDE DEF q
  <2> DEFINE y == q \o plans
  <2>10. y \in Seq(Plans) /\ Len(y) = Len(q) + Len(plans) /\ Len(plans) \in Nat
         /\ Len(q) \in Nat
    BY <2>7, <2>8, ConcatFacts
  <2>11. ASSUME NEW k \in DOMAIN y
         PROVE  y[k].tool # "mutate" /\ (NoChange(plans) => ~Mutates(y[k]))
    <3>1. \/ k \in DOMAIN q /\ y[k] = q[k]
          \/ k - Len(q) \in DOMAIN plans /\ y[k] = plans[k - Len(q)]
      BY <2>7, <2>8, ConcatFacts
    <3> HIDE DEF y
    <3> QED BY <3>1, <2>7, <2>8
  <2> HIDE DEF y
  <2>12. y # <<>>
    BY <2>10, <2>8
  <2> QED BY <1>2, <2>3, <2>9, <2>10, <2>11, <2>12 DEF Loose, NoChange, y
<1> QED BY <1>1, <1>2

LEMMA CausalFacts ==
    ASSUME NEW c \in Seq(LoggedCalls), Builder, NEW x \in Causal(c)
    PROVE  Loose(c, x)
<1>1. x \in Single
  <2> DEFINE e == OrElse(Evidence(c), ImplementationTransition(c))
             d == OrElse(EnvironmentRecovery(c), e)
             b == OrElse(ExternalRepair(c, <<>>, actor.feedback), d)
             a == IF actor.feedback = NoPath THEN RepairTransition(c) ELSE Nothing
  <2>1. x \in OrElse(a, b)
    BY DEF Causal
  <2>2. a \subseteq Single
    BY RulesFacts, ReadsAndMutations
  <2>3. \A y \in e : y \in Single
    <3> TAKE y \in e
    <3> QED BY OrElseFacts, RulesFacts, ReadsAndMutations
  <2> HIDE DEF e
  <2>4. \A y \in d : y \in Single
    <3> TAKE y \in d
    <3> QED BY <2>3, OrElseFacts, RulesFacts, ReadsAndMutations
  <2> HIDE DEF d
  <2>5. \A y \in b : y \in Single
    <3> TAKE y \in b
    <3> QED BY <2>4, OrElseFacts, RulesFacts, ReadsAndMutations
  <2> HIDE DEF b, a
  <2> QED BY <2>1, <2>2, <2>5, OrElseFacts
<1> QED BY <1>1, SingleFacts

\* What a run may begin with.
LEMMA FirstPlansAreSound ==
    ASSUME NEW c \in Seq(LoggedCalls), NEW suggested \in Seq(Plans), NEW answers,
           \A k \in DOMAIN suggested : suggested[k].tool = "mutate" => Builder,
           Builder => OneVerification(suggested),
           \A m \in answers : Loose(c, m),
           NEW first \in FirstPlans(c, suggested, answers)
    PROVE  /\ Sound(c, first)
           /\ /\ actor.kind = "tester" /\ OnlyVerifies(suggested) /\ answers = Nothing
              /\ RejectedSynthesis(c) = NoPath
              => OnlyVerifies(first)
<1> DEFINE J == {k \in DOMAIN suggested :
                   \/ actor.kind = "tester" /\ IsVerify(suggested[k])
                   \/ ~Cached(c, suggested[k])}
           new == At(suggested, J)
           rejected == Standing(RejectedCandidate(c)) # NoPath
           mayChange == Builder /\ ~rejected
           usable == Probing(Regrounded(c, new))
           kept == IF rejected THEN {NoMutation(plans) : plans \in usable} ELSE usable
           caused == IF mayChange THEN OrElse(kept, Causal(c)) ELSE kept
           inspects(plan) == plan.tool = "read" \/ Mutates(plan)
           asksModel(plans) == RejectedSynthesis(c) = NoPath /\ SelectInSeq(plans, inspects) = 0
           more(plans) ==
             IF ~asksModel(plans) THEN {plans}
             ELSE {plans \o At(m, {k \in DOMAIN m : ~Contains(plans, m[k])}) : m \in answers}
           modelled == UNION {more(plans) : plans \in caused}
           grounded == IF mayChange THEN OrElse(modelled, ExecutionTransition(c))
                       ELSE modelled
           free == {SingleMutation(Gaining(c, plans)) : plans \in grounded}
           fresh == RejectedSynthesis(c) = NoPath
           afresh == /\ actor.kind = "tester" /\ OnlyVerifies(suggested)
                     /\ answers = Nothing /\ fresh
<1>1. first \in IF fresh THEN OrElse(Barrier(c), free) ELSE free
  BY DEF FirstPlans, Sift, Indices
<1>2. Loose(c, new) /\ (afresh => OnlyVerifies(new))
  <2>1. new \in Seq(Plans) /\ Thinned(new, suggested, J)
    BY AtFacts
  <2>2. PICK place \in [DOMAIN new -> DOMAIN suggested \cap J] :
           /\ \A k \in DOMAIN new : new[k] = suggested[place[k]]
           /\ \A j, k \in DOMAIN new : j < k => place[j] < place[k]
    BY <2>1 DEF Thinned
  <2>3. \A k \in DOMAIN new : place[k] \in DOMAIN suggested /\ place[k] \in J
    BY <2>2
  <2>4. DOMAIN new \subseteq Int /\ DOMAIN suggested \subseteq Int
    <3> HIDE DEF new
    <3> QED BY <2>1
  <2>5. ASSUME NEW k \in DOMAIN new, Builder, IsVerify(new[k]) PROVE FreshVerify(c)
    <3>1. new[k] = Verification
      BY <2>1, <2>5 DEF Plans
    <3>2. actor.kind # "tester"
      BY <2>5 DEF Builder
    <3>3. ~Cached(c, Verification)
      BY <2>2, <2>3, <3>1, <3>2
    <3> QED BY <3>3, NovelIsFresh
  <2>6. ASSUME Builder PROVE OneVerification(new)
    <3> HIDE DEF new, J
    <3> SUFFICES ASSUME NEW j \in DOMAIN new, NEW k \in DOMAIN new,
                        IsVerify(new[j]), IsVerify(new[k]), j # k
                 PROVE  FALSE
      BY DEF OneVerification
    <3>1. place[j] = place[k]
      BY <2>2, <2>3, <2>6 DEF OneVerification
    <3>2. j < k \/ k < j
      BY <2>4
    <3>3. place[j] < place[k] \/ place[k] < place[j]
      BY <2>2, <3>2
    <3> QED BY <3>1, <3>3, <2>3, <2>4
  <2>7. \A k \in DOMAIN new : new[k].tool = "mutate" => Builder
    BY <2>2, <2>3
  <2>8. afresh => OnlyVerifies(new)
    BY <2>2, <2>3 DEF OnlyVerifies
  <2> HIDE DEF new
  <2> QED BY <2>1, <2>5, <2>6, <2>7, <2>8 DEF Loose
<1> HIDE DEF new
<1>3. \A x \in usable : /\ Loose(c, x) /\ (~fresh => x # <<>> /\ NoChange(x))
                        /\ afresh => OnlyVerifies(x)
  <2> TAKE x \in usable
  <2>1. Loose(c, Regrounded(c, new))
        /\ (~fresh => Regrounded(c, new) # <<>> /\ NoChange(Regrounded(c, new)))
    BY <1>2, RegroundedFacts
  <2>2. afresh => Regrounded(c, new) = new /\ actor.kind # "prober"
    BY DEF Regrounded
  <2> QED BY <2>1, <2>2, <1>2, ProbingFacts
<1> HIDE DEF usable
<1>4. \A x \in kept : /\ Loose(c, x)
                      /\ ~fresh => NoChange(x)
                      /\ ~fresh /\ ~rejected => x # <<>>
                      /\ afresh => OnlyVerifies(x)
  <2> TAKE x \in kept
  <2>1. CASE rejected
    <3>1. PICK y \in usable : x = NoMutation(y)
      BY <2>1
    <3> QED BY <3>1, <2>1, <1>3, NoMutationFacts
  <2>2. CASE ~rejected
    BY <2>2, <1>3
  <2> QED BY <2>1, <2>2
<1> HIDE DEF kept, rejected
<1>11. afresh => ~mayChange
  BY DEF Builder
<1>5. \A x \in caused : /\ Loose(c, x) /\ (~fresh => NoChange(x) /\ (mayChange => x # <<>>))
                        /\ afresh => OnlyVerifies(x)
  <2> TAKE x \in caused
  <2>1. CASE mayChange
    <3>1. (x \in kept /\ x # <<>>) \/ (x \in Causal(c) /\ <<>> \in kept)
      BY <2>1, OrElseFacts
    <3>2. x \in Causal(c) => Loose(c, x)
      BY <2>1, CausalFacts
    <3> QED BY <3>1, <3>2, <2>1, <1>4, <1>11
  <2>2. CASE ~mayChange
    BY <2>2, <1>4
  <2> QED BY <2>1, <2>2
<1> HIDE DEF caused, mayChange
<1>6. \A x \in modelled : /\ Loose(c, x) /\ (~fresh => NoChange(x) /\ (mayChange => x # <<>>))
                          /\ afresh => OnlyVerifies(x)
  <2> TAKE x \in modelled
  <2>1. PICK plans \in caused : x \in more(plans)
    OBVIOUS
  <2> HIDE DEF modelled
  <2>2. CASE ~asksModel(plans)
    <3>1. x = plans
      BY <2>1, <2>2
    <3> QED BY <3>1, <1>5
  <2>3. CASE asksModel(plans)
    <3>1. PICK m \in answers : x = plans \o At(m, {k \in DOMAIN m : ~Contains(plans, m[k])})
      BY <2>1, <2>3
    <3>2. fresh
      BY <2>3
    <3> DEFINE K == {k \in DOMAIN m : ~Contains(plans, m[k])}
               rest == At(m, K)
    <3>3. Loose(c, rest) /\ \A y \in Range(rest) : \E k \in DOMAIN m \cap K : y = m[k]
      BY AtIsLoose
    <3>4. x = plans \o rest
      BY <3>1
    <3> HIDE DEF rest
    <3>5. Loose(c, plans) /\ plans \in Seq(Plans)
      BY <1>5 DEF Loose
    <3>6. \A i \in DOMAIN plans, j \in DOMAIN rest : plans[i] # rest[j]
      <4> SUFFICES ASSUME NEW i \in DOMAIN plans, NEW j \in DOMAIN rest,
                          plans[i] = rest[j]
                   PROVE  FALSE
        OBVIOUS
      <4>1. rest[j] \in Range(rest)
        BY DEF Range
      <4>2. ~Contains(plans, rest[j])
        BY <3>3, <4>1
      <4>3. i \in 1..Len(plans)
        BY <3>5
      <4> QED BY <4>2, <4>3 DEF Contains
    <3>7. Loose(c, plans \o rest)
      BY <3>3, <3>5, <3>6, ConcatIsLoose
    <3>8. afresh => OnlyVerifies(x)
      <4> SUFFICES ASSUME afresh, NEW k \in DOMAIN (plans \o rest)
                   PROVE  IsVerify((plans \o rest)[k])
        BY <3>4 DEF OnlyVerifies
      <4>1. m = <<>>
        BY DEF Nothing
      <4>2. rest \in Seq(Plans)
        BY <3>3 DEF Loose
      <4>3. \/ k \in DOMAIN plans /\ (plans \o rest)[k] = plans[k]
            \/ \E j \in DOMAIN rest : (plans \o rest)[k] = rest[j]
        BY <3>5, <4>2, ConcatFacts
      <4>4. \A j \in DOMAIN rest : FALSE
        <5> SUFFICES ASSUME NEW j \in DOMAIN rest PROVE FALSE
          OBVIOUS
        <5>1. rest[j] \in Range(rest)
          BY DEF Range
        <5>2. \E i \in DOMAIN m : TRUE
          BY <3>3, <5>1
        <5> QED BY <4>1, <5>2
      <4> QED BY <4>3, <4>4, <1>5 DEF OnlyVerifies
    <3> HIDE DEF afresh
    <3> QED BY <3>2, <3>4, <3>7, <3>8
  <2> QED BY <2>2, <2>3
<1> HIDE DEF modelled, more
<1>7. \A x \in grounded : /\ Loose(c, x) /\ (~fresh => NoChange(x))
                          /\ afresh => OnlyVerifies(x)
  <2> TAKE x \in grounded
  <2>1. CASE mayChange
    <3>1. (x \in modelled /\ x # <<>>) \/ (x \in ExecutionTransition(c) /\ <<>> \in modelled)
      BY <2>1, OrElseFacts
    <3>2. Builder
      BY <2>1 DEF mayChange
    <3>3. x \in ExecutionTransition(c) => Loose(c, x)
      BY <3>2, RulesFacts, SingleFacts
    <3> QED BY <3>1, <3>3, <2>1, <1>6, <1>11
  <2>2. CASE ~mayChange
    BY <2>2, <1>6
  <2> QED BY <2>1, <2>2
<1> HIDE DEF grounded
<1>8. \A x \in free : /\ Loose(c, x) /\ OneMutation(x) /\ Gains(c, x)
                      /\ ~fresh => NoChange(x)
                      /\ afresh => OnlyVerifies(x)
  <2> TAKE x \in free
  <2>1. PICK plans \in grounded : x = SingleMutation(Gaining(c, plans))
    OBVIOUS
  <2> DEFINE y == Gaining(c, plans)
  <2>2. /\ Loose(c, y) /\ Gains(c, y) /\ (~fresh => NoChange(y))
        /\ afresh => OnlyVerifies(y)
    BY <1>7, GainingFacts
  <2> HIDE DEF y
  <2>3. LET t == SingleMutation(y)
        IN  /\ Loose(c, t) /\ OneMutation(t) /\ Gains(c, t)
            /\ NoChange(y) => NoChange(t)
            /\ OnlyVerifies(y) => OnlyVerifies(t)
    BY <2>2, SingleMutationFacts
  <2> QED BY <2>1, <2>2, <2>3 DEF y
<1> HIDE DEF free
<1>9. CASE fresh
  <2>1. IF PendingVerifier(c) THEN first = <<Verification>> ELSE first \in free
    <3>1. first \in OrElse(Barrier(c), free)
      BY <1>1, <1>9
    <3> QED BY <3>1, BarrierFirst
  <2>2. CASE PendingVerifier(c)
    <3>1. OnlyVerifies(<<Verification>>)
      BY VerificationFacts, OneOrTwo DEF OnlyVerifies
    <3> QED BY <2>1, <2>2, <3>1, BarrierIsSound
  <2>3. CASE ~PendingVerifier(c)
    BY <2>1, <2>3, <1>8, LooseIsSound
  <2> QED BY <2>2, <2>3
<1>10. CASE ~fresh
  <2>1. first \in free
    BY <1>1, <1>10
  <2> QED BY <2>1, <1>8, <1>10, LooseIsSound
<1> QED BY <1>9, <1>10

\* What a run may go on with.
LEMMA NextPlansAreSound ==
    ASSUME View \in Seq(LoggedCalls), NEW chosen \in NextPlans
    PROVE  Sound(View, chosen)
<1> DEFINE c == View
           D == IF Closed THEN Nothing ELSE Replanned(c)
           F == OrElse(FailureFollowUps(c), D)
           E == OrElse(EnvironmentRecovery(c), F)
           changes == IF ~Builder THEN Nothing
                      ELSE OrElse(GainingOf(c, ExternalRepair(c, RunCalls, actor.feedback)),
                                  GainingOf(c, RepairTransition(c)))
           OK(x) == Loose(c, x) /\ OneMutation(x) /\ Gains(c, x)
<1>1. IF PendingVerifier(c) THEN chosen = <<Verification>> ELSE chosen \in OpenPlans
  <2>1. chosen \in OrElse(Barrier(View), OpenPlans)
    BY DEF NextPlans
  <2> QED BY <2>1, BarrierFirst
<1>2. OpenPlans = IF Rejected # NoPath THEN Nothing ELSE OrElse(changes, E)
  BY DEF OpenPlans
<1>3. \A x \in Unchanging : OK(x)
  <2> TAKE x \in Unchanging
  <2>1. x \in Single
    BY ReadsAndMutations
  <2>2. Loose(c, x) /\ OneMutation(x) /\ \A k \in DOMAIN x : ~Mutates(x[k])
    BY <2>1, SingleFacts
  <2> QED BY <2>2 DEF Gains, Mutates
<1>4. \A S : S \subseteq Single /\ Builder => \A x \in GainingOf(c, S) : OK(x)
  <2> SUFFICES ASSUME NEW S, S \subseteq Single, Builder, NEW x \in GainingOf(c, S)
               PROVE  OK(x)
    OBVIOUS
  <2>1. PICK y \in S : x = Gaining(c, y)
    BY DEF GainingOf
  <2>2. Loose(c, y) /\ OneMutation(y)
    BY SingleFacts
  <2> QED BY <2>1, <2>2, GainingFacts
<1>5. \A x \in changes : OK(x)
  <2> TAKE x \in changes
  <2>1. CASE ~Builder
    BY <2>1, <1>3, ReadsAndMutations
  <2>2. CASE Builder
    <3> DEFINE A == GainingOf(c, ExternalRepair(c, RunCalls, actor.feedback))
               B == GainingOf(c, RepairTransition(c))
    <3>1. \A y \in A : OK(y)
      BY <2>2, <1>4, RulesFacts
    <3>2. \A y \in B : OK(y)
      BY <2>2, <1>4, RulesFacts
    <3>3. x \in OrElse(A, B)
      BY <2>2
    <3> HIDE DEF A, B, OK
    <3> QED BY <3>1, <3>2, <3>3, OrElseFacts
  <2> QED BY <2>1, <2>2
<1>6. \A x \in D : OK(x)
  <2> DEFINE P == IF RejectedSynthesis(c) # NoPath THEN Nothing
                  ELSE GainingOf(c, ModelPlans(c, actor.kind))
  <2>1. \A x \in P : OK(x)
    <3> TAKE x \in P
    <3>1. CASE RejectedSynthesis(c) # NoPath
      BY <3>1, <1>3, ReadsAndMutations
    <3>2. CASE RejectedSynthesis(c) = NoPath
      <4>1. PICK m \in ModelPlans(c, actor.kind) : x = Gaining(c, m)
        BY <3>2 DEF GainingOf
      <4>2. Loose(c, m) /\ OneMutation(m)
        BY ModelFacts
      <4> QED BY <4>1, <4>2, GainingFacts
    <3> QED BY <3>1, <3>2
  <2> SUFFICES ASSUME NEW x \in D PROVE OK(x)
    OBVIOUS
  <2>2. x \in Nothing \/ x \in Replanned(c)
    OBVIOUS
  <2>3. Replanned(c) = OrElse(Evidence(c), P)
    BY DEF Replanned
  <2> HIDE DEF P, OK, c, D
  <2>4. x \in Replanned(c) => x \in Evidence(c) \/ x \in P
    BY <2>3, OrElseFacts
  <2>5. Evidence(c) \subseteq Unchanging
    BY RulesFacts DEF c
  <2> QED BY <2>1, <2>2, <2>4, <2>5, <1>3, ReadsAndMutations
<1> HIDE DEF D
<1>7. EnvironmentRecovery(c) \subseteq Unchanging /\ FailureFollowUps(c) \subseteq Unchanging
  BY RulesFacts
<1> HIDE DEF c, OK
<1>8. \A x \in F : OK(x)
  <2> TAKE x \in F
  <2> QED BY <1>3, <1>6, <1>7, OrElseFacts
<1> HIDE DEF F
<1>9. \A x \in E : OK(x)
  <2> TAKE x \in E
  <2> QED BY <1>3, <1>7, <1>8, OrElseFacts
<1> HIDE DEF E, changes
<1>10. \A x \in OpenPlans : OK(x)
  <2> TAKE x \in OpenPlans
  <2>1. CASE Rejected # NoPath
    BY <2>1, <1>2, <1>3, ReadsAndMutations
  <2>2. CASE Rejected = NoPath
    <3>1. x \in OrElse(changes, E)
      BY <2>2, <1>2
    <3> QED BY <3>1, <1>5, <1>9, OrElseFacts
  <2> QED BY <2>1, <2>2
<1>11. CASE PendingVerifier(c)
  BY <1>1, <1>11, BarrierIsSound DEF c
<1>12. CASE ~PendingVerifier(c)
  <2>1. OK(chosen)
    BY <1>1, <1>10, <1>12
  <2> QED BY <2>1, <1>12, LooseIsSound DEF OK, c
<1> QED BY <1>11, <1>12

\* Dropping duplicates keeps plans sound.
LEMMA UniqueIsSound ==
    ASSUME NEW c, NEW s, Sound(c, s)
    PROVE  Sound(c, UniquePlans(s))
<1> DEFINE I == {k \in DOMAIN s : s[k] \notin run.seen \/ Invalidated(s[k])}
           t == At(s, I)
<1>1. UniquePlans(s) = t
  BY DEF UniquePlans, Sift, Indices
<1>2. s \in Seq(Plans)
  BY DEF Sound
<1>3. t \in Seq(Plans) /\ Thinned(t, s, I)
  BY <1>2, AtFacts
<1> HIDE DEF t, I
<1>4. PICK place \in [DOMAIN t -> DOMAIN s \cap I] :
           /\ \A k \in DOMAIN t : t[k] = s[place[k]]
           /\ \A j, k \in DOMAIN t : j < k => place[j] < place[k]
  BY <1>3 DEF Thinned
<1>5. \A k \in DOMAIN t : place[k] \in DOMAIN s /\ t[k] = s[place[k]]
  BY <1>4
<1>6. DOMAIN t \subseteq Int /\ DOMAIN s \subseteq Int
  BY <1>2, <1>3
<1>7. \A j, k \in DOMAIN t : place[j] = place[k] => j = k
  <2> SUFFICES ASSUME NEW j \in DOMAIN t, NEW k \in DOMAIN t, place[j] = place[k], j # k
               PROVE  FALSE
    OBVIOUS
  <2>1. j < k \/ k < j
    BY <1>6
  <2>2. place[j] < place[k] \/ place[k] < place[j]
    BY <2>1, <1>4
  <2> QED BY <2>2, <1>5, <1>6
<1>8. OneMutation(t) /\ (Builder => OneVerification(t))
  BY <1>5, <1>7 DEF Sound, OneMutation, OneVerification
<1>9. /\ \A k \in DOMAIN t : Mutates(t[k]) => Tried(c)
      /\ \A k \in DOMAIN t : t[k].tool = "mutate" => Builder /\ ~NoGain(c, t[k].path)
      /\ Builder => \A k \in DOMAIN t : IsVerify(t[k]) => Due(c)
  BY <1>5 DEF Sound
<1> QED BY <1>1, <1>3, <1>8, <1>9 DEF Sound

-----------------------------------------------------------------------------
\* The log, as seen from call i on.
LEMMA FromFacts ==
    ASSUME NEW s \in Seq(LoggedCalls), NEW i \in 0..Len(s)
    PROVE  LET c == SubSeq(s, i + 1, Len(s))
           IN  /\ c \in Seq(LoggedCalls) /\ Len(c) = Len(s) - i /\ DOMAIN c = 1..(Len(s) - i)
               /\ \A k \in 1..(Len(s) - i) : i + k \in DOMAIN s /\ c[k] = s[i + k]
<1> DEFINE n == Len(s)
           c == SubSeq(s, i + 1, n)
<1>1. n \in Nat /\ DOMAIN s = 1..n /\ i \in Nat /\ i <= n
  OBVIOUS
<1>2. \A k \in (i + 1)..n : s[k] \in LoggedCalls
  BY <1>1
<1>3. /\ c \in Seq(LoggedCalls)
      /\ Len(c) = IF i + 1 <= n THEN n - (i + 1) + 1 ELSE 0
      /\ \A k \in 1..(n - (i + 1) + 1) : c[k] = s[i + 1 + k - 1]
  BY <1>1, <1>2, SubSeqProperties
<1> HIDE DEF c
<1>4. Len(c) = n - i
  <2> DEFINE l == Len(c)
  <2>1. l = IF i + 1 <= n THEN n - (i + 1) + 1 ELSE 0
    BY <1>3
  <2> HIDE DEF l, n
  <2>2. l = n - i
    BY <2>1, <1>1
  <2> QED BY <2>2 DEF l
<1>5. ASSUME NEW k \in 1..(n - i) PROVE i + k \in DOMAIN s /\ c[k] = s[i + k]
  <2>1. k \in 1..(n - (i + 1) + 1) /\ i + 1 + k - 1 = i + k /\ i + k \in 1..n
    BY <1>1
  <2>2. c[k] = s[i + 1 + k - 1]
    BY <2>1, <1>3
  <2> QED BY <2>1, <2>2, <1>1
<1>6. DOMAIN c = 1..(n - i)
  BY <1>3, <1>4
<1> QED BY <1>3, <1>4, <1>5, <1>6 DEF c

LEMMA FromStart ==
    ASSUME log \in Seq(LoggedCalls)
    PROVE  From(0) = log
  BY SubSeqFull DEF From

\* Sound plans stand.
LEMMA SoundStands ==
    ASSUME log \in Seq(LoggedCalls), actor.from \in 0..Len(log), actor.pc # "none", Moving,
           NEW plans, NEW view,
           view = 0 \/ (view = actor.from /\ (VerifiedSince(actor.from) \/ NoChange(plans))),
           Sound(From(view), plans), NEW i
    PROVE  Stands(view, i, plans)
<1> DEFINE c == From(view)
           n == Len(log)
<1>1. view \in 0..n /\ n \in Nat /\ DOMAIN log = 1..n /\ actor.from \in Nat
  OBVIOUS
<1>2. /\ c \in Seq(LoggedCalls) /\ DOMAIN c = 1..(n - view)
      /\ \A k \in 1..(n - view) : view + k \in DOMAIN log /\ c[k] = log[view + k]
  BY <1>1, FromFacts DEF From
<1> HIDE DEF c
<1>3. ASSUME NEW j \in DOMAIN log, j > view
      PROVE  j - view \in DOMAIN c /\ c[j - view] = log[j]
  <2>1. j - view \in 1..(n - view) /\ view + (j - view) = j
    BY <1>1, <1>3
  <2> QED BY <2>1, <1>2
<1>4. ASSUME NEW k \in DOMAIN c
      PROVE  view + k \in DOMAIN log /\ c[k] = log[view + k] /\ k \in Nat
  BY <1>1, <1>2
<1>5. ASSUME Tried(c), ~NoChange(plans) PROVE Tried(log)
  <2> SUFFICES ASSUME NEW j \in DOMAIN log, IsMutation(log[j])
               PROVE  \E v \in DOMAIN log : v > j /\ IsVerify(log[v])
    BY DEF Tried
  <2>1. CASE j > view
    <3>1. PICK v \in DOMAIN c : v > j - view /\ IsVerify(c[v])
      BY <2>1, <1>3, <1>5 DEF Tried
    <3>2. view + v \in DOMAIN log /\ IsVerify(log[view + v]) /\ view + v > j
      BY <3>1, <1>1, <1>4
    <3> QED BY <3>2
  <2>2. CASE ~(j > view)
    <3>1. VerifiedSince(actor.from) /\ view = actor.from
      BY <2>2, <1>1, <1>5
    <3>2. PICK v \in DOMAIN log : v > actor.from /\ IsVerify(log[v])
      BY <3>1 DEF VerifiedSince
    <3> QED BY <3>1, <3>2, <2>2, <1>1
  <2> QED BY <2>1, <2>2
<1>6. ASSUME Builder, Due(c) PROVE MovedSince(log, actor.from)
  <2> SUFFICES ASSUME NEW v \in DOMAIN log, v > actor.from, IsVerify(log[v]), ~TimedOut(log[v])
               PROVE  \E w \in DOMAIN log : w > v /\ Moves(log[w])
    BY DEF MovedSince
  <2>1. v > view
    BY <1>1
  <2>2. /\ v - view \in DOMAIN c /\ v - view > 0 /\ v - view \in Nat
        /\ IsVerify(c[v - view]) /\ ~TimedOut(c[v - view])
    BY <2>1, <1>1, <1>3
  <2>3. CASE MovedSince(c, 0)
    <3>1. PICK w \in DOMAIN c : w > v - view /\ Moves(c[w])
      BY <2>2, <2>3 DEF MovedSince
    <3>2. view + w \in DOMAIN log /\ view + w > v /\ Moves(log[view + w])
      BY <3>1, <1>1, <1>4
    <3> QED BY <3>2
  <2>4. CASE LastVerify(c) > 0 /\ TimedOut(c[LastVerify(c)])
    <3> DEFINE l == LastVerify(c)
    <3>1. l \in DOMAIN c /\ IsVerify(c[l]) /\ v - view <= l
      BY <2>2, <2>4, <1>2, LastVerifyFacts
    <3>2. TimedOut(c[l])
      BY <2>4
    <3> HIDE DEF l
    <3>3. l # v - view
      BY <3>2, <2>2
    <3>4. view + l \in DOMAIN log /\ IsVerify(log[view + l]) /\ v < view + l
      BY <3>1, <3>3, <2>2, <1>1, <1>4
    <3>5. PICK w \in DOMAIN log : v < w /\ w < view + l /\ Moves(log[w])
      BY <3>4, <1>6 DEF Moving
    <3> QED BY <3>5
  <2> QED BY <2>3, <2>4, <1>6 DEF Due
<1>7. OneMutation(plans) /\ (Builder => OneVerification(plans))
  BY DEF Sound
<1>8. \A k \in DOMAIN plans : Mutates(plans[k]) => Tried(log)
  BY <1>5 DEF Sound, c, NoChange
<1>9. \A k \in DOMAIN plans : plans[k].tool = "mutate" =>
        Builder /\ Eased(view, i, plans[k].path)
  BY DEF Sound, Eased
<1>10. \A k \in DOMAIN plans : Builder /\ IsVerify(plans[k]) => MovedSince(log, actor.from)
  BY <1>6 DEF Sound, c
<1> QED BY <1>7, <1>8, <1>9, <1>10 DEF Stands

\* What the calls of plans come to.
LEMMA ResultFacts ==
    ASSUME LoopTypeOK, NEW plan \in Plans, NEW r \in Results(plan),
           NEW made, made = [tool |-> plan.tool, path |-> r.path, outcome |-> r.outcome]
    PROVE  /\ made \in LoggedCalls
           /\ plan.tool = "mutate" => made.path = plan.path
<1>1. plan.tool \in Tools /\ plan.path \in LogPaths /\ NoPath \in LogPaths /\ Sources \subseteq LogPaths
  BY DEF Plans, LogPaths, Files
<1>2. CASE plan.tool \in Shell /\ ShellCalls >= ShellLimit
  <2>1. r = Result("refused", NoPath)
    BY <1>2 DEF Results
  <2>2. r.outcome = "refused" /\ r.path = NoPath /\ plan.tool # "mutate"
    BY <2>1, <1>2 DEF Result, Shell
  <2> QED BY <2>2, <1>1 DEF LoggedCalls, Judgements, Graded
<1>3. CASE ~(plan.tool \in Shell /\ ShellCalls >= ShellLimit) /\ IsVerify(plan)
  <2> DEFINE based == {i \in DOMAIN saved : saved[i].based}
             candidate == saved[Min(based)].path
  <2>1. r \in Verdicts
    BY <1>3 DEF Results
  <2>2. /\ r.path \in Sources \cup {NoPath} \/ (based # {} /\ r.path = candidate)
        /\ r.outcome \in {"passed", "missing", "timedout", "graded", "failed",
                          "rolledback", "restored", "kept", "idle", "traded"}
    BY <2>1 DEF Verdicts, Result
  <2>3. based # {} => candidate \in LogPaths
    <3> SUFFICES ASSUME based # {} PROVE saved[Min(based)].path \in LogPaths
      OBVIOUS
    <3>1. saved \in Seq(SavedFiles)
      BY DEF LoopTypeOK
    <3>2. based \subseteq Nat /\ based \subseteq DOMAIN saved
      BY <3>1
    <3> HIDE DEF based
    <3>3. \E x \in based : \A y \in based : x <= y
      BY <3>2, NatMin
    <3> DEFINE m == Min(based)
    <3>4. m \in based
      BY <3>3, Zenon DEF Min
    <3>5. m \in DOMAIN saved
      BY <3>2, <3>4
    <3> HIDE DEF m
    <3>6. saved[m] \in SavedFiles
      BY <3>1, <3>5
    <3>7. saved[m].path \in LogPaths
      BY <3>6 DEF SavedFiles
    <3> QED BY <3>7 DEF m
  <2> HIDE DEF candidate, based
  <2>4. plan.tool = "verify"
    BY <1>3 DEF IsVerify
  <2> QED BY <2>2, <2>3, <2>4, <1>1 DEF LoggedCalls, Judgements, Graded, IsVerify
<1>4. CASE ~(plan.tool \in Shell /\ ShellCalls >= ShellLimit) /\ ~IsVerify(plan)
  <2>1. \E o \in {"applied", "rejected", "ok", "failed"} :
          r = Result(o, plan.path) /\ (o = "rejected" => plan.tool = "mutate")
    <3>1. r \in {Result(o, plan.path) :
                   o \in (CASE plan.tool = "mutate" -> {"applied", "rejected"}
                             [] plan = Command -> {"applied"}
                             [] OTHER -> {"ok"})
                           \cup (IF Faults < MaxLoopFaults THEN {"failed"} ELSE {})}
      BY <1>4 DEF Results
    <3>2. CASE plan.tool = "mutate"
      BY <3>1, <3>2 DEF Command, Plan
    <3>3. CASE plan.tool # "mutate" /\ plan = Command
      BY <3>1, <3>3
    <3>4. CASE plan.tool # "mutate" /\ plan # Command
      BY <3>1, <3>4
    <3> QED BY <3>2, <3>3, <3>4
  <2>2. /\ r.outcome \in {"applied", "rejected", "ok", "failed"} /\ r.path = plan.path
        /\ r.outcome = "rejected" => plan.tool = "mutate"
    BY <2>1 DEF Result
  <2> QED BY <2>2, <1>1 DEF LoggedCalls, Judgements, Graded
<1> QED BY <1>2, <1>3, <1>4

\* A call that finds nothing without gain on a path makes it no such path.
LEMMA NoGainSpreadsNot ==
    ASSUME NEW c \in Seq(LoggedCalls), NEW d \in Seq(LoggedCalls), Len(d) = Len(c) + 1,
           \A k \in 1..Len(c) : d[k] = c[k],
           NEW p, ~Judged(d[Len(d)], p), NoGain(d, p)
    PROVE  NoGain(c, p)
<1> DEFINE R(s) == {i \in DOMAIN s : Fruitless(s[i], p)}
           K(s) == {i \in DOMAIN s : Idled(s[i], p)}
           G(s) == {i \in DOMAIN s : s[i].outcome = "kept" /\ s[i].path # p}
           S(s, f) == {i \in DOMAIN s : s[i].tool = "read" /\ s[i].path = f /\ Succeeded(s[i])}
<1>1. \A s : NoGain(s, p) <=>
        \/ /\ Cardinality(R(s)) >= NoGainLimit
           /\ {i \in G(s) : i > Latest(R(s))} = {}
        \/ /\ Cardinality(R(s)) < NoGainLimit
           /\ Cardinality(K(s)) >= NoGainLimit
           /\ \E f \in {p, Grader} : Latest(S(s, f)) <= Latest(K(s))
  BY DEF NoGain, After, Indices, ReadOf
<1>2. /\ DOMAIN c = 1..Len(c) /\ DOMAIN d = 1..(Len(c) + 1) /\ Len(c) \in Nat
      /\ Len(d) = Len(c) + 1
  OBVIOUS
<1>3. R(c) = R(d) /\ K(c) = K(d)
  BY <1>2 DEF Judged
<1>4. G(c) \subseteq G(d)
  BY <1>2
<1>5. ASSUME NEW f PROVE Latest(S(c, f)) <= Latest(S(d, f)) /\ Latest(S(c, f)) \in Nat
                         /\ Latest(S(d, f)) \in Nat
  <2>1. S(c, f) \subseteq S(d, f) /\ S(c, f) \subseteq 1..Len(c) /\ S(d, f) \subseteq 1..Len(d)
    BY <1>2
  <2> HIDE DEF S
  <2>2. /\ Latest(S(c, f)) \in 0..Len(c)
        /\ S(c, f) = {} => Latest(S(c, f)) = 0
        /\ S(c, f) # {} => Latest(S(c, f)) \in S(c, f)
    BY <2>1, <1>2, LatestFacts
  <2>3. /\ Latest(S(d, f)) \in 0..Len(d)
        /\ \A y \in S(d, f) : y <= Latest(S(d, f))
    BY <2>1, <1>2, LatestFacts
  <2> DEFINE x == Latest(S(c, f))
             y == Latest(S(d, f))
  <2>4. x \in Nat /\ y \in Nat /\ (x = 0 \/ x <= y)
    BY <2>1, <2>2, <2>3, <1>2
  <2> HIDE DEF x, y
  <2>5. x <= y
    BY <2>4
  <2> QED BY <2>4, <2>5 DEF x, y
<1>6. Latest(K(c)) \in Nat
  <2>1. K(c) \subseteq 1..Len(c)
    BY <1>2
  <2> HIDE DEF K
  <2>2. Latest(K(c)) \in 0..Len(c)
    BY <2>1, <1>2, LatestFacts
  <2> QED BY <2>2, <1>2
<1> HIDE DEF R, K, G, S
<1>7. CASE /\ Cardinality(R(d)) >= NoGainLimit
           /\ {i \in G(d) : i > Latest(R(d))} = {}
  BY <1>1, <1>3, <1>4, <1>7
<1>8. CASE /\ Cardinality(R(d)) < NoGainLimit
           /\ Cardinality(K(d)) >= NoGainLimit
           /\ \E f \in {p, Grader} : Latest(S(d, f)) <= Latest(K(d))
  <2>1. PICK f \in {p, Grader} : Latest(S(d, f)) <= Latest(K(d))
    BY <1>8
  <2> DEFINE x == Latest(S(c, f))
             y == Latest(S(d, f))
             z == Latest(K(c))
  <2>2. x \in Nat /\ y \in Nat /\ z \in Nat /\ x <= y /\ y <= z
    BY <2>1, <1>3, <1>5, <1>6
  <2> HIDE DEF x, y, z
  <2>3. x <= z
    BY <2>2
  <2> QED BY <2>3, <1>1, <1>3, <1>8 DEF x, z
<1> QED BY <1>1, <1>7, <1>8

-----------------------------------------------------------------------------
\* What the text of a task suggests.
LEMMA SuggestedFacts ==
    ASSUME NEW s \in Suggested
    PROVE  /\ s \in Seq(Plans)
           /\ \A k \in DOMAIN s : s[k].tool = "mutate" => Builder
           /\ Builder => OneVerification(s)
<1>1. CASE s = <<Verification>>
  <2>1. s \in Seq(Plans) /\ DOMAIN s = {1} /\ s[1] = Verification
    BY <1>1, OneOrTwo, VerificationFacts
  <2> QED BY <2>1, VerificationFacts DEF OneVerification
<1>2. CASE \E a \in TaskReads, b \in TaskCommands : s = a \o b
  <2>1. PICK a \in TaskReads, b \in TaskCommands : s = a \o b
    BY <1>2
  <2>2. /\ a \in Seq(Plans)
        /\ \A k \in DOMAIN a : a[k].tool # "mutate" /\ ~IsVerify(a[k])
    <3>1. a \in Unchanging
      BY ReadsAndMutations DEF TaskReads, LogPaths, Files
    <3> QED BY <3>1, SingleFacts, ReadsAndMutations DEF Mutates
  <2>3. /\ b \in Seq(Plans) /\ DOMAIN b \subseteq {1}
        /\ \A k \in DOMAIN b : b[k].tool # "mutate"
    <3>1. b = <<>> \/ b = <<Verification>>
      BY DEF TaskCommands, Nothing
    <3>2. CASE b = <<>>
      BY <3>2
    <3>3. CASE b = <<Verification>>
      BY <3>3, OneOrTwo, VerificationFacts
    <3> QED BY <3>1, <3>2, <3>3
  <2>4. /\ s \in Seq(Plans) /\ Len(a) \in Nat
        /\ \A k \in DOMAIN s :
             \/ k \in DOMAIN a /\ s[k] = a[k]
             \/ k > Len(a) /\ k - Len(a) \in DOMAIN b /\ s[k] = b[k - Len(a)]
    BY <2>1, <2>2, <2>3, ConcatFacts
  <2>5. \A k \in DOMAIN s : s[k].tool # "mutate"
    BY <2>2, <2>3, <2>4
  <2>6. ASSUME NEW j \in DOMAIN s, NEW k \in DOMAIN s, IsVerify(s[j]), IsVerify(s[k])
        PROVE  j = k
    <3>1. j - Len(a) = 1 /\ k - Len(a) = 1
      BY <2>2, <2>3, <2>4, <2>6
    <3>2. j \in Nat /\ k \in Nat
      BY <2>4
    <3> QED BY <3>1, <3>2, <2>4
  <2> QED BY <2>4, <2>5, <2>6 DEF OneVerification
<1> QED BY <1>1, <1>2 DEF Suggested

\* What an answer may ask for.
LEMMA RequestFacts ==
    ASSUME NEW s \in Requests
    PROVE  /\ s \in Seq(Plans)
           /\ \A k \in DOMAIN s : s[k].tool = "mutate" => Builder
           /\ OneVerification(s)
<1> DEFINE changes == IF Builder THEN {Plan("mutate", p) : p \in Sources} ELSE {}
           callable == {Plan("read", p) : p \in Sources} \cup {Verification, Install, Command}
                        \cup changes
           novel == {plan \in callable : ~Cached(Own, plan)}
<1>1. \A x \in callable : /\ x \in Plans /\ (x.tool = "mutate" => Builder)
                          /\ IsVerify(x) => x = Verification
  <2>1. \A x \in callable : x \in Plans /\ (x.tool = "mutate" => Builder)
    BY DEF Plan, Plans, Verification, Install, Command, Tools, LogPaths, Files, IsVerify
  <2> QED BY <2>1 DEF Plans
<1>2. (\E x \in novel : s = <<x>>) \/ (s \in novel \X novel /\ s[1] # s[2])
  BY DEF Requests
<1>3. novel \subseteq callable
  OBVIOUS
<1> HIDE DEF novel, callable
<1>4. ASSUME NEW x \in novel, s = <<x>>
      PROVE  /\ s \in Seq(Plans)
             /\ \A k \in DOMAIN s : s[k].tool = "mutate" => Builder
             /\ OneVerification(s)
  BY <1>1, <1>3, <1>4 DEF OneVerification
<1>5. ASSUME NEW x \in novel, NEW y \in novel, x # y, s = <<x, y>>
      PROVE  /\ s \in Seq(Plans)
             /\ \A k \in DOMAIN s : s[k].tool = "mutate" => Builder
             /\ OneVerification(s)
  <2>1. x \in Plans /\ y \in Plans
    BY <1>1, <1>3
  <2>2. s \in Seq(Plans) /\ DOMAIN s = {1, 2} /\ s[1] = x /\ s[2] = y
    BY <2>1, <1>5
  <2>3. OneVerification(s)
    BY <2>2, <1>1, <1>3, <1>5 DEF OneVerification
  <2> QED BY <2>2, <2>3, <1>1, <1>3
<1>6. s \in novel \X novel => \E x, y \in novel : s = <<x, y>>
  OBVIOUS
<1> QED BY <1>2, <1>4, <1>5, <1>6

\* Where nothing else happened, plans that stood stand.
LEMMA StandsStay ==
    ASSUME log' = log, actor'.kind = actor.kind, actor'.from = actor.from,
           NEW view, NEW i, NEW plans, Stands(view, i, plans)
    PROVE  Stands(view, i, plans)'
  BY DEF Stands, Eased, Builder, From

\* A step that makes no call leaves what the log says as it is.
LEMMA Unmoved ==
    ASSUME LoopInv, log' = log, actor'.from = actor.from, actor'.kind = actor.kind,
           actor'.pc # "none" => actor.pc # "none"
    PROVE  TriedBeforeTheNext' /\ Moving' /\ Restrained'
  BY DEF LoopInv, TriedBeforeTheNext, Moving, Restrained, Builder

\* A verified workspace was verified.
LEMMA ClosedIsVerified ==
    ASSUME LoopTypeOK, WorkClosed \/ Indices(Own, IsVerify) # {}
    PROVE  VerifiedSince(actor.from)
<1> DEFINE n == Len(log)
           m == Latest(Effective(Own))
           v == LastVerify(Own)
<1>1. log \in Seq(LoggedCalls) /\ n \in Nat /\ actor.from \in 0..n
  BY DEF LoopTypeOK, LoopActors
<1>2. /\ Own \in Seq(LoggedCalls) /\ DOMAIN Own = 1..(n - actor.from)
      /\ \A k \in 1..(n - actor.from) :
           actor.from + k \in DOMAIN log /\ Own[k] = log[actor.from + k]
  BY <1>1, FromFacts DEF Own, From
<1>3. ASSUME NEW k \in DOMAIN Own, IsVerify(Own[k]) PROVE VerifiedSince(actor.from)
  <2>1. /\ actor.from + k \in DOMAIN log /\ IsVerify(log[actor.from + k])
        /\ actor.from + k > actor.from
    BY <1>1, <1>2, <1>3
  <2> QED BY <2>1 DEF VerifiedSince
<1>4. CASE Indices(Own, IsVerify) # {}
  <2>1. PICK k \in DOMAIN Own : IsVerify(Own[k])
    BY <1>4 DEF Indices
  <2> QED BY <2>1, <1>3
<1>5. CASE WorkClosed
  <2>1. m > 0 /\ v > m
    BY <1>5 DEF WorkClosed, LastVerify
  <2>2. m \in Nat
    <3>1. Effective(Own) \subseteq 1..(n - actor.from)
      BY <1>2, EffectiveFacts
    <3>2. n - actor.from \in Nat
      BY <1>1
    <3> QED BY <3>1, <3>2, LatestFacts
  <2>3. v > 0 => v \in DOMAIN Own /\ IsVerify(Own[v])
    BY <1>2, LastVerifyFacts
  <2>4. v \in 0..Len(Own)
    BY <1>2, LastVerifyFacts
  <2> HIDE DEF m, v
  <2>5. v \in DOMAIN Own /\ IsVerify(Own[v])
    BY <2>1, <2>2, <2>3, <2>4, <1>2
  <2> QED BY <2>5, <1>3
<1> QED BY <1>4, <1>5

\* A run that begins with sound plans.
LEMMA StartKeeps ==
    ASSUME LoopInv, actor.pc # "none", NEW plans, NEW view,
           \/ view = 0
           \/ view = actor.from /\ (VerifiedSince(actor.from) \/ (~Builder /\ OnlyVerifies(plans))),
           Sound(From(view), plans), StartRun(view, plans),
           actor' \in LoopActors, actor'.pc = "grounding", actor'.kind = actor.kind,
           actor'.from = actor.from, actor'.recovered => VerifiedSince(actor.from)
    PROVE  LoopInv'
<1>1. /\ log' = log /\ saved' = saved /\ log \in Seq(LoggedCalls) /\ Len(log) \in Nat
      /\ actor.from \in 0..Len(log) /\ view \in Nat /\ Moving
  BY DEF LoopInv, LoopTypeOK, LoopActors, StartRun
<1>2. Stands(view, Len(log), plans) /\ plans \in Seq(Plans)
  <2>1. OnlyVerifies(plans) => NoChange(plans)
    BY DEF OnlyVerifies, NoChange, IsVerify, Mutates
  <2>2. Stands(view, Len(log), plans)
    BY <1>1, <2>1, SoundStands
  <2> QED BY <2>2 DEF Sound
<1>3. /\ run'.view = view /\ run'.from = Len(log) /\ run'.start <= Len(log)
      /\ run'.pc # "planning"
      /\ run'.pc = "executing" =>
           plans # <<>> /\ run'.pending = plans /\ run'.start = Len(log)
      /\ run' \in LoopRuns
  <2>1. CASE plans = <<>>
    <3>1. run' = [NoRun EXCEPT !.pc = "stopped", !.view = view, !.from = Len(log)]
      BY <2>1 DEF StartRun, Stopped
    <3>2. <<>> \in Seq(Plans)
      OBVIOUS
    <3> DEFINE n == Len(log)
    <3>3. n \in Nat /\ 0 <= n
      BY <1>1
    <3>4. run' = [pc |-> "stopped", view |-> view, from |-> n, start |-> 0,
                  pending |-> <<>>, failures |-> 0, rounds |-> 0, seen |-> {}]
      BY <3>1 DEF NoRun
    <3> HIDE DEF n
    <3>5. run' \in LoopRuns
      BY <3>2, <3>3, <3>4, <1>1 DEF LoopRuns
    <3> QED BY <3>3, <3>4, <3>5 DEF n
  <2>2. CASE plans # <<>>
    <3>1. run' = [NoRun EXCEPT !.pc = "executing", !.view = view, !.from = Len(log),
                               !.start = Len(log), !.pending = plans,
                               !.rounds = 1, !.seen = Fingerprints(plans)]
      BY <2>2 DEF StartRun
    <3>2. Fingerprints(plans) \subseteq Plans
      BY <1>2 DEF Fingerprints, Range
    <3> DEFINE n == Len(log)
    <3>3. n \in Nat /\ n <= n
      BY <1>1
    <3>4. run' = [pc |-> "executing", view |-> view, from |-> n, start |-> n,
                  pending |-> plans, failures |-> 0, rounds |-> 1,
                  seen |-> Fingerprints(plans)]
      BY <3>1 DEF NoRun
    <3> HIDE DEF n
    <3>5. run' \in LoopRuns
      BY <3>2, <3>3, <3>4, <1>1, <1>2 DEF LoopRuns
    <3> QED BY <3>3, <3>4, <3>5, <2>2 DEF n
  <2> QED BY <2>1, <2>2
<1>4. LoopTypeOK'
  BY <1>1, <1>3 DEF LoopInv, LoopTypeOK
<1>5. Sight'
  BY <1>1, <1>3 DEF Sight, Builder, VerifiedSince
<1>6. PlansStand'
  <2>1. Stands(view, Len(log), plans)'
    BY <1>1, <1>2, StandsStay
  <2> QED BY <2>1, <1>1, <1>3 DEF PlansStand, Stands, Eased, From
<1>7. TriedBeforeTheNext' /\ Moving' /\ Restrained'
  BY <1>1, Unmoved
<1> QED BY <1>4, <1>5, <1>6, <1>7 DEF LoopInv

\* A run that stops without another call.
LEMMA StopKeeps ==
    ASSUME LoopInv, run.pc # "none", Stop, log' = log, actor' = actor, saved' = saved
    PROVE  LoopInv'
<1>1. run' = [NoRun EXCEPT !.pc = "stopped", !.view = run.view, !.from = run.from]
  BY DEF Stop, Stopped
<1>2. run \in LoopRuns /\ <<>> \in Seq(Plans)
  BY DEF LoopInv, LoopTypeOK
<1>3. run' \in LoopRuns /\ run'.pc = "stopped" /\ run'.from = run.from /\ run'.start = 0
  BY <1>1, <1>2 DEF NoRun, LoopRuns
<1>4. Len(log) \in Nat
  BY DEF LoopInv, LoopTypeOK
<1>5. LoopTypeOK' /\ Sight' /\ PlansStand'
  BY <1>3, <1>4 DEF LoopInv, LoopTypeOK, Sight, PlansStand, Builder, VerifiedSince
<1>6. TriedBeforeTheNext' /\ Moving' /\ Restrained'
  BY Unmoved
<1> QED BY <1>5, <1>6 DEF LoopInv

\* The calls of the run are lost with it.
LEMMA LossKeeps ==
    ASSUME LoopInv, run.pc # "none", log' = SubSeq(log, 1, run.from),
           actor' \in LoopActors, actor'.pc = "failed", actor.pc # "none",
           actor'.kind = actor.kind, actor'.from = actor.from, run' = NoRun, saved' = saved
    PROVE  LoopInv'
<1> DEFINE m == run.from
<1>1. /\ log \in Seq(LoggedCalls) /\ Len(log) \in Nat /\ DOMAIN log = 1..Len(log)
      /\ m \in 0..Len(log) /\ actor.from \in Nat /\ actor.from <= m
  BY DEF LoopInv, LoopTypeOK, LoopRuns, LoopActors
<1>2. /\ log' \in Seq(LoggedCalls) /\ Len(log') = m /\ DOMAIN log' = 1..m
      /\ \A k \in 1..m : k \in DOMAIN log /\ log'[k] = log[k]
  <2>1. \A k \in 1..m : log[k] \in LoggedCalls /\ k \in DOMAIN log
    BY <1>1
  <2>2. /\ log' \in Seq(LoggedCalls) /\ Len(log') = IF 1 <= m THEN m - 1 + 1 ELSE 0
        /\ \A k \in 1..(m - 1 + 1) : log'[k] = log[1 + k - 1]
    BY <2>1, <1>1, SubSeqProperties
  <2> DEFINE l == Len(log')
  <2>3. l = IF 1 <= m THEN m - 1 + 1 ELSE 0
    BY <2>2
  <2>4. DOMAIN log' = 1..l
    BY <2>2
  <2> HIDE DEF l, m
  <2>5. l = m
    BY <2>3, <1>1
  <2>6. \A k \in 1..m : k \in 1..(m - 1 + 1) /\ 1 + k - 1 = k
    BY <1>1
  <2>7. \A k \in 1..m : log'[k] = log[k]
    <3> TAKE k \in 1..m
    <3>1. log'[k] = log[1 + k - 1] /\ 1 + k - 1 = k
      BY <2>2, <2>6
    <3> QED BY <3>1
  <2> QED BY <2>1, <2>2, <2>4, <2>5, <2>7 DEF l
<1> HIDE DEF m
<1>3. LoopTypeOK' /\ Sight' /\ PlansStand'
  <2>1. NoRun \in LoopRuns /\ NoRun.from = 0 /\ NoRun.start = 0 /\ NoRun.pc = "none"
    <3>1. <<>> \in Seq(Plans)
      OBVIOUS
    <3> QED BY <3>1 DEF NoRun, LoopRuns
  <2> QED BY <2>1, <1>1, <1>2 DEF LoopInv, LoopTypeOK, Sight, PlansStand
<1>4. TriedBeforeTheNext'
  <2> SUFFICES ASSUME NEW i \in DOMAIN log', NEW j \in DOMAIN log', IsMutation(log'[i]),
                      IsMutation(log'[j]), i < j
               PROVE  \E v \in i..j : IsVerify(log'[v])
    BY DEF TriedBeforeTheNext, Indices
  <2>1. PICK v \in i..j : IsVerify(log[v])
    BY <1>2 DEF LoopInv, TriedBeforeTheNext, Indices
  <2>2. v \in 1..m
    BY <1>1, <1>2
  <2> QED BY <2>1, <2>2, <1>2
<1>5. Moving'
  <2> SUFFICES ASSUME Builder, NEW i \in DOMAIN log', NEW j \in DOMAIN log',
                      i > actor.from, i < j, IsVerify(log'[i]), IsVerify(log'[j]),
                      ~TimedOut(log'[i])
               PROVE  \E w \in DOMAIN log' : i < w /\ w < j /\ Moves(log'[w])
    BY DEF Moving, Builder
  <2>1. PICK w \in DOMAIN log : i < w /\ w < j /\ Moves(log[w])
    BY <1>2 DEF LoopInv, Moving
  <2>2. w \in 1..m
    BY <2>1, <1>1, <1>2
  <2> QED BY <2>1, <2>2, <1>2
<1>6. Restrained'
  BY <1>2 DEF LoopInv, Restrained, Builder
<1> QED BY <1>3, <1>4, <1>5, <1>6 DEF LoopInv

\* A call is appended to the log.
LEMMA CallFacts ==
    ASSUME LoopTypeOK, Execute, run.pending # <<>>
    PROVE  LET plan == run.pending[1]
               made == log'[Len(log')]
           IN  /\ plan \in Plans /\ run.pending \in Seq(Plans) /\ actor' = actor
               /\ run.pc = "executing"
               /\ log' \in Seq(LoggedCalls) /\ Len(log) \in Nat /\ Len(log') = Len(log) + 1
               /\ DOMAIN log = 1..Len(log) /\ DOMAIN log' = 1..(Len(log) + 1)
               /\ \A k \in 1..Len(log) : log'[k] = log[k]
               /\ made.tool = plan.tool
               /\ plan.tool = "mutate" => made.path = plan.path
               /\ IsMutation(made) => Mutates(plan)
               /\ IsVerify(made) <=> IsVerify(plan)
               /\ saved' \in Seq(SavedFiles)
<1> DEFINE plan == run.pending[1]
<1>1. /\ log \in Seq(LoggedCalls) /\ Len(log) \in Nat /\ DOMAIN log = 1..Len(log)
      /\ run.pending \in Seq(Plans) /\ run.pc = "executing" /\ actor' = actor
      /\ saved \in Seq(SavedFiles)
  BY DEF LoopTypeOK, LoopRuns, Execute
<1>2. plan \in Plans /\ Head(run.pending) = plan
  BY <1>1
<1>3. PICK r \in Results(plan) :
        LET made == [tool |-> plan.tool, path |-> r.path, outcome |-> r.outcome]
        IN  log' = Append(log, made) /\ saved' = SavedAfter(made)
  BY <1>2 DEF Execute
<1> DEFINE made == [tool |-> plan.tool, path |-> r.path, outcome |-> r.outcome]
<1> HIDE DEF plan
<1>4. made \in LoggedCalls /\ (plan.tool = "mutate" => made.path = plan.path)
  BY <1>2, ResultFacts
<1>5. /\ made.tool = plan.tool
      /\ IsMutation(made) => Mutates(plan)
      /\ IsVerify(made) <=> IsVerify(plan)
  BY DEF IsMutation, Mutates, IsVerify
<1>6. log' = Append(log, made) /\ saved' = SavedAfter(made)
  BY <1>3
<1> HIDE DEF made
<1>7. /\ log' \in Seq(LoggedCalls) /\ Len(log') = Len(log) + 1
      /\ DOMAIN log' = 1..(Len(log) + 1) /\ log'[Len(log')] = made
      /\ \A k \in 1..Len(log) : log'[k] = log[k]
  BY <1>1, <1>4, <1>6
<1>8. saved' \in Seq(SavedFiles)
  <2> DEFINE entry == [path |-> made.path, based |-> Indices(View, IsScored) # {}]
  <2>1. saved' \in {<<>>, saved, Append(saved, entry)}
    BY <1>6 DEF SavedAfter
  <2>2. entry \in SavedFiles
    BY <1>4 DEF LoggedCalls, SavedFiles
  <2> HIDE DEF entry
  <2>3. <<>> \in Seq(SavedFiles) /\ Append(saved, entry) \in Seq(SavedFiles)
    BY <2>2, <1>1
  <2> QED BY <2>1, <2>3, <1>1
<1> QED BY <1>1, <1>2, <1>4, <1>5, <1>7, <1>8 DEF plan

\* Where the run goes on to its next call, the rest of its plans waits.
LEMMA CallRun ==
    ASSUME LoopTypeOK, Execute, run.pending # <<>>
    PROVE  /\ run' \in LoopRuns /\ run'.view = run.view /\ run'.from = run.from
           /\ run'.start <= Len(log)
           /\ run'.pc = "executing" =>
                /\ run'.pending = Tail(run.pending) /\ Len(run.pending) # 1
                /\ run'.start = run.start
<1>1. /\ run \in LoopRuns /\ run.pending \in Seq(Plans) /\ run.failures \in Nat
      /\ run.view \in Nat /\ run.from \in Nat /\ run.pc = "executing"
      /\ run.start <= Len(log) /\ 0 <= Len(log)
      /\ Tail(run.pending) \in Seq(Plans) /\ <<>> \in Seq(Plans)
  BY DEF LoopTypeOK, LoopRuns, Execute
<1>2. \/ run' = Stopped(run.view, run.from)
      \/ \E failures \in {0, run.failures + 1} :
           run' = [run EXCEPT !.failures = failures, !.pending = <<>>, !.pc = "planning"]
      \/ /\ Len(run.pending) # 1
         /\ \E failures \in {0, run.failures + 1} :
              run' = [run EXCEPT !.failures = failures, !.pending = Tail(@),
                                 !.pc = "executing"]
  <2>1. PICK r \in Results(Head(run.pending)) :
          LET plan == Head(run.pending)
              made == [tool |-> plan.tool, path |-> r.path, outcome |-> r.outcome]
              failures == IF Succeeded(made) THEN 0 ELSE run.failures + 1
              broken == plan.tool = "install" /\ ~Installed(made)
              over == broken \/ Len(run.pending) = 1
          IN  IF failures >= MaxFailures \/ Len(RunCalls) + 1 >= MaxRunCalls
              THEN Stop
              ELSE run' = [run EXCEPT
                     !.failures = failures,
                     !.pending = IF over THEN <<>> ELSE Tail(@),
                     !.pc = IF over THEN "planning" ELSE "executing"]
    BY DEF Execute
  <2> DEFINE plan == Head(run.pending)
             made == [tool |-> plan.tool, path |-> r.path, outcome |-> r.outcome]
             failures == IF Succeeded(made) THEN 0 ELSE run.failures + 1
             over == (plan.tool = "install" /\ ~Installed(made)) \/ Len(run.pending) = 1
  <2>2. \/ Stop
        \/ run' = [run EXCEPT !.failures = failures,
                              !.pending = IF over THEN <<>> ELSE Tail(@),
                              !.pc = IF over THEN "planning" ELSE "executing"]
    BY <2>1
  <2>3. failures \in {0, run.failures + 1}
    OBVIOUS
  <2>4. ~over => Len(run.pending) # 1
    OBVIOUS
  <2> HIDE DEF failures, over
  <2> QED BY <2>2, <2>3, <2>4 DEF Stop
<1>3. ASSUME run' = Stopped(run.view, run.from)
      PROVE  /\ run' \in LoopRuns /\ run'.view = run.view /\ run'.from = run.from
             /\ run'.start <= Len(log) /\ run'.pc = "stopped"
  BY <1>1, <1>3 DEF Stopped, NoRun, LoopRuns
<1>4. ASSUME NEW failures \in {0, run.failures + 1},
             run' = [run EXCEPT !.failures = failures, !.pending = <<>>, !.pc = "planning"]
      PROVE  /\ run' \in LoopRuns /\ run'.view = run.view /\ run'.from = run.from
             /\ run'.start <= Len(log) /\ run'.pc = "planning"
  <2>1. failures \in Nat
    BY <1>1
  <2> QED BY <2>1, <1>1, <1>4 DEF LoopRuns
<1>5. ASSUME NEW failures \in {0, run.failures + 1},
             run' = [run EXCEPT !.failures = failures, !.pending = Tail(@),
                                !.pc = "executing"]
      PROVE  /\ run' \in LoopRuns /\ run'.view = run.view /\ run'.from = run.from
             /\ run'.start = run.start /\ run'.pending = Tail(run.pending)
  <2>1. failures \in Nat
    BY <1>1
  <2> QED BY <2>1, <1>1, <1>5 DEF LoopRuns
<1> QED BY <1>1, <1>2, <1>3, <1>4, <1>5

\* The plan whose turn it is.
LEMMA FirstPending ==
    ASSUME LoopInv, Execute
    PROVE  /\ LoopTypeOK /\ run.pending # <<>> /\ Stands(run.view, run.start, run.pending)
           /\ run.pending \in Seq(Plans) /\ 1 \in DOMAIN run.pending
           /\ run.view = 0 \/ run.view = actor.from
<1>1. /\ LoopTypeOK /\ run.pc = "executing" /\ run.pending \in Seq(Plans)
      /\ run.pending # <<>> /\ Stands(run.view, run.start, run.pending)
  BY DEF LoopInv, LoopTypeOK, LoopRuns, Execute, PlansStand
<1>2. 1 \in DOMAIN run.pending
  BY <1>1
<1>3. run.view = 0 \/ run.view = actor.from
  BY <1>1 DEF LoopInv, Sight
<1> QED BY <1>1, <1>2, <1>3

\* Unless the call itself finds so, no path becomes one without gain.
LEMMA CallNoGain ==
    ASSUME LoopInv, Execute, NEW view \in 0..Len(log), NEW p, ~NoGain(From(view), p),
           ~Judged(log'[Len(log')], p)
    PROVE  ~NoGain(SubSeq(log', view + 1, Len(log')), p)
<1> DEFINE n == Len(log)
           c == SubSeq(log, view + 1, n)
           d == SubSeq(log', view + 1, n + 1)
<1>1. /\ log \in Seq(LoggedCalls) /\ log' \in Seq(LoggedCalls) /\ n \in Nat /\ Len(log') = n + 1
      /\ \A k \in 1..n : log'[k] = log[k]
  BY FirstPending, CallFacts DEF LoopTypeOK
<1>2. view \in Nat /\ view <= n /\ view \in 0..Len(log')
  BY <1>1
<1>3. /\ c \in Seq(LoggedCalls) /\ Len(c) = n - view
      /\ \A k \in 1..(n - view) : c[k] = log[view + k]
  BY <1>1, FromFacts
<1>4. /\ d \in Seq(LoggedCalls) /\ Len(d) = n + 1 - view
      /\ \A k \in 1..(n + 1 - view) : d[k] = log'[view + k]
  BY <1>1, <1>2, FromFacts
<1>5. c = From(view) /\ d = SubSeq(log', view + 1, Len(log'))
  BY <1>1 DEF From
<1> HIDE DEF c, d, n
<1>6. Len(d) = Len(c) + 1
  BY <1>1, <1>2, <1>3, <1>4
<1>7. ASSUME NEW k \in 1..Len(c) PROVE d[k] = c[k]
  <2>1. k \in 1..(n - view) /\ k \in 1..(n + 1 - view) /\ view + k \in 1..n
    BY <1>1, <1>2, <1>3
  <2> QED BY <2>1, <1>1, <1>3, <1>4
<1>8. ~Judged(d[Len(d)], p)
  <2>1. n + 1 - view \in 1..(n + 1 - view) /\ view + (n + 1 - view) = n + 1
    BY <1>1, <1>2
  <2>2. d[n + 1 - view] = log'[n + 1]
    BY <2>1, <1>4
  <2> QED BY <2>2, <1>1, <1>4
<1>9. NoGain(d, p) => NoGain(c, p)
  BY <1>3, <1>4, <1>6, <1>7, <1>8, NoGainSpreadsNot
<1> QED BY <1>5, <1>9

\* What waits behind a call that is made still stands after it.
LEMMA CallPlans ==
    ASSUME LoopInv, Execute
    PROVE  PlansStand'
<1> DEFINE s == run.pending
           t == Tail(s)
           n == Len(log)
           m == Len(s)
           view == run.view
           i == run.start
<1> SUFFICES ASSUME run'.pc = "executing"
             PROVE  run'.pending # <<>> /\ Stands(run.view, run.start, run.pending)'
  BY DEF PlansStand
<1>1. /\ LoopTypeOK /\ s # <<>> /\ Stands(view, i, s) /\ s \in Seq(Plans) /\ 1 \in DOMAIN s
      /\ view = 0 \/ view = actor.from
  BY FirstPending
<1>2. run'.view = view /\ run'.pending = t /\ m # 1 /\ run'.start = i
  BY <1>1, CallRun
<1>3. /\ m \in Nat /\ DOMAIN s = 1..m /\ m > 1 /\ t # <<>>
      /\ DOMAIN t = 1..(m - 1)
      /\ \A k \in DOMAIN t : t[k] = s[k + 1] /\ k + 1 \in DOMAIN s /\ k \in Nat /\ k > 0
  <2>1. m \in Nat /\ DOMAIN s = 1..m /\ m > 1
    <3>1. m \in Nat /\ DOMAIN s = 1..m
      BY <1>1
    <3> HIDE DEF m
    <3> QED BY <3>1, <1>1, <1>2
  <2>2. Len(t) = m - 1 /\ t \in Seq(Plans) /\ \A k \in 1..(m - 1) : t[k] = s[k + 1]
    BY <1>1, <2>1
  <2>3. DOMAIN t = 1..(m - 1)
    BY <2>2
  <2> HIDE DEF t, s, m
  <2>4. t # <<>>
    BY <2>1, <2>3
  <2> QED BY <2>1, <2>2, <2>3, <2>4
<1>4. /\ actor' = actor /\ n \in Nat /\ DOMAIN log = 1..n /\ DOMAIN log' = 1..(n + 1)
      /\ Len(log') = n + 1 /\ \A k \in 1..n : log'[k] = log[k]
      /\ IsMutation(log'[n + 1]) => Mutates(s[1])
      /\ IsVerify(log'[n + 1]) <=> IsVerify(s[1])
  BY <1>1, CallFacts
<1>5. view \in 0..n /\ actor.from \in Nat /\ i \in Nat /\ i <= n
  BY <1>1, <1>4 DEF LoopTypeOK, LoopActors, LoopRuns
<1> HIDE DEF s, t, n, m, view, i
<1>6. OneMutation(t)
  <2> SUFFICES ASSUME NEW j \in DOMAIN t, NEW k \in DOMAIN t, Mutates(t[j]), Mutates(t[k])
               PROVE  j = k
    BY DEF OneMutation
  <2>1. j + 1 = k + 1
    BY <1>1, <1>3 DEF Stands, OneMutation
  <2> QED BY <2>1, <1>3
<1>7. ASSUME Builder PROVE OneVerification(t)
  <2> SUFFICES ASSUME NEW j \in DOMAIN t, NEW k \in DOMAIN t, IsVerify(t[j]), IsVerify(t[k])
               PROVE  j = k
    BY DEF OneVerification
  <2>1. j + 1 = k + 1
    BY <1>1, <1>3, <1>7 DEF Stands, OneVerification
  <2> QED BY <2>1, <1>3
<1>8. ASSUME NEW k \in DOMAIN t, Mutates(t[k]) PROVE Tried(log')
  <2>1. k + 1 \in DOMAIN s /\ Mutates(s[k + 1]) /\ k + 1 # 1
    BY <1>3, <1>8
  <2>2. ~Mutates(s[1]) /\ Tried(log)
    BY <2>1, <1>1 DEF Stands, OneMutation
  <2> SUFFICES ASSUME NEW j \in DOMAIN log', IsMutation(log'[j])
               PROVE  \E v \in DOMAIN log' : v > j /\ IsVerify(log'[v])
    BY DEF Tried
  <2>3. j \in 1..n /\ IsMutation(log[j])
    BY <2>2, <1>4
  <2>4. PICK v \in DOMAIN log : v > j /\ IsVerify(log[v])
    BY <2>2, <2>3, <1>4 DEF Tried
  <2> QED BY <2>4, <1>4
<1>9. ASSUME NEW k \in DOMAIN t, t[k].tool = "mutate"
      PROVE  LET p == t[k].path
             IN  /\ Builder
                 /\ \/ ~NoGain(SubSeq(log', view + 1, Len(log')), p)
                    \/ \E v \in DOMAIN log' : v > i /\ Judged(log'[v], p)
  <2> DEFINE p == t[k].path
  <2>1. k + 1 \in DOMAIN s /\ t[k] = s[k + 1]
    BY <1>3
  <2>2. Builder /\ Eased(view, i, p)
    BY <2>1, <1>1, <1>9 DEF Stands
  <2> HIDE DEF p
  <2>3. CASE \E v \in DOMAIN log : v > i /\ Judged(log[v], p)
    <3>1. \E v \in DOMAIN log' : v > i /\ Judged(log'[v], p)
      BY <2>3, <1>4
    <3> QED BY <2>2, <3>1 DEF p
  <2>4. CASE Judged(log'[n + 1], p)
    <3>1. \E v \in DOMAIN log' : v > i /\ Judged(log'[v], p)
      BY <2>4, <1>4, <1>5
    <3> QED BY <2>2, <3>1 DEF p
  <2>5. CASE ~NoGain(From(view), p) /\ ~Judged(log'[n + 1], p)
    <3>1. ~Judged(log'[Len(log')], p) /\ view \in 0..Len(log)
      BY <2>5, <1>4, <1>5 DEF n
    <3>2. ~NoGain(SubSeq(log', view + 1, Len(log')), p)
      BY <2>5, <3>1, CallNoGain
    <3> QED BY <2>2, <3>2 DEF p
  <2> QED BY <2>2, <2>3, <2>4, <2>5 DEF Eased
<1>10. ASSUME Builder, NEW k \in DOMAIN t, IsVerify(t[k])
       PROVE  MovedSince(log', actor.from)
  <2>1. k + 1 \in DOMAIN s /\ IsVerify(s[k + 1]) /\ k + 1 # 1
    BY <1>3, <1>10
  <2>2. ~IsVerify(log'[n + 1]) /\ MovedSince(log, actor.from)
    BY <2>1, <1>1, <1>4, <1>10 DEF Stands, OneVerification
  <2> SUFFICES ASSUME NEW v \in DOMAIN log', v > actor.from, IsVerify(log'[v]),
                      ~TimedOut(log'[v])
               PROVE  \E w \in DOMAIN log' : w > v /\ Moves(log'[w])
    BY DEF MovedSince
  <2>3. v \in 1..n /\ IsVerify(log[v]) /\ ~TimedOut(log[v])
    BY <2>2, <1>4
  <2>4. PICK w \in DOMAIN log : w > v /\ Moves(log[w])
    BY <2>2, <2>3, <1>4 DEF MovedSince
  <2> QED BY <2>4, <1>4
<1>11. Stands(run.view, run.start, run.pending)'
  <2>1. Builder' = Builder /\ actor'.from = actor.from
    BY <1>4 DEF Builder
  <2> DEFINE W == run'.view
             U == run'.pending
             I == run'.start
  <2>2. W = view /\ U = t /\ I = i
    BY <1>2
  <2> HIDE DEF W, U, I
  <2>3. /\ OneMutation(U) /\ (Builder => OneVerification(U))
        /\ \A k \in DOMAIN U : Mutates(U[k]) => Tried(log')
        /\ \A k \in DOMAIN U : U[k].tool = "mutate" =>
             /\ Builder
             /\ \/ ~NoGain(SubSeq(log', W + 1, Len(log')), U[k].path)
                \/ \E v \in DOMAIN log' : v > I /\ Judged(log'[v], U[k].path)
        /\ \A k \in DOMAIN U : Builder /\ IsVerify(U[k]) => MovedSince(log', actor.from)
    BY <2>2, <1>6, <1>7, <1>8, <1>9, <1>10
  <2> QED BY <2>1, <2>3 DEF Stands, Eased, From, W, U, I
<1> QED BY <1>2, <1>3, <1>11

\* What a call adds to the log.
LEMMA CallLog ==
    ASSUME LoopInv, Execute
    PROVE  TriedBeforeTheNext' /\ Moving' /\ Restrained'
<1> DEFINE s == run.pending
           n == Len(log)
<1>1. LoopTypeOK /\ s # <<>> /\ Stands(run.view, run.start, s) /\ 1 \in DOMAIN s
  BY FirstPending
<1>2. /\ actor' = actor /\ n \in Nat /\ DOMAIN log = 1..n /\ DOMAIN log' = 1..(n + 1)
      /\ \A k \in 1..n : log'[k] = log[k]
      /\ Len(log') = n + 1
      /\ IsMutation(log'[n + 1]) => Mutates(s[1])
      /\ IsVerify(log'[n + 1]) <=> IsVerify(s[1])
      /\ log'[n + 1].tool = s[1].tool
      /\ run.pc = "executing"
  BY <1>1, CallFacts
<1> HIDE DEF n
<1>3. TriedBeforeTheNext'
  <2> SUFFICES ASSUME NEW i \in DOMAIN log', NEW j \in DOMAIN log', IsMutation(log'[i]),
                      IsMutation(log'[j]), i < j
               PROVE  \E v \in i..j : IsVerify(log'[v])
    BY DEF TriedBeforeTheNext, Indices
  <2>1. i \in 1..n /\ log'[i] = log[i]
    BY <1>2
  <2>2. CASE j \in 1..n
    <3>1. \E v \in i..j : IsVerify(log[v])
      BY <2>1, <2>2, <1>2 DEF LoopInv, TriedBeforeTheNext, Indices
    <3>2. i..j \subseteq 1..n
      BY <2>1, <2>2, <1>2
    <3> QED BY <3>1, <3>2, <1>2
  <2>3. CASE j = n + 1
    <3>1. Tried(log)
      BY <2>3, <1>1, <1>2 DEF Stands
    <3>2. PICK v \in DOMAIN log : v > i /\ IsVerify(log[v])
      BY <3>1, <2>1, <1>2 DEF Tried
    <3>3. v \in i..j /\ IsVerify(log'[v])
      BY <3>2, <2>1, <2>3, <1>2
    <3> QED BY <3>3
  <2> QED BY <2>2, <2>3, <1>2
<1>4. Moving'
  <2> SUFFICES ASSUME actor.pc # "none", Builder,
                      NEW i \in DOMAIN log', NEW j \in DOMAIN log', i > actor.from, i < j,
                      IsVerify(log'[i]), IsVerify(log'[j]), ~TimedOut(log'[i])
               PROVE  \E w \in DOMAIN log' : i < w /\ w < j /\ Moves(log'[w])
    BY <1>2 DEF Moving, Builder
  <2>1. i \in 1..n /\ IsVerify(log[i]) /\ ~TimedOut(log[i])
    BY <1>2
  <2>2. CASE j \in 1..n
    <3>1. PICK w \in DOMAIN log : i < w /\ w < j /\ Moves(log[w])
      BY <2>1, <2>2, <1>2 DEF LoopInv, Moving
    <3> QED BY <3>1, <1>2
  <2>3. CASE j = n + 1
    <3>1. MovedSince(log, actor.from)
      BY <2>3, <1>1, <1>2 DEF Stands
    <3>2. PICK w \in DOMAIN log : w > i /\ Moves(log[w])
      BY <3>1, <2>1, <1>2 DEF MovedSince
    <3> QED BY <3>2, <2>3, <1>2
  <2> QED BY <2>2, <2>3, <1>2
<1>5. Restrained'
  <2> SUFFICES ASSUME actor.pc # "none", ~Builder, NEW i \in DOMAIN log', i > actor.from
               PROVE  log'[i].tool # "mutate"
    BY <1>2 DEF Restrained, Builder
  <2>1. CASE i \in 1..n
    BY <2>1, <1>2 DEF LoopInv, Restrained
  <2>2. CASE i = n + 1
    BY <2>2, <1>1, <1>2 DEF Stands
  <2> QED BY <2>1, <2>2, <1>2
<1> QED BY <1>3, <1>4, <1>5

\* A call keeps the invariant.
LEMMA CallKeeps ==
    ASSUME LoopInv, Execute
    PROVE  LoopInv'
<1>1. LoopTypeOK /\ run.pending # <<>> /\ 1 \in DOMAIN run.pending
  BY FirstPending
<1>2. /\ run' \in LoopRuns /\ run'.view = run.view /\ run'.from = run.from
      /\ run'.start <= Len(log)
      /\ run'.pc = "executing" => run'.pending = Tail(run.pending)
  BY <1>1, CallRun
<1>3. /\ actor' = actor /\ log' \in Seq(LoggedCalls) /\ Len(log) \in Nat
      /\ Len(log') = Len(log) + 1 /\ run.pc = "executing"
      /\ DOMAIN log = 1..Len(log) /\ DOMAIN log' = 1..(Len(log) + 1)
      /\ \A k \in 1..Len(log) : log'[k] = log[k]
      /\ IsVerify(log'[Len(log')]) <=> IsVerify(run.pending[1])
      /\ saved' \in Seq(SavedFiles)
  BY <1>1, CallFacts
<1>4. LoopTypeOK'
  <2>1. /\ actor.from \in Nat /\ actor.from <= Len(log) /\ actor \in LoopActors
        /\ run.from \in Nat /\ run.from <= Len(log) /\ actor.from <= run.from
        /\ run'.start \in Nat /\ actor.pc = "grounding"
    BY <1>1, <1>2, <1>3 DEF LoopTypeOK, LoopActors, LoopRuns
  <2> QED BY <2>1, <1>2, <1>3 DEF LoopTypeOK
<1>5. VerifiedSince(actor.from) => VerifiedSince(actor.from)'
  BY <1>3 DEF VerifiedSince
<1>6. OnlyVerifies(run.pending) => VerifiedSince(actor.from)'
  <2> SUFFICES ASSUME OnlyVerifies(run.pending)
               PROVE  \E v \in DOMAIN log' : v > actor'.from /\ IsVerify(log'[v])
    BY DEF VerifiedSince
  <2>1. IsVerify(log'[Len(log) + 1])
    BY <1>1, <1>3 DEF OnlyVerifies
  <2>2. Len(log) + 1 \in DOMAIN log' /\ Len(log) + 1 > actor'.from
    BY <1>1, <1>3 DEF LoopTypeOK, LoopActors
  <2> QED BY <2>1, <2>2
<1>7. Sight'
  BY <1>2, <1>3, <1>5, <1>6 DEF LoopInv, Sight, Builder
<1> QED BY <1>4, <1>7, CallPlans, CallLog DEF LoopInv

\* At every step of any run of any actor, the plans that wait are ones the rules would
\* let through for the log as it is (runGroundingCheck, AgentToolExecutionLoop.run).
THEOREM LoopInvariance == LoopSpec => []LoopInv
<1>1. LoopInit => LoopInv
  <2> SUFFICES ASSUME LoopInit PROVE LoopInv
    OBVIOUS
  <2>1. /\ <<>> \in Seq(LoggedCalls) /\ <<>> \in Seq(Plans) /\ <<>> \in Seq(SavedFiles)
        /\ Len(<<>>) = 0 /\ DOMAIN <<>> = {}
    OBVIOUS
  <2>2. log = <<>> /\ actor = NoActor /\ run = NoRun /\ saved = <<>>
    BY DEF LoopInit
  <2>3. LoopTypeOK
    BY <2>1, <2>2 DEF LoopTypeOK, LoopActors, LoopRuns, NoActor, NoRun, Kinds
  <2>4. Sight /\ PlansStand /\ Moving /\ Restrained
    BY <2>2 DEF Sight, PlansStand, Moving, Restrained, NoActor, NoRun
  <2>5. TriedBeforeTheNext
    BY <2>1, <2>2 DEF TriedBeforeTheNext, Indices
  <2> QED BY <2>3, <2>4, <2>5 DEF LoopInv
<1>2. LoopInv /\ [LoopNext]_loopVars => LoopInv'
  <2> SUFFICES ASSUME LoopInv, [LoopNext]_loopVars PROVE LoopInv'
    OBVIOUS
  <2>1. /\ log \in Seq(LoggedCalls) /\ Len(log) \in Nat /\ actor \in LoopActors
        /\ actor.from \in 0..Len(log) /\ run \in LoopRuns /\ run.from \in Nat
        /\ run.from <= Len(log) /\ saved \in Seq(SavedFiles)
        /\ run.start \in Nat /\ run.start <= Len(log)
        /\ run.pc # "none" => actor.pc = "grounding" /\ actor.from <= run.from
    BY DEF LoopInv, LoopTypeOK, LoopActors, LoopRuns
  <2>2. Own \in Seq(LoggedCalls) /\ Own = From(actor.from) /\ log = From(0)
    BY <2>1, FromFacts, FromStart DEF Own, From
  <2>14. NoRun \in LoopRuns /\ NoRun.from = 0 /\ NoRun.start = 0 /\ NoRun.pc = "none"
    <3>1. <<>> \in Seq(Plans)
      OBVIOUS
    <3> QED BY <3>1 DEF NoRun, LoopRuns
  <2>3. ASSUME NEW kind \in Kinds, NEW feedback, Hire(kind, feedback) PROVE LoopInv'
    <3>1. /\ log' = log /\ run' = NoRun /\ saved' = saved
          /\ actor' = [pc |-> "working", n |-> actor.n + 1, kind |-> kind,
                       feedback |-> feedback, from |-> Len(log), recovered |-> FALSE]
          /\ feedback \in Sources \cup {NoPath}
      BY <2>3 DEF Hire, Feedbacks
    <3>2. actor' \in LoopActors /\ actor'.from = Len(log)
      BY <2>1, <3>1 DEF LoopActors
    <3>3. LoopTypeOK'
      BY <2>1, <3>1, <3>2, <2>14 DEF LoopTypeOK
    <3>4. Sight' /\ PlansStand'
      BY <3>1, <2>14 DEF Sight, PlansStand
    <3>5. TriedBeforeTheNext'
      BY <3>1 DEF LoopInv, TriedBeforeTheNext
    <3>6. Moving' /\ Restrained'
      <4>1. \A i \in DOMAIN log : ~(i > Len(log))
        BY <2>1
      <4> QED BY <4>1, <3>1, <3>2 DEF Moving, Restrained
    <3> QED BY <3>3, <3>4, <3>5, <3>6 DEF LoopInv
  <2>4. CASE BeginRun
    <3> DEFINE testing(suggested) ==
                 actor.kind = "tester" /\ suggested = <<Verification>>
               asked(suggested) ==
                 IF testing(suggested) THEN Nothing ELSE ModelPlans(log, actor.kind)
    <3>1. PICK suggested \in Suggested :
            \E plans \in FirstPlans(log, suggested, asked(suggested)) : StartRun(0, plans)
      BY <2>4 DEF BeginRun
    <3>2. PICK plans \in FirstPlans(log, suggested, asked(suggested)) : StartRun(0, plans)
      BY <3>1
    <3>3. \A m \in asked(suggested) : Loose(log, m)
      BY <2>1, ModelFacts, EmptyIsLoose DEF Nothing
    <3> HIDE DEF asked
    <3>4. Sound(log, plans)
      BY <2>1, <3>2, <3>3, SuggestedFacts, FirstPlansAreSound
    <3>5. /\ actor.pc = "working" /\ actor' = [actor EXCEPT !.pc = "grounding"]
      BY <2>4 DEF BeginRun
    <3>6. /\ actor' \in LoopActors /\ actor'.pc = "grounding" /\ actor'.kind = actor.kind
          /\ actor'.from = actor.from /\ actor'.recovered = actor.recovered
      BY <2>1, <3>5 DEF LoopActors
    <3>7. actor'.recovered => VerifiedSince(actor.from)
      BY <3>5, <3>6 DEF LoopInv, Sight
    <3> QED BY <2>2, <3>2, <3>4, <3>5, <3>6, <3>7, StartKeeps
  <2>5. CASE Execute
    BY <2>5, CallKeeps
  <2>6. CASE PlanNext
    <3>1. PICK chosen \in NextPlans :
            IF UniquePlans(chosen) = <<>> \/ run.rounds >= MaxRounds THEN Stop
            ELSE run' = [run EXCEPT
                   !.pc = "executing", !.start = Len(log), !.pending = UniquePlans(chosen),
                   !.seen = @ \cup Fingerprints(UniquePlans(chosen)), !.rounds = @ + 1]
      BY <2>6 DEF PlanNext
    <3>2. log' = log /\ actor' = actor /\ saved' = saved /\ run.pc = "planning"
      BY <2>6 DEF PlanNext
    <3> DEFINE unique == UniquePlans(chosen)
    <3>3. CASE Stop
      BY <3>2, <3>3, StopKeeps
    <3>4. CASE /\ unique # <<>>
               /\ run' = [run EXCEPT
                    !.pc = "executing", !.start = Len(log), !.pending = unique,
                    !.seen = @ \cup Fingerprints(unique), !.rounds = @ + 1]
      <4> DEFINE view == run.view
      <4>1. view = 0 \/ (view = actor.from /\ VerifiedSince(actor.from))
        BY <3>2 DEF LoopInv, Sight
      <4>2. View \in Seq(LoggedCalls) /\ View = From(view)
        BY <2>1, <2>2, <4>1 DEF View, Own
      <4>3. Sound(View, unique)
        BY <4>2, NextPlansAreSound, UniqueIsSound
      <4>4. Stands(view, Len(log), unique) /\ unique \in Seq(Plans)
        <5>1. Moving /\ actor.pc # "none"
          BY <2>1, <3>2 DEF LoopInv
        <5> HIDE DEF unique
        <5>2. Stands(view, Len(log), unique)
          BY <2>1, <4>1, <4>2, <4>3, <5>1, SoundStands
        <5> QED BY <5>2, <4>3 DEF Sound
      <4> HIDE DEF unique
      <4>5. Fingerprints(unique) \subseteq Plans
        BY <4>4 DEF Fingerprints, Range
      <4>6. /\ run' \in LoopRuns /\ run'.view = view /\ run'.from = run.from
            /\ run'.pending = unique /\ run'.start = Len(log) /\ run'.pc = "executing"
        <5>1. /\ run.view \in Nat /\ run.rounds \in Nat /\ run.seen \subseteq Plans
              /\ run.rounds + 1 \in Nat /\ run.seen \cup Fingerprints(unique) \subseteq Plans
          BY <2>1, <4>5 DEF LoopRuns
        <5> QED BY <2>1, <3>4, <4>4, <5>1 DEF LoopRuns
      <4>7. LoopTypeOK'
        BY <2>1, <3>2, <4>6 DEF LoopTypeOK
      <4>8. Sight'
        BY <3>2, <4>1, <4>6 DEF LoopInv, Sight, Builder, VerifiedSince
      <4>9. PlansStand'
        <5>1. run'.pending = unique /\ unique # <<>> /\ run'.start = Len(log)
              /\ run'.view = view /\ view = run.view
          BY <3>4, <4>6
        <5>2. Stands(run'.view, run'.start, run'.pending)
          BY <4>4, <5>1
        <5>3. Stands(run.view, run.start, run.pending)'
          BY <5>2, <3>2 DEF Stands, Eased, Builder, From
        <5> QED BY <5>1, <5>3 DEF PlansStand
      <4>10. TriedBeforeTheNext' /\ Moving' /\ Restrained'
        BY <3>2, Unmoved
      <4> QED BY <4>7, <4>8, <4>9, <4>10 DEF LoopInv
    <3> QED BY <3>1, <3>3, <3>4
  <2>7. CASE RunOutOfTime
    BY <2>7, StopKeeps DEF RunOutOfTime
  <2>8. ASSUME log' = log, saved' = saved, run' = NoRun, run.pc # "none",
               \E end \in {"done", "failed"} : actor' = [actor EXCEPT !.pc = end]
        PROVE  LoopInv'
    <3>1. /\ actor' \in LoopActors /\ actor'.kind = actor.kind /\ actor'.from = actor.from
          /\ actor'.pc \notin {"working", "grounding"} /\ actor.pc # "none"
      BY <2>1, <2>8 DEF LoopActors
    <3>2. LoopTypeOK' /\ Sight' /\ PlansStand'
      BY <2>1, <2>8, <2>14, <3>1 DEF LoopTypeOK, Sight, PlansStand
    <3>3. TriedBeforeTheNext' /\ Moving' /\ Restrained'
      BY <2>8, <3>1, Unmoved
    <3> QED BY <3>2, <3>3 DEF LoopInv
  <2>9. CASE FinishActor
    BY <2>8, <2>9 DEF FinishActor, Grounded
  <2>10. CASE Continue
    <3>1. PICK suggested \in Suggested :
               \E plans \in FirstPlans(log, suggested, ModelPlans(log, actor.kind)) :
                 StartRun(0, plans)
      BY <2>10 DEF Continue
    <3>2. PICK plans \in FirstPlans(log, suggested, ModelPlans(log, actor.kind)) :
            StartRun(0, plans)
      BY <3>1
    <3>3. \A m \in ModelPlans(log, actor.kind) : Loose(log, m)
      BY <2>1, ModelFacts
    <3>4. Sound(log, plans)
      BY <2>1, <3>2, <3>3, SuggestedFacts, FirstPlansAreSound
    <3>5. actor' = actor /\ actor.pc = "grounding"
      BY <2>10 DEF Continue, Grounded
    <3>6. actor.recovered => VerifiedSince(actor.from)
      BY <3>5 DEF LoopInv, Sight
    <3> QED BY <2>1, <2>2, <3>2, <3>4, <3>5, <3>6, StartKeeps
  <2>11. CASE VerifyAfresh
    <3>1. PICK plans \in FirstPlans(Own, <<Verification>>, Nothing) :
            StartRun(actor.from, plans)
      BY <2>11 DEF VerifyAfresh
    <3>2. /\ actor.kind = "tester" /\ ~Builder /\ actor' = actor
          /\ actor.pc = "grounding"
      BY <2>11 DEF VerifyAfresh, Grounded, Builder
    <3>3. /\ <<Verification>> \in Seq(Plans) /\ OnlyVerifies(<<Verification>>)
          /\ \A k \in DOMAIN <<Verification>> : <<Verification>>[k].tool # "mutate"
      BY OneOrTwo, VerificationFacts DEF OnlyVerifies
    <3>4. \A m \in Nothing : Loose(Own, m)
      BY EmptyIsLoose DEF Nothing
    <3>5. RejectedSynthesis(Own) = NoPath
      <4>1. \A i \in DOMAIN Own : Own[i].outcome # "rejected"
        <5> TAKE i \in DOMAIN Own
        <5>1. DOMAIN Own = 1..(Len(log) - actor.from)
          BY <2>1, FromFacts DEF Own, From
        <5>2. actor.from + i \in DOMAIN log /\ Own[i] = log[actor.from + i]
          BY <5>1, <2>1, FromFacts DEF Own, From
        <5>3. actor.from + i > actor.from
          BY <5>1, <2>1
        <5>4. log[actor.from + i].tool # "mutate"
          BY <5>2, <5>3, <3>2 DEF LoopInv, Restrained
        <5>5. Own[i] \in LoggedCalls
          BY <2>2
        <5> QED BY <5>2, <5>4, <5>5 DEF LoggedCalls
      <4> DEFINE rejection(x) == x.outcome = "rejected"
                 evidence(x) == IsMutation(x) \/ (Succeeded(x) /\ x.tool \in {"read", "probe"})
      <4>2. Indices(Own, rejection) = {}
        BY <4>1 DEF Indices
      <4>3. Indices(Own, evidence) \subseteq 1..Len(Own) /\ Len(Own) \in Nat
        BY <2>2 DEF Indices
      <4>4. Latest(Indices(Own, evidence)) \in 0..Len(Own)
        BY <4>3, LatestFacts
      <4>5. Latest(Indices(Own, rejection)) = 0
        BY <4>2 DEF Latest
      <4>6. ~(Latest(Indices(Own, rejection)) > Latest(Indices(Own, evidence)))
        BY <4>3, <4>4, <4>5
      <4> QED BY <4>6 DEF RejectedSynthesis
    <3>6. Sound(Own, plans) /\ OnlyVerifies(plans)
      BY <2>2, <3>1, <3>2, <3>3, <3>4, <3>5, FirstPlansAreSound
    <3>7. actor.recovered => VerifiedSince(actor.from)
      BY <3>2 DEF LoopInv, Sight
    <3> QED BY <2>1, <2>2, <3>1, <3>2, <3>6, <3>7, StartKeeps
  <2>12. CASE Recover
    <3>1. PICK requested \in Requests :
               \E plans \in FirstPlans(Own, requested, Nothing) : StartRun(actor.from, plans)
      BY <2>12 DEF Recover
    <3>2. PICK plans \in FirstPlans(Own, requested, Nothing) : StartRun(actor.from, plans)
      BY <3>1
    <3>3. /\ Answering /\ actor.pc = "grounding"
          /\ actor' = [actor EXCEPT !.recovered = TRUE]
      BY <2>12 DEF Recover, Grounded
    <3>4. \A m \in Nothing : Loose(Own, m)
      BY EmptyIsLoose DEF Nothing
    <3>5. Sound(Own, plans)
      BY <2>2, <3>2, <3>4, RequestFacts, FirstPlansAreSound
    <3>6. VerifiedSince(actor.from)
      <4>1. \/ WorkClosed
            \/ actor.recovered
            \/ Indices(Own, IsVerify) # {}
        BY <3>3 DEF Answering
      <4> QED BY <4>1, <3>3, ClosedIsVerified DEF LoopInv, Sight
    <3>7. /\ actor' \in LoopActors /\ actor'.pc = "grounding" /\ actor'.kind = actor.kind
          /\ actor'.from = actor.from
      BY <2>1, <3>3 DEF LoopActors
    <3> QED BY <2>2, <3>2, <3>3, <3>5, <3>6, <3>7, StartKeeps
  <2>13. CASE Fail
    <3>1. /\ actor' = [actor EXCEPT !.pc = "failed"] /\ run' = NoRun /\ saved' = saved
          /\ actor.pc = "grounding" /\ run.pc # "none"
          /\ log' = SubSeq(log, 1, run.from) \/ log' = log
      BY <2>13 DEF Fail, Grounded
    <3>2. /\ actor' \in LoopActors /\ actor'.pc = "failed" /\ actor'.kind = actor.kind
          /\ actor'.from = actor.from
      BY <2>1, <3>1 DEF LoopActors
    <3> QED BY <3>1, <3>2, <2>8, LossKeeps
  <2>15. CASE Throw
    <3>1. /\ actor' = [actor EXCEPT !.pc = "failed"] /\ run' = NoRun /\ saved' = saved
          /\ actor.pc = "grounding" /\ run.pc # "none" /\ log' = SubSeq(log, 1, run.from)
      BY <2>15 DEF Throw
    <3>2. /\ actor' \in LoopActors /\ actor'.pc = "failed" /\ actor'.kind = actor.kind
          /\ actor'.from = actor.from
      BY <2>1, <3>1 DEF LoopActors
    <3> QED BY <3>1, <3>2, LossKeeps
  <2>16. CASE UNCHANGED loopVars
    BY <2>16 DEF loopVars, LoopInv, LoopTypeOK, Sight, Restrained, PlansStand, Stands, Eased,
                 From, Builder, VerifiedSince, TriedBeforeTheNext, Moving
  <2> QED BY <2>3, <2>4, <2>5, <2>6, <2>7, <2>9, <2>10, <2>11, <2>12, <2>13, <2>15, <2>16
          DEF LoopNext
<1> QED BY <1>1, <1>2, PTL DEF LoopSpec

\* Two changes of the workspace never stand for one verification: between any two
\* that are passed on, by whichever actors and in whichever runs they were made and
\* whether a tool or a command made them, the verifier was called
\* (pendingAuthoritativeVerifierPlan before each round, the single mutation of a
\* round, the recovered tool requests).  The calls of a run that threw, and of the
\* last run of a builder that failed, are not passed on and not spoken of.
THEOREM ChangesAreTried == LoopSpec => []TriedBeforeTheNext
<1>1. LoopInv => TriedBeforeTheNext
  BY DEF LoopInv
<1> QED BY <1>1, LoopInvariance, PTL

\* A builder does not run the verifier twice on one workspace, unless the first of the
\* two timed out: over all its runs, those of recovered requests included.
THEOREM BuildersDoNotRepeat == LoopSpec => []NoIdleVerification
<1>1. LoopInv => NoIdleVerification
  <2> DEFINE moved == Indices(Own, IsMutation) \cup Indices(Own, Installed)
  <2> SUFFICES ASSUME LoopInv, actor.pc # "none", Builder,
                      NEW i \in DOMAIN Own, NEW j \in DOMAIN Own,
                      IsVerify(Own[i]), IsVerify(Own[j]), i < j, ~TimedOut(Own[i])
               PROVE  moved \cap i..j # {}
    BY DEF NoIdleVerification, Indices, TimedOut
  <2> DEFINE from == actor.from
             n == Len(log)
  <2>1. log \in Seq(LoggedCalls) /\ n \in Nat /\ from \in 0..n /\ DOMAIN log = 1..n
    BY DEF LoopInv, LoopTypeOK, LoopActors
  <2>2. /\ DOMAIN Own = 1..(n - from)
        /\ \A k \in 1..(n - from) : from + k \in DOMAIN log /\ Own[k] = log[from + k]
    BY <2>1, FromFacts DEF Own, From
  <2>3. /\ from + i \in DOMAIN log /\ from + j \in DOMAIN log
        /\ IsVerify(log[from + i]) /\ IsVerify(log[from + j]) /\ ~TimedOut(log[from + i])
        /\ from + i > from /\ from + i < from + j /\ i \in Nat /\ j \in Nat
    BY <2>1, <2>2
  <2>4. PICK w \in DOMAIN log : from + i < w /\ w < from + j /\ Moves(log[w])
    BY <2>3 DEF LoopInv, Moving
  <2> HIDE DEF from, n
  <2>5. w - from \in 1..(n - from) /\ w - from \in i..j /\ from + (w - from) = w
    BY <2>1, <2>3, <2>4
  <2>6. w - from \in DOMAIN Own /\ Moves(Own[w - from])
    BY <2>2, <2>4, <2>5
  <2>7. w - from \in moved
    BY <2>6 DEF Moves, Indices
  <2> QED BY <2>5, <2>7
<1> QED BY <1>1, LoopInvariance, PTL

\* A path without gain is not changed: what a plan was let through for still holds when
\* its turn comes, or a verification of its round has just judged the path.
THEOREM GainlessPathsRest == LoopSpec => NoGainIsDeferred
<1>1. LoopInv /\ [LoopNext]_loopVars =>
        [Len(log') > Len(log) /\ Last(log').tool = "mutate" =>
           LET p == Last(log').path
               judged(x) == Fruitless(x, p) \/ Idled(x, p)
           IN  \/ ~NoGain(View, p)
               \/ After(run.start, Indices(log, judged)) # {}]_loopVars
  <2> DEFINE path == Last(log').path
             judged(x) == Fruitless(x, path) \/ Idled(x, path)
  <2> SUFFICES ASSUME LoopInv, LoopNext, Len(log') > Len(log), Last(log').tool = "mutate"
               PROVE  ~NoGain(View, path) \/ After(run.start, Indices(log, judged)) # {}
    BY DEF loopVars
  <2>1. log \in Seq(LoggedCalls) /\ Len(log) \in Nat /\ run.from \in 0..Len(log)
    BY DEF LoopInv, LoopTypeOK, LoopRuns
  <2>2. ~(log' = log) /\ ~(log' = SubSeq(log, 1, run.from))
    <3>1. ASSUME log' = SubSeq(log, 1, run.from) PROVE FALSE
      <4> DEFINE m == run.from
      <4>1. \A k \in 1..m : log[k] \in LoggedCalls
        BY <2>1
      <4>2. Len(log') = IF 1 <= m THEN m - 1 + 1 ELSE 0
        BY <3>1, <2>1, <4>1, SubSeqProperties
      <4> QED BY <4>2, <2>1
    <3> QED BY <3>1, <2>1
  <2>3. Execute
    BY <2>2 DEF LoopNext, Hire, BeginRun, PlanNext, RunOutOfTime, FinishActor, Continue,
                VerifyAfresh, Recover, Fail, Throw, StartRun
  <2>4. Stands(run.view, run.start, run.pending) /\ 1 \in DOMAIN run.pending
    BY <2>3, FirstPending
  <2>5. run.pending[1].tool = "mutate" /\ path = run.pending[1].path
    BY <2>3, FirstPending, CallFacts DEF Last
  <2> HIDE DEF path
  <2>6. Eased(run.view, run.start, path)
    BY <2>4, <2>5 DEF Stands
  <2>7. ASSUME NEW v \in DOMAIN log, v > run.start, Judged(log[v], path)
        PROVE  v \in After(run.start, Indices(log, judged))
    BY <2>7 DEF After, Indices, Judged
  <2> QED BY <2>6, <2>7 DEF Eased, View
<1> QED BY <1>1, LoopInvariance, PTL DEF LoopSpec, NoGainIsDeferred
=============================================================================
