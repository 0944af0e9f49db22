----------------------------- MODULE RuntimeQueue -----------------------------
(***************************************************************************)
(* The in-memory message queue of the runtime                              *)
(* (src/src/core/queue/inMemoryQueue.ts): a map of messages, each with a   *)
(* lifecycle status, and the operations that move it.  Every method body   *)
(* of the class runs without an await, so each operation is one step.      *)
(*                                                                         *)
(* The state and the operations are given here as a data type; the modules *)
(* that extend this one (MessageScheduler) say who calls them and when.    *)
(***************************************************************************)
EXTENDS Integers, FiniteSets

CONSTANTS
  Ids,       \* the messages that may ever be enqueued
  Routes,    \* the (recipient, kind) pairs dequeue() can filter on
  Profiles   \* what callers enqueue: records of ProfileType

VARIABLES
  message,   \* the messages map; status "absent" before enqueue()
  enqueued,  \* how many messages were ever enqueued (length of `order')
  clock      \* Date.now(), counted in units of the shortest delay

queueVars == <<message, enqueued, clock>>

-----------------------------------------------------------------------------

PriorityRank == [critical |-> 4, high |-> 3, normal |-> 2, low |-> 1]

Priorities == {"critical", "high", "normal", "low"}

Statuses == {"pending", "processing", "completed", "failed", "cancelled"}

\* An absent availableAt or expiresAt is 0: the code tests both for truth.
ProfileType ==
  [priority : Priorities, route : Routes, maxRetries : Nat,
   availableAt : Nat, expiresAt : Nat]

Message ==
  [status : Statuses \cup {"absent"}, priority : Priorities, route : Routes,
   maxRetries : Nat, retryCount : Nat, availableAt : Nat, expiresAt : Nat,
   createdAt : Nat]

ASSUME QueueAssumption ==
  /\ Routes # {}
  /\ Profiles \subseteq ProfileType

QueueTypeOK ==
  /\ message \in [Ids -> Message]
  /\ enqueued \in Nat
  /\ clock \in Nat

\* The value of an id no message has yet.
Absent ==
  [status |-> "absent", priority |-> "normal",
   route |-> CHOOSE r \in Routes : TRUE, maxRetries |-> 0, retryCount |-> 0,
   availableAt |-> 0, expiresAt |-> 0, createdAt |-> 0]

QueueInit ==
  /\ message = [id \in Ids |-> Absent]
  /\ enqueued = 0
  /\ clock = 0

-----------------------------------------------------------------------------
(* Operations.  Each yields the new value of message, or the set of        *)
(* statuses it accepts: outside that set the method throws.                *)

Has(id, statuses) == message[id].status \in statuses

Moved(id, status) == [message EXCEPT ![id].status = status]

\* createdAt orders messages by (Date.now(), position in `order'): the array
\* is append-only and the sort is stable, so the enqueue count stands for both.
Enqueue(id, p) ==
  /\ Has(id, {"absent"})
  /\ message' = [message EXCEPT ![id] =
       [status |-> "pending", priority |-> p.priority, route |-> p.route,
        maxRetries |-> p.maxRetries, retryCount |-> 0,
        availableAt |-> p.availableAt, expiresAt |-> p.expiresAt,
        createdAt |-> enqueued + 1]]
  /\ enqueued' = enqueued + 1

Expires(id) ==
  /\ message[id].status = "pending"
  /\ message[id].expiresAt # 0
  /\ message[id].expiresAt <= clock

\* expireMessages(): the sweep every dequeue() starts with.
Swept ==
  [id \in Ids |-> IF Expires(id) THEN [message[id] EXCEPT !.status = "failed"]
                  ELSE message[id]]

\* The messages a dequeue() restricted to the given routes may return.
Ready(id, routes) ==
  /\ Swept[id].status = "pending"
  /\ message[id].route \in routes
  /\ message[id].availableAt <= clock

Outranks(a, b) ==
  LET rank(id) == PriorityRank[message[id].priority] IN
  \/ rank(a) > rank(b)
  \/ rank(a) = rank(b) /\ message[a].createdAt < message[b].createdAt

\* The message dequeue() picks: first by priority, then by age.
Picked(id, routes) ==
  /\ Ready(id, routes)
  /\ \A other \in Ids \ {id} : Ready(other, routes) => Outranks(id, other)

\* Fault: the message is handed out but stays pending.
DequeueLeavesPending(id, routes) ==
  /\ Picked(id, routes)
  /\ message' = Swept
  /\ UNCHANGED enqueued

Dequeue(id, routes) ==
  /\ Picked(id, routes)
  /\ message' = [Swept EXCEPT ![id].status = "processing"]
  /\ UNCHANGED enqueued

DequeueNothing(routes) ==
  /\ \A id \in Ids : ~Ready(id, routes)
  /\ message' = Swept
  /\ UNCHANGED enqueued

\* Fault: retry() accepts any status.
RetryFromAnything   == Statuses

AckFrom    == {"processing"}
FailFrom   == {"pending", "processing"}
RetryFrom  == {"processing", "failed"}
CancelFrom == {"pending", "processing"}

Retried(id, availableAt) ==
  [message EXCEPT ![id].status = "pending",
                  ![id].retryCount = @ + 1,
                  ![id].availableAt = availableAt]

-----------------------------------------------------------------------------

\* Time passes only while some pending message still waits for it.
Tick ==
  /\ \E id \in Ids : /\ message[id].status = "pending"
                     /\ \/ message[id].availableAt > clock
                        \/ message[id].expiresAt > clock
  /\ clock' = clock + 1
  /\ UNCHANGED <<message, enqueued>>
=============================================================================
