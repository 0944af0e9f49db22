--------------------------- MODULE ActorLifecycle ---------------------------
(***************************************************************************)
(* The life of derived actors in Runtime.ts: agents and teams are created, *)
(* run, and by a lifecycle decision retained, released or persisted as a   *)
(* snapshot in the workspace, from which they can be restored.  A decision *)
(* cascades to the actor's children.  Every await is a point where other   *)
(* calls get in between; a call is a task, and the nested calls of         *)
(* applyActorLifecycleDecision are the task's frames, at most one for each *)
(* actor.                                                                  *)
(*                                                                         *)
(* Left out: usage archives, budgets, reservations, messages and events of *)
(* these calls, and what an actor does while it runs.                      *)
(***************************************************************************)
EXTENDS FiniteSets, Integers

CONSTANTS
    Ids,            \* actor ids; the id sequence starts again with the process
    Individuals,    \* the actors themselves: two of them may bear one id
    Bearers,        \* id -> individuals that can be created under it
    Tasks,          \* calls that can be under way at a time
    Root, NoId, Nobody,
    Teams,          \* the ids that are teams
    Parent,         \* id -> parentId
    TeamOf,         \* id -> the team it is a member of, or NoId
    Policy,         \* id -> mode, retainOnFailure, cascade
    OneShot,        \* ids of automatic-delegation or evolution origin
    OverlappingRestore,  \* do clients call while a restore is under way?
    SpawnAfterRestart,   \* are actors created after a restart?
    Workers,             \* ids that are given tasks
    Managed,             \* ids whose lifecycle clients set
    MaxRestarts

Actions == {"release", "retain_session", "persist"}

ASSUME NamesAssumption ==
    /\ Root \notin Ids /\ NoId \notin Ids \cup {Root}
    /\ Nobody \notin Individuals
    /\ Bearers \in [Ids -> SUBSET Individuals]
    /\ \A a, b \in Ids : a # b => Bearers[a] \cap Bearers[b] = {}
    /\ Teams \subseteq Ids
    /\ Parent \in [Ids -> (Ids \ Teams) \cup {Root}]
    /\ TeamOf \in [Ids -> Teams \cup {NoId}]
    /\ Policy \in [Ids -> [mode : Actions \cup {"adaptive"},
                           retainOnFailure : BOOLEAN, cascade : BOOLEAN]]
    /\ OneShot \subseteq Ids
    /\ OverlappingRestore \in BOOLEAN /\ SpawnAfterRestart \in BOOLEAN
    /\ Workers \subseteq Ids /\ Managed \subseteq Ids
    /\ MaxRestarts \in Nat

VARIABLES
    live,       \* id -> who is registered under it (AgentManager, TeamRegistry)
    record,     \* id -> lifecycle record
    snapshot,   \* id -> whose snapshot lies under .roy/actors
    run,        \* id -> run under way; "stale" when its actor was removed
    task,       \* task -> what is called
    frame,      \* task -> id -> nested applyActorLifecycleDecision
    used,       \* ids handed out since the process started
    born,       \* individuals ever created
    promised,   \* individuals reported as persisted and not restored since
    restarts

vars == <<live, record, snapshot, run, task, frame, used, born, promised, restarts>>
history == <<used, born, restarts>>

Idle == [call |-> "none", actor |-> NoId, who |-> Nobody, at |-> "start"]
NoRecord == [status |-> "none", oneShot |-> FALSE]
NoFrame == [at |-> "none", action |-> "release", who |-> Nobody, cascade |-> FALSE,
            listed |-> {}, todo |-> {}, awaits |-> NoId]
NoFrames == [a \in Ids |-> NoFrame]

Task == [call : {"none", "spawn", "restore", "decide", "succeed", "fail"},
         actor : Ids \cup {NoId}, who : Individuals \cup {Nobody},
         at : {"start", "preparing", "attaching", "recording", "deleting", "marking"}]
Record == [status : {"none", "active", "retained", "persisted", "released"},
           oneShot : BOOLEAN]
Frame == [at : {"none", "writing", "cascading", "cleaning"},
          action : {"release", "persist"}, who : Individuals \cup {Nobody},
          cascade : BOOLEAN, listed : SUBSET Ids, todo : SUBSET Ids,
          awaits : Ids \cup {NoId}]

Registered(a) == a = Root \/ (a \in Ids /\ live[a] # Nobody)
Gone(a) == record[a].status \in {"released", "persisted"}

\* A restore in progress keeps careful clients from calling anything else.
MayCall(o) ==
    /\ task[o] = Idle
    /\ \/ OverlappingRestore
       \/ \A t \in Tasks : task[t].call # "restore"

Ends(o) == task' = [task EXCEPT ![o] = Idle]

Init ==
    /\ live = [a \in Ids |-> Nobody]
    /\ record = [a \in Ids |-> NoRecord]
    /\ snapshot = [a \in Ids |-> Nobody]
    /\ run = [a \in Ids |-> "none"]
    /\ task = [o \in Tasks |-> Idle]
    /\ frame = [o \in Tasks |-> NoFrames]
    /\ used = {} /\ born = {} /\ promised = {}
    /\ restarts = 0

-----------------------------------------------------------------------------
\* Creation: spawnAgent and spawnTeam, by a client or for a restore.

\* A client's spawn passes the policy check and gets the next id.
BeginSpawn(o, a, who) ==
    /\ MayCall(o)
    /\ a \notin used /\ who \notin born
    /\ Registered(Parent[a])
    /\ TeamOf[a] # NoId => Registered(TeamOf[a])
    /\ live[a] = Nobody
    /\ task' = [task EXCEPT ![o] =
           [call |-> "spawn", actor |-> a, who |-> who, at |-> "preparing"]]
    /\ used' = used \cup {a}
    /\ born' = born \cup {who}
    /\ UNCHANGED <<live, record, snapshot, run, frame, promised, restarts>>

At(o, a, place) == task[o].actor = a /\ task[o].at = place
Moves(o, place) == task' = [task EXCEPT ![o].at = place]

\* The actor enters its registry.  A team's record is written with it, an
\* agent's after the agent is attached to the sessions.
Register(o, a) ==
    /\ At(o, a, "preparing")
    /\ live' = [live EXCEPT ![a] = task[o].who]
    /\ record' = IF a \in Teams
                 THEN [record EXCEPT ![a] =
                           [status |-> "active", oneShot |-> a \in OneShot /\ task[o].call = "spawn"]]
                 ELSE record
    /\ promised' = promised \ {task[o].who}
    /\ Moves(o, IF a \in Teams THEN "recording" ELSE "attaching")
    /\ UNCHANGED <<snapshot, run, frame, history>>

Attached(o, a) ==
    /\ At(o, a, "attaching")
    /\ record' = [record EXCEPT ![a] =
           [status |-> "active", oneShot |-> a \in OneShot /\ task[o].call = "spawn"]]
    /\ Moves(o, "recording")
    /\ UNCHANGED <<live, snapshot, run, frame, promised, history>>

\* Patterns and topology are on disk, the approval is delivered.
Created(o, a) ==
    /\ At(o, a, "recording")
    /\ IF task[o].call = "restore" THEN Moves(o, "deleting") ELSE Ends(o)
    /\ UNCHANGED <<live, record, snapshot, run, frame, promised, history>>

\* A creation fails at an await.  An agent is taken out again but keeps its
\* record; a team keeps its place, failed, without a record.
CreationFails(o, a) ==
    /\ \E place \in {"preparing", "attaching", "recording"} : At(o, a, place)
    /\ IF a \in Teams
       THEN /\ record' = IF task[o].at = "preparing" THEN record
                         ELSE [record EXCEPT ![a] = NoRecord]
            /\ UNCHANGED <<live, run>>
       ELSE /\ live' = [live EXCEPT ![a] = Nobody]
            /\ run' = [run EXCEPT ![a] = IF @ = "running" THEN "stale" ELSE @]
            /\ UNCHANGED record
    /\ promised' = IF task[o].call = "restore" THEN promised \cup {task[o].who} ELSE promised
    /\ Ends(o)
    /\ UNCHANGED <<snapshot, frame, history>>

-----------------------------------------------------------------------------
\* restoreActor.

BeginRestore(o, a) ==
    /\ MayCall(o)
    /\ OverlappingRestore \/ \A t \in Tasks : task[t] = Idle
    /\ live[a] = Nobody
    /\ task' = [task EXCEPT ![o] =
           [call |-> "restore", actor |-> a, who |-> Nobody, at |-> "start"]]
    /\ UNCHANGED <<live, record, snapshot, run, frame, promised, history>>

Restorable(a) == snapshot[a] # Nobody /\ Registered(Parent[a]) /\ live[a] = Nobody

\* Fault: the snapshot is taken away as it is read.
SnapshotTaken(o, a) ==
    /\ task[o].call = "restore" /\ At(o, a, "start")
    /\ Restorable(a)
    /\ task' = [task EXCEPT ![o].who = snapshot[a], ![o].at = "preparing"]
    /\ used' = used \cup {a}
    /\ snapshot' = [snapshot EXCEPT ![a] = Nobody]
    /\ UNCHANGED <<live, record, run, frame, promised, born, restarts>>

\* The snapshot is read and the creation's own checks pass.
SnapshotRead(o, a) ==
    /\ task[o].call = "restore" /\ At(o, a, "start")
    /\ Restorable(a)
    /\ task' = [task EXCEPT ![o].who = snapshot[a], ![o].at = "preparing"]
    /\ used' = used \cup {a}
    /\ UNCHANGED <<live, record, snapshot, run, frame, promised, born, restarts>>

RestoreRefused(o, a) ==
    /\ task[o].call = "restore" /\ At(o, a, "start")
    /\ ~Restorable(a)
    /\ Ends(o)
    /\ UNCHANGED <<live, record, snapshot, run, frame, promised, history>>

DeleteSnapshot(o, a) ==
    /\ At(o, a, "deleting")
    /\ snapshot' = [snapshot EXCEPT ![a] = Nobody]
    /\ Moves(o, "marking")
    /\ UNCHANGED <<live, record, run, frame, promised, history>>

MarkRestored(o, a) ==
    /\ At(o, a, "marking")
    /\ record' = IF record[a].status = "none" THEN record
                 ELSE [record EXCEPT ![a].status = "active"]
    /\ Ends(o)
    /\ UNCHANGED <<live, snapshot, run, frame, promised, history>>

-----------------------------------------------------------------------------
\* Runs of an actor, one at a time.

\* activateActorLifecycle at the start of runAgent and runTeam.
StartRun(a) ==
    /\ a \in Workers
    /\ live[a] # Nobody
    /\ run[a] = "none"
    /\ run' = [run EXCEPT ![a] = "running"]
    /\ record' = IF record[a].status = "none" THEN record
                 ELSE [record EXCEPT ![a].status = "active"]
    /\ UNCHANGED <<live, snapshot, task, frame, promised, history>>

\* The actor is done or failed; what it learnt is being written.
EndRun(o, a, call) ==
    /\ MayCall(o)
    /\ run[a] = "running"
    /\ run' = [run EXCEPT ![a] = "none"]
    /\ task' = [task EXCEPT ![o] =
           [call |-> call, actor |-> a, who |-> Nobody, at |-> "start"]]
    /\ UNCHANGED <<live, record, snapshot, frame, promised, history>>

\* A run whose actor was removed: its next transition throws, in the try block
\* and in the catch block, so no decision follows.
AbandonRun(a) ==
    /\ run[a] = "stale"
    /\ live[a] = Nobody
    /\ run' = [run EXCEPT ![a] = "none"]
    /\ UNCHANGED <<live, record, snapshot, task, frame, promised, history>>

\* Its actor was restored meanwhile: it fails on the new one's state machine.
EndStaleRun(o, a) ==
    /\ MayCall(o)
    /\ run[a] = "stale"
    /\ live[a] # Nobody
    /\ run' = [run EXCEPT ![a] = "none"]
    /\ task' = [task EXCEPT ![o] =
           [call |-> "fail", actor |-> a, who |-> Nobody, at |-> "start"]]
    /\ UNCHANGED <<live, record, snapshot, frame, promised, history>>

-----------------------------------------------------------------------------
\* Decisions.

ResolveAction(a, call) ==
    CASE call = "fail" /\ Policy[a].retainOnFailure -> "retain_session"
      [] ~(call = "fail" /\ Policy[a].retainOnFailure) /\ Policy[a].mode # "adaptive" -> Policy[a].mode
      [] ~(call = "fail" /\ Policy[a].retainOnFailure) /\ Policy[a].mode = "adaptive" ->
            IF record[a].oneShot THEN "release" ELSE "retain_session"

\* What a decision reaches: an agent's live children and teams, a team's members.
Listed(a) ==
    IF a \in Teams THEN {c \in Ids : TeamOf[c] = a}
    ELSE {c \in Ids : Parent[c] = a /\ live[c] # Nobody}

Writing(a, cascade) ==
    [at |-> "writing", action |-> "persist", who |-> live[a], cascade |-> cascade,
     listed |-> {}, todo |-> {}, awaits |-> NoId]
Cascading(a, action, who, cascade) ==
    LET children == IF cascade THEN Listed(a) ELSE {}
    IN  [at |-> "cascading", action |-> action, who |-> who, cascade |-> cascade,
         listed |-> {c \in children : record[c].status \in {"active", "retained"}},
         todo |-> children, awaits |-> NoId]

\* applyActorLifecycleDecision up to its first await.
Begun(a, action, cascade) ==
    IF action = "persist" THEN Writing(a, cascade) ELSE Cascading(a, action, live[a], cascade)

\* The call resolves or rejects, and every decision nested in it.
Settles(o) ==
    /\ Ends(o)
    /\ frame' = [frame EXCEPT ![o] = NoFrames]

\* A decision on a by task o, made and begun.  Retaining needs no await;
\* persisting an actor that is gone throws.
Decide(o, a, action, cascade) ==
    \/ /\ action = "retain_session"
       /\ record' = [record EXCEPT ![a].status = "retained"]
       /\ Ends(o)
       /\ UNCHANGED frame
    \/ /\ action = "persist" /\ live[a] = Nobody
       /\ Settles(o)
       /\ UNCHANGED record
    \/ /\ action = "release" \/ (action = "persist" /\ live[a] # Nobody)
       /\ task' = [task EXCEPT ![o] =
              [call |-> "decide", actor |-> a, who |-> Nobody, at |-> "start"]]
       /\ frame' = [frame EXCEPT ![o][a] = Begun(a, action, cascade)]
       /\ UNCHANGED record

\* setActorLifecycle, for an actor that is registered and not at work.
SetActorLifecycle(o, a, action, cascade) ==
    /\ MayCall(o)
    /\ a \in Managed
    /\ record[a].status # "none"
    /\ live[a] # Nobody /\ run[a] # "running"
    /\ Decide(o, a, action, cascade)
    /\ UNCHANGED <<live, snapshot, run, promised, history>>

\* finalizeActorLifecycle at the end of a run.
Finalize(o, a) ==
    /\ task[o].call \in {"succeed", "fail"} /\ task[o].actor = a
    /\ IF record[a].status = "none"
       THEN Ends(o) /\ UNCHANGED <<record, frame>>
       ELSE Decide(o, a, ResolveAction(a, task[o].call), Policy[a].cascade)
    /\ UNCHANGED <<live, snapshot, run, promised, history>>

\* The snapshot is on disk; only now the children are looked up.
WriteSnapshot(o, a) ==
    LET f == frame[o][a] IN
    /\ f.at = "writing"
    /\ snapshot' = [snapshot EXCEPT ![a] = f.who]
    /\ frame' = [frame EXCEPT ![o][a] = Cascading(a, "persist", f.who, f.cascade)]
    /\ UNCHANGED <<live, record, run, task, promised, history>>

WriteFails(o, a) ==
    /\ frame[o][a].at = "writing"
    /\ Settles(o)
    /\ UNCHANGED <<live, record, snapshot, run, promised, history>>

\* The children one after the other.
Proceeding(o, a) == frame[o][a].at = "cascading" /\ frame[o][a].awaits = NoId

\* Fault: retained children are left alone.
SkipUnlessActive(o, a, c) ==
    /\ Proceeding(o, a) /\ c \in frame[o][a].todo
    /\ record[c].status # "active"
    /\ frame' = [frame EXCEPT ![o][a].todo = @ \ {c}]
    /\ UNCHANGED <<live, record, snapshot, run, task, promised, history>>

SkipChild(o, a, c) ==
    /\ Proceeding(o, a) /\ c \in frame[o][a].todo
    /\ record[c].status = "none" \/ Gone(c)
    /\ frame' = [frame EXCEPT ![o][a].todo = @ \ {c}]
    /\ UNCHANGED <<live, record, snapshot, run, task, promised, history>>

\* A team is persisted without its members.
ActionFor(a, action) == IF a \in Teams THEN "release" ELSE action

DecideChild(o, a, c) ==
    LET action == ActionFor(a, frame[o][a].action) IN
    /\ Proceeding(o, a) /\ c \in frame[o][a].todo
    /\ record[c].status # "none" /\ ~Gone(c)
    /\ IF action = "persist" /\ live[c] = Nobody
       THEN Settles(o)
       ELSE /\ frame' = [frame EXCEPT ![o][a].todo = @ \ {c},
                                      ![o][a].awaits = c,
                                      ![o][c] = Begun(c, action, TRUE)]
            /\ UNCHANGED task
    /\ UNCHANGED <<live, record, snapshot, run, promised, history>>

\* The decision on a is over; those who await it go on.
Resumes(o, a, callers) ==
    /\ frame' = [frame EXCEPT ![o] = [b \in Ids |->
           IF b = a THEN NoFrame
           ELSE IF b \in callers THEN [frame[o][b] EXCEPT !.awaits = NoId]
           ELSE frame[o][b]]]
    /\ UNCHANGED task

\* markApplied, and back to the decision that awaits this one, if any.
Applied(o, a) ==
    LET f == frame[o][a]
        callers == {b \in Ids : frame[o][b].awaits = a}
    IN  IF record[a].status = "none"
        THEN Settles(o) /\ UNCHANGED <<record, promised>>
        ELSE /\ record' = [record EXCEPT ![a].status =
                    IF f.action = "release" THEN "released" ELSE "persisted"]
             /\ promised' = IF f.action = "persist" THEN promised \cup {f.who} ELSE promised
             /\ IF callers = {} THEN Settles(o) ELSE Resumes(o, a, callers)

\* Fault: an actor at work is left in its registry.
RemovedWhenIdle(a) ==
    /\ live' = [live EXCEPT ![a] = IF run[a] = "running" THEN @ ELSE Nobody]
    /\ UNCHANGED run

Removed(a) ==
    /\ live' = [live EXCEPT ![a] = Nobody]
    /\ run' = [run EXCEPT ![a] = IF @ = "running" THEN "stale" ELSE @]

\* releaseAgentRuntime awaits the agent's cleanup.
CleanUp(o, a) ==
    /\ Proceeding(o, a) /\ frame[o][a].todo = {}
    /\ a \notin Teams /\ live[a] # Nobody
    /\ frame' = [frame EXCEPT ![o][a].at = "cleaning"]
    /\ UNCHANGED <<live, record, snapshot, run, task, promised, history>>

\* The actor leaves its registry: an agent that was cleaned up, a team or an
\* agent that is gone already at once.
Release(o, a) ==
    /\ Removed(a)
    /\ Applied(o, a)
    /\ UNCHANGED <<snapshot, history>>

ReleaseAgent(o, a) == frame[o][a].at = "cleaning" /\ Release(o, a)

ReleaseAtOnce(o, a) ==
    /\ Proceeding(o, a) /\ frame[o][a].todo = {}
    /\ a \in Teams \/ live[a] = Nobody
    /\ Release(o, a)

-----------------------------------------------------------------------------
\* The process ends at any point and starts again on the same workspace.
Restart ==
    /\ restarts < MaxRestarts
    /\ restarts' = restarts + 1
    /\ live' = [a \in Ids |-> Nobody]
    /\ record' = [a \in Ids |-> NoRecord]
    /\ run' = [a \in Ids |-> "none"]
    /\ task' = [o \in Tasks |-> Idle]
    /\ frame' = [o \in Tasks |-> NoFrames]
    /\ used' = IF SpawnAfterRestart THEN {} ELSE Ids
    /\ UNCHANGED <<snapshot, born, promised>>

Begin(o, a) ==
    \/ \E who \in Bearers[a] : BeginSpawn(o, a, who)
    \/ BeginRestore(o, a)
    \/ \E call \in {"succeed", "fail"} : EndRun(o, a, call)
    \/ EndStaleRun(o, a)
    \/ \E action \in Actions, cascade \in BOOLEAN : SetActorLifecycle(o, a, action, cascade)

Resume(o, a) ==
    \/ Register(o, a) \/ Attached(o, a) \/ Created(o, a)
    \/ SnapshotRead(o, a) \/ RestoreRefused(o, a) \/ DeleteSnapshot(o, a) \/ MarkRestored(o, a)
    \/ Finalize(o, a)
    \/ WriteSnapshot(o, a)
    \/ ReleaseAgent(o, a)

\* Between two awaits a cascade runs on without giving way.
Proceed(o, a) ==
    \/ \E c \in Ids : SkipChild(o, a, c) \/ DecideChild(o, a, c)
    \/ CleanUp(o, a) \/ ReleaseAtOnce(o, a)

AllAwait == \A o \in Tasks, a \in Ids : ~Proceeding(o, a)

Continue(o, a) == Proceed(o, a) \/ (AllAwait /\ Resume(o, a))

Next ==
    \/ \E o \in Tasks, a \in Ids : Continue(o, a)
    \/ /\ AllAwait
       /\ \/ \E o \in Tasks, a \in Ids : Begin(o, a) \/ CreationFails(o, a) \/ WriteFails(o, a)
          \/ \E a \in Ids : StartRun(a) \/ AbandonRun(a)
    \/ Restart

Spec == Init /\ [][Next]_vars

-----------------------------------------------------------------------------
TypeOK ==
    /\ live \in [Ids -> Individuals \cup {Nobody}]
    /\ record \in [Ids -> Record]
    /\ snapshot \in [Ids -> Individuals \cup {Nobody}]
    /\ run \in [Ids -> {"none", "running", "stale"}]
    /\ task \in [Tasks -> Task]
    /\ frame \in [Tasks -> [Ids -> Frame]]
    /\ used \subseteq Ids
    /\ born \subseteq Individuals
    /\ promised \subseteq Individuals
    /\ restarts \in Nat

Creating(a) == \E o \in Tasks : task[o].actor = a /\ task[o].call \in {"spawn", "restore"}

\* An actor whose record says released or persisted is not registered, whatever
\* runs and decisions overlapped: it takes no task and is in nobody's way.
GoneMeansGone == \A a \in Ids : Gone(a) /\ ~Creating(a) => live[a] = Nobody

\* An actor that was reported as persisted and not restored since is on disk,
\* through failures of other calls and restarts of the process.
NobodyIsLost == \A who \in promised : \E a \in Ids : snapshot[a] = who

\* When a cascading decision comes to remove an agent, none of the children it
\* had to decide is registered any more, unless its creation failed meanwhile.
CascadeIsThorough ==
    \A o \in Tasks, a \in Ids : frame[o][a].at = "cleaning" =>
        \A c \in frame[o][a].listed : record[c].status = "none" \/ live[c] = Nobody

\* A cascade cannot come to wait for itself: some decision of the call is not
\* waiting for another, and none waits for one that is over.
NoDecisionWaitsInVain ==
    \A o \in Tasks :
        /\ task[o].call = "decide" =>
               \E a \in Ids : frame[o][a].at # "none" /\ frame[o][a].awaits = NoId
        /\ \A a \in Ids : frame[o][a].awaits # NoId => frame[o][frame[o][a].awaits].at # "none"
=============================================================================
