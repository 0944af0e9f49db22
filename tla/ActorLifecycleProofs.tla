------------------------ MODULE ActorLifecycleProofs ------------------------
(***************************************************************************)
(* Proofs about ActorLifecycle.                                            *)
(***************************************************************************)
EXTENDS ActorLifecycle, TLAPS

LEMMA IdsFacts ==
    /\ NoId \notin Ids /\ Root \notin Ids /\ Nobody \notin Individuals
    /\ Idle \in Task /\ NoFrames \in [Ids -> Frame] /\ NoRecord \in Record
BY NamesAssumption DEF Idle, Task, NoFrames, NoFrame, Frame, NoRecord, Record

LEMMA TypesSpawn ==
    ASSUME TypeOK, NEW o \in Tasks, NEW a \in Ids, NEW who \in Bearers[a], BeginSpawn(o, a, who)
    PROVE  TypeOK'
BY NamesAssumption DEF TypeOK, BeginSpawn, Task

\* What the state of a call says about it.  A creation is under way only in a
\* spawn or a restore, decisions only in a call that decides, and whoever is
\* created or persisted is somebody.
Shape ==
    /\ \A o \in Tasks :
          /\ task[o].at # "start" => task[o].call \in {"spawn", "restore"} /\ task[o].who # Nobody
          /\ task[o].at \in {"deleting", "marking"} => task[o].call = "restore"
          /\ task[o].call = "none" => task[o] = Idle
    /\ \A o \in Tasks, a \in Ids :
          /\ frame[o][a].at # "none" => task[o].call = "decide"
          /\ frame[o][a].at # "none" /\ frame[o][a].action = "persist" => frame[o][a].who # Nobody
          /\ frame[o][a].at = "writing" => frame[o][a].action = "persist"

LEMMA MovesTask ==
    ASSUME TypeOK, NEW o \in Tasks,
           NEW place \in {"start", "preparing", "attaching", "recording", "deleting", "marking"},
           Moves(o, place) \/ Ends(o)
    PROVE  task' \in [Tasks -> Task]
<1>1. CASE Moves(o, place)
  <2>1. [task[o] EXCEPT !.at = place] \in Task
    <3>1. task[o] \in Task
      BY DEF TypeOK
    <3> QED BY <3>1 DEF Task
  <2> QED BY <1>1, <2>1 DEF TypeOK, Moves
<1>2. CASE Ends(o)
  BY <1>2, IdsFacts DEF TypeOK, Ends
<1> QED BY <1>1, <1>2

LEMMA TypesCreation ==
    ASSUME TypeOK, Shape, NEW o \in Tasks, NEW a \in Ids,
           \/ Register(o, a) \/ Attached(o, a) \/ Created(o, a) \/ CreationFails(o, a)
    PROVE  TypeOK'
<1> \A b \in BOOLEAN : [status |-> "active", oneShot |-> b] \in Record
  BY DEF Record
<1> /\ task[o] \in Task /\ task[o].who \in Individuals \cup {Nobody}
    /\ (a \in OneShot /\ task[o].call = "spawn") \in BOOLEAN
  BY DEF TypeOK, Task
<1>1. CASE Register(o, a)
  <2>1. record' \in [Ids -> Record]
    BY <1>1 DEF TypeOK, Register
  <2>2. task' \in [Tasks -> Task]
    BY <1>1, MovesTask DEF Register
  <2> QED BY <1>1, <2>1, <2>2 DEF TypeOK, Register, history
<1>2. CASE Attached(o, a)
  <2>1. record' \in [Ids -> Record]
    BY <1>2 DEF TypeOK, Attached
  <2>2. task' \in [Tasks -> Task]
    BY <1>2, MovesTask DEF Attached
  <2> QED BY <1>2, <2>1, <2>2 DEF TypeOK, Attached, history
<1>3. CASE Created(o, a)
  BY <1>3, MovesTask DEF TypeOK, Created, history
<1>4. CASE CreationFails(o, a)
  <2>1. record' \in [Ids -> Record]
    BY <1>4, IdsFacts DEF TypeOK, CreationFails
  <2>2. live' \in [Ids -> Individuals \cup {Nobody}] /\ run' \in [Ids -> {"none", "running", "stale"}]
    BY <1>4 DEF TypeOK, CreationFails
  <2>3. task[o].who # Nobody
    BY <1>4 DEF CreationFails, At, Shape
  <2> QED BY <1>4, <2>1, <2>2, <2>3, MovesTask DEF TypeOK, CreationFails, history
<1> QED BY <1>1, <1>2, <1>3, <1>4

LEMMA TypesRestore ==
    ASSUME TypeOK, NEW o \in Tasks, NEW a \in Ids,
           \/ BeginRestore(o, a) \/ SnapshotRead(o, a) \/ RestoreRefused(o, a)
           \/ DeleteSnapshot(o, a) \/ MarkRestored(o, a)
    PROVE  TypeOK'
<1>1. CASE BeginRestore(o, a)
  BY <1>1 DEF TypeOK, BeginRestore, Task, history
<1>2. CASE SnapshotRead(o, a)
  <2>1. task[o].actor = a /\ snapshot[a] \in Individuals \cup {Nobody} /\ task[o] \in Task
    BY <1>2 DEF TypeOK, SnapshotRead, At
  <2>2. [task[o] EXCEPT !.who = snapshot[a], !.at = "preparing"] \in Task
    BY <2>1 DEF Task
  <2>3. task' \in [Tasks -> Task]
    BY <1>2, <2>2 DEF TypeOK, SnapshotRead
  <2> QED BY <1>2, <2>3 DEF TypeOK, SnapshotRead
<1>3. CASE RestoreRefused(o, a)
  BY <1>3, IdsFacts DEF TypeOK, RestoreRefused, Ends, history
<1>4. CASE DeleteSnapshot(o, a)
  BY <1>4 DEF TypeOK, DeleteSnapshot, Moves, Task, history
<1>5. CASE MarkRestored(o, a)
  BY <1>5, IdsFacts DEF TypeOK, MarkRestored, Ends, Record, history
<1> QED BY <1>1, <1>2, <1>3, <1>4, <1>5

LEMMA TypesRuns ==
    ASSUME TypeOK, NEW o \in Tasks, NEW a \in Ids, NEW call \in {"succeed", "fail"},
           StartRun(a) \/ EndRun(o, a, call) \/ AbandonRun(a) \/ EndStaleRun(o, a)
    PROVE  TypeOK'
<1>1. CASE StartRun(a)
  BY <1>1 DEF TypeOK, StartRun, Record, history
<1>2. CASE EndRun(o, a, call)
  BY <1>2 DEF TypeOK, EndRun, Task, history
<1>3. CASE AbandonRun(a)
  BY <1>3 DEF TypeOK, AbandonRun, history
<1>4. CASE EndStaleRun(o, a)
  BY <1>4 DEF TypeOK, EndStaleRun, Task, history
<1> QED BY <1>1, <1>2, <1>3, <1>4

LEMMA BegunIsFrame ==
    ASSUME TypeOK, NEW a \in Ids, NEW action \in {"release", "persist"}, NEW cascade \in BOOLEAN
    PROVE  /\ Begun(a, action, cascade) \in Frame
           /\ \A who \in Individuals \cup {Nobody} : Cascading(a, action, who, cascade) \in Frame
<1>1. Listed(a) \subseteq Ids
  BY DEF Listed
<1> QED BY <1>1 DEF TypeOK, Begun, Writing, Cascading, Frame

LEMMA TypesDecide ==
    ASSUME TypeOK, NEW o \in Tasks, NEW a \in Ids, NEW action \in Actions, NEW cascade \in BOOLEAN,
           Decide(o, a, action, cascade)
    PROVE  /\ task' \in [Tasks -> Task] /\ frame' \in [Tasks -> [Ids -> Frame]]
           /\ record' \in [Ids -> Record]
<1>1. CASE action = "retain_session"
  <2>1. [record[a] EXCEPT !.status = "retained"] \in Record
    BY DEF TypeOK, Record
  <2>2. UNCHANGED frame /\ Ends(o) /\ record' = [record EXCEPT ![a].status = "retained"]
    BY <1>1 DEF Decide, Settles, Begun
  <2>4. record' \in [Ids -> Record]
    BY <2>1, <2>2 DEF TypeOK
  <2>3. task' \in [Tasks -> Task]
    BY <2>2, MovesTask
  <2> QED BY <2>2, <2>3, <2>4 DEF TypeOK
<1>2. CASE action = "persist" /\ live[a] = Nobody
  BY <1>2, IdsFacts, MovesTask DEF TypeOK, Decide, Settles
<1>3. CASE action = "release" \/ (action = "persist" /\ live[a] # Nobody)
  <2>1. Begun(a, action, cascade) \in Frame
    BY <1>3, BegunIsFrame
  <2>2. [call |-> "decide", actor |-> a, who |-> Nobody, at |-> "start"] \in Task
    BY DEF Task
  <2>3. /\ task' = [task EXCEPT ![o] = [call |-> "decide", actor |-> a, who |-> Nobody, at |-> "start"]]
        /\ frame' = [frame EXCEPT ![o][a] = Begun(a, action, cascade)]
        /\ UNCHANGED record
    BY <1>3 DEF Decide
  <2> QED BY <2>1, <2>2, <2>3 DEF TypeOK
<1> QED BY <1>1, <1>2, <1>3 DEF Actions

LEMMA TypesDecisions ==
    ASSUME TypeOK, NEW o \in Tasks, NEW a \in Ids, NEW action \in Actions, NEW cascade \in BOOLEAN,
           SetActorLifecycle(o, a, action, cascade) \/ Finalize(o, a)
    PROVE  TypeOK'
<1>1. CASE SetActorLifecycle(o, a, action, cascade)
  BY <1>1, TypesDecide DEF TypeOK, SetActorLifecycle, history
<1>2. CASE Finalize(o, a)
  <2>1. Policy[a].cascade \in BOOLEAN
    BY NamesAssumption
  <2>2. \A call \in {"succeed", "fail"} : ResolveAction(a, call) \in Actions
    BY NamesAssumption DEF ResolveAction, Actions
  <2> QED BY <1>2, <2>1, <2>2, TypesDecide, MovesTask DEF TypeOK, Finalize, history
<1> QED BY <1>1, <1>2

LEMMA TypesSettles ==
    ASSUME TypeOK, NEW o \in Tasks, Settles(o)
    PROVE  task' \in [Tasks -> Task] /\ frame' \in [Tasks -> [Ids -> Frame]]
BY IdsFacts, MovesTask DEF TypeOK, Settles

LEMMA TypesSnapshot ==
    ASSUME TypeOK, NEW o \in Tasks, NEW a \in Ids, WriteSnapshot(o, a) \/ WriteFails(o, a)
    PROVE  TypeOK'
<1>1. CASE WriteSnapshot(o, a)
  <2>1. frame[o][a] \in Frame
    BY DEF TypeOK
  <2>2. frame[o][a].who \in Individuals \cup {Nobody} /\ frame[o][a].cascade \in BOOLEAN
    BY <2>1 DEF Frame
  <2>3. Cascading(a, "persist", frame[o][a].who, frame[o][a].cascade) \in Frame
    BY <2>2, BegunIsFrame
  <2>4. frame' \in [Tasks -> [Ids -> Frame]]
    BY <1>1, <2>3 DEF TypeOK, WriteSnapshot
  <2> QED BY <1>1, <2>2, <2>4 DEF TypeOK, WriteSnapshot, history
<1>2. CASE WriteFails(o, a)
  BY <1>2, TypesSettles DEF TypeOK, WriteFails, history
<1> QED BY <1>1, <1>2

LEMMA TypesCascade ==
    ASSUME TypeOK, NEW o \in Tasks, NEW a \in Ids, NEW c \in Ids,
           SkipChild(o, a, c) \/ DecideChild(o, a, c) \/ CleanUp(o, a)
    PROVE  TypeOK'
<1>1. frame[o] \in [Ids -> Frame] /\ frame[o][a] \in Frame
  BY DEF TypeOK
<1>2. CASE SkipChild(o, a, c)
  <2>1. [frame[o][a] EXCEPT !.todo = @ \ {c}] \in Frame
    BY <1>1 DEF Frame
  <2> QED BY <1>2, <2>1 DEF TypeOK, SkipChild, history
<1>3. CASE DecideChild(o, a, c)
  <2>1. ActionFor(a, frame[o][a].action) \in {"release", "persist"}
    BY <1>1 DEF ActionFor, Frame
  <2>2. Begun(c, ActionFor(a, frame[o][a].action), TRUE) \in Frame
    BY <2>1, BegunIsFrame
  <2>3. [frame[o][a] EXCEPT !.todo = @ \ {c}, !.awaits = c] \in Frame
    BY <1>1 DEF Frame
  <2>4. CASE Settles(o) /\ UNCHANGED <<live, record, snapshot, run, promised, history>>
    BY <2>4, TypesSettles DEF TypeOK, history
  <2>5. CASE /\ frame' = [frame EXCEPT ![o][a].todo = @ \ {c}, ![o][a].awaits = c,
                             ![o][c] = Begun(c, ActionFor(a, frame[o][a].action), TRUE)]
             /\ UNCHANGED <<task, live, record, snapshot, run, promised, history>>
    <3>1. frame'[o] \in [Ids -> Frame]
      BY <1>1, <2>2, <2>3, <2>5 DEF TypeOK
    <3> QED BY <2>5, <3>1 DEF TypeOK, history
  <2> QED BY <1>3, <2>4, <2>5 DEF DecideChild
<1>4. CASE CleanUp(o, a)
  <2>1. [frame[o][a] EXCEPT !.at = "cleaning"] \in Frame
    BY <1>1 DEF Frame
  <2> QED BY <1>4, <2>1 DEF TypeOK, CleanUp, history
<1> QED BY <1>2, <1>3, <1>4

LEMMA TypesRelease ==
    ASSUME TypeOK, Shape, NEW o \in Tasks, NEW a \in Ids, frame[o][a].at # "none", Release(o, a)
    PROVE  TypeOK'
<1>1. frame[o] \in [Ids -> Frame] /\ frame[o][a] \in Frame
  BY DEF TypeOK
<1>2. live' \in [Ids -> Individuals \cup {Nobody}] /\ run' \in [Ids -> {"none", "running", "stale"}]
  BY DEF TypeOK, Release, Removed
<1>3. CASE record[a].status = "none"
  <2>1. Settles(o) /\ UNCHANGED <<record, promised>>
    BY <1>3 DEF Release, Applied
  <2> QED BY <1>2, <2>1, TypesSettles DEF TypeOK, Release, history
<1>4. CASE record[a].status # "none"
  <2>1. \A status \in {"released", "persisted"} : [record[a] EXCEPT !.status = status] \in Record
    BY DEF TypeOK, Record
  <2>2. record' \in [Ids -> Record]
    BY <1>4, <2>1 DEF TypeOK, Release, Applied
  <2>3. promised' \subseteq Individuals
    <3>1. promised' = IF frame[o][a].action = "persist"
                      THEN promised \cup {frame[o][a].who} ELSE promised
      BY <1>4 DEF Release, Applied
    <3>2. frame[o][a].who \in Individuals \cup {Nobody}
      BY <1>1 DEF Frame
    <3>3. frame[o][a].action = "persist" => frame[o][a].who # Nobody
      BY DEF Shape
    <3> QED BY <3>1, <3>2, <3>3 DEF TypeOK
  <2>4. \A b \in Ids : [frame[o][b] EXCEPT !.awaits = NoId] \in Frame
    <3>1. TAKE b \in Ids
    <3>2. frame[o][b] \in Frame
      BY <1>1
    <3> QED BY <3>2 DEF Frame
  <2>5. NoFrame \in Frame
    BY DEF NoFrame, Frame
  <2>6. CASE Settles(o)
    BY <1>2, <2>2, <2>3, <2>6, TypesSettles DEF TypeOK, Release, history
  <2>7. CASE Resumes(o, a, {d \in Ids : frame[o][d].awaits = a})
    <3>1. frame' \in [Tasks -> [Ids -> Frame]]
      BY <1>1, <2>4, <2>5, <2>7 DEF TypeOK, Resumes
    <3> QED BY <1>2, <2>2, <2>3, <2>7, <3>1 DEF TypeOK, Release, Resumes, history
  <2> QED BY <1>4, <2>6, <2>7 DEF Release, Applied
<1> QED BY <1>3, <1>4

LEMMA TypesRestart == ASSUME TypeOK, Restart PROVE TypeOK'
BY NamesAssumption, IdsFacts DEF TypeOK, Restart

-----------------------------------------------------------------------------
\* An actor whose record says it is gone is registered only while it is being
\* created again.
Settled == \A a \in Ids :
    Gone(a) /\ live[a] # Nobody => \E o \in Tasks : At(o, a, "attaching")

IInv == TypeOK /\ Shape /\ Settled

LEMMA ShapeOfTask ==
    ASSUME Shape, NEW o \in Tasks, UNCHANGED frame,
           \A t \in Tasks \ {o} : task'[t] = task[t], task[o].call # "decide",
           task'[o].at # "start" => task'[o].call \in {"spawn", "restore"} /\ task'[o].who # Nobody,
           task'[o].at \in {"deleting", "marking"} => task'[o].call = "restore",
           task'[o].call = "none" => task'[o] = Idle
    PROVE  Shape'
BY DEF Shape, Idle

LEMMA ShapeOfFrame ==
    ASSUME Shape, NEW o \in Tasks, UNCHANGED task, task[o].call = "decide",
           \A t \in Tasks \ {o} : frame'[t] = frame[t],
           \A b \in Ids : frame'[o][b].at # "none" /\ frame'[o][b].action = "persist"
                           => frame'[o][b].who # Nobody,
           \A b \in Ids : frame'[o][b].at = "writing" => frame'[o][b].action = "persist"
    PROVE  Shape'
BY DEF Shape, Idle

LEMMA SettledStays ==
    ASSUME Settled, NEW o \in Tasks, task[o].at # "attaching",
           \A t \in Tasks \ {o} : task'[t] = task[t],
           \A b \in Ids : Gone(b)' /\ live'[b] # Nobody => Gone(b) /\ live[b] # Nobody
    PROVE  Settled'
BY DEF Settled, At

LEMMA StepSpawn ==
    ASSUME IInv, NEW o \in Tasks, NEW a \in Ids, NEW who \in Bearers[a], BeginSpawn(o, a, who)
    PROVE  Shape' /\ Settled'
<1>1. Shape'
  BY NamesAssumption DEF IInv, TypeOK, Shape, BeginSpawn, MayCall, Idle
<1>2. Settled'
  BY DEF IInv, TypeOK, Settled, BeginSpawn, MayCall, Idle, Gone, At
<1> QED BY <1>1, <1>2

LEMMA StepCreation ==
    ASSUME IInv, NEW o \in Tasks, NEW a \in Ids,
           \/ Register(o, a) \/ Attached(o, a) \/ Created(o, a) \/ CreationFails(o, a)
    PROVE  Shape' /\ Settled'
<1>1. CASE Register(o, a)
  <2>1. Shape'
    BY <1>1 DEF IInv, TypeOK, Shape, Register, At, Moves, Idle, history
  <2>2. Settled'
    BY <1>1 DEF IInv, TypeOK, Settled, Register, At, Moves, Gone
  <2> QED BY <2>1, <2>2
<1>2. CASE Attached(o, a)
  <2>1. Shape'
    BY <1>2 DEF IInv, TypeOK, Shape, Attached, At, Moves, Idle, history
  <2>2. Settled'
    BY <1>2 DEF IInv, TypeOK, Settled, Attached, At, Moves, Gone
  <2> QED BY <2>1, <2>2
<1>3. CASE Created(o, a)
  <2>1. Shape'
    <3>1. CASE task[o].call = "restore"
      <4>1. task[o] \in Task /\ task[o].at = "recording" /\ UNCHANGED frame
        BY <1>3 DEF IInv, TypeOK, Created, At
      <4>2. task'[o] = [task[o] EXCEPT !.at = "deleting"] /\ \A t \in Tasks \ {o} : task'[t] = task[t]
        BY <1>3, <3>1 DEF IInv, TypeOK, Created, Moves
      <4>3. task'[o].at = "deleting" /\ task'[o].call = "restore" /\ task'[o].who = task[o].who
        BY <3>1, <4>1, <4>2 DEF Task
      <4>4. task[o].who # Nobody
        BY <4>1 DEF IInv, Shape
      <4> QED BY <3>1, <4>1, <4>2, <4>3, <4>4, ShapeOfTask DEF IInv
    <3>2. CASE task[o].call # "restore"
      <4>1. task'[o] = Idle /\ task[o].call # "decide" /\ \A t \in Tasks \ {o} : task'[t] = task[t]
        BY <1>3, <3>2 DEF IInv, TypeOK, Shape, Created, At, Ends
      <4> QED BY <1>3, <4>1, ShapeOfTask DEF IInv, Created, Idle
    <3> QED BY <3>1, <3>2
  <2>2. Settled'
    <3>1. /\ task[o].at # "attaching" /\ UNCHANGED <<live, record>>
          /\ \A t \in Tasks \ {o} : task'[t] = task[t]
      BY <1>3 DEF IInv, TypeOK, Created, At, Moves, Ends
    <3> QED BY <3>1, SettledStays DEF IInv, Gone
  <2> QED BY <2>1, <2>2
<1>4. CASE CreationFails(o, a)
  <2>1. Shape'
    BY <1>4 DEF IInv, TypeOK, Shape, CreationFails, At, Ends, Idle, history
  <2>2. Settled'
    <3>1. SUFFICES ASSUME NEW b \in Ids, Gone(b)', live'[b] # Nobody
                   PROVE  \E t \in Tasks : At(t, b, "attaching")'
      BY DEF Settled
    <3>2. CASE a \in Teams
      <4>1. Gone(b) /\ live[b] # Nobody /\ (b = a => task[o].at = "preparing")
        BY <1>4, <3>1, <3>2 DEF IInv, TypeOK, CreationFails, At, Gone, NoRecord
      <4>2. PICK t \in Tasks : At(t, b, "attaching")
        BY <4>1 DEF IInv, Settled
      <4>3. t # o
        BY <1>4, <3>2, <4>1, <4>2 DEF CreationFails, At
      <4> QED BY <1>4, <4>2, <4>3 DEF IInv, TypeOK, CreationFails, Ends, At
    <3>3. CASE a \notin Teams
      <4>1. b # a /\ Gone(b) /\ live[b] # Nobody
        BY <1>4, <3>1, <3>3 DEF IInv, TypeOK, CreationFails, Gone
      <4>2. PICK t \in Tasks : At(t, b, "attaching")
        BY <4>1 DEF IInv, Settled
      <4>3. t # o
        BY <1>4, <4>1, <4>2 DEF CreationFails, At
      <4> QED BY <1>4, <4>2, <4>3 DEF IInv, TypeOK, CreationFails, Ends, At
    <3> QED BY <3>2, <3>3
  <2> QED BY <2>1, <2>2
<1> QED BY <1>1, <1>2, <1>3, <1>4

LEMMA StepRestore ==
    ASSUME IInv, NEW o \in Tasks, NEW a \in Ids,
           \/ BeginRestore(o, a) \/ SnapshotRead(o, a) \/ RestoreRefused(o, a)
           \/ DeleteSnapshot(o, a) \/ MarkRestored(o, a)
    PROVE  Shape' /\ Settled'
<1>1. CASE BeginRestore(o, a)
  BY <1>1 DEF IInv, TypeOK, Shape, Settled, BeginRestore, MayCall, Idle, Gone, At, history
<1>2. CASE SnapshotRead(o, a)
  <2>1. /\ task[o].call = "restore" /\ task[o].at = "start" /\ snapshot[a] # Nobody
        /\ task' = [task EXCEPT ![o].who = snapshot[a], ![o].at = "preparing"]
        /\ UNCHANGED <<live, record, frame>>
    BY <1>2 DEF SnapshotRead, Restorable, At
  <2>2. Shape'
    BY <2>1 DEF IInv, TypeOK, Shape, Idle
  <2>3. Settled'
    BY <2>1, SettledStays DEF IInv, TypeOK, Gone
  <2> QED BY <2>2, <2>3
<1>3. CASE RestoreRefused(o, a)
  BY <1>3 DEF IInv, TypeOK, Shape, Settled, RestoreRefused, Ends, Idle, Gone, At, history
<1>4. CASE DeleteSnapshot(o, a)
  BY <1>4 DEF IInv, TypeOK, Shape, Settled, DeleteSnapshot, Moves, Idle, Gone, At, history
<1>5. CASE MarkRestored(o, a)
  BY <1>5 DEF IInv, TypeOK, Shape, Settled, MarkRestored, Ends, Idle, Gone, At, history
<1> QED BY <1>1, <1>2, <1>3, <1>4, <1>5

LEMMA StepRuns ==
    ASSUME IInv, NEW o \in Tasks, NEW a \in Ids, NEW call \in {"succeed", "fail"},
           StartRun(a) \/ EndRun(o, a, call) \/ AbandonRun(a) \/ EndStaleRun(o, a)
    PROVE  Shape' /\ Settled'
<1>1. CASE StartRun(a)
  BY <1>1 DEF IInv, TypeOK, Shape, Settled, StartRun, Gone, At, history
<1>2. CASE EndRun(o, a, call)
  BY <1>2 DEF IInv, TypeOK, Shape, Settled, EndRun, MayCall, Idle, Gone, At, history
<1>3. CASE AbandonRun(a)
  BY <1>3 DEF IInv, TypeOK, Shape, Settled, AbandonRun, Gone, At, history
<1>4. CASE EndStaleRun(o, a)
  BY <1>4 DEF IInv, TypeOK, Shape, Settled, EndStaleRun, MayCall, Idle, Gone, At, history
<1> QED BY <1>1, <1>2, <1>3, <1>4

LEMMA StepDecide ==
    ASSUME IInv, NEW o \in Tasks, NEW a \in Ids, NEW action \in Actions, NEW cascade \in BOOLEAN,
           task[o].at = "start", task[o].call # "decide", Decide(o, a, action, cascade), UNCHANGED live
    PROVE  Shape' /\ Settled'
<1>1. CASE action = "retain_session"
  <2>1. UNCHANGED frame /\ Ends(o) /\ record' = [record EXCEPT ![a].status = "retained"]
    BY <1>1 DEF Decide
  <2>2. Shape'
    BY <2>1 DEF IInv, TypeOK, Shape, Ends, Idle
  <2>3. Settled'
    BY <2>1, SettledStays DEF IInv, TypeOK, Ends, Gone
  <2> QED BY <2>2, <2>3
<1>2. CASE Settles(o) /\ UNCHANGED record
  BY <1>2 DEF IInv, TypeOK, Shape, Settled, Settles, Ends, Idle, NoFrames, NoFrame, Gone, At
<1>3. CASE action = "release" \/ (action = "persist" /\ live[a] # Nobody)
  <2>1. /\ task' = [task EXCEPT ![o] = [call |-> "decide", actor |-> a, who |-> Nobody, at |-> "start"]]
        /\ frame' = [frame EXCEPT ![o][a] = Begun(a, action, cascade)]
        /\ UNCHANGED record
    BY <1>3 DEF Decide
  <2>2. /\ Begun(a, action, cascade).action = action /\ Begun(a, action, cascade).who = live[a]
        /\ Begun(a, action, cascade).at = "writing" => action = "persist"
    BY <1>3 DEF Begun, Writing, Cascading
  <2>3. Shape'
    BY <1>3, <2>1, <2>2 DEF IInv, TypeOK, Shape, Idle
  <2>4. Settled'
    BY <2>1 DEF IInv, TypeOK, Settled, Gone, At
  <2> QED BY <2>3, <2>4
<1> QED BY <1>1, <1>2, <1>3 DEF Decide

LEMMA StepDecisions ==
    ASSUME IInv, NEW o \in Tasks, NEW a \in Ids, NEW action \in Actions, NEW cascade \in BOOLEAN,
           SetActorLifecycle(o, a, action, cascade) \/ Finalize(o, a)
    PROVE  Shape' /\ Settled'
<1>1. CASE SetActorLifecycle(o, a, action, cascade)
  BY <1>1, StepDecide DEF SetActorLifecycle, MayCall, Idle
<1>2. CASE Finalize(o, a)
  <2>1. task[o].at = "start" /\ task[o].call \in {"succeed", "fail"} /\ UNCHANGED live
    BY <1>2 DEF IInv, Shape, Finalize
  <2>2. CASE Ends(o) /\ UNCHANGED <<record, frame>>
    <3>1. Shape'
      BY <2>1, <2>2 DEF IInv, TypeOK, Shape, Ends, Idle
    <3>2. Settled'
      BY <2>1, <2>2, SettledStays DEF IInv, TypeOK, Ends, Gone
    <3> QED BY <3>1, <3>2
  <2>3. CASE Decide(o, a, ResolveAction(a, task[o].call), Policy[a].cascade)
    <3>1. ResolveAction(a, task[o].call) \in Actions /\ Policy[a].cascade \in BOOLEAN
      BY <2>1, NamesAssumption DEF ResolveAction, Actions
    <3> QED BY <2>1, <2>3, <3>1, StepDecide
  <2> QED BY <1>2, <2>2, <2>3 DEF Finalize
<1> QED BY <1>1, <1>2

\* A decision under way: the call is one that decides, and rejects as a whole.
LEMMA StepSettles ==
    ASSUME IInv, NEW o \in Tasks, task[o].call = "decide", Settles(o),
           \A b \in Ids : Gone(b)' /\ live'[b] # Nobody => Gone(b) /\ live[b] # Nobody
    PROVE  Shape' /\ Settled'
<1>1. task[o].at # "attaching"
  BY DEF IInv, Shape
<1>2. Shape'
  BY DEF IInv, TypeOK, Shape, Settles, Ends, Idle, NoFrames, NoFrame
<1>3. Settled'
  BY <1>1, SettledStays DEF IInv, TypeOK, Settles, Ends
<1> QED BY <1>2, <1>3

LEMMA StepSnapshot ==
    ASSUME IInv, NEW o \in Tasks, NEW a \in Ids, WriteSnapshot(o, a) \/ WriteFails(o, a)
    PROVE  Shape' /\ Settled'
<1>1. task[o].call = "decide"
  BY DEF IInv, Shape, WriteSnapshot, WriteFails
<1>2. CASE WriteSnapshot(o, a)
  <2>1. /\ frame' = [frame EXCEPT ![o][a] = Cascading(a, "persist", frame[o][a].who, frame[o][a].cascade)]
        /\ frame[o][a].at = "writing" /\ UNCHANGED <<live, record, task>>
    BY <1>2 DEF WriteSnapshot
  <2>2. /\ Cascading(a, "persist", frame[o][a].who, frame[o][a].cascade).action = "persist"
        /\ Cascading(a, "persist", frame[o][a].who, frame[o][a].cascade).at = "cascading"
        /\ Cascading(a, "persist", frame[o][a].who, frame[o][a].cascade).who = frame[o][a].who
    BY DEF Cascading
  <2>3. frame[o][a].who # Nobody
    BY <1>2, <2>1 DEF IInv, TypeOK, Shape, Frame
  <2>4. Shape'
    <3>1. \A b \in Ids : frame'[o][b] =
             IF b = a THEN Cascading(a, "persist", frame[o][a].who, frame[o][a].cascade)
             ELSE frame[o][b]
      BY <2>1 DEF IInv, TypeOK
    <3>2. \A t \in Tasks \ {o} : frame'[t] = frame[t]
      BY <2>1 DEF IInv, TypeOK
    <3>3. \A b \in Ids :
              /\ frame'[o][b].at # "none" /\ frame'[o][b].action = "persist" => frame'[o][b].who # Nobody
              /\ frame'[o][b].at = "writing" => frame'[o][b].action = "persist"
      <4>1. TAKE b \in Ids
      <4>2. CASE b = a
        BY <2>2, <2>3, <3>1, <4>2
      <4>3. CASE b # a
        <5>1. frame'[o][b] = frame[o][b]
          BY <3>1, <4>3
        <5> QED BY <5>1 DEF IInv, Shape
      <4> QED BY <4>2, <4>3
    <3> QED BY <1>1, <2>1, <3>2, <3>3, ShapeOfFrame DEF IInv
  <2>5. Settled'
    BY <2>1 DEF IInv, Settled, Gone, At
  <2> QED BY <2>4, <2>5
<1>3. CASE WriteFails(o, a)
  BY <1>1, <1>3, StepSettles DEF WriteFails, Gone
<1> QED BY <1>2, <1>3

LEMMA StepCascade ==
    ASSUME IInv, NEW o \in Tasks, NEW a \in Ids, NEW c \in Ids,
           SkipChild(o, a, c) \/ DecideChild(o, a, c) \/ CleanUp(o, a)
    PROVE  Shape' /\ Settled'
<1>1. task[o].call = "decide"
  BY DEF IInv, Shape, SkipChild, DecideChild, CleanUp, Proceeding
<1>2. frame[o] \in [Ids -> Frame]
  BY DEF IInv, TypeOK
<1>3. CASE SkipChild(o, a, c)
  <2>1. Shape'
    BY <1>3 DEF IInv, TypeOK, Shape, SkipChild
  <2>2. Settled'
    BY <1>3 DEF IInv, Settled, SkipChild, Gone, At
  <2> QED BY <2>1, <2>2
<1>4. CASE DecideChild(o, a, c)
  <2> DEFINE action == ActionFor(a, frame[o][a].action)
  <2>1. CASE Settles(o) /\ UNCHANGED <<live, record>>
    BY <1>1, <2>1, StepSettles DEF Gone
  <2>2. CASE /\ ~(action = "persist" /\ live[c] = Nobody)
             /\ frame' = [frame EXCEPT ![o][a].todo = @ \ {c}, ![o][a].awaits = c,
                             ![o][c] = Begun(c, action, TRUE)]
             /\ UNCHANGED <<task, live, record>>
    <3>1. action \in {"release", "persist"}
      BY <1>2 DEF ActionFor, Frame
    <3>2. /\ Begun(c, action, TRUE).action = action /\ Begun(c, action, TRUE).who = live[c]
          /\ Begun(c, action, TRUE).at = "writing" => action = "persist"
      BY <3>1 DEF Begun, Writing, Cascading
    <3>3. Shape'
      <4>1. \A b \in Ids : frame'[o][b] =
                IF b = c THEN Begun(c, action, TRUE)
                ELSE IF b = a THEN [frame[o][a] EXCEPT !.todo = frame[o][a].todo \ {c}, !.awaits = c]
                ELSE frame[o][b]
        BY <1>2, <2>2 DEF IInv, TypeOK
      <4>2. \A b \in Ids :
                /\ frame'[o][b].at # "none" /\ frame'[o][b].action = "persist" => frame'[o][b].who # Nobody
                /\ frame'[o][b].at = "writing" => frame'[o][b].action = "persist"
        <5>1. TAKE b \in Ids
        <5>2. CASE b = c
          <6>1. frame'[o][b] = Begun(c, action, TRUE)
            BY <4>1, <5>2
          <6> QED BY <2>2, <3>2, <5>2, <6>1
        <5>3. CASE b # c
          <6>1. /\ frame'[o][b].at = frame[o][b].at /\ frame'[o][b].action = frame[o][b].action
                /\ frame'[o][b].who = frame[o][b].who
            <7>1. CASE b = a
              <8>1. frame[o][a] \in Frame
                BY <1>2
              <8>2. frame'[o][b] = [frame[o][a] EXCEPT !.todo = frame[o][a].todo \ {c}, !.awaits = c]
                BY <4>1, <5>3, <7>1
              <8> QED BY <7>1, <8>1, <8>2 DEF Frame
            <7>2. CASE b # a
              BY <4>1, <5>3, <7>2
            <7> QED BY <7>1, <7>2
          <6> QED BY <6>1 DEF IInv, Shape
        <5> QED BY <5>2, <5>3
      <4>3. \A t \in Tasks \ {o} : frame'[t] = frame[t]
        BY <2>2 DEF IInv, TypeOK
      <4> QED BY <1>1, <2>2, <4>2, <4>3, ShapeOfFrame DEF IInv
    <3>4. Settled'
      BY <2>2 DEF IInv, Settled, Gone, At
    <3> QED BY <3>3, <3>4
  <2> QED BY <1>4, <2>1, <2>2 DEF DecideChild
<1>5. CASE CleanUp(o, a)
  <2>1. Shape'
    <3>1. frame[o][a].at # "none" /\ frame' = [frame EXCEPT ![o][a].at = "cleaning"] /\ UNCHANGED task
      BY <1>5 DEF CleanUp, Proceeding
    <3>2. \A b \in Ids : frame'[o][b].action = frame[o][b].action /\ frame'[o][b].who = frame[o][b].who
      BY <1>2, <3>1 DEF IInv, TypeOK, Frame
    <3>3. \A b \in Ids : /\ frame'[o][b].at # "none" => frame[o][b].at # "none"
                         /\ frame'[o][b].at = "writing" => frame[o][b].at = "writing"
      BY <1>2, <3>1 DEF IInv, TypeOK
    <3>4. \A t \in Tasks \ {o} : frame'[t] = frame[t]
      BY <3>1 DEF IInv, TypeOK
    <3>5. \A b \in Ids :
              /\ frame'[o][b].at # "none" /\ frame'[o][b].action = "persist"
                    => frame'[o][b].who # Nobody
              /\ frame'[o][b].at = "writing" => frame'[o][b].action = "persist"
      BY <3>2, <3>3 DEF IInv, Shape
    <3>6. Shape /\ task[o].call = "decide"
      BY <1>1, <3>1 DEF IInv, Shape
    <3> QED BY <3>1, <3>4, <3>5, <3>6, ShapeOfFrame
  <2>2. Settled'
    BY <1>5 DEF IInv, Settled, CleanUp, Gone, At
  <2> QED BY <2>1, <2>2
<1> QED BY <1>3, <1>4, <1>5

LEMMA StepRelease ==
    ASSUME IInv, NEW o \in Tasks, NEW a \in Ids, frame[o][a].at # "none", Release(o, a)
    PROVE  Shape' /\ Settled'
<1>1. task[o].call = "decide" /\ task[o].at # "attaching"
  BY DEF IInv, Shape
<1>2. live' = [live EXCEPT ![a] = Nobody]
  BY DEF Release, Removed
<1>3. CASE record[a].status = "none"
  <2>1. Settles(o) /\ UNCHANGED record
    BY <1>3 DEF Release, Applied
  <2> QED BY <1>1, <1>2, <2>1, StepSettles DEF IInv, TypeOK, Gone
<1>4. CASE record[a].status # "none"
  <2>1. \E status \in {"released", "persisted"} : record' = [record EXCEPT ![a].status = status]
    BY <1>4 DEF Release, Applied
  <2>2. \A b \in Ids : Gone(b)' /\ live'[b] # Nobody => Gone(b) /\ live[b] # Nobody
    BY <1>2, <2>1 DEF IInv, TypeOK, Gone
  <2>3. CASE Settles(o)
    BY <1>1, <2>2, <2>3, StepSettles
  <2>4. CASE Resumes(o, a, {d \in Ids : frame[o][d].awaits = a})
    <3>1. \A b \in Ids : /\ frame'[o][b].at # "none" => frame[o][b].at # "none"
                         /\ frame'[o][b].at # "none" =>
                               /\ frame'[o][b].action = frame[o][b].action
                               /\ frame'[o][b].who = frame[o][b].who
                               /\ frame'[o][b].at = frame[o][b].at
      BY <2>4 DEF IInv, TypeOK, Resumes, NoFrame, Frame
    <3>2. Shape'
      BY <1>1, <2>4, <3>1 DEF IInv, TypeOK, Shape, Resumes
    <3>3. Settled'
      BY <1>1, <2>2, <2>4, SettledStays DEF IInv, Resumes
    <3> QED BY <3>2, <3>3
  <2> QED BY <1>4, <2>3, <2>4 DEF Release, Applied
<1> QED BY <1>3, <1>4

LEMMA StepRestart == ASSUME IInv, Restart PROVE Shape' /\ Settled'
<1>1. /\ \A a \in Ids : live'[a] = Nobody
      /\ \A o \in Tasks : task'[o] = Idle /\ \A a \in Ids : frame'[o][a] = NoFrame
  BY DEF Restart, NoFrames
<1>2. Shape'
  BY <1>1 DEF Shape, Idle, NoFrame
<1>3. Settled'
  BY <1>1 DEF Settled
<1> QED BY <1>2, <1>3

\* Every step keeps the invariant.
LEMMA StepBegin ==
    ASSUME IInv, NEW o \in Tasks, NEW a \in Ids, Begin(o, a)
    PROVE  IInv'
<1>1. ASSUME NEW who \in Bearers[a], BeginSpawn(o, a, who) PROVE IInv'
  BY <1>1, TypesSpawn, StepSpawn DEF IInv
<1>2. CASE BeginRestore(o, a)
  BY <1>2, TypesRestore, StepRestore DEF IInv
<1>3. ASSUME NEW call \in {"succeed", "fail"}, EndRun(o, a, call) \/ EndStaleRun(o, a) PROVE IInv'
  BY <1>3, TypesRuns, StepRuns DEF IInv
<1>4. ASSUME NEW action \in Actions, NEW cascade \in BOOLEAN, SetActorLifecycle(o, a, action, cascade)
      PROVE  IInv'
  BY <1>4, TypesDecisions, StepDecisions DEF IInv
<1> QED BY <1>1, <1>2, <1>3, <1>4 DEF Begin

LEMMA StepContinue ==
    ASSUME IInv, NEW o \in Tasks, NEW a \in Ids, Continue(o, a)
    PROVE  IInv'
<1>1. CASE Register(o, a) \/ Attached(o, a) \/ Created(o, a)
  BY <1>1, TypesCreation, StepCreation DEF IInv
<1>2. CASE SnapshotRead(o, a) \/ RestoreRefused(o, a) \/ DeleteSnapshot(o, a) \/ MarkRestored(o, a)
  BY <1>2, TypesRestore, StepRestore DEF IInv
<1>3. CASE Finalize(o, a)
  <2>1. \E action \in Actions, cascade \in BOOLEAN : TRUE
    BY DEF Actions
  <2> QED BY <1>3, <2>1, TypesDecisions, StepDecisions DEF IInv
<1>4. CASE WriteSnapshot(o, a)
  BY <1>4, TypesSnapshot, StepSnapshot DEF IInv
<1>5. CASE ReleaseAgent(o, a)
  BY <1>5, TypesRelease, StepRelease DEF IInv, ReleaseAgent
<1>6. ASSUME NEW c \in Ids, SkipChild(o, a, c) \/ DecideChild(o, a, c) PROVE IInv'
  BY <1>6, TypesCascade, StepCascade DEF IInv
<1>7. CASE CleanUp(o, a)
  BY <1>7, TypesCascade, StepCascade DEF IInv
<1>8. CASE ReleaseAtOnce(o, a)
  BY <1>8, TypesRelease, StepRelease DEF IInv, ReleaseAtOnce, Proceeding
<1> QED BY <1>1, <1>2, <1>3, <1>4, <1>5, <1>6, <1>7, <1>8 DEF Continue, Proceed, Resume

LEMMA StepNext == ASSUME IInv, Next PROVE IInv'
<1>1. ASSUME NEW o \in Tasks, NEW a \in Ids, Continue(o, a) PROVE IInv'
  BY <1>1, StepContinue
<1>2. ASSUME NEW o \in Tasks, NEW a \in Ids, Begin(o, a) PROVE IInv'
  BY <1>2, StepBegin
<1>3. ASSUME NEW o \in Tasks, NEW a \in Ids, CreationFails(o, a) PROVE IInv'
  BY <1>3, TypesCreation, StepCreation DEF IInv
<1>4. ASSUME NEW o \in Tasks, NEW a \in Ids, WriteFails(o, a) PROVE IInv'
  BY <1>4, TypesSnapshot, StepSnapshot DEF IInv
<1>5. ASSUME NEW a \in Ids, StartRun(a) PROVE IInv'
  <2>1. TypeOK'
    BY <1>5 DEF IInv, TypeOK, StartRun, Record, history
  <2>2. Shape' /\ Settled'
    BY <1>5 DEF IInv, TypeOK, Shape, Settled, StartRun, Gone, At, history
  <2> QED BY <2>1, <2>2 DEF IInv
<1>6. ASSUME NEW a \in Ids, AbandonRun(a) PROVE IInv'
  <2>1. TypeOK'
    BY <1>6 DEF IInv, TypeOK, AbandonRun, history
  <2>2. Shape' /\ Settled'
    BY <1>6 DEF IInv, Shape, Settled, AbandonRun, Gone, At, history
  <2> QED BY <2>1, <2>2 DEF IInv
<1>7. CASE Restart
  BY <1>7, TypesRestart, StepRestart DEF IInv
<1> QED BY <1>1, <1>2, <1>3, <1>4, <1>5, <1>6, <1>7 DEF Next

LEMMA StutterKeeps == ASSUME IInv, UNCHANGED vars PROVE IInv'
BY DEF IInv, TypeOK, Shape, Settled, vars, Gone, At

\* The invariant holds in every state: calls, decisions and records fit.
THEOREM Invariance == Spec => []IInv
<1>1. Init => IInv
  <2>1. Init => TypeOK
    BY IdsFacts DEF Init, TypeOK
  <2>2. Init => Shape /\ Settled
    BY DEF Init, Shape, Settled, NoFrames, NoFrame, Idle
  <2> QED BY <2>1, <2>2 DEF IInv
<1>2. IInv /\ [Next]_vars => IInv'
  BY StepNext, StutterKeeps
<1> QED BY <1>1, <1>2, PTL DEF Spec

\* The state keeps its types: a task without a call names nobody, and no
\* snapshot is written of an actor that is not there.
THEOREM TypeCorrect == Spec => []TypeOK
<1>1. IInv => TypeOK
  BY DEF IInv
<1> QED BY <1>1, Invariance, PTL

\* However runs, decisions, cascades and restores overlap, an actor that was
\* released or persisted is not registered any more.
THEOREM GoneIsGone == Spec => []GoneMeansGone
<1>1. IInv => GoneMeansGone
  <2>1. SUFFICES ASSUME IInv, NEW a \in Ids, Gone(a), live[a] # Nobody PROVE Creating(a)
    BY DEF GoneMeansGone
  <2>2. PICK o \in Tasks : At(o, a, "attaching")
    BY <2>1 DEF IInv, Settled
  <2> QED BY <2>1, <2>2 DEF IInv, Shape, At, Creating
<1> QED BY <1>1, Invariance, PTL
-----------------------------------------------------------------------------
\* Where clients let a restore run alone and create nothing after a restart,
\* no persisted actor is lost.

CarefulClients == ~OverlappingRestore /\ ~SpawnAfterRestart

\* Whoever is somewhere under an id was created under that id.
Owns(a, who) == who # Nobody => who \in Bearers[a] \cap born

Owned ==
    /\ \A a \in Ids : Owns(a, live[a]) /\ Owns(a, snapshot[a])
    /\ \A o \in Tasks : task[o].who # Nobody => task[o].actor \in Ids /\ Owns(task[o].actor, task[o].who)
    /\ \A o \in Tasks, a \in Ids : Owns(a, frame[o][a].who)

OneBearer == \A a \in Ids :
    /\ \A v, w \in Bearers[a] \cap born : v = w
    /\ a \notin used => Bearers[a] \cap born = {}

Restoring(o) == task[o].call = "restore"
Lone == \A o, t \in Tasks : Restoring(o) /\ t # o => task[t] = Idle

\* From the moment its snapshot is read until it is deleted a restore can fall
\* back on it; once the actor is registered nobody counts on the snapshot.
KeptOf(o) ==
    Restoring(o) =>
        /\ task[o].at \in {"preparing", "attaching", "recording", "deleting"} =>
              task[o].actor \in Ids /\ snapshot[task[o].actor] = task[o].who
        /\ task[o].at \in {"attaching", "recording", "deleting"} => task[o].who \notin promised
Kept == \A o \in Tasks : KeptOf(o)

\* A decision that persists goes on only when the snapshot is written.
WrittenOf(o, a) ==
    frame[o][a].at \in {"cascading", "cleaning"} /\ frame[o][a].action = "persist" =>
        snapshot[a] = frame[o][a].who
Written == \A o \in Tasks, a \in Ids : WrittenOf(o, a)

PInv == IInv /\ Owned /\ OneBearer /\ Lone /\ Kept /\ Written /\ NobodyIsLost

\* A step of a decision: it changes no snapshot, and promises only what lies on disk.
LEMMA DecisionKeeps ==
    ASSUME PInv, NEW o \in Tasks, UNCHANGED <<snapshot, born, used>>,
           \A t \in Tasks : ~Restoring(t),
           \A t \in Tasks \ {o} : task'[t] = task[t] /\ frame'[t] = frame[t],
           task'[o] = task[o] \/ (task'[o].call # "restore" /\ task'[o].who = Nobody),
           \A b \in Ids : live'[b] \in {live[b], Nobody},
           \A b \in Ids : frame'[o][b].who \in {frame[o][b].who, live[b], Nobody},
           \A b \in Ids : WrittenOf(o, b)',
           \A v \in promised' \ promised : \E b \in Ids : snapshot[b] = v
    PROVE  /\ Owned' /\ OneBearer' /\ Lone' /\ Kept' /\ Written' /\ NobodyIsLost'
<1>1. Owned'
  <2>1. \A b \in Ids : Owns(b, live[b]) /\ Owns(b, snapshot[b]) /\ Owns(b, frame[o][b].who)
    BY DEF PInv, Owned
  <2>2. \A b \in Ids : Owns(b, live[b])' /\ Owns(b, snapshot[b])' /\ Owns(b, frame[o][b].who)'
    BY <2>1 DEF Owns
  <2>3. \A t \in Tasks \ {o}, b \in Ids : Owns(b, frame[t][b].who)'
    BY DEF PInv, Owned, Owns
  <2>4. \A t \in Tasks : task'[t].who # Nobody => task'[t].actor \in Ids /\ Owns(task[t].actor, task[t].who)'
    BY DEF PInv, Owned, Owns
  <2> QED BY <2>2, <2>3, <2>4 DEF Owned
<1>2. OneBearer' /\ Lone' /\ Kept'
  BY DEF PInv, OneBearer, Lone, Kept, KeptOf, Restoring
<1>3. Written'
  <2>1. \A t \in Tasks \ {o}, b \in Ids : WrittenOf(t, b)'
    BY DEF PInv, Written, WrittenOf
  <2> QED BY <2>1 DEF Written
<1>4. NobodyIsLost'
  BY DEF PInv, NobodyIsLost
<1> QED BY <1>1, <1>2, <1>3, <1>4

\* A step that leaves the calls, the snapshots and the promises alone.
LEMMA QuietKeeps ==
    ASSUME PInv, UNCHANGED <<snapshot, born, used, promised, task, frame>>,
           \A b \in Ids : live'[b] \in {live[b], Nobody}
    PROVE  /\ Owned' /\ OneBearer' /\ Lone' /\ Kept' /\ Written' /\ NobodyIsLost'
<1>1. Owned'
  BY DEF PInv, Owned, Owns
<1>2. OneBearer' /\ Lone' /\ Kept' /\ Written' /\ NobodyIsLost'
  BY DEF PInv, OneBearer, Lone, Kept, KeptOf, Restoring, Written, WrittenOf, NobodyIsLost
<1> QED BY <1>1, <1>2

LEMMA NoFramesWhileRestoring ==
    ASSUME PInv, NEW o \in Tasks, Restoring(o)
    PROVE  \A t \in Tasks, a \in Ids : frame[t][a].at = "none"
BY DEF PInv, IInv, Shape, Lone, Restoring, Idle

LEMMA KeepSpawn ==
    ASSUME PInv, CarefulClients, NEW o \in Tasks, NEW a \in Ids, NEW who \in Bearers[a],
           BeginSpawn(o, a, who)
    PROVE  Owned' /\ OneBearer' /\ Lone' /\ Kept' /\ Written' /\ NobodyIsLost'
<1>1. /\ task' = [task EXCEPT ![o] = [call |-> "spawn", actor |-> a, who |-> who, at |-> "preparing"]]
      /\ born' = born \cup {who} /\ used' = used \cup {a} /\ a \notin used
      /\ UNCHANGED <<live, snapshot, frame, promised>>
      /\ \A t \in Tasks : ~Restoring(t)
  BY DEF BeginSpawn, MayCall, CarefulClients, Restoring
<1>2. Owned'
  <2>1. \A b \in Ids : \A v : Owns(b, v) => Owns(b, v)'
    BY <1>1 DEF Owns
  <2>2. Owns(a, who)'
    BY <1>1 DEF Owns
  <2>3. \A t \in Tasks : task'[t].who # Nobody => task'[t].actor \in Ids /\ Owns(task[t].actor, task[t].who)'
    <3>1. TAKE t \in Tasks
    <3>2. CASE t = o
      BY <1>1, <2>2, <3>2 DEF PInv, IInv, TypeOK
    <3>3. CASE t # o
      <4>1. task'[t] = task[t]
        BY <1>1, <3>3 DEF PInv, IInv, TypeOK
      <4> QED BY <2>1, <4>1 DEF PInv, Owned
    <3> QED BY <3>2, <3>3
  <2>4. \A b \in Ids : Owns(b, live[b])' /\ Owns(b, snapshot[b])'
    BY <1>1, <2>1 DEF PInv, Owned
  <2>5. \A t \in Tasks, b \in Ids : Owns(b, frame[t][b].who)'
    BY <1>1, <2>1 DEF PInv, Owned
  <2> QED BY <2>3, <2>4, <2>5 DEF Owned
<1>3. OneBearer'
  BY <1>1, NamesAssumption DEF PInv, OneBearer
<1>4. Lone' /\ Kept'
  BY <1>1 DEF PInv, IInv, TypeOK, Lone, Kept, KeptOf, Restoring
<1>5. Written' /\ NobodyIsLost'
  BY <1>1 DEF PInv, Written, WrittenOf, NobodyIsLost
<1> QED BY <1>2, <1>3, <1>4, <1>5

\* A step of a call that moves on, ends, or fails without touching a snapshot.
LEMMA CallKeeps ==
    ASSUME PInv, NEW o \in Tasks, UNCHANGED <<snapshot, born, frame>>,
           \A b \in Ids \ used' : b \notin used,
           task[o] # Idle,
           \A t \in Tasks \ {o} : task'[t] = task[t],
           task'[o] = Idle \/ /\ task'[o].actor = task[o].actor
                              /\ task'[o].who = task[o].who /\ task'[o].call = task[o].call,
           KeptOf(o)',
           \A b \in Ids : live'[b] \in {live[b], Nobody}
                          \/ (live'[b] = task[o].who /\ task[o].actor = b),
           promised' \subseteq promised
               \/ (Restoring(o) /\ promised' \subseteq promised \cup {task[o].who}
                   /\ task[o].actor \in Ids /\ snapshot[task[o].actor] = task[o].who)
    PROVE  Owned' /\ OneBearer' /\ Lone' /\ Kept' /\ Written' /\ NobodyIsLost'
<1>1. Owned'
  <2>1. \A b \in Ids : \A v : Owns(b, v) => Owns(b, v)'
    BY DEF Owns
  <2>2. \A b \in Ids : Owns(b, live[b])'
    BY DEF PInv, Owned, Owns
  <2>3. \A t \in Tasks : task'[t].who # Nobody => task'[t].actor \in Ids /\ Owns(task[t].actor, task[t].who)'
    <3>1. TAKE t \in Tasks
    <3>2. task'[t] = Idle \/ (task'[t].actor = task[t].actor /\ task'[t].who = task[t].who)
      BY DEF Idle
    <3> QED BY <3>2 DEF PInv, Owned, Owns, Idle
  <2> QED BY <2>1, <2>2, <2>3 DEF PInv, Owned
<1>2. OneBearer'
  BY DEF PInv, OneBearer
<1>3. Lone'
  BY DEF PInv, Lone, Restoring, Idle
<1>4. Kept'
  <2>1. ASSUME NEW t \in Tasks \ {o}, Restoring(t)' PROVE FALSE
    BY <2>1 DEF PInv, Lone, Restoring
  <2> QED BY <2>1 DEF Kept, KeptOf
<1>5. Written'
  BY DEF PInv, Written, WrittenOf
<1>6. NobodyIsLost'
  BY DEF PInv, NobodyIsLost
<1> QED BY <1>1, <1>2, <1>3, <1>4, <1>5, <1>6

LEMMA KeepCreation ==
    ASSUME PInv, NEW o \in Tasks, NEW a \in Ids,
           \/ Register(o, a) \/ Attached(o, a) \/ Created(o, a) \/ CreationFails(o, a)
    PROVE  Owned' /\ OneBearer' /\ Lone' /\ Kept' /\ Written' /\ NobodyIsLost'
<1>1. task \in [Tasks -> Task] /\ task[o] \in Task /\ live \in [Ids -> Individuals \cup {Nobody}]
  BY DEF PInv, IInv, TypeOK
<1>2. KeptOf(o)
  BY DEF PInv, Kept
<1>3. CASE Register(o, a)
  <2>1. /\ task[o].actor = a /\ task[o].at = "preparing"
        /\ UNCHANGED <<snapshot, born, used, frame>>
        /\ live' = [live EXCEPT ![a] = task[o].who]
        /\ promised' = promised \ {task[o].who}
        /\ \E place \in {"recording", "attaching"} : task' = [task EXCEPT ![o].at = place]
    BY <1>3 DEF Register, At, Moves, history
  <2>2. /\ task'[o].actor = a /\ task'[o].who = task[o].who /\ task'[o].call = task[o].call
        /\ \A t \in Tasks \ {o} : task'[t] = task[t]
    BY <1>1, <2>1 DEF Task
  <2>3. KeptOf(o)'
    BY <1>2, <2>1, <2>2 DEF KeptOf, Restoring
  <2>4. task[o] # Idle
    BY <2>1 DEF Idle
  <2> QED BY <1>1, <2>1, <2>2, <2>3, <2>4, CallKeeps
<1>4. CASE Attached(o, a)
  <2>1. /\ task[o].actor = a /\ task[o].at = "attaching" /\ UNCHANGED <<live, snapshot, born, used, promised, frame>>
        /\ task' = [task EXCEPT ![o].at = "recording"]
    BY <1>4 DEF Attached, At, Moves, history
  <2>2. /\ task'[o].actor = a /\ task'[o].who = task[o].who /\ task'[o].call = task[o].call
        /\ \A t \in Tasks \ {o} : task'[t] = task[t]
    BY <1>1, <2>1 DEF Task
  <2>3. KeptOf(o)'
    BY <1>2, <2>1, <2>2 DEF KeptOf, Restoring
  <2>4. task[o] # Idle
    BY <2>1 DEF Idle
  <2> QED BY <1>1, <2>1, <2>2, <2>3, <2>4, CallKeeps
<1>5. CASE Created(o, a)
  <2>1. task[o].actor = a /\ task[o].at = "recording" /\ UNCHANGED <<live, snapshot, born, used, promised, frame>>
    BY <1>5 DEF Created, At, history
  <2>2. task[o] # Idle
    BY <2>1 DEF Idle
  <2>3. CASE task' = [task EXCEPT ![o].at = "deleting"]
    <3>1. /\ task'[o].actor = a /\ task'[o].who = task[o].who /\ task'[o].call = task[o].call
          /\ \A t \in Tasks \ {o} : task'[t] = task[t]
      BY <1>1, <2>1, <2>3 DEF Task
    <3>2. KeptOf(o)'
      BY <1>2, <2>1, <3>1 DEF KeptOf, Restoring
    <3> QED BY <1>1, <2>1, <2>2, <3>1, <3>2, CallKeeps
  <2>4. CASE Ends(o)
    <3>1. task'[o] = Idle /\ \A t \in Tasks \ {o} : task'[t] = task[t]
      BY <1>1, <2>4 DEF Ends
    <3>2. KeptOf(o)'
      BY <3>1 DEF KeptOf, Restoring, Idle
    <3> QED BY <1>1, <2>1, <2>2, <3>1, <3>2, CallKeeps
  <2> QED BY <1>5, <2>3, <2>4 DEF Created, Moves
<1>6. CASE CreationFails(o, a)
  <2>1. /\ task[o].actor = a /\ task[o].at \in {"preparing", "attaching", "recording"}
        /\ UNCHANGED <<snapshot, born, used, frame>>
        /\ promised' = IF Restoring(o) THEN promised \cup {task[o].who} ELSE promised
        /\ Ends(o)
    BY <1>6 DEF CreationFails, At, history, Restoring
  <2>2. \A b \in Ids : live'[b] \in {live[b], Nobody}
    BY <1>1, <1>6 DEF CreationFails
  <2>3. task'[o] = Idle /\ \A t \in Tasks \ {o} : task'[t] = task[t]
    BY <1>1, <2>1 DEF Ends
  <2>4. KeptOf(o)'
    BY <2>3 DEF KeptOf, Restoring, Idle
  <2>5. task[o] # Idle
    BY <2>1 DEF Idle
  <2>6. Restoring(o) => task[o].actor \in Ids /\ snapshot[task[o].actor] = task[o].who
    BY <1>2, <2>1 DEF KeptOf
  <2> QED BY <2>1, <2>2, <2>3, <2>4, <2>5, <2>6, CallKeeps
<1> QED BY <1>3, <1>4, <1>5, <1>6

LEMMA KeepRestore ==
    ASSUME PInv, CarefulClients, NEW o \in Tasks, NEW a \in Ids,
           \/ BeginRestore(o, a) \/ SnapshotRead(o, a) \/ RestoreRefused(o, a)
           \/ DeleteSnapshot(o, a) \/ MarkRestored(o, a)
    PROVE  Owned' /\ OneBearer' /\ Lone' /\ Kept' /\ Written' /\ NobodyIsLost'
<1>1. task \in [Tasks -> Task] /\ task[o] \in Task /\ snapshot \in [Ids -> Individuals \cup {Nobody}]
  BY DEF PInv, IInv, TypeOK
<1>2. KeptOf(o)
  BY DEF PInv, Kept
<1>3. CASE BeginRestore(o, a)
  <2>1. /\ \A t \in Tasks : task[t] = Idle
        /\ task' = [task EXCEPT ![o] = [call |-> "restore", actor |-> a, who |-> Nobody, at |-> "start"]]
        /\ UNCHANGED <<live, snapshot, frame, promised, born, used>>
    BY <1>3 DEF BeginRestore, CarefulClients, history
  <2>2. Owned'
    BY <1>1, <2>1 DEF PInv, Owned, Owns
  <2>3. OneBearer' /\ Written' /\ NobodyIsLost'
    BY <2>1 DEF PInv, OneBearer, Written, WrittenOf, NobodyIsLost
  <2>4. Lone' /\ Kept'
    BY <1>1, <2>1 DEF Lone, Kept, KeptOf, Restoring, Idle
  <2> QED BY <2>2, <2>3, <2>4
<1>4. CASE SnapshotRead(o, a)
  <2>1. /\ Restoring(o) /\ task[o].actor = a /\ snapshot[a] # Nobody
        /\ task' = [task EXCEPT ![o].who = snapshot[a], ![o].at = "preparing"]
        /\ UNCHANGED <<live, snapshot, frame, promised, born>> /\ used' = used \cup {a}
    BY <1>4 DEF SnapshotRead, Restoring, At, Restorable
  <2>2. /\ task'[o].call = "restore" /\ task'[o].actor = a /\ task'[o].who = snapshot[a]
        /\ task'[o].at = "preparing" /\ \A t \in Tasks \ {o} : task'[t] = task[t]
    BY <1>1, <2>1 DEF Task, Restoring
  <2>3. Owned'
    <3>1. \A b \in Ids : \A v : Owns(b, v)' <=> Owns(b, v)
      BY <2>1 DEF Owns
    <3>2. \A b \in Ids : Owns(b, live[b])' /\ Owns(b, snapshot[b])'
      BY <2>1, <3>1 DEF PInv, Owned
    <3>3. \A t \in Tasks, b \in Ids : Owns(b, frame[t][b].who)'
      BY <2>1, <3>1 DEF PInv, Owned
    <3>4. task'[o].actor \in Ids /\ Owns(task[o].actor, task[o].who)'
      BY <2>1, <2>2, <3>2 DEF PInv, Owned
    <3>5. \A t \in Tasks \ {o} :
             task'[t].who # Nobody => task'[t].actor \in Ids /\ Owns(task[t].actor, task[t].who)'
      BY <2>2, <3>1 DEF PInv, Owned
    <3> QED BY <3>2, <3>3, <3>4, <3>5 DEF Owned
  <2>4. OneBearer' /\ Written' /\ NobodyIsLost'
    BY <2>1 DEF PInv, OneBearer, Written, WrittenOf, NobodyIsLost
  <2>5. \A t \in Tasks \ {o} : task'[t] = Idle /\ ~Restoring(t)'
    <3>1. \A t \in Tasks \ {o} : task[t] = Idle
      BY <2>1 DEF PInv, Lone
    <3> QED BY <2>2, <3>1 DEF Restoring, Idle
  <2>6. Lone' /\ Kept'
    <3>1. KeptOf(o)'
      BY <2>1, <2>2 DEF KeptOf
    <3>2. Lone'
      BY <2>5 DEF Lone
    <3>3. Kept'
      BY <2>5, <3>1 DEF Kept, KeptOf
    <3> QED BY <3>2, <3>3
  <2> QED BY <2>3, <2>4, <2>6
<1>5. CASE RestoreRefused(o, a) \/ MarkRestored(o, a)
  <2>1. /\ task[o] # Idle /\ UNCHANGED <<live, snapshot, frame, promised, born, used>> /\ Ends(o)
    BY <1>5 DEF RestoreRefused, MarkRestored, At, Idle, history
  <2>2. task'[o] = Idle /\ \A t \in Tasks \ {o} : task'[t] = task[t]
    BY <1>1, <2>1 DEF Ends
  <2>3. KeptOf(o)'
    BY <2>2 DEF KeptOf, Restoring, Idle
  <2> QED BY <2>1, <2>2, <2>3, CallKeeps
<1>6. CASE DeleteSnapshot(o, a)
  <2>1. /\ task[o].actor = a /\ task[o].at = "deleting"
        /\ snapshot' = [snapshot EXCEPT ![a] = Nobody]
        /\ task' = [task EXCEPT ![o].at = "marking"]
        /\ UNCHANGED <<live, frame, promised, born, used>>
    BY <1>6 DEF DeleteSnapshot, At, Moves, history
  <2>2. /\ Restoring(o) /\ snapshot[a] = task[o].who /\ task[o].who \notin promised
    BY <1>2, <2>1 DEF KeptOf, Restoring, PInv, IInv, Shape
  <2>3. /\ task'[o].call = "restore" /\ task'[o].actor = a /\ task'[o].who = task[o].who
        /\ task'[o].at = "marking" /\ \A t \in Tasks \ {o} : task'[t] = task[t]
    BY <1>1, <2>1, <2>2 DEF Task, Restoring
  <2>4. Owned'
    BY <1>1, <2>1, <2>3 DEF PInv, Owned, Owns
  <2>5. OneBearer'
    BY <2>1 DEF PInv, OneBearer
  <2>6. \A t \in Tasks \ {o} : task'[t] = Idle
    BY <2>2, <2>3 DEF PInv, Lone
  <2>7. Lone' /\ Kept'
    <3>1. \A t \in Tasks \ {o} : ~Restoring(t)'
      BY <2>6 DEF Restoring, Idle
    <3>2. Lone'
      BY <2>6, <3>1 DEF Lone
    <3>3. Kept'
      BY <2>3, <3>1 DEF Kept, KeptOf
    <3> QED BY <3>2, <3>3
  <2>8. Written'
    BY <2>1, <2>2, NoFramesWhileRestoring DEF Written, WrittenOf
  <2>9. NobodyIsLost'
    BY <1>1, <2>1, <2>2 DEF PInv, NobodyIsLost
  <2> QED BY <2>4, <2>5, <2>7, <2>8, <2>9
<1> QED BY <1>3, <1>4, <1>5, <1>6

LEMMA KeepRuns ==
    ASSUME PInv, CarefulClients, NEW o \in Tasks, NEW a \in Ids, NEW call \in {"succeed", "fail"},
           EndRun(o, a, call) \/ EndStaleRun(o, a)
    PROVE  Owned' /\ OneBearer' /\ Lone' /\ Kept' /\ Written' /\ NobodyIsLost'
<1>1. \A t \in Tasks : ~Restoring(t)
  BY DEF EndRun, EndStaleRun, MayCall, CarefulClients, Restoring
<1>2. /\ UNCHANGED <<live, snapshot, frame, promised, born, used>>
      /\ \E c \in {"succeed", "fail"} : task' = [task EXCEPT ![o] =
              [call |-> c, actor |-> a, who |-> Nobody, at |-> "start"]]
  BY DEF EndRun, EndStaleRun, history
<1>3. /\ task'[o].call # "restore" /\ task'[o].who = Nobody
      /\ \A t \in Tasks \ {o} : task'[t] = task[t]
  BY <1>2 DEF PInv, IInv, TypeOK
<1>4. \A b \in Ids : WrittenOf(o, b)'
  BY <1>2 DEF PInv, Written, WrittenOf
<1> QED BY <1>1, <1>2, <1>3, <1>4, DecisionKeeps

LEMMA KeepDecide ==
    ASSUME PInv, NEW o \in Tasks, NEW a \in Ids, NEW action \in Actions, NEW cascade \in BOOLEAN,
           \A t \in Tasks : ~Restoring(t), UNCHANGED <<live, snapshot, promised, born, used>>,
           Decide(o, a, action, cascade) \/ (Ends(o) /\ UNCHANGED frame)
    PROVE  Owned' /\ OneBearer' /\ Lone' /\ Kept' /\ Written' /\ NobodyIsLost'
<1>1. frame \in [Tasks -> [Ids -> Frame]] /\ task \in [Tasks -> Task]
  BY DEF PInv, IInv, TypeOK
<1>2. \A b \in Ids : WrittenOf(o, b)
  BY DEF PInv, Written
<1>3. CASE Ends(o) /\ UNCHANGED frame
  <2>1. task'[o] = Idle /\ \A t \in Tasks \ {o} : task'[t] = task[t]
    BY <1>1, <1>3 DEF Ends
  <2>2. \A b \in Ids : WrittenOf(o, b)'
    BY <1>2, <1>3 DEF WrittenOf
  <2> QED BY <1>3, <2>1, <2>2, DecisionKeeps DEF Idle
<1>4. CASE Settles(o)
  <2>1. /\ task'[o] = Idle /\ \A t \in Tasks \ {o} : task'[t] = task[t] /\ frame'[t] = frame[t]
        /\ \A b \in Ids : frame'[o][b] = NoFrame
    BY <1>1, <1>4 DEF Settles, Ends, NoFrames
  <2>2. \A b \in Ids : WrittenOf(o, b)' /\ frame'[o][b].who = Nobody
    BY <2>1 DEF WrittenOf, NoFrame
  <2> QED BY <2>1, <2>2, DecisionKeeps DEF Idle
<1>5. CASE /\ action \in {"release", "persist"}
           /\ task' = [task EXCEPT ![o] =
                  [call |-> "decide", actor |-> a, who |-> Nobody, at |-> "start"]]
           /\ frame' = [frame EXCEPT ![o][a] = Begun(a, action, cascade)]
  <2>1. /\ task'[o].call = "decide" /\ task'[o].who = Nobody
        /\ \A t \in Tasks \ {o} : task'[t] = task[t] /\ frame'[t] = frame[t]
        /\ \A b \in Ids : frame'[o][b] = IF b = a THEN Begun(a, action, cascade) ELSE frame[o][b]
    BY <1>1, <1>5
  <2>2. /\ Begun(a, action, cascade).who = live[a]
        /\ Begun(a, action, cascade).at = "writing" \/ Begun(a, action, cascade).action = "release"
    BY <1>5 DEF Begun, Writing, Cascading
  <2>3. \A b \in Ids : frame'[o][b].who \in {frame[o][b].who, live[b]}
    BY <2>1, <2>2
  <2>4. \A b \in Ids : WrittenOf(o, b)'
    BY <1>2, <2>1, <2>2 DEF WrittenOf
  <2> QED BY <2>1, <2>3, <2>4, DecisionKeeps
<1> QED BY <1>3, <1>4, <1>5 DEF Decide

\* A call that has ended its actor's run, or has decided, restores nothing.
LEMMA NoRestoreBeside ==
    ASSUME PInv, NEW o \in Tasks, task[o].call \in {"succeed", "fail", "decide"}
    PROVE  \A t \in Tasks : ~Restoring(t)
BY DEF PInv, Lone, Restoring, Idle

LEMMA KeepDecisions ==
    ASSUME PInv, CarefulClients, NEW o \in Tasks, NEW a \in Ids,
           NEW action \in Actions, NEW cascade \in BOOLEAN,
           SetActorLifecycle(o, a, action, cascade) \/ Finalize(o, a)
    PROVE  Owned' /\ OneBearer' /\ Lone' /\ Kept' /\ Written' /\ NobodyIsLost'
<1>1. CASE SetActorLifecycle(o, a, action, cascade)
  <2>1. \A t \in Tasks : ~Restoring(t)
    BY <1>1 DEF SetActorLifecycle, MayCall, CarefulClients, Restoring
  <2> QED BY <1>1, <2>1, KeepDecide DEF SetActorLifecycle, history
<1>2. CASE Finalize(o, a)
  <2>1. \A t \in Tasks : ~Restoring(t)
    BY <1>2, NoRestoreBeside DEF Finalize
  <2>2. ResolveAction(a, task[o].call) \in Actions /\ Policy[a].cascade \in BOOLEAN
    BY <1>2, NamesAssumption DEF Finalize, ResolveAction, Actions
  <2>3. UNCHANGED <<live, snapshot, promised, born, used>>
    BY <1>2 DEF Finalize, history
  <2>4. CASE Ends(o) /\ UNCHANGED frame
    BY <2>1, <2>2, <2>3, <2>4, KeepDecide
  <2>5. CASE Decide(o, a, ResolveAction(a, task[o].call), Policy[a].cascade)
    BY <2>1, <2>2, <2>3, <2>5, KeepDecide
  <2> QED BY <1>2, <2>4, <2>5 DEF Finalize
<1> QED BY <1>1, <1>2

LEMMA KeepSettles ==
    ASSUME PInv, NEW o \in Tasks, task[o].call = "decide", Settles(o),
           UNCHANGED <<snapshot, born, used>>,
           \A b \in Ids : live'[b] \in {live[b], Nobody},
           \A v \in promised' \ promised : \E b \in Ids : snapshot[b] = v
    PROVE  Owned' /\ OneBearer' /\ Lone' /\ Kept' /\ Written' /\ NobodyIsLost'
<1>1. \A t \in Tasks : ~Restoring(t)
  BY NoRestoreBeside
<1>2. /\ task'[o] = Idle /\ \A t \in Tasks \ {o} : task'[t] = task[t] /\ frame'[t] = frame[t]
      /\ \A b \in Ids : frame'[o][b] = NoFrame
  BY DEF PInv, IInv, TypeOK, Settles, Ends, NoFrames
<1>3. \A b \in Ids : WrittenOf(o, b)' /\ frame'[o][b].who = Nobody
  BY <1>2 DEF WrittenOf, NoFrame
<1> QED BY <1>1, <1>2, <1>3, DecisionKeeps DEF Idle

\* The snapshot of an actor overwrites only an older one of the same actor.
LEMMA KeepSnapshot ==
    ASSUME PInv, NEW o \in Tasks, NEW a \in Ids, WriteSnapshot(o, a) \/ WriteFails(o, a)
    PROVE  Owned' /\ OneBearer' /\ Lone' /\ Kept' /\ Written' /\ NobodyIsLost'
<1>1. task[o].call = "decide"
  BY DEF PInv, IInv, Shape, WriteSnapshot, WriteFails
<1>2. \A t \in Tasks : ~Restoring(t)
  BY <1>1, NoRestoreBeside
<1>3. CASE WriteSnapshot(o, a)
  <2> DEFINE who == frame[o][a].who
             next == Cascading(a, "persist", who, frame[o][a].cascade)
  <2>1. /\ frame[o][a].at = "writing"
        /\ snapshot' = [snapshot EXCEPT ![a] = who]
        /\ frame' = [frame EXCEPT ![o][a] = next]
        /\ UNCHANGED <<live, task, promised, born, used>>
    BY <1>3 DEF WriteSnapshot, history
  <2>2. /\ who \in Bearers[a] \cap born
        /\ snapshot[a] \in {who, Nobody}
    BY <2>1 DEF PInv, IInv, Shape, Owned, Owns, OneBearer
  <2>3. next.who = who
    BY DEF Cascading
  <2>4. /\ \A t \in Tasks \ {o} : frame'[t] = frame[t]
        /\ \A b \in Ids : frame'[o][b] = IF b = a THEN next ELSE frame[o][b]
    BY <2>1 DEF PInv, IInv, TypeOK
  <2>5. \A b \in Ids : snapshot'[b] = IF b = a THEN who ELSE snapshot[b]
    BY <2>1 DEF PInv, IInv, TypeOK
  <2>6. \A t \in Tasks, b \in Ids : Owns(b, frame[t][b].who)'
    BY <2>1, <2>3, <2>4 DEF PInv, Owned, Owns
  <2>7. Owned'
    BY <2>1, <2>2, <2>5, <2>6 DEF PInv, Owned, Owns
  <2>8. OneBearer' /\ Lone' /\ Kept'
    BY <1>2, <2>1 DEF PInv, OneBearer, Lone, Kept, KeptOf, Restoring
  <2>9. Written'
    <3>1. \A b \in Ids : WrittenOf(o, b)'
      BY <2>3, <2>4, <2>5 DEF PInv, Written, WrittenOf
    <3>2. \A t \in Tasks \ {o}, b \in Ids : WrittenOf(t, b)'
      <4>1. SUFFICES ASSUME NEW t \in Tasks \ {o}, NEW b \in Ids,
                            frame[t][b].at \in {"cascading", "cleaning"}, frame[t][b].action = "persist"
                     PROVE  snapshot'[b] = frame[t][b].who
        BY <2>4 DEF WrittenOf
      <4>2. snapshot[b] = frame[t][b].who
        BY <4>1 DEF PInv, Written, WrittenOf
      <4>3. frame[t][b].who # Nobody
        BY <4>1 DEF PInv, IInv, Shape
      <4> QED BY <2>2, <2>5, <4>2, <4>3
    <3> QED BY <3>1, <3>2 DEF Written
  <2>10. NobodyIsLost'
    <3>1. \A v \in promised : v # Nobody
      BY NamesAssumption DEF PInv, IInv, TypeOK
    <3> QED BY <2>1, <2>2, <2>5, <3>1 DEF PInv, NobodyIsLost
  <2> QED BY <2>7, <2>8, <2>9, <2>10
<1>4. CASE WriteFails(o, a)
  BY <1>1, <1>4, KeepSettles DEF WriteFails, history
<1> QED BY <1>3, <1>4

LEMMA KeepCascade ==
    ASSUME PInv, NEW o \in Tasks, NEW a \in Ids, NEW c \in Ids,
           SkipChild(o, a, c) \/ DecideChild(o, a, c) \/ CleanUp(o, a)
    PROVE  Owned' /\ OneBearer' /\ Lone' /\ Kept' /\ Written' /\ NobodyIsLost'
<1>1. task[o].call = "decide" /\ \A t \in Tasks : ~Restoring(t)
  BY NoRestoreBeside DEF PInv, IInv, Shape, SkipChild, DecideChild, CleanUp, Proceeding
<1>2. frame \in [Tasks -> [Ids -> Frame]] /\ frame[o] \in [Ids -> Frame] /\ frame[o][a] \in Frame
  BY DEF PInv, IInv, TypeOK
<1>4. \A b \in Ids : WrittenOf(o, b)
  BY DEF PInv, Written
<1>5. CASE \E changed \in Frame :
              /\ UNCHANGED <<live, snapshot, task, promised, born, used>>
              /\ frame[o][a].at \in {"cascading", "cleaning"}
              /\ changed.who = frame[o][a].who /\ changed.action = frame[o][a].action
              /\ \A t \in Tasks \ {o} : frame'[t] = frame[t]
              /\ \A b \in Ids : frame'[o][b] = IF b = a THEN changed ELSE frame[o][b]
  BY <1>1, <1>4, <1>5, DecisionKeeps DEF WrittenOf
<1>6. CASE SkipChild(o, a, c)
  <2>1. [frame[o][a] EXCEPT !.todo = frame[o][a].todo \ {c}] \in Frame
    BY <1>2 DEF Frame
  <2> QED BY <1>2, <1>5, <1>6, <2>1 DEF SkipChild, Proceeding, history, Frame
<1>7. CASE CleanUp(o, a)
  <2>1. [frame[o][a] EXCEPT !.at = "cleaning"] \in Frame
    BY <1>2 DEF Frame
  <2> QED BY <1>2, <1>5, <1>7, <2>1 DEF CleanUp, Proceeding, history, Frame
<1>8. CASE DecideChild(o, a, c)
  <2> DEFINE action == ActionFor(a, frame[o][a].action)
  <2>1. UNCHANGED <<live, record, snapshot, run, promised, born, used>>
    BY <1>8 DEF DecideChild, history
  <2>2. CASE Settles(o)
    BY <1>1, <2>1, <2>2, KeepSettles
  <2>3. CASE /\ frame' = [frame EXCEPT ![o][a].todo = @ \ {c}, ![o][a].awaits = c,
                                       ![o][c] = Begun(c, action, TRUE)]
             /\ UNCHANGED task
    <3>1. action \in {"release", "persist"}
      BY <1>2 DEF ActionFor, Frame
    <3>2. /\ Begun(c, action, TRUE).who = live[c]
          /\ Begun(c, action, TRUE).at = "writing" \/ Begun(c, action, TRUE).action = "release"
      BY <3>1 DEF Begun, Writing, Cascading
    <3>3. /\ \A t \in Tasks \ {o} : frame'[t] = frame[t]
          /\ \A b \in Ids : frame'[o][b] =
                IF b = c THEN Begun(c, action, TRUE)
                ELSE IF b = a THEN [frame[o][a] EXCEPT !.todo = frame[o][a].todo \ {c}, !.awaits = c]
                ELSE frame[o][b]
      BY <1>2, <2>3
    <3>4. /\ [frame[o][a] EXCEPT !.todo = frame[o][a].todo \ {c}, !.awaits = c].who = frame[o][a].who
          /\ [frame[o][a] EXCEPT !.todo = frame[o][a].todo \ {c}, !.awaits = c].at = frame[o][a].at
          /\ [frame[o][a] EXCEPT !.todo = frame[o][a].todo \ {c}, !.awaits = c].action = frame[o][a].action
      BY <1>2 DEF Frame
    <3>5. \A b \in Ids : frame'[o][b].who \in {frame[o][b].who, live[b]} /\ WrittenOf(o, b)'
      <4>1. TAKE b \in Ids
      <4>2. CASE b = c
        <5>1. frame'[o][b] = Begun(c, action, TRUE)
          BY <3>3, <4>2
        <5> QED BY <3>2, <4>2, <5>1 DEF WrittenOf
      <4>3. CASE b # c
        <5>1. /\ frame'[o][b].who = frame[o][b].who /\ frame'[o][b].at = frame[o][b].at
              /\ frame'[o][b].action = frame[o][b].action
          BY <3>3, <3>4, <4>3
        <5> QED BY <1>4, <2>1, <5>1 DEF WrittenOf
      <4> QED BY <4>2, <4>3
    <3> QED BY <1>1, <2>1, <2>3, <3>3, <3>5, DecisionKeeps
  <2> QED BY <1>8, <2>2, <2>3 DEF DecideChild
<1> QED BY <1>6, <1>7, <1>8

\* An actor is promised to be on disk when its decision is over, and is.
LEMMA KeepRelease ==
    ASSUME PInv, NEW o \in Tasks, NEW a \in Ids, frame[o][a].at \in {"cascading", "cleaning"},
           Release(o, a)
    PROVE  Owned' /\ OneBearer' /\ Lone' /\ Kept' /\ Written' /\ NobodyIsLost'
<1>1. task[o].call = "decide" /\ \A t \in Tasks : ~Restoring(t)
  BY NoRestoreBeside DEF PInv, IInv, Shape
<1>2. frame \in [Tasks -> [Ids -> Frame]] /\ frame[o] \in [Ids -> Frame]
  BY DEF PInv, IInv, TypeOK
<1>3. \A b \in Ids : WrittenOf(o, b)
  BY DEF PInv, Written
<1>4. (\A b \in Ids : live'[b] \in {live[b], Nobody}) /\ UNCHANGED <<snapshot, born, used>>
  BY DEF PInv, IInv, TypeOK, Release, Removed, history
<1>5. \A v \in promised' \ promised : \E b \in Ids : snapshot[b] = v
  <2>1. frame[o][a].action = "persist" => snapshot[a] = frame[o][a].who
    BY <1>3 DEF WrittenOf
  <2> QED BY <2>1 DEF Release, Applied
<1>6. CASE Settles(o)
  BY <1>1, <1>4, <1>5, <1>6, KeepSettles
<1>7. CASE Resumes(o, a, {d \in Ids : frame[o][d].awaits = a})
  <2>1. /\ \A t \in Tasks \ {o} : frame'[t] = frame[t]
        /\ UNCHANGED task
        /\ \A b \in Ids : frame'[o][b] \in {NoFrame, frame[o][b], [frame[o][b] EXCEPT !.awaits = NoId]}
    BY <1>2, <1>7 DEF Resumes
  <2>2. \A b \in Ids :
            /\ [frame[o][b] EXCEPT !.awaits = NoId].who = frame[o][b].who
            /\ [frame[o][b] EXCEPT !.awaits = NoId].at = frame[o][b].at
            /\ [frame[o][b] EXCEPT !.awaits = NoId].action = frame[o][b].action
    BY <1>2 DEF Frame
  <2>3. \A b \in Ids : frame'[o][b].who \in {frame[o][b].who, Nobody} /\ WrittenOf(o, b)'
    <3>1. TAKE b \in Ids
    <3>2. CASE frame'[o][b] = NoFrame
      BY <3>2 DEF WrittenOf, NoFrame
    <3>3. CASE frame'[o][b] # NoFrame
      <4>1. /\ frame'[o][b].who = frame[o][b].who /\ frame'[o][b].at = frame[o][b].at
            /\ frame'[o][b].action = frame[o][b].action
        BY <2>1, <2>2, <3>3
      <4> QED BY <1>3, <1>4, <4>1 DEF WrittenOf
    <3> QED BY <3>2, <3>3
  <2> QED BY <1>1, <1>4, <1>5, <2>1, <2>3, DecisionKeeps
<1> QED BY <1>6, <1>7 DEF Release, Applied

LEMMA KeepRestart ==
    ASSUME PInv, CarefulClients, Restart
    PROVE  Owned' /\ OneBearer' /\ Lone' /\ Kept' /\ Written' /\ NobodyIsLost'
<1>1. /\ \A a \in Ids : live'[a] = Nobody
      /\ \A o \in Tasks : task'[o] = Idle /\ \A a \in Ids : frame'[o][a] = NoFrame
      /\ used' = Ids /\ UNCHANGED <<snapshot, born, promised>>
  BY DEF Restart, NoFrames, CarefulClients
<1>2. Owned'
  BY <1>1 DEF PInv, Owned, Owns, Idle, NoFrame
<1>3. OneBearer' /\ NobodyIsLost'
  BY <1>1 DEF PInv, OneBearer, NobodyIsLost
<1>4. Lone' /\ Kept' /\ Written'
  BY <1>1 DEF Lone, Kept, KeptOf, Written, WrittenOf, Restoring, Idle, NoFrame
<1> QED BY <1>2, <1>3, <1>4

LEMMA KeepNext == ASSUME PInv, CarefulClients, Next PROVE PInv'
<1> DEFINE Goal == Owned' /\ OneBearer' /\ Lone' /\ Kept' /\ Written' /\ NobodyIsLost'
<1>1. ASSUME NEW o \in Tasks, NEW a \in Ids, Begin(o, a) PROVE Goal
  <2>1. ASSUME NEW who \in Bearers[a], BeginSpawn(o, a, who) PROVE Goal
    BY <2>1, KeepSpawn
  <2>2. CASE BeginRestore(o, a)
    BY <2>2, KeepRestore
  <2>3. ASSUME NEW call \in {"succeed", "fail"}, EndRun(o, a, call) \/ EndStaleRun(o, a) PROVE Goal
    BY <2>3, KeepRuns
  <2>4. ASSUME NEW action \in Actions, NEW cascade \in BOOLEAN, SetActorLifecycle(o, a, action, cascade)
        PROVE Goal
    BY <2>4, KeepDecisions
  <2> QED BY <1>1, <2>1, <2>2, <2>3, <2>4 DEF Begin
<1>2. ASSUME NEW o \in Tasks, NEW a \in Ids, Continue(o, a) PROVE Goal
  <2>1. CASE Register(o, a) \/ Attached(o, a) \/ Created(o, a)
    BY <2>1, KeepCreation
  <2>2. CASE SnapshotRead(o, a) \/ RestoreRefused(o, a) \/ DeleteSnapshot(o, a) \/ MarkRestored(o, a)
    BY <2>2, KeepRestore
  <2>3. CASE Finalize(o, a)
    <3>1. "release" \in Actions /\ TRUE \in BOOLEAN
      BY DEF Actions
    <3> QED BY <2>3, <3>1, KeepDecisions
  <2>4. CASE WriteSnapshot(o, a)
    BY <2>4, KeepSnapshot
  <2>5. CASE ReleaseAgent(o, a) \/ ReleaseAtOnce(o, a)
    BY <2>5, KeepRelease DEF ReleaseAgent, ReleaseAtOnce, Proceeding
  <2>6. ASSUME NEW c \in Ids, SkipChild(o, a, c) \/ DecideChild(o, a, c) PROVE Goal
    BY <2>6, KeepCascade
  <2>7. CASE CleanUp(o, a)
    BY <2>7, KeepCascade
  <2> QED BY <1>2, <2>1, <2>2, <2>3, <2>4, <2>5, <2>6, <2>7 DEF Continue, Proceed, Resume
<1>3. ASSUME NEW o \in Tasks, NEW a \in Ids, CreationFails(o, a) PROVE Goal
  BY <1>3, KeepCreation
<1>4. ASSUME NEW o \in Tasks, NEW a \in Ids, WriteFails(o, a) PROVE Goal
  BY <1>4, KeepSnapshot
<1>5. ASSUME NEW a \in Ids, StartRun(a) \/ AbandonRun(a) PROVE Goal
  BY <1>5, QuietKeeps DEF StartRun, AbandonRun, history
<1>6. ASSUME Restart PROVE Goal
  BY <1>6, KeepRestart
<1>7. Goal
  BY <1>1, <1>2, <1>3, <1>4, <1>5, <1>6 DEF Next
<1>8. IInv'
  BY StepNext DEF PInv
<1> QED BY <1>7, <1>8 DEF PInv

LEMMA CarefulInvariance == ASSUME CarefulClients PROVE Spec => []PInv
<1>1. Init => PInv
  <2>1. Init => IInv
    <3>1. Init => TypeOK
      BY IdsFacts DEF Init, TypeOK
    <3> QED BY <3>1 DEF Init, IInv, Shape, Settled, NoFrames, NoFrame, Idle
  <2>2. Init => Owned /\ OneBearer
    BY DEF Init, Owned, Owns, OneBearer, NoFrames, NoFrame, Idle
  <2>3. Init => Lone /\ Kept /\ Written /\ NobodyIsLost
    BY DEF Init, Lone, Kept, KeptOf, Restoring, Written, WrittenOf, NobodyIsLost, NoFrames, NoFrame, Idle
  <2> QED BY <2>1, <2>2, <2>3 DEF PInv
<1>2. PInv /\ [Next]_vars => PInv'
  <2>1. CASE Next
    BY <2>1, KeepNext
  <2>2. CASE UNCHANGED vars
    <3>1. PInv => Owned' /\ OneBearer' /\ Lone' /\ Kept' /\ Written' /\ NobodyIsLost'
      BY <2>2, QuietKeeps DEF vars
    <3> QED BY <2>2, <3>1, StutterKeeps DEF PInv
  <2> QED BY <2>1, <2>2
<1> QED BY <1>1, <1>2, PTL DEF Spec

\* Whatever fails and whenever the process ends, an actor reported as persisted
\* and not restored since is on disk, if clients let a restore run alone and
\* create nothing after a restart: else a second actor of the same id takes its
\* snapshot's place.
THEOREM NobodyLost == ASSUME CarefulClients PROVE Spec => []NobodyIsLost
<1>1. PInv => NobodyIsLost
  BY DEF PInv
<1> QED BY CarefulInvariance, <1>1, PTL

-----------------------------------------------------------------------------
\* A cascade leaves no child behind that it had to decide.  Ids are handed out
\* once, so that a child that was listed is not created under its way: what is
\* listed has a record, a spawn that is about to register has none, and a
\* restore runs alone (Lone).

Spawning(o, c) == task[o].call = "spawn" /\ task[o].actor = c /\ task[o].at # "start"
Early(o) == task[o].at \in {"preparing", "attaching"}
Unlisted(c) == \A o \in Tasks, a \in Ids : c \notin frame[o][a].listed
Left(c) == record[c].status = "none" \/ live[c] = Nobody

Numbered ==
    /\ \A c \in Ids : record[c].status # "none" => c \in used
    /\ \A o \in Tasks : task[o].at # "start" => task[o].actor \in used
    /\ \A o, t \in Tasks, c \in Ids : Spawning(o, c) /\ Spawning(t, c) => o = t
    /\ \A o \in Tasks, a \in Ids : frame[o][a].listed \subseteq used

Unrecorded ==
    \A o \in Tasks, c \in Ids : Spawning(o, c) /\ Early(o) =>
        record[c].status = "none" /\ Unlisted(c)

ThoroughAt(o, a) ==
    /\ \A c \in frame[o][a].listed :
          c \in frame[o][a].todo \/ frame[o][a].awaits = c \/ Left(c)
    /\ frame[o][a].at = "cleaning" => frame[o][a].todo = {} /\ frame[o][a].awaits = NoId
    /\ frame[o][a].at = "none" => frame[o][a].listed = {}
Thorough == \A o \in Tasks, a \in Ids : ThoroughAt(o, a)

CInv == Numbered /\ Unrecorded /\ Thorough

\* A step of a call that touches no decision.
LEMMA CallIsThorough ==
    ASSUME CInv, TypeOK, UNCHANGED frame, used \subseteq used',
           \A c \in Ids : record'[c].status # "none" => c \in used',
           \A o \in Tasks : task'[o].at # "start" => task'[o].actor \in used',
           \A o \in Tasks, c \in Ids : Spawning(o, c)' =>
              /\ Spawning(o, c)
              /\ Early(o)' => Early(o) /\ record'[c].status = "none",
           \A c \in Ids : Left(c) => Left(c)' \/ Unlisted(c)
    PROVE  CInv'
<1>1. Numbered'
  BY DEF CInv, Numbered
<1>2. Unrecorded'
  BY DEF CInv, Unrecorded, Unlisted
<1>3. Thorough'
  <2> SUFFICES ASSUME NEW o \in Tasks, NEW a \in Ids PROVE ThoroughAt(o, a)'
    BY DEF Thorough
  <2>1. frame[o][a].listed \subseteq Ids
    BY DEF CInv, Numbered, TypeOK
  <2>2. ThoroughAt(o, a) /\ \A c \in frame[o][a].listed : ~Unlisted(c)
    BY DEF CInv, Thorough, Unlisted
  <2> QED BY <2>1, <2>2 DEF ThoroughAt
<1> QED BY <1>1, <1>2, <1>3 DEF CInv

\* A step of the decisions of one call.
LEMMA DecisionIsThorough ==
    ASSUME CInv, TypeOK, NEW o \in Tasks, UNCHANGED used,
           \A t \in Tasks : task'[t] = task[t] \/ task'[t].at = "start",
           \A t \in Tasks \ {o} : frame'[t] = frame[t],
           \A c \in Ids : record'[c].status = "none" <=> record[c].status = "none",
           \A c \in Ids : live'[c] = live[c] \/ live'[c] = Nobody,
           \A b \in Ids : ThoroughAt(o, b)',
           \A b \in Ids : frame'[o][b].listed \subseteq Ids,
           \A b \in Ids : \A c \in frame'[o][b].listed :
              record[c].status # "none" \/ \E d \in Ids : c \in frame[o][d].listed
    PROVE  CInv'
<1>1. \A t \in Tasks, b \in Ids : \A c \in frame'[t][b].listed :
        record[c].status # "none" \/ \E u \in Tasks, d \in Ids : c \in frame[u][d].listed
  OBVIOUS
<1>2. \A t \in Tasks, c \in Ids : Spawning(t, c)' => Spawning(t, c) /\ task'[t] = task[t]
  BY DEF Spawning
<1>3. Numbered'
  <2>1. \A t \in Tasks, b \in Ids : \A c \in frame'[t][b].listed : c \in used
    <3> TAKE t \in Tasks, b \in Ids
    <3>1. CASE t = o
      BY <1>1, <3>1 DEF CInv, Numbered
    <3>2. CASE t # o
      BY <3>2 DEF CInv, Numbered
    <3> QED BY <3>1, <3>2
  <2> QED BY <1>2, <2>1 DEF CInv, Numbered
<1>4. Unrecorded'
  <2> SUFFICES ASSUME NEW t \in Tasks, NEW c \in Ids, Spawning(t, c)', Early(t)'
               PROVE  record'[c].status = "none" /\ Unlisted(c)'
    BY DEF Unrecorded
  <2>1. record[c].status = "none" /\ Unlisted(c)
    BY <1>2 DEF CInv, Unrecorded, Early
  <2> QED BY <1>1, <2>1 DEF Unlisted
<1>5. Thorough'
  <2>1. \A t \in Tasks \ {o}, b \in Ids : ThoroughAt(t, b)'
    <3> TAKE t \in Tasks \ {o}, b \in Ids
    <3>1. \A c \in Ids : Left(c) => Left(c)'
      BY DEF Left
    <3>2. frame[t][b].listed \subseteq Ids
      BY DEF CInv, Numbered, TypeOK
    <3>3. ThoroughAt(t, b) /\ frame'[t] = frame[t]
      BY DEF CInv, Thorough
    <3> QED BY <3>1, <3>2, <3>3 DEF ThoroughAt
  <2> QED BY <2>1 DEF Thorough
<1> QED BY <1>3, <1>4, <1>5 DEF CInv

LEMMA NobodyIsListed ==
    ASSUME PInv, CInv, NEW o \in Tasks, Restoring(o)
    PROVE  \A c \in Ids : Unlisted(c)
BY NoFramesWhileRestoring DEF CInv, Thorough, ThoroughAt, Unlisted

LEMMA ThoroughSpawn ==
    ASSUME CInv, TypeOK, NEW o \in Tasks, NEW a \in Ids, NEW who \in Bearers[a], BeginSpawn(o, a, who)
    PROVE  CInv'
<1>1. /\ task'[o].call = "spawn" /\ task'[o].actor = a /\ task'[o].at = "preparing"
      /\ \A t \in Tasks \ {o} : task'[t] = task[t]
      /\ used' = used \cup {a} /\ a \notin used
      /\ UNCHANGED <<live, record, frame>>
  BY DEF BeginSpawn, TypeOK
<1>2. \A c \in Ids : Unlisted(c)' <=> Unlisted(c)
  BY <1>1 DEF Unlisted
<1>3. record[a].status = "none" /\ Unlisted(a)
  BY <1>1 DEF CInv, Numbered, Unlisted
<1>4. \A t \in Tasks : ~Spawning(t, a)
  BY <1>1 DEF CInv, Numbered, Spawning
<1>5. \A t \in Tasks, c \in Ids : Spawning(t, c)' => IF t = o THEN c = a ELSE Spawning(t, c)
  BY <1>1 DEF Spawning
<1>6. Numbered'
  <2>1. \A t \in Tasks : task'[t].at # "start" => task'[t].actor \in used'
    BY <1>1 DEF CInv, Numbered
  <2>2. \A t, u \in Tasks, c \in Ids : Spawning(t, c)' /\ Spawning(u, c)' => t = u
    BY <1>4, <1>5 DEF CInv, Numbered
  <2> QED BY <1>1, <2>1, <2>2 DEF CInv, Numbered
<1>7. Unrecorded'
  <2> SUFFICES ASSUME NEW t \in Tasks, NEW c \in Ids, Spawning(t, c)', Early(t)'
               PROVE  record[c].status = "none" /\ Unlisted(c)
    BY <1>1, <1>2 DEF Unrecorded
  <2>1. CASE t = o
    BY <1>3, <1>5, <2>1
  <2>2. CASE t # o
    BY <1>1, <1>5, <2>2 DEF CInv, Unrecorded, Early
  <2> QED BY <2>1, <2>2
<1>8. Thorough'
  BY <1>1 DEF CInv, Thorough, ThoroughAt, Left
<1> QED BY <1>6, <1>7, <1>8 DEF CInv

LEMMA ThoroughCreation ==
    ASSUME PInv, CInv, NEW o \in Tasks, NEW a \in Ids,
           Register(o, a) \/ Attached(o, a) \/ Created(o, a) \/ CreationFails(o, a)
    PROVE  CInv'
<1>1. TypeOK /\ Shape
  BY DEF PInv, IInv
<1>2. /\ \A t \in Tasks \ {o} : task'[t] = task[t]
      /\ \/ task'[o] = Idle
         \/ /\ task'[o].call = task[o].call /\ task'[o].actor = task[o].actor
            /\ task'[o].at = "attaching" => Register(o, a) /\ a \notin Teams
            /\ task'[o].at # "preparing"
  <2>1. PICK place \in {"attaching", "recording", "deleting", "idle"} :
          /\ IF place = "idle" THEN Ends(o) ELSE Moves(o, place)
          /\ place = "attaching" => Register(o, a) /\ a \notin Teams
    BY DEF Register, Attached, Created, CreationFails
  <2>2. \A t \in Tasks \ {o} : task'[t] = task[t]
    BY <1>1, <2>1 DEF TypeOK, Moves, Ends
  <2>3. CASE place = "idle"
    BY <1>1, <2>1, <2>2, <2>3 DEF TypeOK, Ends
  <2>4. CASE place # "idle"
    <3>1. task'[o] = [task[o] EXCEPT !.at = place]
      BY <1>1, <2>1, <2>4 DEF TypeOK, Moves
    <3>2. task'[o].call = task[o].call /\ task'[o].actor = task[o].actor /\ task'[o].at = place
      BY <1>1, <3>1 DEF TypeOK, Task
    <3> QED BY <2>1, <2>2, <3>2
  <2> QED BY <2>3, <2>4
<1>3. task[o].at # "start" /\ task[o].actor = a /\ a \in used /\ task[o].call \in {"spawn", "restore"}
  BY <1>1 DEF Register, Attached, Created, CreationFails, At, Shape, CInv, Numbered
<1>4. UNCHANGED <<frame, used>> /\ \A c \in Ids \ {a} : record'[c] = record[c] /\ live'[c] = live[c]
  BY <1>1 DEF TypeOK, Register, Attached, Created, CreationFails, history
<1>5. Idle.call = "none" /\ Idle.at = "start"
  BY DEF Idle
<1>6. \A t \in Tasks : task'[t].at # "start" => task'[t].actor \in used'
  BY <1>2, <1>3, <1>4, <1>5 DEF CInv, Numbered
<1>7. \A c \in Ids : record'[c].status # "none" => c \in used'
  BY <1>3, <1>4 DEF CInv, Numbered
<1>8. \A t \in Tasks, c \in Ids : Spawning(t, c)' => Spawning(t, c)
  BY <1>2, <1>3, <1>5 DEF Spawning
<1>9. Left(a) => Left(a)' \/ Unlisted(a)
  <2>1. CASE Register(o, a) \/ Attached(o, a)
    <3>1. Early(o)
      BY <2>1 DEF Register, Attached, At, Early
    <3>2. CASE task[o].call = "spawn"
      BY <1>3, <3>1, <3>2 DEF CInv, Unrecorded, Spawning
    <3>3. CASE task[o].call = "restore"
      BY <3>3, NobodyIsListed DEF Restoring
    <3> QED BY <1>3, <3>2, <3>3
  <2>2. CASE Created(o, a)
    BY <2>2 DEF Created, Left
  <2>3. CASE CreationFails(o, a)
    <3>1. UNCHANGED live \/ live'[a] = Nobody
      BY <1>1, <2>3 DEF CreationFails, TypeOK
    <3>2. record'[a] = record[a] \/ record'[a].status = "none"
      BY <1>1, <2>3 DEF CreationFails, TypeOK, NoRecord
    <3> QED BY <3>1, <3>2 DEF Left
  <2> QED BY <2>1, <2>2, <2>3
<1>10. \A t \in Tasks, c \in Ids : Spawning(t, c)' /\ Early(t)' => Early(t) /\ record'[c].status = "none"
  <2> SUFFICES ASSUME NEW t \in Tasks, NEW c \in Ids, Spawning(t, c)', Early(t)'
               PROVE  Early(t) /\ record'[c].status = "none"
    OBVIOUS
  <2>1. CASE t = o
    <3>1. task'[o] # Idle
      BY <1>5, <2>1 DEF Spawning
    <3>2. Register(o, a) /\ a \notin Teams
      BY <1>2, <2>1, <3>1 DEF Early
    <3>3. Early(o)
      BY <3>2 DEF Register, At, Early
    <3>4. record' = record /\ c = a
      BY <1>3, <1>8, <2>1, <3>2 DEF Register, Spawning
    <3> QED BY <1>8, <2>1, <3>3, <3>4 DEF CInv, Unrecorded
  <2>2. CASE t # o
    <3>1. task'[t] = task[t] /\ Spawning(t, c) /\ Early(t)
      BY <1>2, <1>8, <2>2 DEF Early
    <3>2. c = a => task[o].call # "spawn"
      BY <1>3, <2>2, <3>1 DEF CInv, Numbered, Spawning
    <3>3. c = a => Restoring(o)
      BY <1>3, <3>2 DEF Restoring
    <3>4. c # a
      BY <2>2, <3>1, <3>3 DEF PInv, Lone, Spawning, Idle
    <3> QED BY <1>4, <3>1, <3>4 DEF CInv, Unrecorded
  <2> QED BY <2>1, <2>2
<1>11. \A c \in Ids : Left(c) => Left(c)' \/ Unlisted(c)
  BY <1>4, <1>9 DEF Left
<1> QED BY <1>1, <1>4, <1>6, <1>7, <1>8, <1>10, <1>11, CallIsThorough

LEMMA ThoroughRestore ==
    ASSUME PInv, CInv, CarefulClients, NEW o \in Tasks, NEW a \in Ids,
           \/ BeginRestore(o, a) \/ SnapshotRead(o, a) \/ RestoreRefused(o, a)
           \/ DeleteSnapshot(o, a) \/ MarkRestored(o, a)
    PROVE  CInv'
<1>1. TypeOK /\ Shape
  BY DEF PInv, IInv
<1>2. /\ \A t \in Tasks \ {o} : task'[t] = task[t]
      /\ ~(task'[o].call = "spawn")
      /\ task'[o].at # "start" => task'[o].actor \in used'
      /\ used \subseteq used' /\ UNCHANGED <<frame, live>>
  <2>1. CASE BeginRestore(o, a)
    BY <1>1, <2>1 DEF BeginRestore, TypeOK, history
  <2>2. CASE SnapshotRead(o, a)
    <3>1. task'[o] = [task[o] EXCEPT !.who = snapshot[a], !.at = "preparing"]
      BY <1>1, <2>2 DEF SnapshotRead, TypeOK
    <3>2. task'[o].call = "restore" /\ task'[o].actor = a
      BY <1>1, <2>2, <3>1 DEF SnapshotRead, At, TypeOK, Task
    <3> QED BY <1>1, <2>2, <3>2 DEF SnapshotRead, TypeOK
  <2>3. CASE RestoreRefused(o, a) \/ MarkRestored(o, a)
    <3>1. task' = [task EXCEPT ![o] = Idle] /\ UNCHANGED <<frame, live, used>>
      BY <2>3 DEF RestoreRefused, MarkRestored, Ends, history
    <3> QED BY <1>1, <3>1 DEF TypeOK, Idle
  <2>4. CASE DeleteSnapshot(o, a)
    <3>1. task'[o] = [task[o] EXCEPT !.at = "marking"] /\ task[o].at = "deleting" /\ UNCHANGED <<frame, live, used>>
      BY <1>1, <2>4 DEF DeleteSnapshot, At, Moves, TypeOK, history
    <3>2. task'[o].call = "restore" /\ task'[o].actor = task[o].actor
      BY <1>1, <3>1 DEF Shape, TypeOK, Task
    <3> QED BY <1>1, <2>4, <3>1, <3>2 DEF CInv, Numbered, DeleteSnapshot, Moves, TypeOK
  <2> QED BY <2>1, <2>2, <2>3, <2>4
<1>3. \A c \in Ids : record'[c].status = "none" <=> record[c].status = "none"
  <2>1. CASE MarkRestored(o, a)
    <3>1. [record[a] EXCEPT !.status = "active"].status = "active"
      BY <1>1 DEF TypeOK, Record
    <3> QED BY <1>1, <2>1, <3>1 DEF MarkRestored, TypeOK
  <2>2. CASE ~MarkRestored(o, a)
    BY <2>2 DEF BeginRestore, SnapshotRead, RestoreRefused, DeleteSnapshot
  <2> QED BY <2>1, <2>2
<1>4. \A t \in Tasks, c \in Ids : Spawning(t, c)' => Spawning(t, c) /\ task'[t] = task[t]
  BY <1>2 DEF Spawning
<1>5. \A c \in Ids : record'[c].status # "none" => c \in used'
  BY <1>2, <1>3 DEF CInv, Numbered
<1>6. \A t \in Tasks : task'[t].at # "start" => task'[t].actor \in used'
  BY <1>2 DEF CInv, Numbered
<1>7. \A t \in Tasks, c \in Ids : Spawning(t, c)' /\ Early(t)' => Early(t) /\ record'[c].status = "none"
  BY <1>3, <1>4 DEF CInv, Unrecorded, Early
<1>8. \A c \in Ids : Left(c) => Left(c)'
  BY <1>2, <1>3 DEF Left
<1> QED BY <1>1, <1>2, <1>4, <1>5, <1>6, <1>7, <1>8, CallIsThorough

LEMMA ThoroughRuns ==
    ASSUME CInv, TypeOK, NEW o \in Tasks, NEW a \in Ids, NEW call \in {"succeed", "fail"},
           EndRun(o, a, call) \/ EndStaleRun(o, a) \/ StartRun(a) \/ AbandonRun(a)
    PROVE  CInv'
<1>1. /\ \A t \in Tasks : task'[t] = task[t] \/ task'[t].at = "start"
      /\ UNCHANGED <<frame, live, used>>
  BY DEF EndRun, EndStaleRun, StartRun, AbandonRun, TypeOK, history
<1>2. \A c \in Ids : record'[c].status = "none" <=> record[c].status = "none"
  <2>1. CASE StartRun(a)
    <3>1. [record[a] EXCEPT !.status = "active"].status = "active"
      BY DEF TypeOK, Record
    <3> QED BY <2>1, <3>1 DEF StartRun, TypeOK
  <2>2. CASE ~StartRun(a)
    BY <2>2 DEF EndRun, EndStaleRun, AbandonRun
  <2> QED BY <2>1, <2>2
<1>3. \A t \in Tasks, c \in Ids : Spawning(t, c)' => Spawning(t, c) /\ task'[t] = task[t]
  BY <1>1 DEF Spawning
<1>4. \A c \in Ids : record'[c].status # "none" => c \in used'
  BY <1>1, <1>2 DEF CInv, Numbered
<1>5. \A t \in Tasks : task'[t].at # "start" => task'[t].actor \in used'
  BY <1>1 DEF CInv, Numbered
<1>6. \A t \in Tasks, c \in Ids : Spawning(t, c)' /\ Early(t)' => Early(t) /\ record'[c].status = "none"
  BY <1>2, <1>3 DEF CInv, Unrecorded, Early
<1>7. \A c \in Ids : Left(c) => Left(c)'
  BY <1>1, <1>2 DEF Left
<1> QED BY <1>1, <1>3, <1>4, <1>5, <1>6, <1>7, CallIsThorough

\* What a decision begins with: it has listed only what it still has to do.
LEMMA CascadeBegins ==
    ASSUME NEW a \in Ids, NEW action, NEW who, NEW cascade,
           NEW f \in {Writing(a, cascade), Cascading(a, action, who, cascade)}
    PROVE  /\ f.listed \subseteq f.todo /\ f.awaits = NoId
           /\ f.listed \subseteq {c \in Ids : record[c].status # "none"}
           /\ f.at \in {"writing", "cascading"}
BY DEF Writing, Cascading, Listed

LEMMA NothingListed ==
    NoFrame.listed = {} /\ NoFrame.at = "none"
BY DEF NoFrame

LEMMA ThoroughSettles ==
    ASSUME CInv, TypeOK, NEW o \in Tasks, Settles(o), UNCHANGED used,
           \A c \in Ids : record'[c].status = "none" <=> record[c].status = "none",
           \A c \in Ids : live'[c] = live[c] \/ live'[c] = Nobody
    PROVE  CInv'
<1>1. /\ task'[o] = Idle /\ \A t \in Tasks \ {o} : task'[t] = task[t] /\ frame'[t] = frame[t]
      /\ \A b \in Ids : frame'[o][b] = NoFrame
  BY DEF TypeOK, Settles, Ends, NoFrames
<1>2. \A b \in Ids : ThoroughAt(o, b)'
  BY <1>1, NothingListed DEF ThoroughAt
<1>3. \A t \in Tasks : task'[t] = task[t] \/ task'[t].at = "start"
  BY <1>1 DEF Idle
<1>4. \A b \in Ids : frame'[o][b].listed = {}
  BY <1>1, NothingListed
<1> QED BY <1>1, <1>2, <1>3, <1>4, DecisionIsThorough

\* A decision begins, for whoever is in the way of the call.
LEMMA ThoroughBegins ==
    ASSUME CInv, TypeOK, NEW o \in Tasks, NEW a \in Ids, NEW action, NEW who, NEW cascade,
           NEW f \in {Writing(a, cascade), Cascading(a, action, who, cascade)},
           UNCHANGED <<live, record, used>>,
           \A t \in Tasks : task'[t] = task[t] \/ task'[t].at = "start",
           frame' = [frame EXCEPT ![o][a] = f]
    PROVE  CInv'
<1>1. /\ \A t \in Tasks \ {o} : frame'[t] = frame[t]
      /\ \A b \in Ids : frame'[o][b] = IF b = a THEN f ELSE frame[o][b]
  BY DEF TypeOK
<1>0. /\ f.listed \subseteq f.todo /\ f.awaits = NoId
      /\ f.listed \subseteq {c \in Ids : record[c].status # "none"}
      /\ f.at \in {"writing", "cascading"}
  BY CascadeBegins
<1>2. \A b \in Ids : ThoroughAt(o, b)
  BY DEF CInv, Thorough
<1>3. \A b \in Ids : ThoroughAt(o, b)'
  <2> TAKE b \in Ids
  <2>1. CASE b = a
    BY <1>0, <1>1, <2>1 DEF ThoroughAt
  <2>2. CASE b # a
    BY <1>1, <1>2, <2>2 DEF ThoroughAt, Left
  <2> QED BY <2>1, <2>2
<1>4. \A b \in Ids : frame'[o][b].listed \subseteq Ids
  <2> TAKE b \in Ids
  <2>1. frame[o][b].listed \subseteq Ids
    BY DEF CInv, Numbered, TypeOK
  <2> QED BY <1>0, <1>1, <2>1
<1>5. \A b \in Ids : \A c \in frame'[o][b].listed :
        record[c].status # "none" \/ \E d \in Ids : c \in frame[o][d].listed
  BY <1>0, <1>1
<1> QED BY <1>1, <1>3, <1>4, <1>5, DecisionIsThorough

LEMMA ThoroughDecide ==
    ASSUME CInv, TypeOK, NEW o \in Tasks, NEW a \in Ids, NEW action, NEW cascade,
           UNCHANGED <<live, used>>, record[a].status # "none",
           Decide(o, a, action, cascade)
    PROVE  CInv'
<1>1. CASE action = "retain_session" /\ record' = [record EXCEPT ![a].status = "retained"]
           /\ Ends(o) /\ UNCHANGED frame
  <2>1. [record[a] EXCEPT !.status = "retained"].status = "retained"
    BY DEF TypeOK, Record
  <2>2. \A c \in Ids : record'[c].status = "none" <=> record[c].status = "none"
    BY <1>1, <2>1 DEF TypeOK
  <2>3. \A t \in Tasks : task'[t] = task[t] \/ task'[t].at = "start"
    BY <1>1 DEF TypeOK, Ends, Idle
  <2>4. \A b \in Ids : ThoroughAt(o, b)'
    <3> TAKE b \in Ids
    <3>1. ThoroughAt(o, b) /\ frame[o][b].listed \subseteq Ids
      BY DEF CInv, Thorough, Numbered, TypeOK
    <3> QED BY <1>1, <2>2, <3>1 DEF ThoroughAt, Left
  <2>5. \A b \in Ids : frame[o][b].listed \subseteq Ids
    BY DEF CInv, Numbered, TypeOK
  <2> QED BY <1>1, <2>2, <2>3, <2>4, <2>5, DecisionIsThorough
<1>2. CASE Settles(o) /\ UNCHANGED record
  BY <1>2, ThoroughSettles
<1>3. CASE /\ task' = [task EXCEPT ![o] =
                  [call |-> "decide", actor |-> a, who |-> Nobody, at |-> "start"]]
           /\ frame' = [frame EXCEPT ![o][a] = Begun(a, action, cascade)]
           /\ UNCHANGED record
  <2>1. \A t \in Tasks : task'[t] = task[t] \/ task'[t].at = "start"
    BY <1>3 DEF TypeOK
  <2>2. Begun(a, action, cascade) \in {Writing(a, cascade), Cascading(a, action, live[a], cascade)}
    BY DEF Begun
  <2> HIDE DEF Begun
  <2> QED BY <1>3, <2>1, <2>2, ThoroughBegins
<1> QED BY <1>1, <1>2, <1>3 DEF Decide

LEMMA ThoroughDecisions ==
    ASSUME CInv, TypeOK, NEW o \in Tasks, NEW a \in Ids, NEW action, NEW cascade,
           SetActorLifecycle(o, a, action, cascade) \/ Finalize(o, a)
    PROVE  CInv'
<1>1. CASE SetActorLifecycle(o, a, action, cascade)
  BY <1>1, ThoroughDecide DEF SetActorLifecycle, history
<1>2. CASE Finalize(o, a) /\ record[a].status # "none"
  BY <1>2, ThoroughDecide DEF Finalize, history
<1>3. CASE Finalize(o, a) /\ record[a].status = "none"
  <2>1. Ends(o) /\ UNCHANGED <<frame, record, live, used>>
    BY <1>3 DEF Finalize, history
  <2>2. \A t \in Tasks : task'[t] = task[t] \/ task'[t].at = "start"
    BY <2>1 DEF TypeOK, Ends, Idle
  <2>3. \A b \in Ids : ThoroughAt(o, b)' /\ frame[o][b].listed \subseteq Ids
    BY <2>1 DEF CInv, Thorough, ThoroughAt, Left, Numbered, TypeOK
  <2> QED BY <2>1, <2>2, <2>3, DecisionIsThorough
<1> QED BY <1>1, <1>2, <1>3

LEMMA ThoroughSnapshot ==
    ASSUME CInv, TypeOK, NEW o \in Tasks, NEW a \in Ids, WriteSnapshot(o, a) \/ WriteFails(o, a)
    PROVE  CInv'
<1>1. CASE WriteSnapshot(o, a)
  <2> DEFINE who == frame[o][a].who
             cascade == frame[o][a].cascade
             f == Cascading(a, "persist", who, cascade)
  <2>1. frame' = [frame EXCEPT ![o][a] = f] /\ UNCHANGED <<live, record, used, task>>
    BY <1>1 DEF WriteSnapshot, history
  <2>2. f \in {Writing(a, cascade), Cascading(a, "persist", who, cascade)}
    OBVIOUS
  <2> HIDE DEF f, who, cascade
  <2> QED BY <2>1, <2>2, ThoroughBegins
<1>2. CASE WriteFails(o, a)
  BY <1>2, ThoroughSettles DEF WriteFails, history
<1> QED BY <1>1, <1>2

\* A child is skipped only when there is nothing left to decide about it.
LEMMA SkippedIsLeft ==
    ASSUME PInv, CInv, NEW o \in Tasks, NEW a \in Ids, NEW c \in Ids, SkipChild(o, a, c)
    PROVE  Left(c)
<1>1. frame[o][a].at # "none"
  BY DEF SkipChild, Proceeding
<1>2. \A t \in Tasks : ~Restoring(t)
  BY <1>1, NoFramesWhileRestoring
<1>3. SUFFICES ASSUME Gone(c), live[c] # Nobody PROVE FALSE
  BY DEF SkipChild, Left
<1>4. PICK t \in Tasks : At(t, c, "attaching")
  BY <1>3 DEF PInv, IInv, Settled
<1>5. Spawning(t, c) /\ Early(t)
  BY <1>2, <1>4 DEF PInv, IInv, Shape, At, Restoring, Spawning, Early
<1> QED BY <1>3, <1>5 DEF CInv, Unrecorded, Gone

LEMMA ThoroughCascade ==
    ASSUME PInv, CInv, NEW o \in Tasks, NEW a \in Ids, NEW c \in Ids,
           SkipChild(o, a, c) \/ DecideChild(o, a, c) \/ CleanUp(o, a)
    PROVE  CInv'
<1>1. TypeOK /\ frame[o][a] \in Frame
  BY DEF PInv, IInv, TypeOK
<1>2. \A b \in Ids : ThoroughAt(o, b) /\ frame[o][b].listed \subseteq Ids
  BY <1>1 DEF CInv, Thorough, Numbered, TypeOK
<1>3. UNCHANGED <<live, record, used>>
  BY DEF SkipChild, DecideChild, CleanUp, history
<1>4. ASSUME NEW f, f.listed = frame[o][a].listed, UNCHANGED task,
             \A d \in f.listed : d \in f.todo \/ f.awaits = d \/ Left(d),
             f.at = "cleaning" => f.todo = {} /\ f.awaits = NoId, f.at # "none",
             \A t \in Tasks \ {o} : frame'[t] = frame[t],
             \A b \in Ids : frame'[o][b] = IF b = a THEN f ELSE frame[o][b]
      PROVE  CInv'
  <2>1. \A b \in Ids : ThoroughAt(o, b)'
    BY <1>2, <1>3, <1>4 DEF ThoroughAt, Left
  <2>2. \A b \in Ids : frame'[o][b].listed = frame[o][b].listed
    BY <1>4
  <2> QED BY <1>1, <1>2, <1>3, <1>4, <2>1, <2>2, DecisionIsThorough
<1>5. CASE SkipChild(o, a, c)
  <2> DEFINE f == [frame[o][a] EXCEPT !.todo = frame[o][a].todo \ {c}]
  <2>1. /\ f.listed = frame[o][a].listed /\ f.todo = frame[o][a].todo \ {c}
        /\ f.awaits = frame[o][a].awaits /\ f.at = frame[o][a].at
    BY <1>1 DEF Frame
  <2>2. /\ \A t \in Tasks \ {o} : frame'[t] = frame[t]
        /\ \A b \in Ids : frame'[o][b] = IF b = a THEN f ELSE frame[o][b]
        /\ UNCHANGED task /\ f.at = "cascading"
    BY <1>1, <1>5, <2>1 DEF SkipChild, Proceeding, TypeOK
  <2>3. Left(c)
    BY <1>5, SkippedIsLeft
  <2> HIDE DEF f
  <2>4. \A d \in f.listed : d \in f.todo \/ f.awaits = d \/ Left(d)
    BY <1>2, <2>1, <2>3 DEF ThoroughAt
  <2> QED BY <1>4, <2>1, <2>2, <2>4
<1>6. CASE CleanUp(o, a)
  <2> DEFINE f == [frame[o][a] EXCEPT !.at = "cleaning"]
  <2>1. /\ f.listed = frame[o][a].listed /\ f.todo = frame[o][a].todo
        /\ f.awaits = frame[o][a].awaits /\ f.at = "cleaning"
    BY <1>1 DEF Frame
  <2>2. /\ \A t \in Tasks \ {o} : frame'[t] = frame[t]
        /\ \A b \in Ids : frame'[o][b] = IF b = a THEN f ELSE frame[o][b]
        /\ UNCHANGED task /\ f.todo = {} /\ f.awaits = NoId
    BY <1>1, <1>6, <2>1 DEF CleanUp, Proceeding, TypeOK
  <2> HIDE DEF f
  <2>3. \A d \in f.listed : d \in f.todo \/ f.awaits = d \/ Left(d)
    BY <1>2, <2>1 DEF ThoroughAt
  <2> QED BY <1>4, <2>1, <2>2, <2>3
<1>7. CASE DecideChild(o, a, c)
  <2> DEFINE action == ActionFor(a, frame[o][a].action)
             g == Begun(c, action, TRUE)
             f == [frame[o][a] EXCEPT !.todo = frame[o][a].todo \ {c}, !.awaits = c]
  <2>1. CASE Settles(o)
    BY <1>1, <1>3, <2>1, ThoroughSettles
  <2>2. CASE /\ frame' = [frame EXCEPT ![o][a].todo = @ \ {c}, ![o][a].awaits = c, ![o][c] = g]
             /\ UNCHANGED task
    <3>1. /\ \A t \in Tasks \ {o} : frame'[t] = frame[t]
          /\ \A b \in Ids : frame'[o][b] = IF b = c THEN g ELSE IF b = a THEN f ELSE frame[o][b]
      BY <1>1, <2>2 DEF TypeOK
    <3>2. /\ f.listed = frame[o][a].listed /\ f.todo = frame[o][a].todo \ {c}
          /\ f.awaits = c /\ f.at = "cascading"
      BY <1>1, <1>7 DEF Frame, DecideChild, Proceeding
    <3>3. /\ g.listed \subseteq g.todo /\ g.awaits = NoId
          /\ g.listed \subseteq {d \in Ids : record[d].status # "none"}
          /\ g.at \in {"writing", "cascading"}
      <4> DEFINE who == live[c]
                 cascade == TRUE
      <4>1. g \in {Writing(c, cascade), Cascading(c, action, who, cascade)}
        BY DEF Begun
      <4> HIDE DEF g, action, who, cascade
      <4>2. \A h \in {Writing(c, cascade), Cascading(c, action, who, cascade)} :
              /\ h.listed \subseteq h.todo /\ h.awaits = NoId
              /\ h.listed \subseteq {d \in Ids : record[d].status # "none"}
              /\ h.at \in {"writing", "cascading"}
        BY CascadeBegins
      <4> QED BY <4>1, <4>2
    <3> HIDE DEF f, g
    <3>4. \A d \in f.listed : d \in f.todo \/ f.awaits = d \/ Left(d)
      <4>1. frame[o][a].awaits = NoId
        BY <1>7 DEF DecideChild, Proceeding
      <4> QED BY <1>2, <3>2, <4>1, NamesAssumption DEF ThoroughAt
    <3>5. \A b \in Ids : ThoroughAt(o, b)'
      <4> TAKE b \in Ids
      <4>1. CASE b = c
        BY <3>1, <3>3, <4>1 DEF ThoroughAt
      <4>2. CASE b # c /\ b = a
        BY <1>3, <3>1, <3>2, <3>4, <4>2 DEF ThoroughAt, Left
      <4>3. CASE b # c /\ b # a
        BY <1>2, <1>3, <3>1, <4>3 DEF ThoroughAt, Left
      <4> QED BY <4>1, <4>2, <4>3
    <3>6. \A b \in Ids : frame'[o][b].listed \subseteq Ids
      BY <1>2, <3>1, <3>2, <3>3
    <3>7. \A b \in Ids : \A d \in frame'[o][b].listed :
            record[d].status # "none" \/ \E e \in Ids : d \in frame[o][e].listed
      BY <3>1, <3>2, <3>3
    <3> QED BY <1>1, <1>3, <2>2, <3>1, <3>5, <3>6, <3>7, DecisionIsThorough
  <2> QED BY <1>7, <2>1, <2>2 DEF DecideChild
<1> QED BY <1>5, <1>6, <1>7

LEMMA ThoroughRelease ==
    ASSUME CInv, TypeOK, NEW o \in Tasks, NEW a \in Ids, Release(o, a)
    PROVE  CInv'
<1>1. /\ live'[a] = Nobody /\ UNCHANGED used
      /\ \A c \in Ids : live'[c] = live[c] \/ live'[c] = Nobody
  BY DEF TypeOK, Release, Removed, history
<1>2. \A c \in Ids : record'[c].status = "none" <=> record[c].status = "none"
  <2> DEFINE status == IF frame[o][a].action = "release" THEN "released" ELSE "persisted"
  <2> DEFINE done == [record[a] EXCEPT !.status = status]
  <2>1. done.status = status /\ status # "none"
    BY DEF TypeOK, Record
  <2>2. CASE record[a].status = "none"
    BY <2>2 DEF Release, Applied
  <2>3. CASE record[a].status # "none"
    <3>1. record' = [record EXCEPT ![a].status = status]
      BY <2>3 DEF Release, Applied
    <3> HIDE DEF status
    <3>2. \A c \in Ids : record'[c] = IF c = a THEN done ELSE record[c]
      BY <3>1 DEF TypeOK
    <3> HIDE DEF done
    <3> QED BY <2>1, <2>3, <3>2
  <2> QED BY <2>2, <2>3
<1>3. CASE Settles(o)
  BY <1>1, <1>2, <1>3, ThoroughSettles
<1>4. CASE Resumes(o, a, {d \in Ids : frame[o][d].awaits = a})
  <2>1. /\ \A t \in Tasks \ {o} : frame'[t] = frame[t]
        /\ UNCHANGED task
        /\ \A b \in Ids : frame'[o][b] =
              IF b = a THEN NoFrame
              ELSE IF frame[o][b].awaits = a THEN [frame[o][b] EXCEPT !.awaits = NoId]
              ELSE frame[o][b]
    BY <1>4 DEF Resumes, TypeOK
  <2>2. \A b \in Ids :
            /\ [frame[o][b] EXCEPT !.awaits = NoId].listed = frame[o][b].listed
            /\ [frame[o][b] EXCEPT !.awaits = NoId].todo = frame[o][b].todo
            /\ [frame[o][b] EXCEPT !.awaits = NoId].at = frame[o][b].at
            /\ [frame[o][b] EXCEPT !.awaits = NoId].awaits = NoId
    BY DEF TypeOK, Frame
  <2>3. \A b \in Ids : ThoroughAt(o, b)'
    <3> TAKE b \in Ids
    <3>0. ThoroughAt(o, b) /\ frame[o][b].listed \subseteq Ids
      BY DEF CInv, Thorough, Numbered, TypeOK
    <3>1. CASE b = a
      BY <2>1, <3>1, NothingListed DEF ThoroughAt
    <3>2. CASE b # a /\ frame[o][b].awaits = a
      <4> DEFINE f == [frame[o][b] EXCEPT !.awaits = NoId]
      <4>a. /\ f.listed = frame[o][b].listed /\ f.todo = frame[o][b].todo
            /\ f.at = frame[o][b].at /\ f.awaits = NoId
        BY <2>2
      <4>b. frame'[o][b] = f
        BY <2>1, <3>2
      <4> HIDE DEF f
      <4>1. /\ frame'[o][b].listed = frame[o][b].listed /\ frame'[o][b].todo = frame[o][b].todo
            /\ frame'[o][b].at = frame[o][b].at /\ frame'[o][b].awaits = NoId
        BY <4>a, <4>b
      <4>2. \A c \in Ids : Left(c) => Left(c)'
        BY <1>1, <1>2 DEF Left
      <4>3. Left(a)'
        BY <1>1 DEF Left
      <4> QED BY <3>0, <3>2, <4>1, <4>2, <4>3 DEF ThoroughAt
    <3>3. CASE b # a /\ frame[o][b].awaits # a
      <4>1. frame'[o][b] = frame[o][b]
        BY <2>1, <3>3
      <4>2. \A c \in Ids : Left(c) => Left(c)'
        BY <1>1, <1>2 DEF Left
      <4> QED BY <3>0, <4>1, <4>2 DEF ThoroughAt
    <3> QED BY <3>1, <3>2, <3>3
  <2>4. \A b \in Ids : frame'[o][b].listed \subseteq frame[o][b].listed
    BY <2>1, <2>2, NothingListed
  <2>5. \A b \in Ids : frame[o][b].listed \subseteq Ids
    BY DEF CInv, Numbered, TypeOK
  <2> QED BY <1>1, <1>2, <2>1, <2>3, <2>4, <2>5, DecisionIsThorough
<1> QED BY <1>3, <1>4 DEF Release, Applied

LEMMA ThoroughRestart == ASSUME Restart PROVE CInv'
<1>1. /\ \A a \in Ids : record'[a].status = "none" /\ live'[a] = Nobody
      /\ \A o \in Tasks : task'[o].call = "none" /\ task'[o].at = "start"
      /\ \A o \in Tasks, a \in Ids : frame'[o][a] = NoFrame
  BY DEF Restart, NoRecord, Idle, NoFrames
<1>2. \A o \in Tasks, a \in Ids : frame'[o][a].listed = {} /\ frame'[o][a].at = "none"
  BY <1>1, NothingListed
<1>3. Numbered' /\ Unrecorded' /\ Thorough'
  BY <1>1, <1>2 DEF Numbered, Unrecorded, Thorough, ThoroughAt, Spawning
<1> QED BY <1>3 DEF CInv

LEMMA ThoroughNext == ASSUME PInv, CInv, CarefulClients, [Next]_vars PROVE CInv'
<1>0. TypeOK
  BY DEF PInv, IInv
<1>1. ASSUME NEW o \in Tasks, NEW a \in Ids, Begin(o, a) PROVE CInv'
  BY <1>0, <1>1, ThoroughSpawn, ThoroughRestore, ThoroughRuns, ThoroughDecisions DEF Begin
<1>2. ASSUME NEW o \in Tasks, NEW a \in Ids, Continue(o, a) PROVE CInv'
  <2>1. CASE Resume(o, a)
    BY <1>0, <2>1, ThoroughCreation, ThoroughRestore, ThoroughDecisions, ThoroughSnapshot, ThoroughRelease
       DEF Resume, ReleaseAgent
  <2>2. CASE Proceed(o, a)
    BY <1>0, <2>2, ThoroughCascade, ThoroughRelease DEF Proceed, ReleaseAtOnce
  <2> QED BY <1>2, <2>1, <2>2 DEF Continue
<1>3. ASSUME NEW o \in Tasks, NEW a \in Ids, CreationFails(o, a) \/ WriteFails(o, a) PROVE CInv'
  BY <1>0, <1>3, ThoroughCreation, ThoroughSnapshot
<1>4. ASSUME NEW a \in Ids, StartRun(a) \/ AbandonRun(a) PROVE CInv'
  <2>1. CASE Tasks # {}
    <3>1. PICK o \in Tasks : TRUE
      BY <2>1
    <3>2. "fail" \in {"succeed", "fail"}
      OBVIOUS
    <3> QED BY <1>0, <1>4, <3>1, <3>2, ThoroughRuns
  <2>2. CASE Tasks = {}
    <3>1. \A c \in Ids : record'[c].status # "none" => record[c].status # "none"
      <4>1. [record[a] EXCEPT !.status = "active"].status = "active"
        BY <1>0 DEF TypeOK, Record
      <4> QED BY <1>0, <1>4, <4>1 DEF StartRun, AbandonRun, TypeOK
    <3>2. UNCHANGED used
      BY <1>4 DEF StartRun, AbandonRun, history
    <3> QED BY <2>2, <3>1, <3>2 DEF CInv, Numbered, Unrecorded, Thorough
  <2> QED BY <2>1, <2>2
<1>5. CASE UNCHANGED vars
  BY <1>5 DEF vars, CInv, Numbered, Unrecorded, Unlisted, Spawning, Early, Thorough, ThoroughAt, Left
<1> QED BY <1>1, <1>2, <1>3, <1>4, <1>5, ThoroughRestart DEF Next

\* However decisions, runs and creations overlap, a cascade decides every child
\* that was active or retained when it began before it removes their parent, if
\* clients let a restore run alone (Runtime.ts:10412, 10516).
THEOREM CascadesAreThorough == ASSUME CarefulClients PROVE Spec => []CascadeIsThorough
<1>1. Init => CInv
  <2>1. Init => \A o \in Tasks, a \in Ids : frame[o][a].listed = {} /\ frame[o][a].at = "none"
    BY NothingListed DEF Init, NoFrames
  <2>2. Init => \A o \in Tasks : task[o].at = "start"
    BY DEF Init, Idle
  <2>3. Init => \A a \in Ids : record[a].status = "none"
    BY DEF Init, NoRecord
  <2> QED BY <2>1, <2>2, <2>3 DEF CInv, Numbered, Unrecorded, Thorough, ThoroughAt, Spawning
<1>2. PInv /\ CInv /\ [Next]_vars => CInv'
  BY ThoroughNext
<1>3. PInv /\ CInv => CascadeIsThorough
  <2> SUFFICES ASSUME PInv, CInv, NEW o \in Tasks, NEW a \in Ids, frame[o][a].at = "cleaning",
                      NEW c \in frame[o][a].listed
               PROVE  Left(c)
    BY DEF CascadeIsThorough, Left
  <2>1. c \in Ids /\ ThoroughAt(o, a)
    BY DEF PInv, IInv, TypeOK, CInv, Numbered, Thorough
  <2> QED BY <2>1, NamesAssumption DEF ThoroughAt
<1> QED BY CarefulInvariance, <1>1, <1>2, <1>3, PTL DEF Spec
=============================================================================
