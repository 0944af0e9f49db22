------------------------- MODULE VerifiedWorkspace -------------------------
(***************************************************************************)
(* The tool calls of agents on one workspace                               *)
(* (core/runtime/Runtime.ts, executeToolForAgent) and the transaction they *)
(* run in: the first change of a file keeps its content in a checkpoint,   *)
(* the verifier judges the candidate, a candidate that brings nothing is   *)
(* rolled back, one that does is recorded on disk as the accepted          *)
(* workspace, and a later verification that falls below the record writes  *)
(* the record back and verifies again.                                     *)
(*                                                                         *)
(* A content is a version number, a verifier is an operator from the       *)
(* contents of all paths to a scorecard, which it leaves in artifacts      *)
(* beside the workspace.  A shell command can change files too; no         *)
(* checkpoint covers what it does.  Every await of the code is a step, so  *)
(* the process can die between a file's change and its checkpoint, and in  *)
(* the middle of a roll-back.                                              *)
(***************************************************************************)
EXTENDS Integers, FiniteSetsExt

CONSTANTS Agents,     \* who calls tools; all of one transaction
          Paths,      \* the workspace's files
          Versions,   \* the contents a tool can write
          Absent,     \* the content of a path that does not exist
          NoScore,    \* a verification that left no scorecard
          Grade(_),   \* the verifier: contents of the paths -> scorecard
          Starts,     \* the workspaces a session can start in
          Edits,      \* bound: the pairs of a path and a content that calls ask for
          Overlap,    \* whether calls of two agents overlap
          MaxCalls,   \* bound: calls in a behaviour
          MaxFaults   \* bound: crashes and failed file writes

ASSUME ContentsApart == Absent \notin Versions
ASSUME BoundsAreNaturals ==
    /\ MaxCalls \in Nat /\ MaxFaults \in Nat
    /\ Overlap \in BOOLEAN

Contents == Versions \cup {Absent}
ASSUME StartsAreWorkspaces == Starts \subseteq [Paths -> Contents]
ASSUME EditsAreOfPaths == Edits \subseteq Paths \X Contents
ASSUME RewardsAreNumbers ==
    \A w \in [Paths -> Contents] : Grade(w) # NoScore /\ Grade(w).reward \in Int

VARIABLES
    files,        \* the workspace
    checkpoints,  \* mutationCheckpointsByCorrelation: path -> checkpoint, or NoCheckpoint
    artifacts,    \* the scorecard on disk, with the workspace it was measured on
    accepted,     \* accepted-workspace-checkpoint.json; Absent: a path it does not list
    call,         \* the call an agent has in flight
    seen,         \* the latest scorecard in an agent's grounding calls
    calls, faults,
    opened,       \* history: per path, the content a roll-back has to leave
    scored,       \* history: the workspace the accepted scorecard was measured on,
                  \* and the paths that no verdict had covered by then
    strayed       \* history: the paths with a change that no verdict covers

workspaceVars == <<files, checkpoints, artifacts, accepted, call, seen, calls, faults,
                   opened, scored, strayed>>
history == <<opened, scored, strayed>>

Mutators == {"fs.write", "fs.replace", "fs.synthesize"}
NoFiles == [p \in Paths |-> Absent]
NoCheckpoint == [previous |-> Absent, baseline |-> NoScore, at |-> 0]
NoCheckpoints == [p \in Paths |-> NoCheckpoint]
NoRecord == [score |-> NoScore, files |-> NoFiles]
NoArtifacts == [score |-> NoScore, on |-> NoFiles]
Kept == {p \in Paths : checkpoints[p] # NoCheckpoint}

\* A call: the tool and what it is asked to write, for a command the change it
\* makes if any; the checkpoint captured for it and the snapshot it rewrites; its
\* result, with the workspace a scorecard is about, whether the command wrote the
\* artifacts ("fresh") and changed a file after that ("moved"); the files to put
\* back and the scorecard they bring back; the record to be written.  It is
\* "undone" if it restored the checkpoints, "plain" if it judged no candidate.
Idle == [pc |-> "idle", tool |-> "none", path |-> "none", version |-> Absent,
         held |-> NoCheckpoint, from |-> Absent,
         ok |-> FALSE, score |-> NoScore, on |-> NoFiles, fresh |-> FALSE, moved |-> FALSE,
         todo |-> NoCheckpoints, failed |-> FALSE, record |-> NoScore,
         paths |-> {}, draft |-> NoFiles, undone |-> FALSE, plain |-> FALSE]

(***************************************************************************)
(* The verdict on a candidate.                                             *)
(***************************************************************************)
Regressed(base, now) == \E p \in Paths : now.groups[p] < base.groups[p]

\* hardGateComposition and failureFrontierReduced
Retained(base, now) ==
    /\ ~Regressed(base, now)
    /\ \/ base.reward = 0 /\ now.reward = 0
       \/ now.reward >= base.reward /\ now.frontier < base.frontier

Keeps(base, now) == now.reward > base.reward \/ Retained(base, now)

\* The scorecard the candidate is compared with: that of the oldest
\* checkpoint that has one.
Baseline ==
    LET graded == {p \in Kept : checkpoints[p].baseline # NoScore}
    IN  IF graded = {} THEN NoScore
        ELSE checkpoints[CHOOSE p \in graded :
               \A q \in graded : checkpoints[p].at <= checkpoints[q].at].baseline

(***************************************************************************)
(* The beginning of a call: binding, count and approval let it through.    *)
(* A refused call returns at once and changes nothing the model keeps.     *)
(***************************************************************************)
WorkspaceInit ==
    /\ files \in Starts
    /\ checkpoints = NoCheckpoints /\ artifacts = NoArtifacts /\ accepted = NoRecord
    /\ call = [a \in Agents |-> Idle]
    /\ seen = [a \in Agents |-> NoScore]
    /\ calls = 0 /\ faults = 0
    /\ opened = NoFiles /\ scored = [on |-> NoFiles, apart |-> {}] /\ strayed = {}

Quiet == \A a \in Agents : call[a].pc = "idle"

Call(a, t, p, v) ==
    /\ call[a].pc = "idle" /\ (Overlap \/ Quiet)
    /\ calls < MaxCalls
    /\ call' = [call EXCEPT ![a] = [Idle EXCEPT !.pc = "called", !.tool = t,
                                              !.path = p, !.version = v]]
    /\ calls' = calls + 1
    /\ UNCHANGED <<files, checkpoints, artifacts, accepted, seen, faults>>
    /\ UNCHANGED history

Step(a, record) == call' = [call EXCEPT ![a] = record]

\* createdAt: later than that of every checkpoint taken so far.
Now ==
    LET held == {a \in Agents : call[a].held # NoCheckpoint}
        taken == {checkpoints[p].at : p \in Kept} \cup {call[a].held.at : a \in held}
    IN  IF taken = {} THEN 0 ELSE Max(taken) + 1

\* captureWorkspaceMutationCheckpoint: only a file that exists has one.
Capture(a) ==
    /\ call[a].pc = "called"
    /\ LET c == call[a]
           tracked == c.tool \in Mutators /\ files[c.path] # Absent
       IN  Step(a, [c EXCEPT !.pc = "executing",
                    !.held = IF ~tracked THEN NoCheckpoint
                             ELSE [previous |-> files[c.path],
                                   baseline |-> seen[a], at |-> Now]])
    /\ UNCHANGED <<files, checkpoints, artifacts, accepted, seen, calls, faults>>
    /\ UNCHANGED history

(***************************************************************************)
(* The tool itself.                                                        *)
(***************************************************************************)
Succeeds(a) == Step(a, [call[a] EXCEPT !.pc = "executed", !.ok = TRUE])
Fails(a) == Step(a, [call[a] EXCEPT !.pc = "executed", !.ok = FALSE])

\* A replacement needs the text it replaces.
Write(a) ==
    /\ call[a].pc = "executing" /\ call[a].tool \in {"fs.write", "fs.replace"}
    /\ \/ /\ call[a].tool = "fs.write" \/ files[call[a].path] # Absent
          /\ files' = [files EXCEPT ![call[a].path] = call[a].version]
          /\ Succeeds(a)
          /\ UNCHANGED faults
       \/ call[a].tool = "fs.replace" /\ Fails(a) /\ UNCHANGED <<files, faults>>
       \/ faults < MaxFaults /\ faults' = faults + 1 /\ Fails(a) /\ UNCHANGED files
    /\ UNCHANGED <<checkpoints, artifacts, accepted, seen, calls>>
    /\ UNCHANGED history

\* executeSynthesizedFileForAgent: a target that was never
\* observed is refused; else the snapshot the model is asked to rewrite ...
Snapshot(a) ==
    /\ call[a].pc = "executing" /\ call[a].tool = "fs.synthesize"
    /\ \/ Step(a, [call[a] EXCEPT !.pc = "generating", !.from = files[call[a].path]])
       \/ Fails(a)
    /\ UNCHANGED <<files, checkpoints, artifacts, accepted, seen, calls, faults>>
    /\ UNCHANGED history

\* ... and the replacement of exactly that snapshot, unless what was
\* generated is rejected before any mutation.
Materialize(a) ==
    /\ call[a].pc = "generating"
    /\ \/ /\ files[call[a].path] = call[a].from \/ call[a].from = Absent
          /\ files' = [files EXCEPT ![call[a].path] = call[a].version]
          /\ Succeeds(a)
       \/ Fails(a) /\ UNCHANGED files
    /\ UNCHANGED <<checkpoints, artifacts, accepted, seen, calls, faults>>
    /\ UNCHANGED history

(***************************************************************************)
(* A shell command, in its first run or in the one after a recovery.       *)
(***************************************************************************)
Runs(a) == call[a].tool = "shell.exec" /\ call[a].pc \in {"executing", "rerunning"}

\* It changes, creates or removes a file.  What was checkpointed before stays
\* covered, the rest is neither undone nor judged.
Alter(a) ==
    LET c == call[a]
    IN  /\ Runs(a) /\ c.path \in Paths /\ files[c.path] # c.version
        /\ files' = [files EXCEPT ![c.path] = c.version]
        /\ IF c.path \in Kept THEN UNCHANGED <<opened, strayed>>
           ELSE /\ strayed' = strayed \cup {c.path}
                /\ opened' = IF Kept = {} THEN opened
                             ELSE [opened EXCEPT ![c.path] = c.version]
        /\ Step(a, [c EXCEPT !.moved = c.fresh])
        /\ UNCHANGED <<checkpoints, artifacts, accepted, seen, calls, faults, scored>>

\* A verifier in it measures the workspace and replaces the artifacts.
Measure(a) ==
    /\ Runs(a) /\ (call[a].moved \/ ~call[a].fresh)
    /\ artifacts' = [score |-> Grade(files), on |-> files]
    /\ Step(a, [call[a] EXCEPT !.fresh = TRUE, !.moved = FALSE])
    /\ UNCHANGED <<files, checkpoints, accepted, seen, calls, faults>>
    /\ UNCHANGED history

\* The artifacts attachVerifierDiagnostics can attach: with a snapshot from before
\* the command only what the command wrote, without one whatever is there; none
\* if verifierScorecardFromToolResult cannot read them.
Scorecards(a, snapshot) ==
    {NoArtifacts} \cup (IF call[a].fresh \/ ~snapshot THEN {artifacts} ELSE {})

\* The command ends.  If it is a verification its scorecard is read; of the
\* task's official verifier without a snapshot.
Verify(a) ==
    /\ call[a].pc = "executing" /\ call[a].tool = "shell.exec"
    /\ \/ \E ok, official \in BOOLEAN : \E card \in Scorecards(a, ~official) :
            Step(a, [call[a] EXCEPT !.pc = "executed", !.ok = ok,
                                    !.score = card.score, !.on = card.on])
       \/ Step(a, [call[a] EXCEPT !.pc = "settling"])
    /\ UNCHANGED <<files, checkpoints, artifacts, accepted, seen, calls, faults>>
    /\ UNCHANGED history

(***************************************************************************)
(* After the tool: the first checkpoint of a path stays.                   *)
(***************************************************************************)
\* Mutant: a later change of the path replaces its checkpoint.
KeepLatest(a) ==
    LET c == call[a]
    IN  IF c.held = NoCheckpoint \/ ~c.ok THEN checkpoints
        ELSE [checkpoints EXCEPT ![c.path] = c.held]

Keep(a) ==
    LET c == call[a]
    IN  IF c.held = NoCheckpoint \/ ~c.ok \/ c.path \in Kept THEN checkpoints
        ELSE [checkpoints EXCEPT ![c.path] = c.held]

Record(a) ==
    /\ call[a].pc = "executed" /\ call[a].tool # "shell.exec"
    /\ checkpoints' = Keep(a)
    /\ opened' = IF Kept = {} /\ checkpoints' # checkpoints
                   THEN [files EXCEPT ![call[a].path] = call[a].held.previous]
                   ELSE opened
    /\ Step(a, [call[a] EXCEPT !.pc = "settling"])
    /\ UNCHANGED <<files, artifacts, accepted, seen, calls, faults, scored, strayed>>

(***************************************************************************)
(* rollbackVerifierRegression.                                             *)
(***************************************************************************)
Below(score) == accepted.score # NoScore /\ score.reward < accepted.score.reward

\* What is to be written back of the record; the paths it lists have no order.
Restoration == [p \in Paths |-> [NoCheckpoint EXCEPT !.previous = accepted.files[p]]]

Judge(a) ==
    /\ call[a].pc = "executed" /\ call[a].tool = "shell.exec"
    /\ LET c == call[a]
           base == Baseline
       IN  IF c.score = NoScore
             THEN Step(a, [c EXCEPT !.pc = "settling"]) /\ UNCHANGED checkpoints
           ELSE IF Kept = {}
             THEN /\ Step(a, IF Below(c.score)
                               THEN [c EXCEPT !.pc = "healing", !.todo = Restoration,
                                              !.record = accepted.score]
                               ELSE [c EXCEPT !.pc = "settling", !.plain = TRUE])
                  /\ UNCHANGED checkpoints
           ELSE /\ checkpoints' = NoCheckpoints
                /\ Step(a, IF base = NoScore \/ Keeps(base, c.score)
                             THEN [c EXCEPT !.pc = "persisting", !.paths = Kept]
                             ELSE [c EXCEPT !.pc = "undoing", !.todo = checkpoints,
                                            !.record = base])
    /\ UNCHANGED <<files, artifacts, accepted, seen, calls, faults>>
    /\ UNCHANGED history

\* Mutant: what was recorded first is never replaced.
MergedOldFirst(paths) ==
    [p \in Paths |-> IF accepted.files[p] = Absent /\ p \in paths THEN files[p]
                     ELSE accepted.files[p]]

\* persistAcceptedVerifierWorkspaceCheckpoint: the changed files that are
\* still there are read again, the others stay as they were recorded ...
Merged(paths) ==
    [p \in Paths |-> IF p \in paths /\ files[p] # Absent THEN files[p]
                     ELSE accepted.files[p]]

Draft(a) ==
    LET c == call[a]
    IN  /\ c.pc = "persisting"
        /\ IF \/ accepted.score # NoScore /\ accepted.score.reward > c.score.reward
              \/ Merged(c.paths) = NoFiles
             THEN Step(a, [c EXCEPT !.pc = "settling"]) /\ strayed' = strayed \cup c.paths
             ELSE /\ Step(a, [c EXCEPT !.pc = "drafted", !.draft = Merged(c.paths)])
                  /\ UNCHANGED strayed
        /\ UNCHANGED <<files, checkpoints, artifacts, accepted, seen, calls, faults,
                       opened, scored>>

\* ... and replace it by renaming a temporary file.
Persist(a) ==
    LET c == call[a]
    IN  /\ c.pc = "drafted"
        /\ accepted' = [score |-> c.score, files |-> c.draft]
        /\ strayed' = (strayed \ c.paths) \cup {p \in c.paths : files[p] = Absent}
        /\ scored' = [on |-> c.on, apart |-> IF c.fresh /\ ~c.moved THEN strayed' ELSE Paths]
        /\ Step(a, [c EXCEPT !.pc = "settling"])
        /\ UNCHANGED <<files, checkpoints, artifacts, seen, calls, faults, opened>>

\* One file is written back; the others follow even if this one fails.
PutBack(a, p) ==
    LET rest == [call[a].todo EXCEPT ![p] = NoCheckpoint]
    IN  /\ call[a].todo[p] # NoCheckpoint
        /\ \/ /\ files' = [files EXCEPT ![p] = call[a].todo[p].previous]
              /\ Step(a, [call[a] EXCEPT !.todo = rest])
              /\ strayed' = IF call[a].pc = "healing" THEN strayed \ {p} ELSE strayed
              /\ UNCHANGED faults
           \/ /\ faults < MaxFaults /\ faults' = faults + 1 /\ strayed' = strayed \cup {p}
              /\ Step(a, [call[a] EXCEPT !.todo = rest, !.failed = TRUE])
              /\ UNCHANGED files
        /\ UNCHANGED <<checkpoints, artifacts, accepted, seen, calls, opened, scored>>

\* The newest checkpoint first.
Undo(a) ==
    /\ call[a].pc = "undoing"
    /\ \E p \in Paths :
         /\ \A q \in Paths : call[a].todo[q].at <= call[a].todo[p].at
         /\ PutBack(a, p)

\* What the scorecard of a result with a roll-back is read as: the baseline's if
\* it is one of groups, the candidate's own if it is a bare reward or gates.
ReadAs(own, record) == IF own = NoScore THEN {NoScore} ELSE {own, record}

\* With all of them restored the call reports the roll-back.
Undone(a) ==
    /\ call[a].pc = "undoing" /\ call[a].todo = NoCheckpoints
    /\ IF call[a].failed THEN Step(a, [call[a] EXCEPT !.pc = "settling"])
       ELSE \E score \in ReadAs(call[a].score, call[a].record) :
              Step(a, [call[a] EXCEPT !.pc = "settling", !.score = score, !.undone = TRUE])
    /\ UNCHANGED <<files, checkpoints, artifacts, accepted, seen, calls, faults>>
    /\ UNCHANGED history

\* restorePersistentVerifierWorkspaceCheckpoint
Heal(a) ==
    /\ call[a].pc = "healing"
    /\ \E p \in Paths : PutBack(a, p)

\* With the record back the command is run again, behind a snapshot of the artifacts.
Rerun(a) ==
    /\ call[a].pc = "healing" /\ call[a].todo = NoCheckpoints
    /\ Step(a, IF call[a].failed
                 THEN [call[a] EXCEPT !.pc = "settling", !.ok = FALSE, !.plain = TRUE]
                 ELSE [call[a] EXCEPT !.pc = "rerunning", !.fresh = FALSE, !.moved = FALSE])
    /\ UNCHANGED <<files, checkpoints, artifacts, accepted, seen, calls, faults>>
    /\ UNCHANGED history

\* Mutant: any scorecard of the second run will do.
ReproducedAnything(ok, score, record) == ok /\ score # NoScore

\* It succeeds only if it finds the recorded reward.
Reproduced(ok, score, record) ==
    ok /\ score # NoScore /\ score.reward >= record.reward

Reverify(a) ==
    /\ call[a].pc = "rerunning"
    /\ \E ok \in BOOLEAN, card \in Scorecards(a, TRUE) :
       \E score \in ReadAs(card.score, call[a].record) :
         Step(a, [call[a] EXCEPT !.pc = "settling", !.plain = TRUE, !.on = card.on,
                  !.ok = Reproduced(ok, card.score, call[a].record), !.score = score])
    /\ UNCHANGED <<files, checkpoints, artifacts, accepted, seen, calls, faults>>
    /\ UNCHANGED history

\* The result joins the agent's grounding calls.
Settle(a) ==
    /\ call[a].pc = "settling"
    /\ seen' = IF call[a].score = NoScore THEN seen
               ELSE [seen EXCEPT ![a] = call[a].score]
    /\ call' = [call EXCEPT ![a] = Idle]
    /\ opened' = IF Kept = {} THEN NoFiles ELSE opened
    /\ UNCHANGED <<files, checkpoints, artifacts, accepted, calls, faults, scored, strayed>>

(***************************************************************************)
(* The process dies and a new one serves the session: the record and the   *)
(* files are on disk, the grounding calls come back if the turn is         *)
(* resumed, the transaction is forgotten.                                  *)
(***************************************************************************)
\* The paths of a change whose checkpoint is in the call's hands.
Exposed(a) ==
    LET c == call[a]
    IN  CASE c.pc = "executed" /\ c.tool \in Mutators -> {c.path}
          [] c.pc \in {"persisting", "drafted"} -> c.paths
          [] c.pc = "undoing" -> {p \in Paths : c.todo[p] # NoCheckpoint}
          [] OTHER -> {}

Crash ==
    /\ faults < MaxFaults /\ faults' = faults + 1
    /\ strayed' = strayed \cup Kept \cup UNION {Exposed(a) : a \in Agents}
    /\ checkpoints' = NoCheckpoints
    /\ call' = [a \in Agents |-> Idle]
    /\ opened' = NoFiles
    /\ seen' \in {seen, [a \in Agents |-> NoScore]}
    /\ UNCHANGED <<files, artifacts, accepted, calls, scored>>

Begin(a) ==
    \/ \E t \in Mutators, x \in Edits : x[2] # Absent /\ Call(a, t, x[1], x[2])
    \/ \E x \in Edits : Call(a, "shell.exec", x[1], x[2])
    \/ Call(a, "shell.exec", "none", Absent)

Progress(a) ==
    \/ Capture(a) \/ Write(a) \/ Snapshot(a) \/ Materialize(a)
    \/ Alter(a) \/ Measure(a) \/ Verify(a) \/ Record(a) \/ Judge(a) \/ Draft(a) \/ Persist(a)
    \/ Undo(a) \/ Undone(a) \/ Heal(a) \/ Rerun(a) \/ Reverify(a) \/ Settle(a)

WorkspaceNext == Crash \/ \E a \in Agents : Begin(a) \/ Progress(a)

\* Every await of a call is answered.
WorkspaceSpec ==
    /\ WorkspaceInit /\ [][WorkspaceNext]_workspaceVars
    /\ \A a \in Agents : WF_workspaceVars(Progress(a))

(***************************************************************************)
(* Properties                                                              *)
(***************************************************************************)
\* A checkpoint has the content it brings back; a record lists contents too.
WorkspaceTypeOK ==
    /\ files \in [Paths -> Contents]
    /\ \A p \in Kept : checkpoints[p].previous \in Versions
    /\ accepted.files \in [Paths -> Contents] /\ scored.on \in [Paths -> Contents]

\* A rejected candidate leaves no trace: once the checkpoints are written
\* back, every file that existed is what it was before the tools of the
\* transaction first changed it, however many calls of however many agents
\* changed it since, shell commands included; what a command did to any other
\* file stays (rollbackVerifierRegression).
RollbackIsExact ==
    \A a \in Agents :
        call[a].pc = "settling" /\ call[a].undone =>
            \A p \in Paths : files[p] = opened[p] \/ opened[p] = Absent

\* The accepted workspace pairs a reward with the contents that earned it:
\* unless the scorecard was stale when it was read, each recorded file has the
\* content it was measured on, those carried over from an older record too -
\* except the paths a shell command, a crash, a failed write or a verdict below
\* the record had changed without a checkpoint that was judged
\* (persistAcceptedVerifierWorkspaceCheckpoint).
AcceptedIsWhatWasScored ==
    \A p \in Paths \ scored.apart : accepted.files[p] \in {scored.on[p], Absent}

\* A verification that judges no candidate and reports success leaves a
\* workspace at least as good as the record, after crashes, lost transactions,
\* changes of shell commands and stale baselines too - unless its command changed
\* a file after measuring, or it is an official verifier that wrote no scorecard
\* and was judged by an earlier one.  What was brought back has no such excuse.
SuccessMeetsTheRecord ==
    \A a \in Agents :
        /\ call[a].pc = "settling" /\ call[a].plain /\ call[a].ok
        /\ call[a].fresh \/ call[a].record # NoScore
        /\ ~call[a].moved /\ accepted.score # NoScore
        => Grade(files).reward >= accepted.score.reward

\* Every call ends, the ones that roll back, recover and verify twice too.
EveryCallAnswers == \A a \in Agents : call[a].pc # "idle" ~> call[a].pc = "idle"
=============================================================================
