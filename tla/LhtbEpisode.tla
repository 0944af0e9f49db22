----------------------------- MODULE LhtbEpisode -----------------------------
(***************************************************************************)
(* One benchmark episode: the session (structural/lhtbSession.ts) and its  *)
(* controller (structural/lhtbController.ts) behind a line-by-line RPC     *)
(* process (cli/LhtbAgent.ts), on top of OrganizationRuntime, driven by a  *)
(* client that runs the session's terminal commands in an environment.     *)
(* The client (external: research/roy_research/harbor_agent.py) kills a    *)
(* process whose answer is late, starts another, restores the snapshot of  *)
(* the last answer and sends the request again, once.                      *)
(*                                                                         *)
(* A request is handled in steps because a process may be killed between   *)
(* any two of them; nothing else interleaves, the process takes its lines  *)
(* one by one.  Left out: the text of prompts, commands and reports and    *)
(* what is refused for its text alone, repeated proposals (they end in one *)
(* accepted payload or an error), topology profiles (a diagnostic override *)
(* that is off), the tree search (nothing calls it), CONNECT without a     *)
(* requirement (nothing below reads its link), usage and policy records,   *)
(* and the requests no client in the repository sends.                     *)
(***************************************************************************)
EXTENDS FiniteSets, FiniteSetsExt, Integers, Sequences

CONSTANTS
    Nodes, Root, Reqs, NoNode, NoReq,
    TaskReq,        \* `root-task-requirement`
    OwnReport,      \* stands for `report:<producer>`
    Modes,          \* organization modes tried
    Drivers,        \* "rollout": RoyHarborAgent; "nodewise": its checkpoint twin
    FinalizerSteps, \* the nodewise client asks for that many readouts (16)
    MaxDeps, MaxEvents, MaxTimeouts, MaxAgain  \* bounds

ASSUME EpisodeAssumption ==
    /\ TaskReq \in Reqs /\ Root \in Nodes /\ NoNode \notin Nodes
    /\ Modes \subseteq {"learned", "heuristic", "direct"}
    /\ Drivers \subseteq {"rollout", "nodewise"}
    /\ {FinalizerSteps, MaxDeps, MaxEvents, MaxTimeouts, MaxAgain} \subseteq Nat

VARIABLES
    status, parent, gap, held, req, deps, settled, links, stopped,  \* the organization
    realization, \* node -> realizationMode of its specification
    events,      \* the runtime events scheduling looks at, oldest first
    unread,      \* positions of semantic events not yet projected; 0: the instruction
    pending,     \* pendingTerminalRequest
    mode,        \* organizationMode
    phase,       \* what the process does next with the request it has
    outcome,     \* the status it will answer with
    driver,
    client,      \* where the client is
    call,        \* its request: method, attempt, kind of command it reports
    saved,       \* last_snapshot; <<>> before the first answer
    ran,         \* identifiers of the commands the environment was given
    readouts,    \* finalizer_steps
    captured,    \* checkpoint of the nodewise client: session and commands behind it
    expired, timeouts, again

org == <<status, parent, gap, held, req, deps, settled, links, stopped>>
session == <<org, realization, events, unread, pending>>
rpc == <<client, call, saved, ran, readouts, captured, expired, timeouts, again, driver, mode>>
episodeVars == <<session, phase, outcome, rpc>>

Org == INSTANCE OrganizationRuntime WITH
    Artifacts <- {}, Awaited <- {OwnReport}, Channels <- {},
    Objective <- [n \in Nodes |-> n]

NoRequest == [node |-> NoNode, kind |-> "none", id |-> 0]
NoCallYet == [method |-> "none", attempt |-> 0, kind |-> "none"]

Event(kind, node, peer, of) == [kind |-> kind, node |-> node, peer |-> peer, of |-> of]
Log(kind, node, peer) == events' = Append(events, Event(kind, node, peer, 0))

-----------------------------------------------------------------------------
(* Who acts next. *)

Runnable(n) == n # NoNode /\ status[n] \in {"ready", "running", "completed"}
FirstRunnable(s) == LET I == {i \in DOMAIN s : Runnable(s[i])} IN
    IF I = {} THEN NoNode ELSE s[Min(I)]

OwnsOpenWork(n) == n # NoNode /\ \E r \in Reqs : req[r].state = "open" /\ req[r].owner = n

\* Fault: a derivation leaves the turn with the parent.
ClaimantKeepsParent(e) ==
    CASE e.kind = "result" -> FirstRunnable(<<e.node>>)
      [] e.kind \in {"derive", "reuse"} -> FirstRunnable(<<e.node, e.peer>>)
      [] e.kind = "return" -> FirstRunnable(<<parent[e.node], e.node>>)
      [] e.kind \in {"command", "act", "prune", "stop"} -> FirstRunnable(<<e.node>>)
      [] OTHER -> NoNode

\* The node an event hands the turn to, NoNode when the search goes further
\* back.  A result gives a parent with unassigned work the turn before its
\* child; an accepted derivation passes the turn to the child.
Claimant(e) ==
    CASE e.kind = "result" ->
            FirstRunnable((IF OwnsOpenWork(parent[e.node]) THEN <<parent[e.node]>> ELSE <<>>)
                          \o <<e.node>>)
      [] e.kind \in {"derive", "reuse"} -> FirstRunnable(<<e.peer, e.node>>)
      [] e.kind = "return" -> FirstRunnable(<<parent[e.node], e.node>>)
      [] e.kind \in {"command", "act", "prune", "stop"} -> FirstRunnable(<<e.node>>)
      [] OTHER -> NoNode

\* scheduledOrganizationContextNode.  Without a claim nobody has acted yet and
\* the root is the only node.
Context ==
    LET Claims == {i \in DOMAIN events : Claimant(events[i]) # NoNode} IN
    IF Claims # {} THEN Claimant(events[Max(Claims)])
    ELSE CHOOSE n \in Nodes : Runnable(n)

-----------------------------------------------------------------------------
(* What the node may choose. *)

HasResult(n) == \E i \in DOMAIN events : events[i].kind = "result" /\ events[i].node = n

\* effectiveRequirementOwner, of requirements with a recorded assignee.
EffectiveOwner(r) == IF req[r].state = "assigned" THEN req[r].assignee ELSE req[r].owner
Delegable(r) == req[r].state \in {"open", "assigned"}

\* verifierRetryNeedsProgress.
Rejected == {i \in DOMAIN events : events[i].kind = "rejected"}
\* Fault: any event after the rejection counts as progress.
NeedsAnything == Len(events) \in Rejected

NeedsProgress ==
    \E r \in Rejected : \A i \in DOMAIN events : events[i].kind = "result" => i < r

\* legalStructuralControllerCandidates, in kinds of payload.
LegalKinds(n) ==
    {"ACQUIRE", "EXECUTE", "REUSE"}
    \cup (IF \E r \in Reqs : Delegable(r) /\ EffectiveOwner(r) = n THEN {"DERIVE"} ELSE {})
    \cup (IF \E t \in Org!Present \ {Root} :
                /\ status[t] \notin {"returned", "pruned"}
                /\ \A e \in deps \ settled : e.producer # t
                /\ \A c \in Org!Children(t) : status[c] \in {"returned", "pruned", "completed"}
          THEN {"PRUNE"} ELSE {})
    \cup (IF n # Root /\ (realization[n] = "acquire_external" => HasResult(n))
          THEN {"RETURN"} ELSE {})
    \cup (IF n = Root /\ deps = settled /\ ~NeedsProgress THEN {"STOP"} ELSE {})

\* The child a macro step has just derived.
Newborn == events[Len(events)].peer

\* The kinds of payload the request lets the worker of n materialize.
Wanted(n) ==
    CASE phase = "child" -> IF realization[Newborn] = "acquire_external"
                            THEN {"ACQUIRE"} ELSE {"RETURN"}
      [] phase = "decide" /\ call.method = "finalize_now" ->
            IF n = Root THEN {"ACQUIRE", "EXECUTE"} ELSE {"RETURN"}
      [] phase = "decide" /\ call.method # "finalize_now" ->
            CASE mode = "learned" -> LegalKinds(n)
              [] mode = "direct" -> {"ACQUIRE", "EXECUTE", "STOP"}
              [] mode = "heuristic" ->
                    {"ACQUIRE", "EXECUTE", "REUSE", "DERIVE", "PRUNE", "RETURN", "STOP"}

\* The step of advanceMacro for the child is refused when another kind of node
\* has the turn.
TurnFits(n) == phase = "child" => n # Root /\ realization[n] = realization[Newborn]

Room == driver = "rollout" => Len(events) < MaxEvents
May(n, kind) == phase \in {"decide", "child"} /\ ~stopped /\ Room
                /\ n = Context /\ TurnFits(n) /\ kind \in Wanted(n)

\* A derivation goes on with its child when the request was a macro step; a
\* readout and a macro step project once more before they answer.
Onward(kind) ==
    phase' = CASE phase = "child" -> "finish"
               [] phase = "decide" /\ call.method = "advance_one" /\ kind = "DERIVE" -> "settle"
               [] phase = "decide" /\ call.method = "finalize_now" -> "finish"
               [] OTHER -> "reply"

\* requestTerminal, which refuses a second request.
RequestTerminal(n, kind) ==
    /\ May(n, kind) /\ kind \in {"ACQUIRE", "EXECUTE"}
    /\ pending = NoRequest
    /\ pending' = [node |-> n, kind |-> kind, id |-> Len(events) + 1]
    /\ Log("command", n, NoNode)
    /\ phase' = "reply" /\ outcome' = "terminal_request"
    /\ UNCHANGED <<org, realization, unread, rpc>>

Derive(n, c, r, wants, how) ==
    /\ May(n, "DERIVE")
    /\ Delegable(r) /\ EffectiveOwner(r) = n
    /\ Org!Derive(n, c, r, wants)
    /\ realization' = [realization EXCEPT ![c] = how]
    /\ Log("derive", n, c)
    /\ Onward("DERIVE") /\ outcome' = "continue"
    /\ UNCHANGED <<unread, pending, rpc>>

\* CONNECT with a requirement; the reuse review names spawned nodes only.
Reuse(n, to, r) ==
    /\ May(n, "REUSE")
    /\ to # Root
    /\ Org!Reuse(n, to, r)
    /\ Log("reuse", n, to)
    /\ Onward("REUSE") /\ outcome' = "continue"
    /\ UNCHANGED <<realization, unread, pending, rpc>>

Prune(n, t) ==
    /\ May(n, "PRUNE")
    /\ Org!Prune(n, t)
    /\ Log("prune", n, NoNode)
    /\ Onward("PRUNE") /\ outcome' = "continue"
    /\ UNCHANGED <<realization, unread, pending, rpc>>

\* RETURN, as validateCandidates lets it pass: never the root, and a child
\* with external access only after a terminal result of its own.
ReturnAllowed(n) == n # Root /\ (realization[n] = "acquire_external" => HasResult(n))

Return(n, new, resolvesGap) ==
    /\ May(n, "RETURN")
    /\ ReturnAllowed(n)
    /\ Org!Report(n, TRUE, {}, new, resolvesGap, {})
    /\ Log("return", n, NoNode)
    /\ Onward("RETURN") /\ outcome' = "continue"
    /\ UNCHANGED <<realization, unread, pending, rpc>>

StopOrganization(n) ==
    /\ May(n, "STOP") /\ n = Root
    /\ Org!Stop
    /\ Log("stop", n, NoNode)
    /\ phase' = "reply" /\ outcome' = "completed"
    /\ UNCHANGED <<realization, unread, pending, rpc>>

\* A stopped organization is completed; a readout whose worker finds no legal
\* command for the root submits what there is.
NothingToDecide ==
    /\ phase = "decide"
    /\ stopped \/ (call.method = "finalize_now" /\ Context = Root)
    /\ phase' = "reply" /\ outcome' = "completed"
    /\ UNCHANGED <<session, rpc>>

-----------------------------------------------------------------------------
(* The other steps of a request. *)

\* acceptTerminalResult.  `resume` carries the result of the command it is for.
AcceptResult ==
    /\ phase = "accept" /\ pending # NoRequest
    /\ events' = Append(events, Event("result", pending.node, NoNode, pending.id))
    /\ unread' = unread \cup {Len(events) + 1}
    /\ pending' = NoRequest
    /\ phase' = "apply"
    /\ UNCHANGED <<org, realization, outcome, rpc>>

\* EXECUTE or ACQUIRE of the node that asked, as the client's snapshot has it.
ApplyResult ==
    LET before == saved.pending IN
    /\ phase = "apply"
    /\ Org!CanAct(before.node)
    /\ IF before.kind = "EXECUTE" THEN Org!Execute(before.node) ELSE UNCHANGED org
    /\ Log("act", before.node, NoNode)
    /\ phase' = "prepare"
    /\ UNCHANGED <<realization, unread, pending, outcome, rpc>>

\* resumeAfterVerifierRejection.
Reopen ==
    /\ phase = "reopen"
    /\ Org!Resume
    /\ Log("rejected", NoNode, NoNode)
    /\ phase' = "prepare"
    /\ UNCHANGED <<realization, unread, pending, outcome, rpc>>

Projecting == phase \in {"prepare", "settle", "finish"} /\ unread # {}

\* applySemanticUpdate with the requirements `new` of the node the extractor
\* names as their owner (the event's node when it names none), or
\* applySemanticFailure (new = {}).  The instruction's requirements take the
\* place of the task's.
Project(new, owner) ==
    LET e == Min(unread) IN
    /\ Projecting
    /\ unread' = unread \ {e}
    /\ req' = [r \in Reqs |->
                 IF r \in new THEN [state |-> "open", owner |-> owner, assignee |-> NoNode]
                 ELSE IF r = TaskReq /\ e = 0 /\ new # {} /\ req[r].state = "open"
                      THEN [req[r] EXCEPT !.state = "rejected"]
                      ELSE req[r]]
    /\ UNCHANGED <<status, parent, gap, held, deps, settled, links, stopped,
                   realization, events, pending, phase, outcome, rpc>>

\* prepareDecisionBoundary has nothing left to project.
Prepared ==
    /\ phase \in {"prepare", "settle", "finish"} /\ unread = {}
    /\ IF phase = "prepare" /\ call.method \in {"prepare_boundary", "resume_boundary"}
       THEN phase' = "reply" /\ outcome' = "ready"
       ELSE /\ phase' = CASE phase = "prepare" -> "decide"
                          [] phase = "settle" -> "child"
                          [] phase = "finish" -> "reply"
            /\ UNCHANGED outcome
    /\ UNCHANGED <<session, rpc>>

-----------------------------------------------------------------------------
(* The client and its process. *)

Session == [status |-> status, parent |-> parent, gap |-> gap, held |-> held, req |-> req,
            deps |-> deps, settled |-> settled, links |-> links, stopped |-> stopped,
            realization |-> realization, events |-> events, unread |-> unread,
            pending |-> pending]

\* A new RoyLHTBSession.
Fresh == [status |-> [n \in Nodes |-> IF n = Root THEN "ready" ELSE "absent"],
          parent |-> [n \in Nodes |-> NoNode], gap |-> [n \in Nodes |-> NoReq],
          held |-> [n \in Nodes |-> {}],
          req |-> [r \in Reqs |-> IF r = TaskReq
                     THEN [state |-> "open", owner |-> Root, assignee |-> NoNode]
                     ELSE [state |-> "absent", owner |-> NoNode, assignee |-> NoNode]],
          deps |-> {}, settled |-> {}, links |-> {}, stopped |-> FALSE,
          realization |-> [n \in Nodes |-> "none"], events |-> <<>>, unread |-> {0},
          pending |-> NoRequest]

Install(s) ==
    /\ status' = s.status /\ parent' = s.parent /\ gap' = s.gap /\ held' = s.held
    /\ req' = s.req /\ deps' = s.deps /\ settled' = s.settled /\ links' = s.links
    /\ stopped' = s.stopped /\ realization' = s.realization /\ events' = s.events
    /\ unread' = s.unread /\ pending' = s.pending

Opening == IF driver = "rollout" THEN "run" ELSE "initialize"

\* Where the process begins with a request.
FirstPhase(method) ==
    CASE method \in {"resume", "resume_boundary"} -> "accept"
      [] method = "verifier_rejection" -> "reopen"
      [] method = "initialize" -> "reply"
      [] OTHER -> "prepare"

Send(method, kind) ==
    /\ client' = "waiting"
    /\ call' = [method |-> method, attempt |-> 1, kind |-> kind]
    /\ phase' = FirstPhase(method)
    /\ outcome' = IF method = "initialize" THEN "ready" ELSE outcome

\* _remaining: past the deadline the client sends nothing more.
InTime == ~expired

Start ==
    /\ client = "fresh"
    /\ Send(Opening, "none")
    /\ UNCHANGED <<session, saved, ran, readouts, captured, expired, timeouts, again, driver, mode>>

\* The process answers and the client keeps the snapshot of the answer.
Answer ==
    /\ client = "waiting" /\ phase = "reply"
    /\ client' = "answered"
    /\ saved' = Session
    /\ phase' = "idle"
    /\ UNCHANGED <<session, outcome, call, ran, readouts, captured, expired, timeouts, again, driver,
                   mode>>

\* A handler throws: sidecar, provider or runtime.  The client gives up.
Refuse ==
    /\ client = "waiting" /\ phase \notin {"idle", "reply"}
    /\ client' = "closed" /\ phase' = "idle"
    /\ UNCHANGED <<session, outcome, call, saved, ran, readouts, captured, expired, timeouts, again, driver,
                   mode>>

\* request() after its restart(): the restored process gets the request again.
\* Before the first answer there is nothing to restore.
Retry ==
    /\ client = "waiting" /\ call.attempt = 1 /\ InTime
    /\ timeouts < MaxTimeouts
    /\ timeouts' = timeouts + 1
    /\ Install(IF saved = <<>> THEN Fresh ELSE saved)
    /\ call' = [call EXCEPT !.attempt = 2]
    /\ phase' = FirstPhase(call.method)
    /\ UNCHANGED <<outcome, client, saved, ran, readouts, captured, expired, again, driver, mode>>

\* The second answer is late as well, or the restart fails.
GiveUp ==
    /\ client = "waiting" /\ InTime /\ timeouts < MaxTimeouts
    /\ timeouts' = timeouts + 1
    /\ client' = "closed" /\ phase' = "idle"
    /\ UNCHANGED <<session, outcome, call, saved, ran, readouts, captured, expired, again, driver, mode>>

\* _drive of the rollout client after an answer.
Drive ==
    /\ client = "answered" /\ driver = "rollout" /\ InTime
    /\ \/ /\ outcome = "terminal_request"
          /\ client' = "executing" /\ ran' = Append(ran, saved.pending.id)
          /\ UNCHANGED <<call, phase, outcome>>
       \/ outcome = "continue" /\ Send("advance", "none") /\ UNCHANGED ran
       \/ outcome = "completed" /\ client' = "done" /\ UNCHANGED <<call, phase, outcome, ran>>
    /\ UNCHANGED <<session, saved, readouts, captured, expired, timeouts, again, driver, mode>>

\* run of the nodewise client: at most one macro step, then the readouts, up to
\* the first EXECUTE, a completion or a repeated command.
NextReadout ==
    /\ readouts < FinalizerSteps
    /\ Send("finalize_now", "none")
    /\ readouts' = readouts + 1
    /\ captured' = IF readouts = 0 THEN [at |-> saved, ran |-> ran] ELSE captured
    /\ UNCHANGED ran
NodewiseEnds ==
    /\ \/ readouts = FinalizerSteps /\ outcome # "terminal_request"
       \/ readouts > 0 /\ outcome \in {"completed", "terminal_request"}
       \/ readouts > 0 /\ call.kind = "EXECUTE"
    /\ client' = "done"
    /\ UNCHANGED <<call, phase, outcome, ran, readouts, captured>>
NodewiseStep ==
    \/ /\ outcome = "terminal_request"
       /\ client' = "executing" /\ ran' = Append(ran, saved.pending.id)
       /\ UNCHANGED <<call, phase, outcome, readouts, captured>>
    \/ /\ outcome # "terminal_request" /\ call.method = "initialize"
       /\ Send("prepare_boundary", "none") /\ UNCHANGED <<ran, readouts, captured>>
    \/ /\ outcome # "terminal_request" /\ call.method = "prepare_boundary"
       /\ Send("advance_one", "none") /\ UNCHANGED <<ran, readouts, captured>>
    \/ /\ outcome # "terminal_request" /\ call.method # "initialize"
       /\ readouts > 0 => outcome # "completed" /\ call.kind # "EXECUTE"
       /\ NextReadout
Nodewise ==
    /\ client = "answered" /\ driver = "nodewise"
    /\ NodewiseStep \/ NodewiseEnds
    /\ UNCHANGED <<session, saved, expired, timeouts, again, driver, mode>>

\* A later trial starts from the checkpoint, its environment restored with it:
\* for the next node, or, when this trial broke off, for its readouts again.
FromCheckpoint ==
    /\ driver = "nodewise" /\ client \in {"done", "closed"} /\ captured # <<>>
    /\ again < MaxAgain
    /\ again' = again + 1
    /\ Install(captured.at) /\ saved' = captured.at
    /\ ran' = captured.ran /\ readouts' = 0
    /\ IF client = "done" THEN Send("prepare_boundary", "none")
       ELSE /\ client' = "answered" /\ outcome' = "ready" /\ phase' = "idle"
            /\ call' = [method |-> "restore", attempt |-> 1, kind |-> "none"]
    /\ UNCHANGED <<captured, expired, timeouts, driver, mode>>

\* The environment is done with the command.
CommandEnds ==
    /\ client = "executing" /\ InTime
    /\ Send(IF driver = "rollout" THEN "resume" ELSE "resume_boundary", saved.pending.kind)
    /\ UNCHANGED <<session, saved, ran, readouts, captured, expired, timeouts, again, driver, mode>>

\* The official verifier refuses what the run submitted.
Reject ==
    /\ client = "done" /\ driver = "rollout" /\ InTime
    /\ again < MaxAgain
    /\ again' = again + 1
    /\ Send("verifier_rejection", "none")
    /\ UNCHANGED <<session, saved, ran, readouts, captured, expired, timeouts, driver, mode>>

\* The rollout deadline passes.
Expire ==
    /\ driver = "rollout" /\ ~expired
    /\ expired' = TRUE
    /\ UNCHANGED <<session, phase, outcome, client, call, saved, ran, readouts, captured, timeouts,
                   again, driver, mode>>

\* Fault: the request is dropped without a trace.
AtDeadlineSilent(s) ==
    [s EXCEPT !.events = @ \o <<Event("deadline", NoNode, NoNode, 0)>>, !.pending = NoRequest]

\* finalizeAtRolloutDeadline of the snapshot s.
AtDeadline(s) ==
    LET cut == IF s.pending = NoRequest THEN <<>>
               ELSE <<Event("interrupted", s.pending.node, NoNode, s.pending.id)>>
    IN  [s EXCEPT !.events = @ \o cut \o <<Event("deadline", NoNode, NoNode, 0)>>,
                  !.pending = NoRequest]

\* _finalize_rollout_deadline: wherever the client is, the process is replaced
\* by a restored one that records the deadline; when that fails too, the last
\* snapshot stays as it is.
Deadline ==
    /\ expired /\ client \in {"waiting", "answered", "executing"}
    /\ client' = "ended"
    /\ \/ saved # <<>> /\ Install(AtDeadline(saved)) /\ saved' = AtDeadline(saved)
       \/ UNCHANGED <<session, saved>>
    /\ phase' = "idle"
    /\ UNCHANGED <<outcome, call, ran, readouts, captured, expired, timeouts, again, driver, mode>>

-----------------------------------------------------------------------------
EpisodeInit ==
    /\ status = Fresh.status /\ parent = Fresh.parent /\ gap = Fresh.gap
    /\ held = Fresh.held /\ req = Fresh.req /\ deps = {} /\ settled = {} /\ links = {}
    /\ stopped = FALSE /\ realization = Fresh.realization
    /\ events = <<>> /\ unread = {0} /\ pending = NoRequest
    /\ driver \in Drivers
    /\ mode \in IF driver = "nodewise" THEN Modes \cap {"learned"} ELSE Modes
    /\ phase = "idle" /\ outcome = "none"
    /\ client = "fresh" /\ call = NoCallYet /\ saved = <<>> /\ ran = <<>>
    /\ readouts = 0 /\ captured = <<>> /\ expired = FALSE /\ timeouts = 0 /\ again = 0

NewRequirements == {<<>>} \cup
    UNION {[{r} -> {"open"}] : r \in {q \in Reqs : req[q].state = "absent"}}

Decide ==
    \E n \in Org!Actors :
        \/ \E kind \in {"ACQUIRE", "EXECUTE"} : RequestTerminal(n, kind)
        \/ \E c \in Nodes \ Org!Present, r \in Reqs, wants \in SUBSET (Org!Present \X {OwnReport}),
             how \in {"acquire_external", "organize_knowledge"} : Derive(n, c, r, wants, how)
        \/ \E to \in Nodes, r \in Reqs : Reuse(n, to, r)
        \/ \E t \in Nodes : Prune(n, t)
        \/ \E new \in NewRequirements, resolvesGap \in BOOLEAN : Return(n, new, resolvesGap)
        \/ StopOrganization(n)

Process ==
    \/ Decide \/ NothingToDecide \/ AcceptResult \/ ApplyResult \/ Reopen \/ Prepared
    \/ \E new \in {{}} \cup {{r} : r \in {q \in Reqs : req[q].state = "absent"}},
         owner \in Org!Present : Project(new, owner)
    \/ Answer \/ Refuse

Client == Start \/ Retry \/ GiveUp \/ Drive \/ Nodewise \/ FromCheckpoint \/ CommandEnds \/ Reject

EpisodeNext == Process \/ Client \/ Expire \/ Deadline

EpisodeSpec == EpisodeInit /\ [][EpisodeNext]_episodeVars

-----------------------------------------------------------------------------
Mentions(s, kinds, id) == {i \in DOMAIN s.events : s.events[i].of = id /\ s.events[i].kind \in kinds}

\* However often a process is killed and restored, the client's snapshot gives
\* exactly one account of every command the environment was given (it is still
\* pending, has its one result, or was cut off by the deadline), and no command
\* is given to the environment twice.
EveryCommandIsAccountedOnce ==
    /\ \A i, j \in DOMAIN ran : ran[i] = ran[j] => i = j
    /\ \A i \in DOMAIN ran :
          Cardinality(Mentions(saved, {"result", "interrupted"}, ran[i]))
          + (IF saved.pending.id = ran[i] THEN 1 ELSE 0) = 1

\* A child derived to bring external information returns only after a terminal
\* result of its own, whichever request makes it return.
ExternalChildReportsItsOwn ==
    \A n \in Nodes : status[n] = "returned" /\ realization[n] = "acquire_external" => HasResult(n)

\* A learned session that the verifier rejected is not submitted again before
\* the environment has given it a new result, whatever was restored meanwhile.
NoIdleResubmission ==
    mode = "learned" =>
        \A r \in Rejected, i \in DOMAIN events :
            events[i].kind = "stop" /\ r < i => \E j \in r..i : events[j].kind = "result"

\* Who derived a child at i decides again, with nothing of the child's in between.
Deciding == {"command", "derive", "reuse", "prune", "return", "stop"}
ParentGoesOn(i) ==
    LET now == events'[Len(events')] IN
    /\ Len(events') > Len(events) /\ events[i].kind = "derive"
    /\ now.kind \in Deciding /\ now.node = events[i].node
    /\ \A j \in (i + 1)..Len(events) : events[j].node # events[i].peer

\* "it must wait for this child to act or return before another parent-local
\* decision" (lhtbController.ts:198): a node that derived a child decides
\* nothing more until that child has acted, if the child had nobody to wait for.
NewbornActsFirst ==
    [][\A i \in DOMAIN events :
          (\A e \in deps : e.consumer # events[i].peer) => ~ParentGoesOn(i)]_episodeVars

\* The same of a child that had to wait and has been woken.  TLC refutes this
\* with three children: see the README.
WokenChildActsFirst ==
    [][\A i \in DOMAIN events : Runnable(events[i].peer) => ~ParentGoesOn(i)]_episodeVars

\* advanceMacro refuses another node's step as "did not schedule its newly
\* derived child Worker" (lhtbController.ts:1058): the step it takes is the
\* newborn's.  TLC refutes this: see the README.
MacroStepIsTheNewborns ==
    [][phase = "child" /\ Len(events') > Len(events) /\ phase' # "child"
       => events'[Len(events')].node = Newborn]_episodeVars
=============================================================================
