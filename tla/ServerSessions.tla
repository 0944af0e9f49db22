--------------------------- MODULE ServerSessions ---------------------------
(***************************************************************************)
(* The server's pool of runtimes and the requests it serves:               *)
(* RuntimeSessionPool, the handlers of server/index.ts that reach it, the  *)
(* approvals a tool call waits for, and the end of the process.            *)
(*                                                                         *)
(* Everything between two waits on files, tools or models is one step: the *)
(* queue exchanges of a tool call are promise continuations and keep their *)
(* place.  Texts, listings and the content of a turn are left out.         *)
(***************************************************************************)
EXTENDS Naturals, Sequences, FiniteSets

CONSTANTS
    Sessions,      \* ids of pooled sessions
    Sockets,       \* those of them that belong to a socket connection
    Default,       \* the session of the process itself
    Keys,          \* an agent together with a tool it is bound to
    Policy,        \* per key: "auto", "ask" or "deny"
    CallLimit,     \* per key: constraints.maxCalls
    None,
    MaxSessions,   \* the pool's maxSessions
    MaxRequests,   \* bound: requests in the air at once
    MaxSent,       \* bound: requests that arrive in all
    MaxRuntimes,   \* bound: runtimes the factory makes
    MaxFaults      \* bound: initialisations and shutdowns that throw

ASSUME SessionsAssumption ==
    /\ Sockets \subseteq Sessions /\ Default \notin Sessions /\ None \notin Sessions
    /\ Policy \in [Keys -> {"auto", "ask", "deny"}]
    /\ CallLimit \in [Keys -> Nat] /\ None \notin Keys
    /\ None \notin 0..MaxRuntimes /\ None \notin {"pool", "leave"}
    /\ MaxSessions \in Nat \ {0} /\ MaxRequests \in Nat /\ MaxSent \in Nat /\ MaxRuntimes \in Nat
    /\ MaxFaults \in Nat

Requests == 1..MaxRequests
Runtimes == 0..MaxRuntimes        \* 0 is the runtime of the default session
Decisions == {"approved", "denied"}
Settled == {"down", "failed", "stuck"}

VARIABLES
    sessions,      \* RuntimeSessionPool.sessions
    runtimes,      \* every runtime made, whoever still refers to it
    approvals,     \* the ToolApprovalManagers' requests, in order of their ids
    calls,         \* toolCallCounts of each runtime
    requests,
    sent,
    decided,       \* what decisions were answered: approval and decision
    process,
    faults

vars == <<sessions, runtimes, approvals, calls, requests, sent, decided, process, faults>>

Slot(state, s) == [state |-> state, session |-> s, closer |-> None]
Unborn == Slot("unborn", None)
NoCall == [kind |-> "turn", key |-> None, approval |-> 0, decision |-> "denied"]
Idle == [call |-> NoCall, phase |-> "idle", runtime |-> 0, seen |-> 0]
NoCalls == [k \in Keys |-> 0]

\* What a request may ask for: a turn, a tool (perhaps naming an approval), a
\* decision on an approval, the end of a session (a socket's disconnection
\* ends its own).
Asks ==
    {NoCall}
        \cup [kind : {"tool"}, key : Keys, approval : 0..Len(approvals), decision : {"denied"}]
        \cup [kind : {"decide"}, key : {None}, approval : 1..Len(approvals),
              decision : Decisions]
Ends == [kind : {"close", "disconnect"}, key : {None}, approval : {0}, decision : {"denied"}]

Running == process \notin {"ended", "crashed"}
Has(r) == runtimes[r].state \in {"live", "stuck"}     \* ctx is there
NextRuntime == {r \in Runtimes : runtimes[r].state = "unborn"
                    /\ \A e \in 0..(r - 1) : runtimes[e].state # "unborn"}

Reply(q) == requests' = [requests EXCEPT ![q] = Idle]

----------------------------------------------------------------------------
(* Tool calls and decisions.                                               *)

\* authorize: a new request, decided at once by the policy or left pending.
Asked(r, k) ==
    [runtime |-> r, key |-> k,
     status |-> CASE Policy[k] = "auto" -> "approved"
                  [] Policy[k] = "deny" -> "denied"
                  [] Policy[k] = "ask" -> "pending"]

\* A slip: whatever approval is named for this agent and tool will do.
CoveredByAny(q) ==
    requests[q].call.approval # 0 /\ approvals[requests[q].call.approval].key = requests[q].call.key

\* The approval a call names covers it only for its own agent and tool.
Covered(q) ==
    LET a == requests[q].call.approval
        k == requests[q].call.key
    IN  a # 0 /\ approvals[a] = [runtime |-> requests[q].runtime, key |-> k,
                                 status |-> "approved"]

\* After the lookup of the path's history: the limit, then the approval.
Authorize(q) ==
    LET r == requests[q].runtime
        k == requests[q].call.key
        n == calls[r][k]
        pass == [requests EXCEPT ![q].phase = "working", ![q].seen = n]
    IN  /\ Running /\ requests[q].phase = "called"
        /\ IF n >= CallLimit[k] THEN Reply(q) /\ UNCHANGED approvals
           ELSE IF ~Has(r) THEN Reply(q) /\ UNCHANGED approvals
           ELSE IF Covered(q) THEN requests' = pass /\ UNCHANGED approvals
           ELSE /\ approvals' = Append(approvals, Asked(r, k))
                /\ IF Policy[k] = "auto" THEN requests' = pass ELSE Reply(q)
        /\ UNCHANGED <<sessions, runtimes, calls, sent, decided, process, faults>>

\* The tool or the turn comes back; a runtime shut down meanwhile has no
\* queue to put the result in, which is an answer as well.
Finish(q) ==
    LET r == requests[q].runtime
        k == requests[q].call.key
    IN  /\ Running /\ requests[q].phase = "working"
        /\ calls' = IF requests[q].call.kind = "tool" /\ Has(r)
                    THEN [calls EXCEPT ![r][k] = requests[q].seen + 1] ELSE calls
        /\ Reply(q)
        /\ UNCHANGED <<sessions, runtimes, approvals, sent, decided, process, faults>>

\* A slip: a decision taken twice.
MayResolveAgain(r, a) == approvals[a].runtime = r

\* ToolApprovalManager.resolve: only a pending request of this runtime.
MayResolve(r, a) == approvals[a].runtime = r /\ approvals[a].status = "pending"

Resolve(r, call) ==
    IF MayResolve(r, call.approval)
    THEN /\ approvals' = [approvals EXCEPT ![call.approval].status = call.decision]
         /\ decided' = decided \cup {<<call.approval, call.decision>>}
    ELSE UNCHANGED <<approvals, decided>>

\* await slot.entry throws what the initialisation threw, or the handler runs.
\* That of a decision has no try: without a manager its rejection is nobody's,
\* which ends the process.
Handle(q) ==
    LET r == requests[q].runtime
        call == requests[q].call
    IN  /\ Running /\ requests[q].phase = "waiting"
        /\ \/ /\ runtimes[r].state = "failed"
              /\ Reply(q)
              /\ UNCHANGED <<approvals, decided, process>>
           \/ /\ call.kind = "decide" /\ Has(r)
              /\ Resolve(r, call)
              /\ Reply(q)
              /\ UNCHANGED process
           \/ /\ call.kind = "decide" /\ runtimes[r].state = "down"
              /\ process' = "crashed"
              /\ UNCHANGED <<requests, approvals, decided>>
           \/ /\ call.kind # "decide" /\ Has(r)
              /\ requests' = [requests EXCEPT ![q].phase =
                                 IF call.kind = "tool" THEN "called" ELSE "working"]
              /\ UNCHANGED <<approvals, decided, process>>
           \/ /\ call.kind # "decide" /\ runtimes[r].state = "down"
              /\ Reply(q)
              /\ UNCHANGED <<approvals, decided, process>>
        /\ UNCHANGED <<sessions, runtimes, calls, sent, faults>>

----------------------------------------------------------------------------
(* The pool.                                                               *)

InPool == {s \in Sessions : sessions[s] # None}

Sent(q, call, r, phase) ==
    requests' = [requests EXCEPT ![q] = [call |-> call, phase |-> phase,
                                         runtime |-> r, seen |-> 0]]

\* get: the default runtime, the session's slot, a new one, or the limit.
Get(q, s, call) ==
    \/ /\ s = Default
       /\ Sent(q, call, 0, "waiting")
       /\ UNCHANGED <<sessions, runtimes>>
    \/ /\ s \in InPool
       /\ Sent(q, call, sessions[s], "waiting")
       /\ UNCHANGED <<sessions, runtimes>>
    \/ /\ s \in Sessions \ InPool
       /\ Cardinality(InPool) < MaxSessions
       /\ \E r \in NextRuntime :
             /\ Sent(q, call, r, "waiting")
             /\ runtimes' = [runtimes EXCEPT ![r] = Slot("creating", s)]
             /\ sessions' = [sessions EXCEPT ![s] = r]
    \/ /\ s \in Sessions \ InPool
       /\ Cardinality(InPool) >= MaxSessions
       /\ Reply(q)
       /\ UNCHANGED <<sessions, runtimes>>

Arrive(q) ==
    /\ requests[q].phase = "idle" /\ \A p \in 1..(q - 1) : requests[p].phase # "idle"
    /\ sent < MaxSent /\ sent' = sent + 1
    /\ process \in {"serving", "leaving"}
    /\ \E s \in Sessions \cup {Default}, call \in Asks : Get(q, s, call)
    /\ UNCHANGED <<approvals, calls, decided, process, faults>>

\* close: nothing to close, or the slot leaves the pool and is waited for.
Close(q) ==
    /\ requests[q].phase = "idle" /\ \A p \in 1..(q - 1) : requests[p].phase # "idle"
    /\ sent < MaxSent /\ sent' = sent + 1
    /\ process \in {"serving", "leaving"}
    /\ \E s \in Sessions \cup {Default}, call \in Ends :
          /\ call.kind = "disconnect" => s \in Sockets
          /\ IF s \in InPool
             THEN /\ Sent(q, call, sessions[s], "closing")
                  /\ sessions' = [sessions EXCEPT ![s] = None]
                  /\ runtimes' = [runtimes EXCEPT ![sessions[s]].closer = "pool"]
             ELSE Reply(q) /\ UNCHANGED <<sessions, runtimes>>
    /\ UNCHANGED <<approvals, calls, decided, process, faults>>

\* The end of close: an answer, or for a socket whose slot failed a rejection
\* nobody handles.
Closed(q) ==
    LET state == runtimes[requests[q].runtime].state
    IN  /\ Running /\ requests[q].phase = "closing"
        /\ state \in Settled
        /\ IF state # "down" /\ requests[q].call.kind = "disconnect"
           THEN process' = "crashed" /\ UNCHANGED requests
           ELSE Reply(q) /\ UNCHANGED process
        /\ UNCHANGED <<sessions, runtimes, approvals, calls, sent, decided, faults>>

Created(r) ==
    /\ Running /\ runtimes[r].state = "creating"
    /\ runtimes' = [runtimes EXCEPT ![r].state = "live"]
    /\ UNCHANGED <<sessions, approvals, calls, requests, sent, decided, process, faults>>

\* A slip: the slot goes whichever it is by then.
ForgetAny(r) == [sessions EXCEPT ![runtimes[r].session] = None]

\* The initialisation throws; the slot goes if it is still this one.
Forget(r) ==
    IF sessions[runtimes[r].session] = r
    THEN [sessions EXCEPT ![runtimes[r].session] = None] ELSE sessions

CreationFails(r) ==
    /\ Running /\ runtimes[r].state = "creating"
    /\ faults < MaxFaults
    /\ faults' = faults + 1
    /\ runtimes' = [runtimes EXCEPT ![r].state = "failed"]
    /\ sessions' = Forget(r)
    /\ UNCHANGED <<approvals, calls, requests, sent, decided, process>>

\* The slots of these sessions leave the pool, to be shut down one by one.
Retire(which) ==
    /\ sessions' = [s \in Sessions |-> IF s \in which THEN None ELSE sessions[s]]
    /\ runtimes' = [r \in Runtimes |->
            IF \E s \in which : sessions[s] = r
            THEN [runtimes[r] EXCEPT !.closer = "pool"] ELSE runtimes[r]]

\* idleTimeoutMs may have passed since the last get of any session, whatever
\* that request is still doing.
SweepIdle ==
    /\ process = "serving"
    /\ \E expired \in SUBSET InPool : expired # {} /\ Retire(expired)
    /\ UNCHANGED <<approvals, calls, requests, sent, decided, process, faults>>

\* The signal: the sweep stops, the pool and the default runtime shut down.
Leave ==
    /\ process = "serving"
    /\ process' = "leaving"
    /\ sessions' = [s \in Sessions |-> None]
    /\ runtimes' = [r \in Runtimes |->
            IF r = 0 \/ \E s \in InPool : sessions[s] = r
            THEN [runtimes[r] EXCEPT !.closer = "leave"] ELSE runtimes[r]]
    /\ UNCHANGED <<approvals, calls, requests, sent, decided, faults>>

\* A shutdown that waits for the entry starts once the entry is there.
MayShutDown(r) == runtimes[r].closer # None /\ runtimes[r].state = "live"

\* Runtime.shutdown ends.  Requests that were waiting for the same entry went
\* on when it resolved, long before.
ShutDown(r) ==
    /\ Running /\ MayShutDown(r)
    /\ \A q \in Requests : requests[q].runtime = r => requests[q].phase # "waiting"
    /\ \/ /\ runtimes' = [runtimes EXCEPT ![r].state = "down"]
          /\ calls' = [calls EXCEPT ![r] = NoCalls]
          /\ UNCHANGED faults
       \/ /\ faults < MaxFaults /\ faults' = faults + 1
          /\ runtimes' = [runtimes EXCEPT ![r].state = "stuck"]
          /\ UNCHANGED calls
    /\ UNCHANGED <<sessions, approvals, requests, sent, decided, process>>

\* allSettled: nothing more is accepted, open requests are waited for.
StopListening ==
    /\ process = "leaving"
    /\ \A r \in Runtimes : runtimes[r].closer = "leave" => runtimes[r].state \in Settled
    /\ process' = "draining"
    /\ UNCHANGED <<sessions, runtimes, approvals, calls, requests, sent, decided, faults>>

End ==
    /\ process = "draining"
    /\ \A q \in Requests :
          requests[q].phase = "idle" \/ requests[q].call.kind = "disconnect"
    /\ process' = "ended"
    /\ UNCHANGED <<sessions, runtimes, approvals, calls, requests, sent, decided, faults>>

----------------------------------------------------------------------------
Init ==
    /\ sessions = [s \in Sessions |-> None]
    /\ runtimes = [r \in Runtimes |->
            IF r = 0 THEN Slot("live", Default) ELSE Unborn]
    /\ approvals = <<>>
    /\ calls = [r \in Runtimes |-> NoCalls]
    /\ requests = [q \in Requests |-> Idle]
    /\ sent = 0
    /\ decided = {}
    /\ process = "serving"
    /\ faults = 0

Serve(q) == Arrive(q) \/ Close(q) \/ Handle(q) \/ Authorize(q) \/ Finish(q) \/ Closed(q)
Keep(r) == Created(r) \/ CreationFails(r) \/ ShutDown(r)
Ended == ~Running /\ UNCHANGED vars

\* Every step before the end uses something up (a request that may still
\* arrive, a phase of one in the air, a runtime's life), so runs are finite:
\* that TLC finds no deadlock says that each of them reaches the end, with its
\* requests answered and what the end waits for shut down.
Next ==
    \/ \E q \in Requests : Serve(q)
    \/ \E r \in Runtimes : Keep(r)
    \/ SweepIdle \/ Leave \/ StopListening \/ End \/ Ended

Spec == Init /\ [][Next]_vars

----------------------------------------------------------------------------
Phases == {"idle", "waiting", "called", "working", "closing"}
Calls == [kind : {"turn", "tool", "decide", "close", "disconnect"}, key : Keys \cup {None},
          approval : Nat, decision : Decisions]

RuntimeType == [state : {"unborn", "creating", "live"} \cup Settled,
                session : Sessions \cup {Default, None}, closer : {None, "pool", "leave"}]
ApprovalType == [runtime : Runtimes, key : Keys, status : Decisions \cup {"pending"}]
RequestType == [call : Calls, phase : Phases, runtime : Runtimes, seen : Nat]

TypeOK ==
    /\ sessions \in [Sessions -> Runtimes \cup {None}]
    /\ runtimes \in [Runtimes -> RuntimeType]
    /\ approvals \in Seq(ApprovalType)
    /\ calls \in [Runtimes -> [Keys -> Nat]]
    /\ requests \in [Requests -> RequestType]
    /\ decided \subseteq Nat \X Decisions
    /\ process \in {"serving", "leaving", "draining", "ended", "crashed"}

\* A pooled runtime that is being made or is alive is either listed under its
\* session or somebody is on the way to shut it down, never both and never
\* neither: closing, sweeping, a failed initialisation and a session made anew
\* in between lose none (RuntimeSessionPool.get, close, sweepIdle, shutdown).
NoRuntimeIsLost ==
    \A r \in Runtimes \ {0} : runtimes[r].state \in {"creating", "live"} =>
        (sessions[runtimes[r].session] = r <=> runtimes[r].closer = None)

\* A tool that works under "ask" does so because an earlier request of the
\* same runtime approved exactly this agent and tool; under "deny" none works
\* (Runtime.executeToolForAgent, resolveToolApproval).
NothingRunsUndecided ==
    \A q \in Requests :
        requests[q].phase = "working" /\ requests[q].call.kind = "tool" =>
            LET k == requests[q].call.key
                a == requests[q].call.approval
            IN  /\ Policy[k] # "deny"
                /\ Policy[k] = "ask" =>
                       /\ <<a, "approved">> \in decided
                       /\ approvals[a].key = k /\ approvals[a].runtime = requests[q].runtime

\* What a decision was answered stays: no later request turns a denied call
\* into an approved one or back (ToolApprovalManager.resolve).
DecisionsStand ==
    \A a \in 1..Len(approvals), d \in Decisions :
        <<a, d>> \in decided => approvals[a].status = d
=============================================================================
