---------------------------- MODULE SessionProofs ----------------------------
(***************************************************************************)
(* Safety of the two kinds of sessions a client can hold: those of the     *)
(* server (ServerSessions), for any number of sessions, requests, runtimes *)
(* and tools, and the benchmark's (LhtbEpisode), for any number of nodes,  *)
(* requirements, restarts and events.                                      *)
(*                                                                         *)
(* The server's invariant has two halves that never meet.  Registry        *)
(* relates the pool's map with the runtimes: what is listed was not taken  *)
(* for closing, and what was not taken is listed.  Consent relates         *)
(* approvals with what the operator was answered and with the calls at     *)
(* work.                                                                   *)
(*                                                                         *)
(* The episode's invariant says the same of every session there is, the    *)
(* process's, the client's snapshot and its checkpoint, because each may   *)
(* become the process's at the next restart (Sound); that the snapshots    *)
(* are no longer than what came after them and know every command given    *)
(* to the environment (Snapshots); and what client and process may assume  *)
(* of each other while one of them waits (Places).                         *)
(***************************************************************************)
EXTENDS ServerSessions, LhtbEpisode, FiniteSetTheorems, SequenceTheorems, TLAPS

Alive(r) == runtimes[r].state \in {"creating", "live"}

\* What the map lists is alive and not on its way out.
ListedAreKept ==
    \A s \in Sessions : sessions[s] # None =>
        /\ sessions[s] # 0
        /\ Alive(sessions[s])
        /\ runtimes[sessions[s]].session = s
        /\ runtimes[sessions[s]].closer = None

\* What is alive and not on its way out is in the map.
KeptAreListed ==
    \A r \in Runtimes \ {0} : Alive(r) =>
        /\ runtimes[r].session \in Sessions
        /\ runtimes[r].closer = None => sessions[runtimes[r].session] = r

UnbornAreUntouched ==
    \A r \in Runtimes : runtimes[r].state = "unborn" => r # 0 /\ runtimes[r].closer = None

Registry == ListedAreKept /\ KeptAreListed /\ UnbornAreUntouched

\* Decisions are of approvals there are.
DecidedAreKnown == decided \subseteq (1..Len(approvals)) \X Decisions

\* An approval is what its policy says, or what was decided.
ApprovalsAreFounded ==
    \A a \in 1..Len(approvals) :
        /\ Policy[approvals[a].key] = "deny" => approvals[a].status = "denied"
        /\ Policy[approvals[a].key] = "ask" /\ approvals[a].status = "approved" =>
               <<a, "approved">> \in decided

\* A request asks about a key or an approval there is.
RequestsAreSound ==
    \A q \in Requests :
        /\ requests[q].call.approval \in 0..Len(approvals)
        /\ requests[q].call.kind = "tool" => requests[q].call.key \in Keys
        /\ requests[q].call.kind = "decide" => requests[q].call.approval # 0
        /\ requests[q].phase = "called" => requests[q].call.kind = "tool"

\* A tool at work has its policy's consent or an operator's.
Consented(q) ==
    LET k == requests[q].call.key
        a == requests[q].call.approval
    IN  /\ Policy[k] # "deny"
        /\ Policy[k] = "ask" =>
               /\ a \in 1..Len(approvals)
               /\ <<a, "approved">> \in decided
               /\ approvals[a].key = k /\ approvals[a].runtime = requests[q].runtime

WorkersAreConsented ==
    \A q \in Requests :
        requests[q].phase = "working" /\ requests[q].call.kind = "tool" => Consented(q)

Consent ==
    /\ DecidedAreKnown
    /\ DecisionsStand
    /\ ApprovalsAreFounded
    /\ RequestsAreSound
    /\ WorkersAreConsented

IInv == TypeOK /\ Registry /\ Consent

-----------------------------------------------------------------------------
(* Initial state.                                                          *)

USE DEF RuntimeType, ApprovalType, RequestType

LEMMA InitInv == Init => IInv
<1> SUFFICES ASSUME Init PROVE IInv
  OBVIOUS
<1>1. None \notin Runtimes /\ 0 \in Runtimes
  BY SessionsAssumption DEF Runtimes
<1>2. TypeOK
  <2>1. Idle \in RequestType
    BY <1>1 DEF Idle, NoCall, Calls, Phases, Decisions
  <2>2. calls \in [Runtimes -> [Keys -> Nat]]
    BY DEF Init, NoCalls
  <2>3. approvals \in Seq(ApprovalType)
    BY EmptySeq DEF Init
  <2>4. runtimes \in [Runtimes -> RuntimeType]
    BY DEF Init, Unborn, Slot
  <2> QED BY <2>1, <2>2, <2>3, <2>4 DEF Init, TypeOK
<1>3. Registry
  BY <1>1, SessionsAssumption
  DEF Init, Registry, ListedAreKept, KeptAreListed, UnbornAreUntouched, Alive, Unborn, Slot
<1>4. Len(approvals) = 0
  BY DEF Init
<1>5. Consent
  BY <1>4 DEF Init, Consent, DecidedAreKnown, DecisionsStand, ApprovalsAreFounded,
              RequestsAreSound, WorkersAreConsented, Idle, NoCall
<1> QED BY <1>2, <1>3, <1>5 DEF IInv

-----------------------------------------------------------------------------
(* The registry.                                                           *)

LEMMA SameRegistry ==
  ASSUME Registry, UNCHANGED <<sessions, runtimes>>
  PROVE  Registry'
  BY DEF Registry, ListedAreKept, KeptAreListed, UnbornAreUntouched, Alive

LEMMA NoneIsNoRuntime == None \notin Runtimes /\ 0 \in Runtimes
  BY SessionsAssumption DEF Runtimes

\* A session that is not listed gets the next runtime there is.
LEMMA ArriveKeepsRegistry ==
  ASSUME TypeOK, Registry, NEW q \in Requests, Arrive(q)
  PROVE  Registry'
<1>1. PICK s \in Sessions \cup {Default}, ask \in Asks : Get(q, s, ask)
  BY DEF Arrive
<1>2. CASE UNCHANGED <<sessions, runtimes>>
  BY <1>2, SameRegistry
<1>3. ASSUME s \in Sessions \ InPool, NEW r \in NextRuntime,
             runtimes' = [runtimes EXCEPT ![r] = Slot("creating", s)],
             sessions' = [sessions EXCEPT ![s] = r]
      PROVE  Registry'
  <2>1. r \in Runtimes /\ runtimes[r].state = "unborn" /\ r # 0
    BY DEF NextRuntime, Registry, UnbornAreUntouched
  <2>2. sessions[s] = None
    BY <1>3 DEF InPool
  <2>3. \A t \in Sessions : sessions[t] # r
    BY <2>1, NoneIsNoRuntime DEF Registry, ListedAreKept, Alive
  <2>4. runtimes'[r] = [state |-> "creating", session |-> s, closer |-> None]
    BY <1>3, <2>1 DEF TypeOK, Slot
  <2>5. \A e \in Runtimes : e # r => runtimes'[e] = runtimes[e]
    BY <1>3 DEF TypeOK
  <2>6. sessions'[s] = r /\ \A t \in Sessions : t # s => sessions'[t] = sessions[t]
    BY <1>3 DEF TypeOK
  <2>7. ListedAreKept'
    BY <2>1, <2>3, <2>4, <2>5, <2>6 DEF Registry, ListedAreKept, Alive, TypeOK
  <2>8. KeptAreListed'
    BY <1>3, <2>1, <2>2, <2>4, <2>5, <2>6, NoneIsNoRuntime DEF Registry, KeptAreListed, Alive
  <2>9. UnbornAreUntouched'
    BY <2>1, <2>4, <2>5 DEF Registry, UnbornAreUntouched
  <2> QED BY <2>7, <2>8, <2>9 DEF Registry
<1> QED BY <1>1, <1>2, <1>3 DEF Get

\* Taking slots out of the pool hands exactly their runtimes to a closer.
LEMMA TakingKeepsRegistry ==
  ASSUME TypeOK, Registry, NEW which \in SUBSET Sessions,
         NEW closer \in {"pool", "leave"}, NEW others \in SUBSET {0},
         sessions' = [s \in Sessions |-> IF s \in which THEN None ELSE sessions[s]],
         runtimes' = [r \in Runtimes |->
             IF r \in others \/ \E s \in which : sessions[s] = r
             THEN [runtimes[r] EXCEPT !.closer = closer] ELSE runtimes[r]]
  PROVE  Registry'
<1>1. \A r \in Runtimes : /\ runtimes'[r].state = runtimes[r].state
                          /\ runtimes'[r].session = runtimes[r].session
  BY DEF TypeOK
<1>2. \A r \in Runtimes : runtimes'[r].closer =
          IF r \in others \/ \E s \in which : sessions[s] = r
          THEN closer ELSE runtimes[r].closer
  BY DEF TypeOK
<1>3. \A s \in Sessions : sessions'[s] = IF s \in which THEN None ELSE sessions[s]
  OBVIOUS
<1>4. closer # None
  BY SessionsAssumption
<1>5. \A s \in Sessions : sessions[s] # None => sessions[s] \in Runtimes \ {0}
  BY DEF TypeOK, Registry, ListedAreKept
<1>6. \A s, t \in Sessions : sessions[s] # None /\ sessions[s] = sessions[t] => s = t
  BY DEF Registry, ListedAreKept
<1>7. ListedAreKept'
  <2> SUFFICES ASSUME NEW s \in Sessions, sessions'[s] # None
               PROVE  /\ sessions'[s] # 0 /\ Alive(sessions[s])'
                      /\ runtimes'[sessions'[s]].session = s
                      /\ runtimes'[sessions'[s]].closer = None
    BY DEF ListedAreKept, Alive
  <2>1. s \notin which /\ sessions'[s] = sessions[s]
    BY <1>3
  <2>2. sessions[s] \notin others /\ \A t \in which : sessions[t] # sessions[s]
    BY <1>5, <1>6, <2>1
  <2> QED BY <1>1, <1>2, <1>5, <2>1, <2>2 DEF Registry, ListedAreKept, Alive
<1>8. KeptAreListed'
  <2> SUFFICES ASSUME NEW r \in Runtimes \ {0}, Alive(r)'
               PROVE  /\ runtimes'[r].session \in Sessions
                      /\ runtimes'[r].closer = None => sessions'[runtimes'[r].session] = r
    BY DEF KeptAreListed
  <2>1. Alive(r) /\ runtimes[r].session \in Sessions
    BY <1>1 DEF Alive, Registry, KeptAreListed
  <2>2. ASSUME runtimes'[r].closer = None
        PROVE  sessions'[runtimes'[r].session] = r
    <3>1. runtimes[r].closer = None /\ ~ \E s \in which : sessions[s] = r
      BY <1>2, <1>4, <2>2
    <3>2. sessions[runtimes[r].session] = r
      BY <2>1, <3>1 DEF Registry, KeptAreListed
    <3> QED BY <1>1, <1>3, <2>1, <3>1, <3>2
  <2> QED BY <1>1, <2>1, <2>2
<1>9. UnbornAreUntouched'
  BY <1>1, <1>2, <1>5, NoneIsNoRuntime
  DEF Registry, UnbornAreUntouched, ListedAreKept, Alive
<1> QED BY <1>7, <1>8, <1>9 DEF Registry

LEMMA CloseKeepsRegistry ==
  ASSUME TypeOK, Registry, NEW q \in Requests, Close(q)
  PROVE  Registry'
<1>1. CASE UNCHANGED <<sessions, runtimes>>
  BY <1>1, SameRegistry
<1>2. ASSUME NEW s \in InPool,
             sessions' = [sessions EXCEPT ![s] = None],
             runtimes' = [runtimes EXCEPT ![sessions[s]].closer = "pool"]
      PROVE  Registry'
  <2>1. s \in Sessions
    BY DEF InPool
  <2>2. sessions' = [t \in Sessions |-> IF t \in {s} THEN None ELSE sessions[t]]
    BY <1>2 DEF TypeOK
  <2>3. runtimes' = [r \in Runtimes |->
             IF r \in {} \/ \E t \in {s} : sessions[t] = r
             THEN [runtimes[r] EXCEPT !.closer = "pool"] ELSE runtimes[r]]
    BY <1>2 DEF TypeOK
  <2>4. {s} \in SUBSET Sessions /\ {} \in SUBSET {0} /\ "pool" \in {"pool", "leave"}
    BY <2>1
  <2> QED BY <2>2, <2>3, <2>4, TakingKeepsRegistry, Zenon
<1> QED BY <1>1, <1>2 DEF Close

LEMMA SweepKeepsRegistry ==
  ASSUME TypeOK, Registry, SweepIdle
  PROVE  Registry'
<1>1. PICK which \in SUBSET InPool : Retire(which)
  BY DEF SweepIdle
<1>2. which \in SUBSET Sessions
  BY DEF InPool
<1>3. runtimes' = [r \in Runtimes |->
             IF r \in {} \/ \E s \in which : sessions[s] = r
             THEN [runtimes[r] EXCEPT !.closer = "pool"] ELSE runtimes[r]]
  BY <1>1 DEF Retire
<1>4. sessions' = [s \in Sessions |-> IF s \in which THEN None ELSE sessions[s]]
  BY <1>1 DEF Retire
<1>5. {} \in SUBSET {0} /\ "pool" \in {"pool", "leave"}
  OBVIOUS
<1> QED BY <1>2, <1>3, <1>4, <1>5, TakingKeepsRegistry, Zenon

LEMMA LeaveKeepsRegistry ==
  ASSUME TypeOK, Registry, Leave
  PROVE  Registry'
<1>1. sessions' = [s \in Sessions |-> IF s \in InPool THEN None ELSE sessions[s]]
  BY DEF Leave, InPool, TypeOK
<1>2. runtimes' = [r \in Runtimes |->
             IF r \in {0} \/ \E s \in InPool : sessions[s] = r
             THEN [runtimes[r] EXCEPT !.closer = "leave"] ELSE runtimes[r]]
  BY DEF Leave
<1>3. InPool \in SUBSET Sessions
  BY DEF InPool
<1> QED BY <1>1, <1>2, <1>3, TakingKeepsRegistry

\* The entry is made, fails or is shut down: one runtime changes its state.
LEMMA KeepKeepsRegistry ==
  ASSUME TypeOK, Registry, NEW r \in Runtimes, Keep(r)
  PROVE  Registry'
<1>1. CASE Created(r)
  <2>1. /\ \A e \in Runtimes : /\ Alive(e)' = Alive(e)
                               /\ runtimes'[e].session = runtimes[e].session
                               /\ runtimes'[e].closer = runtimes[e].closer
                               /\ runtimes'[e].state = "unborn" =>
                                      runtimes[e].state = "unborn"
        /\ sessions' = sessions
    BY <1>1 DEF Created, TypeOK, Alive
  <2>2. ListedAreKept'
    BY <2>1 DEF Registry, ListedAreKept, TypeOK
  <2> QED BY <2>1, <2>2 DEF Registry, KeptAreListed, UnbornAreUntouched
<1>2. CASE CreationFails(r)
  <2>1. /\ \A e \in Runtimes : /\ e # r => runtimes'[e] = runtimes[e]
                               /\ runtimes'[e].closer = runtimes[e].closer
        /\ runtimes'[r].state = "failed" /\ Alive(r)
    BY <1>2 DEF CreationFails, TypeOK, Alive
  <2>2. \A s \in Sessions : sessions'[s] = IF sessions[s] = r THEN None ELSE sessions[s]
    <3>1. \A s \in Sessions : sessions[s] = r => runtimes[r].session = s
      BY NoneIsNoRuntime DEF Registry, ListedAreKept
    <3> QED BY <1>2, <3>1 DEF CreationFails, Forget, TypeOK
  <2>3. ListedAreKept'
    BY <2>1, <2>2 DEF Registry, ListedAreKept, TypeOK, Alive
  <2>4. KeptAreListed'
    BY <2>1, <2>2 DEF Registry, KeptAreListed, Alive
  <2>5. UnbornAreUntouched'
    BY <2>1 DEF Registry, UnbornAreUntouched
  <2> QED BY <2>3, <2>4, <2>5 DEF Registry
<1>3. CASE ShutDown(r)
  <2>1. /\ \A e \in Runtimes : e # r => runtimes'[e] = runtimes[e]
        /\ runtimes'[r].state \in {"down", "stuck"}
        /\ runtimes[r].closer # None
        /\ sessions' = sessions
    BY <1>3 DEF ShutDown, MayShutDown, TypeOK
  <2>2. \A s \in Sessions : sessions[s] # r
    BY <2>1, NoneIsNoRuntime DEF Registry, ListedAreKept
  <2>3. ListedAreKept'
    BY <2>1, <2>2 DEF Registry, ListedAreKept, Alive, TypeOK
  <2> QED BY <2>1, <2>3 DEF Registry, KeptAreListed, UnbornAreUntouched, Alive
<1> QED BY <1>1, <1>2, <1>3 DEF Keep

-----------------------------------------------------------------------------
(* Consent.                                                                *)

\* The request a step sets, and the rest as they were.
LEMMA ReplyIs ==
  ASSUME TypeOK, NEW q \in Requests, Reply(q)
  PROVE  /\ requests' \in [Requests -> RequestType]
         /\ requests'[q].call = NoCall /\ requests'[q].phase = "idle"
         /\ \A p \in Requests : p # q => requests'[p] = requests[p]
<1>1. Idle \in RequestType
  BY NoneIsNoRuntime DEF Idle, NoCall, Calls, Phases, Decisions
<1>2. Idle.call = NoCall /\ Idle.phase = "idle"
  BY DEF Idle
<1> QED BY <1>1, <1>2 DEF Reply, TypeOK

LEMMA SentIs ==
  ASSUME TypeOK, NEW q \in Requests, NEW ask \in Calls, NEW r \in Runtimes,
         NEW stage \in Phases, Sent(q, ask, r, stage)
  PROVE  /\ requests' \in [Requests -> RequestType]
         /\ requests'[q].call = ask /\ requests'[q].phase = stage
         /\ \A p \in Requests : p # q => requests'[p] = requests[p]
  BY DEF Sent, TypeOK

\* One request changes to something sound that does not work.
LEMMA OneRequest ==
  ASSUME TypeOK, Consent, NEW q \in Requests, UNCHANGED <<approvals, decided>>,
         \A p \in Requests : p # q => requests'[p] = requests[p],
         requests'[q].call.approval \in 0..Len(approvals),
         requests'[q].call.kind = "tool" => requests'[q].call.key \in Keys,
         requests'[q].call.kind = "decide" => requests'[q].call.approval # 0,
         requests'[q].phase = "called" => requests'[q].call.kind = "tool",
         requests'[q].phase = "working" => requests'[q].call.kind # "tool"
  PROVE  Consent'
<1>1. DecidedAreKnown' /\ DecisionsStand' /\ ApprovalsAreFounded'
  BY DEF Consent, DecidedAreKnown, DecisionsStand, ApprovalsAreFounded
<1>2. RequestsAreSound'
  BY DEF Consent, RequestsAreSound
<1>3. WorkersAreConsented'
  <2> SUFFICES ASSUME NEW p \in Requests, requests'[p].phase = "working",
                      requests'[p].call.kind = "tool"
               PROVE  Consented(p)'
    BY DEF WorkersAreConsented
  <2>1. requests'[p] = requests[p] /\ Consented(p)
    BY DEF Consent, WorkersAreConsented
  <2> QED BY <2>1 DEF Consented
<1> QED BY <1>1, <1>2, <1>3 DEF Consent

LEMMA ReplyKeepsConsent ==
  ASSUME TypeOK, Consent, NEW q \in Requests, UNCHANGED <<approvals, decided>>, Reply(q)
  PROVE  Consent'
<1>1. Len(approvals) \in Nat
  BY LenProperties DEF TypeOK
<1> QED BY <1>1, ReplyIs, OneRequest DEF NoCall

LEMMA SameConsent ==
  ASSUME Consent, UNCHANGED <<approvals, decided, requests>>
  PROVE  Consent'
  BY DEF Consent, DecidedAreKnown, DecisionsStand, ApprovalsAreFounded,
         RequestsAreSound, WorkersAreConsented, Consented

\* Every call that may be asked for is one the model knows.
LEMMA AsksAreSound ==
  ASSUME TypeOK, NEW ask \in Asks
  PROVE  /\ ask \in Calls
         /\ ask.approval \in 0..Len(approvals)
         /\ ask.kind = "tool" => ask.key \in Keys
         /\ ask.kind = "decide" => ask.approval # 0
<1>1. Len(approvals) \in Nat
  BY LenProperties DEF TypeOK
<1> QED BY <1>1 DEF Asks, NoCall, Calls, Decisions

LEMMA EndsAreSound ==
  ASSUME NEW ask \in Ends
  PROVE  ask \in Calls /\ ask.approval = 0 /\ ask.kind \notin {"tool", "decide"}
  BY DEF Ends, Calls, Decisions

LEMMA ArriveKeepsConsent ==
  ASSUME TypeOK, Registry, Consent, NEW q \in Requests, Arrive(q)
  PROVE  Consent'
<1>1. PICK s \in Sessions \cup {Default}, ask \in Asks : Get(q, s, ask)
  BY DEF Arrive
<1>2. UNCHANGED <<approvals, decided>>
  BY DEF Arrive
<1>3. CASE Reply(q)
  BY <1>2, <1>3, ReplyKeepsConsent
<1>4. ASSUME NEW r \in Runtimes, Sent(q, ask, r, "waiting")
      PROVE  Consent'
  BY <1>2, <1>4, AsksAreSound, SentIs, OneRequest DEF Phases
<1>5. \A t \in InPool : sessions[t] \in Runtimes
  BY DEF InPool, TypeOK
<1>6. NextRuntime \subseteq Runtimes
  BY DEF NextRuntime
<1> QED BY <1>1, <1>3, <1>4, <1>5, <1>6, NoneIsNoRuntime DEF Get

LEMMA CloseKeepsConsent ==
  ASSUME TypeOK, Registry, Consent, NEW q \in Requests, Close(q)
  PROVE  Consent'
<1>1. UNCHANGED <<approvals, decided>>
  BY DEF Close
<1>2. CASE Reply(q)
  BY <1>1, <1>2, ReplyKeepsConsent
<1>3. ASSUME NEW r \in Runtimes, NEW ask \in Ends, Sent(q, ask, r, "closing")
      PROVE  Consent'
  <2>1. Len(approvals) \in Nat
    BY LenProperties DEF TypeOK
  <2>2. requests'[q].call = ask /\ requests'[q].phase = "closing"
        /\ \A p \in Requests : p # q => requests'[p] = requests[p]
    BY <1>3, EndsAreSound, SentIs DEF Phases
  <2> QED BY <1>1, <2>1, <2>2, EndsAreSound, OneRequest
<1>4. \A t \in InPool : sessions[t] \in Runtimes
  BY DEF InPool, TypeOK
<1> QED BY <1>2, <1>3, <1>4 DEF Close

\* What was approved for a call at work is not taken back.
LEMMA ConsentLasts ==
  ASSUME TypeOK, NEW q \in Requests, Consented(q), requests'[q] = requests[q],
         decided \subseteq decided',
         \A a \in 1..Len(approvals) :
             /\ a \in 1..Len(approvals')
             /\ approvals'[a].key = approvals[a].key
             /\ approvals'[a].runtime = approvals[a].runtime
  PROVE  Consented(q)'
  BY DEF Consented

LEMMA ResolveKeepsConsent ==
  ASSUME TypeOK, Consent, NEW q \in Requests, Reply(q),
         NEW ask \in Calls, ask = requests[q].call, ask.kind = "decide",
         Resolve(requests[q].runtime, ask)
  PROVE  Consent'
<1> DEFINE a == ask.approval
           r == requests[q].runtime
<1>1. CASE ~MayResolve(r, ask.approval)
  BY <1>1, ReplyKeepsConsent DEF Resolve
<1>2. CASE MayResolve(r, ask.approval)
  <2>1. a \in 1..Len(approvals) /\ Len(approvals) \in Nat
    BY LenProperties DEF Consent, RequestsAreSound, TypeOK
  <2>2. /\ Len(approvals') = Len(approvals)
        /\ \A b \in 1..Len(approvals) :
               /\ b # a => approvals'[b] = approvals[b]
               /\ approvals'[b].key = approvals[b].key
               /\ approvals'[b].runtime = approvals[b].runtime
        /\ approvals'[a].status = ask.decision
    <3>1. approvals' = [approvals EXCEPT ![a].status = ask.decision]
      BY <1>2 DEF Resolve
    <3> DEFINE T == ApprovalType
               e == [approvals[a] EXCEPT !.status = ask.decision]
    <3>2. approvals \in Seq(T) /\ approvals[a] \in T
      BY <2>1, ElementOfSeq DEF TypeOK
    <3>3. e \in T
      BY <3>2 DEF Calls
    <3>4. approvals' = [approvals EXCEPT ![a] = e]
      BY <3>1
    <3>5. /\ Len(approvals') = Len(approvals)
          /\ \A b \in 1..Len(approvals) :
                 approvals'[b] = IF b = a THEN e ELSE approvals[b]
      <4> HIDE DEF e, T
      <4> QED BY <2>1, <3>2, <3>3, <3>4, ExceptSeq
    <3>6. \A b \in 1..Len(approvals) :
              approvals[b] \in ApprovalType
      BY ElementOfSeq DEF TypeOK
    <3> QED BY <2>1, <3>5, <3>6
  <2>3. decided' = decided \cup {<<a, ask.decision>>}
    BY <1>2 DEF Resolve
  <2>4. ask.decision \in Decisions /\ approvals[a].status = "pending"
    BY <1>2 DEF Calls, MayResolve
  <2>5. \A d \in Decisions : <<a, d>> \notin decided
    BY <2>1, <2>4 DEF Consent, DecisionsStand, Decisions
  <2>6. DecidedAreKnown'
    BY <2>1, <2>2, <2>3, <2>4 DEF Consent, DecidedAreKnown
  <2>7. DecisionsStand'
    BY <2>1, <2>2, <2>3, <2>5 DEF Consent, DecisionsStand
  <2>8. ApprovalsAreFounded'
    <3>1. Policy[approvals[a].key] # "deny"
      BY <2>1, <2>4 DEF Consent, ApprovalsAreFounded
    <3>2. \A b \in 1..Len(approvals) : <<b, "approved">> \in decided => <<b, "approved">> \in decided'
      BY <2>3
    <3>3. ask.decision = "approved" => <<a, "approved">> \in decided'
      BY <2>3
    <3> SUFFICES ASSUME NEW b \in 1..Len(approvals)
                 PROVE  /\ Policy[approvals'[b].key] = "deny" => approvals'[b].status = "denied"
                        /\ Policy[approvals'[b].key] = "ask" /\ approvals'[b].status = "approved"
                             => <<b, "approved">> \in decided'
      BY <2>2 DEF ApprovalsAreFounded
    <3>4. CASE b = a
      BY <2>2, <3>1, <3>3, <3>4
    <3>5. CASE b # a
      BY <2>2, <3>2, <3>5 DEF Consent, ApprovalsAreFounded
    <3> QED BY <3>4, <3>5
  <2>9. RequestsAreSound'
    BY <2>1, <2>2, ReplyIs DEF Consent, RequestsAreSound, NoCall
  <2>10. WorkersAreConsented'
    <3> SUFFICES ASSUME NEW p \in Requests, requests'[p].phase = "working",
                        requests'[p].call.kind = "tool"
                 PROVE  Consented(p)'
      BY DEF WorkersAreConsented
    <3>1. p # q /\ requests'[p] = requests[p]
      BY ReplyIs
    <3>2. Consented(p)
      BY <3>1 DEF Consent, WorkersAreConsented
    <3> QED BY <2>2, <2>3, <3>1, <3>2, ConsentLasts
  <2> QED BY <2>6, <2>7, <2>8, <2>9, <2>10 DEF Consent
<1> QED BY <1>1, <1>2

LEMMA HandleKeepsConsent ==
  ASSUME TypeOK, Consent, NEW q \in Requests, Handle(q)
  PROVE  Consent'
<1>1. CASE Reply(q) /\ UNCHANGED <<approvals, decided>>
  BY <1>1, ReplyKeepsConsent
<1>2. CASE UNCHANGED <<requests, approvals, decided>>
  BY <1>2, SameConsent
<1>3. CASE requests[q].call.kind = "decide" /\ Reply(q)
           /\ Resolve(requests[q].runtime, requests[q].call)
  BY <1>3, ResolveKeepsConsent DEF TypeOK
<1>4. CASE /\ requests' = [requests EXCEPT ![q].phase =
                   IF requests[q].call.kind = "tool" THEN "called" ELSE "working"]
           /\ UNCHANGED <<approvals, decided>>
  <2>1. /\ \A p \in Requests : p # q => requests'[p] = requests[p]
        /\ requests'[q].call = requests[q].call
        /\ requests'[q].phase = IF requests[q].call.kind = "tool" THEN "called" ELSE "working"
    BY <1>4 DEF TypeOK
  <2>2. /\ requests[q].call.approval \in 0..Len(approvals)
        /\ requests[q].call.kind = "tool" => requests[q].call.key \in Keys
        /\ requests[q].call.kind = "decide" => requests[q].call.approval # 0
    BY DEF Consent, RequestsAreSound
  <2>3. /\ requests'[q].phase = "called" => requests'[q].call.kind = "tool"
        /\ requests'[q].phase = "working" => requests'[q].call.kind # "tool"
    BY <2>1
  <2> QED BY <1>4, <2>1, <2>2, <2>3, OneRequest
<1> QED BY <1>1, <1>2, <1>3, <1>4 DEF Handle

\* A ask passes because its policy lets it, or because the approval it names
\* was decided; otherwise it leaves a request behind.
LEMMA AuthorizeKeepsConsent ==
  ASSUME TypeOK, Consent, NEW q \in Requests, Authorize(q)
  PROVE  Consent'
<1> DEFINE r == requests[q].runtime
           k == requests[q].call.key
           pass == [requests EXCEPT ![q].phase = "working", ![q].seen = calls[r][k]]
<1>1. /\ requests[q].phase = "called" /\ requests[q].call.kind = "tool"
      /\ k \in Keys /\ r \in Runtimes /\ calls[r][k] \in Nat
      /\ requests[q].call.approval \in 0..Len(approvals) /\ Len(approvals) \in Nat
  <2>1. requests[q] \in RequestType /\ requests[q].phase = "called"
    BY DEF Authorize, TypeOK
  <2>2. /\ requests[q].call.kind = "tool" /\ k \in Keys
        /\ requests[q].call.approval \in 0..Len(approvals)
    BY <2>1 DEF Consent, RequestsAreSound
  <2>3. r \in Runtimes /\ calls[r][k] \in Nat /\ Len(approvals) \in Nat
    BY <2>1, <2>2, LenProperties, SMTT(30) DEF Authorize, TypeOK
  <2> QED BY <2>1, <2>2, <2>3
<1>2. UNCHANGED decided
  BY DEF Authorize
<1>3. CASE Reply(q) /\ UNCHANGED approvals
  BY <1>2, <1>3, ReplyKeepsConsent
<1>4. ASSUME requests' = pass
      PROVE  /\ \A p \in Requests : p # q => requests'[p] = requests[p]
             /\ requests'[q].call = requests[q].call
             /\ requests'[q].runtime = r
             /\ requests'[q].phase = "working"
  BY <1>4 DEF TypeOK
<1>5. CASE Covered(q) /\ requests' = pass /\ UNCHANGED approvals
  <2>1. /\ requests[q].call.approval \in 1..Len(approvals)
        /\ approvals[requests[q].call.approval].key = k
        /\ approvals[requests[q].call.approval].runtime = r
        /\ approvals[requests[q].call.approval].status = "approved"
    BY <1>1, <1>5 DEF Covered
  <2>2. Consented(q)
    BY <2>1 DEF Consented, Consent, ApprovalsAreFounded
  <2>3. Consented(q)'
    <3>1. requests'[q].call = requests[q].call /\ requests'[q].runtime = r
      BY <1>4, <1>5
    <3>2. UNCHANGED <<approvals, decided>>
      BY <1>2, <1>5
    <3> QED BY <2>2, <3>1, <3>2 DEF Consented
  <2>4. WorkersAreConsented'
    <3> SUFFICES ASSUME NEW p \in Requests, requests'[p].phase = "working",
                        requests'[p].call.kind = "tool", p # q
                 PROVE  Consented(p)'
      BY <2>3 DEF WorkersAreConsented
    <3>1. requests'[p] = requests[p]
      BY <1>4, <1>5
    <3>2. Consented(p)
      BY <3>1 DEF Consent, WorkersAreConsented
    <3>3. UNCHANGED <<approvals, decided>>
      BY <1>2, <1>5
    <3> QED BY <3>1, <3>2, <3>3 DEF Consented
  <2>5. RequestsAreSound'
    BY <1>1, <1>4, <1>5 DEF RequestsAreSound, Consent
  <2> QED BY <1>2, <1>5, <2>4, <2>5
          DEF Consent, DecidedAreKnown, DecisionsStand, ApprovalsAreFounded
<1>6. CASE /\ approvals' = Append(approvals, Asked(r, k))
           /\ IF Policy[k] = "auto" THEN requests' = pass ELSE Reply(q)
  <2>1. /\ Asked(r, k).key = k
        /\ Asked(r, k).status = CASE Policy[k] = "auto" -> "approved"
                                  [] Policy[k] = "deny" -> "denied"
                                  [] Policy[k] = "ask" -> "pending"
        /\ Asked(r, k) \in ApprovalType
    BY <1>1, SessionsAssumption DEF Asked, Decisions
  <2>2. /\ Len(approvals') = Len(approvals) + 1
        /\ \A a \in 1..Len(approvals) : approvals'[a] = approvals[a]
        /\ approvals'[Len(approvals) + 1] = Asked(r, k)
    BY <1>6, <2>1, AppendProperties DEF TypeOK
  <2>3. DecidedAreKnown' /\ DecisionsStand'
    BY <1>1, <1>2, <2>2 DEF Consent, DecidedAreKnown, DecisionsStand
  <2>4. ApprovalsAreFounded'
    <3>1. \A a \in 1..Len(approvals') : a \in 1..Len(approvals) \/ a = Len(approvals) + 1
      BY <1>1, <2>2
    <3>2. Policy[k] \in {"auto", "ask", "deny"}
      BY <1>1, SessionsAssumption
    <3>3. /\ Policy[k] = "deny" => Asked(r, k).status = "denied"
          /\ Policy[k] = "ask" => Asked(r, k).status # "approved"
      BY <2>1, <3>2
    <3> DEFINE b == Len(approvals) + 1
    <3>4. /\ Policy[approvals'[b].key] = "deny" => approvals'[b].status = "denied"
          /\ Policy[approvals'[b].key] = "ask" => approvals'[b].status # "approved"
      BY <2>1, <2>2, <3>3
    <3>5. \A a \in 1..Len(approvals) :
              /\ Policy[approvals'[a].key] = "deny" => approvals'[a].status = "denied"
              /\ Policy[approvals'[a].key] = "ask" /\ approvals'[a].status = "approved" =>
                     <<a, "approved">> \in decided'
      BY <1>2, <2>2 DEF Consent, ApprovalsAreFounded
    <3> QED BY <3>1, <3>4, <3>5 DEF ApprovalsAreFounded
  <2>5. RequestsAreSound'
    <3>1. CASE Reply(q)
      BY <1>1, <2>2, <3>1, ReplyIs DEF Consent, RequestsAreSound, NoCall
    <3>2. CASE requests' = pass
      <4>1. requests'[q].phase = "working" /\ requests'[q].call = requests[q].call
        BY <1>4, <3>2
      <4>2. \A p \in Requests : requests'[p].call = requests[p].call
        BY <1>4, <3>2, <4>1
      <4>3. \A p \in Requests : requests'[p].phase = "called" => requests[p].phase = "called"
        BY <1>4, <3>2, <4>1
      <4> QED BY <1>1, <2>2, <4>2, <4>3 DEF Consent, RequestsAreSound
    <3> QED BY <1>6, <3>1, <3>2
  <2>6. WorkersAreConsented'
    <3> SUFFICES ASSUME NEW p \in Requests, requests'[p].phase = "working",
                        requests'[p].call.kind = "tool"
                 PROVE  Consented(p)'
      BY DEF WorkersAreConsented
    <3>1. CASE p # q
      <4>1. requests'[p] = requests[p]
        BY <1>4, <1>6, <3>1, ReplyIs
      <4>2. Consented(p)
        BY <4>1 DEF Consent, WorkersAreConsented
      <4> QED BY <1>1, <1>2, <2>2, <4>1, <4>2, ConsentLasts
    <3>2. CASE p = q
      <4>1. Policy[k] = "auto" /\ requests' = pass
        BY <1>6, <3>2, ReplyIs
      <4> QED BY <1>4, <3>2, <4>1 DEF Consented
    <3> QED BY <3>1, <3>2
  <2> QED BY <2>3, <2>4, <2>5, <2>6 DEF Consent
<1> QED BY <1>3, <1>5, <1>6 DEF Authorize

-----------------------------------------------------------------------------
(* Types, and the theorems.                                                *)

\* The records that steps make have the types of what they replace.
LEMMA RuntimeUpdates ==
  ASSUME TypeOK, NEW r \in Runtimes
  PROVE  /\ \A s \in Sessions :
                [runtimes EXCEPT ![r] = Slot("creating", s)] \in [Runtimes -> RuntimeType]
         /\ \A state \in {"unborn", "creating", "live"} \cup Settled :
                [runtimes EXCEPT ![r].state = state] \in [Runtimes -> RuntimeType]
         /\ \A closer \in {None, "pool", "leave"} :
                /\ [runtimes[r] EXCEPT !.closer = closer] \in RuntimeType
                /\ [runtimes EXCEPT ![r].closer = closer] \in [Runtimes -> RuntimeType]
<1>1. runtimes \in [Runtimes -> RuntimeType] /\ runtimes[r] \in RuntimeType
  BY DEF TypeOK
<1>2. /\ \A s \in Sessions : Slot("creating", s) \in RuntimeType
      /\ \A state \in {"unborn", "creating", "live"} \cup Settled :
             [runtimes[r] EXCEPT !.state = state] \in RuntimeType
      /\ \A closer \in {None, "pool", "leave"} :
             [runtimes[r] EXCEPT !.closer = closer] \in RuntimeType
  BY <1>1 DEF Slot
<1> HIDE DEF RuntimeType
<1> QED BY <1>1, <1>2

LEMMA RequestUpdates ==
  ASSUME TypeOK, NEW q \in Requests, NEW stage \in Phases
  PROVE  /\ [requests EXCEPT ![q].phase = stage] \in [Requests -> RequestType]
         /\ \A n \in Nat : [requests EXCEPT ![q].phase = stage, ![q].seen = n]
                             \in [Requests -> RequestType]
<1>1. requests[q] \in RequestType /\ requests \in [Requests -> RequestType]
  BY DEF TypeOK
<1>2. [requests[q] EXCEPT !.phase = stage] \in RequestType
  BY <1>1
<1>3. \A n \in Nat : [requests[q] EXCEPT !.phase = stage, !.seen = n] \in RequestType
  BY <1>1
<1> HIDE DEF RequestType
<1>4. \A n \in Nat : [requests EXCEPT ![q] = [requests[q] EXCEPT !.phase = stage, !.seen = n]]
                        \in [Requests -> RequestType]
  BY <1>1, <1>3
<1> QED BY <1>1, <1>2, <1>4

LEMMA ApprovalUpdate ==
  ASSUME TypeOK, NEW a \in 1..Len(approvals), NEW d \in Decisions
  PROVE  [approvals EXCEPT ![a].status = d] \in Seq(ApprovalType)
<1> DEFINE T == ApprovalType
           e == [approvals[a] EXCEPT !.status = d]
<1>1. approvals \in Seq(T) /\ approvals[a] \in T
  BY ElementOfSeq DEF TypeOK
<1>2. e \in T
  BY <1>1
<1>3. [approvals EXCEPT ![a] = e] \in Seq(T)
  <2> HIDE DEF e, T
  <2> QED BY <1>1, <1>2, ExceptSeq
<1> QED BY <1>3

LEMMA ServeKeepsTypes ==
  ASSUME TypeOK, Registry, Consent, NEW q \in Requests, Serve(q)
  PROVE  TypeOK'
<1> HIDE DEF RuntimeType, ApprovalType, RequestType
<1>0. /\ sessions \in [Sessions -> Runtimes \cup {None}]
      /\ runtimes \in [Runtimes -> RuntimeType]
      /\ approvals \in Seq(ApprovalType)
      /\ requests \in [Requests -> RequestType]
      /\ decided \subseteq Nat \X Decisions
  BY DEF TypeOK
<1>1. Len(approvals) \in Nat /\ NextRuntime \subseteq Runtimes
      /\ \A t \in InPool : t \in Sessions /\ sessions[t] \in Runtimes
  BY LenProperties DEF NextRuntime, InPool, TypeOK
<1>2. CASE Arrive(q)
  <2>1. PICK s \in Sessions \cup {Default}, ask \in Asks : Get(q, s, ask)
    BY <1>2 DEF Arrive
  <2>2. \A r \in Runtimes : Sent(q, ask, r, "waiting") => requests' \in [Requests -> RequestType]
    BY AsksAreSound, SentIs DEF Phases
  <2>3. requests' \in [Requests -> RequestType]
    BY <1>1, <2>1, <2>2, ReplyIs, NoneIsNoRuntime DEF Get
  <2>4. sessions' \in [Sessions -> Runtimes \cup {None}]
    BY <1>1, <2>1 DEF Get, TypeOK
  <2>5. runtimes' \in [Runtimes -> RuntimeType]
    <3>1. ASSUME s \in Sessions, NEW r \in NextRuntime,
                 runtimes' = [runtimes EXCEPT ![r] = Slot("creating", s)]
          PROVE  runtimes' \in [Runtimes -> RuntimeType]
      BY <1>1, <3>1, RuntimeUpdates
    <3> QED BY <1>0, <2>1, <3>1 DEF Get
  <2> QED BY <1>2, <2>3, <2>4, <2>5 DEF Arrive, TypeOK
<1>3. CASE Close(q)
  <2>1. \A r \in Runtimes, ask \in Ends :
            Sent(q, ask, r, "closing") => requests' \in [Requests -> RequestType]
    BY EndsAreSound, SentIs DEF Phases
  <2>2. requests' \in [Requests -> RequestType]
    BY <1>1, <1>3, <2>1, ReplyIs DEF Close
  <2>3. sessions' \in [Sessions -> Runtimes \cup {None}]
    BY <1>1, <1>3 DEF Close, TypeOK
  <2>4. runtimes' \in [Runtimes -> RuntimeType]
    <3>1. \A t \in InPool : [runtimes EXCEPT ![sessions[t]].closer = "pool"]
                                \in [Runtimes -> RuntimeType]
      BY <1>1, RuntimeUpdates
    <3> QED BY <1>0, <1>3, <3>1 DEF Close
  <2> QED BY <1>3, <2>2, <2>3, <2>4 DEF Close, TypeOK
<1>4. CASE Handle(q)
  <2>1. requests' \in [Requests -> RequestType]
    <3>1. "called" \in Phases /\ "working" \in Phases
      BY DEF Phases
    <3>2. [requests EXCEPT ![q].phase =
              IF requests[q].call.kind = "tool" THEN "called" ELSE "working"]
            \in [Requests -> RequestType]
      BY <3>1, RequestUpdates
    <3> QED BY <1>0, <1>4, <3>2, ReplyIs DEF Handle
  <2>2. ASSUME Resolve(requests[q].runtime, requests[q].call),
               requests[q].call.kind = "decide"
        PROVE  approvals' \in Seq(ApprovalType) /\ decided' \subseteq Nat \X Decisions
    <3>1. requests[q].call.approval \in 1..Len(approvals)
          /\ requests[q].call.decision \in Decisions
      BY <1>1, <2>2 DEF Consent, RequestsAreSound, Calls, TypeOK, RequestType
    <3>2. [approvals EXCEPT ![requests[q].call.approval].status = requests[q].call.decision]
              \in Seq(ApprovalType)
      BY <3>1, ApprovalUpdate
    <3>3. decided \cup {<<requests[q].call.approval, requests[q].call.decision>>}
              \subseteq Nat \X Decisions
      BY <1>0, <1>1, <3>1
    <3> QED BY <1>0, <2>2, <3>2, <3>3, Zenon DEF Resolve
  <2>3. UNCHANGED <<sessions, runtimes, calls>>
        /\ process' \in {"serving", "leaving", "draining", "ended", "crashed"}
    BY <1>4 DEF Handle, TypeOK
  <2>4. approvals' \in Seq(ApprovalType) /\ decided' \subseteq Nat \X Decisions
    BY <1>4, <2>2 DEF Handle, TypeOK
  <2> QED BY <2>1, <2>3, <2>4 DEF TypeOK
<1>5. CASE Authorize(q)
  <2> DEFINE r == requests[q].runtime
             k == requests[q].call.key
  <2>1. k \in Keys /\ r \in Runtimes
    BY <1>5 DEF Authorize, Consent, RequestsAreSound, TypeOK, RequestType
  <2>2. calls[r][k] \in Nat /\ "working" \in Phases
    BY <2>1 DEF TypeOK, Phases
  <2>3. requests' \in [Requests -> RequestType]
    <3>1. [requests EXCEPT ![q].phase = "working", ![q].seen = calls[r][k]]
              \in [Requests -> RequestType]
      BY <2>2, RequestUpdates
    <3> QED BY <1>5, <3>1, ReplyIs DEF Authorize
  <2>4. Asked(r, k) \in ApprovalType
    BY <2>1, SessionsAssumption DEF Asked, Decisions, ApprovalType
  <2>5. approvals' \in Seq(ApprovalType)
    <3>1. Append(approvals, Asked(r, k)) \in Seq(ApprovalType)
      BY <1>0, <2>4, AppendProperties
    <3> QED BY <1>0, <1>5, <3>1 DEF Authorize
  <2> QED BY <1>5, <2>3, <2>5 DEF Authorize, TypeOK
<1>6. CASE Finish(q)
  <2>1. requests' \in [Requests -> RequestType]
    BY <1>6, ReplyIs DEF Finish
  <2>2. requests[q].seen \in Nat
    BY DEF TypeOK, RequestType
  <2>3. calls' \in [Runtimes -> [Keys -> Nat]]
    <3>1. calls[requests[q].runtime] \in [Keys -> Nat]
      BY DEF TypeOK, RequestType
    <3>2. [calls[requests[q].runtime] EXCEPT ![requests[q].call.key] = requests[q].seen + 1]
              \in [Keys -> Nat]
      <4>1. \A f \in [Keys -> Nat], n \in Nat : \A k : [f EXCEPT ![k] = n] \in [Keys -> Nat]
        OBVIOUS
      <4>2. requests[q].seen + 1 \in Nat
        BY <2>2
      <4> QED BY <3>1, <4>1, <4>2, Zenon
    <3> QED BY <1>6, <3>2 DEF Finish, TypeOK
  <2> QED BY <1>6, <2>1, <2>3 DEF Finish, TypeOK
<1>7. CASE Closed(q)
  <2>1. requests' \in [Requests -> RequestType]
    BY <1>7, ReplyIs DEF Closed, TypeOK
  <2> QED BY <1>7, <2>1 DEF Closed, TypeOK
<1> QED BY <1>2, <1>3, <1>4, <1>5, <1>6, <1>7 DEF Serve

LEMMA OthersKeepTypes ==
  ASSUME TypeOK, (\E r \in Runtimes : Keep(r)) \/ SweepIdle \/ Leave \/ StopListening \/ End
  PROVE  TypeOK'
<1> HIDE DEF RuntimeType, ApprovalType, RequestType
<1>0. /\ sessions \in [Sessions -> Runtimes \cup {None}]
      /\ runtimes \in [Runtimes -> RuntimeType]
      /\ approvals \in Seq(ApprovalType)
      /\ requests \in [Requests -> RequestType]
      /\ decided \subseteq Nat \X Decisions
  BY DEF TypeOK
<1>1. ASSUME NEW r \in Runtimes, Keep(r)
      PROVE  TypeOK'
  <2>1. NoCalls \in [Keys -> Nat]
    BY DEF NoCalls
  <2>2. calls' \in [Runtimes -> [Keys -> Nat]]
    BY <1>1, <2>1 DEF Keep, Created, CreationFails, ShutDown, TypeOK
  <2>3. sessions' \in [Sessions -> Runtimes \cup {None}]
    BY <1>1 DEF Keep, Created, CreationFails, Forget, ShutDown, TypeOK
  <2>4. runtimes' \in [Runtimes -> RuntimeType]
    <3>1. /\ [runtimes EXCEPT ![r].state = "live"] \in [Runtimes -> RuntimeType]
          /\ [runtimes EXCEPT ![r].state = "failed"] \in [Runtimes -> RuntimeType]
          /\ [runtimes EXCEPT ![r].state = "down"] \in [Runtimes -> RuntimeType]
          /\ [runtimes EXCEPT ![r].state = "stuck"] \in [Runtimes -> RuntimeType]
      BY RuntimeUpdates DEF Settled
    <3> QED BY <1>1, <3>1 DEF Keep, Created, CreationFails, ShutDown
  <2> QED BY <1>1, <2>2, <2>3, <2>4 DEF Keep, Created, CreationFails, ShutDown, TypeOK
<1>2. CASE SweepIdle
  <2>1. sessions' \in [Sessions -> Runtimes \cup {None}]
    BY <1>2 DEF SweepIdle, Retire, TypeOK
  <2>2. runtimes' \in [Runtimes -> RuntimeType]
    <3>1. \A r \in Runtimes : [runtimes[r] EXCEPT !.closer = "pool"] \in RuntimeType
                               /\ runtimes[r] \in RuntimeType
      BY <1>0, RuntimeUpdates
    <3> QED BY <1>2, <3>1 DEF SweepIdle, Retire
  <2> QED BY <1>2, <2>1, <2>2 DEF SweepIdle, TypeOK
<1>3. CASE Leave
  <2>1. sessions' \in [Sessions -> Runtimes \cup {None}]
    BY <1>3 DEF Leave
  <2>2. runtimes' \in [Runtimes -> RuntimeType]
    BY <1>3, RuntimeUpdates DEF Leave, TypeOK
  <2> QED BY <1>3, <2>1, <2>2 DEF Leave, TypeOK
<1>4. CASE StopListening \/ End
  BY <1>4 DEF StopListening, End, TypeOK
<1> QED BY <1>1, <1>2, <1>3, <1>4

LEMMA StepInv == IInv /\ [Next]_vars => IInv'
<1> SUFFICES ASSUME IInv, [Next]_vars PROVE IInv'
  OBVIOUS
<1> USE DEF IInv
<1>1. ASSUME NEW q \in Requests, Serve(q)
      PROVE  IInv'
  <2>1. TypeOK'
    BY <1>1, ServeKeepsTypes
  <2>2. CASE Arrive(q)
    BY <2>1, <2>2, ArriveKeepsRegistry, ArriveKeepsConsent
  <2>3. CASE Close(q)
    BY <2>1, <2>3, CloseKeepsRegistry, CloseKeepsConsent
  <2>4. CASE Handle(q)
    BY <2>1, <2>4, SameRegistry, HandleKeepsConsent DEF Handle
  <2>5. CASE Authorize(q)
    BY <2>1, <2>5, SameRegistry, AuthorizeKeepsConsent DEF Authorize
  <2>6. CASE Finish(q)
    BY <2>1, <2>6, SameRegistry, ReplyKeepsConsent DEF Finish
  <2>7. CASE Closed(q)
    BY <2>1, <2>7, SameRegistry, ReplyKeepsConsent, SameConsent DEF Closed
  <2> QED BY <1>1, <2>2, <2>3, <2>4, <2>5, <2>6, <2>7 DEF Serve
<1>2. ASSUME NEW r \in Runtimes, Keep(r)
      PROVE  IInv'
  <2>1. UNCHANGED <<approvals, decided, requests>>
    BY <1>2 DEF Keep, Created, CreationFails, ShutDown
  <2> QED BY <1>2, <2>1, OthersKeepTypes, KeepKeepsRegistry, SameConsent
<1>3. CASE SweepIdle
  BY <1>3, OthersKeepTypes, SweepKeepsRegistry, SameConsent DEF SweepIdle
<1>4. CASE Leave
  BY <1>4, OthersKeepTypes, LeaveKeepsRegistry, SameConsent DEF Leave
<1>5. CASE StopListening \/ End
  BY <1>5, OthersKeepTypes, SameRegistry, SameConsent DEF StopListening, End
<1>6. CASE UNCHANGED vars
  BY <1>6, SameRegistry, SameConsent DEF vars, TypeOK
<1> QED BY <1>1, <1>2, <1>3, <1>4, <1>5, <1>6 DEF Next, Ended

\* The invariant of the sessions: types, Registry and Consent, whatever the
\* requests, sweeps, failures and signals are and however they interleave.
THEOREM SessionsInv == Spec => []IInv
  BY InitInv, StepInv, PTL DEF Spec

\* Every runtime in the pool's care is listed or on its way to its shutdown,
\* and never both (RuntimeSessionPool.get, close, sweepIdle and shutdown).
THEOREM NoRuntimeIsLostTheorem == Spec => []NoRuntimeIsLost
<1>1. IInv => NoRuntimeIsLost
  <2> SUFFICES ASSUME IInv, NEW r \in Runtimes \ {0}, Alive(r)
               PROVE  sessions[runtimes[r].session] = r <=> runtimes[r].closer = None
    BY DEF NoRuntimeIsLost, Alive
  <2> QED BY NoneIsNoRuntime DEF IInv, Registry, ListedAreKept, KeptAreListed
<1> QED BY <1>1, SessionsInv, PTL

\* No tool is at work without the consent its policy asks for: none under
\* "deny", under "ask" only what was approved for this agent and tool of this
\* runtime (Runtime.executeToolForAgent, ToolApprovalManager).
THEOREM NothingRunsUndecidedTheorem == Spec => []NothingRunsUndecided
<1>1. IInv => NothingRunsUndecided
  BY DEF IInv, Consent, WorkersAreConsented, Consented, NothingRunsUndecided
<1> QED BY <1>1, SessionsInv, PTL

\* What a decision was answered is never taken back (ToolApprovalManager.resolve).
THEOREM DecisionsStandTheorem == Spec => []DecisionsStand
<1>1. IInv => DecisionsStand
  BY DEF IInv, Consent
<1> QED BY <1>1, SessionsInv, PTL
-----------------------------------------------------------------------------
(* The benchmark's sessions (LhtbEpisode).                                 *)

Kinds == {"command", "result", "act", "derive", "reuse", "prune", "return", "stop", "rejected",
          "interrupted", "deadline"}
Entry == [kind : Kinds, node : Nodes \cup {NoNode}, peer : Nodes \cup {NoNode}, of : Nat]
Ask == [node : Nodes \cup {NoNode}, kind : {"none", "ACQUIRE", "EXECUTE"}, id : Nat]

\* What a session's events say of its requests: the pending one is the last event,
\* every other has one event that settles it.
Commands(evs) == {i \in DOMAIN evs : evs[i].kind = "command"}
Settling == {"result", "interrupted"}
Accounts(evs, pend) ==
    /\ evs \in Seq(Entry) /\ pend \in Ask
    /\ \/ pend = NoRequest
       \/ /\ pend.id = Len(evs) /\ Len(evs) \in Commands(evs)
          /\ evs[Len(evs)].node = pend.node
    /\ \A k \in DOMAIN evs : evs[k].kind \in Settling => evs[k].of \in Commands(evs) \ {pend.id}
    /\ \A k, l \in DOMAIN evs :
          evs[k].kind \in Settling /\ evs[l].kind \in Settling /\ evs[k].of = evs[l].of => k = l
    /\ \A c \in Commands(evs) : c = pend.id \/ \E k \in DOMAIN evs :
          evs[k].kind \in Settling /\ evs[k].of = c

\* The child derived at i, with nobody to wait for, has not acted: it can, and
\* nobody else did.
Outstanding(evs, ds, i) ==
    /\ evs[i].kind = "derive" /\ \A e \in ds : e.consumer # evs[i].peer
    /\ \A j \in (i + 1)..Len(evs) : evs[j].node # evs[i].peer
Newborns(evs, st, ds) ==
    /\ st = [n \in Nodes |-> st[n]]
    /\ \A i \in DOMAIN evs : Outstanding(evs, ds, i) =>
          /\ evs[i].peer \in Nodes /\ evs[i].peer # evs[i].node /\ st[evs[i].peer] = "ready"
          /\ \A j \in (i + 1)..Len(evs) : evs[j].kind \in {"rejected", "deadline"}

\* Between a rejection and a later submission lies a result.
Progressed(evs) ==
    mode = "learned" =>
        \A r, i \in DOMAIN evs :
            evs[r].kind = "rejected" /\ evs[i].kind = "stop" /\ r < i =>
                \E j \in r..i : evs[j].kind = "result"

\* Who brings external information has a result of its own when it returns.
Reported(evs, st, how) ==
    /\ how = [n \in Nodes |-> how[n]]
    /\ \A n \in Nodes : st[n] = "returned" /\ how[n] = "acquire_external" =>
          \E i \in DOMAIN evs : evs[i].kind = "result" /\ evs[i].node = n

Sound(evs, pend, st, ds, how) ==
    Accounts(evs, pend) /\ Newborns(evs, st, ds) /\ Progressed(evs) /\ Reported(evs, st, how)
SessionFields == {"status", "parent", "gap", "held", "req", "deps", "settled", "links", "stopped",
                  "realization", "events", "unread", "pending"}
SoundAt(s) ==
    /\ DOMAIN s = SessionFields
    /\ Sound(s.events, s.pending, s.status, s.deps, s.realization)

\* The commands given to an environment, and the session that knows them.
Known(given, evs) ==
    /\ given \in Seq(Nat)
    /\ \A i, j \in DOMAIN given : given[i] = given[j] => i = j
    /\ \A i \in DOMAIN given : given[i] \in Commands(evs)
New(id) == \A i \in DOMAIN ran : ran[i] # id

Resuming == {"resume", "resume_boundary"}

\* The snapshots the client has.
Snapshots ==
    /\ saved = <<>> => ran = <<>> /\ captured = <<>>
    /\ saved # <<>> => SoundAt(saved) /\ Len(saved.events) <= Len(events) /\ Known(ran, saved.events)
    /\ captured # <<>> =>
          /\ captured.at # <<>> /\ SoundAt(captured.at) /\ captured.at.pending = NoRequest
          /\ Len(captured.at.events) <= Len(saved.events)
          /\ Known(captured.ran, captured.at.events)

\* The process has a request: where it stands, and what it may assume.
Waiting ==
    /\ phase \in {"prepare", "accept", "apply", "reopen", "decide", "settle", "child", "finish",
                  "reply"}
    /\ Known(ran, events)
    /\ phase = "accept" => saved # <<>> /\ pending # NoRequest /\ pending = saved.pending
    /\ phase \notin {"accept", "reply"} => pending = NoRequest
    /\ phase = "apply" => /\ Len(events) \in DOMAIN events /\ events[Len(events)].kind = "result"
                          /\ events[Len(events)].node = saved.pending.node /\ saved # <<>>
    /\ phase = "reply" => (outcome = "terminal_request" <=> pending # NoRequest) /\ New(pending.id)
    /\ phase \in {"settle", "finish"} => outcome # "terminal_request"
    /\ call.method = "initialize" => saved = <<>> /\ phase = "reply" /\ outcome = "ready"
    /\ call.method \in Resuming => saved # <<>> /\ saved.pending # NoRequest
    /\ call.method \notin Resuming /\ saved # <<>> => saved.pending = NoRequest

\* The client has the answer.
Holding ==
    /\ saved # <<>> /\ saved.events = events /\ saved.pending = pending
    /\ client = "answered" =>
          (outcome = "terminal_request" <=> pending # NoRequest) /\ New(pending.id)
    /\ client = "executing" => pending # NoRequest
    /\ client = "done" /\ driver = "rollout" => pending = NoRequest

Places ==
    /\ client \in {"fresh", "waiting", "answered", "executing", "done", "closed", "ended"}
    /\ client # "waiting" => phase = "idle"
    /\ client = "fresh" => saved = <<>> /\ pending = NoRequest
    /\ client = "waiting" => Waiting
    /\ client \in {"answered", "executing", "done"} => Holding

EpisodeInv ==
    Sound(events, pending, status, deps, realization) /\ Snapshots /\ Places

-----------------------------------------------------------------------------
(* What one more event does to a session.                                  *)

LEMMA Appending ==
    ASSUME NEW S, NEW evs \in Seq(S), NEW e \in S
    PROVE  LET more == Append(evs, e)
           IN  /\ more \in Seq(S) /\ Len(evs) \in Nat /\ Len(more) = Len(evs) + 1
               /\ DOMAIN evs = 1..Len(evs) /\ DOMAIN more = 1..(Len(evs) + 1)
               /\ \A i \in 1..Len(evs) : more[i] = evs[i]
               /\ more[Len(evs) + 1] = e
OBVIOUS

LEMMA NothingAsked == NoRequest \in Ask /\ NoRequest.id = 0 /\ NoRequest.node = NoNode
BY DEF NoRequest, Ask

LEMMA PlainAccounts ==
    ASSUME NEW evs, Accounts(evs, NoRequest), NEW e \in Entry,
           e.kind \notin Settling \cup {"command"}
    PROVE  Accounts(Append(evs, e), NoRequest)
<1> DEFINE more == Append(evs, e)
<1>1. /\ more \in Seq(Entry) /\ Len(evs) \in Nat /\ Len(more) = Len(evs) + 1
      /\ DOMAIN evs = 1..Len(evs) /\ DOMAIN more = 1..(Len(evs) + 1)
      /\ \A i \in 1..Len(evs) : more[i] = evs[i]
      /\ more[Len(evs) + 1] = e
  BY Appending DEF Accounts
<1> HIDE DEF more
<1>2. Commands(more) = Commands(evs)
  BY <1>1 DEF Commands
<1>3. \A k \in DOMAIN more : more[k].kind \in Settling => k \in DOMAIN evs /\ more[k] = evs[k]
  BY <1>1
<1>4. \A c \in Commands(more) : \E k \in DOMAIN more : more[k].kind \in Settling /\ more[k].of = c
  <2> TAKE c \in Commands(more)
  <2>1. c # 0
    BY <1>1 DEF Commands
  <2>2. PICK k \in DOMAIN evs : evs[k].kind \in Settling /\ evs[k].of = c
    BY <1>2, <2>1, NothingAsked DEF Accounts
  <2> QED
    BY <1>1, <2>2
<1>5. \A k \in DOMAIN more : more[k].kind \in Settling => more[k].of \in Commands(more) \ {0}
  BY <1>2, <1>3, NothingAsked DEF Accounts
<1>6. \A k, l \in DOMAIN more :
         more[k].kind \in Settling /\ more[l].kind \in Settling /\ more[k].of = more[l].of => k = l
  BY <1>3 DEF Accounts
<1> QED
  BY <1>1, <1>4, <1>5, <1>6, NothingAsked DEF Accounts, more

LEMMA CommandAccounts ==
    ASSUME NEW evs, Accounts(evs, NoRequest), NEW n \in Nodes, NEW kind \in {"ACQUIRE", "EXECUTE"}
    PROVE  Accounts(Append(evs, Event("command", n, NoNode, 0)),
                    [node |-> n, kind |-> kind, id |-> Len(evs) + 1])
<1> DEFINE e == Event("command", n, NoNode, 0)
           more == Append(evs, e)
           pend == [node |-> n, kind |-> kind, id |-> Len(evs) + 1]
<1>1. e \in Entry /\ e.kind = "command" /\ e.node = n
  BY DEF Entry, Event, Kinds
<1> HIDE DEF e
<1>2. /\ more \in Seq(Entry) /\ Len(evs) \in Nat /\ Len(more) = Len(evs) + 1
      /\ DOMAIN evs = 1..Len(evs) /\ DOMAIN more = 1..(Len(evs) + 1)
      /\ \A i \in 1..Len(evs) : more[i] = evs[i]
      /\ more[Len(evs) + 1] = e
  BY <1>1, Appending DEF Accounts
<1> HIDE DEF more
<1>3. pend \in Ask /\ pend.id = Len(evs) + 1 /\ pend.node = n
  BY <1>2 DEF Ask
<1> HIDE DEF pend
<1>4. Commands(more) = Commands(evs) \cup {pend.id} /\ pend.id \notin Commands(evs)
  BY <1>1, <1>2, <1>3 DEF Commands
<1>5. \A k \in DOMAIN more : more[k].kind \in Settling => k \in DOMAIN evs /\ more[k] = evs[k]
  BY <1>1, <1>2 DEF Settling
<1>6. \A k \in DOMAIN more : more[k].kind \in Settling => more[k].of \in Commands(more) \ {pend.id}
  BY <1>4, <1>5 DEF Accounts
<1>7. \A k, l \in DOMAIN more :
         more[k].kind \in Settling /\ more[l].kind \in Settling /\ more[k].of = more[l].of => k = l
  BY <1>5 DEF Accounts
<1>8. \A c \in Commands(more) : c = pend.id \/ \E k \in DOMAIN more :
         more[k].kind \in Settling /\ more[k].of = c
  <2> TAKE c \in Commands(more)
  <2>1. CASE c \in Commands(evs)
    <3>1. c # 0
      BY <1>2, <2>1 DEF Commands
    <3>2. PICK k \in DOMAIN evs : evs[k].kind \in Settling /\ evs[k].of = c
      BY <2>1, <3>1, NothingAsked DEF Accounts
    <3> QED
      BY <1>2, <3>2
  <2> QED
    BY <1>4, <2>1
<1> QED
  BY <1>1, <1>2, <1>3, <1>4, <1>6, <1>7, <1>8 DEF Accounts, more, pend, e

LEMMA SettledAccounts ==
    ASSUME NEW evs, NEW pend, Accounts(evs, pend), pend # NoRequest, NEW kind \in Settling
    PROVE  Accounts(Append(evs, Event(kind, pend.node, NoNode, pend.id)), NoRequest)
<1> DEFINE e == Event(kind, pend.node, NoNode, pend.id)
           more == Append(evs, e)
<1>1. e \in Entry /\ e.kind = kind /\ e.of = pend.id
  BY DEF Entry, Event, Kinds, Accounts, Ask, Settling
<1> HIDE DEF e
<1>2. /\ more \in Seq(Entry) /\ Len(evs) \in Nat /\ Len(more) = Len(evs) + 1
      /\ DOMAIN evs = 1..Len(evs) /\ DOMAIN more = 1..(Len(evs) + 1)
      /\ \A i \in 1..Len(evs) : more[i] = evs[i]
      /\ more[Len(evs) + 1] = e
  BY <1>1, Appending DEF Accounts
<1> HIDE DEF more
<1>3. Commands(more) = Commands(evs) /\ pend.id \in Commands(evs)
  BY <1>1, <1>2 DEF Commands, Settling, Accounts
<1>4. \A k \in DOMAIN more : k = Len(evs) + 1 \/ (k \in DOMAIN evs /\ more[k] = evs[k])
  BY <1>2
<1>5. \A k \in DOMAIN more : more[k].kind \in Settling => more[k].of \in Commands(more) \ {0}
  <2>1. 0 \notin Commands(more)
    BY <1>2 DEF Commands
  <2> QED
    BY <1>1, <1>2, <1>3, <1>4, <2>1 DEF Accounts
<1>6. \A k, l \in DOMAIN more :
         more[k].kind \in Settling /\ more[l].kind \in Settling /\ more[k].of = more[l].of => k = l
  BY <1>1, <1>2, <1>4 DEF Accounts
<1>7. \A c \in Commands(more) : \E k \in DOMAIN more : more[k].kind \in Settling /\ more[k].of = c
  <2> TAKE c \in Commands(more)
  <2>1. CASE c = pend.id
    BY <1>1, <1>2, <2>1
  <2>2. CASE c # pend.id
    <3>1. PICK k \in DOMAIN evs : evs[k].kind \in Settling /\ evs[k].of = c
      BY <1>3, <2>2 DEF Accounts
    <3> QED
      BY <1>2, <3>1
  <2> QED
    BY <2>1, <2>2
<1> QED
  BY <1>2, <1>5, <1>6, <1>7, NothingAsked DEF Accounts, more, e

\* An event of the newborn itself, or one with no newborn outstanding.
LEMMA NewbornActs ==
    ASSUME NEW evs \in Seq(Entry), NEW e \in Entry, NEW st, NEW ds, NEW st2, NEW ds2,
           Newborns(evs, st, ds), st2 = [n \in Nodes |-> st2[n]], ds \subseteq ds2,
           \A i \in DOMAIN evs : Outstanding(evs, ds, i) => e.node = evs[i].peer,
           e.kind = "derive" => \/ \E d \in ds2 : d.consumer = e.peer
                                \/ e.peer \in Nodes /\ e.peer # e.node /\ st2[e.peer] = "ready"
    PROVE  Newborns(Append(evs, e), st2, ds2)
<1> DEFINE more == Append(evs, e)
<1>1. /\ Len(evs) \in Nat /\ Len(more) = Len(evs) + 1
      /\ DOMAIN evs = 1..Len(evs) /\ DOMAIN more = 1..(Len(evs) + 1)
      /\ \A i \in 1..Len(evs) : more[i] = evs[i]
      /\ more[Len(evs) + 1] = e
  BY Appending
<1> HIDE DEF more
<1>2. ASSUME NEW i \in DOMAIN evs PROVE ~Outstanding(more, ds2, i)
  <2>1. SUFFICES ASSUME Outstanding(more, ds2, i) PROVE FALSE
    OBVIOUS
  <2>2. Outstanding(evs, ds, i) /\ e.node # evs[i].peer
    BY <1>1, <1>2, <2>1 DEF Outstanding
  <2> QED
    BY <1>2, <2>2
<1>3. ASSUME Outstanding(more, ds2, Len(evs) + 1)
      PROVE  e.peer \in Nodes /\ e.peer # e.node /\ st2[e.peer] = "ready"
  BY <1>1, <1>3 DEF Outstanding
<1> QED
  BY <1>1, <1>2, <1>3 DEF Newborns, more

\* The events nobody's turn depends on.
LEMMA NewbornWaits ==
    ASSUME NEW evs \in Seq(Entry), NEW e \in Entry, NEW st, NEW ds, NEW st2,
           Newborns(evs, st, ds), st2 = [n \in Nodes |-> st2[n]],
           \A n \in Nodes : st[n] = "ready" => st2[n] = "ready",
           e.kind \in {"rejected", "deadline"}
    PROVE  Newborns(Append(evs, e), st2, ds)
<1> DEFINE more == Append(evs, e)
<1>1. /\ Len(evs) \in Nat /\ Len(more) = Len(evs) + 1
      /\ DOMAIN evs = 1..Len(evs) /\ DOMAIN more = 1..(Len(evs) + 1)
      /\ \A i \in 1..Len(evs) : more[i] = evs[i]
      /\ more[Len(evs) + 1] = e
  BY Appending
<1> HIDE DEF more
<1>2. ASSUME NEW i \in DOMAIN more, Outstanding(more, ds, i)
      PROVE  i \in DOMAIN evs /\ Outstanding(evs, ds, i)
  BY <1>1, <1>2 DEF Outstanding
<1>3. ASSUME NEW i \in DOMAIN more, Outstanding(more, ds, i)
      PROVE  /\ more[i].peer \in Nodes /\ more[i].peer # more[i].node
             /\ st2[more[i].peer] = "ready"
             /\ \A j \in (i + 1)..Len(more) : more[j].kind \in {"rejected", "deadline"}
  BY <1>1, <1>2, <1>3 DEF Newborns
<1> QED
  BY <1>3 DEF Newborns, more

LEMMA NoneOutstanding ==
    ASSUME NEW evs \in Seq(Entry), NEW st, NEW ds, Newborns(evs, st, ds),
           Len(evs) \in DOMAIN evs, evs[Len(evs)].kind \notin {"derive", "rejected", "deadline"}
    PROVE  \A i \in DOMAIN evs : ~Outstanding(evs, ds, i)
<1> SUFFICES ASSUME NEW i \in DOMAIN evs, Outstanding(evs, ds, i) PROVE FALSE
  OBVIOUS
<1>1. evs[i].kind = "derive" /\ \A j \in (i + 1)..Len(evs) : evs[j].kind \in {"rejected", "deadline"}
  BY DEF Newborns, Outstanding
<1>2. i # Len(evs) /\ i \in 1..Len(evs) /\ Len(evs) \in Nat
  BY <1>1
<1> QED
  BY <1>1, <1>2

LEMMA MoreProgress ==
    ASSUME NEW evs \in Seq(Entry), NEW e \in Entry, Progressed(evs),
           e.kind = "stop" /\ mode = "learned" =>
              \A r \in DOMAIN evs : evs[r].kind = "rejected" =>
                 \E j \in r..Len(evs) : evs[j].kind = "result"
    PROVE  Progressed(Append(evs, e))
<1> DEFINE more == Append(evs, e)
<1>1. /\ Len(evs) \in Nat /\ DOMAIN evs = 1..Len(evs) /\ DOMAIN more = 1..(Len(evs) + 1)
      /\ \A i \in 1..Len(evs) : more[i] = evs[i]
      /\ more[Len(evs) + 1] = e
  BY Appending
<1> HIDE DEF more
<1>2. ASSUME mode = "learned", NEW r \in DOMAIN more, NEW i \in DOMAIN more,
             more[r].kind = "rejected", more[i].kind = "stop", r < i
      PROVE  \E j \in r..i : more[j].kind = "result"
  <2>1. r \in DOMAIN evs /\ evs[r].kind = "rejected"
    BY <1>1, <1>2
  <2>2. CASE i \in DOMAIN evs
    <3>1. PICK j \in r..i : evs[j].kind = "result"
      BY <1>1, <1>2, <2>1, <2>2 DEF Progressed
    <3>2. j \in r..i /\ more[j].kind = "result"
      BY <1>1, <2>1, <2>2, <3>1
    <3> QED
      BY <3>2
  <2>3. CASE i = Len(evs) + 1
    <3>1. PICK j \in r..Len(evs) : evs[j].kind = "result"
      BY <1>1, <1>2, <2>1, <2>3
    <3>2. j \in r..i /\ more[j].kind = "result"
      BY <1>1, <2>1, <2>3, <3>1
    <3> QED
      BY <3>2
  <2> QED
    BY <1>1, <2>2, <2>3
<1> QED
  BY <1>2 DEF Progressed, more

LEMMA MoreReported ==
    ASSUME NEW evs \in Seq(Entry), NEW e \in Entry, NEW st, NEW how, NEW st2, NEW how2,
           Reported(evs, st, how), how2 = [n \in Nodes |-> how2[n]],
           \A n \in Nodes : st2[n] = "returned" /\ how2[n] = "acquire_external" =>
              \/ st[n] = "returned" /\ how[n] = "acquire_external"
              \/ \E i \in DOMAIN evs : evs[i].kind = "result" /\ evs[i].node = n
    PROVE  Reported(Append(evs, e), st2, how2)
<1> DEFINE more == Append(evs, e)
<1>1. /\ DOMAIN evs \subseteq DOMAIN more
      /\ \A i \in DOMAIN evs : more[i] = evs[i]
  BY Appending
<1> HIDE DEF more
<1>2. ASSUME NEW n \in Nodes, st2[n] = "returned", how2[n] = "acquire_external"
      PROVE  \E i \in DOMAIN more : more[i].kind = "result" /\ more[i].node = n
  <2>1. PICK i \in DOMAIN evs : evs[i].kind = "result" /\ evs[i].node = n
    BY <1>2 DEF Reported
  <2> QED
    BY <1>1, <2>1
<1> QED
  BY <1>2 DEF Reported, more
-----------------------------------------------------------------------------
(* Snapshots.                                                              *)

LEMMA SessionsAreNotEmpty == ASSUME NEW s, DOMAIN s = SessionFields PROVE s # <<>>
<1>1. "status" \in DOMAIN s
  BY DEF SessionFields
<1>2. "status" \notin DOMAIN <<>>
  OBVIOUS
<1> QED
  BY <1>1, <1>2

LEMMA SoundSessions ==
    ASSUME NEW s, SoundAt(s)
    PROVE  /\ s.events \in Seq(Entry) /\ Len(s.events) \in Nat /\ s.pending \in Ask
           /\ Accounts(s.events, s.pending)
<1>1. Accounts(s.events, s.pending)
  BY DEF SoundAt, Sound
<1>2. s.events \in Seq(Entry) /\ s.pending \in Ask
  BY <1>1 DEF Accounts
<1> QED
  BY <1>1, <1>2

LEMMA NowIsSound ==
    ASSUME EpisodeInv
    PROVE  /\ events \in Seq(Entry) /\ Len(events) \in Nat /\ pending \in Ask
           /\ Accounts(events, pending) /\ Newborns(events, status, deps) /\ Progressed(events)
           /\ Reported(events, status, realization)
           /\ status = [n \in Nodes |-> status[n]] /\ realization = [n \in Nodes |-> realization[n]]
<1>1. /\ Accounts(events, pending) /\ Newborns(events, status, deps) /\ Progressed(events)
      /\ Reported(events, status, realization)
  BY DEF EpisodeInv, Sound
<1>2. events \in Seq(Entry) /\ pending \in Ask
  BY <1>1 DEF Accounts
<1>3. status = [n \in Nodes |-> status[n]] /\ realization = [n \in Nodes |-> realization[n]]
  BY <1>1 DEF Newborns, Reported
<1> QED
  BY <1>1, <1>2, <1>3

LEMMA FreshIsSound == SoundAt(Fresh)
<1>1. /\ DOMAIN Fresh = SessionFields /\ Fresh.events = <<>> /\ Fresh.pending = NoRequest
      /\ Fresh.status = [n \in Nodes |-> IF n = Root THEN "ready" ELSE "absent"]
      /\ Fresh.realization = [n \in Nodes |-> "none"]
  BY DEF Fresh, SessionFields
<1>2. <<>> \in Seq(Entry) /\ DOMAIN <<>> = {}
  OBVIOUS
<1>3. Accounts(<<>>, NoRequest)
  BY <1>2, NothingAsked DEF Accounts, Commands
<1>4. Newborns(<<>>, Fresh.status, Fresh.deps) /\ Reported(<<>>, Fresh.status, Fresh.realization)
  BY <1>1, <1>2 DEF Newborns, Reported
<1>5. Progressed(<<>>)
  BY <1>2 DEF Progressed
<1> QED
  BY <1>1, <1>3, <1>4, <1>5 DEF SoundAt, Sound

LEMMA SessionIsSound ==
    ASSUME Sound(events, pending, status, deps, realization)
    PROVE  SoundAt(Session) /\ Session.events = events /\ Session.pending = pending
BY DEF Session, SoundAt, SessionFields

LEMMA DeadlineIsSound ==
    ASSUME NEW s, SoundAt(s)
    PROVE  LET t == AtDeadline(s)
           IN  /\ SoundAt(t) /\ t.pending = NoRequest /\ Len(s.events) <= Len(t.events)
               /\ Len(t.events) \in DOMAIN t.events /\ t.events[Len(t.events)].kind = "deadline"
               /\ \A i \in DOMAIN s.events : i \in DOMAIN t.events /\ t.events[i] = s.events[i]
<1> DEFINE cut == Event("interrupted", s.pending.node, NoNode, s.pending.id)
           last == Event("deadline", NoNode, NoNode, 0)
           evs == IF s.pending = NoRequest THEN s.events ELSE Append(s.events, cut)
           t == AtDeadline(s)
<1>1. /\ s.events \in Seq(Entry) /\ s.pending \in Ask /\ DOMAIN s = SessionFields
      /\ Accounts(s.events, s.pending) /\ Newborns(s.events, s.status, s.deps)
      /\ Progressed(s.events) /\ Reported(s.events, s.status, s.realization)
  BY DEF SoundAt, Sound, Accounts
<1>2. cut \in Entry /\ cut.kind = "interrupted" /\ last \in Entry /\ last.kind = "deadline"
  BY <1>1 DEF Event, Entry, Kinds, Ask
<1>3. t.events = Append(evs, last) /\ t.pending = NoRequest /\ DOMAIN t = SessionFields
      /\ t.status = s.status /\ t.deps = s.deps /\ t.realization = s.realization
  <2> HIDE DEF cut, last
  <2>1. ASSUME NEW e \in Entry PROVE s.events \o <<>> \o <<e>> = Append(s.events, e)
    BY <1>1
  <2>2. ASSUME NEW d \in Entry, NEW e \in Entry
        PROVE  s.events \o <<d>> \o <<e>> = Append(Append(s.events, d), e)
    BY <1>1
  <2> QED
    BY <1>1, <1>2, <2>1, <2>2 DEF AtDeadline, SessionFields, cut, last
<1>4. /\ Accounts(evs, NoRequest) /\ evs \in Seq(Entry)
      /\ Newborns(evs, s.status, s.deps) /\ Progressed(evs)
      /\ Reported(evs, s.status, s.realization) /\ Len(s.events) <= Len(evs)
      /\ \A i \in DOMAIN s.events : i \in DOMAIN evs /\ evs[i] = s.events[i]
  <2>1. CASE s.pending = NoRequest
    BY <1>1, <2>1
  <2>2. CASE s.pending # NoRequest
    <3>1. evs = Append(s.events, cut)
      BY <2>2
    <3>2. Accounts(evs, NoRequest)
      BY <1>1, <2>2, <3>1, SettledAccounts DEF Settling
    <3>3. \A i \in DOMAIN s.events : ~Outstanding(s.events, s.deps, i)
      <4>1. Len(s.events) \in DOMAIN s.events /\ s.events[Len(s.events)].kind = "command"
        BY <1>1, <2>2 DEF Accounts, Commands
      <4> QED
        BY <1>1, <4>1, NoneOutstanding
    <3> HIDE DEF cut
    <3>4. Newborns(evs, s.status, s.deps)
      <4>1. s.status = [n \in Nodes |-> s.status[n]]
        BY <1>1 DEF Newborns
      <4> QED
        BY <1>1, <1>2, <3>1, <3>3, <4>1, NewbornActs
    <3>5. Progressed(evs)
      BY <1>1, <1>2, <3>1, MoreProgress
    <3>6. Reported(evs, s.status, s.realization)
      <4>1. s.realization = [n \in Nodes |-> s.realization[n]]
        BY <1>1 DEF Reported
      <4> QED
        BY <1>1, <1>2, <3>1, <4>1, MoreReported
    <3>7. /\ evs \in Seq(Entry) /\ Len(s.events) <= Len(evs)
          /\ \A i \in DOMAIN s.events : i \in DOMAIN evs /\ evs[i] = s.events[i]
      BY <1>1, <1>2, <3>1, Appending
    <3> QED
      BY <3>2, <3>4, <3>5, <3>6, <3>7
  <2> QED
    BY <2>1, <2>2
<1> HIDE DEF cut, last, evs, t
<1>5. Accounts(t.events, NoRequest)
  BY <1>2, <1>3, <1>4, PlainAccounts DEF Settling
<1>6. Newborns(t.events, s.status, s.deps)
  <2>1. s.status = [n \in Nodes |-> s.status[n]]
    BY <1>1 DEF Newborns
  <2> QED
    BY <1>2, <1>3, <1>4, <2>1, NewbornWaits
<1>7. Progressed(t.events)
  BY <1>2, <1>3, <1>4, MoreProgress
<1>8. Reported(t.events, s.status, s.realization)
  <2>1. s.realization = [n \in Nodes |-> s.realization[n]]
    BY <1>1 DEF Reported
  <2> QED
    BY <1>2, <1>3, <1>4, <2>1, MoreReported
<1>9. /\ Len(evs) \in Nat /\ Len(t.events) = Len(evs) + 1 /\ DOMAIN t.events = 1..(Len(evs) + 1)
      /\ DOMAIN evs = 1..Len(evs) /\ \A i \in 1..Len(evs) : t.events[i] = evs[i]
      /\ t.events[Len(evs) + 1] = last
  BY <1>2, <1>3, <1>4, Appending
<1>10. /\ Len(s.events) <= Len(t.events) /\ Len(t.events) \in DOMAIN t.events
       /\ t.events[Len(t.events)].kind = "deadline"
       /\ \A i \in DOMAIN s.events : i \in DOMAIN t.events /\ t.events[i] = s.events[i]
  <2>1. Len(s.events) \in Nat
    BY <1>1
  <2> QED
    BY <1>2, <1>4, <1>9, <2>1
<1>11. SoundAt(t)
  BY <1>3, <1>5, <1>6, <1>7, <1>8 DEF SoundAt, Sound
<1> QED
  BY <1>3, <1>10, <1>11 DEF t

LEMMA KnownLonger ==
    ASSUME NEW given, NEW evs, NEW more, Known(given, evs),
           \A i \in DOMAIN evs : i \in DOMAIN more /\ more[i] = evs[i]
    PROVE  Known(given, more)
BY DEF Known, Commands

LEMMA KnownOlder ==
    ASSUME NEW given, NEW evs \in Seq(Entry), Known(given, evs)
    PROVE  \A i \in DOMAIN given : given[i] # 0 /\ given[i] # Len(evs) + 1
<1>1. DOMAIN evs = 1..Len(evs) /\ Len(evs) \in Nat
  OBVIOUS
<1> QED
  BY <1>1 DEF Known, Commands

-----------------------------------------------------------------------------
(* A step of the process with the request it has.                          *)

LEMMA InProcess ==
    ASSUME EpisodeInv, phase \notin {"idle", "reply"}, UNCHANGED rpc,
           Sound(events, pending, status, deps, realization)',
           events' = events \/ \E e \in Entry : events' = Append(events, e),
           phase' \in {"apply", "prepare", "decide", "settle", "child", "finish", "reply"},
           phase' # "reply" => pending' = NoRequest,
           phase' = "apply" => /\ Len(events') \in DOMAIN events'
                               /\ events'[Len(events')].kind = "result"
                               /\ events'[Len(events')].node = saved.pending.node
                               /\ saved # <<>>,
           phase' = "reply" => /\ outcome' = "terminal_request" <=> pending' # NoRequest
                               /\ New(pending'.id),
           phase' \in {"settle", "finish"} => outcome' # "terminal_request"
    PROVE  EpisodeInv'
<1>1. client = "waiting" /\ Waiting /\ events \in Seq(Entry)
  BY DEF EpisodeInv, Places, Sound, Accounts
<1>2. UNCHANGED <<client, call, saved, ran, captured, driver>>
  BY DEF rpc
<1>3. /\ \A i \in DOMAIN events : i \in DOMAIN events' /\ events'[i] = events[i]
      /\ Len(events) <= Len(events') /\ Len(events') \in Nat /\ Len(events) \in Nat
  <2>1. CASE events' = events
    BY <1>1, <2>1
  <2>2. ASSUME NEW e \in Entry, events' = Append(events, e)
        PROVE  /\ \A i \in DOMAIN events : i \in DOMAIN events' /\ events'[i] = events[i]
               /\ Len(events) <= Len(events') /\ Len(events') \in Nat /\ Len(events) \in Nat
    BY <1>1, <2>2, Appending
  <2> QED
    BY <2>1, <2>2
<1>4. Known(ran, events')
  BY <1>1, <1>3, KnownLonger DEF Waiting
<1>5. Waiting'
  BY <1>1, <1>2, <1>4 DEF Waiting, New
<1>6. Snapshots'
  <2>1. saved # <<>> => Len(saved.events) \in Nat
    BY SoundSessions DEF EpisodeInv, Snapshots
  <2>2. saved # <<>> => Len(saved.events) <= Len(events')
    BY <1>3, <2>1 DEF EpisodeInv, Snapshots
  <2> QED
    BY <1>2, <2>2 DEF EpisodeInv, Snapshots, SoundAt, Sound, Progressed, rpc
<1>7. Places'
  BY <1>1, <1>2, <1>5 DEF Places, EpisodeInv
<1> QED
  BY <1>6, <1>7 DEF EpisodeInv

\* A newborn that is outstanding has the turn.
LEMMA ContextIsNewborn ==
    ASSUME EpisodeInv, NEW i \in DOMAIN events, Outstanding(events, deps, i)
    PROVE  Context = events[i].peer
<1>1. /\ events[i].kind = "derive" /\ events[i].peer \in Nodes /\ status[events[i].peer] = "ready"
      /\ \A j \in (i + 1)..Len(events) : events[j].kind \in {"rejected", "deadline"}
      /\ events \in Seq(Entry)
  BY DEF EpisodeInv, Sound, Newborns, Outstanding, Accounts
<1>2. Runnable(events[i].peer)
  BY <1>1, EpisodeAssumption DEF Runnable
<1>3. Claimant(events[i]) = events[i].peer
  <2>1. FirstRunnable(<<events[i].peer, events[i].node>>) = events[i].peer
    <3> DEFINE s == <<events[i].peer, events[i].node>>
               I == {k \in DOMAIN s : Runnable(s[k])}
    <3>1. DOMAIN s = {1, 2} /\ s[1] = events[i].peer
      OBVIOUS
    <3>2. (\A k \in I : k = 1 \/ k = 2) /\ 1 \in I
      BY <1>2, <3>1
    <3> HIDE DEF I
    <3>3. Min(I) \in I /\ \A y \in I : Min(I) =< y
      <4>1. \E x \in I : \A y \in I : x =< y
        BY <3>2
      <4> QED
        BY <4>1 DEF Min
    <3>4. Min(I) = 1
      BY <3>2, <3>3
    <3> QED
      BY <3>1, <3>2, <3>4 DEF FirstRunnable, I
  <2> QED
    BY <1>1, <2>1 DEF Claimant
<1>4. \A j \in (i + 1)..Len(events) : Claimant(events[j]) = NoNode
  BY <1>1 DEF Claimant
<1> DEFINE Claims == {k \in DOMAIN events : Claimant(events[k]) # NoNode}
<1>5. i \in Claims /\ Claims \subseteq 1..i
  <2>1. DOMAIN events = 1..Len(events) /\ Len(events) \in Nat
    BY <1>1
  <2>2. Claimant(events[i]) # NoNode
    BY <1>1, <1>3, EpisodeAssumption
  <2> QED
    BY <1>4, <2>1, <2>2
<1>6. Max(Claims) = i
  <2> HIDE DEF Claims
  <2>1. i \in Nat
    BY <1>1
  <2> QED
    BY <1>5, <2>1 DEF Max
<1> QED
  BY <1>3, <1>5, <1>6 DEF Context

\* One more event of the node whose turn it is.
LEMMA Decides ==
    ASSUME EpisodeInv, NEW e \in Entry, e.node = Context, events' = Append(events, e),
           mode' = mode, deps \subseteq deps',
           status' = [n \in Nodes |-> status'[n]], realization' = [n \in Nodes |-> realization'[n]],
           e.kind = "derive" =>
              \/ \E d \in deps' : d.consumer = e.peer
              \/ e.peer \in Nodes /\ e.peer # e.node /\ status'[e.peer] = "ready",
           e.kind = "stop" /\ mode = "learned" =>
              \A r \in DOMAIN events : events[r].kind = "rejected" =>
                 \E j \in r..Len(events) : events[j].kind = "result",
           \A n \in Nodes : status'[n] = "returned" /\ realization'[n] = "acquire_external" =>
              \/ status[n] = "returned" /\ realization[n] = "acquire_external"
              \/ \E i \in DOMAIN events : events[i].kind = "result" /\ events[i].node = n
    PROVE  /\ Newborns(events', status', deps') /\ Progressed(events)'
           /\ Reported(events', status', realization')
<1>1. /\ events \in Seq(Entry) /\ Newborns(events, status, deps) /\ Progressed(events)
      /\ Reported(events, status, realization)
  BY DEF EpisodeInv, Sound, Accounts
<1>2. \A i \in DOMAIN events : Outstanding(events, deps, i) => e.node = events[i].peer
  BY ContextIsNewborn
<1>3. Newborns(events', status', deps')
  BY <1>1, <1>2, NewbornActs
<1>4. Progressed(Append(events, e))
  BY <1>1, MoreProgress
<1>5. Progressed(events)'
  BY <1>4 DEF Progressed
<1>6. Reported(events', status', realization')
  BY <1>1, MoreReported
<1> QED
  BY <1>3, <1>5, <1>6

\* What the process knows while it decides.
LEMMA DecidingState ==
    ASSUME EpisodeInv, NEW n, NEW kind, May(n, kind)
    PROVE  /\ phase \in {"decide", "child"} /\ n = Context /\ pending = NoRequest
           /\ Accounts(events, NoRequest) /\ events \in Seq(Entry) /\ New(0) /\ New(Len(events) + 1)
           /\ status = [m \in Nodes |-> status[m]] /\ realization = [m \in Nodes |-> realization[m]]
<1>1. phase \in {"decide", "child"} /\ n = Context
  BY DEF May
<1>2. Waiting /\ pending = NoRequest
  BY <1>1 DEF EpisodeInv, Places, Waiting
<1>3. Accounts(events, NoRequest) /\ events \in Seq(Entry)
      /\ status = [m \in Nodes |-> status[m]] /\ realization = [m \in Nodes |-> realization[m]]
  BY <1>2 DEF EpisodeInv, Sound, Accounts, Newborns, Reported
<1>4. New(0) /\ New(Len(events) + 1)
  BY <1>2, <1>3, KnownOlder DEF Waiting, New
<1> QED
  BY <1>1, <1>2, <1>3, <1>4

LEMMA RequestTerminalStep ==
    ASSUME EpisodeInv, NEW n \in Nodes, NEW kind \in {"ACQUIRE", "EXECUTE"}, RequestTerminal(n, kind)
    PROVE  EpisodeInv'
<1> DEFINE e == Event("command", n, NoNode, 0)
           pend == [node |-> n, kind |-> kind, id |-> Len(events) + 1]
<1>1. /\ phase \in {"decide", "child"} /\ n = Context /\ pending = NoRequest
      /\ Accounts(events, NoRequest) /\ events \in Seq(Entry) /\ New(0) /\ New(Len(events) + 1)
      /\ status = [m \in Nodes |-> status[m]] /\ realization = [m \in Nodes |-> realization[m]]
  BY DecidingState DEF RequestTerminal
<1>2. /\ events' = Append(events, e) /\ pending' = pend /\ phase' = "reply"
      /\ outcome' = "terminal_request" /\ UNCHANGED <<status, deps, realization>> /\ UNCHANGED rpc
      /\ mode' = mode /\ ran' = ran
  BY DEF RequestTerminal, Log, org, rpc
<1>3. e \in Entry /\ e.node = n /\ e.kind = "command"
  BY DEF Event, Entry, Kinds
<1>4. pend # NoRequest /\ pend.id = Len(events) + 1
  BY EpisodeAssumption DEF NoRequest
<1>5. Accounts(events', pending')
  BY <1>1, <1>2, CommandAccounts
<1> HIDE DEF e, pend
<1>6. /\ Newborns(events', status', deps') /\ Progressed(events)'
      /\ Reported(events', status', realization')
  BY <1>1, <1>2, <1>3, Decides
<1>7. Sound(events, pending, status, deps, realization)'
  BY <1>5, <1>6 DEF Sound
<1> QED
  BY <1>1, <1>2, <1>3, <1>4, <1>7, InProcess DEF New

\* The other decisions ask for no command.
LEMMA PlainDecision ==
    ASSUME EpisodeInv, NEW n, NEW kind, May(n, kind), NEW e \in Entry, e.node = n,
           e.kind \notin Settling \cup {"command"},
           events' = Append(events, e), UNCHANGED <<pending, rpc>>,
           phase' \in {"settle", "finish", "reply"}, outcome' \in {"continue", "completed"},
           /\ Newborns(events', status', deps') /\ Progressed(events)'
           /\ Reported(events', status', realization')
    PROVE  EpisodeInv'
<1>1. /\ phase \in {"decide", "child"} /\ pending = NoRequest
      /\ Accounts(events, NoRequest) /\ events \in Seq(Entry) /\ New(0)
  BY DecidingState
<1>2. Accounts(events', pending') /\ pending' = NoRequest /\ New(pending'.id)
  BY <1>1, PlainAccounts, NothingAsked
<1>3. Sound(events, pending, status, deps, realization)'
  BY <1>2 DEF Sound
<1> QED
  BY <1>1, <1>2, <1>3, InProcess

LEMMA OnwardPhases ==
    ASSUME NEW kind, phase \in {"decide", "child"}, Onward(kind)
    PROVE  phase' \in {"settle", "finish", "reply"}
BY DEF Onward

LEMMA DeriveStep ==
    ASSUME EpisodeInv, NEW n \in Nodes, NEW c \in Nodes, NEW r, NEW wants, NEW how,
           Derive(n, c, r, wants, how)
    PROVE  EpisodeInv'
<1> DEFINE e == Event("derive", n, c, 0)
<1>1. /\ May(n, "DERIVE") /\ phase \in {"decide", "child"} /\ n = Context /\ events \in Seq(Entry)
      /\ status = [m \in Nodes |-> status[m]] /\ realization = [m \in Nodes |-> realization[m]]
  BY DecidingState DEF Derive
<1>2. /\ events' = Append(events, e) /\ UNCHANGED <<pending, rpc>> /\ mode' = mode
      /\ outcome' = "continue" /\ phase' \in {"settle", "finish", "reply"}
  BY <1>1, OnwardPhases DEF Derive, Log, rpc
<1>3. e \in Entry /\ e.node = n /\ e.peer = c /\ e.kind = "derive"
  BY DEF Event, Entry, Kinds
<1>4. status[c] = "absent" /\ c # n
  BY DEF Derive, Org!Derive, Org!AddChild, Org!CanAct
<1>5. /\ deps' = deps \cup Org!EdgesTo(c, wants)
      /\ status' = [status EXCEPT ![c] = IF wants = {} THEN "ready" ELSE "waiting"]
      /\ realization' = [realization EXCEPT ![c] = how]
  BY DEF Derive, Org!Derive
<1>6. ASSUME NEW w \in wants PROVE \E d \in deps' : d.consumer = c
  <2> DEFINE d == [producer |-> w[1], consumer |-> c, artifact |-> w[2]]
  <2>1. d \in Org!EdgesTo(c, wants) /\ d.consumer = c
    BY DEF Org!EdgesTo
  <2> QED
    BY <1>5, <2>1
<1>7. /\ status' = [m \in Nodes |-> status'[m]] /\ realization' = [m \in Nodes |-> realization'[m]]
      /\ wants = {} => status'[c] = "ready"
      /\ status'[c] # "returned"
      /\ \A m \in Nodes : m # c => status'[m] = status[m] /\ realization'[m] = realization[m]
  BY <1>1, <1>5
<1> HIDE DEF e
<1>8. /\ Newborns(events', status', deps') /\ Progressed(events)'
      /\ Reported(events', status', realization')
  BY <1>1, <1>2, <1>3, <1>4, <1>5, <1>6, <1>7, Decides
<1> QED
  BY <1>1, <1>2, <1>3, <1>8, PlainDecision DEF Settling

LEMMA ReuseStep ==
    ASSUME EpisodeInv, NEW n \in Nodes, NEW to \in Nodes, NEW r, Reuse(n, to, r)
    PROVE  EpisodeInv'
<1> DEFINE e == Event("reuse", n, to, 0)
<1>1. /\ May(n, "REUSE") /\ phase \in {"decide", "child"} /\ n = Context /\ events \in Seq(Entry)
      /\ status = [m \in Nodes |-> status[m]] /\ realization = [m \in Nodes |-> realization[m]]
  BY DecidingState DEF Reuse
<1>2. /\ events' = Append(events, e) /\ UNCHANGED <<pending, rpc>> /\ mode' = mode
      /\ outcome' = "continue" /\ phase' \in {"settle", "finish", "reply"}
      /\ UNCHANGED <<status, deps, realization>>
  BY <1>1, OnwardPhases DEF Reuse, Org!Reuse, Log, rpc
<1>3. e \in Entry /\ e.node = n /\ e.kind = "reuse"
  BY DEF Event, Entry, Kinds
<1> HIDE DEF e
<1>4. /\ Newborns(events', status', deps') /\ Progressed(events)'
      /\ Reported(events', status', realization')
  BY <1>1, <1>2, <1>3, Decides
<1> QED
  BY <1>1, <1>2, <1>3, <1>4, PlainDecision DEF Settling

LEMMA PruneStep ==
    ASSUME EpisodeInv, NEW n \in Nodes, NEW t \in Nodes, Prune(n, t)
    PROVE  EpisodeInv'
<1> DEFINE e == Event("prune", n, NoNode, 0)
<1>1. /\ May(n, "PRUNE") /\ phase \in {"decide", "child"} /\ n = Context /\ events \in Seq(Entry)
      /\ status = [m \in Nodes |-> status[m]] /\ realization = [m \in Nodes |-> realization[m]]
  BY DecidingState DEF Prune
<1>2. /\ events' = Append(events, e) /\ UNCHANGED <<pending, rpc>> /\ mode' = mode
      /\ outcome' = "continue" /\ phase' \in {"settle", "finish", "reply"}
      /\ UNCHANGED <<deps, realization>> /\ status' = [status EXCEPT ![t] = "pruned"]
  BY <1>1, OnwardPhases DEF Prune, Org!Prune, Log, rpc
<1>3. e \in Entry /\ e.node = n /\ e.kind = "prune"
  BY DEF Event, Entry, Kinds
<1>4. /\ status' = [m \in Nodes |-> status'[m]]
      /\ \A m \in Nodes : status'[m] = "returned" => status[m] = "returned"
  BY <1>1, <1>2
<1> HIDE DEF e
<1>5. /\ Newborns(events', status', deps') /\ Progressed(events)'
      /\ Reported(events', status', realization')
  BY <1>1, <1>2, <1>3, <1>4, Decides
<1> QED
  BY <1>1, <1>2, <1>3, <1>5, PlainDecision DEF Settling

LEMMA ReturnStep ==
    ASSUME EpisodeInv, NEW n \in Nodes, NEW new, NEW resolvesGap, Return(n, new, resolvesGap)
    PROVE  EpisodeInv'
<1> DEFINE e == Event("return", n, NoNode, 0)
<1>1. /\ May(n, "RETURN") /\ phase \in {"decide", "child"} /\ n = Context /\ events \in Seq(Entry)
      /\ status = [m \in Nodes |-> status[m]] /\ realization = [m \in Nodes |-> realization[m]]
  BY DecidingState DEF Return
<1>2. /\ events' = Append(events, e) /\ UNCHANGED <<pending, rpc>> /\ mode' = mode
      /\ outcome' = "continue" /\ phase' \in {"settle", "finish", "reply"}
      /\ UNCHANGED <<deps, realization>>
  BY <1>1, OnwardPhases DEF Return, Org!Report, Log, rpc
<1>3. e \in Entry /\ e.node = n /\ e.kind = "return"
  BY DEF Event, Entry, Kinds
<1>4. /\ status' = [m \in Nodes |-> status'[m]]
      /\ \A m \in Nodes : m # n => status'[m] \in {"ready", status[m]}
  BY <1>1 DEF Return, Org!Report
<1>5. realization[n] = "acquire_external" =>
         \E i \in DOMAIN events : events[i].kind = "result" /\ events[i].node = n
  BY DEF Return, ReturnAllowed, HasResult
<1> HIDE DEF e
<1>6. /\ Newborns(events', status', deps') /\ Progressed(events)'
      /\ Reported(events', status', realization')
  BY <1>1, <1>2, <1>3, <1>4, <1>5, Decides
<1> QED
  BY <1>1, <1>2, <1>3, <1>6, PlainDecision DEF Settling

LEMMA StopOrganizationStep ==
    ASSUME EpisodeInv, NEW n \in Nodes, StopOrganization(n)
    PROVE  EpisodeInv'
<1> DEFINE e == Event("stop", n, NoNode, 0)
<1>1. /\ May(n, "STOP") /\ phase \in {"decide", "child"} /\ n = Context /\ events \in Seq(Entry)
      /\ status = [m \in Nodes |-> status[m]] /\ realization = [m \in Nodes |-> realization[m]]
  BY DecidingState DEF StopOrganization
<1>2. /\ events' = Append(events, e) /\ UNCHANGED <<pending, rpc>> /\ mode' = mode
      /\ outcome' = "completed" /\ phase' = "reply"
      /\ UNCHANGED <<deps, realization>> /\ status' = [status EXCEPT ![Root] = "completed"]
  BY DEF StopOrganization, Org!Stop, Log, rpc
<1>3. e \in Entry /\ e.node = n /\ e.kind = "stop"
  BY DEF Event, Entry, Kinds
<1>4. /\ status' = [m \in Nodes |-> status'[m]]
      /\ \A m \in Nodes : status'[m] = "returned" => status[m] = "returned"
  BY <1>1, <1>2
<1>5. mode = "learned" =>
         \A r \in DOMAIN events : events[r].kind = "rejected" =>
            \E j \in r..Len(events) : events[j].kind = "result"
  <2>1. "STOP" \in Wanted(n)
    BY DEF StopOrganization, May
  <2>2. phase # "child"
    BY <2>1 DEF Wanted
  <2>3. mode = "learned" => "STOP" \in LegalKinds(n)
    BY <1>1, <2>1, <2>2 DEF Wanted
  <2>4. mode = "learned" => ~NeedsProgress
    BY <2>3 DEF LegalKinds
  <2> QED
    BY <1>1, <2>4 DEF NeedsProgress, Rejected
<1> HIDE DEF e
<1>6. /\ Newborns(events', status', deps') /\ Progressed(events)'
      /\ Reported(events', status', realization')
  BY <1>1, <1>2, <1>3, <1>4, <1>5, Decides
<1> QED
  BY <1>1, <1>2, <1>3, <1>6, PlainDecision DEF Settling

\* A request whose events are as they were.
LEMMA SameEvents ==
    ASSUME EpisodeInv, phase \notin {"idle", "reply", "accept"}, UNCHANGED rpc,
           UNCHANGED <<status, deps, realization, events, pending>>,
           phase' \in {"prepare", "decide", "settle", "child", "finish", "reply"},
           phase' = "reply" => outcome' # "terminal_request",
           phase' \in {"settle", "finish"} => outcome' # "terminal_request"
    PROVE  EpisodeInv'
<1>1. Waiting /\ pending = NoRequest /\ mode' = mode /\ ran' = ran /\ events \in Seq(Entry)
  BY DEF EpisodeInv, Places, Waiting, rpc, Sound, Accounts
<1>2. Sound(events, pending, status, deps, realization)'
  BY <1>1 DEF EpisodeInv, Sound, Progressed
<1>3. New(0)
  BY <1>1, KnownOlder DEF Waiting, New
<1> QED
  BY <1>1, <1>2, <1>3, NothingAsked, InProcess DEF New

LEMMA NothingToDecideStep == ASSUME EpisodeInv, NothingToDecide PROVE EpisodeInv'
<1>1. UNCHANGED <<status, deps, realization, events, pending>> /\ UNCHANGED rpc
      /\ phase = "decide" /\ phase' = "reply" /\ outcome' = "completed"
  BY DEF NothingToDecide, session, org
<1> QED
  BY <1>1, SameEvents

LEMMA PreparedStep == ASSUME EpisodeInv, Prepared PROVE EpisodeInv'
<1>1. UNCHANGED <<status, deps, realization, events, pending>> /\ UNCHANGED rpc
      /\ phase \in {"prepare", "settle", "finish"}
  BY DEF Prepared, session, org
<1>2. \/ phase = "prepare" /\ phase' = "reply" /\ outcome' = "ready"
      \/ phase = "prepare" /\ phase' = "decide"
      \/ phase = "settle" /\ phase' = "child"
      \/ phase = "finish" /\ phase' = "reply" /\ outcome' = outcome
  BY DEF Prepared
<1>3. phase = "finish" => outcome # "terminal_request"
  BY DEF EpisodeInv, Places, Waiting
<1> QED
  BY <1>1, <1>2, <1>3, SameEvents

LEMMA ProjectStep == ASSUME EpisodeInv, NEW new, NEW owner, Project(new, owner) PROVE EpisodeInv'
<1>1. UNCHANGED <<status, deps, realization, events, pending>> /\ UNCHANGED rpc
      /\ phase \in {"prepare", "settle", "finish"} /\ phase' = phase /\ outcome' = outcome
  BY DEF Project, Projecting
<1>2. phase \in {"settle", "finish"} => outcome # "terminal_request"
  BY DEF EpisodeInv, Places, Waiting
<1> QED
  BY <1>1, <1>2, SameEvents

LEMMA AcceptResultStep == ASSUME EpisodeInv, AcceptResult PROVE EpisodeInv'
<1> DEFINE e == Event("result", pending.node, NoNode, pending.id)
<1>1. /\ phase = "accept" /\ pending # NoRequest /\ events' = Append(events, e)
      /\ pending' = NoRequest /\ phase' = "apply" /\ UNCHANGED <<status, deps, realization>>
      /\ UNCHANGED rpc /\ mode' = mode
  BY DEF AcceptResult, org, rpc
<1>2. /\ Waiting /\ saved # <<>> /\ pending = saved.pending /\ events \in Seq(Entry)
      /\ Accounts(events, pending) /\ Newborns(events, status, deps) /\ Progressed(events)
      /\ Reported(events, status, realization) /\ pending \in Ask
  BY <1>1 DEF EpisodeInv, Places, Waiting, Sound, Accounts
<1>3. e \in Entry /\ e.node = pending.node /\ e.kind = "result"
  BY <1>2 DEF Event, Entry, Kinds, Ask
<1>4. Accounts(events', pending')
  BY <1>1, <1>2, SettledAccounts DEF Settling
<1>5. \A i \in DOMAIN events : ~Outstanding(events, deps, i)
  <2>1. Len(events) \in DOMAIN events /\ events[Len(events)].kind = "command"
    BY <1>1, <1>2 DEF Accounts, Commands
  <2> QED
    BY <1>2, <2>1, NoneOutstanding
<1> HIDE DEF e
<1>6. Newborns(events', status', deps')
  <2>1. status = [n \in Nodes |-> status[n]]
    BY <1>2 DEF Newborns
  <2> QED
    BY <1>1, <1>2, <1>3, <1>5, <2>1, NewbornActs
<1>7. Progressed(events)'
  <2>1. Progressed(Append(events, e))
    BY <1>2, <1>3, MoreProgress
  <2> QED
    BY <1>1, <2>1 DEF Progressed
<1>8. Reported(events', status', realization')
  <2>1. realization = [n \in Nodes |-> realization[n]]
    BY <1>2 DEF Reported
  <2> QED
    BY <1>1, <1>2, <1>3, <2>1, MoreReported
<1>9. Sound(events, pending, status, deps, realization)'
  BY <1>4, <1>6, <1>7, <1>8 DEF Sound
<1>10. /\ Len(events') \in DOMAIN events' /\ events'[Len(events')] = e
  BY <1>1, <1>2, <1>3, Appending
<1> QED
  BY <1>1, <1>2, <1>3, <1>9, <1>10, InProcess

LEMMA ApplyResultStep == ASSUME EpisodeInv, ApplyResult PROVE EpisodeInv'
<1> DEFINE e == Event("act", saved.pending.node, NoNode, 0)
<1>1. /\ phase = "apply" /\ events' = Append(events, e) /\ phase' = "prepare"
      /\ UNCHANGED <<pending, deps, realization, rpc, mode>>
  BY DEF ApplyResult, Log, org, rpc, Org!Execute
<1>2. /\ Waiting /\ saved # <<>> /\ pending = NoRequest /\ events \in Seq(Entry)
      /\ Accounts(events, NoRequest) /\ Newborns(events, status, deps) /\ Progressed(events)
      /\ Reported(events, status, realization) /\ saved.pending \in Ask
      /\ status = [n \in Nodes |-> status[n]] /\ realization = [n \in Nodes |-> realization[n]]
  <2>1. Waiting /\ saved # <<>> /\ pending = NoRequest
    BY <1>1 DEF EpisodeInv, Places, Waiting
  <2>2. SoundAt(saved)
    BY <2>1 DEF EpisodeInv, Snapshots
  <2> QED
    BY <2>1, <2>2, SoundSessions, NowIsSound
<1>3. e \in Entry /\ e.kind = "act"
  BY <1>2 DEF Event, Entry, Kinds, Ask
<1>4. status' = status \/ status' = [status EXCEPT ![saved.pending.node] = "running"]
  BY DEF ApplyResult, Org!Execute, org
<1>5. /\ status' = [n \in Nodes |-> status'[n]]
      /\ \A n \in Nodes : status'[n] = "returned" => status[n] = "returned"
  BY <1>2, <1>4
<1>6. \A i \in DOMAIN events : ~Outstanding(events, deps, i)
  BY <1>1, <1>2, NoneOutstanding DEF Waiting
<1> HIDE DEF e
<1>7. Newborns(events', status', deps')
  BY <1>1, <1>2, <1>3, <1>5, <1>6, NewbornActs
<1>8. Progressed(events)'
  <2>1. Progressed(Append(events, e))
    BY <1>2, <1>3, MoreProgress
  <2> QED
    BY <1>1, <2>1 DEF Progressed
<1>9. Reported(events', status', realization')
  BY <1>1, <1>2, <1>3, <1>5, MoreReported
<1>10. Accounts(events', pending')
  BY <1>1, <1>2, <1>3, PlainAccounts DEF Settling
<1>11. Sound(events, pending, status, deps, realization)'
  BY <1>7, <1>8, <1>9, <1>10 DEF Sound
<1> QED
  BY <1>1, <1>2, <1>3, <1>11, InProcess

LEMMA ReopenStep == ASSUME EpisodeInv, Reopen PROVE EpisodeInv'
<1> DEFINE e == Event("rejected", NoNode, NoNode, 0)
<1>1. /\ phase = "reopen" /\ events' = Append(events, e) /\ phase' = "prepare"
      /\ UNCHANGED <<pending, deps, realization, rpc, mode>>
      /\ \/ status' = status
         \/ status[Root] = "completed" /\ status' = [status EXCEPT ![Root] = "ready"]
  BY DEF Reopen, Log, rpc, Org!Resume
<1>2. /\ Waiting /\ pending = NoRequest /\ events \in Seq(Entry)
      /\ Accounts(events, NoRequest) /\ Newborns(events, status, deps) /\ Progressed(events)
      /\ Reported(events, status, realization)
      /\ status = [n \in Nodes |-> status[n]] /\ realization = [n \in Nodes |-> realization[n]]
  BY <1>1 DEF EpisodeInv, Places, Waiting, Sound, Accounts, Newborns, Reported
<1>3. e \in Entry /\ e.kind = "rejected"
  BY DEF Event, Entry, Kinds
<1>4. /\ status' = [n \in Nodes |-> status'[n]]
      /\ \A n \in Nodes : /\ status[n] = "ready" => status'[n] = "ready"
                          /\ status'[n] = "returned" => status[n] = "returned"
  BY <1>1, <1>2
<1> HIDE DEF e
<1>5. Newborns(events', status', deps')
  BY <1>1, <1>2, <1>3, <1>4, NewbornWaits
<1>6. Progressed(events)'
  <2>1. Progressed(Append(events, e))
    BY <1>2, <1>3, MoreProgress
  <2> QED
    BY <1>1, <2>1 DEF Progressed
<1>7. Reported(events', status', realization')
  BY <1>1, <1>2, <1>3, <1>4, MoreReported
<1>8. Accounts(events', pending')
  BY <1>1, <1>2, <1>3, PlainAccounts DEF Settling
<1>9. Sound(events, pending, status, deps, realization)'
  BY <1>5, <1>6, <1>7, <1>8 DEF Sound
<1> QED
  BY <1>1, <1>2, <1>3, <1>9, InProcess

LEMMA DecideStep == ASSUME EpisodeInv, Decide PROVE EpisodeInv'
<1>1. Org!Actors \subseteq Nodes
  BY DEF Org!Actors
<1>2. PICK n \in Nodes :
         \/ \E kind \in {"ACQUIRE", "EXECUTE"} : RequestTerminal(n, kind)
         \/ \E c \in Nodes \ Org!Present, r \in Reqs, wants \in SUBSET (Org!Present \X {OwnReport}),
              how \in {"acquire_external", "organize_knowledge"} : Derive(n, c, r, wants, how)
         \/ \E to \in Nodes, r \in Reqs : Reuse(n, to, r)
         \/ \E t \in Nodes : Prune(n, t)
         \/ \E new \in NewRequirements, resolvesGap \in BOOLEAN : Return(n, new, resolvesGap)
         \/ StopOrganization(n)
  BY <1>1 DEF Decide
<1>3. CASE \E kind \in {"ACQUIRE", "EXECUTE"} : RequestTerminal(n, kind)
  BY <1>3, RequestTerminalStep
<1>4. CASE \E c \in Nodes \ Org!Present, r \in Reqs, wants \in SUBSET (Org!Present \X {OwnReport}),
              how \in {"acquire_external", "organize_knowledge"} : Derive(n, c, r, wants, how)
  BY <1>4, DeriveStep
<1>5. CASE \E to \in Nodes, r \in Reqs : Reuse(n, to, r)
  BY <1>5, ReuseStep
<1>6. CASE \E t \in Nodes : Prune(n, t)
  BY <1>6, PruneStep
<1>7. CASE \E new \in NewRequirements, resolvesGap \in BOOLEAN : Return(n, new, resolvesGap)
  BY <1>7, ReturnStep
<1>8. CASE StopOrganization(n)
  BY <1>8, StopOrganizationStep
<1> QED
  BY <1>2, <1>3, <1>4, <1>5, <1>6, <1>7, <1>8

-----------------------------------------------------------------------------
(* The client.                                                             *)

LEMMA SameSession ==
    ASSUME EpisodeInv, UNCHANGED <<events, pending, status, deps, realization, mode>>
    PROVE  /\ Sound(events, pending, status, deps, realization)'
           /\ UNCHANGED <<saved, ran, captured>> => Snapshots'
BY DEF EpisodeInv, Sound, Progressed, Snapshots, SoundAt

LEMMA KeptSession ==
    ASSUME UNCHANGED session
    PROVE  UNCHANGED <<events, pending, status, deps, realization>>
BY DEF session, org

\* A request is sent from a session that answered, or sent again.
LEMMA Sending ==
    ASSUME EpisodeInv, client' = "waiting", phase' = FirstPhase(call'.method),
           Known(ran, events)',
           call'.method = "initialize" => saved' = <<>> /\ outcome' = "ready",
           call'.method \in Resuming =>
              saved' # <<>> /\ pending' # NoRequest /\ pending' = saved'.pending,
           call'.method \notin Resuming =>
              pending' = NoRequest /\ (saved' # <<>> => saved'.pending = NoRequest),
           events' \in Seq(Entry)
    PROVE  Places'
<1>1. /\ call'.method \in Resuming => phase' = "accept"
      /\ call'.method = "initialize" => phase' = "reply"
      /\ call'.method \notin Resuming \cup {"initialize"} => phase' \in {"reopen", "prepare"}
  BY DEF FirstPhase, Resuming
<1>2. \A i \in DOMAIN ran' : ran'[i] # 0
  BY KnownOlder
<1>3. Waiting'
  BY <1>1, <1>2, NothingAsked DEF Waiting, New, Resuming
<1> QED
  BY <1>1, <1>3 DEF Places

LEMMA StartStep == ASSUME EpisodeInv, Start PROVE EpisodeInv'
<1>1. /\ client = "fresh" /\ saved = <<>> /\ pending = NoRequest /\ ran = <<>>
      /\ events \in Seq(Entry)
  BY DEF Start, EpisodeInv, Places, Snapshots, Sound, Accounts
<1>2. /\ UNCHANGED <<events, pending, status, deps, realization>>
      /\ UNCHANGED <<saved, ran, captured, mode>>
  BY KeptSession DEF Start
<1>3. /\ client' = "waiting" /\ phase' = FirstPhase(call'.method) /\ call'.method = Opening
      /\ call'.method = "initialize" => outcome' = "ready"
  BY DEF Start, Send
<1>4. Opening \notin Resuming
  BY DEF Opening, Resuming
<1>5. Known(ran, events)'
  BY <1>1, <1>2 DEF Known
<1>6. Places'
  BY <1>1, <1>2, <1>3, <1>4, <1>5, Sending
<1> QED
  BY <1>2, <1>6, SameSession DEF EpisodeInv

LEMMA AnswerStep == ASSUME EpisodeInv, Answer PROVE EpisodeInv'
<1>1. /\ phase = "reply" /\ client = "waiting" /\ Waiting /\ events \in Seq(Entry)
  BY DEF Answer, EpisodeInv, Places, Sound, Accounts
<1>2. /\ UNCHANGED <<events, pending, status, deps, realization>>
      /\ UNCHANGED <<ran, captured, mode, outcome>>
      /\ client' = "answered" /\ phase' = "idle" /\ saved' = Session
  BY KeptSession DEF Answer
<1>3. /\ SoundAt(Session) /\ Session.events = events /\ Session.pending = pending
      /\ Session # <<>>
  <2>1. SoundAt(Session) /\ Session.events = events /\ Session.pending = pending
    BY SessionIsSound DEF EpisodeInv
  <2> QED
    BY <2>1, SessionsAreNotEmpty DEF SoundAt
<1>4. SoundAt(saved)'
  BY <1>2, <1>3 DEF SoundAt, Sound, Progressed
<1>5. captured # <<>> =>
         /\ captured.at # <<>> /\ SoundAt(captured.at)' /\ captured.at.pending = NoRequest
         /\ Len(captured.at.events) <= Len(events) /\ Known(captured.ran, captured.at.events)
  <2>1. captured # <<>> =>
           /\ captured.at # <<>> /\ SoundAt(captured.at) /\ captured.at.pending = NoRequest
           /\ Len(captured.at.events) <= Len(saved.events)
           /\ Known(captured.ran, captured.at.events)
           /\ saved # <<>> /\ SoundAt(saved) /\ Len(saved.events) <= Len(events)
    BY DEF EpisodeInv, Snapshots
  <2>2. captured # <<>> => /\ Len(captured.at.events) \in Nat /\ Len(saved.events) \in Nat
                           /\ Len(events) \in Nat
    BY <1>1, <2>1, SoundSessions, NowIsSound
  <2>3. captured # <<>> => SoundAt(captured.at)'
    BY <1>2, <2>1 DEF SoundAt, Sound, Progressed
  <2> QED
    BY <2>1, <2>2, <2>3
<1>6. Len(events) <= Len(events)
  BY <1>1
<1>7. Snapshots'
  BY <1>1, <1>2, <1>3, <1>4, <1>5, <1>6 DEF Snapshots, Waiting
<1>8. Places'
  BY <1>1, <1>2, <1>3 DEF Places, Waiting, Holding, New
<1> QED
  BY <1>2, <1>7, <1>8, SameSession DEF EpisodeInv

LEMMA Leaving ==
    ASSUME EpisodeInv, client' = "closed", phase' = "idle",
           UNCHANGED <<events, pending, status, deps, realization, saved, ran, captured, mode>>
    PROVE  EpisodeInv'
BY SameSession DEF EpisodeInv, Places

LEMMA RetryStep == ASSUME EpisodeInv, Retry PROVE EpisodeInv'
<1> DEFINE s == IF saved = <<>> THEN Fresh ELSE saved
<1>1. Waiting /\ Snapshots
  BY DEF Retry, EpisodeInv, Places
<1>2. /\ UNCHANGED <<saved, ran, captured, mode, outcome>>
      /\ client' = "waiting" /\ phase' = FirstPhase(call'.method) /\ call'.method = call.method
      /\ events' = s.events /\ pending' = s.pending /\ status' = s.status /\ deps' = s.deps
      /\ realization' = s.realization
  <2>1. call'.method = call.method
    BY DEF Retry
  <2>2. Install(s) /\ client = "waiting"
    BY DEF Retry
  <2> QED
    BY <2>1, <2>2 DEF Retry, Install
<1>3. SoundAt(s) /\ Known(ran, s.events)
  <2>1. CASE saved = <<>>
    <3>1. ran = <<>>
      BY <1>1, <2>1 DEF Snapshots
    <3> QED
      BY <2>1, <3>1, FreshIsSound DEF Known
  <2>2. CASE saved # <<>>
    BY <1>1, <2>2 DEF Snapshots
  <2> QED
    BY <2>1, <2>2
<1>4. saved = <<>> => s.pending = NoRequest
  BY DEF Fresh
<1>5. saved # <<>> => s = saved
  OBVIOUS
<1> HIDE DEF s
<1>6. Sound(events, pending, status, deps, realization)'
  BY <1>2, <1>3 DEF SoundAt, Sound, Progressed
<1>7. events' \in Seq(Entry) /\ Len(events') <= Len(events')
  <2>1. events' \in Seq(Entry)
    BY <1>2, <1>3 DEF SoundAt, Sound, Accounts
  <2> QED
    BY <2>1
<1>8. Snapshots'
  BY <1>1, <1>2, <1>5, <1>7 DEF Snapshots, SoundAt, Sound, Progressed
<1>9. Places'
  BY <1>1, <1>2, <1>3, <1>4, <1>5, <1>7, Sending DEF Waiting
<1> QED
  BY <1>6, <1>8, <1>9 DEF EpisodeInv

LEMMA RunningStep ==
    ASSUME EpisodeInv, client = "answered", outcome = "terminal_request",
           client' = "executing", phase' = phase, ran' = Append(ran, saved.pending.id),
           UNCHANGED <<events, pending, status, deps, realization, saved, captured, mode>>
    PROVE  EpisodeInv'
<1>1. /\ Holding /\ pending # NoRequest /\ New(pending.id) /\ saved.pending = pending
      /\ saved # <<>> /\ saved.events = events /\ phase = "idle"
  BY DEF EpisodeInv, Places, Holding
<1>2. Known(ran, events) /\ pending.id \in Commands(events) /\ events \in Seq(Entry)
  BY <1>1 DEF EpisodeInv, Snapshots, Sound, Accounts
<1>3. pending.id \in Nat /\ ran \in Seq(Nat)
  BY <1>2 DEF Commands, Known
<1>4. /\ Len(ran) \in Nat /\ DOMAIN ran = 1..Len(ran) /\ DOMAIN ran' = 1..(Len(ran) + 1)
      /\ \A i \in 1..Len(ran) : ran'[i] = ran[i]
      /\ ran'[Len(ran) + 1] = pending.id /\ ran' \in Seq(Nat)
  BY <1>1, <1>3, Appending
<1>5. Known(ran', events)
  <2>1. \A i, j \in DOMAIN ran' : ran'[i] = ran'[j] => i = j
    <3> SUFFICES ASSUME NEW i \in DOMAIN ran', NEW j \in DOMAIN ran', ran'[i] = ran'[j]
                 PROVE  i = j
      OBVIOUS
    <3>1. CASE i \in DOMAIN ran /\ j \in DOMAIN ran
      BY <1>2, <1>4, <3>1 DEF Known
    <3>2. CASE i \notin DOMAIN ran \/ j \notin DOMAIN ran
      BY <1>1, <1>4, <3>2 DEF New
    <3> QED
      BY <3>1, <3>2
  <2>2. \A i \in DOMAIN ran' : ran'[i] \in Commands(events)
    BY <1>2, <1>4 DEF Known
  <2> QED
    BY <1>4, <2>1, <2>2 DEF Known
<1>6. Snapshots'
  BY <1>1, <1>5 DEF EpisodeInv, Snapshots, SoundAt, Sound, Progressed
<1>7. Places'
  BY <1>1 DEF Places, Holding
<1> QED
  BY <1>6, <1>7, SameSession DEF EpisodeInv

\* The next request after an answer that asks for no command, or after the command.
LEMMA NextRequest ==
    ASSUME EpisodeInv, client \in {"answered", "executing", "done"}, NEW method, NEW kind,
           Send(method, kind),
           method \in {"prepare_boundary", "advance", "advance_one", "finalize_now",
                       "verifier_rejection"} \cup Resuming,
           method \in Resuming <=> pending # NoRequest,
           UNCHANGED <<events, pending, status, deps, realization, saved, ran, mode>>,
           \/ captured' = captured
           \/ pending = NoRequest /\ captured' = [at |-> saved, ran |-> ran]
    PROVE  EpisodeInv'
<1>1. /\ Holding /\ saved # <<>> /\ saved.events = events /\ saved.pending = pending
      /\ SoundAt(saved) /\ Known(ran, saved.events) /\ events \in Seq(Entry)
  BY DEF EpisodeInv, Places, Holding, Snapshots, Sound, Accounts
<1>2. /\ client' = "waiting" /\ call'.method = method /\ phase' = FirstPhase(call'.method)
      /\ method # "initialize"
  BY DEF Send, Resuming
<1>3. Places'
  BY <1>1, <1>2, Sending
<1>4. CASE captured' = captured
  BY <1>3, <1>4, SameSession DEF EpisodeInv
<1>5. CASE pending = NoRequest /\ captured' = [at |-> saved, ran |-> ran]
  <2>1. SoundAt(saved)'
    BY <1>1 DEF SoundAt, Sound, Progressed
  <2>2. Len(events) <= Len(events)
    BY <1>1
  <2>3. captured'.at = saved /\ captured'.ran = ran
    BY <1>5
  <2>4. Snapshots'
    BY <1>1, <1>5, <2>1, <2>2, <2>3 DEF Snapshots, SoundAt, Sound, Progressed
  <2> QED
    BY <1>3, <2>4, SameSession DEF EpisodeInv
<1> QED
  BY <1>4, <1>5

LEMMA DriveStep == ASSUME EpisodeInv, Drive PROVE EpisodeInv'
<1>1. /\ client = "answered" /\ driver = "rollout" /\ driver' = driver
      /\ UNCHANGED <<events, pending, status, deps, realization>>
      /\ UNCHANGED <<saved, captured, mode>>
  BY KeptSession DEF Drive
<1>2. Holding
  BY <1>1 DEF EpisodeInv, Places
<1>3. CASE /\ outcome = "terminal_request" /\ client' = "executing"
           /\ ran' = Append(ran, saved.pending.id) /\ UNCHANGED <<call, phase, outcome>>
  BY <1>1, <1>3, RunningStep
<1>4. CASE outcome = "continue" /\ Send("advance", "none") /\ UNCHANGED ran
  BY <1>1, <1>2, <1>4, NextRequest DEF Holding, Resuming
<1>5. CASE outcome = "completed" /\ client' = "done" /\ UNCHANGED <<call, phase, outcome, ran>>
  <2>1. pending = NoRequest
    BY <1>1, <1>2, <1>5 DEF Holding
  <2>2. Places'
    BY <1>1, <1>2, <1>5, <2>1 DEF EpisodeInv, Places, Holding
  <2> QED
    BY <1>1, <1>5, <2>2, SameSession DEF EpisodeInv
<1> QED
  BY <1>3, <1>4, <1>5 DEF Drive

LEMMA NodewiseLeaps == ASSUME EpisodeInv, Nodewise PROVE EpisodeInv'
<1>1. /\ client = "answered" /\ driver = "nodewise" /\ driver' = driver
      /\ UNCHANGED <<events, pending, status, deps, realization>>
      /\ UNCHANGED <<saved, mode>>
  BY KeptSession DEF Nodewise
<1>2. Holding /\ phase = "idle"
  BY <1>1 DEF EpisodeInv, Places
<1>3. outcome # "terminal_request" => pending = NoRequest
  BY <1>1, <1>2 DEF Holding
<1>4. CASE NodewiseStep
  <2>1. CASE /\ outcome = "terminal_request" /\ client' = "executing"
             /\ ran' = Append(ran, saved.pending.id)
             /\ UNCHANGED <<call, phase, outcome, readouts, captured>>
    BY <1>1, <2>1, RunningStep
  <2>2. CASE /\ outcome # "terminal_request" /\ call.method = "initialize"
             /\ Send("prepare_boundary", "none") /\ UNCHANGED <<ran, readouts, captured>>
    BY <1>1, <1>3, <2>2, NextRequest DEF Resuming
  <2>3. CASE /\ outcome # "terminal_request" /\ call.method = "prepare_boundary"
             /\ Send("advance_one", "none") /\ UNCHANGED <<ran, readouts, captured>>
    BY <1>1, <1>3, <2>3, NextRequest DEF Resuming
  <2>4. CASE outcome # "terminal_request" /\ NextReadout
    <3>1. /\ Send("finalize_now", "none") /\ UNCHANGED ran
          /\ captured' = captured \/ captured' = [at |-> saved, ran |-> ran]
      BY <2>4 DEF NextReadout
    <3> QED
      BY <1>1, <1>3, <2>4, <3>1, NextRequest DEF Resuming
  <2> QED
    BY <1>4, <2>1, <2>2, <2>3, <2>4 DEF NodewiseStep
<1>5. CASE NodewiseEnds
  <2>1. client' = "done" /\ UNCHANGED <<phase, ran, captured>>
    BY <1>5 DEF NodewiseEnds
  <2>2. Places'
    BY <1>1, <1>2, <2>1 DEF EpisodeInv, Places, Holding
  <2> QED
    BY <1>1, <2>1, <2>2, SameSession DEF EpisodeInv
<1> QED
  BY <1>4, <1>5 DEF Nodewise

LEMMA FromCheckpointStep == ASSUME EpisodeInv, FromCheckpoint PROVE EpisodeInv'
<1>1. /\ captured # <<>> /\ captured' = captured /\ mode' = mode /\ driver' = driver
      /\ driver = "nodewise"
      /\ saved' = captured.at /\ ran' = captured.ran
      /\ events' = captured.at.events /\ pending' = captured.at.pending
      /\ status' = captured.at.status /\ deps' = captured.at.deps
      /\ realization' = captured.at.realization
  BY DEF FromCheckpoint, Install
<1>2. /\ captured.at # <<>> /\ SoundAt(captured.at) /\ captured.at.pending = NoRequest
      /\ Known(captured.ran, captured.at.events) /\ captured.at.events \in Seq(Entry)
  BY <1>1 DEF EpisodeInv, Snapshots, SoundAt, Sound, Accounts
<1>3. SoundAt(captured.at)'
  BY <1>1, <1>2 DEF SoundAt, Sound, Progressed
<1>4. Sound(events, pending, status, deps, realization)'
  BY <1>1, <1>2 DEF SoundAt, Sound, Progressed
<1>5. Len(captured.at.events) <= Len(captured.at.events)
  BY <1>2
<1>6. Snapshots'
  BY <1>1, <1>2, <1>3, <1>5 DEF Snapshots
<1>7. CASE client = "done"
  <2>1. /\ client' = "waiting" /\ call'.method = "prepare_boundary"
        /\ phase' = FirstPhase(call'.method)
    BY <1>7 DEF FromCheckpoint, Send
  <2>2. Places'
    BY <1>1, <1>2, <2>1, Sending DEF Resuming
  <2> QED
    BY <1>4, <1>6, <2>2 DEF EpisodeInv
<1>8. CASE client = "closed"
  <2>1. client' = "answered" /\ outcome' = "ready" /\ phase' = "idle"
    BY <1>8 DEF FromCheckpoint
  <2>2. \A i \in DOMAIN captured.ran : captured.ran[i] # 0
    BY <1>2, KnownOlder
  <2>3. Places'
    BY <1>1, <1>2, <2>1, <2>2, NothingAsked DEF Places, Holding, New
  <2> QED
    BY <1>4, <1>6, <2>3 DEF EpisodeInv
<1> QED
  BY <1>7, <1>8 DEF FromCheckpoint

LEMMA CommandEndsStep == ASSUME EpisodeInv, CommandEnds PROVE EpisodeInv'
<1>1. /\ client = "executing" /\ pending # NoRequest
      /\ UNCHANGED <<events, pending, status, deps, realization>>
      /\ UNCHANGED <<saved, ran, captured, mode>>
  BY KeptSession DEF CommandEnds, EpisodeInv, Places, Holding
<1>2. PICK method \in Resuming : Send(method, saved.pending.kind)
  BY DEF CommandEnds, Resuming
<1> QED
  BY <1>1, <1>2, NextRequest

LEMMA RejectStep == ASSUME EpisodeInv, Reject PROVE EpisodeInv'
<1>1. /\ client = "done" /\ driver = "rollout" /\ pending = NoRequest
      /\ UNCHANGED <<events, pending, status, deps, realization>>
      /\ UNCHANGED <<saved, ran, captured, mode>> /\ Send("verifier_rejection", "none")
  BY KeptSession DEF Reject, EpisodeInv, Places, Holding
<1> QED
  BY <1>1, NextRequest DEF Resuming

LEMMA ExpireStep == ASSUME EpisodeInv, Expire PROVE EpisodeInv'
<1>1. /\ UNCHANGED <<events, pending, status, deps, realization>>
      /\ UNCHANGED <<saved, ran, captured, mode, phase, outcome, client, call, driver>>
  BY KeptSession DEF Expire
<1>2. Places'
  BY <1>1 DEF EpisodeInv, Places, Waiting, Holding, New
<1> QED
  BY <1>1, <1>2, SameSession DEF EpisodeInv

LEMMA DeadlineStep == ASSUME EpisodeInv, Deadline PROVE EpisodeInv'
<1>1. /\ client' = "ended" /\ phase' = "idle" /\ UNCHANGED <<ran, captured, mode>>
  BY DEF Deadline
<1>2. Places'
  BY <1>1 DEF Places
<1>3. CASE UNCHANGED <<session, saved>>
  BY <1>1, <1>2, <1>3, KeptSession, SameSession DEF EpisodeInv
<1>4. CASE saved # <<>> /\ Install(AtDeadline(saved)) /\ saved' = AtDeadline(saved)
  <2> DEFINE t == AtDeadline(saved)
  <2>1. /\ SoundAt(saved) /\ Known(ran, saved.events)
        /\ captured # <<>> =>
             /\ captured.at # <<>> /\ SoundAt(captured.at) /\ captured.at.pending = NoRequest
             /\ Len(captured.at.events) <= Len(saved.events)
             /\ Known(captured.ran, captured.at.events)
    BY <1>4 DEF EpisodeInv, Snapshots
  <2>2. /\ SoundAt(t) /\ t.pending = NoRequest /\ Len(saved.events) <= Len(t.events)
        /\ \A i \in DOMAIN saved.events : i \in DOMAIN t.events /\ t.events[i] = saved.events[i]
    BY <2>1, DeadlineIsSound
  <2>3. Known(ran, t.events)
    BY <2>1, <2>2, KnownLonger
  <2>4. t # <<>>
    BY <2>2, SessionsAreNotEmpty DEF SoundAt
  <2>5. /\ saved' = t /\ events' = t.events /\ pending' = t.pending /\ status' = t.status
        /\ deps' = t.deps /\ realization' = t.realization
    BY <1>4 DEF Install
  <2> HIDE DEF t
  <2>6. Sound(events, pending, status, deps, realization)' /\ SoundAt(saved)'
    BY <1>1, <2>2, <2>5 DEF SoundAt, Sound, Progressed
  <2>7. /\ Len(t.events) \in Nat /\ Len(saved.events) \in Nat
        /\ captured # <<>> => Len(captured.at.events) \in Nat
    BY <2>1, <2>2, SoundSessions
  <2>8. captured # <<>> => Len(captured.at.events) <= Len(t.events)
    BY <2>1, <2>2, <2>7
  <2>9. captured # <<>> => SoundAt(captured.at)'
    BY <1>1, <2>1 DEF SoundAt, Sound, Progressed
  <2>10. Snapshots'
    BY <1>1, <2>1, <2>3, <2>4, <2>5, <2>6, <2>7, <2>8, <2>9 DEF Snapshots
  <2> QED
    BY <1>2, <2>6, <2>10 DEF EpisodeInv
<1> QED
  BY <1>3, <1>4 DEF Deadline

-----------------------------------------------------------------------------
(* The invariant and the three properties.                                 *)

LEMMA EpisodeStarts == ASSUME EpisodeInit PROVE EpisodeInv
<1>1. /\ events = <<>> /\ pending = NoRequest /\ status = Fresh.status /\ deps = Fresh.deps
      /\ realization = Fresh.realization /\ saved = <<>> /\ ran = <<>> /\ captured = <<>>
      /\ client = "fresh" /\ phase = "idle"
  BY DEF EpisodeInit, Fresh
<1>2. Sound(events, pending, status, deps, realization)
  <2>1. Fresh.events = <<>> /\ Fresh.pending = NoRequest
    BY DEF Fresh
  <2> QED
    BY <1>1, <2>1, FreshIsSound DEF SoundAt
<1>3. Snapshots /\ Places
  BY <1>1 DEF Snapshots, Places
<1> QED
  BY <1>2, <1>3 DEF EpisodeInv

LEMMA EpisodeContinues == ASSUME EpisodeInv, [EpisodeNext]_episodeVars PROVE EpisodeInv'
<1>1. CASE Process
  <2>1. CASE \E new \in {{}} \cup {{r} : r \in {q \in Reqs : req[q].state = "absent"}},
                owner \in Org!Present : Project(new, owner)
    BY <2>1, ProjectStep
  <2>2. CASE Refuse
    <3>1. UNCHANGED <<events, pending, status, deps, realization, saved, ran, captured, mode>>
      BY <2>2, KeptSession DEF Refuse
    <3> QED
      BY <2>2, <3>1, Leaving DEF Refuse
  <2> QED
    BY <1>1, <2>1, <2>2, DecideStep, NothingToDecideStep, AcceptResultStep, ApplyResultStep,
       ReopenStep, PreparedStep, AnswerStep DEF Process
<1>2. CASE Client
  <2>1. CASE GiveUp
    <3>1. UNCHANGED <<events, pending, status, deps, realization, saved, ran, captured, mode>>
      BY <2>1, KeptSession DEF GiveUp
    <3> QED
      BY <2>1, <3>1, Leaving DEF GiveUp
  <2> QED
    BY <1>2, <2>1, StartStep, RetryStep, DriveStep, NodewiseLeaps, FromCheckpointStep,
       CommandEndsStep, RejectStep DEF Client
<1>3. CASE UNCHANGED episodeVars
  <2>1. /\ UNCHANGED <<events, pending, status, deps, realization>>
        /\ UNCHANGED <<saved, ran, captured, mode, phase, outcome, client, call, driver>>
    BY <1>3, KeptSession DEF episodeVars, rpc
  <2>2. Places'
    BY <2>1 DEF EpisodeInv, Places, Waiting, Holding, New
  <2> QED
    BY <2>1, <2>2, SameSession DEF EpisodeInv
<1> QED
  BY <1>1, <1>2, <1>3, ExpireStep, DeadlineStep DEF EpisodeNext

\* Every session the client can come back to tells the truth about its commands,
\* newborns, rejections and returns, and what waits fits what was asked
\* (RoyLHTBSession.snapshot and restore, RoyHarborAgent.request).
THEOREM EpisodeInvariance == EpisodeSpec => []EpisodeInv
<1>1. EpisodeInit => EpisodeInv
  BY EpisodeStarts
<1>2. EpisodeInv /\ [EpisodeNext]_episodeVars => EpisodeInv'
  BY EpisodeContinues
<1> QED
  BY <1>1, <1>2, PTL DEF EpisodeSpec

\* The client's snapshot has exactly one account of every command it gave to the
\* environment, and gave none twice, however often processes are killed and
\* restored (RoyLHTBSession.acceptTerminalResult, finalizeAtRolloutDeadline).
THEOREM CommandsAreAccounted == EpisodeSpec => []EveryCommandIsAccountedOnce
<1>1. ASSUME EpisodeInv PROVE EveryCommandIsAccountedOnce
  <2>1. /\ ran # <<>> => /\ saved # <<>> /\ Accounts(saved.events, saved.pending)
                         /\ Known(ran, saved.events)
    BY <1>1 DEF EpisodeInv, Snapshots, SoundAt, Sound
  <2>2. \A i, j \in DOMAIN ran : ran[i] = ran[j] => i = j
    BY <2>1 DEF Known
  <2>3. ASSUME NEW i \in DOMAIN ran
        PROVE  Cardinality(Mentions(saved, {"result", "interrupted"}, ran[i]))
               + (IF saved.pending.id = ran[i] THEN 1 ELSE 0) = 1
    <3> DEFINE M == Mentions(saved, {"result", "interrupted"}, ran[i])
    <3>1. /\ Accounts(saved.events, saved.pending) /\ ran[i] \in Commands(saved.events)
      BY <2>1, <2>3 DEF Known
    <3>2. \A k : k \in M <=> /\ k \in DOMAIN saved.events /\ saved.events[k].kind \in Settling
                             /\ saved.events[k].of = ran[i]
      BY DEF Mentions, Settling
    <3> HIDE DEF M
    <3>3. CASE saved.pending.id = ran[i]
      <4>1. M = {}
        BY <3>1, <3>2, <3>3 DEF Accounts
      <4> QED
        BY <3>3, <4>1, FS_EmptySet DEF M
    <3>4. CASE saved.pending.id # ran[i]
      <4>1. PICK k \in M : TRUE
        BY <3>1, <3>2, <3>4 DEF Accounts
      <4>2. \A l \in M : l = k
        BY <3>1, <3>2, <4>1 DEF Accounts
      <4>3. M = {k}
        BY <4>1, <4>2
      <4> QED
        BY <3>4, <4>3, FS_Singleton DEF M
    <3> QED
      BY <3>3, <3>4
  <2> QED
    BY <2>2, <2>3 DEF EveryCommandIsAccountedOnce
<1> QED
  BY <1>1, EpisodeInvariance, PTL

\* What the verifier refused is submitted again only after a new result
\* (LHTBStructuralController.verifierRetryNeedsProgress).
THEOREM ResubmissionsHaveResults == EpisodeSpec => []NoIdleResubmission
<1>1. EpisodeInv => NoIdleResubmission
  BY DEF EpisodeInv, Sound, Progressed, NoIdleResubmission, Rejected
<1> QED
  BY <1>1, EpisodeInvariance, PTL

\* A child that must bring external information returns with a result of its own
\* (LHTBStructuralController.validateCandidates).
THEOREM ExternalChildrenReport == EpisodeSpec => []ExternalChildReportsItsOwn
<1>1. EpisodeInv => ExternalChildReportsItsOwn
  BY DEF EpisodeInv, Sound, Reported, ExternalChildReportsItsOwn, HasResult
<1> QED
  BY <1>1, EpisodeInvariance, PTL

\* The event a step adds is of the node that has the turn, or decides nothing.
KeepsTheTurns ==
    \/ Len(events') <= Len(events)
    \/ events'[Len(events')].kind \notin Deciding
    \/ events'[Len(events')].node = Context

LEMMA LogIsLast ==
    ASSUME EpisodeInv, NEW e, e \in Entry, events' = Append(events, e)
    PROVE  events'[Len(events')] = e
BY Appending DEF EpisodeInv, Sound, Accounts

LEMMA TurnsAreTaken == ASSUME EpisodeInv, [EpisodeNext]_episodeVars PROVE KeepsTheTurns
<1>1. ASSUME NEW n \in Nodes, NEW kind, May(n, kind), NEW peer \in Nodes \cup {NoNode},
             NEW what \in Deciding, Log(what, n, peer)
      PROVE  KeepsTheTurns
  <2> DEFINE e == Event(what, n, peer, 0)
  <2>1. e \in Entry /\ e.node = n
    BY DEF Event, Entry, Kinds, Deciding
  <2>2. n = Context /\ events' = Append(events, e)
    BY <1>1 DEF May, Log
  <2> QED
    BY <2>1, <2>2, LogIsLast DEF KeepsTheTurns
<1>2. ASSUME NEW e \in Entry, events' = Append(events, e), e.kind \notin Deciding
      PROVE  KeepsTheTurns
  BY <1>2, LogIsLast DEF KeepsTheTurns
<1>3. ASSUME UNCHANGED events PROVE KeepsTheTurns
  BY <1>3 DEF KeepsTheTurns, EpisodeInv, Sound, Accounts
<1>4. CASE Decide
  <2>1. Org!Actors \subseteq Nodes
    BY DEF Org!Actors
  <2>2. {"command", "derive", "reuse", "prune", "return", "stop"} \subseteq Deciding
    BY DEF Deciding
  <2>3. ASSUME NEW n \in Nodes, NEW kind, RequestTerminal(n, kind) PROVE KeepsTheTurns
    BY <1>1, <2>2, <2>3 DEF RequestTerminal
  <2>4. ASSUME NEW n \in Nodes, NEW c \in Nodes, NEW r, NEW wants, NEW how,
               Derive(n, c, r, wants, how)
        PROVE  KeepsTheTurns
    BY <1>1, <2>2, <2>4 DEF Derive
  <2>5. ASSUME NEW n \in Nodes, NEW to \in Nodes, NEW r, Reuse(n, to, r) PROVE KeepsTheTurns
    BY <1>1, <2>2, <2>5 DEF Reuse
  <2>6. ASSUME NEW n \in Nodes, NEW t \in Nodes, Prune(n, t) PROVE KeepsTheTurns
    BY <1>1, <2>2, <2>6 DEF Prune
  <2>7. ASSUME NEW n \in Nodes, NEW new, NEW resolvesGap, Return(n, new, resolvesGap)
        PROVE  KeepsTheTurns
    BY <1>1, <2>2, <2>7 DEF Return
  <2>8. ASSUME NEW n \in Nodes, StopOrganization(n) PROVE KeepsTheTurns
    BY <1>1, <2>2, <2>8 DEF StopOrganization
  <2> QED
    BY <1>4, <2>1, <2>3, <2>4, <2>5, <2>6, <2>7, <2>8 DEF Decide
<1>5. CASE AcceptResult
  <2>1. pending \in Ask
    BY DEF EpisodeInv, Sound, Accounts
  <2>2. LET e == Event("result", pending.node, NoNode, pending.id)
        IN  e \in Entry /\ e.kind \notin Deciding /\ events' = Append(events, e)
    BY <1>5, <2>1 DEF AcceptResult, Event, Entry, Kinds, Ask, Deciding
  <2> QED
    BY <1>2, <2>2
<1>6. CASE ApplyResult
  <2>1. saved.pending \in Ask
    <3>1. phase = "apply" /\ client = "waiting" /\ saved # <<>>
      BY <1>6 DEF ApplyResult, EpisodeInv, Places, Waiting
    <3> QED
      BY <3>1, SoundSessions DEF EpisodeInv, Snapshots
  <2>2. LET e == Event("act", saved.pending.node, NoNode, 0)
        IN  e \in Entry /\ e.kind \notin Deciding /\ events' = Append(events, e)
    BY <1>6, <2>1 DEF ApplyResult, Log, Event, Entry, Kinds, Ask, Deciding
  <2> QED
    BY <1>2, <2>2
<1>7. CASE Reopen
  <2>1. LET e == Event("rejected", NoNode, NoNode, 0)
        IN  e \in Entry /\ e.kind \notin Deciding /\ events' = Append(events, e)
    BY <1>7 DEF Reopen, Log, Event, Entry, Kinds, Deciding
  <2> QED
    BY <1>2, <2>1
<1>8. CASE Retry
  <2> DEFINE s == IF saved = <<>> THEN Fresh ELSE saved
  <2>1. events' = s.events
    BY <1>8 DEF Retry, Install
  <2>2. saved = <<>> => s.events = <<>>
    BY DEF Fresh
  <2>3. events \in Seq(Entry)
    BY DEF EpisodeInv, Sound, Accounts
  <2> QED
    BY <2>1, <2>2, <2>3 DEF KeepsTheTurns, EpisodeInv, Snapshots
<1>9. CASE FromCheckpoint
  <2>1. /\ captured # <<>> /\ events' = captured.at.events
        /\ Len(captured.at.events) <= Len(saved.events) /\ Len(saved.events) <= Len(events)
        /\ SoundAt(captured.at) /\ SoundAt(saved)
    BY <1>9 DEF FromCheckpoint, Install, EpisodeInv, Snapshots
  <2>2. Len(captured.at.events) \in Nat /\ Len(saved.events) \in Nat /\ Len(events) \in Nat
    BY <2>1, SoundSessions, NowIsSound
  <2> QED
    BY <2>1, <2>2 DEF KeepsTheTurns
<1>10. CASE Deadline
  <2>1. CASE UNCHANGED session
    BY <1>3, <2>1, KeptSession
  <2>2. CASE saved # <<>> /\ Install(AtDeadline(saved))
    <3>1. SoundAt(saved)
      BY <2>2 DEF EpisodeInv, Snapshots
    <3>2. events' = AtDeadline(saved).events
      BY <2>2 DEF Install
    <3>3. events'[Len(events')].kind = "deadline"
      BY <3>1, <3>2, DeadlineIsSound
    <3> QED
      BY <3>3 DEF KeepsTheTurns, Deciding
  <2> QED
    BY <1>10, <2>1, <2>2 DEF Deadline
<1>11. CASE \/ NothingToDecide \/ Prepared \/ Answer \/ Refuse \/ Start \/ GiveUp \/ Drive \/ Nodewise
            \/ CommandEnds \/ Reject \/ Expire \/ UNCHANGED episodeVars
  <2>1. UNCHANGED session
    BY <1>11 DEF NothingToDecide, Prepared, Answer, Refuse, Start, GiveUp, Drive, Nodewise,
       CommandEnds, Reject, Expire, episodeVars
  <2> QED
    BY <1>3, <2>1, KeptSession
<1>12. ASSUME NEW new, NEW owner, Project(new, owner) PROVE KeepsTheTurns
  BY <1>3, <1>12 DEF Project
<1> QED
  BY <1>4, <1>5, <1>6, <1>7, <1>8, <1>9, <1>10, <1>11, <1>12 DEF EpisodeNext, Process, Client

\* A node that derived a child with nobody to wait for decides nothing more
\* before the child has acted (scheduledOrganizationContextNode).
THEOREM NewbornsActFirst == EpisodeSpec => NewbornActsFirst
<1>1. ASSUME EpisodeInv, [EpisodeNext]_episodeVars, NEW i \in DOMAIN events,
             \A e \in deps : e.consumer # events[i].peer, ParentGoesOn(i)
      PROVE  FALSE
  <2>1. /\ Outstanding(events, deps, i) /\ Len(events') > Len(events)
        /\ events'[Len(events')].kind \in Deciding
        /\ events'[Len(events')].node = events[i].node
    BY <1>1 DEF ParentGoesOn, Outstanding
  <2>2. Context = events[i].peer /\ events[i].peer # events[i].node
    BY <1>1, <2>1, ContextIsNewborn DEF EpisodeInv, Sound, Newborns
  <2>3. events \in Seq(Entry)
    BY <1>1 DEF EpisodeInv, Sound, Accounts
  <2>4. ~(Len(events') <= Len(events))
    <3>1. EpisodeInv'
      BY <1>1, EpisodeContinues
    <3>2. Len(events') \in Nat /\ Len(events) \in Nat
      BY <2>3, <3>1 DEF EpisodeInv, Sound, Accounts
    <3> QED
      BY <2>1, <3>2
  <2> QED
    BY <1>1, <2>1, <2>2, <2>4, TurnsAreTaken DEF KeepsTheTurns
<1>2. EpisodeInv /\ [EpisodeNext]_episodeVars =>
         [\A i \in DOMAIN events :
             (\A e \in deps : e.consumer # events[i].peer) => ~ParentGoesOn(i)]_episodeVars
  BY <1>1
<1> QED
  BY <1>2, EpisodeInvariance, PTL DEF EpisodeSpec, NewbornActsFirst
=============================================================================
