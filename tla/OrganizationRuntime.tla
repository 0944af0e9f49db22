------------------------- MODULE OrganizationRuntime -------------------------
(***************************************************************************)
(* RecursiveInformationRealizationRuntime                                  *)
(* (src/core/structural/recursiveRuntime.ts): a tree of agent nodes grown  *)
(* from residual requirements, a dependency graph that blocks consumers    *)
(* until producers report an artifact, and communication links.  Every     *)
(* call is synchronous; the hazards lie in the order of the calls, in      *)
(* calls that throw after having written, and in what one record says      *)
(* about another.                                                          *)
(*                                                                         *)
(* Left out: the text of specifications and reports, and checks on that    *)
(* text alone (a call they refuse changes nothing), ACQUIRE (it stores an  *)
(* observation nothing below reads), timestamps, fingerprints, and         *)
(* snapshot/restore, which copy the state unchanged.                       *)
(***************************************************************************)
EXTENDS FiniteSets, Integers

CONSTANTS
    Nodes,          \* node identifiers
    Root,
    Reqs,           \* identifiers of residual requirements
    Artifacts,      \* claim, evidence and observation identifiers of reports
    OwnReport,      \* stands for `report:<producer>`, part of every report
    Awaited,        \* those of them that dependencies name
    Channels,       \* <<from, to>> pairs CONNECT is asked for
    Objective,      \* node -> normalised objective of its specification
    NoNode, NoReq,
    MaxDeps         \* bound on the number of dependency edges

ASSUME NamesAssumption ==
    /\ Root \in Nodes
    /\ NoNode \notin Nodes
    /\ NoReq \notin Reqs
    /\ OwnReport \notin Artifacts
    /\ Awaited \subseteq Artifacts \cup {OwnReport}
    /\ Channels \subseteq Nodes \X Nodes

ASSUME BoundAssumption == MaxDeps \in Nat

VARIABLES
    status,   \* node -> status; "absent" until the node is derived
    parent,   \* node -> the node that derived it
    gap,      \* node -> its triggeringGapId
    held,     \* node -> its assignedRequirementIds
    req,      \* requirement -> status, parentNodeId, assignedNodeId
    deps,     \* dependency edges
    settled,  \* those of them that are resolved
    links,    \* active communication edges
    stopped

vars == <<status, parent, gap, held, req, deps, settled, links, stopped>>
tree == <<parent, gap>>

Statuses == {"absent", "ready", "running", "waiting", "returned", "completed", "pruned"}

\* What a requirement's status may be; the last four also in a report's text.
ReqStates == {"absent", "open", "assigned", "resolved", "rejected"}
Requirement == [state : ReqStates, owner : Nodes \cup {NoNode},
                assignee : Nodes \cup {NoNode}]

Edge == [producer : Nodes, consumer : Nodes, artifact : Awaited]
Link == [from : Nodes, to : Nodes, required : BOOLEAN]

Present == {n \in Nodes : status[n] # "absent"}

\* apply() refuses an organization that stopped and an actor that left.
CanAct(n) == ~stopped /\ status[n] \notin {"absent", "pruned", "returned"}
Actors == {n \in Nodes : CanAct(n)}

Unsettled(n) == {e \in deps \ settled : e.consumer = n}

Closed(S) == \A e \in deps : e.producer \in S => e.consumer \in S

\* Fault: the search follows the edges backwards.
BackwardReachable(from, target) ==
    \A S \in SUBSET Nodes :
        from \in S /\ (\A e \in deps : e.consumer \in S => e.producer \in S) => target \in S

\* The worklist search of dependencyReachable, as what it computes: a node is
\* reached when no set closed under the edges parts it from the start.
DependencyReachable(from, target) ==
    \A S \in SUBSET Nodes : from \in S /\ Closed(S) => target \in S

-----------------------------------------------------------------------------
Init ==
    /\ status = [n \in Nodes |-> IF n = Root THEN "ready" ELSE "absent"]
    /\ parent = [n \in Nodes |-> NoNode]
    /\ gap = [n \in Nodes |-> NoReq]
    /\ held = [n \in Nodes |-> {}]
    /\ req = [r \in Reqs |-> [state |-> "absent", owner |-> NoNode, assignee |-> NoNode]]
    /\ deps = {}
    /\ settled = {}
    /\ links = {}
    /\ stopped = FALSE

Assign(r, n) == req' = [req EXCEPT ![r] = [@ EXCEPT !.state = "assigned", !.assignee = n]]

\* Fault: the owner may derive again what it has already handed on.
OwnerMayDeriveAgain(p, r) == req[r].state \in {"open", "assigned"} /\ req[r].owner = p

\* The requirement DERIVE names: open and the actor's own, or passed to it
\* (the last disjunct reads assignments of old checkpoints).
MayDerive(p, r) ==
    \/ req[r].state = "open" /\ req[r].owner = p
    \/ /\ req[r].state = "assigned"
       /\ \/ req[r].assignee = p
          \/ req[r].assignee = NoNode /\ gap[p] = r

\* validLoadBalancingReview: the node to be doubled still has work.  Its text
\* names other requirement ids at will.
Occupied(n) == \E r \in (held[n] \cup {gap[n]}) \ {NoReq} : req[r].state \in {"open", "assigned"}
Twins(c) == {n \in Present : Objective[n] = Objective[c]}

\* What DERIVE writes before it adds the child's dependencies.
AddChild(p, c, r) ==
    /\ CanAct(p)
    /\ status[c] = "absent"
    /\ Twins(c) = {} \/ \E n \in Twins(c) : Occupied(n)
    /\ MayDerive(p, r)
    /\ Assign(r, c)
    /\ parent' = [parent EXCEPT ![c] = p]
    /\ gap' = [gap EXCEPT ![c] = r]
    /\ held' = [held EXCEPT ![c] = {r}]
    /\ UNCHANGED <<settled, links, stopped>>

\* The edges a specification asks for: a set of <<producer, artifact>>.
EdgesTo(c, wants) == {[producer |-> w[1], consumer |-> c, artifact |-> w[2]] : w \in wants}
Wants == SUBSET (Present \X Awaited)

\* DERIVE.  A fresh child has no consumers yet, so only a producer that is
\* unknown or the child itself can be refused, which is the next action.
Derive(p, c, r, wants) ==
    /\ AddChild(p, c, r)
    /\ deps' = deps \cup EdgesTo(c, wants)
    /\ Cardinality(deps') <= MaxDeps
    /\ status' = [status EXCEPT ![c] = IF wants = {} THEN "ready" ELSE "waiting"]

\* DERIVE whose addDependency throws on a later entry: the child, the
\* assignment and the edges already added stay, and nobody makes it wait.
DeriveRefused(p, c, r, wants) ==
    /\ AddChild(p, c, r)
    /\ deps' = deps \cup EdgesTo(c, wants)
    /\ Cardinality(deps') <= MaxDeps
    /\ status' = [status EXCEPT ![c] = "ready"]

AddLink(from, to, required) ==
    links' = IF \E l \in links : l.from = from /\ l.to = to
             THEN links
             ELSE links \cup {[from |-> from, to |-> to, required |-> required]}

\* CONNECT without a requirement: any two nodes, of any status.
Connect(a, from, to, required) ==
    /\ CanAct(a)
    /\ {from, to} \subseteq Present /\ from # to
    /\ AddLink(from, to, required)
    /\ UNCHANGED <<status, tree, held, req, deps, settled, stopped>>

\* CONNECT with a requirement: a live node is reused for an open requirement.
Reuse(a, to, r) ==
    /\ CanAct(a)
    /\ to \in Present \ {a}
    /\ req[r].state = "open" /\ req[r].owner = a
    /\ status[to] \notin {"returned", "pruned"}
    /\ Assign(r, to)
    /\ held' = [held EXCEPT ![to] = @ \cup {r}]
    /\ AddLink(a, to, TRUE)
    /\ UNCHANGED <<status, tree, deps, settled, stopped>>

\* EXECUTE without a report.
Execute(a) ==
    /\ CanAct(a)
    /\ status' = [status EXCEPT ![a] = "running"]
    /\ UNCHANGED <<tree, held, req, deps, settled, links, stopped>>

\* A report may raise new requirements, in whatever state its text gives; the
\* schema it is asked for names no assignee.
Raised(a, new) ==
    [r \in Reqs |-> IF r \in DOMAIN new
                    THEN [state |-> new[r], owner |-> a, assignee |-> NoNode]
                    ELSE req[r]]
Raisable(new) == \A r \in DOMAIN new : req[r].state = "absent"

\* The requirements a report closes: the one that triggered the node, those
\* its coverage lists, and the single one left with it.
ClosedBy(a, resolvesGap, covered) ==
    LET triggering == IF resolvesGap THEN {gap[a]} \ {NoReq} ELSE {}
        assigned == {r \in Reqs \ triggering : req[r].state = "assigned"
                                               /\ req[r].assignee = a}
    IN  triggering \cup {r \in assigned : r \in covered
                                          \/ (assigned = {r} /\ resolvesGap)}

\* Fault: consumers are looked at before the edges are marked.
WokenTooEarly(now) == {n \in Nodes : status[n] = "waiting" /\ Unsettled(n) = {}}

\* resolveArtifact: settle the producer's edges and wake those consumers that
\* wait and have no unsettled edge left.
Settling(a, artifacts) == {e \in deps : e.producer = a /\ e.artifact \in artifacts}
Woken(now) == {n \in Nodes : /\ status[n] = "waiting"
                             /\ \E e \in now : e.consumer = n
                             /\ Unsettled(n) \subseteq now}

\* recordReport, for EXECUTE (returning = FALSE) and RETURN: `artifacts` are
\* the ids of its claims, evidence and observations.
Report(a, returning, artifacts, new, resolvesGap, covered) ==
    LET now == Settling(a, artifacts \cup {OwnReport})
        own == CASE ~returning -> "ready"
                 [] returning /\ a = Root -> "completed"
                 [] returning /\ a # Root -> "returned"
    IN  /\ CanAct(a)
        /\ Raisable(new)
        /\ req' = [r \in Reqs |-> IF r \in ClosedBy(a, resolvesGap, covered)
                                  THEN [req[r] EXCEPT !.state = "resolved"]
                                  ELSE Raised(a, new)[r]]
        /\ settled' = settled \cup now
        /\ status' = [n \in Nodes |-> IF n = a THEN own
                                      ELSE IF n \in Woken(now) THEN "ready"
                                      ELSE status[n]]
        /\ UNCHANGED <<tree, held, deps, links, stopped>>

\* A report refused at a later requirement or observation: requirements before
\* it are stored, and EXECUTE has already set the actor running.
ReportRefused(a, returning, new) ==
    /\ CanAct(a)
    /\ Raisable(new)
    /\ req' = Raised(a, new)
    /\ status' = IF returning THEN status ELSE [status EXCEPT ![a] = "running"]
    /\ UNCHANGED <<tree, held, deps, settled, links, stopped>>

Children(n) == {c \in Nodes : parent[c] = n}

\* PRUNE of t by any node that may act.
Prune(a, t) ==
    /\ CanAct(a)
    /\ t \in Present \ {Root}
    /\ \A e \in deps \ settled : e.producer # t
    /\ \A c \in Children(t) : status[c] \in {"pruned", "returned", "completed"}
    /\ status' = [status EXCEPT ![t] = "pruned"]
    /\ links' = {l \in links : t \in {l.from, l.to} => l.required}
    /\ UNCHANGED <<tree, held, req, deps, settled, stopped>>

Stop ==
    /\ CanAct(Root)
    /\ deps = settled
    /\ stopped' = TRUE
    /\ status' = [status EXCEPT ![Root] = "completed"]
    /\ UNCHANGED <<tree, held, req, deps, settled, links>>

\* resumeAfterVerifierRejection of the session: the same organization reopens.
Resume ==
    /\ stopped' = FALSE
    /\ status' = IF status[Root] = "completed" THEN [status EXCEPT ![Root] = "ready"] ELSE status
    /\ UNCHANGED <<tree, held, req, deps, settled, links>>

\* addDependency, called from outside.
AddDependency(e) ==
    /\ {e.producer, e.consumer} \subseteq Present
    /\ e.producer # e.consumer
    /\ ~DependencyReachable(e.consumer, e.producer)
    /\ deps' = deps \cup {e}
    /\ Cardinality(deps') <= MaxDeps
    /\ UNCHANGED <<status, tree, held, req, settled, links, stopped>>

WaitForDependencies(n) ==
    /\ n \in Present
    /\ status' = [status EXCEPT ![n] = IF Unsettled(n) # {} THEN "waiting" ELSE "ready"]
    /\ UNCHANGED <<tree, held, req, deps, settled, links, stopped>>

\* ingestRequirement, as the session calls it: the requirement is open.
IngestRequirement(r, owner) ==
    /\ owner \in Present
    /\ req[r].state = "absent"
    /\ req' = [req EXCEPT ![r] = [state |-> "open", owner |-> owner, assignee |-> NoNode]]
    /\ UNCHANGED <<status, tree, held, deps, settled, links, stopped>>

\* Fault: a requirement is rejected whatever became of it.
SupersedeAnyway(r) ==
    /\ req[r].state # "absent"
    /\ req' = [req EXCEPT ![r].state = "rejected"]
    /\ UNCHANGED <<status, tree, held, deps, settled, links, stopped>>

SupersedeRequirement(r) ==
    /\ req[r].state = "open"
    /\ req' = [req EXCEPT ![r].state = "rejected"]
    /\ UNCHANGED <<status, tree, held, deps, settled, links, stopped>>

\* The reports tried: at most one new requirement, in any state its text may
\* give, and coverage of requirements the node was given.
NewRequirements ==
    {<<>>} \cup UNION {[{r} -> ReqStates \ {"absent"}] : r \in {q \in Reqs : req[q].state = "absent"}}
Coverages(a) == SUBSET {r \in Reqs : req[r].assignee = a}

\* waitForDependencies does not look at the status it overwrites; its callers
\* (DERIVE and the tests) name a node that is still at work.
Next ==
    \/ \E p \in Actors, c \in Nodes \ Present, r \in Reqs :
          \/ \E wants \in Wants : Derive(p, c, r, wants)
          \/ \E wants \in Wants : DeriveRefused(p, c, r, wants)
    \/ \E a \in Actors, ch \in Channels, required \in BOOLEAN :
          Connect(a, ch[1], ch[2], required)
    \/ \E ch \in Channels, r \in Reqs : Reuse(ch[1], ch[2], r)
    \/ \E a \in Actors :
          \/ Execute(a)
          \/ \E returning \in BOOLEAN, new \in NewRequirements :
                \/ ReportRefused(a, returning, new)
                \/ \E artifacts \in SUBSET Artifacts, resolvesGap \in BOOLEAN,
                      covered \in Coverages(a) :
                      Report(a, returning, artifacts, new, resolvesGap, covered)
          \/ \E t \in Nodes : Prune(a, t)
    \/ Stop
    \/ Resume
    \/ \E e \in Edge : AddDependency(e)
    \/ \E n \in Actors : WaitForDependencies(n)
    \/ \E r \in Reqs, n \in Nodes : IngestRequirement(r, n)
    \/ \E r \in Reqs : SupersedeRequirement(r)

Spec == Init /\ [][Next]_vars

-----------------------------------------------------------------------------
TypeOK ==
    /\ status \in [Nodes -> Statuses]
    /\ parent \in [Nodes -> Nodes \cup {NoNode}]
    /\ gap \in [Nodes -> Reqs \cup {NoReq}]
    /\ held \in [Nodes -> SUBSET Reqs]
    /\ req \in [Reqs -> Requirement]
    /\ deps \subseteq Edge
    /\ settled \subseteq deps
    /\ links \subseteq Link
    /\ stopped \in BOOLEAN

\* Whatever order DERIVE and addDependency add the edges in, no group of nodes
\* depends on itself in a circle: in every group some node has no producer
\* inside it, so those who wait do not all wait for each other.
NoCircularWait ==
    \A S \in (SUBSET Nodes) \ {{}} :
        \E n \in S : \A e \in deps : e.consumer = n => e.producer \notin S

\* A node waits only while one of its dependencies is unsettled: the report
\* that settles the last one, of whichever producer, wakes it.
NoLostWakeup == \A n \in Nodes : status[n] = "waiting" => Unsettled(n) # {}

\* In a tree of parents, a is n or one of the nodes n descends from.
Ancestor(up, a, n) ==
    \A S \in SUBSET Nodes :
        n \in S /\ (\A m \in S : up[m] \in S \cup {NoNode}) => a \in S

\* One branch of the tree works on a requirement: of two nodes derived from the
\* same one, one descends from the other, however often it was passed on,
\* reused or only half derived.
OneBranchPerGap ==
    \A m, n \in Nodes : gap[m] = gap[n] /\ gap[m] # NoReq =>
        Ancestor(parent, m, n) \/ Ancestor(parent, n, m)

\* A pruned node leaves no child behind that still works.
PrunedChildrenAreDone ==
    \A n \in Nodes : status[n] = "pruned" =>
        \A c \in Children(n) : status[c] \in {"pruned", "returned"}

\* A requirement that was resolved or superseded is never taken up again and
\* never changes its verdict, by whatever late report.
VerdictsAreFinal ==
    [][\A r \in Reqs : req[r].state \in {"resolved", "rejected"} => req'[r] = req[r]]_vars

\* "Agent reuse connections must be required" (recursiveRuntime.ts:275): a
\* requirement given to an existing node comes with a required connection.
ReuseIsConnected ==
    [][\A r \in Reqs :
          LET to == req'[r].assignee IN
          req[r].state = "open" /\ req'[r].state = "assigned" /\ to \in Present
          => [from |-> req[r].owner, to |-> to, required |-> TRUE] \in links']_vars
=============================================================================
