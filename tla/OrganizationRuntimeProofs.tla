---------------------- MODULE OrganizationRuntimeProofs ----------------------
(***************************************************************************)
(* What holds in every organization, of any number of nodes, requirements  *)
(* and artifacts, by an inductive invariant: the safety invariants of      *)
(* OrganizationRuntime, and three facts about what exists: edges join      *)
(* nodes that exist, the root is never a child, and a requirement that     *)
(* triggered a node stays assigned below that node until it is resolved.   *)
(***************************************************************************)
EXTENDS OrganizationRuntime, TLAPS

EdgesJoinPresent == \A e \in deps : {e.producer, e.consumer} \subseteq Present

RootStands ==
    /\ status[Root] \notin {"absent", "returned", "pruned"}
    /\ parent[Root] = NoNode
    /\ \A n \in Nodes \ {Root} : status[n] # "completed"

\* What a node that is not derived yet leaves untouched.
Unborn ==
    \A n \in Nodes :
        /\ status[n] = "absent" => parent[n] = NoNode /\ gap[n] = NoReq
        /\ parent[n] # NoNode => parent[n] \in Present

GapsHandedDown ==
    \A n \in Nodes : gap[n] # NoReq =>
        /\ req[gap[n]].state \in {"assigned", "resolved"}
        /\ req[gap[n]].state = "assigned" =>
              /\ req[gap[n]].assignee \in Nodes
              /\ Ancestor(parent, n, req[gap[n]].assignee)

Inv ==
    /\ TypeOK
    /\ EdgesJoinPresent
    /\ RootStands
    /\ Unborn
    /\ NoCircularWait
    /\ NoLostWakeup
    /\ PrunedChildrenAreDone
    /\ GapsHandedDown
    /\ OneBranchPerGap

-----------------------------------------------------------------------------
(***************************************************************************)
(* The steps, grouped by what they write.                                  *)
(***************************************************************************)

\* DERIVE, carried through or refused half-way.
Grow ==
    \E p, c \in Nodes, r \in Reqs, wants \in Wants :
        /\ AddChild(p, c, r)
        /\ deps' = deps \cup EdgesTo(c, wants)
        /\ \/ status' = [status EXCEPT ![c] = "ready"]
           \/ wants # {} /\ status' = [status EXCEPT ![c] = "waiting"]

\* A report that is recorded.
Reporting ==
    \E a \in Nodes, returning \in BOOLEAN, new \in NewRequirements,
       artifacts \in SUBSET Artifacts, resolvesGap \in BOOLEAN, covered \in SUBSET Reqs :
        Report(a, returning, artifacts, new, resolvesGap, covered)

\* Steps that change one node's status and nothing the tree is made of.
Moving ==
    \/ \E a \in Nodes : Execute(a)
    \/ \E a, t \in Nodes : Prune(a, t)
    \/ Stop
    \/ Resume
    \/ \E n \in Present : CanAct(n) /\ WaitForDependencies(n)

\* Steps on requirements and links alone, and refused reports.
Noting ==
    \/ \E a \in Nodes, ch \in Channels, required \in BOOLEAN :
          Connect(a, ch[1], ch[2], required)
    \/ \E ch \in Channels, r \in Reqs : Reuse(ch[1], ch[2], r)
    \/ \E a \in Nodes, returning \in BOOLEAN, new \in NewRequirements :
          ReportRefused(a, returning, new)
    \/ \E r \in Reqs, n \in Nodes : IngestRequirement(r, n)
    \/ \E r \in Reqs : SupersedeRequirement(r)

Depending == \E e \in Edge : AddDependency(e)

\* Every step is one of the five kinds.
LEMMA StepKinds == Next => Grow \/ Reporting \/ Moving \/ Noting \/ Depending
<1> SUFFICES ASSUME Next PROVE Grow \/ Reporting \/ Moving \/ Noting \/ Depending
    OBVIOUS
<1>1. ASSUME NEW p \in Nodes, NEW c \in Nodes, NEW r \in Reqs, NEW wants \in Wants,
             Derive(p, c, r, wants) \/ DeriveRefused(p, c, r, wants)
      PROVE  Grow
  <2>1. AddChild(p, c, r) /\ deps' = deps \cup EdgesTo(c, wants)
    BY <1>1 DEF Derive, DeriveRefused
  <2>2. \/ status' = [status EXCEPT ![c] = "ready"]
        \/ wants # {} /\ status' = [status EXCEPT ![c] = "waiting"]
    BY <1>1 DEF Derive, DeriveRefused
  <2> QED BY <2>1, <2>2 DEF Grow
<1>2. ASSUME NEW a \in Nodes, NEW returning \in BOOLEAN, NEW new \in NewRequirements,
             NEW artifacts \in SUBSET Artifacts, NEW resolvesGap \in BOOLEAN,
             NEW covered \in Coverages(a),
             Report(a, returning, artifacts, new, resolvesGap, covered)
      PROVE  Reporting
  <2>1. covered \in SUBSET Reqs BY DEF Coverages
  <2> QED BY <1>2, <2>1 DEF Reporting
<1>3. Actors \subseteq Present /\ \A n \in Actors : CanAct(n)
  BY DEF Actors, Present, CanAct
<1>4. Present \subseteq Nodes
  BY DEF Present
<1> QED BY <1>1, <1>2, <1>3, <1>4 DEF Next, Moving, Noting, Depending

\* The requirements a report raises are new ones.
LEMMA RaisedType ==
    ASSUME TypeOK, NEW a \in Nodes, NEW new \in NewRequirements, Raisable(new)
    PROVE  /\ Raised(a, new) \in [Reqs -> Requirement]
           /\ \A r \in Reqs : req[r].state # "absent" => Raised(a, new)[r] = req[r]
<1>1. \A r \in Reqs : req[r] \in Requirement BY DEF TypeOK
<1>2. \A r \in DOMAIN new : new[r] \in ReqStates
  <2>1. CASE new = <<>> BY <2>1
  <2>2. CASE new # <<>>
    <3>1. PICK r \in Reqs : new \in [{r} -> ReqStates \ {"absent"}] BY <2>2 DEF NewRequirements
    <3> QED BY <3>1
  <2> QED BY <2>1, <2>2
<1>3. ASSUME NEW r \in Reqs
      PROVE  /\ Raised(a, new)[r] \in Requirement
             /\ req[r].state # "absent" => Raised(a, new)[r] = req[r]
  BY <1>1, <1>2 DEF Raised, Raisable, Requirement
<1> QED BY <1>3 DEF Raised

\* Assigning writes one requirement, and of it the status and the assignee.
LEMMA AssignType ==
    ASSUME TypeOK, NEW r \in Reqs, NEW n \in Nodes, Assign(r, n)
    PROVE  /\ req' \in [Reqs -> Requirement]
           /\ req'[r].state = "assigned" /\ req'[r].assignee = n
           /\ \A q \in Reqs \ {r} : req'[q] = req[q]
<1>1. \A q \in Reqs : req[q] \in Requirement BY DEF TypeOK
<1>2. req' = [req EXCEPT ![r] = [req[r] EXCEPT !.state = "assigned", !.assignee = n]]
  BY DEF Assign
<1>3. \A q \in Requirement :
         LET s == [q EXCEPT !.state = "assigned", !.assignee = n]
         IN  s \in Requirement /\ s.state = "assigned" /\ s.assignee = n
  BY DEF Requirement, ReqStates
<1>4. DOMAIN req = Reqs BY DEF TypeOK
<1> HIDE DEF Requirement
<1> QED BY <1>1, <1>2, <1>3, <1>4 DEF TypeOK

\* The edges of a new child run from nodes that exist to the child.
LEMMA EdgesToType ==
    ASSUME NEW c \in Nodes, NEW wants \in Wants
    PROVE  /\ EdgesTo(c, wants) \subseteq Edge
           /\ \A e \in EdgesTo(c, wants) : e.producer \in Present /\ e.consumer = c
           /\ wants # {} => EdgesTo(c, wants) # {}
<1>1. ASSUME NEW w \in wants
      PROVE  LET e == [producer |-> w[1], consumer |-> c, artifact |-> w[2]]
             IN  e \in Edge /\ e.producer \in Present /\ e.consumer = c
  <2>1. w \in Present \X Awaited BY DEF Wants
  <2>2. w[1] \in Present /\ w[1] \in Nodes /\ w[2] \in Awaited
    BY <2>1 DEF Present
  <2> QED BY <2>2 DEF Edge
<1> QED BY <1>1 DEF EdgesTo

-----------------------------------------------------------------------------
\* Types.
LEMMA TypeStep == TypeOK /\ [Next]_vars => TypeOK'
<1> SUFFICES ASSUME TypeOK, [Next]_vars PROVE TypeOK'
    OBVIOUS
<1> USE NamesAssumption DEF TypeOK, Statuses, tree
<1>1. ASSUME Grow PROVE TypeOK'
  <2>1. PICK p \in Nodes, c \in Nodes, r \in Reqs, wants \in Wants :
          /\ AddChild(p, c, r)
          /\ deps' = deps \cup EdgesTo(c, wants)
          /\ \/ status' = [status EXCEPT ![c] = "ready"]
             \/ status' = [status EXCEPT ![c] = "waiting"]
    BY <1>1 DEF Grow
  <2>2. EdgesTo(c, wants) \subseteq Edge BY EdgesToType
  <2>3. req' \in [Reqs -> Requirement] BY <2>1, AssignType DEF AddChild
  <2>4. status' \in [Nodes -> Statuses] BY <2>1
  <2>5. parent' \in [Nodes -> Nodes \cup {NoNode}] /\ gap' \in [Nodes -> Reqs \cup {NoReq}]
    BY <2>1 DEF AddChild
  <2>6. held' \in [Nodes -> SUBSET Reqs] BY <2>1 DEF AddChild
  <2>7. deps' \subseteq Edge /\ settled' \subseteq deps' BY <2>1, <2>2 DEF AddChild
  <2>8. links' \subseteq Link /\ stopped' \in BOOLEAN BY <2>1 DEF AddChild
  <2> QED BY <2>3, <2>4, <2>5, <2>6, <2>7, <2>8
<1>2. ASSUME Reporting PROVE TypeOK'
  <2>1. PICK a \in Nodes, returning \in BOOLEAN, new \in NewRequirements,
             artifacts \in SUBSET Artifacts, resolvesGap \in BOOLEAN, covered \in SUBSET Reqs :
          Report(a, returning, artifacts, new, resolvesGap, covered)
    BY <1>2 DEF Reporting
  <2>2. Raised(a, new) \in [Reqs -> Requirement] BY <2>1, RaisedType DEF Report
  <2>3. req' \in [Reqs -> Requirement]
    <3>1. \A r \in Reqs : req'[r] = IF r \in ClosedBy(a, resolvesGap, covered)
                                    THEN [req[r] EXCEPT !.state = "resolved"]
                                    ELSE Raised(a, new)[r]
      BY <2>1 DEF Report
    <3>2. \A r \in Reqs : [req[r] EXCEPT !.state = "resolved"] \in Requirement
      <4>1. \A q \in Requirement : [q EXCEPT !.state = "resolved"] \in Requirement
        BY DEF Requirement, ReqStates
      <4> QED BY <4>1
    <3>3. req' = [r \in Reqs |-> req'[r]] BY <2>1 DEF Report
    <3> QED BY <2>2, <3>1, <3>2, <3>3
  <2>4. status' \in [Nodes -> Statuses] BY <2>1 DEF Report
  <2>5. settled' \subseteq deps' BY <2>1 DEF Report, Settling
  <2> QED BY <2>1, <2>3, <2>4, <2>5 DEF Report
<1>3. ASSUME Moving PROVE TypeOK'
  <2>1. status' \in [Nodes -> Statuses]
    BY <1>3 DEF Moving, Execute, Prune, Stop, Resume, WaitForDependencies
  <2>2. links' \subseteq Link
    BY <1>3 DEF Moving, Execute, Prune, Stop, Resume, WaitForDependencies
  <2>3. UNCHANGED <<parent, gap, held, req, deps, settled>> /\ stopped' \in BOOLEAN
    BY <1>3 DEF Moving, Execute, Prune, Stop, Resume, WaitForDependencies
  <2> QED BY <2>1, <2>2, <2>3
<1>4. ASSUME Noting PROVE TypeOK'
  <2>1. ASSUME NEW from \in Nodes, NEW to \in Nodes, NEW required \in BOOLEAN,
               AddLink(from, to, required)
        PROVE  links' \subseteq Link
    BY <2>1 DEF AddLink, Link
  <2>2. ASSUME NEW a \in Nodes, NEW ch \in Channels, NEW required \in BOOLEAN,
               Connect(a, ch[1], ch[2], required)
        PROVE  TypeOK'
    BY <2>1, <2>2 DEF Connect
  <2>3. ASSUME NEW ch \in Channels, NEW r \in Reqs, Reuse(ch[1], ch[2], r)
        PROVE  TypeOK'
    <3>1. ch[1] \in Nodes /\ ch[2] \in Nodes OBVIOUS
    <3>2. links' \subseteq Link BY <2>1, <2>3, <3>1 DEF Reuse
    <3>3. req' \in [Reqs -> Requirement] BY <2>3, <3>1, AssignType DEF Reuse
    <3>4. held' \in [Nodes -> SUBSET Reqs] BY <2>3 DEF Reuse
    <3> QED BY <2>3, <3>2, <3>3, <3>4 DEF Reuse
  <2>4. ASSUME NEW a \in Nodes, NEW returning \in BOOLEAN, NEW new \in NewRequirements,
               ReportRefused(a, returning, new)
        PROVE  TypeOK'
    BY <2>4, RaisedType DEF ReportRefused
  <2>5. ASSUME NEW r \in Reqs, NEW n \in Nodes, IngestRequirement(r, n)
        PROVE  TypeOK'
    BY <2>5 DEF IngestRequirement, Requirement, ReqStates
  <2>6. ASSUME NEW r \in Reqs, SupersedeRequirement(r)
        PROVE  TypeOK'
    BY <2>6 DEF SupersedeRequirement, Requirement, ReqStates
  <2> QED BY <1>4, <2>2, <2>3, <2>4, <2>5, <2>6 DEF Noting
<1>5. ASSUME Depending PROVE TypeOK'
  BY <1>5 DEF Depending, AddDependency
<1>6. CASE UNCHANGED vars BY <1>6 DEF vars
<1> QED BY <1>1, <1>2, <1>3, <1>4, <1>5, <1>6, StepKinds

\* Which nodes exist is decided by DERIVE alone.
LEMMA PresentGrows ==
    ASSUME Inv, Next
    PROVE  /\ Present \subseteq Present'
           /\ Grow \/ Present' = Present
<1> USE NamesAssumption DEF Inv, TypeOK, Present
<1>1. ASSUME Grow PROVE Present \subseteq Present' BY <1>1 DEF Grow
<1>2. ASSUME Reporting PROVE Present' = Present
  BY <1>2 DEF Reporting, Report, CanAct, Woken
<1>3. ASSUME Moving PROVE Present' = Present
  BY <1>3 DEF Moving, Execute, Prune, Stop, Resume, WaitForDependencies, CanAct, RootStands
<1>4. ASSUME Noting PROVE Present' = Present
  BY <1>4 DEF Noting, Connect, Reuse, ReportRefused, IngestRequirement, SupersedeRequirement,
     CanAct
<1>5. ASSUME Depending PROVE Present' = Present
  BY <1>5 DEF Depending, AddDependency
<1> QED BY <1>1, <1>2, <1>3, <1>4, <1>5, StepKinds

-----------------------------------------------------------------------------
\* The dependency graph.
LEMMA DepsOnlyGrow ==
    ASSUME Next PROVE Grow \/ Depending \/ UNCHANGED deps
BY StepKinds DEF Reporting, Report, Moving, Execute, Prune, Stop, Resume, WaitForDependencies,
   Noting, Connect, Reuse, ReportRefused, IngestRequirement, SupersedeRequirement

LEMMA EdgesStep == Inv /\ Next => EdgesJoinPresent'
<1> SUFFICES ASSUME Inv, Next PROVE EdgesJoinPresent'
    OBVIOUS
<1>1. EdgesJoinPresent /\ Present \subseteq Present' BY PresentGrows DEF Inv
<1>2. CASE Grow
  <2>1. PICK p \in Nodes, c \in Nodes, r \in Reqs, wants \in Wants :
          /\ AddChild(p, c, r)
          /\ deps' = deps \cup EdgesTo(c, wants)
          /\ \/ status' = [status EXCEPT ![c] = "ready"]
             \/ status' = [status EXCEPT ![c] = "waiting"]
    BY <1>2 DEF Grow
  <2>2. c \in Present' BY <2>1 DEF Present, Inv, TypeOK
  <2>3. \A e \in EdgesTo(c, wants) : e.producer \in Present /\ e.consumer = c
    BY EdgesToType
  <2> QED BY <1>1, <2>1, <2>2, <2>3 DEF EdgesJoinPresent
<1>3. CASE Depending BY <1>1, <1>3 DEF Depending, AddDependency, EdgesJoinPresent
<1>4. CASE UNCHANGED deps BY <1>1, <1>4 DEF EdgesJoinPresent
<1> QED BY <1>2, <1>3, <1>4, DepsOnlyGrow

\* An edge p -> c closes no circle when p is not reached from c: some set
\* closed under the edges holds c and not p, and a group with members in it,
\* or one without, has a member free of producers by the old edges alone.
LEMMA AddEdgeNoCircle ==
    ASSUME TypeOK, NoCircularWait, NEW e \in Edge,
           ~DependencyReachable(e.consumer, e.producer), deps' = deps \cup {e}
    PROVE  NoCircularWait'
<1>1. PICK C \in SUBSET Nodes : e.consumer \in C /\ Closed(C) /\ e.producer \notin C
  BY DEF DependencyReachable
<1>2. ASSUME NEW S \in (SUBSET Nodes) \ {{}}
      PROVE  \E n \in S : \A d \in deps' : d.consumer = n => d.producer \notin S
  <2>1. CASE S \ C # {}
    <3>1. PICK n \in S \ C : \A d \in deps : d.consumer = n => d.producer \notin S \ C
      BY <2>1 DEF NoCircularWait
    <3>2. \A d \in deps : d.consumer = n => d.producer \notin S
      BY <3>1, <1>1 DEF Closed
    <3>3. n # e.consumer BY <1>1
    <3> QED BY <3>1, <3>2, <3>3
  <2>2. CASE S \ C = {}
    <3>1. e.producer \notin S BY <2>2, <1>1
    <3>2. PICK n \in S : \A d \in deps : d.consumer = n => d.producer \notin S
      BY DEF NoCircularWait
    <3> QED BY <3>1, <3>2
  <2> QED BY <2>1, <2>2
<1> QED BY <1>2 DEF NoCircularWait

LEMMA CircularStep == Inv /\ Next => NoCircularWait'
<1> SUFFICES ASSUME Inv, Next PROVE NoCircularWait'
    OBVIOUS
<1> USE DEF Inv
<1>1. CASE Grow
  <2>1. PICK p \in Nodes, c \in Nodes, r \in Reqs, wants \in Wants :
          AddChild(p, c, r) /\ deps' = deps \cup EdgesTo(c, wants)
    BY <1>1 DEF Grow
  <2>2. c \notin Present BY <2>1 DEF AddChild, Present
  <2>3. \A e \in deps : e.producer # c /\ e.consumer # c BY <2>2 DEF EdgesJoinPresent
  <2>4. \A e \in EdgesTo(c, wants) : e.producer # c /\ e.consumer = c
    BY <2>2, EdgesToType
  <2>5. ASSUME NEW S \in (SUBSET Nodes) \ {{}}
        PROVE  \E n \in S : \A d \in deps' : d.consumer = n => d.producer \notin S
    <3>1. CASE S \ {c} = {}
      <4>1. S = {c}
        <5>1. S # {} OBVIOUS
        <5>2. \A n \in S : n = c BY <3>1
        <5> QED BY <5>1, <5>2
      <4> QED BY <4>1, <2>1, <2>3, <2>4
    <3>2. CASE S \ {c} # {}
      <4>1. PICK n \in S \ {c} : \A d \in deps : d.consumer = n => d.producer \notin S \ {c}
        BY <3>2 DEF NoCircularWait
      <4> QED BY <4>1, <2>1, <2>3, <2>4
    <3> QED BY <3>1, <3>2
  <2> QED BY <2>5 DEF NoCircularWait
<1>2. CASE Depending BY <1>2, AddEdgeNoCircle DEF Depending, AddDependency
<1>3. CASE UNCHANGED deps BY <1>3 DEF NoCircularWait
<1> QED BY <1>1, <1>2, <1>3, DepsOnlyGrow

\* Who waits has something to wait for.
LEMMA WakeupStep == Inv /\ Next => NoLostWakeup'
<1> SUFFICES ASSUME Inv, Next, NEW n \in Nodes, status'[n] = "waiting"
             PROVE  \E e \in deps' \ settled' : e.consumer = n
    BY DEF NoLostWakeup, Unsettled
<1> USE DEF Inv, Unsettled
<1>1. CASE Grow
  <2>1. PICK p \in Nodes, c \in Nodes, r \in Reqs, wants \in Wants :
          /\ AddChild(p, c, r)
          /\ deps' = deps \cup EdgesTo(c, wants)
          /\ \/ status' = [status EXCEPT ![c] = "ready"]
             \/ wants # {} /\ status' = [status EXCEPT ![c] = "waiting"]
    BY <1>1 DEF Grow
  <2>2. settled' = settled /\ settled \subseteq deps BY <2>1 DEF AddChild, TypeOK
  <2>3. CASE n = c
    <3>1. wants # {} BY <2>1, <2>3 DEF TypeOK
    <3>2. PICK e \in EdgesTo(c, wants) : e.consumer = c BY <3>1, EdgesToType
    <3>3. e \notin deps BY <3>2, <2>1 DEF AddChild, EdgesJoinPresent, Present
    <3> QED BY <2>1, <2>2, <2>3, <3>2, <3>3
  <2>4. CASE n # c
    <3>1. status[n] = "waiting" BY <2>1, <2>4 DEF TypeOK
    <3> QED BY <3>1, <2>1, <2>2 DEF NoLostWakeup
  <2> QED BY <2>3, <2>4
<1>2. CASE Reporting
  <2>1. PICK a \in Nodes, returning \in BOOLEAN, new \in NewRequirements,
             artifacts \in SUBSET Artifacts, resolvesGap \in BOOLEAN, covered \in SUBSET Reqs :
          Report(a, returning, artifacts, new, resolvesGap, covered)
    BY <1>2 DEF Reporting
  <2> DEFINE now == Settling(a, artifacts \cup {OwnReport})
  <2>2. /\ settled' = settled \cup now
        /\ deps' = deps
        /\ status'[n] = IF n = a THEN status'[a] ELSE IF n \in Woken(now) THEN "ready" ELSE status[n]
        /\ status'[a] # "waiting"
    BY <2>1 DEF Report, TypeOK
  <2>3. status[n] = "waiting" /\ n \notin Woken(now) BY <2>2
  <2>4. PICK e \in deps \ settled : e.consumer = n BY <2>3 DEF NoLostWakeup
  <2>5. CASE e \in now
    <3>1. ~(Unsettled(n) \subseteq now) BY <2>3, <2>4, <2>5 DEF Woken
    <3> QED BY <3>1, <2>2
  <2>6. CASE e \notin now BY <2>2, <2>4, <2>6
  <2> QED BY <2>5, <2>6
<1>3. CASE Moving
  <2>1. UNCHANGED <<deps, settled>>
    BY <1>3 DEF Moving, Execute, Prune, Stop, Resume, WaitForDependencies
  <2>2. status[n] = "waiting" \/ Unsettled(n) # {}
    BY <1>3 DEF Moving, Execute, Prune, Stop, Resume, WaitForDependencies, TypeOK
  <2> QED BY <2>1, <2>2 DEF NoLostWakeup
<1>4. CASE Noting
  <2>1. UNCHANGED <<deps, settled>>
    BY <1>4 DEF Noting, Connect, Reuse, ReportRefused, IngestRequirement, SupersedeRequirement
  <2>2. status[n] = "waiting"
    BY <1>4 DEF Noting, Connect, Reuse, ReportRefused, IngestRequirement, SupersedeRequirement,
       TypeOK
  <2> QED BY <2>1, <2>2 DEF NoLostWakeup
<1>5. CASE Depending BY <1>5 DEF Depending, AddDependency, NoLostWakeup
<1> QED BY <1>1, <1>2, <1>3, <1>4, <1>5, StepKinds

-----------------------------------------------------------------------------
\* The derivation tree.
LEMMA TreeOnlyGrows ==
    ASSUME Next PROVE Grow \/ UNCHANGED tree
<1>1. Reporting => UNCHANGED tree
  BY DEF tree, Reporting, Report
<1>2. Moving => UNCHANGED tree
  BY DEF tree, Moving, Execute, Prune, Stop, Resume, WaitForDependencies
<1>3. Noting => UNCHANGED tree
  BY DEF tree, Noting, Connect, Reuse, ReportRefused, IngestRequirement, SupersedeRequirement
<1>4. Depending => UNCHANGED tree
  BY DEF tree, Depending, AddDependency
<1> QED BY <1>1, <1>2, <1>3, <1>4, StepKinds

LEMMA RootStep == Inv /\ Next => RootStands'
<1> SUFFICES ASSUME Inv, Next PROVE RootStands'
    OBVIOUS
<1> USE NamesAssumption DEF Inv, TypeOK, RootStands
<1>1. parent'[Root] = NoNode
  <2>1. CASE Grow BY <2>1 DEF Grow, AddChild
  <2>2. CASE UNCHANGED tree BY <2>2 DEF tree
  <2> QED BY <2>1, <2>2, TreeOnlyGrows
<1>2. /\ status'[Root] \notin {"absent", "returned", "pruned"}
      /\ \A n \in Nodes \ {Root} : status'[n] # "completed"
  <2>1. CASE Grow BY <2>1 DEF Grow, AddChild
  <2>2. CASE Reporting BY <2>2 DEF Reporting, Report
  <2>3. CASE Moving BY <2>3 DEF Moving, Execute, Prune, Stop, Resume, WaitForDependencies
  <2>4. CASE Noting
    BY <2>4 DEF Noting, Connect, Reuse, ReportRefused, IngestRequirement, SupersedeRequirement
  <2>5. CASE Depending BY <2>5 DEF Depending, AddDependency
  <2> QED BY <2>1, <2>2, <2>3, <2>4, <2>5, StepKinds
<1> QED BY <1>1, <1>2

LEMMA UnbornStep == Inv /\ Next => Unborn'
<1> SUFFICES ASSUME Inv, Next, NEW n \in Nodes
             PROVE  /\ n \notin Present' => parent'[n] = NoNode /\ gap'[n] = NoReq
                    /\ parent'[n] # NoNode => parent'[n] \in Present'
  BY DEF Unborn, Present
<1> USE DEF Inv
<1>1. /\ n \notin Present => parent[n] = NoNode /\ gap[n] = NoReq
      /\ parent[n] # NoNode => parent[n] \in Present
      /\ Present \subseteq Present'
  BY PresentGrows DEF Unborn, Present
<1>2. CASE Grow
  <2>1. PICK p \in Nodes, c \in Nodes, r \in Reqs :
          /\ AddChild(p, c, r)
          /\ \/ status' = [status EXCEPT ![c] = "ready"]
             \/ status' = [status EXCEPT ![c] = "waiting"]
    BY <1>2 DEF Grow
  <2>2. /\ parent' = [parent EXCEPT ![c] = p] /\ gap' = [gap EXCEPT ![c] = r]
        /\ p \in Present
    BY <2>1 DEF AddChild, CanAct, Present
  <2>3. c \in Present' BY <2>1 DEF Present, TypeOK
  <2> QED BY <1>1, <2>2, <2>3 DEF TypeOK
<1>3. CASE UNCHANGED tree BY <1>1, <1>3 DEF tree
<1> QED BY <1>2, <1>3, TreeOnlyGrows

\* Nobody comes back from pruned, and from returned only to be pruned.
LEMMA LeaversStay ==
    ASSUME Inv, Next, NEW n \in Nodes
    PROVE  /\ status[n] = "pruned" => status'[n] = "pruned"
           /\ status[n] = "returned" => status'[n] \in {"returned", "pruned"}
<1> USE NamesAssumption DEF Inv, TypeOK, CanAct
<1>1. CASE Grow BY <1>1 DEF Grow, AddChild
<1>2. CASE Reporting BY <1>2 DEF Reporting, Report, Woken
<1>3. CASE Moving
  BY <1>3 DEF Moving, Execute, Prune, Stop, Resume, WaitForDependencies, RootStands
<1>4. CASE Noting
  BY <1>4 DEF Noting, Connect, Reuse, ReportRefused, IngestRequirement, SupersedeRequirement
<1>5. CASE Depending BY <1>5 DEF Depending, AddDependency
<1> QED BY <1>1, <1>2, <1>3, <1>4, <1>5, StepKinds

\* A node becomes pruned only by PRUNE, whose children were all done.
LEMMA PrunedStep == Inv /\ Next => PrunedChildrenAreDone'
<1> SUFFICES ASSUME Inv, Next, NEW n \in Nodes, NEW c \in Nodes,
                    status'[n] = "pruned", parent'[c] = n
             PROVE  status'[c] \in {"pruned", "returned"}
  BY DEF PrunedChildrenAreDone, Children
<1>1. status[c] \in {"pruned", "returned"} => status'[c] \in {"pruned", "returned"}
  BY LeaversStay
<1>2. CASE status[n] = "pruned"
  <2>1. parent[c] = n
    <3>1. CASE Grow
      <4>1. PICK p \in Nodes, d \in Nodes, r \in Reqs : AddChild(p, d, r) BY <3>1 DEF Grow
      <4>2. parent' = [parent EXCEPT ![d] = p] /\ p # n
        BY <4>1, <1>2 DEF AddChild, CanAct
      <4> QED BY <4>2 DEF Inv, TypeOK
    <3>2. CASE UNCHANGED tree BY <3>2 DEF tree
    <3> QED BY <3>1, <3>2, TreeOnlyGrows
  <2> QED BY <1>1, <1>2, <2>1 DEF Inv, PrunedChildrenAreDone, Children
<1>3. CASE status[n] # "pruned"
  <2>1. \E a \in Nodes : Prune(a, n)
    <3> USE DEF Inv, TypeOK
    <3>1. CASE Grow BY <3>1, <1>3 DEF Grow
    <3>2. CASE Reporting BY <3>2, <1>3 DEF Reporting, Report
    <3>3. CASE Moving
      BY <3>3, <1>3 DEF Moving, Execute, Prune, Stop, Resume, WaitForDependencies, Present
    <3>4. CASE Noting
      BY <3>4, <1>3 DEF Noting, Connect, Reuse, ReportRefused, IngestRequirement,
         SupersedeRequirement
    <3>5. CASE Depending BY <3>5, <1>3 DEF Depending, AddDependency
    <3> QED BY <3>1, <3>2, <3>3, <3>4, <3>5, StepKinds
  <2>2. parent[c] = n /\ status[c] \in {"pruned", "returned", "completed"}
    BY <2>1 DEF Prune, Children, tree
  <2>3. c # Root BY <2>2, NamesAssumption DEF Inv, RootStands
  <2>4. status[c] # "completed" BY <2>3 DEF Inv, RootStands
  <2> QED BY <1>1, <2>2, <2>4
<1> QED BY <1>2, <1>3

-----------------------------------------------------------------------------
(***************************************************************************)
(* Who works on a requirement.  The nodes a requirement triggered lie on   *)
(* one path of the tree that ends at or above the node it is assigned to,  *)
(* so the next node derived from it is put below all of them.              *)
(***************************************************************************)

\* A new leaf changes nobody's ancestors, and has its parent's as its own.
LEMMA LeafAncestors ==
    ASSUME Inv, NEW p \in Nodes, NEW c \in Nodes \ Present,
           parent' = [parent EXCEPT ![c] = p]
    PROVE  /\ \A m, n \in Nodes : Ancestor(parent, m, n) => Ancestor(parent', m, n)
           /\ \A m \in Nodes : Ancestor(parent, m, p) => Ancestor(parent', m, c)
           /\ Ancestor(parent', c, c)
<1>1. parent[c] = NoNode BY DEF Inv, Unborn, Present
<1>2. ASSUME NEW S \in SUBSET Nodes, \A m \in S : parent'[m] \in S \cup {NoNode}
      PROVE  /\ \A m \in S : parent[m] \in S \cup {NoNode}
             /\ c \in S => p \in S
  <2>1. parent'[c] = p /\ \A m \in Nodes \ {c} : parent'[m] = parent[m]
    BY DEF Inv, TypeOK
  <2> QED BY <1>1, <1>2, <2>1, NamesAssumption
<1>3. ASSUME NEW m \in Nodes, NEW n \in Nodes, Ancestor(parent, m, n) PROVE Ancestor(parent', m, n)
  BY <1>2, <1>3 DEF Ancestor
<1>4. ASSUME NEW m \in Nodes, Ancestor(parent, m, p) PROVE Ancestor(parent', m, c)
  BY <1>2, <1>4 DEF Ancestor
<1>5. Ancestor(parent', c, c) BY DEF Ancestor
<1> QED BY <1>3, <1>4, <1>5

\* What a step that derives nothing does to a requirement that triggered a node.
LEMMA GapsKept ==
    ASSUME Inv, Next, ~Grow, NEW n \in Nodes, gap[n] # NoReq
    PROVE  req'[gap[n]] = req[gap[n]] \/ req'[gap[n]].state = "resolved"
<1> DEFINE r == gap[n]
<1>1. r \in Reqs /\ req[r].state \in {"assigned", "resolved"}
  BY DEF Inv, TypeOK, GapsHandedDown
<1>2. CASE Reporting
  <2>1. PICK a \in Nodes, returning \in BOOLEAN, new \in NewRequirements,
             artifacts \in SUBSET Artifacts, resolvesGap \in BOOLEAN, covered \in SUBSET Reqs :
          Report(a, returning, artifacts, new, resolvesGap, covered)
    BY <1>2 DEF Reporting
  <2>2. Raised(a, new)[r] = req[r] BY <1>1, <2>1, RaisedType DEF Report, Inv
  <2>3. req'[r] = IF r \in ClosedBy(a, resolvesGap, covered)
                  THEN [req[r] EXCEPT !.state = "resolved"] ELSE Raised(a, new)[r]
    BY <1>1, <2>1 DEF Report
  <2>4. [req[r] EXCEPT !.state = "resolved"].state = "resolved"
    BY <1>1 DEF Inv, TypeOK, Requirement
  <2> QED BY <2>2, <2>3, <2>4
<1>3. CASE Moving
  BY <1>3 DEF Moving, Execute, Prune, Stop, Resume, WaitForDependencies
<1>4. CASE Noting
  <2>1. ASSUME NEW ch \in Channels, NEW q \in Reqs, Reuse(ch[1], ch[2], q)
        PROVE  req'[r] = req[r]
    <3>1. ch[2] \in Nodes /\ q # r BY <1>1, <2>1 DEF Reuse, Present
    <3> QED BY <1>1, <2>1, <3>1, AssignType DEF Reuse, Inv
  <2>2. ASSUME NEW a \in Nodes, NEW returning \in BOOLEAN, NEW new \in NewRequirements,
               ReportRefused(a, returning, new)
        PROVE  req'[r] = req[r]
    BY <1>1, <2>2, RaisedType DEF ReportRefused, Inv
  <2>3. ASSUME NEW q \in Reqs, NEW m \in Nodes, IngestRequirement(q, m)
        PROVE  req'[r] = req[r]
    BY <1>1, <2>3 DEF IngestRequirement, Inv, TypeOK
  <2>4. ASSUME NEW q \in Reqs, SupersedeRequirement(q)
        PROVE  req'[r] = req[r]
    BY <1>1, <2>4 DEF SupersedeRequirement, Inv, TypeOK
  <2> QED BY <1>4, <2>1, <2>2, <2>3, <2>4 DEF Noting, Connect
<1>5. CASE Depending BY <1>5 DEF Depending, AddDependency
<1> QED BY <1>2, <1>3, <1>4, <1>5, StepKinds

\* The heart of the argument, for a step that derives c from p by r.
LEMMA DerivedBelow ==
    ASSUME Inv, NEW p \in Nodes, NEW c \in Nodes, NEW r \in Reqs, AddChild(p, c, r)
    PROVE  GapsHandedDown' /\ OneBranchPerGap'
<1>1. /\ parent' = [parent EXCEPT ![c] = p]
      /\ gap' = [gap EXCEPT ![c] = r]
      /\ c \in Nodes \ Present
  BY DEF AddChild, Present
<1>2. /\ req'[r].state = "assigned" /\ req'[r].assignee = c
      /\ \A q \in Reqs \ {r} : req'[q] = req[q]
  BY AssignType DEF AddChild, Inv
<1>3. /\ \A m, n \in Nodes : Ancestor(parent, m, n) => Ancestor(parent', m, n)
      /\ \A m \in Nodes : Ancestor(parent, m, p) => Ancestor(parent', m, c)
      /\ Ancestor(parent', c, c)
  BY <1>1, LeafAncestors
<1>4. ASSUME NEW n \in Nodes, gap[n] = r PROVE Ancestor(parent, n, p)
  <2>1. r # NoReq BY NamesAssumption
  <2>2. /\ req[r].state \in {"assigned", "resolved"}
        /\ req[r].state = "assigned" => req[r].assignee \in Nodes /\ Ancestor(parent, n, req[r].assignee)
    BY <1>4, <2>1 DEF Inv, GapsHandedDown
  <2>3. MayDerive(p, r) BY DEF AddChild
  <2>4. req[r].assignee = p BY <2>2, <2>3, NamesAssumption DEF MayDerive
  <2> QED BY <2>2, <2>3, <2>4 DEF MayDerive
<1>5. ASSUME NEW n \in Nodes
      PROVE  /\ n = c => gap'[n] = r
             /\ n # c => gap'[n] = gap[n]
  BY <1>1 DEF Inv, TypeOK
<1>6. ASSUME NEW n \in Nodes, gap'[n] = r PROVE Ancestor(parent', n, c)
  BY <1>3, <1>4, <1>5, <1>6
<1>7. ASSUME NEW n \in Nodes, gap'[n] # NoReq
      PROVE  /\ req'[gap'[n]].state \in {"assigned", "resolved"}
             /\ req'[gap'[n]].state = "assigned" =>
                   /\ req'[gap'[n]].assignee \in Nodes
                   /\ Ancestor(parent', n, req'[gap'[n]].assignee)
  <2>1. CASE gap'[n] = r BY <1>2, <1>6, <2>1
  <2>2. CASE gap'[n] # r
    <3>1. gap'[n] = gap[n] /\ gap[n] \in Reqs \ {r}
      BY <1>5, <1>7, <2>2 DEF Inv, TypeOK
    <3>2. req'[gap'[n]] = req[gap[n]] BY <1>2, <3>1
    <3> QED BY <1>3, <1>7, <3>1, <3>2 DEF Inv, GapsHandedDown
  <2> QED BY <2>1, <2>2
<1>8. ASSUME NEW m \in Nodes, NEW n \in Nodes, gap'[m] = gap'[n], gap'[m] # NoReq
      PROVE  Ancestor(parent', m, n) \/ Ancestor(parent', n, m)
  <2>1. CASE m = c \/ n = c BY <1>5, <1>6, <1>8, <2>1
  <2>2. CASE m # c /\ n # c
    <3>1. gap[m] = gap[n] /\ gap[m] # NoReq BY <1>5, <1>8, <2>2
    <3>2. Ancestor(parent, m, n) \/ Ancestor(parent, n, m) BY <3>1 DEF Inv, OneBranchPerGap
    <3> QED BY <1>3, <3>2
  <2> QED BY <2>1, <2>2
<1> QED BY <1>7, <1>8 DEF GapsHandedDown, OneBranchPerGap

LEMMA BranchStep == Inv /\ Next => GapsHandedDown' /\ OneBranchPerGap'
<1> SUFFICES ASSUME Inv, Next PROVE GapsHandedDown' /\ OneBranchPerGap'
    OBVIOUS
<1>1. CASE Grow BY <1>1, DerivedBelow DEF Grow
<1>2. CASE ~Grow
  <2>1. UNCHANGED tree BY <1>2, TreeOnlyGrows
  <2>2. parent' = parent BY <2>1 DEF tree
  <2>3. OneBranchPerGap' BY <2>1, <2>2 DEF Inv, OneBranchPerGap, tree
  <2>4. ASSUME NEW n \in Nodes, gap[n] # NoReq
        PROVE  /\ req'[gap[n]].state \in {"assigned", "resolved"}
               /\ req'[gap[n]].state = "assigned" =>
                     /\ req'[gap[n]].assignee \in Nodes
                     /\ Ancestor(parent', n, req'[gap[n]].assignee)
    BY <1>2, <2>2, <2>4, GapsKept DEF Inv, GapsHandedDown
  <2> QED BY <2>1, <2>3, <2>4 DEF GapsHandedDown, tree
<1> QED BY <1>1, <1>2

-----------------------------------------------------------------------------
LEMMA InitInv == Init => Inv
<1> SUFFICES ASSUME Init PROVE Inv
    OBVIOUS
<1> USE NamesAssumption DEF Init
<1>1. TypeOK BY DEF TypeOK, Statuses, Requirement, ReqStates
<1>2. EdgesJoinPresent /\ RootStands /\ Unborn
  BY DEF EdgesJoinPresent, RootStands, Unborn
<1>3. NoCircularWait
  <2> SUFFICES ASSUME NEW S \in (SUBSET Nodes) \ {{}}
               PROVE  \E n \in S : \A e \in deps : e.consumer = n => e.producer \notin S
    BY DEF NoCircularWait
  <2>1. S # {} OBVIOUS
  <2> QED BY <2>1
<1>4. NoLostWakeup /\ PrunedChildrenAreDone
  BY DEF NoLostWakeup, PrunedChildrenAreDone
<1>5. GapsHandedDown /\ OneBranchPerGap
  BY DEF GapsHandedDown, OneBranchPerGap
<1> QED BY <1>1, <1>2, <1>3, <1>4, <1>5 DEF Inv

LEMMA NextInv == Inv /\ [Next]_vars => Inv'
<1>1. Inv /\ Next => Inv'
  BY TypeStep, EdgesStep, RootStep, UnbornStep, CircularStep, WakeupStep, PrunedStep,
     BranchStep DEF Inv
<1>2. Inv /\ UNCHANGED vars => Inv'
  <2> SUFFICES ASSUME Inv, UNCHANGED vars PROVE Inv'
      OBVIOUS
  <2> USE DEF vars
  <2>1. TypeOK' BY TypeStep DEF Inv
  <2>2. (EdgesJoinPresent /\ RootStands /\ Unborn)'
    BY DEF Inv, EdgesJoinPresent, RootStands, Unborn, Present
  <2>3. (NoCircularWait /\ NoLostWakeup /\ PrunedChildrenAreDone)'
    BY DEF Inv, NoCircularWait, NoLostWakeup, Unsettled, PrunedChildrenAreDone, Children
  <2>4. (GapsHandedDown /\ OneBranchPerGap)' BY DEF Inv, GapsHandedDown, OneBranchPerGap
  <2> QED BY <2>1, <2>2, <2>3, <2>4 DEF Inv
<1> QED BY <1>1, <1>2

\* The invariant holds throughout every behaviour of the organization.
THEOREM Invariance == Spec => []Inv
<1>1. Inv /\ [Next]_vars => Inv' BY NextInv
<1> QED BY InitInv, <1>1, PTL DEF Spec

\* The variables keep their types; resolved edges are edges.
THEOREM TypeCorrect == Spec => []TypeOK
<1>1. Inv => TypeOK BY DEF Inv
<1> QED BY Invariance, <1>1, PTL

\* The order of DERIVE and addDependency calls never builds a circle of
\* nodes that wait for each other (dependencyReachable).
THEOREM NoCircle == Spec => []NoCircularWait
<1>1. Inv => NoCircularWait BY DEF Inv
<1> QED BY Invariance, <1>1, PTL

\* Nobody is left waiting when the last report has come (resolveArtifact).
THEOREM WakeupsArrive == Spec => []NoLostWakeup
<1>1. Inv => NoLostWakeup BY DEF Inv
<1> QED BY Invariance, <1>1, PTL

\* A requirement is worked on along one path of the tree (derive, connect).
THEOREM OneBranch == Spec => []OneBranchPerGap
<1>1. Inv => OneBranchPerGap BY DEF Inv
<1> QED BY Invariance, <1>1, PTL

\* PRUNE never cuts a working child off, then or later (prune).
THEOREM PrunedAreDone == Spec => []PrunedChildrenAreDone
<1>1. Inv => PrunedChildrenAreDone BY DEF Inv
<1> QED BY Invariance, <1>1, PTL

-----------------------------------------------------------------------------
\* A verdict outlives every step: reports close only what is assigned, and the
\* requirement that triggered a node was never superseded.
LEMMA VerdictKept ==
    ASSUME Inv, Next, NEW r \in Reqs, req[r].state \in {"resolved", "rejected"}
    PROVE  req'[r] = req[r]
<1> USE DEF Inv
<1>1. CASE Grow
  <2>1. PICK p \in Nodes, c \in Nodes, q \in Reqs : AddChild(p, c, q) BY <1>1 DEF Grow
  <2>2. q # r BY <2>1 DEF AddChild, MayDerive
  <2> QED BY <2>1, <2>2, AssignType DEF AddChild
<1>2. CASE Reporting
  <2>1. PICK a \in Nodes, returning \in BOOLEAN, new \in NewRequirements,
             artifacts \in SUBSET Artifacts, resolvesGap \in BOOLEAN, covered \in SUBSET Reqs :
          Report(a, returning, artifacts, new, resolvesGap, covered)
    BY <1>2 DEF Reporting
  <2>2. Raised(a, new)[r] = req[r] BY <2>1, RaisedType DEF Report
  <2>3. req'[r] = IF r \in ClosedBy(a, resolvesGap, covered)
                  THEN [req[r] EXCEPT !.state = "resolved"] ELSE Raised(a, new)[r]
    BY <2>1 DEF Report
  <2>4. CASE r \in ClosedBy(a, resolvesGap, covered)
    <3>1. r = gap[a] BY <2>4 DEF ClosedBy
    <3>2. req[r].state = "resolved" BY <3>1, NamesAssumption DEF GapsHandedDown
    <3>3. [req[r] EXCEPT !.state = "resolved"] = req[r]
      BY <3>2 DEF TypeOK, Requirement
    <3> QED BY <2>3, <2>4, <3>3
  <2> QED BY <2>2, <2>3, <2>4
<1>3. CASE Moving
  BY <1>3 DEF Moving, Execute, Prune, Stop, Resume, WaitForDependencies
<1>4. CASE Noting
  <2>1. ASSUME NEW ch \in Channels, NEW q \in Reqs, Reuse(ch[1], ch[2], q)
        PROVE  req'[r] = req[r]
    <3>1. ch[2] \in Nodes /\ q # r BY <2>1 DEF Reuse, Present
    <3> QED BY <2>1, <3>1, AssignType DEF Reuse
  <2>2. ASSUME NEW a \in Nodes, NEW returning \in BOOLEAN, NEW new \in NewRequirements,
               ReportRefused(a, returning, new)
        PROVE  req'[r] = req[r]
    BY <2>2, RaisedType DEF ReportRefused
  <2>3. ASSUME NEW q \in Reqs, NEW m \in Nodes, IngestRequirement(q, m)
        PROVE  req'[r] = req[r]
    BY <2>3 DEF IngestRequirement, TypeOK
  <2>4. ASSUME NEW q \in Reqs, SupersedeRequirement(q)
        PROVE  req'[r] = req[r]
    BY <2>4 DEF SupersedeRequirement, TypeOK
  <2> QED BY <1>4, <2>1, <2>2, <2>3, <2>4 DEF Noting, Connect
<1>5. CASE Depending BY <1>5 DEF Depending, AddDependency
<1> QED BY <1>1, <1>2, <1>3, <1>4, <1>5, StepKinds

\* No late report, reuse or derivation reopens or re-judges a requirement.
THEOREM VerdictsStand == Spec => VerdictsAreFinal
<1>1. Inv /\ [Next]_vars =>
        [\A r \in Reqs : req[r].state \in {"resolved", "rejected"} => req'[r] = req[r]]_vars
  BY VerdictKept
<1> QED BY Invariance, <1>1, PTL DEF Spec, VerdictsAreFinal
=============================================================================
