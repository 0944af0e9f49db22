---------------------------- MODULE TeamRunProofs ----------------------------
(***************************************************************************)
(* Proofs about TeamRun, in two layers.  TInv, for any constants: what the *)
(* execution of a slot, its record and its outcome are to each other holds *)
(* of each slot by itself, and a sequential team adds that one slot at a   *)
(* time is at work.  Capacity, for one team open at a time: a reservation  *)
(* is untouched until its plans are executed, and is then used up no       *)
(* faster than slots get through.                                          *)
(***************************************************************************)
EXTENDS TeamRun, FiniteSetTheorems, TLAPS

-----------------------------------------------------------------------------
(* The invariant of a team's members. *)

Kinds == {"plan", "agent"}
Places == {"none", "registering", "rejected", "planned", "begun", "execute", "synthesize",
           "resulting", "failing", "closing", "over", "gone"}
Statuses == {"none", "pending", "running", "completed", "failed", "skipped"}
SlotStates == Busy \cup Failed \cup {"idle", "completed", "skipped"}

Types ==
    /\ run \in [Teams -> Places] /\ fsm \in [Teams -> DOMAIN Edges]
    /\ policy \in [Teams -> Policy]
    /\ plans \in [Teams -> SUBSET Slots] /\ items \in [Teams -> SUBSET Slots]
    /\ born \in [Teams -> Seq(Slots)] /\ status \in [Teams -> [Keys -> Statuses]]
    /\ fresh \in [Teams -> BOOLEAN] /\ slot \in [Agents -> SlotStates]
    /\ before \in [Agents -> Nat] /\ blame \in [Agents -> Nat]
    /\ cache \in [Teams -> SUBSET Agents] /\ seen \in [Agents -> SUBSET Agents]
    /\ reported \in [Teams -> SUBSET Agents] /\ raced \in [Teams -> SUBSET Agents]
    /\ crossed \in [Teams -> SUBSET Slots]

At(t, i) == slot[<<t, i>>]
Kind(t) == IF fresh[t] THEN "plan" ELSE "agent"
Sequential(t) == policy[t].mode = "sequential"

\* The failure of slot i is blamed on nobody, on its own member or on one created beside
\* another; so are the agents created since it began; it sees all that was reported
\* before it ran; and records are true of slots that no one crossed.
Orderly(t, i) ==
    /\ blame[<<t, i>>] \in {0, i} \cup crossed[t]
    /\ fresh[t] /\ At(t, i) \in Busy =>
           \A k \in 1 .. Len(born[t]) :
               k > before[<<t, i>>] => born[t][k] \in {i} \cup crossed[t]
    /\ fresh[t] /\ At(t, i) \in {"running", "descending"} =>
           reported[t] \subseteq seen[<<t, i>>] \cup raced[t]
    /\ i \in items[t] /\ i \notin crossed[t] =>
           /\ status[t][<<"agent", i>>] = "failed" => At(t, i) \in Failed
           /\ At(t, i) = "completed" => status[t][<<"agent", i>>] = "completed"

\* A slot is at work only while its team executes it, and only then is it recorded
\* as running.
Each(t, i) ==
    /\ At(t, i) \in Busy => run[t] = "execute"
    /\ At(t, i) # "idle" => i \in items[t]
    /\ At(t, i) \in {"resolving", "spawning", "created", "closing"} => fresh[t]
    /\ run[t] = "begun" =>
           At(t, i) = "idle" /\ \A kind \in Kinds : status[t][<<kind, i>>] # "failed"
    /\ \A kind \in Kinds :
           status[t][<<kind, i>>] = "running" => kind = Kind(t) /\ At(t, i) \in Busy
    /\ Orderly(t, i)

Whole(t) ==
    /\ run[t] \in {"synthesize", "resulting", "closing"} /\ fsm[t] # "S_team_failed" => Suffices(t)
    /\ reported[t] \subseteq cache[t] \cup raced[t]
    /\ Sequential(t) =>
           /\ raced[t] = {} /\ crossed[t] = {}
           /\ \A i, j \in Slots : At(t, i) \in Busy /\ At(t, j) \in Busy => i = j

TInv == Types /\ \A t \in Teams : Whole(t) /\ \A i \in Slots : Each(t, i)

-----------------------------------------------------------------------------
(* Changes to one slot, or to one team. *)

\* Nothing but slot i of team t changes, and what the team has in common.
Elsewhere(t, i) ==
    /\ \A u \in Teams, j \in Slots : u # t \/ j # i =>
           /\ slot'[<<u, j>>] = slot[<<u, j>>] /\ before'[<<u, j>>] = before[<<u, j>>]
           /\ blame'[<<u, j>>] = blame[<<u, j>>] /\ seen'[<<u, j>>] = seen[<<u, j>>]
           /\ \A kind \in Kinds : status'[u][<<kind, j>>] = status[u][<<kind, j>>]
    /\ \A u \in Teams \ {t} :
           /\ born'[u] = born[u] /\ crossed'[u] = crossed[u]
           /\ cache'[u] = cache[u] /\ reported'[u] = reported[u] /\ raced'[u] = raced[u]
    /\ UNCHANGED <<run, fsm, policy, items, fresh>>

\* What a step of slot i does to the evidence leaves the others what they rely on,
KeepsEvidence(t, i) ==
    /\ raced[t] \subseteq raced'[t] /\ reported'[t] \subseteq cache'[t] \cup raced'[t]
    /\ Sequential(t) => raced'[t] = {}
    /\ \A j \in Slots \ {i} : At(t, j) \in {"running", "descending"} =>
           reported'[t] \subseteq reported[t] \cup raced'[t]

\* and so does what it does to the members.
KeepsMembers(t, i) ==
    /\ crossed[t] \subseteq crossed'[t] /\ (Sequential(t) => crossed'[t] = {})
    /\ \A j \in Slots \ {i} : At(t, j) \in Busy =>
           \A k \in 1 .. Len(born'[t]) :
               \/ k \in 1 .. Len(born[t]) /\ born'[t][k] = born[t][k]
               \/ born'[t][k] \in crossed'[t]

LEMMA KeptAlike ==
    ASSUME TInv, NEW t \in Teams, NEW i \in Slots
    PROVE  /\ UNCHANGED <<cache, reported, raced>> => KeepsEvidence(t, i)
           /\ UNCHANGED <<born, crossed>> => KeepsMembers(t, i)
<1>1. Whole(t)
  BY DEF TInv
<1>2. UNCHANGED <<cache, reported, raced>> => KeepsEvidence(t, i)
  BY <1>1 DEF Whole, KeepsEvidence
<1>3. UNCHANGED <<born, crossed>> => KeepsMembers(t, i)
  BY <1>1 DEF Whole, KeepsMembers
<1> QED BY <1>2, <1>3

LEMMA OtherTeam ==
    ASSUME TInv, NEW u \in Teams,
           run'[u] = run[u], fsm'[u] = fsm[u], policy'[u] = policy[u], items'[u] = items[u],
           fresh'[u] = fresh[u], born'[u] = born[u], cache'[u] = cache[u],
           reported'[u] = reported[u], raced'[u] = raced[u], crossed'[u] = crossed[u],
           \A j \in Slots :
               /\ slot'[<<u, j>>] = slot[<<u, j>>] /\ before'[<<u, j>>] = before[<<u, j>>]
               /\ blame'[<<u, j>>] = blame[<<u, j>>] /\ seen'[<<u, j>>] = seen[<<u, j>>]
               /\ \A kind \in Kinds : status'[u][<<kind, j>>] = status[u][<<kind, j>>]
    PROVE  Whole(u)' /\ \A j \in Slots : Each(u, j)'
<1>1. Whole(u) /\ \A j \in Slots : Each(u, j)
  BY DEF TInv
<1>2. items[u] \subseteq Slots
  BY DEF TInv, Types
<1>3. \A states : In(u, states)' = In(u, states)
  BY <1>2 DEF In
<1>4. Suffices(u)' <=> Suffices(u)
  BY <1>3 DEF Suffices
<1>5. Whole(u)'
  BY <1>1, <1>4 DEF Whole, Sequential, At
<1>6. ASSUME NEW j \in Slots PROVE Each(u, j)'
  <2>1. Orderly(u, j)' <=> Orderly(u, j)
    BY DEF Orderly, At, Kinds
  <2> QED BY <1>1, <2>1 DEF Each, Sequential, At, Kind
<1> QED BY <1>5, <1>6

LEMMA OneSlot ==
    ASSUME TInv, NEW t \in Teams, NEW i \in Slots, Types', Elsewhere(t, i),
           run[t] = "execute", Each(t, i)', KeepsEvidence(t, i), KeepsMembers(t, i),
           Sequential(t) => \A j \in Slots \ {i} : At(t, j) \notin Busy
    PROVE  TInv'
<1>1. \A u \in Teams \ {t} : Whole(u)' /\ \A j \in Slots : Each(u, j)'
  BY OtherTeam DEF Elsewhere
<1>2. ASSUME NEW j \in Slots \ {i} PROVE Each(t, j)'
  <2>1. Each(t, j) /\ Orderly(t, j)
    BY DEF TInv, Each
  <2>2. /\ At(t, j)' = At(t, j) /\ blame'[<<t, j>>] = blame[<<t, j>>]
        /\ before'[<<t, j>>] = before[<<t, j>>] /\ seen'[<<t, j>>] = seen[<<t, j>>]
        /\ \A kind \in Kinds : status'[t][<<kind, j>>] = status[t][<<kind, j>>]
        /\ UNCHANGED <<run, fsm, policy, items, fresh>>
    BY DEF Elsewhere, At
  <2>3. Orderly(t, j)'
    <3>1. blame'[<<t, j>>] \in {0, j} \cup crossed'[t]
      BY <2>1, <2>2 DEF Orderly, KeepsMembers
    <3>2. ASSUME fresh'[t], At(t, j)' \in Busy, NEW k \in 1 .. Len(born'[t]), k > before'[<<t, j>>]
          PROVE  born'[t][k] \in {j} \cup crossed'[t]
      BY <2>1, <2>2, <3>2 DEF Orderly, KeepsMembers
    <3>3. fresh'[t] /\ At(t, j)' \in {"running", "descending"} =>
              reported'[t] \subseteq seen'[<<t, j>>] \cup raced'[t]
      BY <2>1, <2>2 DEF Orderly, KeepsEvidence
    <3>4. status'[t][<<"agent", j>>] = status[t][<<"agent", j>>]
      BY <2>2 DEF Kinds
    <3>5. crossed[t] \subseteq crossed'[t]
      BY DEF KeepsMembers
    <3>6. j \in items'[t] /\ j \notin crossed'[t] =>
              /\ status'[t][<<"agent", j>>] = "failed" => At(t, j)' \in Failed
              /\ At(t, j)' = "completed" => status'[t][<<"agent", j>>] = "completed"
      BY <2>1, <2>2, <3>4, <3>5 DEF Orderly
    <3>7. Failed' = Failed /\ Busy' = Busy
      BY DEF Failed, Busy
    <3> QED BY <3>1, <3>2, <3>3, <3>6, <3>7 DEF Orderly
  <2> QED BY <2>1, <2>2, <2>3 DEF Each, Kind
<1>3. Whole(t)'
  BY DEF Whole, Elsewhere, Sequential, At, KeepsEvidence, KeepsMembers
<1> QED BY <1>1, <1>2, <1>3 DEF TInv

-----------------------------------------------------------------------------
(* The steps of a member. *)

LEMMA AtWork ==
    ASSUME TInv, NEW t \in Teams, NEW i \in Slots, At(t, i) \in Busy
    PROVE  /\ run[t] = "execute" /\ i \in items[t] /\ Each(t, i) /\ Types
           /\ At(t, i) \in {"resolving", "spawning", "created", "closing"} => fresh[t]
           /\ Orderly(t, i) /\ reported[t] \subseteq cache[t] \cup raced[t]
           /\ Sequential(t) => /\ raced[t] = {} /\ crossed[t] = {}
                               /\ \A j \in Slots \ {i} : At(t, j) \notin Busy
<1>1. Whole(t) /\ Each(t, i) /\ Types
  BY DEF TInv
<1> QED BY <1>1, SMT DEF Each, Whole, Busy

\* Only the execution of slot i changes.
LEMMA SlotOf ==
    ASSUME Types, NEW t \in Teams, NEW i \in Slots, NEW v \in SlotStates,
           slot' = [slot EXCEPT ![<<t, i>>] = v]
    PROVE  /\ slot' \in [Agents -> SlotStates] /\ slot'[<<t, i>>] = v
           /\ \A u \in Teams, j \in Slots : u # t \/ j # i => slot'[<<u, j>>] = slot[<<u, j>>]
<1>1. slot \in [Agents -> SlotStates] /\ <<t, i>> \in Agents
  BY DEF Types, Agents
<1> HIDE DEF SlotStates
<1>2. \A u \in Teams, j \in Slots : <<u, j>> \in Agents
  BY DEF Agents
<1> QED BY <1>1, <1>2

\* One record changes.
Marks(t, k, v) == status' = [status EXCEPT ![t][k] = v]

LEMMA StatusOf ==
    ASSUME Types, NEW t \in Teams, NEW k \in Keys, NEW v \in Statuses, Marks(t, k, v)
    PROVE  /\ status' \in [Teams -> [Keys -> Statuses]] /\ status'[t][k] = v
           /\ \A u \in Teams, l \in Keys : u # t \/ l # k => status'[u][l] = status[u][l]
<1>1. status \in [Teams -> [Keys -> Statuses]]
  BY DEF Types
<1> HIDE DEF Statuses, Keys
<1>2. status' = [status EXCEPT ![t] = [status[t] EXCEPT ![k] = v]]
  BY <1>1 DEF Marks
<1>3. [status[t] EXCEPT ![k] = v] \in [Keys -> Statuses]
  BY <1>1
<1>4. \A u \in Teams : status'[u] = IF u = t THEN [status[t] EXCEPT ![k] = v] ELSE status[u]
  BY <1>1, <1>2
<1>5. status' \in [Teams -> [Keys -> Statuses]]
  BY <1>1, <1>2, <1>3
<1>6. \A l \in Keys : [status[t] EXCEPT ![k] = v][l] = IF l = k THEN v ELSE status[t][l]
  BY <1>1
<1> QED BY <1>4, <1>5, <1>6

LEMMA KeyOf ==
    ASSUME NEW t \in Teams, NEW i \in Slots
    PROVE  /\ Key(t, i) = <<Kind(t), i>> /\ Kind(t) \in Kinds /\ Key(t, i) \in Keys
           /\ \A kind \in Kinds, j \in Slots :
                  <<kind, j>> \in Keys /\ (<<kind, j>> = Key(t, i) <=> kind = Kind(t) /\ j = i)
  BY DEF Key, Kind, Kinds, Keys

\* The key of a slot's member is no other slot's, and no plan's.
LEMMA MemberKey ==
    ASSUME NEW i \in Slots, NEW j \in Slots, NEW kind \in Kinds
    PROVE  /\ <<"agent", i>> \in Keys /\ <<kind, j>> \in Keys
           /\ j # i \/ kind = "plan" => <<kind, j>> # <<"agent", i>>
<1>1. <<"agent", i>> \in Keys /\ <<kind, j>> \in Keys
  BY DEF Keys, Kinds
<1>2. <<kind, j>> = <<"agent", i>> => kind = "agent" /\ j = i
  OBVIOUS
<1> QED BY <1>1, <1>2

\* A failure is blamed on the member the slot created, on one created beside it, or on
\* nobody.
LEMMA CreatedItself ==
    ASSUME TInv, NEW t \in Teams, NEW i \in Slots, At(t, i) \in Busy
    PROVE  CreatedAgent(t, i) \in Nat /\ CreatedAgent(t, i) \in {0, i} \cup crossed[t]
<1>1. born[t] \in Seq(Slots) /\ before[<<t, i>>] \in Nat /\ Slots \subseteq Nat
  BY DEF TInv, Types, Agents, Slots
<1>2. Orderly(t, i)
  BY AtWork
<1>3. CASE fresh[t] /\ Len(born[t]) > before[<<t, i>>]
  <2>1. before[<<t, i>>] + 1 \in 1 .. Len(born[t]) /\ before[<<t, i>>] + 1 > before[<<t, i>>]
    BY <1>1, <1>3
  <2>2. born[t][before[<<t, i>>] + 1] \in Slots
    BY <1>1, <2>1
  <2>3. born[t][before[<<t, i>>] + 1] \in {i} \cup crossed[t]
    BY <1>2, <1>3, <2>1 DEF Orderly
  <2>4. CreatedAgent(t, i) = born[t][before[<<t, i>>] + 1]
    BY <1>3 DEF CreatedAgent
  <2> QED BY <1>1, <2>2, <2>3, <2>4
<1>4. CASE ~(fresh[t] /\ Len(born[t]) > before[<<t, i>>])
  BY <1>4 DEF CreatedAgent
<1> QED BY <1>3, <1>4

\* The evidence of the other teams is left alone.
EvidenceOf(t) ==
    /\ cache' \in [Teams -> SUBSET Agents] /\ reported' \in [Teams -> SUBSET Agents]
    /\ raced' \in [Teams -> SUBSET Agents]
    /\ \A u \in Teams \ {t} :
           cache'[u] = cache[u] /\ reported'[u] = reported[u] /\ raced'[u] = raced[u]

LEMMA Failing ==
    ASSUME TInv, NEW t \in Teams, NEW i \in Slots, At(t, i) \in Busy,
           NEW how \in {"failed", "handedOver"}, FailMember(t, i, how),
           UNCHANGED <<teamVars, born, crossed, items, fresh, before, seen>>,
           EvidenceOf(t), KeepsEvidence(t, i)
    PROVE  TInv'
<1>1. Types /\ Each(t, i) /\ run[t] = "execute" /\ i \in items[t]
  BY AtWork
<1>2. /\ slot' \in [Agents -> SlotStates] /\ slot'[<<t, i>>] = how
      /\ \A u \in Teams, j \in Slots : u # t \/ j # i => slot'[<<u, j>>] = slot[<<u, j>>]
  BY <1>1, SlotOf DEF FailMember, SlotStates, Failed
<1>3. /\ status' \in [Teams -> [Keys -> Statuses]] /\ status'[t][Key(t, i)] = "failed"
      /\ \A u \in Teams, l \in Keys : u # t \/ l # Key(t, i) => status'[u][l] = status[u][l]
  <2>1. Marks(t, Key(t, i), "failed") /\ Key(t, i) \in Keys /\ "failed" \in Statuses
    BY KeyOf DEF FailMember, Marks, Statuses
  <2> QED BY <1>1, <2>1, StatusOf
<1>4. /\ blame' \in [Agents -> Nat] /\ blame'[<<t, i>>] = CreatedAgent(t, i)
      /\ \A u \in Teams, j \in Slots : u # t \/ j # i => blame'[<<u, j>>] = blame[<<u, j>>]
  BY <1>1, CreatedItself DEF FailMember, Types, Agents
<1>5. UNCHANGED <<run, fsm, policy, plans, born, crossed, items, fresh, before, seen>>
  BY DEF teamVars
<1>6. Types'
  BY <1>1, <1>2, <1>3, <1>4, <1>5 DEF Types, EvidenceOf
<1>7. Elsewhere(t, i)
  BY <1>2, <1>3, <1>4, <1>5, KeyOf DEF Elsewhere, EvidenceOf
<1>8. At(t, i)' = how /\ how \notin Busy /\ how \in Failed /\ how # "completed"
  BY <1>2 DEF At, Busy, Failed
<1>9. ASSUME NEW kind \in Kinds PROVE status'[t][<<kind, i>>] # "running"
  <2>1. <<kind, i>> \in Keys /\ (<<kind, i>> = Key(t, i) <=> kind = Kind(t))
    BY KeyOf
  <2>2. CASE kind = Kind(t)
    BY <1>3, <2>1, <2>2
  <2>3. CASE kind # Kind(t)
    <3>1. status[t][<<kind, i>>] # "running"
      BY <1>1, <2>3 DEF Each
    <3>2. status'[t][<<kind, i>>] = status[t][<<kind, i>>]
      BY <1>3, <2>1, <2>3
    <3> QED BY <3>1, <3>2
  <2> QED BY <2>2, <2>3
<1>10. Orderly(t, i)'
  BY <1>4, <1>5, <1>8, CreatedItself DEF Orderly, Busy
<1>11. Each(t, i)'
  BY <1>1, <1>5, <1>8, <1>9, <1>10 DEF Each, Busy
<1> QED BY <1>1, <1>5, <1>6, <1>7, <1>11, AtWork, KeptAlike, OneSlot

\* A member is started only while nobody is at work, where the team is sequential.
LEMMA NobodyAtWork ==
    ASSUME TInv, NEW t \in Teams, Sequential(t),
           Cardinality(In(t, Busy)) < Width(t)
    PROVE  \A j \in Slots : run[t] = "execute" => At(t, j) \notin Busy
<1>1. In(t, Busy) \subseteq 1 .. MaxMembers
  BY DEF TInv, Types, In, Slots
<1>2. IsFiniteSet(In(t, Busy))
  BY <1>1, TeamRunAssumption, FS_Interval, FS_Subset DEF TeamRunAssumption
<1>3. Cardinality(In(t, Busy)) \in Nat /\ (Cardinality(In(t, Busy)) = 0 <=> In(t, Busy) = {})
  BY <1>2, FS_CardinalityType, FS_EmptySet
<1>4. In(t, Busy) = {}
  BY <1>3 DEF Width, Sequential
<1>5. \A j \in Slots : At(t, j) # "idle" => j \in items[t]
  BY DEF TInv, Each
<1> QED BY <1>4, <1>5 DEF In, At, Busy

LEMMA Starting ==
    ASSUME TInv, NEW t \in Teams, NEW i \in Slots, StartMember(t, i)
    PROVE  TInv'
<1>1. /\ Types /\ Each(t, i) /\ run[t] = "execute" /\ i \in items[t] /\ At(t, i) = "idle"
      /\ Whole(t)
  BY DEF TInv, StartMember, At
<1>2. UNCHANGED <<run, fsm, policy, plans, born, crossed, items, fresh, blame, cache, seen,
                  reported, raced>>
  BY DEF StartMember, teamVars, evidenceVars
<1>3. /\ Sequential(t) => \A j \in Slots \ {i} : At(t, j) \notin Busy
      /\ KeepsEvidence(t, i) /\ KeepsMembers(t, i)
  BY <1>1, <1>2, NobodyAtWork, KeptAlike DEF StartMember
<1>4. \A kind \in Kinds : status[t][<<kind, i>>] # "running"
  BY <1>1 DEF Each, Busy
<1>5. CASE slot' = [slot EXCEPT ![<<t, i>>] = "blocked"] /\ UNCHANGED <<status, before>>
  <2>1. /\ slot' \in [Agents -> SlotStates] /\ slot'[<<t, i>>] = "blocked"
        /\ \A u \in Teams, j \in Slots : u # t \/ j # i => slot'[<<u, j>>] = slot[<<u, j>>]
    BY <1>1, <1>5, SlotOf DEF SlotStates, Failed
  <2>2. Types'
    BY <1>1, <1>2, <1>5, <2>1 DEF Types
  <2>3. Elsewhere(t, i)
    BY <1>2, <1>5, <2>1 DEF Elsewhere
  <2>4. At(t, i)' = "blocked"
    BY <2>1 DEF At
  <2>5. Orderly(t, i)'
    BY <1>1, <1>2, <1>5, <2>4 DEF Each, Orderly, Failed, Busy
  <2>6. Each(t, i)'
    BY <1>1, <1>2, <1>4, <1>5, <2>4, <2>5 DEF Each, Busy
  <2> QED BY <1>1, <1>3, <2>2, <2>3, <2>6, OneSlot
<1>6. CASE /\ slot' = [slot EXCEPT ![<<t, i>>] = IF fresh[t] THEN "resolving" ELSE "running"]
           /\ status' = [status EXCEPT ![t][Key(t, i)] = "running"]
           /\ before' = [before EXCEPT ![<<t, i>>] = Len(born[t])]
  <2> DEFINE to == IF fresh[t] THEN "resolving" ELSE "running"
  <2>1. /\ slot' \in [Agents -> SlotStates] /\ slot'[<<t, i>>] = to
        /\ \A u \in Teams, j \in Slots : u # t \/ j # i => slot'[<<u, j>>] = slot[<<u, j>>]
    <3>1. to \in SlotStates
      BY DEF SlotStates, Busy
    <3>2. slot' = [slot EXCEPT ![<<t, i>>] = to]
      BY <1>6
    <3> HIDE DEF to
    <3> QED BY <1>1, <3>1, <3>2, SlotOf
  <2>2. /\ status' \in [Teams -> [Keys -> Statuses]] /\ status'[t][Key(t, i)] = "running"
        /\ \A u \in Teams, l \in Keys : u # t \/ l # Key(t, i) => status'[u][l] = status[u][l]
    <3>1. Marks(t, Key(t, i), "running") /\ Key(t, i) \in Keys /\ "running" \in Statuses
      BY <1>6, KeyOf DEF Marks, Statuses
    <3> QED BY <1>1, <3>1, StatusOf
  <2>3. /\ before' \in [Agents -> Nat] /\ before'[<<t, i>>] = Len(born[t])
        /\ \A u \in Teams, j \in Slots : u # t \/ j # i => before'[<<u, j>>] = before[<<u, j>>]
    <3>1. before \in [Agents -> Nat] /\ Len(born[t]) \in Nat
      BY <1>1 DEF Types
    <3> QED BY <1>6, <3>1 DEF Agents
  <2>4. Types'
    BY <1>1, <1>2, <2>1, <2>2, <2>3 DEF Types
  <2>5. Elsewhere(t, i)
    BY <1>2, <2>1, <2>2, <2>3, KeyOf DEF Elsewhere
  <2>6. At(t, i)' = to /\ to \in Busy /\ (to = "resolving" => fresh[t]) /\ (to = "running" => ~fresh[t])
    BY <2>1 DEF At, Busy
  <2>7. to \in {"resolving", "running"}
    OBVIOUS
  <2> HIDE DEF to
  <2>8. \A kind \in Kinds : /\ status'[t][<<kind, i>>] = "running" => kind = Kind(t)
                            /\ kind # Kind(t) => status'[t][<<kind, i>>] = status[t][<<kind, i>>]
                            /\ kind = Kind(t) => status'[t][<<kind, i>>] = "running"
    BY <1>4, <2>2, KeyOf
  <2>9. Orderly(t, i)'
    <3>1. Orderly(t, i)
      BY <1>1 DEF Each
    <3>2. ASSUME i \in items[t], i \notin crossed[t] PROVE status'[t][<<"agent", i>>] # "failed"
      <4>1. status[t][<<"agent", i>>] # "failed"
        BY <1>1, <3>1, <3>2 DEF Orderly, Failed
      <4> QED BY <2>8, <4>1 DEF Kinds
    <3>3. before'[<<t, i>>] = Len(born'[t]) /\ Len(born[t]) \in Nat
      BY <1>1, <1>2, <2>3 DEF Types
    <3>4. \A k \in 1 .. Len(born'[t]) : ~(k > before'[<<t, i>>])
      BY <3>3
    <3>5. blame'[<<t, i>>] \in {0, i} \cup crossed'[t]
      BY <1>2, <3>1 DEF Orderly
    <3>6. At(t, i)' \in {"running", "descending"} => ~fresh'[t]
      BY <1>2, <2>6, <2>7
    <3>7. At(t, i)' # "completed"
      BY <2>6, <2>7
    <3> QED BY <1>2, <3>2, <3>4, <3>5, <3>6, <3>7 DEF Orderly
  <2>10. Kind(t)' = Kind(t) /\ (Sequential(t)' <=> Sequential(t))
    BY <1>2 DEF Kind, Sequential
  <2>11. Each(t, i)'
    <3>1. \A kind \in Kinds : status'[t][<<kind, i>>] = "running" => kind = Kind(t)' /\ At(t, i)' \in Busy
      BY <2>6, <2>8, <2>10
    <3> QED BY <1>1, <1>2, <2>6, <2>7, <2>9, <2>10, <3>1 DEF Each
  <2> QED BY <1>1, <1>3, <2>4, <2>5, <2>11, OneSlot
<1> QED BY <1>5, <1>6 DEF StartMember

\* A step that leaves the slot busy and every record of a member alone.
LEMMA Moving ==
    ASSUME TInv, NEW t \in Teams, NEW i \in Slots, At(t, i) \in Busy, NEW v \in Busy,
           slot' = [slot EXCEPT ![<<t, i>>] = v],
           UNCHANGED <<teamVars, born, crossed, status, items, fresh, before, blame>>,
           seen' \in [Agents -> SUBSET Agents], EvidenceOf(t), KeepsEvidence(t, i),
           \A u \in Teams, j \in Slots : u # t \/ j # i => seen'[<<u, j>>] = seen[<<u, j>>],
           v \in {"resolving", "spawning", "created", "closing"} => fresh[t],
           fresh[t] /\ v \in {"running", "descending"} =>
               reported'[t] \subseteq seen'[<<t, i>>] \cup raced'[t]
    PROVE  TInv'
<1>1. /\ Types /\ Each(t, i) /\ run[t] = "execute" /\ i \in items[t] /\ Orderly(t, i)
      /\ Sequential(t) => \A j \in Slots \ {i} : At(t, j) \notin Busy
  BY AtWork
<1>2. /\ slot' \in [Agents -> SlotStates] /\ slot'[<<t, i>>] = v
      /\ \A u \in Teams, j \in Slots : u # t \/ j # i => slot'[<<u, j>>] = slot[<<u, j>>]
  BY <1>1, SlotOf DEF SlotStates
<1>3. UNCHANGED <<run, fsm, policy, plans, born, crossed, status, items, fresh, before, blame>>
  BY DEF teamVars
<1>4. Types'
  BY <1>1, <1>2, <1>3 DEF Types, EvidenceOf
<1>5. Elsewhere(t, i)
  BY <1>2, <1>3 DEF Elsewhere, EvidenceOf
<1>6. At(t, i)' = v
  BY <1>2 DEF At
<1>7. Orderly(t, i)'
  <2>1. i \notin crossed[t] => status[t][<<"agent", i>>] # "failed"
    BY <1>1 DEF Orderly, Busy, Failed
  <2>2. v # "completed"
    BY DEF Busy
  <2> QED BY <1>1, <1>3, <1>6, <2>1, <2>2 DEF Orderly
<1>8. Each(t, i)'
  <2>1. Kind(t)' = Kind(t) /\ At(t, i)' \in Busy
    BY <1>3, <1>6 DEF Kind
  <2>2. \A kind \in Kinds : status'[t][<<kind, i>>] = "running" => kind = Kind(t)' /\ At(t, i)' \in Busy
    BY <1>1, <1>3, <2>1 DEF Each
  <2> QED BY <1>1, <1>3, <1>6, <1>7, <2>1, <2>2 DEF Each, Busy
<1> QED BY <1>1, <1>3, <1>4, <1>5, <1>8, KeptAlike, OneSlot

LEMMA Spawning ==
    ASSUME TInv, NEW t \in Teams, NEW i \in Slots,
           CheckSpawn(t, i) \/ FailToCreate(t, i) \/ RunMember(t, i)
    PROVE  TInv'
<1>0. At(t, i) \in Busy
  BY DEF CheckSpawn, FailToCreate, RunMember, At, Busy
<1>1. Types /\ reported[t] \subseteq cache[t] \cup raced[t] /\ (Sequential(t) => raced[t] = {})
  BY <1>0, AtWork
<1>2. At(t, i) \in {"resolving", "spawning", "created", "closing"} => fresh[t]
  BY <1>0, AtWork
<1>3. UNCHANGED <<cache, reported, raced>> => EvidenceOf(t) /\ KeepsEvidence(t, i)
  BY <1>1, KeptAlike DEF EvidenceOf, Types
<1>4. CASE CheckSpawn(t, i)
  <2>1. /\ UNCHANGED <<teamVars, born, crossed, items, fresh, before, evidenceVars>>
        /\ At(t, i) = "resolving" /\ UNCHANGED <<cache, seen, reported, raced>>
    BY <1>4 DEF CheckSpawn, At, evidenceVars
  <2>2. CASE MaySpawn(t)
    <3>1. slot' = [slot EXCEPT ![<<t, i>>] = "spawning"] /\ UNCHANGED <<blame, status>>
      BY <1>4, <2>2 DEF CheckSpawn
    <3>2. "spawning" \in Busy
      BY DEF Busy
    <3> QED BY <1>0, <1>1, <1>2, <1>3, <2>1, <3>1, <3>2, Moving DEF Types
  <2>3. CASE ~MaySpawn(t)
    <3>1. FailMember(t, i, "failed")
      BY <1>4, <2>3 DEF CheckSpawn
    <3> QED BY <1>0, <1>3, <2>1, <3>1, Failing
  <2> QED BY <2>2, <2>3
<1>5. CASE FailToCreate(t, i)
  <2>1. /\ UNCHANGED <<teamVars, born, crossed, items, fresh, before>>
        /\ UNCHANGED <<cache, seen, reported, raced>> /\ FailMember(t, i, "failed")
    BY <1>5 DEF FailToCreate, evidenceVars
  <2> QED BY <1>0, <1>3, <2>1, Failing
<1>6. CASE RunMember(t, i)
  <2> DEFINE shared == IF cache[t] # {} THEN cache[t] ELSE UNION {cache[u] : u \in Teams}
  <2>1. /\ UNCHANGED <<teamVars, born, crossed, status, items, fresh, before, blame, reported, raced>>
        /\ seen' = [seen EXCEPT ![<<t, i>>] = shared] /\ cache' = [cache EXCEPT ![t] = shared]
        /\ slot' = [slot EXCEPT ![<<t, i>>] = "running"]
    BY <1>6 DEF RunMember
  <2>2. shared \subseteq Agents /\ reported[t] \subseteq shared \cup raced[t]
    BY <1>1 DEF Types
  <2> HIDE DEF shared
  <2>3. /\ seen' \in [Agents -> SUBSET Agents] /\ cache' \in [Teams -> SUBSET Agents]
        /\ seen'[<<t, i>>] = shared /\ cache'[t] = shared
        /\ \A u \in Teams \ {t} : cache'[u] = cache[u]
        /\ \A u \in Teams, j \in Slots : u # t \/ j # i => seen'[<<u, j>>] = seen[<<u, j>>]
    BY <1>1, <2>1, <2>2 DEF Types, Agents
  <2>4. EvidenceOf(t)
    BY <1>1, <2>1, <2>3 DEF EvidenceOf, Types
  <2>5. KeepsEvidence(t, i)
    BY <1>1, <2>1, <2>2, <2>3 DEF KeepsEvidence
  <2>6. reported'[t] \subseteq seen'[<<t, i>>] \cup raced'[t]
    BY <2>1, <2>2, <2>3
  <2>7. PICK v \in Busy : v = "running"
    BY DEF Busy
  <2>8. slot' = [slot EXCEPT ![<<t, i>>] = v] /\ v \notin {"resolving", "spawning", "closing", "created"}
    BY <2>1, <2>7
  <2>9. UNCHANGED <<teamVars, born, crossed, status, items, fresh, before, blame>>
    BY <2>1
  <2> QED BY <1>0, <2>3, <2>4, <2>5, <2>6, <2>8, <2>9, Moving
<1> QED BY <1>4, <1>5, <1>6

LEMMA Descending ==
    ASSUME TInv, NEW t \in Teams, NEW i \in Slots,
           CheckDescendant(t, i) \/ CreateDescendant(t, i)
    PROVE  TInv'
<1>1. At(t, i) \in {"running", "descending"} /\ At(t, i) \in Busy
  BY DEF CheckDescendant, CreateDescendant, At, Busy
<1>2. Types /\ Orderly(t, i)
  BY <1>1, AtWork
<1>3. UNCHANGED <<teamVars, born, crossed, status, items, fresh, before, blame>>
  BY DEF CheckDescendant, CreateDescendant
<1>4. UNCHANGED <<seen, cache, reported, raced>>
  BY DEF CheckDescendant, CreateDescendant, evidenceVars
<1>5. fresh[t] => reported[t] \subseteq seen[<<t, i>>] \cup raced[t]
  BY <1>1, <1>2 DEF Orderly
<1>6. PICK v \in {"running", "descending"} : slot' = [slot EXCEPT ![<<t, i>>] = v]
  BY DEF CheckDescendant, CreateDescendant
<1>7. v \in Busy
  BY DEF Busy
<1>8. EvidenceOf(t) /\ KeepsEvidence(t, i)
  BY <1>2, <1>4, KeptAlike DEF EvidenceOf, Types
<1> QED BY <1>1, <1>2, <1>3, <1>4, <1>5, <1>6, <1>7, <1>8, Moving DEF Types

LEMMA Creating ==
    ASSUME TInv, NEW t \in Teams, NEW i \in Slots, CreateMember(t, i)
    PROVE  TInv'
<1>1. At(t, i) = "spawning" /\ At(t, i) \in Busy
  BY DEF CreateMember, At, Busy
<1>2. /\ Types /\ Each(t, i) /\ run[t] = "execute" /\ i \in items[t] /\ fresh[t]
      /\ Orderly(t, i)
      /\ Sequential(t) => crossed[t] = {} /\ \A j \in Slots \ {i} : At(t, j) \notin Busy
  BY <1>1, AtWork
<1>3. UNCHANGED <<run, fsm, policy, plans, items, fresh, before, blame, cache, seen, reported,
                  raced>>
  BY DEF CreateMember, teamVars, evidenceVars
<1>4. /\ slot' \in [Agents -> SlotStates] /\ slot'[<<t, i>>] = "created"
      /\ \A u \in Teams, j \in Slots : u # t \/ j # i => slot'[<<u, j>>] = slot[<<u, j>>]
  <2>1. "created" \in SlotStates /\ slot' = [slot EXCEPT ![<<t, i>>] = "created"]
    BY DEF CreateMember, SlotStates, Busy
  <2>2. Types
    BY <1>2
  <2> HIDE DEF SlotStates
  <2> QED BY <2>1, <2>2, SlotOf
<1>5. /\ status' \in [Teams -> [Keys -> Statuses]] /\ status'[t][<<"agent", i>>] = "pending"
      /\ \A u \in Teams, l \in Keys : u # t \/ l # <<"agent", i>> => status'[u][l] = status[u][l]
  <2>1. /\ Marks(t, <<"agent", i>>, "pending")
        /\ <<"agent", i>> \in Keys /\ "pending" \in Statuses
    BY DEF CreateMember, Marks, Keys, Statuses
  <2> QED BY <1>2, <2>1, StatusOf
<1>6. \A u \in Teams, j \in Slots, kind \in Kinds :
          u # t \/ j # i \/ kind = "plan" => status'[u][<<kind, j>>] = status[u][<<kind, j>>]
  BY <1>5, MemberKey
<1>7. /\ born' \in [Teams -> Seq(Slots)] /\ \A u \in Teams \ {t} : born'[u] = born[u]
      /\ Len(born'[t]) = Len(born[t]) + 1 /\ born'[t][Len(born[t]) + 1] = i
      /\ \A k \in 1 .. Len(born[t]) : born'[t][k] = born[t][k]
  <2>1. born \in [Teams -> Seq(Slots)] /\ born' = [born EXCEPT ![t] = Append(born[t], i)]
    BY <1>2 DEF Types, CreateMember
  <2>2. /\ Append(born[t], i) \in Seq(Slots) /\ Len(Append(born[t], i)) = Len(born[t]) + 1
        /\ Append(born[t], i)[Len(born[t]) + 1] = i
        /\ \A k \in 1 .. Len(born[t]) : Append(born[t], i)[k] = born[t][k]
    BY <2>1
  <2> QED BY <2>1, <2>2
<1>0. /\ crossed' \in [Teams -> SUBSET Slots] /\ \A u \in Teams \ {t} : crossed'[u] = crossed[u]
      /\ crossed'[t] = IF In(t, Busy) \ {i} # {} THEN crossed[t] \cup {i} ELSE crossed[t]
  <2> DEFINE C == IF In(t, Busy) \ {i} # {} THEN crossed[t] \cup {i} ELSE crossed[t]
  <2>1. crossed \in [Teams -> SUBSET Slots]
    BY <1>2 DEF Types
  <2>2. crossed' = [crossed EXCEPT ![t] = C] /\ C \subseteq Slots
    BY <2>1 DEF CreateMember
  <2> HIDE DEF C
  <2>3. crossed'[t] = C /\ crossed' \in [Teams -> SUBSET Slots]
        /\ \A u \in Teams \ {t} : crossed'[u] = crossed[u]
    BY <2>1, <2>2
  <2> QED BY <2>3 DEF C
<1>8. Types'
  BY <1>0, <1>2, <1>3, <1>4, <1>5, <1>7 DEF Types
<1>9. Elsewhere(t, i)
  BY <1>0, <1>3, <1>4, <1>6, <1>7 DEF Elsewhere
<1>13. KeepsMembers(t, i)
  <2>1. \A j \in In(t, Busy) : j \in Slots /\ At(t, j) \in Busy
    BY <1>2 DEF In, At, Types
  <2>2. ASSUME NEW j \in Slots \ {i}, At(t, j) \in Busy PROVE j \in In(t, Busy) \ {i}
    BY <2>2, AtWork DEF In, At
  <2>3. Sequential(t) => crossed'[t] = {}
    BY <1>0, <1>2, <2>1
  <2>4. ASSUME NEW j \in Slots \ {i}, At(t, j) \in Busy, NEW k \in 1 .. Len(born'[t])
        PROVE  \/ k \in 1 .. Len(born[t]) /\ born'[t][k] = born[t][k]
               \/ born'[t][k] \in crossed'[t]
    <3>1. i \in crossed'[t]
      BY <1>0, <2>2, <2>4
    <3>2. Len(born[t]) \in Nat
      BY <1>2 DEF Types
    <3>3. k \in 1 .. Len(born[t]) \/ k = Len(born[t]) + 1
      BY <1>7, <3>2
    <3> QED BY <1>7, <3>1, <3>3
  <2>5. crossed[t] \subseteq crossed'[t]
    BY <1>0
  <2> QED BY <2>3, <2>4, <2>5 DEF KeepsMembers
<1>10. At(t, i)' = "created" /\ At(t, i)' \in Busy
  BY <1>4 DEF At, Busy
<1>11. Orderly(t, i)'
  <2>1. ASSUME NEW k \in 1 .. Len(born'[t]), k > before'[<<t, i>>]
        PROVE  born'[t][k] \in {i} \cup crossed'[t]
    <3>1. Len(born[t]) \in Nat
      BY <1>2 DEF Types
    <3>2. k \in 1 .. Len(born[t]) \/ k = Len(born[t]) + 1
      BY <1>7, <3>1
    <3>3. k \in 1 .. Len(born[t]) => born[t][k] \in {i} \cup crossed[t]
      BY <1>1, <1>2, <1>3, <2>1 DEF Orderly
    <3> QED BY <1>0, <1>7, <3>2, <3>3
  <2>2. blame'[<<t, i>>] \in {0, i} \cup crossed'[t]
    BY <1>0, <1>2, <1>3 DEF Orderly
  <2> QED BY <1>5, <1>10, <2>1, <2>2 DEF Orderly
<1>12. Each(t, i)'
  <2>1. Kind(t) = "plan" /\ Kind(t)' = "plan"
    BY <1>2, <1>3 DEF Kind
  <2>2. status'[t][<<"agent", i>>] # "running"
    BY <1>5
  <2>3. \A kind \in Kinds : status'[t][<<kind, i>>] = "running" => kind = Kind(t)' /\ At(t, i)' \in Busy
    BY <1>10, <2>1, <2>2 DEF Kinds
  <2> QED BY <1>2, <1>3, <1>10, <1>11, <2>1, <2>3 DEF Each
<1> QED BY <1>2, <1>3, <1>8, <1>9, <1>12, <1>13, KeptAlike, OneSlot

\* A member comes to its end with its result in.
LEMMA Ending ==
    ASSUME TInv, NEW t \in Teams, NEW i \in Slots, At(t, i) \in Busy,
           NEW v \in {"completed", "failed"}, slot' = [slot EXCEPT ![<<t, i>>] = v],
           UNCHANGED <<teamVars, born, crossed, items, fresh, before, blame>>,
           UNCHANGED <<cache, seen, reported, raced>>,
           status' \in [Teams -> [Keys -> Statuses]], status'[t][<<"agent", i>>] = "completed",
           status'[t][<<"plan", i>>] # "running",
           \A u \in Teams, j \in Slots, kind \in Kinds :
               u # t \/ j # i => status'[u][<<kind, j>>] = status[u][<<kind, j>>]
    PROVE  TInv'
<1>1. /\ Types /\ Each(t, i) /\ run[t] = "execute" /\ i \in items[t] /\ Orderly(t, i)
      /\ Sequential(t) => \A j \in Slots \ {i} : At(t, j) \notin Busy
  BY AtWork
<1>2. /\ slot' \in [Agents -> SlotStates] /\ slot'[<<t, i>>] = v
      /\ \A u \in Teams, j \in Slots : u # t \/ j # i => slot'[<<u, j>>] = slot[<<u, j>>]
  <2>1. v \in SlotStates
    BY DEF SlotStates, Failed
  <2> QED BY <1>1, <2>1, SlotOf
<1>3. UNCHANGED <<run, fsm, policy, plans, born, crossed, items, fresh, before, blame, cache, seen,
                  reported, raced>>
  BY DEF teamVars
<1>4. Types'
  BY <1>1, <1>2, <1>3 DEF Types
<1>5. Elsewhere(t, i)
  BY <1>2, <1>3 DEF Elsewhere
<1>6. At(t, i)' = v /\ v \notin Busy
  BY <1>2 DEF At, Busy
<1>7. Orderly(t, i)'
  BY <1>1, <1>3, <1>6 DEF Orderly, Busy, Failed
<1>8. \A kind \in Kinds : status'[t][<<kind, i>>] # "running"
  BY DEF Kinds
<1>9. Each(t, i)'
  BY <1>1, <1>3, <1>6, <1>7, <1>8 DEF Each, Busy
<1> QED BY <1>1, <1>3, <1>4, <1>5, <1>9, KeptAlike, OneSlot

\* The records of a slot's member and of its plan change.
Both(t, i, p) ==
    status' = [status EXCEPT ![t] = [@ EXCEPT ![<<"agent", i>>] = "completed",
                                              ![<<"plan", i>>] = p]]

LEMMA BothOf ==
    ASSUME Types, NEW t \in Teams, NEW i \in Slots, NEW p \in Statuses, Both(t, i, p)
    PROVE  /\ status' \in [Teams -> [Keys -> Statuses]]
           /\ status'[t][<<"agent", i>>] = "completed" /\ status'[t][<<"plan", i>>] = p
           /\ \A u \in Teams, j \in Slots, kind \in Kinds :
                  u # t \/ j # i => status'[u][<<kind, j>>] = status[u][<<kind, j>>]
<1> DEFINE row == [status[t] EXCEPT ![<<"agent", i>>] = "completed", ![<<"plan", i>>] = p]
<1>1. status \in [Teams -> [Keys -> Statuses]]
  BY DEF Types
<1>2. <<"agent", i>> \in Keys /\ <<"plan", i>> \in Keys /\ "completed" \in Statuses
  BY DEF Keys, Statuses
<1>3. \A k \in Keys : row[k] = IF k = <<"plan", i>> THEN p
                               ELSE IF k = <<"agent", i>> THEN "completed" ELSE status[t][k]
  <2> HIDE DEF Keys, Statuses
  <2> QED BY <1>1, <1>2
<1>4. row \in [Keys -> Statuses]
  <2> HIDE DEF Keys, Statuses
  <2> QED BY <1>1, <1>2
<1>5. status' = [status EXCEPT ![t] = row]
  BY <1>1 DEF Both
<1> HIDE DEF row
<1>6. /\ status' \in [Teams -> [Keys -> Statuses]] /\ status'[t] = row
      /\ \A u \in Teams \ {t} : status'[u] = status[u]
  BY <1>1, <1>4, <1>5
<1>7. <<"agent", i>> # <<"plan", i>>
  OBVIOUS
<1>8. \A j \in Slots, kind \in Kinds :
          /\ <<kind, j>> \in Keys
          /\ j # i => <<kind, j>> # <<"agent", i>> /\ <<kind, j>> # <<"plan", i>>
  BY DEF Keys, Kinds
<1>9. row[<<"agent", i>>] = "completed" /\ row[<<"plan", i>>] = p
  BY <1>2, <1>3, <1>7
<1>10. \A j \in Slots, kind \in Kinds : j # i => row[<<kind, j>>] = status[t][<<kind, j>>]
  BY <1>3, <1>8
<1> QED BY <1>6, <1>9, <1>10

\* What a member reports is added to what the team has to share.
LEMMA Reporting ==
    ASSUME TInv, NEW t \in Teams, NEW i \in Slots, At(t, i) \in Busy, NEW S \in SUBSET Agents,
           \/ UNCHANGED <<cache, reported, raced>>
           \/ cache' = [cache EXCEPT ![t] = S \cup {<<t, i>>}] /\ Report(t, i),
           reported[t] \subseteq S \cup raced[t]
    PROVE  EvidenceOf(t) /\ KeepsEvidence(t, i)
<1>1. /\ cache \in [Teams -> SUBSET Agents] /\ reported \in [Teams -> SUBSET Agents]
      /\ raced \in [Teams -> SUBSET Agents] /\ <<t, i>> \in Agents
  BY DEF TInv, Types, Agents
<1>2. Sequential(t) => raced[t] = {} /\ \A j \in Slots \ {i} : At(t, j) \notin Busy
  BY AtWork
<1>3. CASE UNCHANGED <<cache, reported, raced>>
  BY <1>1, <1>3, KeptAlike DEF EvidenceOf
<1>4. CASE cache' = [cache EXCEPT ![t] = S \cup {<<t, i>>}] /\ Report(t, i)
  <2> DEFINE new == S \cup {<<t, i>>}
             all == reported[t] \cup {<<t, i>>}
             race == IF In(t, {"running", "descending"}) \ {i} # {}
                     THEN raced[t] \cup {<<t, i>>} ELSE raced[t]
  <2>1. new \subseteq Agents /\ all \subseteq Agents /\ race \subseteq Agents
    BY <1>1
  <2>2. raced[t] \subseteq race /\ all \subseteq new \cup race
    OBVIOUS
  <2>3. \A j \in Slots \ {i} : At(t, j) \in {"running", "descending"} =>
            all \subseteq reported[t] \cup race
    <3>1. \A j \in Slots \ {i} : At(t, j) \in {"running", "descending"} =>
              j \in In(t, {"running", "descending"}) \ {i}
      BY AtWork DEF In, At, Busy
    <3> QED BY <3>1
  <2>4. Sequential(t) => race = {}
    <3>1. \A j \in In(t, {"running", "descending"}) : j \in Slots /\ At(t, j) \in Busy
      BY DEF In, At, Busy, TInv, Types
    <3> QED BY <1>2, <3>1
  <2>5. /\ cache' = [cache EXCEPT ![t] = new] /\ reported' = [reported EXCEPT ![t] = all]
        /\ raced' = [raced EXCEPT ![t] = race]
    BY <1>1, <1>4 DEF Report
  <2> HIDE DEF new, all, race
  <2>6. /\ EvidenceOf(t) /\ cache'[t] = new /\ reported'[t] = all /\ raced'[t] = race
    BY <1>1, <2>1, <2>5 DEF EvidenceOf
  <2> QED BY <2>2, <2>3, <2>4, <2>6 DEF KeepsEvidence
<1> QED BY <1>3, <1>4

LEMMA Running ==
    ASSUME TInv, NEW t \in Teams, NEW i \in Slots, MemberRan(t, i) \/ MemberFailed(t, i)
    PROVE  TInv'
<1>1. At(t, i) = "running" /\ At(t, i) \in Busy
  BY DEF MemberRan, MemberFailed, At, Busy
<1>2. Types /\ Each(t, i) /\ Orderly(t, i) /\ reported[t] \subseteq cache[t] \cup raced[t]
  BY <1>1, AtWork
<1>3. UNCHANGED <<teamVars, born, crossed, items, fresh, before>>
  BY DEF MemberRan, MemberFailed
<1>4. <<t, i>> \in Agents
  BY DEF Agents
<1>5. CASE MemberRan(t, i) /\ fresh[t]
  <2>1. slot' = [slot EXCEPT ![<<t, i>>] = "closing"] /\ UNCHANGED <<status, blame>>
    BY <1>5 DEF MemberRan
  <2>2. seen' = [seen EXCEPT ![<<t, i>>] = {}]
    BY <1>5 DEF MemberRan
  <2>3. \/ cache' = [cache EXCEPT ![t] = seen[<<t, i>>] \cup {<<t, i>>}] /\ Report(t, i)
        \/ UNCHANGED <<cache, reported, raced>>
    BY <1>5 DEF MemberRan
  <2>4. reported[t] \subseteq seen[<<t, i>>] \cup raced[t]
    BY <1>1, <1>2, <1>5 DEF Orderly
  <2>5. /\ seen' \in [Agents -> SUBSET Agents]
        /\ \A u \in Teams, j \in Slots : u # t \/ j # i => seen'[<<u, j>>] = seen[<<u, j>>]
    BY <1>2, <1>4, <2>2 DEF Types, Agents
  <2>6. EvidenceOf(t) /\ KeepsEvidence(t, i)
    <3>1. seen[<<t, i>>] \in SUBSET Agents
      BY <1>2, <1>4 DEF Types
    <3> QED BY <1>1, <1>5, <2>3, <2>4, <3>1, Reporting
  <2>7. "closing" \in Busy
    BY DEF Busy
  <2>8. UNCHANGED <<teamVars, born, crossed, status, items, fresh, before, blame>>
    BY <1>3, <2>1
  <2> QED BY <1>1, <1>5, <2>1, <2>5, <2>6, <2>7, <2>8, Moving
<1>6. CASE MemberRan(t, i) /\ ~fresh[t]
  <2>1. slot' = [slot EXCEPT ![<<t, i>>] = "completed"] /\ UNCHANGED <<blame, cache, seen, reported, raced>>
    BY <1>6 DEF MemberRan, evidenceVars
  <2>2. status' = [status EXCEPT ![t][<<"agent", i>>] = "completed"]
    BY <1>6 DEF MemberRan
  <2>3. Types /\ <<"agent", i>> \in Keys /\ "completed" \in Statuses
    BY <1>2 DEF Keys, Statuses
  <2>4. /\ status' \in [Teams -> [Keys -> Statuses]] /\ status'[t][<<"agent", i>>] = "completed"
        /\ \A u \in Teams, l \in Keys : u # t \/ l # <<"agent", i>> => status'[u][l] = status[u][l]
    <3>1. Marks(t, <<"agent", i>>, "completed")
      BY <2>2 DEF Marks
    <3> QED BY <2>3, <3>1, StatusOf
  <2>5. \A u \in Teams, j \in Slots, kind \in Kinds :
            u # t \/ j # i \/ kind = "plan" => status'[u][<<kind, j>>] = status[u][<<kind, j>>]
    BY <2>4, MemberKey
  <2>6. status'[t][<<"plan", i>>] # "running"
    BY <1>2, <1>6, <2>5 DEF Each, Kind, Kinds
  <2> QED BY <1>1, <1>3, <2>1, <2>4, <2>5, <2>6, Ending
<1>7. CASE MemberFailed(t, i)
  <2>1. PICK how \in {"failed", "handedOver"} : FailMember(t, i, how)
    BY <1>7 DEF MemberFailed
  <2>2. UNCHANGED seen
    BY <1>7 DEF MemberFailed
  <2>3. \/ UNCHANGED <<cache, reported, raced>>
        \/ fresh[t] /\ cache' = [cache EXCEPT ![t] = cache[t] \cup {<<t, i>>}] /\ Report(t, i)
    BY <1>7 DEF MemberFailed
  <2>4. EvidenceOf(t) /\ KeepsEvidence(t, i)
    <3>1. cache[t] \in SUBSET Agents
      BY <1>2 DEF Types
    <3>2. UNCHANGED <<cache, reported, raced>> => EvidenceOf(t) /\ KeepsEvidence(t, i)
      BY <1>2, KeptAlike DEF EvidenceOf, Types
    <3> QED BY <1>1, <1>2, <2>3, <3>1, <3>2, Reporting
  <2> QED BY <1>1, <1>3, <2>1, <2>2, <2>4, Failing
<1> QED BY <1>5, <1>6, <1>7

LEMMA Completing ==
    ASSUME TInv, NEW t \in Teams, NEW i \in Slots, CompleteMember(t, i) \/ FailToComplete(t, i)
    PROVE  TInv'
<1>1. At(t, i) = "closing" /\ At(t, i) \in Busy
  BY DEF CompleteMember, FailToComplete, At, Busy
<1>2. Types
  BY <1>1, AtWork
<1>3. UNCHANGED <<teamVars, born, crossed, items, fresh, before, cache, seen, reported, raced>>
  BY DEF CompleteMember, FailToComplete, evidenceVars
<1>4. CASE FailMember(t, i, "failed")
  <2>1. EvidenceOf(t) /\ KeepsEvidence(t, i)
    BY <1>2, <1>3, KeptAlike DEF EvidenceOf, Types
  <2> QED BY <1>1, <1>3, <1>4, <2>1, Failing
<1>5. ASSUME NEW p \in {"none", "failed"}, NEW v \in {"completed", "failed"},
             slot' = [slot EXCEPT ![<<t, i>>] = v], UNCHANGED blame, Both(t, i, p)
      PROVE  TInv'
  <2>1. p \in Statuses
    BY DEF Statuses
  <2>2. /\ status' \in [Teams -> [Keys -> Statuses]]
        /\ status'[t][<<"agent", i>>] = "completed" /\ status'[t][<<"plan", i>>] = p
        /\ \A u \in Teams, j \in Slots, kind \in Kinds :
               u # t \/ j # i => status'[u][<<kind, j>>] = status[u][<<kind, j>>]
    BY <1>2, <1>5, <2>1, BothOf
  <2> QED BY <1>1, <1>3, <1>5, <2>2, Ending
<1> QED BY <1>4, <1>5 DEF CompleteMember, FailToComplete, Both

LEMMA MemberSteps ==
    ASSUME TInv, NEW t \in Teams, NEW i \in Slots, Member(t, i)
    PROVE  TInv'
BY Starting, Spawning, Descending, Creating, Running, Completing DEF Member

-----------------------------------------------------------------------------
(* The steps of a team. *)

\* A team outside the execution of its members moves on, or nothing of it changes.
LEMMA MovingOn ==
    ASSUME TInv, Types', UNCHANGED <<policy, memberVars, evidenceVars>>,
           \A t \in Teams :
               \/ run'[t] = run[t] /\ fsm'[t] = fsm[t]
               \/ /\ run[t] \notin {"execute", "begun"} /\ run'[t] # "begun"
                  /\ run'[t] \in {"synthesize", "resulting", "closing"} /\ fsm'[t] # "S_team_failed"
                         => Suffices(t)
    PROVE  TInv'
<1>1. UNCHANGED <<policy, born, crossed, status, items, fresh, slot, before, blame, cache, seen,
                  reported, raced>>
  BY DEF memberVars, evidenceVars
<1>2. SUFFICES ASSUME NEW t \in Teams PROVE Whole(t)' /\ \A i \in Slots : Each(t, i)'
  BY DEF TInv
<1>3. Whole(t) /\ \A i \in Slots : Each(t, i)
  BY DEF TInv
<1>4. CASE run'[t] = run[t] /\ fsm'[t] = fsm[t]
  <2>1. \A j \in Slots :
            /\ slot'[<<t, j>>] = slot[<<t, j>>] /\ before'[<<t, j>>] = before[<<t, j>>]
            /\ blame'[<<t, j>>] = blame[<<t, j>>] /\ seen'[<<t, j>>] = seen[<<t, j>>]
            /\ \A kind \in Kinds : status'[t][<<kind, j>>] = status[t][<<kind, j>>]
    BY <1>1
  <2> QED BY <1>1, <1>4, <2>1, OtherTeam
<1>5. CASE /\ run[t] \notin {"execute", "begun"} /\ run'[t] # "begun"
           /\ run'[t] \in {"synthesize", "resulting", "closing"} /\ fsm'[t] # "S_team_failed"
                  => Suffices(t)
  <2>1. Suffices(t)' <=> Suffices(t)
    BY <1>1 DEF Suffices, In
  <2>2. Whole(t)'
    BY <1>1, <1>3, <1>5, <2>1 DEF Whole, Sequential, At
  <2>3. ASSUME NEW i \in Slots PROVE Each(t, i)'
    <3>1. At(t, i)' = At(t, i) /\ At(t, i) \notin Busy
      BY <1>1, <1>3, <1>5 DEF Each, At
    <3>2. Orderly(t, i)' <=> Orderly(t, i)
      BY <1>1 DEF Orderly, At
    <3> QED BY <1>1, <1>3, <1>5, <3>1, <3>2 DEF Each, Kind
  <2> QED BY <2>2, <2>3
<1> QED BY <1>4, <1>5

LEMMA Planning ==
    ASSUME TInv, NEW t \in Teams,
           Spend \/ SpawnTeam(t) \/ RegisterTeam(t) \/ FailToRegister(t) \/ SpawnAgentIntoTeam(t)
    PROVE  TInv'
<1>1. Types
  BY DEF TInv
<1>2. UNCHANGED <<policy, memberVars, evidenceVars>>
  BY DEF Spend, SpawnTeam, RegisterTeam, FailToRegister, SpawnAgentIntoTeam, teamVars
<1>3. UNCHANGED <<policy, born, crossed, status, items, fresh, slot, before, blame, cache, seen,
                  reported, raced>>
  BY <1>2 DEF memberVars, evidenceVars
<1>4. plans' \in [Teams -> SUBSET Slots]
  <2>1. CASE UNCHANGED plans
    BY <1>1, <2>1 DEF Types
  <2>2. CASE SpawnTeam(t)
    <3>1. PICK n \in Sizes[t] : UNCHANGED plans \/ plans' = [plans EXCEPT ![t] = 1 .. n]
      BY <2>2 DEF SpawnTeam
    <3>2. 1 .. n \subseteq Slots
      BY TeamRunAssumption DEF TeamRunAssumption, Slots
    <3> QED BY <1>1, <3>1, <3>2 DEF Types
  <2>3. CASE SpawnAgentIntoTeam(t)
    <3>1. PICK next \in Slots : plans' = [plans EXCEPT ![t] = plans[t] \cup {next}]
      BY <2>3 DEF SpawnAgentIntoTeam
    <3> QED BY <1>1, <3>1 DEF Types
  <2> QED BY <2>1, <2>2, <2>3 DEF Spend, RegisterTeam, FailToRegister, teamVars
<1>5. /\ run' \in [Teams -> Places] /\ fsm' \in [Teams -> DOMAIN Edges]
      /\ \A u \in Teams : \/ run'[u] = run[u] /\ fsm'[u] = fsm[u]
                          \/ /\ run[u] \notin {"execute", "begun"}
                             /\ run'[u] \in {"rejected", "registering", "planned"}
  <2>1. run \in [Teams -> Places] /\ fsm \in [Teams -> DOMAIN Edges]
    BY <1>1 DEF Types
  <2>2. CASE UNCHANGED <<run, fsm>>
    BY <2>1, <2>2
  <2>3. CASE /\ run[t] \in {"none", "registering"} /\ UNCHANGED fsm
             /\ \E v \in {"rejected", "registering", "planned"} : run' = [run EXCEPT ![t] = v]
    BY <2>1, <2>3 DEF Places
  <2>4. CASE FailToRegister(t)
    <3>1. /\ run' = [run EXCEPT ![t] = "rejected"] /\ fsm' = [fsm EXCEPT ![t] = "S_team_failed"]
          /\ run[t] = "registering"
      BY <2>4 DEF FailToRegister
    <3>2. "rejected" \in Places /\ "S_team_failed" \in DOMAIN Edges
      BY DEF Places, Edges
    <3> HIDE DEF Places
    <3> QED BY <2>1, <3>1, <3>2
  <2>5. Spend \/ SpawnAgentIntoTeam(t) => UNCHANGED <<run, fsm>>
    BY DEF Spend, SpawnAgentIntoTeam, teamVars
  <2>6. SpawnTeam(t) \/ RegisterTeam(t) =>
            /\ run[t] \in {"none", "registering"} /\ UNCHANGED fsm
            /\ \E v \in {"rejected", "registering", "planned"} : run' = [run EXCEPT ![t] = v]
    BY DEF SpawnTeam, RegisterTeam
  <2> QED BY <2>2, <2>3, <2>4, <2>5, <2>6
<1>6. Types'
  BY <1>1, <1>3, <1>4, <1>5 DEF Types
<1>7. \A u \in Teams :
          \/ run'[u] = run[u] /\ fsm'[u] = fsm[u]
          \/ /\ run[u] \notin {"execute", "begun"} /\ run'[u] # "begun"
             /\ run'[u] \in {"synthesize", "resulting", "closing"} /\ fsm'[u] # "S_team_failed"
                    => Suffices(u)
  BY <1>5
<1> QED BY <1>2, <1>6, <1>7, MovingOn

LEMMA Finishing ==
    ASSUME TInv, NEW t \in Teams, Synthesize(t) \/ SendResult(t) \/ Fail(t) \/ FailToClose(t)
    PROVE  TInv'
<1>1. Types /\ Whole(t)
  BY DEF TInv
<1>2. UNCHANGED <<policy, memberVars, evidenceVars>>
  BY DEF Synthesize, SendResult, Fail, FailToClose
<1>3. UNCHANGED <<policy, plans, born, crossed, status, items, fresh, slot, before, blame, cache,
                  seen, reported, raced>>
  BY <1>2 DEF memberVars, evidenceVars, Synthesize, SendResult, Fail, FailToClose
<1>4. PICK r \in {"resulting", "failing", "closing", "over"} : run' = [run EXCEPT ![t] = r]
  BY DEF Synthesize, SendResult, Fail, FailToClose
<1>5. PICK f \in DOMAIN Edges : fsm' = [fsm EXCEPT ![t] = f]
  <2>1. fsm \in [Teams -> DOMAIN Edges]
    BY <1>1 DEF Types
  <2>2. CASE UNCHANGED fsm
    BY <2>1, <2>2
  <2>3. "S_team_done" \in DOMAIN Edges /\ "S_team_failed" \in DOMAIN Edges
    BY DEF Edges
  <2>4. \/ UNCHANGED fsm
        \/ fsm' = [fsm EXCEPT ![t] = "S_team_done"]
        \/ fsm' = [fsm EXCEPT ![t] = "S_team_failed"]
    BY DEF Synthesize, SendResult, Fail, FailToClose
  <2> QED BY <2>2, <2>3, <2>4
<1>6. /\ run' \in [Teams -> Places] /\ fsm' \in [Teams -> DOMAIN Edges]
      /\ run'[t] = r /\ fsm'[t] = f
      /\ \A u \in Teams \ {t} : run'[u] = run[u] /\ fsm'[u] = fsm[u]
  <2>1. run \in [Teams -> Places] /\ fsm \in [Teams -> DOMAIN Edges]
    BY <1>1 DEF Types
  <2>2. r \in Places
    BY DEF Places
  <2> HIDE DEF Places
  <2> QED BY <1>4, <1>5, <2>1, <2>2
<1>7. Types'
  BY <1>1, <1>3, <1>6 DEF Types
<1>8. run[t] \in {"synthesize", "resulting", "failing", "closing"}
  BY DEF Synthesize, SendResult, Fail, FailToClose
<1>9. run'[t] \in {"synthesize", "resulting", "closing"} /\ fsm'[t] # "S_team_failed" => Suffices(t)
  <2>1. CASE Synthesize(t)
    BY <1>1, <2>1 DEF Synthesize, Whole
  <2>2. CASE SendResult(t)
    <3>1. SUFFICES ASSUME Legal(t, "S_team_done"), run[t] = "resulting" PROVE Suffices(t)
      BY <1>4, <1>6, <2>2 DEF SendResult
    <3>2. fsm[t] # "S_team_failed"
      BY <3>1 DEF Legal, Edges
    <3> QED BY <1>1, <3>1, <3>2 DEF Whole
  <2>3. CASE Fail(t)
    <3>1. \/ fsm' = [fsm EXCEPT ![t] = "S_team_failed"]
          \/ run' = [run EXCEPT ![t] = "over"]
      BY <2>3 DEF Fail
    <3> QED BY <1>1, <3>1 DEF Types
  <2>4. CASE FailToClose(t)
    <3>1. run' = [run EXCEPT ![t] = "failing"] \/ run' = [run EXCEPT ![t] = "over"]
      BY <2>4 DEF FailToClose
    <3> QED BY <1>1, <3>1 DEF Types
  <2> QED BY <2>1, <2>2, <2>3, <2>4
<1>10. \A u \in Teams :
          \/ run'[u] = run[u] /\ fsm'[u] = fsm[u]
          \/ /\ run[u] \notin {"execute", "begun"} /\ run'[u] # "begun"
             /\ run'[u] \in {"synthesize", "resulting", "closing"} /\ fsm'[u] # "S_team_failed"
                    => Suffices(u)
  BY <1>6, <1>8, <1>9
<1> QED BY <1>2, <1>7, <1>10, MovingOn

\* What a call has of its members is forgotten.
LEMMA Forgetting ==
    ASSUME TInv, NEW t \in Teams, ForgetRun(t), UNCHANGED <<policy, born, fresh, evidenceVars>>,
           plans' = plans,
           NEW r \in {"begun", "planned", "over", "gone"},
           run' = [run EXCEPT ![t] = r], fsm' \in [Teams -> DOMAIN Edges],
           status' \in [Teams -> [Keys -> Statuses]],
           \A u \in Teams \ {t} : fsm'[u] = fsm[u] /\ status'[u] = status[u],
           \A k \in Keys : /\ status'[t][k] # "running"
                           /\ r = "begun" => status'[t][k] # "failed"
    PROVE  TInv'
<1>1. Types /\ Whole(t)
  BY DEF TInv
<1>2. UNCHANGED <<policy, plans, born, fresh, cache, seen, reported, raced>>
  BY DEF evidenceVars
<1>11. /\ crossed' \in [Teams -> SUBSET Slots] /\ crossed'[t] = {}
       /\ \A u \in Teams \ {t} : crossed'[u] = crossed[u]
  BY <1>1 DEF ForgetRun, Types
<1>3. /\ run' \in [Teams -> Places] /\ run'[t] = r
      /\ \A u \in Teams \ {t} : run'[u] = run[u]
  <2>1. run \in [Teams -> Places] /\ r \in Places
    BY <1>1 DEF Types, Places
  <2> HIDE DEF Places
  <2> QED BY <2>1
<1>4. /\ items' \in [Teams -> SUBSET Slots] /\ items'[t] = {}
      /\ \A u \in Teams \ {t} : items'[u] = items[u]
  BY <1>1 DEF ForgetRun, Types
<1>5. /\ slot' \in [Agents -> SlotStates] /\ before' \in [Agents -> Nat] /\ blame' \in [Agents -> Nat]
      /\ \A u \in Teams, i \in Slots :
             /\ slot'[<<u, i>>] = IF u = t THEN "idle" ELSE slot[<<u, i>>]
             /\ before'[<<u, i>>] = IF u = t THEN 0 ELSE before[<<u, i>>]
             /\ blame'[<<u, i>>] = IF u = t THEN 0 ELSE blame[<<u, i>>]
  <2>1. \A u \in Teams, i \in Slots : <<u, i>> \in Agents /\ <<u, i>>[1] = u
    BY DEF Agents
  <2>2. /\ slot \in [Agents -> SlotStates] /\ before \in [Agents -> Nat] /\ blame \in [Agents -> Nat]
        /\ "idle" \in SlotStates
    BY <1>1 DEF Types, SlotStates
  <2>3. /\ slot' = [a \in Agents |-> IF a[1] = t THEN "idle" ELSE slot[a]]
        /\ before' = [a \in Agents |-> IF a[1] = t THEN 0 ELSE before[a]]
        /\ blame' = [a \in Agents |-> IF a[1] = t THEN 0 ELSE blame[a]]
    BY DEF ForgetRun
  <2> HIDE DEF SlotStates
  <2> QED BY <2>1, <2>2, <2>3
<1>6. Types'
  BY <1>1, <1>2, <1>3, <1>4, <1>5, <1>11 DEF Types
<1>7. ASSUME NEW u \in Teams \ {t} PROVE Whole(u)' /\ \A j \in Slots : Each(u, j)'
  <2>1. \A j \in Slots :
            /\ slot'[<<u, j>>] = slot[<<u, j>>] /\ before'[<<u, j>>] = before[<<u, j>>]
            /\ blame'[<<u, j>>] = blame[<<u, j>>] /\ seen'[<<u, j>>] = seen[<<u, j>>]
            /\ \A kind \in Kinds : status'[u][<<kind, j>>] = status[u][<<kind, j>>]
    BY <1>2, <1>5
  <2> QED BY <1>2, <1>3, <1>4, <1>11, <2>1, OtherTeam
<1>8. \A i \in Slots : At(t, i)' = "idle" /\ At(t, i)' \notin Busy
  BY <1>5 DEF At, Busy
<1>9. Whole(t)'
  BY <1>1, <1>2, <1>3, <1>8, <1>11 DEF Whole, Sequential
<1>10. ASSUME NEW i \in Slots PROVE Each(t, i)'
  <2>1. \A kind \in Kinds : <<kind, i>> \in Keys
    BY DEF Kinds, Keys
  <2>2. Orderly(t, i)'
    BY <1>4, <1>5, <1>8 DEF Orderly
  <2> QED BY <1>3, <1>8, <2>1, <2>2 DEF Each
<1> QED BY <1>6, <1>7, <1>9, <1>10 DEF TInv

LEMMA Rerunning ==
    ASSUME TInv, NEW t \in Teams, Begin(t) \/ Close(t)
    PROVE  TInv'
<1>1. Types /\ run \in [Teams -> Places] /\ fsm \in [Teams -> DOMAIN Edges]
  BY DEF TInv, Types
<1>2. /\ ForgetRun(t) /\ UNCHANGED <<policy, born, fresh, evidenceVars>> /\ plans' = plans
  BY DEF Begin, Close
<1>3. CASE Begin(t)
  <2>1. PICK r \in {"begun", "planned", "over"} : run' = [run EXCEPT ![t] = r]
    <3>1. run' = [run EXCEPT ![t] = "begun"] \/ run' = run
      BY <1>3 DEF Begin
    <3>2. run[t] \in {"planned", "over"} /\ run = [run EXCEPT ![t] = run[t]]
      BY <1>1, <1>3 DEF Begin
    <3> QED BY <3>1, <3>2
  <2>2. fsm' \in [Teams -> DOMAIN Edges] /\ \A u \in Teams \ {t} : fsm'[u] = fsm[u]
    <3>1. "S_team_plan" \in DOMAIN Edges /\ fsm' = [fsm EXCEPT ![t] = "S_team_plan"]
      BY <1>3 DEF Begin, Edges
    <3> QED BY <1>1, <3>1
  <2>3. /\ status' \in [Teams -> [Keys -> Statuses]]
        /\ \A u \in Teams \ {t} : status'[u] = status[u]
        /\ \A k \in Keys : status'[t][k] \in {"pending", "none"}
    <3> DEFINE row == [k \in Keys |-> IF k[1] = "agent" /\ k[2] \in Range(born[t]) THEN "pending"
                                      ELSE "none"]
    <3>1. status' = [status EXCEPT ![t] = row] /\ status \in [Teams -> [Keys -> Statuses]]
      BY <1>1, <1>3 DEF Begin, SetTask, Types
    <3>2. row \in [Keys -> Statuses] /\ \A k \in Keys : row[k] \in {"pending", "none"}
      BY DEF Statuses
    <3> HIDE DEF row, Statuses, Keys
    <3> QED BY <3>1, <3>2
  <2>4. \A k \in Keys : status'[t][k] # "running" /\ status'[t][k] # "failed"
    BY <2>3
  <2> QED BY <1>2, <2>1, <2>2, <2>3, <2>4, Forgetting
<1>4. CASE Close(t)
  <2>1. PICK r \in {"over", "gone"} : run' = [run EXCEPT ![t] = r]
    BY <1>4 DEF Close
  <2>2. UNCHANGED <<fsm, status>> /\ status \in [Teams -> [Keys -> Statuses]]
    BY <1>1, <1>4 DEF Close, Types
  <2>3. \A k \in Keys : status[t][k] # "running"
    <3>1. run[t] = "closing"
      BY <1>4 DEF Close
    <3>2. \A kind \in Kinds, i \in Slots : status[t][<<kind, i>>] # "running"
      BY <3>1 DEF TInv, Each
    <3> QED BY <3>2 DEF Keys, Kinds
  <2> QED BY <1>1, <1>2, <2>1, <2>2, <2>3, Forgetting
<1> QED BY <1>3, <1>4

LEMMA Assigning ==
    ASSUME TInv, NEW t \in Teams, Assign(t)
    PROVE  TInv'
<1>1. Types /\ Whole(t) /\ run[t] = "begun" /\ \A i \in Slots : Each(t, i)
  BY DEF TInv, Assign
<1>2. UNCHANGED <<policy, plans, born, crossed, status, slot, before, blame, cache, seen, reported,
                  raced>>
  BY DEF Assign, evidenceVars
<1>3. PICK r \in {"failing", "execute"} : run' = [run EXCEPT ![t] = r]
  BY DEF Assign
<1>4. /\ run' \in [Teams -> Places] /\ run'[t] = r
      /\ \A u \in Teams \ {t} : run'[u] = run[u]
  <2>1. run \in [Teams -> Places] /\ r \in Places
    BY <1>1 DEF Types, Places
  <2> HIDE DEF Places
  <2> QED BY <1>3, <2>1
<1>5. /\ fsm' \in [Teams -> DOMAIN Edges] /\ \A u \in Teams \ {t} : fsm'[u] = fsm[u]
  <2>1. /\ fsm' = fsm \/ fsm' = [fsm EXCEPT ![t] = "S_member_execute"]
        /\ "S_member_execute" \in DOMAIN Edges /\ fsm \in [Teams -> DOMAIN Edges]
    BY <1>1 DEF Assign, Edges, Types
  <2> QED BY <2>1
<1>6. /\ fresh' \in [Teams -> BOOLEAN] /\ \A u \in Teams \ {t} : fresh'[u] = fresh[u]
  <2>1. \/ fresh' = fresh
        \/ fresh' = [fresh EXCEPT ![t] = plans[t] # {}]
    BY DEF Assign
  <2> QED BY <1>1, <2>1 DEF Types
<1>7. /\ items' \in [Teams -> SUBSET Slots] /\ \A u \in Teams \ {t} : items'[u] = items[u]
  <2>1. PICK S : items' = [items EXCEPT ![t] = S] /\ S \in {items[t], plans[t], Range(born[t])}
    <3>1. items = [items EXCEPT ![t] = items[t]]
      BY <1>1 DEF Types
    <3>2. \/ items' = items
          \/ items' = [items EXCEPT ![t] = plans[t]]
          \/ items' = [items EXCEPT ![t] = Range(born[t])]
      BY DEF Assign
    <3> QED BY <3>1, <3>2
  <2>2. items[t] \subseteq Slots /\ plans[t] \subseteq Slots /\ Range(born[t]) \subseteq Slots
    BY <1>1 DEF Types, Range
  <2> QED BY <1>1, <2>1, <2>2 DEF Types
<1>8. Types'
  BY <1>1, <1>2, <1>4, <1>5, <1>6, <1>7 DEF Types
<1>9. ASSUME NEW u \in Teams \ {t} PROVE Whole(u)' /\ \A j \in Slots : Each(u, j)'
  <2>1. \A j \in Slots :
            /\ slot'[<<u, j>>] = slot[<<u, j>>] /\ before'[<<u, j>>] = before[<<u, j>>]
            /\ blame'[<<u, j>>] = blame[<<u, j>>] /\ seen'[<<u, j>>] = seen[<<u, j>>]
            /\ \A kind \in Kinds : status'[u][<<kind, j>>] = status[u][<<kind, j>>]
    BY <1>2
  <2> QED BY <1>2, <1>4, <1>5, <1>6, <1>7, <2>1, OtherTeam
<1>10. \A i \in Slots : At(t, i) = "idle" /\ At(t, i)' = "idle" /\ At(t, i) \notin Busy
  BY <1>1, <1>2 DEF Each, At, Busy
<1>11. Whole(t)'
  BY <1>1, <1>2, <1>4, <1>10 DEF Whole, Sequential, At
<1>12. ASSUME NEW i \in Slots PROVE Each(t, i)'
  <2>1. \A kind \in Kinds : status[t][<<kind, i>>] # "running" /\ status[t][<<kind, i>>] # "failed"
    BY <1>1, <1>10 DEF Each
  <2>2. status[t][<<"agent", i>>] # "failed"
    BY <2>1 DEF Kinds
  <2>3. Orderly(t, i)'
    <3>1. blame[<<t, i>>] \in {0, i} \cup crossed[t]
      BY <1>1 DEF Each, Orderly
    <3> QED BY <1>2, <1>10, <2>2, <3>1 DEF Orderly
  <2> QED BY <1>2, <1>4, <1>10, <2>1, <2>3 DEF Each
<1> QED BY <1>8, <1>9, <1>11, <1>12 DEF TInv

LEMMA Recording ==
    ASSUME TInv, NEW t \in Teams, RecordOutcomes(t)
    PROVE  TInv'
<1>1. Types /\ Whole(t) /\ run[t] = "execute" /\ \A i \in Slots : Each(t, i)
  BY DEF TInv, RecordOutcomes
<1>2. UNCHANGED <<policy, born, crossed, items, fresh, before, blame, cache, seen, reported, raced>>
  BY DEF RecordOutcomes, evidenceVars
<1>3. items[t] \subseteq Slots
  BY <1>1 DEF Types
<1>4. \A i \in Slots : At(t, i) \notin Busy
  <2>1. \A i \in items[t] : At(t, i) \notin Busy
    BY DEF RecordOutcomes, Settled, In, At
  <2> QED BY <1>1, <2>1 DEF Each, Busy
<1>5. /\ slot' \in [Agents -> SlotStates]
      /\ \A i \in Slots : At(t, i)' = IF i \in items[t] /\ At(t, i) = "idle" THEN "skipped"
                                      ELSE At(t, i)
      /\ \A u \in Teams \ {t}, i \in Slots : slot'[<<u, i>>] = slot[<<u, i>>]
  <2>1. slot' = [a \in Agents |-> IF a[1] = t /\ a[2] \in In(t, {"idle"}) THEN "skipped" ELSE slot[a]]
    BY DEF RecordOutcomes
  <2>2. \A u \in Teams, i \in Slots : <<u, i>> \in Agents /\ <<u, i>>[1] = u /\ <<u, i>>[2] = i
    BY DEF Agents
  <2>3. slot \in [Agents -> SlotStates] /\ "skipped" \in SlotStates
    BY <1>1 DEF Types, SlotStates
  <2>4. slot' \in [Agents -> SlotStates]
    <3> HIDE DEF SlotStates
    <3> QED BY <2>1, <2>3
  <2>5. \A u \in Teams, i \in Slots :
            slot'[<<u, i>>] = IF u = t /\ i \in In(t, {"idle"}) THEN "skipped" ELSE slot[<<u, i>>]
    BY <2>1, <2>2
  <2>6. \A i \in Slots : i \in In(t, {"idle"}) <=> i \in items[t] /\ At(t, i) = "idle"
    BY DEF In, At
  <2> QED BY <2>4, <2>5, <2>6 DEF At
<1>6. \A i \in Slots : At(t, i)' \notin Busy /\ (At(t, i)' \in Failed <=> At(t, i) \in Failed)
                       /\ (At(t, i)' = "completed" <=> At(t, i) = "completed")
                       /\ (At(t, i)' # "idle" => At(t, i) # "idle" \/ i \in items[t])
  BY <1>4, <1>5 DEF Busy, Failed
<1>7. In(t, Failed)' = In(t, Failed) /\ In(t, {"completed"})' = In(t, {"completed"})
  <2>1. \A i \in items[t] : /\ slot'[<<t, i>>] \in Failed <=> slot[<<t, i>>] \in Failed
                            /\ slot'[<<t, i>>] = "completed" <=> slot[<<t, i>>] = "completed"
    BY <1>3, <1>6 DEF At
  <2> QED BY <1>2, <2>1 DEF In
<1>8. PICK r \in {"synthesize", "failing"} :
          run' = [run EXCEPT ![t] = r] /\ (r = "synthesize" => Suffices(t))
  BY DEF RecordOutcomes
<1>9. /\ run' \in [Teams -> Places] /\ run'[t] = r
      /\ \A u \in Teams \ {t} : run'[u] = run[u]
  <2>1. run \in [Teams -> Places] /\ r \in Places
    BY <1>1 DEF Types, Places
  <2> HIDE DEF Places
  <2> QED BY <1>8, <2>1
<1>10. /\ fsm' \in [Teams -> DOMAIN Edges] /\ \A u \in Teams \ {t} : fsm'[u] = fsm[u]
  <2>1. /\ fsm' = fsm \/ fsm' = [fsm EXCEPT ![t] = "S_team_synthesize"]
        /\ "S_team_synthesize" \in DOMAIN Edges /\ fsm \in [Teams -> DOMAIN Edges]
    BY <1>1 DEF RecordOutcomes, Edges, Types
  <2> QED BY <2>1
<1>11. Suffices(t)' <=> Suffices(t)
  BY <1>2, <1>7 DEF Suffices
<1>12. /\ status' \in [Teams -> [Keys -> Statuses]] /\ status'[t] = Recorded(t)
       /\ \A u \in Teams \ {t} : status'[u] = status[u]
  <2>1. status' = [status EXCEPT ![t] = Recorded(t)] /\ status \in [Teams -> [Keys -> Statuses]]
    BY <1>1 DEF RecordOutcomes, Types
  <2>2. Recorded(t) \in [Keys -> Statuses]
    BY <2>1 DEF Recorded, Statuses
  <2> HIDE DEF Keys, Statuses
  <2> QED BY <2>1, <2>2
<1>13. ASSUME NEW kind \in Kinds, NEW i \in Slots PROVE status'[t][<<kind, i>>] # "running"
  <2>1. <<kind, i>> \in Keys /\ status[t][<<kind, i>>] # "running"
    BY <1>1, <1>4 DEF Keys, Kinds, Each
  <2> QED BY <1>12, <2>1 DEF Recorded
<1>14. ASSUME NEW i \in Slots PROVE Orderly(t, i)'
  <2>1. Orderly(t, i)
    BY <1>1 DEF Each
  <2>2. \A j \in Slots : blame[<<t, j>>] \in {0, j} \cup crossed[t]
    BY <1>1 DEF Each, Orderly
  <2>3. i \notin crossed[t] => \A j \in Slots : Blamed(t, j) = <<"agent", i>> \/ Key(t, j) = <<"agent", i>> => j = i
    BY <2>2 DEF Blamed, Key
  <2>4. <<"agent", i>> \in Keys
    BY DEF Keys
  <2>5. /\ \A j \in In(t, Failed) : j \in Slots /\ At(t, j) \in Failed
        /\ \A j \in In(t, {"idle"}) : j \in Slots /\ At(t, j) = "idle"
    BY <1>3 DEF In, At
  <2>6. ASSUME i \in items[t] \ crossed[t], status'[t][<<"agent", i>>] = "failed" PROVE At(t, i) \in Failed
    <3>1. CASE \E j \in In(t, Failed) : Blamed(t, j) = <<"agent", i>>
      BY <2>3, <2>5, <2>6, <3>1
    <3>2. CASE ~\E j \in In(t, Failed) : Blamed(t, j) = <<"agent", i>>
      <4>1. status[t][<<"agent", i>>] = "failed"
        BY <1>12, <2>4, <2>6, <3>2 DEF Recorded
      <4> QED BY <2>1, <2>6, <4>1 DEF Orderly
    <3> QED BY <3>1, <3>2
  <2>7. ASSUME i \in items[t] \ crossed[t], At(t, i) = "completed"
        PROVE  status'[t][<<"agent", i>>] = "completed"
    <3>1. /\ ~\E j \in In(t, Failed) : Blamed(t, j) = <<"agent", i>>
          /\ ~\E j \in In(t, Failed) : Key(t, j) = <<"agent", i>>
          /\ ~\E j \in In(t, {"idle"}) : Key(t, j) = <<"agent", i>>
      BY <2>3, <2>5, <2>7 DEF Failed
    <3>2. status[t][<<"agent", i>>] = "completed"
      BY <2>1, <2>7 DEF Orderly
    <3> QED BY <1>12, <2>4, <3>1, <3>2 DEF Recorded
  <2> QED BY <1>2, <1>6, <2>2, <2>6, <2>7 DEF Orderly, Busy
<1>15. Types'
  <2>1. plans' \in [Teams -> SUBSET Slots]
    BY <1>1 DEF RecordOutcomes, Types
  <2> QED BY <1>1, <1>2, <1>5, <1>9, <1>10, <1>12, <2>1 DEF Types
<1>16. ASSUME NEW u \in Teams \ {t} PROVE Whole(u)' /\ \A j \in Slots : Each(u, j)'
  <2>1. \A j \in Slots :
            /\ slot'[<<u, j>>] = slot[<<u, j>>] /\ before'[<<u, j>>] = before[<<u, j>>]
            /\ blame'[<<u, j>>] = blame[<<u, j>>] /\ seen'[<<u, j>>] = seen[<<u, j>>]
            /\ \A kind \in Kinds : status'[u][<<kind, j>>] = status[u][<<kind, j>>]
    BY <1>2, <1>5, <1>12
  <2> QED BY <1>2, <1>9, <1>10, <2>1, OtherTeam
<1>17. Whole(t)'
  BY <1>1, <1>2, <1>6, <1>8, <1>9, <1>11 DEF Whole, Sequential
<1>18. ASSUME NEW i \in Slots PROVE Each(t, i)'
  <2>1. At(t, i)' # "idle" => i \in items[t]
    BY <1>1, <1>6 DEF Each
  <2>2. At(t, i)' \notin {"resolving", "spawning", "created", "closing"}
    BY <1>6 DEF Busy
  <2> QED BY <1>2, <1>6, <1>9, <1>13, <1>14, <2>1, <2>2 DEF Each
<1> QED BY <1>15, <1>16, <1>17, <1>18 DEF TInv

-----------------------------------------------------------------------------
(* The invariant holds, and what it says of a team's run. *)

LEMMA TInvHolds ==
    Spec => []TInv
<1>1. Init => TInv
  <2> SUFFICES ASSUME Init PROVE TInv
    OBVIOUS
  <2>1. policy \in [Teams -> Policy]
    <3>1. policy \in [Teams -> UNION {Policies[t] : t \in Teams}]
          /\ \A t \in Teams : policy[t] \in Policies[t]
      BY DEF Init
    <3>2. \A t \in Teams : policy[t] \in Policy
      BY <3>1, TeamRunAssumption DEF TeamRunAssumption
    <3> HIDE DEF Policy
    <3> QED BY <3>1, <3>2
  <2>2. status \in [Teams -> [Keys -> Statuses]]
        /\ \A t \in Teams : \A k \in Keys : status[t][k] = "none"
    <3>1. NoStatus \in [Keys -> Statuses] /\ \A k \in Keys : NoStatus[k] = "none"
      BY DEF NoStatus, Statuses
    <3>2. status = [t \in Teams |-> NoStatus]
      BY DEF Init
    <3> HIDE DEF Keys, Statuses, NoStatus
    <3> QED BY <3>1, <3>2
  <2>3. slot \in [Agents -> SlotStates] /\ \A a \in Agents : slot[a] = "idle"
    BY DEF Init, SlotStates
  <2>4. Types
    BY <2>1, <2>2, <2>3 DEF Init, Types, Places, Edges
  <2>5. \A t \in Teams, i \in Slots :
            /\ <<t, i>> \in Agents /\ At(t, i) = "idle" /\ At(t, i) \notin Busy
            /\ blame[<<t, i>>] = 0 /\ \A kind \in Kinds : <<kind, i>> \in Keys
    BY <2>3 DEF Init, At, Agents, Busy, Kinds, Keys
  <2>6. \A t \in Teams : run[t] = "none" /\ items[t] = {} /\ reported[t] = {}
                        /\ raced[t] = {} /\ crossed[t] = {}
    BY DEF Init
  <2>7. ASSUME NEW t \in Teams, NEW i \in Slots PROVE Each(t, i)
    <3>1. Orderly(t, i)
      BY <2>5, <2>6 DEF Orderly
    <3> QED BY <2>2, <2>5, <2>6, <3>1 DEF Each
  <2>8. \A t \in Teams : Whole(t)
    BY <2>5, <2>6 DEF Whole
  <2> QED BY <2>4, <2>7, <2>8 DEF TInv
<1>2. TInv /\ [Next]_vars => TInv'
  <2> SUFFICES ASSUME TInv, [Next]_vars PROVE TInv'
    OBVIOUS
  <2>1. CASE UNCHANGED vars
    <3>1. UNCHANGED <<run, fsm, policy, plans, memberVars, evidenceVars>>
      BY <2>1 DEF vars, teamVars
    <3>2. Types'
      BY <3>1 DEF TInv, Types, memberVars, evidenceVars
    <3> QED BY <3>1, <3>2, MovingOn
  <2>2. CASE Spend
    <3>1. CASE Teams = {}
      <4>1. UNCHANGED <<run, fsm, policy, plans, memberVars, evidenceVars>>
        BY <2>2 DEF Spend, teamVars
      <4>2. Types'
        BY <4>1 DEF TInv, Types, memberVars, evidenceVars
      <4> QED BY <4>1, <4>2, MovingOn
    <3>2. CASE Teams # {}
      BY <2>2, <3>2, Planning
    <3> QED BY <3>1, <3>2
  <2>3. ASSUME NEW t \in Teams,
               \/ SpawnTeam(t) \/ RegisterTeam(t) \/ FailToRegister(t)
               \/ SpawnAgentIntoTeam(t) \/ Begin(t) \/ Advance(t)
        PROVE  TInv'
    <3>1. CASE SpawnTeam(t) \/ RegisterTeam(t) \/ FailToRegister(t) \/ SpawnAgentIntoTeam(t)
      BY <3>1, Planning
    <3>2. CASE Begin(t) \/ Close(t)
      BY <3>2, Rerunning
    <3>3. CASE Assign(t)
      BY <3>3, Assigning
    <3>4. CASE RecordOutcomes(t)
      BY <3>4, Recording
    <3>5. CASE Synthesize(t) \/ SendResult(t) \/ Fail(t) \/ FailToClose(t)
      BY <3>5, Finishing
    <3>6. CASE \E i \in Slots : Member(t, i)
      BY <3>6, MemberSteps
    <3> QED BY <2>3, <3>1, <3>2, <3>3, <3>4, <3>5, <3>6 DEF Advance
  <2> QED BY <2>1, <2>2, <2>3 DEF Next
<1> QED BY <1>1, <1>2, PTL DEF Spec

\* Whatever the policy, what a member reported while no other ran, with its success or
\* its failure, stays in the cache for the members after it, and the members of a
\* sequential team never run beside each other (teamToolEvidenceCache as
\* executeAgentComputeNode and executeTeamMember write it).
THEOREM EvidenceIsKept == Spec => []EvidenceSurvives
<1>1. TInv => EvidenceSurvives
  BY DEF TInv, Whole, EvidenceSurvives, Sequential
<1> QED BY <1>1, TInvHolds, PTL

\* Whatever the policy, a failure is recorded under another slot's member, or a result
\* overwritten, only where that member was created beside another at work, which in a
\* sequential team none is (the catch of executeTeamMember and the records runTeam
\* makes of its outcomes).
THEOREM FailuresStayTheirOwn == Spec => []FailuresAreTheirOwn
<1>1. ASSUME TInv PROVE FailuresAreTheirOwn
  <2>1. ASSUME NEW t \in Teams, NEW i \in items[t] \ crossed[t]
        PROVE  /\ status[t][<<"agent", i>>] = "failed" => slot[<<t, i>>] \in Failed
               /\ slot[<<t, i>>] = "completed" => status[t][<<"agent", i>>] = "completed"
    <3>1. i \in Slots
      BY <1>1 DEF TInv, Types
    <3> QED BY <1>1, <2>1, <3>1 DEF TInv, Each, Orderly, At
  <2>2. \A t \in Teams : Sequential(t) => crossed[t] = {}
    BY <1>1 DEF TInv, Whole
  <2> QED BY <2>1, <2>2 DEF FailuresAreTheirOwn, Sequential
<1> QED BY <1>1, TInvHolds, PTL

\* Whatever the policy, once runTeam goes on after its members none is at work or
\* recorded as running, and a team on its way to a result has what its policy asks.
THEOREM SettledTeamsAreQuiet == Spec => []SettledMeansQuiet
<1>1. ASSUME TInv PROVE SettledMeansQuiet
  <2> SUFFICES ASSUME NEW t \in Teams
               PROVE  /\ run[t] \in {"synthesize", "resulting", "failing", "closing", "over"} =>
                             /\ In(t, Busy) = {}
                             /\ \A k \in Keys : status[t][k] # "running"
                      /\ run[t] \in {"synthesize", "resulting", "closing"}
                             /\ fsm[t] # "S_team_failed" => Suffices(t)
    BY DEF SettledMeansQuiet
  <2>1. Whole(t) /\ (\A i \in Slots : Each(t, i)) /\ items[t] \subseteq Slots
    BY <1>1 DEF TInv, Types
  <2>2. ASSUME run[t] # "execute"
        PROVE  In(t, Busy) = {} /\ \A k \in Keys : status[t][k] # "running"
    <3>1. \A i \in Slots : At(t, i) \notin Busy
      BY <2>1, <2>2 DEF Each
    <3>2. \A kind \in Kinds, i \in Slots : status[t][<<kind, i>>] # "running"
      BY <2>1, <3>1 DEF Each
    <3>3. \A k \in Keys : status[t][k] # "running"
      BY <3>2 DEF Keys, Kinds
    <3> QED BY <2>1, <3>1, <3>3 DEF In, At
  <2> QED BY <2>1, <2>2 DEF Whole
<1> QED BY <1>1, TInvHolds, PTL

-----------------------------------------------------------------------------
(* Capacity: a team alone in its turn, as the plans it was given. *)

Reservation == [held : BOOLEAN, base : Int, planned : Nat, consumed : Nat]
Limits ==
    /\ reserve \in [Teams -> Reservation] /\ children \in Int /\ afford \in Int

OneOpen == \A t, u \in Teams : Open(t) /\ Open(u) => t = u

\* Slots whose member has been created or given up.
Through(t) == {i \in items[t] : At(t, i) \notin {"idle", "resolving", "spawning"}}

\* While a team's plans are to be executed its reservation is untouched, and while
\* they are executed it has been used by no more than the slots that are through.
Planned(t) ==
    reserve[t].held =>
        /\ reserve[t].planned > 0
        /\ plans[t] # {} =>
               /\ run[t] \in {"registering", "planned", "begun", "execute"}
               /\ plans[t] = 1 .. reserve[t].planned
               /\ run[t] # "execute" => reserve[t].consumed = 0 /\ children <= reserve[t].base
        /\ run[t] = "execute" /\ fresh[t] =>
               /\ items[t] = 1 .. reserve[t].planned
               /\ reserve[t].consumed <= Cardinality(Through(t))
               /\ children <= reserve[t].base + reserve[t].consumed

Capacity == Limits /\ OneOpen /\ refused = {} /\ \A t \in Teams : Planned(t)

LEMMA ThroughCounted ==
    ASSUME TInv, NEW t \in Teams
    PROVE  /\ IsFiniteSet(Through(t)) /\ Cardinality(Through(t)) \in Nat
           /\ \A n \in Nat, i \in items[t] :
                  items[t] = 1 .. n /\ i \notin Through(t) => Cardinality(Through(t)) < n
<1>1. items[t] \subseteq 1 .. MaxMembers
  BY DEF TInv, Types, Slots
<1>2. IsFiniteSet(items[t])
  <2>1. 1 \in Int /\ MaxMembers \in Int
    BY TeamRunAssumption DEF TeamRunAssumption
  <2>2. IsFiniteSet(1 .. MaxMembers)
    BY <2>1, FS_Interval
  <2> QED BY <1>1, <2>2, FS_Subset
<1>3. Through(t) \subseteq items[t]
  BY DEF Through
<1>4. IsFiniteSet(Through(t)) /\ Cardinality(Through(t)) \in Nat
  BY <1>2, <1>3, FS_Subset, FS_CardinalityType
<1>5. ASSUME NEW n \in Nat, NEW i \in items[t], items[t] = 1 .. n, i \notin Through(t)
      PROVE  Cardinality(Through(t)) < n
  <2>1. Cardinality(items[t]) = n
    BY <1>5, FS_Interval
  <2>2. Cardinality(Through(t)) < Cardinality(items[t])
    BY <1>2, <1>3, <1>4, <1>5, FS_Subset, FS_CardinalityType
  <2> QED BY <2>1, <2>2
<1> QED BY <1>4, <1>5

\* A slot that is through stays so, and one more may be.
LEMMA ThroughGrows ==
    ASSUME TInv, NEW t \in Teams, NEW i \in items[t], items'[t] = items[t],
           \A j \in items[t] : j # i => slot'[<<t, j>>] = slot[<<t, j>>],
           i \in Through(t) => At(t, i)' \notin {"idle", "resolving", "spawning"}
    PROVE  /\ Cardinality(Through(t)') \in Nat /\ Cardinality(Through(t)) <= Cardinality(Through(t)')
           /\ i \notin Through(t) /\ At(t, i)' \notin {"idle", "resolving", "spawning"} =>
                  Cardinality(Through(t)') = Cardinality(Through(t)) + 1
<1>1. IsFiniteSet(Through(t)) /\ Cardinality(Through(t)) \in Nat
  BY ThroughCounted
<1>2. CASE At(t, i)' \in {"idle", "resolving", "spawning"}
  <2>1. Through(t)' = Through(t)
    BY <1>2 DEF Through, At
  <2> QED BY <1>1, <1>2, <2>1
<1>3. CASE At(t, i)' \notin {"idle", "resolving", "spawning"}
  <2>1. Through(t)' = Through(t) \cup {i}
    BY <1>3 DEF Through, At
  <2>2. Cardinality(Through(t) \cup {i}) = IF i \in Through(t) THEN Cardinality(Through(t))
                                           ELSE Cardinality(Through(t)) + 1
    BY <1>1, FS_AddElement
  <2> QED BY <1>1, <2>1, <2>2
<1> QED BY <1>2, <1>3

\* Nothing of team u changes, nor the children while it is open.
LEMMA OtherPlan ==
    ASSUME Capacity, NEW u \in Teams,
           reserve'[u] = reserve[u], run'[u] = run[u], plans'[u] = plans[u],
           Open(u) => /\ children' = children /\ items'[u] = items[u] /\ fresh'[u] = fresh[u]
                      /\ \A j \in items[u] : slot'[<<u, j>>] = slot[<<u, j>>]
    PROVE  Planned(u)'
<1>1. Planned(u)
  BY DEF Capacity
<1>2. CASE Open(u)
  <2>1. Through(u)' = Through(u)
    BY <1>2 DEF Through, At
  <2> QED BY <1>1, <1>2, <2>1 DEF Planned
<1>3. CASE ~Open(u)
  <2>1. run[u] \in {"none", "rejected", "over", "gone"}
    BY <1>3 DEF Open
  <2> QED BY <1>1, <2>1 DEF Planned
<1> QED BY <1>2, <1>3

\* Team t stays open or opens when no other one is.
LEMMA StillOne ==
    ASSUME OneOpen, NEW t \in Teams, \A u \in Teams \ {t} : run'[u] = run[u],
           Open(t)' => Open(t) \/ \A u \in Teams \ {t} : ~Open(u)
    PROVE  OneOpen'
BY DEF OneOpen, Open

LEMMA MinOfTwo ==
    ASSUME NEW a \in Int, NEW b \in Int
    PROVE  Min({a, b}) = IF a <= b THEN a ELSE b
<1> DEFINE m == IF a <= b THEN a ELSE b
<1>1. m \in {a, b} /\ \A y \in {a, b} : m <= y
  OBVIOUS
<1>2. \A x \in {a, b} : (\A y \in {a, b} : x <= y) => x = m
  OBVIOUS
<1> QED BY <1>1, <1>2 DEF Min

LEMMA MaxOfTwo ==
    ASSUME NEW a \in Int, NEW b \in Int
    PROVE  Max({a, b}) = IF a >= b THEN a ELSE b
<1> DEFINE m == IF a >= b THEN a ELSE b
<1>1. m \in {a, b} /\ \A y \in {a, b} : m >= y
  OBVIOUS
<1>2. \A x \in {a, b} : (\A y \in {a, b} : x >= y) => x = m
  OBVIOUS
<1> QED BY <1>1, <1>2 DEF Max

\* Creating a member uses the reservation up by one, as far as it goes.
LEMMA CountedOf ==
    ASSUME Limits, NEW t \in Teams, Counted(t)
    PROVE  /\ reserve' \in [Teams -> Reservation]
           /\ \A u \in Teams \ {t} : reserve'[u] = reserve[u]
           /\ reserve'[t].held = reserve[t].held /\ reserve'[t].base = reserve[t].base
           /\ reserve'[t].planned = reserve[t].planned
           /\ reserve[t].consumed < reserve[t].planned =>
                  reserve'[t].consumed = reserve[t].consumed + 1
<1> DEFINE now == reserve[t]
           next == Min({now.consumed + 1, now.planned})
           then == [now EXCEPT !.consumed = next]
<1>1. reserve \in [Teams -> Reservation] /\ now \in Reservation
  BY DEF Limits
<1>2. now.consumed \in Nat /\ now.planned \in Nat
  BY <1>1 DEF Reservation
<1>3. next = IF now.consumed + 1 <= now.planned THEN now.consumed + 1 ELSE now.planned
  <2>1. now.consumed + 1 \in Int /\ now.planned \in Int
    BY <1>2
  <2> QED BY <2>1, MinOfTwo
<1>4. next \in Nat /\ (now.consumed < now.planned => next = now.consumed + 1)
  BY <1>2, <1>3
<1>5. reserve' = [reserve EXCEPT ![t] = then]
  BY <1>1 DEF Counted
<1> HIDE DEF next
<1>6. /\ then \in Reservation /\ then.held = now.held /\ then.base = now.base
      /\ then.planned = now.planned /\ then.consumed = next
  BY <1>1, <1>4 DEF Reservation
<1>7. reserve' \in [Teams -> Reservation] /\ reserve'[t] = then
      /\ \A u \in Teams \ {t} : reserve'[u] = reserve[u]
  <2> HIDE DEF then, Reservation
  <2> QED BY <1>1, <1>5, <1>6
<1> QED BY <1>4, <1>6, <1>7

\* What holds of the others when only team t takes a step.
LEMMA CapacityKept ==
    ASSUME Capacity, NEW t \in Teams, Limits', refused' = {}, Planned(t)',
           \A u \in Teams \ {t} :
               /\ reserve'[u] = reserve[u] /\ run'[u] = run[u] /\ plans'[u] = plans[u]
               /\ items'[u] = items[u] /\ fresh'[u] = fresh[u]
               /\ \A j \in items[u] : slot'[<<u, j>>] = slot[<<u, j>>],
           children' = children \/ Open(t),
           Open(t)' => Open(t) \/ \A u \in Teams \ {t} : ~Open(u)
    PROVE  Capacity'
<1>1. OneOpen
  BY DEF Capacity
<1>2. \A u \in Teams \ {t} : Planned(u)'
  BY <1>1, OtherPlan DEF OneOpen
<1>3. OneOpen'
  BY <1>1, StillOne
<1> QED BY <1>2, <1>3 DEF Capacity

LEMMA PlanningFits ==
    ASSUME ~Overlap, Extensible \subseteq {0}, TInv, Capacity, NEW t \in Teams,
           SpawnTeam(t) \/ RegisterTeam(t) \/ FailToRegister(t) \/ SpawnAgentIntoTeam(t)
    PROVE  Capacity'
<1>1. /\ Limits /\ refused = {} /\ Planned(t) /\ Types
      /\ run \in [Teams -> Places] /\ plans \in [Teams -> SUBSET Slots]
      /\ reserve \in [Teams -> Reservation] /\ children \in Int
  BY DEF Capacity, Limits, TInv, Types
<1>2. UNCHANGED <<items, fresh, slot, children, afford, refused>>
  BY DEF SpawnTeam, RegisterTeam, FailToRegister, SpawnAgentIntoTeam, memberVars, limitVars
<1>3. CASE SpawnTeam(t)
  <2>1. PICK n \in Sizes[t] :
            \/ run' = [run EXCEPT ![t] = "rejected"] /\ UNCHANGED <<plans, reserve>>
            \/ /\ run' = [run EXCEPT ![t] = "registering"]
               /\ plans' = [plans EXCEPT ![t] = 1 .. n]
               /\ reserve' = [reserve EXCEPT ![t] =
                      [held |-> n > 0, base |-> children, planned |-> n, consumed |-> 0]]
    BY <1>3 DEF SpawnTeam
  <2>2. run[t] = "none" /\ \A u \in Teams : ~Open(u)
    BY <1>3 DEF SpawnTeam
  <2>3. CASE run' = [run EXCEPT ![t] = "rejected"] /\ UNCHANGED <<plans, reserve>>
    <3>1. Planned(t)'
      BY <1>1, <2>2, <2>3 DEF Planned
    <3> QED BY <1>1, <1>2, <2>2, <2>3, <3>1, CapacityKept DEF Limits
  <2>4. CASE /\ run' = [run EXCEPT ![t] = "registering"]
             /\ plans' = [plans EXCEPT ![t] = 1 .. n]
             /\ reserve' = [reserve EXCEPT ![t] =
                    [held |-> n > 0, base |-> children, planned |-> n, consumed |-> 0]]
    <3> DEFINE row == [held |-> n > 0, base |-> children, planned |-> n, consumed |-> 0]
    <3>1. n \in Nat /\ 1 .. n \subseteq Slots
      BY TeamRunAssumption DEF TeamRunAssumption, Slots
    <3>2. /\ row \in Reservation /\ row.held = (n > 0) /\ row.base = children /\ row.planned = n
          /\ row.consumed = 0
      BY <1>1, <3>1 DEF Reservation
    <3>3. reserve' = [reserve EXCEPT ![t] = row]
      BY <2>4
    <3> HIDE DEF row
    <3>4. /\ reserve' \in [Teams -> Reservation] /\ reserve'[t] = row
          /\ \A u \in Teams \ {t} : reserve'[u] = reserve[u]
      <4> HIDE DEF Reservation
      <4> QED BY <1>1, <3>2, <3>3
    <3>5. /\ run'[t] = "registering" /\ plans'[t] = 1 .. n
          /\ \A u \in Teams \ {t} : run'[u] = run[u] /\ plans'[u] = plans[u]
      BY <1>1, <2>4
    <3>6. Planned(t)'
      <4>1. /\ reserve'[t].held = (n > 0) /\ reserve'[t].base = children
            /\ reserve'[t].planned = n /\ reserve'[t].consumed = 0 /\ children' = children
        BY <1>2, <3>2, <3>4
      <4>2. children' <= reserve'[t].base
        BY <1>1, <4>1
      <4> QED BY <3>5, <4>1, <4>2 DEF Planned
    <3> QED BY <1>1, <1>2, <2>2, <3>4, <3>5, <3>6, CapacityKept DEF Limits
  <2> QED BY <2>1, <2>3, <2>4
<1>4. CASE RegisterTeam(t)
  <2>1. /\ run' = [run EXCEPT ![t] = "planned"] /\ run[t] = "registering"
        /\ UNCHANGED <<plans, reserve>>
    BY <1>4 DEF RegisterTeam, limitVars
  <2>2. /\ run'[t] = "planned" /\ Open(t)
        /\ \A u \in Teams \ {t} : run'[u] = run[u]
    BY <1>1, <2>1 DEF Open
  <2>3. Planned(t)'
    BY <1>1, <1>2, <2>1, <2>2 DEF Planned
  <2> QED BY <1>1, <1>2, <2>1, <2>2, <2>3, CapacityKept DEF Limits
<1>5. CASE FailToRegister(t)
  <2>1. /\ run' = [run EXCEPT ![t] = "rejected"] /\ run[t] = "registering" /\ plans' = plans
        /\ reserve' = [reserve EXCEPT ![t] = NoReserve]
    BY <1>5 DEF FailToRegister
  <2>2. NoReserve \in Reservation /\ NoReserve.held = FALSE
    BY DEF NoReserve, Reservation
  <2>3. /\ reserve' \in [Teams -> Reservation] /\ reserve'[t] = NoReserve
        /\ \A u \in Teams \ {t} : reserve'[u] = reserve[u]
    <3> HIDE DEF Reservation
    <3> QED BY <1>1, <2>1, <2>2
  <2>4. /\ Open(t)
        /\ \A u \in Teams \ {t} : run'[u] = run[u]
    BY <1>1, <2>1 DEF Open
  <2>5. Planned(t)'
    BY <2>2, <2>3 DEF Planned
  <2> QED BY <1>1, <1>2, <2>1, <2>3, <2>4, <2>5, CapacityKept DEF Limits
<1>6. CASE SpawnAgentIntoTeam(t)
  <2>1. /\ UNCHANGED <<run, reserve>> /\ reserve[t].planned = 0 /\ Open(t)
        /\ \E next \in Slots : plans' = [plans EXCEPT ![t] = plans[t] \cup {next}]
    BY <1>6 DEF SpawnAgentIntoTeam, limitVars
  <2>2. \A u \in Teams \ {t} : plans'[u] = plans[u]
    BY <1>1, <2>1
  <2>3. Planned(t)'
    BY <1>1, <2>1 DEF Planned
  <2> QED BY <1>1, <1>2, <2>1, <2>2, <2>3, CapacityKept DEF Limits
<1> QED BY <1>3, <1>4, <1>5, <1>6

LEMMA RunFits ==
    ASSUME ~Overlap, TInv, Capacity, NEW t \in Teams,
           \/ Begin(t) \/ Assign(t) \/ RecordOutcomes(t) \/ Synthesize(t) \/ SendResult(t)
           \/ Fail(t) \/ FailToClose(t)
    PROVE  Capacity'
<1>1. /\ Limits /\ refused = {} /\ Planned(t)
      /\ run \in [Teams -> Places] /\ plans \in [Teams -> SUBSET Slots]
      /\ \A u \in Teams : \A i \in items[u] : i \in Slots
  BY DEF Capacity, Limits, TInv, Types
<1>2. UNCHANGED <<reserve, children, afford, refused>>
  BY DEF Begin, Assign, RecordOutcomes, Synthesize, SendResult, Fail, FailToClose, limitVars
<1>3. CASE Begin(t)
  <2>1. /\ run' = run \/ run' = [run EXCEPT ![t] = "begun"]
        /\ run[t] \in {"planned", "over"} /\ UNCHANGED <<plans, fresh>>
        /\ items' = [items EXCEPT ![t] = {}]
        /\ slot' = [a \in Agents |-> IF a[1] = t THEN "idle" ELSE slot[a]]
        /\ \A u \in Teams \ {t} : ~Open(u)
    BY <1>3 DEF Begin, ForgetRun
  <2>2. /\ run'[t] \in {run[t], "begun"}
        /\ \A u \in Teams \ {t} : run'[u] = run[u]
    BY <1>1, <2>1
  <2>3. \A u \in Teams \ {t} : /\ items'[u] = items[u]
                               /\ \A j \in items[u] : slot'[<<u, j>>] = slot[<<u, j>>]
    BY <1>1, <2>1 DEF Agents, TInv, Types
  <2>4. Planned(t)'
    BY <1>1, <1>2, <2>1, <2>2 DEF Planned
  <2> QED BY <1>1, <1>2, <2>1, <2>2, <2>3, <2>4, CapacityKept DEF Limits
<1>4. CASE Assign(t)
  <2>1. /\ run[t] = "begun" /\ Open(t) /\ UNCHANGED <<plans, slot>>
        /\ \/ run' = [run EXCEPT ![t] = "failing"] /\ UNCHANGED <<items, fresh>>
           \/ /\ run' = [run EXCEPT ![t] = "execute"]
              /\ fresh' = [fresh EXCEPT ![t] = plans[t] # {}]
              /\ items' = [items EXCEPT ![t] = IF plans[t] # {} THEN plans[t] ELSE Range(born[t])]
        /\ plans[t] # {} => run' = [run EXCEPT ![t] = "execute"]
    BY <1>4 DEF Assign, Open
  <2>2. \A u \in Teams \ {t} : run'[u] = run[u] /\ items'[u] = items[u] /\ fresh'[u] = fresh[u]
    BY <1>1, <2>1 DEF TInv, Types
  <2>3. Planned(t)'
    <3>1. CASE plans[t] = {}
      <4>1. run'[t] = "execute" => ~fresh'[t]
        BY <1>1, <2>1, <3>1 DEF TInv, Types
      <4> QED BY <1>1, <1>2, <2>1, <3>1, <4>1 DEF Planned
    <3>2. CASE plans[t] # {}
      <4>1. run'[t] = "execute" /\ items'[t] = plans[t]
        BY <1>1, <2>1, <3>2 DEF TInv, Types
      <4>2. Cardinality(Through(t)') \in Nat
        <5>1. items'[t] \subseteq 1 .. MaxMembers
          BY <1>1, <4>1 DEF Slots
        <5>2. Through(t)' \subseteq items'[t]
          BY DEF Through
        <5>3. IsFiniteSet(1 .. MaxMembers)
          BY TeamRunAssumption, FS_Interval DEF TeamRunAssumption
        <5>4. IsFiniteSet(Through(t)')
          BY <5>1, <5>2, <5>3, FS_Subset
        <5> QED BY <5>4, FS_CardinalityType
      <4>3. reserve[t] \in Reservation /\ children \in Int
        BY <1>1 DEF Limits
      <4>4. reserve[t].held => /\ reserve[t].consumed = 0 /\ children <= reserve[t].base
                               /\ plans[t] = 1 .. reserve[t].planned /\ reserve[t].planned > 0
        BY <1>1, <2>1, <3>2 DEF Planned
      <4> QED BY <1>2, <2>1, <4>1, <4>2, <4>3, <4>4 DEF Planned, Reservation
    <3> QED BY <3>1, <3>2
  <2> QED BY <1>1, <1>2, <2>1, <2>2, <2>3, CapacityKept DEF Limits
<1>5. CASE RecordOutcomes(t)
  <2>1. /\ plans' = [plans EXCEPT ![t] = {}] /\ UNCHANGED <<items, fresh>>
        /\ run' = [run EXCEPT ![t] = "synthesize"] \/ run' = [run EXCEPT ![t] = "failing"]
        /\ slot' = [a \in Agents |-> IF a[1] = t /\ a[2] \in In(t, {"idle"}) THEN "skipped"
                                     ELSE slot[a]]
        /\ run[t] = "execute" /\ Open(t)
    BY <1>5 DEF RecordOutcomes, Open
  <2>2. /\ run'[t] # "execute" /\ plans'[t] = {}
        /\ \A u \in Teams \ {t} : run'[u] = run[u] /\ plans'[u] = plans[u]
    BY <1>1, <2>1
  <2>3. \A u \in Teams \ {t} : \A j \in items[u] : slot'[<<u, j>>] = slot[<<u, j>>]
    BY <1>1, <2>1 DEF Agents
  <2>4. Planned(t)'
    BY <1>1, <1>2, <2>2 DEF Planned
  <2> QED BY <1>1, <1>2, <2>1, <2>2, <2>3, <2>4, CapacityKept DEF Limits
<1>6. CASE Synthesize(t) \/ SendResult(t) \/ Fail(t) \/ FailToClose(t)
  <2>1. /\ UNCHANGED <<plans, items, fresh, slot>> /\ Open(t)
        /\ run[t] \in {"synthesize", "resulting", "failing", "closing"}
        /\ \E r \in {"resulting", "failing", "closing", "over"} : run' = [run EXCEPT ![t] = r]
    BY <1>6 DEF Synthesize, SendResult, Fail, FailToClose, memberVars, Open
  <2>2. /\ run'[t] \notin {"execute", "none", "gone"}
        /\ \A u \in Teams \ {t} : run'[u] = run[u]
    BY <1>1, <2>1
  <2>3. Planned(t)'
    BY <1>1, <1>2, <2>1, <2>2 DEF Planned
  <2> QED BY <1>1, <1>2, <2>1, <2>2, <2>3, CapacityKept DEF Limits
<1> QED BY <1>3, <1>4, <1>5, <1>6

LEMMA CloseFits ==
    ASSUME TInv, Capacity, NEW t \in Teams, Close(t)
    PROVE  Capacity'
<1>1. /\ Limits /\ refused = {} /\ Planned(t) /\ run \in [Teams -> Places]
      /\ reserve \in [Teams -> Reservation] /\ children \in Int
      /\ \A u \in Teams : \A i \in items[u] : i \in Slots
  BY DEF Capacity, Limits, TInv, Types
<1>2. /\ run[t] = "closing" /\ Open(t) /\ UNCHANGED <<plans, fresh, afford, refused>>
      /\ items' = [items EXCEPT ![t] = {}]
      /\ slot' = [a \in Agents |-> IF a[1] = t THEN "idle" ELSE slot[a]]
      /\ reserve' = [reserve EXCEPT ![t] = NoReserve]
      /\ \E r \in {"over", "gone"} : run' = [run EXCEPT ![t] = r]
  BY DEF Close, ForgetRun, Open
<1>3. children' \in Int
  <2>1. Len(born[t]) \in Nat
    BY DEF TInv, Types
  <2> QED BY <1>1, <2>1 DEF Close
<1>4. NoReserve \in Reservation /\ NoReserve.held = FALSE
  BY DEF NoReserve, Reservation
<1>5. /\ reserve' \in [Teams -> Reservation] /\ reserve'[t] = NoReserve
      /\ \A u \in Teams \ {t} : reserve'[u] = reserve[u]
  <2> HIDE DEF Reservation
  <2> QED BY <1>1, <1>2, <1>4
<1>6. \A u \in Teams \ {t} : /\ run'[u] = run[u] /\ items'[u] = items[u]
                             /\ \A j \in items[u] : slot'[<<u, j>>] = slot[<<u, j>>]
  BY <1>1, <1>2 DEF Agents, TInv, Types
<1>7. Planned(t)'
  BY <1>4, <1>5 DEF Planned
<1> QED BY <1>1, <1>2, <1>3, <1>5, <1>6, <1>7, CapacityKept DEF Limits

\* A reserved slot that is about to spawn its member is neither refused nor the last
\* one over the reservation.
LEMMA RoomForReserved ==
    ASSUME TInv, Capacity, NEW t \in Teams, NEW i \in Slots,
           At(t, i) \in {"resolving", "spawning"}, reserve[t].held
    PROVE  /\ reserve[t].consumed < reserve[t].planned
           /\ children <= reserve[t].base + reserve[t].consumed
           /\ MaySpawn(t)
<1>1. Limits /\ Planned(t)
  BY DEF Capacity
<1>2. run[t] = "execute" /\ fresh[t] /\ i \in items[t]
  BY AtWork DEF Busy
<1>3. /\ items[t] = 1 .. reserve[t].planned
      /\ reserve[t].consumed <= Cardinality(Through(t))
      /\ children <= reserve[t].base + reserve[t].consumed
  BY <1>1, <1>2 DEF Planned
<1>4. /\ reserve[t].base \in Int /\ reserve[t].planned \in Nat /\ reserve[t].consumed \in Nat
      /\ children \in Int /\ afford \in Int
  BY <1>1 DEF Limits, Reservation
<1>5. i \notin Through(t)
  BY DEF Through
<1>6. Cardinality(Through(t)) < reserve[t].planned /\ Cardinality(Through(t)) \in Nat
  BY <1>2, <1>3, <1>4, <1>5, ThroughCounted
<1>7. reserve[t].consumed < reserve[t].planned
  BY <1>3, <1>4, <1>6
<1>8. children < Max({afford, reserve[t].base + reserve[t].planned})
  <2>1. Max({afford, reserve[t].base + reserve[t].planned}) =
            IF afford >= reserve[t].base + reserve[t].planned THEN afford
            ELSE reserve[t].base + reserve[t].planned
    BY <1>4, MaxOfTwo
  <2> QED BY <1>3, <1>4, <1>7, <2>1
<1> QED BY <1>3, <1>7, <1>8 DEF MaySpawn

\* A member's step that creates no agent under the parent.
LEMMA MemberMoves ==
    ASSUME TInv, Capacity, NEW t \in Teams, NEW i \in items[t], run[t] = "execute",
           NEW v, slot' = [slot EXCEPT ![<<t, i>>] = v],
           UNCHANGED <<teamVars, items, fresh, reserve, children, afford, refused>>,
           i \in Through(t) => v \notin {"idle", "resolving", "spawning"}
    PROVE  Capacity'
<1>1. /\ Limits /\ refused = {} /\ Planned(t) /\ Open(t) /\ UNCHANGED <<run, plans>>
      /\ slot \in [Agents -> SlotStates] /\ \A u \in Teams : items[u] \subseteq Slots
  BY DEF Capacity, TInv, Types, Open, teamVars
<1>2. /\ At(t, i)' = v
      /\ \A u \in Teams : \A j \in items[u] : u # t \/ j # i => slot'[<<u, j>>] = slot[<<u, j>>]
  <2> HIDE DEF SlotStates
  <2> QED BY <1>1 DEF At, Agents
<1>3. Cardinality(Through(t)') \in Nat /\ Cardinality(Through(t)) <= Cardinality(Through(t)')
  BY <1>2, ThroughGrows
<1>4. reserve[t] \in Reservation /\ Cardinality(Through(t)) \in Nat
  BY <1>1, ThroughCounted DEF Limits
<1>5. Planned(t)'
  BY <1>1, <1>3, <1>4 DEF Planned, Reservation
<1> QED BY <1>1, <1>2, <1>5, CapacityKept DEF Limits

\* A member's step that is counted against the reservation.
LEMMA MemberCounted ==
    ASSUME TInv, Capacity, NEW t \in Teams, NEW i \in Slots, At(t, i) \in {"spawning"},
           NEW v \in {"created", "failed"}, slot' = [slot EXCEPT ![<<t, i>>] = v],
           Counted(t), UNCHANGED <<teamVars, items, fresh, afford, refused>>,
           children' \in {children, children + 1}
    PROVE  Capacity'
<1>1. /\ Limits /\ refused = {} /\ Planned(t) /\ UNCHANGED <<run, plans>>
      /\ slot \in [Agents -> SlotStates] /\ \A u \in Teams : items[u] \subseteq Slots
      /\ children' \in Int
  BY DEF Capacity, TInv, Types, teamVars, Limits
<1>2. run[t] = "execute" /\ Open(t) /\ fresh[t] /\ i \in items[t]
  BY AtWork DEF Busy, Open
<1>3. /\ At(t, i)' = v
      /\ \A u \in Teams : \A j \in items[u] : u # t \/ j # i => slot'[<<u, j>>] = slot[<<u, j>>]
  <2> HIDE DEF SlotStates
  <2> QED BY <1>1, <1>2 DEF At, Agents
<1>4. i \notin Through(t)
  BY DEF Through
<1>5. /\ Cardinality(Through(t)) \in Nat
      /\ Cardinality(Through(t)') = Cardinality(Through(t)) + 1
  BY <1>2, <1>3, <1>4, ThroughGrows, ThroughCounted
<1>6. /\ reserve' \in [Teams -> Reservation]
      /\ \A u \in Teams \ {t} : reserve'[u] = reserve[u]
      /\ reserve'[t].held = reserve[t].held /\ reserve'[t].base = reserve[t].base
      /\ reserve'[t].planned = reserve[t].planned
      /\ reserve[t].consumed < reserve[t].planned =>
             reserve'[t].consumed = reserve[t].consumed + 1
  BY <1>1, CountedOf
<1>7. ASSUME reserve'[t].held PROVE Planned(t)'
  <2>1. /\ reserve[t].consumed < reserve[t].planned
        /\ children <= reserve[t].base + reserve[t].consumed
    BY <1>6, <1>7, RoomForReserved
  <2>2. /\ reserve[t].base \in Int /\ reserve[t].planned \in Nat /\ reserve[t].consumed \in Nat
        /\ children \in Int
    BY <1>1 DEF Limits, Reservation
  <2>3. /\ reserve[t].planned > 0 /\ items[t] = 1 .. reserve[t].planned
        /\ reserve[t].consumed <= Cardinality(Through(t))
        /\ plans[t] # {} => plans[t] = 1 .. reserve[t].planned
    BY <1>1, <1>2, <1>6, <1>7 DEF Planned
  <2>4. /\ reserve'[t].consumed = reserve[t].consumed + 1
        /\ reserve'[t].consumed <= Cardinality(Through(t)')
        /\ children' <= reserve'[t].base + reserve'[t].consumed
    <3>1. reserve'[t].consumed = reserve[t].consumed + 1 /\ reserve'[t].base = reserve[t].base
      BY <1>6, <2>1
    <3>2. Cardinality(Through(t)') = Cardinality(Through(t)) + 1 /\ Cardinality(Through(t)) \in Nat
      BY <1>5
    <3>3. reserve'[t].consumed <= Cardinality(Through(t)')
      BY <2>2, <2>3, <3>1, <3>2
    <3>4. children' <= reserve'[t].base + reserve'[t].consumed
      BY <2>1, <2>2, <3>1
    <3> QED BY <3>1, <3>3, <3>4
  <2> QED BY <1>1, <1>2, <1>6, <2>3, <2>4 DEF Planned
<1>8. Planned(t)'
  BY <1>7 DEF Planned
<1> QED BY <1>1, <1>2, <1>3, <1>6, <1>8, CapacityKept DEF Limits

LEMMA MemberFits ==
    ASSUME TInv, Capacity, NEW t \in Teams, NEW i \in Slots, Member(t, i)
    PROVE  Capacity'
<1>1. run[t] = "execute" /\ i \in items[t]
  <2>1. StartMember(t, i) \/ At(t, i) \in Busy
    BY DEF Member, CheckSpawn, CreateMember, FailToCreate, RunMember, CheckDescendant,
           CreateDescendant, MemberRan, MemberFailed, CompleteMember, FailToComplete, At, Busy
  <2> QED BY <2>1, AtWork DEF StartMember
<1>2. UNCHANGED <<teamVars, items, fresh, afford>>
  BY DEF Member, StartMember, CheckSpawn, CreateMember, FailToCreate, RunMember, CheckDescendant,
         CreateDescendant, MemberRan, MemberFailed, CompleteMember, FailToComplete, limitVars
<1>3. CASE StartMember(t, i)
  <2>1. i \notin Through(t) /\ UNCHANGED <<reserve, children, refused>>
    BY <1>3 DEF StartMember, Through, At, limitVars
  <2>2. PICK v : slot' = [slot EXCEPT ![<<t, i>>] = v]
    BY <1>3 DEF StartMember
  <2> QED BY <1>1, <1>2, <2>1, <2>2, MemberMoves
<1>4. CASE CheckSpawn(t, i)
  <2>1. UNCHANGED <<reserve, children>> /\ slot[<<t, i>>] = "resolving" /\ i \notin Through(t)
    BY <1>4 DEF CheckSpawn, Through, At
  <2>2. PICK v : slot' = [slot EXCEPT ![<<t, i>>] = v]
    BY <1>4 DEF CheckSpawn, FailMember
  <2>3. reserve[t].held => MaySpawn(t)
    BY <2>1, RoomForReserved DEF At
  <2>4. UNCHANGED refused
    BY <1>4, <2>3 DEF CheckSpawn
  <2> QED BY <1>1, <1>2, <2>1, <2>2, <2>4, MemberMoves
<1>5. CASE CreateMember(t, i)
  <2>1. /\ At(t, i) \in {"spawning"} /\ Counted(t) /\ UNCHANGED refused /\ children' = children + 1
        /\ slot' = [slot EXCEPT ![<<t, i>>] = "created"]
    BY <1>5 DEF CreateMember, At
  <2> QED BY <1>2, <2>1, MemberCounted
<1>6. CASE FailToCreate(t, i)
  <2>1. /\ UNCHANGED <<children, refused>> /\ slot' = [slot EXCEPT ![<<t, i>>] = "failed"]
        /\ \/ UNCHANGED reserve
           \/ At(t, i) \in {"spawning"} /\ Counted(t)
    BY <1>6 DEF FailToCreate, FailMember, At
  <2> QED BY <1>1, <1>2, <2>1, MemberMoves, MemberCounted
<1>7. CASE RunMember(t, i) \/ CheckDescendant(t, i) \/ CreateDescendant(t, i)
  <2>1. UNCHANGED <<reserve, children, refused>>
    BY <1>7 DEF RunMember, CheckDescendant, CreateDescendant, limitVars
  <2>2. PICK v \in {"running", "descending"} : slot' = [slot EXCEPT ![<<t, i>>] = v]
    BY <1>7 DEF RunMember, CheckDescendant, CreateDescendant
  <2> QED BY <1>1, <1>2, <2>1, <2>2, MemberMoves
<1>8. CASE \/ MemberRan(t, i) \/ MemberFailed(t, i)
           \/ CompleteMember(t, i) \/ FailToComplete(t, i)
  <2>1. UNCHANGED <<reserve, children, refused>>
    BY <1>8 DEF MemberRan, MemberFailed, CompleteMember, FailToComplete, limitVars
  <2>2. PICK v \in {"closing", "completed", "failed", "handedOver"} :
            slot' = [slot EXCEPT ![<<t, i>>] = v]
    BY <1>8 DEF MemberRan, MemberFailed, CompleteMember, FailToComplete, FailMember
  <2> QED BY <1>1, <1>2, <2>1, <2>2, MemberMoves
<1> QED BY <1>3, <1>4, <1>5, <1>6, <1>7, <1>8 DEF Member

\* One team at a time, whose reservation nobody outgrows by adding members to it: then
\* neither tokens spent nor descendants make the limits refuse a planned member, for
\* any number of members, runs and descendants (validateSpawnPolicy under the
\* reservation of spawnTeam).
THEOREM ReservationsHold ==
    ASSUME ~Overlap, Extensible \subseteq {0}
    PROVE  Spec => []ReservedMembersFit
<1>1. Init => Capacity
  <2> SUFFICES ASSUME Init PROVE Capacity
    OBVIOUS
  <2>1. NoReserve \in Reservation /\ NoReserve.held = FALSE
    BY DEF NoReserve, Reservation
  <2>2. Limits
    <3>1. children = 0 /\ afford = MaxChildren /\ reserve = [t \in Teams |-> NoReserve]
      BY DEF Init
    <3> HIDE DEF Reservation
    <3> QED BY <2>1, <3>1, TeamRunAssumption DEF Limits, TeamRunAssumption
  <2>3. OneOpen
    BY DEF Init, OneOpen, Open
  <2>4. \A t \in Teams : Planned(t)
    BY <2>1 DEF Init, Planned
  <2> QED BY <2>2, <2>3, <2>4 DEF Init, Capacity
<1>2. TInv /\ Capacity /\ [Next]_vars => Capacity'
  <2> SUFFICES ASSUME TInv, Capacity, [Next]_vars PROVE Capacity'
    OBVIOUS
  <2>1. ASSUME UNCHANGED <<run, plans, items, fresh, slot, reserve, children, refused>>,
               afford' \in Int
        PROVE  Capacity'
    <3>1. \A u \in Teams : Planned(u)'
      BY <2>1, OtherPlan
    <3> QED BY <2>1, <3>1 DEF Capacity, Limits, OneOpen, Open
  <2>2. CASE UNCHANGED vars
    BY <2>1, <2>2 DEF vars, teamVars, memberVars, limitVars, Capacity, Limits
  <2>3. CASE Spend
    <3>1. afford' \in Int
      BY <2>3, TeamRunAssumption DEF Spend, TeamRunAssumption
    <3> QED BY <2>1, <2>3, <3>1 DEF Spend, teamVars, memberVars
  <2>4. ASSUME NEW t \in Teams,
               \/ SpawnTeam(t) \/ RegisterTeam(t) \/ FailToRegister(t)
               \/ SpawnAgentIntoTeam(t) \/ Begin(t) \/ Advance(t)
        PROVE  Capacity'
    <3>1. CASE SpawnTeam(t) \/ RegisterTeam(t) \/ FailToRegister(t) \/ SpawnAgentIntoTeam(t)
      BY <3>1, PlanningFits
    <3>2. CASE \/ Begin(t) \/ Assign(t) \/ RecordOutcomes(t) \/ Synthesize(t) \/ SendResult(t)
               \/ Fail(t) \/ FailToClose(t)
      BY <3>2, RunFits
    <3>3. CASE Close(t)
      BY <3>3, CloseFits
    <3>4. CASE \E i \in Slots : Member(t, i)
      BY <3>4, MemberFits
    <3> QED BY <2>4, <3>1, <3>2, <3>3, <3>4 DEF Advance
  <2> QED BY <2>2, <2>3, <2>4 DEF Next
<1>3. Capacity => ReservedMembersFit
  BY DEF Capacity, ReservedMembersFit
<1> QED BY <1>1, <1>2, <1>3, TInvHolds, PTL DEF Spec

=============================================================================
