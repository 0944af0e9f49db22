--------------------------- MODULE RootTurnProofs ---------------------------
(***************************************************************************)
(* Proofs about RootTurn.  A turn's claim to be done rests on the record   *)
(* it has of its calls, which takes another form at each stage of the      *)
(* turn; the steps of its tree are counted against those still to come.    *)
(* The plan of a long task's first step is a staged team because every way *)
(* through the pipeline of DelegationDecision ends where a missing phase   *)
(* is filled in and the members are put in order.                          *)
(***************************************************************************)
EXTENDS RootTurn, FiniteSetTheorems, TLAPS

-----------------------------------------------------------------------------
(* The decisions of a turn have the fields the turn reads, whatever a model, *)
(* a budget and a score made of them.                                        *)

Shaped(d) ==
    /\ d = [action |-> d.action, agents |-> d.agents, form |-> d.form, staged |-> d.staged,
            final |-> d.final, origin |-> d.origin]
    /\ d.action \in {"solve", "ask", "spawn"} /\ d.final \in BOOLEAN

\* A decision of one of these origins.
Apt(d, origins) == Shaped(d) /\ d.origin \in origins

LEMMA ChangedDecision ==
    ASSUME NEW origins, NEW d, Apt(d, origins), NEW x
    PROVE  /\ Apt([d EXCEPT !.agents = x], origins)
           /\ Apt([d EXCEPT !.form = x], origins)
           /\ Apt([d EXCEPT !.staged = x], origins)
           /\ x \in BOOLEAN => Apt([d EXCEPT !.final = x], origins)
           /\ x \in {"solve", "ask", "spawn"} => Apt([d EXCEPT !.action = x], origins)
           /\ \A others : x \in others => Apt([d EXCEPT !.origin = x], others)
<1>1. Apt([d EXCEPT !.agents = x], origins)
  BY DEF Apt, Shaped
<1>2. Apt([d EXCEPT !.form = x], origins)
  BY DEF Apt, Shaped
<1>3. Apt([d EXCEPT !.staged = x], origins)
  BY DEF Apt, Shaped
<1>4. ASSUME x \in BOOLEAN PROVE Apt([d EXCEPT !.final = x], origins)
  BY <1>4 DEF Apt, Shaped
<1>5. ASSUME x \in {"solve", "ask", "spawn"} PROVE Apt([d EXCEPT !.action = x], origins)
  BY <1>5 DEF Apt, Shaped
<1>6. ASSUME NEW others, x \in others PROVE Apt([d EXCEPT !.origin = x], others)
  BY <1>6 DEF Apt, Shaped
<1> QED BY <1>1, <1>2, <1>3, <1>4, <1>5, <1>6

LEMMA PlainDecisions ==
    ASSUME NEW origins, "task" \in origins
    PROVE  Apt(Solve, origins) /\ Apt(Ask, origins) /\ \A a : Apt(Spawn(a), origins)
<1>1. Apt(Solve, origins)
  BY DEF Apt, Shaped, Solve
<1>2. Apt(Ask, origins)
  BY <1>1, ChangedDecision DEF Ask
<1>3. ASSUME NEW a PROVE Apt(Spawn(a), origins)
  <2> DEFINE d == [Solve EXCEPT !.action = "spawn"]
             e == [d EXCEPT !.agents = a]
  <2>1. Apt(d, origins)
    BY <1>1, ChangedDecision
  <2>2. Apt(e, origins)
    <3> HIDE DEF d
    <3> QED BY <2>1, ChangedDecision
  <2> QED BY <2>2 DEF Spawn
<1> QED BY <1>1, <1>2, <1>3

LEMMA MadeDecision ==
    ASSUME NEW origins, "task" \in origins, NEW a, NEW f, NEW s, NEW final \in BOOLEAN,
           NEW origin \in origins
    PROVE  /\ Apt([Spawn(a) EXCEPT !.form = f, !.staged = s, !.final = final, !.origin = origin],
                  origins)
           /\ Apt([Spawn(a) EXCEPT !.form = f, !.staged = s], origins)
           /\ Apt([Spawn(a) EXCEPT !.form = f], origins)
           /\ Apt([Spawn(a) EXCEPT !.form = f, !.staged = s, !.origin = origin], origins)
           /\ Apt([Spawn(a) EXCEPT !.final = final, !.origin = origin], origins)
           /\ Apt([Solve EXCEPT !.origin = origin], origins)
<1> DEFINE d0 == Spawn(a)
           d1 == [d0 EXCEPT !.form = f]
           d2 == [d1 EXCEPT !.staged = s]
           d3 == [d2 EXCEPT !.final = final]
           d4 == [d3 EXCEPT !.origin = origin]
           d5 == [d2 EXCEPT !.origin = origin]
           d6 == [d0 EXCEPT !.final = final]
           d7 == [d6 EXCEPT !.origin = origin]
<1>0. Apt(d0, origins)
  BY PlainDecisions
<1>1. Apt(d1, origins) /\ Apt(d6, origins)
  <2> HIDE DEF d0
  <2> QED BY <1>0, ChangedDecision
<1>2. Apt(d2, origins)
  <2> HIDE DEF d1
  <2> QED BY <1>1, ChangedDecision
<1>3. Apt(d3, origins) /\ Apt(d5, origins)
  <2> HIDE DEF d2
  <2> QED BY <1>2, ChangedDecision
<1>4. Apt(d4, origins)
  <2> HIDE DEF d3
  <2> QED BY <1>3, ChangedDecision
<1>5. Apt(d7, origins)
  <2> HIDE DEF d6
  <2> QED BY <1>1, ChangedDecision
<1>6. Apt([Solve EXCEPT !.origin = origin], origins)
  BY PlainDecisions, ChangedDecision
<1> QED BY <1>1, <1>2, <1>3, <1>4, <1>5, <1>6

LEMMA CutDecision ==
    ASSUME NEW origins, NEW d, Apt(d, origins), NEW a
    PROVE  Apt(CutTo(d, a), origins)
<1> DEFINE form == IF Len(a) > 1 THEN d.form ELSE "independent"
           staged == d.staged /\ Len(a) > 1
           d1 == [d EXCEPT !.agents = a]
           d2 == [d1 EXCEPT !.form = form]
           d3 == [d2 EXCEPT !.staged = staged]
<1>1. CutTo(d, a) = d3
  BY DEF CutTo
<1>2. Apt(d1, origins)
  BY ChangedDecision
<1>3. Apt(d2, origins)
  <2> HIDE DEF d1, form
  <2> QED BY <1>2, ChangedDecision
<1>4. Apt(d3, origins)
  <2> HIDE DEF d2, staged
  <2> QED BY <1>3, ChangedDecision
<1> QED BY <1>1, <1>4

LEMMA ProposedDecisions ==
    ASSUME NEW origins, {"task", "cached"} \subseteq origins
    PROVE  /\ \A d \in Proposed \cup Fallbacks \cup Gated : Apt(d, origins)
<1>0. "task" \in origins /\ "cached" \in origins
  OBVIOUS
<1>1. \A d \in Proposed : Apt(d, origins)
  <2> TAKE d \in Proposed
  <2>1. PICK a \in Proposals : \E f \in Forms(a), final \in BOOLEAN, origin \in {"task", "cached"} :
          d = ProposedAs(a, f[1], f[2], final, origin)
    BY DEF Proposed
  <2>2. PICK f \in Forms(a), final \in BOOLEAN, origin \in {"task", "cached"} :
          d = ProposedAs(a, f[1], f[2], final, origin)
    BY <2>1
  <2> DEFINE form == f[1]
             staged == f[2]
  <2>3. origin \in origins
    BY <1>0
  <2> HIDE DEF form, staged
  <2>4. Apt(ProposedAs(a, form, staged, final, origin), origins)
    BY <1>0, <2>3, MadeDecision DEF ProposedAs
  <2> QED BY <2>2, <2>4 DEF form, staged
<1>2. \A d \in Fallbacks : Apt(d, origins)
  <2> TAKE d \in Fallbacks
  <2>1. d \in {Ask, Solve} \/ \E a : d = [Spawn(a) EXCEPT !.form = "unset"]
    BY DEF Fallbacks
  <2>2. \A a : Apt([Spawn(a) EXCEPT !.form = "unset"], origins)
    <3> TAKE a
    <3> DEFINE form == "unset"
    <3>1. TRUE \in BOOLEAN
      OBVIOUS
    <3> HIDE DEF form
    <3>2. Apt([Spawn(a) EXCEPT !.form = form], origins)
      BY <1>0, <3>1, MadeDecision
    <3> QED BY <3>2 DEF form
  <2> QED BY <1>0, <2>1, <2>2, PlainDecisions
<1>3. \A d \in Gated : Apt(d, origins)
  <2> TAKE d \in Gated
  <2>1. d = Solve \/ \E a : d = Spawn(a)
    BY DEF Gated
  <2> QED BY <1>0, <2>1, PlainDecisions
<1> QED BY <1>1, <1>2, <1>3

LEMMA ConstrainedDecision ==
    ASSUME NEW origins, "task" \in origins, NEW d, Apt(d, origins), NEW purse
    PROVE  Apt(BudgetConstrained(d, purse), origins) /\ Apt(Executable(d), origins)
<1>1. d.final \in BOOLEAN /\ d.origin \in origins
  BY DEF Apt, Shaped
<1>2. Apt([Spawn(<<Head(d.agents)>>) EXCEPT !.final = d.final, !.origin = d.origin], origins)
  <2> DEFINE a == <<Head(d.agents)>>
             final == d.final
             origin == d.origin
  <2>1. final \in BOOLEAN /\ origin \in origins
    BY <1>1
  <2> HIDE DEF a, final, origin
  <2>2. Apt([Spawn(a) EXCEPT !.final = final, !.origin = origin], origins)
    BY <2>1, MadeDecision
  <2> QED BY <2>2 DEF a, final, origin
<1>3. Apt(BudgetConstrained(d, purse), origins)
  BY <1>2, PlainDecisions DEF BudgetConstrained
<1>4. Apt(Executable(d), origins)
  BY CutDecision, PlainDecisions DEF Executable
<1> QED BY <1>3, <1>4

LEMMA DecidedDecisions ==
    ASSUME NEW origins, {"task", "cached"} \subseteq origins, NEW purse
    PROVE  \A d \in Decided(purse) : Apt(d, origins)
<1>1. \A d \in Proposed \cup Fallbacks : Apt(BudgetConstrained(d, purse), origins)
  BY ProposedDecisions, ConstrainedDecision
<1>2. \A d : Apt(d, origins) => \A e \in Audited(d, purse) : Apt(e, origins)
  BY <1>1 DEF Audited
<1>3. \A d : Apt(d, origins) => Apt(Executable(d), origins)
  BY ConstrainedDecision
<1> QED BY <1>1, <1>2, <1>3, ProposedDecisions DEF Decided

LEMMA EnsuredDecision ==
    ASSUME NEW origins, NEW d, Apt(d, origins), NEW mutation, NEW room, NEW able
    PROVE  Apt(Ensured(d, mutation, room, able), origins)
<1>1. \A agents, staged :
         Apt([d EXCEPT !.agents = agents, !.form = "team", !.final = FALSE, !.staged = staged], origins)
  <2> SUFFICES ASSUME NEW agents, NEW staged
               PROVE  Apt([d EXCEPT !.agents = agents, !.form = "team", !.final = FALSE,
                                    !.staged = staged], origins)
    OBVIOUS
  <2> DEFINE d1 == [d EXCEPT !.agents = agents]
             d2 == [d1 EXCEPT !.form = "team"]
             d3 == [d2 EXCEPT !.final = FALSE]
             d4 == [d3 EXCEPT !.staged = staged]
  <2>1. Apt(d1, origins)
    BY ChangedDecision
  <2>2. Apt(d2, origins)
    <3> HIDE DEF d1
    <3> QED BY <2>1, ChangedDecision
  <2>3. Apt(d3, origins)
    <3> HIDE DEF d2
    <3> QED BY <2>2, ChangedDecision
  <2>4. Apt(d4, origins)
    <3> HIDE DEF d3
    <3> QED BY <2>3, ChangedDecision
  <2> QED BY <2>4
<1> QED BY <1>1 DEF Ensured

LEMMA SelectedDecisions ==
    ASSUME NEW origins, "task" \in origins, NEW d, Apt(d, origins), NEW slots, NEW preserve
    PROVE  \A e \in Selected(d, slots, preserve) : Apt(e, origins)
<1>1. \A a : Apt(Executable([d EXCEPT !.agents = a]), origins)
  BY ChangedDecision, ConstrainedDecision
<1>2. \A e : Apt(e, origins) => \A f \in Candidates(e) : Apt(f, origins)
  BY CutDecision, PlainDecisions DEF Candidates
<1> QED BY <1>1, <1>2, PlainDecisions DEF Selected

Origins == {"task", "cached", "guided", "answer"}

LEMMA ExtendedDecisions ==
    ASSUME NEW d, Apt(d, Origins), NEW long, NEW mutation, NEW able
    PROVE  /\ Apt(LongHorizonTeam(mutation, able), Origins)
           /\ \A e \in Overridden(d, long, mutation, able) : Apt(e, Origins)
           /\ \A e \in Recoveries(able) : Apt(e, Origins)
<1>0. "task" \in Origins /\ "answer" \in Origins /\ "guided" \in Origins /\ TRUE \in BOOLEAN
  BY DEF Origins
<1>1. \A a, f, s : \A origin \in Origins :
        /\ Apt([Spawn(a) EXCEPT !.form = f, !.staged = s, !.origin = origin], Origins)
        /\ Apt([Spawn(a) EXCEPT !.form = f, !.staged = s], Origins)
        /\ Apt([Solve EXCEPT !.origin = origin], Origins)
  BY <1>0, MadeDecision
<1>2. \A m : Apt(LongHorizonTeam(m, able), Origins)
  BY <1>0, <1>1 DEF LongHorizonTeam
<1>3. Apt([Solve EXCEPT !.origin = "answer"], Origins)
  BY <1>0, <1>1
<1>4. \A e \in Overridden(d, long, mutation, able) : Apt(e, Origins)
  BY <1>2, <1>3 DEF Overridden
<1>5. \A e \in Recoveries(able) : Apt(e, Origins)
  <2>1. \A a : Apt(Guided(a), Origins)
    BY <1>0, <1>1 DEF Guided
  <2> QED BY <2>1 DEF Recoveries
<1> QED BY <1>2, <1>4, <1>5

LEMMA FirstDecisionsApt ==
    ASSUME NEW long, NEW mutation, NEW resume, NEW room, NEW slots, NEW purse, NEW able
    PROVE  \A d \in FirstDecisions(long, mutation, resume, room, slots, purse, able) :
              Apt(d, Origins)
<1> DEFINE first == IF resume = "none" THEN Decided(purse)
                    ELSE IF resume = "alone" THEN {Solve} ELSE Recoveries(able)
           staged(d) == IF long /\ Spawns(d) THEN Ensured(d, mutation, room, able)
                        ELSE IF long /\ d.action = "solve" /\ resume = "none"
                             THEN LongHorizonTeam(mutation, able) ELSE d
           insisted(d) == long /\ Spawns(d)
           selected(d) ==
               IF resume = "none"
               THEN Selected(d, slots, long \/ (Spawns(d) /\ d.form = "team")) ELSE {d}
           again(d) == IF long /\ Spawns(d) THEN Ensured(d, mutation, room, able) ELSE d
           settled(d, e) == IF insisted(d) /\ ~Spawns(e) /\ slots > 0 THEN d ELSE e
<1>0. {"task", "cached"} \subseteq Origins /\ "task" \in Origins
  BY DEF Origins
<1>1. \A d \in first : Apt(d, Origins)
  BY <1>0, DecidedDecisions, PlainDecisions, ExtendedDecisions
<1>2. \A d : Apt(d, Origins) => Apt(staged(d), Origins) /\ Apt(again(d), Origins)
  BY EnsuredDecision, ExtendedDecisions
<1>3. \A d : Apt(d, Origins) => \A e \in selected(d) : Apt(e, Origins)
  BY <1>0, SelectedDecisions
<1>4. \A d, e : Apt(d, Origins) /\ Apt(e, Origins) => Apt(settled(d, e), Origins)
  OBVIOUS
<1>5. \A d : Apt(d, Origins) => \A e \in Overridden(d, long, mutation, able) : Apt(e, Origins)
  BY ExtendedDecisions
<1>6. FirstDecisions(long, mutation, resume, room, slots, purse, able) =
        UNION { { settled(d, again(e)) : e \in selected(d) } :
                   d \in UNION { Overridden(staged(p), long, mutation, able) : p \in first } }
  BY DEF FirstDecisions
<1> HIDE DEF first, staged, insisted, selected, again, settled
<1>7. \A d \in UNION { Overridden(staged(p), long, mutation, able) : p \in first } : Apt(d, Origins)
  BY <1>1, <1>2, <1>5
<1> QED BY <1>2, <1>3, <1>4, <1>6, <1>7

\* Only the first decision can be the recovery a verifier guides.
Later == {"task", "cached", "answer"}

LEMMA NextDecisionsApt ==
    ASSUME NEW long, NEW mutation, NEW unclosed, NEW room, NEW slots, NEW purse, NEW able
    PROVE  \A d \in NextDecisions(long, mutation, unclosed, room, slots, purse, able) :
              Apt(d, Later)
<1>0. {"task", "cached"} \subseteq Later /\ "task" \in Later /\ "cached" \in Later /\ TRUE \in BOOLEAN
  BY DEF Later
<1>1. \A a, f, s : \A origin \in Later :
        /\ Apt([Spawn(a) EXCEPT !.form = f, !.staged = s, !.origin = origin], Later)
        /\ Apt([Spawn(a) EXCEPT !.form = f], Later)
  BY <1>0, MadeDecision
<1>2. Apt(Unclosed(able), Later)
  BY <1>0, <1>1 DEF Unclosed
<1>3. \A e \in Evidenced(mutation, able) : Apt(e, Later)
  <2> DEFINE a == <<Regular(2, able)>>
             e == [Spawn(a) EXCEPT !.form = "unset"]
  <2>1. Apt(e, Later)
    <3> HIDE DEF a
    <3> QED BY <1>0, <1>1
  <2> HIDE DEF e
  <2>2. Evidenced(mutation, able) \subseteq {e}
    BY DEF Evidenced, e
  <2> QED BY <2>1, <2>2
<1>4. \A d \in Continuations(long, mutation, unclosed, able) : Apt(d, Later)
  BY <1>0, <1>2, <1>3, PlainDecisions, ProposedDecisions DEF Continuations
<1>5. \A d : Apt(d, Later) =>
        \A e \in Selected(BudgetConstrained(d, purse), slots, TRUE) :
            Apt(e, Later) /\ Apt(Ensured(e, mutation, room, able), Later)
  BY <1>0, ConstrainedDecision, SelectedDecisions, EnsuredDecision
<1> DEFINE kept(e) == IF long /\ Spawns(e) /\ (mutation \/ e.form \in {"team", "bare"})
                      THEN Ensured(e, mutation, room, able) ELSE e
<1>6. NextDecisions(long, mutation, unclosed, room, slots, purse, able) =
        UNION { { kept(e) : e \in Selected(BudgetConstrained(d, purse), slots, TRUE) } :
                d \in Continuations(long, mutation, unclosed, able) }
  BY DEF NextDecisions
<1>7. \A d : Apt(d, Later) =>
        \A e \in Selected(BudgetConstrained(d, purse), slots, TRUE) : Apt(kept(e), Later)
  BY <1>5
<1> HIDE DEF kept
<1>8. ASSUME NEW x \in NextDecisions(long, mutation, unclosed, room, slots, purse, able)
      PROVE  Apt(x, Later)
  <2>1. PICK d \in Continuations(long, mutation, unclosed, able) :
          \E e \in Selected(BudgetConstrained(d, purse), slots, TRUE) : x = kept(e)
    BY <1>6
  <2> QED BY <1>4, <1>7, <2>1
<1> QED BY <1>8

LEMMA BriefTyped ==
    ASSUME NEW origins, NEW d, Apt(d, origins), NEW room, NEW slots
    PROVE  /\ Brief(d, room, slots) \in Plan
           /\ Brief(d, room, slots).action = d.action
           /\ "guided" \notin origins => ~Brief(d, room, slots).guided
<1>1. d.action \in {"solve", "ask", "spawn"} /\ d.final \in BOOLEAN /\ d.origin \in origins
  BY DEF Apt, Shaped
<1>2. Staged(d) \in BOOLEAN
  BY DEF Staged
<1> DEFINE guided == d.origin = "guided" /\ Len(d.agents) > 1
           answer == d.origin = "answer"
           wide == room >= MaxMembers
           place == slots > 0
<1>3. guided \in BOOLEAN /\ answer \in BOOLEAN /\ wide \in BOOLEAN /\ place \in BOOLEAN
  OBVIOUS
<1>4. "guided" \notin origins => ~guided
  BY <1>1
<1>5. Brief(d, room, slots) =
        [action |-> d.action, staged |-> Staged(d), final |-> d.final,
         guided |-> guided, answer |-> answer, wide |-> wide, open |-> place]
  BY DEF Brief
<1> HIDE DEF guided, answer, wide, place
<1> QED BY <1>1, <1>2, <1>3, <1>4, <1>5 DEF Plan

LEMMA BriefsTyped ==
    /\ \A b \in FirstBriefs : b.brief \in Plan
    /\ \A b \in NextBriefs : b.brief \in Plan /\ ~b.brief.guided
    /\ NoPlan \in Plan /\ ~NoPlan.guided
<1>1. ASSUME NEW b \in FirstBriefs PROVE b.brief \in Plan
  BY FirstDecisionsApt, BriefTyped DEF FirstBriefs, FirstBriefsFor
<1>2. ASSUME NEW b \in NextBriefs PROVE b.brief \in Plan /\ ~b.brief.guided
  <2>1. "guided" \notin Later
    BY DEF Later
  <2> QED BY <2>1, NextDecisionsApt, BriefTyped DEF NextBriefs, NextBriefsFor
<1>3. NoPlan \in Plan /\ ~NoPlan.guided
  <2>1. "task" \in Later /\ "guided" \notin Later
    BY DEF Later
  <2> QED BY <2>1, PlainDecisions, BriefTyped DEF NoPlan
<1> QED BY <1>1, <1>2, <1>3

-----------------------------------------------------------------------------
(* How the members of a long task's team are put together and put in order. *)

\* Members arranged by different keys come in the order of their keys.
LEMMA ArrangedFacts ==
    ASSUME NEW X, NEW s \in Seq(X), NEW key, key \in [DOMAIN key -> Nat],
           DOMAIN key \subseteq DOMAIN s,
           \A i, j \in DOMAIN key : key[i] = key[j] => i = j
    PROVE  /\ Arranged(s, key) \in Seq(X)
           /\ \A i, j \in DOMAIN key : key[i] < key[j] =>
                  \E k, l \in 1..Len(Arranged(s, key)) :
                      k < l /\ Arranged(s, key)[k] = s[i] /\ Arranged(s, key)[l] = s[j]
<1> DEFINE S == DOMAIN key
           n == Cardinality(S)
           B(i) == {j \in S : key[j] < key[i]}
           r == [i \in S |-> Cardinality(B(i))]
           place(k) == CHOOSE i \in S : r[i] = k - 1
<1>1. IsFiniteSet(S) /\ n \in Nat /\ \A i \in S : s[i] \in X
  <2>1. DOMAIN s = 1..Len(s) /\ Len(s) \in Nat /\ \A i \in DOMAIN s : s[i] \in X
    OBVIOUS
  <2>2. IsFiniteSet(DOMAIN s)
    <3>1. 1 \in Int /\ Len(s) \in Int
      BY <2>1
    <3>2. IsFiniteSet(1..Len(s))
      BY <3>1, FS_Interval
    <3> QED BY <2>1, <3>2
  <2>3. IsFiniteSet(S)
    BY <2>2, FS_Subset
  <2> QED BY <2>1, <2>3, FS_CardinalityType
<1>2. \A i \in S : r[i] = Cardinality(B(i)) /\ r[i] \in Nat /\ r[i] <= n - 1
  <2> TAKE i \in S
  <2>1. B(i) \in SUBSET (S \ {i}) /\ IsFiniteSet(S \ {i}) /\ Cardinality(S \ {i}) = n - 1
    <3>1. B(i) \in SUBSET (S \ {i})
      <4>1. ~(key[i] < key[i])
        OBVIOUS
      <4> QED BY <4>1
    <3>2. IsFiniteSet(S \ {i}) /\ Cardinality(S \ {i}) = n - 1
      <4> HIDE DEF S
      <4> QED BY <1>1, FS_RemoveElement
    <3> QED BY <3>1, <3>2
  <2>2. IsFiniteSet(B(i)) /\ Cardinality(B(i)) <= n - 1
    BY <2>1, FS_Subset
  <2>3. Cardinality(B(i)) \in Nat
    BY <2>2, FS_CardinalityType
  <2> QED BY <2>2, <2>3
<1>3. ASSUME NEW i \in S, NEW j \in S, key[i] < key[j] PROVE r[i] < r[j]
  <2>1. IsFiniteSet(B(j))
    BY <1>1, FS_Subset
  <2>2. i \in B(j) /\ B(i) \in SUBSET (B(j) \ {i})
    BY <1>3
  <2>3. IsFiniteSet(B(j) \ {i}) /\ Cardinality(B(j) \ {i}) = r[j] - 1
    BY <1>2, <2>1, <2>2, FS_RemoveElement
  <2>4. Cardinality(B(i)) <= r[j] - 1
    BY <2>2, <2>3, FS_Subset
  <2> QED BY <1>2, <2>4
<1>4. \A i, j \in S : r[i] = r[j] => i = j
  <2> TAKE i, j \in S
  <2>1. key[i] \in Nat /\ key[j] \in Nat /\ r[i] \in Nat /\ r[j] \in Nat
    BY <1>2
  <2>2. key[i] < key[j] \/ key[j] < key[i] \/ i = j
    BY <2>1
  <2> HIDE DEF r, B
  <2> QED BY <1>3, <2>1, <2>2
<1>5. \A k \in 1..n : \E i \in S : r[i] = k - 1
  <2> DEFINE T == 0..(n - 1)
  <2>1. IsFiniteSet(T) /\ Cardinality(T) = n
    <3> HIDE DEF n
    <3>1. 0 \in Int /\ n - 1 \in Int /\ n \in Nat
      BY <1>1
    <3>2. IsFiniteSet(0..(n - 1)) /\ Cardinality(0..(n - 1)) = IF 0 > n - 1 THEN 0 ELSE (n - 1) - 0 + 1
      BY <3>1, FS_Interval
    <3> QED BY <3>1, <3>2
  <2>2. r \in [S -> T]
    BY <1>2
  <2>3. r \in Injection(S, T)
    <3> HIDE DEF r, T
    <3> QED BY <1>4, <2>2 DEF Injection, IsInjective
  <2>4. r \in Surjection(S, T)
    <3> HIDE DEF r, T
    <3> QED BY <2>1, <2>3, FS_Injection
  <2>5. \A m \in T : \E i \in S : r[i] = m
    <3> HIDE DEF r, T
    <3> QED BY <2>4 DEF Surjection
  <2>6. \A k \in 1..n : k - 1 \in T
    BY <1>1
  <2> QED BY <2>5, <2>6
<1>6. \A k \in 1..n : place(k) \in S /\ r[place(k)] = k - 1
  <2> HIDE DEF r
  <2> QED BY <1>5
<1>7. Arranged(s, key) = [k \in 1..n |-> s[place(k)]]
  <2>1. \A k : place(k) = CHOOSE i \in S : Cardinality(B(i)) = k - 1
    OBVIOUS
  <2>2. Arranged(s, key) = [k \in 1..n |-> s[CHOOSE i \in S : Cardinality(B(i)) = k - 1]]
    BY DEF Arranged
  <2> HIDE DEF r, place, B, S, n
  <2> QED BY <2>1, <2>2
<1> DEFINE a == Arranged(s, key)
<1>8. a \in Seq(X) /\ Len(a) = n /\ \A k \in 1..n : a[k] = s[place(k)]
  <2> HIDE DEF place, r, n
  <2>1. a = [k \in 1..n |-> s[place(k)]] /\ \A k \in 1..n : s[place(k)] \in X
    BY <1>1, <1>6, <1>7
  <2> QED BY <1>1, <2>1
<1>9. ASSUME NEW i \in S, NEW j \in S, key[i] < key[j]
      PROVE  \E k, l \in 1..Len(a) : k < l /\ a[k] = s[i] /\ a[l] = s[j]
  <2> DEFINE k == r[i] + 1
             l == r[j] + 1
  <2>1. r[i] \in Nat /\ r[j] \in Nat /\ r[i] < r[j] /\ r[j] <= n - 1
    BY <1>2, <1>3, <1>9
  <2>2. k \in 1..n /\ l \in 1..n /\ k < l /\ k - 1 = r[i] /\ l - 1 = r[j]
    BY <1>1, <2>1
  <2>3. place(k) = i /\ place(l) = j
    <3> HIDE DEF r, place, k, l
    <3> QED BY <1>4, <1>6, <2>2
  <2> HIDE DEF a, k, l, place, r, n
  <2>4. a[k] = s[i] /\ a[l] = s[j]
    BY <1>8, <2>2, <2>3
  <2> QED BY <1>8, <2>2, <2>4
<1> QED BY <1>8, <1>9

\* By phase, an implementer comes before a verifier.
LEMMA ByPhaseFacts ==
    ASSUME NEW a \in Seq(Member)
    PROVE  /\ ByPhase(a) \in Seq(Member)
           /\ \A x, y \in DOMAIN a : a[x].phase = 1 /\ a[y].phase = 2 =>
                  \E i, j \in 1..Len(ByPhase(a)) :
                      i < j /\ ByPhase(a)[i].phase = 1 /\ ByPhase(a)[j].phase = 2
<1> DEFINE D == DOMAIN a
           n == Len(a)
           key == [i \in D |-> a[i].phase * n + i]
<1>1. D = 1..n /\ n \in Nat /\ \A i \in D : a[i].phase \in 0..2
  <2>1. D = 1..n /\ n \in Nat /\ \A i \in D : a[i] \in Member
    OBVIOUS
  <2> QED BY <2>1 DEF Member
<1>2. \A i \in D : \/ a[i].phase = 0 /\ key[i] = i
                   \/ a[i].phase = 1 /\ key[i] = n + i
                   \/ a[i].phase = 2 /\ key[i] = 2 * n + i
  BY <1>1
<1>3. key \in [D -> Nat]
  <2>1. \A i \in D : key[i] \in Nat
    <3> HIDE DEF key
    <3> QED BY <1>1, <1>2
  <2> QED BY <2>1
<1>4. \A i, j \in D : key[i] = key[j] => i = j
  <2> HIDE DEF key
  <2> QED BY <1>1, <1>2
<1>5. \A x, y \in D : a[x].phase = 1 /\ a[y].phase = 2 => key[x] < key[y]
  <2> HIDE DEF key
  <2> QED BY <1>1, <1>2
<1>6. ByPhase(a) = Arranged(a, key)
  BY DEF ByPhase
<1> HIDE DEF key
<1>7. DOMAIN key = D
  BY DEF key
<1> DEFINE b == Arranged(a, key)
<1>8. b \in Seq(Member) /\
      \A x, y \in D : key[x] < key[y] =>
          \E k, l \in 1..Len(b) : k < l /\ b[k] = a[x] /\ b[l] = a[y]
  <2> HIDE DEF D
  <2>1. DOMAIN key \subseteq DOMAIN a /\ key \in [DOMAIN key -> Nat]
    BY <1>3, <1>7 DEF D
  <2>2. \A i, j \in DOMAIN key : key[i] = key[j] => i = j
    BY <1>4, <1>7
  <2> QED BY <1>7, <2>1, <2>2, ArrangedFacts
<1> HIDE DEF b
<1>9. \A x, y \in D : a[x].phase = 1 /\ a[y].phase = 2 =>
          \E i, j \in 1..Len(b) : i < j /\ b[i].phase = 1 /\ b[j].phase = 2
  <2> TAKE x, y \in D
  <2> HAVE a[x].phase = 1 /\ a[y].phase = 2
  <2>1. PICK k, l \in 1..Len(b) : k < l /\ b[k] = a[x] /\ b[l] = a[y]
    BY <1>5, <1>8
  <2> QED BY <2>1
<1> QED BY <1>6, <1>8, <1>9 DEF b

LEMMA AbleOnesFacts == ASSUME NEW a \in Seq(Member) PROVE AbleOnes(a) \in Seq(Member)
<1> DEFINE S == {j \in DOMAIN a : a[j].able}
           key == [i \in S |-> i]
<1>1. S \in SUBSET (DOMAIN a) /\ DOMAIN a \subseteq Nat
  OBVIOUS
<1>2. /\ DOMAIN key \subseteq DOMAIN a /\ key \in [DOMAIN key -> Nat]
      /\ \A i, j \in DOMAIN key : key[i] = key[j] => i = j
  BY <1>1
<1>3. AbleOnes(a) = Arranged(a, key)
  BY DEF AbleOnes
<1> HIDE DEF key, S
<1> QED BY <1>1, <1>2, <1>3, ArrangedFacts

\* A member of some phase.
Has(a, p) == \E i \in 1..Len(a) : a[i].phase = p

LEMMA LargestPlace ==
    ASSUME NEW S, S \subseteq 1..3, S # {}
    PROVE  Max(S) \in S
<1>1. \E x \in S : \A y \in S : x >= y
  <2>1. CASE 3 \in S
    BY <2>1
  <2>2. CASE 3 \notin S /\ 2 \in S
    <3>1. \A y \in S : y \in {1, 2}
      BY <2>2
    <3> QED BY <2>2, <3>1
  <2>3. CASE 3 \notin S /\ 2 \notin S
    <3>1. \A y \in S : y = 1
      BY <2>3
    <3>2. 1 \in S
      BY <3>1
    <3> QED BY <3>1, <3>2
  <2> QED BY <2>1, <2>2, <2>3
<1> QED BY <1>1 DEF Max

LEMMA SmallerOf ==
    ASSUME NEW m \in Nat, NEW n \in Nat
    PROVE  /\ Min({m, n}) \in Nat /\ Min({m, n}) <= m /\ Min({m, n}) <= n
           /\ m >= n => Min({m, n}) = n
<1>1. \E x \in {m, n} : \A y \in {m, n} : x <= y
  BY m <= n \/ n <= m
<1>2. Min({m, n}) \in {m, n} /\ \A y \in {m, n} : Min({m, n}) <= y
  BY <1>1 DEF Min
<1> QED BY <1>2

\* A phase that is asked for is there afterwards, and no other is lost for it.
LEMMA WithPhaseFacts ==
    ASSUME NEW a \in Seq(Member), Len(a) <= 3, NEW phase \in 0..2, NEW able \in BOOLEAN
    PROVE  LET w == WithPhase(a, phase, 3, able)
           IN  /\ w \in Seq(Member) /\ Len(w) <= 3 /\ Has(w, phase)
               /\ \A p \in 0..2 : Has(a, p) => Has(w, p)
<1> DEFINE D == 1..Len(a)
           m == Regular(phase, able)
           twice == {i \in D : \E j \in D \ {i} : a[j].phase = a[i].phase}
           custom == {i \in twice : a[i].custom}
           S == IF custom # {} THEN custom ELSE twice
           w == WithPhase(a, phase, 3, able)
<1>1. m \in Member /\ m.phase = phase
  BY DEF Regular, Member
<1>2. D = DOMAIN a /\ Len(a) \in Nat /\ \A i \in D : a[i] \in Member /\ a[i].phase \in 0..2
  <2>1. D = DOMAIN a /\ Len(a) \in Nat /\ \A i \in D : a[i] \in Member
    OBVIOUS
  <2> QED BY <2>1 DEF Member
<1>3. w = IF Has(a, phase) THEN a
          ELSE IF Len(a) < 3 THEN Append(a, m)
          ELSE IF twice = {} THEN a ELSE [a EXCEPT ![Max(S)] = m]
  <2>1. D \ {} = D
    OBVIOUS
  <2> QED BY <2>1 DEF WithPhase, Has
<1> HIDE DEF m, w
<1>4. CASE Has(a, phase)
  BY <1>3, <1>4 DEF w
<1>5. CASE ~Has(a, phase) /\ Len(a) < 3
  <2>1. w = Append(a, m)
    BY <1>3, <1>5
  <2>2. w \in Seq(Member) /\ Len(w) = Len(a) + 1 /\ w[Len(a) + 1] = m
        /\ \A i \in D : w[i] = a[i]
    BY <1>1, <1>2, <2>1
  <2> QED BY <1>1, <1>2, <1>5, <2>2 DEF Has, w
<1>6. CASE ~Has(a, phase) /\ ~(Len(a) < 3)
  <2>1. Len(a) = 3
    <3> DEFINE n == Len(a)
    <3>1. n \in Nat /\ n <= 3 /\ ~(n < 3)
      BY <1>2, <1>6
    <3> HIDE DEF n
    <3>2. n = 3
      BY <3>1
    <3> QED BY <3>2 DEF n
  <2>2. twice # {}
    <3>1. 1 \in D /\ 2 \in D /\ 3 \in D
      BY <2>1
    <3>2. a[1].phase # phase /\ a[2].phase # phase /\ a[3].phase # phase
      BY <1>6, <3>1 DEF Has
    <3>3. a[1].phase = a[2].phase \/ a[1].phase = a[3].phase \/ a[2].phase = a[3].phase
      BY <1>2, <3>1, <3>2
    <3>4. 1 \in twice \/ 2 \in twice
      BY <3>1, <3>3
    <3> QED BY <3>4
  <2> DEFINE x == Max(S)
  <2>3. S \subseteq twice /\ S # {} /\ S \subseteq 1..3
    BY <2>1, <2>2
  <2>4. x \in twice
    <3> HIDE DEF S, twice
    <3> QED BY <2>3, LargestPlace
  <2>5. w = [a EXCEPT ![x] = m]
    BY <1>3, <1>6, <2>2
  <2> HIDE DEF x
  <2>6. x \in D /\ \E j \in D \ {x} : a[j].phase = a[x].phase
    BY <2>4
  <2>7. w \in Seq(Member) /\ Len(w) = Len(a) /\ w[x] = m /\ \A i \in D \ {x} : w[i] = a[i]
    BY <1>1, <1>2, <2>5, <2>6
  <2>8. Has(w, phase)
    BY <1>1, <2>6, <2>7 DEF Has
  <2>9. ASSUME NEW p \in 0..2, Has(a, p) PROVE Has(w, p)
    <3>1. PICK i \in D : a[i].phase = p
      BY <2>9 DEF Has
    <3>2. \E j \in D \ {x} : a[j].phase = p
      BY <2>6, <3>1
    <3> QED BY <2>7, <3>2 DEF Has
  <2> QED BY <2>1, <2>7, <2>8, <2>9 DEF w
<1> QED BY <1>4, <1>5, <1>6 DEF w

LEMMA WithPhasesFacts ==
    ASSUME NEW d, NEW a \in Seq(Member), Len(a) <= 3, NEW able \in BOOLEAN
    PROVE  LET c == WithPhases(d, a, TRUE, 3, able)
           IN  c \in Seq(Member) /\ Len(c) <= 3 /\ Has(c, 1) /\ Has(c, 2)
<1> DEFINE with(b, phase) == WithPhase(b, phase, 3, able)
<1>1. ASSUME NEW b \in Seq(Member), Len(b) <= 3, NEW phase \in 0..2
      PROVE  /\ with(b, phase) \in Seq(Member) /\ Len(with(b, phase)) <= 3
             /\ Has(with(b, phase), phase)
             /\ \A p \in 0..2 : Has(b, p) => Has(with(b, phase), p)
  BY <1>1, WithPhaseFacts
<1> DEFINE a1 == with(a, 1)
           a2 == with(a1, 2)
           a3 == with(a2, 0)
<1>2. WithPhases(d, a, TRUE, 3, able) = IF d.origin = "task" THEN a3 ELSE a2
  BY DEF WithPhases
<1>3. a1 \in Seq(Member) /\ Len(a1) <= 3 /\ Has(a1, 1)
  <2> HIDE DEF with
  <2> QED BY <1>1
<1>4. a2 \in Seq(Member) /\ Len(a2) <= 3 /\ Has(a2, 1) /\ Has(a2, 2)
  <2> HIDE DEF with, a1
  <2> QED BY <1>1, <1>3
<1>5. a3 \in Seq(Member) /\ Len(a3) <= 3 /\ Has(a3, 1) /\ Has(a3, 2)
  <2> HIDE DEF with, a2
  <2> QED BY <1>1, <1>4
<1> HIDE DEF a2, a3
<1> QED BY <1>2, <1>4, <1>5

\* A decision whose members are members.
Manned(d) == Shaped(d) /\ d.agents \in Seq(Member)

LEMMA EnsuredActs ==
    ASSUME NEW d, Shaped(d), NEW mutation, NEW room, NEW able
    PROVE  Ensured(d, mutation, room, able).action = d.action
<1>1. \A agents, staged :
         [d EXCEPT !.agents = agents, !.form = "team", !.final = FALSE,
                   !.staged = staged].action = d.action
  BY DEF Shaped
<1> QED BY <1>1 DEF Ensured

\* Where there is room for three, a team of a long task on the workspace is staged.
LEMMA EnsuredStages ==
    ASSUME NEW d, Manned(d), TeamFirst, NEW room \in Nat, room >= 3, NEW able \in BOOLEAN
    PROVE  LET e == Ensured(d, TRUE, room, able)
           IN  Manned(e) /\ e.action = d.action /\ Staged(e)
<1> DEFINE available == Min({MaxMembers, room})
           kept == SubSeq(d.agents, 1, Min({Len(d.agents), available}))
           complete == WithPhases(d, kept, TRUE, available, able)
           phases == {complete[i].phase : i \in 1..Len(complete)}
           many == Cardinality(phases) > 1
           b == ByPhase(complete)
           e == Ensured(d, TRUE, room, able)
<1>1. available = 3
  <2>1. Min({MaxMembers, room}) <= 3 /\ (3 >= room => Min({3, room}) = room)
        /\ Min({room, 3}) = 3
    BY SmallerOf DEF MaxMembers
  <2>2. {MaxMembers, room} = {room, 3}
    BY DEF MaxMembers
  <2> QED BY <2>1, <2>2
<1> HIDE DEF available
<1>2. kept \in Seq(Member) /\ Len(kept) <= 3
  <2> DEFINE s == d.agents
             m == Min({Len(s), 3})
  <2>1. s \in Seq(Member) /\ Len(s) \in Nat
    BY DEF Manned
  <2>2. m \in Nat /\ m <= Len(s) /\ m <= 3
    <3> HIDE DEF s
    <3> QED BY <2>1, SmallerOf
  <2>3. SubSeq(s, 1, m) \in Seq(Member) /\ Len(SubSeq(s, 1, m)) = m
    <3> HIDE DEF s, m
    <3>1. \A i \in 1..m : i \in 1..Len(s) /\ s[i] \in Member
      BY <2>1, <2>2
    <3>2. SubSeq(s, 1, m) = [i \in 1..m |-> s[i]]
      BY <2>1, <2>2
    <3> QED BY <2>2, <3>1, <3>2
  <2> QED BY <1>1, <2>2, <2>3
<1> HIDE DEF kept
<1>3. complete \in Seq(Member) /\ Len(complete) <= 3 /\ Has(complete, 1) /\ Has(complete, 2)
  BY <1>1, <1>2, WithPhasesFacts
<1> HIDE DEF complete
<1>4. PICK x, y \in 1..Len(complete) : complete[x].phase = 1 /\ complete[y].phase = 2
  BY <1>3 DEF Has
<1>5. Len(complete) \in Nat /\ Len(complete) >= 2 /\ DOMAIN complete = 1..Len(complete)
  BY <1>3, <1>4
<1>6. b \in Seq(Member) /\
      \E i, j \in 1..Len(b) : i < j /\ b[i].phase = 1 /\ b[j].phase = 2
  BY <1>3, <1>4, <1>5, ByPhaseFacts
<1>7. many
  <2>1. phases \subseteq 0..2
    <3>1. \A i \in 1..Len(complete) : complete[i] \in Member
      BY <1>3
    <3> QED BY <3>1 DEF Member
  <2>2. IsFiniteSet(0..2) /\ IsFiniteSet(1..2) /\ Cardinality(1..2) = 2
    <3>1. /\ 0 \in Int /\ 1 \in Int /\ 2 \in Int /\ ~(1 > 2) /\ 2 - 1 + 1 = 2
      OBVIOUS
    <3>2. IsFiniteSet(0..2)
      BY <3>1, FS_Interval
    <3>3. IsFiniteSet(1..2) /\ Cardinality(1..2) = IF 1 > 2 THEN 0 ELSE 2 - 1 + 1
      BY <3>1, FS_Interval
    <3> QED BY <3>1, <3>2, <3>3
  <2>3. IsFiniteSet(phases)
    BY <2>1, <2>2, FS_Subset
  <2>4. 1..2 \in SUBSET phases
    <3>1. 1 \in phases /\ 2 \in phases
      BY <1>4
    <3> HIDE DEF phases
    <3> QED BY <3>1
  <2> HIDE DEF phases
  <2>5. 2 <= Cardinality(phases)
    BY <2>2, <2>3, <2>4, FS_Subset
  <2>6. Cardinality(phases) \in Nat
    BY <2>3, FS_CardinalityType
  <2> QED BY <2>5, <2>6
<1>8. e = [d EXCEPT !.agents = b, !.form = "team", !.final = FALSE, !.staged = many \/ @]
  <2>1. ~(~TeamFirst \/ available < 2 \/ Len(complete) < 2)
    BY <1>1, <1>5
  <2> QED BY <2>1 DEF Ensured, available, kept, complete
<1> HIDE DEF b, e, many
<1>9. e.agents = b /\ e.staged /\ e.action = d.action /\ Shaped(e)
  BY <1>7, <1>8 DEF Manned, Shaped
<1> QED BY <1>6, <1>9 DEF Manned, Staged, e

\* The members a decision to spawn is made of.
LEMMA SpawnFields ==
    ASSUME NEW a, NEW f, NEW s, NEW final, NEW origin
    PROVE  /\ Spawn(a).agents = a /\ Spawn(a).action = "spawn"
           /\ [Spawn(a) EXCEPT !.form = f].agents = a
           /\ [Spawn(a) EXCEPT !.form = f, !.staged = s].agents = a
           /\ [Spawn(a) EXCEPT !.form = f, !.staged = s].staged = s
           /\ [Spawn(a) EXCEPT !.form = f, !.staged = s].action = "spawn"
           /\ [Spawn(a) EXCEPT !.form = f, !.staged = s, !.origin = origin].agents = a
           /\ [Spawn(a) EXCEPT !.form = f, !.staged = s, !.final = final, !.origin = origin].agents = a
           /\ [Spawn(a) EXCEPT !.final = final, !.origin = origin].agents = a
BY DEF Spawn, Solve

LEMMA PlainMembers ==
    /\ Solve.agents \in Seq(Member) /\ Ask.agents \in Seq(Member)
    /\ Solve.action = "solve" /\ Ask.action = "ask"
    /\ [Solve EXCEPT !.origin = "answer"].agents \in Seq(Member)
    /\ [Solve EXCEPT !.origin = "answer"].action = "solve"
    /\ [Solve EXCEPT !.origin = "answer"].origin = "answer"
BY DEF Solve, Ask

LEMMA RegularMembers ==
    ASSUME NEW able \in BOOLEAN
    PROVE  /\ \A p \in 0..2 : Regular(p, able) \in Member
           /\ <<Regular(0, able)>> \in Seq(Member)
           /\ <<Regular(1, able)>> \in Seq(Member)
           /\ <<Regular(2, able)>> \in Seq(Member)
           /\ <<Regular(0, able), Regular(2, able)>> \in Seq(Member)
           /\ <<Regular(1, able), Regular(2, able)>> \in Seq(Member)
           /\ <<Regular(0, able), Regular(1, able), Regular(2, able)>> \in Seq(Member)
<1>1. \A p \in 0..2 : Regular(p, able) \in Member
  BY DEF Regular, Member
<1>2. Regular(0, able) \in Member /\ Regular(1, able) \in Member /\ Regular(2, able) \in Member
  BY <1>1
<1> QED BY <1>1, <1>2

LEMMA ProposedMembers ==
    \A d \in Proposed \cup Fallbacks \cup Gated : d.agents \in Seq(Member)
<1>1. \A a \in Proposals : a \in Seq(Member)
  BY DelegationAssumption
<1>2. \A d \in Proposed : d.agents \in Seq(Member)
  <2> TAKE d \in Proposed
  <2>1. PICK a \in Proposals : \E f, s, final, origin : d = ProposedAs(a, f, s, final, origin)
    BY DEF Proposed
  <2>2. d.agents = a
    BY <2>1, SpawnFields DEF ProposedAs
  <2> QED BY <1>1, <2>2
<1>3. \A d \in Fallbacks : d.agents \in Seq(Member)
  <2> DEFINE A(able) == { <<Regular(0, able)>>, <<Regular(2, able)>>, <<Regular(1, able)>>,
                          <<Regular(0, able), Regular(2, able)>> }
  <2>1. \A able \in BOOLEAN : \A a \in A(able) : a \in Seq(Member)
    BY RegularMembers
  <2>2. \A d \in Fallbacks : d \in {Ask, Solve} \/
          \E able \in BOOLEAN : \E a \in A(able) : d = [Spawn(a) EXCEPT !.form = "unset"]
    BY DEF Fallbacks
  <2> HIDE DEF A
  <2>3. \A a : [Spawn(a) EXCEPT !.form = "unset"].agents = a
    BY SpawnFields
  <2> TAKE d \in Fallbacks
  <2>4. CASE d \in {Ask, Solve}
    BY <2>4, PlainMembers
  <2>5. CASE d \notin {Ask, Solve}
    <3>0. PICK able \in BOOLEAN : \E a \in A(able) : d = [Spawn(a) EXCEPT !.form = "unset"]
      BY <2>2, <2>5
    <3>1. PICK a \in A(able) : d = [Spawn(a) EXCEPT !.form = "unset"]
      BY <3>0
    <3> QED BY <2>1, <2>3, <3>1
  <2> QED BY <2>4, <2>5
<1>4. \A d \in Gated : d.agents \in Seq(Member)
  <2>1. \A a \in Children : a \in Seq(Member)
    <3> TAKE a \in Children
    <3>1. PICK p \in 0..2, able \in BOOLEAN : a = <<[phase |-> p, custom |-> TRUE, able |-> able]>>
      BY DEF Children
    <3>2. [phase |-> p, custom |-> TRUE, able |-> able] \in Member
      BY DEF Member
    <3> QED BY <3>1, <3>2
  <2>2. \A d \in Gated : d = Solve \/ \E a \in Children : d = Spawn(a)
    BY DEF Gated
  <2>3. \A a : Spawn(a).agents = a
    BY SpawnFields
  <2> QED BY <2>1, <2>2, <2>3, PlainMembers
<1> QED BY <1>2, <1>3, <1>4

LEMMA CutMembers ==
    ASSUME NEW d, Shaped(d), NEW a
    PROVE  CutTo(d, a).agents = a /\ CutTo(d, a).action = d.action
BY DEF CutTo, Shaped

LEMMA ConstrainedMembers ==
    ASSUME NEW d, Manned(d), NEW purse
    PROVE  /\ BudgetConstrained(d, purse).agents \in Seq(Member)
           /\ Executable(d).agents \in Seq(Member)
<1>1. d.agents \in Seq(Member) /\ Shaped(d)
  BY DEF Manned
<1>2. Len(d.agents) > 1 =>
        [Spawn(<<Head(d.agents)>>) EXCEPT !.final = d.final, !.origin = d.origin].agents
            \in Seq(Member)
  <2> DEFINE a == d.agents
             one == <<Head(a)>>
  <2> HAVE Len(a) > 1
  <2>1. one \in Seq(Member)
    BY <1>1
  <2> HIDE DEF one
  <2>2. \A final, origin : [Spawn(one) EXCEPT !.final = final, !.origin = origin].agents = one
    BY SpawnFields
  <2>3. [Spawn(one) EXCEPT !.final = d.final, !.origin = d.origin].agents \in Seq(Member)
    BY <2>1, <2>2
  <2> QED BY <2>3 DEF one
<1>3. BudgetConstrained(d, purse).agents \in Seq(Member)
  BY <1>1, <1>2, PlainMembers DEF BudgetConstrained
<1>4. AbleOnes(d.agents) \in Seq(Member)
  BY <1>1, AbleOnesFacts
<1>5. CutTo(d, AbleOnes(d.agents)).agents \in Seq(Member)
  BY <1>1, <1>4, CutMembers
<1>6. Executable(d).agents \in Seq(Member)
  BY <1>1, <1>5, PlainMembers DEF Executable
<1> QED BY <1>3, <1>6

\* A decision of one of these origins, made of members.
Meant(d, origins) == Apt(d, origins) /\ d.agents \in Seq(Member)

LEMMA MeantIsManned == ASSUME NEW d, NEW origins, Meant(d, origins) PROVE Manned(d)
BY DEF Meant, Apt, Manned

LEMMA ConstrainedMeant ==
    ASSUME NEW origins, "task" \in origins, NEW d, Meant(d, origins), NEW purse
    PROVE  Meant(BudgetConstrained(d, purse), origins) /\ Meant(Executable(d), origins)
BY MeantIsManned, ConstrainedMembers, ConstrainedDecision DEF Meant

LEMMA DecidedMeant ==
    ASSUME NEW purse
    PROVE  \A d \in Decided(purse) : Meant(d, Origins)
<1>0. {"task", "cached"} \subseteq Origins /\ "task" \in Origins
  BY DEF Origins
<1>1. \A d \in Proposed \cup Fallbacks \cup Gated : Meant(d, Origins)
  BY <1>0, ProposedDecisions, ProposedMembers DEF Meant
<1>2. \A d \in Proposed \cup Fallbacks : Meant(BudgetConstrained(d, purse), Origins)
  BY <1>0, <1>1, ConstrainedMeant
<1>3. \A d : Meant(d, Origins) => \A e \in Audited(d, purse) : Meant(e, Origins)
  BY <1>2 DEF Audited
<1>4. \A d : Meant(d, Origins) => Meant(Executable(d), Origins)
  BY <1>0, ConstrainedMeant
<1> QED BY <1>1, <1>2, <1>3, <1>4 DEF Decided

LEMMA SelectedMeant ==
    ASSUME NEW origins, "task" \in origins, NEW d, Meant(d, origins), NEW slots \in Nat,
           NEW preserve
    PROVE  \A e \in Selected(d, slots, preserve) : Meant(e, origins)
<1> DEFINE kept == SubSeq(d.agents, 1, Min({Len(d.agents), slots}))
<1>1. kept \in Seq(Member)
  <2> DEFINE s == d.agents
             m == Min({Len(s), slots})
  <2>1. s \in Seq(Member) /\ Len(s) \in Nat
    BY DEF Meant
  <2>2. m \in Nat /\ m <= Len(s)
    <3> HIDE DEF s
    <3> QED BY <2>1, SmallerOf
  <2> HIDE DEF s, m
  <2>3. \A i \in 1..m : i \in 1..Len(s) /\ s[i] \in Member
    BY <2>1, <2>2
  <2>4. SubSeq(s, 1, m) = [i \in 1..m |-> s[i]]
    BY <2>1, <2>2
  <2>5. SubSeq(s, 1, m) \in Seq(Member)
    BY <2>2, <2>3, <2>4
  <2> QED BY <2>5 DEF s, m
<1>2. \A a \in Rephrased(kept) : a \in Seq(Member)
  <2>1. Len(kept) \in Nat
    BY <1>1
  <2> HIDE DEF kept
  <2>2. \A a \in Rephrased(kept) : a \in [1..Len(kept) -> Member]
    BY DEF Rephrased
  <2> QED BY <2>1, <2>2
<1>3. \A n : \A more \in Specialists(n) : more \in Seq(Member)
  <2> TAKE n
  <2> TAKE more \in Specialists(n)
  <2> DEFINE R == {Regular(p, able) : p \in 0..2, able \in BOOLEAN}
  <2>1. PICK k \in 0..n : more \in [1..k -> R]
    BY DEF Specialists
  <2>2. \A m \in R : m \in Member
    BY RegularMembers
  <2>3. k \in Nat
    OBVIOUS
  <2> HIDE DEF R
  <2>4. \A i \in 1..k : more[i] \in Member
    BY <2>1, <2>2
  <2> QED BY <2>1, <2>3, <2>4
<1>4. <<>> \in Seq(Member)
  OBVIOUS
<1>5. \A c \in Completed(d, slots, preserve) : c \in Seq(Member)
  <2> DEFINE M == IF preserve THEN {<<>>} ELSE Specialists(slots - Len(kept))
  <2>0. Completed(d, slots, preserve) = {a \o more : a \in Rephrased(kept), more \in M}
    BY DEF Completed
  <2> TAKE c \in Completed(d, slots, preserve)
  <2>1. PICK a \in Rephrased(kept), more \in M : c = a \o more
    <3> HIDE DEF kept, M
    <3> QED BY <2>0
  <2>2. a \in Seq(Member) /\ more \in Seq(Member)
    <3> HIDE DEF kept
    <3> QED BY <1>2, <1>3, <1>4, <2>1
  <2> QED BY <2>1, <2>2
<1>6. \A a \in Seq(Member) : Meant([d EXCEPT !.agents = a], origins)
  <2> TAKE a \in Seq(Member)
  <2>1. Apt([d EXCEPT !.agents = a], origins)
    BY ChangedDecision DEF Meant
  <2>2. [d EXCEPT !.agents = a].agents = a
    BY DEF Meant, Apt, Shaped
  <2> QED BY <2>1, <2>2 DEF Meant
<1>7. \A a \in Completed(d, slots, preserve) : Meant(Executable([d EXCEPT !.agents = a]), origins)
  BY <1>5, <1>6, ConstrainedMeant
<1>8. ASSUME NEW e, Meant(e, origins), NEW f \in Candidates(e) PROVE Meant(f, origins)
  <2>1. e.agents \in Seq(Member) /\ Shaped(e)
    BY <1>8 DEF Meant, Apt
  <2>2. f \in {Solve, CutTo(e, e.agents)} \/ (Len(e.agents) > 1 /\ f = CutTo(e, <<Head(e.agents)>>))
    BY DEF Candidates
  <2>3. Len(e.agents) > 1 => <<Head(e.agents)>> \in Seq(Member)
    BY <2>1
  <2>4. \A a : CutTo(e, a).agents = a
    BY <2>1, CutMembers
  <2>6. f.agents \in Seq(Member)
    <3>1. CASE f = Solve
      BY <3>1, PlainMembers
    <3>2. CASE f = CutTo(e, e.agents)
      BY <2>1, <2>4, <3>2
    <3>3. CASE Len(e.agents) > 1 /\ f = CutTo(e, <<Head(e.agents)>>)
      <4> DEFINE one == <<Head(e.agents)>>
      <4>1. one \in Seq(Member) /\ f = CutTo(e, one)
        BY <2>3, <3>3
      <4> HIDE DEF one
      <4> QED BY <2>4, <4>1
    <3> QED BY <2>2, <3>1, <3>2, <3>3
  <2>5. Apt(f, origins)
    BY <1>8, <2>2, CutDecision, PlainDecisions DEF Meant
  <2> QED BY <2>5, <2>6 DEF Meant
<1>9. Meant(Solve, origins)
  BY PlainDecisions, PlainMembers DEF Meant
<1> QED BY <1>7, <1>8, <1>9 DEF Selected

\* The team of a long task on the workspace that was not to be delegated.
LEMMA LongTeamStaged ==
    ASSUME NEW able \in BOOLEAN
    PROVE  /\ Meant(LongHorizonTeam(TRUE, able), Origins)
           /\ LongHorizonTeam(TRUE, able).action = "spawn"
           /\ Staged(LongHorizonTeam(TRUE, able))
<1> DEFINE a == <<Regular(0, able), Regular(1, able), Regular(2, able)>>
           d == LongHorizonTeam(TRUE, able)
<1>1. "task" \in Origins
  BY DEF Origins
<1>2. Apt(Solve, Origins)
  BY <1>1, PlainDecisions
<1>3. Apt(d, Origins)
  BY <1>2, ExtendedDecisions
<1>4. d = [Spawn(a) EXCEPT !.form = "team", !.staged = TRUE]
  BY DEF LongHorizonTeam
<1>5. a \in Seq(Member) /\ Len(a) = 3 /\ a[2].phase = 1 /\ a[3].phase = 2
  BY RegularMembers DEF Regular
<1> HIDE DEF a, d
<1>6. d.agents = a /\ d.staged = TRUE /\ d.action = "spawn"
  BY <1>4, SpawnFields
<1>7. Staged(d)
  <2>0. Len(d.agents) = 3
    BY <1>5, <1>6
  <2>1. 2 \in 1..Len(d.agents) /\ 3 \in 1..Len(d.agents) /\ 2 < 3
    BY <2>0
  <2>2. d.agents[2].phase = 1 /\ d.agents[3].phase = 2
    BY <1>5, <1>6
  <2> QED BY <1>6, <2>1, <2>2 DEF Staged
<1> QED BY <1>3, <1>5, <1>6, <1>7 DEF Meant, d

LEMMA EnsuredMeant ==
    ASSUME NEW origins, NEW d, Meant(d, origins), TeamFirst, NEW room \in Nat, room >= 3,
           NEW able \in BOOLEAN
    PROVE  LET e == Ensured(d, TRUE, room, able)
           IN  Meant(e, origins) /\ e.action = d.action /\ Staged(e)
BY MeantIsManned, EnsuredStages, EnsuredDecision DEF Meant, Manned

\* What a question to the user becomes, and a team that recovers a cached execution.
LEMMA RecoveredMeant ==
    ASSUME NEW able \in BOOLEAN
    PROVE  \A d \in Recoveries(able) : Meant(d, Origins) /\ d.action = "spawn"
<1>0. "task" \in Origins
  BY DEF Origins
<1>1. \A d \in Recoveries(able) : Apt(d, Origins)
  BY <1>0, PlainDecisions, ExtendedDecisions
<1>2. \A a : Guided(a).agents = a /\ Guided(a).action = "spawn"
  BY DEF Guided, Spawn, Solve
<1>3. \A d \in Recoveries(able) : \E a \in Seq(Member) : d = Guided(a)
  BY RegularMembers DEF Recoveries
<1> QED BY <1>1, <1>2, <1>3 DEF Meant

\* The first decisions about a long task on the workspace.
LEMMA FirstStages ==
    ASSUME NEW resume, NEW room \in Nat, NEW slots \in Nat, NEW purse, NEW able \in BOOLEAN,
           NEW d \in FirstDecisions(TRUE, TRUE, resume, room, slots, purse, able)
    PROVE  /\ Spawns(d) /\ TeamFirst /\ room >= 3 => Staged(d)
           /\ ~Spawns(d) /\ resume = "none" /\ slots > 0 => d.origin = "answer"
<1> DEFINE first == IF resume = "none" THEN Decided(purse)
                    ELSE IF resume = "alone" THEN {Solve} ELSE Recoveries(able)
           staged(p) == IF TRUE /\ Spawns(p) THEN Ensured(p, TRUE, room, able)
                        ELSE IF TRUE /\ p.action = "solve" /\ resume = "none"
                             THEN LongHorizonTeam(TRUE, able) ELSE p
           insisted(p) == TRUE /\ Spawns(p)
           selected(p) ==
               IF resume = "none"
               THEN Selected(p, slots, TRUE \/ (Spawns(p) /\ p.form = "team")) ELSE {p}
           again(p) == IF TRUE /\ Spawns(p) THEN Ensured(p, TRUE, room, able) ELSE p
           settled(p, e) == IF insisted(p) /\ ~Spawns(e) /\ slots > 0 THEN p ELSE e
           team == LongHorizonTeam(TRUE, able)
           answer == [Solve EXCEPT !.origin = "answer"]
           Long(p) == Spawns(p) => Staged(p)
<1>0. "task" \in Origins
  BY DEF Origins
<1>1. \A p \in first : Meant(p, Origins)
  <2>1. Meant(Solve, Origins)
    BY <1>0, PlainDecisions, PlainMembers DEF Meant
  <2> QED BY <2>1, DecidedMeant, RecoveredMeant
<1>2. Spawns(team) /\ Meant(team, Origins) /\ Staged(team)
  BY LongTeamStaged DEF Spawns
<1>3. answer.action = "solve" /\ ~Spawns(answer) /\ answer.origin = "answer" /\ Meant(answer, Origins)
  <2>1. Apt(answer, Origins)
    <3>1. "answer" \in Origins /\ TRUE \in BOOLEAN
      BY DEF Origins
    <3>2. \A origin \in Origins : Apt([Solve EXCEPT !.origin = origin], Origins)
      BY <1>0, <3>1, MadeDecision
    <3> QED BY <3>1, <3>2
  <2> QED BY <2>1, PlainMembers DEF Meant, Spawns
<1>4. \A p : Overridden(p, TRUE, TRUE, able) = IF p.action # "ask" THEN {p} ELSE {answer, team}
  BY DEF Overridden
<1>5. FirstDecisions(TRUE, TRUE, resume, room, slots, purse, able) =
        UNION { { settled(p, again(e)) : e \in selected(p) } :
                   p \in UNION { Overridden(staged(p), TRUE, TRUE, able) : p \in first } }
  BY DEF FirstDecisions
<1> HIDE DEF settled, again, selected, staged, first, team, answer
<1>6. PICK p \in first : \E q \in Overridden(staged(p), TRUE, TRUE, able) :
         \E e \in selected(q) : d = settled(q, again(e))
  BY <1>5
<1>7. PICK q \in Overridden(staged(p), TRUE, TRUE, able) :
         \E e \in selected(q) : d = settled(q, again(e))
  BY <1>6
<1>12. (q = staged(p) /\ q.action # "ask") \/ q = answer \/ q = team
  <2>1. CASE staged(p).action = "ask"
    <3>1. Overridden(staged(p), TRUE, TRUE, able) = {answer, team}
      BY <1>4, <2>1
    <3> QED BY <1>7, <3>1
  <2>2. CASE staged(p).action # "ask"
    <3>1. Overridden(staged(p), TRUE, TRUE, able) = {staged(p)}
      BY <1>4, <2>2
    <3> QED BY <1>7, <2>2, <3>1
  <2> QED BY <2>1, <2>2
<1>8. PICK e \in selected(q) : d = settled(q, again(e))
  BY <1>7
<1>9. Meant(p, Origins) /\ Shaped(p) /\ p.action \in {"solve", "ask", "spawn"}
  BY <1>1, <1>6 DEF Meant, Apt, Shaped
<1>10. ASSUME TeamFirst, room >= 3, Spawns(d) PROVE Staged(d)
  <2>1. \A x : Meant(x, Origins) => Meant(again(x), Origins) /\ Long(again(x))
    BY <1>10, EnsuredMeant DEF again, Spawns
  <2>2. Meant(staged(p), Origins) /\ Long(staged(p))
    BY <1>2, <1>9, <1>10, EnsuredMeant DEF staged, Spawns, team
  <2>3. Meant(q, Origins) /\ Long(q)
    BY <1>2, <1>3, <1>12, <2>2
  <2>4. Meant(e, Origins)
    BY <1>0, <1>8, <2>3, SelectedMeant DEF selected
  <2>5. Long(d)
    BY <1>8, <2>1, <2>3, <2>4 DEF settled
  <2> QED BY <1>10, <2>5
<1>11. ASSUME ~Spawns(d), resume = "none", slots > 0 PROVE d.origin = "answer"
  <2>0. Spawns(p) => Ensured(p, TRUE, room, able).action = p.action
    BY <1>9, EnsuredActs
  <2>1. staged(p).action # "solve" /\ staged(p).action \in {"solve", "ask", "spawn"}
    BY <1>2, <1>9, <1>11, <2>0 DEF staged, Spawns, team
  <2>2. q = answer \/ q = team \/ (q = staged(p) /\ Spawns(q))
    BY <1>12, <2>1 DEF Spawns
  <2>3. ~Spawns(q)
    BY <1>8, <1>11 DEF settled
  <2>4. q = answer
    BY <1>2, <2>2, <2>3
  <2>5. e = answer
    BY <1>3, <1>8, <1>11, <2>4 DEF selected, Selected
  <2>6. d = answer
    BY <1>3, <1>8, <2>4, <2>5 DEF settled, again
  <2> QED BY <1>3, <2>6
<1> QED BY <1>10, <1>11

\* The later ones.
LEMMA NextStages ==
    ASSUME NEW unclosed, NEW room \in Nat, NEW slots \in Nat, NEW purse, NEW able \in BOOLEAN,
           NEW d \in NextDecisions(TRUE, TRUE, unclosed, room, slots, purse, able)
    PROVE  Spawns(d) /\ TeamFirst /\ room >= 3 => Staged(d)
<1>0. "task" \in Origins /\ {"task", "cached"} \subseteq Origins
  BY DEF Origins
<1>1. Meant(Unclosed(able), Origins)
  <2>1. Unclosed(able).agents = <<Regular(1, able), Regular(2, able)>>
    BY DEF Unclosed, Spawn, Solve
  <2>2. Apt(Unclosed(able), Origins)
    <3>1. \A a, f, s : Apt([Spawn(a) EXCEPT !.form = f, !.staged = s, !.origin = "cached"], Origins)
      BY <1>0, MadeDecision
    <3> QED BY <3>1 DEF Unclosed
  <2> QED BY <2>1, <2>2, RegularMembers DEF Meant
<1>2. Evidenced(TRUE, able) = {}
  BY DEF Evidenced
<1>3. \A p \in Continuations(TRUE, TRUE, unclosed, able) : Meant(p, Origins)
  BY <1>0, <1>1, <1>2, PlainDecisions, PlainMembers, ProposedDecisions, ProposedMembers
     DEF Continuations, Meant
<1>4. \A p : Meant(p, Origins) =>
        \A e \in Selected(BudgetConstrained(p, purse), slots, TRUE) : Meant(e, Origins)
  BY <1>0, ConstrainedMeant, SelectedMeant
<1> DEFINE kept(e) == IF TRUE /\ Spawns(e) /\ (TRUE \/ e.form \in {"team", "bare"})
                      THEN Ensured(e, TRUE, room, able) ELSE e
<1>5. NextDecisions(TRUE, TRUE, unclosed, room, slots, purse, able) =
        UNION { { kept(e) : e \in Selected(BudgetConstrained(p, purse), slots, TRUE) } :
                p \in Continuations(TRUE, TRUE, unclosed, able) }
  BY DEF NextDecisions
<1> HIDE DEF kept
<1>6. PICK p \in Continuations(TRUE, TRUE, unclosed, able) :
        \E e \in Selected(BudgetConstrained(p, purse), slots, TRUE) : d = kept(e)
  BY <1>5
<1>7. PICK e \in Selected(BudgetConstrained(p, purse), slots, TRUE) : d = kept(e)
  BY <1>6
<1>8. Meant(e, Origins)
  BY <1>3, <1>4, <1>6, <1>7
<1> HAVE Spawns(d) /\ TeamFirst /\ room >= 3
<1>9. Spawns(e) /\ d = Ensured(e, TRUE, room, able)
  BY <1>7 DEF kept
<1> QED BY <1>8, <1>9, EnsuredMeant

\* What a turn remembers of its decision about a long task on the workspace.
LEMMA FirstBriefsStage ==
    ASSUME NEW d \in FirstBriefs, d.long, d.mutation
    PROVE  /\ d.brief.action = "spawn" /\ d.brief.wide /\ TeamFirst => d.brief.staged
           /\ d.brief.action # "spawn" /\ d.brief.open /\ d.resume = "none" => d.brief.answer
<1> DEFINE sketched(long, mutation, resume, r, purse, able, e) ==
             [long |-> long, mutation |-> mutation, resume |-> resume, brief |-> Brief(e, r[1], r[2])]
<1>1. PICK long \in BOOLEAN, mutation \in BOOLEAN :
        \E resume \in Resumes(long, mutation) : d \in FirstBriefsFor(long, mutation, resume)
  BY DEF FirstBriefs
<1>2. PICK resume \in Resumes(long, mutation) : d \in FirstBriefsFor(long, mutation, resume)
  BY <1>1
<1>3. PICK r \in Rooms(long), purse \in Purses, able \in BOOLEAN :
        \E e \in FirstDecisions(long, mutation, resume, r[1], r[2], purse, able) :
            d = sketched(long, mutation, resume, r, purse, able, e)
  BY <1>2 DEF FirstBriefsFor
<1>4. PICK e \in FirstDecisions(long, mutation, resume, r[1], r[2], purse, able) :
            d = sketched(long, mutation, resume, r, purse, able, e)
  BY <1>3
<1>5. long = TRUE /\ mutation = TRUE /\ d.resume = resume /\ d.brief = Brief(e, r[1], r[2])
  BY <1>1, <1>4
<1>6. r[1] \in Nat /\ r[2] \in Nat
  BY DEF Rooms, MaxMembers
<1>7. /\ Spawns(e) /\ TeamFirst /\ r[1] >= 3 => Staged(e)
      /\ ~Spawns(e) /\ resume = "none" /\ r[2] > 0 => e.origin = "answer"
  <2>1. e \in FirstDecisions(TRUE, TRUE, resume, r[1], r[2], purse, able)
    BY <1>4, <1>5
  <2>2. r[1] \in Nat /\ r[2] \in Nat /\ able \in BOOLEAN
    BY <1>6
  <2> HIDE DEF sketched
  <2> QED BY <2>1, <2>2, FirstStages
<1>8. /\ d.brief.action = e.action /\ d.brief.staged = Staged(e)
      /\ d.brief.answer = (e.origin = "answer") /\ d.brief.wide = (r[1] >= MaxMembers)
      /\ d.brief.open = (r[2] > 0)
  BY <1>5 DEF Brief
<1> QED BY <1>5, <1>7, <1>8 DEF Spawns, MaxMembers

LEMMA NextBriefsStage ==
    ASSUME NEW d \in NextBriefs, d.long, d.mutation
    PROVE  d.brief.action = "spawn" /\ d.brief.wide /\ TeamFirst => d.brief.staged
<1> DEFINE sketched(long, mutation, unclosed, r, e) ==
             [long |-> long, mutation |-> mutation, unclosed |-> unclosed,
              brief |-> Brief(e, r[1], r[2])]
<1>1. PICK long \in BOOLEAN, mutation \in BOOLEAN : d \in NextBriefsFor(long, mutation)
  BY DEF NextBriefs
<1>2. PICK unclosed \in BOOLEAN, r \in Rooms(long), purse \in Purses, able \in BOOLEAN :
        \E e \in NextDecisions(long, mutation, unclosed, r[1], r[2], purse, able) :
            d = sketched(long, mutation, unclosed, r, e)
  BY <1>1 DEF NextBriefsFor
<1>3. PICK e \in NextDecisions(long, mutation, unclosed, r[1], r[2], purse, able) :
            d = sketched(long, mutation, unclosed, r, e)
  BY <1>2
<1>4. long = TRUE /\ mutation = TRUE /\ d.brief = Brief(e, r[1], r[2])
  BY <1>1, <1>3
<1>5. r[1] \in Nat /\ r[2] \in Nat
  BY DEF Rooms, MaxMembers
<1>6. Spawns(e) /\ TeamFirst /\ r[1] >= 3 => Staged(e)
  BY <1>3, <1>4, <1>5, NextStages
<1>7. /\ d.brief.action = e.action /\ d.brief.staged = Staged(e)
      /\ d.brief.wide = (r[1] >= MaxMembers)
  BY <1>4 DEF Brief
<1> QED BY <1>6, <1>7 DEF Spawns, MaxMembers

-----------------------------------------------------------------------------
(* What a sequence of calls shows. *)

LEMMA EvidenceFields ==
    /\ NoCalls \in Evidence
    /\ \A e \in Evidence : /\ e.calls \in BOOLEAN /\ e.changed \in BOOLEAN
                           /\ e.check \in {"none", "pass", "fail"}
                           /\ e.changed \/ e.check # "none" => e.calls
BY DEF Evidence, NoCalls

LEMMA ThenTyped == ASSUME NEW e \in Evidence, NEW f \in Evidence PROVE Then(e, f) \in Evidence
<1> DEFINE calls == e.calls \/ f.calls
           changed == e.changed \/ f.changed
           check == IF f.changed \/ f.check # "none" THEN f.check ELSE e.check
<1>1. calls \in BOOLEAN /\ changed \in BOOLEAN /\ check \in {"none", "pass", "fail"}
  BY EvidenceFields
<1>2. changed \/ check # "none" => calls
  BY EvidenceFields
<1>3. Then(e, f) = [calls |-> calls, changed |-> changed, check |-> check]
  BY DEF Then
<1> HIDE DEF calls, changed, check
<1> QED BY <1>1, <1>2, <1>3 DEF Evidence

LEMMA ThenShows ==
    ASSUME NEW e \in Evidence, NEW f \in Evidence
    PROVE  /\ Then(e, f).changed <=> e.changed \/ f.changed
           /\ Then(e, f).check = IF f.changed \/ f.check # "none" THEN f.check ELSE e.check
BY DEF Then

\* Looking at more calls of a call list, or at a list resumed and then continued,
\* comes to the same.
LEMMA ThenVerified ==
    ASSUME NEW e \in Evidence, NEW f \in Evidence, NEW g \in Evidence
    PROVE  /\ Verified(Then(e, Then(f, g))) <=> Verified(Then(Then(e, f), g))
           /\ Verified(Then(e, NoCalls)) <=> Verified(e)
           /\ ~Verified(NoCalls)
<1>1. /\ Then(e, f) \in Evidence /\ Then(f, g) \in Evidence /\ NoCalls \in Evidence
      /\ NoCalls.changed = FALSE /\ NoCalls.check = "none"
  BY ThenTyped, EvidenceFields DEF NoCalls
<1>2. Verified(Then(e, Then(f, g))) <=> Verified(Then(Then(e, f), g))
  BY <1>1, ThenShows, EvidenceFields DEF Verified
<1>3. Verified(Then(e, NoCalls)) <=> Verified(e)
  BY <1>1, ThenShows, EvidenceFields DEF Verified
<1> QED BY <1>1, <1>2, <1>3 DEF Verified

Work == {"clean", "changed", "unseen"}

LEMMA AfterTyped ==
    ASSUME NEW w \in Work, NEW f \in Evidence, NEW recorded \in BOOLEAN
    PROVE  After(w, f, recorded) \in Work
BY EvidenceFields DEF After, Work

\* Recorded calls that leave a change unverified are not verified as recorded.
LEMMA RecordedWork ==
    ASSUME NEW w \in Work, NEW e \in Evidence, NEW f \in Evidence,
           w = "changed" => ~Verified(e), After(w, f, TRUE) = "changed"
    PROVE  ~Verified(Then(e, f))
BY ThenShows, EvidenceFields DEF After, Verified

\* Calls nobody keeps do not add to what is on record.
LEMMA LostWork ==
    ASSUME NEW w \in Work, NEW f \in Evidence, After(w, f, FALSE) = "changed"
    PROVE  w = "changed" /\ f.check # "pass"
BY EvidenceFields DEF After

LEMMA RoundWork ==
    ASSUME NEW t \in Turns, work[t] \in Work, NEW e \in Evidence, NEW lost \in Evidence,
           NEW base \in Evidence, NEW m, WorksAndLoses(t, e, lost, m), work \in [Turns -> Work],
           work[t] = "changed" => ~Verified(base)
    PROVE  /\ m \in Evidence
           /\ work'[t] \in Work
           /\ work' = [work EXCEPT ![t] = work'[t]]
           /\ work'[t] = "changed" => ~Verified(Then(base, e))
           /\ work'[t] = "changed" /\ ~e.changed /\ ~lost.changed =>
                 work[t] = "changed" /\ e.check # "pass"
<1> DEFINE a == After(work[t], e, TRUE)
           b == After(work[t], lost, FALSE)
           aw == After(a, lost, FALSE)
           bw == After(b, e, TRUE)
<1>1. a \in Work /\ b \in Work
  BY AfterTyped
<1>2. aw \in Work /\ bw \in Work
  BY <1>1, AfterTyped
<1>3. work' \in {[work EXCEPT ![t] = aw], [work EXCEPT ![t] = bw]}
  BY DEF WorksAndLoses
<1>m. m \in Evidence
  BY ThenTyped DEF WorksAndLoses
<1>4. a = "changed" => ~Verified(Then(base, e))
  BY RecordedWork
<1>5. aw = "changed" => a = "changed"
  BY <1>1, LostWork
<1>6. b = "changed" => work[t] = "changed"
  BY LostWork
<1>7. bw = "changed" => ~Verified(Then(base, e))
  BY <1>1, <1>6, RecordedWork
<1>8. ASSUME ~e.changed PROVE /\ a = "changed" => work[t] = "changed" /\ e.check # "pass"
                              /\ bw = "changed" => b = "changed" /\ e.check # "pass"
  BY <1>1, <1>8, EvidenceFields DEF After
<1> HIDE DEF a, b, aw, bw
<1> QED BY <1>2, <1>3, <1>m, <1>4, <1>5, <1>6, <1>7, <1>8

-----------------------------------------------------------------------------
(* What holds of a turn wherever it is. *)

Starting == {"input", "assess", "decide"}
Alone == {"startAlone", "think", "answer"}
Asking == {"startRound", "reassess", "continue"}
Delegating == {"plan", "spawn", "round", "wait", "endRound", "giveUp", "handOff", "close"}
Executing == {"execute", "attempt", "audit", "executed"}
Concluding == {"startMerge", "merge", "compose", "endStep", "accept", "contract", "respond",
               "deliver", "settle", "rest", "finish", "update", "done"}
Failing == {"failing", "failingTransiently"}
Resetting == {"resetting", "resettingTransiently"}

Left(t) == MaxSteps(t) - steps[t]

\* The steps that must still follow have room in the tree.
Room(t) ==
    /\ pc[t] \in Starting \cup {"startAlone"} \cup Asking => Left(t) > ReservedSteps(t)
    /\ pc[t] \in Delegating => Left(t) >= ReservedSteps(t)
    /\ pc[t] = "startExec" => goal[t].mutation /\ Left(t) >= 2
    /\ pc[t] \in {"startMerge", "startAsk"} => Left(t) >= 1
    /\ pc[t] \in Executing /\ flags[t].delegated => Left(t) >= 1
    /\ pc[t] \in Alone => ~flags[t].delegated

\* Rounds, attempts at the turn and stalled attempts stay below their limits.
Counts(t) ==
    /\ pc[t] \in Starting \cup Asking \cup {"plan", "spawn", "round"} => rounds[t] < MaxRounds
    /\ pc[t] = "uncalled" => tries[t] = 0
    /\ pc[t] = "retrying" => tries[t] < MaxAttempts
    /\ pc[t] \in {"attempt", "audit"} => exec[t].stuck \/ exec[t].stalled < MaxStalled
    /\ pc[t] = "attempt" => ~exec[t].stuck

\* A tree is running until the turn finishes or recovers from its failure.
Closing(t) ==
    /\ pc[t] \in Starting \cup Alone \cup Asking \cup Delegating \cup Executing
                 \cup {"startExec", "startAsk", "clarify"} \cup (Concluding \ {"update", "done"}) =>
           tree[t] = "running"
    /\ pc[t] \in {"update", "done"} => tree[t] = "completed" /\ disk[t] = "completed"
    /\ pc[t] \in Failing =>
           \/ tree[t] = "running"
           \/ tree[t] = "completed" /\ disk[t] \in {"completed", "unwritten"}
    /\ pc[t] \in Resetting \cup {"failed", "retrying"} =>
           tree[t] \in {"completed", "failed"} /\ disk[t] \in {tree[t], "unwritten"}

\* A recorded change that is unverified is seen in e.
Unverified(t, e) == work[t] = "changed" => ~Verified(e)

\* Where the turn has its record of the calls made for it: in the cache before it
\* decides and after it failed, in what it resumed and was reported until it
\* executes, then in the execution's own list.
Records(t) ==
    /\ pc[t] \in Starting \cup {"uncalled", "failingTransiently", "resettingTransiently", "retrying"} =>
           Unverified(t, cache[t])
    /\ pc[t] \in Starting => resumed[t] = NoCalls /\ known[t] = NoCalls /\ flags[t] = Fresh
    /\ pc[t] \in Alone \cup Asking \cup Delegating \cup {"startExec", "execute"} =>
           Unverified(t, Then(resumed[t], known[t]))
    /\ pc[t] \in Alone => flags[t].ask = "none"
    /\ pc[t] \in {"attempt", "audit", "executed"} => Unverified(t, exec[t].calls)

\* A round is guided only if it is the first, and without its diagnosis nothing was
\* changed that the resumed calls do not show.
Guidance(t) ==
    /\ pc[t] \in {"startRound", "plan", "spawn", "round"} =>
           ~flags[t].blocked /\ (flags[t].plan.guided => known[t] = NoCalls)
    /\ pc[t] \in {"wait", "endRound", "reassess", "continue", "handOff"} => ~flags[t].blocked
    /\ pc[t] \in {"giveUp", "close"} /\ flags[t].blocked => Unverified(t, resumed[t])

\* The closure was determined on everything recorded, unless there is a question.
Claims(t) ==
    /\ pc[t] \in {"startAsk", "clarify"} => flags[t].ask # "none"
    /\ pc[t] \in Concluding /\ goal[t].mutation /\ flags[t].ask = "none" =>
           closure[t] = "open" \/ (closure[t] = "closed" /\ work[t] # "changed")

Sound(t) == Room(t) /\ Counts(t) /\ Closing(t) /\ Records(t) /\ Guidance(t) /\ Claims(t)

IInv == TypeOK /\ \A t \in Turns : Sound(t)

States == {e[1] : e \in Edges}
Trees == {"none", "running", "completed", "failed"}

Typed(t) ==
    /\ pc[t] \in Places /\ goal[t] \in Goal /\ tries[t] \in 0..MaxAttempts
    /\ tree[t] \in Trees /\ disk[t] \in Trees \cup {"unwritten"}
    /\ steps[t] \in 0..MaxSteps(t) /\ open[t] \subseteq 1..steps[t]
    /\ rounds[t] \in 0..MaxRounds /\ clock[t] \in {"early", "reserve", "out"}
    /\ cache[t] \in Evidence /\ made[t] \in Evidence
    /\ resumed[t] \in Evidence /\ known[t] \in Evidence
    /\ flags[t] \in Flags /\ exec[t] \in Execution
    /\ closure[t] \in {"none", "closed", "open"} /\ work[t] \in Work

\* A step of turn t leaves the other turns alone.
Only(t) ==
    /\ goal' = goal
    /\ pc' = [pc EXCEPT ![t] = pc'[t]] /\ tries' = [tries EXCEPT ![t] = tries'[t]]
    /\ tree' = [tree EXCEPT ![t] = tree'[t]] /\ disk' = [disk EXCEPT ![t] = disk'[t]]
    /\ steps' = [steps EXCEPT ![t] = steps'[t]] /\ open' = [open EXCEPT ![t] = open'[t]]
    /\ rounds' = [rounds EXCEPT ![t] = rounds'[t]] /\ clock' = [clock EXCEPT ![t] = clock'[t]]
    /\ cache' = [cache EXCEPT ![t] = cache'[t]] /\ made' = [made EXCEPT ![t] = made'[t]]
    /\ resumed' = [resumed EXCEPT ![t] = resumed'[t]]
    /\ known' = [known EXCEPT ![t] = known'[t]] /\ flags' = [flags EXCEPT ![t] = flags'[t]]
    /\ exec' = [exec EXCEPT ![t] = exec'[t]] /\ closure' = [closure EXCEPT ![t] = closure'[t]]
    /\ work' = [work EXCEPT ![t] = work'[t]]

LEMMA TypesOfTurns == TypeOK => \A t \in Turns : Typed(t)
BY DEF TypeOK, Typed, Trees, Work

LEMMA OneTurn ==
    ASSUME IInv, NEW t \in Turns, Only(t), fsm' \in States, shared' \in [Turns -> BOOLEAN],
           Typed(t)', Sound(t)'
    PROVE  IInv'
<1>1. TypeOK'
  <2>1. /\ pc' \in [Turns -> Places] /\ goal' \in [Turns -> Goal]
        /\ tries' \in [Turns -> 0..MaxAttempts]
        /\ tree' \in [Turns -> Trees]
    <3>1. pc' \in [Turns -> Places] /\ goal' \in [Turns -> Goal]
      BY DEF IInv, TypeOK, Only, Typed
    <3>2. tries' \in [Turns -> 0..MaxAttempts]
      BY SMTT(30) DEF IInv, TypeOK, Only, Typed
    <3>3. tree' \in [Turns -> Trees]
      BY SMTT(30) DEF IInv, TypeOK, Only, Typed, Trees
    <3> QED BY <3>1, <3>2, <3>3
  <2>c. disk' \in [Turns -> {"none", "running", "completed", "failed", "unwritten"}]
    <3>1. disk'[t] \in {"none", "running", "completed", "failed", "unwritten"}
      BY DEF Typed, Trees
    <3> QED BY <3>1 DEF IInv, TypeOK, Only
  <2>2. /\ rounds' \in [Turns -> 0..MaxRounds]
        /\ clock' \in [Turns -> {"early", "reserve", "out"}]
        /\ cache' \in [Turns -> Evidence]
        /\ made' \in [Turns -> Evidence]
    <3>1. rounds' \in [Turns -> 0..MaxRounds]
      BY DEF IInv, TypeOK, Only, Typed
    <3>2. clock' \in [Turns -> {"early", "reserve", "out"}]
      BY DEF IInv, TypeOK, Only, Typed
    <3>3. cache' \in [Turns -> Evidence]
      BY DEF IInv, TypeOK, Only, Typed
    <3>4. made' \in [Turns -> Evidence]
      BY DEF IInv, TypeOK, Only, Typed
    <3> QED BY <3>1, <3>2, <3>3, <3>4
  <2>d. /\ resumed' \in [Turns -> Evidence]
        /\ known' \in [Turns -> Evidence]
    <3>1. resumed' \in [Turns -> Evidence]
      BY DEF IInv, TypeOK, Only, Typed
    <3>2. known' \in [Turns -> Evidence]
      BY DEF IInv, TypeOK, Only, Typed
    <3> QED BY <3>1, <3>2
  <2>3. /\ flags' \in [Turns -> Flags]
        /\ exec' \in [Turns -> Execution]
        /\ closure' \in [Turns -> {"none", "closed", "open"}]
        /\ work' \in [Turns -> Work]
    <3>1. flags' \in [Turns -> Flags]
      BY DEF IInv, TypeOK, Only, Typed
    <3>2. exec' \in [Turns -> Execution]
      BY DEF IInv, TypeOK, Only, Typed
    <3>3. closure' \in [Turns -> {"none", "closed", "open"}]
      BY DEF IInv, TypeOK, Only, Typed
    <3>4. work' \in [Turns -> Work]
      BY DEF IInv, TypeOK, Only, Typed, Work
    <3> QED BY <3>1, <3>2, <3>3, <3>4
  <2>a. /\ steps'[t] \in Nat /\ open'[t] \in SUBSET Nat
        /\ \A u \in Turns : MaxSteps(u) \in Nat
    BY RootTurnAssumption DEF Typed, MaxSteps, ReservedSteps
  <2>b. steps' \in [Turns -> Nat] /\ open' \in [Turns -> SUBSET Nat]
    BY <2>a DEF IInv, TypeOK, Only
  <2>4. \A u \in Turns : steps'[u] \in 0..MaxSteps(u)' /\ open'[u] \subseteq 1..steps'[u]
    <3> TAKE u \in Turns
    <3>1. CASE u = t
      BY <3>1 DEF Typed
    <3>2. CASE u # t
      BY <3>2 DEF IInv, TypeOK, Only, MaxSteps, ReservedSteps
    <3> QED BY <3>1, <3>2
  <2> QED BY <2>1, <2>2, <2>3, <2>b, <2>c, <2>d, <2>4 DEF TypeOK, Trees, Work, States
<1>2. \A u \in Turns \ {t} : Sound(u)'
  <2> TAKE u \in Turns \ {t}
  <2>1. /\ pc'[u] = pc[u] /\ goal'[u] = goal[u] /\ tries'[u] = tries[u] /\ tree'[u] = tree[u]
        /\ disk'[u] = disk[u] /\ steps'[u] = steps[u] /\ rounds'[u] = rounds[u]
        /\ cache'[u] = cache[u] /\ resumed'[u] = resumed[u] /\ known'[u] = known[u]
        /\ flags'[u] = flags[u] /\ exec'[u] = exec[u] /\ closure'[u] = closure[u]
        /\ work'[u] = work[u]
    BY DEF IInv, TypeOK, Only
  <2>2. Sound(u)
    BY DEF IInv
  <2>3. MaxSteps(u)' = MaxSteps(u) /\ ReservedSteps(u)' = ReservedSteps(u)
    BY <2>1 DEF MaxSteps, ReservedSteps
  <2>4. Room(u)' /\ Counts(u)'
    BY <2>1, <2>2, <2>3 DEF Sound, Room, Counts, Left
  <2>5. Closing(u)'
    BY <2>1, <2>2 DEF Sound, Closing
  <2>6. Records(u)' /\ Guidance(u)' /\ Claims(u)'
    BY <2>1, <2>2 DEF Sound, Records, Unverified, Guidance, Claims
  <2> QED BY <2>4, <2>5, <2>6 DEF Sound
<1> QED BY <1>1, <1>2 DEF IInv

-----------------------------------------------------------------------------
(* Steps that only move on. *)

Same(t) ==
    /\ goal'[t] = goal[t] /\ tries'[t] = tries[t] /\ tree'[t] = tree[t] /\ disk'[t] = disk[t]
    /\ steps'[t] = steps[t] /\ rounds'[t] = rounds[t] /\ cache'[t] = cache[t]
    /\ made'[t] = made[t]
    /\ resumed'[t] = resumed[t] /\ known'[t] = known[t] /\ flags'[t] = flags[t]
    /\ exec'[t] = exec[t] /\ closure'[t] = closure[t] /\ work'[t] = work[t]

\* From where to where a turn moves without doing anything.
Passages ==
    { <<"input", "assess">>, <<"assess", "decide">>, <<"think", "answer">>, <<"plan", "spawn">>,
      <<"spawn", "round">>, <<"wait", "endRound">>, <<"giveUp", "close">>,
      <<"reassess", "continue">>, <<"handOff", "close">>, <<"merge", "compose">>,
      <<"clarify", "endStep">>, <<"respond", "deliver">>, <<"settle", "rest">>,
      <<"rest", "finish">>, <<"attempt", "executed">>, <<"compose", "endStep">>,
      <<"deliver", "settle">>, <<"update", "done">>, <<"answer", "execute">> }

LEMMA Capacity ==
    ASSUME NEW t \in Turns
    PROVE  /\ MaxSteps(t) \in Nat /\ ReservedSteps(t) \in 1..2 /\ MaxSteps(t) > ReservedSteps(t)
           /\ goal[t].mutation <=> ReservedSteps(t) = 2
           /\ goal'[t] = goal[t] => MaxSteps(t)' = MaxSteps(t) /\ ReservedSteps(t)' = ReservedSteps(t)
BY RootTurnAssumption DEF MaxSteps, ReservedSteps

LEMMA PassageIsSound ==
    ASSUME NEW t \in Turns, Sound(t), Typed(t), Same(t), <<pc[t], pc'[t]>> \in Passages
    PROVE  Sound(t)'
<1>1. MaxSteps(t)' = MaxSteps(t) /\ ReservedSteps(t)' = ReservedSteps(t)
  BY Capacity DEF Same
<1>2. Room(t)'
  BY <1>1 DEF Same, Sound, Room, Left, Passages, Starting, Alone, Asking, Delegating, Executing
<1>3. Counts(t)'
  BY DEF Same, Sound, Counts, Passages, Starting, Asking
<1>4. Closing(t)'
  BY DEF Same, Sound, Closing, Passages, Starting, Alone, Asking, Delegating, Executing, Concluding,
         Failing, Resetting
<1>5. Records(t)'
  BY DEF Same, Sound, Records, Unverified, Passages, Starting, Alone, Asking, Delegating
<1>6. Guidance(t)'
  BY DEF Same, Sound, Guidance, Unverified, Passages
<1>7. Claims(t)'
  BY DEF Same, Sound, Claims, Passages, Concluding
<1> QED BY <1>2, <1>3, <1>4, <1>5, <1>6, <1>7 DEF Sound

\* An exception while the tree is running.
LEMMA FailingIsSound ==
    ASSUME NEW t \in Turns, Same(t), pc'[t] = "failing", tree[t] = "running"
    PROVE  Sound(t)'
<1>1. Room(t)' /\ Counts(t)'
  BY DEF Room, Counts, Starting, Alone, Asking, Delegating, Executing
<1>2. Closing(t)'
  BY DEF Same, Closing, Starting, Alone, Asking, Delegating, Executing, Concluding, Failing, Resetting
<1>3. Records(t)' /\ Guidance(t)' /\ Claims(t)'
  BY DEF Records, Guidance, Claims, Starting, Alone, Asking, Delegating, Concluding
<1> QED BY <1>1, <1>2, <1>3 DEF Sound

LEMMA PlaceNames ==
    Starting \cup Alone \cup Asking \cup Delegating \cup Executing \cup Concluding \cup Failing
    \cup Resetting \cup {"startExec", "startAsk", "clarify", "failed", "retrying", "uncalled"}
        \subseteq Places
BY DEF Places, Starting, Alone, Asking, Delegating, Executing, Concluding, Failing, Resetting,
       Returned, Working, Moves, Starts

\* Only the place changes, and perhaps the state machine's state.
LEMMA Passes ==
    ASSUME IInv, NEW t \in Turns, NEW place \in Places, Goes(t, place), fsm' \in States,
           UNCHANGED <<goal, tries, treeVars, rounds, clock, flags, workVars, shared>>
    PROVE  /\ pc'[t] = place /\ Same(t)
           /\ Sound(t)' => IInv'
<1>1. Only(t) /\ Same(t) /\ pc'[t] = place /\ shared' = shared /\ open' = open /\ clock' = clock
  BY DEF IInv, TypeOK, Goes, Only, Same, treeVars, workVars
<1>2. Typed(t)
  BY TypesOfTurns DEF IInv
<1>3. MaxSteps(t)' = MaxSteps(t)
  BY <1>1, Capacity DEF Same
<1>4. Typed(t)'
  BY <1>1, <1>2, <1>3 DEF Typed, Same
<1>5. shared' \in [Turns -> BOOLEAN]
  BY <1>1 DEF IInv, TypeOK
<1> QED BY <1>1, <1>4, <1>5, OneTurn

LEMMA MovesPass ==
    ASSUME NEW p \in DOMAIN Moves
    PROVE  /\ <<p, Moves[p][2]>> \in Passages /\ Moves[p][1] \in States /\ Moves[p][2] \in Places
           /\ p \in Starting \cup Alone \cup Asking \cup Delegating \cup Executing
                    \cup {"clarify"} \cup (Concluding \ {"update", "done"})
<1>1. p \in {"input", "assess", "think", "plan", "spawn", "wait", "giveUp", "reassess", "handOff",
             "merge", "clarify", "respond", "settle", "rest"}
  BY DEF Moves
<1>2. <<p, Moves[p][2]>> \in Passages
  BY <1>1 DEF Moves, Passages
<1>3. Moves[p][1] \in States
  BY <1>1 DEF Moves, States, Edges
<1>4. Moves[p][2] \in Places
  BY <1>1 DEF Moves, Places, Working
<1>5. p \in Starting \cup Alone \cup Asking \cup Delegating \cup Executing
              \cup {"clarify"} \cup (Concluding \ {"update", "done"})
  BY <1>1 DEF Starting, Alone, Asking, Delegating, Executing, Concluding
<1> QED BY <1>2, <1>3, <1>4, <1>5

LEMMA TransitionStep == ASSUME IInv, NEW t \in Turns, Transition(t) PROVE IInv'
<1>1. pc[t] \in DOMAIN Moves /\ Sound(t) /\ Typed(t) /\ fsm \in States
  BY TypesOfTurns DEF Transition, IInv, TypeOK, States
<1>2. UNCHANGED <<goal, tries, treeVars, rounds, clock, flags, workVars, shared>>
  BY DEF Transition
<1>3. CASE fsm' = Moves[pc[t]][1] /\ Goes(t, Moves[pc[t]][2])
  <2>1. Moves[pc[t]][2] \in Places /\ fsm' \in States
    BY <1>1, <1>3, MovesPass
  <2>2. pc'[t] = Moves[pc[t]][2] /\ Same(t) /\ (Sound(t)' => IInv')
    BY <1>2, <1>3, <2>1, Passes
  <2> QED BY <1>1, <2>2, MovesPass, PassageIsSound
<1>4. CASE Goes(t, "failing") /\ UNCHANGED fsm
  <2>1. "failing" \in Places
    BY PlaceNames DEF Failing
  <2>2. pc'[t] = "failing" /\ Same(t) /\ (Sound(t)' => IInv')
    BY <1>1, <1>2, <1>4, <2>1, Passes
  <2>3. tree[t] = "running"
    BY <1>1, MovesPass DEF Sound, Closing
  <2> QED BY <2>2, <2>3, FailingIsSound
<1> QED BY <1>3, <1>4 DEF Transition

\* A step that is a passage.
LEMMA PassageStep ==
    ASSUME IInv, NEW t \in Turns, NEW place \in Places, Goes(t, place), UNCHANGED fsm,
           <<pc[t], place>> \in Passages,
           UNCHANGED <<goal, tries, treeVars, rounds, clock, flags, workVars, shared>>
    PROVE  IInv'
<1>1. Sound(t) /\ Typed(t) /\ fsm' \in States
  BY TypesOfTurns DEF IInv, TypeOK, States
<1>2. pc'[t] = place /\ Same(t) /\ (Sound(t)' => IInv')
  BY <1>1, Passes
<1> QED BY <1>1, <1>2, PassageIsSound

LEMMA PassingSteps ==
    ASSUME IInv, NEW t \in Turns, Answer(t) \/ LeaveLoop(t) \/ Compose(t) \/ Deliver(t) \/ Return(t)
    PROVE  IInv'
<1>1. {"execute", "executed", "endStep", "settle", "done"} \subseteq Places
  BY PlaceNames DEF Executing, Concluding
<1>2. CASE LeaveLoop(t)
  BY <1>1, <1>2, PassageStep DEF LeaveLoop, Passages
<1>3. CASE Compose(t)
  BY <1>1, <1>3, PassageStep DEF Compose, Passages
<1>4. CASE Deliver(t)
  BY <1>1, <1>4, PassageStep DEF Deliver, Passages
<1>5. CASE Return(t)
  BY <1>1, <1>5, PassageStep DEF Return, Passages
<1>6. CASE Answer(t)
  <2>1. CASE goal[t].mutation
    BY <1>1, <1>6, <2>1, PassageStep DEF Answer, Passages
  <2>2. CASE ~goal[t].mutation
    <3>1. Sound(t) /\ Typed(t) /\ fsm' \in States
      BY <1>6, TypesOfTurns DEF IInv, TypeOK, States, Answer
    <3>2. pc[t] = "answer" /\ pc'[t] = "endStep" /\ Same(t) /\ (Sound(t)' => IInv')
      BY <1>1, <1>6, <2>2, <3>1, Passes DEF Answer
    <3>3. Room(t)' /\ Counts(t)' /\ Records(t)' /\ Guidance(t)' /\ Claims(t)'
      BY <2>2, <3>2 DEF Room, Counts, Records, Guidance, Claims, Same, Starting, Alone, Asking,
                        Delegating, Executing, Concluding
    <3>4. Closing(t)'
      BY <3>1, <3>2 DEF Sound, Same, Closing, Starting, Alone, Asking, Delegating, Executing,
                        Concluding, Failing, Resetting
    <3> QED BY <3>2, <3>3, <3>4 DEF Sound
  <2> QED BY <2>1, <2>2
<1> QED BY <1>2, <1>3, <1>4, <1>5, <1>6

-----------------------------------------------------------------------------
(* The beginning and the decisions. *)

LEMMA FreshRecords ==
    /\ Fresh \in Flags /\ ~Fresh.delegated /\ ~Fresh.blocked /\ Fresh.ask = "none"
    /\ Fresh.plan = NoPlan /\ Fresh.last = "plain"
    /\ NoExec \in Execution /\ NoExec.calls = NoCalls /\ ~NoExec.stuck /\ NoExec.stalled = 0
BY BriefsTyped, EvidenceFields, RootTurnAssumption DEF Fresh, Flags, NoExec, Execution

LEMMA BeginStep == ASSUME IInv, NEW t \in Turns, Begin(t) PROVE IInv'
<1>0. Sound(t) /\ Typed(t) /\ fsm \in States /\ TypeOK
  BY TypesOfTurns DEF IInv, TypeOK, States
<1>1. /\ Only(t) /\ fsm' = fsm /\ pc[t] \in {"uncalled", "retrying"}
      /\ shared' \in [Turns -> BOOLEAN]
  BY <1>0 DEF Begin, Goes, Forgets, TypeOK, Only, treeVars, workVars, InFlight
<1>2. /\ pc'[t] = "input" /\ tries'[t] = tries[t] + 1 /\ tree'[t] = "running"
      /\ disk'[t] = "running" /\ steps'[t] = 0 /\ open'[t] = {} /\ rounds'[t] = 0
      /\ clock'[t] = "early" /\ made'[t] = NoCalls /\ resumed'[t] = NoCalls
      /\ known'[t] = NoCalls /\ flags'[t] = Fresh /\ exec'[t] = NoExec /\ closure'[t] = "none"
      /\ goal'[t] = goal[t] /\ cache'[t] = cache[t] /\ work'[t] = work[t]
  BY <1>0 DEF Begin, Goes, Forgets, TypeOK
<1>3. /\ MaxSteps(t)' = MaxSteps(t) /\ ReservedSteps(t)' = ReservedSteps(t)
      /\ MaxSteps(t) \in Nat /\ MaxSteps(t) > ReservedSteps(t) /\ ReservedSteps(t) \in 1..2
  BY <1>2, Capacity
<1>4. tries[t] < MaxAttempts
  BY <1>0, <1>1, RootTurnAssumption DEF Sound, Counts
<1>5. "input" \in Places
  BY PlaceNames DEF Starting
<1>6. Typed(t)'
  <2>1. pc'[t] \in Places /\ goal'[t] \in Goal /\ tries'[t] \in 0..MaxAttempts
    BY <1>0, <1>2, <1>4, <1>5, RootTurnAssumption DEF Typed
  <2>2. tree'[t] \in Trees /\ disk'[t] \in Trees \cup {"unwritten"}
    BY <1>2 DEF Trees
  <2>3. steps'[t] \in 0..MaxSteps(t)' /\ open'[t] \subseteq 1..steps'[t]
    BY <1>2, <1>3
  <2>4. rounds'[t] \in 0..MaxRounds /\ clock'[t] \in {"early", "reserve", "out"}
    BY <1>2, RootTurnAssumption
  <2>5. /\ cache'[t] \in Evidence /\ made'[t] \in Evidence
        /\ resumed'[t] \in Evidence /\ known'[t] \in Evidence
        /\ flags'[t] \in Flags /\ exec'[t] \in Execution
        /\ closure'[t] \in {"none", "closed", "open"} /\ work'[t] \in Work
    BY <1>0, <1>2, FreshRecords, EvidenceFields DEF Typed
  <2> QED BY <2>1, <2>2, <2>3, <2>4, <2>5 DEF Typed
<1>7. Room(t)' /\ Counts(t)'
  BY <1>2, <1>3, RootTurnAssumption DEF Room, Counts, Left, Starting, Alone, Asking, Delegating, Executing
<1>8. Closing(t)'
  BY <1>2 DEF Closing, Failing, Resetting, Concluding
<1>9. Unverified(t, cache[t])
  BY <1>0, <1>1 DEF Sound, Records
<1>10. Records(t)' /\ Guidance(t)' /\ Claims(t)'
  BY <1>2, <1>9 DEF Records, Guidance, Claims, Unverified, Alone, Asking, Delegating, Concluding
<1> QED BY <1>0, <1>1, <1>6, <1>7, <1>8, <1>10, OneTurn DEF Sound

LEMMA DecideStep == ASSUME IInv, NEW t \in Turns, Decide(t) PROVE IInv'
<1>0. Sound(t) /\ Typed(t) /\ fsm \in States /\ TypeOK
  BY TypesOfTurns DEF IInv, TypeOK, States
<1>1. PICK d \in FirstBriefs :
        /\ resumed' = [resumed EXCEPT ![t] = IF d.resume = "none" THEN @ ELSE cache[t]]
        /\ work' = [work EXCEPT ![t] =
                       IF @ = "unseen" /\ d.resume # "none" /\ Pending(t) THEN "changed" ELSE @]
        /\ Goes(t, CASE d.brief.action = "solve" -> "startAlone"
                     [] d.brief.action = "spawn" -> "startRound"
                     [] d.brief.action = "ask" -> "startAsk")
        /\ flags' = [flags EXCEPT ![t] =
              [@ EXCEPT !.plan = d.brief,
                        !.delegated = d.brief.action = "spawn",
                        !.ask = IF d.brief.action = "ask" THEN "first" ELSE flags[t].ask]]
  BY DEF Decide, Restored
<1> DEFINE plan == d.brief
           delegated == plan.action = "spawn"
           ask == IF plan.action = "ask" THEN "first" ELSE flags[t].ask
           f == [flags[t] EXCEPT !.plan = plan, !.delegated = delegated, !.ask = ask]
           place == CASE plan.action = "solve" -> "startAlone"
                      [] plan.action = "spawn" -> "startRound"
                      [] plan.action = "ask" -> "startAsk"
<1>2. plan \in Plan
  BY BriefsTyped
<1>3. /\ pc[t] = "decide" /\ resumed[t] = NoCalls /\ known[t] = NoCalls /\ flags[t] = Fresh
      /\ Unverified(t, cache[t]) /\ tree[t] = "running" /\ Left(t) > ReservedSteps(t)
      /\ rounds[t] < MaxRounds
  BY <1>0 DEF Decide, Sound, Records, Closing, Room, Counts, Starting
<1>4. plan.action \in {"solve", "spawn", "ask"}
  BY <1>2 DEF Plan
<1>5. /\ place \in {"startAlone", "startRound", "startAsk"}
      /\ place = "startAlone" <=> plan.action = "solve"
      /\ place = "startRound" <=> plan.action = "spawn"
      /\ place = "startAsk" <=> plan.action = "ask"
  BY <1>4
<1>6. flags' = [flags EXCEPT ![t] = f]
  BY <1>1
<1>r. resumed' = [resumed EXCEPT ![t] = IF d.resume = "none" THEN @ ELSE cache[t]]
  BY <1>1
<1>w. work' = [work EXCEPT ![t] =
                  IF @ = "unseen" /\ d.resume # "none" /\ Pending(t) THEN "changed" ELSE @]
  BY <1>1
<1>p. pc' = [pc EXCEPT ![t] = place]
  BY <1>1 DEF Goes
<1>7. delegated \in BOOLEAN /\ ask \in {"none", "first"} /\ (delegated <=> place = "startRound")
      /\ (ask = "none" <=> place # "startAsk")
  BY <1>3, <1>5, FreshRecords
<1> HIDE DEF plan, delegated, ask, place
<1>8. /\ f \in Flags /\ f.plan = plan /\ f.delegated = delegated /\ f.ask = ask
      /\ f.blocked = flags[t].blocked /\ f.last = flags[t].last
  BY <1>0, <1>2, <1>7 DEF Typed, Flags
<1> HIDE DEF f
<1>9. Only(t) /\ fsm' = fsm /\ shared' = shared
  BY <1>0, <1>6, <1>p, <1>r, <1>w DEF Decide, TypeOK, Only, treeVars
<1>10. /\ pc'[t] = place /\ flags'[t] = f /\ resumed'[t] \in {NoCalls, cache[t]}
       /\ work'[t] \in {work[t], "changed"}
       /\ work'[t] # work[t] => resumed'[t] = cache[t] /\ Pending(t)
       /\ UNCHANGED <<goal, tries, tree, disk, steps, open, rounds, clock, cache, made, known,
                      exec, closure>>
  BY <1>0, <1>3, <1>6, <1>p, <1>r, <1>w DEF Decide, TypeOK, treeVars
<1>11. /\ MaxSteps(t)' = MaxSteps(t) /\ ReservedSteps(t)' = ReservedSteps(t)
       /\ MaxSteps(t) \in Nat /\ ReservedSteps(t) \in 1..2 /\ Left(t)' = Left(t)
  BY <1>10, Capacity DEF Left
<1>12. place \in Places
  BY <1>5, PlaceNames DEF Alone, Asking
<1>13. Typed(t)'
  BY <1>0, <1>8, <1>10, <1>11, <1>12, EvidenceFields DEF Typed, Work
<1>14. Room(t)' /\ Counts(t)'
  BY <1>3, <1>5, <1>7, <1>8, <1>10, <1>11, <1>0
     DEF Room, Counts, Typed, Starting, Alone, Asking, Delegating, Executing, Left
<1>15. Closing(t)'
  BY <1>3, <1>5, <1>10 DEF Closing, Failing, Resetting, Concluding
<1>16. work'[t] = "changed" => ~Verified(Then(resumed'[t], NoCalls))
  <2>1. resumed'[t] \in Evidence /\ cache[t] \in Evidence /\ work[t] \in Work
    BY <1>0, <1>10, EvidenceFields DEF Typed
  <2>2. Verified(Then(resumed'[t], NoCalls)) <=> Verified(resumed'[t])
    BY <2>1, ThenVerified
  <2>3. CASE work'[t] = work[t]
    BY <1>3, <1>10, <2>1, <2>2, <2>3, ThenVerified DEF Unverified
  <2>4. CASE work'[t] # work[t]
    BY <1>10, <2>1, <2>2, <2>4, EvidenceFields DEF Pending, After, Verified
  <2> QED BY <2>3, <2>4
<1>17. Records(t)'
  BY <1>3, <1>5, <1>7, <1>8, <1>10, <1>16 DEF Records, Unverified, Starting, Delegating, Asking, Alone
<1>18. Guidance(t)' /\ Claims(t)'
  BY <1>3, <1>5, <1>7, <1>8, <1>10, FreshRecords DEF Guidance, Claims, Concluding
<1>19. shared' \in [Turns -> BOOLEAN]
  BY <1>0, <1>9 DEF TypeOK
<1> QED BY <1>0, <1>9, <1>13, <1>14, <1>15, <1>17, <1>18, <1>19, OneTurn DEF Sound

LEMMA StartStepStep == ASSUME IInv, NEW t \in Turns, StartStep(t) PROVE IInv'
<1>0. Sound(t) /\ Typed(t) /\ fsm \in States /\ TypeOK
  BY TypesOfTurns DEF IInv, TypeOK, States
<1> DEFINE p == flags[t].plan
           q == [NoPlan EXCEPT !.final = p.final, !.guided = p.guided]
           f == [flags[t] EXCEPT !.plan = q]
<1>1. p \in Plan /\ NoPlan \in Plan
  BY <1>0, BriefsTyped DEF Typed, Flags
<1>2. q \in Plan /\ q.guided = p.guided
  BY <1>1 DEF Plan
<1>3. /\ f \in Flags /\ f.plan = q /\ f.delegated = flags[t].delegated /\ f.ask = flags[t].ask
      /\ f.blocked = flags[t].blocked
  <2> HIDE DEF q
  <2> QED BY <1>0, <1>2 DEF Typed, Flags
<1>4. flags' = [flags EXCEPT ![t] = f]
  BY DEF StartStep
<1> HIDE DEF p, q, f
<1>5. Only(t) /\ fsm' = fsm /\ shared' = shared
  BY <1>0, <1>4 DEF StartStep, Goes, TypeOK, Only, workVars
<1>6. /\ flags'[t] = f
      /\ UNCHANGED <<goal, tries, tree, disk, rounds, clock, cache, made, resumed, known, exec,
                     closure, work>>
  BY <1>0, <1>4 DEF StartStep, TypeOK, workVars
<1>7. /\ MaxSteps(t)' = MaxSteps(t) /\ ReservedSteps(t)' = ReservedSteps(t)
      /\ MaxSteps(t) \in Nat /\ ReservedSteps(t) \in 1..2
      /\ goal[t].mutation <=> ReservedSteps(t) = 2
  BY <1>6, Capacity
<1>8. /\ pc[t] \in {"startAlone", "startRound", "startExec", "startMerge", "startAsk"}
      /\ Starts[pc[t]] = IF pc[t] = "startAlone" THEN "think"
                         ELSE IF pc[t] = "startRound" THEN "plan"
                         ELSE IF pc[t] = "startExec" THEN "execute"
                         ELSE IF pc[t] = "startMerge" THEN "merge" ELSE "clarify"
  BY DEF StartStep, Starts
<1>9. steps[t] < MaxSteps(t)
  BY <1>0, <1>7, <1>8 DEF Typed, Sound, Room, Left, Asking
<1>10. /\ steps'[t] = steps[t] + 1 /\ pc'[t] = Starts[pc[t]]
       /\ open'[t] = open[t] \cup {steps[t] + 1}
  <2>1. ~(steps[t] >= MaxSteps(t))
    BY <1>0, <1>7, <1>9 DEF Typed
  <2>2. /\ steps' = [steps EXCEPT ![t] = steps[t] + 1]
        /\ open' = [open EXCEPT ![t] = open[t] \cup {steps'[t]}]
        /\ pc' = [pc EXCEPT ![t] = Starts[pc[t]]]
    BY <2>1 DEF StartStep, Goes
  <2>3. /\ pc \in [Turns -> Places] /\ steps \in [Turns -> Nat] /\ open \in [Turns -> SUBSET Nat]
    BY <1>0 DEF TypeOK
  <2>4. steps'[t] = steps[t] + 1 /\ pc'[t] = Starts[pc[t]]
    BY <2>2, <2>3
  <2> QED BY <2>2, <2>3, <2>4
<1>11. Starts[pc[t]] \in Places
  BY <1>8, PlaceNames DEF Alone, Delegating, Executing, Concluding
<1>12. Typed(t)'
  BY <1>0, <1>3, <1>6, <1>7, <1>9, <1>10, <1>11 DEF Typed
<1>13. Room(t)' /\ Counts(t)'
  BY <1>0, <1>3, <1>6, <1>7, <1>8, <1>9, <1>10
     DEF Sound, Room, Counts, Typed, Starting, Alone, Asking, Delegating, Executing, Left
<1>14. Closing(t)'
  BY <1>0, <1>6, <1>8, <1>10
     DEF Sound, Closing, Starting, Alone, Asking, Delegating, Executing, Concluding, Failing, Resetting
<1>15. Records(t)'
  BY <1>0, <1>3, <1>6, <1>8, <1>10
     DEF Sound, Records, Unverified, Starting, Alone, Asking, Delegating
<1>16. Guidance(t)' /\ Claims(t)'
  BY <1>0, <1>2, <1>3, <1>6, <1>8, <1>10 DEF Sound, Guidance, Claims, Concluding, p
<1>17. shared' \in [Turns -> BOOLEAN]
  BY <1>0, <1>5 DEF TypeOK
<1> QED BY <1>0, <1>5, <1>12, <1>13, <1>14, <1>15, <1>16, <1>17, OneTurn DEF Sound

-----------------------------------------------------------------------------
(* Delegation rounds. *)

LEMMA Ready ==
    ASSUME IInv, NEW t \in Turns
    PROVE  TypeOK /\ Sound(t) /\ Typed(t) /\ fsm \in States /\ shared \in [Turns -> BOOLEAN]
BY TypesOfTurns DEF IInv, TypeOK, States

LEMMA RoundEndsStep ==
    ASSUME IInv, NEW t \in Turns, NEW e \in Evidence, NEW lost \in Evidence,
           NEW m, NEW evolved \in BOOLEAN, RoundEnds(t, e, lost, m, evolved)
    PROVE  IInv'
<1>0. TypeOK /\ Sound(t) /\ Typed(t) /\ fsm \in States /\ shared \in [Turns -> BOOLEAN]
  BY Ready
<1>1. pc[t] = "round" /\ WorksAndLoses(t, e, lost, m)
  BY DEF RoundEnds
<1> DEFINE last == IF goal[t].mutation /\ (e.changed \/ (flags[t].plan.guided /\ ~evolved))
                   THEN "handoff"
                   ELSE IF flags[t].plan.final \/ evolved THEN "final" ELSE "plain"
           f == [flags[t] EXCEPT !.plan = NoPlan, !.last = last]
<1>2. flags' = [flags EXCEPT ![t] = f]
  BY DEF RoundEnds
<1>3. last \in {"plain", "handoff", "final"}
  OBVIOUS
<1> HIDE DEF last
<1>4. f \in Flags /\ f.blocked = flags[t].blocked /\ f.delegated = flags[t].delegated
  BY <1>0, <1>3, BriefsTyped DEF Typed, Flags
<1> HIDE DEF f
<1>5. Unverified(t, Then(resumed[t], known[t]))
  BY <1>0, <1>1 DEF Sound, Records, Delegating
<1>6. /\ Then(resumed[t], known[t]) \in Evidence /\ Then(known[t], e) \in Evidence
      /\ Verified(Then(resumed[t], Then(known[t], e)))
            <=> Verified(Then(Then(resumed[t], known[t]), e))
  BY <1>0, ThenTyped, ThenVerified DEF Typed
<1>7. /\ m \in Evidence /\ work'[t] \in Work /\ work' = [work EXCEPT ![t] = work'[t]]
      /\ work'[t] = "changed" => ~Verified(Then(Then(resumed[t], known[t]), e))
  <2>1. work[t] \in Work /\ work \in [Turns -> Work]
    BY <1>0 DEF TypeOK, Work
  <2>2. work[t] = "changed" => ~Verified(Then(resumed[t], known[t]))
    BY <1>5 DEF Unverified
  <2> QED BY <1>1, <1>6, <2>1, <2>2, RoundWork
<1>8. Only(t) /\ fsm' = fsm /\ shared' = shared
  BY <1>0, <1>2, <1>7 DEF RoundEnds, Goes, TypeOK, Only, treeVars
<1>9. /\ pc'[t] = "wait" /\ rounds'[t] = rounds[t] + 1 /\ known'[t] = Then(known[t], e)
      /\ flags'[t] = f /\ made'[t] = Then(made[t], m)
      /\ UNCHANGED <<goal, tries, tree, disk, steps, open, clock, cache, resumed, exec, closure>>
  BY <1>0, <1>2 DEF RoundEnds, Goes, TypeOK, treeVars
<1>10. MaxSteps(t)' = MaxSteps(t) /\ ReservedSteps(t)' = ReservedSteps(t)
  BY <1>9, Capacity
<1>11. rounds[t] < MaxRounds /\ tree[t] = "running" /\ ~flags[t].blocked
       /\ Left(t) >= ReservedSteps(t)
  BY <1>0, <1>1 DEF Sound, Counts, Closing, Guidance, Room, Delegating
<1>12. Typed(t)'
  <2>1. rounds'[t] \in 0..MaxRounds
    BY <1>0, <1>9, <1>11, RootTurnAssumption DEF Typed
  <2>2. pc'[t] \in Places
    BY <1>9, PlaceNames DEF Delegating
  <2>3. made'[t] \in Evidence
    BY <1>0, <1>7, <1>9, ThenTyped DEF Typed
  <2> QED BY <1>0, <1>4, <1>6, <1>7, <1>9, <1>10, <2>1, <2>2, <2>3 DEF Typed
<1>13. Room(t)' /\ Counts(t)'
  BY <1>9, <1>10, <1>11 DEF Room, Counts, Left, Starting, Alone, Asking, Delegating, Executing
<1>14. Closing(t)' /\ Claims(t)'
  BY <1>9, <1>11 DEF Closing, Claims, Failing, Resetting, Concluding
<1>15. Records(t)' /\ Guidance(t)'
  BY <1>4, <1>6, <1>7, <1>9, <1>11
     DEF Records, Guidance, Unverified, Starting, Alone, Asking, Delegating
<1> QED BY <1>0, <1>8, <1>12, <1>13, <1>14, <1>15, OneTurn DEF Sound

LEMMA RoundFailsStep ==
    ASSUME IInv, NEW t \in Turns, NEW e \in Evidence, NEW lost \in Evidence,
           NEW m, NEW noDiagnosis \in BOOLEAN, RoundFails(t, e, lost, m, noDiagnosis)
    PROVE  IInv'
<1>0. TypeOK /\ Sound(t) /\ Typed(t) /\ fsm \in States /\ shared \in [Turns -> BOOLEAN]
  BY Ready
<1>1. pc[t] = "round" /\ WorksAndLoses(t, e, lost, m)
  BY DEF RoundFails
<1> DEFINE f == [flags[t] EXCEPT !.blocked = noDiagnosis, !.plan = NoPlan]
<1>2. flags' = [flags EXCEPT ![t] = f]
  BY DEF RoundFails
<1>4. f \in Flags /\ f.blocked = noDiagnosis /\ f.delegated = flags[t].delegated
  BY <1>0, BriefsTyped DEF Typed, Flags
<1> HIDE DEF f
<1>5. Unverified(t, Then(resumed[t], known[t]))
  BY <1>0, <1>1 DEF Sound, Records, Delegating
<1>6. /\ Then(resumed[t], known[t]) \in Evidence /\ Then(known[t], e) \in Evidence
      /\ Verified(Then(resumed[t], Then(known[t], e)))
            <=> Verified(Then(Then(resumed[t], known[t]), e))
      /\ Verified(Then(resumed[t], NoCalls)) <=> Verified(resumed[t])
  BY <1>0, ThenTyped, ThenVerified DEF Typed
<1>7. /\ m \in Evidence /\ work'[t] \in Work /\ work' = [work EXCEPT ![t] = work'[t]]
      /\ work'[t] = "changed" => ~Verified(Then(Then(resumed[t], known[t]), e))
      /\ work'[t] = "changed" /\ ~e.changed /\ ~lost.changed => work[t] = "changed"
  <2>1. work[t] \in Work /\ work \in [Turns -> Work]
    BY <1>0 DEF TypeOK, Work
  <2>2. work[t] = "changed" => ~Verified(Then(resumed[t], known[t]))
    BY <1>5 DEF Unverified
  <2> QED BY <1>1, <1>6, <2>1, <2>2, RoundWork
<1>8. Only(t) /\ fsm' = fsm /\ shared' = shared
  BY <1>0, <1>2, <1>7 DEF RoundFails, EndsStep, Snapshot, Goes, TypeOK, Only
<1>9. /\ pc'[t] = "giveUp" /\ rounds'[t] = rounds[t] + 1 /\ known'[t] = Then(known[t], e)
      /\ flags'[t] = f /\ cache'[t] = Then(cache[t], Then(made[t], m))
      /\ made'[t] = NoCalls /\ open'[t] \subseteq open[t]
      /\ UNCHANGED <<goal, tries, tree, disk, steps, clock, resumed, exec, closure>>
  BY <1>0, <1>2 DEF RoundFails, EndsStep, Snapshot, Goes, TypeOK
<1>10. MaxSteps(t)' = MaxSteps(t) /\ ReservedSteps(t)' = ReservedSteps(t)
  BY <1>9, Capacity
<1>11. rounds[t] < MaxRounds /\ tree[t] = "running" /\ Left(t) >= ReservedSteps(t)
       /\ (flags[t].plan.guided => known[t] = NoCalls)
  BY <1>0, <1>1 DEF Sound, Counts, Closing, Guidance, Room, Delegating
<1>12. Typed(t)'
  <2>1. rounds'[t] \in 0..MaxRounds
    BY <1>0, <1>9, <1>11, RootTurnAssumption DEF Typed
  <2>2. pc'[t] \in Places
    BY <1>9, PlaceNames DEF Delegating
  <2>3. cache'[t] \in Evidence /\ made'[t] \in Evidence
    BY <1>0, <1>7, <1>9, ThenTyped, EvidenceFields DEF Typed
  <2> QED BY <1>0, <1>4, <1>6, <1>7, <1>9, <1>10, <2>1, <2>2, <2>3 DEF Typed
<1>13. Room(t)' /\ Counts(t)'
  BY <1>9, <1>10, <1>11 DEF Room, Counts, Left, Starting, Alone, Asking, Delegating, Executing
<1>14. Closing(t)' /\ Claims(t)'
  BY <1>9, <1>11 DEF Closing, Claims, Failing, Resetting, Concluding
<1>15. Records(t)'
  BY <1>6, <1>7, <1>9 DEF Records, Unverified, Starting, Alone, Asking, Delegating
<1>16. noDiagnosis => flags[t].plan.guided /\ ~e.changed /\ ~lost.changed
  BY DEF RoundFails
<1>17. Guidance(t)'
  BY <1>4, <1>5, <1>6, <1>7, <1>9, <1>11, <1>16 DEF Guidance, Unverified
<1> QED BY <1>0, <1>8, <1>12, <1>13, <1>14, <1>15, <1>17, OneTurn DEF Sound

LEMMA EndRoundStep ==
    ASSUME IInv, NEW t \in Turns, NEW stalled \in BOOLEAN, EndRound(t, stalled)
    PROVE  IInv'
<1>0. TypeOK /\ Sound(t) /\ Typed(t) /\ fsm \in States /\ shared \in [Turns -> BOOLEAN]
  BY Ready
<1>1. Only(t) /\ fsm' = fsm /\ shared' = shared
  BY <1>0 DEF EndRound, EndsStep, Snapshot, Goes, TypeOK, Only
<1>2. /\ pc[t] = "endRound" /\ pc'[t] \in {"reassess", "handOff"}
      /\ pc'[t] = "reassess" => rounds[t] < MaxRounds /\ GuardContinues(t, stalled)
      /\ cache'[t] = Then(cache[t], Then(made[t], NoCalls)) /\ made'[t] = NoCalls
      /\ open'[t] \subseteq open[t]
      /\ UNCHANGED <<goal, tries, tree, disk, steps, rounds, clock, flags, resumed, known, exec,
                     closure, work>>
  BY <1>0 DEF EndRound, EndsStep, Snapshot, Goes, TypeOK
<1>3. MaxSteps(t)' = MaxSteps(t) /\ ReservedSteps(t)' = ReservedSteps(t)
  BY <1>2, Capacity
<1>4. /\ tree[t] = "running" /\ ~flags[t].blocked /\ Left(t) >= ReservedSteps(t)
      /\ Unverified(t, Then(resumed[t], known[t]))
  BY <1>0, <1>2 DEF Sound, Closing, Guidance, Room, Records, Delegating
<1>5. Typed(t)'
  <2>1. cache'[t] \in Evidence /\ made'[t] \in Evidence
    BY <1>0, <1>2, ThenTyped, EvidenceFields DEF Typed
  <2>2. pc'[t] \in Places
    BY <1>2, PlaceNames DEF Asking, Delegating
  <2> QED BY <1>0, <1>2, <1>3, <2>1, <2>2 DEF Typed
<1>6. Room(t)' /\ Counts(t)'
  BY <1>2, <1>3, <1>4
     DEF Room, Counts, GuardContinues, Left, Starting, Alone, Asking, Delegating, Executing
<1>7. Closing(t)' /\ Claims(t)'
  BY <1>2, <1>4 DEF Closing, Claims, Failing, Resetting, Concluding
<1>8. Records(t)' /\ Guidance(t)'
  BY <1>2, <1>4 DEF Records, Guidance, Unverified, Starting, Alone, Asking, Delegating
<1> QED BY <1>0, <1>1, <1>5, <1>6, <1>7, <1>8, OneTurn DEF Sound

LEMMA ContinueStep == ASSUME IInv, NEW t \in Turns, Continue(t) PROVE IInv'
<1>0. TypeOK /\ Sound(t) /\ Typed(t) /\ fsm \in States /\ shared \in [Turns -> BOOLEAN]
  BY Ready
<1>1. PICK d \in NextBriefs :
        /\ Goes(t, IF d.brief.action = "spawn" THEN "startRound" ELSE "close")
        /\ flags' = [flags EXCEPT ![t] =
              [@ EXCEPT !.plan = IF d.brief.action = "spawn" THEN d.brief ELSE flags[t].plan,
                        !.ask = IF d.brief.action = "ask" THEN "later" ELSE flags[t].ask]]
  BY DEF Continue
<1> DEFINE plan == IF d.brief.action = "spawn" THEN d.brief ELSE flags[t].plan
           ask == IF d.brief.action = "ask" THEN "later" ELSE flags[t].ask
           f == [flags[t] EXCEPT !.plan = plan, !.ask = ask]
           place == IF d.brief.action = "spawn" THEN "startRound" ELSE "close"
<1>2. flags' = [flags EXCEPT ![t] = f]
  BY <1>1
<1>3. pc' = [pc EXCEPT ![t] = place]
  BY <1>1 DEF Goes
<1>4. /\ plan \in Plan /\ ask \in {"none", "first", "later"} /\ place \in {"startRound", "close"}
      /\ place = "startRound" => ~plan.guided
  BY <1>0, BriefsTyped DEF Typed, Flags
<1> HIDE DEF plan, ask, place
<1>5. f \in Flags /\ f.blocked = flags[t].blocked /\ f.plan = plan /\ f.delegated = flags[t].delegated
  BY <1>0, <1>4 DEF Typed, Flags
<1> HIDE DEF f
<1>6. Only(t) /\ fsm' = fsm /\ shared' = shared
  BY <1>0, <1>2, <1>3 DEF Continue, TypeOK, Only, treeVars, workVars
<1>7. /\ pc[t] = "continue" /\ pc'[t] = place /\ flags'[t] = f
      /\ UNCHANGED <<goal, tries, tree, disk, steps, open, rounds, clock, cache, made, resumed,
                     known, exec, closure, work>>
  BY <1>0, <1>2, <1>3 DEF Continue, TypeOK, treeVars, workVars
<1>8. MaxSteps(t)' = MaxSteps(t) /\ ReservedSteps(t)' = ReservedSteps(t)
      /\ MaxSteps(t) \in Nat /\ ReservedSteps(t) \in 1..2
  BY <1>7, Capacity
<1>9. /\ tree[t] = "running" /\ ~flags[t].blocked /\ Left(t) > ReservedSteps(t)
      /\ rounds[t] < MaxRounds /\ Unverified(t, Then(resumed[t], known[t]))
  BY <1>0, <1>7 DEF Sound, Closing, Guidance, Room, Records, Counts, Asking
<1>10. Typed(t)'
  <2>1. place \in Places
    BY <1>4, PlaceNames DEF Asking, Delegating
  <2> QED BY <1>0, <1>5, <1>7, <1>8, <2>1 DEF Typed
<1>11. Room(t)'
  BY <1>0, <1>4, <1>7, <1>8, <1>9
     DEF Room, Typed, Left, Starting, Alone, Asking, Delegating, Executing
<1>12. Counts(t)' /\ Closing(t)' /\ Claims(t)'
  BY <1>4, <1>7, <1>9 DEF Counts, Closing, Claims, Starting, Asking, Failing, Resetting, Concluding
<1>13. Records(t)' /\ Guidance(t)'
  BY <1>4, <1>5, <1>7, <1>9 DEF Records, Guidance, Unverified, Starting, Alone, Asking, Delegating
<1> QED BY <1>0, <1>6, <1>10, <1>11, <1>12, <1>13, OneTurn DEF Sound

LEMMA CloseStep == ASSUME IInv, NEW t \in Turns, Close(t) PROVE IInv'
<1>0. TypeOK /\ Sound(t) /\ Typed(t) /\ fsm \in States /\ shared \in [Turns -> BOOLEAN]
  BY Ready
<1> DEFINE f == [flags[t] EXCEPT !.last = "plain", !.blocked = FALSE]
           asks == flags[t].ask # "none"
           blocked == goal[t].mutation /\ flags[t].blocked
<1>1. flags' = [flags EXCEPT ![t] = f]
  BY DEF Close
<1>2. f \in Flags /\ f.ask = flags[t].ask /\ f.delegated = flags[t].delegated
  BY <1>0 DEF Typed, Flags
<1> HIDE DEF f
<1>3. Only(t) /\ fsm' = fsm /\ shared' = shared
  BY <1>0, <1>1 DEF Close, Goes, TypeOK, Only, treeVars
<1>4. /\ pc[t] = "close" /\ flags'[t] = f /\ rounds'[t] = 0
      /\ UNCHANGED <<goal, tries, tree, disk, steps, open, clock, cache, made, resumed, known,
                     exec, work>>
  BY <1>0, <1>1 DEF Close, TypeOK, treeVars
<1>5. pc'[t] = IF asks THEN "startAsk"
               ELSE IF goal[t].mutation /\ ~blocked THEN "startExec" ELSE "startMerge"
  BY <1>0 DEF Close, Goes, TypeOK
<1>6. closure'[t] = IF asks \/ ~blocked THEN closure[t]
                    ELSE IF Verified(resumed[t]) THEN "closed" ELSE "open"
  BY <1>0 DEF Close, TypeOK
<1>7. /\ MaxSteps(t)' = MaxSteps(t) /\ ReservedSteps(t)' = ReservedSteps(t)
      /\ MaxSteps(t) \in Nat /\ ReservedSteps(t) \in 1..2
      /\ (goal[t].mutation <=> ReservedSteps(t) = 2)
  BY <1>4, Capacity
<1>8. /\ tree[t] = "running" /\ Left(t) >= ReservedSteps(t)
      /\ Unverified(t, Then(resumed[t], known[t]))
      /\ (flags[t].blocked => Unverified(t, resumed[t]))
  BY <1>0, <1>4 DEF Sound, Closing, Guidance, Room, Records, Delegating
<1>9. Typed(t)'
  <2>1. pc'[t] \in Places
    BY <1>5, PlaceNames DEF Concluding
  <2>2. rounds'[t] \in 0..MaxRounds
    BY <1>4, RootTurnAssumption
  <2> QED BY <1>0, <1>2, <1>4, <1>6, <1>7, <2>1, <2>2 DEF Typed
<1>10. Room(t)'
  BY <1>0, <1>4, <1>5, <1>7, <1>8
     DEF Room, Typed, Left, Starting, Alone, Asking, Delegating, Executing
<1>11. Counts(t)' /\ Closing(t)' /\ Guidance(t)'
  BY <1>4, <1>5, <1>8 DEF Counts, Closing, Guidance, Starting, Asking, Failing, Resetting, Concluding
<1>12. Records(t)'
  BY <1>4, <1>5, <1>8 DEF Records, Unverified, Starting, Alone, Asking, Delegating
<1>13. Claims(t)'
  BY <1>2, <1>4, <1>5, <1>6, <1>8 DEF Claims, Unverified, Concluding
<1> QED BY <1>0, <1>3, <1>9, <1>10, <1>11, <1>12, <1>13, OneTurn DEF Sound

-----------------------------------------------------------------------------
(* The root's own execution. *)

LEMMA ExecutionFields ==
    \A x \in Execution :
        /\ x.calls \in Evidence /\ x.tried \in BOOLEAN /\ x.left \in 0..Window
        /\ x.stalled \in 0..MaxStalled /\ x.audit \in {"none", "passed", "defect", "unproved"}
        /\ x.invalid \in BOOLEAN /\ x.stuck \in BOOLEAN
BY DEF Execution

LEMMA ExecuteStep == ASSUME IInv, NEW t \in Turns, Execute(t) PROVE IInv'
<1>0. TypeOK /\ Sound(t) /\ Typed(t) /\ fsm \in States /\ shared \in [Turns -> BOOLEAN]
  BY Ready
<1> DEFINE calls == Then(resumed[t], known[t])
           x == [NoExec EXCEPT !.calls = calls, !.left = Window]
<1>1. exec' = [exec EXCEPT ![t] = x]
  BY DEF Execute
<1>2. calls \in Evidence
  BY <1>0, ThenTyped DEF Typed
<1>3. pc[t] = "execute" /\ Unverified(t, calls) /\ tree[t] = "running"
  BY <1>0 DEF Execute, Sound, Records, Closing, Executing
<1> HIDE DEF calls
<1>4. x \in Execution /\ x.calls = calls /\ ~x.stuck /\ x.stalled = 0
  <2>1. Window \in 0..Window
    BY RootTurnAssumption
  <2> QED BY <1>2, <2>1, FreshRecords DEF Execution
<1> HIDE DEF x
<1>5. Only(t) /\ fsm' = fsm /\ shared' = shared
  BY <1>0, <1>1 DEF Execute, Goes, TypeOK, Only, treeVars
<1>6. /\ exec'[t] = x /\ known'[t] = NoCalls
      /\ UNCHANGED <<goal, tries, tree, disk, steps, open, rounds, clock, flags, cache, made,
                     resumed, closure, work>>
  BY <1>0, <1>1 DEF Execute, TypeOK, treeVars
<1>7. pc'[t] \in {"executed", "audit", "attempt"}
  BY <1>0 DEF Execute, Goes, TypeOK
<1>8. MaxSteps(t)' = MaxSteps(t) /\ ReservedSteps(t)' = ReservedSteps(t)
  BY <1>6, Capacity
<1>9. Typed(t)'
  <2>1. pc'[t] \in Places
    BY <1>7, PlaceNames DEF Executing
  <2> QED BY <1>0, <1>4, <1>6, <1>8, <2>1, EvidenceFields DEF Typed
<1>10. Room(t)' /\ Counts(t)'
  BY <1>0, <1>3, <1>4, <1>6, <1>7, <1>8, RootTurnAssumption
     DEF Sound, Room, Counts, Left, Starting, Alone, Asking, Delegating, Executing
<1>11. Closing(t)' /\ Guidance(t)' /\ Claims(t)'
  BY <1>3, <1>6, <1>7 DEF Closing, Guidance, Claims, Failing, Resetting, Concluding
<1>12. Records(t)'
  BY <1>3, <1>4, <1>6, <1>7 DEF Records, Unverified, Starting, Alone, Asking, Delegating
<1> QED BY <1>0, <1>5, <1>9, <1>10, <1>11, <1>12, OneTurn DEF Sound

\* What an attempt and an audit have in common: calls f are made and recorded.
LEMMA CallsAreRecorded ==
    ASSUME IInv, NEW t \in Turns, NEW f \in Evidence, NEW x \in Execution,
           pc[t] \in {"attempt", "audit"}, x.calls = Then(exec[t].calls, f),
           exec' = [exec EXCEPT ![t] = x], Works(t, f), Goes(t, Judged(t, x)) \/ Goes(t, "audit"),
           x.stuck \/ x.stalled < MaxStalled,
           UNCHANGED <<fsm, goal, tries, treeVars, rounds, clock, flags, cache, resumed, known,
                       closure, shared>>
    PROVE  IInv'
<1>0. TypeOK /\ Sound(t) /\ Typed(t) /\ fsm \in States /\ shared \in [Turns -> BOOLEAN]
  BY Ready
<1>1. Unverified(t, exec[t].calls) /\ tree[t] = "running" /\ exec[t].calls \in Evidence
  BY <1>0, ExecutionFields DEF Sound, Records, Closing, Executing, Typed
<1> DEFINE w == After(work[t], f, TRUE)
<1>2. work' = [work EXCEPT ![t] = w] /\ work \in [Turns -> Work]
  BY <1>0 DEF Works, TypeOK, Work
<1>m. made' = [made EXCEPT ![t] = Then(made[t], f)] /\ made \in [Turns -> Evidence]
  BY <1>0 DEF Works, TypeOK
<1>3. w \in Work /\ Then(made[t], f) \in Evidence
  BY <1>2, <1>m, AfterTyped, ThenTyped
<1>4. w = "changed" => ~Verified(x.calls)
  BY <1>1, <1>2, RecordedWork DEF Unverified
<1> HIDE DEF w
<1>5. Only(t)
  BY <1>0, <1>2, <1>m DEF Goes, TypeOK, Only, treeVars
<1>6. /\ exec'[t] = x /\ work'[t] = w /\ made'[t] = Then(made[t], f)
      /\ UNCHANGED <<goal, tries, tree, disk, steps, open, rounds, clock, flags, cache, resumed,
                     known, closure>>
  BY <1>0, <1>2, <1>m DEF TypeOK, treeVars
<1>7. pc'[t] \in {"executed", "audit", "attempt"} /\ (pc'[t] = "attempt" => ~x.stuck)
  BY <1>0 DEF Goes, TypeOK, Judged
<1>8. MaxSteps(t)' = MaxSteps(t) /\ ReservedSteps(t)' = ReservedSteps(t)
  BY <1>6, Capacity
<1>9. Typed(t)'
  <2>1. pc'[t] \in Places
    BY <1>7, PlaceNames DEF Executing
  <2> QED BY <1>0, <1>3, <1>6, <1>8, <2>1 DEF Typed
<1>10. Room(t)' /\ Counts(t)'
  BY <1>0, <1>6, <1>7, <1>8
     DEF Sound, Room, Counts, Left, Starting, Alone, Asking, Delegating, Executing
<1>11. Closing(t)' /\ Guidance(t)' /\ Claims(t)'
  BY <1>1, <1>6, <1>7 DEF Closing, Guidance, Claims, Failing, Resetting, Concluding
<1>12. Records(t)'
  BY <1>4, <1>6, <1>7 DEF Records, Unverified, Starting, Alone, Asking, Delegating
<1> QED BY <1>0, <1>5, <1>9, <1>10, <1>11, <1>12, OneTurn DEF Sound

LEMMA AttemptStep ==
    ASSUME IInv, NEW t \in Turns, NEW f \in Evidence, NEW advanced \in BOOLEAN,
           Attempt(t, f, advanced)
    PROVE  IInv'
<1>0. TypeOK /\ Sound(t) /\ Typed(t)
  BY Ready
<1> DEFINE x == exec[t]
           calls == Then(x.calls, f)
           left == IF f.changed THEN Window ELSE x.left - 1
           invalid == x.invalid \/ f.changed
           stalled == IF advanced THEN 0 ELSE x.stalled + 1
           stuck == ~advanced /\ (x.calls.calls \/ x.stalled + 1 >= MaxStalled)
           y == [x EXCEPT !.calls = calls, !.tried = TRUE, !.left = left, !.invalid = invalid,
                          !.stalled = stalled, !.stuck = stuck]
           audits == /\ Verified(y.calls) /\ goal[t].audit
                     /\ y.invalid \/ y.audit = "none"
                     /\ clock[t] # "out"
<1>1. exec' = [exec EXCEPT ![t] = y]
  BY DEF Attempt
<1>2. Goes(t, IF audits THEN "audit" ELSE Judged(t, y))
  BY DEF Attempt
<1>3. /\ pc[t] = "attempt" /\ LoopsOn(t) /\ Works(t, f)
      /\ UNCHANGED <<fsm, goal, tries, treeVars, rounds, clock, flags, cache, resumed, known,
                     closure, shared>>
  BY DEF Attempt
<1>4. x \in Execution /\ x.left > 0 /\ x.stalled < MaxStalled
  BY <1>0, <1>3 DEF Typed, LoopsOn, Sound, Counts
<1>5. calls \in Evidence
  BY <1>4, ExecutionFields, ThenTyped
<1>6. left \in 0..Window /\ stalled \in 0..MaxStalled /\ invalid \in BOOLEAN /\ stuck \in BOOLEAN
  BY <1>4, ExecutionFields, EvidenceFields, RootTurnAssumption
<1>7. stuck \/ stalled < MaxStalled
  BY <1>4, ExecutionFields, RootTurnAssumption
<1>8. Goes(t, Judged(t, y)) \/ Goes(t, "audit")
  BY <1>2
<1> HIDE DEF x, calls, left, invalid, stalled, stuck
<1>9. y \in Execution /\ y.calls = calls /\ y.stuck = stuck /\ y.stalled = stalled
  BY <1>4, <1>5, <1>6 DEF Execution
<1> HIDE DEF y
<1> QED BY <1>1, <1>3, <1>7, <1>8, <1>9, CallsAreRecorded DEF calls, x

LEMMA AuditStep ==
    ASSUME IInv, NEW t \in Turns, NEW f \in Evidence, NEW verdict \in {"passed", "defect", "unproved"},
           Audit(t, f, verdict)
    PROVE  IInv'
<1>0. TypeOK /\ Sound(t) /\ Typed(t)
  BY Ready
<1> DEFINE calls == Then(exec[t].calls, f)
           x == [exec[t] EXCEPT !.calls = calls, !.audit = verdict, !.invalid = FALSE]
<1>1. exec' = [exec EXCEPT ![t] = x] /\ Goes(t, Judged(t, x))
  BY DEF Audit
<1>2. /\ pc[t] = "audit" /\ Works(t, f)
      /\ UNCHANGED <<fsm, goal, tries, treeVars, rounds, clock, flags, cache, resumed, known,
                     closure, shared>>
  BY DEF Audit
<1>3. exec[t] \in Execution /\ (exec[t].stuck \/ exec[t].stalled < MaxStalled)
  BY <1>0, <1>2 DEF Typed, Sound, Counts
<1>4. calls \in Evidence
  BY <1>3, ExecutionFields, ThenTyped
<1> HIDE DEF calls
<1>5. x \in Execution /\ x.calls = calls /\ x.stuck = exec[t].stuck /\ x.stalled = exec[t].stalled
  BY <1>3, <1>4 DEF Execution
<1> HIDE DEF x
<1> QED BY <1>1, <1>2, <1>3, <1>5, CallsAreRecorded DEF calls

LEMMA ExecutedStep == ASSUME IInv, NEW t \in Turns, Executed(t) PROVE IInv'
<1>0. TypeOK /\ Sound(t) /\ Typed(t) /\ fsm \in States /\ shared \in [Turns -> BOOLEAN]
  BY Ready
<1>1. pc[t] = "executed" /\ exec[t].calls \in Evidence
  BY <1>0, ExecutionFields DEF Executed, Typed
<1>2. /\ Unverified(t, exec[t].calls) /\ tree[t] = "running"
      /\ flags[t].delegated => Left(t) >= 1
  BY <1>0, <1>1 DEF Sound, Records, Closing, Room, Executing
<1> DEFINE x == IF flags[t].delegated THEN NoExec ELSE [NoExec EXCEPT !.calls = exec[t].calls]
<1>3. exec' = [exec EXCEPT ![t] = x]
  BY DEF Executed
<1>4. x \in Execution
  <2> DEFINE y == [NoExec EXCEPT !.calls = exec[t].calls]
  <2>1. y \in Execution
    BY <1>1, FreshRecords DEF Execution
  <2> HIDE DEF y
  <2> QED BY <2>1, FreshRecords DEF y
<1> HIDE DEF x
<1>5. Only(t) /\ fsm' = fsm /\ shared' = shared
  BY <1>0, <1>3 DEF Executed, EndsStep, Snapshot, Goes, TypeOK, Only, treeVars
<1>6. /\ exec'[t] = x /\ open'[t] \subseteq open[t]
      /\ cache'[t] \in {cache[t], Then(cache[t], Then(made[t], NoCalls))}
      /\ made'[t] \in {made[t], NoCalls}
      /\ closure'[t] \in {"closed", "open"} /\ (closure'[t] = "closed" => Verified(exec[t].calls))
      /\ UNCHANGED <<goal, tries, tree, disk, steps, rounds, clock, flags, resumed, known, work>>
  BY <1>0, <1>3 DEF Executed, EndsStep, Snapshot, TypeOK, treeVars
<1>7. pc'[t] = IF flags[t].delegated THEN "startMerge" ELSE "compose"
  BY <1>0 DEF Executed, Goes, TypeOK
<1>8. MaxSteps(t)' = MaxSteps(t) /\ ReservedSteps(t)' = ReservedSteps(t)
  BY <1>6, Capacity
<1>9. Typed(t)'
  <2>1. pc'[t] \in Places
    BY <1>7, PlaceNames DEF Concluding
  <2>2. cache'[t] \in Evidence /\ made'[t] \in Evidence
    BY <1>0, <1>6, ThenTyped, EvidenceFields DEF Typed
  <2> QED BY <1>0, <1>4, <1>6, <1>8, <2>1, <2>2 DEF Typed
<1>10. Room(t)' /\ Counts(t)'
  BY <1>2, <1>6, <1>7, <1>8 DEF Room, Counts, Left, Starting, Alone, Asking, Delegating, Executing
<1>11. Closing(t)' /\ Guidance(t)' /\ Records(t)'
  BY <1>2, <1>6, <1>7 DEF Closing, Guidance, Records, Starting, Alone, Asking, Delegating, Executing,
                          Failing, Resetting, Concluding
<1>12. Claims(t)'
  BY <1>2, <1>6, <1>7 DEF Claims, Unverified, Concluding
<1> QED BY <1>0, <1>5, <1>9, <1>10, <1>11, <1>12, OneTurn DEF Sound

-----------------------------------------------------------------------------
(* The answer. *)

\* From place to place among those where the turn concludes.
LEMMA ConcludingIsSound ==
    ASSUME IInv, NEW t \in Turns, Only(t), UNCHANGED <<fsm, shared>>,
           pc[t] \in Concluding \ {"update", "done"},
           pc'[t] \in Concluding \ {"startMerge", "update", "done"},
           UNCHANGED <<goal, tries, tree, disk, rounds, clock, flags, resumed, known, closure, work>>,
           cache'[t] \in Evidence, made'[t] \in Evidence, exec'[t] \in Execution,
           steps'[t] \in 0..MaxSteps(t), open'[t] \subseteq 1..steps'[t]
    PROVE  IInv'
<1>0. TypeOK /\ Sound(t) /\ Typed(t) /\ fsm \in States /\ shared \in [Turns -> BOOLEAN]
  BY Ready
<1>1. MaxSteps(t)' = MaxSteps(t) /\ ReservedSteps(t)' = ReservedSteps(t)
  BY Capacity
<1>2. Typed(t)'
  BY <1>0, <1>1, PlaceNames DEF Typed
<1>3. Room(t)' /\ Counts(t)'
  BY DEF Room, Counts, Starting, Alone, Asking, Delegating, Executing, Concluding
<1>4. Closing(t)' /\ Guidance(t)' /\ Records(t)'
  BY <1>0 DEF Sound, Closing, Guidance, Records, Starting, Alone, Asking, Delegating, Executing,
              Failing, Resetting, Concluding
<1>5. Claims(t)'
  BY <1>0 DEF Sound, Claims, Concluding
<1> QED BY <1>0, <1>2, <1>3, <1>4, <1>5, OneTurn DEF Sound

LEMMA EndStepStep == ASSUME IInv, NEW t \in Turns, EndStep(t) PROVE IInv'
<1>0. TypeOK /\ Typed(t)
  BY Ready
<1>1. Only(t)
  BY <1>0 DEF EndStep, EndsStep, Snapshot, Goes, TypeOK, Only
<1>2. /\ pc[t] = "endStep" /\ pc'[t] = "accept" /\ exec'[t] = NoExec
      /\ cache'[t] = Then(cache[t], Then(made[t], NoCalls)) /\ made'[t] = NoCalls
      /\ open'[t] \subseteq open[t]
      /\ UNCHANGED <<fsm, shared, goal, tries, tree, disk, steps, rounds, clock, flags, resumed,
                     known, closure, work>>
  BY <1>0 DEF EndStep, EndsStep, Snapshot, Goes, TypeOK
<1>3. cache'[t] \in Evidence /\ made'[t] \in Evidence /\ exec'[t] \in Execution
  BY <1>0, <1>2, ThenTyped, EvidenceFields, FreshRecords DEF Typed
<1>4. steps'[t] \in 0..MaxSteps(t) /\ open'[t] \subseteq 1..steps'[t]
  BY <1>0, <1>2 DEF Typed
<1> QED BY <1>1, <1>2, <1>3, <1>4, ConcludingIsSound DEF Concluding

LEMMA RepairStep ==
    ASSUME IInv, NEW t \in Turns, NEW needed \in BOOLEAN, NEW stranded \in BOOLEAN,
           Repair(t, needed, stranded)
    PROVE  IInv'
<1>0. TypeOK /\ Typed(t)
  BY Ready
<1> DEFINE tracked == needed /\ steps[t] < MaxSteps(t)
           s == IF tracked THEN steps[t] + 1 ELSE steps[t]
           o == IF stranded THEN open[t] \cup {s} ELSE open[t]
<1>1. stranded => tracked
  BY DEF Repair
<1>2. steps' = [steps EXCEPT ![t] = s]
  BY DEF Repair
<1>3. steps[t] \in Nat /\ MaxSteps(t) \in Nat
  BY <1>0, Capacity DEF Typed
<1>4. s \in 0..MaxSteps(t) /\ s >= steps[t] /\ (stranded => s = steps[t] + 1)
  BY <1>0, <1>1, <1>3 DEF Typed
<1> HIDE DEF tracked, s
<1>5. steps'[t] = s
  BY <1>0, <1>2 DEF TypeOK
<1>6. open' = [open EXCEPT ![t] = o]
  BY <1>5 DEF Repair
<1>7. o \subseteq 1..s
  BY <1>0, <1>3, <1>4 DEF Typed
<1> HIDE DEF o
<1>8. Only(t)
  BY <1>0, <1>2, <1>6 DEF Repair, Goes, TypeOK, Only, workVars
<1>9. /\ open'[t] = o /\ pc[t] \in {"accept", "contract"} /\ pc'[t] \in {"contract", "respond"}
      /\ UNCHANGED <<fsm, shared, goal, tries, tree, disk, rounds, clock, flags, cache, made,
                     resumed, known, exec, closure, work>>
  BY <1>0, <1>6 DEF Repair, Goes, TypeOK, workVars
<1>10. cache'[t] \in Evidence /\ made'[t] \in Evidence /\ exec'[t] \in Execution
  BY <1>0, <1>9 DEF Typed
<1> QED BY <1>4, <1>5, <1>7, <1>8, <1>9, <1>10, ConcludingIsSound DEF Concluding

LEMMA FinishStep == ASSUME IInv, NEW t \in Turns, Finish(t) PROVE IInv'
<1>0. TypeOK /\ Sound(t) /\ Typed(t) /\ fsm \in States /\ shared \in [Turns -> BOOLEAN]
  BY Ready
<1>1. pc[t] = "finish" /\ tree[t] = "running"
  BY <1>0 DEF Finish, Sound, Closing, Concluding
<1>2. tree' = [tree EXCEPT ![t] = "completed"] /\ tree'[t] = "completed"
  BY <1>0, <1>1 DEF Finish, TypeOK
<1>3. Only(t) /\ fsm' = fsm /\ shared' = shared
  BY <1>0, <1>2 DEF Finish, Goes, TypeOK, Only, workVars
<1>4. /\ \/ disk'[t] = "completed" /\ pc'[t] = "update"
         \/ disk'[t] = "unwritten" /\ pc'[t] = "failing"
      /\ UNCHANGED <<goal, tries, steps, open, rounds, clock, flags, cache, made, resumed, known,
                     exec, closure, work>>
  BY <1>0, <1>2 DEF Finish, Goes, TypeOK, workVars
<1>5. MaxSteps(t)' = MaxSteps(t) /\ ReservedSteps(t)' = ReservedSteps(t)
  BY <1>4, Capacity
<1>6. Typed(t)'
  <2>1. pc'[t] \in Places
    BY <1>4, PlaceNames DEF Concluding, Failing
  <2> QED BY <1>0, <1>2, <1>4, <1>5, <2>1 DEF Typed, Trees
<1>7. Room(t)' /\ Counts(t)'
  BY <1>4 DEF Room, Counts, Starting, Alone, Asking, Delegating, Executing
<1>8. Closing(t)' /\ Guidance(t)' /\ Records(t)'
  BY <1>2, <1>4 DEF Closing, Guidance, Records, Starting, Alone, Asking, Delegating, Executing,
                    Failing, Resetting, Concluding
<1>9. Claims(t)'
  BY <1>0, <1>1, <1>4 DEF Sound, Claims, Concluding
<1> QED BY <1>0, <1>3, <1>6, <1>7, <1>8, <1>9, OneTurn DEF Sound

-----------------------------------------------------------------------------
(* Failures, retries and time. *)

\* A call in flight that is not failing has its tree running, or finished and written.
LEMMA InFlightTrees ==
    ASSUME NEW t \in Turns, Sound(t), Typed(t), InFlight(t),
           pc[t] \notin Failing \cup Resetting \cup {"retrying"}
    PROVE  tree[t] = "running" \/ (tree[t] = "completed" /\ disk[t] = "completed")
<1>1. pc[t] \in Starting \cup Alone \cup Asking \cup Delegating \cup Executing
                \cup {"startExec", "startAsk", "clarify"} \cup Concluding
  BY DEF Typed, InFlight, Places, Returned, Working, Moves, Starts, Starting, Alone, Asking,
         Delegating, Executing, Concluding, Failing, Resetting
<1> QED BY <1>1 DEF Sound, Closing

LEMMA FailStep ==
    ASSUME IInv, NEW t \in Turns, NEW transient \in BOOLEAN, Fail(t, transient)
    PROVE  IInv'
<1>0. TypeOK /\ Sound(t) /\ Typed(t) /\ fsm \in States /\ shared \in [Turns -> BOOLEAN]
  BY Ready
<1> DEFINE w == IF work[t] = "changed" /\ ~Pending(t) THEN "unseen" ELSE work[t]
<1>1. work' = [work EXCEPT ![t] = w]
  BY DEF Fail
<1>2. w \in Work /\ (w = "changed" => ~Verified(cache[t]))
  BY <1>0, EvidenceFields DEF Typed, Work, Pending, After, Verified
<1> HIDE DEF w
<1>3. Only(t) /\ fsm' = fsm /\ shared' = shared
  BY <1>0, <1>1 DEF Fail, Forgets, Goes, TypeOK, Only, treeVars
<1>4. /\ pc'[t] \in Failing /\ rounds'[t] = 0 /\ clock'[t] = "early" /\ resumed'[t] = NoCalls
      /\ known'[t] = NoCalls /\ flags'[t] = Fresh /\ exec'[t] = NoExec /\ closure'[t] = "none"
      /\ work'[t] = w /\ made'[t] = NoCalls
      /\ UNCHANGED <<goal, tries, tree, disk, steps, open, cache>>
  BY <1>0, <1>1 DEF Fail, Forgets, Goes, TypeOK, treeVars, Failing
<1>5. tree[t] = "running" \/ (tree[t] = "completed" /\ disk[t] = "completed")
  BY <1>0, InFlightTrees DEF Fail, Failing, Resetting
<1>6. MaxSteps(t)' = MaxSteps(t) /\ ReservedSteps(t)' = ReservedSteps(t)
  BY <1>4, Capacity
<1>7. Typed(t)'
  <2>1. pc'[t] \in Places
    BY <1>4, PlaceNames
  <2>2. rounds'[t] \in 0..MaxRounds
    BY <1>4, RootTurnAssumption
  <2> QED BY <1>0, <1>2, <1>4, <1>6, <2>1, <2>2, FreshRecords, EvidenceFields DEF Typed
<1>8. Room(t)' /\ Counts(t)'
  BY <1>4 DEF Room, Counts, Starting, Alone, Asking, Delegating, Executing, Failing
<1>9. Closing(t)'
  BY <1>4, <1>5 DEF Closing, Starting, Alone, Asking, Delegating, Executing, Failing, Resetting,
                    Concluding
<1>10. Records(t)' /\ Guidance(t)' /\ Claims(t)'
  BY <1>2, <1>4 DEF Records, Unverified, Guidance, Claims, Starting, Alone, Asking, Delegating,
                    Concluding, Failing
<1> QED BY <1>0, <1>3, <1>7, <1>8, <1>9, <1>10, OneTurn DEF Sound

LEMMA RecoverStep == ASSUME IInv, NEW t \in Turns, Recover(t) PROVE IInv'
<1>0. TypeOK /\ Sound(t) /\ Typed(t) /\ fsm \in States /\ shared \in [Turns -> BOOLEAN]
  BY Ready
<1>1. Only(t) /\ fsm' = fsm /\ shared' = shared
  BY <1>0 DEF Recover, Goes, TypeOK, Only, workVars
<1>2. /\ pc[t] \in Failing /\ open'[t] \subseteq open[t]
      /\ IF tree[t] = "running" THEN tree'[t] = "failed" /\ disk'[t] \in {"failed", "unwritten"}
         ELSE tree'[t] = tree[t] /\ disk'[t] = disk[t]
      /\ pc'[t] = IF pc[t] = "failing" THEN "resetting" ELSE "resettingTransiently"
      /\ UNCHANGED <<goal, tries, steps, rounds, clock, flags, cache, made, resumed, known, exec,
                     closure, work>>
  BY <1>0 DEF Recover, Goes, TypeOK, workVars, Failing
<1>3. MaxSteps(t)' = MaxSteps(t) /\ ReservedSteps(t)' = ReservedSteps(t)
  BY <1>2, Capacity
<1>4. /\ tree'[t] \in {"completed", "failed"} /\ disk'[t] \in {tree'[t], "unwritten"}
      /\ tree'[t] \in Trees /\ disk'[t] \in Trees \cup {"unwritten"}
  BY <1>0, <1>2 DEF Sound, Closing, Trees
<1>5. Typed(t)'
  <2>1. pc'[t] \in Places
    BY <1>2, PlaceNames DEF Resetting
  <2> QED BY <1>0, <1>2, <1>3, <1>4, <2>1 DEF Typed
<1>6. Room(t)' /\ Counts(t)'
  BY <1>2 DEF Room, Counts, Starting, Alone, Asking, Delegating, Executing
<1>7. Closing(t)'
  BY <1>2, <1>4 DEF Closing, Starting, Alone, Asking, Delegating, Executing, Failing, Concluding
<1>8. Records(t)' /\ Guidance(t)' /\ Claims(t)'
  BY <1>0, <1>2 DEF Sound, Records, Unverified, Guidance, Claims, Starting, Alone, Asking,
                    Delegating, Concluding, Failing
<1> QED BY <1>0, <1>1, <1>5, <1>6, <1>7, <1>8, OneTurn DEF Sound

LEMMA ResetStep == ASSUME IInv, NEW t \in Turns, Reset(t) PROVE IInv'
<1>0. TypeOK /\ Sound(t) /\ Typed(t) /\ fsm \in States /\ shared \in [Turns -> BOOLEAN]
  BY Ready
<1>1. Only(t) /\ shared' = shared
  BY <1>0 DEF Reset, Goes, TypeOK, Only, workVars, treeVars
<1>2. fsm' \in States
  BY DEF Reset, States, Edges
<1>3. /\ pc[t] \in Resetting /\ pc'[t] \in {"retrying", "failed"}
      /\ pc'[t] = "retrying" => pc[t] = "resettingTransiently" /\ tries[t] < MaxAttempts
      /\ UNCHANGED <<goal, tries, tree, disk, steps, open, rounds, clock, flags, cache, made,
                     resumed, known, exec, closure, work>>
  BY <1>0 DEF Reset, Goes, TypeOK, workVars, treeVars, Resetting
<1>4. MaxSteps(t)' = MaxSteps(t) /\ ReservedSteps(t)' = ReservedSteps(t)
  BY <1>3, Capacity
<1>5. Typed(t)'
  BY <1>0, <1>3, <1>4, PlaceNames DEF Typed
<1>6. Room(t)' /\ Counts(t)'
  BY <1>3 DEF Room, Counts, Starting, Alone, Asking, Delegating, Executing
<1>7. Closing(t)'
  BY <1>0, <1>3 DEF Sound, Closing, Starting, Alone, Asking, Delegating, Executing, Failing,
                    Resetting, Concluding
<1>8. Records(t)' /\ Guidance(t)' /\ Claims(t)'
  BY <1>0, <1>3 DEF Sound, Records, Unverified, Guidance, Claims, Starting, Alone, Asking,
                    Delegating, Concluding
<1> QED BY <1>0, <1>1, <1>2, <1>5, <1>6, <1>7, <1>8, OneTurn DEF Sound

LEMMA TickStep == ASSUME IInv, NEW t \in Turns, Tick(t) PROVE IInv'
<1>0. TypeOK /\ Sound(t) /\ Typed(t) /\ fsm \in States /\ shared \in [Turns -> BOOLEAN]
  BY Ready
<1>1. Only(t) /\ fsm' = fsm /\ shared' = shared
  BY <1>0 DEF Tick, TypeOK, Only, workVars, treeVars
<1>2. /\ clock'[t] \in {"early", "reserve", "out"}
      /\ UNCHANGED <<pc, goal, tries, tree, disk, steps, open, rounds, flags, cache, made,
                     resumed, known, exec, closure, work>>
  BY <1>0 DEF Tick, TypeOK, workVars, treeVars
<1>3. MaxSteps(t)' = MaxSteps(t) /\ ReservedSteps(t)' = ReservedSteps(t)
  BY <1>2, Capacity
<1>4. Typed(t)'
  BY <1>0, <1>2, <1>3 DEF Typed
<1>5. Room(t)' /\ Counts(t)'
  BY <1>0, <1>2, <1>3 DEF Sound, Room, Counts, Left
<1>6. Closing(t)' /\ Records(t)' /\ Guidance(t)' /\ Claims(t)'
  BY <1>0, <1>2 DEF Sound, Closing, Records, Unverified, Guidance, Claims
<1> QED BY <1>0, <1>1, <1>4, <1>5, <1>6, OneTurn DEF Sound

-----------------------------------------------------------------------------
(* The specification. *)

LEMMA InitSound == Init => IInv
<1> SUFFICES ASSUME Init PROVE IInv
  OBVIOUS
<1>1. /\ goal \in [Turns -> Goal] /\ cache \in [Turns -> Evidence]
      /\ fsm \in {e[1] : e \in Edges} /\ "uncalled" \in Places
  BY PlaceNames DEF Init, Edges
<1>2. \A t \in Turns : /\ work[t] = After("clean", cache[t], TRUE)
                       /\ work[t] \in Work /\ (work[t] = "changed" => ~Verified(cache[t]))
  <2> TAKE t \in Turns
  <2>1. work[t] = After("clean", cache[t], TRUE) /\ cache[t] \in Evidence
    BY <1>1 DEF Init
  <2> QED BY <2>1, EvidenceFields DEF After, Verified, Work
<1>3. work \in [Turns -> Work]
  BY <1>2 DEF Init
<1>4. 0 \in 0..MaxAttempts /\ 0 \in 0..MaxRounds
  BY RootTurnAssumption
<1>5. \A t \in Turns : MaxSteps(t) \in Nat
  BY Capacity
<1>6. \A t \in Turns : /\ pc[t] = "uncalled" /\ tries[t] = 0 /\ steps[t] = 0 /\ open[t] = {}
                       /\ resumed[t] = NoCalls /\ known[t] = NoCalls /\ flags[t] = Fresh
                       /\ exec[t] = NoExec
  BY DEF Init
<1>7. TypeOK
  <2>1. /\ pc \in [Turns -> Places] /\ tries \in [Turns -> 0..MaxAttempts]
        /\ tree \in [Turns -> {"none", "running", "completed", "failed"}]
        /\ disk \in [Turns -> {"none", "running", "completed", "failed", "unwritten"}]
        /\ rounds \in [Turns -> 0..MaxRounds]
    BY <1>1, <1>4 DEF Init
  <2>2. /\ steps \in [Turns -> Nat] /\ open \in [Turns -> SUBSET Nat]
        /\ clock \in [Turns -> {"early", "reserve", "out"}]
        /\ closure \in [Turns -> {"none", "closed", "open"}] /\ shared \in [Turns -> BOOLEAN]
    BY DEF Init
  <2>3. /\ made \in [Turns -> Evidence]
        /\ resumed \in [Turns -> Evidence] /\ known \in [Turns -> Evidence]
        /\ flags \in [Turns -> Flags] /\ exec \in [Turns -> Execution]
    BY FreshRecords, EvidenceFields DEF Init
  <2>4. \A t \in Turns : steps[t] \in 0..MaxSteps(t) /\ open[t] \subseteq 1..steps[t]
    BY <1>5, <1>6
  <2> QED BY <1>1, <1>3, <2>1, <2>2, <2>3, <2>4 DEF TypeOK, Work
<1>8. ASSUME NEW t \in Turns PROVE Sound(t)
  <2>1. Room(t) /\ Counts(t)
    BY <1>6 DEF Room, Counts, Starting, Alone, Asking, Delegating, Executing
  <2>2. Closing(t)
    BY <1>6 DEF Closing, Starting, Alone, Asking, Delegating, Executing, Failing, Resetting,
                Concluding
  <2>3. Records(t) /\ Guidance(t) /\ Claims(t)
    BY <1>2, <1>6 DEF Records, Unverified, Guidance, Claims, Starting, Alone, Asking, Delegating,
                      Concluding
  <2> QED BY <2>1, <2>2, <2>3 DEF Sound
<1> QED BY <1>7, <1>8 DEF IInv

LEMMA ProceedsStep == ASSUME IInv, NEW t \in Turns, Proceeds(t) PROVE IInv'
<1>1. CASE Begin(t) \/ Transition(t) \/ Decide(t) \/ StartStep(t) \/ Answer(t)
  BY <1>1, BeginStep, TransitionStep, DecideStep, StartStepStep, PassingSteps
<1>2. CASE Delegates(t)
  <2>1. Reports(t) \subseteq Evidence
    BY EvidenceFields DEF Reports
  <2>2. CASE \E e, lost \in Reports(t) : \E m : \E evolved \in BOOLEAN :
                RoundEnds(t, e, lost, m, evolved)
    BY <2>1, <2>2, RoundEndsStep
  <2>3. CASE \E e, lost \in Reports(t) : \E m : \E none \in BOOLEAN :
                RoundFails(t, e, lost, m, none)
    BY <2>1, <2>3, RoundFailsStep
  <2>4. CASE (\E stalled \in BOOLEAN : EndRound(t, stalled)) \/ Continue(t) \/ Close(t)
    BY <2>4, EndRoundStep, ContinueStep, CloseStep
  <2> QED BY <1>2, <2>2, <2>3, <2>4 DEF Delegates
<1>3. CASE Executes(t)
  BY <1>3, ExecuteStep, PassingSteps, AttemptStep, AuditStep, ExecutedStep DEF Executes
<1>4. CASE Concludes(t)
  BY <1>4, PassingSteps, EndStepStep, RepairStep, FinishStep, RecoverStep, ResetStep DEF Concludes
<1> QED BY <1>1, <1>2, <1>3, <1>4 DEF Proceeds

LEMMA NextSound == IInv /\ [Next]_vars => IInv'
<1> SUFFICES ASSUME IInv, [Next]_vars PROVE IInv'
  OBVIOUS
<1>1. CASE \E t \in Turns : Proceeds(t)
  BY <1>1, ProceedsStep
<1>2. CASE \E t \in Turns : \E transient \in BOOLEAN : Fail(t, transient)
  BY <1>2, FailStep
<1>3. CASE \E t \in Turns : Tick(t)
  BY <1>3, TickStep
<1>4. CASE UNCHANGED vars
  <2>1. UNCHANGED <<fsm, pc, goal, tries, tree, steps, open, disk, rounds, clock, flags, cache,
                    made, resumed, known, exec, closure, work, shared>>
    BY <1>4 DEF vars, treeVars, workVars
  <2>2. TypeOK'
    BY <2>1 DEF IInv, TypeOK, MaxSteps, ReservedSteps
  <2>3. \A t \in Turns : Sound(t)'
    BY <2>1 DEF IInv, Sound, Room, Counts, Closing, Records, Guidance, Claims, Unverified, Left,
                MaxSteps, ReservedSteps
  <2> QED BY <2>2, <2>3 DEF IInv
<1> QED BY <1>1, <1>2, <1>3, <1>4 DEF Next, Rest

LEMMA Invariance == Spec => []IInv
BY InitSound, NextSound, PTL DEF Spec

\* Every variable of a turn keeps its type: no tree has more steps than its
\* capacity, and no counter of rounds, attempts or retries passes its limit.
THEOREM TypeCorrect == Spec => []TypeOK
<1>1. IInv => TypeOK
  BY DEF IInv
<1> QED BY <1>1, Invariance, PTL

\* A workspace task reported as done has had a verification pass at or after the
\* last change on record, whoever made it and however rounds, executions, audits,
\* failures and retries followed each other.
THEOREM ClaimsVerified == Spec => []ClaimsAreVerified
<1>1. IInv => ClaimsAreVerified
  BY DEF IInv, Sound, Claims, ClaimsAreVerified, Claimed, Concluding
<1> QED BY <1>1, Invariance, PTL

\* A step that must follow finds room in the execution tree.
THEOREM RoomIsLeft == Spec => []RoomToFinish
<1>1. IInv => RoomToFinish
  <2> SUFFICES ASSUME IInv, NEW t \in Turns, pc[t] \in DOMAIN Starts PROVE steps[t] < MaxSteps(t)
    BY DEF RoomToFinish
  <2>1. Typed(t) /\ Room(t)
    BY Ready DEF Sound
  <2>2. MaxSteps(t) \in Nat /\ ReservedSteps(t) \in 1..2
    BY Capacity
  <2> QED BY <2>1, <2>2 DEF Typed, Room, Left, Starts, Asking
<1> QED BY <1>1, Invariance, PTL

\* A call that returns or is about to be retried leaves its tree closed.
THEOREM TreesSettle == Spec => []SettledTrees
<1>1. IInv => SettledTrees
  BY DEF IInv, Sound, Closing, SettledTrees, Returned, Resetting
<1> QED BY <1>1, Invariance, PTL

-----------------------------------------------------------------------------
(* The plan a turn carries: only until its step has started. *)

Planned == {"startAlone", "startAsk", "startRound"}

Stages(t) ==
    /\ pc[t] \notin Planned => ~flags[t].plan.open
    /\ goal[t].long /\ goal[t].mutation =>
        /\ pc[t] \in {"startAlone", "startAsk"} /\ flags[t].plan.open =>
               resumed[t].calls \/ flags[t].plan.answer
        /\ pc[t] = "startRound" /\ flags[t].plan.wide /\ TeamFirst => flags[t].plan.staged

\* A step of turn t leaves the others' plans alone.
Alike(t) ==
    /\ goal' = goal
    /\ \A u \in Turns \ {t} : pc'[u] = pc[u] /\ flags'[u] = flags[u] /\ resumed'[u] = resumed[u]

LEMMA StagesOfOne ==
    ASSUME \A u \in Turns : Stages(u), NEW t \in Turns, Alike(t), Stages(t)'
    PROVE  \A u \in Turns : Stages(u)'
<1> SUFFICES ASSUME NEW u \in Turns, u # t PROVE Stages(u)'
  OBVIOUS
<1> QED BY DEF Alike, Stages

\* Where there is no open plan and no round is to start.
LEMMA Unplanned ==
    ASSUME NEW t \in Turns, ~flags'[t].plan.open, pc'[t] # "startRound"
    PROVE  Stages(t)'
BY DEF Stages

LEMMA NoPlanIsOpen == ~NoPlan.open /\ ~Fresh.plan.open
  /\ \A a, b : ~[NoPlan EXCEPT !.final = a, !.guided = b].open
<1> DEFINE staged == Staged(Solve)
           guided == Solve.origin = "guided" /\ Len(Solve.agents) > 1
           answer == Solve.origin = "answer"
           wide == 0 >= MaxMembers
           place == 0 > 0
<1>0. ~place
  OBVIOUS
<1>1. NoPlan = [action |-> Solve.action, staged |-> staged, final |-> Solve.final,
                guided |-> guided, answer |-> answer, wide |-> wide, open |-> place]
  BY DEF NoPlan, Brief
<1> HIDE DEF staged, guided, answer, wide, place
<1>2. ~NoPlan.open
  BY <1>0, <1>1
<1>3. ASSUME NEW a, NEW b PROVE ~[NoPlan EXCEPT !.final = a, !.guided = b].open
  BY <1>0, <1>1
<1>4. Fresh.plan = NoPlan
  BY DEF Fresh
<1> QED BY <1>2, <1>3, <1>4

\* The steps of a turn that is somewhere else, with the plan it has.
LEMMA Onwards ==
    ASSUME TypeOK, \A u \in Turns : Stages(u), NEW t \in Turns, NEW place,
           pc[t] \notin Planned, place # "startRound",
           pc' = [pc EXCEPT ![t] = place], UNCHANGED <<goal, flags, resumed>>
    PROVE  \A u \in Turns : Stages(u)'
<1>1. pc'[t] = place /\ Alike(t)
  BY DEF TypeOK, Alike
<1>2. ~flags'[t].plan.open
  BY DEF Stages
<1> QED BY <1>1, <1>2, Unplanned, StagesOfOne

LEMMA OnwardSteps ==
    ASSUME TypeOK, \A u \in Turns : Stages(u), NEW t \in Turns,
           \/ Transition(t) \/ Answer(t) \/ Execute(t) \/ LeaveLoop(t) \/ Executed(t)
           \/ Compose(t) \/ EndStep(t) \/ Deliver(t) \/ Finish(t) \/ Return(t)
           \/ Recover(t) \/ Reset(t) \/ Tick(t)
           \/ \E stalled : EndRound(t, stalled)
           \/ \E f, advanced : Attempt(t, f, advanced)
           \/ \E f, verdict : Audit(t, f, verdict)
           \/ \E needed, stranded : Repair(t, needed, stranded)
    PROVE  \A u \in Turns : Stages(u)'
<1>1. CASE Transition(t)
  <2>1. pc[t] \notin Planned
    BY <1>1 DEF Transition, Moves, Planned
  <2>2. Moves[pc[t]][2] # "startRound"
    BY <1>1 DEF Transition, Moves
  <2>3. \E place : place # "startRound" /\ pc' = [pc EXCEPT ![t] = place]
    BY <1>1, <2>2 DEF Transition, Goes
  <2>4. UNCHANGED <<goal, flags, resumed>>
    BY <1>1 DEF Transition, workVars
  <2> QED BY <2>1, <2>3, <2>4, Onwards
<1>2. CASE Answer(t) \/ Execute(t) \/ LeaveLoop(t) \/ Executed(t) \/ Compose(t) \/ EndStep(t)
  <2>1. pc[t] \notin Planned
    BY <1>2 DEF Answer, Execute, LeaveLoop, Executed, Compose, EndStep, Planned
  <2>2. \E place : place # "startRound" /\ pc' = [pc EXCEPT ![t] = place]
    BY <1>2 DEF Answer, Execute, LeaveLoop, Executed, Compose, EndStep, Goes
  <2>3. UNCHANGED <<goal, flags, resumed>>
    BY <1>2 DEF Answer, Execute, LeaveLoop, Executed, Compose, EndStep, workVars
  <2> QED BY <2>1, <2>2, <2>3, Onwards
<1>3. CASE Deliver(t) \/ Finish(t) \/ Return(t) \/ Recover(t) \/ Reset(t)
  <2>1. pc[t] \notin Planned
    BY <1>3 DEF Deliver, Finish, Return, Recover, Reset, Planned
  <2>2. \E place : place # "startRound" /\ pc' = [pc EXCEPT ![t] = place]
    BY <1>3 DEF Deliver, Finish, Return, Recover, Reset, Goes
  <2>3. UNCHANGED <<goal, flags, resumed>>
    BY <1>3 DEF Deliver, Finish, Return, Recover, Reset, workVars
  <2> QED BY <2>1, <2>2, <2>3, Onwards
<1>4. CASE Tick(t)
  <2>1. UNCHANGED <<pc, goal, flags, resumed>>
    BY <1>4 DEF Tick, workVars
  <2> QED BY <2>1 DEF Stages
<1>5. CASE \E stalled : EndRound(t, stalled)
  <2>1. pc[t] \notin Planned
    BY <1>5 DEF EndRound, Planned
  <2>2. \E place : place # "startRound" /\ pc' = [pc EXCEPT ![t] = place]
    BY <1>5 DEF EndRound, Goes
  <2>3. UNCHANGED <<goal, flags, resumed>>
    BY <1>5 DEF EndRound
  <2> QED BY <2>1, <2>2, <2>3, Onwards
<1>6. CASE \E f, advanced : Attempt(t, f, advanced)
  <2>0. PICK f, advanced : Attempt(t, f, advanced)
    BY <1>6
  <2>1. pc[t] \notin Planned
    BY <2>0 DEF Attempt, Planned
  <2>2. \E place : place # "startRound" /\ pc' = [pc EXCEPT ![t] = place]
    BY <2>0 DEF Attempt, Goes, Judged
  <2>3. UNCHANGED <<goal, flags, resumed>>
    BY <2>0 DEF Attempt
  <2> QED BY <2>1, <2>2, <2>3, Onwards
<1>7. CASE \E f, verdict : Audit(t, f, verdict)
  <2>0. PICK f, verdict : Audit(t, f, verdict)
    BY <1>7
  <2>1. pc[t] \notin Planned
    BY <2>0 DEF Audit, Planned
  <2>2. \E place : place # "startRound" /\ pc' = [pc EXCEPT ![t] = place]
    BY <2>0 DEF Audit, Goes, Judged
  <2>3. UNCHANGED <<goal, flags, resumed>>
    BY <2>0 DEF Audit
  <2> QED BY <2>1, <2>2, <2>3, Onwards
<1>8. CASE \E needed, stranded : Repair(t, needed, stranded)
  <2>0. PICK needed, stranded : Repair(t, needed, stranded)
    BY <1>8
  <2>1. pc[t] \notin Planned
    BY <2>0 DEF Repair, Planned
  <2>2. \E place : place # "startRound" /\ pc' = [pc EXCEPT ![t] = place]
    BY <2>0 DEF Repair, Goes
  <2>3. UNCHANGED <<goal, flags, resumed>>
    BY <2>0 DEF Repair, workVars
  <2> QED BY <2>1, <2>2, <2>3, Onwards
<1> QED BY <1>1, <1>2, <1>3, <1>4, <1>5, <1>6, <1>7, <1>8

\* The steps that make or drop a plan.
LEMMA PlanningSteps ==
    ASSUME TypeOK, \A u \in Turns : Stages(u), NEW t \in Turns,
           \/ Begin(t) \/ StartStep(t) \/ Decide(t) \/ Continue(t) \/ Close(t)
           \/ \E e, lost, m, evolved : RoundEnds(t, e, lost, m, evolved)
           \/ \E e, lost, m, none : RoundFails(t, e, lost, m, none)
           \/ \E transient : Fail(t, transient)
    PROVE  \A u \in Turns : Stages(u)'
<1>0. flags[t] \in Flags /\ DOMAIN flags = Turns /\ DOMAIN pc = Turns /\ DOMAIN resumed = Turns
  BY DEF TypeOK
<1>1. CASE Begin(t)
  <2>1. /\ pc' = [pc EXCEPT ![t] = "input"] /\ flags' = [flags EXCEPT ![t] = Fresh]
        /\ resumed' = [resumed EXCEPT ![t] = NoCalls] /\ goal' = goal
    BY <1>1 DEF Begin, Goes, Forgets
  <2>2. Alike(t) /\ pc'[t] = "input" /\ flags'[t] = Fresh
    BY <1>0, <2>1 DEF Alike
  <2> QED BY <2>2, NoPlanIsOpen, Unplanned, StagesOfOne
<1>2. CASE \E transient : Fail(t, transient)
  <2>0. PICK transient : Fail(t, transient)
    BY <1>2
  <2>1. /\ pc' = [pc EXCEPT ![t] = IF transient THEN "failingTransiently" ELSE "failing"]
        /\ flags' = [flags EXCEPT ![t] = Fresh]
        /\ resumed' = [resumed EXCEPT ![t] = NoCalls] /\ goal' = goal
    BY <2>0 DEF Fail, Goes, Forgets
  <2>2. Alike(t) /\ pc'[t] # "startRound" /\ flags'[t] = Fresh
    BY <1>0, <2>1 DEF Alike
  <2> QED BY <2>2, NoPlanIsOpen, Unplanned, StagesOfOne
<1>3. CASE StartStep(t)
  <2> DEFINE q == [NoPlan EXCEPT !.final = flags[t].plan.final, !.guided = flags[t].plan.guided]
  <2>1. ~q.open
    BY NoPlanIsOpen
  <2>2. flags' = [flags EXCEPT ![t] = [@ EXCEPT !.plan = q]]
    BY <1>3 DEF StartStep
  <2>3. \E place : place # "startRound" /\ pc' = [pc EXCEPT ![t] = place]
    <3>1. pc[t] \in DOMAIN Starts /\ Starts[pc[t]] # "startRound"
      BY <1>3 DEF StartStep, Starts
    <3> QED BY <1>3, <3>1 DEF StartStep, Goes
  <2>4. UNCHANGED <<goal, resumed>>
    BY <1>3 DEF StartStep, workVars
  <2> HIDE DEF q
  <2>5. flags'[t].plan = q /\ Alike(t) /\ pc'[t] # "startRound"
    BY <1>0, <2>2, <2>3, <2>4 DEF Alike, Flags
  <2> QED BY <2>1, <2>5, Unplanned, StagesOfOne
<1>4. CASE \E e, lost, m, evolved : RoundEnds(t, e, lost, m, evolved)
  <2>0. PICK e, lost, m, evolved : RoundEnds(t, e, lost, m, evolved)
    BY <1>4
  <2>1. \E last : flags' = [flags EXCEPT ![t] = [@ EXCEPT !.plan = NoPlan, !.last = last]]
    BY <2>0 DEF RoundEnds
  <2>2. pc' = [pc EXCEPT ![t] = "wait"] /\ UNCHANGED <<goal, resumed>>
    BY <2>0 DEF RoundEnds, Goes
  <2>3. flags'[t].plan = NoPlan /\ Alike(t) /\ pc'[t] # "startRound"
    BY <1>0, <2>1, <2>2 DEF Alike, Flags
  <2> QED BY <2>3, NoPlanIsOpen, Unplanned, StagesOfOne
<1>5. CASE \E e, lost, m, none : RoundFails(t, e, lost, m, none)
  <2>0. PICK e, lost, m, none : RoundFails(t, e, lost, m, none)
    BY <1>5
  <2>1. flags' = [flags EXCEPT ![t] = [@ EXCEPT !.blocked = none, !.plan = NoPlan]]
    BY <2>0 DEF RoundFails
  <2>2. pc' = [pc EXCEPT ![t] = "giveUp"] /\ UNCHANGED <<goal, resumed>>
    BY <2>0 DEF RoundFails, Goes
  <2>3. flags'[t].plan = NoPlan /\ Alike(t) /\ pc'[t] # "startRound"
    BY <1>0, <2>1, <2>2 DEF Alike, Flags
  <2> QED BY <2>3, NoPlanIsOpen, Unplanned, StagesOfOne
<1>6. CASE Close(t)
  <2>1. flags' = [flags EXCEPT ![t] = [@ EXCEPT !.last = "plain", !.blocked = FALSE]]
    BY <1>6 DEF Close
  <2>2. \E place : place # "startRound" /\ pc' = [pc EXCEPT ![t] = place]
    BY <1>6 DEF Close, Goes
  <2>3. UNCHANGED <<goal, resumed>> /\ pc[t] \notin Planned
    BY <1>6 DEF Close, Planned
  <2>4. flags'[t].plan = flags[t].plan /\ Alike(t) /\ pc'[t] # "startRound"
    BY <1>0, <2>1, <2>2, <2>3 DEF Alike, Flags
  <2>5. ~flags[t].plan.open
    BY <2>3 DEF Stages
  <2> QED BY <2>4, <2>5, Unplanned, StagesOfOne
<1>7. CASE Decide(t)
  <2>1. PICK d \in FirstBriefs :
          /\ d.long = goal[t].long /\ d.mutation = goal[t].mutation
          /\ d.resume # "none" => cache[t].calls
          /\ resumed' = [resumed EXCEPT ![t] = IF d.resume = "none" THEN @ ELSE cache[t]]
          /\ Goes(t, CASE d.brief.action = "solve" -> "startAlone"
                       [] d.brief.action = "spawn" -> "startRound"
                       [] d.brief.action = "ask" -> "startAsk")
          /\ flags' = [flags EXCEPT ![t] =
                [@ EXCEPT !.plan = d.brief,
                          !.delegated = d.brief.action = "spawn",
                          !.ask = IF d.brief.action = "ask" THEN "first" ELSE flags[t].ask]]
    BY <1>7 DEF Decide, Restored, Resumable
  <2> DEFINE b == d.brief
             delegated == b.action = "spawn"
             ask == IF b.action = "ask" THEN "first" ELSE flags[t].ask
             place == CASE b.action = "solve" -> "startAlone"
                        [] b.action = "spawn" -> "startRound"
                        [] b.action = "ask" -> "startAsk"
  <2>2. b \in Plan
    BY <2>1, BriefsTyped
  <2>3. b.action \in {"solve", "spawn", "ask"}
    BY <2>2 DEF Plan
  <2>4. place \in Planned /\ (place = "startRound" <=> b.action = "spawn")
    BY <2>3 DEF Planned
  <2>5. /\ flags' = [flags EXCEPT ![t] =
              [@ EXCEPT !.plan = b, !.delegated = delegated, !.ask = ask]]
        /\ pc' = [pc EXCEPT ![t] = place]
        /\ resumed' = [resumed EXCEPT ![t] = IF d.resume = "none" THEN @ ELSE cache[t]]
    BY <2>1 DEF Goes
  <2>6. goal' = goal
    BY <1>7 DEF Decide
  <2>7. d.long /\ d.mutation =>
          /\ b.action = "spawn" /\ b.wide /\ TeamFirst => b.staged
          /\ b.action # "spawn" /\ b.open /\ d.resume = "none" => b.answer
    BY <2>1, FirstBriefsStage
  <2> HIDE DEF b, delegated, ask, place
  <2>8. /\ flags'[t].plan = b /\ pc'[t] = place /\ Alike(t)
        /\ d.resume # "none" => resumed'[t] = cache[t]
    BY <1>0, <2>5, <2>6 DEF Alike, Flags
  <2>9. Stages(t)'
    BY <2>1, <2>4, <2>6, <2>7, <2>8 DEF Stages
  <2> QED BY <2>8, <2>9, StagesOfOne
<1>8. CASE Continue(t)
  <2>1. PICK d \in NextBriefs :
          /\ d.long = goal[t].long /\ d.mutation = goal[t].mutation
          /\ Goes(t, IF d.brief.action = "spawn" THEN "startRound" ELSE "close")
          /\ flags' = [flags EXCEPT ![t] =
                [@ EXCEPT !.plan = IF d.brief.action = "spawn" THEN d.brief ELSE flags[t].plan,
                          !.ask = IF d.brief.action = "ask" THEN "later" ELSE flags[t].ask]]
    BY <1>8 DEF Continue
  <2> DEFINE b == d.brief
             spawns == b.action = "spawn"
             ask == IF b.action = "ask" THEN "later" ELSE flags[t].ask
             plan == IF spawns THEN b ELSE flags[t].plan
             place == IF spawns THEN "startRound" ELSE "close"
  <2>2. flags' = [flags EXCEPT ![t] = [@ EXCEPT !.plan = plan, !.ask = ask]]
        /\ pc' = [pc EXCEPT ![t] = place]
    BY <2>1 DEF Goes
  <2>3. UNCHANGED <<goal, resumed>> /\ pc[t] \notin Planned
    BY <1>8 DEF Continue, workVars, Planned
  <2>4. ~flags[t].plan.open
    BY <2>3 DEF Stages
  <2>5. d.long /\ d.mutation => (spawns /\ b.wide /\ TeamFirst => b.staged)
    BY <2>1, NextBriefsStage
  <2>6. (spawns => plan = b /\ place = "startRound")
        /\ (~spawns => plan = flags[t].plan /\ place = "close")
    OBVIOUS
  <2> HIDE DEF b, spawns, ask, plan, place
  <2>7. flags'[t].plan = plan /\ pc'[t] = place /\ Alike(t)
    BY <1>0, <2>2, <2>3 DEF Alike, Flags
  <2>8. Stages(t)'
    <3>1. CASE spawns
      BY <2>1, <2>3, <2>5, <2>6, <2>7, <3>1 DEF Stages, Planned
    <3>2. CASE ~spawns
      BY <2>4, <2>6, <2>7, <3>2, Unplanned
    <3> QED BY <3>1, <3>2
  <2> QED BY <2>7, <2>8, StagesOfOne
<1> QED BY <1>1, <1>2, <1>3, <1>4, <1>5, <1>6, <1>7, <1>8

\* What was proposed, cut down, filtered and scored, the first decision about a long
\* task on the workspace is a team unless the root may have no child, the task is
\* resumed or answers the question; and a team with room for three members runs them
\* in order, with a verifier after an implementer.
THEOREM LongTasksStaged == Spec => []LongTasksAreStaged
<1> DEFINE I == \A t \in Turns : Stages(t)
<1>1. Init => I
  BY NoPlanIsOpen DEF Init, Stages, Planned
<1>2. ASSUME TypeOK, I, [Next]_vars PROVE I'
  <2>1. CASE \E t \in Turns : Proceeds(t)
    <3> PICK t \in Turns : Proceeds(t)
      BY <2>1
    <3>1. CASE Begin(t) \/ Transition(t) \/ Decide(t) \/ StartStep(t) \/ Answer(t)
      BY <1>2, <3>1, OnwardSteps, PlanningSteps
    <3>2. CASE Delegates(t)
      BY <1>2, <3>2, OnwardSteps, PlanningSteps DEF Delegates
    <3>3. CASE Executes(t)
      BY <1>2, <3>3, OnwardSteps DEF Executes
    <3>4. CASE Concludes(t)
      BY <1>2, <3>4, OnwardSteps DEF Concludes
    <3> QED BY <3>1, <3>2, <3>3, <3>4 DEF Proceeds
  <2>2. CASE \E t \in Turns : \E transient \in BOOLEAN : Fail(t, transient)
    BY <1>2, <2>2, PlanningSteps
  <2>3. CASE \E t \in Turns : Tick(t)
    BY <1>2, <2>3, OnwardSteps
  <2>4. CASE UNCHANGED vars
    BY <1>2, <2>4 DEF vars, treeVars, workVars, Stages
  <2> QED BY <1>2, <2>1, <2>2, <2>3, <2>4 DEF Next, Rest
<1>3. I => LongTasksAreStaged
  BY DEF Stages, LongTasksAreStaged
<1> HIDE DEF I
<1> QED BY <1>1, <1>2, <1>3, TypeCorrect, PTL DEF Spec

=============================================================================
