-------------------------- MODULE BudgetMarketProofs --------------------------
(***************************************************************************)
(* Safety of the budget market for any number of allocations, any batches, *)
(* limits and amounts: of the market on its own (BudgetMarket), under the  *)
(* actors that use it (ActorBudgets), and of the loop by which the market  *)
(* policy answers (MarketClearing).                                        *)
(*                                                                         *)
(* That a step on one allocation leaves the accounts of the others alone   *)
(* needs to know that an allocation not made yet has none.  What is        *)
(* reserved is a sum over a set that steps change; the section on sums     *)
(* says how it changes.                                                    *)
(***************************************************************************)
EXTENDS ActorBudgets, MarketClearing, FiniteSetTheorems, WellFoundedInduction, TLAPS

\* An allocation that was not made yet has no tokens.
Unissued ==
  \A i \in Ids :
    /\ status[i] = "none" <=> i > issued
    /\ i > issued => consumed[i] = 0 /\ extra[i] = 0

IInv ==
  /\ TypeOK
  /\ StatusTellsOverrun
  /\ Unissued

-----------------------------------------------------------------------------
(* The policies.                                                           *)

\* A decision never exceeds the bid it answers.
Bounded(d, requests) ==
  /\ d \in [DOMAIN requests -> Decision]
  /\ \A k \in DOMAIN requests : d[k].tokens <= d[k].bid.tokens

\* The decisions come in the order of the bids.
InOrder(d, requests) == \A k \in DOMAIN requests : d[k].bid = requests[k]

LEMMA GrantsAreBound ==
  ASSUME NEW requests, requests \in [DOMAIN requests -> Bid], NEW g \in Grants(requests)
  PROVE  Bounded(Decided(requests, g), requests) /\ InOrder(Decided(requests, g), requests)
<1>1. \A k \in DOMAIN requests :
        /\ requests[k] \in Bid
        /\ g[k] \in Nat
        /\ g[k] <= requests[k].tokens
  BY PolicyAssumption DEF Grants
<1>2. \A k \in DOMAIN requests : [bid |-> requests[k], tokens |-> g[k]] \in Decision
  BY <1>1 DEF Decision
<1> QED BY <1>1, <1>2 DEF Bounded, InOrder, Decided

\* A market without a limit does not answer in the order of the bids.
LEMMA AllocateIsBound ==
  ASSUME NEW requests, requests \in [DOMAIN requests -> Bid], NEW context,
         NEW d \in Allocate(Mode, requests, context)
  PROVE  /\ Bounded(d, requests)
         /\ Mode # "market" \/ Limited(context) => InOrder(d, requests)
<1>1. CASE Mode = "market" /\ ~Limited(context)
  <2>1. PICK p \in Rankings(requests) :
          d = [k \in DOMAIN requests |-> [bid |-> requests[p[k]], tokens |-> requests[p[k]].tokens]]
    BY <1>1 DEF Allocate
  <2>2. \A k \in DOMAIN requests : requests[p[k]] \in Bid
    BY DEF Rankings
  <2>3. \A k \in DOMAIN requests : requests[p[k]].tokens \in Nat
    BY <2>2, PolicyAssumption DEF Bid
  <2> HIDE DEF Bid
  <2>4. Bounded(d, requests)
    BY <2>1, <2>2, <2>3 DEF Bounded, Decision
  <2> QED BY <1>1, <2>4
<1>2. CASE ~(Mode = "market" /\ ~Limited(context))
  <2>1. [i \in DOMAIN requests |-> requests[i].tokens] \in Grants(requests)
    <3>1. \A i \in DOMAIN requests : requests[i].tokens \in 0..MaxTokens /\ requests[i].tokens <= requests[i].tokens
      BY PolicyAssumption DEF Bid
    <3> QED BY <3>1 DEF Grants
  <2>2. FullGrants(requests) \subseteq Grants(requests)
    BY <2>1 DEF FullGrants
  <2>3. FixedGrants(requests, context.available) \subseteq Grants(requests)
    BY DEF FixedGrants
  <2>4. MarketGrants(requests, context.available) \subseteq Grants(requests)
    BY DEF MarketGrants, Cleared
  <2>5. PICK g \in Grants(requests) : d = Decided(requests, g)
    BY <1>2, <2>2, <2>3, <2>4 DEF Allocate
  <2> QED BY <2>5, GrantsAreBound
<1> QED BY <1>1, <1>2

-----------------------------------------------------------------------------
(* The bids of the active allocations.                                     *)

LEMMA PositionsAreDistinct ==
  ASSUME TypeOK
  PROVE  /\ Cardinality(Active) \in Nat
         /\ \A i \in Active : Position(i) \in 1..Cardinality(Active)
         /\ \A i, j \in Active : Position(i) = Position(j) => i = j
<1> DEFINE Upto(k) == {l \in Active : l <= k}
<1>1. IsFiniteSet(Active)
  <2>1. IsFiniteSet(Ids)
    BY MarketAssumption, FS_Interval DEF Ids
  <2> QED BY <2>1, FS_Subset DEF Active
<1>2. \A i \in Active :
        /\ i \in Nat /\ i \in Upto(i)
        /\ IsFiniteSet(Upto(i)) /\ Cardinality(Upto(i)) \in Nat
        /\ Cardinality(Upto(i)) <= Cardinality(Active)
        /\ Position(i) = Cardinality(Upto(i))
  <2> TAKE i \in Active
  <2>1. i \in Nat /\ i \in Upto(i)
    BY MarketAssumption DEF Active, Ids
  <2>2. Upto(i) \subseteq Active
    OBVIOUS
  <2>3. IsFiniteSet(Upto(i)) /\ Cardinality(Upto(i)) <= Cardinality(Active)
    BY <1>1, <2>2, FS_Subset
  <2> QED BY <2>1, <2>3, FS_CardinalityType DEF Position
<1>3. \A i, j \in Active : i < j => Cardinality(Upto(i)) < Cardinality(Upto(j))
  <2> SUFFICES ASSUME NEW i \in Active, NEW j \in Active, i < j
               PROVE  Cardinality(Upto(i)) < Cardinality(Upto(j))
    OBVIOUS
  <2>1. Active \subseteq Nat
    BY MarketAssumption DEF Active, Ids
  <2>2. Upto(i) \subseteq Upto(j) \ {j}
    <3>1. \A l \in Upto(i) : l \in Active /\ l <= j /\ l # j
      BY <2>1
    <3> QED BY <3>1
  <2>3. /\ IsFiniteSet(Upto(j) \ {j})
        /\ Cardinality(Upto(j) \ {j}) = Cardinality(Upto(j)) - 1
    BY <1>2, FS_RemoveElement
  <2>4. Cardinality(Upto(i)) <= Cardinality(Upto(j) \ {j})
    BY <2>2, <2>3, FS_Subset
  <2> HIDE DEF Upto
  <2> QED BY <1>2, <2>3, <2>4
<1>4. Cardinality(Active) \in Nat
  BY <1>1, FS_CardinalityType
<1>5. \A i \in Active : Cardinality(Upto(i)) # 0
  BY <1>2, FS_EmptySet
<1> HIDE DEF Upto
<1>6. \A i \in Active : Position(i) \in 1..Cardinality(Active)
  BY <1>2, <1>4, <1>5
<1>7. \A i, j \in Active : Position(i) = Position(j) => i = j
  BY <1>2, <1>3
<1> QED BY <1>4, <1>6, <1>7

-----------------------------------------------------------------------------
(* The invariant.                                                          *)

LEMMA InitInv == Init => IInv
<1> SUFFICES ASSUME Init PROVE IInv
  OBVIOUS
<1>1. [tokens |-> 0, minimum |-> 0, score |-> 0] \in Bid
  BY PolicyAssumption DEF Bid
<1>2. TypeOK
  BY <1>1, MarketAssumption DEF Init, TypeOK, Statuses
<1>3. StatusTellsOverrun /\ Unissued
  BY MarketAssumption DEF Init, StatusTellsOverrun, Unissued, Ids
<1> QED BY <1>2, <1>3 DEF IInv

\* What requestMany() makes of a batch.
LEMMA RequestManyMakes ==
  ASSUME IInv, NEW batch \in Seq(Bid), NEW runtime, RequestMany(batch, runtime)
  PROVE  \E requests, d :
           /\ requests \in [1..Len(batch) -> Bid]
           /\ d \in Allocate(Mode, requests, Offered)
           /\ d \in [1..Len(batch) -> Decision]
           /\ Bounded(d, requests)
           /\ \A i \in Ids :
                IF i \in (issued + 1)..(issued + Len(batch))
                THEN /\ i - issued \in 1..Len(batch)
                     /\ bid'[i] = d[i - issued].bid
                     /\ \/ /\ status'[i] = "granted"
                           /\ allocated'[i] = d[i - issued].tokens
                        \/ /\ status'[i] = "denied"
                           /\ allocated'[i] = 0
                ELSE /\ bid'[i] = bid[i]
                     /\ status'[i] = status[i]
                     /\ allocated'[i] = allocated[i]
<1> DEFINE requests == [k \in DOMAIN batch |-> Normalized(batch[k])]
<1>1. Len(batch) \in Nat /\ DOMAIN batch = 1..Len(batch) /\ batch \in [1..Len(batch) -> Bid]
  BY MarketAssumption
<1>2. \A b \in Bid : Normalized(b) \in Bid
  <2> TAKE b \in Bid
  <2>1. /\ b.tokens \in 0..MaxTokens /\ b.minimum \in 0..MaxTokens /\ b.score \in Nat
        /\ b = [tokens |-> b.tokens, minimum |-> b.minimum, score |-> b.score]
    BY DEF Bid
  <2>2. Lesser(b.minimum, b.tokens) \in 0..MaxTokens
    BY <2>1 DEF Lesser
  <2> QED BY <2>1, <2>2 DEF Normalized, Bid
<1>3. requests \in [1..Len(batch) -> Bid]
  BY <1>1, <1>2
<1>4. PICK d \in Allocate(Mode, requests, Offered) :
        \A i \in Ids :
          IF i \in (issued + 1)..(issued + Len(batch))
          THEN /\ bid'[i] = d[i - issued].bid
               /\ \/ /\ status'[i] = "granted"
                     /\ allocated'[i] = d[i - issued].tokens
                  \/ /\ status'[i] = "denied"
                     /\ allocated'[i] = 0
          ELSE /\ bid'[i] = bid[i]
               /\ status'[i] = status[i]
               /\ allocated'[i] = allocated[i]
  BY DEF RequestMany
<1> HIDE DEF requests
<1>5. DOMAIN requests = 1..Len(batch)
  BY <1>3
<1>6. Bounded(d, requests)
  BY <1>3, <1>4, <1>5, AllocateIsBound
<1>7. d \in [1..Len(batch) -> Decision]
  BY <1>5, <1>6 DEF Bounded
<1>8. \A i \in (issued + 1)..(issued + Len(batch)) : i - issued \in 1..Len(batch)
  BY <1>1 DEF IInv, TypeOK
<1> QED BY <1>3, <1>4, <1>6, <1>7, <1>8

LEMMA RequestManyInv ==
  ASSUME IInv, NEW batch \in Seq(Bid), NEW runtime \in BOOLEAN, RequestMany(batch, runtime)
  PROVE  IInv'
<1> DEFINE made == (issued + 1)..(issued + Len(batch))
<1>1. PICK requests, d :
        /\ d \in [1..Len(batch) -> Decision]
        /\ \A i \in Ids :
             IF i \in made
             THEN /\ i - issued \in 1..Len(batch)
                  /\ bid'[i] = d[i - issued].bid
                  /\ \/ /\ status'[i] = "granted"
                        /\ allocated'[i] = d[i - issued].tokens
                     \/ /\ status'[i] = "denied"
                        /\ allocated'[i] = 0
             ELSE /\ bid'[i] = bid[i]
                  /\ status'[i] = status[i]
                  /\ allocated'[i] = allocated[i]
  BY RequestManyMakes
<1>2. /\ Len(batch) \in Nat
      /\ issued \in Nat
      /\ issued' = issued + Len(batch)
      /\ made \subseteq Ids
      /\ batch # <<>>
      /\ UNCHANGED <<limit, used, consumed, extra>>
  BY MarketAssumption DEF RequestMany, IInv, TypeOK, sessionVars
<1>3. \A i \in made : d[i - issued].bid \in Bid /\ d[i - issued].tokens \in Nat
  BY <1>1, <1>2 DEF Decision
<1>4. TypeOK'
  <2>1. issued' \in 0..MaxAllocations
    <3>1. CASE Len(batch) = 0
      BY <1>2, <3>1 DEF IInv, TypeOK
    <3>2. CASE Len(batch) # 0
      <4>1. issued + Len(batch) \in made
        BY <1>2, <3>2
      <4> QED BY <1>2, <4>1, MarketAssumption DEF Ids
    <3> QED BY <3>1, <3>2
  <2>2. status' \in [Ids -> Statuses] /\ allocated' \in [Ids -> Nat] /\ bid' \in [Ids -> Bid]
    <3>1. /\ status' = [i \in Ids |-> status'[i]]
          /\ allocated' = [i \in Ids |-> allocated'[i]]
          /\ bid' = [i \in Ids |-> bid'[i]]
      BY DEF RequestMany
    <3>2. \A i \in Ids : status'[i] \in Statuses /\ allocated'[i] \in Nat /\ bid'[i] \in Bid
      <4>1. \A i \in made : i \in Ids =>
              status'[i] \in Statuses /\ allocated'[i] \in Nat /\ bid'[i] \in Bid
        BY <1>1, <1>3 DEF Statuses
      <4>2. \A i \in Ids \ made :
              status'[i] \in Statuses /\ allocated'[i] \in Nat /\ bid'[i] \in Bid
        BY <1>1 DEF IInv, TypeOK
      <4> QED BY <4>1, <4>2
    <3> QED BY <3>1, <3>2
  <2>3. external' \in [Ids -> BOOLEAN]
    BY DEF RequestMany, IInv, TypeOK
  <2> QED BY <1>2, <2>1, <2>2, <2>3 DEF IInv, TypeOK
<1>5. \A i \in made : status[i] = "none" /\ consumed[i] = 0 /\ extra[i] = 0
  BY <1>2 DEF IInv, Unissued
<1>6. StatusTellsOverrun'
  BY <1>1, <1>2, <1>3, <1>5 DEF IInv, StatusTellsOverrun
<1>7. Unissued'
  <2>1. \A i \in Ids : i \in Nat /\ (i > issued' <=> i > issued /\ i \notin made)
    BY <1>2, MarketAssumption DEF Ids
  <2> QED BY <1>1, <1>2, <2>1 DEF IInv, Unissued
<1> QED BY <1>4, <1>6, <1>7 DEF IInv

LEMMA AugmentInv ==
  ASSUME IInv, NEW i \in Ids, NEW requested \in Int, NEW minimum \in Int,
         Augment(i, requested, minimum)
  PROVE  IInv'
<1>1. PICK n \in Greater(1, minimum)..requested :
        /\ allocated' = [allocated EXCEPT ![i] = @ + n]
        /\ extra' = [extra EXCEPT ![i] = @ + n]
        /\ status' = [status EXCEPT ![i] = Reopened(i, n)]
  BY DEF Augment
<1>2. n \in Nat
  BY MarketAssumption DEF Greater
<1>3. Open(i) /\ UNCHANGED <<limit, used, issued, bid, external, consumed>>
  BY DEF Augment, sessionVars, requestVars
<1>4. /\ status'[i] = Reopened(i, n)
      /\ Reopened(i, n) \in {"granted", "exceeded"}
      /\ allocated'[i] = allocated[i] + n
      /\ \A j \in Ids \ {i} : status'[j] = status[j] /\ allocated'[j] = allocated[j] /\ extra'[j] = extra[j]
  BY <1>1, <1>3 DEF IInv, TypeOK, Open, Reopened
<1>5. allocated[i] \in Nat /\ consumed[i] \in Nat /\ extra[i] \in Nat
  BY DEF IInv, TypeOK
<1>6. TypeOK'
  <2>1. allocated' \in [Ids -> Nat] /\ extra' \in [Ids -> Nat]
    BY <1>1, <1>2, <1>5 DEF IInv, TypeOK
  <2>2. status' \in [Ids -> Statuses]
    BY <1>1, <1>4 DEF IInv, TypeOK, Statuses
  <2> QED BY <1>3, <2>1, <2>2 DEF IInv, TypeOK
<1>7. StatusTellsOverrun'
  BY <1>2, <1>3, <1>4, <1>5 DEF IInv, StatusTellsOverrun, Reopened, Open
<1>8. Unissued'
  BY <1>3, <1>4 DEF IInv, Unissued, Open
<1> QED BY <1>6, <1>7, <1>8 DEF IInv

\* consume() and settle(): an open allocation reaches a total and a status that
\* tells whether it is an overrun.
LEMMA TotalInv ==
  ASSUME IInv, NEW i \in Ids, NEW total \in Nat, NEW after \in {"granted", "settled", "exceeded"},
         Open(i), after = "exceeded" <=> total > allocated[i],
         consumed' = [consumed EXCEPT ![i] = total],
         status' = [status EXCEPT ![i] = after],
         UNCHANGED <<sessionVars, requestVars, external, allocated, extra>>
  PROVE  IInv'
<1>1. /\ UNCHANGED <<limit, used, issued, bid, external, allocated, extra>>
      /\ status'[i] = after /\ consumed'[i] = total /\ allocated[i] \in Nat
      /\ \A j \in Ids \ {i} : status'[j] = status[j] /\ consumed'[j] = consumed[j]
  BY DEF IInv, TypeOK, sessionVars, requestVars
<1>2. TypeOK'
  BY <1>1 DEF IInv, TypeOK, Statuses
<1>3. StatusTellsOverrun'
  BY <1>1 DEF IInv, StatusTellsOverrun
<1>4. Unissued'
  BY <1>1 DEF IInv, Unissued, Open
<1> QED BY <1>2, <1>3, <1>4 DEF IInv

LEMMA ConsumeInv ==
  ASSUME IInv, NEW i \in Ids, NEW n \in Amounts, Consume(i, n)
  PROVE  IInv'
<1> DEFINE total == consumed[i] + n
<1>1. n \in Nat /\ total \in Nat /\ consumed[i] \in Nat /\ allocated[i] \in Nat
  BY MarketAssumption DEF IInv, TypeOK
<1>2. /\ Consumed(i, total) \in {"granted", "settled", "exceeded"}
      /\ Consumed(i, total) = "exceeded" <=> total > allocated[i]
  BY <1>1 DEF Consume, Open, Consumed, IInv, StatusTellsOverrun
<1> QED BY <1>1, <1>2, TotalInv DEF Consume

LEMMA SettleInv ==
  ASSUME IInv, NEW i \in Ids, NEW total \in Amounts, Settle(i, total)
  PROVE  IInv'
<1> DEFINE after == IF total > allocated[i] THEN "exceeded" ELSE "settled"
<1>1. total \in Nat
  BY MarketAssumption
<1>2. after \in {"granted", "settled", "exceeded"} /\ (after = "exceeded" <=> total > allocated[i])
  OBVIOUS
<1> QED BY <1>1, <1>2, TotalInv DEF Settle

LEMMA ReleaseInv ==
  ASSUME IInv, NEW i \in Ids, Release(i)
  PROVE  IInv'
<1>1. TypeOK'
  BY DEF IInv, TypeOK, Statuses, Release, sessionVars, requestVars
<1>2. StatusTellsOverrun'
  BY DEF IInv, TypeOK, StatusTellsOverrun, Release
<1>3. Unissued'
  BY DEF IInv, TypeOK, Unissued, Release, requestVars
<1> QED BY <1>1, <1>2, <1>3 DEF IInv

\* What rebalance() gives an active allocation: a decision on a bid, on its
\* own one unless the market has no limit.
LEMMA RebalanceDecides ==
  ASSUME IInv, Rebalance
  PROVE  \E requests, d :
           /\ Bounded(d, requests)
           /\ \A i \in Active : Position(i) \in DOMAIN requests
           /\ Mode # "market" \/ limit # NoLimit => \A i \in Active : d[Position(i)].bid = bid[i]
           /\ allocated' = [i \in Ids |-> IF i \in Active THEN Rebalanced(i, d) ELSE allocated[i]]
<1>1. \A i, j \in Active : Position(i) = Position(j) => i = j
  BY PositionsAreDistinct DEF IInv
<1>2. PICK d \in Allocate(Mode, ActiveBids, WholeSupply) :
        allocated' = [i \in Ids |-> IF i \in Active THEN Rebalanced(i, d) ELSE allocated[i]]
  BY DEF Rebalance
<1>3. \A i \in Active : Position(i) \in Positions /\ ActiveBids[Position(i)] = bid[i]
  <2> TAKE i \in Active
  <2>1. Position(i) \in Positions
    BY DEF Positions
  <2>2. (CHOOSE j \in Active : Position(j) = Position(i)) = i
    BY <1>1
  <2> QED BY <2>1, <2>2 DEF ActiveBids
<1>4. DOMAIN ActiveBids = Positions /\ ActiveBids \in [Positions -> Bid]
  <2>1. \A k \in Positions : ActiveBids[k] \in Bid
    BY <1>3 DEF Positions, IInv, TypeOK, Active
  <2>2. ActiveBids = [k \in Positions |-> ActiveBids[k]]
    BY DEF ActiveBids
  <2> QED BY <2>1, <2>2
<1>5. Bounded(d, ActiveBids) /\ (Mode # "market" \/ limit # NoLimit => InOrder(d, ActiveBids))
  BY <1>2, <1>4, AllocateIsBound DEF Limited, WholeSupply
<1>6. Mode # "market" \/ limit # NoLimit => \A i \in Active : d[Position(i)].bid = bid[i]
  BY <1>3, <1>4, <1>5 DEF InOrder
<1> QED BY <1>2, <1>3, <1>4, <1>5, <1>6

LEMMA RebalanceInv ==
  ASSUME IInv, Rebalance
  PROVE  IInv'
<1>1. PICK requests, d :
        /\ Bounded(d, requests)
        /\ \A i \in Active : Position(i) \in DOMAIN requests
        /\ allocated' = [i \in Ids |-> IF i \in Active THEN Rebalanced(i, d) ELSE allocated[i]]
  BY RebalanceDecides
<1>2. \A i \in Active : d[Position(i)].tokens \in Nat
  BY <1>1 DEF Bounded, Decision
<1>3. UNCHANGED <<limit, used, issued, bid, status, external, consumed, extra>>
  BY DEF Rebalance, sessionVars, requestVars
<1>4. \A i \in Ids :
        /\ allocated'[i] \in Nat
        /\ IF status[i] = "granted" THEN allocated'[i] >= consumed[i] ELSE allocated'[i] = allocated[i]
  BY <1>1, <1>2 DEF IInv, TypeOK, Active, Rebalanced, Greater
<1>5. TypeOK'
  BY <1>1, <1>3, <1>4 DEF IInv, TypeOK
<1>6. StatusTellsOverrun'
  BY <1>3, <1>4 DEF IInv, TypeOK, StatusTellsOverrun
<1>7. Unissued'
  BY <1>3 DEF IInv, Unissued
<1> QED BY <1>5, <1>6, <1>7 DEF IInv

LEMMA StepInv == IInv /\ [Next]_vars => IInv'
<1> SUFFICES ASSUME IInv, [Next]_vars PROVE IInv'
  OBVIOUS
<1>1. ASSUME NEW batch \in Batches, NEW runtime \in BOOLEAN, RequestMany(batch, runtime)
      PROVE  IInv'
  BY <1>1, RequestManyInv, MarketAssumption
<1>2. ASSUME NEW i \in Ids, AssignRequester(i)
      PROVE  IInv'
  BY <1>2 DEF IInv, TypeOK, StatusTellsOverrun, Unissued, AssignRequester, sessionVars, requestVars
<1>3. ASSUME NEW i \in Ids, NEW requested \in Amounts, NEW minimum \in Amounts,
             Augment(i, requested, minimum)
      PROVE  IInv'
  BY <1>3, AugmentInv, MarketAssumption
<1>4. ASSUME NEW n \in Amounts, ModelCall(n)
      PROVE  IInv'
  BY <1>4, MarketAssumption
     DEF IInv, TypeOK, StatusTellsOverrun, Unissued, ModelCall, requestVars
<1>5. ASSUME NEW i \in Ids, NEW n \in Amounts, Consume(i, n) \/ Settle(i, n)
      PROVE  IInv'
  BY <1>5, ConsumeInv, SettleInv
<1>6. ASSUME NEW i \in Ids, Release(i)
      PROVE  IInv'
  BY <1>6, ReleaseInv
<1>7. ASSUME NEW tokens \in Limits, Configure(tokens)
      PROVE  IInv'
  BY <1>7 DEF IInv, TypeOK, StatusTellsOverrun, Unissued, Configure, requestVars
<1>8. CASE UNCHANGED vars
  BY <1>8 DEF IInv, TypeOK, StatusTellsOverrun, Unissued, vars, sessionVars, requestVars
<1> QED
  BY <1>1, <1>2, <1>3, <1>4, <1>5, <1>6, <1>7, <1>8, RebalanceInv DEF Next

\* The inductive invariant of the market.
THEOREM Invariance == Spec => []IInv
<1>1. Init => IInv
  BY InitInv
<1>2. IInv /\ [Next]_vars => IInv'
  BY StepInv
<1> QED BY <1>1, <1>2, PTL DEF Spec

\* Every variable keeps its type, the tokens of rebalanced and continued
\* allocations included (BudgetMarket.ts:120-287).
THEOREM TypeCorrect == Spec => []TypeOK
<1>1. IInv => TypeOK
  BY DEF IInv
<1> QED BY <1>1, Invariance, PTL

\* An allocation is exceeded exactly while it has consumed more than it was
\* given (BudgetMarket.ts:151, 181, 211, 273).
THEOREM OverrunIsTold == Spec => []StatusTellsOverrun
<1>1. IInv => StatusTellsOverrun
  BY DEF IInv
<1> QED BY <1>1, Invariance, PTL

-----------------------------------------------------------------------------
(* Grants and bids.                                                        *)

GrantInv == IInv /\ GrantWithinBid

\* The rebalance of a market without a limit is the one step that can give an
\* allocation what another one asked for.
Ordered == Mode # "market" \/ NoLimit \notin Limits

LEMMA RequestManyGrants ==
  ASSUME GrantInv, NEW batch \in Seq(Bid), NEW runtime, RequestMany(batch, runtime)
  PROVE  GrantWithinBid'
<1>1. PICK requests, d :
        /\ requests \in [1..Len(batch) -> Bid]
        /\ d \in [1..Len(batch) -> Decision]
        /\ Bounded(d, requests)
        /\ \A i \in Ids :
             IF i \in (issued + 1)..(issued + Len(batch))
             THEN /\ i - issued \in 1..Len(batch)
                  /\ bid'[i] = d[i - issued].bid
                  /\ \/ /\ status'[i] = "granted"
                        /\ allocated'[i] = d[i - issued].tokens
                     \/ /\ status'[i] = "denied"
                        /\ allocated'[i] = 0
             ELSE /\ bid'[i] = bid[i]
                  /\ status'[i] = status[i]
                  /\ allocated'[i] = allocated[i]
  BY RequestManyMakes DEF GrantInv
<1>2. \A k \in 1..Len(batch) :
        /\ d[k].tokens \in Nat
        /\ d[k].bid.tokens \in Nat
        /\ d[k].tokens <= d[k].bid.tokens
  <2> TAKE k \in 1..Len(batch)
  <2>1. d[k] \in Decision /\ d[k].tokens <= d[k].bid.tokens
    BY <1>1 DEF Bounded
  <2>2. d[k].bid \in Bid
    BY <2>1 DEF Decision
  <2> QED BY <2>1, <2>2, PolicyAssumption DEF Decision, Bid
<1>3. extra' = extra /\ \A i \in Ids : extra[i] \in Nat
  BY DEF RequestMany, GrantInv, IInv, TypeOK
<1> SUFFICES ASSUME NEW i \in Ids, status'[i] # "none"
             PROVE  allocated'[i] <= bid'[i].tokens + extra'[i]
  BY DEF GrantWithinBid
<1>4. CASE i \in (issued + 1)..(issued + Len(batch))
  <2>1. i - issued \in 1..Len(batch) /\ bid'[i] = d[i - issued].bid
    BY <1>1, <1>4
  <2>2. allocated'[i] \in {0, d[i - issued].tokens}
    BY <1>1, <1>4
  <2> QED BY <1>2, <1>3, <2>1, <2>2
<1>5. CASE i \notin (issued + 1)..(issued + Len(batch))
  <2>1. bid'[i] = bid[i] /\ status'[i] = status[i] /\ allocated'[i] = allocated[i]
    BY <1>1, <1>5
  <2> QED BY <1>3, <2>1 DEF GrantInv, GrantWithinBid
<1> QED BY <1>4, <1>5

LEMMA RebalanceGrants ==
  ASSUME GrantInv, Ordered, Rebalance
  PROVE  GrantWithinBid'
<1>1. PICK requests, d :
        /\ Bounded(d, requests)
        /\ \A i \in Active : Position(i) \in DOMAIN requests
        /\ Mode # "market" \/ limit # NoLimit => \A i \in Active : d[Position(i)].bid = bid[i]
        /\ allocated' = [i \in Ids |-> IF i \in Active THEN Rebalanced(i, d) ELSE allocated[i]]
  BY RebalanceDecides DEF GrantInv
<1>2. Mode # "market" \/ limit # NoLimit
  BY DEF Ordered, GrantInv, IInv, TypeOK
<1>3. \A i \in Active : d[Position(i)].tokens <= bid[i].tokens
  BY <1>1, <1>2 DEF Bounded
<1>4. \A i \in Active : d[Position(i)].tokens \in Nat
  BY <1>1 DEF Bounded, Decision
<1>5. \A i \in Ids : bid[i].tokens \in Nat
  <2> TAKE i \in Ids
  <2>1. bid[i] \in Bid
    BY DEF GrantInv, IInv, TypeOK
  <2> QED BY <2>1, PolicyAssumption DEF Bid
<1>6. \A i \in Active : consumed[i] <= bid[i].tokens + extra[i]
  BY <1>5 DEF GrantInv, GrantWithinBid, IInv, TypeOK, StatusTellsOverrun, Active
<1>7. \A i \in Active : allocated'[i] <= bid[i].tokens + extra[i]
  BY <1>1, <1>3, <1>4, <1>5, <1>6 DEF Rebalanced, Greater, GrantInv, IInv, TypeOK, Active
<1> QED BY <1>1, <1>7 DEF Rebalance, requestVars, GrantInv, GrantWithinBid

LEMMA AugmentGrants ==
  ASSUME GrantInv, NEW i \in Ids, NEW requested \in Int, NEW minimum \in Int,
         Augment(i, requested, minimum)
  PROVE  GrantWithinBid'
<1>1. PICK n \in Greater(1, minimum)..requested :
        /\ allocated' = [allocated EXCEPT ![i] = @ + n]
        /\ extra' = [extra EXCEPT ![i] = @ + n]
        /\ status' = [status EXCEPT ![i] = Reopened(i, n)]
  BY DEF Augment
<1>2. n \in Nat /\ UNCHANGED bid /\ Open(i)
  BY DEF Greater, Augment, requestVars
<1>3. \A j \in Ids : bid[j].tokens \in Nat
  <2> TAKE j \in Ids
  <2>1. bid[j] \in Bid
    BY DEF GrantInv, IInv, TypeOK
  <2> QED BY <2>1, PolicyAssumption DEF Bid
<1>4. \A j \in Ids : allocated[j] \in Nat /\ extra[j] \in Nat
  BY DEF GrantInv, IInv, TypeOK
<1>5. allocated'[i] = allocated[i] + n /\ extra'[i] = extra[i] + n
  BY <1>1 DEF GrantInv, IInv, TypeOK
<1>6. \A j \in Ids \ {i} :
        allocated'[j] = allocated[j] /\ extra'[j] = extra[j] /\ status'[j] = status[j]
  BY <1>1 DEF GrantInv, IInv, TypeOK
<1>7. allocated[i] <= bid[i].tokens + extra[i]
  BY <1>2 DEF GrantInv, GrantWithinBid, Open
<1>8. allocated'[i] <= bid'[i].tokens + extra'[i]
  BY <1>2, <1>3, <1>4, <1>5, <1>7
<1> QED BY <1>2, <1>6, <1>8 DEF GrantInv, GrantWithinBid

LEMMA StepGrants ==
  ASSUME Ordered, GrantInv, [Next]_vars
  PROVE  GrantWithinBid'
<1>1. ASSUME NEW batch \in Batches, NEW runtime \in BOOLEAN, RequestMany(batch, runtime)
      PROVE  GrantWithinBid'
  BY <1>1, RequestManyGrants, MarketAssumption
<1>2. ASSUME NEW i \in Ids, NEW requested \in Amounts, NEW minimum \in Amounts,
             Augment(i, requested, minimum)
      PROVE  GrantWithinBid'
  BY <1>2, AugmentGrants, MarketAssumption
<1>3. ASSUME NEW i \in Ids, AssignRequester(i) \/ Release(i)
      PROVE  GrantWithinBid'
  BY <1>3 DEF GrantInv, GrantWithinBid, AssignRequester, Release, requestVars, IInv, TypeOK
<1>4. ASSUME NEW i \in Ids, NEW n \in Amounts, Consume(i, n) \/ Settle(i, n)
      PROVE  GrantWithinBid'
  BY <1>4 DEF GrantInv, GrantWithinBid, Consume, Settle, Open, requestVars, IInv, TypeOK
<1>5. ASSUME (\E n \in Amounts : ModelCall(n)) \/ (\E tokens \in Limits : Configure(tokens))
      PROVE  GrantWithinBid'
  BY <1>5 DEF GrantInv, GrantWithinBid, ModelCall, Configure, requestVars
<1>6. CASE UNCHANGED vars
  BY <1>6 DEF GrantInv, GrantWithinBid, vars, requestVars
<1> QED
  BY <1>1, <1>2, <1>3, <1>4, <1>5, <1>6, RebalanceGrants DEF Next

\* No allocation is given more than its own bid and continuations ask for,
\* with the fixed and the unlimited policy, and with the market as long as the
\* session has a limit (BudgetMarket.ts:77-89, 143-145, 270-276).
THEOREM GrantsFollowBids == Ordered => (Spec => []GrantWithinBid)
<1> SUFFICES ASSUME Ordered PROVE Spec => []GrantWithinBid
  OBVIOUS
<1>1. Init => GrantInv
  BY InitInv DEF GrantInv, Init, GrantWithinBid
<1>2. GrantInv /\ [Next]_vars => GrantInv'
  BY StepInv, StepGrants DEF GrantInv
<1>3. GrantInv => GrantWithinBid
  BY DEF GrantInv
<1> QED BY <1>1, <1>2, <1>3, PTL DEF Spec

-----------------------------------------------------------------------------
(* What no step may do.                                                    *)

Final(i) == status[i] \in {"settled", "released", "denied"}

LEMMA StepOnAccounts ==
  ASSUME IInv, [Next]_vars, NEW i \in Ids
  PROVE  /\ consumed'[i] >= consumed[i]
         /\ Final(i) => status'[i] = status[i] /\ allocated'[i] = allocated[i] /\ consumed'[i] = consumed[i]
<1> DEFINE Kept == /\ consumed'[i] >= consumed[i]
                   /\ Final(i) => /\ status'[i] = status[i]
                                  /\ allocated'[i] = allocated[i]
                                  /\ consumed'[i] = consumed[i]
<1>0. consumed[i] \in Nat
  BY DEF IInv, TypeOK
<1>1. ASSUME NEW batch \in Batches, NEW runtime \in BOOLEAN, RequestMany(batch, runtime)
      PROVE  Kept
  <2>1. Final(i) => i \notin (issued + 1)..(issued + Len(batch))
    BY DEF IInv, TypeOK, Unissued, Final, Ids
  <2>2. i \notin (issued + 1)..(issued + Len(batch)) => status'[i] = status[i] /\ allocated'[i] = allocated[i]
    BY <1>1, RequestManyMakes, MarketAssumption
  <2>3. consumed' = consumed
    BY <1>1 DEF RequestMany
  <2> QED BY <1>0, <2>1, <2>2, <2>3
<1>2. ASSUME NEW j \in Ids, NEW requested \in Amounts, NEW minimum \in Amounts,
             Augment(j, requested, minimum)
      PROVE  Kept
  <2>1. Final(i) => i # j
    BY <1>2 DEF Augment, Open, Final
  <2>2. i # j => status'[i] = status[i] /\ allocated'[i] = allocated[i]
    BY <1>2 DEF Augment, IInv, TypeOK
  <2>3. consumed' = consumed
    BY <1>2 DEF Augment
  <2> QED BY <1>0, <2>1, <2>2, <2>3
<1>3. ASSUME NEW j \in Ids, AssignRequester(j) \/ Release(j)
      PROVE  Kept
  BY <1>0, <1>3 DEF AssignRequester, Release, Final, IInv, TypeOK
<1>4. ASSUME NEW j \in Ids, NEW n \in Amounts, Consume(j, n) \/ Settle(j, n)
      PROVE  Kept
  <2>1. Final(i) => i # j
    BY <1>4 DEF Consume, Settle, Open, Final
  <2>2. i # j => status'[i] = status[i] /\ consumed'[i] = consumed[i]
    BY <1>4 DEF Consume, Settle, IInv, TypeOK
  <2>3. allocated' = allocated
    BY <1>4 DEF Consume, Settle
  <2>4. i = j => consumed'[i] >= consumed[i]
    BY <1>0, <1>4, MarketAssumption DEF Consume, Settle, IInv, TypeOK
  <2> QED BY <1>0, <2>1, <2>2, <2>3, <2>4
<1>5. ASSUME (\E n \in Amounts : ModelCall(n)) \/ (\E tokens \in Limits : Configure(tokens))
      PROVE  Kept
  BY <1>0, <1>5 DEF ModelCall, Configure
<1>6. CASE Rebalance
  <2>1. Final(i) => allocated'[i] = allocated[i]
    BY <1>6, RebalanceDecides DEF Active, Final
  <2> QED BY <1>0, <1>6, <2>1 DEF Rebalance
<1>7. CASE UNCHANGED vars
  BY <1>0, <1>7 DEF vars
<1> QED BY <1>1, <1>2, <1>3, <1>4, <1>5, <1>6, <1>7 DEF Next

\* A settled, released or denied allocation never changes again
\* (BudgetMarket.ts:126, 171, 195, 247, 257).
THEOREM FinalAllocations == Spec => FinalIsFinal
<1>1. IInv /\ [Next]_vars =>
        [\A i \in Ids : status[i] \in {"settled", "released", "denied"} =>
           status'[i] = status[i] /\ allocated'[i] = allocated[i] /\ consumed'[i] = consumed[i]]_vars
  BY StepOnAccounts DEF Final
<1> QED BY <1>1, Invariance, PTL DEF Spec, FinalIsFinal

\* Tokens once consumed stay consumed (BudgetMarket.ts:173, 197-206).
THEOREM ConsumptionIsKept == Spec => ConsumptionStands
<1>1. IInv /\ [Next]_vars => [\A i \in Ids : consumed'[i] >= consumed[i]]_vars
  BY StepOnAccounts
<1> QED BY <1>1, Invariance, PTL DEF Spec, ConsumptionStands

-----------------------------------------------------------------------------
(* Sums.                                                                   *)

\* The element a sum takes next, and what it is the only solution of.
First(s) == CHOOSE x \in s : TRUE
Adds(f, D, sum) == sum = [s \in D |-> IF s = {} THEN 0 ELSE f[First(s)] + sum[s \ {First(s)}]]

\* A non-empty set of numbers has a least one.
LEMMA LeastNumber ==
  ASSUME NEW T, T \subseteq Nat, T # {}
  PROVE  \E x \in T : \A y \in T : x <= y
<1> DEFINE R == {ss \in Nat \X Nat : ss[1] < ss[2]}
<1>1. IsWellFoundedOn(R, Nat)
  BY NatLessThanWellFounded, Zenon DEF OpToRel
<1>2. \A a, b \in Nat : a < b => <<a, b>> \in R
  OBVIOUS
<1> HIDE DEF R
<1>3. PICK x \in T : \A y \in T : ~(<<y, x>> \in R)
  BY <1>1, WFMin
<1>4. \A y \in T : ~(y < x) /\ y \in Nat /\ x \in Nat
  BY <1>2, <1>3
<1> QED BY <1>4

\* What the subsets of a finite set have when those without one of their elements
\* have it, all of them have.
LEMMA SubsetInduction ==
  ASSUME NEW S, IsFiniteSet(S), NEW P,
         \A s \in SUBSET S : (\A x \in s : s \ {x} \in P) => s \in P
  PROVE  \A s \in SUBSET S : s \in P
<1> SUFFICES ASSUME NEW s0 \in SUBSET S, s0 \notin P PROVE FALSE
  OBVIOUS
<1> DEFINE Sizes == {Cardinality(s) : s \in (SUBSET S) \ P}
<1>1. \A s \in SUBSET S : IsFiniteSet(s) /\ Cardinality(s) \in Nat
  BY FS_Subset, FS_CardinalityType
<1>2. Sizes \subseteq Nat /\ Sizes # {}
  <2>1. Cardinality(s0) \in Sizes
    OBVIOUS
  <2> QED BY <1>1, <2>1
<1>3. PICK m \in Sizes : \A n \in Sizes : m <= n
  <2> HIDE DEF Sizes
  <2> QED BY <1>2, LeastNumber
<1>4. PICK s \in (SUBSET S) \ P : m = Cardinality(s)
  OBVIOUS
<1>5. PICK x \in s : s \ {x} \notin P
  BY <1>4
<1>6. Cardinality(s \ {x}) \in Sizes
  BY <1>5
<1>7. Cardinality(s \ {x}) = Cardinality(s) - 1
  BY <1>1, <1>5, FS_RemoveElement
<1>8. m <= Cardinality(s) - 1 /\ m \in Nat
  BY <1>2, <1>3, <1>6, <1>7
<1> QED BY <1>4, <1>8

\* Two sums agree where both are defined.
LEMMA SumsAgree ==
  ASSUME NEW S, IsFiniteSet(S), NEW T, IsFiniteSet(T), T \subseteq S, NEW f, NEW a, NEW b,
         Adds(f, SUBSET S, a), Adds(f, SUBSET T, b)
  PROVE  \A s \in SUBSET T : a[s] = b[s]
<1> DEFINE P == {s \in SUBSET T : a[s] = b[s]}
<1>1. ASSUME NEW s \in SUBSET T, \A x \in s : s \ {x} \in P
      PROVE  s \in P
  <2>1. s \in SUBSET S
    OBVIOUS
  <2>2. a[s] = IF s = {} THEN 0 ELSE f[First(s)] + a[s \ {First(s)}]
    BY <2>1 DEF Adds
  <2>3. b[s] = IF s = {} THEN 0 ELSE f[First(s)] + b[s \ {First(s)}]
    BY DEF Adds
  <2>4. CASE s = {}
    BY <2>2, <2>3, <2>4
  <2>5. CASE s # {}
    <3>1. First(s) \in s
      BY <2>5 DEF First
    <3>2. a[s \ {First(s)}] = b[s \ {First(s)}]
      BY <1>1, <3>1
    <3> QED BY <2>2, <2>3, <2>5, <3>2
  <2> QED BY <2>4, <2>5
<1>2. \A s \in SUBSET T : s \in P
  <2> HIDE DEF P
  <2> QED BY <1>1, SubsetInduction
<1> QED BY <1>2

\* A sum over a finite set exists: it is built up by the size of the sets.
LEMMA SumsExist ==
  ASSUME NEW S, IsFiniteSet(S), NEW f
  PROVE  \E sum : Adds(f, SUBSET S, sum)
<1> DEFINE Small(n) == {s \in SUBSET S : Cardinality(s) <= n}
           Missing == {n \in Nat : ~ \E sum : Adds(f, Small(n), sum)}
<1>1. \A s \in SUBSET S : /\ IsFiniteSet(s) /\ Cardinality(s) \in Nat
                          /\ Cardinality(s) <= Cardinality(S)
  BY FS_Subset, FS_CardinalityType
<1>2. Cardinality(S) \in Nat
  BY FS_CardinalityType
<1>3. ASSUME NEW m \in Missing, \A n \in Missing : m <= n
      PROVE  FALSE
  <2>1. CASE m = 0
    <3> DEFINE sum == [s \in Small(0) |-> 0]
    <3>1. \A s \in Small(0) : s = {}
      BY <1>1, FS_EmptySet
    <3>2. Adds(f, Small(0), sum)
      BY <3>1 DEF Adds
    <3> QED BY <2>1, <3>2
  <2>2. CASE m > 0
    <3>1. m - 1 \in Nat /\ m - 1 \notin Missing
      <4>1. m \in Nat
        OBVIOUS
      <4> HIDE DEF Missing
      <4> QED BY <1>3, <2>2, <4>1
    <3>2. PICK sum : Adds(f, Small(m - 1), sum)
      BY <3>1
    <3> DEFINE next == [s \in Small(m) |-> IF s = {} THEN 0 ELSE f[First(s)] + sum[s \ {First(s)}]]
    <3>3. \A s \in Small(m - 1) : next[s] = sum[s]
      <4>1. \A s \in Small(m - 1) : s \in Small(m)
        BY <1>1, <3>1
      <4> QED BY <3>2, <4>1 DEF Adds
    <3>4. \A s \in Small(m) : s # {} => s \ {First(s)} \in Small(m - 1)
      <4> TAKE s \in Small(m)
      <4> HAVE s # {}
      <4>1. First(s) \in s
        BY DEF First
      <4>2. Cardinality(s \ {First(s)}) = Cardinality(s) - 1
        BY <1>1, <4>1, FS_RemoveElement
      <4> QED BY <1>1, <3>1, <4>2
    <3>5. Adds(f, Small(m), next)
      <4> HIDE DEF Small
      <4> QED BY <3>3, <3>4 DEF Adds
    <3> QED BY <3>5
  <2> QED BY <2>1, <2>2
<1>4. Missing = {}
  <2> HIDE DEF Small
  <2>1. Missing \subseteq Nat
    OBVIOUS
  <2> HIDE DEF Missing
  <2> QED BY <1>3, <2>1, LeastNumber
<1>5. \E sum : Adds(f, Small(Cardinality(S)), sum)
  BY <1>2, <1>4
<1>6. Small(Cardinality(S)) = SUBSET S
  BY <1>1
<1> QED BY <1>5, <1>6

\* The total of a finite set, by the element it takes first.
LEMMA TotalByFirst ==
  ASSUME NEW S, IsFiniteSet(S), NEW f
  PROVE  Total(f, S) = IF S = {} THEN 0 ELSE f[First(S)] + Total(f, S \ {First(S)})
<1>1. \A T, s : Total(f, T) = (CHOOSE sum : Adds(f, SUBSET T, sum))[T]
  BY DEF Total, MapThenSumSet, MapThenFoldSet, Adds, First
<1>2. PICK sum : Adds(f, SUBSET S, sum) /\ Total(f, S) = sum[S]
  BY <1>1, SumsExist
<1>3. sum[S] = IF S = {} THEN 0 ELSE f[First(S)] + sum[S \ {First(S)}]
  BY <1>2 DEF Adds
<1> DEFINE T == S \ {First(S)}
<1>4. IsFiniteSet(T) /\ T \subseteq S
  BY FS_Subset
<1>5. PICK rest : Adds(f, SUBSET T, rest) /\ Total(f, T) = rest[T]
  <2> HIDE DEF T
  <2> QED BY <1>1, <1>4, SumsExist
<1>6. sum[T] = rest[T]
  <2> HIDE DEF T
  <2> QED BY <1>2, <1>4, <1>5, SumsAgree
<1> QED BY <1>2, <1>3, <1>5, <1>6

LEMMA TotalIsNumber ==
  ASSUME NEW S, IsFiniteSet(S), NEW f, \A x \in S : f[x] \in Nat
  PROVE  \A s \in SUBSET S : Total(f, s) \in Nat
<1> DEFINE P == {s \in SUBSET S : Total(f, s) \in Nat}
<1>1. ASSUME NEW s \in SUBSET S, \A x \in s : s \ {x} \in P
      PROVE  s \in P
  <2>1. IsFiniteSet(s)
    BY FS_Subset
  <2>2. s # {} => First(s) \in s
    BY DEF First
  <2>3. s # {} => Total(f, s \ {First(s)}) \in Nat /\ f[First(s)] \in Nat
    BY <1>1, <2>2
  <2>4. Total(f, s) \in Nat
    <3>1. Total(f, s) = IF s = {} THEN 0 ELSE f[First(s)] + Total(f, s \ {First(s)})
      BY <2>1, TotalByFirst, Zenon
    <3> HIDE DEF P
    <3> QED BY <2>3, <3>1
  <2> QED BY <2>4
<1>2. \A s \in SUBSET S : s \in P
  <2> HIDE DEF P
  <2> QED BY <1>1, SubsetInduction
<1> QED BY <1>2

\* The elements may be taken in any order.
LEMMA TotalByAny ==
  ASSUME NEW S, IsFiniteSet(S), NEW f, \A x \in S : f[x] \in Nat
  PROVE  \A s \in SUBSET S : \A x \in s : Total(f, s) = f[x] + Total(f, s \ {x})
<1> DEFINE P == {s \in SUBSET S : \A x \in s : Total(f, s) = f[x] + Total(f, s \ {x})}
<1>0. \A s \in SUBSET S : Total(f, s) \in Nat
  BY TotalIsNumber
<1>1. ASSUME NEW s \in SUBSET S, \A x \in s : s \ {x} \in P, NEW x \in s
      PROVE  Total(f, s) = f[x] + Total(f, s \ {x})
  <2> DEFINE c == First(s)
             T == (s \ {c}) \ {x}
  <2>1. IsFiniteSet(s) /\ c \in s
    BY FS_Subset DEF First
  <2>2. Total(f, s) = f[c] + Total(f, s \ {c})
    BY <2>1, TotalByFirst
  <2>3. CASE x # c
    <3> HIDE DEF c
    <3>1. Total(f, s \ {c}) = f[x] + Total(f, T)
      BY <1>1, <2>1, <2>3
    <3>2. Total(f, s \ {x}) = f[c] + Total(f, T)
      <4>1. T = (s \ {x}) \ {c}
        OBVIOUS
      <4> HIDE DEF T
      <4> QED BY <1>1, <2>1, <2>3, <4>1
    <3>3. Total(f, T) \in Nat /\ f[x] \in Nat /\ f[c] \in Nat
      BY <1>0, <2>1
    <3> HIDE DEF T
    <3> QED BY <2>2, <3>1, <3>2, <3>3
  <2> QED BY <2>2, <2>3
<1>2. \A s \in SUBSET S : s \in P
  <2>1. \A s \in SUBSET S : (\A x \in s : s \ {x} \in P) => s \in P
    BY <1>1
  <2> HIDE DEF P
  <2> QED BY <2>1, SubsetInduction
<1> QED BY <1>2

\* A total of no elements.
LEMMA TotalOfNone ==
  ASSUME NEW f
  PROVE  Total(f, {}) = 0
BY FS_EmptySet, TotalByFirst

\* Greater parts have a greater total.
LEMMA TotalGrows ==
  ASSUME NEW S, IsFiniteSet(S), NEW f, NEW g,
         \A x \in S : f[x] \in Nat /\ g[x] \in Nat /\ f[x] <= g[x]
  PROVE  Total(f, S) <= Total(g, S)
<1> DEFINE P == {s \in SUBSET S : Total(f, s) <= Total(g, s)}
<1>0. \A s \in SUBSET S : Total(f, s) \in Nat /\ Total(g, s) \in Nat
  BY TotalIsNumber
<1>1. ASSUME NEW s \in SUBSET S, \A x \in s : s \ {x} \in P
      PROVE  Total(f, s) <= Total(g, s)
  <2>1. CASE s = {}
    BY <2>1, TotalOfNone
  <2>2. ASSUME NEW x \in s PROVE Total(f, s) <= Total(g, s)
    <3>1. /\ Total(f, s) = f[x] + Total(f, s \ {x})
          /\ Total(g, s) = g[x] + Total(g, s \ {x})
      BY TotalByAny
    <3>2. Total(f, s \ {x}) <= Total(g, s \ {x})
      BY <1>1
    <3>3. Total(f, s \ {x}) \in Nat /\ Total(g, s \ {x}) \in Nat
      BY <1>0
    <3> QED BY <3>1, <3>2, <3>3
  <2> QED BY <2>1, <2>2
<1>2. \A s \in SUBSET S : s \in P
  <2>1. \A s \in SUBSET S : (\A x \in s : s \ {x} \in P) => s \in P
    BY <1>1
  <2> HIDE DEF P
  <2> QED BY <2>1, SubsetInduction
<1> QED BY <1>2

\* Equal parts have equal totals.
LEMMA TotalDepends ==
  ASSUME NEW S, IsFiniteSet(S), NEW f, NEW g,
         \A x \in S : f[x] \in Nat /\ f[x] = g[x]
  PROVE  Total(f, S) = Total(g, S)
<1>1. Total(f, S) \in Nat /\ Total(g, S) \in Nat
  BY TotalIsNumber
<1>2. Total(f, S) <= Total(g, S) /\ Total(g, S) <= Total(f, S)
  BY TotalGrows
<1> QED BY <1>1, <1>2

\* A total over some elements, as one over all of them.
LEMMA TotalOfSome ==
  ASSUME NEW U, IsFiniteSet(U), NEW S \in SUBSET U, NEW f, \A x \in S : f[x] \in Nat
  PROVE  Total(f, S) = Total([x \in U |-> IF x \in S THEN f[x] ELSE 0], U)
<1> DEFINE g == [x \in U |-> IF x \in S THEN f[x] ELSE 0]
           P == {s \in SUBSET U : Total(g, s) = Total(f, s \cap S)}
<1>0. /\ IsFiniteSet(S)
      /\ \A s \in SUBSET S : Total(f, s) \in Nat
      /\ \A s \in SUBSET U : Total(g, s) \in Nat
  <2>1. IsFiniteSet(S) /\ \A x \in U : g[x] \in Nat
    BY FS_Subset
  <2> HIDE DEF g
  <2> QED BY <2>1, TotalIsNumber
<1>1. ASSUME NEW s \in SUBSET U, \A x \in s : s \ {x} \in P
      PROVE  Total(g, s) = Total(f, s \cap S)
  <2>1. CASE s = {}
    <3>1. s \cap S = {}
      BY <2>1
    <3> QED BY <2>1, <3>1, TotalOfNone
  <2>2. ASSUME NEW x \in s PROVE Total(g, s) = Total(f, s \cap S)
    <3>1. Total(g, s) = g[x] + Total(g, s \ {x})
      <4>1. \A y \in U : g[y] \in Nat
        OBVIOUS
      <4> HIDE DEF g
      <4> QED BY <4>1, TotalByAny
    <3>2. Total(g, s \ {x}) = Total(f, (s \ {x}) \cap S)
      BY <1>1
    <3>3. CASE x \in S
      <4>1. (s \ {x}) \cap S = (s \cap S) \ {x} /\ x \in s \cap S
        BY <3>3
      <4>2. Total(f, s \cap S) = f[x] + Total(f, (s \cap S) \ {x})
        BY <1>0, <4>1, TotalByAny
      <4>3. g[x] = f[x]
        BY <3>3
      <4> HIDE DEF g
      <4> QED BY <3>1, <3>2, <4>1, <4>2, <4>3
    <3>4. CASE x \notin S
      <4>1. (s \ {x}) \cap S = s \cap S
        BY <3>4
      <4>2. g[x] = 0
        BY <3>4
      <4>3. Total(f, s \cap S) \in Nat
        BY <1>0
      <4> HIDE DEF g
      <4>4. Total(g, s) = 0 + Total(f, s \cap S)
        BY <3>1, <3>2, <4>1, <4>2, Zenon
      <4> QED BY <4>3, <4>4
    <3> QED BY <3>3, <3>4
  <2> HIDE DEF P, g
  <2> QED BY <2>1, <2>2
<1>2. \A s \in SUBSET U : s \in P
  <2>1. \A s \in SUBSET U : (\A x \in s : s \ {x} \in P) => s \in P
    BY <1>1
  <2> HIDE DEF P
  <2> QED BY <2>1, SubsetInduction
<1>3. U \cap S = S
  OBVIOUS
<1> QED BY <1>2, <1>3

\* The total of two parts.
LEMMA TotalOfSum ==
  ASSUME NEW S, IsFiniteSet(S), NEW f, NEW g, NEW h,
         \A x \in S : f[x] \in Nat /\ g[x] \in Nat /\ h[x] = f[x] + g[x]
  PROVE  Total(h, S) = Total(f, S) + Total(g, S)
<1> DEFINE P == {s \in SUBSET S : Total(h, s) = Total(f, s) + Total(g, s)}
<1>0. \A s \in SUBSET S : Total(f, s) \in Nat /\ Total(g, s) \in Nat /\ Total(h, s) \in Nat
  BY TotalIsNumber
<1>1. ASSUME NEW s \in SUBSET S, \A x \in s : s \ {x} \in P
      PROVE  Total(h, s) = Total(f, s) + Total(g, s)
  <2>1. CASE s = {}
    BY <2>1, TotalOfNone
  <2>2. ASSUME NEW x \in s PROVE Total(h, s) = Total(f, s) + Total(g, s)
    <3>1. /\ Total(f, s) = f[x] + Total(f, s \ {x})
          /\ Total(g, s) = g[x] + Total(g, s \ {x})
      BY TotalByAny
    <3>2. Total(h, s) = h[x] + Total(h, s \ {x})
      <4>1. \A y \in S : h[y] \in Nat
        OBVIOUS
      <4> QED BY <4>1, TotalByAny
    <3>3. Total(h, s \ {x}) = Total(f, s \ {x}) + Total(g, s \ {x})
      BY <1>1
    <3>4. Total(f, s \ {x}) \in Nat /\ Total(g, s \ {x}) \in Nat /\ f[x] \in Nat /\ g[x] \in Nat
      BY <1>0
    <3> QED BY <3>1, <3>2, <3>3, <3>4
  <2> QED BY <2>1, <2>2
<1>2. \A s \in SUBSET S : s \in P
  <2>1. \A s \in SUBSET S : (\A x \in s : s \ {x} \in P) => s \in P
    BY <1>1
  <2> HIDE DEF P
  <2> QED BY <2>1, SubsetInduction
<1> QED BY <1>2

\* The elements may go by other names.
LEMMA TotalRenamed ==
  ASSUME NEW S, IsFiniteSet(S), NEW name, NEW f, NEW g,
         \A x, y \in S : name[x] = name[y] => x = y,
         \A x \in S : f[x] \in Nat /\ g[name[x]] = f[x]
  PROVE  Total(f, S) = Total(g, {name[x] : x \in S})
<1> DEFINE Named(s) == {name[x] : x \in s}
           P == {s \in SUBSET S : Total(f, s) = Total(g, Named(s))}
<1>0. IsFiniteSet(Named(S)) /\ \A y \in Named(S) : g[y] \in Nat
  <2>1. IsFiniteSet(Named(S))
    <3> DEFINE named == [x \in S |-> name[x]]
    <3>1. named \in Surjection(S, Named(S))
      BY DEF Surjection
    <3> HIDE DEF named, Named
    <3> QED BY <3>1, FS_Surjection
  <2> QED BY <2>1
<1>1. ASSUME NEW s \in SUBSET S, \A x \in s : s \ {x} \in P
      PROVE  Total(f, s) = Total(g, Named(s))
  <2>1. CASE s = {}
    <3>1. Named(s) = {}
      BY <2>1
    <3> QED BY <2>1, <3>1, TotalOfNone
  <2>2. ASSUME NEW x \in s PROVE Total(f, s) = Total(g, Named(s))
    <3>1. Total(f, s) = f[x] + Total(f, s \ {x})
      BY TotalByAny
    <3>2. Named(s) \in SUBSET Named(S) /\ name[x] \in Named(s)
      OBVIOUS
    <3>3. Named(s \ {x}) = Named(s) \ {name[x]}
      OBVIOUS
    <3>4. Total(f, s \ {x}) = Total(g, Named(s \ {x}))
      BY <1>1
    <3>5. Total(g, Named(s)) = g[name[x]] + Total(g, Named(s) \ {name[x]})
      <4> HIDE DEF Named
      <4> QED BY <1>0, <3>2, TotalByAny
    <3>6. g[name[x]] = f[x]
      OBVIOUS
    <3> HIDE DEF Named
    <3> QED BY <3>1, <3>3, <3>4, <3>5, <3>6
  <2> QED BY <2>1, <2>2
<1>2. \A s \in SUBSET S : s \in P
  <2>1. \A s \in SUBSET S : (\A x \in s : s \ {x} \in P) => s \in P
    BY <1>1
  <2> HIDE DEF P
  <2> QED BY <2>1, SubsetInduction
<1> QED BY <1>2

-----------------------------------------------------------------------------
(* The supply.                                                             *)

\* First come, first served never gives more than there is.
LEMMA FixedFits ==
  ASSUME NEW n \in Nat, NEW requests \in [1..n -> Bid], NEW stock \in Nat,
         NEW g \in FixedGrants(requests, stock)
  PROVE  Total(g, 1..n) <= stock
<1> DEFINE Over == {k \in 0..n : ~ (Total(g, 1..k) <= stock)}
<1>1. /\ IsFiniteSet(1..n)
      /\ \A k \in 1..n : g[k] \in Nat /\ requests[k].tokens \in Nat
  <2>1. g \in [1..n -> 0..MaxTokens]
    BY DEF FixedGrants, Grants
  <2>2. \A k \in 1..n : requests[k] \in Bid
    OBVIOUS
  <2>3. \A k \in 1..n : g[k] \in Nat
    BY <2>1, PolicyAssumption
  <2>4. \A k \in 1..n : requests[k].tokens \in Nat
    BY <2>2, PolicyAssumption DEF Bid
  <2> QED BY <2>3, <2>4, FS_Interval
<1>2. \A k \in 0..n : Total(g, 1..k) \in Nat
  <2>1. \A k \in 0..n : 1..k \in SUBSET (1..n)
    OBVIOUS
  <2> QED BY <1>1, <2>1, TotalIsNumber
<1>3. ASSUME NEW m \in Over, \A k \in Over : m <= k PROVE FALSE
  <2>1. m \in 0..n /\ ~ (Total(g, 1..m) <= stock)
    OBVIOUS
  <2>2. m # 0
    <3>1. 1..0 = {}
      OBVIOUS
    <3> QED BY <2>1, <3>1, TotalOfNone
  <2> DEFINE left == stock - Total(g, 1..(m - 1))
  <2>3. m - 1 \in 0..n /\ Total(g, 1..(m - 1)) <= stock
    <3>1. m - 1 \in 0..n /\ ~ (m <= m - 1)
      BY <2>1, <2>2
    <3>2. m - 1 \notin Over
      <4> HIDE DEF Over
      <4> QED BY <1>3, <3>1
    <3> QED BY <3>1, <3>2
  <2>4. left \in Nat
    BY <1>2, <2>3
  <2>5. g[m] = FixedGrant(requests[m], left)
    BY <2>1, <2>2 DEF FixedGrants
  <2>6. g[m] <= left
    <3>1. m \in 1..n
      BY <2>1, <2>2
    <3> HIDE DEF left
    <3> QED BY <1>1, <2>4, <2>5, <3>1 DEF FixedGrant, Lesser, Greater
  <2>7. Total(g, 1..m) = g[m] + Total(g, 1..(m - 1))
    <3>1. 1..m \in SUBSET (1..n) /\ m \in 1..m /\ (1..m) \ {m} = 1..(m - 1)
      BY <2>1, <2>2
    <3>2. Total(g, 1..m) = g[m] + Total(g, (1..m) \ {m})
      BY <1>1, <3>1, TotalByAny
    <3> QED BY <3>1, <3>2
  <2>8. g[m] \in Nat /\ Total(g, 1..(m - 1)) \in Nat
    BY <1>1, <1>2, <2>1, <2>2, <2>3
  <2> QED BY <2>1, <2>6, <2>7, <2>8
<1>4. Over = {}
  <2>1. Over \subseteq Nat
    OBVIOUS
  <2> HIDE DEF Over
  <2> QED BY <1>3, <2>1, LeastNumber
<1>5. n \notin Over
  BY <1>4
<1> QED BY <1>5

\* The clearing shares no more than there is, and nobody gets anything outside.
LEMMA MarketFits ==
  ASSUME NEW D, IsFiniteSet(D), NEW requests \in [D -> Bid], NEW stock \in Nat,
         NEW g \in MarketGrants(requests, stock)
  PROVE  Total(g, D) <= stock
<1>1. PICK passed \in Admissions(requests, stock) : g \in Cleared(requests, stock, passed)
  BY DEF MarketGrants
<1> DEFINE served == Clearing(requests, passed)
           asked == [i \in served |-> requests[i].tokens]
<1>2. served \in SUBSET D
  BY DEF Clearing
<1>3. \A i \in D : g[i] \in Nat /\ requests[i].tokens \in Nat
  BY <1>1, PolicyAssumption DEF Cleared, Grants, Bid
<1>4. Total(asked, served) \in Nat
  <2>1. IsFiniteSet(served)
    BY <1>2, FS_Subset
  <2>2. \A i \in served : asked[i] \in Nat
    BY <1>2, <1>3
  <2> HIDE DEF served, asked
  <2> QED BY <2>1, <2>2, TotalIsNumber
<1>5. Total(g, served) = Lesser(stock, Total(asked, served))
  BY <1>1 DEF Cleared
<1>6. Total(g, served) <= stock
  <2> HIDE DEF served, asked
  <2> QED BY <1>4, <1>5 DEF Lesser
<1>7. \A i \in D \ served : g[i] = 0
  BY <1>1 DEF Cleared
<1>8. Total(g, served) = Total(g, D)
  <2> DEFINE h == [i \in D |-> IF i \in served THEN g[i] ELSE 0]
  <2>1. \A i \in D : g[i] \in Nat /\ g[i] = h[i]
    BY <1>3, <1>7
  <2>2. Total(g, served) = Total(h, D)
    <3> HIDE DEF served
    <3> QED BY <1>2, <1>3, TotalOfSome
  <2>3. Total(g, D) = Total(h, D)
    <3> HIDE DEF h
    <3> QED BY <2>1, TotalDepends
  <2> QED BY <2>2, <2>3
<1> QED BY <1>6, <1>8

\* A policy with a limit to keep gives no more than it is offered.
LEMMA AllocateFits ==
  ASSUME Mode # "unlimited", NEW n \in Nat, NEW requests \in [1..n -> Bid],
         NEW context, Limited(context), context.available \in Nat,
         NEW d \in Allocate(Mode, requests, context)
  PROVE  /\ \A k \in 1..n : d[k].tokens \in Nat
         /\ Total([k \in 1..n |-> d[k].tokens], 1..n) <= context.available
<1>1. PICK g \in FixedGrants(requests, context.available) \cup MarketGrants(requests, context.available) :
        d = Decided(requests, g)
  BY MarketAssumption DEF Allocate, Modes
<1>2. IsFiniteSet(1..n)
  BY FS_Interval
<1>3. Total(g, 1..n) <= context.available
  BY <1>1, <1>2, FixedFits, MarketFits
<1>4. \A k \in 1..n : g[k] \in Nat /\ d[k].tokens = g[k]
  <2>1. g \in [1..n -> 0..MaxTokens]
    BY <1>1 DEF FixedGrants, MarketGrants, Cleared, Grants
  <2>2. \A k \in 1..n : d[k].tokens = g[k]
    BY <1>1 DEF Decided
  <2> QED BY <2>1, <2>2, PolicyAssumption
<1>5. Total([k \in 1..n |-> d[k].tokens], 1..n) = Total(g, 1..n)
  <2> DEFINE t == [k \in 1..n |-> d[k].tokens]
  <2>1. \A k \in 1..n : t[k] \in Nat /\ t[k] = g[k]
    BY <1>4
  <2>2. Total(t, 1..n) = Total(g, 1..n)
    <3> HIDE DEF t
    <3> QED BY <1>2, <2>1, TotalDepends
  <2> QED BY <2>2
<1> QED BY <1>3, <1>4, <1>5

\* What each allocation has reserved, and has used outside the session.
Pledge == [i \in Ids |-> IF i \in Active THEN Room[i] ELSE 0]
Outside == [i \in Ids |-> IF i \in {j \in Ids : external[j]} THEN consumed[i] ELSE 0]

Supply ==
  /\ Reserved = Total(Pledge, Ids) /\ Reserved \in Nat
  /\ EffectiveUsed = used + Total(Outside, Ids) /\ EffectiveUsed \in Nat
  /\ \A i \in Ids : Pledge[i] \in Nat /\ Room[i] \in Nat /\ Outside[i] \in Nat

LEMMA SupplyFacts == TypeOK => Supply
<1> SUFFICES ASSUME TypeOK PROVE Supply
  OBVIOUS
<1>1. IsFiniteSet(Ids)
  BY MarketAssumption, FS_Interval DEF Ids
<1>2. \A i \in Ids : Room[i] \in Nat /\ consumed[i] \in Nat
  BY DEF TypeOK, Room, Greater
<1>3. Active \in SUBSET Ids /\ {j \in Ids : external[j]} \in SUBSET Ids
  BY DEF Active
<1>4. Reserved = Total(Pledge, Ids)
  BY <1>1, <1>2, <1>3, TotalOfSome DEF Reserved, Pledge
<1>5. EffectiveUsed = used + Total(Outside, Ids)
  BY <1>1, <1>2, <1>3, TotalOfSome DEF EffectiveUsed, Outside
<1>6. \A i \in Ids : Pledge[i] \in Nat /\ Outside[i] \in Nat
  BY <1>2 DEF Pledge, Outside
<1>7. Total(Pledge, Ids) \in Nat /\ Total(Outside, Ids) \in Nat
  BY <1>1, <1>6, TotalIsNumber
<1> QED BY <1>2, <1>4, <1>5, <1>6, <1>7 DEF TypeOK, Supply

\* The same of the next state, and what both have in common.
LEMMA SupplyMoves ==
  ASSUME TypeOK, TypeOK'
  PROVE  /\ Reserved' = Total(Pledge', Ids) /\ Reserved' \in Nat
         /\ EffectiveUsed' \in Nat
         /\ \A i \in Ids : Pledge'[i] \in Nat /\ Room'[i] \in Nat
         /\ (\A i \in Ids : Pledge'[i] <= Pledge[i]) => Reserved' <= Reserved
         /\ used' = used /\ (\A i \in Ids : Outside'[i] = Outside[i]) => EffectiveUsed' = EffectiveUsed
<1>1. IsFiniteSet(Ids)
  BY MarketAssumption, FS_Interval DEF Ids
<1>2. /\ Reserved = Total(Pledge, Ids) /\ EffectiveUsed = used + Total(Outside, Ids)
      /\ \A i \in Ids : Pledge[i] \in Nat /\ Outside[i] \in Nat
  BY SupplyFacts DEF Supply
<1>3. /\ Reserved' = Total(Pledge', Ids) /\ Reserved' \in Nat
      /\ EffectiveUsed' = used' + Total(Outside', Ids) /\ EffectiveUsed' \in Nat
      /\ \A i \in Ids : Pledge'[i] \in Nat /\ Room'[i] \in Nat /\ Outside'[i] \in Nat
  <2>1. Supply'
    BY SupplyFacts, PTL
  <2> QED BY <2>1 DEF Supply
<1>4. (\A i \in Ids : Pledge'[i] <= Pledge[i]) => Reserved' <= Reserved
  BY <1>1, <1>2, <1>3, TotalGrows
<1>5. used' = used /\ (\A i \in Ids : Outside'[i] = Outside[i]) => EffectiveUsed' = EffectiveUsed
  BY <1>1, <1>2, <1>3, TotalDepends
<1> QED BY <1>3, <1>4, <1>5

\* What GrantsWithinSupply asks of a step.
StepFits == limit # NoLimit /\ Reserved' > Reserved => EffectiveUsed' + Reserved' <= limit

\* A step that opens no allocation, gives none anything and takes no consumption
\* back reserves no more.
LEMMA QuietStepFits ==
  ASSUME TypeOK, TypeOK',
         \A i \in Ids : status'[i] = "granted" =>
           status[i] = "granted" /\ allocated'[i] <= allocated[i] /\ consumed'[i] >= consumed[i]
  PROVE  StepFits
<1>1. \A i \in Ids : Pledge'[i] <= Pledge[i]
  <2> TAKE i \in Ids
  <2>1. /\ Pledge'[i] = IF status'[i] = "granted" THEN Greater(0, allocated'[i] - consumed'[i]) ELSE 0
        /\ Pledge[i] = IF status[i] = "granted" THEN Greater(0, allocated[i] - consumed[i]) ELSE 0
    BY DEF Pledge, Active, Room
  <2>2. /\ allocated[i] \in Nat /\ consumed[i] \in Nat
        /\ allocated'[i] \in Nat /\ consumed'[i] \in Nat
    BY DEF TypeOK
  <2> QED BY <2>1, <2>2 DEF Greater
<1>2. Reserved' <= Reserved /\ Reserved \in Nat /\ Reserved' \in Nat
  BY <1>1, SupplyMoves, SupplyFacts DEF Supply
<1> QED BY <1>2 DEF StepFits

\* The supply as a policy is offered it.
LEMMA SupplyIsWhatIsLeft ==
  ASSUME TypeOK, limit # NoLimit
  PROVE  /\ limit \in Nat
         /\ Available \in Nat
         /\ Available > 0 => Available = limit - EffectiveUsed - Reserved
         /\ Beyond(EffectiveUsed) \in Nat
         /\ Beyond(EffectiveUsed) > 0 => Beyond(EffectiveUsed) = limit - EffectiveUsed
<1>1. limit \in Nat
  BY MarketAssumption DEF TypeOK
<1>2. EffectiveUsed \in Nat /\ Reserved \in Nat
  BY SupplyFacts DEF Supply
<1> QED BY <1>1, <1>2 DEF Available, Beyond, Greater

LEMMA AugmentFits ==
  ASSUME IInv, IInv', NEW i \in Ids, NEW requested \in Int, NEW minimum \in Int,
         Augment(i, requested, minimum)
  PROVE  StepFits
<1> SUFFICES ASSUME limit # NoLimit, Reserved' > Reserved
             PROVE  EffectiveUsed' + Reserved' <= limit
  BY DEF StepFits
<1>0. TypeOK /\ TypeOK' /\ StatusTellsOverrun
  BY DEF IInv
<1>1. PICK n \in Greater(1, minimum)..requested :
        /\ n = Continuation(i, requested)
        /\ allocated' = [allocated EXCEPT ![i] = @ + n]
        /\ status' = [status EXCEPT ![i] = Reopened(i, n)]
  BY DEF Augment
<1>2. n \in Nat /\ n >= 1
  BY DEF Greater
<1>3. Open(i) /\ UNCHANGED <<limit, used, external, consumed>>
  BY DEF Augment, sessionVars
<1>4. n <= limit - EffectiveUsed - Reserved
  <2>1. n <= Available /\ Available > 0
    BY <1>0, <1>1, <1>2, SupplyIsWhatIsLeft DEF Continuation, Lesser
  <2> QED BY <1>0, <2>1, SupplyIsWhatIsLeft
<1>5. Pledge'[i] <= Pledge[i] + n
  <2>1. allocated'[i] = allocated[i] + n /\ status'[i] = Reopened(i, n)
    BY <1>0, <1>1 DEF TypeOK
  <2>2. /\ Pledge'[i] = IF status'[i] = "granted" THEN Greater(0, allocated'[i] - consumed[i]) ELSE 0
        /\ Pledge[i] = IF status[i] = "granted" THEN Greater(0, allocated[i] - consumed[i]) ELSE 0
    BY <1>3 DEF Pledge, Active, Room
  <2>3. allocated[i] \in Nat /\ consumed[i] \in Nat
    BY <1>0 DEF TypeOK
  <2>4. status[i] = "granted" \/ consumed[i] > allocated[i]
    BY <1>0, <1>3 DEF Open, StatusTellsOverrun
  <2> QED BY <1>2, <2>1, <2>2, <2>3, <2>4 DEF Greater
<1>6. \A j \in Ids \ {i} : Pledge'[j] = Pledge[j]
  <2> TAKE j \in Ids \ {i}
  <2>1. allocated'[j] = allocated[j] /\ status'[j] = status[j]
    BY <1>0, <1>1 DEF TypeOK
  <2> QED BY <1>3, <2>1 DEF Pledge, Active, Room
<1>7. Reserved' <= Reserved + n
  <2>1. /\ Reserved = Total(Pledge, Ids) /\ Reserved' = Total(Pledge', Ids)
        /\ \A j \in Ids : Pledge[j] \in Nat /\ Pledge'[j] \in Nat
    BY <1>0, SupplyFacts, SupplyMoves DEF Supply
  <2>2. IsFiniteSet(Ids) /\ IsFiniteSet(Ids \ {i}) /\ Ids \in SUBSET Ids /\ Ids \ {i} \in SUBSET Ids
    <3>1. IsFiniteSet(Ids)
      BY MarketAssumption, FS_Interval DEF Ids
    <3> QED BY <3>1, FS_Subset
  <2>3. /\ Total(Pledge, Ids) = Pledge[i] + Total(Pledge, Ids \ {i})
        /\ Total(Pledge', Ids) = Pledge'[i] + Total(Pledge', Ids \ {i})
    BY <2>1, <2>2, TotalByAny
  <2>4. Total(Pledge', Ids \ {i}) = Total(Pledge, Ids \ {i})
    BY <1>6, <2>1, <2>2, TotalDepends
  <2>5. Total(Pledge, Ids \ {i}) \in Nat
    BY <2>1, <2>2, TotalIsNumber
  <2> QED BY <1>2, <1>5, <2>1, <2>3, <2>4, <2>5
<1>8. EffectiveUsed' = EffectiveUsed
  <2>1. Outside' = Outside
    BY <1>3 DEF Outside
  <2> QED BY <1>0, <1>3, <2>1, SupplyMoves
<1>9. EffectiveUsed \in Nat /\ Reserved \in Nat /\ Reserved' \in Nat /\ limit \in Nat
  BY <1>0, SupplyFacts, SupplyMoves, SupplyIsWhatIsLeft DEF Supply
<1>10. EffectiveUsed + Reserved' <= limit
  <2>1. \A l, e, r, s, k \in Nat : k <= l - e - r /\ s <= r + k => e + s <= l
    OBVIOUS
  <2>2. n <= limit - EffectiveUsed - Reserved /\ Reserved' <= Reserved + n
    BY <1>4, <1>7
  <2>3. n \in Nat /\ EffectiveUsed \in Nat /\ Reserved \in Nat
    BY <1>2, <1>9
  <2>4. Reserved' \in Nat /\ limit \in Nat
    BY <1>9
  <2> HIDE DEF EffectiveUsed
  <2> QED BY <2>1, <2>2, <2>3, <2>4
<1> QED BY <1>8, <1>10

LEMMA RequestManyFits ==
  ASSUME Mode # "unlimited", IInv, IInv', NEW batch \in Seq(Bid), NEW runtime, RequestMany(batch, runtime)
  PROVE  StepFits
<1> SUFFICES ASSUME limit # NoLimit, Reserved' > Reserved
             PROVE  EffectiveUsed' + Reserved' <= limit
  BY DEF StepFits
<1> DEFINE n == Len(batch)
           made == (issued + 1)..(issued + n)
<1>0. TypeOK /\ TypeOK' /\ Unissued
  BY DEF IInv
<1>1. n \in Nat /\ issued \in Nat /\ made \subseteq Ids
  BY <1>0 DEF TypeOK, RequestMany
<1>2. UNCHANGED <<limit, used, consumed>>
  BY DEF RequestMany, sessionVars
<1>3. PICK requests, d :
        /\ requests \in [1..n -> Bid]
        /\ d \in Allocate(Mode, requests, Offered)
        /\ \A i \in Ids :
             IF i \in made
             THEN /\ i - issued \in 1..n
                  /\ \/ status'[i] = "granted" /\ allocated'[i] = d[i - issued].tokens
                     \/ status'[i] = "denied" /\ allocated'[i] = 0
             ELSE /\ status'[i] = status[i]
                  /\ allocated'[i] = allocated[i]
  BY RequestManyMakes
<1> DEFINE answer == [k \in 1..n |-> d[k].tokens]
           given == [i \in made |-> d[i - issued].tokens]
           more == [i \in Ids |-> IF i \in made THEN given[i] ELSE 0]
           both == [i \in Ids |-> Pledge[i] + more[i]]
<1>4. /\ \A k \in 1..n : d[k].tokens \in Nat
      /\ Total(answer, 1..n) <= Available
  <2>1. Offered.available = Available /\ Limited(Offered)
    BY DEF Offered, Limited
  <2>2. Available \in Nat
    BY <1>0, SupplyIsWhatIsLeft
  <2> QED BY <1>1, <1>3, <2>1, <2>2, AllocateFits
<1>5. \A i \in made : status[i] = "none" /\ consumed[i] = 0 /\ i - issued \in 1..n /\ given[i] \in Nat
  <2>1. \A i \in made : status[i] = "none" /\ consumed[i] = 0
    BY <1>0, <1>1 DEF Unissued
  <2>2. \A i \in made : i - issued \in 1..n
    BY <1>1
  <2> QED BY <1>4, <2>1, <2>2
<1>6. IsFiniteSet(Ids)
  BY MarketAssumption, FS_Interval DEF Ids
<1>7. Total(more, Ids) = Total(answer, 1..n)
  <2> DEFINE place == [i \in made |-> i - issued]
  <2>1. Total(given, made) = Total(more, Ids)
    <3>1. made \in SUBSET Ids /\ \A i \in made : given[i] \in Nat
      BY <1>1, <1>5
    <3> HIDE DEF given, made
    <3> QED BY <1>6, <3>1, TotalOfSome
  <2>2. Total(given, made) = Total(answer, {place[i] : i \in made})
    <3>1. IsFiniteSet(made)
      BY <1>1, FS_Interval
    <3>2. \A i, j \in made : place[i] = place[j] => i = j
      BY <1>1
    <3>3. \A i \in made : given[i] \in Nat /\ answer[place[i]] = given[i]
      BY <1>5
    <3> HIDE DEF given, answer, place, made
    <3> QED BY <3>1, <3>2, <3>3, TotalRenamed
  <2>3. {place[i] : i \in made} = 1..n
    <3>1. \A k \in 1..n : k + issued \in made /\ place[k + issued] = k
      BY <1>1
    <3>2. \A i \in made : place[i] \in 1..n
      BY <1>5
    <3> HIDE DEF place, made
    <3> QED BY <3>1, <3>2
  <2> HIDE DEF given, answer, place, made, more
  <2> QED BY <2>1, <2>2, <2>3
<1>8. \A i \in Ids : Pledge[i] \in Nat /\ Pledge'[i] \in Nat /\ more[i] \in Nat
  BY <1>0, <1>5, SupplyFacts, SupplyMoves DEF Supply
<1>9. \A i \in Ids : Pledge'[i] <= Pledge[i] + more[i]
  <2> TAKE i \in Ids
  <2>1. Pledge'[i] = IF status'[i] = "granted" THEN Greater(0, allocated'[i] - consumed[i]) ELSE 0
    BY <1>2 DEF Pledge, Active, Room
  <2>2. CASE i \in made
    <3>1. Pledge[i] = 0
      BY <1>5, <2>2 DEF Pledge, Active
    <3>2. Pledge'[i] = 0 \/ Pledge'[i] = Greater(0, given[i] - 0)
      BY <1>3, <1>5, <2>1, <2>2
    <3> QED BY <1>5, <2>2, <3>1, <3>2 DEF Greater
  <2>3. CASE i \notin made
    <3>1. status'[i] = status[i] /\ allocated'[i] = allocated[i]
      BY <1>3, <2>3
    <3>2. Pledge'[i] = Pledge[i] /\ more[i] = 0
      BY <2>1, <2>3, <3>1 DEF Pledge, Active, Room
    <3> QED BY <1>8, <3>2
  <2> QED BY <2>2, <2>3
<1>10. Reserved' <= Reserved + Total(more, Ids)
  <2>1. \A i \in Ids : both[i] \in Nat /\ both[i] = Pledge[i] + more[i] /\ Pledge'[i] <= both[i]
    BY <1>8, <1>9
  <2>2. Total(both, Ids) = Total(Pledge, Ids) + Total(more, Ids)
    <3> HIDE DEF both, more
    <3> QED BY <1>6, <1>8, <2>1, TotalOfSum
  <2>3. Total(Pledge', Ids) <= Total(both, Ids)
    <3> HIDE DEF both, more
    <3> QED BY <1>6, <1>8, <2>1, TotalGrows
  <2>4. Reserved = Total(Pledge, Ids) /\ Reserved' = Total(Pledge', Ids)
    BY <1>0, SupplyFacts, SupplyMoves DEF Supply
  <2> HIDE DEF both, more
  <2> QED BY <2>2, <2>3, <2>4
<1>11. EffectiveUsed' = EffectiveUsed
  <2>1. \A i \in Ids : Outside'[i] = Outside[i]
    <3> TAKE i \in Ids
    <3>1. i \notin made => external'[i] = external[i]
      BY DEF RequestMany
    <3> QED BY <1>2, <1>5, <3>1 DEF Outside
  <2> QED BY <1>0, <1>2, <2>1, SupplyMoves
<1>12. EffectiveUsed \in Nat /\ Reserved \in Nat /\ Reserved' \in Nat /\ limit \in Nat
  BY <1>0, SupplyFacts, SupplyMoves, SupplyIsWhatIsLeft DEF Supply
<1>13. EffectiveUsed + Reserved' <= limit
  <2> HIDE DEF more, answer
  <2>1. \A l, e, r, s, k \in Nat : k <= l - e - r /\ s <= r + k => e + s <= l
    OBVIOUS
  <2>2. Total(more, Ids) \in Nat
    BY <1>6, <1>8, TotalIsNumber
  <2>3. Total(more, Ids) > 0
    BY <1>10, <1>12, <2>2
  <2>4. Total(more, Ids) <= Available /\ Available \in Nat
    BY <1>0, <1>4, <1>7, SupplyIsWhatIsLeft
  <2>5. Available > 0
    BY <2>2, <2>3, <2>4
  <2>6. Total(more, Ids) <= limit - EffectiveUsed - Reserved
    BY <1>0, <2>4, <2>5, SupplyIsWhatIsLeft
  <2> QED BY <1>10, <1>12, <2>1, <2>2, <2>6
<1> QED BY <1>11, <1>13

\* The places of the active allocations are the first numbers.
LEMMA PositionsAreNumbered ==
  ASSUME TypeOK
  PROVE  /\ IsFiniteSet(Active) /\ Cardinality(Active) \in Nat
         /\ Positions = 1..Cardinality(Active)
<1> DEFINE n == Cardinality(Active)
           place == [i \in Active |-> Position(i)]
<1>1. IsFiniteSet(Active)
  <2>1. IsFiniteSet(Ids)
    BY MarketAssumption, FS_Interval DEF Ids
  <2> QED BY <2>1, FS_Subset DEF Active
<1>2. place \in Injection(Active, 1..n) /\ n \in Nat
  BY PositionsAreDistinct DEF Injection, IsInjective
<1>3. Cardinality(1..n) = n
  BY <1>2, FS_Interval
<1>4. place \in Surjection(Active, 1..n)
  <2>1. Cardinality(Active) = Cardinality(1..n) /\ IsFiniteSet(1..n)
    BY <1>2, <1>3, FS_Interval
  <2> HIDE DEF place, n
  <2> QED BY <1>2, <2>1, FS_Injection
<1>5. Positions = {place[i] : i \in Active}
  BY DEF Positions
<1>6. {place[i] : i \in Active} = 1..n
  <2> HIDE DEF place
  <2>1. \A k \in 1..n : \E i \in Active : place[i] = k
    BY <1>4 DEF Surjection
  <2>2. \A i \in Active : place[i] \in 1..n
    BY <1>4 DEF Surjection
  <2> QED BY <2>1, <2>2
<1> QED BY <1>1, <1>2, <1>5, <1>6

LEMMA RebalanceStepFits ==
  ASSUME Mode # "unlimited", IInv, IInv', Rebalance
  PROVE  StepFits
<1> SUFFICES ASSUME limit # NoLimit, Reserved' > Reserved
             PROVE  EffectiveUsed' + Reserved' <= limit
  BY DEF StepFits
<1> DEFINE n == Cardinality(Active)
<1>0. TypeOK /\ TypeOK'
  BY DEF IInv
<1>1. UNCHANGED <<limit, used, status, external, consumed>>
  BY DEF Rebalance, sessionVars
<1>2. /\ IsFiniteSet(Active) /\ n \in Nat /\ Positions = 1..n
      /\ \A i \in Active : Position(i) \in 1..n
      /\ \A i, j \in Active : Position(i) = Position(j) => i = j
  BY <1>0, PositionsAreNumbered, PositionsAreDistinct
<1>3. PICK d \in Allocate(Mode, ActiveBids, WholeSupply) :
        allocated' = [i \in Ids |-> IF i \in Active THEN Rebalanced(i, d) ELSE allocated[i]]
  BY DEF Rebalance
<1>4. ActiveBids \in [1..n -> Bid]
  <2>1. \A k \in Positions : bid[CHOOSE i \in Active : Position(i) = k] \in Bid
    BY <1>0 DEF Positions, TypeOK, Active
  <2> QED BY <1>2, <2>1 DEF ActiveBids
<1> DEFINE answer == [k \in 1..n |-> d[k].tokens]
           given == [i \in Active |-> d[Position(i)].tokens]
           place == [i \in Active |-> Position(i)]
<1>5. /\ \A k \in 1..n : d[k].tokens \in Nat
      /\ Total(answer, 1..n) <= Beyond(EffectiveUsed)
  <2>1. WholeSupply.available = Beyond(EffectiveUsed) /\ Limited(WholeSupply)
    BY DEF WholeSupply, Limited
  <2>2. Beyond(EffectiveUsed) \in Nat
    BY <1>0, SupplyIsWhatIsLeft
  <2> HIDE DEF n
  <2> QED BY <1>2, <1>3, <1>4, <2>1, <2>2, AllocateFits
<1>6. Total(given, Active) = Total(answer, 1..n)
  <2>1. \A i \in Active : given[i] \in Nat /\ answer[place[i]] = given[i]
    BY <1>2, <1>5
  <2>2. \A i, j \in Active : place[i] = place[j] => i = j
    BY <1>2
  <2>3. {place[i] : i \in Active} = Positions
    BY DEF Positions
  <2> HIDE DEF given, answer, place
  <2>4. Total(given, Active) = Total(answer, {place[i] : i \in Active})
    BY <1>2, <2>1, <2>2, TotalRenamed
  <2> QED BY <1>2, <2>3, <2>4
<1>7. \A i \in Active : Room'[i] \in Nat /\ given[i] \in Nat /\ Room'[i] <= given[i]
  <2> TAKE i \in Active
  <2>1. i \in Ids /\ consumed[i] \in Nat /\ given[i] \in Nat /\ given[i] = d[Position(i)].tokens
    BY <1>0, <1>2, <1>5 DEF Active, TypeOK
  <2>2. Room'[i] = Greater(0, Greater(consumed[i], d[Position(i)].tokens) - consumed[i])
    BY <1>1, <1>3, <2>1 DEF Room, Rebalanced
  <2> HIDE DEF given
  <2> QED BY <2>1, <2>2 DEF Greater
<1>8. Reserved' = Total(Room', Active)
  <2>1. Active' = Active
    BY <1>1 DEF Active
  <2> QED BY <2>1 DEF Reserved
<1>9. Reserved' <= Beyond(EffectiveUsed)
  <2> HIDE DEF given, answer
  <2>1. Total(Room', Active) <= Total(given, Active)
    BY <1>2, <1>7, TotalGrows
  <2>2. Total(Room', Active) \in Nat /\ Total(given, Active) \in Nat
    BY <1>2, <1>7, TotalIsNumber
  <2>3. Beyond(EffectiveUsed) \in Nat
    BY <1>0, SupplyIsWhatIsLeft
  <2>4. \A a, b, c \in Nat : a <= b /\ b <= c => a <= c
    OBVIOUS
  <2>5. Total(given, Active) <= Beyond(EffectiveUsed)
    BY <1>5, <1>6
  <2> QED BY <1>8, <2>1, <2>2, <2>3, <2>4, <2>5
<1>10. EffectiveUsed' = EffectiveUsed
  <2>1. Outside' = Outside
    BY <1>1 DEF Outside
  <2> QED BY <1>0, <1>1, <2>1, SupplyMoves
<1>11. EffectiveUsed \in Nat /\ Reserved \in Nat /\ Reserved' \in Nat /\ limit \in Nat
  BY <1>0, SupplyFacts, SupplyMoves, SupplyIsWhatIsLeft DEF Supply
<1>12. EffectiveUsed + Reserved' <= limit
  <2>1. \A l, e, r, s, b \in Nat : s > r /\ s <= b /\ (b > 0 => b = l - e) => e + s <= l
    OBVIOUS
  <2>2. /\ Beyond(EffectiveUsed) \in Nat
        /\ Beyond(EffectiveUsed) > 0 => Beyond(EffectiveUsed) = limit - EffectiveUsed
    BY <1>0, SupplyIsWhatIsLeft
  <2> QED BY <1>9, <1>11, <2>1, <2>2
<1> QED BY <1>10, <1>12

LEMMA StepFitsSupply ==
  ASSUME Mode # "unlimited", IInv, [Next]_vars
  PROVE  StepFits
<1>0. IInv' /\ TypeOK /\ TypeOK'
  BY StepInv DEF IInv
<1>1. ASSUME NEW batch \in Batches, NEW runtime \in BOOLEAN, RequestMany(batch, runtime)
      PROVE  StepFits
  BY <1>0, <1>1, RequestManyFits, MarketAssumption
<1>2. ASSUME NEW i \in Ids, NEW requested \in Amounts, NEW minimum \in Amounts,
             Augment(i, requested, minimum)
      PROVE  StepFits
  BY <1>0, <1>2, AugmentFits, MarketAssumption
<1>3. ASSUME NEW i \in Ids, AssignRequester(i) \/ Release(i)
      PROVE  StepFits
  <2>1. \A j \in Ids : /\ status'[j] = "granted" => status[j] = "granted"
                       /\ allocated'[j] = allocated[j] /\ consumed'[j] = consumed[j]
    BY <1>0, <1>3 DEF AssignRequester, Release, TypeOK
  <2>2. \A j \in Ids : allocated[j] \in Nat /\ consumed[j] \in Nat
    BY <1>0 DEF TypeOK
  <2> QED BY <1>0, <2>1, <2>2, QuietStepFits
<1>4. ASSUME NEW i \in Ids, NEW n \in Amounts, Consume(i, n) \/ Settle(i, n)
      PROVE  StepFits
  <2>1. \A j \in Ids : /\ status'[j] = "granted" => status[j] = "granted"
                       /\ allocated'[j] = allocated[j]
    BY <1>0, <1>4 DEF Consume, Consumed, Settle, TypeOK
  <2>2. \A j \in Ids : allocated[j] \in Nat /\ consumed'[j] >= consumed[j]
    BY <1>0, StepOnAccounts DEF TypeOK
  <2> QED BY <1>0, <2>1, <2>2, QuietStepFits
<1>5. ASSUME (\E n \in Amounts : ModelCall(n)) \/ (\E tokens \in Limits : Configure(tokens))
             \/ UNCHANGED vars
      PROVE  StepFits
  <2>1. UNCHANGED <<status, allocated, consumed>>
    BY <1>5 DEF ModelCall, Configure, vars
  <2>2. \A j \in Ids : allocated[j] \in Nat /\ consumed[j] \in Nat
    BY <1>0 DEF TypeOK
  <2> QED BY <1>0, <2>1, <2>2, QuietStepFits
<1> QED BY <1>0, <1>1, <1>2, <1>3, <1>4, <1>5, RebalanceStepFits DEF Next

-----------------------------------------------------------------------------
(* Who pays (ActorBudgets).  An actor has an allocation in one place at a   *)
(* time: in own between the grant and what it was asked for, in held after  *)
(* that; where it is tells at.  The numbers of the allocations only grow,   *)
(* so that no two actors are given the same.                                *)

Actors == Agents \cup Callers

Places == {"none", "creating", "asking", "asked", "ready", "running", "nested", "failing"}

\* An allocation was granted and what it was asked for has not begun.
Waiting == {"creating", "asking", "asked"}

Entered(i) == \E a \in Agents : held[a] = i
Given(i) == \E x \in Actors : own[x] = i

ActorTypes ==
  /\ issued \in Nat
  /\ status \in [Ids -> Statuses]
  /\ at \in [Actors -> Places]
  /\ own \in [Actors -> 0..issued]
  /\ held \in [Agents -> 0..issued]

Whereabouts ==
  /\ \A x \in Actors : own[x] # 0 <=> at[x] \in Waiting
  /\ \A a \in Agents : at[a] \in {"none", "creating", "asking"} => held[a] = 0

Exclusive ==
  /\ \A a, b \in Agents : held[a] = held[b] /\ held[a] # 0 => a = b
  /\ \A x, y \in Actors : own[x] = own[y] /\ own[x] # 0 => x = y
  /\ \A a \in Agents, x \in Actors : held[a] = own[x] => held[a] = 0

Paid ==
  \A i \in Ids : status[i] = "granted" /\ i \notin dropped \cup hosted => Entered(i) \/ Given(i)

PayersInv == ActorTypes /\ Whereabouts /\ Exclusive /\ Paid

LEMMA ActorInitInv == ActorInit => PayersInv
<1> SUFFICES ASSUME ActorInit PROVE PayersInv
  OBVIOUS
<1>1. ActorTypes
  BY MarketAssumption DEF ActorInit, Init, ActorTypes, Statuses, Places, Actors
<1>2. Whereabouts /\ Exclusive
  BY DEF ActorInit, Whereabouts, Exclusive, Waiting, Actors
<1>3. Paid
  BY DEF ActorInit, Init, Paid
<1> QED BY <1>1, <1>2, <1>3 DEF PayersInv

\* requestMany() numbers the allocations on and leaves the others alone.
LEMMA RequestNumbers ==
  ASSUME ActorTypes, NEW batch \in Seq(Bid), NEW runtime, RequestMany(batch, runtime)
  PROVE  /\ issued' = issued + Len(batch) /\ issued' \in Nat
         /\ status' \in [Ids -> Statuses]
         /\ \A i \in Ids : i \notin (issued + 1)..issued' => status'[i] = status[i]
         /\ (issued + 1)..issued' \subseteq Ids
<1>1. issued' = issued + Len(batch) /\ Len(batch) \in Nat /\ issued \in Nat
  BY DEF RequestMany, ActorTypes
<1>2. (issued + 1)..issued' \subseteq Ids
  BY <1>1 DEF RequestMany
<1>3. PICK d : status' = [i \in Ids |->
        IF i \in (issued + 1)..(issued + Len(batch))
        THEN (IF d[i - issued].tokens >= d[i - issued].bid.minimum THEN "granted" ELSE "denied")
        ELSE status[i]]
  BY DEF RequestMany
<1>4. status' \in [Ids -> Statuses]
  BY <1>3 DEF ActorTypes, Statuses
<1> QED BY <1>1, <1>2, <1>3, <1>4

LEMMA SingleBid ==
  ASSUME NEW b \in Bids
  PROVE  <<b>> \in Seq(Bid) /\ Len(<<b>>) = 1
<1>1. PICK batch \in Batches : batch # <<>> /\ b = batch[1]
  BY DEF Bids
<1>2. batch \in Seq(Bid)
  BY MarketAssumption
<1>3. b \in Bid
  BY <1>1, <1>2
<1> QED BY <1>3

\* A step of the market on what one actor has, or on no allocation at all, gives
\* nobody an allocation: it opens none that was not open.
Moves(i) ==
  /\ issued' = issued
  /\ status' \in [Ids -> Statuses]
  /\ \A j \in Ids : j # i => status'[j] = status[j]

LEMMA MarketMoves ==
  ASSUME ActorTypes, NEW i
  PROVE  /\ Release(i) => Moves(i) /\ (i \in Ids => status'[i] # "granted")
         /\ \A n : Settle(i, n) => Moves(i) /\ (i \in Ids => status'[i] # "granted")
         /\ \A n : Consume(i, n) =>
              Moves(i) /\ (i \in Ids /\ status'[i] = "granted" => status[i] = "granted")
         /\ \A n, m : Augment(i, n, m) => Moves(i)
         /\ \A n, m : Pays(i, n, m, TRUE) => Moves(i) /\ (i \in Ids => status'[i] # "granted")
         /\ \A n : ConsumeActiveAgentBudget(i, n) => Moves(i)
<1> USE DEF ActorTypes, Statuses, Moves, requestVars
<1>1. Release(i) => Moves(i) /\ (i \in Ids => status'[i] # "granted")
  BY DEF Release
<1>2. ASSUME NEW n, Settle(i, n) PROVE Moves(i) /\ (i \in Ids => status'[i] # "granted")
  BY <1>2 DEF Settle
<1>3. ASSUME NEW n, Consume(i, n)
      PROVE  Moves(i) /\ (i \in Ids /\ status'[i] = "granted" => status[i] = "granted")
  BY <1>3 DEF Consume, Consumed
<1>4. ASSUME NEW n, NEW m, Augment(i, n, m) PROVE Moves(i)
  BY <1>4 DEF Augment, Reopened
<1>5. ASSUME NEW n, NEW m, Pays(i, n, m, TRUE)
      PROVE  Moves(i) /\ (i \in Ids => status'[i] # "granted")
  BY <1>5 DEF Pays
<1>6. ASSUME NEW n, ConsumeActiveAgentBudget(i, n) PROVE Moves(i)
  BY <1>6 DEF ConsumeActiveAgentBudget, Pays
<1> QED BY <1>1, <1>2, <1>3, <1>4, <1>5, <1>6

\* A step in which no actor gets or gives up an allocation.
LEMMA PayersStay ==
  ASSUME PayersInv, UNCHANGED <<at, own, held>>,
         issued' \in Nat, issued' >= issued, status' \in [Ids -> Statuses],
         \A i \in Ids : status'[i] = "granted" /\ i \notin dropped' \cup hosted' => Entered(i) \/ Given(i)
  PROVE  PayersInv'
<1>1. ActorTypes'
  BY DEF PayersInv, ActorTypes
<1>2. Whereabouts' /\ Exclusive'
  BY DEF PayersInv, Whereabouts, Exclusive
<1>3. Paid'
  BY DEF Paid, Entered, Given
<1> QED BY <1>1, <1>2, <1>3 DEF PayersInv

\* An actor without an allocation is granted the next one, or none.
LEMMA PayerRequests ==
  ASSUME PayersInv, NEW x \in Actors, NEW granted \in Waiting, NEW denied \in {"none", "ready"},
         at[x] \in {"none", "ready"},
         x \in Agents => held[x] = 0 /\ granted # "asked",
         Requests(x, granted, denied), UNCHANGED <<held, dropped, hosted>>
  PROVE  PayersInv'
<1> USE DEF PayersInv, ActorTypes
<1>1. PICK b \in Bids : RequestMany(<<b>>, FALSE)
  BY DEF Requests
<1>2. /\ issued' = issued + 1
      /\ status' \in [Ids -> Statuses]
      /\ \A i \in Ids : i # issued' => status'[i] = status[i]
      /\ issued' \in Ids
  <2>1. /\ issued' = issued + 1
        /\ status' \in [Ids -> Statuses]
        /\ \A i \in Ids : i \notin (issued + 1)..issued' => status'[i] = status[i]
        /\ (issued + 1)..issued' \subseteq Ids
    BY <1>1, SingleBid, RequestNumbers
  <2> QED BY <2>1, MarketAssumption DEF Ids
<1>3. own[x] = 0
  BY DEF Whereabouts, Waiting
<1>4. PICK n \in {0, issued'} :
        /\ n = issued' <=> status'[issued'] = "granted"
        /\ at' = [at EXCEPT ![x] = IF n = issued' THEN granted ELSE denied]
        /\ own' = [own EXCEPT ![x] = n]
  <2>0. issued' # 0
    BY <1>2
  <2>1. CASE status'[issued'] = "granted"
    BY <2>1 DEF Requests
  <2>2. CASE status'[issued'] # "granted"
    BY <2>0, <2>2 DEF Requests
  <2> QED BY <2>1, <2>2
<1>5. \A y \in Actors : own'[y] = IF y = x THEN n ELSE own[y]
  BY <1>4
<1>6. ActorTypes'
  BY <1>2, <1>4 DEF Places, Waiting
<1>7. Whereabouts'
  BY <1>2, <1>3, <1>4, <1>5 DEF Whereabouts, Waiting
<1>8. Exclusive'
  <2>1. \A y \in Actors : own[y] # issued' /\ own[y] \in Nat
    BY <1>2
  <2>2. \A a \in Agents : held[a] # issued' /\ held[a] \in Nat
    BY <1>2
  <2> QED BY <1>2, <1>5, <2>1, <2>2 DEF Exclusive
<1>9. Paid'
  <2> SUFFICES ASSUME NEW i \in Ids, status'[i] = "granted", i \notin dropped \cup hosted
               PROVE  (Entered(i) \/ Given(i))'
    BY DEF Paid
  <2>1. CASE i = issued'
    BY <1>4, <1>5, <2>1 DEF Given
  <2>2. CASE i # issued'
    <3>1. Entered(i) \/ Given(i)
      BY <1>2, <2>2 DEF Paid
    <3>2. Given(i) => Given(i)'
      BY <1>3, <1>5, MarketAssumption DEF Given, Ids
    <3> QED BY <3>1, <3>2 DEF Entered
  <2> QED BY <2>1, <2>2
<1> QED BY <1>6, <1>7, <1>8, <1>9

\* An allocation that was just granted is closed.
LEMMA PayerLeaves ==
  ASSUME PayersInv, NEW x \in Actors, at[x] \in Waiting, x \in Agents => held[x] = 0,
         Moves(own[x]), own[x] \in Ids => status'[own[x]] # "granted",
         at' = [at EXCEPT ![x] = "none"], own' = [own EXCEPT ![x] = 0],
         UNCHANGED <<held, dropped, hosted>>
  PROVE  PayersInv'
<1> USE DEF PayersInv, ActorTypes
<1>1. \A y \in Actors : own'[y] = IF y = x THEN 0 ELSE own[y]
  OBVIOUS
<1>2. ActorTypes'
  BY DEF Moves, Places
<1>3. Whereabouts'
  BY <1>1 DEF Whereabouts, Waiting
<1>4. Exclusive'
  BY <1>1 DEF Exclusive
<1>5. Paid'
  <2> SUFFICES ASSUME NEW i \in Ids, status'[i] = "granted", i \notin dropped \cup hosted
               PROVE  (Entered(i) \/ Given(i))'
    BY DEF Paid
  <2>1. i # own[x] /\ status[i] = "granted"
    BY DEF Moves
  <2>2. Entered(i) \/ Given(i)
    BY <2>1 DEF Paid
  <2>3. Given(i) => Given(i)'
    BY <1>1, <2>1 DEF Given
  <2> QED BY <2>2, <2>3 DEF Entered
<1> QED BY <1>2, <1>3, <1>4, <1>5

\* What an agent was granted becomes what it holds.
LEMMA PayerEnters ==
  ASSUME PayersInv, NEW a \in Agents, NEW place \in {"ready", "running"},
         own[a] # 0 /\ held[a] = 0,
         at' = [at EXCEPT ![a] = place], own' = [own EXCEPT ![a] = 0],
         held' = [held EXCEPT ![a] = own[a]],
         UNCHANGED <<issued, status, dropped, hosted>>
  PROVE  PayersInv'
<1> USE DEF PayersInv, ActorTypes
<1>0. a \in Actors
  BY DEF Actors
<1>1. /\ \A y \in Actors : own'[y] = IF y = a THEN 0 ELSE own[y]
      /\ \A b \in Agents : held'[b] = IF b = a THEN own[a] ELSE held[b]
  BY <1>0
<1>2. ActorTypes'
  BY <1>0 DEF Places
<1>3. Whereabouts'
  BY <1>0, <1>1 DEF Whereabouts, Waiting
<1>4. Exclusive'
  BY <1>0, <1>1 DEF Exclusive
<1>5. Paid'
  <2> SUFFICES ASSUME NEW i \in Ids, Entered(i) \/ Given(i)
               PROVE  (Entered(i) \/ Given(i))'
    BY DEF Paid
  <2>1. Entered(i) => Entered(i)'
    BY <1>1, MarketAssumption DEF Entered, Ids
  <2>2. Given(i) => (Entered(i) \/ Given(i))'
    BY <1>1 DEF Entered, Given
  <2> QED BY <2>1, <2>2
<1> QED BY <1>2, <1>3, <1>4, <1>5

\* A run goes on, or ends: what its agent holds stays, is closed, is left to
\* nobody, or was not granted any more.
LEMMA PayerRuns ==
  ASSUME PayersInv, NEW a \in Agents, NEW place \in Places \ Waiting,
         at[a] \notin Waiting,
         Moves(held[a]), at' = [at EXCEPT ![a] = place], UNCHANGED <<own, hosted>>,
         dropped \subseteq dropped',
         \/ held' = held /\ (held[a] # 0 => place # "none")
            /\ (held[a] \in Ids /\ status'[held[a]] = "granted" => status[held[a]] = "granted")
         \/ /\ held' = [held EXCEPT ![a] = 0]
            /\ held[a] \in Ids => status'[held[a]] # "granted" \/ held[a] \in dropped'
  PROVE  PayersInv'
<1> USE DEF PayersInv, ActorTypes
<1>0. a \in Actors
  BY DEF Actors
<1>1. \A b \in Agents \ {a} : held'[b] = held[b]
  OBVIOUS
<1>2. held'[a] = held[a] \/ held'[a] = 0
  OBVIOUS
<1>3. ActorTypes'
  BY <1>0, <1>2 DEF Moves
<1>4. Whereabouts'
  <2>1. \A x \in Actors : own'[x] # 0 <=> at'[x] \in Waiting
    BY <1>0 DEF Whereabouts
  <2>2. at'[a] \in {"none", "creating", "asking"} => held'[a] = 0
    BY <1>0 DEF Waiting
  <2>3. \A b \in Agents \ {a} : at'[b] = at[b]
    BY DEF Actors
  <2> QED BY <1>1, <2>1, <2>2, <2>3 DEF Whereabouts
<1>5. Exclusive'
  BY <1>1, <1>2 DEF Exclusive
<1>6. Paid'
  <2> SUFFICES ASSUME NEW i \in Ids, status'[i] = "granted", i \notin dropped' \cup hosted
               PROVE  (Entered(i) \/ Given(i))'
    BY DEF Paid
  <2>1. CASE i = held[a]
    BY <2>1 DEF Entered
  <2>2. CASE i # held[a]
    <3>1. Entered(i) \/ Given(i)
      BY <2>2 DEF Paid, Moves
    <3>2. Entered(i) => Entered(i)'
      BY <1>1, <2>2 DEF Entered
    <3> QED BY <3>1, <3>2 DEF Given
  <2> QED BY <2>1, <2>2
<1> QED BY <1>3, <1>4, <1>5, <1>6

LEMMA HostPays ==
  ASSUME PayersInv, Host
  PROVE  PayersInv'
<1> USE DEF PayersInv, ActorTypes
<1>1. UNCHANGED <<at, own, held, dropped>>
  BY DEF Host
<1>2. ASSUME NEW batch \in Batches, NEW runtime, RequestMany(batch, runtime),
             hosted' = hosted \cup ((issued + 1)..issued')
      PROVE  PayersInv'
  <2>1. /\ issued' = issued + Len(batch) /\ issued' \in Nat
        /\ status' \in [Ids -> Statuses]
        /\ \A i \in Ids : i \notin (issued + 1)..issued' => status'[i] = status[i]
    BY <1>2, RequestNumbers, MarketAssumption
  <2>2. Len(batch) \in Nat
    BY MarketAssumption
  <2> QED BY <1>1, <1>2, <2>1, <2>2, PayersStay DEF Paid
<1>3. ASSUME NEW i \in hosted, NEW n \in Amounts, Consume(i, n) \/ Settle(i, n), hosted' = hosted
      PROVE  PayersInv'
  <2>1. Moves(i)
    BY <1>3, MarketMoves
  <2> QED BY <1>1, <1>3, <2>1, PayersStay DEF Moves, Paid
<1>4. ASSUME NEW i \in hosted, Release(i), hosted' = hosted
      PROVE  PayersInv'
  <2>1. Moves(i)
    BY <1>4, MarketMoves
  <2> QED BY <1>1, <1>4, <2>1, PayersStay DEF Moves, Paid
<1>5. ASSUME Rebalance \/ \E tokens \in Limits : Configure(tokens), hosted' = hosted
      PROVE  PayersInv'
  <2>1. UNCHANGED <<issued, status>>
    BY <1>5 DEF Rebalance, Configure, requestVars
  <2> QED BY <1>1, <1>5, <2>1, PayersStay DEF Paid
<1> QED BY <1>2, <1>3, <1>4, <1>5 DEF Host

LEMMA CallerPays ==
  ASSUME PayersInv, NEW c \in Callers,
         Ask(c) \/ CallFails(c) \/ (\E n \in Amounts : CallReturns(c, n))
  PROVE  PayersInv'
<1> USE DEF PayersInv, ActorTypes
<1>1. c \in Actors /\ c \notin Agents
  BY ActorAssumption DEF Actors
<1>2. CASE Ask(c)
  <2>1. Requests(c, "asked", "none")
    BY <1>2 DEF Ask, RequestAgentBudget, RequestTeamSynthesisBudget
  <2> QED BY <1>1, <1>2, <2>1, PayerRequests DEF Ask, Waiting
<1>3. CASE CallFails(c)
  <2>1. Moves(own[c]) /\ (own[c] \in Ids => status'[own[c]] # "granted")
    BY <1>3, MarketMoves DEF CallFails
  <2> QED BY <1>1, <1>3, <2>1, PayerLeaves DEF CallFails, Leaves, Waiting
<1>4. ASSUME NEW n \in Amounts, CallReturns(c, n) PROVE PayersInv'
  <2>1. Settle(own[c], n) \/ Pays(own[c], n, n, TRUE)
    BY <1>4 DEF CallReturns, SettleTeamSynthesisBudget, SettleDirectBudget
  <2>2. Moves(own[c]) /\ (own[c] \in Ids => status'[own[c]] # "granted")
    BY <2>1, MarketMoves
  <2> QED BY <1>1, <1>4, <2>2, PayerLeaves DEF CallReturns, Leaves, Waiting
<1> QED BY <1>2, <1>3, <1>4

LEMMA AgentIsCreated ==
  ASSUME PayersInv, NEW a \in Agents,
         Spawn(a) \/ Create(a) \/ SpawnAgain(a) \/ AskToRun(a) \/ Begin(a)
  PROVE  PayersInv'
<1> USE DEF PayersInv, ActorTypes
<1>1. a \in Actors
  BY DEF Actors
<1>2. CASE Spawn(a)
  <2>1. held[a] = 0
    BY <1>2 DEF Spawn, Whereabouts
  <2>2. Requests(a, "creating", "none")
    BY <1>2 DEF Spawn, RequestAgentBudget
  <2> QED BY <1>1, <1>2, <2>1, <2>2, PayerRequests DEF Spawn, Waiting
<1>3. CASE Create(a)
  <2>1. held[a] = 0 /\ own[a] # 0
    BY <1>1, <1>3 DEF Create, Whereabouts, Waiting
  <2>2. CASE at' = [at EXCEPT ![a] = "ready"] /\ held' = [held EXCEPT ![a] = own[a]] /\ UNCHANGED vars
    BY <1>3, <2>1, <2>2, PayerEnters DEF Create, vars, requestVars
  <2>3. CASE at' = [at EXCEPT ![a] = "none"] /\ Release(own[a]) /\ UNCHANGED held
    <3>1. Moves(own[a]) /\ (own[a] \in Ids => status'[own[a]] # "granted")
      BY <2>3, MarketMoves
    <3> QED BY <1>1, <1>3, <2>1, <2>3, <3>1, PayerLeaves DEF Create, Waiting
  <2> QED BY <1>3, <2>2, <2>3 DEF Create
<1>4. CASE SpawnAgain(a)
  <2>1. PICK b \in Bids : RequestMany(<<b>>, FALSE)
    BY <1>4 DEF SpawnAgain
  <2>2. /\ issued' = issued + 1
        /\ status' \in [Ids -> Statuses]
        /\ \A i \in Ids : i \notin (issued + 1)..issued' => status'[i] = status[i]
    BY <2>1, SingleBid, RequestNumbers
  <2>3. UNCHANGED <<at, own, held, hosted>> /\ dropped' = dropped \cup {issued'}
    BY <1>4 DEF SpawnAgain
  <2>4. \A i \in Ids : i \notin dropped' => status'[i] = status[i] /\ i \notin dropped
    BY <2>2, <2>3
  <2> QED BY <2>2, <2>3, <2>4, PayersStay DEF Paid
<1>5. CASE AskToRun(a)
  <2>1. Requests(a, "asking", "ready")
    BY <1>5 DEF AskToRun, RequestAgentBudget
  <2> QED BY <1>1, <1>5, <2>1, PayerRequests DEF AskToRun, Waiting
<1>6. CASE Begin(a) /\ at[a] = "asking"
  <2>1. held[a] = 0 /\ own[a] # 0
    BY <1>1, <1>6 DEF Whereabouts, Waiting
  <2> QED BY <1>6, <2>1, PayerEnters DEF Begin, vars, requestVars
<1>7. CASE Begin(a) /\ at[a] # "asking"
  <2>1. at[a] = "ready" /\ own[a] = 0
    BY <1>1, <1>7 DEF Begin, Whereabouts, Waiting
  <2>2. own' = own /\ held' = held
    BY <1>1, <1>7, <2>1 DEF Begin
  <2>3. Moves(held[a]) /\ status' = status /\ UNCHANGED <<hosted, dropped>>
    BY <1>7 DEF Begin, vars, requestVars, Moves
  <2> QED BY <1>7, <2>1, <2>2, <2>3, PayerRuns DEF Begin, Places, Waiting
<1> QED BY <1>2, <1>3, <1>4, <1>5, <1>6, <1>7

LEMMA AgentRuns ==
  ASSUME PayersInv, NEW a \in Agents,
         \/ \E n \in Amounts : Call(a, n) \/ Decide(a, n) \/ Continue(a, n)
         \/ RunAlone(a)
  PROVE  PayersInv'
<1> USE DEF PayersInv, ActorTypes
<1>1. ASSUME NEW n \in Amounts, Call(a, n) PROVE PayersInv'
  <2>1. UNCHANGED <<issued, status, at, own, held, dropped, hosted>>
    BY <1>1 DEF Call, ModelCall, requestVars
  <2> QED BY <2>1, PayersStay DEF Paid
<1>2. ASSUME NEW n \in Amounts, Decide(a, n) \/ Continue(a, n) PROVE PayersInv'
  <2>1. Moves(held[a]) /\ UNCHANGED <<at, own, held, dropped, hosted>>
    BY <1>2, MarketMoves DEF Decide, Continue
  <2>2. \A i \in Ids : status'[i] = "granted" => i = held[a] \/ status[i] = "granted"
    BY <2>1 DEF Moves
  <2> QED BY <2>1, <2>2, PayersStay DEF Moves, Paid, Entered
<1>3. CASE RunAlone(a)
  <2>1. Moves(held[a]) /\ status' = status
    BY <1>3 DEF RunAlone, vars, requestVars, Moves
  <2> QED BY <1>3, <2>1, PayerRuns DEF RunAlone, Places, Waiting
<1> QED BY <1>1, <1>2, <1>3

LEMMA AgentEnds ==
  ASSUME PayersInv, NEW a \in Agents,
         ReleaseRun(a) \/ Dispose(a) \/ \E ok \in BOOLEAN : SettleRun(a, ok)
  PROVE  PayersInv'
<1> USE DEF PayersInv, ActorTypes
<1>1. a \in Actors /\ held[a] \in Nat
  BY DEF Actors
<1>2. \A well : Returns(a, well) =>
        \E place \in {"ready", "failing"} : at' = [at EXCEPT ![a] = place]
  BY DEF Returns
<1>3. {"ready", "failing", "none"} \subseteq Places \ Waiting
  BY DEF Places, Waiting
<1>4. CASE ReleaseRun(a)
  <2>1. at[a] \notin Waiting /\ UNCHANGED <<own, hosted, dropped>> /\ held' = [held EXCEPT ![a] = 0]
    BY <1>4 DEF ReleaseRun, Busy, Waiting
  <2>2. Moves(held[a]) /\ (held[a] \in Ids => status'[held[a]] # "granted")
    <3>1. CASE held[a] # 0 /\ status[held[a]] = "granted"
      BY <1>4, <3>1, MarketMoves DEF ReleaseRun
    <3>2. CASE ~(held[a] # 0 /\ status[held[a]] = "granted")
      <4>1. UNCHANGED <<issued, status>>
        BY <1>4, <3>2 DEF ReleaseRun, vars, requestVars
      <4>2. held[a] \in Ids => held[a] # 0
        BY MarketAssumption DEF Ids
      <4> QED BY <3>2, <4>1, <4>2 DEF Moves
    <3> QED BY <3>1, <3>2
  <2>3. PICK place \in {"ready", "failing"} : at' = [at EXCEPT ![a] = place]
    BY <1>2, <1>4 DEF ReleaseRun
  <2> QED BY <1>3, <2>1, <2>2, <2>3, PayerRuns
<1>5. CASE Dispose(a)
  <2>1. Moves(held[a]) /\ dropped \subseteq dropped' /\ (held[a] \in Ids => held[a] \in dropped')
    BY <1>5, MarketAssumption DEF Dispose, vars, requestVars, Moves, Ids
  <2> QED BY <1>3, <1>5, <2>1, PayerRuns DEF Dispose, Busy, Waiting
<1>6. ASSUME NEW ok \in BOOLEAN, SettleRun(a, ok) PROVE PayersInv'
  <2> DEFINE i == held[a]
             total == spent[a] - since[a]
             closed == i = 0 \/ ~Open(i)
             throws == ~closed /\ total < consumed[i]
  <2>1. /\ at[a] \notin Waiting /\ UNCHANGED <<own, hosted, dropped>>
        /\ held' = [held EXCEPT ![a] = IF throws THEN @ ELSE 0]
    BY <1>6 DEF SettleRun, Busy, Waiting
  <2>2. Moves(i)
    <3>1. UNCHANGED vars \/ Pays(i, 0, total, TRUE)
      BY <1>6 DEF SettleRun
    <3>2. UNCHANGED vars => Moves(i)
      BY DEF vars, requestVars, Moves
    <3> QED BY <3>1, <3>2, MarketMoves
  <2>3. PICK place \in {"ready", "failing"} : at' = [at EXCEPT ![a] = place]
    BY <1>2, <1>6 DEF SettleRun
  <2>4. CASE throws
    <3>1. status' = status /\ held' = held
      BY <1>6, <2>1, <2>4 DEF SettleRun, vars
    <3> QED BY <1>3, <2>1, <2>2, <2>3, <3>1, PayerRuns
  <2>5. CASE ~throws
    <3>1. held' = [held EXCEPT ![a] = 0]
      BY <2>1, <2>5
    <3>2. i \in Ids => status'[i] # "granted"
      <4>1. CASE closed
        <5>1. UNCHANGED vars
          BY <1>6, <4>1 DEF SettleRun
        <5>2. i \in Ids => i # 0
          BY MarketAssumption DEF Ids
        <5> QED BY <4>1, <5>1, <5>2 DEF vars, Open
      <4>2. CASE ~closed
        BY <1>6, <2>5, <4>2, MarketMoves DEF SettleRun
      <4> QED BY <4>1, <4>2
    <3> QED BY <1>3, <2>1, <2>2, <2>3, <3>1, <3>2, PayerRuns
  <2> QED BY <2>4, <2>5
<1> QED BY <1>4, <1>5, <1>6

LEMMA ActorStep == PayersInv /\ [ActorNext]_allVars => PayersInv'
<1> SUFFICES ASSUME PayersInv, [ActorNext]_allVars PROVE PayersInv'
  OBVIOUS
<1>1. ASSUME NEW c \in Teams, Count(c) PROVE PayersInv'
  <2>1. UNCHANGED <<issued, status, at, own, held, dropped, hosted>>
    BY <1>1 DEF Count, ModelCall, requestVars
  <2> QED BY <2>1, PayersStay DEF PayersInv, ActorTypes, Paid
<1>2. CASE UNCHANGED allVars
  <2>1. UNCHANGED <<issued, status, at, own, held, dropped, hosted>>
    BY <1>2 DEF allVars, vars, requestVars, actorVars
  <2> QED BY <2>1, PayersStay DEF PayersInv, ActorTypes, Paid
<1> QED
  BY <1>1, <1>2, HostPays, CallerPays, AgentIsCreated, AgentRuns, AgentEnds DEF ActorNext

LEMMA PayersAreOne == PayersInv => EveryGrantHasItsPayer
<1> SUFFICES ASSUME PayersInv, NEW i \in Ids
             PROVE  LET payers == {a \in Agents : held[a] = i} \cup {a \in DOMAIN own : own[a] = i}
                    IN  /\ status[i] = "granted" /\ i \notin dropped \cup hosted => payers # {}
                        /\ Cardinality(payers) <= 1
  BY DEF EveryGrantHasItsPayer
<1> DEFINE payers == {a \in Agents : held[a] = i} \cup {a \in DOMAIN own : own[a] = i}
<1>1. DOMAIN own = Actors /\ i # 0 /\ Agents \subseteq Actors
  BY MarketAssumption DEF PayersInv, ActorTypes, Actors, Ids
<1>2. status[i] = "granted" /\ i \notin dropped \cup hosted => payers # {}
  BY <1>1 DEF PayersInv, Paid, Entered, Given
<1>3. \A x, y \in payers : x = y
  BY <1>1 DEF PayersInv, Exclusive
<1>4. Cardinality(payers) <= 1
  <2>1. CASE payers = {}
    BY <2>1, FS_EmptySet
  <2>2. CASE payers # {}
    <3>1. PICK x \in payers : payers = {x}
      BY <1>3, <2>2
    <3>2. Cardinality({x}) = 1
      BY FS_Singleton
    <3> HIDE DEF payers
    <3> QED BY <3>1, <3>2
  <2> QED BY <2>1, <2>2
<1> QED BY <1>2, <1>4

\* Of any number of agents, callers and allocations, no two actors are ever given
\* the same allocation, and one that is granted is in somebody's hands who will
\* settle or release it, unless its agent was disposed of or restored twice
\* (Runtime.ts:4926, 5086, 15964, 16160).
THEOREM GrantsHaveTheirPayers == ActorSpec => []EveryGrantHasItsPayer
<1>1. ActorSpec => []PayersInv
  BY ActorInitInv, ActorStep, PTL DEF ActorSpec
<1> QED BY <1>1, PayersAreOne, PTL

-----------------------------------------------------------------------------
(* The market under its actors.  Their steps are steps of the market, but   *)
(* for the bids they choose, the continuations they need and what they pay. *)

Usage ==
  /\ spent \in [Agents -> Nat] /\ since \in [Agents -> Nat] /\ outer \in [Agents -> Nat]
  /\ cap \in [Agents -> Nat \cup {NoLimit}]
  /\ uncounted \in [Teams -> Amounts \cup {0}]
  /\ hosted \subseteq Ids

AccountsInv == IInv /\ PayersInv /\ Usage

\* What a step keeps of the market.
Keeps ==
  /\ IInv'
  /\ Mode # "unlimited" => StepFits
  /\ Ordered /\ GrantWithinBid => GrantWithinBid'

LEMMA MarketKeeps == IInv /\ [Next]_vars => Keeps
BY StepInv, StepFitsSupply, StepGrants DEF Keeps, GrantInv

LEMMA RequestKeeps ==
  ASSUME IInv, NEW b \in Bids, RequestMany(<<b>>, FALSE)
  PROVE  Keeps
<1>1. <<b>> \in Seq(Bid)
  BY SingleBid
<1>2. IInv'
  BY <1>1, RequestManyInv
<1>3. Mode # "unlimited" => StepFits
  BY <1>1, <1>2, RequestManyFits
<1>4. GrantWithinBid => GrantWithinBid'
  BY <1>1, RequestManyGrants DEF GrantInv
<1> QED BY <1>2, <1>3, <1>4 DEF Keeps

LEMMA AugmentKeeps ==
  ASSUME IInv, NEW i \in Ids, NEW requested \in Int, NEW minimum \in Int,
         Augment(i, requested, minimum)
  PROVE  Keeps
<1>1. IInv'
  BY AugmentInv
<1>2. StepFits
  BY <1>1, AugmentFits
<1>3. GrantWithinBid => GrantWithinBid'
  BY AugmentGrants DEF GrantInv
<1> QED BY <1>1, <1>2, <1>3 DEF Keeps

\* A call is paid from an allocation that was made: at once, or on top of what it
\* has consumed.
LEMMA PaysKeeps ==
  ASSUME IInv, NEW i \in 1..issued, NEW counted \in Nat, NEW total \in Nat, NEW closed \in BOOLEAN,
         closed \/ total >= consumed[i], Pays(i, counted, total, closed)
  PROVE  Keeps
<1>0. TypeOK /\ StatusTellsOverrun /\ Unissued
  BY DEF IInv
<1>1. i \in Ids
  BY <1>0, MarketAssumption DEF TypeOK, Ids
<1> DEFINE after == IF total > Covered(i, total) THEN "exceeded"
                    ELSE IF closed THEN "settled"
                    ELSE IF limit = NoLimit THEN "granted" ELSE status[i]
<1>2. /\ used' = used + counted /\ UNCHANGED <<limit, issued, bid, external>>
      /\ consumed' = [consumed EXCEPT ![i] = total]
      /\ allocated' = [allocated EXCEPT ![i] = Covered(i, total)]
      /\ extra' = [extra EXCEPT ![i] = extra[i] + Covered(i, total) - allocated[i]]
      /\ status' = [status EXCEPT ![i] = after]
  BY <1>0, <1>1 DEF Pays, requestVars, TypeOK
<1>3. /\ used \in Nat /\ allocated[i] \in Nat /\ consumed[i] \in Nat /\ extra[i] \in Nat
      /\ status[i] \in Statuses \ {"none"}
  <2>1. ~ (i > issued)
    BY <1>0 DEF TypeOK
  <2> QED BY <1>0, <1>1, <2>1 DEF TypeOK, Unissued
<1>4. /\ Covered(i, total) \in Nat /\ Covered(i, total) >= allocated[i]
      /\ limit # NoLimit => Covered(i, total) = allocated[i]
  BY <1>3 DEF Covered, Greater
<1>5. after \in Statuses \ {"none"}
  BY <1>3 DEF Statuses
<1>6. /\ consumed'[i] = total /\ allocated'[i] = Covered(i, total) /\ status'[i] = after
      /\ extra'[i] = extra[i] + Covered(i, total) - allocated[i]
      /\ \A j \in Ids \ {i} : /\ consumed'[j] = consumed[j] /\ allocated'[j] = allocated[j]
                              /\ status'[j] = status[j] /\ extra'[j] = extra[j]
  BY <1>0, <1>1, <1>2 DEF TypeOK
<1>7. TypeOK'
  <2>1. consumed' \in [Ids -> Nat] /\ allocated' \in [Ids -> Nat]
    BY <1>0, <1>2, <1>4 DEF TypeOK
  <2>2. extra' \in [Ids -> Nat]
    <3>1. extra[i] + Covered(i, total) - allocated[i] \in Nat
      BY <1>3, <1>4
    <3> QED BY <1>0, <1>2, <3>1 DEF TypeOK
  <2>3. status' \in [Ids -> Statuses]
    <3> HIDE DEF after
    <3> QED BY <1>0, <1>2, <1>5 DEF TypeOK
  <2> QED BY <1>0, <1>2, <1>3, <2>1, <2>2, <2>3 DEF TypeOK
<1>8. IF after = "exceeded" THEN total > Covered(i, total) ELSE total <= Covered(i, total)
  BY <1>0, <1>1, <1>3, <1>4 DEF StatusTellsOverrun
<1>9. StatusTellsOverrun'
  <2> HIDE DEF after
  <2> QED BY <1>0, <1>6, <1>8 DEF StatusTellsOverrun
<1>10. Unissued'
  <2> HIDE DEF after
  <2>1. i <= issued
    BY <1>0 DEF TypeOK
  <2> QED BY <1>0, <1>2, <1>5, <1>6, <2>1 DEF Unissued, TypeOK
<1>11. StepFits
  <2> SUFFICES ASSUME limit # NoLimit PROVE StepFits
    BY DEF StepFits
  <2>1. ASSUME NEW j \in Ids, status'[j] = "granted"
        PROVE  status[j] = "granted" /\ allocated'[j] <= allocated[j] /\ consumed'[j] >= consumed[j]
    <3>1. CASE j = i
      BY <1>3, <1>4, <1>6, <2>1, <3>1
    <3>2. CASE j # i
      BY <1>0, <1>6, <2>1, <3>2 DEF TypeOK
    <3> QED BY <3>1, <3>2
  <2> QED BY <1>0, <1>7, <2>1, QuietStepFits
<1>12. GrantWithinBid => GrantWithinBid'
  <2> SUFFICES ASSUME GrantWithinBid, NEW j \in Ids, status'[j] # "none"
               PROVE  allocated'[j] <= bid[j].tokens + extra'[j]
    BY <1>2 DEF GrantWithinBid
  <2>1. bid[j].tokens \in Nat
    <3>1. bid[j] \in Bid
      BY <1>0 DEF TypeOK
    <3> QED BY <3>1, PolicyAssumption DEF Bid
  <2>2. CASE j = i
    <3>1. allocated[i] <= bid[i].tokens + extra[i]
      BY <1>1, <1>3 DEF GrantWithinBid
    <3> HIDE DEF after
    <3> QED BY <1>3, <1>4, <1>6, <2>1, <2>2, <3>1
  <2>3. CASE j # i
    BY <1>6, <2>3 DEF GrantWithinBid
  <2> QED BY <2>2, <2>3
<1> QED BY <1>7, <1>9, <1>10, <1>11, <1>12 DEF IInv, Keeps

\* What an actor has was made.
LEMMA PlacesAreMade ==
  ASSUME IInv, PayersInv
  PROVE  /\ issued \in Nat /\ 1..issued \subseteq Ids
         /\ \A x \in Actors : at[x] \in Waiting => own[x] \in 1..issued
         /\ \A a \in Agents : held[a] # 0 => held[a] \in 1..issued
<1>1. issued \in Nat /\ 1..issued \subseteq Ids
  BY MarketAssumption DEF IInv, TypeOK, Ids
<1>2. \A x \in Actors : at[x] \in Waiting => own[x] \in 1..issued
  BY DEF PayersInv, ActorTypes, Whereabouts
<1>3. \A a \in Agents : held[a] # 0 => held[a] \in 1..issued
  BY DEF PayersInv, ActorTypes
<1> QED BY <1>1, <1>2, <1>3

\* What the actors do to the market.
ActorMove ==
  \/ [Next]_vars
  \/ \E b \in Bids : RequestMany(<<b>>, FALSE)
  \/ \E i \in Ids, requested, minimum \in Int : Augment(i, requested, minimum)
  \/ \E i \in 1..issued, counted, total \in Nat, closed \in BOOLEAN :
       (closed \/ total >= consumed[i]) /\ Pays(i, counted, total, closed)

LEMMA MoveKeeps == IInv /\ ActorMove => Keeps
BY MarketKeeps, RequestKeeps, AugmentKeeps, PaysKeeps DEF ActorMove

LEMMA HostMoves ==
  ASSUME AccountsInv, Host
  PROVE  ActorMove /\ Usage'
<1>1. UNCHANGED <<cap, spent, since, outer, uncounted>>
  BY DEF Host
<1>2. [Next]_vars
  BY DEF Host, Next, AccountsInv, Usage
<1>3. hosted' \subseteq Ids
  <2>1. ASSUME NEW batch \in Batches, NEW runtime, RequestMany(batch, runtime)
        PROVE  (issued + 1)..issued' \subseteq Ids
    BY <2>1 DEF RequestMany
  <2> QED BY <2>1 DEF Host, AccountsInv, Usage
<1> QED BY <1>1, <1>2, <1>3 DEF AccountsInv, Usage, ActorMove

LEMMA CallerMoves ==
  ASSUME AccountsInv, NEW c \in Callers,
         Ask(c) \/ CallFails(c) \/ (\E n \in Amounts : CallReturns(c, n)) \/ (c \in Teams /\ Count(c))
  PROVE  ActorMove /\ Usage'
<1>0. /\ at[c] \in Waiting => own[c] \in 1..issued /\ own[c] \in Ids
      /\ Amounts \subseteq Nat
  BY PlacesAreMade, MarketAssumption DEF AccountsInv, Actors
<1>1. CASE Ask(c)
  <2>1. \E b \in Bids : RequestMany(<<b>>, FALSE)
    BY <1>1 DEF Ask, RequestAgentBudget, RequestTeamSynthesisBudget, Requests
  <2>2. UNCHANGED <<cap, spent, since, outer, uncounted, hosted>>
    BY <1>1 DEF Ask
  <2> QED BY <2>1, <2>2 DEF ActorMove, AccountsInv, Usage
<1>2. CASE CallFails(c)
  <2>1. Release(own[c]) /\ own[c] \in Ids /\ UNCHANGED <<cap, spent, since, outer, uncounted, hosted>>
    BY <1>0, <1>2 DEF CallFails, Waiting
  <2> QED BY <2>1 DEF ActorMove, Next, AccountsInv, Usage
<1>3. ASSUME NEW n \in Amounts, CallReturns(c, n) PROVE ActorMove /\ Usage'
  <2>1. own[c] \in 1..issued /\ own[c] \in Ids /\ UNCHANGED <<cap, spent, since, outer, hosted>>
    BY <1>0, <1>3 DEF CallReturns, Waiting
  <2>2. CASE c \in Teams
    <3>1. Settle(own[c], n) /\ uncounted' = [uncounted EXCEPT ![c] = n]
      BY <1>3, <2>2 DEF CallReturns, SettleTeamSynthesisBudget
    <3> QED BY <2>1, <3>1 DEF ActorMove, Next, AccountsInv, Usage
  <2>3. CASE c \notin Teams
    <3>1. Pays(own[c], n, n, TRUE) /\ UNCHANGED uncounted
      BY <1>3, <2>3 DEF CallReturns, SettleDirectBudget
    <3>2. ActorMove
      BY <1>0, <2>1, <3>1 DEF ActorMove
    <3> QED BY <2>1, <3>1, <3>2 DEF AccountsInv, Usage
  <2> QED BY <2>2, <2>3
<1>4. CASE c \in Teams /\ Count(c)
  <2>1. uncounted[c] \in Amounts
    BY <1>4 DEF Count, AccountsInv, Usage
  <2>2. ModelCall(uncounted[c]) /\ uncounted' = [uncounted EXCEPT ![c] = 0]
        /\ UNCHANGED <<cap, spent, since, outer, hosted>>
    BY <1>4 DEF Count
  <2> QED BY <2>1, <2>2 DEF ActorMove, Next, AccountsInv, Usage
<1> QED BY <1>1, <1>2, <1>3, <1>4

LEMMA AgentsBegin ==
  ASSUME AccountsInv, NEW a \in Agents,
         Spawn(a) \/ Create(a) \/ SpawnAgain(a) \/ AskToRun(a) \/ Begin(a)
  PROVE  ActorMove /\ Usage'
<1>0. /\ at[a] \in Waiting => own[a] \in 1..issued /\ own[a] \in Ids
      /\ held[a] # 0 => held[a] \in Ids
  BY PlacesAreMade DEF AccountsInv, Actors
<1>1. CASE Spawn(a) \/ SpawnAgain(a) \/ AskToRun(a)
  <2>1. \E b \in Bids : RequestMany(<<b>>, FALSE)
    BY <1>1 DEF Spawn, SpawnAgain, AskToRun, RequestAgentBudget, Requests
  <2>2. UNCHANGED <<cap, spent, since, outer, uncounted, hosted>>
    BY <1>1 DEF Spawn, SpawnAgain, AskToRun
  <2> QED BY <2>1, <2>2 DEF ActorMove, AccountsInv, Usage
<1>2. CASE Create(a)
  <2>1. own[a] \in Ids /\ (UNCHANGED vars \/ Release(own[a]))
    BY <1>0, <1>2 DEF Create, Waiting
  <2>2. UNCHANGED <<cap, spent, since, outer, uncounted, hosted>>
    BY <1>2 DEF Create
  <2> QED BY <2>1, <2>2 DEF ActorMove, Next, AccountsInv, Usage
<1>3. CASE Begin(a)
  <2>1. held'[a] \in Ids
    <3>1. held'[a] = IF at[a] = "asking" THEN own[a] ELSE held[a]
      BY <1>3 DEF Begin, AccountsInv, PayersInv, ActorTypes
    <3> QED BY <1>0, <1>3, <3>1 DEF Begin, Waiting
  <2>2. cap' \in [Agents -> Nat \cup {NoLimit}]
    <3>1. allocated[held'[a]] \in Nat
      BY <2>1 DEF AccountsInv, IInv, TypeOK
    <3> QED BY <1>3, <3>1 DEF Begin, Lease, AccountsInv, Usage
  <2>3. since' \in [Agents -> Nat] /\ UNCHANGED <<vars, spent, outer, uncounted, hosted>>
    BY <1>3 DEF Begin, AccountsInv, Usage
  <2> QED BY <2>2, <2>3 DEF ActorMove, AccountsInv, Usage
<1> QED BY <1>1, <1>2, <1>3

LEMMA AgentsRun ==
  ASSUME AccountsInv, NEW a \in Agents,
         \/ \E n \in Amounts : Call(a, n) \/ Decide(a, n) \/ Continue(a, n)
         \/ RunAlone(a)
  PROVE  ActorMove /\ Usage'
<1>0. /\ held[a] # 0 => /\ held[a] \in 1..issued /\ held[a] \in Ids
                       /\ allocated[held[a]] \in Nat /\ consumed[held[a]] \in Nat
      /\ Amounts \subseteq Nat
      /\ spent[a] \in Nat /\ cap[a] \in Nat \cup {NoLimit}
  BY PlacesAreMade, MarketAssumption DEF AccountsInv, IInv, TypeOK, Usage
<1>1. \A n \in Amounts : Uses(a, n) => /\ spent' \in [Agents -> Nat]
                                      /\ cap' \in [Agents -> Nat \cup {NoLimit}]
  <2> SUFFICES ASSUME NEW n \in Amounts, Uses(a, n)
               PROVE  /\ spent' \in [Agents -> Nat]
                      /\ cap' \in [Agents -> Nat \cup {NoLimit}]
    OBVIOUS
  <2>1. n \in Nat /\ spent[a] + n \in Nat
    BY <1>0
  <2>2. (IF cap[a] = NoLimit THEN cap[a] ELSE Greater(0, cap[a] - n)) \in Nat \cup {NoLimit}
    BY <1>0, <2>1 DEF Greater
  <2>3. /\ spent' = [spent EXCEPT ![a] = spent[a] + n]
        /\ cap' = [cap EXCEPT ![a] = IF cap[a] = NoLimit THEN cap[a] ELSE Greater(0, cap[a] - n)]
    BY DEF Uses, AccountsInv, Usage
  <2> QED BY <2>1, <2>2, <2>3 DEF AccountsInv, Usage
<1>2. ASSUME NEW n \in Amounts, Call(a, n) PROVE ActorMove /\ Usage'
  <2>1. ModelCall(n) /\ Uses(a, n) /\ UNCHANGED <<since, outer, uncounted, hosted>>
    BY <1>2 DEF Call
  <2> QED BY <1>1, <2>1 DEF ActorMove, Next, AccountsInv, Usage
<1>3. ASSUME NEW n \in Amounts, Decide(a, n) PROVE ActorMove /\ Usage'
  <2>1. /\ held[a] # 0 /\ Uses(a, n) /\ UNCHANGED <<since, outer, uncounted, hosted>>
        /\ Pays(held[a], n, consumed[held[a]] + n, FALSE)
    BY <1>3 DEF Decide, ConsumeActiveAgentBudget
  <2>2. n \in Nat /\ consumed[held[a]] + n \in Nat /\ consumed[held[a]] + n >= consumed[held[a]]
    BY <1>0, <2>1
  <2>3. ActorMove
    BY <1>0, <2>1, <2>2 DEF ActorMove
  <2> QED BY <1>1, <2>1, <2>3 DEF AccountsInv, Usage
<1>4. ASSUME NEW n \in Amounts, Continue(a, n) PROVE ActorMove /\ Usage'
  <2> DEFINE i == held[a]
             left == Greater(0, allocated[i] - consumed[i])
             rest == IF cap[a] = NoLimit THEN left ELSE Lesser(left, cap[a])
  <2>1. i # 0 /\ i \in Ids /\ allocated[i] \in Nat /\ rest \in Nat /\ n \in Nat
    <3>1. i # 0
      BY <1>4 DEF Continue
    <3>2. left \in Nat
      BY <1>0, <3>1 DEF Greater
    <3> QED BY <1>0, <3>1, <3>2 DEF Lesser
  <2>2. PICK minimum \in 1..(n - rest) : Augment(i, n - rest, minimum)
    BY <1>4 DEF Continue
  <2>3. n - rest \in Int /\ minimum \in Int
    BY <2>1
  <2>4. ActorMove
    BY <2>1, <2>2, <2>3 DEF ActorMove
  <2>5. allocated'[i] \in Nat /\ allocated'[i] >= allocated[i]
    <3>1. PICK k \in Greater(1, minimum)..(n - rest) : allocated' = [allocated EXCEPT ![i] = allocated[i] + k]
      BY <2>2 DEF Augment, AccountsInv, IInv, TypeOK
    <3>2. k \in Nat
      BY <2>3 DEF Greater
    <3>3. allocated'[i] = allocated[i] + k
      BY <2>1, <3>1 DEF AccountsInv, IInv, TypeOK
    <3> QED BY <2>1, <3>2, <3>3
  <2>6. /\ cap' = [cap EXCEPT ![a] = IF limit = NoLimit THEN NoLimit ELSE rest + allocated'[i] - allocated[i]]
        /\ UNCHANGED <<spent, since, outer, uncounted, hosted>>
    BY <1>4 DEF Continue
  <2>7. rest + allocated'[i] - allocated[i] \in Nat
    BY <2>1, <2>5
  <2> HIDE DEF i, rest
  <2>8. cap' \in [Agents -> Nat \cup {NoLimit}]
    BY <2>6, <2>7 DEF AccountsInv, Usage
  <2> QED BY <2>4, <2>6, <2>8 DEF AccountsInv, Usage
<1>5. CASE RunAlone(a)
  <2>1. held[a] # 0 /\ UNCHANGED <<vars, spent, uncounted, hosted>>
    BY <1>5 DEF RunAlone
  <2>2. cap' \in [Agents -> Nat \cup {NoLimit}]
    BY <1>0, <1>5, <2>1 DEF RunAlone, Lease, AccountsInv, Usage
  <2>3. outer' \in [Agents -> Nat] /\ since' \in [Agents -> Nat]
    BY <1>5 DEF RunAlone, AccountsInv, Usage
  <2> QED BY <2>1, <2>2, <2>3 DEF ActorMove, AccountsInv, Usage
<1> QED BY <1>2, <1>3, <1>4, <1>5

LEMMA AgentsEnd ==
  ASSUME AccountsInv, NEW a \in Agents,
         ReleaseRun(a) \/ Dispose(a) \/ \E ok \in BOOLEAN : SettleRun(a, ok)
  PROVE  ActorMove /\ Usage'
<1>0. /\ held[a] # 0 => /\ held[a] \in 1..issued /\ held[a] \in Ids
                       /\ consumed[held[a]] \in Nat
      /\ spent[a] \in Nat /\ since[a] \in Nat /\ outer[a] \in Nat
  BY PlacesAreMade DEF AccountsInv, IInv, TypeOK, Usage
<1>1. \A well : Returns(a, well) =>
        spent' \in [Agents -> Nat] /\ since' \in [Agents -> Nat] /\ outer' \in [Agents -> Nat]
  BY <1>0 DEF Returns, AccountsInv, Usage
<1>2. CASE ReleaseRun(a)
  <2>1. /\ UNCHANGED vars \/ (held[a] # 0 /\ Release(held[a]))
        /\ cap' = [cap EXCEPT ![a] = NoLimit] /\ Returns(a, FALSE) /\ UNCHANGED <<uncounted, hosted>>
    BY <1>2 DEF ReleaseRun
  <2>2. ActorMove
    BY <1>0, <2>1 DEF ActorMove, Next
  <2> QED BY <1>1, <2>1, <2>2 DEF AccountsInv, Usage
<1>3. CASE Dispose(a)
  BY <1>3 DEF Dispose, ActorMove, AccountsInv, Usage
<1>4. ASSUME NEW ok \in BOOLEAN, SettleRun(a, ok) PROVE ActorMove /\ Usage'
  <2> DEFINE i == held[a]
             total == spent[a] - since[a]
  <2>1. \/ UNCHANGED vars
        \/ i # 0 /\ ~ (total < consumed[i]) /\ Pays(i, 0, total, TRUE)
    BY <1>4 DEF SettleRun
  <2>2. ActorMove
    <3>1. CASE i # 0 /\ ~ (total < consumed[i]) /\ Pays(i, 0, total, TRUE)
      <4>1. total \in Nat /\ i \in 1..issued
        BY <1>0, <3>1
      <4> HIDE DEF i, total
      <4> QED BY <3>1, <4>1 DEF ActorMove
    <3> QED BY <2>1, <3>1 DEF ActorMove
  <2>3. \E well : Returns(a, well)
    BY <1>4 DEF SettleRun
  <2>4. cap' \in [Agents -> Nat \cup {NoLimit}] /\ UNCHANGED <<uncounted, hosted>>
    BY <1>4 DEF SettleRun, AccountsInv, Usage
  <2> QED BY <1>1, <2>2, <2>3, <2>4 DEF AccountsInv, Usage
<1> QED BY <1>2, <1>3, <1>4

LEMMA ActorMoves ==
  ASSUME AccountsInv, [ActorNext]_allVars
  PROVE  ActorMove /\ Usage'
<1>1. CASE UNCHANGED allVars
  BY <1>1 DEF allVars, actorVars, ActorMove, AccountsInv, Usage
<1>2. \A c \in Teams : c \in Callers
  BY DEF Callers
<1> QED BY <1>1, <1>2, HostMoves, CallerMoves, AgentsBegin, AgentsRun, AgentsEnd DEF ActorNext

LEMMA AccountsInit == ActorInit => AccountsInv /\ GrantWithinBid
<1> SUFFICES ASSUME ActorInit PROVE AccountsInv /\ GrantWithinBid
  OBVIOUS
<1>1. IInv /\ PayersInv
  BY InitInv, ActorInitInv DEF ActorInit
<1>2. Usage
  BY DEF ActorInit, Usage
<1>3. GrantWithinBid
  BY DEF ActorInit, Init, GrantWithinBid
<1> QED BY <1>1, <1>2, <1>3 DEF AccountsInv

LEMMA AccountsStep == AccountsInv /\ [ActorNext]_allVars => AccountsInv' /\ Keeps
<1> SUFFICES ASSUME AccountsInv, [ActorNext]_allVars PROVE AccountsInv' /\ Keeps
  OBVIOUS
<1>1. Keeps /\ Usage'
  BY ActorMoves, MoveKeeps DEF AccountsInv
<1>2. PayersInv'
  BY ActorStep DEF AccountsInv
<1> QED BY <1>1, <1>2 DEF AccountsInv, Keeps

\* The inductive invariant of the market under its actors.
THEOREM Accounts == ActorSpec => []AccountsInv
<1>1. ActorInit => AccountsInv
  BY AccountsInit
<1>2. AccountsInv /\ [ActorNext]_allVars => AccountsInv'
  BY AccountsStep
<1> QED BY <1>1, <1>2, PTL DEF ActorSpec

\* However many actors request, overrun, continue, settle and rebalance at
\* once, no step of theirs reserves tokens the session does not have, except
\* under the policy that grants in full (BudgetMarket.ts:77, 137-139, 259-266,
\* 324-340; policies.ts:34-128).
THEOREM SupplyIsKept == Mode # "unlimited" => (ActorSpec => GrantsWithinSupply)
<1> SUFFICES ASSUME Mode # "unlimited" PROVE ActorSpec => GrantsWithinSupply
  OBVIOUS
<1>1. AccountsInv /\ [ActorNext]_allVars =>
        [limit # NoLimit /\ Reserved' > Reserved => EffectiveUsed' + Reserved' <= limit]_vars
  BY AccountsStep DEF Keeps, StepFits
<1> QED BY <1>1, Accounts, PTL DEF ActorSpec, GrantsWithinSupply

\* The actors' own bids, continuations and settlements never leave one of them
\* with more than it asked for, with the fixed and the unlimited policy, and
\* with the market as long as the session has a limit
\* (BudgetMarket.ts:77-89, 143-145, 270-276).
THEOREM BidsAreKept == Ordered => (ActorSpec => []GrantWithinBid)
<1> SUFFICES ASSUME Ordered PROVE ActorSpec => []GrantWithinBid
  OBVIOUS
<1>1. ActorInit => GrantWithinBid
  BY AccountsInit
<1>2. AccountsInv /\ GrantWithinBid /\ [ActorNext]_allVars => GrantWithinBid'
  BY AccountsStep DEF Keeps
<1> QED BY <1>1, <1>2, Accounts, PTL DEF ActorSpec

-----------------------------------------------------------------------------
(* The market policy (MarketClearing).                                     *)

\* A total over the elements that have any part of it.
LEMMA TotalOfSupport ==
  ASSUME NEW U, IsFiniteSet(U), NEW S \in SUBSET U, NEW f,
         \A x \in U : f[x] \in Nat, \A x \in U \ S : f[x] = 0
  PROVE  Total(f, S) = Total(f, U)
<1> DEFINE h == [x \in U |-> IF x \in S THEN f[x] ELSE 0]
<1>1. \A x \in U : f[x] \in Nat /\ f[x] = h[x]
  OBVIOUS
<1>2. Total(f, S) = Total(h, U)
  BY TotalOfSome
<1>3. Total(f, U) = Total(h, U)
  <2> HIDE DEF h
  <2> QED BY <1>1, TotalDepends
<1> QED BY <1>2, <1>3

\* One more part.
LEMMA TotalWithMore ==
  ASSUME NEW S, IsFiniteSet(S), NEW f \in [S -> Nat], NEW i \in S, NEW t \in Nat,
         NEW g, g = [f EXCEPT ![i] = f[i] + t]
  PROVE  Total(g, S) = Total(f, S) + t
<1>1. g[i] = f[i] + t /\ \A x \in S \ {i} : g[x] = f[x]
  OBVIOUS
<1>2. \A x \in S : f[x] \in Nat /\ g[x] \in Nat
  OBVIOUS
<1>3. S \in SUBSET S /\ S \ {i} \in SUBSET S /\ IsFiniteSet(S \ {i})
  BY FS_Subset
<1>4. Total(f, S) = f[i] + Total(f, S \ {i}) /\ Total(g, S) = g[i] + Total(g, S \ {i})
  <2>1. \A h : (\A x \in S : h[x] \in Nat) => Total(h, S) = h[i] + Total(h, S \ {i})
    BY <1>3, TotalByAny
  <2> QED BY <1>2, <2>1
<1>5. Total(f, S \ {i}) = Total(g, S \ {i})
  BY <1>1, <1>2, <1>3, TotalDepends
<1>6. Total(f, S \ {i}) \in Nat
  BY <1>2, <1>3, TotalIsNumber
<1> QED BY <1>1, <1>2, <1>4, <1>5, <1>6

\* What makes a batch one that the market can be asked to clear.
Auctioned(b) == b \in Seq(Bid) /\ \A k \in DOMAIN b : b[k].minimum <= b[k].tokens

LEMMA BidNumbers ==
  ASSUME NEW b \in Seq(Bid)
  PROVE  /\ DOMAIN b = 1..Len(b) /\ Len(b) \in Nat /\ IsFiniteSet(DOMAIN b)
         /\ \A i \in DOMAIN b : /\ b[i].tokens \in Nat /\ b[i].tokens <= MaxTokens
                                /\ b[i].minimum \in Nat /\ b[i].score \in Nat
<1>1. DOMAIN b = 1..Len(b) /\ Len(b) \in Nat
  OBVIOUS
<1>2. IsFiniteSet(DOMAIN b)
  BY <1>1, FS_Interval
<1>3. \A i \in DOMAIN b : b[i] \in Bid
  BY <1>1
<1>4. \A i \in DOMAIN b : /\ b[i].tokens \in 0..MaxTokens /\ b[i].minimum \in 0..MaxTokens
                          /\ b[i].score \in Nat
  BY <1>3 DEF Bid
<1> HIDE DEF Bid
<1> QED BY <1>1, <1>2, <1>4, PolicyAssumption

\* Every bid has its place, and those before it are served before it.
LEMMA RankingFacts ==
  ASSUME NEW b \in Seq(Bid), NEW p \in Rankings(b)
  PROVE  /\ p \in [DOMAIN b -> DOMAIN b]
         /\ \A k, l \in DOMAIN b : p[k] = p[l] => k = l
         /\ \A i \in DOMAIN b : \E k \in DOMAIN b : p[k] = i
         /\ \A k \in DOMAIN b : {j \in DOMAIN b : Ahead(b, j, p[k])} = {p[l] : l \in 1..(k - 1)}
<1> DEFINE D == DOMAIN b
<1>1. D = 1..Len(b) /\ Len(b) \in Nat /\ IsFiniteSet(D)
      /\ \A i \in D : b[i].tokens \in Nat /\ b[i].score \in Nat
  BY BidNumbers
<1>2. p \in [D -> D] /\ \A k, l \in D : k < l => Ahead(b, p[k], p[l])
  BY DEF Rankings
<1>3. \A i, j \in D : Ahead(b, i, j) => i # j /\ ~Ahead(b, j, i)
  BY <1>1 DEF Ahead
<1>4. \A k, l \in D : p[k] = p[l] => k = l
  <2> TAKE k, l \in D
  <2>1. k \in Nat /\ l \in Nat /\ p[k] \in D /\ p[l] \in D
    BY <1>1, <1>2
  <2> QED BY <1>2, <1>3, <2>1
<1>5. \A i \in D : \E k \in D : p[k] = i
  <2>1. p \in Injection(D, D)
    BY <1>2, <1>4 DEF Injection, IsInjective
  <2>2. p \in Surjection(D, D)
    <3> HIDE DEF D
    <3> QED BY <1>1, <2>1, FS_Injection
  <2> QED BY <2>2 DEF Surjection
<1>6. ASSUME NEW k \in D
      PROVE  {j \in D : Ahead(b, j, p[k])} = {p[l] : l \in 1..(k - 1)}
  <2>1. ASSUME NEW j \in D, Ahead(b, j, p[k]) PROVE \E l \in 1..(k - 1) : j = p[l]
    <3>1. PICK l \in D : p[l] = j
      BY <1>5
    <3>2. l # k /\ ~(k < l)
      BY <1>2, <1>3, <2>1, <3>1
    <3> QED BY <1>1, <3>1, <3>2
  <2>2. ASSUME NEW l \in 1..(k - 1) PROVE p[l] \in D /\ Ahead(b, p[l], p[k])
    BY <1>1, <1>2
  <2> QED BY <2>1, <2>2
<1> QED BY <1>2, <1>4, <1>5, <1>6

\* A bid has what the admission pass answers, given what those before it have.
Admitted(g, i) ==
  LET before == {j \in DOMAIN bids : Ahead(bids, j, i)}
  IN  g[i] = IF Admits(bids[i], supply - Total(g, before)) THEN bids[i].minimum ELSE 0

TokensConserved == available + Total(grants, DOMAIN bids) = supply

\* The admission pass has served the first places.
Admitting ==
  phase = "admit" =>
    /\ todo = {} /\ supplyAtStart = 0
    /\ \A k \in DOMAIN bids :
         IF k <= admitted THEN Admitted(grants, ranking[k]) ELSE grants[ranking[k]] = 0

\* The rounds share the rest among those that were given a minimum.
Rounds ==
  phase = "clear" =>
    /\ \E a \in Admissions(bids, supply) :
         \A i \in DOMAIN bids : grants[i] >= a[i] /\ (a[i] = 0 => grants[i] = 0)
    /\ \A k \in todo : Wants(ranking[k])
    /\ IF todo = {} THEN available > 0 => ~Stalled ELSE available <= supplyAtStart

ClearingInv == ClearingTypeOK /\ TokensConserved /\ Admitting /\ Rounds

\* The numbers of a state.
LEMMA ClearingNumbers ==
  ASSUME ClearingTypeOK
  PROVE  /\ Auctioned(bids) /\ supply \in Nat /\ IsFiniteSet(DOMAIN bids)
         /\ grants \in [DOMAIN bids -> Nat]
         /\ \A i \in DOMAIN bids : /\ bids[i].tokens \in Nat /\ bids[i].minimum \in Nat
                                   /\ grants[i] <= bids[i].tokens /\ bids[i].tokens <= MaxTokens
         /\ Total(grants, DOMAIN bids) \in Nat
<1>1. Auctioned(bids) /\ supply \in Nat
  BY ClearingAssumption DEF ClearingTypeOK, Auctioned
<1>2. /\ IsFiniteSet(DOMAIN bids)
      /\ \A i \in DOMAIN bids : /\ bids[i].tokens \in Nat /\ bids[i].tokens <= MaxTokens
                                /\ bids[i].minimum \in Nat
  BY <1>1, BidNumbers DEF Auctioned
<1>3. grants \in [DOMAIN bids -> Nat] /\ \A i \in DOMAIN bids : grants[i] <= bids[i].tokens
  BY PolicyAssumption DEF ClearingTypeOK, Grants
<1>4. Total(grants, DOMAIN bids) \in Nat
  BY <1>2, <1>3, TotalIsNumber
<1> QED BY <1>1, <1>2, <1>3, <1>4

LEMMA ClearingInitInv == ClearingInit => ClearingInv
<1> SUFFICES ASSUME ClearingInit PROVE ClearingInv
  OBVIOUS
<1>1. Auctioned(bids) /\ supply \in Nat
  BY ClearingAssumption DEF ClearingInit, Auctioned
<1>2. /\ Len(bids) \in Nat /\ IsFiniteSet(DOMAIN bids) /\ DOMAIN bids = 1..Len(bids)
      /\ \A i \in DOMAIN bids : bids[i].tokens \in Nat
  BY <1>1, BidNumbers DEF Auctioned
<1>3. grants \in Grants(bids) /\ \A i \in DOMAIN bids : grants[i] = 0
  BY <1>2, PolicyAssumption DEF ClearingInit, Grants
<1>4. ClearingTypeOK
  BY <1>1, <1>2, <1>3 DEF ClearingInit, ClearingTypeOK
<1>5. Total(grants, DOMAIN bids) = 0
  <2>1. {} \in SUBSET DOMAIN bids /\ \A i \in (DOMAIN bids) \ {} : grants[i] = 0
    BY <1>3
  <2>2. Total(grants, {}) = Total(grants, DOMAIN bids)
    BY <1>2, <1>3, <2>1, TotalOfSupport
  <2> QED BY <2>2, TotalOfNone
<1>6. TokensConserved
  BY <1>1, <1>5 DEF ClearingInit, TokensConserved
<1>7. Admitting
  <2>1. ranking \in [DOMAIN bids -> DOMAIN bids]
    BY DEF ClearingInit, Rankings
  <2> QED BY <1>2, <1>3, <2>1 DEF ClearingInit, Admitting
<1> QED BY <1>4, <1>6, <1>7 DEF ClearingInit, ClearingInv, Rounds

\* A decision that gains what there is and it wants.
LEMMA GiveInv ==
  ASSUME ClearingTypeOK, TokensConserved, NEW i \in DOMAIN bids, NEW t \in Nat,
         t <= available, grants[i] + t <= bids[i].tokens,
         Give(i, t), UNCHANGED inputVars
  PROVE  /\ grants' \in Grants(bids) /\ grants' \in [DOMAIN bids -> Nat]
         /\ grants'[i] = grants[i] + t /\ \A j \in DOMAIN bids \ {i} : grants'[j] = grants[j]
         /\ available' \in Nat /\ available' = available - t
         /\ TokensConserved'
<1>1. /\ IsFiniteSet(DOMAIN bids) /\ grants \in [DOMAIN bids -> Nat] /\ supply \in Nat
      /\ \A j \in DOMAIN bids : grants[j] <= bids[j].tokens /\ bids[j].tokens \in Nat
                                /\ bids[j].tokens <= MaxTokens
      /\ Total(grants, DOMAIN bids) \in Nat
  BY ClearingNumbers
<1>2. grants' = [grants EXCEPT ![i] = grants[i] + t] /\ available' = available - t
  BY <1>1 DEF Give
<1>3. grants'[i] = grants[i] + t /\ \A j \in DOMAIN bids \ {i} : grants'[j] = grants[j]
  BY <1>1, <1>2
<1>4. grants' \in [DOMAIN bids -> Nat]
  BY <1>1, <1>2
<1>5. grants' \in Grants(bids)
  <2>1. \A j \in DOMAIN bids : grants'[j] <= bids[j].tokens /\ grants'[j] \in 0..MaxTokens
    BY <1>1, <1>3, <1>4, PolicyAssumption
  <2> QED BY <1>4, <2>1 DEF Grants
<1>6. available \in Nat /\ available' \in Nat
  BY <1>2 DEF ClearingTypeOK
<1>7. Total(grants', DOMAIN bids) = Total(grants, DOMAIN bids) + t
  <2> DEFINE D == DOMAIN bids
             old == grants
             new == grants'
  <2>1. IsFiniteSet(D) /\ old \in [D -> Nat] /\ i \in D /\ new = [old EXCEPT ![i] = old[i] + t]
    BY <1>1, <1>2
  <2> HIDE DEF D, old, new
  <2>2. Total(new, D) = Total(old, D) + t
    BY <2>1, TotalWithMore
  <2> QED BY <2>2 DEF D, old, new
<1>8. TokensConserved'
  <2>1. bids' = bids /\ supply' = supply
    BY DEF inputVars
  <2> QED BY <1>1, <1>2, <1>6, <1>7, <2>1 DEF TokensConserved
<1> QED BY <1>2, <1>3, <1>4, <1>5, <1>6, <1>8

LEMMA AdmitInv ==
  ASSUME ClearingInv, Admit
  PROVE  ClearingInv'
<1> DEFINE D == DOMAIN bids
           k == admitted + 1
           i == ranking[k]
           t == IF Admits(bids[i], available) THEN bids[i].minimum ELSE 0
           Before(j) == {l \in D : Ahead(bids, l, j)}
<1>0. ClearingTypeOK /\ TokensConserved /\ Admitting
  BY DEF ClearingInv
<1>1. /\ Auctioned(bids) /\ supply \in Nat /\ IsFiniteSet(D) /\ grants \in [D -> Nat]
      /\ D = 1..Len(bids) /\ Len(bids) \in Nat
      /\ \A j \in D : bids[j].tokens \in Nat /\ bids[j].minimum \in Nat
  BY <1>0, ClearingNumbers, BidNumbers DEF Auctioned
<1>2. /\ phase = "admit" /\ phase' = phase /\ Give(i, t) /\ admitted' = k
      /\ UNCHANGED <<inputVars, roundVars>>
  BY DEF Admit
<1>3. admitted \in Nat /\ k \in D
  BY <1>0, <1>1 DEF Admit, ClearingTypeOK
<1>4. /\ ranking \in [D -> D]
      /\ \A l, m \in D : ranking[l] = ranking[m] => l = m
      /\ \A j \in D : \E l \in D : ranking[l] = j
      /\ \A l \in D : Before(ranking[l]) = {ranking[m] : m \in 1..(l - 1)}
  BY <1>0, <1>1, RankingFacts DEF ClearingTypeOK, Auctioned
<1>5. i \in D /\ grants[i] = 0
  BY <1>0, <1>2, <1>3, <1>4 DEF Admitting
<1>6. t \in Nat /\ t <= available /\ grants[i] + t <= bids[i].tokens
  BY <1>0, <1>1, <1>5 DEF Admits, Auctioned, ClearingTypeOK
<1>7. /\ grants' \in Grants(bids) /\ grants' \in [D -> Nat]
      /\ grants'[i] = t /\ \A j \in D \ {i} : grants'[j] = grants[j]
      /\ available' \in Nat /\ TokensConserved'
  <2> HIDE DEF t
  <2> QED BY <1>0, <1>2, <1>5, <1>6, GiveInv
<1>8. ClearingTypeOK'
  <2>1. k \in 0..Len(bids)
    BY <1>1, <1>3
  <2> QED BY <1>0, <1>2, <1>7, <2>1 DEF ClearingTypeOK, inputVars, roundVars
<1>9. \A l \in D : l <= k => Total(grants', Before(ranking[l])) = Total(grants, Before(ranking[l]))
  <2> TAKE l \in D
  <2> HAVE l <= k
  <2>1. \A j \in Before(ranking[l]) : j # i
    <3>1. \A m \in 1..(l - 1) : m \in D /\ m # k
      BY <1>1, <1>3
    <3> QED BY <1>3, <1>4, <3>1
  <2> DEFINE S == Before(ranking[l])
  <2>2. \A j \in S : grants[j] \in Nat /\ grants'[j] = grants[j]
    BY <1>1, <1>7, <2>1
  <2>3. IsFiniteSet(S)
    BY <1>1, FS_Subset
  <2> HIDE DEF S
  <2>4. Total(grants, S) = Total(grants', S)
    BY <2>2, <2>3, TotalDepends
  <2> QED BY <2>4 DEF S
<1>10. Total(grants, Before(i)) = Total(grants, D)
  <2>1. \A j \in D \ Before(i) : grants[j] = 0
    <3> TAKE j \in D \ Before(i)
    <3>1. PICK l \in D : ranking[l] = j
      BY <1>4
    <3>2. l \notin 1..(k - 1)
      BY <1>3, <1>4, <3>1
    <3>3. ~(l <= admitted)
      BY <1>1, <1>3, <3>2
    <3> QED BY <1>0, <1>2, <3>1, <3>3 DEF Admitting
  <2> DEFINE S == Before(i)
  <2>2. S \in SUBSET D /\ \A j \in D \ S : grants[j] = 0
    BY <2>1
  <2> HIDE DEF S, D
  <2>3. Total(grants, S) = Total(grants, D)
    BY <1>1, <2>2, TotalOfSupport
  <2> QED BY <2>3 DEF S
<1>11. Admitted(grants', i)
  <2>1. available = supply - Total(grants, D)
    <3>1. Total(grants, D) \in Nat
      BY <1>0, ClearingNumbers
    <3> QED BY <1>0, <1>1, <3>1 DEF TokensConserved, ClearingTypeOK
  <2>2. Total(grants', Before(i)) = Total(grants, D)
    BY <1>3, <1>9, <1>10
  <2> QED BY <1>7, <2>1, <2>2 DEF Admitted
<1>12. ASSUME NEW l \in D
       PROVE  IF l <= k THEN Admitted(grants', ranking[l]) ELSE grants'[ranking[l]] = 0
  <2>1. CASE l = k
    BY <1>3, <1>11, <2>1
  <2>2. CASE l < k
    <3>1. l <= admitted /\ ranking[l] # i /\ ranking[l] \in D
      <4>1. l \in Nat /\ l <= admitted /\ l # k
        BY <1>1, <1>3, <2>2
      <4> QED BY <1>3, <1>4, <4>1
    <3>2. Admitted(grants, ranking[l])
      BY <1>0, <1>2, <3>1 DEF Admitting
    <3>3. grants'[ranking[l]] = grants[ranking[l]]
      BY <1>7, <3>1
    <3>4. Total(grants', Before(ranking[l])) = Total(grants, Before(ranking[l]))
      BY <1>1, <1>3, <1>9, <2>2
    <3>5. Admitted(grants', ranking[l])
      BY <3>2, <3>3, <3>4 DEF Admitted
    <3> QED BY <1>1, <1>3, <2>2, <3>5
  <2>3. CASE l > k
    <3>1. ~(l <= admitted) /\ ranking[l] # i /\ ranking[l] \in D
      <4>1. l \in Nat /\ ~(l <= admitted) /\ l # k
        BY <1>1, <1>3, <2>3
      <4> QED BY <1>3, <1>4, <4>1
    <3> QED BY <1>0, <1>1, <1>2, <1>3, <1>7, <2>3, <3>1 DEF Admitting
  <2> QED BY <1>1, <1>3, <2>1, <2>2, <2>3
<1>13. Admitting'
  <2>1. /\ bids' = bids /\ ranking' = ranking /\ supply' = supply
        /\ todo' = {} /\ supplyAtStart' = 0
    BY <1>0, <1>2 DEF inputVars, roundVars, Admitting
  <2>2. \A j : Admitted(grants', j) => Admitted(grants, j)'
    BY <2>1 DEF Admitted
  <2> HIDE DEF k, i
  <2> QED BY <1>2, <1>12, <2>1, <2>2 DEF Admitting
<1> QED BY <1>2, <1>7, <1>8, <1>13 DEF ClearingInv, Rounds

LEMMA EndAdmissionInv ==
  ASSUME ClearingInv, EndAdmission
  PROVE  ClearingInv'
<1> DEFINE D == DOMAIN bids
<1>0. ClearingTypeOK /\ TokensConserved /\ Admitting
  BY DEF ClearingInv
<1>1. /\ phase = "admit" /\ admitted = Len(bids) /\ phase' = "clear"
      /\ UNCHANGED <<inputVars, grants, available, admitted, roundVars>>
  BY DEF EndAdmission
<1>2. Auctioned(bids) /\ D = 1..Len(bids) /\ Len(bids) \in Nat /\ grants \in [D -> Nat]
  BY <1>0, ClearingNumbers, BidNumbers DEF Auctioned
<1>3. \A j \in D : \E l \in D : ranking[l] = j
  BY <1>0, <1>2, RankingFacts DEF ClearingTypeOK, Auctioned
<1>4. \A j \in D : Admitted(grants, j)
  <2> TAKE j \in D
  <2>1. PICK l \in D : ranking[l] = j
    BY <1>3
  <2>2. l <= admitted
    BY <1>1, <1>2
  <2> QED BY <1>0, <1>1, <2>1, <2>2 DEF Admitting
<1>5. grants \in Admissions(bids, supply)
  BY <1>0, <1>4 DEF Admissions, Admitted, ClearingTypeOK
<1>6. ClearingTypeOK'
  BY <1>0, <1>1 DEF ClearingTypeOK, inputVars, roundVars
<1>7. TokensConserved'
  BY <1>0, <1>1 DEF TokensConserved, inputVars
<1>8. Rounds'
  <2>1. /\ bids' = bids /\ ranking' = ranking /\ supply' = supply /\ grants' = grants
        /\ available' = available /\ todo' = {} /\ supplyAtStart' = 0
    BY <1>0, <1>1 DEF inputVars, roundVars, Admitting
  <2>2. \A j \in D : grants[j] >= grants[j]
    BY <1>2
  <2>3. \E a \in Admissions(bids, supply) :
          \A j \in D : grants[j] >= a[j] /\ (a[j] = 0 => grants[j] = 0)
    BY <1>5, <2>2
  <2> QED BY <2>1, <2>3 DEF Rounds, Stalled
<1> QED BY <1>1, <1>6, <1>7, <1>8 DEF ClearingInv, Admitting

LEMMA BeginRoundInv ==
  ASSUME ClearingInv, BeginRound
  PROVE  ClearingInv'
<1>0. ClearingTypeOK /\ TokensConserved /\ Rounds
  BY DEF ClearingInv
<1>1. /\ phase = "clear" /\ phase' = phase /\ todo = {} /\ todo' = Wanting /\ Wanting # {}
      /\ weights' \in [Wanting -> Weights] /\ supplyAtStart' = available
      /\ UNCHANGED <<inputVars, grants, available, admitted>>
  BY DEF BeginRound
<1>2. Wanting \subseteq DOMAIN bids
  BY <1>0 DEF Wanting, ClearingTypeOK, Rankings
<1>3. ClearingTypeOK'
  <2>1. DOMAIN weights' = Wanting
    BY <1>1
  <2> QED BY <1>0, <1>1, <1>2, <2>1 DEF ClearingTypeOK, inputVars
<1>4. TokensConserved'
  BY <1>0, <1>1 DEF TokensConserved, inputVars
<1>5. Rounds'
  <2>1. /\ bids' = bids /\ ranking' = ranking /\ supply' = supply /\ grants' = grants
        /\ available' = available /\ available \in Nat
    BY <1>0, <1>1 DEF inputVars, ClearingTypeOK
  <2>2. \A k \in todo' : Wants(ranking[k])'
    BY <1>1, <2>1 DEF Wanting, Wants
  <2>3. available' <= supplyAtStart'
    BY <1>1, <2>1
  <2> QED BY <1>0, <1>1, <2>1, <2>2, <2>3 DEF Rounds
<1> QED BY <1>1, <1>3, <1>4, <1>5 DEF ClearingInv, Admitting

\* What is given in a round.
LEMMA ShareFacts ==
  ASSUME ClearingTypeOK, NEW k \in todo, Wants(ranking[k]), available > 0
  PROVE  /\ ranking[k] \in DOMAIN bids
         /\ Share(k) \in Nat /\ Share(k) >= 1 /\ Share(k) <= available
         /\ grants[ranking[k]] + Share(k) <= bids[ranking[k]].tokens
<1> DEFINE i == ranking[k]
           T == DOMAIN weights
           whole == Total(weights, T)
<1>1. k \in T /\ k \in DOMAIN bids /\ IsFiniteSet(T) /\ IsFiniteSet(DOMAIN bids)
      /\ i \in DOMAIN bids
  <2>1. IsFiniteSet(DOMAIN bids) /\ T \subseteq DOMAIN bids /\ k \in T
    BY ClearingNumbers DEF ClearingTypeOK
  <2> QED BY <2>1, FS_Subset DEF ClearingTypeOK, Rankings
<1>2. grants[i] \in Nat /\ bids[i].tokens \in Nat /\ grants[i] < bids[i].tokens
  BY <1>1, ClearingNumbers DEF Wants
<1>3. available \in Nat /\ supplyAtStart \in Nat
  BY DEF ClearingTypeOK
<1>4. \A l \in T : weights[l] \in Nat /\ weights[l] >= 1
  BY ClearingAssumption DEF ClearingTypeOK
<1>5. whole \in Nat /\ whole >= 1
  <2> DEFINE w == weights
  <2>1. \A l \in T : w[l] \in Nat
    BY <1>4
  <2>2. T \in SUBSET T /\ T \ {k} \in SUBSET T
    OBVIOUS
  <2> HIDE DEF w, T
  <2>3. \A s \in SUBSET T : Total(w, s) \in Nat
    BY <1>1, <2>1, TotalIsNumber
  <2>4. Total(w, T) = w[k] + Total(w, T \ {k})
    BY <1>1, <2>1, <2>2, TotalByAny
  <2>5. Total(w, T) \in Nat /\ Total(w, T \ {k}) \in Nat
    BY <2>2, <2>3
  <2> QED BY <1>1, <1>4, <2>4, <2>5 DEF w, T
<1>6. Proportion(k) \in Int
  <2> HIDE DEF whole
  <2>1. supplyAtStart * weights[k] \in Int
    BY <1>1, <1>3, <1>4
  <2> DEFINE over == supplyAtStart * weights[k]
  <2> HIDE DEF over
  <2>2. over \div whole \in Int
    BY <1>5, <2>1 DEF over
  <2> QED BY <2>2 DEF Proportion, over, whole
<1>7. Unmet(k) \in Nat /\ Unmet(k) >= 1 /\ grants[i] + Unmet(k) = bids[i].tokens
  BY <1>2 DEF Unmet
<1> QED BY <1>1, <1>2, <1>3, <1>6, <1>7 DEF Share, Lesser, Greater

LEMMA ServeInv ==
  ASSUME ClearingInv, Serve
  PROVE  ClearingInv'
<1> DEFINE D == DOMAIN bids
           k == Min(todo)
           i == ranking[k]
<1>0. ClearingTypeOK /\ TokensConserved /\ Rounds
  BY DEF ClearingInv
<1>1. /\ phase = "clear" /\ phase' = phase /\ todo # {}
      /\ UNCHANGED <<inputVars, phase, admitted, weights, supplyAtStart>>
  BY DEF Serve
<1>2. /\ Auctioned(bids) /\ D = 1..Len(bids) /\ Len(bids) \in Nat
      /\ grants \in [D -> Nat] /\ available \in Nat /\ supplyAtStart \in Nat
  BY <1>0, ClearingNumbers, BidNumbers DEF Auctioned, ClearingTypeOK
<1>3. k \in todo
  <2>1. todo \subseteq Nat
    BY <1>0, <1>2 DEF ClearingTypeOK
  <2>2. \E x \in todo : \A y \in todo : x <= y
    BY <1>1, <2>1, LeastNumber
  <2> QED BY <2>2 DEF Min
<1>4. todo \subseteq D
  BY <1>0 DEF ClearingTypeOK
<1>5. /\ \A l, m \in D : ranking[l] = ranking[m] => l = m
      /\ ranking \in [D -> D]
  BY <1>0, <1>2, RankingFacts DEF ClearingTypeOK, Auctioned
<1>6. PICK a \in Admissions(bids, supply) :
        \A j \in D : grants[j] >= a[j] /\ (a[j] = 0 => grants[j] = 0)
  BY <1>0, <1>1 DEF Rounds
<1>7. (\A l \in todo : Wants(ranking[l])) /\ available <= supplyAtStart
  BY <1>0, <1>1 DEF Rounds
<1>8. a \in [D -> Nat]
  BY <1>6, PolicyAssumption DEF Admissions, Grants
<1>9. CASE available > 0
  <2> DEFINE t == Share(k)
  <2>1. i \in D /\ t \in Nat /\ t >= 1 /\ t <= available /\ grants[i] + t <= bids[i].tokens
    BY <1>0, <1>3, <1>7, <1>9, ShareFacts
  <2>2. Give(i, t) /\ todo' = todo \ {k}
    BY <1>9 DEF Serve
  <2>3. UNCHANGED inputVars
    BY <1>1
  <2> HIDE DEF t, k
  <2>4. /\ grants' \in Grants(bids) /\ grants' \in [D -> Nat]
        /\ grants'[i] = grants[i] + t /\ \A j \in D \ {i} : grants'[j] = grants[j]
        /\ available' \in Nat /\ available' = available - t
        /\ TokensConserved'
    BY <1>0, <2>1, <2>2, <2>3, GiveInv
  <2>5. ClearingTypeOK'
    BY <1>0, <1>1, <2>2, <2>4 DEF ClearingTypeOK, inputVars
  <2>6. \A j \in D : grants'[j] >= a[j] /\ (a[j] = 0 => grants'[j] = 0)
    <3>1. grants[i] > 0
      BY <1>3, <1>7 DEF Wants
    <3>2. a[i] # 0
      BY <1>6, <2>1, <3>1
    <3>3. grants'[i] >= a[i]
      BY <1>2, <1>6, <1>8, <2>1, <2>4
    <3> QED BY <1>6, <2>4, <3>2, <3>3
  <2>7. \A l \in todo' : Wants(ranking[l])'
    <3> TAKE l \in todo'
    <3>1. l \in todo /\ l \in D /\ k \in D /\ l # k
      BY <1>3, <1>4, <2>2
    <3>2. ranking[l] # i /\ ranking[l] \in D
      BY <1>5, <3>1
    <3>3. Wants(ranking[l]) /\ grants'[ranking[l]] = grants[ranking[l]]
      BY <1>7, <2>4, <3>1, <3>2
    <3> QED BY <1>1, <3>3 DEF Wants, inputVars
  <2>8. available' < available /\ available' <= supplyAtStart
        /\ available' # supplyAtStart
    BY <1>2, <1>7, <2>1, <2>4
  <2>9. bids' = bids /\ ranking' = ranking /\ supply' = supply /\ supplyAtStart' = supplyAtStart
    BY <1>1 DEF inputVars
  <2>10. Rounds'
    BY <1>6, <2>6, <2>7, <2>8, <2>9 DEF Rounds, Stalled
  <2> QED BY <1>1, <2>4, <2>5, <2>10 DEF ClearingInv, Admitting
<1>10. CASE ~(available > 0)
  <2>1. todo' = {} /\ grants' = grants /\ available' = available /\ available = 0
    BY <1>2, <1>10 DEF Serve
  <2>2. ClearingTypeOK'
    BY <1>0, <1>1, <2>1 DEF ClearingTypeOK, inputVars
  <2>3. TokensConserved'
    BY <1>0, <1>1, <2>1 DEF TokensConserved, inputVars
  <2>4. Rounds'
    <3>1. bids' = bids /\ ranking' = ranking /\ supply' = supply
      BY <1>1 DEF inputVars
    <3> QED BY <1>6, <2>1, <3>1 DEF Rounds
  <2> QED BY <1>1, <2>2, <2>3, <2>4 DEF ClearingInv, Admitting
<1> QED BY <1>9, <1>10

\* What is answered is what the abstract market may answer.
LEMMA AnswerIsCleared ==
  ASSUME ClearingInv, Answer
  PROVE  grants \in MarketGrants(bids, supply)
<1> DEFINE D == DOMAIN bids
<1>0. ClearingTypeOK /\ TokensConserved /\ Rounds
  BY DEF ClearingInv
<1>1. phase = "clear" /\ todo = {} /\ (available = 0 \/ Wanting = {} \/ Stalled)
  BY DEF Answer
<1>2. /\ Auctioned(bids) /\ IsFiniteSet(D) /\ grants \in [D -> Nat] /\ grants \in Grants(bids)
      /\ available \in Nat /\ supply \in Nat /\ Total(grants, D) \in Nat
      /\ \A j \in D : bids[j].tokens \in Nat /\ grants[j] <= bids[j].tokens
  BY <1>0, ClearingNumbers DEF ClearingTypeOK
<1>3. available = 0 \/ Wanting = {}
  BY <1>0, <1>1, <1>2 DEF Rounds
<1>4. PICK a \in Admissions(bids, supply) :
        \A j \in D : grants[j] >= a[j] /\ (a[j] = 0 => grants[j] = 0)
  BY <1>0, <1>1 DEF Rounds
<1>5. a \in [D -> Nat]
  BY <1>4, PolicyAssumption DEF Admissions, Grants
<1> DEFINE S == Clearing(bids, a)
           f == [j \in S |-> bids[j].tokens]
<1>6. S \in SUBSET D /\ IsFiniteSet(S) /\ \A j \in D \ S : grants[j] = 0
  <2>1. S \in SUBSET D /\ \A j \in D \ S : a[j] = 0
    BY <1>5 DEF Clearing
  <2> QED BY <1>2, <1>4, <2>1, FS_Subset
<1>7. \A j \in S : f[j] \in Nat /\ grants[j] \in Nat /\ grants[j] <= f[j]
  BY <1>2, <1>6
<1>8. Total(grants, S) = Total(grants, D) /\ Total(grants, S) <= Total(f, S) /\ Total(f, S) \in Nat
  <2> HIDE DEF S, f, D
  <2>1. Total(grants, S) = Total(grants, D)
    <3>1. \A j \in D : grants[j] \in Nat
      BY <1>2
    <3> QED BY <1>2, <1>6, <3>1, TotalOfSupport
  <2>2. Total(grants, S) <= Total(f, S)
    BY <1>6, <1>7, TotalGrows
  <2>3. \A j \in S : f[j] \in Nat
    BY <1>7
  <2>4. S \in SUBSET S
    OBVIOUS
  <2>5. Total(f, S) \in Nat
    BY <1>6, <2>3, <2>4, TotalIsNumber
  <2> QED BY <2>1, <2>2, <2>5
<1>9. Total(grants, S) = supply - available
  BY <1>0, <1>2, <1>8 DEF TokensConserved
<1>10. Wanting = {} => Total(grants, S) = Total(f, S)
  <2> HAVE Wanting = {}
  <2>1. \A j \in S : grants[j] \in Nat /\ grants[j] = f[j]
    <3> TAKE j \in S
    <3>1. grants[j] > 0 /\ j \in D
      BY <1>2, <1>4, <1>5, <1>6 DEF Clearing
    <3>2. ranking \in [D -> D] /\ \E l \in D : ranking[l] = j
      BY <1>0, <1>2, <3>1, RankingFacts DEF Auctioned, ClearingTypeOK
    <3>3. ~Wants(j)
      BY <3>2 DEF Wanting
    <3> QED BY <1>2, <1>7, <3>1, <3>3 DEF Wants
  <2> HIDE DEF S, f
  <2> QED BY <1>6, <2>1, TotalDepends
<1>11. Total(grants, S) = Lesser(supply, Total(f, S))
  <2> HIDE DEF S, f
  <2> QED BY <1>2, <1>3, <1>8, <1>9, <1>10 DEF Lesser
<1>12. grants \in Cleared(bids, supply, a)
  BY <1>2, <1>4, <1>6, <1>11 DEF Cleared
<1> QED BY <1>4, <1>12 DEF MarketGrants

LEMMA ClearingStepInv ==
  ASSUME ClearingInv, [ClearingNext]_clearingVars
  PROVE  ClearingInv'
<1>1. CASE Admit
  BY <1>1, AdmitInv
<1>2. CASE EndAdmission
  BY <1>2, EndAdmissionInv
<1>3. CASE BeginRound
  BY <1>3, BeginRoundInv
<1>4. CASE Serve
  BY <1>4, ServeInv
<1>5. CASE Answer
  BY <1>5 DEF Answer, ClearingInv, ClearingTypeOK, TokensConserved, Admitting, Rounds,
              inputVars, roundVars
<1>6. CASE UNCHANGED clearingVars
  <2>1. /\ bids' = bids /\ supply' = supply /\ ranking' = ranking /\ phase' = phase
        /\ grants' = grants /\ available' = available /\ admitted' = admitted
        /\ todo' = todo /\ weights' = weights /\ supplyAtStart' = supplyAtStart
    BY <1>6 DEF clearingVars, inputVars, roundVars
  <2>2. ClearingTypeOK' /\ TokensConserved' /\ Admitting'
    BY <2>1 DEF ClearingInv, ClearingTypeOK, TokensConserved, Admitting, Admitted
  <2>3. Rounds'
    BY <2>1 DEF ClearingInv, Rounds, Wants, Stalled
  <2> QED BY <2>2, <2>3 DEF ClearingInv
<1> QED BY <1>1, <1>2, <1>3, <1>4, <1>5, <1>6 DEF ClearingNext

\* The auction and the loop mean the same by what the market may answer.
LEMMA AuctionTerms ==
  /\ Auction!Bid = Bid
  /\ \A b, left : Auction!MarketGrants(b, left) = MarketGrants(b, left)
<1>1. Auction!Bid = Bid
  BY DEF Auction!Bid, Bid
<1>2. \A f, S : Auction!Total(f, S) = Total(f, S)
  <2> TAKE f, S
  <2>1. Total(f, S) = (CHOOSE sum : Adds(f, SUBSET S, sum))[S]
    BY DEF Total, MapThenSumSet, MapThenFoldSet, Adds, First
  <2>2. Auction!Total(f, S) = (CHOOSE sum : Adds(f, SUBSET S, sum))[S]
    BY DEF Auction!Total, Auction!MapThenSumSet, Auction!MapThenFoldSet, Adds, First
  <2> QED BY <2>1, <2>2
<1>3. \A b : Auction!Grants(b) = Grants(b)
  BY DEF Grants, Auction!Grants
<1>4. \A b, i, j : Auction!Ahead(b, i, j) <=> Ahead(b, i, j)
  BY DEF Ahead, Auction!Ahead
<1>5. \A b, left : Auction!Admits(b, left) <=> Admits(b, left)
  BY DEF Admits, Auction!Admits
<1>6. \A m, n : Auction!Lesser(m, n) = Lesser(m, n)
  BY DEF Lesser, Auction!Lesser
<1>7. \A b, g : Auction!Clearing(b, g) = Clearing(b, g)
  BY DEF Clearing, Auction!Clearing
<1>8. \A b, left : Auction!Admissions(b, left) = Admissions(b, left)
  BY <1>2, <1>3, <1>4, <1>5 DEF Admissions, Auction!Admissions
<1>9. \A b, left, g : Auction!Cleared(b, left, g) = Cleared(b, left, g)
  BY <1>2, <1>3, <1>6, <1>7 DEF Cleared, Auction!Cleared
<1>10. \A b, left : Auction!MarketGrants(b, left) = MarketGrants(b, left)
  BY <1>8, <1>9 DEF MarketGrants, Auction!MarketGrants
<1> QED BY <1>1, <1>10

\* The loop of the market policy answers what MarketGrants allows, for all
\* batches, supplies and weights: what every use of the policy relies on
\* (the steps of ImplementsAuction; policies.ts:73-128).
THEOREM MarketAnswers ==
  ClearingSpec => Auction!Init /\ [][Auction!Next]_(Auction!vars)
<1>1. ClearingInit => ClearingInv
  BY ClearingInitInv
<1>2. ClearingInv /\ [ClearingNext]_clearingVars => ClearingInv'
  BY ClearingStepInv
<1>3. ClearingInit => Auction!Init
  <2> SUFFICES ASSUME ClearingInit PROVE Auction!Init
    OBVIOUS
  <2>1. bids \in Seq(Bid) /\ supply \in Nat /\ phase = "admit"
    BY ClearingAssumption DEF ClearingInit
  <2>2. Auction!Bid = Bid
    BY AuctionTerms
  <2> QED BY <2>1, <2>2 DEF Auction!Init
<1>4. ClearingInv /\ [ClearingNext]_clearingVars => [Auction!Next]_(Auction!vars)
  <2> SUFFICES ASSUME ClearingInv, [ClearingNext]_clearingVars
               PROVE  [Auction!Next]_(Auction!vars)
    OBVIOUS
  <2>1. CASE Answer
    <3>1. grants \in MarketGrants(bids, supply)
      BY <2>1, AnswerIsCleared
    <3>2. /\ phase = "clear" /\ phase' = "done" /\ grants' = grants
          /\ bids' = bids /\ supply' = supply
      BY <2>1 DEF Answer, inputVars
    <3>3. Auction!MarketGrants(bids, supply) = MarketGrants(bids, supply)
      BY AuctionTerms
    <3> QED BY <3>1, <3>2, <3>3 DEF Auction!Next, Auction!Clear
  <2>2. CASE Admit \/ EndAdmission \/ BeginRound \/ Serve
    BY <2>2 DEF Admit, EndAdmission, BeginRound, Serve, inputVars, Auction!vars
  <2>3. CASE UNCHANGED clearingVars
    BY <2>3 DEF clearingVars, inputVars, Auction!vars
  <2> QED BY <2>1, <2>2, <2>3 DEF ClearingNext
<1> QED BY <1>1, <1>2, <1>3, <1>4, PTL DEF ClearingSpec
=============================================================================
