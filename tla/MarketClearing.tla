---------------------------- MODULE MarketClearing ----------------------------
(***************************************************************************)
(* MarketBudgetPolicy.allocate() with a limited supply                     *)
(* (src/src/core/budget/policies.ts:73-128), one step per bid served: the  *)
(* admission pass in the order of the scores, then rounds that share the   *)
(* rest by weight until it is spent or nobody wants more.                  *)
(*                                                                         *)
(* The weight of a bid in a round, score * sqrt(unmet), is any member of   *)
(* Weights.                                                                *)
(***************************************************************************)
EXTENDS BudgetPolicies

CONSTANTS
  Auctions,   \* the batches of normalized bids
  Supplies,   \* the supplies
  Weights,    \* the weights
  Pending     \* no answer yet

ASSUME ClearingAssumption ==
  /\ Auctions \subseteq {batch \in Seq(Bid) :
       \A k \in DOMAIN batch : batch[k].minimum <= batch[k].tokens}
  /\ Supplies \subseteq Nat
  /\ Weights \subseteq Nat \ {0}

VARIABLES
  bids,
  supply,
  ranking,        \* the bids in the order of their scores
  phase,          \* "admit", "clear" or "done"
  grants,         \* allocatedTokens of the decisions
  available,
  admitted,       \* how many bids the admission pass has served
  todo,           \* the places in the ranking this round has yet to serve
  weights,        \* marginalWeights of this round, by place
  supplyAtStart   \* available when this round began

inputVars == <<bids, supply, ranking>>
roundVars == <<todo, weights, supplyAtStart>>
clearingVars == <<inputVars, phase, grants, available, admitted, roundVars>>

\* The places of the bids that were admitted and want more.
Wants(i) == grants[i] > 0 /\ grants[i] < bids[i].tokens
Wanting == {k \in DOMAIN ranking : Wants(ranking[k])}

ClearingTypeOK ==
  /\ bids \in Auctions
  /\ supply \in Supplies
  /\ ranking \in Rankings(bids)
  /\ phase \in {"admit", "clear", "done"}
  /\ grants \in Grants(bids)
  /\ available \in Nat
  /\ admitted \in 0..Len(bids)
  /\ DOMAIN weights \subseteq DOMAIN bids
  /\ weights \in [DOMAIN weights -> Weights]
  /\ todo \subseteq DOMAIN weights
  /\ supplyAtStart \in Nat

ClearingInit ==
  /\ bids \in Auctions
  /\ supply \in Supplies
  /\ ranking \in Rankings(bids)
  /\ phase = "admit"
  /\ grants = [i \in DOMAIN bids |-> 0]
  /\ available = supply
  /\ admitted = 0
  /\ todo = {}
  /\ weights = <<>>
  /\ supplyAtStart = 0

\* A decision gains tokens of the supply.
Give(i, tokens) ==
  /\ grants' = [grants EXCEPT ![i] = @ + tokens]
  /\ available' = available - tokens

\* The admission pass serves the next bid.
Admit ==
  /\ phase = "admit"
  /\ admitted < Len(bids)
  /\ LET i == ranking[admitted + 1]
     IN  Give(i, IF Admits(bids[i], available) THEN bids[i].minimum ELSE 0)
  /\ admitted' = admitted + 1
  /\ UNCHANGED <<inputVars, phase, roundVars>>

EndAdmission ==
  /\ phase = "admit"
  /\ admitted = Len(bids)
  /\ phase' = "clear"
  /\ UNCHANGED <<inputVars, grants, available, admitted, roundVars>>

\* The last round gave nothing.
Stalled == available = supplyAtStart

\* A round of the clearing pass begins: the weights are taken.
BeginRound ==
  /\ phase = "clear"
  /\ todo = {}
  /\ available > 0
  /\ ~Stalled
  /\ Wanting # {}
  /\ todo' = Wanting
  /\ weights' \in [Wanting -> Weights]
  /\ supplyAtStart' = available
  /\ UNCHANGED <<inputVars, phase, grants, available, admitted>>

\* The supply at the start of the round in proportion to the weight of a place.
Proportion(k) ==
  (supplyAtStart * weights[k]) \div Total(weights, DOMAIN weights)

Unmet(k) == bids[ranking[k]].tokens - grants[ranking[k]]

\* Fault: a share may be rounded down to nothing.
ShareUnrounded(k) == Lesser(Lesser(Unmet(k), Proportion(k)), available)

\* What a bid is given in a round: in proportion to its weight, at least one
\* token, at most what it wants and what is left.
Share(k) == Lesser(Lesser(Unmet(k), Greater(1, Proportion(k))), available)

\* The round serves its next bid; it ends early when the supply is spent.
Serve ==
  /\ phase = "clear"
  /\ todo # {}
  /\ LET k == Min(todo)
     IN  IF available > 0
         THEN Give(ranking[k], Share(k)) /\ todo' = todo \ {k}
         ELSE todo' = {} /\ UNCHANGED <<grants, available>>
  /\ UNCHANGED <<inputVars, phase, admitted, weights, supplyAtStart>>

Answer ==
  /\ phase = "clear"
  /\ todo = {}
  /\ \/ available = 0
     \/ Wanting = {}
     \/ Stalled
  /\ phase' = "done"
  /\ UNCHANGED <<inputVars, grants, available, admitted, roundVars>>

ClearingNext == Admit \/ EndAdmission \/ BeginRound \/ Serve \/ Answer

\* The policy is a synchronous function: it runs to its end.
ClearingSpec == ClearingInit /\ [][ClearingNext]_clearingVars /\ WF_clearingVars(ClearingNext)

-----------------------------------------------------------------------------
(* Properties.                                                             *)

Auction == INSTANCE MarketAuction WITH grants <- IF phase = "done" THEN grants ELSE Pending

\* The two passes end, whatever the weights, with a result MarketGrants allows:
\* minimums in the order of the scores, the rest shared to the last token among
\* the bids that were given a minimum (policies.ts:73-115).
ImplementsAuction == Auction!Spec
=============================================================================
