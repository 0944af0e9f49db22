---------------------------- MODULE MarketAuction ----------------------------
(***************************************************************************)
(* What the market policy promises of one batch of bids under a limited    *)
(* supply: in one step it answers one of the grants MarketGrants allows,   *)
(* and it does answer.  BudgetMarket uses the policy this way.             *)
(***************************************************************************)
EXTENDS BudgetPolicies

CONSTANT Pending   \* the grants before the policy answered

VARIABLES
  bids,    \* the normalized batch
  supply,  \* context.availableTokens
  grants   \* the answer: what each bid gets

vars == <<bids, supply, grants>>

Init ==
  /\ bids \in Seq(Bid)
  /\ supply \in Nat
  /\ grants = Pending

Clear ==
  /\ grants = Pending
  /\ grants' \in MarketGrants(bids, supply)
  /\ UNCHANGED <<bids, supply>>

Next == Clear

Spec == Init /\ [][Next]_vars /\ WF_vars(Next)
=============================================================================
