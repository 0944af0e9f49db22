---------------------------- MODULE BudgetPolicies ----------------------------
(***************************************************************************)
(* The allocation policies of the budget market                            *)
(* (src/src/core/budget/policies.ts): what tokens a batch of bids is       *)
(* granted out of a supply.                                                *)
(*                                                                         *)
(* A bid is the part of a BudgetRequest the policies look at: the tokens   *)
(* asked for, the minimum that makes a grant viable, and the score that    *)
(* score() gives it.  A policy answers a set of possible decisions: the    *)
(* fixed policies have one, the market has as many as its weights may lead *)
(* to (module MarketClearing has the loop itself).                         *)
(***************************************************************************)
EXTENDS Integers, Sequences, FiniteSets, FiniteSetsExt

CONSTANTS
  NoLimit,     \* the supply of a session without a limit (undefined, null)
  MaxTokens    \* the most tokens a bid asks for

ASSUME PolicyAssumption ==
  /\ NoLimit \notin Int
  /\ MaxTokens \in Nat

Modes == {"unlimited", "fixed", "market"}

Bid == [tokens : 0..MaxTokens, minimum : 0..MaxTokens, score : Nat]

Lesser(m, n) == IF m <= n THEN m ELSE n
Greater(m, n) == IF m >= n THEN m ELSE n

\* normalize(): a minimum above the tokens asked for is lowered to them.
Normalized(bid) == [bid EXCEPT !.minimum = Lesser(bid.minimum, bid.tokens)]

Decision == [bid : Bid, tokens : Nat]

\* Every way to give the bids of a sequence at most what they ask for.
Grants(bids) ==
  {g \in [DOMAIN bids -> 0..MaxTokens] : \A i \in DOMAIN bids : g[i] <= bids[i].tokens}

\* The tokens of the members of S.
Total(g, S) == MapThenSumSet(LAMBDA i : g[i], S)

Decided(bids, g) == [i \in DOMAIN bids |-> [bid |-> bids[i], tokens |-> g[i]]]

\* The whole of what every bid asks for.
FullGrants(bids) == {[i \in DOMAIN bids |-> bids[i].tokens]}

-----------------------------------------------------------------------------
(* FixedBudgetPolicy: first come, first served.                            *)

\* What the next bid gets from the tokens left: what it asks for, what is
\* left, or nothing when that is below its minimum.
FixedGrant(bid, left) ==
  LET most == Lesser(bid.tokens, Greater(0, left))
  IN  IF most >= bid.minimum THEN most ELSE 0

FixedGrants(bids, supply) ==
  {g \in Grants(bids) :
     \A i \in DOMAIN bids : g[i] = FixedGrant(bids[i], supply - Total(g, 1..(i - 1)))}

-----------------------------------------------------------------------------
(* MarketBudgetPolicy: admission in the order of the scores, then clearing. *)

\* Does bid i come before bid j in the order of the scores (the sort is stable)?
Ahead(bids, i, j) ==
  \/ bids[i].score > bids[j].score
  \/ /\ bids[i].score = bids[j].score
     /\ \/ bids[i].tokens < bids[j].tokens
        \/ bids[i].tokens = bids[j].tokens /\ i < j

\* The order of the scores: its k-th element is the k-th bid served.
Rankings(bids) ==
  {p \in [DOMAIN bids -> DOMAIN bids] :
     \A k, l \in DOMAIN bids : k < l => Ahead(bids, p[k], p[l])}

\* The admission pass: the minimum, to those it can be afforded for.
Admits(bid, left) == bid.tokens = 0 \/ left >= bid.minimum

Admissions(bids, supply) ==
  {g \in Grants(bids) :
     \A i \in DOMAIN bids :
       LET served == {j \in DOMAIN bids : Ahead(bids, j, i)}
       IN  g[i] = IF Admits(bids[i], supply - Total(g, served)) THEN bids[i].minimum ELSE 0}

\* The bids the clearing pass shares the rest among.
Clearing(bids, g) == {i \in DOMAIN bids : g[i] > 0}

\* The clearing pass ends when the supply is spent or those bids are served in
\* full; who got how much on the way depends on the weights.
Cleared(bids, supply, admitted) ==
  LET served == Clearing(bids, admitted)
      shared == Lesser(supply, Total([i \in served |-> bids[i].tokens], served))
  IN  {g \in Grants(bids) :
         /\ \A i \in DOMAIN bids : g[i] >= admitted[i]
         /\ \A i \in DOMAIN bids \ served : g[i] = 0
         /\ Total(g, served) = shared}

MarketGrants(bids, supply) ==
  UNION {Cleared(bids, supply, admitted) : admitted \in Admissions(bids, supply)}

-----------------------------------------------------------------------------
\* The context of a decision: the limit of the session, and the tokens
\* available (undefined exactly when there is no limit).
Limited(context) == context.limit # NoLimit

\* allocate(): the decisions in the order of the bids, except that the market
\* without a limit decides in the order of the scores.
Allocate(mode, bids, context) ==
  IF mode = "market" /\ ~Limited(context)
  THEN {[k \in DOMAIN bids |-> [bid |-> bids[p[k]], tokens |-> bids[p[k]].tokens]] :
          p \in Rankings(bids)}
  ELSE LET answers == IF mode = "unlimited" \/ ~Limited(context) THEN FullGrants(bids)
                      ELSE IF mode = "fixed" THEN FixedGrants(bids, context.available)
                      ELSE MarketGrants(bids, context.available)
       IN  {Decided(bids, g) : g \in answers}
=============================================================================
