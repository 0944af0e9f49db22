----------------------------- MODULE BudgetMarket -----------------------------
(***************************************************************************)
(* The budget market (src/src/core/budget/BudgetMarket.ts): actors request *)
(* token allocations, consume them as their model calls return, ask for    *)
(* more, settle or release them; the operator changes the session limit    *)
(* and rebalances.                                                         *)
(*                                                                         *)
(* The market learns what the session used so far from a callback, which   *)
(* advances on its own: a model call is counted there before the actor     *)
(* gets to consume() or settle() it.                                       *)
(*                                                                         *)
(* allocatedTokens and grantedTokens are always assigned together and are  *)
(* one variable here.  Rationales, utilization, efficiency, outcomes and    *)
(* the ledger of events feed back into scores at most; of the ledger only  *)
(* the sum of the continuation entries is kept (`extra').                  *)
(***************************************************************************)
EXTENDS BudgetPolicies

CONSTANTS
  MaxAllocations,  \* bound on the allocations
  Mode,            \* the configured policy
  Batches,         \* the batches of bids actors may request
  Limits,          \* the session limits operators may set
  Amounts,         \* the token amounts of calls
  MaxUsed,         \* bound on the tokens used, and on those one allocation consumes
  MaxExtra         \* bound on the tokens an allocation gains by continuations

Ids == 1..MaxAllocations

ASSUME MarketAssumption ==
  /\ MaxAllocations \in Nat
  /\ Mode \in Modes
  /\ Batches \subseteq Seq(Bid)
  /\ Limits \subseteq Nat \cup {NoLimit}
  /\ Amounts \subseteq Nat
  /\ MaxUsed \in Nat
  /\ MaxExtra \in Nat

VARIABLES
  limit,      \* limitTokens
  used,       \* what the usedTokens() callback answers
  issued,     \* sequence: how many allocations were made
  status,     \* of each allocation; "none" until it is made
  bid,        \* its normalized request
  external,   \* is its actorType "runtime"?
  allocated,  \* allocatedTokens = grantedTokens
  consumed,   \* consumedTokens
  extra       \* the tokens augment() added to it

sessionVars == <<limit, used>>
requestVars == <<issued, bid>>
vars == <<sessionVars, requestVars, status, external, allocated, consumed, extra>>

Statuses == {"none", "granted", "denied", "settled", "released", "exceeded"}

Open(i) == status[i] \in {"granted", "exceeded"}
Active == {i \in Ids : status[i] = "granted"}

TypeOK ==
  /\ limit \in Limits
  /\ used \in Nat
  /\ issued \in 0..MaxAllocations
  /\ status \in [Ids -> Statuses]
  /\ bid \in [Ids -> Bid]
  /\ external \in [Ids -> BOOLEAN]
  /\ allocated \in [Ids -> Nat]
  /\ consumed \in [Ids -> Nat]
  /\ extra \in [Ids -> Nat]

Init ==
  /\ limit \in Limits
  /\ used = 0
  /\ issued = 0
  /\ status = [i \in Ids |-> "none"]
  /\ bid = [i \in Ids |-> [tokens |-> 0, minimum |-> 0, score |-> 0]]
  /\ external = [i \in Ids |-> FALSE]
  /\ allocated = [i \in Ids |-> 0]
  /\ consumed = [i \in Ids |-> 0]
  /\ extra = [i \in Ids |-> 0]

-----------------------------------------------------------------------------
(* The supply.                                                             *)

\* Usage outside the session's own actors is known from their allocations only.
EffectiveUsed ==
  used + Total(consumed, {i \in Ids : external[i]})

\* What is left of an allocation, and what the granted ones may still consume.
Room == [i \in Ids |-> Greater(0, allocated[i] - consumed[i])]
Reserved == Total(Room, Active)

\* The limit without some tokens.
Beyond(tokens) == IF limit = NoLimit THEN NoLimit ELSE Greater(0, limit - tokens)

\* availableTokens()
Available == Beyond(EffectiveUsed + Reserved)

-----------------------------------------------------------------------------
(* Requests.                                                               *)

\* Fault: the supply is offered without the reservations taken off.
OfferedUnreserved == [limit |-> limit, available |-> Beyond(EffectiveUsed)]

\* policyContext(), for new bids.
Offered == [limit |-> limit, available |-> Available]

\* requestMany(): the policy decides on the batch and each decision becomes an
\* allocation, granted if it reaches the minimum of its bid.
RequestMany(batch, runtime) ==
  LET made == (issued + 1)..(issued + Len(batch))
      bids == [k \in DOMAIN batch |-> Normalized(batch[k])]
  IN  /\ batch # <<>>
      /\ made \subseteq Ids
      /\ \E d \in Allocate(Mode, bids, Offered) :
           LET grants(i) == d[i - issued].tokens >= d[i - issued].bid.minimum
           IN  /\ status' = [i \in Ids |->
                    IF i \in made THEN (IF grants(i) THEN "granted" ELSE "denied")
                    ELSE status[i]]
               /\ allocated' = [i \in Ids |->
                    IF i \in made THEN (IF grants(i) THEN d[i - issued].tokens ELSE 0)
                    ELSE allocated[i]]
               /\ bid' = [i \in Ids |-> IF i \in made THEN d[i - issued].bid ELSE bid[i]]
      /\ external' = [i \in Ids |-> IF i \in made THEN runtime ELSE external[i]]
      /\ issued' = issued + Len(batch)
      /\ UNCHANGED <<sessionVars, consumed, extra>>

\* assignRequester(): an agent takes an allocation over.
AssignRequester(i) ==
  /\ status[i] # "none"
  /\ external' = [external EXCEPT ![i] = FALSE]
  /\ UNCHANGED <<sessionVars, requestVars, status, allocated, consumed, extra>>

\* The status of an allocation that gained n tokens.
Reopened(i, n) == IF allocated[i] + n >= consumed[i] THEN "granted" ELSE status[i]

\* What a continuation that asks for some tokens can be given.
Continuation(i, requested) ==
  IF limit = NoLimit THEN requested ELSE Lesser(requested, Available)

\* augment(): a continuation of an open allocation gains at least the minimum,
\* or nothing changes.
Augment(i, requested, minimum) ==
  /\ Open(i)
  /\ \E n \in Greater(1, minimum)..requested :
       /\ n = Continuation(i, requested)
       /\ extra[i] + n <= MaxExtra
       /\ allocated' = [allocated EXCEPT ![i] = @ + n]
       /\ extra' = [extra EXCEPT ![i] = @ + n]
       /\ status' = [status EXCEPT ![i] = Reopened(i, n)]
  /\ UNCHANGED <<sessionVars, requestVars, external, consumed>>

-----------------------------------------------------------------------------
(* Consumption.                                                            *)

\* A model call returns and is counted by the session.
ModelCall(n) ==
  /\ used + n <= MaxUsed
  /\ used' = used + n
  /\ UNCHANGED <<limit, requestVars, status, external, allocated, consumed, extra>>

\* The status of an allocation that has consumed some tokens.
Consumed(i, total) == IF total > allocated[i] THEN "exceeded" ELSE status[i]

\* consume(): an overrun is recorded and stays open.
Consume(i, n) ==
  LET total == consumed[i] + n
  IN  /\ Open(i)
      /\ total <= MaxUsed
      /\ consumed' = [consumed EXCEPT ![i] = total]
      /\ status' = [status EXCEPT ![i] = Consumed(i, total)]
      /\ UNCHANGED <<sessionVars, requestVars, external, allocated, extra>>

\* settle(): an exception when the total is below what is already consumed;
\* else the rest is consumed and the allocation closed, unless it overran.
Settle(i, total) ==
  /\ Open(i)
  /\ total >= consumed[i]
  /\ total <= MaxUsed
  /\ consumed' = [consumed EXCEPT ![i] = total]
  /\ status' = [status EXCEPT ![i] = IF total > allocated[i] THEN "exceeded" ELSE "settled"]
  /\ UNCHANGED <<sessionVars, requestVars, external, allocated, extra>>

\* Fault: a settled allocation can be released.
ReleaseSettled(i) ==
  /\ status[i] \in {"granted", "settled"}
  /\ status' = [status EXCEPT ![i] = "released"]
  /\ UNCHANGED <<sessionVars, requestVars, external, allocated, consumed, extra>>

\* release(): of a granted allocation; not of one that overran.
Release(i) ==
  /\ status[i] = "granted"
  /\ status' = [status EXCEPT ![i] = "released"]
  /\ UNCHANGED <<sessionVars, requestVars, external, allocated, consumed, extra>>

-----------------------------------------------------------------------------
(* The operator.                                                           *)

\* configure()
Configure(tokens) ==
  /\ limit' = tokens
  /\ UNCHANGED <<used, requestVars, status, external, allocated, consumed, extra>>

\* What rebalance() offers: all that is not used yet.
WholeSupply == [limit |-> limit, available |-> Beyond(EffectiveUsed)]

\* The place of an active allocation in the order they were made.
Position(i) == Cardinality({j \in Active : j <= i})

Positions == {Position(i) : i \in Active}

\* The bids of the active allocations in that order.
ActiveBids == [k \in Positions |-> bid[CHOOSE i \in Active : Position(i) = k]]

\* Fault: a decision comes on top of what is consumed.
RebalancedOnTop(i, d) == consumed[i] + d[Position(i)].tokens

\* What an active allocation has after a decision on all of them.
Rebalanced(i, d) == Greater(consumed[i], d[Position(i)].tokens)

\* rebalance(): the policy decides again on all active bids and the k-th
\* decision is applied to the k-th active allocation.
Rebalance ==
  /\ Active # {}
  /\ \E d \in Allocate(Mode, ActiveBids, WholeSupply) :
       allocated' = [i \in Ids |-> IF i \in Active THEN Rebalanced(i, d) ELSE allocated[i]]
  /\ UNCHANGED <<sessionVars, requestVars, status, external, consumed, extra>>

Next ==
  \/ \E batch \in Batches, runtime \in BOOLEAN : RequestMany(batch, runtime)
  \/ \E i \in Ids, requested, minimum \in Amounts : Augment(i, requested, minimum)
  \/ \E n \in Amounts : ModelCall(n)
  \/ \E i \in Ids, n \in Amounts : Consume(i, n) \/ Settle(i, n)
  \/ \E i \in Ids : Release(i) \/ AssignRequester(i)
  \/ \E tokens \in Limits : Configure(tokens)
  \/ Rebalance

Spec == Init /\ [][Next]_vars

-----------------------------------------------------------------------------
(* Properties.                                                             *)

\* The status tells whether an allocation overran: not while it is granted,
\* settled, released or denied, always when it is exceeded, also after
\* continuations and rebalances (BudgetMarket.ts:151, 181, 211, 273).
StatusTellsOverrun ==
  \A i \in Ids :
    IF status[i] = "exceeded" THEN consumed[i] > allocated[i] ELSE consumed[i] <= allocated[i]

\* What a granted allocation may consume is what its actor asked for, or what
\* it has consumed by then, never another actor's grant (BudgetMarket.ts:270-273;
\* tests/BudgetMarket.test.ts:234).
GrantWithinBid ==
  \A i \in Ids : status[i] # "none" => allocated[i] <= bid[i].tokens + extra[i]

\* No operation promises tokens the session does not have: whenever more is
\* reserved than before, what is used and reserved is within the limit
\* (BudgetMarket.ts:77, 137-139, 259-266, 324-340).
GrantsWithinSupply ==
  [][limit # NoLimit /\ Reserved' > Reserved => EffectiveUsed' + Reserved' <= limit]_vars

\* After a rebalance (nothing else moves tokens between allocations) the
\* reservations fit into what a lowered limit leaves
\* (BudgetMarket.ts:256-287; tests/BudgetMarket.test.ts:168).
RebalanceFits ==
  [][limit # NoLimit /\ allocated' # allocated /\ UNCHANGED <<status, extra>>
       => Reserved' <= Greater(0, limit - EffectiveUsed)]_vars

\* A settled, released or denied allocation is final (BudgetMarket.ts:126, 171,
\* 195, 247, 257).
FinalIsFinal ==
  [][\A i \in Ids : status[i] \in {"settled", "released", "denied"} =>
       status'[i] = status[i] /\ allocated'[i] = allocated[i] /\ consumed'[i] = consumed[i]]_vars

\* Consumption is never taken back, whatever order consume(), settle() and
\* augment() come in (BudgetMarket.ts:173, 197-206).
ConsumptionStands ==
  [][\A i \in Ids : consumed'[i] >= consumed[i]]_vars
=============================================================================
