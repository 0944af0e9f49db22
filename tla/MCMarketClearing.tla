--------------------------- MODULE MCMarketClearing ---------------------------
(* Small instances of MarketClearing for TLC: all batches of three bids. *)
EXTENDS MarketClearing

ABid(tokens, minimum, score) == [tokens |-> tokens, minimum |-> minimum, score |-> score]

\* Bids for nothing, for a minimum only, for more, of equal and of other scores.
MCBids == {ABid(0, 0, 1), ABid(1, 1, 2), ABid(3, 1, 1), ABid(3, 2, 2), ABid(2, 2, 1)}
MCAuctions == [1..3 -> MCBids]

=============================================================================
