\* All batches of three bids under every supply from none to more than enough.
SPECIFICATION ClearingSpec
CONSTANTS
  NoLimit = NoLimit
  Pending = Pending
  MaxTokens = 3
  Auctions <- MCAuctions
  Supplies = {0, 1, 2, 3, 4, 5, 6, 7, 8, 9, 10}
  Weights = {1, 2, 5}
PROPERTIES
    ImplementsAuction
CHECK_DEADLOCK FALSE
