\* One direct call beside a batch of three on one slot, two workers, with retries, backoff, timeouts and cleanup(); fair, so no symmetry.
SPECIFICATION FairSpec
CONSTANTS
  c1 = c1
  c2 = c2
  c3 = c3
  c4 = c4
  c5 = c5
  w1 = w1
  w2 = w2
  NoCall = NoCall
  Calls = {c1, c2, c3, c4}
  Batch <- MCLongBatch
  Workers = {w1, w2}
  Limit = 1
  MaxAttempts = 2
  HasTimeout = TRUE
  HasDelay = TRUE
INVARIANTS
    ActiveCountsOwners
    OutcomeMatchesAttempts
PROPERTIES
    EveryCallReturns
CHECK_DEADLOCK FALSE
