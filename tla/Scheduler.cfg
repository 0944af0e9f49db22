\* Two loops, a stop() and a restart, clients that cancel messages in any
\* state, under the fairness of the event loop (no symmetry).
SPECIFICATION FairSpec
CONSTANTS
  m1 = m1
  m2 = m2
  l1 = l1
  l2 = l2
  l3 = l3
  l4 = l4
  NoMessage = NoMessage
  Ids = {m1, m2}
  Routes <- MCRoutes
  Profiles <- MCProfiles
  Loops = {l1, l2, l3, l4}
  Concurrency = 2
  RetryDelay = 1
  MaxStops = 1
  CancelProcessing = TRUE
  OverlappingControl = FALSE
INVARIANTS
    HandedToOneLoop
    NoOrphanedMessage
    StoppedMeansIdle
PROPERTIES
    SettledForGood
    EventuallySettled
CHECK_DEADLOCK FALSE
