\* Actors of every kind, two files.  Calls that change or read do not fail here;
\* verifications do, and changes are rejected.
SPECIFICATION LoopSpec
CONSTANTS
    Sources = {p, q}
    Manifests <- MCManifests
    Grader = Grader
    NoPath = NoPath
    MaxRounds = 2
    MaxRunCalls = 3
    MaxFailures = 2
    ShellLimit = 2
    NoGainLimit = 1
    MaxLog = 4
    MaxLoopFaults = 0
    MaxActors = 2
SYMMETRY MCSymmetry
INVARIANTS
    TriedBeforeTheNext
    NoIdleVerification
PROPERTIES
    NoGainIsDeferred
CHECK_DEADLOCK FALSE
