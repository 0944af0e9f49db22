\* One team, sequential or parallel, run once or twice.
SPECIFICATION FairSpec
CONSTANTS
    first = first
    second = second
    Teams <- OneTeam
    MaxMembers = 2
    Phases <- OnePhases
    Policies <- OnePolicies
    Sizes <- OneSizes
    Extensible = {0}
    Overlap = FALSE
    MaxChildren = 3
    Levels = {1}
    MaxTurnAgents = 2
    MaxRuns = 2
    MaxDescendants = 1
INVARIANTS
    ReservedMembersFit
    EvidenceSurvives
    FailuresAreTheirOwn
    SettledMeansQuiet
PROPERTIES
    EveryRunEnds
CHECK_DEADLOCK FALSE
