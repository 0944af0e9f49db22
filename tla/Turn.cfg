\* One turn: a question or a workspace task of any kind, new or resumed.
SPECIFICATION FairSpec
CONSTANTS
    task = task
    question = question
    Turns <- OneTurn
    Goals <- OneGoals
    Prior <- OnePrior
    Proposals <- SomeProposals
    TeamFirst = TRUE
    StructuralGate = TRUE
    MaxStepsPerTurn = 4
    MaxRounds = 3
    ExploratoryRounds = 3
    Window = 2
    MaxStalled = 2
    MaxAttempts = 2
INVARIANTS
    ClaimsAreVerified
    RoomToFinish
    LongTasksAreStaged
    SettledTrees
PROPERTIES
    EveryTurnEnds
