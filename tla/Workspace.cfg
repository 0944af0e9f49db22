\* Two members of a team on a workspace of two files.
SPECIFICATION WorkspaceSpec
CONSTANTS
    Agents = {a, b}
    Paths = {"p", "q"}
    Versions = {1, 2, 3}
    Absent = 0
    NoScore = NoScore
    Grade <- MCGrade
    Starts <- MCStarts
    Edits <- MCEdits
    Overlap = FALSE
    MaxCalls = 4
    MaxFaults = 1
INVARIANTS
    RollbackIsExact
    AcceptedIsWhatWasScored
    SuccessMeetsTheRecord
SYMMETRY TwoAgents
CHECK_DEADLOCK FALSE
