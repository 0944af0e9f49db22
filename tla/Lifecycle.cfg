\* Two calls at a time on a lead, its team and the team's member.
SPECIFICATION Spec
CONSTANTS
    lead = lead
    crew = crew
    member = member
    root = root
    none = none
    i1 = i1
    i2 = i2
    i3 = i3
    i4 = i4
    nobody = nobody
    o1 = o1
    o2 = o2
    Ids <- MCIds
    Individuals = {i1, i2, i3}
    Bearers <- MCOneEach
    Tasks = {o1, o2}
    Root = root
    NoId = none
    Nobody = nobody
    Teams <- MCTeams
    Parent <- MCParent
    TeamOf <- MCTeamOf
    Policy <- MCPolicy
    OneShot = {crew}
    Workers = {member}
    Managed = {lead}
    OverlappingRestore = FALSE
    SpawnAfterRestart = FALSE
    MaxRestarts = 1
INVARIANTS
    GoneMeansGone
    NobodyIsLost
    CascadeIsThorough
