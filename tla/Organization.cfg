\* Requirements handed down and dependencies, in one tree.
SPECIFICATION Spec
CONSTANTS
    root = root
    a = a
    b = b
    r1 = r1
    r2 = r2
    x = x
    a1 = a1
    none = none
    Root = root
    NoNode = none
    NoReq = none
    OwnReport = x
    Awaited = {a1}
    Nodes <- MCNodes
    Reqs <- MCReqs
    Objective <- Doubled
    Channels <- BetweenSiblings
    Artifacts = {a1}
    MaxDeps = 2
SYMMETRY Symmetry
VIEW WithoutLinks
INVARIANTS
    NoCircularWait
    NoLostWakeup
    OneBranchPerGap
PROPERTIES
    VerdictsAreFinal
