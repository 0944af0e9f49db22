CONSTANTS
    n1 = n1
    n2 = n2
    root = root
    Nodes = {root, n1, n2}
    Root = root
    NoNode = NoNode
    task = task
    q = q
    Reqs = {task, q}
    TaskReq = task
    NoReq = NoReq
    OwnReport = OwnReport
    Modes = {"learned", "heuristic", "direct"}
    Drivers = {"rollout", "nodewise"}
    FinalizerSteps = 2
    MaxDeps = 1
    MaxEvents = 6
    MaxTimeouts = 1
    MaxAgain = 1
SPECIFICATION EpisodeSpec
SYMMETRY Spawned

INVARIANTS
    EveryCommandIsAccountedOnce
    NoIdleResubmission
PROPERTIES
    NewbornActsFirst
CHECK_DEADLOCK FALSE
