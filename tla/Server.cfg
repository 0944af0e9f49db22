\* A client's and a socket's session next to the default one.
SPECIFICATION Spec
CONSTANTS
    client = client
    socket = socket
    read = read
    write = write
    Sessions <- TwoSessions
    Sockets <- OneSocket
    Default = Default
    Keys <- TwoKeys
    Policy <- Policies
    CallLimit <- Limits
    None = None
    MaxSessions = 1
    MaxRequests = 2
    MaxSent = 3
    MaxRuntimes = 2
    MaxFaults = 1
INVARIANTS
    NoRuntimeIsLost
    NothingRunsUndecided
