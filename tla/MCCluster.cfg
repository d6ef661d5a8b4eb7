SPECIFICATION ClusterSpec
CONSTANTS
    Nodes = {1, 2}
    Names = {"x"}
    Pids = {1}
    MaxSessions = 2
    Unregistering = {1, 2}
    MaxOps = 3
    NodeNames = {1, 2, 3}
    Dials <- AllDials
    MaxDials = 3
    MaxConns = 5
    MaxCuts = 1
    Monitoring = {1}
    Locals <- TwoAndNone
    Requesters = {2}
    MaxSpawned = 2
    MaxSessionIds = 2
    MaxCalls = 3
INVARIANTS
    SessionsAgree
    PeersMeet
    LossIsTold
    NamesAgree
    SpawnIsAnswered
PROPERTIES
    FirstWriterStands
CHECK_DEADLOCK FALSE
