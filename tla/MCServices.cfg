SPECIFICATION ServicesSpec
CONSTANTS
    Names = {n1, n2, n3}
    Pids = {p1, p2, p3}
    NoPid = NoPid
    Loose = {n3}
    Actors = {a1, a2}
    Workers = {w1, w2}
    NoActor = NoActor
    Kinds = {"timed", "service"}
    Killing = TRUE
    MaxCalls = 2
    Strategies = {"one_for_one", "one_for_all", "rest_for_one"}
    Families <- Pairs
    MaxRestarts = 1
    Window = 1
    MaxPids = 5
    MaxClock = 3
    Callers = {"c1", "c2", "j1", "m1"}
    Services = {"s1", "s2"}
    Traps = {"j1", "m1"}
    Uses <- EachUse
    MapSize = 2
    MaxJobs = 2
    MaxUses = 2
    Limit = 2
    MaxFrames = 4
    MaxPings = 1
    Nodes = {1, 2}
    Conns = {"a", "b", "c"}
    NodeOf <- ServedAt
    RoomNames = {"r"}
    Broadcasts = {1, 2}
    From <- FirstAndSecond
    Except <- ButForC
    Room <- OneRoom
SYMMETRY Symmetry
INVARIANTS
    NamesAreKept
    NothingIsLost
    ChildrenAreKept
    RepliesMatch
    ConversationIsWhole
    ConversationEnds
    RoomsReachMembers
PROPERTIES
    IsNameTable
    StrategyScope
    StopIsRight
CHECK_DEADLOCK FALSE
