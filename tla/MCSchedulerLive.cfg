SPECIFICATION FairSpec
CONSTANTS
    Actors = {p1, p2}
    Workers = {w1, w2}
    NoActor = NoActor
    Kinds = {"timed", "service"}
    Killing = TRUE
    MaxCalls = 1
PROPERTIES
    ShutdownCompletes
    NobodyStarves
CHECK_DEADLOCK FALSE
