SPECIFICATION Spec
CONSTANTS
    Actors = {p1}
    Workers = {w1}
    NoActor = NoActor
    Kinds = {"service"}
    Killing = FALSE
    MaxCalls = 1
INVARIANTS
    WokenByMessage
CHECK_DEADLOCK FALSE
