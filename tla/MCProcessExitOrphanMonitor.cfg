SPECIFICATION Spec
CONSTANTS
    Pids = {p1, p2}
    NoPid = NoPid
    Remote = Remote
    Names = {}
    Refs = {1}
    Programs = {{"monitor"}}
    MaxKills = 0
INVARIANTS
    NoOrphanMonitor
CHECK_DEADLOCK FALSE
