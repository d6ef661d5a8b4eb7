SPECIFICATION FairSpec
CONSTANTS
    Pids = {p1, p2}
    NoPid = NoPid
    Remote = Remote
    Names = {n1, n2}
    Refs = {1, 2}
    Programs = {{"link", "trap", "kill"},
                {"remote", "trap", "kill"},
                {"monitor", "demonitor", "kill"},
                {"monitor", "register"},
                {"register", "registerOther"}}
    MaxKills = 1
INVARIANTS
    EndsAreTold
    NamesAreFreed
PROPERTIES
    WatchersHear
CHECK_DEADLOCK FALSE
