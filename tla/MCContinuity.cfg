SPECIFICATION ContinuitySpec
CONSTANTS
    Nodes = {1, 2}
    NoNode = 0
    Keys = {1}
    StartupKeys = {}
    Hashes = {h1, h2}
    Primaries = {1}
    Ingress = {1}
    Required = {0, 1, 2}
    MaxToken = 2
    MaxEpoch = 1
    MaxCuts = 1
    MaxCrashes = 0
    Gateway = 1
    Backend = 2
    RouteKey = 1
    Payload = h1
INVARIANTS
    RecordsAreSound
    OwnersAgree
    OnePrimaryPerEpoch
    RouteIsSettled
PROPERTIES
    NothingGoesBack
CHECK_DEADLOCK FALSE
