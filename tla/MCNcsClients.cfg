\* Three clients, one more than allowed at a time, two requests, a cache of one.
SPECIFICATION ClientsSpec
CONSTANTS
    k1 = k1
    k2 = k2
    Client = {c1, c2, c3}
    Key = {k1, k2}
    Unknown = {}
    Entry = {e1, e2, e3}
    Burst <- AllBursts
    InitSize = 5
    MaxClients = 2
    MaxRequests = 2
    MaxSize = 1
    MaxReqLen = 2
    MaxBufLen = 4
    MaxInputs = 2
    MaxAccepts = 3
SYMMETRY Symmetry
INVARIANTS
    PinsMatchUsage
    RequestsAreBounded
    EveryWaiterIsServed
    NoWaiterMissesAResult
PROPERTY CacheIsUsedAsSpecified
