\* Two clients that send queries only, one of the requests for an unknown database.
SPECIFICATION FairLoopSpec
CONSTANTS
    k1 = k1
    k2 = k2
    Client = {c1, c2}
    Key = {k1, k2}
    Unknown = {k2}
    Entry = {e1, e2, e3}
    Burst <- Singles
    InitSize = 5
    MaxClients = 2
    MaxRequests = 2
    MaxSize = 1
    MaxReqLen = 2
    MaxBufLen = 4
    MaxInputs = 2
    MaxAccepts = 2
PROPERTY EveryRequestIsAnswered
