\* Two servers that fail three times in all, two requests that are asked for twice.
SPECIFICATION FairSubServersSpec
CONSTANTS
    s1 = s1
    s2 = s2
    Key = {k1, k2}
    Table <- TwoServers
    Moq <- OneAndTwo
    MaxPending = 2
    MaxFailures = 3
INVARIANTS
    CountsAreExact
    QueriesAreWatched
PROPERTIES
    RequestsAreServed
    RequestsAreAnswered
