\* Three connectors against two workers; no symmetry, for the liveness properties.
SPECIFICATION FairSpec
CONSTANTS
    Connector = {c1, c2, c3}
    Worker = {w1, w2}
    Request = {r1, r2, r3, r4, r5, r6}
    MaxWork = 1
INVARIANTS
    TypeOK
    ClaimsAreBacked
    NoLostWakeup
    QueueIsBounded
PROPERTIES
    EveryRequestIsTaken
    SomeConnectorReturns
