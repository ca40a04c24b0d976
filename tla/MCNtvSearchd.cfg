\* Two connectors and two workers share two buffers and two connections.
SPECIFICATION FairSearchdSpec
CONSTANTS
    Connector = {c1, c2}
    Worker = {w1, w2}
    Request = {r1, r2}
    Connection = {k1, k2}
    MaxWork = 1
    MaxCore = 1
INVARIANTS
    UsageIsExact
    FreelistIsSound
    WriteLockIsHeld
PROPERTIES
    QueueSpec
    AnswersKeepComing
