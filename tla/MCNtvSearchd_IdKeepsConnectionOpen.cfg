SPECIFICATION SearchdSpec
CONSTANTS
    Connector = {c1, c2}
    Worker = {w1}
    Request = {r1, r2}
    Connection = {k1, k2}
    MaxWork = 1
    MaxCore = 1
PROPERTIES
    IdKeepsConnectionOpen
