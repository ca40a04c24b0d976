\* A table that holds two entries before it grows, trimmed to two entries,
\* and clients that can keep two more entries alive.
SPECIFICATION CacheSpec
CONSTANTS
    Key = {k1, k2, k3}
    Entry = {e1, e2, e3, e4}
    InitSize = 3
    MaxSize = 2
    MaxPins = 2
SYMMETRY Symmetry
INVARIANTS
    LruMatchesTable
    UsageIsExact
    PinnedCanBeSent
    ErrorsAreNotCached
