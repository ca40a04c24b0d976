CONSTANTS
    Rec = {w1, w2, w3, w4}
    HasFreqs = {w1}
    BlockSize = 8
    RecEnt = 1
    Areas = 2
    MaxCache = 2
    WordBits = 2
    FreqBits = 4
    SameHitsMin = 1
    Quant = 2
    LowHitsMax = 1
    LowFreq = 0
    MaxRecHits = 3
    MaxTotalHits = 5
    Docs = {1, 2, 25}
    MaxRuns = 2
SPECIFICATION Spec
INVARIANTS NeverInternalError FreeListIsExact CountersAreRight CacheIsBounded SavedIndexOpens
PROPERTY HitsArePostings
SYMMETRY Words
CHECK_DEADLOCK FALSE
