\* Four workers, three blocks in a cache meant for one: leaders take another
\* thread with them, leave one behind, and are throttled.
SPECIFICATION FairSpec
CONSTANTS
    Thread = {t1, t2, t3, t4}
    Block = {1, 2, 3}
    MaxSize = 1
    Asks <- TwoAsks
INVARIANTS
    PinsAreExact
    SearchersHoldTheirLists
    CacheIsTrimmed
    NoLeaderForgotten
PROPERTIES
    EveryQueryIsPrimed
