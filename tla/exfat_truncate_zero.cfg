CONSTANTS
    nA = nA
    nB = nB
    h1 = h1
    h2 = h2
    Names <- MCNames
    ShortNames <- MCShort
    Handles <- MCHandles
    Overreads <- MCOverreads
    NumClusters = 5
    ClusterSize = 2
    DirSlots = 8
    Prefix = 2
    Sizes = {1, 2}
    TruncSizes = {0}
    IoCanFail = TRUE
    CacheCanFail = TRUE
    NoName = NoName
    None = None

SPECIFICATION Spec

INVARIANT EntriesOwnDistinctClusters
