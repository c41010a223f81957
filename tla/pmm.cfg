CONSTANTS
    PageSize = 2
    MaxRegions = 2
    MemoryMap <- MCMapAligned
    PageCounts = {1, 2}
    AlignedReqs <- MCAlignedReqs
    StrayAddrs = {5, 20}
    DoubleFreeOps = {"page"}
SPECIFICATION Spec
INVARIANT TypeOK
INVARIANT CountersMatchBitmap
INVARIANT HeldFramesAllocated
PROPERTY AllocIsFirstFit
PROPERTY ImplementsFrameAllocator
