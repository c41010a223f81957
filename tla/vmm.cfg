CONSTANTS
    K = K  U1 = U1  U2 = U2
    None = None
    Spaces <- MCSpacesSmall
    KernelSpace = K
    Frames <- MCFrames
    KernelImageFrame = 50
    VGAFrame = 51
    MMIOFrames = {40, 41}
    KernelBase = 24
    VGAPage = 0
    UserVAs = {2, 3}
    HeapPages <- MCHeap
    BootHeapPages = 1
    Sizes = {1, 2}
    MaxRefs = 2
SPECIFICATION Spec
INVARIANT TypeOK
INVARIANT FramesOwnedOnce
INVARIANT MappingsResolve
INVARIANT CurrentSpaceLive
INVARIANT CountersMatchTables
PROPERTY KmallocRollsBack
