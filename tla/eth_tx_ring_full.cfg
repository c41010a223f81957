CONSTANTS
    Count = 2
    MaxSends = 3
    MaxFrames = 2

SPECIFICATION Spec

INVARIANT SentFramesEnqueued
