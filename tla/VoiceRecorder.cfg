\* Two segments on a page, packets of one to three, three frames, a buffer of two pages.
SPECIFICATION Spec
CONSTANTS
    PageSegments = 2
    FrameSize = 2
    Scale = 3
    PreSkip = 1
    FrameSegments = {1, 2, 3}
    HeaderSegments = 3
    BufferPages = 2
    MaxFrames = 3
INVARIANTS
    TypeOK
    PacketsWhole
    GapsReported
    SegmentsCounted
CHECK_DEADLOCK FALSE
