\* Three frames, on a device before Android 4.3 and on one after it.
SPECIFICATION Spec
CONSTANTS
    Frames = 3
    Sdks = {17, 21}
    DecoderSlots = 2
    EncoderSlots = 1
    OutputSlots = 2
INVARIANTS
    TypeOK
    OneVideoTrack
    PictureLagBounded
    FramesAccountedFor
PROPERTIES
    CopiesFrames
    PumpEnds
