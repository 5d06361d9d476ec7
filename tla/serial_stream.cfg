SPECIFICATION Spec
CONSTANTS
    ByteBits = 3
    SignedChars = FALSE
    Messages <- MCKinds
    MaxInFlight = 3
INVARIANT FramesAligned
PROPERTY IsQueue
