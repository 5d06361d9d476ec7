SPECIFICATION Spec
CONSTANTS
    ByteBits = 3
    SignedChars = FALSE
    Messages <- MCLongVector
    MaxInFlight = 3
INVARIANT ReadsBack
