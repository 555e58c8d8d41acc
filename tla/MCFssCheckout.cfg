CONSTANTS
    Angles <- MCAngles
    ZeroAngles <- MCZeroAngles
    SpiFaults <- MCSpiFaults
    DeviceFaults <- MCDeviceFaults
    Lines <- MCLines
    MAX_INPUT_TOKENS = 2
SPECIFICATION Spec
INVARIANTS
    TypeOK
    EndOfInputRepeats
PROPERTIES
    RequestsAreAsked
    LinesAreHandled
CHECK_DEADLOCK FALSE
