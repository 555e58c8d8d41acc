CONSTANTS
    CounterModulus = 2
    PipeDepth = 1
    Messages <- MCMessages
    Faults <- MCNone
    SpiFaults <- MCNone
    Truths <- MCTruths
    SimCommands <- MCEnableDisable
    Angles <- MCAngles
    ZeroAngles <- MCZeroAngles
SPECIFICATION Spec
PROPERTIES
    DisabledSensorCounted
CHECK_DEADLOCK FALSE
