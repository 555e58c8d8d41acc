CONSTANTS
    CounterModulus = 2
    PipeDepth = 1
    Messages <- MCMessages
    Faults <- MCNone
    SpiFaults <- MCSpiFaults
    Truths <- MCTruths
    SimCommands <- MCEnableDisable
    Angles <- MCAngles
    ZeroAngles <- MCZeroAngles
SPECIFICATION Spec
INVARIANTS
    OpenThroughoutRequest
    SuccessDrainsSensor
    AcceptedIsCurrent
PROPERTIES
    AppSpec
CHECK_DEADLOCK FALSE
