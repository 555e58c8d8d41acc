CONSTANTS
    CounterModulus = 2
    PipeDepth = 1
    MaxInFlight = 2
    MaxCalls = 2
    Messages <- MCMessages
    Faults <- MCFaults
    Angles <- MCAngles
    ZeroAngles <- MCZeroAngles
SPECIFICATION Spec
INVARIANTS
    TypeOK
    InStep
    AtMostOnce
PROPERTIES
    ConfirmedOnce
    ConfirmedDevice
    CallsEnd
CHECK_DEADLOCK FALSE
