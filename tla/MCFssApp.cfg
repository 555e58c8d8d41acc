CONSTANTS
    CounterModulus = 2
    PipeDepth = 1
    Messages <- MCMessages
    Faults <- MCAllFaults
    Angles <- MCAngles
    ZeroAngles <- MCZeroAngles
SPECIFICATION Spec
INVARIANTS
    TypeOK
    HousekeepingTellsInterface
PROPERTIES
    EveryMessageCountedOnce
    RejectedIsInert
    DeviceActivityCounted
    ExitReleasesInterface
    ExitHonoured
    HousekeepingAnswered
CHECK_DEADLOCK FALSE
