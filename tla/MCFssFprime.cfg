CONSTANTS
    CounterModulus = 3
    QueueDepth = 1
    Faults <- MCAllFaults
    Angles <- MCAngles
    ZeroAngles <- MCZeroAngles
SPECIFICATION Spec
INVARIANTS
    TypeOK
    OpenIsEnabled
    ChannelsCurrent
PROPERTIES
    AgreementLasts
    CommandsCountedOnce
CHECK_DEADLOCK FALSE
