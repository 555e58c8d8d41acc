CONSTANTS
    Angles <- MCAngles
    ZeroAngles <- MCZeroAngles
    SpiFaults <- SpiCalls
SPECIFICATION Spec
INVARIANTS
    TypeOK
    SuccessCompletes
PROPERTIES
    DataFromVerifiedFrame
    RequestEnds
