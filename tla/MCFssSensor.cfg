CONSTANTS
    Angles <- MCAngles
    ZeroAngles <- MCZeroAngles
    Providers <- MCProviders
    Positions <- MCPositions
    Forms <- MessageForms
    SimCommands <- MCSimCommands
SPECIFICATION Spec
INVARIANTS
    TypeOK
    ValidIsMeasured
    UndisturbedIsCurrent
    OnlyDisabledKeepsFrame
PROPERTIES
    SimSpec
    DisabledMeasuresNothing
CHECK_DEADLOCK FALSE
