CONSTANTS
    Angles <- MCAngles
    ZeroAngles <- MCZeroAngles
    Truths <- MCTruths
    SimCommands <- MCSimCommands
SPECIFICATION Spec
INVARIANTS
    QueuedIsFromLastWrite
CHECK_DEADLOCK FALSE
