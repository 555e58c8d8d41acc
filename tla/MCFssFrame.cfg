CONSTANTS
    Words <- MCWords
SPECIFICATION Spec
INVARIANTS
    IntactIsAccepted
    DamagedIsRefused
CHECK_DEADLOCK FALSE
