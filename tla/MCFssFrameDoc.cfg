CONSTANTS
    Words <- MCDocumentedWords
SPECIFICATION Spec
INVARIANTS
    DocumentedFrame
CHECK_DEADLOCK FALSE
