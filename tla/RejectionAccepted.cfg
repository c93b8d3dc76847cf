SPECIFICATION Spec
CONSTANT MaxPhrases = 3
INVARIANTS
    RejectionIsNotAccepted
CHECK_DEADLOCK FALSE
