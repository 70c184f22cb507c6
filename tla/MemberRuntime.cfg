SPECIFICATION Spec
CONSTANTS
    Members = {a1, a2}
    MaxOperations = 5
SYMMETRY Symmetry
INVARIANTS TypeOK WaitersHaveAnOwner NewestOperationDecides
PROPERTIES OutcomeIsFinal ReadyNeedsItsAttach
CHECK_DEADLOCK FALSE
