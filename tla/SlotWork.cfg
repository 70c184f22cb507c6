SPECIFICATION Spec
CONSTANTS
    Slots = {s1}
    Runs = {r1}
    NoRun = NoRun
    Messages = {m1}
    NoMsg = NoMsg
    Sources = {"UserMessage", "IdleNotification"}
    ConstraintInputs = {"Ready", "Starting", "Failed", "Removing", "SessionStopped"}
    LeaseIds = {l1}
    MaxIntents = 2
    MaxOps = 2
SYMMETRY Symmetry
INVARIANTS TypeOK QueuesMatchIntents ActiveBatchOwnsRunningWork ClosedSlotsHoldNoRunWork
PROPERTIES TerminalIsFinal LostOwnershipIsFinal CancelRunIsExact
CHECK_DEADLOCK FALSE
