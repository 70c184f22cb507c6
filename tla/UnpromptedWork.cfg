SPECIFICATION SessionSpec
CONSTANTS
    Slots = {s1}
    Lead = s1
    Callers = {c1}
    Runs = {r1}
    NoRun = NoRun
    Messages = {1, 2}
    NoMsg = NoMsg
    Sources = {"UserMessage", "UserIntervention", "McpShutdownRequest", "ShutdownRejected", "McpSendMessage",
               "SpawnWelcome", "TeamMembershipChanged", "SpawnAttachFailure", "IdleNotification",
               "InterruptedNotification", "RecoveryDrain"}
    ConstraintInputs = {"Ready", "Starting", "Failed", "Removing", "SessionStopped"}
    LeaseIds = {c1, s1}
    MaxIntents = 2
    MaxOps = 2
    Calls = {"user"}
    MaxSends = 2
    Faults = {}
SYMMETRY Symmetry
INVARIANTS CompletedWorkWasPrompted
CHECK_DEADLOCK FALSE
