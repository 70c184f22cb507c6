SPECIFICATION SessionSpec
CONSTANTS
    Slots = {s1}
    Lead = s1
    Callers = {c1, c2}
    Runs = {r1, r2}
    NoRun = NoRun
    Messages = {1, 2}
    NoMsg = NoMsg
    Sources = {"UserMessage", "UserIntervention", "McpShutdownRequest", "ShutdownRejected", "McpSendMessage",
               "SpawnWelcome", "TeamMembershipChanged", "SpawnAttachFailure", "IdleNotification",
               "InterruptedNotification", "RecoveryDrain"}
    ConstraintInputs = {"Ready", "Starting", "Failed", "Removing", "SessionStopped"}
    LeaseIds = {c1, c2, s1}
    MaxIntents = 3
    MaxOps = 3
    Calls = {"user", "cancel", "pause"}
    MaxSends = 2
    Faults = {}
SYMMETRY Symmetry
INVARIANTS NoLostWakeup BatchHasItsLoop
PROPERTIES PromptedOnce
CHECK_DEADLOCK FALSE
