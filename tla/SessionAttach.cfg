SPECIFICATION SessionSpec
CONSTANTS
    Slots = {s1, s2}
    Lead = s1
    Callers = {c1, c2}
    Runs = {r1}
    NoRun = NoRun
    Messages = {1}
    NoMsg = NoMsg
    Sources = {"UserMessage", "UserIntervention", "McpShutdownRequest", "ShutdownRejected", "McpSendMessage",
               "SpawnWelcome", "TeamMembershipChanged", "SpawnAttachFailure", "IdleNotification",
               "InterruptedNotification", "RecoveryDrain"}
    ConstraintInputs = {"Ready", "Starting", "Failed", "Removing", "SessionStopped"}
    LeaseIds = {c1, c2, s1, s2}
    MaxIntents = 3
    MaxOps = 2
    Calls = {"user", "attach"}
    MaxSends = 1
    Faults = {"write"}
SYMMETRY Symmetry
INVARIANTS NoLostWakeup
CHECK_DEADLOCK FALSE
