SPECIFICATION SessionSpec
CONSTANTS
    Slots = {s1, s2}
    Lead = s1
    Callers = {c1}
    Runs = {r1}
    NoRun = NoRun
    Messages = {1, 2}
    NoMsg = NoMsg
    Sources = {"UserMessage", "UserIntervention", "McpShutdownRequest", "ShutdownRejected", "McpSendMessage",
               "SpawnWelcome", "TeamMembershipChanged", "SpawnAttachFailure", "IdleNotification",
               "InterruptedNotification", "RecoveryDrain"}
    ConstraintInputs = {"Ready", "Starting", "Failed", "Removing", "SessionStopped"}
    LeaseIds = {c1, s1, s2}
    MaxIntents = 3
    MaxOps = 2
    Calls = {"user", "agent", "child"}
    MaxSends = 2
    Faults = {"tell", "start", "turn", "tasks", "busy", "transport"}
SYMMETRY Symmetry
INVARIANTS SessionTypeOK FailedIsEarned
CHECK_DEADLOCK FALSE
