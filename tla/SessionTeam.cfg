SPECIFICATION SessionSpec
CONSTANTS
    Slots = {s1, s2}
    Lead = s1
    Callers = {c1}
    Runs = {r1}
    NoRun = NoRun
    Messages = {1, 2, 3}
    NoMsg = NoMsg
    Sources = {"UserMessage", "UserIntervention", "McpShutdownRequest", "ShutdownRejected", "McpSendMessage",
               "SpawnWelcome", "TeamMembershipChanged", "SpawnAttachFailure", "IdleNotification",
               "InterruptedNotification", "RecoveryDrain"}
    ConstraintInputs = {"Ready", "Starting", "Failed", "Removing", "SessionStopped"}
    LeaseIds = {c1, s1, s2}
    MaxIntents = 5
    MaxOps = 2
    Calls = {"user", "cancel"}
    MaxSends = 2
    Faults = {"tell"}
SYMMETRY Symmetry
INVARIANTS LeadHearsSettledTeam
CHECK_DEADLOCK FALSE
