SPECIFICATION FairSession
CONSTANTS
    Slots = {s1}
    Lead = s1
    Callers = {c1}
    Runs = {r1, r2}
    NoRun = NoRun
    Messages = {1, 2}
    NoMsg = NoMsg
    Sources = {"UserMessage", "UserIntervention", "McpShutdownRequest", "ShutdownRejected", "McpSendMessage",
               "SpawnWelcome", "TeamMembershipChanged", "SpawnAttachFailure", "IdleNotification",
               "InterruptedNotification", "RecoveryDrain"}
    ConstraintInputs = {"Ready", "Starting", "Failed", "Removing", "SessionStopped"}
    LeaseIds = {c1, s1}
    MaxIntents = 4
    MaxOps = 4
    Calls = {"user", "agent", "cancel"}
    MaxSends = 2
    Faults = {"write"}
PROPERTIES EveryMessageIsRead
CHECK_DEADLOCK FALSE
