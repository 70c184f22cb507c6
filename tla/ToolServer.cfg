\* Two connections, a lead and a teammate, and a budget of tool calls.
CONSTANTS
    Callers = {c1, c2}
    Lead = lead
    Mate = mate
    Slots = {lead, mate}
    NoOwner = NoOwner
    NoSlot = NoSlot
    MaxTasks = 3
    MaxMail = 1
    MaxRequests = 3
    MaxWakeTaskRows = 2
    MaxRecentCompletedRows = 1
    MaxTeammateCompletedRows = 1
CONSTANT Updates <- MCUpdates
SPECIFICATION Spec
INVARIANTS
    ToolsTypeOK
    LinksRecorded
    UnblockedOnCompletion
    MessagesAreShown
    OnlyVolunteersLeave
    SummaryCountsAddUp
    SummaryShowsWhatMatters
SYMMETRY Symmetry
CHECK_DEADLOCK FALSE
