SPECIFICATION Spec
CONSTANTS
    Initial = {aLead, aMate}
    Fresh = {aNew, aSpare}
    Requests = {r1, r2, r3}
    Modes = {"plan"}
    Profile <- MCProfile
    ClientChanges <- MCClientChanges
    None = None
    MaxLosses = 1
    aLead = aLead
    aMate = aMate
    aNew = aNew
    aSpare = aSpare
INVARIANT RunsAsConfigured
INVARIANT SharedWorkspace
PROPERTY OnlyRepliesDropMembers
SYMMETRY MCSymmetry
CHECK_DEADLOCK FALSE
