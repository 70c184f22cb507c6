SPECIFICATION ServiceSpec
CONSTANTS
    Lead = L
    Mates = {a}
    Fresh = {b}
    t1 = t1
    t2 = t2
    t3 = t3
    Callers = {t1, t2, t3}
    Operations <- OneOfEach
    MaxGenerations = 2
    MaxOps = 3
INVARIANTS ServiceTypeOK NoOrphanSession NobodyWaitsForever RosterSerialized RemovedStaysGone
PROPERTIES RegistriesImplement
CHECK_DEADLOCK FALSE
