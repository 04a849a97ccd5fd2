CONSTANTS
    SlotRank <- MCSlotRank
    GroupIds <- MCGroups
    UserIds <- MCUsers
    MaxRound = 2
    MaxSlot = 4
    Capacities = {1}
    Procs = {"plan"}
    Web = "web"
    Threshold = 1
    Databases <- CliDatabases
    MaxRequests = 3
SPECIFICATION MCSpec
INVARIANTS
    SolveTypeOK
    DatabaseConsistent
    OneRowPerGroup
    CompleteReplacement
CHECK_DEADLOCK FALSE
