CONSTANTS
    SlotRank <- MCSlotRank
    GroupIds <- MCGroups
    UserIds <- MCUsers
    MaxRound = 2
    MaxSlot = 3
    Capacities = {1}
    Procs = {"plan"}
    Web = "web"
    Threshold = 1
    Databases <- MCDatabases
    MaxPages = 1
    MaxPosts = 2
    MaxRequests = 1
    SolvedRounds = {1, 2}
SPECIFICATION MCSpec
INVARIANTS
    AttTypeOK
    MarksBackStatus
    DatabaseConsistent
CHECK_DEADLOCK FALSE
