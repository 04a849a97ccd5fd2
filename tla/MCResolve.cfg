CONSTANTS
    SlotRank <- MCSlotRank
    GroupIds <- MCGroups
    UserIds <- MCUsers
    MaxRound = 2
    MaxSlot = 3
    Capacities = {1}
    Procs = {"web"}
    Web = "web"
    Threshold = 1
    Databases <- OneDatabase
    MaxPages = 1
    MaxPosts = 1
    MaxRequests = 2
    SolvedRounds = {1, 2}
SPECIFICATION NoCrashSpec
INVARIANTS
    DoneIsExcluded
CHECK_DEADLOCK FALSE
