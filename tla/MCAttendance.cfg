CONSTANTS
    SlotRank <- MCSlotRank
    GroupIds <- MCGroups
    UserIds <- MCUsers
    MaxRound = 2
    MaxSlot = 3
    Capacities = {1}
    Procs = {"web"}
    Web = "web"
    Threshold = 1
    Databases <- MCDatabases
    MaxPages = 2
    MaxPosts = 3
    MaxRequests = 1
    SolvedRounds = {2}
SPECIFICATION NoCrashSpec
INVARIANTS
    PostTakesEffect
    PresentedMemberCounts
    DoneIsExcluded
CHECK_DEADLOCK FALSE
