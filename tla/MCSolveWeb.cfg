CONSTANTS
    SlotRank <- MCSlotRank
    GroupIds <- MCGroups
    UserIds <- MCUsers
    MaxRound = 2
    MaxSlot = 4
    Capacities = {1}
    Procs = {"web"}
    Web = "web"
    Threshold = 1
    Databases <- WebDatabases
    MaxRequests = 2
SPECIFICATION MCSpec
INVARIANTS
    ScheduleSound
    ScheduleComplete
    SlotOfSameRound
CHECK_DEADLOCK FALSE
