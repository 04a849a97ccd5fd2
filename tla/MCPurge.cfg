CONSTANTS
    SlotRank <- MCSlotRank
    a = a
    b = b
    GroupIds <- MCGroups
    UserIds <- MCUsers
    MaxRound = 2
    MaxSlot = 3
    Capacities = {1}
    Databases <- MCDatabases
    MaxOpened = 1
    MaxEdits = 1
    MaxPosts = 1
SPECIFICATION MCSpec
INVARIANTS
    PurgeDeletesAll
CHECK_DEADLOCK FALSE
