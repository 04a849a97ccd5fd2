CONSTANTS
    SlotRank <- MCSlotRank
    a = a
    b = b
    GroupIds <- MCGroups
    UserIds <- MCUsers
    MaxRound = 2
    MaxSlot = 3
    Capacities = {1}
    Databases <- MCDatabases
    MaxOpened = 2
    MaxEdits = 3
    MaxPosts = 2
SPECIFICATION MCSpec
SYMMETRY Alike
INVARIANTS
    PurgeTypeOK
    SubmissionStored
    NothingDangles
PROPERTIES
    AnsweredSlotsStay
CHECK_DEADLOCK FALSE
