CONSTANTS
    SlotRank <- MCSlotRank
    GroupIds <- MCGroups
    UserIds <- MCUsers
    MaxRound = 1
    MaxSlot = 1
    Capacities = {1}
    Databases <- MCDatabases
    Procs = {"web", "plan"}
    Web = "web"
    Threshold = 1
    Syncs = {"web"}
    Courses <- MCCourses
    Points = {1}
    Solo <- MCSolo
    MaxPages = 1
    MaxPosts = 1
    MaxRequests = 2
    MaxChanges = 0
    MaxSolves = 1
    MaxTroubles = 1
    Options = {"plain", "dry"}
    Sources = {"api"}
SPECIFICATION MCSpec
INVARIANTS
    OnlyPresentersGraded
PROPERTIES
    WebGetsFree
CHECK_DEADLOCK FALSE
