CONSTANTS
    SlotRank <- MCSlotRank
    GroupIds <- MCGroups
    UserIds <- MCUsers
    MaxRound = 1
    MaxSlot = 1
    Capacities = {1}
    Databases <- MCDatabases
    Procs = {"web"}
    Web = "web"
    Threshold = 1
    Syncs = {"web", "sync"}
    Courses <- MCCourses
    Points = {1}
    Solo <- MCSolo
    MaxPages = 1
    MaxPosts = 1
    MaxRequests = 2
    MaxChanges = 1
    MaxSolves = 0
    MaxTroubles = 1
    Options = {"plain", "force"}
    Sources = {"api", "excel"}
SPECIFICATION MCSpec
INVARIANTS
    CourseTypeOK
    ReportedIsStored
    NothingTwice
    ImportIsCurrent
    ImportedAreGrouped
PROPERTIES
    ExaminedStay
CHECK_DEADLOCK FALSE
