CONSTANTS
    SlotRank <- MCSlotRank
    GroupIds <- MCGroups
    UserIds <- MCUsers
    MaxRound = 2
    MaxSlot = 2
    Capacities = {1}
    Databases <- MCDatabases
    Procs = {"plan"}
    Web = "web"
    Threshold = 1
    Mailers = {"send"}
    MaxRequests = 3
    SentKinds = {"availability_request", "reminder", "slot_assignment"}
    SentRounds = {1, 2}
SPECIFICATION MCSpec
INVARIANTS
    MailTypeOK
    LoggedIsDelivered
    NoDoubleSend
PROPERTIES
    EveryoneIsTried
CHECK_DEADLOCK FALSE
