CONSTANTS
    SlotRank <- MCSlotRank
    Groups <- MCGroups
    Slots <- MCSlots
    Calls <- MCCalls
    Capacities = {0, 1, 2}
SPECIFICATION Spec
INVARIANTS
    TypeOK
    CounterExact
    CapacityRespected
    DecidedOnce
    OnlyWhereAllowed
    UnplacedJustified
    Deterministic
PROPERTIES
    ImplementsPlacement
    EventuallyDone
CHECK_DEADLOCK FALSE
