SPECIFICATION FairSpec
CONSTANTS
    Request = {r1, r2}
    Node = {n1, n2}
    Limit = 1
    LeaseDuration = 8
    RenewInterval = 2
    OperationTimeout = 1
INVARIANTS LimitHeld HolderIsCounted OverrunIsBounded MemoryCountExact
PROPERTIES SlotsReturn
