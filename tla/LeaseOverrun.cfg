\* The durations of the code, in seconds.
SPECIFICATION Spec
CONSTANTS
    Request = {r1}
    Node = {n1}
    Limit = 1
    LeaseDuration = 120
    RenewInterval = 30
    OperationTimeout = 2
INVARIANT StopsBeforeExpiry
