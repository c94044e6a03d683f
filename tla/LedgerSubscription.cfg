SPECIFICATION Spec
CONSTANTS
    Requests = {r1, r2}
    AsyncRequests = {}
    Tokens = {}
    Subs = {1, 2}
    Channels = {}
    None = None
    Modes = {"off"}
    Sources = {"subscription"}
    MaxQuota = 1
    MaxVersion = 3
    MaxWallet = 0
    InitialWallet = 0
    InitialRemain = 0
    SubTotal = 1
    Admin = {"reset subscription", "end subscription", "clean records"}
SYMMETRY Symmetry
INVARIANTS RecordFollowsLedger SubscriptionUseExact
CHECK_DEADLOCK FALSE
