SPECIFICATION Spec
CONSTANTS
    Requests = {r1, r2}
    AsyncRequests = {}
    Tokens = {t1}
    Subs = {}
    Channels = {c1}
    None = None
    Modes = {"enforce"}
    Sources = {"wallet"}
    MaxQuota = 2
    MaxVersion = 4
    MaxWallet = 2
    InitialWallet = 1
    InitialRemain = 2
    SubTotal = 0
    Admin = {"credit"}
SYMMETRY Symmetry
INVARIANTS WalletConserved TokenUseExact StatisticsExact RefundNeverBlocked
PROPERTIES EscrowSpec
CHECK_DEADLOCK FALSE
