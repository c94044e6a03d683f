SPECIFICATION Spec
CONSTANTS
    Requests = {r1}
    AsyncRequests = {r1}
    Tokens = {t1}
    Subs = {}
    Channels = {c1, c2}
    None = None
    Modes = {"shadow", "enforce"}
    Sources = {"wallet"}
    MaxQuota = 2
    MaxVersion = 4
    MaxWallet = 2
    InitialWallet = 2
    InitialRemain = 2
    SubTotal = 0
    Admin = {"edit token", "delete token", "delete channel"}
SYMMETRY Symmetry
INVARIANTS LedgerInv
PROPERTIES RefundIsFinal VersionGrows CountedChannelIsPinned MoneyMovesArePublished
CHECK_DEADLOCK FALSE
