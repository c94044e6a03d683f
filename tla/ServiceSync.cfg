SPECIFICATION FairServiceSpec
CONSTANTS
    Requests = {r1}
    AsyncRequests = {}
    MidjourneyRequests = {}
    Workers = {w1, w2}
    MaxFaults = 2
    Tokens = {}
    Subs = {}
    Channels = {c1}
    None = None
    Modes = {"enforce"}
    Sources = {"wallet"}
    MaxQuota = 2
    MaxVersion = 7
    MaxWallet = 1
    InitialWallet = 1
    InitialRemain = 0
    SubTotal = 0
    Admin = {}
INVARIANTS SettlementStands
PROPERTIES OnlyOrphansAreSwept Recovers
