SPECIFICATION ServiceSpec
CONSTANTS
    Requests = {r1}
    AsyncRequests = {r1}
    MidjourneyRequests = {}
    Workers = {w1}
    MaxFaults = 0
    Tokens = {}
    Subs = {}
    Channels = {}
    None = None
    Modes = {"shadow"}
    Sources = {"wallet"}
    MaxQuota = 1
    MaxVersion = 7
    MaxWallet = 1
    InitialWallet = 1
    InitialRemain = 0
    SubTotal = 0
    Admin = {}
PROPERTIES PriceIsFinal
