SPECIFICATION FairServiceSpec
CONSTANTS
    Requests = {r1}
    AsyncRequests = {}
    MidjourneyRequests = {}
    Workers = {w1}
    MaxFaults = 0
    Tokens = {t1}
    Subs = {}
    Channels = {}
    None = None
    Modes = {"shadow"}
    Sources = {"wallet"}
    MaxQuota = 1
    MaxVersion = 5
    MaxWallet = 1
    InitialWallet = 1
    InitialRemain = 1
    SubTotal = 0
    Admin = {"delete token"}
PROPERTIES RefundsRecover
