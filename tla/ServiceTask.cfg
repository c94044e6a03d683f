SPECIFICATION FairServiceSpec
CONSTANTS
    Requests = {r1}
    AsyncRequests = {r1}
    MidjourneyRequests = {}
    Workers = {w1}
    MaxFaults = 2
    Tokens = {}
    Subs = {}
    Channels = {}
    None = None
    Modes = {"shadow"}
    Sources = {"wallet"}
    MaxQuota = 1
    MaxVersion = 14
    MaxWallet = 1
    InitialWallet = 1
    InitialRemain = 0
    SubTotal = 0
    Admin = {}
PROPERTIES AcceptedTaskIsCharged Recovers
