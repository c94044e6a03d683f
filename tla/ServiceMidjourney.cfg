SPECIFICATION FairServiceSpec
CONSTANTS
    Requests = {r1}
    AsyncRequests = {r1}
    MidjourneyRequests = {r1}
    Workers = {w1}
    MaxFaults = 3
    Tokens = {}
    Subs = {}
    Channels = {c1}
    None = None
    Modes = {"shadow"}
    Sources = {"wallet"}
    MaxQuota = 1
    MaxVersion = 12
    MaxWallet = 1
    InitialWallet = 1
    InitialRemain = 0
    SubTotal = 0
    Admin = {"delete channel"}
PROPERTIES Recovers
