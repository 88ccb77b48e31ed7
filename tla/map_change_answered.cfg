SPECIFICATION FairSpec
CONSTANTS
    Clients = {c1}
    Maps = {m1, m2}
    NoOne = NoOne
    NoVersion = NoVersion
    AccountId = 2000001
    c1 = c1
    m1 = m1
    m2 = m2
    LoginWindow = 1
    MapWindow = 1
    MaxLoginCuts = 0
    MaxMapCuts = 0
    MaxVer = 0
    Prompt = FALSE
    Hourly = FALSE
CHECK_DEADLOCK FALSE
PROPERTY MapChangeAnswered
