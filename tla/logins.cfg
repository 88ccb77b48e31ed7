SPECIFICATION LoginsSpec
CONSTANTS
    Clients = {c1, c2}
    Maps = {m1}
    NoOne = NoOne
    NoVersion = NoVersion
    AccountId = 2000001
    c1 = c1
    c2 = c2
    m1 = m1
    LoginWindow = 1
    MapWindow = 1
    MaxLoginCuts = 1
    MaxMapCuts = 1
    MaxVer = 1
    Prompt = FALSE
    Hourly = TRUE
SYMMETRY Interchangeable
ACTION_CONSTRAINT HoursWhileLinksFail
CHECK_DEADLOCK FALSE
INVARIANTS TypeOK  QuitFindsNoNode NobodyOnLostServer
 
