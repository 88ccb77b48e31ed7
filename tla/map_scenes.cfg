SPECIFICATION Spec
CONSTANTS
    d1 = d1
    d2 = d2
    d3 = d3
    v1 = v1
    v2 = v2
    MapServers = {m1}
    MaxCuts = 0
    Window = 1
    Posters = {d1, d2, d3}
    PostServer = m1
    Wares = {w1}
    Purses <- TwoPurses
    MostZeny = 3
    MaxInbox = 1
    MaxMails = 3
    MaxSent = 2
    BuyNow = 2
    NoWare = NoWare
    Manager = Manager
    Dealers = {d1, d2}
    Variants = {v1, v2}
    Plain = v1
    Bundles <- Stalls
    Prices = {1, 2}
    MaxPlaces = 1
    MaxShops = 2
    MaxUses = 2
    NoDealer = NoDealer
    Walkers = {u1, u2}
    Events = {e1}
    TickRange = 11
    MaxDelay = 2
    MaxLag = 2
    LateBy = 0
    Interval = 1
    MaxTime = 12
    MaxIds = 4
    NoTimer = NoTimer
    Nodes = {1, 2, 3, 4, 5, 6, 7}
    Block = {1, 2, 3}
    Keys = {1, 2, 3}
    Values = {v}
    Iterators = {i1}
    MaxPuts = 3
    NoValue = NoValue
    CarefulCallers = TRUE
    Entries = {1, 2}
    MaxTmp = 2
    Missing = Missing
    Torn = Torn
    Duelists = {d1, d2, d3}
    MaxDuel = 3
    Guests = {d1, d2, d3}
    Halls = {h1, h2}
    ChatSeats = 2
    Teams = {1, 2}
    TeamSeats = 2
    Npc = Npc
    NoHall = NoHall
    NoGuest = NoGuest
    Adventurers = {d1, d2}
    Parties = {1, 2}
    MaxInstance = 2
    Sources = {so1}
    Town = Town
    Slots = {1, 2}
    SavesOutside = TRUE
CHECK_DEADLOCK FALSE
INVARIANTS MapTypeOK PostLosesNothing ShopsAsShown RememberedIsOwn TimersInTime IdsAccounted TablesSound IterationsShowAll SavesSurvive MembersAgree InstancesKept
PROPERTIES DealsKeepGoods
