SPECIFICATION Spec
CONSTANTS

    MapServers = {m1, m2}
    MaxCuts = 1
    Window = 1
    Members = {p1, p2}
    StorageServers = {m1}
    Goods = {g1}
    MaxGuildStorage = 1
    Nowhere = Nowhere
    Players = {p1, p2}
    MaxParty = 2
    MaxParties = 1
    MaxAsks = 3
    Nobody = Nobody
    Away = Away
    Sharers = {p1, p2, p3}
    ShareLevel = 2
    MaxLevel = 5
    NoChild = NoChild
    Guildsmen = {p1, p2}
    MaxGuild = 2
    MaxAlliances = 1
    MaxRelations = 3
    MaxGuilds = 2
    MaxDeeds = 3
    NoGuildsman = NoGuildsman
    Elsewhere = Elsewhere
    Patient = TRUE
CHECK_DEADLOCK FALSE
INVARIANTS SharedTypeOK StorageOpenedByOne GoodsInOnePlace PartiesAgree EvenShareInRange GuildsAgree  
PROPERTIES ChangedStorageSaved JoiningEnds
