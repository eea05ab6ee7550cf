SPECIFICATION RequestsSpec
CONSTANTS
    Tag = {1}
    Club = {c1}
    Requester = {x1, x2}
    BatchLimit = 1
    ClubLimit = 1
    NoClub = noclub
    Nobody = nobody
    PlayerTag = {1, 2}
    FromBattle = 1
    FromClub = {2}
    Region = {r1}
    Promoter = {d1, d2}
    PromotionBatch = 1
    Oversample = 2
    NoValue = novalue
    Row = {1, 2, 3, 4, 5, 6, 7, 8, 9, 10, 11, 12, 13, 14, 15, 16, 17}
    Table <- Tables
    Refs <- Links
    Scenario <- Scenarios
    InUse = {1, 12, 14, 15}
    Failed = {16}
    BatchSize = 1
    LastArrival = 2
    MaxNow = 6
INVARIANTS
    ProfilesInv
    DiscoveryInv
    FamiliesInv
PROPERTIES
    StratumSticks
    
    EveryObservedIsPromoted
    
