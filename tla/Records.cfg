SPECIFICATION RecordsSpec
CONSTANTS
    a = a
    b = b
    c = c
    old = old
    new = new
    Fighter = {a, b, c}
    Crawled = {a, b}
    Match = {1, 2, 3}
    Sides <- Teams
    Winner <- Winners
    Mode <- Modes
    Solo = {2}
    Plays <- Picks
    NewBrawler = {new}
    Garbled <- Gaps
    LogCrawler = {l1, l2}
    Level = {"healthy", "critical"}
    Caller = {x1, x2}
    Operator = {x1}
    IdempotencyKey = {k1}
    NoKey = NoKey
    NotKnown = NotKnown
INVARIANTS
    
    MonitoringInv
PROPERTIES
    EveryMatchIsStored
    AlertsSettle
