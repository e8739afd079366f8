SPECIFICATION Spec
CONSTANTS
    Identities = {i1}
    Orgs = {o1, o2}
    Keys = {k1, k2}
    Names = {"workspace"}
    Threads = {t1, t2}
    FreeCredit = 1
    DayLength = 1
    MaxClock = 1
    NoRow = NoRow
    Procs = {p1, p2}
    Requests = {r1, r2}
    RawSessions = {"default"}
    Images = {m1}
    Texts = {x1, x2}
    AccountInputs <- MCAccountInputs
    StaticInputs <- MCStaticInputs
    Cost = 2
    HostedPool = TRUE
    TTL = 1
    Bogus = Bogus
    StaticKey = StaticKey
    MaxServed = 2
    CreditTTL = 1
    Lag = 1
    EdgeClock = 4
    Factor = 2
    MaxPixels = 1337
    MinPixels = 4
    LongSide = 72
    ShortSide = 27
    Tile = 18
    PixelCap = 1467
    PixelsPerToken = 1
    BaseTokens <- MCBaseTokens
    TileTokens <- MCTileTokens
    Prices <- MCPrices
    Schemes <- MCSchemes
    Sides <- MCSides
INVARIANTS
    OneAccountPerIdentity
    HitIsGenuine
    
PROPERTIES
    RevocationPropagates
CHECK_DEADLOCK FALSE
SYMMETRY Symmetry
