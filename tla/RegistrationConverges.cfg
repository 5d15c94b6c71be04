\* Repeated runs bring the record to what is deployed.
SPECIFICATION FairSpec
CONSTANTS
    redeploy = redeploy
    first = first
    leave = leave
    g1 = g1
    g2 = g2
    k1 = k1
    k2 = k2
    NoKey = NoKey
    Empty = Empty
    Keys = {k1, k2}
    Scripts = {"deploy", "local"}
    Generators = {g1, g2}
    KeyFiles = {NoKey}
    NoPricing = NoPricing
    NoMetadata = NoMetadata
    NoRecord = NoRecord
    NoCard = NoCard
    NoMsg = NoMsg
    NoUrl = NoUrl
    Other = Other
    Prices <- MCPrices
    Config <- MCConfig
    Registrars = {first}
    Deregistrars = {}
    Rpc = {first}
    Cards <- GoodCards
    MaxOther = 2
    MaxSeq = 4
INVARIANT IdentityIsKept
PROPERTY Converges
CHECK_DEADLOCK FALSE
