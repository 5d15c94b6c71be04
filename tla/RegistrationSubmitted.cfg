\* client.go:153-154 says a non-zero CheckTx code becomes an error.
SPECIFICATION Spec
CONSTANTS
    redeploy = redeploy
    first = first
    leave = leave
    g1 = g1
    g2 = g2
    k1 = k1
    k2 = k2
    NoKey = NoKey
    Empty = Empty
    Keys = {k1, k2}
    Scripts = {"deploy"}
    Generators = {}
    KeyFiles = {k1}
    NoPricing = NoPricing
    NoMetadata = NoMetadata
    NoRecord = NoRecord
    NoCard = NoCard
    NoMsg = NoMsg
    NoUrl = NoUrl
    Other = Other
    Prices <- MCPrices
    Config <- MCConfig
    Registrars = {redeploy, first}
    Deregistrars = {}
    Rpc = {redeploy}
    Cards <- GoodCards
    MaxOther = 3
    MaxSeq = 3
INVARIANT SubmittedWasAccepted
CHECK_DEADLOCK FALSE
