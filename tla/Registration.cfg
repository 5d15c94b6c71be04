\* Three kinds of run race for one account.
SPECIFICATION Spec
CONSTANTS
    redeploy = redeploy
    first = first
    leave = leave
    g1 = g1
    g2 = g2
    k1 = k1
    k2 = k2
    NoKey = NoKey
    Empty = Empty
    Keys = {k1, k2}
    Scripts = {"deploy"}
    Generators = {}
    KeyFiles = {k1}
    NoPricing = NoPricing
    NoMetadata = NoMetadata
    NoRecord = NoRecord
    NoCard = NoCard
    NoMsg = NoMsg
    NoUrl = NoUrl
    Other = Other
    Prices <- MCPrices
    Config <- MCConfig
    Registrars = {redeploy, first}
    Deregistrars = {leave}
    Rpc = {redeploy, leave}
    Cards <- MCCards
    MaxOther = 2
    MaxSeq = 2
INVARIANTS
    TypeOK
PROPERTIES
    SequenceProtects
    KeepsFieldsUnlessRaced
    AppliedLeavesNoDrift
CHECK_DEADLOCK FALSE
