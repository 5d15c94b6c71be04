\* Every branch of handle, an intent of two rounds and one transaction; tasks share nothing but the
\* private client, which is McpRelay here, and the node.
SPECIFICATION FairSpec
CONSTANTS
    t1 = t1
    Tasks = {t1}
    Skill <- MCSkill
    Proxied <- MCProxied
    Retried <- MCRetried
    ReadOnly <- MCReadOnly
    Envelopes <- MCEnvelopes
    NoTool = NoTool
    NoEnvelope = NoEnvelope
    NoCall = NoCall
    Asks <- MCAsks
    Rounds = 2
    x1 = x1
    Txs = {x1}
    NoTx = NoTx
    Catalog <- MCCatalog
INVARIANTS
    TypeOK
    ReplyIsTruthful
    IntentNeverWrites
    EventsInOrder
PROPERTY EveryTaskEnds
