\* Every catalog, every order of the startup loop, two requests.
SPECIFICATION FairSpec
CONSTANTS
    h1 = h1
    h2 = h2
    Handlers = {h1, h2}
    Catalogs <- MCCatalogs
    NoCatalog = NoCatalog
    ReadOnly <- MCReadOnly
    LocalSchema = LocalSchema
    Closer = Closer
    Nobody = Nobody
INVARIANTS
    TypeOK
    ServesTheFrozenCatalog
    CardDispatches
    ExitIsTruthful
PROPERTIES
    SignalStops
    DeadServerStopsUnlessDialing
