\* server.go:45-47 says a dead HTTP server takes the agent down.
SPECIFICATION FairSpec
CONSTANTS
    h1 = h1
    h2 = h2
    Handlers = {h1}
    Catalogs <- OneCatalog
    NoCatalog = NoCatalog
    ReadOnly <- MCReadOnly
    LocalSchema = LocalSchema
    Closer = Closer
    Nobody = Nobody
PROPERTY DeadServerStops
