\* Two calls in flight, a service that may come back changed.
SPECIFICATION FairSpec
CONSTANTS
    NoTool = NoTool
    NoOwner = NoOwner
    Closer = Closer
    Blank = Blank
    NoSchema = NoSchema
    c1 = c1
    c2 = c2
    Names <- MCNames
    RetrySafe <- MCRetrySafe
    Calls = {c1, c2}
    Listings <- AllListings
INVARIANTS
    TypeOK
    UnsafeAtMostOnce
    OutcomeIsTruthful
    OpenServesFrozen
    InFlightIsServed
    ClosedStaysClosed
PROPERTIES
    ImplementsRelay
    CallReturns
