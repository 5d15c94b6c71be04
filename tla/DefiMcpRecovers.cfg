\* client.go:180-182 says a broken session is replaced; the run shows when
\* it never is.
SPECIFICATION KindSpec
CONSTANTS
    NoTool = NoTool
    NoOwner = NoOwner
    Closer = Closer
    Blank = Blank
    NoSchema = NoSchema
    c1 = c1
    c2 = c2
    Names <- MCNames
    RetrySafe <- MCRetrySafe
    Calls = {c1}
    Listings <- TwoListings
PROPERTY Recovers
