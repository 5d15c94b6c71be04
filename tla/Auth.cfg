\* Every interleaving of two requests over swept stores.
SPECIFICATION SweptSpec
CONSTANTS
    h1 = h1
    h2 = h2
    alice = alice
    bob = bob
    n1 = n1
    n2 = n2
    b1 = b1
    b2 = b2
    Handlers = {h1, h2}
    Owners = {alice, bob}
    Nobody = Nobody
    Nonces = {n1, n2}
    Bearers = {b1, b2}
    None = None
    NonceTTL = 1
    BearerTTL = 2
    MaxTime = 3
SYMMETRY Symmetry
INVARIANTS
    TypeOK
    OneBearerPerNonce
    BearerIsTheSigners
    MapsAgree
    HonoursUntilExpiry
