SPECIFICATION Spec
CONSTANTS
    Devices = {d1, d2}
    Veteran = d2
    MaxAttempts = 2
    MaxRelays = 2
    MaxStarts = 2
INVARIANTS TypeOK DiskAgrees
PROPERTIES PairedByOwnPin PairingsAreKept IdentityStays HandshakeEnds
CHECK_DEADLOCK FALSE
