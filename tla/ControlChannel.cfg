SPECIFICATION Spec
CONSTANTS
    MaxKeys = 2
    MaxLogins = 2
    MaxPeers = 2
    Touches = {0}
    MaxEpoch = 2
    MaxLinks = 2
    MaxSends = 2
INVARIANTS TypeOK ServedPeersAreCurrent NoUntrackedContact
PROPERTIES OnlyTheOwnerTouches StalePeersGo EveryPeerSettles
CHECK_DEADLOCK FALSE
