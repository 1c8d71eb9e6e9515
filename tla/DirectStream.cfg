\* Two peers, five streams constructed in all, at most three messages in all.
CONSTANTS
    a = a  b = b
    Peers <- TwoPeers
    MaxJoins = 5
    MaxSends = 3
SPECIFICATION FairSpec
INVARIANTS
    ChannelConsistent
    SessionOrder
PROPERTIES
    QueuedIsReceived
CHECK_DEADLOCK FALSE
