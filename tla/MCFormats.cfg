SPECIFICATION MCSpec
CONSTANTS
    credentialLength = 2
    IPv4len = 1
    IPv6len = 2
    MaxDomain = 3
    MaxUDPPayloadSize = 2
    Granted <- MCGranted
    Clients <- MCClients
    Messages <- MCMessages
    Length <- MCLength
    HeaderSize = 2
    BufferSize = 7
    Limits = {4, 5}
    PacketIDs = {1, 2}
    Subscribers = {u1}
    Downloads = {s1, s2}
    Rates = {0, 1, 2}
    Sizes = {1, 2}
    MaxTime = 4
    MaxRepublished = 1
CHECK_DEADLOCK FALSE
INVARIANTS
    StreamPreserved
    RightPlace
    PacketsFramed
    Reassembled
    AttemptsCharged
    RateShared
PROPERTY
    RateChangeWakes
