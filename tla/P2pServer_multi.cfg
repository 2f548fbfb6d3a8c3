CONSTANTS
    a = a
    b = b
    s = s
    pa = pa
    pb = pb
    pself = pself
    Nodes <- MCNodes
    PeerIdOf <- MCPeerIdOf
    SelfId = pself
    Seeds <- MCSeeds
    MaxPeers = 2
    MultiThreaded = TRUE
    OverflowChecks = FALSE
    MaxConns = 4
    MaxQueue = 2
    MaxGossip = 1
SPECIFICATION Spec
INVARIANT TypeOK
INVARIANT NoDuplicateRegistration
INVARIANT SelfNeverRegistered
