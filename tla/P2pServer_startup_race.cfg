CONSTANTS
    a = a
    b = b
    s = s
    pa = pa
    pb = pb
    pself = pself
    Nodes <- MCNodes
    PeerIdOf <- MCPeerIdOf
    SelfId = pself
    Seeds <- MCSeeds
    MaxPeers = 1
    MultiThreaded = FALSE
    OverflowChecks = FALSE
    MaxConns = 3
    MaxQueue = 2
    MaxGossip = 1
SPECIFICATION Spec
INVARIANT NoStartupPanic
