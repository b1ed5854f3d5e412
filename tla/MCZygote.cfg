CONSTANTS
    Clients = {"c1", "c2"}
    Peers <- MCPeers
    Kids = {"k1", "k2"}
    Factory = FALSE
    GcLoopCount = 0
    MaxRequests = 2
SPECIFICATION FairSpec
CHECK_DEADLOCK FALSE
INVARIANT ConnectionsSound
PROPERTIES RequestsHonoured RequestsServed
