SPECIFICATION FairSpec
CONSTANTS
    nMaxConnections = 2
    MaxClients = 3
    MaxPushes = 1
INVARIANTS ClientsExact ConnectionsServed
PROPERTY ClosedBecomesIdle
CHECK_DEADLOCK FALSE
