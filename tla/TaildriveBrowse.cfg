\* The deadlines are those of the code, in seconds.
CONSTANTS
    Machines = {m1, m2}
    MaxSession = 3
    PeerWarmupTimeout = 5
    ColdProbeTimeout = 3
    ListTimeout = 20
    MutationTimeout = 30
    QueryGatewayTimeout = 32
    MutationGatewayTimeout = 35
SPECIFICATION Spec
INVARIANT QueryInv
