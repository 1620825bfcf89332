SPECIFICATION Spec
CONSTANTS
    Addrs = {"peer"}
    Ports = {1, 2}
    AllowedPorts = {2}
    Traffic <- MCTraffic
    MaxFlows = 2
    TcpIdle = 3
    UdpIdle = 2
    MaxSkew = 1
    MaxTime = 6
INVARIANTS
    TypeOK
    TableBounded
    AdmittedIsRecent
    RecentIsAdmitted
PROPERTY
    EvictsStalest
