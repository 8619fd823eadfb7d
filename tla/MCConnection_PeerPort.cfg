CONSTANTS
    s1 = s1
    s2 = s2
    v1 = v1
    Slots <- MCSlots
    MaxConns = 2
    Ports <- MCPorts
    Methods <- MCMethods
    HostLittleEndian = TRUE
    Knobs = {}
    KnobValues = {}
    RetryArgs = {}
    LocalIPs = {}
    LocalPorts = {}
    IntMax <- MCIntMax
SYMMETRY Perms
SPECIFICATION Spec
INVARIANT PeerPortIsPeers
