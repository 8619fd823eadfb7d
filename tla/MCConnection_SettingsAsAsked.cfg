CONSTANTS
    s1 = s1
    s2 = s2
    v1 = v1
    Slots <- MCSlots
    MaxConns = 1
    Ports <- MCOnePort
    Methods <- MCMethods
    HostLittleEndian = TRUE
    Knobs = {"timeout"}
    KnobValues <- MCKnobValues
    RetryArgs <- MCRetryArgs
    LocalIPs <- MCLocalIPs
    LocalPorts <- MCLocalPorts
    IntMax <- MCIntMax
SYMMETRY Perms
SPECIFICATION Spec

INVARIANT SettingsAsAsked
