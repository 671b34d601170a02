CONSTANTS
    h1 = h1
    h2 = h2
    s1 = s1
    s2 = s2
    p = p
    Messages <- MCMessages
    HostPorts <- MCHostPorts
    DevicePorts = {p}
    Lockdown = Lockdown
    Services <- MCServices
    NoName = NoName
    Lockdownd = Lockdownd
    Versions = {2}
    MaxConnections = 3
    MaxSegments = 3
    MaxUnderWay = 1
SPECIFICATION Spec
SYMMETRY Symmetry
INVARIANTS
    TypeOK
    StreamIsOneConnection
    MessagesAreConnections
    NamesAreServices
CHECK_DEADLOCK FALSE
