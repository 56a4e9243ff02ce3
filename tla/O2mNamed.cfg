\* o2m -o a: the device a goes away while another one stays.
SPECIFICATION Spec
CONSTANTS
    a = a
    b = b
    Name = {a, b}
    NoDevice = NoDevice
    MaxDevices = 2
    MaxChanges = 2
    MidiOutput = {h1, h2}
    NoOutput = NoOutput
    Packet = {p}
    NoPacket = NoPacket
    PipeBound = 1
    AllOutputs = FALSE
    NamedOutputs <- OneName
    Heartbeat = TRUE
    HeartbeatRoom = 1
INVARIANT PortsReachTheirNames
