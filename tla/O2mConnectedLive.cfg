\* One device comes or goes, at a moment TLC chooses.
SPECIFICATION Spec
CONSTANTS
    a = a
    b = b
    Name = {a, b}
    NoDevice = NoDevice
    MaxDevices = 2
    MaxChanges = 1
    MidiOutput = {h1, h2}
    NoOutput = NoOutput
    Packet = {p}
    NoPacket = NoPacket
    PipeBound = 1
    AllOutputs = TRUE
    NamedOutputs <- NoNames
    Heartbeat = TRUE
    HeartbeatRoom = 1
PROPERTY ConnectedLiveAreOpened
