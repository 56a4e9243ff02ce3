\* No device ever changes: the race is between the two threads and the signal.
SPECIFICATION Spec
CONSTANTS
    a = a
    b = b
    Name = {a, b}
    NoDevice = NoDevice
    MaxDevices = 2
    MaxChanges = 0
    MidiOutput = {h1, h2}
    NoOutput = NoOutput
    Packet = {p}
    NoPacket = NoPacket
    PipeBound = 1
    AllOutputs = TRUE
    NamedOutputs <- NoNames
    Heartbeat = TRUE
    HeartbeatRoom = 1
PROPERTY CtrlCEnds
