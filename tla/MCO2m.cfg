\* All outputs of two devices, of which any two changes happen at any moment.
SPECIFICATION Spec
CONSTANTS
    a = a
    b = b
    Name = {a, b}
    NoDevice = NoDevice
    MaxDevices = 2
    MaxChanges = 2
    MidiOutput = {h1, h2}
    NoOutput = NoOutput
    Packet = {p}
    NoPacket = NoPacket
    PipeBound = 1
    AllOutputs = TRUE
    NamedOutputs <- NoNames
    Heartbeat = TRUE
    HeartbeatRoom = 1
INVARIANT TypeOK
INVARIANT BreakThreadIsAlone
INVARIANT OutputsHaveTheirPorts
PROPERTY RunReturns
PROPERTY CtrlCInsideRunEnds
PROPERTY ChangesAreFollowed
