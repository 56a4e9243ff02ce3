\* Three devices and no virtual input.
SPECIFICATION Spec
CONSTANTS
    Name = {a, b, c}
    a = a
    b = b
    NoDevice = NoDevice
    MaxDevices = 3
    MaxChanges = 0
    Processor = {p1, p2, p3, p4}
    NoProcessor = NoProcessor
    QueueBound = 1
    AllInputs = TRUE
    NamedInputs <- NoNames
    VirtualPort = {FALSE}
    VirtualName = b
    UseTemplate = TRUE
    Raw = TRUE
    Heartbeat = TRUE
    HeartbeatRoom = 1
INVARIANT MessagesReachTheirDevice
