\* One device and no change: a message that does not fit is all it takes.
SPECIFICATION Spec
CONSTANTS
    Name = {a, b}
    a = a
    b = b
    NoDevice = NoDevice
    MaxDevices = 1
    MaxChanges = 0
    Processor = {p1, p2, p3, p4}
    NoProcessor = NoProcessor
    QueueBound = 1
    AllInputs = TRUE
    NamedInputs <- NoNames
    VirtualPort = {FALSE}
    VirtualName = b
    UseTemplate = TRUE
    Raw = TRUE
    Heartbeat = TRUE
    HeartbeatRoom = 1
INVARIANT StartedInputIsServed
