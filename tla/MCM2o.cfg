\* All inputs of two devices, one change, with and without a virtual input.
SPECIFICATION Spec
CONSTANTS
    Name = {a, b}
    a = a
    b = b
    NoDevice = NoDevice
    MaxDevices = 2
    MaxChanges = 1
    Processor = {p1, p2, p3, p4}
    NoProcessor = NoProcessor
    QueueBound = 1
    AllInputs = TRUE
    NamedInputs <- NoNames
    VirtualPort = {TRUE, FALSE}
    VirtualName = b
    UseTemplate = TRUE
    Raw = TRUE
    Heartbeat = TRUE
    HeartbeatRoom = 1
INVARIANT TypeOK
INVARIANT InputIsServed
INVARIANT SetUpIsRespected
PROPERTY CtrlCEnds
PROPERTY ChangesAreFollowed
