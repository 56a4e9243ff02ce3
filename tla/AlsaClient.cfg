SPECIFICATION Spec
CONSTANTS
    Input = {i1, i2}
    Output = {o1}
    NoHandle = NoHandle
    QueueBound = 2
INVARIANTS
    TypeOK
    CallbacksAreCounted
    ClientGoesWithLastDevice
    LastInFirstOutIsSafe
    MessagesOfOpenDevices
PROPERTIES
    DestructorReturns
