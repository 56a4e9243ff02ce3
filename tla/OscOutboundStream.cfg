\* Room for six arguments or two messages, lengths on both sides of a multiple of
\* four, arguments that end exactly where the type tags begin, and messages that are
\* longer than the receive buffer. A message that was read, or was refused, is the end.
SPECIFICATION LinkSpec
CONSTANTS
    Capacity = 40
    AddressLength = {2, 3, 4}
    ArgumentLength = {3, 4, 6, 8}
    Kind <- KindOfLength
    BufferSize = 30
CHECK_DEADLOCK FALSE
INVARIANT TypeOK
INVARIANT RoomToEnd
INVARIANT WireFormat
INVARIANT ReadBack
INVARIANT TruncatedIsRejected
