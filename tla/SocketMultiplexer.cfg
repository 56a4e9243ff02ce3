\* Two kinds of datagram, and room for a byte left over from one call of Run() to
\* meet the bytes of later breaks.
SPECIFICATION Spec
CONSTANTS
    Packet = {p1, p2}
    NoPacket = NoPacket
    PipeBound = 3
INVARIANT TypeOK
INVARIANT NoLostWakeup
INVARIANT ReadNeverBlocks
PROPERTY ImplementsBreakableRun
