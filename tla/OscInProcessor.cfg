\* Two ports with one normalised name, a port that could not be opened; int32s that are
\* negative, zero, a channel and a value, above seven bits and above 255.
SPECIFICATION Spec
CONSTANTS
    Device <- MCDevice
    Wildcard <- MCWildcard
    SafeOscString <- MCSafeOscString
    Int32Value <- MCInt32Value
    ArgumentList <- MCArgumentList
    OutputList <- MCOutputList
    NoMessage = NoMessage
CHECK_DEADLOCK FALSE
INVARIANT TypeOK
INVARIANT SentIsWellFormed
INVARIANT OnlyTheAddressed
INVARIANT ArrivesAsAsked
