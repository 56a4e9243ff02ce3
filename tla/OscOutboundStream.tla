-------------------------- MODULE OscOutboundStream --------------------------
(***************************************************************************)
(* oscpack's OutboundPacketStream, as the heartbeats, the OSC sink and the  *)
(* MIDI input of osmid use it: messages of a few arguments are put together *)
(* in a buffer of fixed size. Arguments grow upwards behind the address,    *)
(* type tags grow downwards from the end of the buffer; the end of a        *)
(* message moves the arguments up and puts the tags in between.             *)
(***************************************************************************)
EXTENDS Integers, Sequences, SequencesExt

CONSTANTS
    Capacity,        \* the size of the buffer in bytes
    AddressLength,   \* strlen of the address patterns
    ArgumentLength   \* bytes of the arguments before padding: 0 for a mere tag, 4 for
                     \* an int32, strlen + 1 for a string, 4 + size for a blob

ASSUME CapacityAssumption == Capacity \in Nat
ASSUME LengthAssumption == AddressLength \subseteq Nat /\ ArgumentLength \subseteq Nat

VARIABLES
    messageCursor,    \* messageCursor_ - data_
    argumentCurrent,  \* argumentCurrent_ - data_
    tagCount,         \* end_ - typeTagsCurrent_
    inProgress,       \* messageIsInProgress_
    bytes,            \* the buffer
    pending,          \* the message in progress: its lengths, for the properties
    finished          \* the messages completed, likewise

cursors == <<messageCursor, argumentCurrent, tagCount, inProgress>>
vars == <<cursors, bytes, pending, finished>>

\* A byte is known by what it is part of: byte i of the address, the tag or byte i
\* of the k-th argument of message m.
Garbage == <<"garbage">>
Zero == <<"zero">>
Comma == <<"comma">>
AddressBytes(m, n) == [i \in 1..n |-> <<"address", m, i>>] \o <<Zero>>
Tag(m, k) == <<"tag", m, k>>
ArgumentBytes(m, k, n) == [i \in 1..n |-> <<"argument", m, k, i>>]

Message == [address : AddressLength, arguments : Seq(ArgumentLength)]

TypeOK ==
    /\ messageCursor \in 0..Capacity
    /\ argumentCurrent \in messageCursor..Capacity
    /\ tagCount \in 0..Capacity
    /\ inProgress \in BOOLEAN
    /\ DOMAIN bytes = 0..(Capacity - 1)
    /\ pending \in [address : AddressLength \cup {0}, arguments : Seq(ArgumentLength)]
    /\ finished \in Seq(Message)

RoundUp4(x) == 4 * ((x + 3) \div 4)

Padded(s) == s \o [i \in 1..(RoundUp4(Len(s)) - Len(s)) |-> Zero]

\* The buffer b with s written at offset at.
Written(b, at, s) ==
    [i \in DOMAIN b |-> IF i \in at..(at + Len(s) - 1) THEN s[i - at + 1] ELSE b[i]]

\* The bytes of b from offset first up to, but not including, last.
Bytes(b, first, last) == [i \in 1..(last - first) |-> b[first + i - 1]]

Size == argumentCurrent + IF inProgress THEN RoundUp4(tagCount + 2) ELSE 0

Init ==
    /\ messageCursor = 0
    /\ argumentCurrent = 0
    /\ tagCount = 0
    /\ inProgress = FALSE
    /\ bytes = [i \in 0..(Capacity - 1) |-> Garbage]
    /\ pending = [address |-> 0, arguments |-> << >>]
    /\ finished = << >>

----------------------------------------------------------------------------
(* The operators <<. One that throws OutOfBufferMemoryException has changed *)
(* nothing: the room is checked first.                                      *)

RoomForMessage(n) == Size + RoundUp4(n + 1) + 4 <= Capacity

BeginMessage(n) ==
    /\ ~inProgress
    /\ RoomForMessage(n)
    /\ messageCursor' = messageCursor + RoundUp4(n + 1)
    /\ argumentCurrent' = messageCursor'
    /\ tagCount' = 0
    /\ inProgress' = TRUE
    /\ bytes' = Written(bytes, messageCursor, Padded(AddressBytes(Len(finished) + 1, n)))
    /\ pending' = [address |-> n, arguments |-> << >>]
    /\ UNCHANGED finished

\* Mutant: the type tag to come is not counted.
RoomWithoutTag(n) ==
    argumentCurrent + RoundUp4(n) + RoundUp4(tagCount + 2) <= Capacity

\* CheckForAvailableArgumentSpace
RoomForArgument(n) ==
    argumentCurrent + RoundUp4(n) + RoundUp4(tagCount + 3) <= Capacity

\* operator<< of an argument. It does not look at messageIsInProgress_: that there is a
\* message is how osmid calls it, BeginMessage always first.
AddArgument(n) ==
    /\ inProgress
    /\ RoomForArgument(n)
    /\ tagCount' = tagCount + 1
    /\ argumentCurrent' = argumentCurrent + RoundUp4(n)
    /\ LET m == Len(finished) + 1
       IN  bytes' = Written(
               Written(bytes, Capacity - tagCount', <<Tag(m, tagCount')>>),
               argumentCurrent, Padded(ArgumentBytes(m, tagCount', n)))
    /\ pending' = [pending EXCEPT !.arguments = Append(@, n)]
    /\ UNCHANGED <<messageCursor, inProgress, finished>>

\* The type tags in the order in which they were added.
TagsIn(b) == Reverse(Bytes(b, Capacity - tagCount, Capacity))

\* Mutant: the type tags are taken from the buffer after the arguments have moved.
TagsAfterMove ==
    LET slot == RoundUp4(tagCount + 2)
        moved == Written(bytes, messageCursor + slot,
                         Bytes(bytes, messageCursor, argumentCurrent))
    IN  Written(moved, messageCursor, Padded(<<Comma>> \o TagsIn(moved) \o <<Zero>>))

\* The arguments move up by the slot of the type tags, whose copy then fills it.
TagsInserted ==
    LET slot == RoundUp4(tagCount + 2)
        moved == Written(bytes, messageCursor + slot,
                         Bytes(bytes, messageCursor, argumentCurrent))
    IN  Written(moved, messageCursor, Padded(<<Comma>> \o TagsIn(bytes) \o <<Zero>>))

EndMessage ==
    /\ inProgress
    /\ messageCursor' = argumentCurrent + RoundUp4(tagCount + 2)
    /\ argumentCurrent' = messageCursor'
    /\ tagCount' = 0
    /\ inProgress' = FALSE
    /\ bytes' = TagsInserted
    /\ finished' = Append(finished, pending)
    /\ UNCHANGED pending

Next ==
    \/ \E n \in AddressLength : BeginMessage(n)
    \/ \E n \in ArgumentLength : AddArgument(n)
    \/ EndMessage

Spec == Init /\ [][Next]_vars

----------------------------------------------------------------------------
(* Properties. *)

\* What was accepted fits: the arguments never reach the type tags, and the end of
\* the message, which checks nothing, finds the room for its slot.
RoomToEnd ==
    /\ argumentCurrent + tagCount <= Capacity
    /\ Size <= Capacity

\* The OSC encoding of the m-th message: address, type tags, arguments.
Encoded(msg, m) ==
    LET n == Len(msg.arguments)
    IN  Padded(AddressBytes(m, msg.address))
        \o Padded(<<Comma>> \o [k \in 1..n |-> Tag(m, k)] \o <<Zero>>)
        \o FlattenSeq([k \in 1..n |-> Padded(ArgumentBytes(m, k, msg.arguments[k]))])

\* Whenever no message is in progress, the buffer holds the encodings of the
\* messages completed, one after the other and nothing else, up to Size().
WireFormat ==
    ~inProgress =>
        Bytes(bytes, 0, Size) =
            FlattenSeq([m \in DOMAIN finished |-> Encoded(finished[m], m)])
=============================================================================
