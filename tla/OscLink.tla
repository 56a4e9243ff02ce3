------------------------------- MODULE OscLink -------------------------------
(***************************************************************************)
(* One message from oscpack's OutboundPacketStream to its ReceivedMessage:  *)
(* the packet a sender has put together goes into the buffer of the receive *)
(* loop, is validated as a whole, and its arguments are walked through one  *)
(* by one, without checks: the walk trusts the validation. The address and  *)
(* the values have no meaning here, what counts is where things are.        *)
(***************************************************************************)
EXTENDS OscOutboundStream

CONSTANTS
    Kind,         \* the type tag of the arguments of each length: "i", "s" or "b"
    BufferSize    \* of the receive loop

\* An int32 has four bytes, a string its terminator, a blob the four of its size.
ASSUME KindAssumption ==
    /\ Kind \in [ArgumentLength -> {"i", "s", "b"}]
    /\ \A n \in ArgumentLength : /\ Kind[n] = "i" => n = 4
                                 /\ Kind[n] = "s" => n >= 1
                                 /\ Kind[n] = "b" => n >= 4
\* It is 4098, and so no multiple of four.
ASSUME BufferAssumption == BufferSize \in Nat /\ BufferSize % 4 # 0

VARIABLES
    packet,        \* what was received
    state,         \* what has become of it
    typeTagsEnd,   \* typeTagsEnd_, as an offset in the packet
    typeTagPtr,    \* the iterator: its offsets in the packet
    argumentPtr,
    read           \* the arguments read so far: tag and first byte

linkVars == <<packet, state, typeTagsEnd, typeTagPtr, argumentPtr, read>>

LinkInit ==
    /\ Init
    /\ packet = << >>
    /\ state = "sending"
    /\ typeTagsEnd = 0 /\ typeTagPtr = 0 /\ argumentPtr = 0
    /\ read = << >>

StreamStep ==
    /\ state = "sending"
    /\ Next
    /\ UNCHANGED linkVars

\* osmid sends one message in a packet. recvfrom cuts off what does not fit.
Send ==
    /\ state = "sending"
    /\ ~inProgress
    /\ Len(finished) = 1
    /\ packet' = Bytes(bytes, 0, IF Size < BufferSize THEN Size ELSE BufferSize)
    /\ state' = "received"
    /\ UNCHANGED <<vars, typeTagsEnd, typeTagPtr, argumentPtr, read>>

----------------------------------------------------------------------------
(* The bytes of a packet. *)

Byte(p) == IF p < Len(packet) THEN packet[p + 1] ELSE Garbage

\* The argument a byte is part of, by its length: of a string the last byte is the
\* terminator, of a blob the first four are its size.
LengthOf(b) == finished[b[2]].arguments[b[3]]

Char(b) ==
    CASE b = Zero  -> "0"
      [] b = Comma -> ","
      [] b[1] = "tag" -> Kind[LengthOf(b)]
      [] b[1] = "argument" /\ Kind[LengthOf(b)] = "s" /\ b[4] = LengthOf(b) -> "0"
      [] OTHER -> "x"

\* ToUInt32, of the size of a blob.
BlobSize(p) ==
    LET b == Byte(p) IN
    IF b[1] = "argument" /\ b[4] = 1 /\ Kind[LengthOf(b)] = "b" THEN LengthOf(b) - 4 ELSE 0

\* Both versions of FindStr4End: the places behind a word of four bytes from p on
\* that ends in a zero. The first is the end of the string; with none it is unterminated.
StringEnds(p) ==
    IF Char(Byte(p)) = "0" THEN {p + 4}
    ELSE {q + 1 : q \in {r \in p + 3 .. Len(packet) - 1 :
                            (r - p) % 4 = 3 /\ Char(Byte(r)) = "0"}}

First(ends) == CHOOSE q \in ends : \A r \in ends : q <= r

----------------------------------------------------------------------------
(* ReceivedPacket and ReceivedMessage::Init. *)

\* Mutant: any size but zero.
AnySize(n) == n # 0

ValidSize(n) == n # 0 /\ n % 4 = 0

TagsBegin == First(StringEnds(0)) + 1

\* The first zero behind the tags.
TagsEnd == First({p \in TagsBegin .. Len(packet) - 1 : Char(Byte(p)) = "0"})

ArgumentsBegin == First(StringEnds(TagsBegin - 1))

Malformed == -1

\* Where the argument behind one of type t at p begins. The check of a blob creates
\* its exception but does not throw it.
Behind(t, p) ==
    CASE p = Malformed -> Malformed
      [] t = "i" /\ p + 4 <= Len(packet) -> p + 4
      [] t = "s" /\ p < Len(packet) /\ StringEnds(p) # {} -> First(StringEnds(p))
      [] t = "b" -> p + 4 + RoundUp4(BlobSize(p))
      [] OTHER -> Malformed

\* Where the k-th argument begins; the last place is where the last one ends.
Places ==
    LET place[k \in 1 .. TagsEnd - TagsBegin + 1] ==
            IF k = 1 THEN ArgumentsBegin
            ELSE Behind(Char(Byte(TagsBegin + k - 2)), place[k - 1])
    IN  place

ArgumentsAreThere == \A k \in DOMAIN Places : Places[k] # Malformed

\* A message may end behind its address, or have no tags behind the comma.
NoArguments ==
    \/ TagsBegin > Len(packet)
    \/ Char(Byte(TagsBegin - 1)) = "," /\ Char(Byte(TagsBegin)) = "0"

WithArguments ==
    /\ Char(Byte(TagsBegin - 1)) = ","
    /\ StringEnds(TagsBegin - 1) # {}
    /\ ArgumentsAreThere

WellFormed ==
    /\ ValidSize(Len(packet))
    /\ StringEnds(0) # {}
    /\ NoArguments \/ WithArguments

\* The iterators ArgumentsBegin() and ArgumentsEnd() are null if there are none.
Receive ==
    /\ state = "received"
    /\ IF ~WellFormed
       THEN state' = "malformed" /\ UNCHANGED <<typeTagsEnd, typeTagPtr, argumentPtr>>
       ELSE /\ state' = "reading"
            /\ IF NoArguments
               THEN UNCHANGED <<typeTagsEnd, typeTagPtr, argumentPtr>>
               ELSE /\ typeTagPtr' = TagsBegin
                    /\ typeTagsEnd' = TagsEnd
                    /\ argumentPtr' = ArgumentsBegin
    /\ UNCHANGED <<vars, packet, read>>

----------------------------------------------------------------------------
(* ReceivedMessageArgumentIterator. *)

\* Mutant: the padding of a blob stays.
PassedUnpadded ==
    CASE Char(Byte(typeTagPtr)) = "i" -> argumentPtr + 4
      [] Char(Byte(typeTagPtr)) = "s" -> First(StringEnds(argumentPtr))
      [] Char(Byte(typeTagPtr)) = "b" -> argumentPtr + 4 + BlobSize(argumentPtr)

\* Advance(): the argument pointer behind the argument, unchecked.
Passed ==
    CASE Char(Byte(typeTagPtr)) = "i" -> argumentPtr + 4
      [] Char(Byte(typeTagPtr)) = "s" -> First(StringEnds(argumentPtr))
      [] Char(Byte(typeTagPtr)) = "b" -> argumentPtr + 4 + RoundUp4(BlobSize(argumentPtr))

AllRead == state = "reading" /\ typeTagPtr = typeTagsEnd

\* (*arg++).AsInt32() and the like.
ReadArgument ==
    /\ state = "reading"
    /\ ~AllRead
    /\ read' = Append(read, <<Char(Byte(typeTagPtr)), Byte(argumentPtr)>>)
    /\ argumentPtr' = Passed
    /\ typeTagPtr' = typeTagPtr + 1
    /\ UNCHANGED <<vars, packet, state, typeTagsEnd>>

LinkNext == StreamStep \/ Send \/ Receive \/ ReadArgument

LinkSpec == LinkInit /\ [][LinkNext]_<<vars, linkVars>>

----------------------------------------------------------------------------
(* Properties. *)

\* What fits the receive buffer arrives: validation accepts it, and the unchecked
\* walk finds every argument under its tag, in order, where the sender has put it.
ReadBack ==
    Size <= BufferSize =>
        /\ state # "malformed"
        /\ AllRead =>
             /\ read = [k \in DOMAIN finished[1].arguments |->
                    <<Kind[finished[1].arguments[k]], ArgumentBytes(1, k, 1)[1]>>]
             /\ read # << >> => argumentPtr = Len(packet)

\* A packet that recvfrom has cut is never taken for a message: what is left of it
\* is the whole buffer, whose size is no multiple of four.
TruncatedIsRejected == state = "reading" => Size <= BufferSize
=============================================================================
