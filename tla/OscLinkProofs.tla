---------------------------- MODULE OscLinkProofs ----------------------------
(***************************************************************************)
(* For every sender, message and size of the receive buffer: what fits the  *)
(* buffer is accepted and read back argument by argument as it was put      *)
(* together, and what does not fit is refused.                              *)
(***************************************************************************)
EXTENDS OscLink, OscOutboundStreamProofs

\* What was received is the packet, or as much of it as the buffer holds; the sender
\* is done with it.
PacketInv ==
    /\ IInv
    /\ state # "sending" =>
          Len(packet) = (IF Size < BufferSize THEN Size ELSE BufferSize)
    /\ state = "reading" => ValidSize(Len(packet))

\* Size() is a number of bytes.
LEMMA SizeIsNatural == IInv => Size \in Nat
<1> SUFFICES ASSUME IInv PROVE Size \in Nat
  OBVIOUS
<1>1. argumentCurrent \in Nat /\ tagCount + 2 \in Nat
  BY CapacityAssumption DEF IInv, TypeOK
<1>2. RoundUp4(tagCount + 2) \in Nat
  BY <1>1, RoundUp4Facts
<1>3. QED
  BY <1>1, <1>2 DEF Size

\* Every step keeps the length of the packet in hand.
LEMMA PacketInvStep ==
    ASSUME PacketInv, [LinkNext]_<<vars, linkVars>>
    PROVE  PacketInv'
<1>1. CASE StreamStep
  <2>1. state = "sending" /\ state' = state /\ [Next]_vars
    BY <1>1 DEF StreamStep, linkVars
  <2>2. QED
    BY <2>1, NextIInv DEF PacketInv
<1>2. CASE ~StreamStep
  <2>1. UNCHANGED vars
    BY <1>2 DEF LinkNext, Send, Receive, ReadArgument
  <2>2. IInv' /\ Size' = Size
    <3>1. IInv'
      BY <2>1, NextIInv DEF PacketInv
    <3>2. Size' = Size
      BY <2>1 DEF vars, cursors, Size
    <3>3. QED
      BY <3>1, <3>2
  <2>3. CASE Send
    <3> DEFINE n == IF Size < BufferSize THEN Size ELSE BufferSize
    <3>2. n \in Nat
      BY SizeIsNatural, BufferAssumption DEF PacketInv
    <3>3. packet' = Bytes(bytes, 0, n) /\ state' = "received"
      BY <2>3 DEF Send
    <3>4. packet' = [i \in 1 .. n |-> bytes[0 + i - 1]]
      BY <3>2, <3>3 DEF Bytes
    <3>5. Len(packet') = n
      BY <3>2, <3>4
    <3>6. QED
      BY <2>2, <3>3, <3>5 DEF PacketInv
  <2>4. CASE Receive
    <3>1. state = "received" /\ packet' = packet
      BY <2>4 DEF Receive
    <3>2. state' = "reading" => ValidSize(Len(packet))
      BY <2>4 DEF Receive, WellFormed
    <3>3. QED
      BY <2>2, <3>1, <3>2 DEF PacketInv, ValidSize
  <2>5. CASE ReadArgument \/ UNCHANGED linkVars
    <3>1. state' = state /\ packet' = packet
      BY <2>5 DEF ReadArgument, linkVars
    <3>2. QED
      BY <2>2, <3>1 DEF PacketInv, ValidSize
  <2>6. QED
    BY <1>2, <2>3, <2>4, <2>5 DEF LinkNext
<1>3. QED
  BY <1>1, <1>2

\* UdpSocket.cpp:443 makes the receive buffer 4098 bytes long and ValidateSize refuses
\* a size that is no multiple of four: whatever recvfrom has cut is refused.
THEOREM TruncatedIsAlwaysRejected == LinkSpec => []TruncatedIsRejected
<1>1. LinkInit => PacketInv
  BY InitIInv DEF LinkInit, PacketInv
<1>2. PacketInv => TruncatedIsRejected
  <2> SUFFICES ASSUME PacketInv, state = "reading" PROVE Size <= BufferSize
    BY DEF TruncatedIsRejected
  <2>1. Size \in Nat /\ BufferSize \in Nat /\ BufferSize % 4 # 0
    BY SizeIsNatural, BufferAssumption DEF PacketInv
  <2>2. Len(packet) % 4 = 0
    BY DEF PacketInv, ValidSize
  <2>3. Len(packet) # BufferSize
    BY <2>1, <2>2
  <2>4. QED
    BY <2>1, <2>3 DEF PacketInv
<1>3. QED
  BY <1>1, <1>2, PacketInvStep, PTL DEF LinkSpec

\* The checks of the stream (OscOutboundPacketStream.cpp:245-264) leave room to end the
\* message, in the specification of sender and receiver together too.
THEOREM RoomInOscLink == LinkSpec => []RoomToEnd
<1>1. LinkInit => PacketInv
  BY InitIInv DEF LinkInit, PacketInv
<1>2. PacketInv => RoomToEnd
  BY DEF PacketInv, IInv
<1>3. QED
  BY <1>1, <1>2, PacketInvStep, PTL DEF LinkSpec

\* The buffer of the stream holds the wire format for as long as sender and receiver
\* run, and so up to when Send cuts the packet from it.
LEMMA WireInvStep ==
    ASSUME PacketInv, WireInv, [LinkNext]_<<vars, linkVars>>
    PROVE  WireInv'
<1>1. [Next]_vars
  BY DEF LinkNext, StreamStep, Send, Receive, ReadArgument
<1>2. QED
  BY <1>1, NextWire DEF PacketInv

\* Between two messages the buffer holds the encodings of those completed
\* (OscOutboundPacketStream.cpp:352-400), in the specification of both sides too.
THEOREM WireFormatInOscLink == LinkSpec => []WireFormat
<1>1. LinkInit => PacketInv /\ WireInv
  BY InitIInv, InitWire DEF LinkInit, PacketInv
<1>2. PacketInv /\ WireInv /\ [LinkNext]_<<vars, linkVars>> => (PacketInv /\ WireInv)'
  BY PacketInvStep, WireInvStep
<1>3. PacketInv /\ WireInv => WireFormat
  BY WireInvSuffices DEF PacketInv
<1>4. QED
  BY <1>1, <1>2, <1>3, PTL DEF LinkSpec
----------------------------------------------------------------------------
(* Where the arguments of a message are. *)

\* The first k of them, and their bytes.
FirstOnes(lengths, k) == [i \in 1..k |-> lengths[i]]
FirstBytes(lengths, k) == FlattenSeq(Arguments(1, FirstOnes(lengths, k)))

\* They are lengths and bytes themselves,
LEMMA FirstOnesFacts ==
    ASSUME NEW lengths \in Seq(ArgumentLength), NEW k \in 0..Len(lengths)
    PROVE  /\ FirstOnes(lengths, k) \in Seq(ArgumentLength)
           /\ Len(FirstOnes(lengths, k)) = k
           /\ FirstBytes(lengths, k) \in Seq(Symbol)
           /\ Len(FirstBytes(lengths, k)) \in Nat
<1>1. k \in Nat /\ \A i \in 1..k : i \in 1..Len(lengths)
  OBVIOUS
<1>2. FirstOnes(lengths, k) \in [1..k -> ArgumentLength]
  BY <1>1 DEF FirstOnes
<1>3. FirstOnes(lengths, k) \in Seq(ArgumentLength) /\ Len(FirstOnes(lengths, k)) = k
  BY <1>1, <1>2, SeqAsFunction
<1>4. FirstBytes(lengths, k) \in Seq(Symbol)
  <2>1. Arguments(1, FirstOnes(lengths, k)) \in Seq(Seq(Symbol))
    BY <1>3, ArgumentsType
  <2>2. QED
    BY <2>1, FlattenSeqType DEF FirstBytes
<1>5. QED
  BY <1>3, <1>4, LenProperties

\* none for none
LEMMA FirstBytesEmpty ==
    ASSUME NEW lengths \in Seq(ArgumentLength)
    PROVE  FirstBytes(lengths, 0) = << >>
<1>1. Arguments(1, FirstOnes(lengths, 0)) \in Seq(Seq(Symbol))
      /\ Len(Arguments(1, FirstOnes(lengths, 0))) = 0
  <2>1. 0 \in 0..Len(lengths)
    OBVIOUS
  <2>2. FirstOnes(lengths, 0) \in Seq(ArgumentLength) /\ Len(FirstOnes(lengths, 0)) = 0
    BY <2>1, FirstOnesFacts
  <2>3. QED
    BY <2>2, ArgumentsType
<1> DEFINE a == Arguments(1, FirstOnes(lengths, 0))
<1> HIDE DEF a
<1>2. a = << >>
  BY <1>1 DEF a
<1>3. QED
  BY <1>2, FlattenSeqEmpty DEF FirstBytes, a

\* and all of them for all.
LEMMA FirstBytesAll ==
    ASSUME NEW lengths \in Seq(ArgumentLength)
    PROVE  FirstBytes(lengths, Len(lengths)) = FlattenSeq(Arguments(1, lengths))
<1>1. FirstOnes(lengths, Len(lengths)) = lengths
  BY DEF FirstOnes
<1>2. QED
  BY <1>1 DEF FirstBytes

\* One argument more.
LEMMA FirstBytesStep ==
    ASSUME NEW lengths \in Seq(ArgumentLength), NEW k \in Nat, NEW j \in Nat, j = k + 1,
           j <= Len(lengths)
    PROVE  /\ FirstBytes(lengths, j) =
                  FirstBytes(lengths, k) \o Padded(ArgumentBytes(1, j, lengths[j]))
           /\ Len(FirstBytes(lengths, j)) =
                  Len(FirstBytes(lengths, k)) + RoundUp4(lengths[j])
           /\ lengths[j] \in Nat
<1> DEFINE f == FirstOnes(lengths, k)
           n == lengths[j]
           p == Padded(ArgumentBytes(1, j, n))
<1>1. /\ k \in 0..Len(lengths) /\ j \in 0..Len(lengths) /\ j \in 1..Len(lengths)
      /\ n \in ArgumentLength /\ n \in Nat
  <2>1. k \in 0..Len(lengths) /\ j \in 0..Len(lengths) /\ j \in 1..Len(lengths)
    OBVIOUS
  <2>2. n \in ArgumentLength
    BY <2>1
  <2>3. n \in Nat
    BY <2>2, LengthAssumption
  <2>4. QED
    BY <2>1, <2>2, <2>3
<1>2. f \in Seq(ArgumentLength) /\ Len(f) = k
  BY <1>1, FirstOnesFacts
<1>3. FirstOnes(lengths, j) \in Seq(ArgumentLength) /\ Len(FirstOnes(lengths, j)) = j
  BY <1>1, FirstOnesFacts
<1>4. FirstOnes(lengths, j) = Append(f, n)
  <2> DEFINE g == FirstOnes(lengths, j)
             h == Append(f, n)
  <2>1. \A i \in 1..j : g[i] = lengths[i]
    BY DEF FirstOnes
  <2>2. \A i \in 1..k : f[i] = lengths[i]
    BY DEF FirstOnes
  <2> HIDE DEF f, n, g
  <2>3. /\ h \in Seq(ArgumentLength) /\ Len(h) = j /\ h[j] = n
        /\ \A i \in 1..k : h[i] = f[i]
    BY <1>1, <1>2
  <2> HIDE DEF h
  <2>4. ASSUME NEW i \in 1..Len(g) PROVE g[i] = h[i]
    <3>1. i \in 1..j /\ (i = j \/ i \in 1..k)
      BY <1>3 DEF g
    <3>2. QED
      BY <2>1, <2>2, <2>3, <3>1 DEF n
  <2>5. g = h
    BY <1>3, <2>3, <2>4, SeqEqual DEF g
  <2>6. QED
    BY <2>5 DEF g, h
<1> HIDE DEF f, n
<1>5. Arguments(1, Append(f, n)) = Append(Arguments(1, f), p)
  <2>1. Arguments(1, Append(f, n)) =
            Append(Arguments(1, f), Padded(ArgumentBytes(1, Len(f) + 1, n)))
    BY <1>1, <1>2, ArgumentsAppend
  <2>2. QED
    BY <1>2, <2>1
<1>6. p \in Seq(Symbol) /\ Len(p) = RoundUp4(n)
  BY <1>1, ArgumentBytesType
<1> HIDE DEF p
<1>7. Arguments(1, f) \in Seq(Seq(Symbol))
  BY <1>2, ArgumentsType
<1>8. FlattenSeq(Append(Arguments(1, f), p)) = FlattenSeq(Arguments(1, f)) \o p
  BY <1>6, <1>7, FlattenSeqAppend
<1>9. FirstBytes(lengths, j) = FirstBytes(lengths, k) \o p
  BY <1>4, <1>5, <1>8 DEF FirstBytes, f
<1>10. FirstBytes(lengths, k) \in Seq(Symbol)
  BY <1>1, FirstOnesFacts
<1>11. Len(FirstBytes(lengths, j)) = Len(FirstBytes(lengths, k)) + RoundUp4(n)
  BY <1>6, <1>9, <1>10, ConcatType
<1>12. QED
  BY <1>1, <1>9, <1>11 DEF p, n

\* Rounding up fills words,
LEMMA RoundUp4IsAligned ==
    ASSUME NEW x \in Nat
    PROVE  RoundUp4(x) % 4 = 0
  BY DEF RoundUp4

\* What a concatenation has where.
LEMMA ConcatAt ==
    ASSUME NEW S, NEW s \in Seq(S), NEW t \in Seq(S)
    PROVE  /\ \A i \in 1..Len(s) : (s \o t)[i] = s[i]
           /\ \A i \in 1..Len(t) : (s \o t)[Len(s) + i] = t[i]
<1> DEFINE c == s \o t
<1>1. \A i \in 1..Len(s) + Len(t) : c[i] = IF i <= Len(s) THEN s[i] ELSE t[i - Len(s)]
  BY ConcatProperties
<1> HIDE DEF c
<1>2. Len(s) \in Nat /\ Len(t) \in Nat
  OBVIOUS
<1>3. ASSUME NEW i \in 1..Len(s) PROVE c[i] = s[i]
  <2>1. i \in 1..(Len(s) + Len(t)) /\ i <= Len(s)
    BY <1>2
  <2>2. QED
    BY <1>1, <2>1
<1>4. ASSUME NEW i \in 1..Len(t) PROVE c[Len(s) + i] = t[i]
  <2>1. Len(s) + i \in 1..(Len(s) + Len(t)) /\ ~(Len(s) + i <= Len(s)) /\ (Len(s) + i) - Len(s) = i
    BY <1>2
  <2>2. QED
    BY <1>1, <2>1
<1>5. QED
  BY <1>3, <1>4 DEF c

\* The bytes of the first arguments fill whole words,
LEMMA FirstBytesAligned ==
    ASSUME NEW lengths \in Seq(ArgumentLength), NEW k \in 0..Len(lengths)
    PROVE  Len(FirstBytes(lengths, k)) % 4 = 0
<1> DEFINE T == {j \in Nat : j <= Len(lengths) => Len(FirstBytes(lengths, j)) % 4 = 0}
<1>1. 0 \in T
  <2>1. Len(<< >>) % 4 = 0
    OBVIOUS
  <2>2. Len(FirstBytes(lengths, 0)) % 4 = 0
    BY <2>1, FirstBytesEmpty
  <2>3. QED
    BY <2>2
<1>2. ASSUME NEW n \in Nat, n \in T PROVE n + 1 \in T
  <2> DEFINE j == n + 1
  <2> SUFFICES ASSUME j <= Len(lengths) PROVE Len(FirstBytes(lengths, j)) % 4 = 0
    OBVIOUS
  <2>1. j \in Nat /\ j = n + 1 /\ n <= Len(lengths) /\ n \in 0..Len(lengths)
    OBVIOUS
  <2> HIDE DEF j
  <2>2. /\ Len(FirstBytes(lengths, j)) = Len(FirstBytes(lengths, n)) + RoundUp4(lengths[j])
        /\ lengths[j] \in Nat
    BY <2>1, FirstBytesStep
  <2>3. Len(FirstBytes(lengths, n)) % 4 = 0 /\ Len(FirstBytes(lengths, n)) \in Nat
    BY <1>2, <2>1, FirstOnesFacts
  <2>4. RoundUp4(lengths[j]) % 4 = 0 /\ RoundUp4(lengths[j]) \in Nat
    BY <2>2, RoundUp4IsAligned, RoundUp4Facts
  <2>5. QED
    BY <2>2, <2>3, <2>4
<1> HIDE DEF T
<1>3. Nat \subseteq T
  BY <1>1, <1>2, Induction
<1>4. k \in T /\ k <= Len(lengths)
  BY <1>3
<1>5. QED
  BY <1>4 DEF T

\* and are a prefix of those of all.
LEMMA FirstBytesArePrefix ==
    ASSUME NEW lengths \in Seq(ArgumentLength), NEW k \in 0..Len(lengths), NEW m \in k..Len(lengths)
    PROVE  /\ Len(FirstBytes(lengths, k)) <= Len(FirstBytes(lengths, m))
           /\ \A i \in 1..Len(FirstBytes(lengths, k)) :
                  FirstBytes(lengths, m)[i] = FirstBytes(lengths, k)[i]
<1> DEFINE f == FirstBytes(lengths, k)
           Longer(j) == /\ Len(f) <= Len(FirstBytes(lengths, j))
                        /\ \A i \in 1..Len(f) : FirstBytes(lengths, j)[i] = f[i]
           T == {j \in Nat : k <= j /\ j <= Len(lengths) => Longer(j)}
<1>1. f \in Seq(Symbol) /\ Len(f) \in Nat /\ k \in Nat
  BY FirstOnesFacts
<1>2. Longer(k)
  BY <1>1
<1> HIDE DEF f
<1>3. 0 \in T
  <2> SUFFICES ASSUME k <= 0 PROVE Longer(0)
    OBVIOUS
  <2>1. k = 0
    BY <1>1
  <2>2. QED
    BY <1>2, <2>1
<1>4. ASSUME NEW n \in Nat, n \in T PROVE n + 1 \in T
  <2> DEFINE j == n + 1
             a == FirstBytes(lengths, n)
             p == Padded(ArgumentBytes(1, j, lengths[j]))
             b == FirstBytes(lengths, j)
  <2> SUFFICES ASSUME k <= j, j <= Len(lengths) PROVE Longer(j)
    OBVIOUS
  <2>1. j \in Nat /\ j = n + 1 /\ n <= Len(lengths) /\ n \in 0..Len(lengths)
    OBVIOUS
  <2>2. CASE k = j
    BY <1>2, <2>2
  <2>3. CASE k # j
    <3>1. k <= n
      BY <1>1, <2>1, <2>3
    <3>2. Len(f) <= Len(a) /\ \A i \in 1..Len(f) : a[i] = f[i]
      BY <1>4, <2>1, <3>1
    <3> HIDE DEF j
    <3>3. b = a \o p /\ lengths[j] \in Nat
      BY <2>1, FirstBytesStep
    <3>4. a \in Seq(Symbol) /\ p \in Seq(Symbol)
      BY <2>1, <3>3, FirstOnesFacts, ArgumentBytesType
    <3> HIDE DEF a, p, b
    <3>5. Len(b) = Len(a) + Len(p) /\ Len(a) \in Nat /\ Len(p) \in Nat
      BY <3>3, <3>4, ConcatType
    <3>6. \A i \in 1..Len(a) : b[i] = a[i]
      BY <3>3, <3>4, ConcatAt
    <3>7. Len(f) <= Len(b) /\ \A i \in 1..Len(f) : b[i] = f[i]
      BY <1>1, <3>2, <3>5, <3>6
    <3>8. QED
      BY <3>7 DEF b
  <2>4. QED
    BY <2>2, <2>3
<1> HIDE DEF T
<1>5. Nat \subseteq T
  BY <1>3, <1>4, Induction
<1>6. m \in T /\ k <= m /\ m <= Len(lengths)
  BY <1>1, <1>5
<1>7. QED
  BY <1>6 DEF T, f

\* Byte i of the k-th argument, or of its padding.
LEMMA ArgumentAt ==
    ASSUME NEW lengths \in Seq(ArgumentLength), NEW k \in 1..Len(lengths),
           NEW i \in 1..RoundUp4(lengths[k])
    PROVE  /\ Len(FirstBytes(lengths, k - 1)) + i
                  \in 1..Len(FlattenSeq(Arguments(1, lengths)))
           /\ FlattenSeq(Arguments(1, lengths))[Len(FirstBytes(lengths, k - 1)) + i] =
                  IF i <= lengths[k] THEN <<"argument", 1, k, i>> ELSE Zero
<1> DEFINE N == Len(lengths)
           n == lengths[k]
           h == k - 1
           b == ArgumentBytes(1, k, n)
           p == Padded(b)
           before == FirstBytes(lengths, h)
           upTo == FirstBytes(lengths, k)
           g == FirstBytes(lengths, N)
<1>1. h \in Nat /\ k \in Nat /\ k = h + 1 /\ k <= N /\ h \in 0..N /\ k \in 0..N /\ N \in k..N
  OBVIOUS
<1> HIDE DEF h
<1>2. upTo = before \o p /\ Len(upTo) = Len(before) + RoundUp4(n) /\ n \in Nat
  BY <1>1, FirstBytesStep
<1>3. before \in Seq(Symbol) /\ upTo \in Seq(Symbol)
  BY <1>1, FirstOnesFacts
<1> HIDE DEF n
<1>4. /\ b \in Seq(Symbol) /\ Len(b) = n
      /\ p \in Seq(Symbol) /\ Len(p) = RoundUp4(n) /\ RoundUp4(n) \in Nat
  <2>1. 1 \in Nat
    OBVIOUS
  <2>2. b \in Seq(Symbol) /\ Len(b) = n /\ p \in Seq(Symbol) /\ Len(p) = RoundUp4(n)
    BY <1>1, <1>2, <2>1, ArgumentBytesType
  <2>3. RoundUp4(n) \in Nat
    BY <1>2, RoundUp4Facts
  <2>4. QED
    BY <2>2, <2>3
<1>5. /\ Len(upTo) <= Len(g)
      /\ \A j \in 1..Len(upTo) : g[j] = upTo[j]
  BY <1>1, FirstBytesArePrefix
<1>6. \A j \in 1..n : b[j] = <<"argument", 1, k, j>>
  BY DEF ArgumentBytes
<1> HIDE DEF b
<1>7. \A j \in 1..RoundUp4(n) : p[j] = IF j <= n THEN b[j] ELSE Zero
  BY <1>4, PaddedType, SymbolFacts
<1> HIDE DEF p, before, upTo, g
<1>8. Len(before) \in Nat /\ Len(upTo) \in Nat /\ Len(g) \in Nat
  <2>1. N \in 0..N
    BY <1>1
  <2>2. g \in Seq(Symbol)
    BY <2>1, FirstOnesFacts DEF g
  <2>3. QED
    BY <1>3, <2>2
<1>9. i \in 1..Len(p) /\ i \in Nat
  BY <1>4 DEF n
<1>10. upTo[Len(before) + i] = p[i]
  BY <1>2, <1>3, <1>4, <1>9, ConcatAt
<1>11. Len(before) + i \in 1..Len(upTo) /\ Len(before) + i \in 1..Len(g)
  BY <1>2, <1>4, <1>5, <1>8, <1>9
<1>12. g[Len(before) + i] = p[i]
  BY <1>5, <1>10, <1>11
<1>13. p[i] = IF i <= n THEN <<"argument", 1, k, i>> ELSE Zero
  <2>1. i \in 1..RoundUp4(n) /\ (i <= n => i \in 1..n)
    BY <1>2, <1>4, <1>9
  <2>2. p[i] = IF i <= n THEN b[i] ELSE Zero
    BY <1>7, <2>1
  <2>3. CASE i <= n
    BY <1>6, <2>1, <2>2, <2>3
  <2>4. CASE ~(i <= n)
    BY <2>2, <2>4
  <2>5. QED
    BY <2>3, <2>4
<1>14. g = FlattenSeq(Arguments(1, lengths))
  BY FirstBytesAll DEF g
<1>15. QED
  BY <1>11, <1>12, <1>13, <1>14 DEF before, n, h

----------------------------------------------------------------------------
(* What is where in a packet of one message. *)

\* The message received arrived whole.
Arrived(msg) == packet = Encoded(msg, 1)

AddressRoom(msg) == RoundUp4(msg.address + 1)
TagRoom(msg) == RoundUp4(Len(msg.arguments) + 2)
ArgumentRoom(msg) == Len(FlattenSeq(Arguments(1, msg.arguments)))

\* All parts of a message are whole words, with room for the terminators.
LEMMA RoomFacts ==
    ASSUME NEW msg \in Message
    PROVE  /\ msg.address \in Nat /\ msg.arguments \in Seq(ArgumentLength)
           /\ Len(msg.arguments) \in Nat
           /\ AddressRoom(msg) \in Nat /\ AddressRoom(msg) % 4 = 0
           /\ msg.address + 1 <= AddressRoom(msg) /\ AddressRoom(msg) <= msg.address + 4
           /\ TagRoom(msg) \in Nat /\ TagRoom(msg) % 4 = 0
           /\ Len(msg.arguments) + 2 <= TagRoom(msg) /\ TagRoom(msg) <= Len(msg.arguments) + 5
           /\ ArgumentRoom(msg) \in Nat /\ ArgumentRoom(msg) % 4 = 0
<1>1. msg.address \in Nat /\ msg.arguments \in Seq(ArgumentLength) /\ Len(msg.arguments) \in Nat
  <2>1. msg.address \in AddressLength /\ msg.arguments \in Seq(ArgumentLength)
    BY DEF Message
  <2>2. Len(msg.arguments) \in Nat
    BY <2>1, LenProperties
  <2>3. msg.address \in Nat
    BY <2>1, LengthAssumption, Zenon
  <2>4. QED
    BY <2>1, <2>2, <2>3
<1> DEFINE a == msg.address
           n == Len(msg.arguments)
<1>2. a \in Nat /\ n \in Nat /\ a + 1 \in Nat /\ n + 2 \in Nat
  BY <1>1
<1> HIDE DEF a, n
<1>3. /\ RoundUp4(a + 1) \in Nat /\ RoundUp4(a + 1) % 4 = 0
      /\ a + 1 <= RoundUp4(a + 1) /\ RoundUp4(a + 1) <= a + 4
  BY <1>2 DEF RoundUp4
<1>4. /\ RoundUp4(n + 2) \in Nat /\ RoundUp4(n + 2) % 4 = 0
      /\ n + 2 <= RoundUp4(n + 2) /\ RoundUp4(n + 2) <= n + 5
  BY <1>2 DEF RoundUp4
<1>5. ArgumentRoom(msg) \in Nat /\ ArgumentRoom(msg) % 4 = 0
  <2> DEFINE f == FirstBytes(msg.arguments, n)
  <2>1. n \in 0..Len(msg.arguments)
    BY <1>2 DEF n
  <2>2. Len(f) \in Nat /\ Len(f) % 4 = 0
    BY <1>1, <2>1, FirstOnesFacts, FirstBytesAligned
  <2>3. f = FlattenSeq(Arguments(1, msg.arguments))
    BY <1>1, FirstBytesAll DEF n
  <2>4. QED
    BY <2>2, <2>3 DEF ArgumentRoom
<1>6. QED
  BY <1>1, <1>3, <1>4, <1>5 DEF AddressRoom, TagRoom, a, n

\* The bytes of the address and of the type tags, with their padding.
LEMMA AddressAt ==
    ASSUME NEW n \in Nat, NEW i \in 1..RoundUp4(n + 1)
    PROVE  Padded(AddressBytes(1, n))[i] = IF i <= n THEN <<"address", 1, i>> ELSE Zero
<1> DEFINE a == [j \in 1..n |-> <<"address", 1, j>>]
           b == AddressBytes(1, n)
<1>1. a \in [1..n -> Symbol] /\ \A j \in 1..n : a[j] = <<"address", 1, j>>
  BY SymbolFacts
<1>2. b = a \o <<Zero>>
  BY DEF AddressBytes
<1> HIDE DEF a, b
<1>3. a \in Seq(Symbol) /\ Len(a) = n
  BY <1>1, SeqAsFunction
<1>4. <<Zero>> \in Seq(Symbol) /\ Len(<<Zero>>) = 1 /\ <<Zero>>[1] = Zero
  BY SymbolFacts
<1>5. /\ \A j \in 1..Len(a) : b[j] = a[j]
      /\ \A j \in 1..Len(<<Zero>>) : b[Len(a) + j] = <<Zero>>[j]
      /\ b \in Seq(Symbol) /\ Len(b) = Len(a) + Len(<<Zero>>)
  BY <1>2, <1>3, <1>4, ConcatAt, ConcatType
<1>6. Len(b) = n + 1 /\ b[n + 1] = Zero /\ \A j \in 1..n : b[j] = <<"address", 1, j>>
  <2>1. b[Len(a) + 1] = <<Zero>>[1]
    BY <1>4, <1>5
  <2>2. QED
    BY <1>1, <1>3, <1>4, <1>5, <2>1
<1>7. Padded(b)[i] = IF i <= Len(b) THEN b[i] ELSE Zero
  <2>1. i \in 1..RoundUp4(Len(b))
    BY <1>6
  <2>2. b \in Seq(Symbol) /\ Zero \in Symbol
    BY <1>5, SymbolFacts
  <2> HIDE DEF b
  <2>3. \A j \in 1..RoundUp4(Len(b)) : Padded(b)[j] = IF j <= Len(b) THEN b[j] ELSE Zero
    BY <2>2, PaddedType
  <2>4. QED
    BY <2>1, <2>3
<1>8. CASE i <= n
  BY <1>6, <1>7, <1>8 DEF b
<1>9. CASE ~(i <= n)
  <2>1. i = n + 1 \/ ~(i <= Len(b))
    BY <1>6, <1>9
  <2>2. QED
    BY <1>6, <1>7, <1>9, <2>1 DEF b
<1>10. QED
  BY <1>8, <1>9

\* The comma, the tags, the terminator.
LEMMA TypeTagAt ==
    ASSUME NEW n \in Nat, NEW i \in 1..RoundUp4(n + 2)
    PROVE  Padded(TypeTags(1, n))[i] =
               IF i = 1 THEN Comma ELSE IF i <= n + 1 THEN Tag(1, i - 1) ELSE Zero
<1> DEFINE t == [k \in 1..n |-> Tag(1, k)]
           c == <<Comma>> \o t
           b == TypeTags(1, n)
<1>1. t \in [1..n -> Symbol] /\ \A j \in 1..n : t[j] = Tag(1, j)
  BY SymbolFacts
<1> HIDE DEF t
<1>2. b = c \o <<Zero>>
  BY DEF TypeTags, t
<1>3. t \in Seq(Symbol) /\ Len(t) = n
  BY <1>1, SeqAsFunction
<1>4. /\ <<Zero>> \in Seq(Symbol) /\ Len(<<Zero>>) = 1 /\ <<Zero>>[1] = Zero
      /\ <<Comma>> \in Seq(Symbol) /\ Len(<<Comma>>) = 1 /\ <<Comma>>[1] = Comma
  BY SymbolFacts
<1>5. /\ \A j \in 1..Len(<<Comma>>) : c[j] = <<Comma>>[j]
      /\ \A j \in 1..Len(t) : c[Len(<<Comma>>) + j] = t[j]
      /\ c \in Seq(Symbol) /\ Len(c) = Len(<<Comma>>) + Len(t)
  BY <1>3, <1>4, ConcatAt, ConcatType
<1> HIDE DEF c, b
<1>6. Len(c) = n + 1 /\ c[1] = Comma /\ \A j \in 2..(n + 1) : c[j] = Tag(1, j - 1)
  <2>1. c[1] = Comma
    BY <1>4, <1>5
  <2>2. ASSUME NEW j \in 2..(n + 1) PROVE c[j] = Tag(1, j - 1)
    <3>1. j - 1 \in 1..n /\ 1 + (j - 1) = j
      OBVIOUS
    <3>2. c[Len(<<Comma>>) + (j - 1)] = t[j - 1]
      BY <1>3, <1>5, <3>1
    <3>3. QED
      BY <1>1, <1>4, <3>1, <3>2
  <2>3. QED
    BY <1>3, <1>4, <1>5, <2>1, <2>2
<1>7. /\ \A j \in 1..Len(c) : b[j] = c[j]
      /\ \A j \in 1..Len(<<Zero>>) : b[Len(c) + j] = <<Zero>>[j]
      /\ b \in Seq(Symbol) /\ Len(b) = Len(c) + Len(<<Zero>>)
  BY <1>2, <1>4, <1>5, ConcatAt, ConcatType
<1>8. /\ Len(b) = n + 2 /\ b[1] = Comma /\ b[n + 2] = Zero
      /\ \A j \in 2..(n + 1) : b[j] = Tag(1, j - 1)
  <2>1. b[Len(c) + 1] = <<Zero>>[1]
    BY <1>4, <1>7
  <2>2. b[1] = c[1]
    BY <1>6, <1>7
  <2>3. \A j \in 2..(n + 1) : b[j] = c[j]
    BY <1>6, <1>7
  <2>4. Len(b) = n + 2 /\ Len(c) + 1 = n + 2
    BY <1>4, <1>6, <1>7
  <2>5. QED
    BY <1>4, <1>6, <2>1, <2>2, <2>3, <2>4
<1>9. Padded(b)[i] = IF i <= Len(b) THEN b[i] ELSE Zero
  <2>1. i \in 1..RoundUp4(Len(b))
    BY <1>8
  <2>2. b \in Seq(Symbol) /\ Zero \in Symbol
    BY <1>7, SymbolFacts
  <2> HIDE DEF b
  <2>3. \A j \in 1..RoundUp4(Len(b)) : Padded(b)[j] = IF j <= Len(b) THEN b[j] ELSE Zero
    BY <2>2, PaddedType
  <2>4. QED
    BY <2>1, <2>3
<1>10. CASE i = 1
  BY <1>8, <1>9, <1>10 DEF b
<1>11. CASE i # 1 /\ i <= n + 1
  <2>1. i \in 2..(n + 1) /\ i <= Len(b)
    BY <1>8, <1>11
  <2>2. QED
    BY <1>8, <1>9, <1>11, <2>1 DEF b
<1>12. CASE i # 1 /\ ~(i <= n + 1)
  <2>1. i = n + 2 \/ ~(i <= Len(b))
    BY <1>8, <1>12
  <2>2. QED
    BY <1>8, <1>9, <1>12, <2>1 DEF b
<1>13. QED
  BY <1>10, <1>11, <1>12

\* So the packet is known byte by byte.
LEMMA PacketBytes ==
    ASSUME NEW msg \in Message, Arrived(msg)
    PROVE  /\ Len(packet) = AddressRoom(msg) + TagRoom(msg) + ArgumentRoom(msg)
           /\ \A p \in 0..(AddressRoom(msg) - 1) :
                  Byte(p) = IF p < msg.address THEN <<"address", 1, p + 1>> ELSE Zero
           /\ Byte(AddressRoom(msg)) = Comma
           /\ \A k \in 1..Len(msg.arguments) : Byte(AddressRoom(msg) + k) = Tag(1, k)
           /\ \A k \in (Len(msg.arguments) + 1)..(TagRoom(msg) - 1) :
                  Byte(AddressRoom(msg) + k) = Zero
           /\ \A i \in 1..ArgumentRoom(msg) :
                  Byte(AddressRoom(msg) + TagRoom(msg) + i - 1) =
                      FlattenSeq(Arguments(1, msg.arguments))[i]
<1> DEFINE n == Len(msg.arguments)
           a == Padded(AddressBytes(1, msg.address))
           t == Padded(TypeTags(1, n))
           g == FlattenSeq(Arguments(1, msg.arguments))
           c == a \o t
           A == AddressRoom(msg)
           T == TagRoom(msg)
           G == ArgumentRoom(msg)
<1>1. /\ msg.address \in Nat /\ n \in Nat /\ msg.arguments \in Seq(ArgumentLength)
      /\ A \in Nat /\ msg.address + 1 <= A
      /\ T \in Nat /\ n + 2 <= T /\ G \in Nat
  BY RoomFacts
<1>2. a \in Seq(Symbol) /\ Len(a) = A
  BY <1>1, AddressBytesType DEF AddressRoom
<1>3. t \in Seq(Symbol) /\ Len(t) = T
  BY <1>1, TypeTagsType DEF TagRoom
<1>4. g \in Seq(Symbol) /\ Len(g) = G
  BY <1>1, ArgumentsType, FlattenSeqType DEF ArgumentRoom
<1>5. packet = c \o g
  BY EncodedIs DEF Arrived
<1>6. \A i \in 1..A : a[i] = IF i <= msg.address THEN <<"address", 1, i>> ELSE Zero
  BY <1>1, AddressAt DEF AddressRoom
<1>7. \A i \in 1..T :
          t[i] = IF i = 1 THEN Comma ELSE IF i <= n + 1 THEN Tag(1, i - 1) ELSE Zero
  BY <1>1, TypeTagAt DEF TagRoom
<1> HIDE DEF n, a, t, g, A, T, G
<1>8. /\ c \in Seq(Symbol) /\ Len(c) = A + T
      /\ \A i \in 1..A : c[i] = a[i]
      /\ \A i \in 1..T : c[A + i] = t[i]
  <2>1. a \in Seq(Symbol) /\ t \in Seq(Symbol)
    BY <1>2, <1>3
  <2>2. c \in Seq(Symbol) /\ Len(c) = Len(a) + Len(t)
    BY <2>1, ConcatType
  <2>3. /\ \A i \in 1..Len(a) : c[i] = a[i]
        /\ \A i \in 1..Len(t) : c[Len(a) + i] = t[i]
    BY <2>1, ConcatAt
  <2> HIDE DEF c
  <2>4. QED
    BY <1>2, <1>3, <2>2, <2>3
<1> HIDE DEF c
<1>9. /\ Len(packet) = (A + T) + G
      /\ \A i \in 1..(A + T) : packet[i] = c[i]
      /\ \A i \in 1..G : packet[(A + T) + i] = g[i]
  <2>1. c \in Seq(Symbol) /\ g \in Seq(Symbol)
    BY <1>4, <1>8
  <2>2. Len(c \o g) = Len(c) + Len(g)
    BY <2>1, ConcatType
  <2>3. /\ \A i \in 1..Len(c) : (c \o g)[i] = c[i]
        /\ \A i \in 1..Len(g) : (c \o g)[Len(c) + i] = g[i]
    BY <2>1, ConcatAt
  <2>4. QED
    BY <1>4, <1>5, <1>8, <2>2, <2>3
<1>10. ASSUME NEW p \in 0..(A - 1)
       PROVE  Byte(p) = IF p < msg.address THEN <<"address", 1, p + 1>> ELSE Zero
  <2>1. p + 1 \in 1..A /\ p + 1 \in 1..(A + T) /\ p < Len(packet)
        /\ (p < msg.address <=> p + 1 <= msg.address)
    BY <1>1, <1>9
  <2>2. Byte(p) = a[p + 1]
    BY <1>8, <1>9, <2>1 DEF Byte
  <2>3. a[p + 1] = IF p + 1 <= msg.address THEN <<"address", 1, p + 1>> ELSE Zero
    BY <1>6, <2>1
  <2>4. QED
    BY <2>1, <2>2, <2>3
<1>11. ASSUME NEW k \in 0..(T - 1)
       PROVE  Byte(A + k) = IF k = 0 THEN Comma ELSE IF k <= n THEN Tag(1, k) ELSE Zero
  <2>1. /\ k + 1 \in 1..T /\ A + (k + 1) \in 1..(A + T) /\ A + k < Len(packet)
        /\ (A + k) + 1 = A + (k + 1) /\ (k + 1) - 1 = k
        /\ (k = 0 <=> k + 1 = 1) /\ (k <= n <=> k + 1 <= n + 1)
    BY <1>1, <1>9
  <2>2. Byte(A + k) = c[A + (k + 1)]
    BY <1>9, <2>1 DEF Byte
  <2>3. c[A + (k + 1)] = t[k + 1]
    BY <1>8, <2>1
  <2>4. t[k + 1] = IF k + 1 = 1 THEN Comma
                   ELSE IF k + 1 <= n + 1 THEN Tag(1, (k + 1) - 1) ELSE Zero
    BY <1>7, <2>1
  <2>5. QED
    BY <2>1, <2>2, <2>3, <2>4
<1>12. ASSUME NEW i \in 1..G PROVE Byte(A + T + i - 1) = g[i]
  <2>1. A + T + i - 1 < Len(packet) /\ (A + T + i - 1) + 1 = (A + T) + i
    BY <1>1, <1>9
  <2>2. QED
    BY <1>9, <2>1 DEF Byte
<1>13. Byte(A) = Comma
  <2>1. 0 \in 0..(T - 1) /\ A + 0 = A
    BY <1>1
  <2>2. QED
    BY <1>11, <2>1
<1>14. ASSUME NEW k \in 1..n PROVE Byte(A + k) = Tag(1, k)
  <2>1. k \in 0..(T - 1) /\ k # 0 /\ k <= n
    BY <1>1
  <2>2. QED
    BY <1>11, <2>1
<1>15. ASSUME NEW k \in (n + 1)..(T - 1) PROVE Byte(A + k) = Zero
  <2>1. k \in 0..(T - 1) /\ k # 0 /\ ~(k <= n)
    BY <1>1
  <2>2. QED
    BY <1>11, <2>1
<1>16. QED
  BY <1>9, <1>10, <1>12, <1>13, <1>14, <1>15 DEF n, g, A, T, G

\* The meaning of the bytes.
LEMMA CharIs ==
    ASSUME NEW msg, finished[1] = msg
    PROVE  /\ Char(Zero) = "0" /\ Char(Comma) = ","
           /\ \A i : Char(<<"address", 1, i>>) = "x"
           /\ \A k : Char(Tag(1, k)) = Kind[msg.arguments[k]]
           /\ \A k, i : Char(<<"argument", 1, k, i>>) =
                            IF Kind[msg.arguments[k]] = "s" /\ i = msg.arguments[k]
                            THEN "0" ELSE "x"
<1>1. Char(Zero) = "0"
  BY DEF Char, Comma, Zero
<1>2. Char(Comma) = ","
  BY DEF Char, Comma, Zero
<1>3. ASSUME NEW i PROVE Char(<<"address", 1, i>>) = "x"
  BY DEF Char, Comma, Zero
<1>4. ASSUME NEW k PROVE Char(Tag(1, k)) = Kind[msg.arguments[k]]
  BY DEF Char, Comma, Zero, Tag, LengthOf
<1>5. ASSUME NEW k, NEW i
      PROVE  Char(<<"argument", 1, k, i>>) =
                 IF Kind[msg.arguments[k]] = "s" /\ i = msg.arguments[k] THEN "0" ELSE "x"
  BY DEF Char, Comma, Zero, LengthOf
<1>6. QED
  BY <1>1, <1>2, <1>3, <1>4, <1>5

\* The first of some places.
LEMMA FirstIs ==
    ASSUME NEW ends \in SUBSET Nat, NEW e \in ends, \A q \in ends : e <= q
    PROVE  First(ends) = e
<1>1. First(ends) \in ends /\ \A r \in ends : First(ends) <= r
  BY DEF First
<1>2. First(ends) \in Nat /\ e \in Nat /\ First(ends) <= e /\ e <= First(ends)
  BY <1>1
<1>3. QED
  BY <1>2

\* The ends of words behind m characters.
LEMMA WordEnds ==
    ASSUME NEW m \in Nat, NEW d \in Nat, d = RoundUp4(m + 1), NEW x \in Nat
    PROVE  /\ m + 1 <= d /\ d >= 4 /\ (d - 1) % 4 = 3
           /\ m <= x /\ x % 4 = 3 => d <= x + 1
<1> DEFINE w == (m + 4) \div 4
           v == x \div 4
<1>1. w \in Nat /\ d = 4 * w /\ 4 * w <= m + 4 /\ m + 1 <= 4 * w /\ w >= 1
  BY DEF RoundUp4
<1>2. v \in Nat /\ (x % 4 = 3 => x = 4 * v + 3)
  OBVIOUS
<1> HIDE DEF w, v
<1>3. d - 1 = 4 * (w - 1) + 3 /\ w - 1 \in Nat
  BY <1>1
<1>4. (d - 1) % 4 = 3
  BY <1>3
<1>5. m <= x /\ x % 4 = 3 => d <= x + 1
  BY <1>1, <1>2
<1>6. QED
  BY <1>1, <1>4, <1>5

\* A string of m characters that begins at p ends behind its padding.
LEMMA StringEndIs ==
    ASSUME NEW p \in Nat, NEW m \in Nat, NEW e \in Nat, e = p + RoundUp4(m + 1),
           Len(packet) \in Nat, e <= Len(packet),
           \A i \in p..(p + m - 1) : Char(Byte(i)) # "0",
           \A i \in (p + m)..(e - 1) : Char(Byte(i)) = "0"
    PROVE  StringEnds(p) # {} /\ First(StringEnds(p)) = e
<1> DEFINE d == RoundUp4(m + 1)
<1>1. /\ d \in Nat /\ e = p + d /\ m + 1 <= d /\ d >= 4
      /\ (d - 1) % 4 = 3
      /\ \A x \in Nat : m <= x /\ x % 4 = 3 => d <= x + 1
  <2>1. d \in Nat
    BY RoundUp4Facts
  <2>2. QED
    BY <2>1, WordEnds
<1>2. CASE m = 0
  <2>1. Char(Byte(p)) = "0" /\ e = p + 4
    <3>1. d = 4
      BY <1>2 DEF RoundUp4
    <3>2. QED
      BY <1>1, <1>2, <3>1
  <2>2. StringEnds(p) = {e}
    BY <2>1 DEF StringEnds
  <2>3. {e} \in SUBSET Nat /\ e \in {e} /\ \A q \in {e} : e <= q
    OBVIOUS
  <2>4. QED
    BY <2>2, <2>3, FirstIs
<1>3. CASE m # 0
  <2> HIDE DEF d
  <2> DEFINE words == {r \in p + 3 .. Len(packet) - 1 :
                          (r - p) % 4 = 3 /\ Char(Byte(r)) = "0"}
             ends == {q + 1 : q \in words}
  <2>1. Char(Byte(p)) # "0"
    BY <1>3
  <2>2. StringEnds(p) = ends
    BY <2>1 DEF StringEnds
  <2>3. e - 1 \in words
    <3>1. e - 1 \in p + 3 .. Len(packet) - 1 /\ ((e - 1) - p) % 4 = 3
      <4>1. (e - 1) - p = d - 1
        BY <1>1
      <4>2. QED
        BY <1>1, <4>1
    <3>2. e - 1 \in (p + m)..(e - 1)
      BY <1>1
    <3>3. QED
      BY <3>1, <3>2
  <2>4. e \in ends
    BY <2>3
  <2>5. ASSUME NEW r \in words PROVE r + 1 \in Nat /\ e <= r + 1
    <3>1. r \in p + 3 .. Len(packet) - 1 /\ (r - p) % 4 = 3 /\ Char(Byte(r)) = "0"
      OBVIOUS
    <3>2. r \notin p..(p + m - 1)
      BY <3>1
    <3>3. r >= p + m
      BY <3>1, <3>2
    <3>4. r - p \in Nat /\ m <= r - p
      BY <3>1, <3>3
    <3>5. d <= (r - p) + 1
      BY <1>1, <3>1, <3>4
    <3>6. QED
      BY <1>1, <3>1, <3>5
  <2> HIDE DEF words
  <2>6. ends \in SUBSET Nat /\ \A q \in ends : e <= q
    BY <2>5
  <2> HIDE DEF ends
  <2>7. QED
    BY <2>2, <2>4, <2>6, FirstIs
<1>4. QED
  BY <1>2, <1>3

\* What an argument of some type is.
LEMMA KindFacts ==
    ASSUME NEW msg \in Message, NEW k \in 1..Len(msg.arguments)
    PROVE  /\ msg.arguments[k] \in ArgumentLength /\ msg.arguments[k] \in Nat
           /\ msg.arguments[k] >= 1
           /\ Kind[msg.arguments[k]] \in {"i", "s", "b"}
           /\ Kind[msg.arguments[k]] = "i" => msg.arguments[k] = 4
           /\ Kind[msg.arguments[k]] = "b" => msg.arguments[k] >= 4
<1>1. msg.arguments[k] \in ArgumentLength
  BY DEF Message
<1> DEFINE n == msg.arguments[k]
<1> HIDE DEF n
<1>2. n \in ArgumentLength
  BY <1>1 DEF n
<1>3. n \in Nat
  BY <1>2, LengthAssumption
<1>4. /\ Kind[n] \in {"i", "s", "b"}
      /\ Kind[n] = "i" => n = 4
      /\ Kind[n] = "s" => n >= 1
      /\ Kind[n] = "b" => n >= 4
  BY <1>2, KindAssumption
<1>5. n >= 1
  BY <1>3, <1>4
<1>6. QED
  BY <1>2, <1>3, <1>4, <1>5 DEF n

\* and whole words add up to whole words.
LEMMA AlignedSum ==
    ASSUME NEW a \in Nat, NEW t \in Nat, NEW g \in Nat, a % 4 = 0, t % 4 = 0, g % 4 = 0
    PROVE  (a + t + g) % 4 = 0
<1> DEFINE u == a \div 4
           v == t \div 4
           w == g \div 4
<1>1. u \in Nat /\ v \in Nat /\ w \in Nat /\ a = 4 * u /\ t = 4 * v /\ g = 4 * w
  OBVIOUS
<1> HIDE DEF u, v, w
<1>2. a + t + g = 4 * (u + v + w) /\ u + v + w \in Nat
  BY <1>1
<1>3. QED
  BY <1>2

\* The tags are found behind the address, and the arguments behind the tags.
LEMMA TagsAreFound ==
    ASSUME NEW msg \in Message, Arrived(msg), finished[1] = msg
    PROVE  /\ ValidSize(Len(packet)) /\ Len(packet) \in Nat
           /\ StringEnds(0) # {} /\ TagsBegin = AddressRoom(msg) + 1
           /\ Char(Byte(TagsBegin - 1)) = ","
           /\ StringEnds(TagsBegin - 1) # {}
           /\ ArgumentsBegin = AddressRoom(msg) + TagRoom(msg)
           /\ TagsEnd = TagsBegin + Len(msg.arguments)
           /\ NoArguments <=> msg.arguments = << >>
<1> DEFINE n == Len(msg.arguments)
           A == AddressRoom(msg)
           T == TagRoom(msg)
           G == ArgumentRoom(msg)
<1>1. /\ msg.address \in Nat /\ n \in Nat /\ msg.arguments \in Seq(ArgumentLength)
      /\ A \in Nat /\ msg.address + 1 <= A /\ A % 4 = 0
      /\ T \in Nat /\ n + 2 <= T /\ T % 4 = 0 /\ G \in Nat /\ G % 4 = 0
  BY RoomFacts
<1>2. A = RoundUp4(msg.address + 1) /\ T = RoundUp4((n + 1) + 1)
  <2>1. (n + 1) + 1 = n + 2
    BY <1>1
  <2>2. QED
    BY <2>1 DEF AddressRoom, TagRoom
<1>3. /\ Len(packet) = A + T + G
      /\ \A p \in 0..(A - 1) : Byte(p) = IF p < msg.address THEN <<"address", 1, p + 1>> ELSE Zero
      /\ Byte(A) = Comma
      /\ \A k \in 1..n : Byte(A + k) = Tag(1, k)
      /\ \A k \in (n + 1)..(T - 1) : Byte(A + k) = Zero
  BY PacketBytes
<1>4. \A k \in 1..n : Kind[msg.arguments[k]] \in {"i", "s", "b"}
  BY KindFacts
<1> HIDE DEF n, A, T, G
<1>5. /\ \A p \in 0..(msg.address - 1) : Char(Byte(p)) # "0"
      /\ \A p \in msg.address..(A - 1) : Char(Byte(p)) = "0"
  <2>1. ASSUME NEW p \in 0..(msg.address - 1) PROVE Char(Byte(p)) # "0"
    <3>1. p \in 0..(A - 1) /\ p < msg.address
      BY <1>1
    <3>2. Byte(p) = <<"address", 1, p + 1>>
      BY <1>3, <3>1
    <3>3. Char(<<"address", 1, p + 1>>) = "x"
      BY CharIs
    <3>4. QED
      BY <3>2, <3>3
  <2>2. ASSUME NEW p \in msg.address..(A - 1) PROVE Char(Byte(p)) = "0"
    <3>1. p \in 0..(A - 1) /\ ~(p < msg.address)
      BY <1>1
    <3>2. Byte(p) = Zero
      BY <1>3, <3>1
    <3>3. QED
      BY <3>2, CharIs
  <2>3. QED
    BY <2>1, <2>2
<1>6. Char(Byte(A)) = ","
  BY <1>3, CharIs
<1>7. ASSUME NEW k \in 1..n
      PROVE  Char(Byte(A + k)) = Kind[msg.arguments[k]] /\ Char(Byte(A + k)) # "0"
  <2>1. Byte(A + k) = Tag(1, k)
    BY <1>3
  <2>2. Char(Tag(1, k)) = Kind[msg.arguments[k]]
    BY CharIs
  <2>3. Kind[msg.arguments[k]] # "0"
    BY <1>4
  <2>4. QED
    BY <2>1, <2>2, <2>3
<1>8. ASSUME NEW k \in (n + 1)..(T - 1) PROVE Char(Byte(A + k)) = "0"
  <2>1. Byte(A + k) = Zero
    BY <1>3
  <2>2. QED
    BY <2>1, CharIs
<1>9. Len(packet) \in Nat /\ A <= Len(packet) /\ A + T <= Len(packet) /\ ValidSize(Len(packet))
  <2>1. Len(packet) \in Nat /\ A <= Len(packet) /\ A + T <= Len(packet) /\ Len(packet) # 0
    BY <1>1, <1>3
  <2>2. Len(packet) % 4 = 0
    BY <1>1, <1>3, AlignedSum
  <2>3. QED
    BY <2>1, <2>2 DEF ValidSize
<1>10. StringEnds(0) # {} /\ First(StringEnds(0)) = A
  <2>1. 0 \in Nat /\ 0 + msg.address - 1 = msg.address - 1 /\ 0 + msg.address = msg.address
    BY <1>1
  <2>2. A = 0 + RoundUp4(msg.address + 1)
    BY <1>1, <1>2
  <2>3. /\ \A p \in 0..(0 + msg.address - 1) : Char(Byte(p)) # "0"
        /\ \A p \in (0 + msg.address)..(A - 1) : Char(Byte(p)) = "0"
    BY <1>5, <2>1
  <2>4. QED
    BY <1>1, <1>9, <2>2, <2>3, StringEndIs, Zenon
<1>11. TagsBegin = A + 1 /\ TagsBegin - 1 = A
  BY <1>1, <1>10 DEF TagsBegin
<1>12. StringEnds(A) # {} /\ First(StringEnds(A)) = A + T
  <2> DEFINE m == n + 1
             e == A + T
  <2>1. m \in Nat /\ e \in Nat
    BY <1>1
  <2>2. e = A + RoundUp4(m + 1)
    BY <1>2
  <2>3. ASSUME NEW p \in A..(A + m - 1) PROVE Char(Byte(p)) # "0"
    <3>1. p = A \/ (p - A \in 1..n /\ A + (p - A) = p)
      BY <1>1
    <3>2. CASE p = A
      BY <1>6, <3>2
    <3>3. CASE p # A
      <4>1. p - A \in 1..n /\ A + (p - A) = p
        BY <3>1, <3>3
      <4>2. Char(Byte(A + (p - A))) # "0"
        BY <1>7, <4>1
      <4>3. QED
        BY <4>1, <4>2
    <3>4. QED
      BY <3>2, <3>3
  <2>4. ASSUME NEW p \in (A + m)..(e - 1) PROVE Char(Byte(p)) = "0"
    <3>1. p - A \in (n + 1)..(T - 1) /\ A + (p - A) = p
      BY <1>1
    <3>2. Char(Byte(A + (p - A))) = "0"
      BY <1>8, <3>1
    <3>3. QED
      BY <3>1, <3>2
  <2>5. e <= Len(packet) /\ Len(packet) \in Nat
    BY <1>9
  <2> HIDE DEF m, e
  <2>6. StringEnds(A) # {} /\ First(StringEnds(A)) = e
    BY <1>1, <2>1, <2>2, <2>3, <2>4, <2>5, StringEndIs, Zenon
  <2>7. QED
    BY <2>6 DEF e
<1>13. ArgumentsBegin = A + T
  BY <1>11, <1>12 DEF ArgumentsBegin
<1>14. TagsEnd = A + 1 + n
  <2> DEFINE zeros == {p \in TagsBegin .. Len(packet) - 1 : Char(Byte(p)) = "0"}
             e == A + (n + 1)
  <2>1. e \in TagsBegin .. Len(packet) - 1
    BY <1>1, <1>9, <1>11
  <2>2. Char(Byte(e)) = "0"
    <3>1. n + 1 \in (n + 1)..(T - 1)
      BY <1>1
    <3>2. QED
      BY <1>8, <3>1
  <2>3. e \in zeros
    BY <2>1, <2>2
  <2>4. ASSUME NEW p \in zeros PROVE p \in Nat /\ e <= p
    <3>1. p \in TagsBegin .. Len(packet) - 1 /\ Char(Byte(p)) = "0"
      OBVIOUS
    <3>2. p \in Nat /\ p >= A + 1
      BY <1>1, <1>9, <1>11, <3>1
    <3>3. ASSUME p < e PROVE FALSE
      <4>1. p - A \in 1..n /\ A + (p - A) = p
        BY <1>1, <3>2, <3>3
      <4>2. Char(Byte(A + (p - A))) # "0"
        BY <1>7, <4>1
      <4>3. QED
        BY <3>1, <4>1, <4>2
    <3>4. QED
      BY <1>1, <3>2, <3>3
  <2>5. TagsEnd = First(zeros)
    BY DEF TagsEnd
  <2> HIDE DEF zeros
  <2>6. zeros \in SUBSET Nat /\ \A p \in zeros : e <= p
    BY <2>4
  <2>7. First(zeros) = e
    BY <2>3, <2>6, FirstIs
  <2>8. e = A + 1 + n
    BY <1>1
  <2>9. QED
    BY <2>5, <2>7, <2>8
<1>15. NoArguments <=> n = 0
  <2>1. ~(TagsBegin > Len(packet))
    BY <1>1, <1>9, <1>11
  <2>2. NoArguments <=> Char(Byte(A + 1)) = "0"
    BY <1>6, <1>11, <2>1 DEF NoArguments
  <2>3. n = 0 => Char(Byte(A + 1)) = "0"
    <3>1. n = 0 => 1 \in (n + 1)..(T - 1)
      BY <1>1
    <3>2. QED
      BY <1>8, <3>1
  <2>4. n # 0 => Char(Byte(A + 1)) # "0"
    <3>1. n # 0 => 1 \in 1..n
      BY <1>1
    <3>2. QED
      BY <1>7, <3>1
  <2>5. QED
    BY <2>2, <2>3, <2>4
<1>16. n = 0 <=> msg.arguments = << >>
  BY <1>1 DEF n
<1>17. TagsEnd = TagsBegin + n
  BY <1>1, <1>11, <1>14
<1>18. QED
  BY <1>6, <1>9, <1>10, <1>11, <1>12, <1>13, <1>15, <1>16, <1>17 DEF n, A, T

\* Where the k-th argument begins; with k one more than there are, where the last ends.
Begin(msg, k) ==
    AddressRoom(msg) + TagRoom(msg) + Len(FirstBytes(msg.arguments, k - 1))

\* One argument begins where the one before it ends, and all of them fit.
LEMMA BeginFacts ==
    ASSUME NEW msg \in Message, NEW n, n = Len(msg.arguments)
    PROVE  /\ Begin(msg, 1) = AddressRoom(msg) + TagRoom(msg)
           /\ \A k \in 1..(n + 1) : Begin(msg, k) \in Nat
           /\ \A k \in 1..n : Begin(msg, k + 1) = Begin(msg, k) + RoundUp4(msg.arguments[k])
           /\ Arrived(msg) => Begin(msg, n + 1) = Len(packet)
           /\ Arrived(msg) => \A k \in 1..n : Begin(msg, k + 1) <= Len(packet)
<1> DEFINE args == msg.arguments
           A == AddressRoom(msg)
           T == TagRoom(msg)
<1>1. /\ args \in Seq(ArgumentLength) /\ n \in Nat /\ A \in Nat /\ T \in Nat
      /\ ArgumentRoom(msg) \in Nat
  BY RoomFacts
<1> HIDE DEF A, T
<1>2. Begin(msg, 1) = A + T
  <2>1. FirstBytes(args, 0) = << >> /\ Len(<< >>) = 0 /\ 1 - 1 = 0
    BY <1>1, FirstBytesEmpty
  <2>2. Len(FirstBytes(args, 1 - 1)) = 0
    BY <2>1
  <2>3. QED
    BY <1>1, <2>2 DEF Begin, A, T
<1>3. ASSUME NEW k \in 1..(n + 1) PROVE Begin(msg, k) \in Nat
  <2>1. k - 1 \in 0..Len(args)
    BY <1>1
  <2>2. Len(FirstBytes(args, k - 1)) \in Nat
    BY <1>1, <2>1, FirstOnesFacts
  <2>3. QED
    BY <1>1, <2>2 DEF Begin, A, T
<1>4. ASSUME NEW k \in 1..n PROVE Begin(msg, k + 1) = Begin(msg, k) + RoundUp4(args[k])
  <2> DEFINE h == k - 1
  <2>1. h \in Nat /\ k \in Nat /\ k = h + 1 /\ k <= Len(args) /\ (k + 1) - 1 = k
        /\ h \in 0..Len(args)
    BY <1>1
  <2> HIDE DEF h
  <2>2. /\ Len(FirstBytes(args, k)) = Len(FirstBytes(args, h)) + RoundUp4(args[k])
        /\ args[k] \in Nat
    BY <1>1, <2>1, FirstBytesStep
  <2>3. RoundUp4(args[k]) \in Nat /\ Len(FirstBytes(args, h)) \in Nat
    BY <1>1, <2>1, <2>2, RoundUp4Facts, FirstOnesFacts
  <2>4. Len(FirstBytes(args, (k + 1) - 1)) = Len(FirstBytes(args, k - 1)) + RoundUp4(args[k])
    BY <2>1, <2>2 DEF h
  <2>5. Begin(msg, k) = A + T + Len(FirstBytes(args, h))
    BY DEF Begin, A, T, h
  <2>6. Begin(msg, k + 1) = A + T + (Len(FirstBytes(args, h)) + RoundUp4(args[k]))
    BY <2>4 DEF Begin, A, T, h
  <2> HIDE DEF args
  <2>7. QED
    BY <1>1, <2>3, <2>5, <2>6
<1>5. Arrived(msg) => Begin(msg, n + 1) = Len(packet)
  <2>1. (n + 1) - 1 = Len(args)
    BY <1>1
  <2>2. Len(FirstBytes(args, (n + 1) - 1)) = ArgumentRoom(msg)
    BY <1>1, <2>1, FirstBytesAll DEF ArgumentRoom
  <2>3. Arrived(msg) => Len(packet) = A + T + ArgumentRoom(msg)
    BY PacketBytes DEF A, T
  <2>4. QED
    BY <2>2, <2>3 DEF Begin, A, T
<1>6. ASSUME Arrived(msg), NEW k \in 1..n PROVE Begin(msg, k + 1) <= Len(packet)
  <2> DEFINE f == FirstBytes(args, k)
             g == FirstBytes(args, n)
  <2>1. /\ k \in 0..Len(args) /\ n \in k..Len(args) /\ n \in 0..Len(args)
        /\ (k + 1) - 1 = k /\ (n + 1) - 1 = n
    BY <1>1
  <2>2. Len(f) <= Len(g) /\ Len(f) \in Nat /\ Len(g) \in Nat
    BY <1>1, <2>1, FirstBytesArePrefix, FirstOnesFacts
  <2>3. Begin(msg, k + 1) = A + T + Len(f) /\ Begin(msg, n + 1) = A + T + Len(g)
    BY <2>1 DEF Begin, A, T
  <2> HIDE DEF f, g
  <2>4. QED
    BY <1>1, <1>5, <1>6, <2>2, <2>3
<1>7. QED
  BY <1>2, <1>3, <1>4, <1>5, <1>6 DEF A, T

\* Its bytes are there.
LEMMA ArgumentBytesAt ==
    ASSUME NEW msg \in Message, Arrived(msg), NEW k \in 1..Len(msg.arguments),
           NEW i \in 1..RoundUp4(msg.arguments[k])
    PROVE  Byte(Begin(msg, k) + i - 1) =
               IF i <= msg.arguments[k] THEN <<"argument", 1, k, i>> ELSE Zero
<1> DEFINE args == msg.arguments
           A == AddressRoom(msg)
           T == TagRoom(msg)
           b == Len(FirstBytes(args, k - 1))
           g == FlattenSeq(Arguments(1, args))
<1>1. args \in Seq(ArgumentLength) /\ A \in Nat /\ T \in Nat
  BY RoomFacts
<1>2. /\ b + i \in 1..ArgumentRoom(msg)
      /\ g[b + i] = IF i <= args[k] THEN <<"argument", 1, k, i>> ELSE Zero
  BY <1>1, ArgumentAt DEF ArgumentRoom
<1>3. b \in Nat /\ i \in Nat
  <2>1. k - 1 \in 0..Len(args)
    BY <1>1
  <2>2. b \in Nat
    BY <1>1, <2>1, FirstOnesFacts
  <2>3. args[k] \in Nat
    BY KindFacts
  <2>4. RoundUp4(args[k]) \in Nat
    BY <2>3, RoundUp4Facts
  <2>5. QED
    BY <2>2, <2>4
<1>4. \A j \in 1..ArgumentRoom(msg) : Byte(A + T + j - 1) = g[j]
  BY PacketBytes
<1>5. Byte(A + T + (b + i) - 1) = g[b + i]
  BY <1>2, <1>4
<1>6. Begin(msg, k) = A + T + b
  BY DEF Begin
<1> HIDE DEF A, T, b, g
<1>7. Begin(msg, k) + i - 1 = A + T + (b + i) - 1
  BY <1>1, <1>3, <1>6
<1>8. QED
  BY <1>2, <1>5, <1>7

\* The size of a blob is a word of its own.
LEMMA WordLess ==
    ASSUME NEW n \in Nat, n >= 4
    PROVE  RoundUp4(n) = 4 + RoundUp4(n - 4) /\ RoundUp4(n - 4) \in Nat
<1> DEFINE w == (n + 3) \div 4
           v == (n - 4 + 3) \div 4
<1>1. w \in Nat /\ 4 * w <= n + 3 /\ n + 3 < 4 * w + 4
  OBVIOUS
<1>2. v \in Nat /\ 4 * v <= n - 1 /\ n - 1 < 4 * v + 4
  OBVIOUS
<1>3. RoundUp4(n) = 4 * w /\ RoundUp4(n - 4) = 4 * v
  BY DEF RoundUp4
<1> HIDE DEF w, v
<1>4. w = v + 1
  BY <1>1, <1>2
<1>5. QED
  BY <1>2, <1>3, <1>4

\* Offsets in the packet and in the argument.
LEMMA Position ==
    ASSUME NEW p \in Nat, NEW m \in Nat, NEW e \in Nat, NEW j \in (p + m)..(e - 1)
    PROVE  j - p + 1 \in (m + 1)..(e - p) /\ p + (j - p + 1) - 1 = j
  OBVIOUS

\* What the walk over an argument finds: its first byte, and, behind it, the next one.
LEMMA ArgumentIsPassed ==
    ASSUME NEW msg \in Message, Arrived(msg), finished[1] = msg,
           NEW k \in 1..Len(msg.arguments),
           NEW p, p = Begin(msg, k), NEW next, next = Begin(msg, k + 1),
           NEW n, n = msg.arguments[k]
    PROVE  /\ p \in Nat /\ next \in Nat /\ p + 4 <= next /\ next <= Len(packet)
           /\ Len(packet) \in Nat
           /\ Byte(p) = <<"argument", 1, k, 1>>
           /\ Kind[n] = "i" => p + 4 = next
           /\ Kind[n] = "s" => StringEnds(p) # {} /\ First(StringEnds(p)) = next
           /\ Kind[n] = "b" => p + 4 + RoundUp4(BlobSize(p)) = next
<1>1. /\ n \in Nat /\ n >= 1
      /\ Kind[n] = "i" => n = 4
      /\ Kind[n] = "b" => n >= 4
  BY KindFacts
<1>2. Len(msg.arguments) \in Nat /\ k \in 1..(Len(msg.arguments) + 1)
      /\ k + 1 \in 1..(Len(msg.arguments) + 1)
  BY RoomFacts
<1>3. p \in Nat /\ next \in Nat /\ next = p + RoundUp4(n) /\ next <= Len(packet)
  BY <1>2, BeginFacts
<1>4. RoundUp4(n) \in Nat /\ n <= RoundUp4(n) /\ RoundUp4(n) >= 4
  BY <1>1 DEF RoundUp4
<1>5. \A i \in 1..RoundUp4(n) :
          Byte(p + i - 1) = IF i <= n THEN <<"argument", 1, k, i>> ELSE Zero
  BY ArgumentBytesAt
<1>6. Byte(p) = <<"argument", 1, k, 1>>
  <2>1. 1 \in 1..RoundUp4(n) /\ p + 1 - 1 = p /\ 1 <= n
    BY <1>1, <1>3, <1>4
  <2>2. QED
    BY <1>5, <2>1
<1>7. Len(packet) \in Nat
  BY TagsAreFound
<1>8. Kind[n] = "i" => p + 4 = next
  <2>1. RoundUp4(4) = 4
    BY DEF RoundUp4
  <2>2. QED
    BY <1>1, <1>3, <2>1
<1>9. ASSUME Kind[n] = "s" PROVE StringEnds(p) # {} /\ First(StringEnds(p)) = next
  <2> DEFINE m == n - 1
  <2>1. m \in Nat /\ m + 1 = n
    BY <1>1
  <2>2. next = p + RoundUp4(m + 1)
    BY <1>3, <2>1
  <2> HIDE DEF m
  <2>3. ASSUME NEW j \in p..(p + m - 1) PROVE Char(Byte(j)) # "0"
    <3> DEFINE i == j - p + 1
    <3>1. i \in 1..RoundUp4(n) /\ p + i - 1 = j /\ i <= n /\ i # n
      <4>1. j \in Int /\ p <= j /\ j <= p + m - 1
        BY <1>3, <2>1
      <4>2. i \in Int /\ 1 <= i /\ i <= m /\ p + i - 1 = j
        BY <1>3, <2>1, <4>1
      <4> HIDE DEF i
      <4>3. QED
        BY <1>1, <1>4, <2>1, <4>2
    <3> HIDE DEF i
    <3>2. Byte(j) = <<"argument", 1, k, i>>
      BY <1>5, <3>1
    <3>3. Char(<<"argument", 1, k, i>>) = "x"
      BY <3>1, CharIs
    <3>4. QED
      BY <3>2, <3>3
  <2>4. ASSUME NEW j \in (p + m)..(next - 1) PROVE Char(Byte(j)) = "0"
    <3> DEFINE i == j - p + 1
    <3>1. i \in 1..RoundUp4(n) /\ p + i - 1 = j /\ n <= i
      <4>1. i \in (m + 1)..(next - p) /\ p + i - 1 = j
        BY <1>3, <2>1, Position
      <4>2. next - p = RoundUp4(n)
        BY <1>3, <1>4
      <4> HIDE DEF i
      <4>3. i \in n..RoundUp4(n)
        BY <2>1, <4>1, <4>2
      <4>4. i \in 1..RoundUp4(n) /\ n <= i
        BY <1>1, <1>4, <4>3
      <4>5. QED
        BY <4>1, <4>4
    <3> HIDE DEF i
    <3>2. Byte(j) = IF i <= n THEN <<"argument", 1, k, i>> ELSE Zero
      BY <1>5, <3>1
    <3>3. CASE i <= n
      <4>1. i = n
        BY <1>1, <3>1, <3>3
      <4>2. Char(<<"argument", 1, k, i>>) = "0"
        BY <1>9, <4>1, CharIs
      <4>3. QED
        BY <3>2, <3>3, <4>2
    <3>4. CASE ~(i <= n)
      BY <3>2, <3>4, CharIs
    <3>5. QED
      BY <3>3, <3>4
  <2>5. QED
    BY <1>3, <1>7, <2>1, <2>2, <2>3, <2>4, StringEndIs, Zenon
<1>10. ASSUME Kind[n] = "b" PROVE p + 4 + RoundUp4(BlobSize(p)) = next
  <2>1. LengthOf(<<"argument", 1, k, 1>>) = n
    BY DEF LengthOf
  <2>2. BlobSize(p) = n - 4
    <3> DEFINE b == <<"argument", 1, k, 1>>
    <3>1. b[1] = "argument" /\ b[4] = 1
      OBVIOUS
    <3>2. LengthOf(b) = n
      BY <2>1
    <3> HIDE DEF b
    <3>3. Byte(p) = b
      BY <1>6 DEF b
    <3>4. QED
      BY <1>10, <3>1, <3>2, <3>3 DEF BlobSize
  <2>3. RoundUp4(n) = 4 + RoundUp4(n - 4) /\ RoundUp4(n - 4) \in Nat
    BY <1>1, <1>10, WordLess
  <2>4. QED
    BY <1>3, <2>2, <2>3
<1>11. p + 4 <= next
  BY <1>3, <1>4
<1>12. QED
  BY <1>3, <1>6, <1>7, <1>8, <1>9, <1>10, <1>11

\* The k-th tag.
LEMMA TagIs ==
    ASSUME NEW msg \in Message, Arrived(msg), finished[1] = msg,
           NEW k \in 1..Len(msg.arguments)
    PROVE  Char(Byte(TagsBegin + k - 1)) = Kind[msg.arguments[k]]
<1>1. TagsBegin = AddressRoom(msg) + 1 /\ AddressRoom(msg) \in Nat /\ Len(msg.arguments) \in Nat
  BY TagsAreFound, RoomFacts
<1>2. TagsBegin + k - 1 = AddressRoom(msg) + k
  BY <1>1
<1>3. Byte(AddressRoom(msg) + k) = Tag(1, k)
  BY PacketBytes
<1>4. QED
  BY <1>2, <1>3, CharIs

\* Validation finds every argument in its place,
LEMMA BehindIs ==
    ASSUME NEW msg \in Message, Arrived(msg), finished[1] = msg,
           NEW k \in 1..Len(msg.arguments)
    PROVE  Behind(Kind[msg.arguments[k]], Begin(msg, k)) = Begin(msg, k + 1)
<1> DEFINE n == msg.arguments[k]
           p == Begin(msg, k)
           next == Begin(msg, k + 1)
<1>1. /\ p \in Nat /\ next \in Nat /\ p + 4 <= next /\ next <= Len(packet)
      /\ Len(packet) \in Nat
      /\ Kind[n] = "i" => p + 4 = next
      /\ Kind[n] = "s" => StringEnds(p) # {} /\ First(StringEnds(p)) = next
      /\ Kind[n] = "b" => p + 4 + RoundUp4(BlobSize(p)) = next
  BY ArgumentIsPassed
<1>2. Kind[n] \in {"i", "s", "b"}
  BY KindFacts
<1> HIDE DEF n, p, next
<1>3. p # Malformed /\ p + 4 <= Len(packet) /\ p < Len(packet)
  BY <1>1 DEF Malformed
<1>4. CASE Kind[n] = "i"
  BY <1>1, <1>3, <1>4 DEF Behind, n, p, next
<1>5. CASE Kind[n] = "s"
  BY <1>1, <1>3, <1>5 DEF Behind, n, p, next
<1>6. CASE Kind[n] = "b"
  BY <1>1, <1>3, <1>6 DEF Behind, n, p, next
<1>7. QED
  BY <1>2, <1>4, <1>5, <1>6

\* and so do the iterators, which check nothing.
LEMMA PassedIs ==
    ASSUME NEW msg \in Message, Arrived(msg), finished[1] = msg,
           NEW k \in 1..Len(msg.arguments),
           typeTagPtr = TagsBegin + k - 1, argumentPtr = Begin(msg, k)
    PROVE  Passed = Begin(msg, k + 1)
<1> DEFINE n == msg.arguments[k]
           p == Begin(msg, k)
           next == Begin(msg, k + 1)
<1>1. /\ p \in Nat
      /\ Kind[n] = "i" => p + 4 = next
      /\ Kind[n] = "s" => First(StringEnds(p)) = next
      /\ Kind[n] = "b" => p + 4 + RoundUp4(BlobSize(p)) = next
  BY ArgumentIsPassed
<1>2. Kind[n] \in {"i", "s", "b"}
  BY KindFacts
<1>3. Char(Byte(typeTagPtr)) = Kind[n]
  BY TagIs
<1> HIDE DEF n, p, next
<1>4. argumentPtr = p
  BY DEF p
<1>5. Passed = next
  <2>1. CASE Kind[n] = "i"
    BY <1>1, <1>3, <1>4, <2>1 DEF Passed
  <2>2. CASE Kind[n] = "s"
    BY <1>1, <1>3, <1>4, <2>2 DEF Passed
  <2>3. CASE Kind[n] = "b"
    BY <1>1, <1>3, <1>4, <2>3 DEF Passed
  <2>4. QED
    BY <1>2, <2>1, <2>2, <2>3
<1>6. QED
  BY <1>5 DEF next

\* So the places that validation goes through are those.
LEMMA PlacesAre ==
    ASSUME NEW msg \in Message, Arrived(msg), finished[1] = msg
    PROVE  Places = [k \in 1..(Len(msg.arguments) + 1) |-> Begin(msg, k)]
<1> DEFINE n == Len(msg.arguments)
           K == 1 .. TagsEnd - TagsBegin + 1
           Step(f, k) == IF k = 1 THEN ArgumentsBegin
                         ELSE Behind(Char(Byte(TagsBegin + k - 2)), f[k - 1])
           begins == [k \in 1..(n + 1) |-> Begin(msg, k)]
           places == CHOOSE f : f = [k \in K |-> Step(f, k)]
<1>1. /\ TagsBegin = AddressRoom(msg) + 1 /\ AddressRoom(msg) \in Nat /\ n \in Nat
      /\ TagsEnd = TagsBegin + n
      /\ ArgumentsBegin = AddressRoom(msg) + TagRoom(msg)
  BY TagsAreFound, RoomFacts
<1>2. K = 1..(n + 1)
  BY <1>1
<1>3. Begin(msg, 1) = ArgumentsBegin
  BY <1>1, BeginFacts
<1>4. ASSUME NEW k \in 2..(n + 1)
      PROVE  Behind(Char(Byte(TagsBegin + k - 2)), Begin(msg, k - 1)) = Begin(msg, k)
  <2> DEFINE h == k - 1
  <2>1. h \in 1..n /\ h + 1 = k /\ TagsBegin + k - 2 = TagsBegin + h - 1
    BY <1>1
  <2> HIDE DEF h
  <2>2. Char(Byte(TagsBegin + h - 1)) = Kind[msg.arguments[h]]
    BY <2>1, TagIs
  <2>3. Behind(Kind[msg.arguments[h]], Begin(msg, h)) = Begin(msg, h + 1)
    BY <2>1, BehindIs
  <2>4. Char(Byte(TagsBegin + k - 2)) = Kind[msg.arguments[h]]
    BY <2>1, <2>2
  <2>5. QED
    BY <2>1, <2>3, <2>4 DEF h
<1> HIDE DEF K
<1>5. begins = [k \in K |-> Step(begins, k)]
  <2>1. ASSUME NEW k \in 1..(n + 1) PROVE Begin(msg, k) = Step(begins, k)
    <3>1. CASE k = 1
      BY <1>3, <3>1
    <3>2. CASE k # 1
      <4>1. k \in 2..(n + 1) /\ k - 1 \in 1..(n + 1)
        BY <1>1, <3>2
      <4>2. begins[k - 1] = Begin(msg, k - 1)
        BY <4>1
      <4> HIDE DEF begins
      <4>3. Behind(Char(Byte(TagsBegin + k - 2)), begins[k - 1]) = Begin(msg, k)
        BY <1>4, <4>1, <4>2
      <4>4. QED
        BY <3>2, <4>3
    <3>3. QED
      BY <3>1, <3>2
  <2> HIDE DEF Step
  <2>2. QED
    BY <1>2, <2>1
<1>6. places = [k \in K |-> Step(places, k)]
  <2> HIDE DEF Step, begins
  <2>1. QED
    BY <1>5
<1>7. places = begins
  <2> HIDE DEF places
  <2> DEFINE T == {j \in Nat : j + 1 \in 1..(n + 1) => places[j + 1] = Begin(msg, j + 1)}
  <2>1. ASSUME NEW k \in 1..(n + 1) PROVE places[k] = Step(places, k)
    <3> HIDE DEF Step
    <3>1. QED
      BY <1>2, <1>6
  <2>2. 0 \in T
    <3>1. 1 \in 1..(n + 1) /\ 0 + 1 = 1
      BY <1>1
    <3>2. places[1] = Begin(msg, 1)
      BY <1>3, <2>1, <3>1
    <3>3. QED
      BY <3>1, <3>2
  <2>3. ASSUME NEW j \in Nat, j \in T PROVE j + 1 \in T
    <3> DEFINE k == (j + 1) + 1
    <3> SUFFICES ASSUME k \in 1..(n + 1) PROVE places[k] = Begin(msg, k)
      OBVIOUS
    <3>1. k \in 2..(n + 1) /\ k - 1 = j + 1 /\ j + 1 \in 1..(n + 1) /\ k # 1
      BY <1>1
    <3>2. places[j + 1] = Begin(msg, j + 1)
      BY <2>3, <3>1
    <3> HIDE DEF k, T
    <3>3. places[k] = Behind(Char(Byte(TagsBegin + k - 2)), places[k - 1])
      BY <2>1, <3>1
    <3>4. QED
      BY <1>4, <3>1, <3>2, <3>3
  <2> HIDE DEF T
  <2>4. Nat \subseteq T
    BY <2>2, <2>3, Induction
  <2>5. ASSUME NEW k \in 1..(n + 1) PROVE places[k] = Begin(msg, k)
    <3> DEFINE j == k - 1
    <3>1. j \in Nat /\ j + 1 = k
      BY <1>1
    <3> HIDE DEF j
    <3>2. j \in T
      BY <2>4, <3>1
    <3>3. QED
      BY <3>1, <3>2 DEF T
  <2>6. places = [k \in 1..(n + 1) |-> places[k]]
    <3> HIDE DEF Step
    <3>1. QED
      BY <1>2, <1>6
  <2>7. QED
    BY <2>5, <2>6
<1>8. Places = places
  BY DEF Places, places, K, Step
<1>9. QED
  BY <1>7, <1>8

\* Validation accepts the packet.
LEMMA PacketIsWellFormed ==
    ASSUME NEW msg \in Message, Arrived(msg), finished[1] = msg
    PROVE  WellFormed
<1> DEFINE n == Len(msg.arguments)
           begins == [k \in 1..(n + 1) |-> Begin(msg, k)]
<1>1. /\ ValidSize(Len(packet)) /\ StringEnds(0) # {}
      /\ Char(Byte(TagsBegin - 1)) = "," /\ StringEnds(TagsBegin - 1) # {}
  BY TagsAreFound
<1>2. \A k \in 1..(n + 1) : Begin(msg, k) \in Nat
  BY BeginFacts
<1>3. \A k \in 1..(n + 1) : Begin(msg, k) # Malformed
  BY <1>2 DEF Malformed
<1>4. \A k \in DOMAIN begins : begins[k] # Malformed
  BY <1>3
<1> HIDE DEF begins
<1>5. Places = begins
  BY PlacesAre DEF begins
<1>6. ArgumentsAreThere
  BY <1>4, <1>5 DEF ArgumentsAreThere
<1>7. QED
  BY <1>1, <1>6 DEF WellFormed, WithArguments

----------------------------------------------------------------------------
(* Reading the arguments back. *)

\* What reading the first k arguments gives.
ReadOf(msg, k) == [j \in 1..k |-> <<Kind[msg.arguments[j]], <<"argument", 1, j, 1>>>>]

\* The iterators behind the first k arguments of a message.
Walked(msg, k) ==
    /\ read = ReadOf(msg, k)
    /\ typeTagPtr = AddressRoom(msg) + 1 + k
    /\ typeTagsEnd = AddressRoom(msg) + 1 + Len(msg.arguments)
    /\ argumentPtr = Begin(msg, k + 1)

\* The invariant of a message that was sent: until it is read nothing was, a packet that
\* fits is the encoding of the message and not refused, and the iterators are always
\* in front of an argument, or behind the last.
ReadInv ==
    /\ state \in {"sending", "received", "malformed", "reading"}
    /\ state \in {"sending", "received"} => read = << >> /\ typeTagPtr = 0 /\ typeTagsEnd = 0
    /\ state # "sending" => ~inProgress /\ Len(finished) = 1
    /\ state # "sending" /\ Size <= BufferSize =>
          Arrived(finished[1]) /\ state # "malformed"
    /\ state = "reading" /\ Size <= BufferSize =>
          IF finished[1].arguments = << >>
          THEN read = << >> /\ typeTagPtr = typeTagsEnd
          ELSE \E k \in 0..Len(finished[1].arguments) : Walked(finished[1], k)

\* What was sent is a message.
LEMMA SentMessage ==
    ASSUME IInv, Len(finished) = 1
    PROVE  finished[1] \in Message
<1>1. finished \in Seq(Message)
  BY DEF IInv, TypeOK
<1>2. QED
  BY <1>1

\* What is cut from the buffer is the encoding of the message.
LEMMA SendReadInv ==
    ASSUME PacketInv, WireInv, ReadInv, Send
    PROVE  ReadInv'
<1>1. /\ state = "sending" /\ ~inProgress /\ Len(finished) = 1
      /\ packet' = Bytes(bytes, 0, IF Size < BufferSize THEN Size ELSE BufferSize)
      /\ state' = "received" /\ UNCHANGED <<vars, typeTagsEnd, typeTagPtr, read>>
  BY DEF Send
<1>2. UNCHANGED <<inProgress, finished>> /\ Size' = Size
  BY <1>1 DEF vars, cursors, Size
<1>3. ASSUME Size <= BufferSize PROVE packet' = Encoded(finished[1], 1)
  <2>1. packet' = Bytes(bytes, 0, Size)
    <3>1. Size \in Nat /\ BufferSize \in Nat
      BY SizeIsNatural, BufferAssumption DEF PacketInv
    <3>2. (IF Size < BufferSize THEN Size ELSE BufferSize) = Size
      BY <1>3, <3>1
    <3>3. QED
      BY <1>1, <3>2
  <2>2. Bytes(bytes, 0, Size) = FlattenSeq([m \in DOMAIN finished |-> Encoded(finished[m], m)])
    BY <1>1, WireInvSuffices, Zenon DEF PacketInv, WireFormat
  <2> DEFINE e == Encoded(finished[1], 1)
             es == [m \in DOMAIN finished |-> Encoded(finished[m], m)]
  <2>3. finished \in Seq(Message)
    BY DEF PacketInv, IInv, TypeOK
  <2>4. e \in Seq(Symbol)
    <3>1. finished[1] \in Message /\ 1 \in Nat
      BY <1>1, <2>3
    <3>2. QED
      BY <3>1, EncodedIs
  <2>5. DOMAIN finished = 1..1
    BY <1>1, <2>3
  <2>6. es = [m \in 1..1 |-> Encoded(finished[m], m)]
    BY <2>5
  <2>7. es = <<e>>
    <3>1. \A m \in 1..1 : Encoded(finished[m], m) = e
      OBVIOUS
    <3>2. es = [m \in 1..1 |-> e]
      BY <2>6, <3>1
    <3> HIDE DEF e, es
    <3>3. QED
      BY <3>2
  <2> HIDE DEF e, es
  <2>8. FlattenSeq(Append(<< >>, e)) = FlattenSeq(<< >>) \o e
    <3>1. << >> \in Seq(Seq(Symbol))
      OBVIOUS
    <3>2. QED
      BY <2>4, <3>1, FlattenSeqAppend
  <2>9. << >> \o e = e /\ Append(<< >>, e) = <<e>>
    BY <2>4, ConcatEmptySeq
  <2>10. FlattenSeq(es) = e
    BY <2>7, <2>8, <2>9, FlattenSeqEmpty
  <2>11. QED
    BY <2>1, <2>2, <2>10 DEF e, es
<1>4. Size <= BufferSize => Arrived(finished[1])'
  BY <1>2, <1>3 DEF Arrived
<1>5. QED
  BY <1>1, <1>2, <1>4 DEF ReadInv

\* Validation accepts it, and puts the iterators in front of the first argument.
LEMMA ReceiveReadInv ==
    ASSUME PacketInv, ReadInv, Receive
    PROVE  ReadInv'
<1> DEFINE msg == finished[1]
           n == Len(msg.arguments)
<1>1. /\ state = "received" /\ ~inProgress /\ Len(finished) = 1
      /\ read = << >> /\ typeTagPtr = 0 /\ typeTagsEnd = 0
      /\ UNCHANGED <<vars, packet, read>>
  BY DEF Receive, ReadInv
<1>2. UNCHANGED <<inProgress, finished>> /\ Size' = Size /\ msg' = msg
  BY <1>1 DEF vars, cursors, Size
<1>3. state' \in {"malformed", "reading"}
  BY DEF Receive
<1>4. CASE ~(Size <= BufferSize)
  BY <1>1, <1>2, <1>3, <1>4 DEF ReadInv
<1>5. CASE Size <= BufferSize
  <2>1. Arrived(msg) /\ Arrived(msg)'
    BY <1>1, <1>2, <1>5 DEF ReadInv, Arrived
  <2>2. msg \in Message
    BY <1>1, SentMessage DEF PacketInv
  <2> HIDE DEF msg
  <2>3. finished[1] = msg /\ finished'[1] = msg
    BY <1>2 DEF msg
  <2>4. WellFormed /\ (NoArguments <=> msg.arguments = << >>)
    BY <2>1, <2>2, <2>3, PacketIsWellFormed, TagsAreFound
  <2>5. state' = "reading"
    BY <2>4 DEF Receive
  <2>6. CASE msg.arguments = << >>
    <3>1. typeTagPtr' = typeTagPtr /\ typeTagsEnd' = typeTagsEnd /\ read' = << >>
      BY <1>1, <2>4, <2>6 DEF Receive
    <3>2. QED
      BY <1>1, <1>2, <2>1, <2>3, <2>5, <2>6, <3>1 DEF ReadInv
  <2>7. CASE msg.arguments # << >>
    <3>1. /\ typeTagPtr' = TagsBegin /\ typeTagsEnd' = TagsEnd
          /\ argumentPtr' = ArgumentsBegin
      BY <2>4, <2>7 DEF Receive
    <3>2. /\ TagsBegin = AddressRoom(msg) + 1 /\ TagsEnd = TagsBegin + n
          /\ ArgumentsBegin = AddressRoom(msg) + TagRoom(msg)
      BY <2>1, <2>2, <2>3, TagsAreFound
    <3>3. AddressRoom(msg) \in Nat /\ n \in Nat
      BY <2>2, RoomFacts
    <3>4. Begin(msg, 1) = ArgumentsBegin
      BY <2>2, <3>2, BeginFacts
    <3>5. read' = ReadOf(msg, 0)
      <4>1. ReadOf(msg, 0) = << >>
        BY DEF ReadOf
      <4>2. QED
        BY <1>1, <4>1
    <3>6. Walked(msg, 0)'
      <4>1. /\ typeTagPtr' = AddressRoom(msg) + 1 + 0
            /\ typeTagsEnd' = AddressRoom(msg) + 1 + n
            /\ argumentPtr' = Begin(msg, 0 + 1)
        BY <3>1, <3>2, <3>3, <3>4
      <4>2. QED
        BY <1>2, <3>5, <4>1 DEF Walked, msg
    <3>7. \E k \in 0..Len(finished'[1].arguments) : Walked(finished[1], k)'
      <4>1. 0 \in 0..Len(finished'[1].arguments)
        BY <2>3, <3>3
      <4>2. QED
        BY <3>6, <4>1 DEF msg
    <3>8. QED
      BY <1>1, <1>2, <2>1, <2>3, <2>5, <2>7, <3>7 DEF ReadInv
  <2>8. QED
    BY <2>6, <2>7
<1>6. QED
  BY <1>4, <1>5

\* An iterator that is not at the end is in front of an argument, and moves on to the next.
LEMMA ReadArgumentReadInv ==
    ASSUME PacketInv, ReadInv, ReadArgument
    PROVE  ReadInv'
<1> DEFINE msg == finished[1]
           n == Len(msg.arguments)
<1>1. /\ state = "reading" /\ ~inProgress /\ Len(finished) = 1
      /\ typeTagPtr # typeTagsEnd
      /\ UNCHANGED <<vars, packet, state, typeTagsEnd>>
  BY DEF ReadArgument, ReadInv, AllRead
<1>2. UNCHANGED <<inProgress, finished>> /\ Size' = Size /\ msg' = msg
  BY <1>1 DEF vars, cursors, Size
<1>3. CASE ~(Size <= BufferSize)
  BY <1>1, <1>2, <1>3 DEF ReadInv
<1>4. CASE Size <= BufferSize
  <2>1. Arrived(msg) /\ Arrived(msg)'
    BY <1>1, <1>2, <1>4 DEF ReadInv, Arrived
  <2>2. msg \in Message
    BY <1>1, SentMessage DEF PacketInv
  <2>3. msg.arguments # << >> /\ \E k \in 0..n : Walked(msg, k)
    BY <1>1, <1>4 DEF ReadInv
  <2>4. PICK k \in 0..n : Walked(msg, k)
    BY <2>3
  <2> HIDE DEF msg
  <2>5. finished[1] = msg /\ finished'[1] = msg
    BY <1>2 DEF msg
  <2>6. AddressRoom(msg) \in Nat /\ n \in Nat
    BY <2>2, RoomFacts
  <2> DEFINE j == k + 1
  <2>7. j \in 1..n /\ k \in Nat
    BY <1>1, <2>4, <2>6 DEF Walked
  <2>8. /\ read = ReadOf(msg, k)
        /\ typeTagPtr = AddressRoom(msg) + j
        /\ argumentPtr = Begin(msg, j)
    BY <2>4, <2>6 DEF Walked
  <2>9. TagsBegin = AddressRoom(msg) + 1
    BY <2>1, <2>2, <2>5, TagsAreFound
  <2>10. typeTagPtr = TagsBegin + j - 1
    BY <2>6, <2>7, <2>8, <2>9
  <2> HIDE DEF j
  <2>11. Passed = Begin(msg, j + 1)
    BY <2>1, <2>2, <2>5, <2>7, <2>8, <2>10, PassedIs
  <2>12. Char(Byte(typeTagPtr)) = Kind[msg.arguments[j]]
    BY <2>1, <2>2, <2>5, <2>7, <2>10, TagIs
  <2>13. Byte(argumentPtr) = <<"argument", 1, j, 1>>
    BY <2>1, <2>2, <2>5, <2>7, <2>8, ArgumentIsPassed
  <2>14. read' = ReadOf(msg, j)
    <3> DEFINE r == <<Kind[msg.arguments[j]], <<"argument", 1, j, 1>>>>
    <3>1. read' = Append(ReadOf(msg, k), r)
      BY <2>8, <2>12, <2>13 DEF ReadArgument
    <3>2. Append(ReadOf(msg, k), r) = ReadOf(msg, j)
      BY <2>7 DEF ReadOf, j
    <3>3. QED
      BY <3>1, <3>2
  <2>15. Walked(msg, j)'
    <3>1. typeTagPtr' = AddressRoom(msg) + 1 + j /\ argumentPtr' = Begin(msg, j + 1)
      BY <2>6, <2>7, <2>8, <2>11 DEF ReadArgument
    <3>2. typeTagsEnd' = AddressRoom(msg) + 1 + n
      BY <1>1, <2>4 DEF Walked
    <3>3. QED
      BY <1>2, <2>14, <3>1, <3>2 DEF Walked, msg
  <2>16. \E i \in 0..Len(finished'[1].arguments) : Walked(finished[1], i)'
    <3>1. j \in 0..Len(finished'[1].arguments)
      BY <2>5, <2>6, <2>7
    <3>2. QED
      BY <2>15, <3>1 DEF msg
  <2>17. QED
    BY <1>1, <1>2, <2>1, <2>3, <2>5, <2>16 DEF ReadInv
<1>5. QED
  BY <1>3, <1>4

\* Every step keeps the reader where it should be.
LEMMA ReadInvStep ==
    ASSUME PacketInv, WireInv, ReadInv, [LinkNext]_<<vars, linkVars>>
    PROVE  ReadInv'
<1>1. CASE StreamStep
  <2>1. state = "sending" /\ state' = state /\ read' = read
        /\ typeTagPtr' = typeTagPtr /\ typeTagsEnd' = typeTagsEnd
    BY <1>1 DEF StreamStep, linkVars
  <2>2. QED
    BY <2>1 DEF ReadInv
<1>2. CASE UNCHANGED <<vars, linkVars>>
  BY <1>2 DEF vars, cursors, linkVars, ReadInv, Size, Arrived, Walked
<1>3. QED
  BY <1>1, <1>2, SendReadInv, ReceiveReadInv, ReadArgumentReadInv DEF LinkNext

\* What osmid sends and the receive buffer can hold is accepted by validation
\* (OscReceivedElements.cpp:585-722), and the unchecked walk over it (487-555) finds every
\* argument under its tag, in order, where OutboundPacketStream has put it.
THEOREM WhatFitsIsReadBack == LinkSpec => []ReadBack
<1>1. LinkInit => PacketInv /\ WireInv /\ ReadInv
  BY InitIInv, InitWire DEF LinkInit, PacketInv, ReadInv, Init
<1>2. PacketInv /\ WireInv /\ ReadInv /\ [LinkNext]_<<vars, linkVars>>
          => (PacketInv /\ WireInv /\ ReadInv)'
  BY PacketInvStep, WireInvStep, ReadInvStep
<1>3. PacketInv /\ ReadInv => ReadBack
  <2> DEFINE msg == finished[1]
             n == Len(msg.arguments)
             expected == [k \in DOMAIN msg.arguments |->
                             <<Kind[msg.arguments[k]], ArgumentBytes(1, k, 1)[1]>>]
  <2> SUFFICES ASSUME PacketInv, ReadInv, Size <= BufferSize
               PROVE  /\ state # "malformed"
                      /\ AllRead => /\ read = expected
                                    /\ read # << >> => argumentPtr = Len(packet)
    BY DEF ReadBack
  <2>1. state # "malformed"
    BY DEF ReadInv
  <2>2. ASSUME AllRead
        PROVE  read = expected /\ (read # << >> => argumentPtr = Len(packet))
    <3>1. state = "reading" /\ typeTagPtr = typeTagsEnd /\ Len(finished) = 1
      BY <2>2 DEF AllRead, ReadInv
    <3>2. msg \in Message
      BY <3>1, SentMessage DEF PacketInv
    <3>3. Arrived(msg)
      BY <3>1 DEF ReadInv
    <3>4. /\ msg.arguments = << >> => read = << >>
          /\ msg.arguments # << >> => \E k \in 0..n : Walked(msg, k)
      BY <3>1 DEF ReadInv
    <3> HIDE DEF msg
    <3>5. /\ msg.arguments \in Seq(ArgumentLength) /\ n \in Nat /\ AddressRoom(msg) \in Nat
          /\ DOMAIN msg.arguments = 1..n
      BY <3>2, RoomFacts
    <3>6. expected = ReadOf(msg, n)
      <4>1. \A k \in 1..n : ArgumentBytes(1, k, 1)[1] = <<"argument", 1, k, 1>>
        BY DEF ArgumentBytes
      <4>2. QED
        BY <3>5, <4>1 DEF ReadOf
    <3> HIDE DEF expected
    <3>7. CASE msg.arguments = << >>
      <4>1. n = 0
        BY <3>7
      <4>2. ReadOf(msg, 0) = << >>
        BY DEF ReadOf
      <4>3. QED
        BY <3>4, <3>6, <3>7, <4>1, <4>2
    <3>8. CASE msg.arguments # << >>
      <4>1. PICK k \in 0..n : Walked(msg, k)
        BY <3>4, <3>8
      <4>2. k = n
        <5>1. AddressRoom(msg) + 1 + k = AddressRoom(msg) + 1 + n
          BY <3>1, <4>1 DEF Walked
        <5>2. k \in Nat
          BY <3>5
        <5> DEFINE a == AddressRoom(msg)
        <5> HIDE DEF a, n
        <5>3. a + 1 + k = a + 1 + n /\ a \in Nat /\ n \in Nat
          BY <3>5, <5>1 DEF a
        <5>4. QED
          BY <5>2, <5>3
      <4>3. read = ReadOf(msg, n) /\ argumentPtr = Begin(msg, n + 1)
        BY <4>1, <4>2 DEF Walked
      <4>4. Begin(msg, n + 1) = Len(packet)
        BY <3>2, <3>3, BeginFacts
      <4>5. QED
        BY <3>6, <4>3, <4>4
    <3>9. QED
      BY <3>7, <3>8
  <2>3. QED
    BY <2>1, <2>2
<1>4. QED
  BY <1>1, <1>2, <1>3, PTL DEF LinkSpec

==============================================================================
