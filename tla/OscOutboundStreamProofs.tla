----------------------- MODULE OscOutboundStreamProofs -----------------------
(***************************************************************************)
(* For every capacity of the buffer and all lengths of addresses and        *)
(* arguments: what OutboundPacketStream accepts fits, to the last padding   *)
(* byte, Size() tells in advance how long the message will be, and the      *)
(* buffer holds the OSC encodings of the messages and nothing else.         *)
(***************************************************************************)
EXTENDS OscOutboundStream, SequenceTheorems, WellFoundedInduction, TLAPS

USE CapacityAssumption, LengthAssumption

\* The inductive invariant: with a message in progress the room its end needs is
\* free, and without one no argument lies behind the cursor.
IInv ==
    /\ TypeOK
    /\ RoomToEnd
    /\ inProgress => pending \in Message
    /\ ~inProgress => argumentCurrent = messageCursor /\ tagCount = 0

\* What rounding up to a multiple of four does to a length.
LEMMA RoundUp4Facts ==
    ASSUME NEW x \in Nat
    PROVE  /\ RoundUp4(x) \in Nat
           /\ x <= RoundUp4(x)
           /\ RoundUp4(x) <= x + 3
           /\ RoundUp4(x) <= RoundUp4(x + 1)
  BY DEF RoundUp4

\* Writing into the buffer changes no offset.
LEMMA WrittenDomain ==
    ASSUME NEW b, NEW at, NEW s
    PROVE  DOMAIN Written(b, at, s) = DOMAIN b
  BY DEF Written

\* It holds at first,
LEMMA InitIInv == Init => IInv
<1> SUFFICES ASSUME Init PROVE IInv
  OBVIOUS
<1>1. inProgress \in BOOLEAN /\ ~inProgress
  BY Zenon DEF Init
<1>2. messageCursor = 0 /\ argumentCurrent = 0 /\ tagCount = 0
  BY DEF Init
<1>3. /\ DOMAIN bytes = 0..(Capacity - 1)
      /\ pending \in [address : AddressLength \cup {0}, arguments : Seq(ArgumentLength)]
      /\ finished \in Seq(Message)
  BY DEF Init
<1>4. TypeOK
  BY <1>1, <1>2, <1>3 DEF TypeOK
<1>5. RoomToEnd
  BY <1>1, <1>2 DEF RoomToEnd, Size
<1>6. QED
  BY <1>1, <1>2, <1>4, <1>5 DEF IInv

\* and every operation keeps it.
LEMMA BeginMessageStep ==
    ASSUME NEW n \in AddressLength, IInv, BeginMessage(n)
    PROVE  IInv'
<1>1. n \in Nat /\ n + 1 \in Nat
  OBVIOUS
<1> DEFINE slot == RoundUp4(n + 1)
<1>2. slot \in Nat /\ n + 1 <= slot
  BY <1>1, RoundUp4Facts
<1>3. RoundUp4(0 + 2) = 4
  BY DEF RoundUp4
<1>4. /\ messageCursor \in 0..Capacity
      /\ argumentCurrent = messageCursor
      /\ tagCount = 0
      /\ ~inProgress
  BY DEF IInv, TypeOK, BeginMessage
<1>5. messageCursor + slot + 4 <= Capacity
  BY <1>4 DEF BeginMessage, RoomForMessage, Size
<1>6. /\ messageCursor' = messageCursor + slot
      /\ argumentCurrent' = messageCursor + slot
      /\ tagCount' = 0
  BY DEF BeginMessage
<1>7. inProgress' = TRUE /\ inProgress' \in BOOLEAN
  BY Zenon DEF BeginMessage
<1> HIDE DEF slot
<1>8. /\ messageCursor' \in 0..Capacity
      /\ argumentCurrent' \in messageCursor'..Capacity
      /\ tagCount' \in 0..Capacity
  BY <1>2, <1>4, <1>5, <1>6
<1>9. DOMAIN bytes' = 0..(Capacity - 1)
  BY WrittenDomain DEF IInv, TypeOK, BeginMessage
<1>10. pending' \in Message
  BY DEF BeginMessage, Message
<1>11. finished' \in Seq(Message)
  BY DEF IInv, TypeOK, BeginMessage
<1>12. TypeOK'
  BY <1>7, <1>8, <1>9, <1>10, <1>11 DEF TypeOK, Message
<1>13. RoomToEnd'
  BY <1>2, <1>3, <1>4, <1>5, <1>6, <1>7 DEF RoomToEnd, Size
<1>14. QED
  BY <1>7, <1>10, <1>12, <1>13 DEF IInv

\* An argument that was found room for leaves room for the end,
LEMMA AddArgumentStep ==
    ASSUME NEW n \in ArgumentLength, IInv, AddArgument(n)
    PROVE  IInv'
<1> DEFINE length == RoundUp4(n)
           slot == RoundUp4(tagCount + 3)
<1>1. /\ messageCursor \in 0..Capacity
      /\ argumentCurrent \in messageCursor..Capacity
      /\ tagCount \in 0..Capacity
  BY DEF IInv, TypeOK
<1>2. length \in Nat
  BY RoundUp4Facts
<1>3. slot \in Nat /\ tagCount + 3 <= slot
  BY <1>1, RoundUp4Facts
<1>4. argumentCurrent + length + slot <= Capacity
  BY DEF AddArgument, RoomForArgument
<1>5. tagCount' = tagCount + 1 /\ argumentCurrent' = argumentCurrent + length
  BY DEF AddArgument
<1>6. RoundUp4(tagCount' + 2) = slot
  <2>1. tagCount' + 2 = tagCount + 3
    BY <1>1, <1>5
  <2>2. QED
    BY <2>1
<1>7. messageCursor' = messageCursor
  BY DEF AddArgument
<1>8. inProgress /\ inProgress' = inProgress
  BY DEF AddArgument
<1>9. inProgress' /\ inProgress' \in BOOLEAN
  BY <1>8, Zenon DEF IInv, TypeOK
<1> HIDE DEF length, slot
<1>10. /\ messageCursor' \in 0..Capacity
       /\ argumentCurrent' \in messageCursor'..Capacity
       /\ tagCount' \in 0..Capacity
  BY <1>1, <1>2, <1>3, <1>4, <1>5, <1>7
<1>11. DOMAIN bytes' = 0..(Capacity - 1)
  BY WrittenDomain DEF IInv, TypeOK, AddArgument
<1>12. pending' \in Message
  <2>1. pending \in Message
    BY <1>8 DEF IInv
  <2>2. Append(pending.arguments, n) \in Seq(ArgumentLength)
    BY <2>1 DEF Message
  <2>3. pending' = [pending EXCEPT !.arguments = Append(pending.arguments, n)]
    BY DEF AddArgument
  <2>4. QED
    BY <2>1, <2>2, <2>3 DEF Message
<1>13. finished' \in Seq(Message)
  BY DEF IInv, TypeOK, AddArgument
<1>14. TypeOK'
  BY <1>9, <1>10, <1>11, <1>12, <1>13 DEF TypeOK, Message
<1>15. RoomToEnd'
  <2>1. Size' = argumentCurrent' + slot
    BY <1>6, <1>9 DEF Size
  <2>2. argumentCurrent' + tagCount' <= Capacity /\ Size' <= Capacity
    BY <2>1, <1>1, <1>2, <1>3, <1>4, <1>5
  <2>3. QED
    BY <2>2 DEF RoomToEnd
<1>16. QED
  BY <1>9, <1>12, <1>14, <1>15 DEF IInv

\* and the end takes it.
LEMMA EndMessageStep ==
    ASSUME IInv, EndMessage
    PROVE  IInv' /\ Size' = Size
<1> DEFINE slot == RoundUp4(tagCount + 2)
<1>1. /\ messageCursor \in 0..Capacity
      /\ argumentCurrent \in messageCursor..Capacity
      /\ tagCount \in 0..Capacity
  BY DEF IInv, TypeOK
<1>2. slot \in Nat
  BY <1>1, RoundUp4Facts
<1>3. inProgress
  BY DEF EndMessage
<1>4. Size = argumentCurrent + slot
  BY <1>3 DEF Size
<1>5. argumentCurrent + slot <= Capacity
  BY <1>4 DEF IInv, RoomToEnd
<1>6. /\ messageCursor' = argumentCurrent + slot
      /\ argumentCurrent' = argumentCurrent + slot
      /\ tagCount' = 0
  BY DEF EndMessage
<1>7. inProgress' = FALSE /\ inProgress' \in BOOLEAN
  BY Zenon DEF EndMessage
<1> HIDE DEF slot
<1>8. /\ messageCursor' \in 0..Capacity
      /\ argumentCurrent' \in messageCursor'..Capacity
      /\ tagCount' \in 0..Capacity
  BY <1>1, <1>2, <1>5, <1>6
<1>9. DOMAIN bytes' = 0..(Capacity - 1)
  BY WrittenDomain DEF IInv, TypeOK, EndMessage, TagsInserted
<1>10. pending \in Message /\ pending' = pending
  BY <1>3 DEF IInv, EndMessage
<1>11. finished' \in Seq(Message)
  BY <1>10 DEF IInv, TypeOK, EndMessage
<1>12. TypeOK'
  BY <1>7, <1>8, <1>9, <1>10, <1>11 DEF TypeOK, Message
<1>13. Size' = argumentCurrent + slot
  BY <1>1, <1>2, <1>6, <1>7 DEF Size
<1>14. RoomToEnd'
  BY <1>1, <1>2, <1>5, <1>6, <1>13 DEF RoomToEnd
<1>15. QED
  BY <1>4, <1>6, <1>7, <1>12, <1>13, <1>14 DEF IInv

\* So every step keeps the invariant.
LEMMA NextIInv == IInv /\ [Next]_vars => IInv'
<1> SUFFICES ASSUME IInv, [Next]_vars PROVE IInv'
  OBVIOUS
<1>1. CASE \E n \in AddressLength : BeginMessage(n)
  BY <1>1, BeginMessageStep
<1>2. CASE \E n \in ArgumentLength : AddArgument(n)
  BY <1>2, AddArgumentStep
<1>3. CASE EndMessage
  BY <1>3, EndMessageStep
<1>4. CASE UNCHANGED vars
  BY <1>4 DEF vars, cursors, IInv, TypeOK, RoomToEnd, Size, Message
<1>5. QED
  BY <1>1, <1>2, <1>3, <1>4 DEF Next

\* The cursors stay in the buffer and in their order.
THEOREM TypeCorrect == Spec => []TypeOK
<1>1. IInv => TypeOK
  BY DEF IInv
<1>2. QED
  BY InitIInv, NextIInv, <1>1, PTL DEF Spec

\* Whatever the stream accepts, arguments and type tags do not meet, and the end of
\* the message has the room it does not check for (OscOutboundPacketStream.cpp:383).
THEOREM WhatIsAcceptedFits == Spec => []RoomToEnd
<1>1. IInv => RoomToEnd
  BY DEF IInv
<1>2. QED
  BY InitIInv, NextIInv, <1>1, PTL DEF Spec

----------------------------------------------------------------------------
(* The bytes in the buffer. *)

\* < as a relation, for induction over the natural numbers: what the recursive
\* functions below compute is shown by it.
Less == {pair \in Nat \X Nat : pair[1] < pair[2]}

\* A set with 0 and the successor of each of its numbers has all of them.
LEMMA Induction ==
    ASSUME NEW T, 0 \in T, \A n \in Nat : n \in T => n + 1 \in T
    PROVE  Nat \subseteq T
<1>1. IsWellFoundedOn(Less, Nat)
  BY NatLessThanWellFounded DEF OpToRel, Less
<1>2. ASSUME Nat \ T # {} PROVE FALSE
  <2>1. PICK n \in Nat \ T : \A m \in Nat \ T : <<m, n>> \notin Less
    BY <1>1, <1>2, WFMin
  <2>2. n \in Nat /\ n # 0
    BY <2>1
  <2>3. n - 1 \in Nat /\ (n - 1) + 1 = n /\ n - 1 < n
    BY <2>2
  <2>4. <<n - 1, n>> \in Less
    BY <2>2, <2>3 DEF Less
  <2>5. n - 1 \in T
    BY <2>1, <2>3, <2>4
  <2>6. QED
    BY <2>1, <2>3, <2>5
<1>3. QED
  BY <1>2

----------------------------------------------------------------------------
(* FlattenSeq, which SequencesExt defines by a recursive function.          *)

\* f satisfies the equation of that function.
Flattens(f, seqs) ==
    f = [i \in 1..Len(seqs) |-> IF i = 1 THEN seqs[i] ELSE f[i - 1] \o seqs[i]]

\* FlattenSeq is the last value of a function that satisfies the equation,
LEMMA FlattenIsChosen ==
    ASSUME NEW seqs, Len(seqs) # 0
    PROVE  FlattenSeq(seqs) = (CHOOSE f : Flattens(f, seqs))[Len(seqs)]
  BY Zenon DEF FlattenSeq, Flattens

\* of which there is one,
LEMMA FlattenExists ==
    ASSUME NEW S, NEW seqs \in Seq(Seq(S))
    PROVE  \E f \in [1..Len(seqs) -> Seq(S)] : Flattens(f, seqs)
<1> DEFINE N == Len(seqs)
           Upto(f, n) == \A i \in 1..n : f[i] = IF i = 1 THEN seqs[i] ELSE f[i - 1] \o seqs[i]
           P(n) == n <= N => \E f \in [1..n -> Seq(S)] : Upto(f, n)
           T == {n \in Nat : P(n)}
<1>1. N \in Nat /\ \A i \in 1..N : seqs[i] \in Seq(S)
  OBVIOUS
<1> HIDE DEF N
<1>2. P(0)
  <2>1. [i \in 1..0 |-> << >>] \in [1..0 -> Seq(S)]
    OBVIOUS
  <2>2. Upto([i \in 1..0 |-> << >>], 0)
    OBVIOUS
  <2> HIDE DEF Upto
  <2>3. QED
    BY <2>1, <2>2, Zenon
<1>3. ASSUME NEW n \in Nat, P(n) PROVE P(n + 1)
  <2>1. SUFFICES ASSUME n + 1 <= N PROVE \E g \in [1..(n + 1) -> Seq(S)] : Upto(g, n + 1)
    BY Zenon
  <2>2. PICK f \in [1..n -> Seq(S)] : Upto(f, n)
    <3>1. n <= N
      BY <1>1, <2>1
    <3>2. QED
      BY <1>3, <3>1, Zenon
  <2> DEFINE last == IF n + 1 = 1 THEN seqs[n + 1] ELSE f[n] \o seqs[n + 1]
             g == [i \in 1..(n + 1) |-> IF i \in 1..n THEN f[i] ELSE last]
  <2>3. last \in Seq(S)
    <3>1. seqs[n + 1] \in Seq(S)
      BY <1>1, <2>1
    <3>2. CASE n = 0
      BY <3>1, <3>2
    <3>3. CASE n # 0
      <4>1. f[n] \in Seq(S)
        BY <3>3
      <4>2. f[n] \o seqs[n + 1] \in Seq(S)
        BY <3>1, <4>1, ConcatProperties
      <4>3. QED
        BY <3>3, <4>2
    <3>4. QED
      BY <3>2, <3>3
  <2> HIDE DEF last
  <2>4. g \in [1..(n + 1) -> Seq(S)]
    BY <2>3
  <2>5. ASSUME NEW i \in 1..(n + 1) PROVE g[i] = IF i = 1 THEN seqs[i] ELSE g[i - 1] \o seqs[i]
    <3>1. CASE i = n + 1
      <4>1. g[i] = last
        BY <3>1
      <4>2. n # 0 => g[n] = f[n]
        OBVIOUS
      <4> HIDE DEF g
      <4>3. i - 1 = n
        BY <3>1
      <4>4. QED
        BY <3>1, <4>1, <4>2, <4>3 DEF last
    <3>2. CASE i \in 1..n
      <4>1. g[i] = f[i] /\ (i # 1 => g[i - 1] = f[i - 1])
        BY <3>2
      <4>2. f[i] = IF i = 1 THEN seqs[i] ELSE f[i - 1] \o seqs[i]
        BY <2>2, <3>2
      <4> HIDE DEF g
      <4>3. QED
        BY <4>1, <4>2
    <3>3. QED
      BY <3>1, <3>2
  <2> HIDE DEF g
  <2>6. Upto(g, n + 1)
    BY <2>5
  <2>7. QED
    BY <2>4, <2>6, Zenon
<1> HIDE DEF P
<1>4. Nat \subseteq T
  <2>1. 0 \in T /\ \A n \in Nat : n \in T => n + 1 \in T
    BY <1>2, <1>3
  <2> HIDE DEF T
  <2>2. QED
    BY <2>1, Induction
<1>5. P(N) /\ N <= N
  BY <1>1, <1>4
<1> HIDE DEF Upto
<1>6. PICK f \in [1..N -> Seq(S)] : Upto(f, N)
  BY <1>5, Zenon DEF P
<1>7. Flattens(f, seqs)
  BY <1>6 DEF Flattens, N, Upto
<1>8. QED
  BY <1>6, <1>7 DEF N

\* and any of them gives the same value.
LEMMA FlattenIs ==
    ASSUME NEW S, NEW seqs \in Seq(Seq(S)), NEW f \in [1..Len(seqs) -> Seq(S)],
           Flattens(f, seqs), Len(seqs) # 0
    PROVE  FlattenSeq(seqs) = f[Len(seqs)]
<1> DEFINE N == Len(seqs)
           g == CHOOSE h : Flattens(h, seqs)
           T == {n \in Nat : n \in 1..N => f[n] = g[n]}
<1>1. N \in Nat /\ N # 0
  OBVIOUS
<1>2. Flattens(g, seqs)
  BY Zenon
<1>3. \A i \in 1..N : g[i] = IF i = 1 THEN seqs[i] ELSE g[i - 1] \o seqs[i]
  <2> HIDE DEF g
  <2>1. QED
    BY <1>2 DEF Flattens
<1>4. \A i \in 1..N : f[i] = IF i = 1 THEN seqs[i] ELSE f[i - 1] \o seqs[i]
  BY DEF Flattens
<1> HIDE DEF g, N
<1>5. 0 \in T
  OBVIOUS
<1>6. ASSUME NEW n \in Nat, n \in T PROVE n + 1 \in T
  <2>1. CASE n + 1 \notin 1..N
    BY <2>1
  <2>2. CASE n + 1 \in 1..N /\ n = 0
    BY <1>3, <1>4, <2>2
  <2>3. CASE n + 1 \in 1..N /\ n # 0
    <3>1. n \in 1..N /\ (n + 1) - 1 = n /\ n + 1 # 1
      BY <1>1, <2>3
    <3>2. f[n] = g[n]
      BY <1>6, <3>1
    <3>3. f[n + 1] = f[(n + 1) - 1] \o seqs[n + 1] /\ g[n + 1] = g[(n + 1) - 1] \o seqs[n + 1]
      BY <1>3, <1>4, <2>3, <3>1
    <3>4. f[n + 1] = g[n + 1]
      BY <3>1, <3>2, <3>3
    <3>5. QED
      BY <3>4
  <2>4. QED
    BY <2>1, <2>2, <2>3
<1>7. Nat \subseteq T
  <2> HIDE DEF T
  <2>1. QED
    BY <1>5, <1>6, Induction
<1>8. f[N] = g[N]
  BY <1>1, <1>7
<1>9. QED
  BY <1>8, FlattenIsChosen DEF g, N

\* What it comes to: of nothing, nothing;
LEMMA FlattenSeqEmpty == FlattenSeq(<< >>) = << >>
  BY DEF FlattenSeq

\* of sequences, a sequence of their elements;
LEMMA FlattenSeqType ==
    ASSUME NEW S, NEW seqs \in Seq(Seq(S))
    PROVE  FlattenSeq(seqs) \in Seq(S)
<1>1. CASE Len(seqs) = 0
  <2>1. seqs = << >>
    BY <1>1
  <2>2. << >> \in Seq(S)
    OBVIOUS
  <2>3. QED
    BY <2>1, <2>2, FlattenSeqEmpty
<1>2. CASE Len(seqs) # 0
  <2>1. PICK f \in [1..Len(seqs) -> Seq(S)] : Flattens(f, seqs)
    BY FlattenExists
  <2>2. Len(seqs) \in 1..Len(seqs)
    BY <1>2
  <2>3. FlattenSeq(seqs) = f[Len(seqs)]
    BY <1>2, <2>1, FlattenIs
  <2>4. QED
    BY <2>2, <2>3
<1>3. QED
  BY <1>1, <1>2

\* and a piece more is one more at the end.
LEMMA FlattenSeqAppend ==
    ASSUME NEW S, NEW seqs \in Seq(Seq(S)), NEW s \in Seq(S)
    PROVE  FlattenSeq(Append(seqs, s)) = FlattenSeq(seqs) \o s
<1> DEFINE more == Append(seqs, s)
           N == Len(seqs)
<1>1. /\ more \in Seq(Seq(S)) /\ Len(more) = N + 1 /\ N \in Nat
      /\ \A i \in 1..N : more[i] = seqs[i]
      /\ more[N + 1] = s
  OBVIOUS
<1>2. Len(more) # 0
  BY <1>1
<1> HIDE DEF more
<1>3. PICK f \in [1..Len(more) -> Seq(S)] : Flattens(f, more)
  BY <1>1, FlattenExists
<1>4. FlattenSeq(more) = f[N + 1]
  BY <1>1, <1>2, <1>3, FlattenIs
<1>5. \A i \in 1..(N + 1) : f[i] = IF i = 1 THEN more[i] ELSE f[i - 1] \o more[i]
  BY <1>1, <1>3 DEF Flattens
<1>6. CASE N = 0
  <2>1. seqs = << >>
    BY <1>6
  <2>2. FlattenSeq(seqs) = << >>
    BY <2>1, FlattenSeqEmpty
  <2>3. f[N + 1] = s
    BY <1>1, <1>5, <1>6
  <2>4. << >> \o s = s
    BY ConcatEmptySeq
  <2>5. QED
    BY <1>4, <2>2, <2>3, <2>4 DEF more
<1>7. CASE N # 0
  <2> DEFINE g == [i \in 1..N |-> f[i]]
  <2>1. g \in [1..N -> Seq(S)]
    BY <1>1
  <2>2. g = [i \in 1..N |-> IF i = 1 THEN seqs[i] ELSE g[i - 1] \o seqs[i]]
    <3>1. ASSUME NEW i \in 1..N PROVE f[i] = IF i = 1 THEN seqs[i] ELSE g[i - 1] \o seqs[i]
      <4>1. i \in 1..(N + 1) /\ (i # 1 => i - 1 \in 1..N)
        BY <1>1
      <4>2. i # 1 => g[i - 1] = f[i - 1]
        BY <4>1
      <4> HIDE DEF g
      <4>3. QED
        BY <1>1, <1>5, <4>1, <4>2
    <3>2. QED
      BY <3>1
  <2>3. g[N] = f[N] /\ N \in 1..N
    BY <1>1, <1>7
  <2> HIDE DEF g
  <2>4. Flattens(g, seqs)
    BY <2>2 DEF Flattens
  <2>5. FlattenSeq(seqs) = g[N]
    BY <1>7, <2>1, <2>4, FlattenIs
  <2>6. f[N + 1] = f[N] \o s
    <3>1. N + 1 \in 1..(N + 1) /\ N + 1 # 1 /\ (N + 1) - 1 = N
      BY <1>1, <1>7
    <3>2. f[N + 1] = f[(N + 1) - 1] \o more[N + 1]
      BY <1>5, <3>1
    <3>3. QED
      BY <1>1, <3>1, <3>2
  <2>7. QED
    BY <1>4, <2>3, <2>5, <2>6 DEF more
<1>8. QED
  BY <1>6, <1>7

----------------------------------------------------------------------------
(* The buffer. *)

Buffer(S) == [0..(Capacity - 1) -> S]

\* A function from 1..n is a sequence of that length.
LEMMA SeqAsFunction ==
    ASSUME NEW S, NEW n \in Nat, NEW s \in [1..n -> S]
    PROVE  s \in Seq(S) /\ Len(s) = n
<1>1. s \in Seq(S)
  BY SeqDef
<1>2. QED
  BY <1>1, LenProperties

\* A concatenation is recognised by its elements.
LEMMA ConcatIs ==
    ASSUME NEW S, NEW s \in Seq(S), NEW t \in Seq(S), NEW r \in Seq(S),
           Len(r) = Len(s) + Len(t),
           \A i \in 1..Len(s) : r[i] = s[i],
           \A i \in 1..Len(t) : r[Len(s) + i] = t[i]
    PROVE  r = s \o t
<1>1. /\ s \o t \in Seq(S) /\ Len(s \o t) = Len(s) + Len(t)
      /\ \A i \in 1..Len(s) + Len(t) : (s \o t)[i] = IF i <= Len(s) THEN s[i] ELSE t[i - Len(s)]
  BY ConcatProperties
<1> DEFINE c == s \o t
<1>2. c \in Seq(S) /\ Len(c) = Len(s) + Len(t)
  BY <1>1
<1>3. \A i \in 1..(Len(s) + Len(t)) : c[i] = IF i <= Len(s) THEN s[i] ELSE t[i - Len(s)]
  BY <1>1
<1> HIDE DEF c
<1>4. ASSUME NEW i \in 1..Len(r) PROVE r[i] = c[i]
  <2>1. Len(s) \in Nat /\ Len(t) \in Nat /\ i \in 1..(Len(s) + Len(t))
    OBVIOUS
  <2>2. CASE i <= Len(s)
    <3>1. i \in 1..Len(s)
      BY <2>1, <2>2
    <3>2. QED
      BY <1>3, <2>1, <2>2, <3>1
  <2>3. CASE ~(i <= Len(s))
    <3>1. i - Len(s) \in 1..Len(t) /\ Len(s) + (i - Len(s)) = i
      BY <2>1, <2>3
    <3>2. r[Len(s) + (i - Len(s))] = t[i - Len(s)]
      BY <3>1
    <3>3. QED
      BY <1>3, <2>1, <2>3, <3>1, <3>2
  <2>4. QED
    BY <2>2, <2>3
<1>5. r = c
  BY <1>2, <1>4, SeqEqual
<1>6. QED
  BY <1>5 DEF c

\* The bytes between two offsets, one by one,
LEMMA BytesType ==
    ASSUME NEW S, NEW b \in Buffer(S), NEW i \in Nat, NEW j \in Nat, i <= j, j <= Capacity
    PROVE  /\ Bytes(b, i, j) \in Seq(S)
           /\ Len(Bytes(b, i, j)) = j - i
           /\ \A k \in 1..(j - i) : Bytes(b, i, j)[k] = b[i + k - 1]
<1>1. j - i \in Nat
  OBVIOUS
<1>2. \A k \in 1..(j - i) : i + k - 1 \in 0..(Capacity - 1)
  OBVIOUS
<1>3. Bytes(b, i, j) \in [1..(j - i) -> S]
  BY <1>2 DEF Bytes, Buffer
<1>4. QED
  BY <1>1, <1>3, SeqAsFunction DEF Bytes

\* and put together from two parts.
LEMMA BytesConcat ==
    ASSUME NEW S, NEW b \in Buffer(S), NEW i \in Nat, NEW j \in Nat, NEW k \in Nat,
           i <= j, j <= k, k <= Capacity
    PROVE  Bytes(b, i, k) = Bytes(b, i, j) \o Bytes(b, j, k)
<1> DEFINE r == Bytes(b, i, k)
           s == Bytes(b, i, j)
           t == Bytes(b, j, k)
<1>1. i <= k /\ j <= Capacity /\ j - i \in Nat /\ k - j \in Nat
  OBVIOUS
<1>2. r \in Seq(S) /\ Len(r) = k - i /\ \A x \in 1..(k - i) : r[x] = b[i + x - 1]
  BY <1>1, BytesType
<1>3. s \in Seq(S) /\ Len(s) = j - i /\ \A x \in 1..(j - i) : s[x] = b[i + x - 1]
  BY <1>1, BytesType
<1>4. t \in Seq(S) /\ Len(t) = k - j /\ \A x \in 1..(k - j) : t[x] = b[j + x - 1]
  BY <1>1, BytesType
<1> HIDE DEF r, s, t
<1>5. Len(r) = Len(s) + Len(t)
  BY <1>1, <1>2, <1>3, <1>4
<1>6. ASSUME NEW x \in 1..Len(s) PROVE r[x] = s[x]
  <2>1. x \in 1..(j - i) /\ x \in 1..(k - i)
    BY <1>1, <1>3
  <2>2. QED
    BY <1>2, <1>3, <2>1
<1>7. ASSUME NEW x \in 1..Len(t) PROVE r[Len(s) + x] = t[x]
  <2>1. x \in 1..(k - j) /\ (j - i) + x \in 1..(k - i) /\ i + ((j - i) + x) - 1 = j + x - 1
    BY <1>1, <1>4
  <2>2. r[(j - i) + x] = b[i + ((j - i) + x) - 1]
    BY <1>2, <2>1
  <2>3. QED
    BY <1>3, <1>4, <2>1, <2>2
<1>8. r = s \o t
  BY <1>2, <1>3, <1>4, <1>5, <1>6, <1>7, ConcatIs
<1>9. QED
  BY <1>8 DEF r, s, t

\* Writing s gives a buffer again,
LEMMA WrittenType ==
    ASSUME NEW S, NEW b \in Buffer(S), NEW at \in Nat, NEW s \in Seq(S)
    PROVE  Written(b, at, s) \in Buffer(S)
<1>1. DOMAIN b = 0..(Capacity - 1)
  BY DEF Buffer
<1>2. ASSUME NEW i \in 0..(Capacity - 1), i \in at..(at + Len(s) - 1) PROVE s[i - at + 1] \in S
  <2>1. i - at + 1 \in 1..Len(s)
    BY <1>2
  <2>2. QED
    BY <2>1
<1>3. \A i \in 0..(Capacity - 1) : b[i] \in S
  BY DEF Buffer
<1>4. QED
  BY <1>1, <1>2, <1>3 DEF Written, Buffer

\* which has s in its place and is elsewhere as it was.
LEMMA WrittenAt ==
    ASSUME NEW S, NEW b \in Buffer(S), NEW at \in Nat, NEW s \in Seq(S),
           NEW i \in 0..(Capacity - 1)
    PROVE  /\ i \in at..(at + Len(s) - 1) => Written(b, at, s)[i] = s[i - at + 1]
           /\ i \notin at..(at + Len(s) - 1) => Written(b, at, s)[i] = b[i]
<1>1. DOMAIN b = 0..(Capacity - 1)
  BY DEF Buffer
<1>2. QED
  BY <1>1 DEF Written

\* What was written is there.
LEMMA BytesWritten ==
    ASSUME NEW S, NEW b \in Buffer(S), NEW at \in Nat, NEW s \in Seq(S),
           NEW end \in Nat, end = at + Len(s), end <= Capacity
    PROVE  Bytes(Written(b, at, s), at, end) = s
<1> DEFINE w == Written(b, at, s)
           r == Bytes(w, at, end)
<1>1. at <= end /\ Len(s) \in Nat /\ end - at = Len(s)
  OBVIOUS
<1>2. w \in Buffer(S)
  BY WrittenType
<1>3. \A i \in 0..(Capacity - 1) : i \in at..(at + Len(s) - 1) => w[i] = s[i - at + 1]
  BY WrittenAt
<1> HIDE DEF w
<1>4. r \in Seq(S) /\ Len(r) = Len(s) /\ \A k \in 1..Len(s) : r[k] = w[at + k - 1]
  <2>1. at <= end
    BY <1>1
  <2>2. /\ r \in Seq(S) /\ Len(r) = end - at
        /\ \A k \in 1..(end - at) : r[k] = w[at + k - 1]
    <3>1. end - at \in Nat /\ \A k \in 1..(end - at) : at + k - 1 \in 0..(Capacity - 1)
      BY <1>1
    <3>2. r \in [1..(end - at) -> S]
      BY <1>2, <3>1 DEF Bytes, Buffer
    <3>3. QED
      BY <3>1, <3>2, SeqAsFunction DEF Bytes
  <2> HIDE DEF r
  <2>3. QED
    BY <1>1, <2>2
<1> HIDE DEF r
<1>5. ASSUME NEW k \in 1..Len(r) PROVE r[k] = s[k]
  <2>1. k \in 1..Len(s)
    BY <1>4
  <2>2. /\ at + k - 1 \in 0..(Capacity - 1) /\ at + k - 1 \in at..(at + Len(s) - 1)
        /\ (at + k - 1) - at + 1 = k
    BY <1>1, <2>1, CapacityAssumption
  <2>3. QED
    BY <1>3, <1>4, <2>1, <2>2
<1>6. r = s
  BY <1>4, <1>5, SeqEqual
<1>7. QED
  BY <1>6 DEF r, w

\* What lies below s is as it was, and what lies above it.
LEMMA BytesKept ==
    ASSUME NEW S, NEW b \in Buffer(S), NEW at \in Nat, NEW s \in Seq(S),
           NEW i \in Nat, NEW j \in Nat, i <= j, j <= Capacity,
           j <= at \/ at + Len(s) <= i
    PROVE  Bytes(Written(b, at, s), i, j) = Bytes(b, i, j)
<1> DEFINE w == Written(b, at, s)
<1>1. \A x \in 0..(Capacity - 1) : x \notin at..(at + Len(s) - 1) => w[x] = b[x]
  BY WrittenAt
<1> HIDE DEF w
<1>2. ASSUME NEW k \in 1..(j - i) PROVE w[i + k - 1] = b[i + k - 1]
  <2>1. i + k - 1 \in 0..(Capacity - 1) /\ i + k - 1 \notin at..(at + Len(s) - 1)
    OBVIOUS
  <2>2. QED
    BY <1>1, <2>1
<1>3. Bytes(w, i, j) = Bytes(b, i, j)
  BY <1>2 DEF Bytes
<1>4. QED
  BY <1>3 DEF w

\* Appended where the bytes end, s comes behind them.
LEMMA BytesAppended ==
    ASSUME NEW S, NEW b \in Buffer(S), NEW i \in Nat, NEW at \in Nat, i <= at, NEW s \in Seq(S),
           NEW end \in Nat, end = at + Len(s), end <= Capacity
    PROVE  Bytes(Written(b, at, s), i, end) = Bytes(b, i, at) \o s
<1> DEFINE w == Written(b, at, s)
<1>1. at <= end /\ at <= Capacity
  OBVIOUS
<1>2. w \in Buffer(S)
  BY WrittenType
<1>3. Bytes(w, i, at) = Bytes(b, i, at)
  BY <1>1, BytesKept
<1>4. Bytes(w, at, end) = s
  BY BytesWritten
<1> HIDE DEF w
<1>5. Bytes(w, i, end) = Bytes(w, i, at) \o Bytes(w, at, end)
  BY <1>1, <1>2, BytesConcat
<1>6. QED
  BY <1>3, <1>4, <1>5 DEF w

\* Padding: a multiple of four, zeros behind the end.
LEMMA PaddedType ==
    ASSUME NEW S, Zero \in S, NEW s \in Seq(S)
    PROVE  /\ Padded(s) \in Seq(S)
           /\ Len(Padded(s)) = RoundUp4(Len(s))
           /\ \A i \in 1..RoundUp4(Len(s)) :
                  Padded(s)[i] = IF i <= Len(s) THEN s[i] ELSE Zero
<1> DEFINE n == Len(s)
           m == RoundUp4(Len(s))
           z == [i \in 1..(m - n) |-> Zero]
<1>1. n \in Nat /\ m \in Nat /\ n <= m
  BY RoundUp4Facts
<1> HIDE DEF n, m
<1>2. z \in [1..(m - n) -> S] /\ m - n \in Nat /\ \A i \in 1..(m - n) : z[i] = Zero
  BY <1>1
<1> HIDE DEF z
<1>3. z \in Seq(S) /\ Len(z) = m - n
  BY <1>2, SeqAsFunction
<1>4. Padded(s) = s \o z
  BY DEF Padded, z, m, n
<1>5. /\ s \o z \in Seq(S) /\ Len(s \o z) = Len(s) + Len(z)
      /\ \A i \in 1..Len(s) + Len(z) : (s \o z)[i] = IF i <= Len(s) THEN s[i] ELSE z[i - Len(s)]
  BY <1>3, ConcatProperties
<1>6. Len(s) + Len(z) = m
  BY <1>1, <1>3 DEF n
<1>7. ASSUME NEW i \in 1..m PROVE Padded(s)[i] = IF i <= Len(s) THEN s[i] ELSE Zero
  <2>1. Padded(s)[i] = IF i <= Len(s) THEN s[i] ELSE z[i - Len(s)]
    BY <1>4, <1>5, <1>6
  <2>2. ~(i <= Len(s)) => i - Len(s) \in 1..(m - n)
    BY <1>1 DEF n
  <2>3. QED
    BY <1>2, <2>1, <2>2
<1>8. QED
  BY <1>4, <1>5, <1>6, <1>7 DEF m

----------------------------------------------------------------------------
(* The bytes of messages. *)

\* The bytes there can be.
Symbol == {Garbage, Zero, Comma}
          \cup ({"address"} \X Nat \X Nat)
          \cup ({"tag"} \X Nat \X Nat)
          \cup ({"argument"} \X Nat \X Nat \X Nat)

\* The encodings of messages, the arguments and the type tags of the m-th.
Encodings(msgs) == [m \in DOMAIN msgs |-> Encoded(msgs[m], m)]
Arguments(m, lengths) == [k \in 1..Len(lengths) |-> Padded(ArgumentBytes(m, k, lengths[k]))]
TypeTags(m, n) == <<Comma>> \o [k \in 1..n |-> Tag(m, k)] \o <<Zero>>

\* The number of the message in progress.
Current == Len(finished) + 1

\* The invariant of the bytes. The finished messages lie at the beginning, behind them
\* the address of the message in progress, between the cursors its arguments, and its
\* type tags backwards from the end of the buffer.
WireInv ==
    /\ bytes \in Buffer(Symbol)
    /\ ~inProgress => Bytes(bytes, 0, messageCursor) = FlattenSeq(Encodings(finished))
    /\ inProgress =>
          /\ tagCount = Len(pending.arguments)
          /\ Bytes(bytes, 0, messageCursor) =
                 FlattenSeq(Encodings(finished)) \o Padded(AddressBytes(Current, pending.address))
          /\ Bytes(bytes, messageCursor, argumentCurrent) =
                 FlattenSeq(Arguments(Current, pending.arguments))
          /\ \A k \in 1..tagCount : bytes[Capacity - k] = Tag(Current, k)
----------------------------------------------------------------------------
\* All these are bytes.
LEMMA SymbolFacts ==
    /\ Zero \in Symbol /\ Comma \in Symbol /\ Garbage \in Symbol
    /\ \A m, k \in Nat : Tag(m, k) \in Symbol
    /\ \A m, k \in Nat : <<"address", m, k>> \in Symbol
    /\ \A m, k, i \in Nat : <<"argument", m, k, i>> \in Symbol
  BY Zenon DEF Symbol, Tag

\* Lengths add up.
LEMMA ConcatType ==
    ASSUME NEW S, NEW s \in Seq(S), NEW t \in Seq(S)
    PROVE  s \o t \in Seq(S) /\ Len(s \o t) = Len(s) + Len(t)
  BY ConcatProperties

\* The parts of a message: how long they are.
LEMMA AddressBytesType ==
    ASSUME NEW m \in Nat, NEW n \in Nat
    PROVE  /\ AddressBytes(m, n) \in Seq(Symbol) /\ Len(AddressBytes(m, n)) = n + 1
           /\ Padded(AddressBytes(m, n)) \in Seq(Symbol)
           /\ Len(Padded(AddressBytes(m, n))) = RoundUp4(n + 1)
<1> DEFINE a == [i \in 1..n |-> <<"address", m, i>>]
<1>1. a \in [1..n -> Symbol]
  BY SymbolFacts
<1> HIDE DEF a
<1>2. a \in Seq(Symbol) /\ Len(a) = n
  BY <1>1, SeqAsFunction
<1>3. <<Zero>> \in Seq(Symbol) /\ Len(<<Zero>>) = 1
  BY SymbolFacts
<1>4. a \o <<Zero>> \in Seq(Symbol) /\ Len(a \o <<Zero>>) = n + 1
  BY <1>2, <1>3, ConcatType
<1>5. AddressBytes(m, n) \in Seq(Symbol) /\ Len(AddressBytes(m, n)) = n + 1
  BY <1>4 DEF AddressBytes, a
<1>6. QED
  BY <1>5, PaddedType, SymbolFacts

\* Likewise the bytes of an argument,
LEMMA ArgumentBytesType ==
    ASSUME NEW m \in Nat, NEW k \in Nat, NEW n \in Nat
    PROVE  /\ ArgumentBytes(m, k, n) \in Seq(Symbol) /\ Len(ArgumentBytes(m, k, n)) = n
           /\ Padded(ArgumentBytes(m, k, n)) \in Seq(Symbol)
           /\ Len(Padded(ArgumentBytes(m, k, n))) = RoundUp4(n)
<1>1. ArgumentBytes(m, k, n) \in [1..n -> Symbol]
  BY SymbolFacts DEF ArgumentBytes
<1>2. ArgumentBytes(m, k, n) \in Seq(Symbol) /\ Len(ArgumentBytes(m, k, n)) = n
  BY <1>1, SeqAsFunction
<1>3. QED
  BY <1>2, PaddedType, SymbolFacts

\* the type tags,
LEMMA TypeTagsType ==
    ASSUME NEW m \in Nat, NEW n \in Nat
    PROVE  /\ TypeTags(m, n) \in Seq(Symbol) /\ Len(TypeTags(m, n)) = n + 2
           /\ Padded(TypeTags(m, n)) \in Seq(Symbol)
           /\ Len(Padded(TypeTags(m, n))) = RoundUp4(n + 2)
<1> DEFINE t == [k \in 1..n |-> Tag(m, k)]
<1>1. t \in [1..n -> Symbol]
  BY SymbolFacts
<1> HIDE DEF t
<1>2. t \in Seq(Symbol) /\ Len(t) = n
  BY <1>1, SeqAsFunction
<1>3. /\ <<Zero>> \in Seq(Symbol) /\ Len(<<Zero>>) = 1
      /\ <<Comma>> \in Seq(Symbol) /\ Len(<<Comma>>) = 1
  BY SymbolFacts
<1>4. <<Comma>> \o t \in Seq(Symbol) /\ Len(<<Comma>> \o t) = n + 1
  BY <1>2, <1>3, ConcatType
<1>5. <<Comma>> \o t \o <<Zero>> \in Seq(Symbol) /\ Len(<<Comma>> \o t \o <<Zero>>) = n + 2
  BY <1>3, <1>4, ConcatType
<1>6. TypeTags(m, n) \in Seq(Symbol) /\ Len(TypeTags(m, n)) = n + 2
  BY <1>5 DEF TypeTags, t
<1>7. QED
  BY <1>6, PaddedType, SymbolFacts

\* all arguments
LEMMA ArgumentsType ==
    ASSUME NEW m \in Nat, NEW lengths \in Seq(ArgumentLength)
    PROVE  Arguments(m, lengths) \in Seq(Seq(Symbol)) /\ Len(Arguments(m, lengths)) = Len(lengths)
<1>1. Len(lengths) \in Nat
  OBVIOUS
<1>2. ASSUME NEW k \in 1..Len(lengths)
      PROVE  Padded(ArgumentBytes(m, k, lengths[k])) \in Seq(Symbol)
  <2>1. k \in Nat /\ lengths[k] \in ArgumentLength
    BY <1>1
  <2>2. lengths[k] \in Nat
    BY <2>1
  <2>3. QED
    BY <2>1, <2>2, ArgumentBytesType
<1>3. Arguments(m, lengths) \in [1..Len(lengths) -> Seq(Symbol)]
  BY <1>2 DEF Arguments
<1>4. QED
  BY <1>1, <1>3, SeqAsFunction

\* An argument more is a piece more behind the others.
LEMMA ArgumentsAppend ==
    ASSUME NEW m \in Nat, NEW lengths \in Seq(ArgumentLength), NEW n \in ArgumentLength
    PROVE  Arguments(m, Append(lengths, n)) =
               Append(Arguments(m, lengths), Padded(ArgumentBytes(m, Len(lengths) + 1, n)))
<1> DEFINE N == Len(lengths)
           more == Append(lengths, n)
           p == Padded(ArgumentBytes(m, N + 1, n))
           a == Arguments(m, lengths)
           b == Arguments(m, more)
<1>1. /\ N \in Nat /\ more \in Seq(ArgumentLength) /\ Len(more) = N + 1
      /\ \A k \in 1..N : more[k] = lengths[k]
      /\ more[N + 1] = n
  OBVIOUS
<1>2. a \in Seq(Seq(Symbol)) /\ Len(a) = N
  BY ArgumentsType
<1>3. p \in Seq(Symbol)
  <2>1. n \in Nat /\ N + 1 \in Nat
    BY <1>1
  <2>2. QED
    BY <2>1, ArgumentBytesType
<1>4. \A k \in 1..N : a[k] = Padded(ArgumentBytes(m, k, lengths[k]))
  BY DEF Arguments
<1> HIDE DEF more
<1>5. b \in Seq(Seq(Symbol)) /\ Len(b) = N + 1
  BY <1>1, ArgumentsType
<1>6. \A k \in 1..(N + 1) : b[k] = Padded(ArgumentBytes(m, k, more[k]))
  BY <1>1 DEF Arguments
<1>7. b[N + 1] = p
  <2>1. N + 1 \in 1..(N + 1)
    BY <1>1
  <2>2. QED
    BY <1>1, <1>6, <2>1
<1>8. \A k \in 1..N : b[k] = a[k]
  BY <1>1, <1>4, <1>6
<1> HIDE DEF N, p, a, b
<1>9. /\ Append(a, p) \in Seq(Seq(Symbol)) /\ Len(Append(a, p)) = N + 1
      /\ \A k \in 1..N : Append(a, p)[k] = a[k]
      /\ Append(a, p)[N + 1] = p
  BY <1>2, <1>3
<1>10. ASSUME NEW k \in 1..Len(b) PROVE b[k] = Append(a, p)[k]
  <2>1. N \in Nat /\ k \in 1..(N + 1)
    BY <1>1, <1>5
  <2>2. k = N + 1 \/ k \in 1..N
    BY <2>1
  <2>3. QED
    BY <1>7, <1>8, <1>9, <2>2
<1>11. b = Append(a, p)
  BY <1>5, <1>9, <1>10, SeqEqual
<1>12. QED
  BY <1>11 DEF N, p, a, b, more

\* An encoding in the words above.
LEMMA EncodedIs ==
    ASSUME NEW m \in Nat, NEW msg \in Message
    PROVE  /\ Encoded(msg, m) = Padded(AddressBytes(m, msg.address))
                   \o Padded(TypeTags(m, Len(msg.arguments)))
                   \o FlattenSeq(Arguments(m, msg.arguments))
           /\ Encoded(msg, m) \in Seq(Symbol)
<1>1. msg.address \in Nat /\ msg.arguments \in Seq(ArgumentLength) /\ Len(msg.arguments) \in Nat
  <2>1. msg.address \in AddressLength /\ msg.arguments \in Seq(ArgumentLength)
    BY DEF Message
  <2>2. Len(msg.arguments) \in Nat
    BY <2>1, LenProperties
  <2>3. msg.address \in Nat
    BY <2>1, Zenon
  <2>4. QED
    BY <2>1, <2>2, <2>3
<1> DEFINE a == Padded(AddressBytes(m, msg.address))
           t == Padded(TypeTags(m, Len(msg.arguments)))
           g == FlattenSeq(Arguments(m, msg.arguments))
<1>2. Encoded(msg, m) = a \o t \o g
  BY Zenon DEF Encoded, TypeTags, Arguments
<1>3. a \in Seq(Symbol) /\ t \in Seq(Symbol)
  BY <1>1, AddressBytesType, TypeTagsType
<1>4. g \in Seq(Symbol)
  BY <1>1, ArgumentsType, FlattenSeqType
<1> HIDE DEF a, t, g
<1>5. a \o t \o g \in Seq(Symbol)
  BY <1>3, <1>4, ConcatType
<1>6. QED
  BY <1>2, <1>5 DEF a, t, g

\* and the encodings of all messages.
LEMMA EncodingsType ==
    ASSUME NEW msgs \in Seq(Message)
    PROVE  Encodings(msgs) \in Seq(Seq(Symbol)) /\ Len(Encodings(msgs)) = Len(msgs)
<1>1. Len(msgs) \in Nat /\ DOMAIN msgs = 1..Len(msgs)
  OBVIOUS
<1>2. ASSUME NEW m \in 1..Len(msgs) PROVE Encoded(msgs[m], m) \in Seq(Symbol)
  BY <1>1, EncodedIs
<1>3. Encodings(msgs) \in [1..Len(msgs) -> Seq(Symbol)]
  BY <1>1, <1>2 DEF Encodings
<1>4. QED
  BY <1>1, <1>3, SeqAsFunction

\* A message more is an encoding more behind the others.
LEMMA EncodingsAppend ==
    ASSUME NEW msgs \in Seq(Message), NEW msg \in Message
    PROVE  Encodings(Append(msgs, msg)) =
               Append(Encodings(msgs), Encoded(msg, Len(msgs) + 1))
<1> DEFINE N == Len(msgs)
           more == Append(msgs, msg)
           p == Encoded(msg, N + 1)
           a == Encodings(msgs)
           b == Encodings(more)
<1>1. /\ N \in Nat /\ more \in Seq(Message) /\ Len(more) = N + 1
      /\ \A k \in 1..N : more[k] = msgs[k]
      /\ more[N + 1] = msg
      /\ DOMAIN msgs = 1..N /\ DOMAIN more = 1..(N + 1)
  OBVIOUS
<1>2. a \in Seq(Seq(Symbol)) /\ Len(a) = N
  BY EncodingsType
<1>3. p \in Seq(Symbol)
  BY <1>1, EncodedIs
<1>4. \A k \in 1..N : a[k] = Encoded(msgs[k], k)
  BY <1>1 DEF Encodings
<1> HIDE DEF more
<1>5. b \in Seq(Seq(Symbol)) /\ Len(b) = N + 1
  BY <1>1, EncodingsType
<1>6. \A k \in 1..(N + 1) : b[k] = Encoded(more[k], k)
  BY <1>1 DEF Encodings
<1>7. b[N + 1] = p
  <2>1. N + 1 \in 1..(N + 1)
    BY <1>1
  <2>2. QED
    BY <1>1, <1>6, <2>1
<1>8. \A k \in 1..N : b[k] = a[k]
  BY <1>1, <1>4, <1>6
<1> HIDE DEF N, p, a, b
<1>9. /\ Append(a, p) \in Seq(Seq(Symbol)) /\ Len(Append(a, p)) = N + 1
      /\ \A k \in 1..N : Append(a, p)[k] = a[k]
      /\ Append(a, p)[N + 1] = p
  BY <1>2, <1>3
<1>10. ASSUME NEW k \in 1..Len(b) PROVE b[k] = Append(a, p)[k]
  <2>1. N \in Nat /\ k \in 1..(N + 1)
    BY <1>1, <1>5
  <2>2. k = N + 1 \/ k \in 1..N
    BY <2>1
  <2>3. QED
    BY <1>7, <1>8, <1>9, <2>2
<1>11. b = Append(a, p)
  BY <1>5, <1>9, <1>10, SeqEqual
<1>12. QED
  BY <1>11 DEF N, p, a, b, more

\* The invariant of the bytes holds of the empty buffer, and every step keeps it.
LEMMA InitWire == Init => WireInv
<1> SUFFICES ASSUME Init PROVE WireInv
  OBVIOUS
<1>1. bytes \in Buffer(Symbol)
  BY SymbolFacts DEF Init, Buffer
<1>2. ~inProgress
  BY Zenon DEF Init
<1>3. Bytes(bytes, 0, messageCursor) = << >>
  BY DEF Init, Bytes
<1>4. FlattenSeq(Encodings(finished)) = << >>
  <2>1. Encodings(finished) = << >>
    BY DEF Init, Encodings
  <2>2. QED
    BY <2>1, FlattenSeqEmpty
<1>5. QED
  BY <1>1, <1>2, <1>3, <1>4 DEF WireInv

\* The cursors in numbers, for the steps below.
LEMMA CursorFacts ==
    ASSUME IInv
    PROVE  /\ messageCursor \in Nat /\ argumentCurrent \in Nat /\ tagCount \in Nat
           /\ messageCursor <= argumentCurrent /\ argumentCurrent <= Capacity
           /\ finished \in Seq(Message) /\ Current \in Nat
           /\ ~inProgress => argumentCurrent = messageCursor
           /\ inProgress => /\ pending.address \in Nat
                            /\ pending.arguments \in Seq(ArgumentLength)
                            /\ pending \in Message
                            /\ argumentCurrent + RoundUp4(tagCount + 2) <= Capacity
<1>1. /\ messageCursor \in 0..Capacity
      /\ argumentCurrent \in messageCursor..Capacity
      /\ tagCount \in 0..Capacity
      /\ finished \in Seq(Message)
  BY DEF IInv, TypeOK
<1>2. Current \in Nat
  <2>1. Len(finished) \in Nat
    BY <1>1, LenProperties
  <2>2. QED
    BY <2>1 DEF Current
<1>3. ~inProgress => argumentCurrent = messageCursor
  BY DEF IInv
<1>4. ASSUME inProgress PROVE /\ pending.address \in Nat
                              /\ pending.arguments \in Seq(ArgumentLength)
                              /\ pending \in Message
                              /\ argumentCurrent + RoundUp4(tagCount + 2) <= Capacity
  <2>1. pending \in Message
    BY <1>4 DEF IInv
  <2>2. pending.address \in AddressLength /\ pending.arguments \in Seq(ArgumentLength)
    BY <2>1 DEF Message
  <2>3. pending.address \in Nat
    BY <2>2, Zenon
  <2>4. Size <= Capacity /\ Size = argumentCurrent + RoundUp4(tagCount + 2)
    BY <1>4 DEF IInv, RoomToEnd, Size
  <2>5. QED
    BY <2>1, <2>2, <2>3, <2>4
<1>5. QED
  BY <1>1, <1>2, <1>3, <1>4

\* BeginMessage puts the address behind the messages completed.
LEMMA BeginMessageWire ==
    ASSUME NEW n \in AddressLength, IInv, WireInv, BeginMessage(n)
    PROVE  WireInv'
<1> DEFINE a == Padded(AddressBytes(Current, n))
           f == FlattenSeq(Encodings(finished))
<1>1. n \in Nat /\ ~inProgress /\ inProgress' = TRUE
  BY Zenon DEF BeginMessage
<1>2. /\ messageCursor \in Nat /\ argumentCurrent = messageCursor /\ Current \in Nat
  BY <1>1, CursorFacts
<1>3. a \in Seq(Symbol) /\ Len(a) = RoundUp4(n + 1) /\ Len(a) \in Nat
  BY <1>1, <1>2, AddressBytesType, LenProperties
<1>4. /\ messageCursor' = messageCursor + Len(a) /\ argumentCurrent' = messageCursor'
      /\ tagCount' = 0 /\ finished' = finished /\ Current' = Current
      /\ pending' = [address |-> n, arguments |-> << >>]
      /\ bytes' = Written(bytes, messageCursor, a)
  BY <1>3 DEF BeginMessage, Current
<1>5. messageCursor + Len(a) <= Capacity
  <2>1. Size = messageCursor
    BY <1>1, <1>2 DEF Size
  <2>2. messageCursor + RoundUp4(n + 1) + 4 <= Capacity
    BY <2>1 DEF BeginMessage, RoomForMessage
  <2>3. QED
    BY <1>2, <1>3, <2>2
<1>6. bytes \in Buffer(Symbol) /\ Bytes(bytes, 0, messageCursor) = f
  BY <1>1 DEF WireInv
<1> HIDE DEF a, f
<1>7. messageCursor \in 0..Capacity
  BY <1>2, <1>3, <1>5
<1>8. bytes' \in Buffer(Symbol)
  BY <1>2, <1>3, <1>4, <1>6, WrittenType
<1>9. Bytes(bytes', 0, messageCursor') = f \o a
  <2> DEFINE end == messageCursor + Len(a)
  <2>1. end \in Nat /\ end <= Capacity /\ 0 \in Nat /\ 0 <= messageCursor
    BY <1>2, <1>3, <1>5
  <2>2. end = messageCursor + Len(a)
    OBVIOUS
  <2> HIDE DEF end
  <2>3. bytes \in Buffer(Symbol) /\ a \in Seq(Symbol) /\ messageCursor \in Nat
    BY <1>2, <1>3, <1>6
  <2>4. Bytes(Written(bytes, messageCursor, a), 0, end) = Bytes(bytes, 0, messageCursor) \o a
    BY <2>1, <2>2, <2>3, BytesAppended
  <2>5. QED
    BY <1>4, <1>6, <2>2, <2>4
<1>10. Bytes(bytes', messageCursor', argumentCurrent') = << >>
  <2>1. messageCursor' \in Nat /\ argumentCurrent' - messageCursor' = 0
    BY <1>2, <1>3, <1>4
  <2>2. 1..0 = {}
    OBVIOUS
  <2>3. QED
    BY <2>1, <2>2 DEF Bytes
<1>11. FlattenSeq(Arguments(Current', pending'.arguments)) = << >>
  <2>1. pending'.arguments = << >>
    BY <1>4
  <2>2. Arguments(Current', << >>) = << >>
    BY DEF Arguments
  <2>3. QED
    BY <2>1, <2>2, FlattenSeqEmpty
<1>12. f' = f /\ pending'.address = n /\ tagCount' = Len(pending'.arguments)
  BY <1>4 DEF f
<1>13. /\ tagCount' = Len(pending'.arguments)
       /\ Bytes(bytes', 0, messageCursor') =
              FlattenSeq(Encodings(finished')) \o Padded(AddressBytes(Current', pending'.address))
       /\ Bytes(bytes', messageCursor', argumentCurrent') =
              FlattenSeq(Arguments(Current', pending'.arguments))
       /\ \A k \in 1..tagCount' : bytes'[Capacity - k] = Tag(Current', k)
  BY <1>4, <1>9, <1>10, <1>11, <1>12 DEF a, f
<1>14. QED
  BY <1>1, <1>8, <1>13, Zenon DEF WireInv

\* AddArgument puts the argument behind the others and its tag in front of the others;
\* RoomForArgument keeps them apart.
LEMMA AddArgumentWire ==
    ASSUME NEW n \in ArgumentLength, IInv, WireInv, AddArgument(n)
    PROVE  WireInv'
<1> DEFINE p == Padded(ArgumentBytes(Current, tagCount + 1, n))
           t == <<Tag(Current, tagCount + 1)>>
           at == Capacity - (tagCount + 1)
           w == Written(bytes, at, t)
           f == FlattenSeq(Encodings(finished))
           g == FlattenSeq(Arguments(Current, pending.arguments))
<1>1. n \in Nat
  OBVIOUS
<1>2. inProgress
  BY DEF AddArgument
<1>3. /\ messageCursor \in Nat /\ argumentCurrent \in Nat /\ tagCount \in Nat
      /\ messageCursor <= argumentCurrent /\ argumentCurrent <= Capacity /\ Current \in Nat
      /\ pending.arguments \in Seq(ArgumentLength)
  BY <1>2, CursorFacts
<1>4. p \in Seq(Symbol) /\ Len(p) = RoundUp4(n) /\ Len(p) \in Nat
  <2>1. tagCount + 1 \in Nat
    BY <1>3
  <2>2. QED
    BY <1>1, <1>3, <2>1, ArgumentBytesType, LenProperties
<1>5. t \in Seq(Symbol) /\ Len(t) = 1 /\ t[1] = Tag(Current, tagCount + 1)
  <2>1. tagCount + 1 \in Nat
    BY <1>3
  <2>2. Tag(Current, tagCount + 1) \in Symbol
    BY <1>3, <2>1, SymbolFacts
  <2>3. QED
    BY <2>2
<1>6. /\ tagCount' = tagCount + 1 /\ argumentCurrent' = argumentCurrent + Len(p)
      /\ messageCursor' = messageCursor /\ finished' = finished /\ Current' = Current
      /\ inProgress' = inProgress
      /\ pending' = [pending EXCEPT !.arguments = Append(@, n)]
      /\ bytes' = Written(w, argumentCurrent, p)
  BY <1>4 DEF AddArgument, Current
<1>7. argumentCurrent + Len(p) <= at /\ at \in Nat /\ at + 1 <= Capacity
  <2>1. argumentCurrent + Len(p) + RoundUp4(tagCount + 3) <= Capacity
    BY <1>4 DEF AddArgument, RoomForArgument
  <2>2. tagCount + 3 <= RoundUp4(tagCount + 3) /\ RoundUp4(tagCount + 3) \in Nat
    <3>1. tagCount + 3 \in Nat
      BY <1>3
    <3>2. QED
      BY <3>1, RoundUp4Facts, Zenon
  <2>3. QED
    BY <1>3, <1>4, <2>1, <2>2
<1>8. /\ bytes \in Buffer(Symbol)
      /\ tagCount = Len(pending.arguments)
      /\ Bytes(bytes, 0, messageCursor) = f \o Padded(AddressBytes(Current, pending.address))
      /\ Bytes(bytes, messageCursor, argumentCurrent) = g
      /\ \A k \in 1..tagCount : bytes[Capacity - k] = Tag(Current, k)
  BY <1>2 DEF WireInv
<1>9. pending' \in Message /\ pending'.address = pending.address
      /\ pending'.arguments = Append(pending.arguments, n)
  <2>1. pending \in Message
    BY <1>2, CursorFacts
  <2>2. Append(pending.arguments, n) \in Seq(ArgumentLength)
    BY <1>3
  <2>3. QED
    BY <1>6, <2>1, <2>2 DEF Message
<1>10. Arguments(Current, Append(pending.arguments, n)) =
           Append(Arguments(Current, pending.arguments), p)
  BY <1>3, <1>8, ArgumentsAppend
<1>11. FlattenSeq(Arguments(Current, Append(pending.arguments, n))) = g \o p
  <2>1. Arguments(Current, pending.arguments) \in Seq(Seq(Symbol))
    BY <1>3, ArgumentsType
  <2>2. QED
    BY <1>4, <1>10, <2>1, FlattenSeqAppend
<1>12. w \in Buffer(Symbol)
  <2> HIDE DEF at, t
  <2>1. QED
    BY <1>5, <1>7, <1>8, WrittenType
<1>13. Bytes(w, 0, messageCursor) = Bytes(bytes, 0, messageCursor)
       /\ Bytes(w, messageCursor, argumentCurrent) = Bytes(bytes, messageCursor, argumentCurrent)
  <2> HIDE DEF t, at, p
  <2>1. /\ messageCursor <= at /\ argumentCurrent <= at /\ messageCursor <= Capacity
        /\ 0 \in Nat /\ 0 <= messageCursor
    BY <1>3, <1>4, <1>7
  <2>2. QED
    BY <1>3, <1>5, <1>7, <1>8, <2>1, BytesKept
<1> HIDE DEF p, f, g, t, at, w
<1> DEFINE end == argumentCurrent + Len(p)
<1>14. /\ end \in Nat /\ end <= Capacity /\ end <= at /\ 0 \in Nat /\ 0 <= messageCursor
       /\ messageCursor <= Capacity
  BY <1>3, <1>4, <1>7
<1>15. end = argumentCurrent + Len(p)
  OBVIOUS
<1> HIDE DEF end
<1>16. bytes' \in Buffer(Symbol)
  BY <1>3, <1>4, <1>6, <1>12, WrittenType
<1>17. /\ Bytes(bytes', 0, messageCursor) = Bytes(w, 0, messageCursor)
       /\ Bytes(bytes', messageCursor, end) = g \o p
  <2>1. p \in Seq(Symbol) /\ argumentCurrent \in Nat /\ messageCursor \in Nat
        /\ messageCursor <= argumentCurrent
    BY <1>3, <1>4
  <2>2. Bytes(Written(w, argumentCurrent, p), 0, messageCursor) = Bytes(w, 0, messageCursor)
    BY <1>12, <1>14, <2>1, BytesKept
  <2>3. Bytes(Written(w, argumentCurrent, p), messageCursor, end) =
            Bytes(w, messageCursor, argumentCurrent) \o p
    BY <1>12, <1>14, <1>15, <2>1, BytesAppended
  <2>4. QED
    BY <1>6, <1>8, <1>13, <2>2, <2>3, Zenon
<1>18. ASSUME NEW k \in 1..tagCount' PROVE bytes'[Capacity - k] = Tag(Current, k)
  <2> DEFINE i == Capacity - k
  <2>1. /\ k \in 1..(tagCount + 1) /\ i \in 0..(Capacity - 1)
        /\ i \notin argumentCurrent..(argumentCurrent + Len(p) - 1)
    <3>1. /\ tagCount \in Nat /\ argumentCurrent \in Nat /\ Len(p) \in Nat
          /\ k \in 1..(tagCount + 1)
      BY <1>3, <1>4, <1>6
    <3>2. argumentCurrent + Len(p) <= Capacity - (tagCount + 1)
      BY <1>7 DEF at
    <3>3. i >= Capacity - (tagCount + 1) /\ i <= Capacity - 1
      BY <3>1
    <3>4. QED
      BY <3>1, <3>2, <3>3
  <2> HIDE DEF i
  <2>2. bytes'[i] = w[i]
    BY <1>3, <1>4, <1>6, <1>12, <2>1, WrittenAt
  <2>3. CASE k = tagCount + 1
    <3>1. i = at
      BY <2>3 DEF at, i
    <3>2. i \in at..(at + Len(t) - 1) /\ i - at + 1 = 1
      BY <1>5, <1>7, <3>1
    <3>3. bytes \in Buffer(Symbol) /\ t \in Seq(Symbol) /\ at \in Nat /\ i \in 0..(Capacity - 1)
      BY <1>5, <1>7, <1>8, <2>1
    <3>4. w[i] = t[i - at + 1]
      BY <3>2, <3>3, WrittenAt DEF w
    <3>5. QED
      BY <1>5, <2>2, <2>3, <3>2, <3>4 DEF i
  <2>4. CASE k \in 1..tagCount
    <3>1. i \notin at..(at + Len(t) - 1)
      BY <1>3, <1>5, <1>7, <2>4 DEF at, i
    <3>2. bytes \in Buffer(Symbol) /\ t \in Seq(Symbol) /\ at \in Nat /\ i \in 0..(Capacity - 1)
      BY <1>5, <1>7, <1>8, <2>1
    <3>3. w[i] = bytes[i]
      BY <3>1, <3>2, WrittenAt DEF w
    <3>4. QED
      BY <1>8, <2>2, <2>4, <3>3 DEF i
  <2>5. QED
    BY <1>3, <2>1, <2>3, <2>4
<1>19. tagCount' = Len(pending'.arguments)
  <2>1. Len(Append(pending.arguments, n)) = Len(pending.arguments) + 1
    BY <1>3
  <2>2. QED
    BY <1>6, <1>8, <1>9, <2>1
<1>20. f' = f
  BY <1>6 DEF f
<1>21. inProgress'
  BY <1>2, <1>6
<1>22. /\ Bytes(bytes', 0, messageCursor') =
              FlattenSeq(Encodings(finished')) \o Padded(AddressBytes(Current', pending'.address))
       /\ Bytes(bytes', messageCursor', argumentCurrent') =
              FlattenSeq(Arguments(Current', pending'.arguments))
  BY <1>6, <1>8, <1>9, <1>11, <1>13, <1>15, <1>17, <1>20 DEF f
<1>23. \A k \in 1..tagCount' : bytes'[Capacity - k] = Tag(Current', k)
  BY <1>6, <1>18
<1>24. QED
  BY <1>16, <1>19, <1>21, <1>22, <1>23, Zenon DEF WireInv

\* What lies in the type tag area, read backwards, is the tags in their order.
LEMMA TagsInIs ==
    ASSUME bytes \in Buffer(Symbol), tagCount \in 0..Capacity, NEW m \in Nat,
           \A k \in 1..tagCount : bytes[Capacity - k] = Tag(m, k)
    PROVE  TagsIn(bytes) = [k \in 1..tagCount |-> Tag(m, k)]
<1> DEFINE i == Capacity - tagCount
           r == Bytes(bytes, i, Capacity)
<1>1. /\ i \in Nat /\ i <= Capacity /\ Capacity <= Capacity /\ Capacity \in Nat
      /\ Capacity - i = tagCount /\ tagCount \in Nat
  OBVIOUS
<1> HIDE DEF i
<1>2. /\ r \in Seq(Symbol) /\ Len(r) = tagCount
      /\ \A k \in 1..tagCount : r[k] = bytes[i + k - 1]
  <2>1. /\ r \in Seq(Symbol) /\ Len(r) = Capacity - i
        /\ \A k \in 1..(Capacity - i) : r[k] = bytes[i + k - 1]
    <3>1. i \in Nat /\ Capacity \in Nat /\ i <= Capacity /\ Capacity <= Capacity
      BY <1>1
    <3>2. QED
      BY <3>1, BytesType
  <2> HIDE DEF r
  <2>2. QED
    BY <1>1, <2>1
<1> HIDE DEF r
<1>3. ASSUME NEW k \in 1..tagCount PROVE r[tagCount - k + 1] = Tag(m, k)
  <2>1. tagCount - k + 1 \in 1..tagCount /\ i + (tagCount - k + 1) - 1 = Capacity - k
    BY <1>1 DEF i
  <2>2. r[tagCount - k + 1] = bytes[i + (tagCount - k + 1) - 1]
    BY <1>2, <2>1
  <2>3. QED
    BY <2>1, <2>2
<1>4. Reverse(r) = [k \in 1..tagCount |-> r[tagCount - k + 1]]
  BY <1>2 DEF Reverse
<1>5. Reverse(r) = [k \in 1..tagCount |-> Tag(m, k)]
  BY <1>3, <1>4
<1>6. QED
  BY <1>5 DEF TagsIn, r, i

\* The bytes of w up to mid are those of b up to first and then t, and those from
\* there to end the ones of b from first to last.
SlotIsIn(w, b, t, first, last, mid, end) ==
    /\ Bytes(w, 0, mid) = Bytes(b, 0, first) \o t
    /\ Bytes(w, mid, end) = Bytes(b, first, last)

\* The arguments moved up by a slot and the slot filled: whatever the buffer, the
\* bytes before the arguments stay, the slot follows, and the arguments come last.
LEMMA SlotInserted ==
    ASSUME NEW S, NEW b \in Buffer(S), NEW first \in Nat, NEW last \in Nat, first <= last,
           NEW t \in Seq(S), NEW mid \in Nat, mid = first + Len(t),
           NEW end \in Nat, end = last + Len(t), end <= Capacity,
           NEW w, w = Written(Written(b, mid, Bytes(b, first, last)), first, t)
    PROVE  w \in Buffer(S) /\ SlotIsIn(w, b, t, first, last, mid, end)
<1> DEFINE g == Bytes(b, first, last)
           moved == Written(b, mid, g)
           v == Written(moved, first, t)
<1>1. Len(t) \in Nat /\ last <= Capacity
  BY LenProperties
<1>2. g \in Seq(S) /\ Len(g) = last - first
  <2>1. last <= Capacity
    BY <1>1
  <2>2. QED
    BY <2>1, BytesType
<1> HIDE DEF g
<1>3. /\ first <= mid /\ mid <= end /\ mid <= Capacity
      /\ end = mid + Len(g) /\ 0 \in Nat /\ 0 <= first /\ 0 <= mid /\ first <= Capacity
      /\ first + Len(t) <= mid
  BY <1>1, <1>2
<1>4. moved \in Buffer(S)
  BY <1>2, <1>3, WrittenType
<1>5. Bytes(moved, mid, end) = g
  <2>1. mid \in Nat /\ end = mid + Len(g) /\ g \in Seq(S)
    BY <1>2, <1>3
  <2>2. QED
    BY <2>1, BytesWritten
<1>6. Bytes(moved, 0, first) = Bytes(b, 0, first)
  BY <1>2, <1>3, BytesKept
<1> HIDE DEF moved
<1>7. v \in Buffer(S)
  BY <1>4, WrittenType
<1>8. Bytes(v, 0, mid) = Bytes(moved, 0, first) \o t
  <2>1. moved \in Buffer(S) /\ 0 \in Nat /\ 0 <= first /\ mid <= Capacity
    BY <1>3, <1>4
  <2>2. Bytes(Written(moved, first, t), 0, mid) = Bytes(moved, 0, first) \o t
    BY <2>1, BytesAppended
  <2>3. QED
    BY <2>2, Zenon
<1>9. Bytes(v, mid, end) = Bytes(moved, mid, end)
  BY <1>3, <1>4, BytesKept
<1> HIDE DEF v
<1>10. v = w
  BY DEF v, moved, g
<1>11. QED
  BY <1>5, <1>6, <1>7, <1>8, <1>9, <1>10, Zenon DEF g, SlotIsIn

\* EndMessage puts the tags between address and arguments.
LEMMA EndMessageWire ==
    ASSUME IInv, WireInv, EndMessage
    PROVE  WireInv'
<1> DEFINE a == Padded(AddressBytes(Current, pending.address))
           t == Padded(TypeTags(Current, tagCount))
           f == FlattenSeq(Encodings(finished))
           g == FlattenSeq(Arguments(Current, pending.arguments))
           e == Encoded(pending, Current)
<1>1. inProgress
  BY DEF EndMessage
<1>2. /\ messageCursor \in Nat /\ argumentCurrent \in Nat /\ messageCursor <= argumentCurrent
      /\ tagCount \in 0..Capacity /\ tagCount \in Nat /\ Current \in Nat
      /\ argumentCurrent + RoundUp4(tagCount + 2) <= Capacity
      /\ finished \in Seq(Message) /\ pending \in Message
  <2>1. tagCount \in 0..Capacity
    BY DEF IInv, TypeOK
  <2>2. QED
    BY <1>1, <2>1, CursorFacts
<1>3. /\ bytes \in Buffer(Symbol)
      /\ tagCount = Len(pending.arguments)
      /\ Bytes(bytes, 0, messageCursor) = f \o a
      /\ Bytes(bytes, messageCursor, argumentCurrent) = g
      /\ \A k \in 1..tagCount : bytes[Capacity - k] = Tag(Current, k)
  BY <1>1 DEF WireInv
<1>4. t \in Seq(Symbol) /\ Len(t) = RoundUp4(tagCount + 2)
  BY <1>2, TypeTagsType, Zenon
<1>5. t = Padded(<<Comma>> \o TagsIn(bytes) \o <<Zero>>)
  <2>1. TagsIn(bytes) = [k \in 1..tagCount |-> Tag(Current, k)]
    BY <1>2, <1>3, TagsInIs, Zenon
  <2>2. QED
    BY <2>1, Zenon DEF TypeTags
<1>6. /\ messageCursor' = argumentCurrent + Len(t)
      /\ finished' = Append(finished, pending)
      /\ ~inProgress'
  BY <1>4, Zenon DEF EndMessage
<1>7. bytes' = Written(Written(bytes, messageCursor + Len(t),
                               Bytes(bytes, messageCursor, argumentCurrent)),
                       messageCursor, t)
  BY <1>4, <1>5, Zenon DEF EndMessage, TagsInserted
<1> HIDE DEF a, t, f, g, e
<1> DEFINE mid == messageCursor + Len(t)
           end == argumentCurrent + Len(t)
<1>8. /\ mid \in Nat /\ mid = messageCursor + Len(t) /\ 0 \in Nat /\ 0 <= mid /\ mid <= end
      /\ end \in Nat /\ end = argumentCurrent + Len(t) /\ end <= Capacity
  BY <1>2, <1>4, LenProperties
<1> HIDE DEF mid, end
<1>9. /\ bytes' \in Buffer(Symbol)
      /\ Bytes(bytes', 0, mid) = Bytes(bytes, 0, messageCursor) \o t
      /\ Bytes(bytes', mid, end) = Bytes(bytes, messageCursor, argumentCurrent)
  <2>1. /\ messageCursor \in Nat /\ argumentCurrent \in Nat /\ messageCursor <= argumentCurrent
        /\ bytes \in Buffer(Symbol) /\ t \in Seq(Symbol)
    BY <1>2, <1>3, <1>4
  <2>2. bytes' = Written(Written(bytes, mid, Bytes(bytes, messageCursor, argumentCurrent)),
                         messageCursor, t)
    BY <1>7, <1>8
  <2>3. bytes' \in Buffer(Symbol)
    BY <1>8, <2>1, <2>2, SlotInserted, Zenon
  <2>4. SlotIsIn(bytes', bytes, t, messageCursor, argumentCurrent, mid, end)
    BY <1>8, <2>1, <2>2, SlotInserted, Zenon
  <2>5. QED
    BY <2>3, <2>4 DEF SlotIsIn
<1>10. Bytes(bytes', 0, messageCursor') = ((f \o a) \o t) \o g
  <2>1. /\ bytes' \in Buffer(Symbol) /\ 0 \in Nat /\ mid \in Nat /\ end \in Nat
        /\ 0 <= mid /\ mid <= end /\ end <= Capacity
    BY <1>8, <1>9
  <2>2. Bytes(bytes', 0, end) = Bytes(bytes', 0, mid) \o Bytes(bytes', mid, end)
    BY <2>1, BytesConcat
  <2>3. QED
    BY <1>3, <1>6, <1>8, <1>9, <2>2
<1>11. e = (a \o t) \o g /\ e \in Seq(Symbol)
  BY <1>2, <1>3, EncodedIs DEF a, t, g, e
<1>12. f \in Seq(Symbol) /\ Encodings(finished) \in Seq(Seq(Symbol))
  BY <1>2, EncodingsType, FlattenSeqType DEF f
<1>13. a \in Seq(Symbol) /\ g \in Seq(Symbol)
  <2>1. pending.address \in Nat /\ pending.arguments \in Seq(ArgumentLength)
    BY <1>1, CursorFacts
  <2>2. a \in Seq(Symbol)
    BY <1>2, <2>1, AddressBytesType, Zenon DEF a
  <2>3. g \in Seq(Symbol)
    BY <1>2, <2>1, ArgumentsType, FlattenSeqType, Zenon DEF g
  <2>4. QED
    BY <2>2, <2>3
<1>14. ((f \o a) \o t) \o g = f \o e
  <2> DEFINE u == a \o t
  <2>1. f \in Seq(Symbol) /\ a \in Seq(Symbol) /\ t \in Seq(Symbol) /\ g \in Seq(Symbol)
    BY <1>4, <1>12, <1>13
  <2>2. (f \o a) \o t = f \o u
    BY <2>1, ConcatAssociative
  <2>3. u \in Seq(Symbol)
    BY <2>1, ConcatType
  <2> HIDE DEF u
  <2>4. (f \o u) \o g = f \o (u \o g)
    BY <2>1, <2>3, ConcatAssociative
  <2>5. QED
    BY <1>11, <2>2, <2>4 DEF u
<1>15. FlattenSeq(Encodings(finished')) = f \o e
  <2>1. Encodings(finished') = Append(Encodings(finished), e)
    BY <1>2, <1>6, EncodingsAppend, Zenon DEF e, Current
  <2>2. QED
    BY <1>11, <1>12, <2>1, FlattenSeqAppend, Zenon DEF f
<1>16. QED
  BY <1>6, <1>9, <1>10, <1>14, <1>15, Zenon DEF WireInv

\* So every step keeps the invariant,
LEMMA NextWire == IInv /\ WireInv /\ [Next]_vars => WireInv'
<1> SUFFICES ASSUME IInv, WireInv, [Next]_vars PROVE WireInv'
  OBVIOUS
<1>1. CASE \E n \in AddressLength : BeginMessage(n)
  BY <1>1, BeginMessageWire
<1>2. CASE \E n \in ArgumentLength : AddArgument(n)
  BY <1>2, AddArgumentWire
<1>3. CASE EndMessage
  BY <1>3, EndMessageWire
<1>4. CASE UNCHANGED vars
  BY <1>4 DEF vars, cursors, WireInv, Current
<1>5. QED
  BY <1>1, <1>2, <1>3, <1>4 DEF Next

\* which is the wire format when no message is in progress.
LEMMA WireInvSuffices == IInv /\ WireInv => WireFormat
<1> SUFFICES ASSUME IInv, WireInv, ~inProgress
             PROVE  Bytes(bytes, 0, Size) =
                        FlattenSeq([m \in DOMAIN finished |-> Encoded(finished[m], m)])
  BY Zenon DEF WireFormat
<1>1. Size = messageCursor
  <2>1. Size = argumentCurrent + 0
    BY DEF Size
  <2>2. QED
    BY <2>1, CursorFacts
<1>2. QED
  BY <1>1, Zenon DEF WireInv, Encodings

\* Between two messages the buffer holds the encodings of those completed, to the last
\* padding byte, whatever the lengths of addresses and arguments and their number
\* (OscOutboundPacketStream.cpp:352-400: the tags are saved before the arguments move
\* over them).
THEOREM BufferHoldsWireFormat == Spec => []WireFormat
<1>1. Init => IInv /\ WireInv
  BY InitIInv, InitWire
<1>2. (IInv /\ WireInv) /\ [Next]_vars => (IInv /\ WireInv)'
  BY NextIInv, NextWire
<1>3. QED
  BY <1>1, <1>2, WireInvSuffices, PTL DEF Spec
=============================================================================
