------------------------- MODULE OscInProcessorProofs -------------------------
(***************************************************************************)
(* For all int32s, argument lists, names and lists of outputs: what o2m     *)
(* gives to a port is a complete MIDI message, goes only to whom it is      *)
(* addressed, and is understood as what was asked for.                      *)
(***************************************************************************)
EXTENDS OscInProcessor, FiniteSetTheorems, SequenceTheorems, WellFoundedInduction, TLAPS

\* A status byte that is no system message, with as many seven-bit bytes as it asks for.
LEMMA TwoDataBytes ==
    ASSUME NEW s \in (128..191) \cup (224..239), NEW x \in 0..127, NEW y \in 0..127
    PROVE  WellFormed(<<s, x, y>>)
<1> DEFINE b == <<s, x, y>>
<1>1. Len(b) = 3 /\ b[1] = s /\ b[2] = x /\ b[3] = y
  OBVIOUS
<1> HIDE DEF b
<1>2. \A i \in 2..Len(b) : b[i] \in 0..127
  <2> TAKE i \in 2..Len(b)
  <2>1. i = 2 \/ i = 3
    BY <1>1
  <2>2. QED
    BY <1>1, <2>1
<1>3. WellFormed(b)
  BY <1>1, <1>2 DEF WellFormed
<1>4. QED
  BY <1>3 DEF b

LEMMA OneDataByte ==
    ASSUME NEW s \in 192..223, NEW x \in 0..127
    PROVE  WellFormed(<<s, x>>)
<1> DEFINE b == <<s, x>>
<1>1. Len(b) = 2 /\ b[1] = s /\ b[2] = x
  OBVIOUS
<1> HIDE DEF b
<1>2. \A i \in 2..Len(b) : b[i] \in 0..127
  <2> TAKE i \in 2..Len(b)
  <2>1. i = 2
    BY <1>1
  <2>2. QED
    BY <1>1, <2>1
<1>3. WellFormed(b)
  BY <1>1, <1>2 DEF WellFormed
<1>4. QED
  BY <1>3 DEF b

LEMMA ChannelMessageIsWellFormed ==
    ASSUME NEW command \in DOMAIN Type, NEW channel \in Int,
           NEW a, a[2] \in Int, Int32sExpected[command] = 3 => a[3] \in Int
    PROVE  WellFormed(ChannelMessage(command, channel, a))
<1> DEFINE first == InitialByte(Type[command], channel)
           b == ChannelMessage(command, channel, a)
<1>1. \E nibble \in 0..15 : first = Type[command] + nibble
  BY DEF InitialByte, Limit
<1>2. a[2] % 128 \in 0..127 /\ (a[2] \div 128) % 128 \in 0..127
  OBVIOUS
<1>3. CASE command \in {"note_on", "note_off"}
  <2>1. a[3] \in Int
    BY <1>3 DEF Int32sExpected
  <2>2. Velocity(a[3]) \in 0..127
    BY <2>1 DEF Velocity, Limit
  <2>3. b = <<first, a[2] % 128, Velocity(a[3])>>
    BY <1>3 DEF ChannelMessage
  <2>4. Type[command] \in {128, 144}
    BY <1>3 DEF Type
  <2> HIDE DEF first, b
  <2>5. first \in (128..191) \cup (224..239)
    BY <1>1, <2>4
  <2>6. WellFormed(b)
    <3> DEFINE x == a[2] % 128
               y == Velocity(a[3])
    <3>1. x \in 0..127 /\ y \in 0..127 /\ b = <<first, x, y>>
      BY <1>2, <2>2, <2>3
    <3> HIDE DEF x, y
    <3>2. QED
      BY <2>5, <3>1, TwoDataBytes
  <2>7. QED
    BY <2>6 DEF b
<1>4. CASE command \in {"control_change", "poly_pressure"}
  <2>1. a[3] \in Int
    BY <1>4 DEF Int32sExpected
  <2>2. a[3] % 128 \in 0..127
    BY <2>1
  <2>3. b = <<first, a[2] % 128, a[3] % 128>>
    BY <1>4 DEF ChannelMessage
  <2>4. Type[command] \in {160, 176}
    BY <1>4 DEF Type
  <2> HIDE DEF first, b
  <2>5. first \in (128..191) \cup (224..239)
    BY <1>1, <2>4
  <2>6. WellFormed(b)
    <3> DEFINE x == a[2] % 128
               y == a[3] % 128
    <3>1. x \in 0..127 /\ y \in 0..127 /\ b = <<first, x, y>>
      BY <1>2, <2>2, <2>3
    <3> HIDE DEF x, y
    <3>2. QED
      BY <2>5, <3>1, TwoDataBytes
  <2>7. QED
    BY <2>6 DEF b
<1>5. CASE command = "pitch_bend"
  <2>1. b = <<first, a[2] % 128, (a[2] \div 128) % 128>>
    BY <1>5 DEF ChannelMessage
  <2>2. Type[command] = 224
    BY <1>5 DEF Type
  <2> HIDE DEF first, b
  <2>3. first \in (128..191) \cup (224..239)
    BY <1>1, <2>2
  <2>4. WellFormed(b)
    <3> DEFINE x == a[2] % 128
               y == (a[2] \div 128) % 128
    <3>1. x \in 0..127 /\ y \in 0..127 /\ b = <<first, x, y>>
      BY <1>2, <2>1
    <3> HIDE DEF x, y
    <3>2. QED
      BY <2>3, <3>1, TwoDataBytes
  <2>5. QED
    BY <2>4 DEF b
<1>6. CASE command \in {"program_change", "channel_pressure"}
  <2>1. b = <<first, a[2] % 128>>
    BY <1>6 DEF ChannelMessage
  <2>2. Type[command] \in {192, 208}
    BY <1>6 DEF Type
  <2> HIDE DEF first, b
  <2>3. first \in 192..223
    BY <1>1, <2>2
  <2>4. WellFormed(b)
    BY <1>2, <2>1, <2>3, OneDataByte
  <2>5. QED
    BY <2>4 DEF b
<1>7. QED
  BY <1>3, <1>4, <1>5, <1>6 DEF Type

\* Right arguments are as many int32s as the handler takes.
LEMMA RightArguments ==
    ASSUME NEW m \in Message, m.command \in DOMAIN Int32sExpected, ArgumentsAreRight(m)
    PROVE  \A i \in 1..Int32sExpected[m.command] : Ints(m)[i] \in Int
<1>1. m.arguments \in Seq(Argument)
  BY ArgumentAssumption DEF Message
<1>2. DOMAIN m.arguments = 1..Int32sExpected[m.command]
  BY <1>1 DEF ArgumentsAreRight
<1>3. SUFFICES ASSUME NEW i \in 1..Int32sExpected[m.command]
               PROVE  Ints(m)[i] \in Int
  OBVIOUS
<1>4. m.arguments[i] \in Argument /\ m.arguments[i].tag = "int32"
  BY <1>1, <1>2, <1>3 DEF ArgumentsAreRight
<1>5. m.arguments[i].value \in Int32Value
  BY <1>4 DEF Argument
<1>6. QED
  BY <1>2, <1>5, ValueAssumption DEF Ints

LEMMA ChannelMessagesAreWellFormed ==
    ASSUME NEW m \in Message, m.command \in DOMAIN Type, ArgumentsAreRight(m)
    PROVE  LET messages == ChannelMessages(m.command, Ints(m))
           IN  /\ 1 \in DOMAIN messages
               /\ \A k \in DOMAIN messages : WellFormed(messages[k])
<1> DEFINE a == Ints(m)
           messages == ChannelMessages(m.command, a)
<1>1. m.command \in DOMAIN Int32sExpected /\ Int32sExpected[m.command] \in {2, 3}
  BY DEF Type, Int32sExpected
<1>2. \A i \in 1..Int32sExpected[m.command] : a[i] \in Int
  BY <1>1, RightArguments
<1>3. a[1] \in Int /\ a[2] \in Int /\ (Int32sExpected[m.command] = 3 => a[3] \in Int)
  BY <1>1, <1>2
<1> HIDE DEF a
<1>4. \A channel \in Int : WellFormed(ChannelMessage(m.command, channel, a))
  BY <1>3, ChannelMessageIsWellFormed
<1>5. CASE a[1] > 0
  <2>1. messages = <<ChannelMessage(m.command, a[1], a)>>
    BY <1>5 DEF ChannelMessages
  <2>2. QED
    BY <1>3, <1>4, <2>1 DEF a
<1>6. CASE ~(a[1] > 0)
  <2>1. messages = [channel \in 1..16 |-> ChannelMessage(m.command, channel, a)]
    BY <1>6 DEF ChannelMessages
  <2>2. \A channel \in 1..16 : WellFormed(messages[channel])
    BY <1>4, <2>1
  <2>3. DOMAIN messages = 1..16
    BY <2>1
  <2>4. QED
    BY <2>2, <2>3 DEF a
<1>7. QED
  BY <1>5, <1>6

LEMMA SystemMessagesAreWellFormed ==
    ASSUME NEW command \in DOMAIN SystemMessage
    PROVE  WellFormed(SystemMessage[command])
<1>1. \A s \in 248..255 : WellFormed(<<s>>)
  BY DEF WellFormed
<1>2. WellFormed(<<240, 247>>)
  BY DEF WellFormed
<1>3. SystemMessage[command] \in {<<248>>, <<250>>, <<251>>, <<252>>, <<240, 247>>}
  BY DEF SystemMessage
<1>4. WellFormed(<<248>>) /\ WellFormed(<<250>>) /\ WellFormed(<<251>>) /\ WellFormed(<<252>>)
  BY <1>1
<1>5. QED
  BY <1>2, <1>3, <1>4

\* Sending to S gives nothing to others and, to those it reaches, all the messages or,
\* before a crash, the first.
LEMMA SendToSends ==
    ASSUME NEW S, NEW messages, SendTo(S, messages)
    PROVE  /\ DOMAIN delivered' = All
           /\ \A i \in All : delivered'[i] # << >> =>
                  i \in S /\ delivered'[i] \in {messages, <<messages[1]>>}
  BY DEF SendTo

LEMMA NothingSends ==
    ASSUME Nothing
    PROVE  DOMAIN delivered' = All /\ \A i \in All : delivered'[i] = << >>
  BY DEF Nothing

\* What the handling of one message comes to, whatever state it finds.
LEMMA ProcessMessageSends ==
    ASSUME NEW m \in Message, ProcessMessage(m)
    PROVE  /\ handled' = m /\ outputs' = outputs /\ DOMAIN delivered' = All
           /\ ~(m.command = "raw" /\ IsBlob(m)) =>
                  \A i \in All : delivered'[i] # << >> => i \in Targets(m.device)
           /\ m.command # "raw" =>
                  \A i \in All : \A k \in DOMAIN delivered'[i] : WellFormed(delivered'[i][k])
<1>1. handled' = m /\ outputs' = outputs
  BY DEF ProcessMessage, ChannelCommand, SystemCommand, RawCommand, RawWithoutArguments,
     RawOversized,
         LogLevelCommand, LogToOscCommand, ArgumentsMissing, Ignore, Handle
<1>2. ASSUME NEW messages, SendTo(Targets(m.device), messages),
             1 \in DOMAIN messages, \A k \in DOMAIN messages : WellFormed(messages[k])
      PROVE  /\ DOMAIN delivered' = All
             /\ \A i \in All : delivered'[i] # << >> => i \in Targets(m.device)
             /\ \A i \in All : \A k \in DOMAIN delivered'[i] : WellFormed(delivered'[i][k])
  <2>1. DOMAIN delivered' = All
    BY <1>2, SendToSends
  <2>2. ASSUME NEW i \in All
        PROVE  /\ delivered'[i] # << >> => i \in Targets(m.device)
               /\ \A k \in DOMAIN delivered'[i] : WellFormed(delivered'[i][k])
    <3>1. delivered'[i] # << >> =>
              i \in Targets(m.device) /\ delivered'[i] \in {messages, <<messages[1]>>}
      BY <1>2, SendToSends
    <3>2. CASE delivered'[i] = << >>
      BY <3>2
    <3>3. CASE delivered'[i] = messages
      BY <1>2, <3>1, <3>3
    <3>4. CASE delivered'[i] = <<messages[1]>>
      BY <1>2, <3>1, <3>4
    <3>5. QED
      BY <3>1, <3>2, <3>3, <3>4
  <2>3. QED
    BY <2>1, <2>2
<1>3. ASSUME Nothing
      PROVE  /\ DOMAIN delivered' = All
             /\ \A i \in All : delivered'[i] # << >> => i \in Targets(m.device)
             /\ \A i \in All : \A k \in DOMAIN delivered'[i] : WellFormed(delivered'[i][k])
  BY <1>3, NothingSends
<1>4. CASE ChannelCommand(m)
  BY <1>1, <1>2, <1>4, ChannelMessagesAreWellFormed DEF ChannelCommand
<1>5. CASE SystemCommand(m)
  <2>1. m.command \in DOMAIN SystemMessage
    BY <1>5 DEF SystemCommand
  <2> DEFINE messages == <<SystemMessage[m.command]>>
  <2>2. 1 \in DOMAIN messages /\ \A k \in DOMAIN messages : WellFormed(messages[k])
    BY <2>1, SystemMessagesAreWellFormed
  <2>3. SendTo(Targets(m.device), messages)
    BY <1>5 DEF SystemCommand
  <2> HIDE DEF messages
  <2>4. QED
    BY <1>1, <1>2, <2>2, <2>3
<1>6. CASE RawCommand(m)
  <2>1. m.command = "raw"
    BY <1>6 DEF RawCommand
  <2>2. DOMAIN delivered' = All
    BY <1>6 DEF RawCommand, SendTo
  <2>3. ~IsBlob(m) => SendTo(Targets(m.device), <<RawBytes(m.arguments)>>)
    BY <1>6 DEF RawCommand
  <2>4. ~IsBlob(m) => \A i \in All : delivered'[i] # << >> => i \in Targets(m.device)
    BY <2>3, SendToSends
  <2>5. QED
    BY <1>1, <2>1, <2>2, <2>4
<1>7. CASE Nothing
  BY <1>1, <1>3, <1>7
<1>8. QED
  BY <1>4, <1>5, <1>6, <1>7
  DEF ProcessMessage, RawWithoutArguments, RawOversized, LogLevelCommand, LogToOscCommand,
      ArgumentsMissing, Ignore

\* Outputs are addressed by send() as the properties say, and a name finds one at most.
LEMMA TargetsAreAddressed ==
    ASSUME NEW d \in Device
    PROVE  /\ \A i \in Targets(d) :
                  d = Wildcard \/ SafeOscString[outputs[i].name] = SafeOscString[d]
           /\ outputs \in Seq(Output) /\ d # Wildcard => \A i, j \in Targets(d) : i = j
<1>1. \A i \in Targets(d) :
          d = Wildcard \/ SafeOscString[outputs[i].name] = SafeOscString[d]
  BY DEF Targets, Matches
<1>2. ASSUME outputs \in Seq(Output), d # Wildcard, NEW i \in Targets(d), NEW j \in Targets(d)
      PROVE  i = j
  <2>1. All \subseteq Nat
    BY <1>2 DEF All
  <2>2. i \in All /\ j \in All /\ i <= j /\ j <= i
    BY <1>2 DEF Targets, Matches
  <2>3. QED
    BY <2>1, <2>2
<1>3. QED
  BY <1>1, <1>2

----------------------------------------------------------------------------
(* What a receiver makes of what it is sent. *)

\* The command a status byte stands for.
Kind(status_byte) ==
    <<"note_off", "note_on", "poly_pressure", "control_change",
      "program_change", "channel_pressure", "pitch_bend">>[(status_byte \div 16) - 7]

\* Command and channel are found again in the status byte.
LEMMA StatusByte ==
    ASSUME NEW command \in DOMAIN Type, NEW c \in 1..16
    PROVE  LET first == InitialByte(Type[command], c)
           IN  Kind(first) = command /\ (first % 16) + 1 = c /\ first \in Int
<1> DEFINE first == InitialByte(Type[command], c)
<1>1. first = Type[command] + c - 1
  BY DEF InitialByte, Limit, Type
<1>2. /\ DOMAIN Type = {"note_off", "note_on", "poly_pressure", "control_change",
                        "program_change", "channel_pressure", "pitch_bend"}
      /\ Type.note_off = 16 * 8 /\ Type.note_on = 16 * 9 /\ Type.poly_pressure = 16 * 10
      /\ Type.control_change = 16 * 11 /\ Type.program_change = 16 * 12
      /\ Type.channel_pressure = 16 * 13 /\ Type.pitch_bend = 16 * 14
  BY DEF Type
<1>3. \A k \in 8..14 : (16 * k + c - 1) \div 16 = k /\ (16 * k + c - 1) % 16 = c - 1
  OBVIOUS
<1> HIDE DEF first
<1>4. /\ command = "note_off" => first \div 16 = 8 /\ first % 16 = c - 1
      /\ command = "note_on" => first \div 16 = 9 /\ first % 16 = c - 1
      /\ command = "poly_pressure" => first \div 16 = 10 /\ first % 16 = c - 1
      /\ command = "control_change" => first \div 16 = 11 /\ first % 16 = c - 1
      /\ command = "program_change" => first \div 16 = 12 /\ first % 16 = c - 1
      /\ command = "channel_pressure" => first \div 16 = 13 /\ first % 16 = c - 1
      /\ command = "pitch_bend" => first \div 16 = 14 /\ first % 16 = c - 1
  BY <1>1, <1>2, <1>3
<1>5. first % 16 = c - 1 /\ Type[command] \in Int
  BY <1>2, <1>4
<1>6. Kind(first) = command
  BY <1>2, <1>4 DEF Kind
<1>7. first \in Int /\ (first % 16) + 1 = c
  BY <1>1, <1>5
<1>8. QED
  BY <1>6, <1>7 DEF first

\* The int32s after the channel, as a sequence.
LEMMA TailOfThree ==
    ASSUME NEW a \in [1..3 -> Int]
    PROVE  Tail(a) = <<a[2], a[3]>>
<1> DEFINE t == <<a[2], a[3]>>
<1>1. a \in Seq(Int)
  BY SeqDef
<1>2. Len(a) = 3
  BY <1>1, LenProperties
<1>3. a # << >>
  BY <1>2
<1>4. /\ Tail(a) \in Seq(Int) /\ Len(Tail(a)) = 2
      /\ Tail(a)[1] = a[2] /\ Tail(a)[2] = a[3]
  <2>1. /\ Tail(a) \in Seq(Int) /\ Len(Tail(a)) = Len(a) - 1
        /\ \A i \in 1..Len(Tail(a)) : Tail(a)[i] = a[i + 1]
    BY <1>1, <1>3, HeadTailProperties
  <2>2. Len(Tail(a)) = 2
    BY <1>2, <2>1
  <2>3. Tail(a)[1] = a[1 + 1] /\ Tail(a)[2] = a[2 + 1]
    BY <2>1, <2>2
  <2>4. QED
    BY <2>1, <2>2, <2>3
<1>5. /\ t \in Seq(Int) /\ Len(t) = 2
      /\ t[1] = a[2] /\ t[2] = a[3]
  OBVIOUS
<1> HIDE DEF t
<1>6. ASSUME NEW i \in 1..2 PROVE Tail(a)[i] = t[i]
  <2>1. i = 1 \/ i = 2
    OBVIOUS
  <2>2. QED
    BY <1>4, <1>5, <2>1
<1>7. Tail(a) = t
  BY <1>4, <1>5, <1>6, SeqEqual
<1>8. QED
  BY <1>7 DEF t

LEMMA TailOfTwo ==
    ASSUME NEW a \in [1..2 -> Int]
    PROVE  Tail(a) = <<a[2]>>
<1> DEFINE t == <<a[2]>>
<1>1. a \in Seq(Int)
  BY SeqDef
<1>2. Len(a) = 2
  BY <1>1, LenProperties
<1>3. a # << >>
  BY <1>2
<1>4. /\ Tail(a) \in Seq(Int) /\ Len(Tail(a)) = 1
      /\ Tail(a)[1] = a[2]
  <2>1. /\ Tail(a) \in Seq(Int) /\ Len(Tail(a)) = Len(a) - 1
        /\ \A i \in 1..Len(Tail(a)) : Tail(a)[i] = a[i + 1]
    BY <1>1, <1>3, HeadTailProperties
  <2>2. Len(Tail(a)) = 1
    BY <1>2, <2>1
  <2>3. Tail(a)[1] = a[1 + 1]
    BY <2>1, <2>2
  <2>4. QED
    BY <2>1, <2>2, <2>3
<1>5. /\ t \in Seq(Int) /\ Len(t) = 1
      /\ t[1] = a[2]
  OBVIOUS
<1> HIDE DEF t
<1>6. ASSUME NEW i \in 1..1 PROVE Tail(a)[i] = t[i]
  <2>1. i = 1
    OBVIOUS
  <2>2. QED
    BY <1>4, <1>5, <2>1
<1>7. Tail(a) = t
  BY <1>4, <1>5, <1>6, SeqEqual
<1>8. QED
  BY <1>7 DEF t

\* What is understood of a status byte with two data bytes, and with one.
LEMMA DecodedTwo ==
    ASSUME NEW s \in Int, NEW x \in Int, NEW y \in Int
    PROVE  Decoded(<<s, x, y>>) =
        [command |-> Kind(s), channel |-> (s % 16) + 1,
         values |-> IF Kind(s) = "pitch_bend" THEN <<x + 128 * y>> ELSE <<x, y>>]
<1> DEFINE b == <<s, x, y>>
<1>1. b[1] = s /\ b[2] = x /\ b[3] = y /\ b \in [1..3 -> Int]
  OBVIOUS
<1> HIDE DEF b
<1>2. Tail(b) = <<x, y>>
  BY <1>1, TailOfThree
<1>3. Decoded(b) = [command |-> Kind(b[1]), channel |-> (b[1] % 16) + 1,
         values |-> IF Kind(b[1]) = "pitch_bend" THEN <<b[2] + 128 * b[3]>> ELSE Tail(b)]
  BY Zenon DEF Decoded, Kind
<1>4. QED
  BY <1>1, <1>2, <1>3 DEF b

LEMMA DecodedOne ==
    ASSUME NEW s \in Int, NEW x \in Int, Kind(s) # "pitch_bend"
    PROVE  Decoded(<<s, x>>) =
        [command |-> Kind(s), channel |-> (s % 16) + 1, values |-> <<x>>]
<1> DEFINE b == <<s, x>>
<1>1. b[1] = s /\ b[2] = x /\ b \in [1..2 -> Int]
  OBVIOUS
<1> HIDE DEF b
<1>2. Tail(b) = <<x>>
  BY <1>1, TailOfTwo
<1>3. Decoded(b) = [command |-> Kind(b[1]), channel |-> (b[1] % 16) + 1,
         values |-> IF Kind(b[1]) = "pitch_bend" THEN <<b[2] + 128 * b[3]>> ELSE Tail(b)]
  BY Zenon DEF Decoded, Kind
<1>4. QED
  BY <1>1, <1>2, <1>3 DEF b

\* Masks and clamps leave documented values alone.
LEMMA SevenBits == \A x \in 0..127 : x % 128 = x /\ Velocity(x) = x
  BY DEF Velocity, Limit

LEMMA FourteenBits ==
    ASSUME NEW x \in 0..128 * 128 - 1
    PROVE  (x % 128) + (128 * ((x \div 128) % 128)) = x
<1> DEFINE q == x \div 128
           r == x % 128
<1>1. q \in Int
  OBVIOUS
<1>2. r \in 0..127
  OBVIOUS
<1>3. x = (128 * q) + r
  OBVIOUS
<1> HIDE DEF q, r
<1>4. q \in 0..127
  <2>1. x \in Int /\ 0 <= x /\ x < 128 * 128
    OBVIOUS
  <2>2. 0 <= q /\ q < 128
    BY <1>1, <1>2, <1>3, <2>1
  <2>3. QED
    BY <1>1, <2>2
<1>5. q % 128 = q
  BY <1>4, SevenBits
<1>6. r + (128 * (q % 128)) = x
  BY <1>1, <1>2, <1>3, <1>5
<1>7. QED
  BY <1>6 DEF q, r

\* The handlers fall into four groups.
LEMMA ChannelCommands ==
    ASSUME NEW command \in DOMAIN Type
    PROVE  \/ command \in {"note_on", "note_off"} /\ Int32sExpected[command] = 3
           \/ command \in {"control_change", "poly_pressure"} /\ Int32sExpected[command] = 3
           \/ command = "pitch_bend" /\ Int32sExpected[command] = 2
           \/ command \in {"program_change", "channel_pressure"} /\ Int32sExpected[command] = 2
<1>1. command \in {"note_off", "note_on", "poly_pressure", "control_change",
                   "program_change", "channel_pressure", "pitch_bend"}
  BY DEF Type
<1>2. /\ Int32sExpected["note_on"] = 3 /\ Int32sExpected["note_off"] = 3
      /\ Int32sExpected["control_change"] = 3 /\ Int32sExpected["poly_pressure"] = 3
      /\ Int32sExpected["pitch_bend"] = 2
      /\ Int32sExpected["program_change"] = 2 /\ Int32sExpected["channel_pressure"] = 2
  BY DEF Int32sExpected
<1>3. QED
  BY <1>1, <1>2

\* Sent and received, for the handlers of three int32s and of two.
LEMMA TwoValuesArrive ==
    ASSUME NEW command, NEW c, NEW first \in Int, command # "pitch_bend",
           Kind(first) = command, (first % 16) + 1 = c, NEW a \in [1..3 -> Int]
    PROVE  Decoded(<<first, a[2], a[3]>>) =
               [command |-> command, channel |-> c, values |-> Tail(a)]
<1>1. a[2] \in Int /\ a[3] \in Int
  OBVIOUS
<1>2. Decoded(<<first, a[2], a[3]>>) =
        [command |-> Kind(first), channel |-> (first % 16) + 1,
         values |-> IF Kind(first) = "pitch_bend" THEN <<a[2] + 128 * a[3]>> ELSE <<a[2], a[3]>>]
  BY <1>1, DecodedTwo
<1>3. Tail(a) = <<a[2], a[3]>>
  BY TailOfThree
<1>4. QED
  BY <1>2, <1>3, Zenon

LEMMA OneValueArrives ==
    ASSUME NEW command, NEW c, NEW first \in Int, command # "pitch_bend",
           Kind(first) = command, (first % 16) + 1 = c, NEW a \in [1..2 -> Int]
    PROVE  Decoded(<<first, a[2]>>) =
               [command |-> command, channel |-> c, values |-> Tail(a)]
<1>1. a[2] \in Int
  OBVIOUS
<1>2. Decoded(<<first, a[2]>>) =
        [command |-> Kind(first), channel |-> (first % 16) + 1, values |-> <<a[2]>>]
  BY <1>1, DecodedOne
<1>3. Tail(a) = <<a[2]>>
  BY TailOfTwo
<1>4. QED
  BY <1>2, <1>3, Zenon

\* One lemma for each of the four.
LEMMA NoteArrives ==
    ASSUME NEW command \in {"note_on", "note_off"}, NEW first \in Int, NEW c,
           Kind(first) = command, (first % 16) + 1 = c, first = InitialByte(Type[command], c),
           NEW a \in [1..3 -> Int], a[2] \in 0..127, a[3] \in 0..127
    PROVE  Decoded(ChannelMessage(command, c, a)) =
               [command |-> command, channel |-> c, values |-> Tail(a)]
<1>1. a[2] % 128 = a[2] /\ Velocity(a[3]) = a[3]
  BY SevenBits
<1>2. ChannelMessage(command, c, a) = <<first, a[2] % 128, Velocity(a[3])>>
  BY DEF ChannelMessage
<1>3. ChannelMessage(command, c, a) = <<first, a[2], a[3]>>
  BY <1>1, <1>2, Zenon
<1>4. command # "pitch_bend"
  OBVIOUS
<1>5. QED
  BY <1>3, <1>4, TwoValuesArrive, Zenon

LEMMA ControlArrives ==
    ASSUME NEW command \in {"control_change", "poly_pressure"}, NEW first \in Int, NEW c,
           Kind(first) = command, (first % 16) + 1 = c, first = InitialByte(Type[command], c),
           NEW a \in [1..3 -> Int], a[2] \in 0..127, a[3] \in 0..127
    PROVE  Decoded(ChannelMessage(command, c, a)) =
               [command |-> command, channel |-> c, values |-> Tail(a)]
<1>1. a[2] % 128 = a[2] /\ a[3] % 128 = a[3]
  BY SevenBits
<1>2. ChannelMessage(command, c, a) = <<first, a[2] % 128, a[3] % 128>>
  BY DEF ChannelMessage
<1>3. ChannelMessage(command, c, a) = <<first, a[2], a[3]>>
  BY <1>1, <1>2, Zenon
<1>4. command # "pitch_bend"
  OBVIOUS
<1>5. QED
  BY <1>3, <1>4, TwoValuesArrive, Zenon

LEMMA ProgramArrives ==
    ASSUME NEW command \in {"program_change", "channel_pressure"}, NEW first \in Int, NEW c,
           Kind(first) = command, (first % 16) + 1 = c, first = InitialByte(Type[command], c),
           NEW a \in [1..2 -> Int], a[2] \in 0..127
    PROVE  Decoded(ChannelMessage(command, c, a)) =
               [command |-> command, channel |-> c, values |-> Tail(a)]
<1>1. a[2] % 128 = a[2]
  BY SevenBits
<1>2. ChannelMessage(command, c, a) = <<first, a[2] % 128>>
  BY DEF ChannelMessage
<1>3. ChannelMessage(command, c, a) = <<first, a[2]>>
  BY <1>1, <1>2, Zenon
<1>4. command # "pitch_bend"
  OBVIOUS
<1>5. QED
  BY <1>3, <1>4, OneValueArrives, Zenon

LEMMA PitchBendArrives ==
    ASSUME NEW first \in Int, NEW c, Kind(first) = "pitch_bend",
           (first % 16) + 1 = c, first = InitialByte(Type["pitch_bend"], c),
           NEW a \in [1..2 -> Int], a[2] \in 0..128 * 128 - 1
    PROVE  Decoded(ChannelMessage("pitch_bend", c, a)) =
               [command |-> "pitch_bend", channel |-> c, values |-> Tail(a)]
<1>1. PICK x \in Int, y \in Int : x = a[2] % 128 /\ y = (a[2] \div 128) % 128
  <2>1. a[2] % 128 \in Int /\ (a[2] \div 128) % 128 \in Int
    OBVIOUS
  <2>2. QED
    BY <2>1, Zenon
<1>2. x + (128 * y) = a[2]
  <2>1. (a[2] % 128) + (128 * ((a[2] \div 128) % 128)) = a[2]
    BY FourteenBits
  <2>2. QED
    BY <1>1, <2>1
<1>3. Tail(a) = <<a[2]>>
  BY TailOfTwo
<1>4. ChannelMessage("pitch_bend", c, a) = <<first, x, y>>
  BY <1>1 DEF ChannelMessage
<1>5. Decoded(<<first, x, y>>) = [command |-> Kind(first), channel |-> (first % 16) + 1,
          values |-> IF Kind(first) = "pitch_bend" THEN <<x + (128 * y)>> ELSE <<x, y>>]
  BY DecodedTwo
<1>6. QED
  BY <1>2, <1>3, <1>4, <1>5, Zenon

\* For documented values nothing is lost on the way into a message and out of it.
LEMMA DecodedChannelMessage ==
    ASSUME NEW command \in DOMAIN Type, NEW c \in 1..16,
           NEW a \in [1..Int32sExpected[command] -> Int],
           \A i \in 2..Int32sExpected[command] :
               a[i] \in IF command = "pitch_bend" THEN 0..128 * 128 - 1 ELSE 0..127
    PROVE  Decoded(ChannelMessage(command, c, a)) =
               [command |-> command, channel |-> c, values |-> Tail(a)]
<1>1. PICK first \in Int :
          /\ first = InitialByte(Type[command], c)
          /\ Kind(first) = command /\ (first % 16) + 1 = c
  BY StatusByte
<1>2. CASE command \in {"note_on", "note_off"} /\ Int32sExpected[command] = 3
  <2>1. a \in [1..3 -> Int] /\ a[2] \in 0..127 /\ a[3] \in 0..127
    BY <1>2
  <2>2. QED
    BY <1>1, <1>2, <2>1, NoteArrives, Zenon
<1>3. CASE command \in {"control_change", "poly_pressure"} /\ Int32sExpected[command] = 3
  <2>1. a \in [1..3 -> Int] /\ a[2] \in 0..127 /\ a[3] \in 0..127
    BY <1>3
  <2>2. QED
    BY <1>1, <1>3, <2>1, ControlArrives, Zenon
<1>4. CASE command = "pitch_bend" /\ Int32sExpected[command] = 2
  <2>1. a \in [1..2 -> Int]
    BY <1>4
  <2>2. 2 \in 2..Int32sExpected[command]
    BY <1>4
  <2>3. a[2] \in 0..128 * 128 - 1
    BY <1>4, <2>2, Zenon
  <2>4. QED
    BY <1>1, <1>4, <2>1, <2>3, PitchBendArrives, Zenon
<1>5. CASE command \in {"program_change", "channel_pressure"} /\ Int32sExpected[command] = 2
  <2>1. a \in [1..2 -> Int] /\ a[2] \in 0..127
    BY <1>5
  <2>2. QED
    BY <1>1, <1>5, <2>1, ProgramArrives, Zenon
<1>6. QED
  BY <1>2, <1>3, <1>4, <1>5, ChannelCommands, Zenon

\* The messages of a documented command are, to the receiver, what was asked for.
LEMMA MessagesDecode ==
    ASSUME NEW m \in Message, IsDocumented(m)
    PROVE  LET messages == ChannelMessages(m.command, Ints(m))
               asked == {[command |-> m.command, channel |-> c,
                          values |-> Tail(Ints(m))] : c \in Channels(Ints(m)[1])}
           IN  /\ {Decoded(b) : b \in Range(messages)} = asked
               /\ Len(messages) = Cardinality(asked)
<1> DEFINE a == Ints(m)
           message(c) == ChannelMessage(m.command, c, a)
           record(c) == [command |-> m.command, channel |-> c, values |-> Tail(a)]
           messages == ChannelMessages(m.command, a)
           asked == {record(c) : c \in Channels(a[1])}
<1>1. /\ m.command \in DOMAIN Type /\ m.command \in DOMAIN Int32sExpected
      /\ ArgumentsAreRight(m)
  BY DEF IsDocumented, ArgumentsAreRight, Type, Int32sExpected
<1>2. /\ a \in [1..Int32sExpected[m.command] -> Int]
      /\ a[1] \in 0..16
      /\ \A i \in 2..Int32sExpected[m.command] :
             a[i] \in IF m.command = "pitch_bend" THEN 0..128 * 128 - 1 ELSE 0..127
  <2>1. m.arguments \in Seq(Argument) /\ Len(m.arguments) = Int32sExpected[m.command]
    BY ArgumentAssumption DEF Message, IsDocumented
  <2>2. DOMAIN m.arguments = 1..Int32sExpected[m.command]
    BY <2>1
  <2>3. \A i \in 1..Int32sExpected[m.command] : a[i] \in Int
    BY <1>1, RightArguments
  <2>4. a = [i \in 1..Int32sExpected[m.command] |-> a[i]]
    BY <2>2 DEF Ints
  <2>5. a \in [1..Int32sExpected[m.command] -> Int]
    BY <2>3, <2>4
  <2>6. QED
    BY <2>1, <2>5 DEF IsDocumented
<1>3. \A c \in 1..16 : Decoded(message(c)) = record(c)
  BY <1>1, <1>2, DecodedChannelMessage
<1> HIDE DEF a
<1>4. a[1] \in 0..16
  BY <1>2, Zenon
<1>5. CASE a[1] > 0
  <2>1. messages = <<message(a[1])>> /\ asked = {record(a[1])} /\ a[1] \in 1..16
    <3>1. a[1] \in 1..16 /\ a[1] # 0
      BY <1>4, <1>5
    <3>2. Channels(a[1]) = {a[1]}
      BY <3>1 DEF Channels
    <3>3. messages = <<message(a[1])>>
      BY <1>5 DEF ChannelMessages
    <3> HIDE DEF message, record, messages
    <3>4. asked = {record(a[1])}
      BY <3>2, Zenon
    <3>5. QED
      BY <3>1, <3>3, <3>4, Zenon
  <2> HIDE DEF message, record, messages, asked
  <2>2. Range(messages) = {message(a[1])}
    BY <2>1 DEF Range
  <2>3. Len(messages) = 1 /\ Cardinality(asked) = 1
    BY <2>1, FS_Singleton
  <2>4. {Decoded(b) : b \in Range(messages)} = asked
    BY <1>3, <2>1, <2>2
  <2>5. QED
    BY <2>3, <2>4 DEF messages, asked, record, a
<1>6. CASE a[1] = 0
  <2>1. /\ messages = [c \in 1..16 |-> message(c)]
        /\ asked = {record(c) : c \in 1..16}
    BY <1>6 DEF ChannelMessages, Channels
  <2>2. \A c, d \in 1..16 : record(c) = record(d) => c = d
    OBVIOUS
  <2> HIDE DEF message, record, messages, asked
  <2>3. Range(messages) = {message(c) : c \in 1..16}
    BY <2>1 DEF Range
  <2>4. {Decoded(b) : b \in Range(messages)} = asked
    BY <1>3, <2>1, <2>3
  <2>5. Cardinality(asked) = 16
    <3> DEFINE f == [c \in 1..16 |-> record(c)]
    <3>1. f \in Bijection(1..16, asked)
      <4>1. f \in [1..16 -> asked] /\ \A c \in 1..16 : f[c] = record(c)
        BY <2>1
      <4> HIDE DEF f
      <4>2. \A x \in asked : \E c \in 1..16 : f[c] = x
        BY <2>1, <4>1
      <4>3. \A c, d \in 1..16 : f[c] = f[d] => c = d
        BY <2>2, <4>1
      <4>4. f \in Injection(1..16, asked) /\ f \in Surjection(1..16, asked)
        BY <4>1, <4>2, <4>3 DEF Injection, Surjection, IsInjective
      <4>5. QED
        BY <4>4 DEF Bijection
    <3>2. ExistsBijection(1..16, asked)
      BY <3>1 DEF ExistsBijection
    <3>3. IsFiniteSet(1..16) /\ Cardinality(1..16) = 16
      <4>1. \A i, j \in Int : /\ IsFiniteSet(i..j)
                              /\ Cardinality(i..j) = IF i > j THEN 0 ELSE j - i + 1
        BY FS_Interval
      <4>2. 1 \in Int /\ 16 \in Int
        OBVIOUS
      <4>3. IsFiniteSet(1..16) /\ Cardinality(1..16) = IF 1 > 16 THEN 0 ELSE 16 - 1 + 1
        BY <4>1, <4>2, Zenon
      <4>4. QED
        BY <4>3
    <3>4. QED
      BY <3>2, <3>3, FS_Bijection
  <2>6. Len(messages) = 16
    BY <2>1
  <2>7. QED
    BY <2>4, <2>5, <2>6 DEF messages, asked, record, a
<1>7. a[1] > 0 \/ a[1] = 0
  BY <1>4
<1>8. QED
  BY <1>5, <1>6, <1>7, Zenon

\* < as a relation, to take the least element of a set of indices.
Less == {pair \in Nat \X Nat : pair[1] < pair[2]}

LEMMA LessIsWellFounded == IsWellFoundedOn(Less, Nat)
  BY NatLessThanWellFounded DEF OpToRel, Less

\* Of the outputs of a name there is a first, if there is any.
LEMMA SomebodyIsFound ==
    ASSUME outputs \in Seq(Output), NEW d \in Device, Matches(d) # {}
    PROVE  \E i \in Matches(d) : \A j \in Matches(d) : i <= j
<1>1. Matches(d) \subseteq Nat
  BY DEF Matches, All
<1>2. \E i \in Matches(d) : \A j \in Matches(d) : ~(<<j, i>> \in Less)
  BY <1>1, LessIsWellFounded, WFMin
<1>3. \A i, j \in Nat : <<j, i>> \in Less <=> j < i
  BY DEF Less
<1>4. PICK i \in Matches(d) : \A j \in Matches(d) : ~(<<j, i>> \in Less)
  BY <1>2
<1>5. ASSUME NEW j \in Matches(d) PROVE i <= j
  <2>1. i \in Nat /\ j \in Nat /\ ~(j < i)
    BY <1>1, <1>3, <1>4
  <2>2. QED
    BY <2>1
<1>6. QED
  BY <1>4, <1>5

\* Whatever is handled, ArrivesAsAsked holds of it.
LEMMA ProcessMessageArrives ==
    ASSUME outputs \in Seq(Output), NEW m \in Message, ProcessMessage(m)
    PROVE  ArrivesAsAsked'
<1>1. handled' = m /\ outputs' = outputs /\ DOMAIN delivered' = All
  BY ProcessMessageSends
<1>2. m.command \in DOMAIN Type =>
          \/ ChannelCommand(m) /\ ArgumentsAreRight(m)
          \/ status' = "terminated"
          \/ Nothing /\ ~ArgumentsAreRight(m)
  BY DEF ProcessMessage, ChannelCommand, SystemCommand, RawCommand, RawWithoutArguments,
     RawOversized,
         LogLevelCommand, LogToOscCommand, ArgumentsMissing, Ignore, Type, SystemMessage,
         Int32sExpected
<1>3. ASSUME status' = "up", HasWrongBody(m) PROVE Reached' = {}
  <2>1. m.command \in DOMAIN Type /\ ~ArgumentsAreRight(m)
    BY <1>3 DEF HasWrongBody, ArgumentsAreRight
  <2>2. Nothing
    BY <1>2, <1>3, <2>1
  <2>3. QED
    BY <2>2, NothingSends DEF Reached
<1>4. ASSUME status' = "up", IsDocumented(m)
      PROVE  LET asked == {[command |-> m.command, channel |-> c,
                            values |-> Tail(Ints(m))] : c \in Channels(Ints(m)[1])}
             IN  /\ (\E i \in DOMAIN outputs' : IsAddressed(i)') => Reached' # {}
                 /\ m.device = Wildcard => Reached' = DOMAIN outputs'
                 /\ \A i \in Reached' :
                        /\ {Decoded(b) : b \in Range(delivered'[i])} = asked
                        /\ Len(delivered'[i]) = Cardinality(asked)
  <2> DEFINE messages == ChannelMessages(m.command, Ints(m))
  <2>1. m.command \in DOMAIN Type /\ ArgumentsAreRight(m) /\ m.device \in Device
    BY <1>4 DEF IsDocumented, ArgumentsAreRight, Message
  <2>2. SendTo(Targets(m.device), messages)
    BY <1>2, <1>4, <2>1 DEF ChannelCommand
  <2>3. messages # << >>
    <3>1. 1 \in DOMAIN messages
      BY <2>1, ChannelMessagesAreWellFormed
    <3> HIDE DEF messages
    <3>2. QED
      BY <3>1
  <2> HIDE DEF messages
  <2>4. delivered' = [i \in All |-> IF i \in Targets(m.device) THEN messages ELSE << >>]
    BY <1>4, <2>2, <2>3 DEF SendTo
  <2>5. Targets(m.device) \subseteq All
    BY DEF Targets, Matches
  <2>6. /\ Reached' = Targets(m.device)
        /\ \A i \in Reached' : delivered'[i] = messages
    BY <2>3, <2>4, <2>5 DEF Reached
  <2>7. (\E i \in DOMAIN outputs' : IsAddressed(i)') => Reached' # {}
    <3>1. SUFFICES ASSUME NEW i \in DOMAIN outputs', IsAddressed(i)' PROVE Targets(m.device) # {}
      BY <2>6
    <3>2. CASE m.device = Wildcard
      BY <1>1, <3>1, <3>2 DEF Targets, All
    <3>3. CASE m.device # Wildcard
      <4>1. i \in Matches(m.device)
        BY <1>1, <3>1, <3>3 DEF Matches, All, IsAddressed
      <4>2. QED
        BY <2>1, <3>3, <4>1, SomebodyIsFound DEF Targets
    <3>4. QED
      BY <3>2, <3>3
  <2>8. m.device = Wildcard => Reached' = DOMAIN outputs'
    BY <1>1, <2>6 DEF Targets, All
  <2>9. QED
    BY <1>4, <2>6, <2>7, <2>8, MessagesDecode DEF messages
<1>5. QED
  BY <1>1, <1>3, <1>4 DEF ArrivesAsAsked

----------------------------------------------------------------------------
\* The inductive invariant: the outputs are a sequence, each with its messages, and the
\* three properties, which every message establishes anew.
IInv ==
    /\ outputs \in Seq(Output)
    /\ DOMAIN delivered = DOMAIN outputs
    /\ SentIsWellFormed
    /\ OnlyTheAddressed
    /\ ArrivesAsAsked

LEMMA InitIInv == Init => IInv
  BY DEF Init, IInv, SentIsWellFormed, OnlyTheAddressed, ArrivesAsAsked

LEMMA ProcessMessageKeepsIInv ==
    ASSUME IInv, NEW m \in Message, ProcessMessage(m)
    PROVE  IInv'
<1>1. handled' = m /\ outputs' = outputs /\ DOMAIN delivered' = All
  BY ProcessMessageSends
<1>2. outputs' \in Seq(Output) /\ DOMAIN delivered' = DOMAIN outputs'
  BY <1>1 DEF IInv, All
<1>3. SentIsWellFormed'
  <2>1. m.command # "raw" =>
            \A i \in All : \A k \in DOMAIN delivered'[i] : WellFormed(delivered'[i][k])
    BY ProcessMessageSends
  <2>2. QED
    BY <1>1, <2>1 DEF SentIsWellFormed
<1>4. OnlyTheAddressed'
  <2>1. m.device \in Device
    BY DEF Message
  <2>2. ~(m.command = "raw" /\ IsBlob(m)) => Reached' \subseteq Targets(m.device)
    BY <1>1, ProcessMessageSends DEF Reached
  <2>3. \A i \in Targets(m.device) : IsAddressed(i)'
    BY <1>1, <2>1, TargetsAreAddressed DEF IsAddressed
  <2>4. m.device # Wildcard => \A i, j \in Targets(m.device) : i = j
    BY <2>1, TargetsAreAddressed DEF IInv
  <2>5. QED
    BY <1>1, <2>2, <2>3, <2>4 DEF OnlyTheAddressed
<1>5. ArrivesAsAsked'
  BY ProcessMessageArrives DEF IInv
<1>6. QED
  BY <1>2, <1>3, <1>4, <1>5 DEF IInv

LEMMA NextIInv == IInv /\ [Next]_vars => IInv'
<1> SUFFICES ASSUME IInv, [Next]_vars PROVE IInv'
  OBVIOUS
<1>1. CASE Waiting /\ \E list \in OutputList : PrepareOutputs(list)
  <2>1. PICK list \in OutputList : PrepareOutputs(list)
    BY <1>1
  <2>2. outputs' \in Seq(Output) /\ DOMAIN delivered' = DOMAIN outputs'
    BY <2>1, OutputAssumption DEF PrepareOutputs
  <2>3. handled' = NoMessage
    BY <1>1, <2>1 DEF Waiting, PrepareOutputs
  <2>4. QED
    BY <2>2, <2>3 DEF IInv, SentIsWellFormed, OnlyTheAddressed, ArrivesAsAsked
<1>2. CASE Waiting /\ \E m \in Message : ProcessMessage(m)
  BY <1>2, ProcessMessageKeepsIInv
<1>3. CASE Return
  <2>1. handled' = NoMessage /\ outputs' = outputs /\ DOMAIN delivered' = All
    BY <1>3, NothingSends DEF Return
  <2>2. QED
    BY <2>1 DEF IInv, All, SentIsWellFormed, OnlyTheAddressed, ArrivesAsAsked
<1>4. CASE UNCHANGED vars
  BY <1>4 DEF vars, IInv, SentIsWellFormed, OnlyTheAddressed, ArrivesAsAsked, Reached, IsAddressed
<1>5. QED
  BY <1>1, <1>2, <1>3, <1>4 DEF Next

\* For all int32s: what a handler other than raw's sends is a complete MIDI message
\* (juce_MidiMessage.cpp:455-590 clamps and masks whatever oscinprocessor.cpp passes on).
THEOREM WhatIsSentIsWellFormed == Spec => []SentIsWellFormed
<1>1. IInv => SentIsWellFormed
  BY DEF IInv
<1>2. QED
  BY InitIInv, NextIInv, <1>1, PTL DEF Spec

\* For all lists of outputs and any normalisation: only addressed outputs are reached,
\* and by name one at most (oscinprocessor.cpp:122-140).
THEOREM OnlyTheAddressedAreReached == Spec => []OnlyTheAddressed
<1>1. IInv => OnlyTheAddressed
  BY DEF IInv
<1>2. QED
  BY InitIInv, NextIInv, <1>1, PTL DEF Spec

\* For all documented values, any list of outputs and any normalisation: what
\* oscinprocessor.cpp:44-98 has sent is understood by each receiver as what was asked for, on
\* every channel asked for, and with a wrong body nobody hears anything.
THEOREM DocumentedCommandsArrive == Spec => []ArrivesAsAsked
<1>1. IInv => ArrivesAsAsked
  BY DEF IInv
<1>2. QED
  BY InitIInv, NextIInv, <1>1, PTL DEF Spec

----------------------------------------------------------------------------
\* A set with 0 and the successor of each of its numbers has all of them: what the loop
\* of a raw message collects is shown by it.
LEMMA Induction ==
    ASSUME NEW T, 0 \in T, \A n \in Nat : n \in T => n + 1 \in T
    PROVE  Nat \subseteq T
<1>1. ASSUME Nat \ T # {} PROVE FALSE
  <2>1. PICK n \in Nat \ T : \A m \in Nat \ T : <<m, n>> \notin Less
    BY <1>1, LessIsWellFounded, WFMin
  <2>2. n \in Nat /\ n # 0
    BY <2>1
  <2>3. n - 1 \in Nat /\ (n - 1) + 1 = n /\ n - 1 < n
    BY <2>2
  <2>4. <<n - 1, n>> \in Less
    BY <2>2, <2>3 DEF Less
  <2>5. n - 1 \in T
    BY <2>1, <2>3, <2>4
  <2>6. QED
    BY <2>1, <2>3, <2>5
<1>2. QED
  BY <1>1

----------------------------------------------------------------------------
(* The bytes that are sent. *)

\* What becomes of the bytes s at the argument arg, and what it is to be so collected.
Collected(s, arg) == IF arg.tag = "int32" THEN Append(s, arg.value % 256) ELSE s
Collects(f, args) ==
    f = [i \in 0..Len(args) |-> IF i = 0 THEN << >> ELSE Collected(f[i - 1], args[i])]

\* RawBytes is the last value of a function that satisfies the equation of the loop,
LEMMA RawBytesIsChosen ==
    ASSUME NEW args
    PROVE  RawBytes(args) = (CHOOSE f : Collects(f, args))[Len(args)]
  BY Zenon DEF RawBytes, Collects, Collected

\* and there is one;
LEMMA CollectsExists ==
    ASSUME NEW args, Len(args) \in Nat
    PROVE  \E f : Collects(f, args)
<1> DEFINE N == Len(args)
           At(f, i) == f[i] = IF i = 0 THEN << >> ELSE Collected(f[i - 1], args[i])
           P(n) == \E f : DOMAIN f = 0..n /\ (\A i \in 0..n : At(f, i)) /\ f = [i \in 0..n |-> f[i]]
           T == {n \in Nat : P(n)}
<1>1. P(0)
  <2> DEFINE f == [i \in 0..0 |-> << >>]
  <2>1. DOMAIN f = 0..0 /\ (\A i \in 0..0 : f[i] = << >>) /\ f = [i \in 0..0 |-> f[i]]
    OBVIOUS
  <2>2. \A i \in 0..0 : i = 0
    OBVIOUS
  <2> HIDE DEF f
  <2>3. \A i \in 0..0 : At(f, i)
    BY <2>1, <2>2
  <2> HIDE DEF At
  <2>4. QED
    BY <2>1, <2>3
<1>2. ASSUME NEW n \in Nat, P(n) PROVE P(n + 1)
  <2>1. PICK f : DOMAIN f = 0..n /\ \A i \in 0..n : At(f, i)
    BY <1>2
  <2> DEFINE last == Collected(f[n], args[n + 1])
             g == [i \in 0..(n + 1) |-> IF i \in 0..n THEN f[i] ELSE last]
  <2> HIDE DEF last
  <2>2. /\ DOMAIN g = 0..(n + 1) /\ g = [i \in 0..(n + 1) |-> g[i]]
        /\ \A i \in 0..n : g[i] = f[i]
        /\ g[n + 1] = last
    OBVIOUS
  <2> HIDE DEF g
  <2>3. ASSUME NEW i \in 0..(n + 1) PROVE At(g, i)
    <3>1. CASE i = n + 1
      <4>1. i # 0 /\ i - 1 = n /\ n \in 0..n
        BY <3>1
      <4>2. g[i - 1] = f[n] /\ g[i] = Collected(f[n], args[i])
        BY <2>2, <3>1, <4>1 DEF last
      <4>3. QED
        BY <4>1, <4>2
    <3>2. CASE i \in 0..n
      <4>1. i # 0 => i - 1 \in 0..n
        BY <3>2
      <4>2. g[i] = f[i] /\ (i # 0 => g[i - 1] = f[i - 1])
        BY <2>2, <3>2, <4>1, Zenon
      <4>3. At(f, i)
        BY <2>1, <3>2
      <4>4. QED
        BY <4>2, <4>3
    <3>3. QED
      BY <3>1, <3>2
  <2> HIDE DEF At
  <2>4. QED
    BY <2>2, <2>3
<1> HIDE DEF P
<1>3. Nat \subseteq T
  <2>1. 0 \in T /\ \A n \in Nat : n \in T => n + 1 \in T
    BY <1>1, <1>2
  <2> HIDE DEF T
  <2>2. QED
    BY <2>1, Induction
<1>4. P(N)
  BY <1>3
<1>5. PICK f : (\A i \in 0..N : At(f, i)) /\ f = [i \in 0..N |-> f[i]]
  BY <1>4 DEF P
<1>6. f = [i \in 0..N |-> IF i = 0 THEN << >> ELSE Collected(f[i - 1], args[i])]
  BY <1>5
<1>7. QED
  BY <1>6 DEF Collects

\* so what the loop collects are bytes.
LEMMA RawBytesType ==
    ASSUME NEW args \in Seq(Argument)
    PROVE  RawBytes(args) \in Seq(Byte)
<1> DEFINE N == Len(args)
           f == CHOOSE g : Collects(g, args)
           T == {n \in Nat : n <= N => f[n] \in Seq(Byte)}
<1>1. N \in Nat
  OBVIOUS
<1>2. Collects(f, args)
  BY <1>1, CollectsExists, Zenon
<1> HIDE DEF f
<1>3. \A i \in 0..N : f[i] = IF i = 0 THEN << >> ELSE Collected(f[i - 1], args[i])
  BY <1>2 DEF Collects
<1> HIDE DEF N
<1>4. 0 \in T
  <2>1. f[0] = << >>
    BY <1>1, <1>3
  <2>2. << >> \in Seq(Byte)
    OBVIOUS
  <2>3. QED
    BY <2>1, <2>2
<1>5. ASSUME NEW n \in Nat, n \in T PROVE n + 1 \in T
  <2>1. SUFFICES ASSUME n + 1 <= N PROVE f[n + 1] \in Seq(Byte)
    BY <1>5
  <2>2. n + 1 \in 0..N /\ n + 1 \in 1..N /\ n <= N /\ n + 1 # 0 /\ (n + 1) - 1 = n
    BY <1>1, <2>1
  <2>3. f[n] \in Seq(Byte)
    BY <1>5, <2>2
  <2>4. f[n + 1] = Collected(f[n], args[n + 1])
    BY <1>3, <2>2
  <2>5. args[n + 1] \in Argument
    BY <2>2 DEF N
  <2>6. args[n + 1].tag = "int32" => args[n + 1].value % 256 \in Byte
    <3>1. SUFFICES ASSUME args[n + 1].tag = "int32" PROVE args[n + 1].value % 256 \in Byte
      OBVIOUS
    <3>2. args[n + 1].value \in Int32Value
      BY <2>5, <3>1 DEF Argument
    <3>3. args[n + 1].value \in Int
      BY <3>2, ValueAssumption
    <3> DEFINE v == args[n + 1].value
    <3>4. v \in Int
      BY <3>3
    <3> HIDE DEF v
    <3>5. v % 256 \in Byte
      BY <3>4 DEF Byte
    <3>6. QED
      BY <3>5 DEF v
  <2>7. QED
    BY <2>3, <2>4, <2>6 DEF Collected
<1>6. Nat \subseteq T
  <2> HIDE DEF T
  <2>1. QED
    BY <1>4, <1>5, Induction
<1>7. f[N] \in Seq(Byte)
  BY <1>1, <1>6
<1>8. QED
  BY <1>7, RawBytesIsChosen DEF f, N

\* What the handlers build for a channel, and for all of them, are bytes.
LEMMA ChannelMessageType ==
    ASSUME NEW command \in DOMAIN Type, NEW channel \in Int,
           NEW a, a[2] \in Int, Int32sExpected[command] = 3 => a[3] \in Int
    PROVE  ChannelMessage(command, channel, a) \in Seq(Byte)
<1> DEFINE first == InitialByte(Type[command], channel)
<1>1. first \in Byte
  <2>1. Type[command] \in {128, 144, 160, 176, 192, 208, 224}
    BY DEF Type
  <2>2. Limit(0, 15, channel - 1) \in 0..15
    BY DEF Limit
  <2>3. QED
    BY <2>1, <2>2 DEF InitialByte, Byte
<1> HIDE DEF first
<1>2. a[2] % 128 \in Byte /\ (a[2] \div 128) % 128 \in Byte
  <2>1. a[2] % 128 \in 0..127 /\ (a[2] \div 128) % 128 \in 0..127
    OBVIOUS
  <2>2. QED
    BY <2>1 DEF Byte
<1>3. CASE command \in {"note_on", "note_off"}
  <2>1. a[3] \in Int
    BY <1>3 DEF Int32sExpected
  <2>2. Velocity(a[3]) \in Byte
    BY <2>1 DEF Velocity, Limit, Byte
  <2>3. ChannelMessage(command, channel, a) = <<first, a[2] % 128, Velocity(a[3])>>
    BY <1>3 DEF ChannelMessage, first
  <2> DEFINE x == a[2] % 128
             y == Velocity(a[3])
  <2>4. x \in Byte /\ y \in Byte
    BY <1>2, <2>2
  <2> HIDE DEF x, y
  <2>5. <<first, x, y>> \in Seq(Byte)
    BY <1>1, <2>4
  <2>6. QED
    BY <2>3, <2>5 DEF x, y
<1>4. CASE command \in {"control_change", "poly_pressure"}
  <2>1. a[3] \in Int
    BY <1>4 DEF Int32sExpected
  <2>2. a[3] % 128 \in Byte
    BY <2>1 DEF Byte
  <2>3. ChannelMessage(command, channel, a) = <<first, a[2] % 128, a[3] % 128>>
    BY <1>4 DEF ChannelMessage, first
  <2> DEFINE x == a[2] % 128
             y == a[3] % 128
  <2>4. x \in Byte /\ y \in Byte
    BY <1>2, <2>2
  <2> HIDE DEF x, y
  <2>5. <<first, x, y>> \in Seq(Byte)
    BY <1>1, <2>4
  <2>6. QED
    BY <2>3, <2>5 DEF x, y
<1>5. CASE command = "pitch_bend"
  <2>1. ChannelMessage(command, channel, a) = <<first, a[2] % 128, (a[2] \div 128) % 128>>
    BY <1>5 DEF ChannelMessage, first
  <2> DEFINE x == a[2] % 128
             y == (a[2] \div 128) % 128
  <2>2. x \in Byte /\ y \in Byte
    BY <1>2
  <2> HIDE DEF x, y
  <2>3. <<first, x, y>> \in Seq(Byte)
    BY <1>1, <2>2
  <2>4. QED
    BY <2>1, <2>3 DEF x, y
<1>6. CASE command \in {"program_change", "channel_pressure"}
  <2>1. ChannelMessage(command, channel, a) = <<first, a[2] % 128>>
    BY <1>6 DEF ChannelMessage, first
  <2> DEFINE x == a[2] % 128
  <2>2. x \in Byte
    BY <1>2
  <2> HIDE DEF x
  <2>3. <<first, x>> \in Seq(Byte)
    BY <1>1, <2>2
  <2>4. QED
    BY <2>1, <2>3 DEF x
<1>7. QED
  BY <1>3, <1>4, <1>5, <1>6 DEF Type

LEMMA ChannelMessagesType ==
    ASSUME NEW m \in Message, m.command \in DOMAIN Type, ArgumentsAreRight(m)
    PROVE  ChannelMessages(m.command, Ints(m)) \in Seq(Seq(Byte))
<1> DEFINE a == Ints(m)
<1>1. m.command \in DOMAIN Int32sExpected /\ Int32sExpected[m.command] \in {2, 3}
  BY DEF Type, Int32sExpected
<1>2. \A i \in 1..Int32sExpected[m.command] : a[i] \in Int
  BY <1>1, RightArguments
<1>3. a[1] \in Int /\ a[2] \in Int /\ (Int32sExpected[m.command] = 3 => a[3] \in Int)
  BY <1>1, <1>2
<1> HIDE DEF a
<1>4. \A channel \in Int : ChannelMessage(m.command, channel, a) \in Seq(Byte)
  BY <1>3, ChannelMessageType
<1>5. <<ChannelMessage(m.command, a[1], a)>> \in Seq(Seq(Byte))
  <2> DEFINE b == ChannelMessage(m.command, a[1], a)
  <2>1. b \in Seq(Byte)
    BY <1>3, <1>4
  <2> HIDE DEF b
  <2>2. <<b>> \in Seq(Seq(Byte))
    BY <2>1
  <2>3. QED
    BY <2>2 DEF b
<1>6. [channel \in 1..16 |-> ChannelMessage(m.command, channel, a)] \in Seq(Seq(Byte))
  <2>1. \A channel \in 1..16 : channel \in Int
    OBVIOUS
  <2>2. [channel \in 1..16 |-> ChannelMessage(m.command, channel, a)] \in [1..16 -> Seq(Byte)]
    BY <1>4, <2>1, Zenon
  <2>3. QED
    BY <2>2, SeqDef
<1>7. QED
  BY <1>5, <1>6 DEF ChannelMessages, a

\* Sending gives the outputs the messages, or the first of them, or none.
LEMMA SendToType ==
    ASSUME NEW S, NEW messages \in Seq(Seq(Byte)), SendTo(S, messages),
           status \in {"up", "terminated", "crashed"}
    PROVE  /\ \A i \in All : delivered'[i] \in Seq(Seq(Byte))
           /\ status' \in {"up", "terminated", "crashed"}
<1>1. << >> \in Seq(Seq(Byte))
  OBVIOUS
<1>2. messages # << >> => <<messages[1]>> \in Seq(Seq(Byte))
  OBVIOUS
<1>3. QED
  BY <1>1, <1>2 DEF SendTo

\* What the variables that a message changes have become.
TypeStep ==
    /\ logLevel' \in Int32Value \cup {2}
    /\ sendToOSC' \in BOOLEAN
    /\ status' \in {"up", "terminated", "crashed"}
    /\ \A i \in All : delivered'[i] \in Seq(Seq(Byte))

\* The variables after a message, whatever it is.
LEMMA ProcessMessageTypes ==
    ASSUME TypeOK, NEW m \in Message, ProcessMessage(m)
    PROVE  TypeStep
<1>1. Unlogged => logLevel' \in Int32Value \cup {2} /\ sendToOSC' \in BOOLEAN
  BY Zenon DEF TypeOK, Unlogged
<1>2. status \in {"up", "terminated", "crashed"}
  BY DEF TypeOK
<1>3. Nothing => \A i \in All : delivered'[i] \in Seq(Seq(Byte))
  <2>1. << >> \in Seq(Seq(Byte))
    OBVIOUS
  <2>2. QED
    BY <2>1 DEF Nothing
<1>4. m.arguments \in Seq(Argument)
  BY ArgumentAssumption DEF Message
<1>5. CASE ChannelCommand(m)
  <2>1. ChannelMessages(m.command, Ints(m)) \in Seq(Seq(Byte))
    BY <1>5, ChannelMessagesType DEF ChannelCommand
  <2>2. SendTo(Targets(m.device), ChannelMessages(m.command, Ints(m))) /\ Unlogged
    BY <1>5 DEF ChannelCommand
  <2>3. QED
    BY <1>1, <1>2, <2>1, <2>2, SendToType, Zenon DEF TypeStep
<1>6. CASE SystemCommand(m)
  <2>1. m.command \in DOMAIN SystemMessage
    BY <1>6 DEF SystemCommand
  <2> DEFINE b == SystemMessage[m.command]
  <2>2. b \in Seq(Byte)
    <3>1. ASSUME NEW x \in Byte, NEW y \in Byte PROVE <<x>> \in Seq(Byte) /\ <<x, y>> \in Seq(Byte)
      OBVIOUS
    <3>2. /\ 248 \in Byte /\ 250 \in Byte /\ 251 \in Byte /\ 252 \in Byte
          /\ 240 \in Byte /\ 247 \in Byte
      BY DEF Byte
    <3>3. \/ b = <<248>> \/ b = <<250>> \/ b = <<251>> \/ b = <<252>>
          \/ b = <<240, 247>>
      BY <2>1 DEF SystemMessage
    <3> HIDE DEF b
    <3>4. \/ \E x \in Byte : b = <<x>>
          \/ \E x, y \in Byte : b = <<x, y>>
      BY <3>2, <3>3, Zenon
    <3>5. QED
      BY <3>1, <3>4
  <2>3. SendTo(Targets(m.device), <<b>>) /\ Unlogged
    BY <1>6 DEF SystemCommand
  <2> HIDE DEF b
  <2>4. <<b>> \in Seq(Seq(Byte))
    BY <2>2
  <2>5. QED
    BY <1>1, <1>2, <2>3, <2>4, SendToType, Zenon DEF TypeStep
<1>7. CASE RawCommand(m)
  <2>1. \E S, b : b \in Seq(Byte) /\ SendTo(S, <<b>>)
    <3>1. CASE IsBlob(m)
      <4>1. m.arguments[1] \in Argument /\ m.arguments[1].tag = "blob"
        BY <1>4, <3>1 DEF IsBlob
      <4>2. m.arguments[1].bytes \in Seq(Byte)
        BY <4>1 DEF Argument, Byte
      <4>3. SendTo(All, <<m.arguments[1].bytes>>)
        BY <1>7, <3>1 DEF RawCommand
      <4>4. QED
        BY <4>2, <4>3, Zenon
    <3>2. CASE ~IsBlob(m)
      <4>1. RawBytes(m.arguments) \in Seq(Byte)
        BY <1>4, RawBytesType
      <4>2. SendTo(Targets(m.device), <<RawBytes(m.arguments)>>)
        BY <1>7, <3>2 DEF RawCommand
      <4>3. QED
        BY <4>1, <4>2, Zenon
    <3>3. QED
      BY <3>1, <3>2
  <2>2. PICK S, b : b \in Seq(Byte) /\ SendTo(S, <<b>>)
    BY <2>1
  <2>3. <<b>> \in Seq(Seq(Byte))
    BY <2>2
  <2>4. Unlogged
    BY <1>7 DEF RawCommand
  <2>5. QED
    BY <1>1, <1>2, <2>2, <2>3, <2>4, SendToType, Zenon DEF TypeStep
<1>8. CASE RawWithoutArguments(m) \/ RawOversized(m) \/ ArgumentsMissing(m) \/ Ignore(m)
  <2>1. Nothing /\ Unlogged /\ (status' = status \/ status' \in {"terminated", "crashed"})
    BY <1>8 DEF RawWithoutArguments, RawOversized, ArgumentsMissing, Ignore
  <2>2. status' \in {"up", "terminated", "crashed"}
    BY <1>2, <2>1
  <2>3. QED
    BY <1>1, <1>3, <2>1, <2>2, Zenon DEF TypeStep
<1>9. CASE LogLevelCommand(m)
  <2>1. /\ m.command = "log_level" /\ ArgumentsAreRight(m) /\ logLevel' = Ints(m)[1]
        /\ Nothing /\ sendToOSC' = sendToOSC /\ status' = status
    BY <1>9 DEF LogLevelCommand
  <2>2. Len(m.arguments) = 1 /\ \A i \in DOMAIN m.arguments : m.arguments[i].tag = "int32"
    BY <2>1 DEF ArgumentsAreRight, Int32sExpected
  <2>3. 1 \in DOMAIN m.arguments /\ m.arguments[1] \in Argument
    BY <1>4, <2>2
  <2>4. m.arguments[1].value \in Int32Value
    BY <2>2, <2>3 DEF Argument
  <2>5. logLevel' \in Int32Value \cup {2}
    BY <2>1, <2>3, <2>4 DEF Ints
  <2>6. sendToOSC' \in BOOLEAN
    BY <2>1, Zenon DEF TypeOK
  <2>7. QED
    BY <1>2, <1>3, <2>1, <2>5, <2>6, Zenon DEF TypeStep
<1>10. CASE LogToOscCommand(m)
  <2>1. /\ sendToOSC' = (Ints(m)[1] # 0)
        /\ Nothing /\ logLevel' = logLevel /\ status' = status
    BY <1>10 DEF LogToOscCommand
  <2>2. sendToOSC' \in BOOLEAN
    BY <2>1, Zenon
  <2>3. logLevel' \in Int32Value \cup {2}
    BY <2>1, Zenon DEF TypeOK
  <2>4. QED
    BY <1>2, <1>3, <2>1, <2>2, <2>3, Zenon DEF TypeStep
<1>11. QED
  BY <1>5, <1>6, <1>7, <1>8, <1>9, <1>10, Zenon DEF ProcessMessage

\* TypeOK is inductive.
LEMMA InitType == Init => TypeOK
<1> SUFFICES ASSUME Init PROVE TypeOK
  OBVIOUS
<1>1. sendToOSC \in BOOLEAN
  BY Zenon DEF Init
<1>2. outputs = << >> /\ delivered = << >> /\ logLevel = 2 /\ status = "up" /\ handled = NoMessage
  BY DEF Init
<1>3. DOMAIN outputs = {} /\ DOMAIN delivered = {} /\ outputs \in Seq(Output)
  BY <1>2
<1>4. QED
  BY <1>1, <1>2, <1>3, Zenon DEF TypeOK

LEMMA NextType == TypeOK /\ [Next]_vars => TypeOK'
<1> SUFFICES ASSUME TypeOK, [Next]_vars PROVE TypeOK'
  OBVIOUS
<1>1. CASE Waiting /\ \E list \in OutputList : PrepareOutputs(list)
  <2>1. PICK list \in OutputList : PrepareOutputs(list)
    BY <1>1
  <2>2. outputs' = list /\ outputs' \in Seq(Output)
    BY <2>1, OutputAssumption DEF PrepareOutputs
  <2>3. delivered' = [i \in DOMAIN list |-> << >>]
    BY <2>1 DEF PrepareOutputs
  <2>4. << >> \in Seq(Seq(Byte))
    OBVIOUS
  <2>5. /\ DOMAIN delivered' = DOMAIN outputs'
        /\ \A i \in DOMAIN outputs' : delivered'[i] \in Seq(Seq(Byte))
    BY <2>2, <2>3, <2>4, Zenon
  <2>6. logLevel' = logLevel /\ sendToOSC' = sendToOSC /\ status' = status /\ handled' = handled
    BY <2>1 DEF PrepareOutputs
  <2>7. QED
    BY <2>2, <2>5, <2>6, Zenon DEF TypeOK
<1>2. CASE Waiting /\ \E m \in Message : ProcessMessage(m)
  <2>1. PICK m \in Message : ProcessMessage(m)
    BY <1>2
  <2>2. handled' = m /\ outputs' = outputs /\ DOMAIN delivered' = All
    BY <2>1, ProcessMessageSends
  <2>3. TypeStep
    BY <2>1, ProcessMessageTypes
  <2>4. QED
    BY <2>2, <2>3, Zenon DEF TypeOK, TypeStep, All
<1>3. CASE Return
  <2>1. /\ handled' = NoMessage /\ outputs' = outputs /\ delivered' = [i \in All |-> << >>]
        /\ logLevel' = logLevel /\ sendToOSC' = sendToOSC /\ status' = status
    BY <1>3 DEF Return, Nothing
  <2>2. << >> \in Seq(Seq(Byte))
    OBVIOUS
  <2>3. /\ DOMAIN delivered' = DOMAIN outputs'
        /\ \A i \in DOMAIN outputs' : delivered'[i] \in Seq(Seq(Byte))
    BY <2>1, <2>2, Zenon DEF All
  <2>4. QED
    BY <2>1, <2>3, Zenon DEF TypeOK
<1>4. CASE UNCHANGED vars
  BY <1>4, Zenon DEF vars, TypeOK, Message
<1>5. QED
  BY <1>1, <1>2, <1>3, <1>4 DEF Next

\* Whatever int32s and argument lists come in, what every output is given are sequences
\* of bytes: the clamps and masks of juce_MidiMessage.cpp:455-590 leave no status or data
\* byte above 255, and the cast in oscinprocessor.cpp:160 no raw one; and the log level is
\* one that was asked for.
THEOREM OnlyBytesAreSent == Spec => []TypeOK
  BY InitType, NextType, PTL DEF Spec
===============================================================================
