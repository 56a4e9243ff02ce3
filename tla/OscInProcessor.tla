---------------------------- MODULE OscInProcessor ----------------------------
(***************************************************************************)
(* What o2m does with an OSC message: OscInProcessor::ProcessMessage, its   *)
(* handlers and send(), and the MIDI messages JUCE builds for them. One     *)
(* action handles one message, on the thread that is in the receive loop.   *)
(***************************************************************************)
EXTENDS Integers, Sequences, FiniteSets, Functions

CONSTANTS
    Device,          \* names of ports, and what an address has in their place
    Wildcard,        \* the name "*"
    SafeOscString,   \* local_utils::safeOscString, which is not injective
    Int32Value,      \* the int32s in messages
    ArgumentList,    \* the argument lists of messages
    OutputList,      \* the lists of outputs prepareOutputs can build
    NoMessage

\* ReceivedMessage's constructor lets an oversized blob pass, one whose size is no valid
\* element size.
Argument ==
    [tag : {"int32"}, value : Int32Value]
    \cup [tag : {"blob"}, bytes : Seq(0..255)]
    \cup [tag : {"oversized blob"}]
    \cup [tag : {"other"}]

\* A port object and whether its device could be opened.
Output == [name : Device, open : BOOLEAN]

ASSUME DeviceAssumption ==
    /\ SafeOscString \in [Device -> Device]
    /\ Wildcard \in Device
    /\ \A d \in Device : SafeOscString[d] # Wildcard
ASSUME ValueAssumption == Int32Value \subseteq Int
ASSUME ArgumentAssumption == \A args \in ArgumentList : args \in Seq(Argument)
ASSUME OutputAssumption == \A list \in OutputList : list \in Seq(Output)

VARIABLES
    outputs,     \* m_outputs
    logLevel,    \* the level of spdlog
    sendToOSC,   \* MonitorLogger::m_sendToOSC
    status,      \* "up", "terminated" by an exception or "crashed"
    handled,     \* the message handled last, until the receive loop waits again
    delivered    \* the MIDI messages it has sent, for each output

vars == <<outputs, logLevel, sendToOSC, status, handled, delivered>>

----------------------------------------------------------------------------
(* MIDI messages, as sequences of bytes. *)

\* juce::jlimit
Limit(low, high, x) == IF x < low THEN low ELSE IF x > high THEN high ELSE x

\* Mutant: the channel is not clamped.
InitialByteUnclamped(type, channel) == type + channel - 1

\* MidiHelpers::initialByte
InitialByte(type, channel) == type + Limit(0, 15, channel - 1)

\* The cast to uint8 in the handlers, then MidiHelpers::validVelocity.
Velocity(v) == Limit(0, 127, v % 256)

Type ==
    [note_off |-> 128, note_on |-> 144, poly_pressure |-> 160, control_change |-> 176,
     program_change |-> 192, channel_pressure |-> 208, pitch_bend |-> 224]

\* Mutant: the note is cut to a byte, not masked to seven bits.
ChannelMessageUnmasked(command, channel, a) ==
    LET first == InitialByte(Type[command], channel)
    IN  CASE command \in {"note_on", "note_off"} -> <<first, a[2] % 256, Velocity(a[3])>>
          [] command \in {"control_change", "poly_pressure"} -> <<first, a[2] % 128, a[3] % 128>>
          [] command = "pitch_bend" -> <<first, a[2] % 128, (a[2] \div 128) % 128>>
          [] OTHER -> <<first, a[2] % 128>>

\* Mutant: the more significant half of the pitch bend goes first.
ChannelMessageSwapped(command, channel, a) ==
    LET first == InitialByte(Type[command], channel)
    IN  CASE command \in {"note_on", "note_off"} -> <<first, a[2] % 128, Velocity(a[3])>>
          [] command \in {"control_change", "poly_pressure"} -> <<first, a[2] % 128, a[3] % 128>>
          [] command = "pitch_bend" -> <<first, (a[2] \div 128) % 128, a[2] % 128>>
          [] OTHER -> <<first, a[2] % 128>>

\* The message for the arguments a, of which a[1] is the channel asked for. x & 127 is
\* x % 128 and x >> 7 is x \div 128, for negative numbers too. OTHER is program_change
\* and channel_pressure.
ChannelMessage(command, channel, a) ==
    LET first == InitialByte(Type[command], channel)
    IN  CASE command \in {"note_on", "note_off"} -> <<first, a[2] % 128, Velocity(a[3])>>
          [] command \in {"control_change", "poly_pressure"} -> <<first, a[2] % 128, a[3] % 128>>
          [] command = "pitch_bend" -> <<first, a[2] % 128, (a[2] \div 128) % 128>>
          [] OTHER -> <<first, a[2] % 128>>

\* Channel 0, and any below, stands for all sixteen.
ChannelMessages(command, a) ==
    IF a[1] > 0
    THEN <<ChannelMessage(command, a[1], a)>>
    ELSE [channel \in 1..16 |-> ChannelMessage(command, channel, a)]

\* A default MidiMessage is an empty sysex, and that is what is sent for active_sensing.
SystemMessage ==
    [clock |-> <<248>>, start |-> <<250>>, continue |-> <<251>>, stop |-> <<252>>,
     active_sensing |-> <<240, 247>>]

\* The int32s of a raw message become bytes; other arguments are skipped.
RawBytes(args) ==
    LET collected[i \in 0..Len(args)] ==
            IF i = 0
            THEN << >>
            ELSE IF args[i].tag = "int32"
                 THEN Append(collected[i - 1], args[i].value % 256)
                 ELSE collected[i - 1]
    IN  collected[Len(args)]

----------------------------------------------------------------------------
(* Messages. *)

\* How many int32s the handlers take from the argument list.
Int32sExpected ==
    [note_on |-> 3, note_off |-> 3, control_change |-> 3, poly_pressure |-> 3,
     pitch_bend |-> 2, channel_pressure |-> 2, program_change |-> 2,
     log_level |-> 1, log_to_osc |-> 1]

\* "active_sense" stands for all commands that the code does not know.
Command == DOMAIN Int32sExpected \cup DOMAIN SystemMessage \cup {"raw", "active_sense"}

Message == [device : Device, command : Command, arguments : ArgumentList]

Ints(m) == [i \in DOMAIN m.arguments |-> m.arguments[i].value]

\* No WrongArgumentTypeException: every argument an int32, none missing, none too many.
ArgumentsAreRight(m) ==
    /\ Len(m.arguments) = Int32sExpected[m.command]
    /\ \A i \in DOMAIN m.arguments : m.arguments[i].tag = "int32"

All == DOMAIN outputs

Matches(d) == {i \in All : SafeOscString[outputs[i].name] = SafeOscString[d]}

\* Mutant: the search goes on after the output was found.
AllNamed(d) == IF d = Wildcard THEN All ELSE Matches(d)

\* The outputs that send() finds: all, or the first of that normalised name, or none.
Targets(d) ==
    IF d = Wildcard
    THEN All
    ELSE {i \in Matches(d) : \A j \in Matches(d) : i <= j}

----------------------------------------------------------------------------
Init ==
    /\ outputs = << >>
    /\ logLevel = 2
    /\ sendToOSC = TRUE
    /\ status = "up"
    /\ handled = NoMessage
    /\ delivered = << >>

\* The thread is in the receive loop, or between two calls of it.
Waiting == status = "up" /\ handled = NoMessage

\* Between two calls of the receive loop.
PrepareOutputs(list) ==
    /\ outputs # list
    /\ outputs' = list
    /\ delivered' = [i \in DOMAIN list |-> << >>]
    /\ UNCHANGED <<logLevel, sendToOSC, status, handled>>

Handle(m) ==
    /\ handled' = m
    /\ UNCHANGED outputs

Unlogged == UNCHANGED <<logLevel, sendToOSC>>

\* The messages go to the outputs S, all of them to one after the other. A port whose
\* device could not be opened is a null pointer: those before it had the first message.
SendTo(S, messages) ==
    LET closed == {i \in S : ~outputs[i].open}
    IN  IF closed = {} \/ messages = << >>
        THEN /\ delivered' = [i \in All |-> IF i \in S THEN messages ELSE << >>]
             /\ UNCHANGED status
        ELSE /\ delivered' = [i \in All |->
                   IF i \in S /\ \A j \in closed : i < j THEN <<messages[1]>> ELSE << >>]
             /\ status' = "crashed"

Nothing == delivered' = [i \in All |-> << >>]

ChannelCommand(m) ==
    /\ m.command \in DOMAIN Type
    /\ ArgumentsAreRight(m)
    /\ Handle(m)
    /\ SendTo(Targets(m.device), ChannelMessages(m.command, Ints(m)))
    /\ Unlogged

\* The arguments of these are not looked at.
SystemCommand(m) ==
    /\ m.command \in DOMAIN SystemMessage
    /\ Handle(m)
    /\ SendTo(Targets(m.device), <<SystemMessage[m.command]>>)
    /\ Unlogged

IsBlob(m) == m.arguments # << >> /\ m.arguments[1].tag = "blob"

IsOversized(m) == m.arguments # << >> /\ m.arguments[1].tag = "oversized blob"

\* A blob goes to every output, whatever the address.
RawCommand(m) ==
    /\ m.command = "raw"
    /\ m.arguments # << >>
    /\ ~IsOversized(m)
    /\ Handle(m)
    /\ IF IsBlob(m)
       THEN SendTo(All, <<m.arguments[1].bytes>>)
       ELSE SendTo(Targets(m.device), <<RawBytes(m.arguments)>>)
    /\ Unlogged

\* Without arguments there are no type tags to look at, and IsBlob reads through a null pointer.
RawWithoutArguments(m) ==
    /\ m.command = "raw"
    /\ m.arguments = << >>
    /\ Handle(m)
    /\ status' = "crashed"
    /\ Nothing
    /\ Unlogged

\* AsBlob throws a MalformedMessageException, which no handler catches.
RawOversized(m) ==
    /\ m.command = "raw"
    /\ IsOversized(m)
    /\ Handle(m)
    /\ status' = "terminated"
    /\ Nothing
    /\ Unlogged

LogLevelCommand(m) ==
    /\ m.command = "log_level"
    /\ ArgumentsAreRight(m)
    /\ Handle(m)
    /\ logLevel' = Ints(m)[1]
    /\ Nothing
    /\ UNCHANGED <<sendToOSC, status>>

LogToOscCommand(m) ==
    /\ m.command = "log_to_osc"
    /\ ArgumentsAreRight(m)
    /\ Handle(m)
    /\ sendToOSC' = (Ints(m)[1] # 0)
    /\ Nothing
    /\ UNCHANGED <<logLevel, status>>

\* No arguments at all: a MissingArgumentException, which no handler catches.
ArgumentsMissing(m) ==
    /\ m.command \in DOMAIN Int32sExpected
    /\ m.arguments = << >>
    /\ Handle(m)
    /\ status' = "terminated"
    /\ Nothing
    /\ Unlogged

\* An error is logged, and that is all.
Ignore(m) ==
    /\ \/ m.command \notin DOMAIN Int32sExpected \cup DOMAIN SystemMessage \cup {"raw"}
       \/ /\ m.command \in DOMAIN Int32sExpected
          /\ m.arguments # << >>
          /\ ~ArgumentsAreRight(m)
    /\ Handle(m)
    /\ Nothing
    /\ UNCHANGED status
    /\ Unlogged

ProcessMessage(m) ==
    \/ ChannelCommand(m)
    \/ SystemCommand(m)
    \/ RawCommand(m)
    \/ RawWithoutArguments(m)
    \/ RawOversized(m)
    \/ LogLevelCommand(m)
    \/ LogToOscCommand(m)
    \/ ArgumentsMissing(m)
    \/ Ignore(m)

\* ProcessMessage returns to the receive loop: what was sent is forgotten.
Return ==
    /\ status = "up"
    /\ handled # NoMessage
    /\ handled' = NoMessage
    /\ Nothing
    /\ UNCHANGED <<outputs, logLevel, sendToOSC, status>>

Next ==
    \/ Waiting /\ \E list \in OutputList : PrepareOutputs(list)
    \/ Waiting /\ \E m \in Message : ProcessMessage(m)
    \/ Return

Spec == Init /\ [][Next]_vars

----------------------------------------------------------------------------
(* Properties. *)

Byte == 0..255

TypeOK ==
    /\ outputs \in Seq(Output)
    /\ logLevel \in Int32Value \cup {2}
    /\ sendToOSC \in BOOLEAN
    /\ status \in {"up", "terminated", "crashed"}
    /\ handled \in Message \cup {NoMessage}
    /\ DOMAIN delivered = DOMAIN outputs
    /\ \A i \in DOMAIN outputs : delivered[i] \in Seq(Seq(Byte))

\* A complete MIDI message: a status byte and the data bytes that belong to it.
WellFormed(b) ==
    \/ /\ b[1] \in 128..239
       /\ Len(b) = IF b[1] \in 192..223 THEN 2 ELSE 3
       /\ \A i \in 2..Len(b) : b[i] \in 0..127
    \/ b[1] \in 248..255 /\ Len(b) = 1
    \/ b = <<240, 247>>

\* Whatever int32s a datagram holds, what a port is given is a complete MIDI message:
\* a data byte is never taken for a status byte. Only raw messages are not checked.
SentIsWellFormed ==
    (handled # NoMessage /\ handled.command # "raw") =>
        \A i \in DOMAIN delivered : \A k \in DOMAIN delivered[i] : WellFormed(delivered[i][k])

\* Whether output i is meant by the address.
IsAddressed(i) ==
    \/ handled.device = Wildcard
    \/ SafeOscString[outputs[i].name] = SafeOscString[handled.device]

Reached == {i \in DOMAIN delivered : delivered[i] # << >>}

\* Nobody gets what is addressed to another, and a name reaches at most one port,
\* although names that differ may be the same after normalisation. A blob does not count.
OnlyTheAddressed ==
    (handled # NoMessage /\ ~(handled.command = "raw" /\ IsBlob(handled))) =>
        /\ \A i \in Reached : IsAddressed(i)
        /\ handled.device # Wildcard => \A i, j \in Reached : i = j

\* What a receiver understands, by the MIDI standard.
Decoded(b) ==
    LET kind == <<"note_off", "note_on", "poly_pressure", "control_change",
                  "program_change", "channel_pressure", "pitch_bend">>[(b[1] \div 16) - 7]
    IN  [command |-> kind,
         channel |-> (b[1] % 16) + 1,
         values  |-> IF kind = "pitch_bend" THEN <<b[2] + 128 * b[3]>> ELSE Tail(b)]

Channels(channel) == IF channel = 0 THEN 1..16 ELSE {channel}

IsDocumented(m) ==
    /\ m.command \in DOMAIN Type
    /\ Len(m.arguments) = Int32sExpected[m.command]
    /\ \A i \in DOMAIN m.arguments : m.arguments[i].tag = "int32"
    /\ Ints(m)[1] \in 0..16
    /\ \A i \in 2..Len(m.arguments) :
           Ints(m)[i] \in IF m.command = "pitch_bend" THEN 0..128 * 128 - 1 ELSE 0..127

HasWrongBody(m) ==
    /\ m.command \in DOMAIN Type
    /\ \/ Len(m.arguments) # Int32sExpected[m.command]
       \/ \E i \in DOMAIN m.arguments : m.arguments[i].tag # "int32"

\* A channel command with a documented body reaches somebody if anybody is addressed,
\* everybody if everybody is, and each receiver understands exactly what was asked for,
\* once on every channel asked for. With a wrong body nobody hears anything.
ArrivesAsAsked ==
    (handled # NoMessage /\ status = "up") =>
        /\ IsDocumented(handled) =>
               LET asked == {[command |-> handled.command, channel |-> c,
                              values |-> Tail(Ints(handled))] : c \in Channels(Ints(handled)[1])}
               IN  /\ (\E i \in DOMAIN outputs : IsAddressed(i)) => Reached # {}
                   /\ handled.device = Wildcard => Reached = DOMAIN outputs
                   /\ \A i \in Reached :
                          /\ {Decoded(b) : b \in Range(delivered[i])} = asked
                          /\ Len(delivered[i]) = Cardinality(asked)
        /\ HasWrongBody(handled) => Reached = {}
=============================================================================
