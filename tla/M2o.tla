-------------------------------- MODULE M2o --------------------------------
(***************************************************************************)
(* The program m2o (m2o.cpp, midiin.cpp, midiinprocessor.cpp): the main     *)
(* thread, which opens an input for each MIDI device and looks once a       *)
(* second whether devices came or went; the input thread, which calls the   *)
(* processor of a device with each message; the handler of SIGINT. Names    *)
(* and indices are MidiPorts, the inputs and their thread are AlsaClient.   *)
(***************************************************************************)
EXTENDS Integers, Sequences, FiniteSets, Functions

CONSTANTS
    Name, NoDevice, MaxDevices, MaxChanges,   \* see MidiPorts
    Processor,      \* the MidiInProcessors, each with the one MidiInput it opens
    NoProcessor, QueueBound,                  \* see AlsaClient
    AllInputs,      \* popts.allMidiInputs: there was no option -i
    NamedInputs,    \* popts.midiInputNames, the names given with -i
    VirtualPort,    \* the values popts.useVirtualPort may have
    VirtualName,    \* popts.virtualPortName
    UseTemplate,    \* popts.useOscTemplate
    Raw,            \* popts.oscRawMidiMessage
    Heartbeat,      \* popts.oscHeartbeat
    HeartbeatRoom   \* the heartbeat has room for this many inputs of any name

\* What the two modules used here assume of their constants.
ASSUME PortsAssumption ==
    NoDevice \notin Name /\ MaxDevices \in Nat /\ MaxChanges \in Nat
ASSUME AlsaAssumption ==
    NoProcessor \notin Processor /\ IsFiniteSet(Processor) /\ QueueBound \in Nat
ASSUME OptionsAssumption ==
    /\ {AllInputs, UseTemplate, Raw, Heartbeat} \cup VirtualPort \subseteq BOOLEAN
    /\ NamedInputs \in Seq(Name)
    /\ VirtualName \in Name
    /\ HeartbeatRoom \in Nat

VARIABLES
    devices, changes, juceNames, juceId, stickyId, nStickyIds, opening,
    inputs,        \* the MidiIns of procs, as MidiPorts describes a port
    client, refs, ports, alive, number, open, enabled, activeCallbacks, shouldExit, running,
    input, event, called, queue, user, closing, tidy, undef,
    procs,         \* midiInputProcessors; the last may be under construction
    virtual,       \* virtualIn
    building,      \* the processor under construction
    dying,         \* the processor whose destructor is running
    assigned,      \* the processors whose m_input has been assigned,
    templated,     \* with m_useOscTemplate set,
    rawSet,        \* with m_oscRawMidiMessage set,
    ready,         \* that prepareMidiProcessors is done with
    handler,       \* where handleIncomingMidiMessage is
    message,       \* what it has read of its processor so far
    threw,         \* history: it threw
    main, started, wantToExit, status, toOpen, lastPorts, newPorts

Ports == INSTANCE MidiPorts WITH outputs <- inputs
Alsa == INSTANCE AlsaClient WITH
            Input <- Processor, Output <- {}, NoHandle <- NoProcessor

tableVars == <<juceNames, juceId, stickyId, nStickyIds>>
portsVars == <<devices, changes, tableVars, opening, inputs>>
alsaVars == <<client, refs, ports, alive, number, open, enabled, activeCallbacks, shouldExit,
              running, input, event, called, queue, user, closing, tidy, undef>>
setUpVars == <<assigned, templated, rawSet, ready>>
procVars == <<procs, virtual, building, dying>>
handlerVars == <<handler, message, threw>>
hotplugVars == <<toOpen, lastPorts, newPorts>>
progVars == <<started, wantToExit, status>>
vars == <<portsVars, alsaVars, setUpVars, procVars, handlerVars, main, hotplugVars, progVars>>

\* The handler's reads of m_oscRawMidiMessage, the first for the length of a sysex,
\* the second for the form of the body, and of m_useOscTemplate; and whether the
\* processor was ready at the first.
Message == [rawLength : BOOLEAN, rawBody : BOOLEAN, template : BOOLEAN, ready : BOOLEAN]
NoMessage == [rawLength |-> FALSE, rawBody |-> FALSE, template |-> FALSE, ready |-> FALSE]

TypeOK ==
    /\ Ports!TypeOK
    /\ Alsa!TypeOK
    /\ procs \in Seq(Processor)
    /\ {virtual, building, dying} \subseteq Processor \cup {NoProcessor}
    /\ {assigned, templated, rawSet, ready} \subseteq SUBSET Processor
    /\ handler \in {"out", "length", "address", "body", "send"}
    /\ message \in Message
    /\ threw \in BOOLEAN
    /\ main \in {"virtual", "names", "open", "start", "assign", "setTemplate", "setRaw",
                 "snapshot", "loop", "poll", "clear", "heartbeat", "leave"}
    /\ started \in BOOLEAN
    /\ wantToExit \in BOOLEAN
    /\ status \in {"up", "exit0", "exitMinus1", "terminated", "crashed", "undefined"}
    /\ toOpen \in Seq(Name)
    /\ lastPorts \in Seq(Name)
    /\ newPorts \in Seq(Name)

\* The options are parsed and the OSC outputs open.
Init ==
    /\ Ports!Init
    /\ Alsa!Init
    /\ procs = << >>
    /\ virtual = NoProcessor /\ building = NoProcessor /\ dying = NoProcessor
    /\ assigned = {} /\ templated = {} /\ rawSet = {} /\ ready = {}
    /\ handler = "out"
    /\ message = NoMessage
    /\ threw = FALSE
    /\ main \in {IF v THEN "virtual" ELSE "names" : v \in VirtualPort}
    /\ started = FALSE
    /\ wantToExit = FALSE
    /\ status = "up"
    /\ toOpen = << >> /\ lastPorts = << >> /\ newPorts = << >>

----------------------------------------------------------------------------
(* make_unique<MidiInProcessor>(name, ...), by the main thread. *)

\* A bound: some processor is neither in use nor the source of an unread message.
CanBuild == \E p \in Processor : Alsa!Fresh(p)

\* A new processor; which, does not matter.
NewProcessor == CHOOSE p \in Processor : Alsa!Fresh(p)

\* MidiIn's constructor with isVirtual: the tables change as for any name.
OpenVirtual ==
    /\ main = "virtual"
    /\ CanBuild
    /\ Ports!CreateVirtual(VirtualName)
    /\ Alsa!Open(NewProcessor)
    /\ virtual' = NewProcessor
    /\ building' = NewProcessor
    /\ main' = "start"
    /\ UNCHANGED <<setUpVars, procs, dying, handlerVars, hotplugVars, progVars>>

\* prepareMidiProcessors: all names there are now, or those that were asked for.
ReadNames ==
    /\ main = "names"
    /\ toOpen' = IF AllInputs THEN devices ELSE NamedInputs
    /\ main' = "open"
    /\ UNCHANGED <<portsVars, alsaVars, setUpVars, procVars, handlerVars, lastPorts, newPorts,
                   progVars>>

LookUpNext ==
    /\ main = "open"
    /\ toOpen # << >>
    /\ Ports!LookUp(Head(toOpen))
    /\ UNCHANGED <<alsaVars, setUpVars, procVars, handlerVars, main, hotplugVars, progVars>>

\* std::out_of_range: main returns at startup; in the loop nobody catches it.
LookUpFails ==
    /\ main = "open"
    /\ toOpen # << >>
    /\ Ports!LookUpThrows(Head(toOpen))
    /\ IF started
       THEN status' = "terminated" /\ UNCHANGED main
       ELSE main' = "leave" /\ UNCHANGED status
    /\ UNCHANGED <<alsaVars, setUpVars, procVars, handlerVars, hotplugVars, started, wantToExit>>

\* openDevice opens the device that is at the index now.
OpenNext ==
    /\ main = "open"
    /\ CanBuild
    /\ Ports!Open
    /\ Ports!DeviceAt(Head(opening).index) # NoDevice
    /\ Alsa!Open(NewProcessor)
    /\ procs' = Append(procs, NewProcessor)
    /\ building' = NewProcessor
    /\ toOpen' = Tail(toOpen)
    /\ main' = "start"
    /\ UNCHANGED <<setUpVars, virtual, dying, handlerVars, lastPorts, newPorts, progVars>>

\* There is none: start() is called on the null pointer.
OpenCrashes ==
    /\ main = "open"
    /\ Ports!Open
    /\ Ports!DeviceAt(Head(opening).index) = NoDevice
    /\ status' = "crashed"
    /\ UNCHANGED <<alsaVars, setUpVars, procVars, handlerVars, main, hotplugVars, started,
                   wantToExit>>

\* m_midiIn->start(), the last thing MidiIn's constructor does.
StartInput ==
    /\ main = "start"
    /\ Alsa!Start(building)
    /\ main' = "assign"
    /\ UNCHANGED <<portsVars, setUpVars, procVars, handlerVars, hotplugVars, progVars>>

\* m_input = make_unique<MidiIn>(...). The virtual input gets nothing more.
AssignInput ==
    /\ main = "assign"
    /\ assigned' = assigned \cup {building}
    /\ IF building = virtual
       THEN main' = "names" /\ building' = NoProcessor
       ELSE main' = "setTemplate" /\ UNCHANGED building
    /\ UNCHANGED <<portsVars, alsaVars, templated, rawSet, ready, procs, virtual, dying,
                   handlerVars, hotplugVars, progVars>>

SetOscTemplate ==
    /\ main = "setTemplate"
    /\ templated' = IF UseTemplate THEN templated \cup {building} ELSE templated
    /\ main' = "setRaw"
    /\ UNCHANGED <<portsVars, alsaVars, assigned, rawSet, ready, procVars, handlerVars,
                   hotplugVars, progVars>>

\* Mutant: the flag is set only while the program starts.
SetRawAtStartup ==
    /\ main = "setRaw"
    /\ rawSet' = IF Raw /\ ~started THEN rawSet \cup {building} ELSE rawSet
    /\ ready' = ready \cup {building}
    /\ building' = NoProcessor
    /\ main' = "open"
    /\ UNCHANGED <<portsVars, alsaVars, assigned, templated, procs, virtual, dying,
                   handlerVars, hotplugVars, progVars>>

\* setOscRawMidiMessage, and push_back.
SetOscRawMidiMessage ==
    /\ main = "setRaw"
    /\ rawSet' = IF Raw THEN rawSet \cup {building} ELSE rawSet
    /\ ready' = ready \cup {building}
    /\ building' = NoProcessor
    /\ main' = "open"
    /\ UNCHANGED <<portsVars, alsaVars, assigned, templated, procs, virtual, dying,
                   handlerVars, hotplugVars, progVars>>

\* The list the change was found in is then the one to compare with.
Prepared ==
    /\ main = "open"
    /\ toOpen = << >>
    /\ IF started
       THEN main' = "heartbeat" /\ lastPorts' = newPorts
       ELSE main' = "snapshot" /\ UNCHANGED lastPorts
    /\ UNCHANGED <<portsVars, alsaVars, setUpVars, procVars, handlerVars, toOpen, newPorts,
                   progVars>>

----------------------------------------------------------------------------
(* The rest of main. *)

Snapshot ==
    /\ main = "snapshot"
    /\ lastPorts' = devices
    /\ started' = TRUE
    /\ main' = "loop"
    /\ UNCHANGED <<portsVars, alsaVars, setUpVars, procVars, handlerVars, toOpen, newPorts,
                   wantToExit, status>>

\* The second of sleep is part of the way to "poll".
LoopTest ==
    /\ main = "loop"
    /\ main' = IF wantToExit THEN "leave" ELSE "poll"
    /\ UNCHANGED <<portsVars, alsaVars, setUpVars, procVars, handlerVars, hotplugVars, progVars>>

\* Mutant: only new devices count as a change.
PollAdditions ==
    /\ main = "poll"
    /\ newPorts' = devices
    /\ main' = IF Len(newPorts') > Len(lastPorts) THEN "clear" ELSE "heartbeat"
    /\ UNCHANGED <<portsVars, alsaVars, setUpVars, procVars, handlerVars, toOpen, lastPorts,
                   progVars>>

\* Was something added or removed?
Poll ==
    /\ main = "poll"
    /\ newPorts' = devices
    /\ main' = IF newPorts' # lastPorts THEN "clear" ELSE "heartbeat"
    /\ UNCHANGED <<portsVars, alsaVars, setUpVars, procVars, handlerVars, toOpen, lastPorts,
                   progVars>>

\* The next processor to be destroyed: clear() goes from front to back, and at the
\* end of main virtualIn goes first.
NextToDie ==
    IF main = "leave" /\ virtual # NoProcessor THEN virtual
    ELSE IF procs # << >> THEN Head(procs) ELSE NoProcessor

\* ~MidiInProcessor destroys its members, m_input last; ~MidiIn stops the input
StopProcessor ==
    /\ main \in {"clear", "leave"}
    /\ user = "idle" /\ dying = NoProcessor /\ NextToDie # NoProcessor
    /\ dying' = NextToDie
    /\ Alsa!Stop(NextToDie) \/ Alsa!UseDeadPort(NextToDie)
    /\ UNCHANGED <<portsVars, setUpVars, procs, virtual, building, handlerVars, main,
                   hotplugVars, progVars>>

\* and deletes it.
DeleteProcessor ==
    /\ dying # NoProcessor
    /\ Alsa!Close(dying) \/ Alsa!UseDeadPort(dying)
    /\ IF dying = virtual
       THEN virtual' = NoProcessor /\ UNCHANGED <<procs, portsVars>>
       ELSE procs' = Tail(procs) /\ Ports!CloseFirst /\ UNCHANGED virtual
    /\ dying' = NoProcessor
    /\ assigned' = assigned \ {dying}
    /\ templated' = templated \ {dying}
    /\ rawSet' = rawSet \ {dying}
    /\ ready' = ready \ {dying}
    /\ UNCHANGED <<building, handlerVars, main, hotplugVars, progVars>>

FinishDelete ==
    /\ Alsa!FinishClose
    /\ UNCHANGED <<portsVars, setUpVars, procVars, handlerVars, main, hotplugVars, progVars>>

\* Everything is closed: new inputs, or the end of main.
Cleared ==
    /\ main \in {"clear", "leave"}
    /\ user = "idle" /\ dying = NoProcessor /\ NextToDie = NoProcessor
    /\ IF main = "clear"
       THEN main' = "names" /\ UNCHANGED status
       ELSE status' = (IF started THEN "exit0" ELSE "exitMinus1") /\ UNCHANGED main
    /\ UNCHANGED <<portsVars, alsaVars, setUpVars, procVars, handlerVars, hotplugVars, started,
                   wantToExit>>

\* sendHeartBeat, when it is asked for, and the end of the loop's body.
SendHeartbeat ==
    /\ main = "heartbeat"
    /\ newPorts' = << >>
    /\ main' = "loop"
    /\ UNCHANGED <<portsVars, alsaVars, setUpVars, procVars, handlerVars, toOpen, lastPorts,
                   progVars>>

\* With long names it does not fit 2048 bytes; nobody catches the exception.
HeartbeatThrows ==
    /\ main = "heartbeat"
    /\ Heartbeat
    /\ Len(procs) > HeartbeatRoom
    /\ status' = "terminated"
    /\ UNCHANGED <<portsVars, alsaVars, setUpVars, procVars, handlerVars, main, hotplugVars,
                   started, wantToExit>>

----------------------------------------------------------------------------
(* The input thread: AlsaClient's loop, and handleIncomingMidiMessage. *)

ReadMidi ==
    /\ \/ Alsa!Begin \/ Alsa!TestExit \/ Alsa!PollTimesOut \/ Alsa!PollReturns
       \/ Alsa!Read \/ Alsa!CheckSize \/ Alsa!CheckEnabled \/ Alsa!Pending \/ Alsa!Leave
    /\ UNCHANGED <<portsVars, setUpVars, procVars, handlerVars, main, hotplugVars, progVars>>

CallHandler ==
    /\ Alsa!Call
    /\ handler' = IF undef' = "no" THEN "length" ELSE handler
    /\ UNCHANGED <<portsVars, setUpVars, procVars, message, threw, main, hotplugVars, progVars>>

\* The processor still has all its members.
Intact(p) == p # dying /\ p \in {virtual} \cup Range(procs)

\* The handler uses a processor that is being destroyed, or was.
UseDeadProcessor ==
    /\ handler # "out"
    /\ ~Intact(called)
    /\ status' = "undefined"
    /\ UNCHANGED <<portsVars, alsaVars, setUpVars, procVars, handlerVars, main, hotplugVars,
                   started, wantToExit>>

\* A sysex is shortened by its last byte unless it is to be sent raw.
ReadLength ==
    /\ handler = "length"
    /\ Intact(called)
    /\ message' = [NoMessage EXCEPT !.rawLength = called \in rawSet, !.ready = called \in ready]
    /\ handler' = "address"
    /\ UNCHANGED <<portsVars, alsaVars, setUpVars, procVars, threw, main, hotplugVars, progVars>>

\* The address is made of m_input's names, by the template if there is one.
MakeAddress ==
    /\ handler = "address"
    /\ Intact(called)
    /\ IF called \in assigned
       THEN /\ message' = [message EXCEPT !.template = called \in templated]
            /\ handler' = "body"
            /\ UNCHANGED status
       ELSE status' = "crashed" /\ UNCHANGED <<message, handler>>
    /\ UNCHANGED <<portsVars, alsaVars, setUpVars, procVars, threw, main, hotplugVars, started,
                   wantToExit>>

\* A blob, or one int32 for each byte.
MakeBody ==
    /\ handler = "body"
    /\ Intact(called)
    /\ message' = [message EXCEPT !.rawBody = called \in rawSet]
    /\ handler' = "send"
    /\ UNCHANGED <<portsVars, alsaVars, setUpVars, procVars, threw, main, hotplugVars, progVars>>

\* A sysex that does not fit the buffer of 1024 bytes.
BodyThrows ==
    /\ handler = "body"
    /\ Intact(called)
    /\ Alsa!CallbackThrows
    /\ handler' = "out"
    /\ message' = NoMessage
    /\ threw' = TRUE
    /\ UNCHANGED <<portsVars, setUpVars, procVars, main, hotplugVars, progVars>>

\* sendUDP on every output.
SendMessage ==
    /\ handler = "send"
    /\ Intact(called)
    /\ Alsa!CallbackReturns
    /\ handler' = "out"
    /\ message' = NoMessage
    /\ UNCHANGED <<portsVars, setUpVars, procVars, threw, main, hotplugVars, progVars>>

----------------------------------------------------------------------------
(* The environment. *)

DevicesChange ==
    /\ Ports!Environment
    /\ UNCHANGED <<alsaVars, setUpVars, procVars, handlerVars, main, hotplugVars, progVars>>

\* The subscription of an input ends when its device is unplugged. That of a Port
\* left behind in the client's array may or may not have.
Subscribed(p) == \A k \in DOMAIN procs : procs[k] = p => inputs[k].live

MidiArrives ==
    /\ \E p \in Processor : Subscribed(p) /\ Alsa!Arrive(p)
    /\ UNCHANGED <<portsVars, setUpVars, procVars, handlerVars, main, hotplugVars, progVars>>

\* SIGINT, once its handler is installed.
CtrlC ==
    /\ started \/ main = "snapshot"
    /\ wantToExit' = TRUE
    /\ UNCHANGED <<portsVars, alsaVars, setUpVars, procVars, handlerVars, main, hotplugVars,
                   started, status>>

----------------------------------------------------------------------------

MainStep ==
    \/ OpenVirtual \/ ReadNames \/ LookUpNext \/ LookUpFails
    \/ OpenNext \/ OpenCrashes \/ StartInput \/ AssignInput \/ SetOscTemplate
    \/ SetOscRawMidiMessage \/ Prepared \/ Snapshot \/ LoopTest \/ Poll
    \/ StopProcessor \/ DeleteProcessor \/ FinishDelete \/ Cleared
    \/ SendHeartbeat \/ HeartbeatThrows

InputStep ==
    \/ ReadMidi \/ CallHandler \/ UseDeadProcessor
    \/ ReadLength \/ MakeAddress \/ MakeBody \/ BodyThrows \/ SendMessage

EnvStep == DevicesChange \/ MidiArrives \/ CtrlC

Up == status = "up" /\ undef = "no"

\* Nothing is said of a process that has ended or done what is undefined.
Ended == ~Up /\ UNCHANGED vars

Next ==
    \/ Up /\ MainStep
    \/ Up /\ InputStep
    \/ Up /\ EnvStep
    \/ Ended

\* Both threads keep running.
Fairness == WF_vars(Up /\ MainStep) /\ WF_vars(Up /\ InputStep)

Spec == Init /\ [][Next]_vars /\ Fairness

----------------------------------------------------------------------------
(* Properties. *)

\* While an input is started there is a thread to read it, through every rebuild,
\* unless the handler threw.
InputIsServed == (Up /\ enabled # {} /\ ~threw) => running

\* juce_MidiInput.h, start(): "After calling this, the device will start sending
\* midi messages to the MidiInputCallback object". The code does not keep this.
StartedInputIsServed == (Up /\ enabled # {}) => running

\* A message that arrives at a processor set up by prepareMidiProcessors goes out as
\* the options say: what the handler reads of the processor, at three moments, is
\* what was asked for, and the two reads of the raw flag agree.
SetUpIsRespected ==
    (handler = "send" /\ message.ready) =>
        /\ message.rawLength = Raw
        /\ message.rawBody = Raw
        /\ message.template = UseTemplate

\* m2o.cpp, "Exit nicely with CTRL-C": unlike o2m, m2o always comes to its end.
CtrlCEnds == wantToExit ~> ~Up

\* juce_MidiInput.h, openDevice: the callback is "the object that will receive the midi
\* messages from this device". Nor this, while inputs are being closed.
MessagesReachTheirDevice == Alsa!MessagesReachTheirDevice

\* Every device has an input of its name, and there are no other inputs.
InSync ==
    /\ \A k \in DOMAIN inputs :
          inputs[k].live /\ inputs[k].device = inputs[k].name
    /\ {inputs[k].name : k \in DOMAIN inputs} = Range(devices)

\* Hotplugging, with all inputs: when the devices have stopped changing and the list
\* differs from the one main remembers, the inputs are brought in line with it.
ChangesAreFollowed ==
    AllInputs =>
    ((main = "loop" /\ changes = MaxChanges /\ lastPorts # devices)
        ~> (InSync \/ wantToExit \/ ~Up))
=============================================================================
