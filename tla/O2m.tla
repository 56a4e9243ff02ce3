-------------------------------- MODULE O2m --------------------------------
(***************************************************************************)
(* The program o2m (o2m.cpp): the main thread, which prepares the outputs,  *)
(* runs the OSC receive loop and polls for hotplugged devices; the thread   *)
(* asyncBreakThread, which gets the main thread out of the receive loop     *)
(* once a second; the handler of SIGINT; and what they share. Names and     *)
(* indices are MidiPorts, JUCE's objects behind the outputs are AlsaClient, *)
(* the receive loop is SocketMultiplexer.                                   *)
(***************************************************************************)
EXTENDS Integers, Sequences, FiniteSets, Functions

CONSTANTS
    Name, NoDevice, MaxDevices, MaxChanges,     \* see MidiPorts
    MidiOutput,        \* JUCE's MidiOutputs, each with the Port it opens; a bound
    NoOutput,          \* the null pointer in place of one
    Packet, NoPacket, PipeBound,                \* see SocketMultiplexer
    AllOutputs,        \* popts.allMidiOutputs: there was no option -o
    NamedOutputs,      \* popts.midiOutputNames, the names given with -o
    Heartbeat,         \* popts.oscHeartbeat
    HeartbeatRoom      \* the heartbeat has room for this many ports of any name

\* What the three modules used here assume of their constants.
ASSUME PortsAssumption ==
    NoDevice \notin Name /\ MaxDevices \in Nat /\ MaxChanges \in Nat
ASSUME AlsaAssumption ==
    NoOutput \notin MidiOutput /\ IsFiniteSet(MidiOutput)
ASSUME MuxAssumption ==
    NoPacket \notin Packet /\ PipeBound \in Nat \ {0}
ASSUME OptionsAssumption ==
    /\ AllOutputs \in BOOLEAN
    /\ NamedOutputs \in Seq(Name)
    /\ Heartbeat \in BOOLEAN
    /\ HeartbeatRoom \in Nat

VARIABLES
    devices, changes, juceNames, juceId, stickyId, nStickyIds, opening, outputs,
    client, refs, ports, alive, number, open, user, closing, tidy, undef,
    breakFlag, pipe, inbox, runPc, ready, breaker,
    handles,       \* m_midiOut of each output
    main,          \* where the main thread is
    thr,           \* where asyncBreakThread is
    mutex,         \* g_oscinMutex: "free" or the thread that holds it
    wantToExit,    \* g_wantToExit
    status,        \* "up", or how the process ended
    toOpen,        \* the names prepareOutputs has still to open
    lastPorts,     \* lastAvailablePorts
    newPorts       \* newAvailablePorts, empty outside one turn of the loop

Ports == INSTANCE MidiPorts

\* o2m has no MidiInput: no callback is ever enabled, and no input thread runs.
NoInputs ==
    [enabled |-> {}, activeCallbacks |-> 0, shouldExit |-> FALSE, running |-> FALSE,
     at |-> "ended", event |-> [dest |-> 0, of |-> NoOutput], called |-> NoOutput,
     queue |-> << >>]

Alsa == INSTANCE AlsaClient WITH
            Input <- {}, Output <- MidiOutput, NoHandle <- NoOutput, QueueBound <- 0,
            enabled <- NoInputs.enabled, activeCallbacks <- NoInputs.activeCallbacks,
            shouldExit <- NoInputs.shouldExit, running <- NoInputs.running, input <- NoInputs.at,
            event <- NoInputs.event, called <- NoInputs.called, queue <- NoInputs.queue

Mux == INSTANCE SocketMultiplexer

portVars == <<devices, changes, juceNames, juceId, stickyId, nStickyIds, opening, outputs>>
alsaVars == <<client, refs, ports, alive, number, open, user, closing, tidy, undef>>
outputVars == <<portVars, alsaVars, handles>>
muxVars == <<breakFlag, pipe, inbox, runPc, ready, breaker>>
hotplugVars == <<toOpen, lastPorts, newPorts>>
vars == <<outputVars, muxVars, main, thr, mutex, wantToExit, status, hotplugVars>>

TypeOK ==
    /\ Ports!TypeOK
    /\ Alsa!TypeOK
    /\ Mux!TypeOK
    /\ handles \in Seq(MidiOutput \cup {NoOutput})
    /\ main \in {"names", "lock", "clear", "open", "spawn", "snapshot", "loop", "run", "inRun",
                 "poll", "heartbeat", "join", "leave"}
    /\ thr \in {"none", "test", "sleep", "asyncBreak", "finished"}
    /\ mutex \in {"free", "main", "thr"}
    /\ wantToExit \in BOOLEAN
    /\ status \in {"up", "exit0", "exitMinus1", "terminated", "crashed"}
    /\ toOpen \in Seq(Name)
    /\ lastPorts \in Seq(Name)
    /\ newPorts \in Seq(Name)

\* The options are parsed and the socket is bound; the outputs come next.
Init ==
    /\ Ports!Init
    /\ Alsa!Init
    /\ Mux!Init
    /\ handles = << >>
    /\ main = "names"
    /\ thr = "none"
    /\ mutex = "free"
    /\ wantToExit = FALSE
    /\ status = "up"
    /\ toOpen = << >>
    /\ lastPorts = << >>
    /\ newPorts = << >>

\* An exception reaches main's handler. Unwinding first destroys the std::thread of
\* asyncBreakThread, which is joinable, and that calls std::terminate.
Raise == status' = "terminated"

----------------------------------------------------------------------------
(* prepareOscProcessorOutputs, called at startup and when the list changed. *)

ReadNames ==
    /\ main = "names"
    /\ toOpen' = IF AllOutputs THEN devices ELSE NamedOutputs
    /\ main' = "lock"
    /\ UNCHANGED <<outputVars, muxVars, thr, mutex, wantToExit, status, lastPorts, newPorts>>

\* Mutant: the outputs are rebuilt without the mutex.
NoLock ==
    /\ main = "lock"
    /\ main' = "clear"
    /\ UNCHANGED <<outputVars, muxVars, thr, mutex, wantToExit, status, hotplugVars>>

Lock ==
    /\ main = "lock"
    /\ mutex = "free"
    /\ mutex' = "main"
    /\ main' = "clear"
    /\ UNCHANGED <<outputVars, muxVars, thr, wantToExit, status, hotplugVars>>

\* m_outputs goes, from front to back: ~MidiOut deletes the MidiOutput, if there is one,
CloseFirst ==
    /\ main \in {"clear", "leave"}
    /\ user = "idle"
    /\ Ports!CloseFirst
    /\ handles' = Tail(handles)
    /\ IF Head(handles) = NoOutput
       THEN UNCHANGED alsaVars
       ELSE Alsa!Close(Head(handles)) \/ Alsa!UseDeadPort(Head(handles))
    /\ UNCHANGED <<muxVars, main, thr, mutex, wantToExit, status, hotplugVars>>

\* and that deletes a Port.
FinishClose ==
    /\ Alsa!FinishClose
    /\ UNCHANGED <<portVars, handles, muxVars, main, thr, mutex, wantToExit, status, hotplugVars>>

\* Mutant: only as many outputs are destroyed as it takes to have one less.
ClearedEarly ==
    /\ main = "clear"
    /\ user = "idle"
    /\ main' = "open"
    /\ UNCHANGED <<outputVars, muxVars, thr, mutex, wantToExit, status, hotplugVars>>

Cleared ==
    /\ main = "clear"
    /\ user = "idle" /\ outputs = << >>
    /\ main' = "open"
    /\ UNCHANGED <<outputVars, muxVars, thr, mutex, wantToExit, status, hotplugVars>>

\* make_unique<MidiOut>(outputName): the name is looked up, then opened.
LookUpNext ==
    /\ main = "open"
    /\ toOpen # << >>
    /\ Ports!LookUp(Head(toOpen))
    /\ UNCHANGED <<alsaVars, handles, muxVars, main, thr, mutex, wantToExit, status, hotplugVars>>

\* std::out_of_range: at startup main closes what it has opened and returns -1.
LookUpFails ==
    /\ main = "open"
    /\ toOpen # << >>
    /\ Ports!LookUpThrows(Head(toOpen))
    /\ mutex' = "free"
    /\ IF thr = "none"
       THEN main' = "leave" /\ UNCHANGED status
       ELSE Raise /\ UNCHANGED main
    /\ UNCHANGED <<alsaVars, handles, muxVars, thr, wantToExit, hotplugVars>>

\* A new MidiOutput; which, does not matter.
NewOutput == CHOOSE h \in MidiOutput : Alsa!Fresh(h)

\* openDevice makes a MidiOutput with a Port for the device that is at the index now,
\* or returns a null pointer.
OpenNext ==
    /\ main = "open"
    /\ Ports!Open
    /\ IF Ports!DeviceAt(Head(opening).index) = NoDevice
       THEN handles' = Append(handles, NoOutput) /\ UNCHANGED alsaVars
       ELSE /\ \E h \in MidiOutput : Alsa!Fresh(h)
            /\ Alsa!Open(NewOutput)
            /\ handles' = Append(handles, NewOutput)
    /\ toOpen' = Tail(toOpen)
    /\ UNCHANGED <<muxVars, main, thr, mutex, wantToExit, status, lastPorts, newPorts>>

\* The lock_guard goes out of scope. In the hotplug loop, the list that was found
\* different is then the one to compare with.
Prepared ==
    /\ main = "open"
    /\ toOpen = << >>
    /\ mutex' = "free"
    /\ IF thr = "none"
       THEN main' = "spawn" /\ UNCHANGED lastPorts
       ELSE main' = "heartbeat" /\ lastPorts' = newPorts
    /\ UNCHANGED <<outputVars, muxVars, thr, wantToExit, status, toOpen, newPorts>>

----------------------------------------------------------------------------
(* The rest of main. *)

Spawn ==
    /\ main = "spawn"
    /\ thr' = "test"
    /\ main' = "snapshot"
    /\ UNCHANGED <<outputVars, muxVars, mutex, wantToExit, status, hotplugVars>>

Snapshot ==
    /\ main = "snapshot"
    /\ lastPorts' = devices
    /\ main' = "loop"
    /\ UNCHANGED <<outputVars, muxVars, thr, mutex, wantToExit, status, toOpen, newPorts>>

LoopTest ==
    /\ main = "loop"
    /\ main' = IF wantToExit THEN "join" ELSE "run"
    /\ UNCHANGED <<outputVars, muxVars, thr, mutex, wantToExit, status, hotplugVars>>

EnterRun ==
    /\ main = "run"
    /\ Mux!Enter
    /\ main' = "inRun"
    /\ UNCHANGED <<outputVars, thr, mutex, wantToExit, status, hotplugVars>>

InRun ==
    /\ main = "inRun"
    /\ Mux!TestBreak \/ Mux!Select \/ Mux!Woken
    /\ main' = IF runPc' = "outside" THEN "poll" ELSE "inRun"
    /\ UNCHANGED <<outputVars, thr, mutex, wantToExit, status, hotplugVars>>

\* ProcessPacket returns: the datagram plays on the outputs it addresses, or is
\* ignored, and leaves the state of the program alone.
HandlePacket ==
    /\ main = "inRun"
    /\ Mux!PacketDone
    /\ UNCHANGED <<outputVars, main, thr, mutex, wantToExit, status, hotplugVars>>

\* It addresses an output whose device could not be opened: send() goes through
\* a null pointer.
HandleCrashes ==
    /\ main = "inRun"
    /\ \E k \in DOMAIN outputs : outputs[k].device = NoDevice
    /\ Mux!PacketThrows
    /\ status' = "crashed"
    /\ UNCHANGED <<outputVars, main, thr, mutex, wantToExit, hotplugVars>>

\* ProcessPacket throws what ProcessMessage does not catch: the datagram is no
\* OSC packet, or an argument list ends early.
HandleThrows ==
    /\ main = "inRun"
    /\ Mux!PacketThrows
    /\ Raise
    /\ UNCHANGED <<outputVars, main, thr, mutex, wantToExit, hotplugVars>>

\* Mutant: only a change of the number of devices counts as a change.
PollCounts ==
    /\ main = "poll"
    /\ newPorts' = devices
    /\ main' = IF Len(newPorts') # Len(lastPorts) THEN "names" ELSE "heartbeat"
    /\ UNCHANGED <<outputVars, muxVars, thr, mutex, wantToExit, status, toOpen, lastPorts>>

\* Was something added or removed?
Poll ==
    /\ main = "poll"
    /\ newPorts' = devices
    /\ main' = IF newPorts' # lastPorts THEN "names" ELSE "heartbeat"
    /\ UNCHANGED <<outputVars, muxVars, thr, mutex, wantToExit, status, toOpen, lastPorts>>

\* sendHeartBeat, when it is asked for, and the end of the loop's body.
SendHeartbeat ==
    /\ main = "heartbeat"
    /\ newPorts' = << >>
    /\ main' = "loop"
    /\ UNCHANGED <<outputVars, muxVars, thr, mutex, wantToExit, status, toOpen, lastPorts>>

\* More ports than fit whatever their names: if the names are long, the packet
\* stream runs out of its 2048 bytes and throws.
HeartbeatThrows ==
    /\ main = "heartbeat"
    /\ Heartbeat
    /\ Len(outputs) > HeartbeatRoom
    /\ Raise
    /\ UNCHANGED <<outputVars, muxVars, main, thr, mutex, wantToExit, hotplugVars>>

\* Mutant: the thread is detached instead of joined.
Detach ==
    /\ main = "join"
    /\ main' = "leave"
    /\ UNCHANGED <<outputVars, muxVars, thr, mutex, wantToExit, status, hotplugVars>>

\* thr.join()
Join ==
    /\ main = "join"
    /\ thr = "finished"
    /\ main' = "leave"
    /\ UNCHANGED <<outputVars, muxVars, thr, mutex, wantToExit, status, hotplugVars>>

\* The locals of the try block have gone out of scope, the OscInProcessor and its
\* outputs among them.
Return ==
    /\ main = "leave"
    /\ user = "idle" /\ outputs = << >>
    /\ status' = IF thr = "none" THEN "exitMinus1" ELSE "exit0"
    /\ UNCHANGED <<outputVars, muxVars, main, thr, mutex, wantToExit, hotplugVars>>

----------------------------------------------------------------------------
(* asyncBreakThread. *)

ThrTest ==
    /\ thr = "test"
    /\ thr' = IF wantToExit THEN "finished" ELSE "sleep"
    /\ UNCHANGED <<outputVars, muxVars, main, mutex, wantToExit, status, hotplugVars>>

\* Mutant: g_wantToExit is looked at again after the sleep.
ThrWakesAndTests ==
    /\ thr = "sleep"
    /\ mutex = "free"
    /\ IF wantToExit
       THEN thr' = "finished" /\ UNCHANGED mutex
       ELSE thr' = "asyncBreak" /\ mutex' = "thr"
    /\ UNCHANGED <<outputVars, muxVars, main, wantToExit, status, hotplugVars>>

\* The second is over and the mutex is free.
ThrWakes ==
    /\ thr = "sleep"
    /\ mutex = "free"
    /\ mutex' = "thr"
    /\ thr' = "asyncBreak"
    /\ UNCHANGED <<outputVars, muxVars, main, wantToExit, status, hotplugVars>>

ThrSetFlag ==
    /\ thr = "asyncBreak"
    /\ Mux!SetFlag
    /\ UNCHANGED <<outputVars, main, thr, mutex, wantToExit, status, hotplugVars>>

ThrWriteByte ==
    /\ thr = "asyncBreak"
    /\ Mux!WriteByte
    /\ mutex' = "free"
    /\ thr' = "test"
    /\ UNCHANGED <<outputVars, main, wantToExit, status, hotplugVars>>

----------------------------------------------------------------------------
(* The environment. *)

DevicesChange ==
    /\ Ports!Environment
    /\ UNCHANGED <<alsaVars, handles, muxVars, main, thr, mutex, wantToExit, status, hotplugVars>>

DatagramArrives ==
    /\ \E p \in Packet : Mux!Arrive(p)
    /\ UNCHANGED <<outputVars, main, thr, mutex, wantToExit, status, hotplugVars>>

\* SIGINT, once its handler is installed, any number of times. When the main
\* thread handles it inside select(), select() fails with EINTR.
CtrlC ==
    /\ thr # "none" \/ main = "spawn"
    /\ wantToExit' = TRUE
    /\ \/ UNCHANGED <<muxVars, main>>
       \/ /\ main = "inRun"
          /\ Mux!SelectInterrupted
          /\ main' = IF runPc' = "outside" THEN "poll" ELSE "inRun"
    /\ UNCHANGED <<outputVars, thr, mutex, status, hotplugVars>>

\* select() fails for another reason.
SelectFails ==
    /\ main = "inRun"
    /\ Mux!SelectFails
    /\ IF runPc' = "threw"
       THEN Raise /\ UNCHANGED main
       ELSE main' = "poll" /\ UNCHANGED status
    /\ UNCHANGED <<outputVars, thr, mutex, wantToExit, hotplugVars>>

----------------------------------------------------------------------------

MainStep ==
    \/ ReadNames \/ Lock \/ CloseFirst \/ FinishClose \/ Cleared
    \/ LookUpNext \/ LookUpFails \/ OpenNext \/ Prepared
    \/ Spawn \/ Snapshot \/ LoopTest
    \/ EnterRun \/ InRun \/ HandlePacket \/ HandleCrashes \/ HandleThrows
    \/ Poll \/ SendHeartbeat \/ HeartbeatThrows
    \/ Join \/ Return

ThrStep == ThrTest \/ ThrWakes \/ ThrSetFlag \/ ThrWriteByte

EnvStep == DevicesChange \/ DatagramArrives \/ CtrlC \/ SelectFails

Up == status = "up" /\ undef = "no"

\* Nothing is said of a process that has ended or done what is undefined.
Ended == ~Up /\ UNCHANGED vars

Next ==
    \/ Up /\ MainStep
    \/ Up /\ ThrStep
    \/ Up /\ EnvStep
    \/ Ended

\* Both threads keep running. The break thread leaves the mutex alone for a
\* second at a time, so the main thread, waiting for it, gets it in the end.
Fairness ==
    /\ WF_vars(Up /\ MainStep)
    /\ WF_vars(Up /\ ThrStep)
    /\ SF_vars(Up /\ Lock)

Spec == Init /\ [][Next]_vars /\ Fairness

----------------------------------------------------------------------------
(* Properties. *)

\* The two users of the OscInProcessor exclude each other: the break thread does
\* not call asyncBreak while the outputs are being rebuilt, and, joined before,
\* never on a processor that main has destroyed.
BreakThreadIsAlone ==
    thr = "asyncBreak" => main \notin {"clear", "open", "leave"}

\* Wherever a datagram can be played, the Ports that exist are those of the outputs
\* whose device could be opened: no rebuild has left an output without its Port, or a
\* Port without its output, although Ports are found by index in an array that closes
\* its gaps.
OutputsHaveTheirPorts ==
    (Up /\ main = "inRun") => alive = Range(handles) \ {NoOutput}

\* o2m.cpp:230, "will run until asyncBreak is called from another thread": while
\* no Ctrl-C ends the break thread, the main thread always comes out of Run(),
\* even though each call of Run() forgets a break requested just before it.
RunReturns == (main = "inRun") ~> (main # "inRun" \/ wantToExit \/ ~Up)

\* A Ctrl-C that finds the main thread inside Run() and the break thread with a
\* break still to make ends the process.
CtrlCInsideRunEnds ==
    (wantToExit /\ main = "inRun" /\ thr = "sleep") ~> ~Up

\* Every device has a live port of its name, and there are no other ports.
InSync ==
    /\ \A k \in DOMAIN outputs :
          outputs[k].live /\ outputs[k].device = outputs[k].name
    /\ {outputs[k].name : k \in DOMAIN outputs} = Range(devices)

\* Hotplugging, with all outputs: when the devices have stopped changing and the
\* list differs from the one main remembers, the ports are brought in line with it.
\* With at most one output open closing the outputs is defined, and nothing excuses
\* main; with more it is not, and anything may happen.
ChangesAreFollowed ==
    AllOutputs =>
    ((/\ main = "loop" /\ changes = MaxChanges /\ lastPorts # devices
      /\ Cardinality(open) <= 1)
        ~> (InSync \/ wantToExit \/ status # "up"))

\* README: "By default it will open all output devices and the ones that are
\* connected live." The code does not keep this: see the findings.
ConnectedLiveAreOpened ==
    AllOutputs => <>[](InSync \/ wantToExit \/ ~Up)

\* o2m.cpp:213, "Exit nicely with CTRL-C". The code does not keep this either.
CtrlCEnds == wantToExit ~> ~Up

\* README, --midiout: "open the specified output device". Nor this.
PortsReachTheirNames == Ports!PortsReachTheirNames
=============================================================================
