# A formal model of osmid

osmid is two programs: **m2o** turns the MIDI messages of the devices plugged in into OSC
datagrams, **o2m** turns OSC datagrams into MIDI messages. Both follow devices as they are plugged
and unplugged. This directory holds TLA+ models of the parts of osmid whose correctness
depends on the order of events, the TLC configurations that check them on small instances, and
TLAPS proofs of what matters most for every value of the constants.

Source paths below are relative to the repository (`src/` in `PROJECT.json`); `UdpSocket.cpp` is
`external_libs/oscpack_1_1_0/ip/posix/UdpSocket.cpp`, `juce_linux_Midi.cpp` is
`JuceLibraryCode/modules/juce_audio_devices/native/juce_linux_Midi.cpp`. The posix (Linux, ALSA)
build is the one modelled.

## 1. Inventory

| Component | State | Operations | What is hard |
|---|---|---|---|
| `o2m.cpp` main, `asyncBreakThread`, `ctrlHandler` | `g_wantToExit`, `g_oscinMutex`, `lastAvailablePorts`, the `OscInProcessor` | startup, hotplug loop, heartbeat, join | two threads and a signal; several looks at a device list that changes; a break that can be forgotten; exceptions past a joinable thread; outputs closed one by one over JUCE's shifting array |
| oscpack `SocketReceiveMultiplexer` (`UdpSocket.cpp`) | `break_`, `breakPipe_`, `tempfds` | `Run`, `AsynchronousBreak` | flag and pipe are written in two statements, read in three places; EINTR |
| `MidiOut`, `MidiIn`, `MidiCommon` | static maps name -> index, name -> sticky id, the counter; each port's handle | constructor (look up, open), destructor, `send` | lookup and open look at the device list separately; the maps never forget |
| `OscInProcessor` | `m_outputs` | `prepareOutputs`, `ProcessMessage` and its 15 commands | partial rebuild; ambiguous names; argument errors that are not caught |
| `m2o.cpp` main | `lastAvailablePorts`, inputs, outputs | startup, hotplug loop once a second, heartbeat | the input thread runs while inputs are rebuilt |
| `MidiInProcessor` | template, raw flag, `m_input` | `handleIncomingMidiMessage`, `setOscTemplate` | called by the input thread from inside the constructor on |
| JUCE `AlsaClient`, `MidiInputThread` | `ports`, `activeCallbacks`, `inputThread` | create and delete ports, register callbacks, dispatch | array indexed by ALSA port numbers that shifts on removal; no lock between the threads |
| oscpack `OutboundPacketStream` | three cursors into a fixed buffer | message begin/end, arguments | arguments grow up and type tags grow down in the same buffer; rounding to 4 |
| oscpack received packets | none (a view of a byte array) | parse, iterate arguments | exceptions for malformed packets |
| `MonitorLogger`, `osc_sink`, `OscOutput` | sinks, level, send mutex | log, set level, send | logging from several threads, through a sink that sends OSC |
| `utils.cpp` | none | normalise names, list ports | normalisation is not injective |

How they interact: in o2m, main calls `OscInProcessor::run`, which is `SocketReceiveMultiplexer::Run`
on the one listening socket; a datagram makes it call `ProcessMessage`, which sends through
`MidiOut` objects. `asyncBreakThread` calls `AsynchronousBreak` once a second under
`g_oscinMutex`, which gets main out of `Run`, so that main can look at the device list and, if it
has changed, rebuild the `MidiOut` objects under the same mutex. In m2o the roles are turned round:
JUCE's input thread calls `MidiInProcessor::handleIncomingMidiMessage`, which sends datagrams, and
main polls once a second.

What makes each correct:

* receive loop: no break is lost while `Run` is in progress, none from before it ends it, the
  reading of the pipe never blocks;
* ports and tables: a name has one sticky id for ever and no id has two names; the map gives
  the index the name has in the list last looked at; a port goes to the device of its name;
* o2m: the break thread never uses a processor that is being rebuilt or is gone; every output has the
  `Port` it opened and no other `Port` is left; `Run` is left again and again; changes of the devices are
  followed; Ctrl-C ends the process;
* packet stream: type tags and arguments never meet, and whatever is accepted fits at the end;
* `OscInProcessor`: each command reaches the outputs its address names, on the channels
  it names, and a bad argument list changes nothing;
* m2o and `AlsaClient`: a message is only handed to an input that is open, and in the format
  that was asked for; closing ports closes those ports.

## 2. Modules

| Module | Models | State and actions |
|---|---|---|
| `BreakableRun` | what `Run` and `AsynchronousBreak` promise | two variables; `Start`, `Request`, `Return`, `Throw` |
| `AlsaClient` | JUCE's ALSA client, its `Port`s and its input thread, with the `MidiInput`s and `MidiOutput`s on it | `client`, `refs` = the singleton and its reference count; `ports` = the `OwnedArray`; `alive`, `number`, `enabled` = the `Port` objects; `activeCallbacks`; `input` = the thread's program counter, `event` = what it is dispatching; `queue` = the sequencer's queue |
| `M2o` | the program m2o, with `MidiIn` and `MidiInProcessor` | composes `MidiPorts` (as `Ports`) and `AlsaClient` (as `Alsa`) with `main`, `handler` (program counters), `procs` = `midiInputProcessors`, `virtual`, and what is set in each processor |
| `OscLink` | a message from `OutboundPacketStream` through a datagram to `ReceivedMessage` and its iterator | extends `OscOutboundStream`; `packet`, `state`, `typeTagPtr`, `argumentPtr`, `typeTagsEnd`; `Send`, `Receive`, `ReadArgument` |
| `SocketMultiplexer` | `Run` and `AsynchronousBreak` statement by statement | `breakFlag` = `break_`, `pipe` = unread bytes of `breakPipe_`, `ready` = `tempfds` after `select`, `runPc`, `breaker` = the two program counters, `inbox` = the head of the socket's queue |
| `MidiPorts` | `MidiOut`, `MidiIn`, `MidiCommon`, opening a device by index | `juceNames`, `juceId`, `stickyId`, `nStickyIds` = the static members; `opening` = a port object between its lookup and its open; `outputs` = the finished ones; `devices` = ALSA's list. `LookUp`/`LookUpThrows`, `Open`, `CreateVirtual`, `CloseFirst`, and the environment's `Plug`/`Unplug` |
| `OscInProcessor` | `ProcessMessage`, its handlers, `send`, and the MIDI messages JUCE builds | `outputs` = `m_outputs`, `logLevel`, `sendToOSC`, `status`; one action for each group of commands and for each way a message can fail |
| `OscOutboundStream` | `OutboundPacketStream` | `messageCursor`, `argumentCurrent`, `tagCount` = the three cursors as offsets, `inProgress`, `bytes` = the buffer; `BeginMessage`, `AddArgument`, `EndMessage` |
| `O2m` | the program o2m | composes three modules (`Ports == INSTANCE MidiPorts`, `Alsa == INSTANCE AlsaClient` without inputs, `Mux == INSTANCE SocketMultiplexer`) with `handles` = the `m_midiOut` of each output, `main`, `thr` (program counters), `mutex`, `wantToExit`, `status` and the lists of main |
| `MCMidiPorts`, `MCO2m`, `MCM2o`, `MCOscInProcessor`, `MCOscLink` | - | instances for TLC |
| `SocketMultiplexerProofs`, `MidiPortsProofs`, `O2mProofs`, `AlsaClientProofs`, `M2oProofs`, `OscInProcessorProofs`, `OscOutboundStreamProofs`, `OscLinkProofs` | - | theorems |

Correspondence, in more detail:

* **SocketMultiplexer.** osmid attaches one socket and no timers, so the timer queue and the loop over
  sockets are left out. `Enter` is `break_ = false` and the preparation of the sets, `TestBreak` the
  `while` condition, `Select` a `select` that returns, `SelectInterrupted` one that fails with EINTR
  (with the test of `break_` before the test of `errno`), `SelectFails` one that fails otherwise and
  throws, `Woken` the read of the pipe, the test and the
  look at the socket, `PacketDone` and `PacketThrows` the datagram. The steps are as fine as the
  accesses to what the threads share: a step touches `break_` or the pipe at most once, or, in
  `Woken`, reads the pipe and then `break_`: the pipe only grows at the hands of the other thread, so
  the read could as well happen just before the test. `break_` is a `volatile bool` shared without
  synchronisation; the model takes its accesses in program order, which is what the
  system calls between them and the mutex of o2m give on the builds osmid supports.
* **MidiPorts.** A device is its name: JUCE numbers duplicate names in a list
  (`appendNumbersToDuplicates`), so a list is injective. `Plug` inserts anywhere, because
  ALSA reuses client numbers; `Unplug` ends the subscriptions of the device. The constructor is two
  steps because it looks at the list twice: `LookUp` (with `Register`, all it does to the tables, which
  stays done when the lookup throws) and `Open`. `Open` records the device the handle was really
  opened on, which the program itself does not know. `MidiIn` and `MidiOut` share `MidiCommon` and have the
  same constructor, so the module serves both programs; `CreateVirtual` is the constructor of a virtual
  input. Both programs close their ports one by one, from front to back (`CloseFirst`).
* **AlsaClient.** A handle stands for a device object and the `Port` made for it. The two part company:
  `deletePort` removes from the array at the index that is the ALSA port number, and
  `OwnedArray::remove` moves the rest down, so the `Port` that dies may be another device's. `open` are
  the handles whose device object exists, `alive` those whose `Port` does. `Placed` and `Removed` are
  `set` and `remove` of `OwnedArray` with their behaviour at an index that is not there. `Close` is the
  destructor up to `deletePort`, `Remove` the rest of it with the reference count, `Destroy` and
  `Joined` are `~AlsaClient` around its wait for the thread. `Start` and `Stop` count the callbacks and
  start or signal the thread; it is `running` from `startThread` to `closeThreadHandle`, and a
  `startThread` in between starts no other. The thread tests its flag, polls, tests again, reads, compares
  the number with the size of the array (`CheckSize`), looks the `Port` up and asks whether it is enabled
  (`CheckEnabled`), looks it up again and calls (`Call`): three looks at an array the other thread
  changes without a lock. What C++ leaves undefined (a device whose `Port` is gone, a handle of a closed
  sequencer, a null `Port`) ends the behaviour with `undef` saying where. `tidy` records whether this
  client's ports were closed in the reverse order of their opening.
* **M2o.** One action for each statement of main between two accesses to what the input thread
  or the environment shares. The constructor of a processor is `LookUpNext`, `OpenNext`, `StartInput` (from here
  on its handler can be called), `AssignInput`, and `prepareMidiProcessors` continues with
  `SetOscTemplate` and `SetOscRawMidiMessage`. `clear()` and the end of main are `StopProcessor`,
  `DeleteProcessor` and `FinishDelete` for each processor from front to back, the virtual one first at the end.
  The handler is cut where it reads its processor: the raw flag for the length of a sysex, `m_input` and
  the template for the address, the raw flag again for the body. `BodyThrows` is a sysex that does not
  fit 1024 bytes: the exception ends JUCE's thread. A handler that uses a processor that is being destroyed is
  `UseDeadProcessor`. There is no mutex in m2o and no second thread of its own.
* **OscLink.** The packet is the bytes of the sending stream, cut to `BufferSize` as `recvfrom` does.
  `WellFormed` is the whole of `ReceivedMessage::Init`; `ReadArgument` is one `*arg++`: the iterator
  advances by other code than the validation, and checks nothing.
* **O2m.** One action for each statement of main between two accesses to shared state.
  `prepareOscProcessorOutputs` is `ReadNames`, `Lock`, then `CloseFirst` and `FinishClose` for each output
  that is open and `Cleared`, then `LookUpNext` and `OpenNext` for each name, then `Prepared`. `CloseFirst`
  takes the first output out of `m_outputs` and begins `~MidiOutput` (`Alsa!Close`; nothing if the handle
  is null), `FinishClose` is `deletePort` and, with the last reference, `~AlsaClient`. The end of main closes
  the outputs by the same two actions (`main = "leave"`) and then `Return`s. `OpenNext` takes a fresh
  `MidiOutput`, or the null pointer when no device is at the index. There is no input thread in o2m: the
  variables of `AlsaClient` that belong to inputs are constants there (`NoInputs`). `LookUpFails` is the
  `std::out_of_range`: at startup main closes what it has opened and returns -1; after the thread was
  started `Raise` ends the process in `std::terminate`, as every exception does then. `CtrlC`
  is the handler, on either thread: on the main thread it may interrupt `select`. A datagram is
  handled, throws (malformed, or a missing argument), or goes through the null handle of a port that
  could not be opened. After `status` has left "up", or `undef` "no", nothing happens.

* **OscInProcessor.** A message is its device, its command and its list of arguments: int32s, blobs and
  anything else. `ChannelCommand` is the seven handlers with a channel, `SystemCommand` the five that do
  not look at their arguments, `RawCommand` `raw`; `LogLevelCommand` and `LogToOscCommand` change the
  logger. A wrong list is `Ignore`, no list at all `ArgumentsMissing` (the exception nothing catches) or,
  for `raw`, `RawWithoutArguments` (a null pointer); a blob of a size beyond what oscpack takes for a
  size is `RawOversized`, another exception nothing catches. `ChannelMessage` is the factories of
  `juce_MidiMessage.cpp` with their clamping and masking, byte for byte. `handled` and `delivered` record
  the message being handled and what each output got for it. `SafeOscString` is a constant: all that
  matters of the normalisation is which names it makes equal and that its result is never `*`. In `O2m`
  the whole of this is one step (`HandlePacket`): it changes nothing there.
* **OscOutboundStream.** The buffer is modelled byte by byte, but a byte is only what it is part of (the
  i-th byte of an argument, a tag), so that an overwritten or misplaced byte shows. `<<` that throws has
  changed nothing and is no step. `pending` and `finished` record what was put in.

## 3. What the runs check

| Run | Instance | Shows |
|---|---|---|
| `socket_multiplexer` | two kinds of datagram, pipe counted up to 3 | `NoLostWakeup`, `ReadNeverBlocks`, and the refinement `ImplementsBreakableRun` with its fairness: a break requested during `Run` ends it |
| `midi_ports` | 3 names, 2 devices at once, 3 changes | `StickyIdsIdentifyNames`, `StickyIdsNeverChange`, `MapFollowsList`, `UndisturbedOpenIsRight` |
| `o2m` | all outputs, 2 names, 2 changes, heartbeat with room for one port | `BreakThreadIsAlone`, `OutputsHaveTheirPorts`, `RunReturns`, `CtrlCInsideRunEnds`, `ChangesAreFollowed` |
| `osc_in_processor` | names of which two normalise to one, a port that is closed, all lists of up to three of five int32s, some wrong lists | `SentIsWellFormed`, `OnlyTheAddressed`, `ArrivesAsAsked` |
| `osc_outbound_stream` | `MCOscLink`: 40 bytes, lengths on both sides of a multiple of four, a receive buffer that some messages do not fit | `RoomToEnd`, `WireFormat` of the sender; `ReadBack`, `TruncatedIsRejected` of the receiver |
| `alsa_client` | two inputs and an output, in any order; two messages waiting | `CallbacksAreCounted`, `ClientGoesWithLastDevice`, `LastInFirstOutIsSafe`, `MessagesOfOpenDevices`, `DestructorReturns` |
| `m2o` | all inputs, two names, one change, with and without a virtual input | `InputIsServed`, `SetUpIsRespected`, `CtrlCEnds`, `ChangesAreFollowed` |
| `o2m_ctrl_c` | no device changes | violation: a Ctrl-C may hang the process |
| `o2m_connected_live` | one change | violation: a device that comes or goes during startup is never followed |
| `o2m_named` | `-o a`, two changes | violation: a port named a plays on device b |
| `m2o_served` | one device, no change | violation: one message that is too long silences every input |
| `m2o_other_device` | three devices, no change | violation: while inputs are closed, messages go to the wrong processor |

**Bounds.** `PipeBound` does not bound the pipe: a pipe of `PipeBound` bytes stands for that many or
more, and reading one then leaves either. The bytes differ in nothing, so what matters is empty or not,
and 1 already has all of that; `socket_multiplexer` uses 3 so that the left-over bytes of earlier breaks
are also counted exactly. `MaxDevices` and `MaxChanges` bound the environment: two devices make an index
ambiguous, and with three changes two devices can swap places, one can replace the other and a device can
come back, which are all the ways to make a map stale but one (see section 5 on twins); in `O2m`, two
changes are an unplugging and a plugging in either order at any two moments of the program. `MCMidiPorts`
bounds the number of ports a caller keeps open. `HeartbeatRoom` is how many ports fit into a heartbeat
whatever their names: with 1, two ports may or may not fit. `MidiOutput` has as many members as there can
be outputs, since none is made before the last rebuild's are gone; which of them a new one is does not
matter (`CHOOSE`). Two outputs are the smallest number whose closing is undefined. With one, or with two
of which one could not be opened, it is defined, and the behaviours go on; those are the rebuilds
`OutputsHaveTheirPorts` and `ChangesAreFollowed` see. The socket's queue is its head; a datagram can
arrive as soon as the one before was read.

`alsa_client` has three handles: two inputs are what it takes for the wrong `Port` to die, and a third
device keeps the client when they are gone. A handle whose device is closed and forgotten is used again,
so the three come and go for ever; the ALSA port numbers they get are the lowest free ones. With
`QueueBound` = 2, messages of two devices wait in either order while ports are closed. In `M2o`,
`Processor` has four members: the inputs of two devices, the virtual one, and one more, because a
message of a closed input may still be on its way while its successor is made. The bound `CanBuild` (a
free processor exists) is then only met when there is one; a fresh processor is picked by `CHOOSE`,
since which address a new object gets does not matter. `QueueBound` = 1 there: the queue differs from
two messages only in what the thread finds next.

The int32s of `osc_in_processor` are negative (-129), zero, a channel and value (2), above seven bits
(200) and above 255 (9000): every mask and clamp has a value it changes, and 2 and, for the pitch bend,
200 and 9000 are values that must arrive unchanged. The 40 bytes of `osc_outbound_stream` hold up to six
arguments or two messages, and a last argument that ends where the type tags begin.

**Fairness.** `SocketMultiplexer` assumes that the thread in `Run` keeps running and that a call of
`AsynchronousBreak` that has begun is finished; nobody has to call either, to send or to signal. `O2m`
assumes the same of the two threads as wholes: `WF(MainStep)` and `WF(ThrStep)`, which is the operating
system's scheduler. The main thread also needs the mutex: `SF(Lock)`. The break thread holds it
for two statements and then sleeps for a second without it, so a main thread that waits for it is woken
with the mutex free. Devices, datagrams and Ctrl-C are never assumed to happen. The sleep is not a time:
the break thread may wake at any moment, and properties hold for any length of it. `AlsaClient` assumes
that the input thread keeps running, which includes that a callback returns, and that a destructor that
has begun is finished; `M2o` assumes it of its main thread as a whole. `stopThread` waits for three
seconds and then kills the thread: osmid's handler builds and sends a datagram, so the model takes it to
return in time. Nobody has to open, close, start or send. Neither specification needs strong fairness:
no lock is taken.

**Findings.** Five statements of the repository are not kept by the code, each of which is a run that TLC must
find violated.

1. *"Exit nicely with CTRL-C"* (`o2m.cpp:213`). The handler sets a flag. The break thread ends when it
   sees it, and Ctrl-C interrupts `select` only if main is in it. If main has passed its own test of the
   flag and is not yet in `select` (it is listing devices or about to enter `Run`, whose first
   statement resets `break_`), there is no break left for it: it sleeps in `select` until the process
   is killed. What does hold is `CtrlCInsideRunEnds`: with main already in `Run` and the break thread in its
   sleep, the remaining break ends the process.
2. *"... and the ones that are connected live"* (`README.md:69`). `lastAvailablePorts` is taken after the
   ports were opened. A change in between is taken for the state the ports were opened in. What does hold is
   `ChangesAreFollowed`: once the devices are quiet, a remembered list that differs from the real one
   leads to ports that agree with it, provided that at most one output is open (see below).
3. *"open the specified output device"* (`README.md:69`, `--midiout`). The map from names to indices
   keeps the names of devices that are gone; a rebuild opens whatever has the old index now. The index
   can also be stale already when it is used, if a device enters the list between the lookup and the
   open, which is TLC's shortest behaviour. What does
   hold is `UndisturbedOpenIsRight`.
4. *"the device will start sending midi messages to the MidiInputCallback"* (`juce_MidiInput.h:152`,
   `start()`). A sysex that does not fit the 1024 bytes of `midiinprocessor.cpp:190` makes the handler
   throw; JUCE's thread ends, the callbacks still count as active, and nothing starts another thread
   until the client has been destroyed. What does hold is `InputIsServed`: without such a message a
   started input has its thread, through every rebuild.
5. *"the object that will receive the midi messages from this device"* (`juce_MidiInput.h:115`).
   Removing a `Port` from the array shifts the ones behind it away from their numbers, so that while
   main closes inputs from front to back messages of one device go to the processor of another. What
   does hold is `MessagesOfOpenDevices`: in the reverse order this cannot happen.

Read in the code and modelled, but without a run of their own:

* `active_sense` (`README.md:95`) is spelt `active_sensing` in `oscinprocessor.cpp:85`, and what it sends is
  an empty sysex; a `raw` blob reaches every output, as the FIXME at `oscinprocessor.cpp:142` says.
  `OnlyTheAddressed` excepts it.
* `README.md` on the datagrams of m2o: line 55 gives the default address as /midi/<port id>/<channel>,
  the code's is /midi/<port name>/<id>[/<channel>]/<message type> (`midiinprocessor.cpp:180-186`);
  lines 59-60 put the port's id and name in front of the body, the code puts neither; line 64 has
  /midi/heartbeat, the code sends /m2o/heartbeat (`m2o.cpp:160`).
* The virtual input gets neither the template nor the raw flag (`m2o.cpp:208-211`), and a message
  that arrives before a processor is set up may be of mixed form: both are why `SetUpIsRespected` speaks of
  processors that are `ready` when the message arrives.
* A message in the few instructions between `start()` and the assignment of `m_input` finds a null
  pointer (`midiinprocessor.cpp:44`, `MakeAddress`); one that is being handled while its processor is
  destroyed uses freed memory (`UseDeadProcessor`). Nothing prevents either.
* `vector::clear()` and the end of main destroy ports from front to back. With two, deleting the first
  `Port` moves the second to index 0 of JUCE's array, so the second close removes nothing; the
  reference count is 0 all the same, `~AlsaClient` closes the sequencer and then deletes the `Port` that
  is left, through the closed handle (`Joined`). With three, the second close deletes the third `Port`,
  which its device then uses (`UseDeadPort`). It happens with two or more inputs in m2o as with two or
  more outputs in o2m, at every rebuild and at the end, which is then no nice exit
  (`o2m.cpp:213`). The liveness properties of `M2o` accept it as an end of the program;
  `ChangesAreFollowed` of `O2m` does not, and so starts with at most one output open. What does hold is
  `OutputsHaveTheirPorts`: as long as nothing undefined was done, whenever a datagram can be played the
  `Port`s are those of the outputs; and `LastInFirstOutIsSafe`: in the reverse order closing is defined.
* `stop()` and `start()` of a `MidiInput` in quick succession may leave it without a thread: the old one
  has seen its flag but not yet ended, and `startThread` finds it running. m2o never does this
  (`InputIsServed`).
* The size checks of a blob in `ReceivedMessage::Init` (`OscReceivedElements.cpp:693`, `699`) create an
  exception and do not throw it; `ReadBack` is about senders whose sizes are right,
  `OutboundPacketStream` among them.

## 4. What is proved

TLAPS checks, for every value of the constants that satisfies the named assumptions (sets of names and
datagrams that do not contain the marker for "none", natural numbers as bounds, options of the
right type):

* `SocketMultiplexerProofs`: `TypeCorrect`, `WakeupIsNeverLost`, `PipeReadNeverBlocks`, by one inductive
  invariant, which is their conjunction: that the thread blocked in `select` has a byte coming needs the
  types and nothing more, because the flag is set before the byte is written. `RunIsBreakable` is the
  safety part of the refinement of `BreakableRun` (initial states and steps).
* `MidiPortsProofs`: `TypeCorrect`, `StickyIdsAreIdentities`, `MapIsCurrent`, `StickyIdsAreForEver`,
  `UndisturbedOpensAreRight`. The inductive invariant is the conjunction of the first three, with
  lemmas on lists that stay injective when a device is inserted or removed (`InsertKeepsList`,
  `RemoveKeepsList`). The last theorem needs, besides, that the index of a port about to be opened is the
  map's (`OpeningIsLookedUp`), an invariant of its own.
* `O2mProofs`: the program uses its ports and its receive loop only by the operations of their modules
  (`PortsAreUsedAsSpecified`, `PortsStep`, `MuxStep`), so their invariants hold of the program
  (`StickyIdsInO2m`, `WakeupsInO2m`); `BreakThreadIsAlwaysAlone` by the invariant `MutexInv`, which ties
  the mutex to the two program counters; and `O2mTypeCorrect`. It also uses JUCE's client only by the
  operations of `AlsaClient` (`ClientIsUsedAsSpecified`), so that module's `IInv` holds of o2m.
  `OutputsKeepTheirPorts` (`OutputsHaveTheirPorts`) needs of it that a client is `tidy` until ports are
  closed out of order, and then has the `Port`s of its open devices (`TidyInv`). `OutputsInv` adds what
  o2m does with it: no `MidiOutput` is held twice, the open devices are those held and the one that is
  being deleted, outputs are closed only in the clearing of a rebuild and at the end, and when none is
  open the client is gone, and the next one starts tidy. So an untidy client has not survived the
  `clear()` that made it untidy.

* `AlsaClientProofs`: `TypeCorrect`, `CallbacksAlwaysCounted`, `ClientOutlivesDevices`,
  `ReverseOrderIsSafe` and `OpenDevicesAreHeard`, by one inductive invariant `IInv`, whose parts need
  each other. `PortsInv`: the array and `alive` are the same `Port`s, none twice, whatever order they
  are closed in. `CallbackInv`: an enabled `Port` is alive and its device open, and the counter is
  the number of them; without it the client could not be said to have no callback left when it
  goes. `ClientInv`: the references are the open devices, and a step of closing that has begun finds
  what it started from. `ThreadInv`: the thread has a handle exactly when it is somewhere in its code,
  and only while there is a client. `TidyInv`: as long as ports are closed in reverse order, the
  index of every `Port` is its number and every device has its own. `MessageInv`: a message waiting
  or being dispatched is addressed to the number its `Port` has, if that is still open, which is
  what makes the two looks of the thread find the same one. Cardinalities are handled in a few
  lemmas on adding and removing one element.
* `M2oProofs`: the program uses its inputs and its client only by the operations of their modules
  (`InputsAreUsedAsSpecified`, `ClientIsUsedAsSpecified`, from the step lemmas `PortsStep` and
  `AlsaStep`), so what was proved of those modules holds in the program (`StickyIdsInM2o`,
  `CallbacksInM2o`, `ClientOfM2o`). `SetUpIsAlwaysRespected` needs that what is set in a processor was
  asked for, and all of it is set once the processor is ready (`SetUpInv`), and that what the handler
  has read so far agrees with that (`HandlerInv`); both need who owns which processor (`OwnersInv`,
  `ProcsInv`): the one under construction is not yet ready, and one that was destroyed and is made
  anew is ready no more. `InputIsAlwaysServed` adds that when all inputs have been closed the client
  is gone, and with it the thread that was asked to stop (`ClosingInv`), that the virtual input is
  the client's first `Port` and stays enabled (`VirtualInv`), and so that an input is started either
  when no old thread is left or next to one that stays (`ServedInv`): JUCE's race between `stop()` and
  `start()` cannot happen here. `M2oTypeCorrect` puts the types of the three parts together.
* `OscOutboundStreamProofs`: `TypeCorrect` and `WhatIsAcceptedFits` (`RoomToEnd`), for every capacity and
  all lengths. The invariant adds that without a message
  in progress the argument cursor is at the message cursor and there are no tags.
  `BufferHoldsWireFormat` (`WireFormat`) needs to know of a message in progress as well: that behind the
  messages completed comes its address, from the message cursor to the argument cursor its arguments, and
  its tags stand in reverse order at the end of the buffer (`WireInv`, with `RoomToEnd` from the first
  invariant, which keeps an argument from overwriting tags). The steps then rest on what writing
  to a buffer leaves and changes (`BytesKept`, `BytesWritten`, `BytesAppended`, `SlotInserted`) and on
  `FlattenSeqAppend`. `FlattenSeq` of the community modules is a recursive function, that is, some
  function that satisfies its equation: that there is one (`FlattenExists`) and only one (`FlattenIs`) is
  proved by induction on the length. The library's induction theorems take an operator as parameter, which
  cannot be instantiated; `Induction` takes instead the set of numbers a statement holds for, and comes
  from the theorem on minimal elements of a well-founded relation, which is stated with sets.
* `OscLinkProofs`: `TruncatedIsAlwaysRejected`, for every capacity of the stream: the length of a packet
  is the size of the stream or, cut, that of the receive buffer (`PacketInv`), which is assumed to be no
  multiple of four. `RoomInOscLink` and `WireFormatInOscLink` are `RoomToEnd` and `WireFormat` under the
  specification the run checks. `WhatFitsIsReadBack` (`ReadBack`) joins the two sides: `WireInv` makes
  the packet the encoding of the message, so every byte of it is known (`PacketBytes`, `ArgumentBytesAt`:
  the k-th argument begins behind the encodings of those before it). A search for the end of a string
  stops behind its padding (`StringEndIs`), so validation finds tags and arguments where the sender has
  put them (`TagsAreFound`, `PlacesAre`, by `Induction` over the recursive function `Places`) and accepts
  the message (`PacketIsWellFormed`), and the iterators, unchecked, are always in front of an argument or
  behind the last (`ReadInv`). It is assumed of the constants that an int32 has four bytes, a string at
  least its terminator and a blob at least its size (`KindAssumption`): with other lengths the code would
  not have written such an argument.
* `OscInProcessorProofs`: `WhatIsSentIsWellFormed`, `OnlyTheAddressedAreReached` and
  `DocumentedCommandsArrive`, for all int32s, argument lists, names and lists of ports. Every message
  establishes them anew, so the invariant adds only that outputs are a sequence; the work is in the
  lemmas about MIDI messages and `send`: that a receiver finds command, channel and values again in the
  bytes (`DecodedChannelMessage`), all sixteen channels when channel 0 is asked for (`MessagesDecode`),
  and that of the outputs of a name there is a first (`SomebodyIsFound`). `OnlyBytesAreSent` (`TypeOK`)
  adds that what the outputs are given are sequences of bytes: channel messages, system messages, blobs, and
  the int32s of a raw message modulo 256, collected one by one (`RawBytesType`, by the same `Induction`).

So every safety property the passing runs check, invariant or action property, is also a theorem. Only
model-checked are the liveness properties (`RunReturns`, `CtrlCInsideRunEnds`, `CtrlCEnds`,
`ChangesAreFollowed`, `DestructorReturns`, the fairness part of `ImplementsBreakableRun`), since fairness and
ENABLED are beyond the prover.

## 5. Not modelled

* **Logging.** `MonitorLogger` holds a level, a switch and spdlog sinks. Each sink is locked by spdlog around a
  record, and the OSC sink sends under `OscOutput`'s own mutex, always in this order; an exception of a
  sink is caught by spdlog. The level and the switch are single stores nothing else depends on. There is no
  behaviour here that a model could tell apart.
* **Utilities.** Normalisation is the constant `SafeOscString` of `OscInProcessor`; the rest formats log
  lines and lists ports.
* **Of the MIDI input thread**: JUCE's `MidiDataConcatenator` and sysex in pieces. A message is one event in
  the model. The concatenator is shared by all inputs, so pieces of two devices can be
  mixed up; the hazard is listed, the bytes are not modelled. `MidiOutput`'s background thread and
  `killThread` are not used by osmid, or only after three seconds in a handler.
* **Of oscpack**: bundles, the other argument types and arrays, timers, several sockets, `Break`,
  `RunUntilSigInt`. `AddArgument` asks for a message in progress, which the operators `<<` do not check
  (`OscOutboundPacketStream.cpp:436-477`): osmid puts no argument elsewhere. Of a message with a blob of
  an invalid size only the first argument is looked at, as by `raw`. osmid neither sends nor handles
  them; it logs a bundle and does nothing more. The capacity of the self-pipe (65536 bytes) is not
  modelled; each call of `Run` reads at least one byte of it.
* **Twins.** When a second device of a name arrives, `appendNumbersToDuplicates`
  (`juce_linux_Midi.cpp:454`) gives both a number, so the first changes its name. In `MidiPorts` a device
  is its name and `Plug` renames none. For the tables, a renaming is the old name going and a new one
  coming at the same index, two changes that `Unplug` and `Plug` make one after the other; but in the
  model the port's subscription ends with the name, and in ALSA it goes on. A live port whose device has
  changed its name is the one case the model does not have.
* **Option parsing**, listing of ports, the Windows and Mac builds, the network itself (a datagram that is
  lost is one that is not sent: nothing in osmid waits for an answer).
* **Vendored code**: nearly all of the repository is JUCE (audio, scripting, zip, graphics...), spdlog
  and cxxopts. osmid uses of JUCE its ALSA MIDI devices, threads, arrays and MIDI messages, which are
  modelled as far as they carry state, and of the rest nothing that runs. This is why the mapped lines
  are a small share of the repository, and a large share of osmid's own `src/`.

What could still be stated: an abstract specification of hotplugging (ports follow devices) that both
programs implement once the devices are quiet; today each states it as `ChangesAreFollowed`. `ReadBack`
is about one message in a packet, and of the argument types about int32, string and blob, which is what
osmid sends.
