----------------------------- MODULE AlsaClient -----------------------------
(***************************************************************************)
(* JUCE's AlsaClient (juce_linux_Midi.cpp) with the MidiInput and           *)
(* MidiOutput objects its user opens on it and the thread that reads the    *)
(* ALSA sequencer. A handle is a MidiInput or MidiOutput together with the  *)
(* Port object it points to; the Port may die before the device object      *)
(* does, since the client finds Ports by ALSA port number in an array that  *)
(* closes its gaps. One thread, here the user, opens and closes; no lock is   *)
(* taken. What the C++ standard leaves undefined ends a behaviour: undef    *)
(* says where.                                                              *)
(***************************************************************************)
EXTENDS Integers, Sequences, FiniteSets

CONSTANTS
    Input,       \* the handles that are MidiInputs
    Output,      \* the handles that are MidiOutputs
    NoHandle,
    QueueBound   \* the sequencer's queue holds this many unread messages

Handle == Input \cup Output

ASSUME HandleAssumption ==
    /\ Input \cap Output = {}
    /\ NoHandle \notin Handle
    /\ IsFiniteSet(Handle)
    /\ QueueBound \in Nat

VARIABLES
    client,           \* "none", "live", or "closed": ~AlsaClient is under way
    refs,             \* refCount of the client, between two calls
    ports,            \* the array of Ports, by the handle they were made for
    alive,            \* the handles whose Port object exists
    number,           \* portId: the ALSA port number of each such Port
    open,             \* the handles whose MidiInput or MidiOutput exists
    enabled,          \* callbackEnabled
    activeCallbacks,
    shouldExit,       \* of the input thread
    running,          \* isThreadRunning(): the input thread has a handle
    input,            \* where the input thread is
    event,            \* the message it is dispatching
    called,           \* the handle whose callback it is in
    queue,            \* the messages the sequencer holds for this client
    user, closing,    \* where the user's thread is, the handle it is closing
    tidy,             \* history: this client closed the ports last in, first out
    undef

portVars == <<client, refs, ports, alive, number, open, tidy>>
callbackVars == <<enabled, activeCallbacks, shouldExit, running>>
inputVars == <<input, event, called>>
userVars == <<user, closing>>
vars == <<portVars, callbackVars, inputVars, userVars, queue, undef>>

\* A message: the port number it is addressed to, and whose subscription sent it.
Message == [dest : Nat, of : Handle]
NoMessage == [dest |-> 0, of |-> NoHandle]

TypeOK ==
    /\ client \in {"none", "live", "closed"}
    /\ refs \in Nat
    /\ ports \in Seq(Handle)
    /\ alive \in SUBSET Handle
    /\ number \in [Handle -> Nat]
    /\ open \in SUBSET Handle
    /\ enabled \in SUBSET Input
    /\ activeCallbacks \in Int
    /\ shouldExit \in BOOLEAN
    /\ running \in BOOLEAN
    /\ input \in {"ended", "begin", "test", "poll", "read", "size", "enabled", "call",
                  "callback", "pending", "leave"}
    /\ event \in Message \cup {NoMessage}
    /\ called \in Handle \cup {NoHandle}
    /\ queue \in Seq(Message)
    /\ user \in {"idle", "remove", "destroy", "join"}
    /\ closing \in Handle \cup {NoHandle}
    /\ tidy \in BOOLEAN
    /\ undef \in {"no", "deadPort", "noPort", "closedSequencer"}

Init ==
    /\ client = "none"
    /\ refs = 0
    /\ ports = << >>
    /\ alive = {}
    /\ number = [h \in Handle |-> 0]
    /\ open = {}
    /\ enabled = {}
    /\ activeCallbacks = 0
    /\ shouldExit = FALSE
    /\ running = FALSE
    /\ input = "ended"
    /\ event = NoMessage
    /\ called = NoHandle
    /\ queue = << >>
    /\ user = "idle"
    /\ closing = NoHandle
    /\ tidy = TRUE
    /\ undef = "no"

----------------------------------------------------------------------------
(* Ports. *)

\* snd_seq_create_simple_port gives a client's new port the lowest free number.
LowestFree(n) ==
    /\ \A h \in alive : number[h] # n
    /\ \A m \in 0 .. n - 1 : \E h \in alive : number[h] = m

\* The Port at an index of the array (from 0, as in the code), if there is one.
At(i) == IF i < Len(ports) THEN {ports[i + 1]} ELSE {}

\* Mutant: OwnedArray::insert at the front.
PlacedFirst(i, h) == <<h>> \o ports

\* OwnedArray::set: in place of what is there, or else at the end.
Placed(i, h) ==
    IF i < Len(ports) THEN [ports EXCEPT ![i + 1] = h] ELSE Append(ports, h)

\* Mutant: the element before goes.
RemovedBefore(i) ==
    IF i < Len(ports)
    THEN [k \in 1 .. Len(ports) - 1 |-> IF k < i THEN ports[k] ELSE ports[k + 1]]
    ELSE ports

\* OwnedArray::remove: the elements behind move up, if there is such an index.
Removed(i) ==
    IF i < Len(ports)
    THEN [k \in 1 .. Len(ports) - 1 |-> IF k <= i THEN ports[k] ELSE ports[k + 1]]
    ELSE ports

\* Mutant: the count goes down for ports that were never enabled, too.
DisableAlways(S) ==
    /\ enabled' = enabled \ S
    /\ activeCallbacks' = activeCallbacks - Cardinality(S)
    /\ shouldExit' = (shouldExit \/ (S # {} /\ activeCallbacks' = 0 /\ running))

\* enableCallback(false) and unregisterCallback(): of at most one Port.
Disable(S) ==
    /\ enabled' = enabled \ S
    /\ activeCallbacks' = activeCallbacks - Cardinality(S \cap enabled)
    /\ shouldExit' = (shouldExit \/ (S \cap enabled # {} /\ activeCallbacks' = 0 /\ running))

\* A handle nobody uses or can still come across: a device object not yet made.
Fresh(h) ==
    /\ h \notin open \cup alive
    /\ h \notin {called, event.of}
    /\ \A k \in DOMAIN queue : queue[k].of # h

\* openDevice or createNewDevice. getInstance() makes the client if there is none.
\* A Port that is in the new one's place is destroyed.
Open(h) ==
    /\ user = "idle"
    /\ Fresh(h)
    /\ \E n \in 0 .. Cardinality(alive) :
          /\ LowestFree(n)
          /\ number' = [number EXCEPT ![h] = n]
          /\ ports' = Placed(n, h)
          /\ alive' = (alive \ At(n)) \cup {h}
          /\ Disable(At(n))
    /\ client' = "live"
    /\ refs' = refs + 1
    /\ open' = open \cup {h}
    /\ UNCHANGED <<running, inputVars, userVars, queue, tidy, undef>>

\* MidiInput::start: enableCallback(true) and registerCallback(). The first callback
\* starts the thread, unless there is one that has not ended.
Start(h) ==
    /\ user = "idle"
    /\ h \in (open \cap alive \cap Input) \ enabled
    /\ enabled' = enabled \cup {h}
    /\ activeCallbacks' = activeCallbacks + 1
    /\ IF activeCallbacks = 0
       THEN /\ shouldExit' = FALSE
            /\ running' = TRUE
            /\ input' = IF running THEN input ELSE "begin"
       ELSE UNCHANGED <<shouldExit, running, input>>
    /\ UNCHANGED <<portVars, event, called, userVars, queue, undef>>

\* MidiInput::stop.
Stop(h) ==
    /\ user = "idle"
    /\ h \in open \cap alive \cap Input
    /\ Disable({h})
    /\ UNCHANGED <<portVars, running, inputVars, userVars, queue, undef>>

\* The destructor of a MidiInput stops it first; that of a MidiOutput has nothing to stop.
Close(h) ==
    /\ user = "idle"
    /\ h \in open \cap alive
    /\ Disable({h})
    /\ user' = "remove"
    /\ closing' = h
    /\ UNCHANGED <<portVars, running, inputVars, queue, undef>>

\* start, stop, sendMessageNow or a destructor, on a device whose Port is gone.
UseDeadPort(h) ==
    /\ user = "idle"
    /\ h \in open \ alive
    /\ undef' = "deadPort"
    /\ UNCHANGED <<portVars, callbackVars, inputVars, userVars, queue>>

\* Mutant: the Ptr held during deletePort was never counted.
ReleasedTwice == refs - 2

\* A device object's Ptr to the client goes.
Released == refs - 1

\* deletePort, and the Ptr that was held during it goes: the Port at the index that
\* is the closed Port's number leaves the array and dies, whoever's it is.
Remove ==
    LET gone == At(number[closing]) IN
    /\ user = "remove"
    /\ ports' = Removed(number[closing])
    /\ alive' = alive \ gone
    /\ open' = open \ {closing}
    /\ refs' = Released
    /\ Disable(gone)
    /\ tidy' = (tidy /\ \A h \in alive : number[h] <= number[closing])
    /\ user' = IF refs' = 0 THEN "destroy" ELSE "idle"
    /\ closing' = NoHandle
    /\ UNCHANGED <<client, number, running, inputVars, queue, undef>>

\* ~AlsaClient closes the sequencer and tells the thread to end,
Destroy ==
    /\ user = "destroy"
    /\ client' = "closed"
    /\ queue' = << >>
    /\ shouldExit' = (shouldExit \/ running)
    /\ user' = "join"
    /\ UNCHANGED <<refs, ports, alive, number, open, tidy, enabled, activeCallbacks, running,
                   inputVars, closing, undef>>

\* Mutant: stopThread only asks.
NotWaited == TRUE

\* What stopThread waits for.
ThreadEnded == ~running

\* waits for it (stopThread), and destroys its members. A Port left in the array
\* would delete its ALSA port through the closed sequencer.
Joined ==
    /\ user = "join"
    /\ ThreadEnded
    /\ IF ports = << >>
       THEN /\ client' = "none" /\ user' = "idle" /\ tidy' = TRUE
            /\ shouldExit' = FALSE /\ activeCallbacks' = 0
            /\ UNCHANGED undef
       ELSE /\ undef' = "closedSequencer"
            /\ UNCHANGED <<client, user, tidy, shouldExit, activeCallbacks>>
    /\ UNCHANGED <<refs, ports, alive, number, open, enabled, running, inputVars, closing,
                   queue>>

----------------------------------------------------------------------------
(* MidiInputThread::run. *)

\* The thread asks the sequencer for something; after snd_seq_close that is undefined.
AskSequencer(what) ==
    IF client = "live"
    THEN what /\ UNCHANGED undef
    ELSE undef' = "closedSequencer" /\ UNCHANGED <<queue, inputVars>>

Begin ==
    /\ input = "begin"
    /\ AskSequencer(input' = "test" /\ UNCHANGED <<queue, event, called>>)
    /\ UNCHANGED <<portVars, callbackVars, userVars>>

\* Mutant: the loop is for (;;), the flag is looked at after a message only.
NeverExits ==
    /\ input = "test"
    /\ input' = "poll"
    /\ UNCHANGED <<portVars, callbackVars, event, called, userVars, queue, undef>>

TestExit ==
    /\ input = "test"
    /\ input' = IF shouldExit THEN "leave" ELSE "poll"
    /\ UNCHANGED <<portVars, callbackVars, event, called, userVars, queue, undef>>

PollTimesOut ==
    /\ input = "poll"
    /\ input' = "test"
    /\ UNCHANGED <<portVars, callbackVars, event, called, userVars, queue, undef>>

\* There is a message, or the descriptor has been closed.
PollReturns ==
    /\ input = "poll"
    /\ queue # << >> \/ client # "live"
    /\ input' = IF shouldExit THEN "leave" ELSE "read"
    /\ UNCHANGED <<portVars, callbackVars, event, called, userVars, queue, undef>>

Read ==
    /\ input = "read"
    /\ AskSequencer(/\ event' = Head(queue)
                    /\ queue' = Tail(queue)
                    /\ input' = "size"
                    /\ UNCHANGED called)
    /\ UNCHANGED <<portVars, callbackVars, userVars>>

\* AlsaClient::handleIncomingMidiMessage looks at the array three times. Is there
\* such an index,
CheckSize ==
    /\ input = "size"
    /\ input' = IF event.dest < Len(ports) THEN "enabled" ELSE "pending"
    /\ UNCHANGED <<portVars, callbackVars, event, called, userVars, queue, undef>>

\* The Port at the index the message is addressed to; a null pointer if there is
\* no longer one.
AskPort(what) ==
    IF event.dest < Len(ports)
    THEN what /\ UNCHANGED undef
    ELSE undef' = "noPort" /\ UNCHANGED <<called, input>>

\* is the callback of the Port there enabled,
CheckEnabled ==
    /\ input = "enabled"
    /\ AskPort(/\ input' = IF ports[event.dest + 1] \in enabled THEN "call" ELSE "pending"
               /\ UNCHANGED called)
    /\ UNCHANGED <<portVars, callbackVars, event, userVars, queue>>

\* and then it calls the one that is there.
Call ==
    /\ input = "call"
    /\ AskPort(/\ called' = ports[event.dest + 1]
               /\ input' = "callback")
    /\ UNCHANGED <<portVars, callbackVars, event, userVars, queue>>

CallbackReturns ==
    /\ input = "callback"
    /\ input' = "pending"
    /\ called' = NoHandle
    /\ UNCHANGED <<portVars, callbackVars, event, userVars, queue, undef>>

\* run() does not catch what the callback throws; threadEntryPoint does, and ends.
CallbackThrows ==
    /\ input = "callback"
    /\ input' = "leave"
    /\ called' = NoHandle
    /\ UNCHANGED <<portVars, callbackVars, event, userVars, queue, undef>>

Pending ==
    /\ input = "pending"
    /\ AskSequencer(/\ input' = IF queue = << >> THEN "test" ELSE "read"
                    /\ event' = NoMessage
                    /\ UNCHANGED <<queue, called>>)
    /\ UNCHANGED <<portVars, callbackVars, userVars>>

\* closeThreadHandle(): from here on the thread counts as ended.
Leave ==
    /\ input = "leave"
    /\ input' = "ended"
    /\ event' = NoMessage
    /\ running' = FALSE
    /\ UNCHANGED <<portVars, enabled, activeCallbacks, shouldExit, called, userVars, queue, undef>>

----------------------------------------------------------------------------

\* A device sends a message through the subscription of a Port.
Arrive(h) ==
    /\ client = "live"
    /\ h \in alive \cap Input
    /\ Len(queue) < QueueBound
    /\ queue' = Append(queue, [dest |-> number[h], of |-> h])
    /\ UNCHANGED <<portVars, callbackVars, inputVars, userVars, undef>>

UserStep ==
    \/ \E h \in Handle : Open(h) \/ Close(h) \/ UseDeadPort(h)
    \/ \E h \in Input : Start(h) \/ Stop(h)

FinishClose == Remove \/ Destroy \/ Joined

InputStep ==
    \/ Begin \/ TestExit \/ PollTimesOut \/ PollReturns \/ Read
    \/ CheckSize \/ CheckEnabled \/ Call \/ CallbackReturns \/ CallbackThrows \/ Pending \/ Leave

Defined == undef = "no"

Next ==
    \/ Defined /\ (UserStep \/ FinishClose)
    \/ Defined /\ InputStep
    \/ Defined /\ \E h \in Input : Arrive(h)
    \/ ~Defined /\ UNCHANGED vars

\* The input thread keeps running, a callback returns (within the three seconds
\* after which stopThread would kill the thread), and a destructor is finished.
Fairness == WF_vars(Defined /\ InputStep) /\ WF_vars(Defined /\ FinishClose)

Spec == Init /\ [][Next]_vars /\ Fairness

----------------------------------------------------------------------------
(* Properties. *)

\* juce_linux_Midi.cpp:221, jassert (activeCallbacks.get() > 0), and what it is there
\* for: the count is that of the Ports with an enabled callback.
CallbacksAreCounted ==
    /\ enabled \subseteq alive
    /\ activeCallbacks = Cardinality(enabled)

\* The client goes with the last device, with no callback left (the assertion at
\* line 295) and its thread joined: no thread without a client, no client without a
\* device.
ClientGoesWithLastDevice ==
    /\ refs = Cardinality(open)
    /\ open # {} => client = "live"
    /\ client = "closed" => activeCallbacks = 0
    /\ client = "none" => ~running

\* Closing the devices in the reverse of the order they were opened in is
\* safe: every device has its own Port, at the index that is its number.
LastInFirstOutIsSafe ==
    tidy => /\ undef # "deadPort"
            /\ \A k \in DOMAIN ports : number[ports[k]] = k - 1
            /\ alive = open
            /\ user = "join" => ports = << >>

\* As long as they are closed in that order, a message of a device that is still
\* open reaches the callback of that device.
MessagesOfOpenDevices ==
    (tidy /\ input = "callback" /\ event.of \in open) => called = event.of

\* juce_MidiInput.h, callback: "the object that will receive the midi messages from
\* this device". The code does not keep this when devices are closed in another order.
MessagesReachTheirDevice ==
    (input = "callback" /\ event.of \in open) => called = event.of

\* The destructor of the client gets the thread to end, whatever it was doing.
DestructorReturns == (user = "join") ~> (user = "idle" \/ ~Defined)
=============================================================================
