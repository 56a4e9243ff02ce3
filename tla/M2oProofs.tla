------------------------------ MODULE M2oProofs ------------------------------
(***************************************************************************)
(* The program m2o for any devices, options and bounds: it uses the tables  *)
(* of names and JUCE's client only as MidiPorts and AlsaClient allow, so    *)
(* what is proved there holds of it, and its processors keep their set-up.  *)
(***************************************************************************)
EXTENDS M2o, TLAPS

\* The modules with their theorems; PP!X and Ports!X are two names for one
\* definition of MidiPorts, and so are AP!X and Alsa!X for one of AlsaClient.
PP == INSTANCE MidiPortsProofs WITH outputs <- inputs
AP == INSTANCE AlsaClientProofs WITH
          Input <- Processor, Output <- {}, NoHandle <- NoProcessor

USE PortsAssumption, AlsaAssumption, OptionsAssumption

----------------------------------------------------------------------------
(* The two names of each definition. *)

LEMMA SamePorts ==
    /\ Ports!Init => PP!Init
    /\ Ports!Next => PP!Next
<1>1. Ports!Init => PP!Init
  BY DEF PP!Init, Ports!Init, PP!DeviceLists, Ports!DeviceLists, PP!IsInjective,
         Ports!IsInjective
<1>2. Ports!Next => PP!Next
  <2>1. Ports!Plug => PP!Plug
    BY DEF Ports!Plug, PP!Plug, Ports!InsertAt, PP!InsertAt, Ports!Range, PP!Range
  <2>2. Ports!Unplug => PP!Unplug
    BY DEF Ports!Unplug, PP!Unplug, Ports!RemoveAt, PP!RemoveAt
  <2>3. \A n : Ports!Register(n) => PP!Register(n)
    BY DEF Ports!Register, PP!Register, Ports!StickyOf, PP!StickyOf,
           Ports!RefreshedMap, PP!RefreshedMap, Ports!IndexNow, PP!IndexNow,
           Ports!Range, PP!Range
  <2>4. \A n : Ports!LookUp(n) => PP!LookUp(n)
    BY <2>3 DEF Ports!LookUp, PP!LookUp, Ports!StickyOf, PP!StickyOf
  <2>5. \A n : Ports!LookUpThrows(n) => PP!LookUpThrows(n)
    BY <2>3 DEF Ports!LookUpThrows, PP!LookUpThrows
  <2>6. \A n : Ports!CreateVirtual(n) => PP!CreateVirtual(n)
    BY <2>3 DEF Ports!CreateVirtual, PP!CreateVirtual
  <2>7. Ports!Open => PP!Open
    BY DEF Ports!Open, PP!Open, Ports!DeviceAt, PP!DeviceAt
  <2>8. Ports!CloseFirst => PP!CloseFirst
    BY DEF Ports!CloseFirst, PP!CloseFirst
  <2>9. QED
    BY <2>1, <2>2, <2>4, <2>5, <2>6, <2>7, <2>8
       DEF Ports!Next, PP!Next, Ports!Environment, PP!Environment
<1>3. QED
  BY <1>1, <1>2

\* What AlsaClient assumes of its constants, m2o's assumptions give it.
LEMMA AlsaConstants == AP!HandleAssumption
<1>1. IsFiniteSet(Processor) => AP!IsFiniteSet(Processor \cup {})
  <2>1. Processor \cup {} = Processor
    OBVIOUS
  <2>2. QED
    BY Zenon, <2>1 DEF IsFiniteSet, AP!IsFiniteSet
<1>2. QED
  BY <1>1 DEF AP!HandleAssumption, AP!Handle

LEMMA SameCardinality == \A S : Alsa!Cardinality(S) = AP!Cardinality(S)
  BY Zenon DEF Alsa!Cardinality, AP!Cardinality, Alsa!IsFiniteSet, AP!IsFiniteSet

LEMMA SameAlsaUser ==
    /\ Alsa!UserStep => AP!UserStep
    /\ Alsa!FinishClose => AP!FinishClose
<1> USE DEF Alsa!portVars, AP!portVars, Alsa!callbackVars, AP!callbackVars, Alsa!inputVars,
            AP!inputVars, Alsa!userVars, AP!userVars, Alsa!vars, AP!vars, Alsa!NoMessage,
            AP!NoMessage, Alsa!Handle, AP!Handle
<1>0. \A i : Alsa!At(i) = AP!At(i)
  BY DEF Alsa!At, AP!At
<1>1. \A S : Alsa!Disable(S) => AP!Disable(S)
  BY SameCardinality DEF Alsa!Disable, AP!Disable
<1>2. \A h : Alsa!Open(h) => AP!Open(h)
  <2>1. \A n, h : Alsa!Placed(n, h) = AP!Placed(n, h)
    BY DEF Alsa!Placed, AP!Placed
  <2>2. \A n : Alsa!LowestFree(n) => AP!LowestFree(n)
    BY DEF Alsa!LowestFree, AP!LowestFree
  <2>3. \A h : Alsa!Fresh(h) => AP!Fresh(h)
    BY DEF Alsa!Fresh, AP!Fresh
  <2>4. QED
    BY <1>0, <1>1, <2>1, <2>2, <2>3, SameCardinality DEF Alsa!Open, AP!Open
<1>3. \A h : Alsa!Start(h) => AP!Start(h)
  BY DEF Alsa!Start, AP!Start
<1>4. \A h : (Alsa!Stop(h) => AP!Stop(h)) /\ (Alsa!Close(h) => AP!Close(h))
  BY <1>1 DEF Alsa!Stop, AP!Stop, Alsa!Close, AP!Close
<1>5. \A h : Alsa!UseDeadPort(h) => AP!UseDeadPort(h)
  BY DEF Alsa!UseDeadPort, AP!UseDeadPort
<1>6. Alsa!Remove => AP!Remove
  BY <1>0, <1>1 DEF Alsa!Remove, AP!Remove, Alsa!Removed, AP!Removed, Alsa!Released,
     AP!Released
<1>7. (Alsa!Destroy => AP!Destroy) /\ (Alsa!Joined => AP!Joined)
  BY DEF Alsa!Destroy, AP!Destroy, Alsa!Joined, AP!Joined, Alsa!ThreadEnded,
     AP!ThreadEnded
<1>8. QED
  BY <1>2, <1>3, <1>4, <1>5, <1>6, <1>7
     DEF Alsa!UserStep, AP!UserStep, Alsa!FinishClose, AP!FinishClose

LEMMA SameAlsaInput == Alsa!InputStep => AP!InputStep
<1> USE DEF Alsa!portVars, AP!portVars, Alsa!callbackVars, AP!callbackVars, Alsa!inputVars,
            AP!inputVars, Alsa!userVars, AP!userVars, Alsa!vars, AP!vars, Alsa!NoMessage,
            AP!NoMessage, Alsa!Handle, AP!Handle
<1>1. Alsa!Begin => AP!Begin
  BY DEF Alsa!Begin, AP!Begin, Alsa!AskSequencer, AP!AskSequencer
<1>2. (Alsa!TestExit => AP!TestExit) /\ (Alsa!PollTimesOut => AP!PollTimesOut)
      /\ (Alsa!PollReturns => AP!PollReturns)
  BY DEF Alsa!TestExit, AP!TestExit, Alsa!PollTimesOut, AP!PollTimesOut,
     Alsa!PollReturns, AP!PollReturns
<1>3. Alsa!Read => AP!Read
  BY DEF Alsa!Read, AP!Read, Alsa!AskSequencer, AP!AskSequencer
<1>4. /\ Alsa!CheckSize => AP!CheckSize
      /\ Alsa!CheckEnabled => AP!CheckEnabled
      /\ Alsa!Call => AP!Call
  BY DEF Alsa!CheckSize, AP!CheckSize, Alsa!CheckEnabled, AP!CheckEnabled, Alsa!Call, AP!Call,
     Alsa!AskPort, AP!AskPort
<1>5. (Alsa!CallbackReturns => AP!CallbackReturns) /\ (Alsa!CallbackThrows => AP!CallbackThrows)
  BY DEF Alsa!CallbackReturns, AP!CallbackReturns, Alsa!CallbackThrows,
     AP!CallbackThrows
<1>6. Alsa!Pending => AP!Pending
  BY DEF Alsa!Pending, AP!Pending, Alsa!AskSequencer, AP!AskSequencer
<1>7. Alsa!Leave => AP!Leave
  BY DEF Alsa!Leave, AP!Leave
<1>8. QED
  BY <1>1, <1>2, <1>3, <1>4, <1>5, <1>6, <1>7 DEF Alsa!InputStep, AP!InputStep

LEMMA SameAlsa ==
    /\ Alsa!Init => AP!Init
    /\ Alsa!Next => AP!Next
<1> USE DEF Alsa!portVars, AP!portVars, Alsa!callbackVars, AP!callbackVars, Alsa!inputVars,
            AP!inputVars, Alsa!userVars, AP!userVars, Alsa!vars, AP!vars, Alsa!NoMessage,
            AP!NoMessage, Alsa!Handle, AP!Handle
<1>1. Alsa!Init => AP!Init
  BY DEF Alsa!Init, AP!Init
<1>2. \A h : Alsa!Arrive(h) => AP!Arrive(h)
  BY DEF Alsa!Arrive, AP!Arrive
<1>3. QED
  BY <1>1, <1>2, SameAlsaUser, SameAlsaInput
     DEF Alsa!Next, AP!Next, Alsa!Defined, AP!Defined

----------------------------------------------------------------------------
(* The processors main has, builds and destroys. *)

\* What main destroys is the next to die, while it clears its processors or ends.
ProcsInv ==
    /\ procs \in Seq(Processor)
    /\ {virtual, building, dying} \subseteq Processor \cup {NoProcessor}
    /\ toOpen \in Seq(Name)
    /\ main \in {"start", "assign", "setTemplate", "setRaw"} => building \in Processor
    /\ dying # NoProcessor => main \in {"clear", "leave"} /\ dying = NextToDie

LEMMA NewIsAProcessor ==
    ASSUME CanBuild PROVE NewProcessor \in Processor /\ Alsa!Fresh(NewProcessor)
  BY DEF CanBuild, NewProcessor

LEMMA NextToDieIsAProcessor ==
    ASSUME ProcsInv, NextToDie # NoProcessor PROVE NextToDie \in Processor
  BY DEF ProcsInv, NextToDie

LEMMA ProcsInvStep ==
    ASSUME ProcsInv, devices \in Seq(Name), [Next]_vars
    PROVE  ProcsInv'
<1> USE DEF ProcsInv
<1>1. CASE OpenVirtual
  <2>1. dying = NoProcessor /\ NewProcessor \in Processor
    BY <1>1, NewIsAProcessor DEF OpenVirtual
  <2>2. QED
    BY <1>1, <2>1 DEF OpenVirtual, hotplugVars
<1>2. CASE OpenNext
  <2>1. dying = NoProcessor /\ NewProcessor \in Processor
    BY <1>2, NewIsAProcessor DEF OpenNext
  <2>2. procs' \in Seq(Processor)
    BY <1>2, <2>1 DEF OpenNext
  <2>3. toOpen' \in Seq(Name)
    <3>1. CASE toOpen = << >>
      <4>1. toOpen' = toOpen
        BY <1>2, <3>1 DEF OpenNext
      <4>2. QED
        BY <4>1
    <3>2. CASE toOpen # << >>
      BY <1>2, <3>2 DEF OpenNext
    <3>3. QED
      BY <3>1, <3>2
  <2>4. QED
    BY <1>2, <2>1, <2>2, <2>3 DEF OpenNext
<1>3. CASE ReadNames
  <2>1. toOpen' \in Seq(Name)
    BY <1>3 DEF ReadNames
  <2>2. QED
    BY <1>3, <2>1 DEF ReadNames, procVars
<1>4. CASE LookUpNext \/ LookUpFails \/ OpenCrashes
  BY <1>4 DEF LookUpNext, LookUpFails, OpenCrashes, procVars, hotplugVars
<1>5. CASE StartInput \/ AssignInput \/ SetOscTemplate \/ SetOscRawMidiMessage
  BY <1>5 DEF StartInput, AssignInput, SetOscTemplate, SetOscRawMidiMessage, procVars, hotplugVars
<1>6. CASE Prepared \/ Snapshot \/ LoopTest \/ Poll \/ SendHeartbeat \/ HeartbeatThrows
  BY <1>6 DEF Prepared, Snapshot, LoopTest, Poll, SendHeartbeat, HeartbeatThrows, procVars,
     hotplugVars
<1>7. CASE StopProcessor
  <2>1. NextToDie \in Processor
    BY <1>7, NextToDieIsAProcessor DEF StopProcessor
  <2>2. NextToDie' = NextToDie
    BY <1>7 DEF StopProcessor, NextToDie
  <2>3. QED
    BY <1>7, <2>1, <2>2 DEF StopProcessor, hotplugVars
<1>8. CASE DeleteProcessor
  <2>1. /\ dying' = NoProcessor /\ building' = building /\ main' = main /\ toOpen' = toOpen
        /\ main \in {"clear", "leave"}
    BY <1>8 DEF DeleteProcessor, hotplugVars
  <2>2. procs' \in Seq(Processor) /\ virtual' \in Processor \cup {NoProcessor}
    <3>1. CASE dying = virtual
      BY <1>8, <3>1 DEF DeleteProcessor
    <3>2. CASE dying # virtual
      <4>1. procs # << >>
        BY <1>8, <3>2 DEF DeleteProcessor, NextToDie
      <4>2. procs' = Tail(procs) /\ virtual' = virtual
        BY <1>8, <3>2 DEF DeleteProcessor
      <4>3. QED
        BY <4>1, <4>2
    <3>3. QED
      BY <3>1, <3>2
  <2>3. QED
    BY <2>1, <2>2
<1>9. CASE FinishDelete
  BY <1>9 DEF FinishDelete, procVars, hotplugVars, NextToDie
<1>10. CASE Cleared
  BY <1>10 DEF Cleared, procVars, hotplugVars
<1>11. CASE InputStep
  <2>1. UNCHANGED <<procVars, main, hotplugVars>>
    BY <1>11 DEF InputStep, ReadMidi, CallHandler, UseDeadProcessor, ReadLength, MakeAddress,
       MakeBody, BodyThrows, SendMessage
  <2>2. QED
    BY <2>1 DEF procVars, hotplugVars, NextToDie
<1>12. CASE EnvStep \/ UNCHANGED vars
  <2>1. UNCHANGED <<procVars, main, hotplugVars>>
    BY <1>12 DEF EnvStep, DevicesChange, MidiArrives, CtrlC, vars
  <2>2. QED
    BY <2>1 DEF procVars, hotplugVars, NextToDie
<1>13. QED
  BY <1>1, <1>2, <1>3, <1>4, <1>5, <1>6, <1>7, <1>8, <1>9, <1>10, <1>11, <1>12
     DEF Next, MainStep, Ended

----------------------------------------------------------------------------
(* The tables of names, and the inputs as ports. *)

\* Every step of m2o is a step of MidiPorts or leaves the tables alone.
LEMMA PortsStep ==
    ASSUME ProcsInv, [Next]_vars
    PROVE  [Ports!Next]_portsVars
<1>1. CASE OpenVirtual
  BY <1>1 DEF OpenVirtual, Ports!Next
<1>2. CASE LookUpNext \/ LookUpFails
  <2>1. Head(toOpen) \in Name
    BY <1>2 DEF LookUpNext, LookUpFails, ProcsInv
  <2>2. QED
    BY <1>2, <2>1 DEF LookUpNext, LookUpFails, Ports!Next
<1>3. CASE OpenNext \/ OpenCrashes
  BY <1>3 DEF OpenNext, OpenCrashes, Ports!Next
<1>4. CASE DeleteProcessor
  BY <1>4 DEF DeleteProcessor, Ports!Next
<1>5. CASE DevicesChange
  BY <1>5 DEF DevicesChange, Ports!Next
<1>6. CASE ReadNames \/ StartInput \/ AssignInput \/ SetOscTemplate \/ SetOscRawMidiMessage
           \/ Prepared \/ Snapshot \/ LoopTest \/ Poll \/ StopProcessor \/ FinishDelete
           \/ Cleared \/ SendHeartbeat \/ HeartbeatThrows
  BY <1>6 DEF ReadNames, StartInput, AssignInput, SetOscTemplate, SetOscRawMidiMessage, Prepared,
     Snapshot, LoopTest, Poll, StopProcessor, FinishDelete, Cleared, SendHeartbeat,
     HeartbeatThrows
<1>7. CASE InputStep
  BY <1>7 DEF InputStep, ReadMidi, CallHandler, UseDeadProcessor, ReadLength, MakeAddress,
     MakeBody, BodyThrows, SendMessage
<1>8. CASE MidiArrives \/ CtrlC \/ UNCHANGED vars
  BY <1>8 DEF MidiArrives, CtrlC, vars
<1>9. QED
  BY <1>1, <1>2, <1>3, <1>4, <1>5, <1>6, <1>7, <1>8 DEF Next, MainStep, EnvStep, Ended

LEMMA PortsKept == PP!IInv /\ ProcsInv /\ [Next]_vars => PP!IInv' /\ ProcsInv'
<1> SUFFICES ASSUME PP!IInv, ProcsInv, [Next]_vars PROVE PP!IInv' /\ ProcsInv'
  OBVIOUS
<1>1. [PP!Next]_(PP!portVars)
  BY PortsStep, SamePorts DEF PP!portVars, portsVars, tableVars
<1>2. PP!IInv'
  BY <1>1, PP!NextIInv
<1>3. devices \in Seq(Name)
  BY PP!ListFacts DEF PP!IInv, PP!TypeOK
<1>4. QED
  BY <1>2, <1>3, ProcsInvStep

LEMMA PortsInvariance == Spec => [](PP!IInv /\ ProcsInv)
<1>1. Init => PP!IInv /\ ProcsInv
  <2>1. Init => PP!IInv
    BY SamePorts, PP!InitIInv DEF Init
  <2>2. Init => ProcsInv
    BY DEF Init, ProcsInv
  <2>3. QED
    BY <2>1, <2>2
<1>2. QED
  BY <1>1, PortsKept, PTL DEF Spec

\* Every behaviour of m2o is, for the inputs and the tables of names, one of
\* MidiPorts: construction in two looks, a virtual input, destruction one by one.
THEOREM InputsAreUsedAsSpecified == Spec => Ports!Init /\ [][Ports!Next]_portsVars
<1>1. Init => Ports!Init
  BY DEF Init
<1>2. ProcsInv /\ [Next]_vars => [Ports!Next]_portsVars
  BY PortsStep
<1>3. QED
  BY PortsInvariance, <1>1, <1>2, PTL DEF Spec

\* In m2o, too, the sticky id in an address or a heartbeat names one port name for
\* good, the name of the virtual input included.
THEOREM StickyIdsInM2o == Spec => []Ports!StickyIdsIdentifyNames
<1>1. PP!IInv => Ports!StickyIdsIdentifyNames
  BY DEF PP!IInv, PP!StickyIdsIdentifyNames, Ports!StickyIdsIdentifyNames,
         PP!IsInjective, Ports!IsInjective, PP!Range, Ports!Range
<1>2. QED
  BY PortsInvariance, <1>1, PTL

----------------------------------------------------------------------------
(* JUCE's client. *)

\* Every step of m2o is a step of AlsaClient or leaves the client alone.
LEMMA AlsaStep ==
    ASSUME ProcsInv, [Next]_vars
    PROVE  [Alsa!Next]_alsaVars
<1> USE DEF Alsa!Next, Alsa!Defined, Alsa!Handle
<1>1. CASE Up /\ (OpenVirtual \/ OpenNext)
  <2>1. Alsa!Open(NewProcessor) /\ NewProcessor \in Processor
    BY <1>1, NewIsAProcessor DEF OpenVirtual, OpenNext
  <2>2. QED
    BY <1>1, <2>1 DEF Up, Alsa!UserStep
<1>2. CASE Up /\ StartInput
  BY <1>2 DEF Up, StartInput, ProcsInv, Alsa!UserStep
<1>3. CASE Up /\ StopProcessor
  <2>1. NextToDie \in Processor
    BY <1>3, NextToDieIsAProcessor DEF StopProcessor
  <2>2. QED
    BY <1>3, <2>1 DEF Up, StopProcessor, Alsa!UserStep
<1>4. CASE Up /\ DeleteProcessor
  BY <1>4 DEF Up, DeleteProcessor, ProcsInv, Alsa!UserStep
<1>5. CASE Up /\ FinishDelete
  BY <1>5 DEF Up, FinishDelete
<1>6. CASE Up /\ (ReadMidi \/ CallHandler \/ BodyThrows \/ SendMessage)
  BY <1>6 DEF Up, ReadMidi, CallHandler, BodyThrows, SendMessage, Alsa!InputStep
<1>7. CASE Up /\ MidiArrives
  BY <1>7 DEF Up, MidiArrives
<1>8. CASE ReadNames \/ LookUpNext \/ LookUpFails \/ OpenCrashes \/ AssignInput \/ SetOscTemplate
           \/ SetOscRawMidiMessage \/ Prepared \/ Snapshot \/ LoopTest \/ Poll \/ Cleared
           \/ SendHeartbeat \/ HeartbeatThrows
  BY <1>8 DEF ReadNames, LookUpNext, LookUpFails, OpenCrashes, AssignInput, SetOscTemplate,
     SetOscRawMidiMessage, Prepared, Snapshot, LoopTest, Poll, Cleared, SendHeartbeat,
     HeartbeatThrows
<1>9. CASE UseDeadProcessor \/ ReadLength \/ MakeAddress \/ MakeBody \/ DevicesChange \/ CtrlC
           \/ UNCHANGED vars
  BY <1>9 DEF UseDeadProcessor, ReadLength, MakeAddress, MakeBody, DevicesChange, CtrlC, vars
<1>10. QED
  BY <1>1, <1>2, <1>3, <1>4, <1>5, <1>6, <1>7, <1>8, <1>9
     DEF Next, MainStep, InputStep, EnvStep, Ended

LEMMA AlsaKept == AP!IInv /\ ProcsInv /\ [Next]_vars => AP!IInv'
<1> SUFFICES ASSUME AP!IInv, ProcsInv, [Next]_vars PROVE AP!IInv'
  OBVIOUS
<1>1. [AP!Next]_(AP!vars)
  BY AlsaStep, SameAlsa DEF alsaVars, AP!vars, AP!portVars, AP!callbackVars, AP!inputVars,
     AP!userVars
<1>2. QED
  BY <1>1, AlsaConstants, AP!NextKeepsIInv

LEMMA AlsaInvariance == Spec => []AP!IInv
<1>1. Init => AP!IInv
  BY SameAlsa, AlsaConstants, AP!InitIInv DEF Init
<1>2. QED
  BY <1>1, AlsaKept, PortsInvariance, PTL DEF Spec

\* Every behaviour of m2o is one of AlsaClient for the inputs and their thread: main
\* and the handler use them in no order that AlsaClient does not allow.
THEOREM ClientIsUsedAsSpecified == Spec => Alsa!Init /\ [][Alsa!Next]_alsaVars
<1>1. Init => Alsa!Init
  BY DEF Init
<1>2. ProcsInv /\ [Next]_vars => [Alsa!Next]_alsaVars
  BY AlsaStep
<1>3. QED
  BY PortsInvariance, <1>1, <1>2, PTL DEF Spec

\* So in m2o the callbacks are counted through every rebuild, although inputs are
\* closed in the order they were opened in and Ports are lost.
THEOREM CallbacksInM2o == Spec => []Alsa!CallbacksAreCounted
<1>1. AP!IInv => Alsa!CallbacksAreCounted
  BY SameCardinality DEF AP!IInv, AP!CallbackInv, Alsa!CallbacksAreCounted
<1>2. QED
  BY AlsaInvariance, <1>1, PTL

\* A thread of a client that is gone is never seen, and the last device takes the
\* client with it: at a rebuild main starts its new inputs on a new client.
THEOREM ClientOfM2o == Spec => []Alsa!ClientGoesWithLastDevice
<1>1. AP!IInv => Alsa!ClientGoesWithLastDevice
  BY AlsaConstants, AP!IInvClient, SameCardinality
     DEF AP!ClientGoesWithLastDevice, Alsa!ClientGoesWithLastDevice
<1>2. QED
  BY AlsaInvariance, <1>1, PTL

----------------------------------------------------------------------------
(* The set-up of the processors. *)

\* A processor is main's once, its device is open, and the one whose device is
\* being deleted is no longer main's.
OwnersInv ==
    /\ \A j, k \in DOMAIN procs : procs[j] = procs[k] => j = k
    /\ \A k \in DOMAIN procs : procs[k] # virtual /\ procs[k] \in open
    /\ virtual # NoProcessor => virtual \in open
    /\ user = "remove" => closing # virtual /\ \A k \in DOMAIN procs : procs[k] # closing

\* The flags are set only if they were asked for, and are set once a processor is ready.
SetUpInv ==
    /\ templated # {} => UseTemplate
    /\ rawSet # {} => Raw
    /\ \A p \in ready : (UseTemplate => p \in templated) /\ (Raw => p \in rawSet)
    /\ main = "setRaw" /\ UseTemplate => building \in templated

\* What the handler has read is what the options say, and as long as its processor
\* lives it will read the same.
HandlerInv ==
    /\ message \in Message
    /\ handler # "out" => input = "callback" /\ called \in Processor
    /\ (handler \in {"address", "body", "send"} /\ message.ready) => message.rawLength = Raw
    /\ (handler \in {"body", "send"} /\ message.ready) => message.template = UseTemplate
    /\ (handler = "send" /\ message.ready) => message.rawBody = Raw
    /\ (handler \in {"address", "body"} /\ message.ready /\ Intact(called)) => called \in ready

LEMMA OwnersInvStep ==
    ASSUME OwnersInv, ProcsInv, AP!IInv, [Next]_vars
    PROVE  OwnersInv'
<1> USE DEF OwnersInv, ProcsInv
<1>1. CASE OpenVirtual \/ OpenNext
  <2> DEFINE p == NewProcessor
  <2>1. /\ p \in Processor /\ p \notin open /\ open' = open \cup {p}
        /\ user = "idle" /\ user' = "idle"
    BY <1>1, NewIsAProcessor
       DEF OpenVirtual, OpenNext, Alsa!Open, Alsa!Fresh, Alsa!userVars
  <2> HIDE DEF p
  <2>2. CASE OpenVirtual
    <3>1. virtual' = p /\ procs' = procs
      BY <2>2 DEF OpenVirtual, p
    <3>2. QED
      BY <2>1, <3>1
  <2>3. CASE OpenNext
    <3>1. virtual' = virtual /\ procs' = Append(procs, p)
      BY <2>3 DEF OpenNext, p
    <3>2. \A k \in DOMAIN procs' :
             \/ k \in DOMAIN procs /\ procs'[k] = procs[k]
             \/ k = Len(procs) + 1 /\ procs'[k] = p
      BY <3>1
    <3>3. \A k \in DOMAIN procs : procs[k] # p
      BY <2>1
    <3>4. virtual # p
      BY <2>1
    <3>5. QED
      BY <2>1, <3>1, <3>2, <3>3, <3>4
  <2>4. QED
    BY <1>1, <2>2, <2>3
<1>2. CASE StopProcessor
  <2>1. user' = "idle" /\ UNCHANGED <<procs, virtual, open>>
    BY <1>2 DEF StopProcessor, Alsa!Stop, Alsa!UseDeadPort, Alsa!portVars, Alsa!userVars
  <2>2. QED
    BY <2>1
<1>3. CASE DeleteProcessor
  <2>1. /\ open' = open /\ dying \in Processor /\ dying = NextToDie
        /\ user' = "remove" => closing' = dying
    BY <1>3 DEF DeleteProcessor, Alsa!Close, Alsa!UseDeadPort, Alsa!portVars, Alsa!userVars
  <2>2. CASE dying = virtual
    <3>1. virtual' = NoProcessor /\ procs' = procs
      BY <1>3, <2>2 DEF DeleteProcessor
    <3>2. \A k \in DOMAIN procs : procs[k] \in Processor
      OBVIOUS
    <3>3. QED
      BY <2>1, <2>2, <3>1, <3>2
  <2>3. CASE dying # virtual
    <3>1. virtual' = virtual /\ procs' = Tail(procs)
      BY <1>3, <2>3 DEF DeleteProcessor
    <3>2. procs # << >> /\ dying = procs[1]
      BY <2>1, <2>3 DEF NextToDie
    <3>3. \A k \in DOMAIN procs' :
             k + 1 \in DOMAIN procs /\ procs'[k] = procs[k + 1] /\ k \in Nat \ {0}
      BY <3>1, <3>2
    <3>4. \A k \in DOMAIN procs' : procs'[k] # dying
      BY <3>2, <3>3
    <3>5. QED
      BY <2>1, <2>3, <3>1, <3>3, <3>4
  <2>4. QED
    BY <2>2, <2>3
<1>4. CASE FinishDelete
  <2>1. UNCHANGED <<procs, virtual>>
    BY <1>4 DEF FinishDelete, procVars
  <2>2. CASE Alsa!Remove
    <3>1. user = "remove" /\ user' # "remove" /\ open' = open \ {closing}
      BY <2>2 DEF Alsa!Remove
    <3>2. QED
      BY <2>1, <3>1
  <2>3. CASE Alsa!Destroy \/ Alsa!Joined
    <3>1. open' = open /\ user' # "remove"
      BY <2>3 DEF Alsa!Destroy, Alsa!Joined
    <3>2. QED
      BY <2>1, <3>1
  <2>4. QED
    BY <1>4, <2>2, <2>3 DEF FinishDelete, Alsa!FinishClose
<1>5. CASE ReadMidi \/ CallHandler \/ BodyThrows \/ SendMessage \/ MidiArrives \/ StartInput
  <2>1. UNCHANGED <<procs, virtual, open, user, closing>>
    BY <1>5 DEF ReadMidi, CallHandler, BodyThrows, SendMessage, MidiArrives, StartInput, procVars,
       Alsa!Begin, Alsa!TestExit, Alsa!PollTimesOut, Alsa!PollReturns, Alsa!Read, Alsa!CheckSize,
       Alsa!CheckEnabled, Alsa!AskPort,
       Alsa!Pending, Alsa!Leave, Alsa!Call, Alsa!CallbackThrows, Alsa!CallbackReturns,
       Alsa!Arrive, Alsa!Start, Alsa!portVars, Alsa!userVars
  <2>2. QED
    BY <2>1
<1>6. CASE ReadNames \/ LookUpNext \/ LookUpFails \/ OpenCrashes \/ AssignInput \/ SetOscTemplate
           \/ SetOscRawMidiMessage \/ Prepared \/ Snapshot \/ LoopTest \/ Poll \/ Cleared
           \/ SendHeartbeat \/ HeartbeatThrows
  <2>1. UNCHANGED <<alsaVars, procs, virtual>>
    BY <1>6 DEF ReadNames, LookUpNext, LookUpFails, OpenCrashes, AssignInput, SetOscTemplate,
       SetOscRawMidiMessage, Prepared, Snapshot, LoopTest, Poll, Cleared, SendHeartbeat,
       HeartbeatThrows, procVars
  <2>2. QED
    BY <2>1 DEF alsaVars
<1>7. CASE UseDeadProcessor \/ ReadLength \/ MakeAddress \/ MakeBody \/ DevicesChange \/ CtrlC
           \/ UNCHANGED vars
  <2>1. UNCHANGED <<alsaVars, procs, virtual>>
    BY <1>7 DEF UseDeadProcessor, ReadLength, MakeAddress, MakeBody, DevicesChange, CtrlC, vars,
       procVars
  <2>2. QED
    BY <2>1 DEF alsaVars
<1>8. QED
  BY <1>1, <1>2, <1>3, <1>4, <1>5, <1>6, <1>7 DEF Next, MainStep, InputStep, EnvStep, Ended

LEMMA SetUpInvStep ==
    ASSUME SetUpInv, ProcsInv, [Next]_vars
    PROVE  SetUpInv'
<1> USE DEF SetUpInv
<1>1. CASE SetOscTemplate
  BY <1>1 DEF SetOscTemplate, procVars
<1>2. CASE SetOscRawMidiMessage
  BY <1>2 DEF SetOscRawMidiMessage
<1>3. CASE DeleteProcessor
  BY <1>3 DEF DeleteProcessor, ProcsInv
<1>4. CASE AssignInput
  BY <1>4 DEF AssignInput
<1>5. CASE \/ OpenVirtual \/ OpenNext \/ StartInput \/ ReadNames \/ Prepared \/ Snapshot
           \/ LoopTest \/ Poll \/ Cleared \/ SendHeartbeat
  BY <1>5 DEF OpenVirtual, OpenNext, StartInput, ReadNames, Prepared, Snapshot, LoopTest, Poll,
     Cleared, SendHeartbeat, setUpVars
<1>6. CASE LookUpNext \/ LookUpFails \/ OpenCrashes \/ StopProcessor \/ FinishDelete
           \/ HeartbeatThrows
  BY <1>6 DEF LookUpNext, LookUpFails, OpenCrashes, StopProcessor, FinishDelete, HeartbeatThrows,
     setUpVars, procVars
<1>7. CASE InputStep
  <2>1. UNCHANGED <<setUpVars, procVars, main>>
    BY <1>7 DEF InputStep, ReadMidi, CallHandler, UseDeadProcessor, ReadLength, MakeAddress,
       MakeBody, BodyThrows, SendMessage
  <2>2. QED
    BY <2>1 DEF setUpVars, procVars
<1>8. CASE EnvStep \/ UNCHANGED vars
  BY <1>8 DEF EnvStep, DevicesChange, MidiArrives, CtrlC, vars, setUpVars, procVars
<1>9. QED
  BY <1>1, <1>2, <1>3, <1>4, <1>5, <1>6, <1>7, <1>8 DEF Next, MainStep, Ended

\* Whether a ready processor's flags are set is what the options say.
LEMMA ReadyFlags ==
    ASSUME SetUpInv, NEW p \in ready
    PROVE  (p \in rawSet) = Raw /\ (p \in templated) = UseTemplate
<1>1. Raw \in BOOLEAN /\ UseTemplate \in BOOLEAN
  OBVIOUS
<1>2. (p \in rawSet <=> Raw) /\ (p \in templated <=> UseTemplate)
  BY DEF SetUpInv
<1>3. (p \in rawSet) = Raw
  BY <1>1, <1>2
<1>4. (p \in templated) = UseTemplate
  BY <1>1, <1>2
<1>5. QED
  BY <1>3, <1>4

\* The handler stays where it is, and its processor is no newer than it was.
LEMMA HandlerWaits ==
    ASSUME HandlerInv,
           UNCHANGED <<handler, message, called>>,
           handler # "out" => input' = input,
           (handler # "out" /\ Intact(called)' /\ (Intact(called) => called \in ready))
               => called \in ready'
    PROVE  HandlerInv'
  BY DEF HandlerInv

\* Main's steps that change which processors there are.
LEMMA BuildingKeepsHandlerInv ==
    ASSUME HandlerInv, OpenVirtual \/ OpenNext
    PROVE  HandlerInv'
<1> DEFINE p == NewProcessor
<1>1. /\ p # called /\ UNCHANGED <<handler, message, called, input, ready, dying>>
  BY NewIsAProcessor
     DEF OpenVirtual, OpenNext, Alsa!Open, Alsa!Fresh, Alsa!inputVars, handlerVars, setUpVars
<1>2. ASSUME Intact(called)' PROVE Intact(called)
  <2>1. called # dying /\ called \in {virtual'} \cup Range(procs')
    BY <1>1, <1>2 DEF Intact
  <2>2. CASE OpenVirtual
    <3>1. virtual' = p /\ procs' = procs
      BY <2>2 DEF OpenVirtual
    <3>2. QED
      BY <1>1, <2>1, <3>1 DEF Intact
  <2>3. CASE OpenNext
    <3>1. virtual' = virtual /\ procs' = Append(procs, p)
      BY <2>3 DEF OpenNext
    <3>2. \A x \in Range(procs') : x \in Range(procs) \/ x = p
      <4> HIDE DEF p
      <4>1. QED
        BY <3>1 DEF Range
    <3>3. QED
      BY <1>1, <2>1, <3>1, <3>2 DEF Intact
  <2>4. QED
    BY <2>2, <2>3
<1>3. QED
  BY <1>1, <1>2, HandlerWaits

LEMMA StoppingKeepsHandlerInv ==
    ASSUME HandlerInv, ProcsInv, StopProcessor
    PROVE  HandlerInv'
<1>1. UNCHANGED <<handler, message, called, input, ready, virtual, procs>> /\ dying = NoProcessor
  BY DEF StopProcessor, Alsa!Stop, Alsa!UseDeadPort, Alsa!inputVars, handlerVars, setUpVars
<1>2. ASSUME handler # "out", Intact(called)' PROVE Intact(called)
  BY <1>1, <1>2 DEF Intact, HandlerInv
<1>3. QED
  BY <1>1, <1>2, HandlerWaits

LEMMA DeletingKeepsHandlerInv ==
    ASSUME HandlerInv, ProcsInv, OwnersInv, DeleteProcessor
    PROVE  HandlerInv'
<1>1. /\ UNCHANGED <<handler, message, called, input>>
      /\ ready' = ready \ {dying} /\ dying' = NoProcessor
      /\ dying \in Processor /\ dying = NextToDie
  BY DEF DeleteProcessor, Alsa!Close, Alsa!UseDeadPort, Alsa!inputVars, handlerVars, ProcsInv
<1>2. dying \notin {virtual'} \cup Range(procs')
      /\ {virtual'} \cup Range(procs') \subseteq {virtual, NoProcessor} \cup Range(procs)
  <2>1. CASE dying = virtual
    <3>1. virtual' = NoProcessor /\ procs' = procs
      BY <2>1 DEF DeleteProcessor
    <3>2. QED
      BY <1>1, <2>1, <3>1 DEF OwnersInv, Range
  <2>2. CASE dying # virtual
    <3>1. virtual' = virtual /\ procs' = Tail(procs)
      BY <2>2 DEF DeleteProcessor
    <3>2. procs # << >> /\ dying = procs[1] /\ procs \in Seq(Processor)
      BY <1>1, <2>2 DEF NextToDie, ProcsInv
    <3>3. \A k \in DOMAIN procs' :
             k + 1 \in DOMAIN procs /\ k + 1 # 1 /\ procs'[k] = procs[k + 1]
      BY <3>1, <3>2
    <3>4. 1 \in DOMAIN procs
      BY <3>2
    <3>5. \A k \in DOMAIN procs' : procs'[k] # dying /\ procs'[k] \in Range(procs)
      BY <3>2, <3>3, <3>4 DEF OwnersInv, Range
    <3>6. QED
      BY <2>2, <3>1, <3>5 DEF Range
  <2>3. QED
    BY <2>1, <2>2
<1>3. ASSUME handler # "out", Intact(called)' PROVE called # dying /\ Intact(called)
  <2>1. called \in Processor /\ called \in {virtual'} \cup Range(procs')
    BY <1>1, <1>3 DEF HandlerInv, Intact
  <2>2. QED
    BY <1>2, <2>1 DEF Intact
<1>4. QED
  BY <1>1, <1>3, HandlerWaits

LEMMA HandlerInvStep ==
    ASSUME HandlerInv, ProcsInv, OwnersInv, SetUpInv, AP!IInv, [Next]_vars
    PROVE  HandlerInv'
<1>1. CASE OpenVirtual \/ OpenNext \/ StopProcessor \/ DeleteProcessor
  BY <1>1, BuildingKeepsHandlerInv, StoppingKeepsHandlerInv, DeletingKeepsHandlerInv
<1>2. CASE StartInput
  <2>1. UNCHANGED <<handler, message, called, ready, virtual, procs, dying>>
    BY <1>2 DEF StartInput, Alsa!Start, handlerVars, setUpVars, procVars
  <2>2. input # "ended" => input' = input
    BY <1>2 DEF StartInput, Alsa!Start, AP!IInv, AP!ThreadInv
  <2>3. handler # "out" => input' = input
    BY <2>2 DEF HandlerInv
  <2>4. QED
    BY <2>1, <2>3, HandlerWaits DEF Intact
<1>3. CASE ReadMidi
  <2>1. UNCHANGED <<handler, message, called, ready, virtual, procs, dying>>
    BY <1>3 DEF ReadMidi, handlerVars, setUpVars, procVars, Alsa!Begin, Alsa!TestExit,
       Alsa!PollTimesOut, Alsa!PollReturns, Alsa!Read, Alsa!CheckSize, Alsa!CheckEnabled,
       Alsa!AskPort, Alsa!Pending, Alsa!Leave,
       Alsa!AskSequencer, Alsa!inputVars
  <2>2. input # "callback"
    BY <1>3 DEF ReadMidi, Alsa!Begin, Alsa!TestExit, Alsa!PollTimesOut, Alsa!PollReturns,
       Alsa!Read, Alsa!CheckSize, Alsa!CheckEnabled, Alsa!AskPort, Alsa!Pending, Alsa!Leave
  <2>3. handler = "out"
    BY <2>2 DEF HandlerInv
  <2>4. QED
    BY <2>1, <2>3, HandlerWaits
<1>4. CASE CallHandler
  <2>1. handler = "out" /\ UNCHANGED message /\ message \in Message
    BY <1>4 DEF CallHandler, Alsa!Call, HandlerInv
  <2>2. CASE undef' = "no"
    <3>1. event.dest < Len(ports) /\ called' = ports[event.dest + 1] /\ input' = "callback"
      BY <1>4, <2>2 DEF CallHandler, Alsa!Call, Alsa!AskPort
    <3>2. ports \in Seq(Processor) /\ event.dest \in Nat
      BY DEF AP!IInv, AP!TypeOK, AP!Handle, AP!Message, AP!NoMessage
    <3>3. called' \in Processor /\ handler' = "length"
      BY <1>4, <2>2, <3>1, <3>2 DEF CallHandler
    <3>4. QED
      BY <2>1, <3>1, <3>3 DEF HandlerInv
  <2>3. CASE undef' # "no"
    <3>1. handler' = "out"
      BY <1>4, <2>1, <2>3 DEF CallHandler
    <3>2. QED
      BY <2>1, <3>1 DEF HandlerInv
  <2>4. QED
    BY <2>2, <2>3
<1>5. CASE ReadLength
  <2>1. /\ handler = "length" /\ handler' = "address"
        /\ message' = [NoMessage EXCEPT !.rawLength = called \in rawSet, !.ready = called \in ready]
        /\ UNCHANGED <<input, called, ready>>
    BY <1>5 DEF ReadLength, alsaVars, setUpVars
  <2>2. message'.rawLength = (called \in rawSet) /\ message'.ready = (called \in ready)
    BY <2>1 DEF NoMessage
  <2>3. message'.ready => called \in ready /\ message'.rawLength = Raw
    BY <2>2, ReadyFlags
  <2>4. message' \in Message
    <3>1. (called \in rawSet) \in BOOLEAN /\ (called \in ready) \in BOOLEAN
      OBVIOUS
    <3>2. NoMessage \in Message
      BY Zenon DEF Message, NoMessage
    <3>3. QED
      BY <2>1, <3>1, <3>2 DEF Message
  <2>5. QED
    BY <2>1, <2>3, <2>4 DEF HandlerInv
<1>6. CASE MakeAddress
  <2>1. CASE called \in assigned
    <3>1. /\ handler = "address" /\ handler' = "body" /\ Intact(called)
          /\ message' = [message EXCEPT !.template = called \in templated]
          /\ UNCHANGED <<input, called, ready>>
      BY <1>6, <2>1 DEF MakeAddress, alsaVars, setUpVars
    <3>2. message \in Message
      BY DEF HandlerInv
    <3>3. /\ message'.template = (called \in templated)
          /\ message'.rawLength = message.rawLength /\ message'.ready = message.ready
      BY <3>1, <3>2 DEF Message
    <3>4. message' \in Message
      <4>1. (called \in templated) \in BOOLEAN
        OBVIOUS
      <4>2. QED
        BY <3>1, <3>2, <4>1 DEF Message
    <3>5. message.ready => called \in ready /\ message'.template = UseTemplate
      BY <3>1, <3>3, ReadyFlags DEF HandlerInv
    <3>6. Intact(called)' => Intact(called)
      BY <1>6 DEF MakeAddress, procVars, Intact
    <3>7. QED
      BY <3>1, <3>3, <3>4, <3>5, <3>6 DEF HandlerInv
  <2>2. CASE called \notin assigned
    BY <1>6, <2>2, HandlerWaits
       DEF MakeAddress, alsaVars, setUpVars, procVars, Intact
  <2>3. QED
    BY <2>1, <2>2
<1>7. CASE MakeBody
  <2>1. /\ handler = "body" /\ handler' = "send" /\ Intact(called)
        /\ message' = [message EXCEPT !.rawBody = called \in rawSet]
        /\ UNCHANGED <<input, called>>
    BY <1>7 DEF MakeBody, alsaVars
  <2>2. message \in Message
    BY DEF HandlerInv
  <2>3. /\ message'.rawBody = (called \in rawSet) /\ message'.rawLength = message.rawLength
        /\ message'.template = message.template /\ message'.ready = message.ready
    BY <2>1, <2>2 DEF Message
  <2>4. message' \in Message
    <3>1. (called \in rawSet) \in BOOLEAN
      OBVIOUS
    <3>2. QED
      BY <2>1, <2>2, <3>1 DEF Message
  <2>5. message.ready => message'.rawBody = Raw
    BY <2>1, <2>3, ReadyFlags DEF HandlerInv
  <2>6. QED
    BY <2>1, <2>3, <2>4, <2>5 DEF HandlerInv
<1>8. CASE BodyThrows \/ SendMessage
  <2>1. handler' = "out" /\ message' = NoMessage
    BY <1>8 DEF BodyThrows, SendMessage
  <2>2. message' \in Message
    BY Zenon, <2>1 DEF Message, NoMessage
  <2>3. QED
    BY <2>1, <2>2 DEF HandlerInv
<1>9. CASE SetOscRawMidiMessage
  BY <1>9, HandlerWaits DEF SetOscRawMidiMessage, alsaVars, handlerVars, Intact
<1>10. CASE \/ ReadNames \/ LookUpNext \/ LookUpFails \/ OpenCrashes \/ AssignInput
            \/ SetOscTemplate \/ Prepared \/ Snapshot \/ LoopTest \/ Poll \/ Cleared
            \/ SendHeartbeat \/ HeartbeatThrows
  <2>1. UNCHANGED <<handler, message, called, input, ready, virtual, procs, dying>>
    BY <1>10 DEF ReadNames, LookUpNext, LookUpFails, OpenCrashes, AssignInput, SetOscTemplate,
       Prepared, Snapshot, LoopTest, Poll, Cleared, SendHeartbeat, HeartbeatThrows, alsaVars,
       setUpVars, procVars, handlerVars
  <2>2. QED
    BY <2>1, HandlerWaits DEF Intact
<1>11. CASE FinishDelete \/ MidiArrives
  <2>1. UNCHANGED <<handler, message, called, input, ready, virtual, procs, dying>>
    BY <1>11 DEF FinishDelete, MidiArrives, setUpVars, procVars, handlerVars, Alsa!FinishClose,
       Alsa!Remove, Alsa!Destroy, Alsa!Joined, Alsa!Arrive, Alsa!inputVars
  <2>2. QED
    BY <2>1, HandlerWaits DEF Intact
<1>12. CASE UseDeadProcessor \/ DevicesChange \/ CtrlC \/ UNCHANGED vars
  <2>1. UNCHANGED <<handler, message, called, input, ready, virtual, procs, dying>>
    BY <1>12 DEF UseDeadProcessor, DevicesChange, CtrlC, vars, alsaVars, setUpVars, procVars,
       handlerVars
  <2>2. QED
    BY <2>1, HandlerWaits DEF Intact
<1>13. QED
  BY <1>1, <1>2, <1>3, <1>4, <1>5, <1>6, <1>7, <1>8, <1>9, <1>10, <1>11, <1>12
     DEF Next, MainStep, InputStep, EnvStep, Ended

LEMMA SetUpInvariance == Spec => [](OwnersInv /\ SetUpInv /\ HandlerInv)
<1> DEFINE Inv == OwnersInv /\ SetUpInv /\ HandlerInv
<1>1. Init => Inv
  <2> SUFFICES ASSUME Init PROVE Inv
    OBVIOUS
  <2>1. procs = << >> /\ virtual = NoProcessor /\ user = "idle"
    BY DEF Init, Alsa!Init
  <2>2. OwnersInv /\ SetUpInv
    BY <2>1 DEF Init, OwnersInv, SetUpInv
  <2>3. handler = "out" /\ message \in Message
    BY Zenon DEF Init, Message, NoMessage
  <2>4. QED
    BY <2>2, <2>3 DEF HandlerInv
<1>2. ProcsInv /\ AP!IInv /\ Inv /\ [Next]_vars => Inv'
  BY OwnersInvStep, SetUpInvStep, HandlerInvStep
<1>3. QED
  BY <1>1, <1>2, PortsInvariance, AlsaInvariance, PTL DEF Spec

\* midiinprocessor.cpp:64-212 reads the flags of its processor at three moments, on
\* the input thread, while main may be destroying processors or building others: a
\* processor that was set up when the message came keeps its flags to the end.
THEOREM SetUpIsAlwaysRespected == Spec => []SetUpIsRespected
<1>1. HandlerInv => SetUpIsRespected
  BY DEF HandlerInv, SetUpIsRespected
<1>2. QED
  BY <1>1, SetUpInvariance, PTL

----------------------------------------------------------------------------
(* The thread that reads the inputs. *)

\* What AlsaClient's invariant says of the client, here under M2o's names.
ClientFacts ==
    /\ ports \in Seq(Processor) /\ number \in [Processor -> Nat]
    /\ alive \subseteq Processor /\ open \subseteq Processor
    /\ \A k \in DOMAIN ports : ports[k] \in alive
    /\ \A j, k \in DOMAIN ports : ports[j] = ports[k] => j = k
    /\ enabled \subseteq alive \cap open
    /\ activeCallbacks = 0 <=> enabled = {}
    /\ open # {} => client = "live"
    /\ user \in {"destroy", "join"} => open = {}
    /\ user \in {"idle", "remove", "destroy", "join"}
    /\ client \in {"none", "live", "closed"} /\ (client = "closed" => user = "join")
    /\ refs = 0 <=> open = {}
    /\ user = "remove" => closing \in open
    /\ client = "none" => ~running
    /\ running <=> input # "ended"
    /\ tidy => alive = open /\ \A k \in DOMAIN ports : number[ports[k]] = k - 1

LEMMA ClientFactsHold == AP!IInv => ClientFacts
<1> SUFFICES ASSUME AP!IInv PROVE ClientFacts
  OBVIOUS
<1>1. (activeCallbacks = 0 <=> enabled = {}) /\ (refs = 0 <=> open = {})
  BY AlsaConstants, AP!NothingLeft
<1>2. enabled \in SUBSET Processor /\ open \in SUBSET Processor
  BY DEF AP!IInv, AP!TypeOK, AP!Handle
<1>3. QED
  BY <1>1, <1>2
     DEF ClientFacts, AP!IInv, AP!TypeOK, AP!Handle, AP!PortsInv, AP!CallbackInv, AP!ClientInv,
         AP!ThreadInv, AP!TidyInv

\* Main is neither closing its inputs nor ending.
Busy == main \notin {"clear", "leave"}

\* When all inputs are closed the client is gone, and the next one starts in order.
ClosingInv ==
    /\ user # "idle" => ~Busy
    /\ user = "remove" => closing \in alive
    /\ client = "none" => tidy
    /\ client = "live" /\ user # "destroy" => open # {}
    /\ \A h \in open : \/ h = virtual
                       \/ \E k \in DOMAIN procs : procs[k] = h
                       \/ user = "remove" /\ h = closing
    /\ main = "virtual" => virtual = NoProcessor /\ procs = << >>
    /\ Busy /\ virtual = NoProcessor => tidy

\* The virtual input has the first Port, which no other input's end removes, and it
\* stays started.
VirtualInv ==
    virtual # NoProcessor =>
        /\ ports # << >> /\ ports[1] = virtual
        /\ \A h \in alive : number[h] = 0 <=> h = virtual
        /\ virtual # dying /\ ~(main = "start" /\ building = virtual) => virtual \in enabled

\* Inputs are started either when no thread is left, or when there is one that has
\* not been told to end.
ServedInv ==
    /\ Busy /\ enabled = {} => ~running
    /\ enabled # {} /\ ~threw => running /\ ~shouldExit /\ input # "leave"

\* A new input's Port: no Port with an enabled callback is deleted for it unless
\* another stays.
LEMMA OpenServed ==
    ASSUME ProcsInv, OwnersInv, ClientFacts, ClientFacts', ClosingInv, VirtualInv, ServedInv,
           OpenVirtual \/ OpenNext
    PROVE  ClosingInv' /\ VirtualInv' /\ ServedInv'
<1> DEFINE p == NewProcessor
<1>1. /\ p \in Processor /\ p \notin open /\ p \notin alive /\ p # NoProcessor
      /\ user = "idle" /\ user' = "idle" /\ client' = "live" /\ open' = open \cup {p}
      /\ UNCHANGED <<running, input, tidy, threw, dying>>
      /\ Alsa!Open(p)
  BY NewIsAProcessor
     DEF OpenVirtual, OpenNext, Alsa!Open, Alsa!Fresh, Alsa!userVars, Alsa!inputVars, handlerVars
<1>2. /\ main \in {"virtual", "open"} /\ Busy /\ main' = "start" /\ Busy'
      /\ building' = p /\ dying = NoProcessor
  BY DEF OpenVirtual, OpenNext, Busy, ProcsInv
<1>3. PICK n \in 0 .. Alsa!Cardinality(alive) :
         /\ Alsa!LowestFree(n)
         /\ number' = [number EXCEPT ![p] = n]
         /\ ports' = Alsa!Placed(n, p)
         /\ alive' = (alive \ Alsa!At(n)) \cup {p}
         /\ Alsa!Disable(Alsa!At(n))
  BY <1>1 DEF Alsa!Open
<1> HIDE DEF p
<1>4. /\ n \in Nat
      /\ \A h \in alive : number[h] # n
      /\ number'[p] = n /\ \A h \in Processor : h # p => number'[h] = number[h]
      /\ n = 0 \/ \E h \in alive : number[h] = 0
  BY <1>1, <1>3 DEF ClientFacts, Alsa!LowestFree
<1>5. /\ enabled' = enabled \ Alsa!At(n)
      /\ enabled' # {} /\ ~shouldExit => ~shouldExit'
  BY <1>3 DEF Alsa!Disable, ClientFacts
<1>6. CASE virtual = NoProcessor
  <2>1. tidy
    BY <1>2, <1>6 DEF ClosingInv
  <2>2. ~(n < Len(ports))
    <3>1. SUFFICES ASSUME n < Len(ports) PROVE FALSE
      OBVIOUS
    <3>2. n + 1 \in DOMAIN ports
      BY <1>4, <3>1 DEF ClientFacts
    <3>3. ports[n + 1] \in alive /\ number[ports[n + 1]] = n
      BY <1>4, <2>1, <3>2 DEF ClientFacts
    <3>4. QED
      BY <1>4, <3>3
  <2>3. Alsa!At(n) = {} /\ ports' = Append(ports, p)
    BY <1>3, <2>2 DEF Alsa!At, Alsa!Placed
  <2>4. enabled' = enabled
    BY <1>5, <2>3
  <2>5. ServedInv'
    BY <1>1, <1>2, <1>5, <2>4 DEF ServedInv
  <2>6. CASE OpenVirtual
    <3>1. virtual' = p /\ procs' = procs /\ procs = << >>
      BY <2>6 DEF OpenVirtual, p, ClosingInv
    <3>2. open = {} /\ alive = {}
      BY <1>1, <1>6, <2>1, <2>6, <3>1 DEF ClosingInv, ClientFacts, OpenVirtual
    <3>3. ports = << >> /\ n = 0 /\ alive' = {p}
      BY <1>3, <1>4, <2>3, <3>2 DEF ClientFacts
    <3>4. ports' # << >> /\ ports'[1] = p
      BY <1>1, <2>3, <3>3
    <3>5. VirtualInv'
      BY <1>2, <1>4, <3>1, <3>3, <3>4 DEF VirtualInv
    <3>6. ClosingInv'
      BY <1>1, <1>2, <2>1, <3>1, <3>2 DEF ClosingInv
    <3>7. QED
      BY <2>5, <3>5, <3>6
  <2>7. CASE OpenNext
    <3>1. virtual' = virtual /\ procs' = Append(procs, p)
      BY <2>7 DEF OpenNext, p
    <3>2. /\ \A k \in DOMAIN procs : k \in DOMAIN procs' /\ procs'[k] = procs[k]
          /\ Len(procs) + 1 \in DOMAIN procs' /\ procs'[Len(procs) + 1] = p
      BY <1>1, <3>1 DEF ProcsInv
    <3>3. ClosingInv'
      BY <1>1, <1>2, <2>1, <3>1, <3>2 DEF ClosingInv
    <3>4. QED
      BY <1>6, <2>5, <3>1, <3>3 DEF VirtualInv
  <2>8. QED
    BY <2>6, <2>7
<1>7. CASE virtual # NoProcessor
  <2>1. /\ OpenNext /\ virtual' = virtual /\ procs' = Append(procs, p)
        /\ main = "open"
    BY <1>7 DEF OpenVirtual, OpenNext, ClosingInv, p
  <2>2. /\ \A k \in DOMAIN procs : k \in DOMAIN procs' /\ procs'[k] = procs[k]
        /\ Len(procs) + 1 \in DOMAIN procs' /\ procs'[Len(procs) + 1] = p
    BY <1>1, <2>1 DEF ProcsInv
  <2>3. ClosingInv'
    BY <1>1, <1>2, <1>7, <2>1, <2>2 DEF ClosingInv
  <2>4. /\ ports # << >> /\ ports[1] = virtual /\ 1 \in DOMAIN ports
        /\ virtual \in alive /\ virtual \in Processor /\ virtual # p
        /\ number[virtual] = 0 /\ virtual \in enabled
    BY <1>1, <1>2, <1>7, <2>1 DEF VirtualInv, ClientFacts, ProcsInv
  <2>5. n # 0
    BY <1>4, <2>4
  <2>6. virtual \notin Alsa!At(n)
    BY <1>4, <2>4, <2>5 DEF Alsa!At, ClientFacts
  <2>7. ports' # << >> /\ ports'[1] = virtual
    BY <1>1, <1>3, <1>4, <2>4, <2>5 DEF Alsa!Placed, ClientFacts
  <2>8. virtual \in enabled'
    BY <1>5, <2>4, <2>6
  <2>9. VirtualInv'
    <3>1. \A h \in alive' : number'[h] = 0 <=> h = virtual
      BY <1>3, <1>4, <1>7, <2>4, <2>5 DEF VirtualInv, ClientFacts
    <3>2. QED
      BY <2>1, <2>7, <2>8, <3>1 DEF VirtualInv
  <2>10. ServedInv'
    BY <1>1, <1>5, <2>4, <2>8 DEF ServedInv
  <2>11. QED
    BY <2>3, <2>9, <2>10
<1>8. QED
  BY <1>6, <1>7

\* The end of an input: its device is closed, and then the client, if it was the last.
LEMMA RemoveServed ==
    ASSUME OwnersInv, ProcsInv, ClientFacts, ClientFacts', ClosingInv, VirtualInv, ServedInv,
           Alsa!Remove, UNCHANGED <<procVars, main, threw>>
    PROVE  ClosingInv' /\ VirtualInv' /\ ServedInv'
<1> DEFINE i == number[closing]
           gone == Alsa!At(i)
<1>1. /\ user = "remove" /\ closing \in alive /\ closing \in open /\ closing \in Processor
      /\ ~Busy /\ ~Busy' /\ client = "live" /\ i \in Nat
  BY DEF Alsa!Remove, ClosingInv, ClientFacts, Busy
<1>2. /\ ports' = Alsa!Removed(i) /\ alive' = alive \ gone /\ open' = open \ {closing}
      /\ Alsa!Disable(gone)
      /\ user' = IF refs' = 0 THEN "destroy" ELSE "idle"
      /\ UNCHANGED <<client, number, running, input>>
  BY DEF Alsa!Remove, Alsa!inputVars
<1> HIDE DEF i, gone
<1>3. enabled' = enabled \ gone /\ (enabled' # {} /\ ~shouldExit => ~shouldExit')
  BY <1>2 DEF Alsa!Disable, ClientFacts
<1>4. ClosingInv'
  BY <1>1, <1>2 DEF ClosingInv, ClientFacts, procVars
<1>5. ServedInv'
  BY <1>1, <1>2, <1>3 DEF ServedInv
<1>6. ASSUME virtual # NoProcessor PROVE VirtualInv'
  <2>1. /\ ports # << >> /\ ports[1] = virtual /\ 1 \in DOMAIN ports
        /\ closing # virtual
    BY <1>1, <1>6 DEF VirtualInv, OwnersInv, ClientFacts
  <2>2. i # 0
    BY <1>1, <1>6, <2>1 DEF VirtualInv, i
  <2>3. virtual \notin gone
    BY <1>1, <2>1, <2>2 DEF gone, Alsa!At, ClientFacts
  <2>4. ports' # << >> /\ ports'[1] = virtual
    <3>1. CASE i < Len(ports)
      <4>1. /\ ports' = [k \in 1 .. Len(ports) - 1 |-> IF k <= i THEN ports[k] ELSE ports[k + 1]]
            /\ Len(ports) - 1 >= 1 /\ Len(ports) \in Nat
        BY <1>1, <1>2, <2>2, <3>1 DEF Alsa!Removed, ClientFacts
      <4>2. 1 \in DOMAIN ports' /\ ports'[1] = ports[1]
        BY <1>1, <2>2, <4>1
      <4>3. QED
        BY <2>1, <4>2
    <3>2. CASE ~(i < Len(ports))
      BY <1>2, <2>1, <3>2 DEF Alsa!Removed
    <3>3. QED
      BY <3>1, <3>2
  <2>5. QED
    BY <1>2, <1>3, <2>3, <2>4 DEF VirtualInv, procVars
<1>7. QED
  BY <1>4, <1>5, <1>6 DEF VirtualInv, procVars

LEMMA FinishServed ==
    ASSUME OwnersInv, ProcsInv, ClientFacts, ClientFacts', ClosingInv, VirtualInv, ServedInv,
           Up', FinishDelete
    PROVE  ClosingInv' /\ VirtualInv' /\ ServedInv'
<1>1. UNCHANGED <<procVars, main, threw>>
  BY DEF FinishDelete, handlerVars
<1>2. CASE Alsa!Remove
  BY <1>1, <1>2, RemoveServed
<1>3. CASE Alsa!Destroy \/ Alsa!Joined
  <2>1. /\ user \in {"destroy", "join"} /\ open = {} /\ enabled = {} /\ ~Busy
        /\ virtual = NoProcessor
    BY <1>3 DEF Alsa!Destroy, Alsa!Joined, ClientFacts, ClosingInv, OwnersInv
  <2>2. open' = open /\ enabled' = enabled
    BY <1>3 DEF Alsa!Destroy, Alsa!Joined
  <2>3. \/ user' = "join" /\ client' = "closed"
        \/ user' = "idle" /\ client' = "none" /\ tidy'
    BY <1>3 DEF Alsa!Destroy, Alsa!Joined, Up
  <2>4. QED
    BY <1>1, <2>1, <2>2, <2>3 DEF ClosingInv, VirtualInv, ServedInv, procVars, Busy
<1>4. QED
  BY <1>2, <1>3 DEF FinishDelete, Alsa!FinishClose

\* The beginning: the input is stopped,
LEMMA StopServed ==
    ASSUME OwnersInv, ProcsInv, ClientFacts, ClientFacts', ClosingInv, VirtualInv, ServedInv,
           Up', StopProcessor
    PROVE  ClosingInv' /\ VirtualInv' /\ ServedInv'
<1>1. /\ dying = NoProcessor /\ dying' = NextToDie
      /\ UNCHANGED <<procs, virtual, building, main, threw>>
  BY DEF StopProcessor, handlerVars
<1>2. /\ Alsa!Disable({NextToDie}) /\ user = "idle" /\ user' = "idle"
      /\ UNCHANGED <<client, ports, alive, number, open, tidy, running, input>>
  BY DEF StopProcessor, Alsa!Stop, Alsa!UseDeadPort, Alsa!portVars, Alsa!userVars,
         Alsa!inputVars, Up
<1>3. enabled' = enabled \ {NextToDie} /\ (enabled' # {} /\ ~shouldExit => ~shouldExit')
  BY <1>2 DEF Alsa!Disable, ClientFacts
<1>4. ~Busy /\ ~Busy'
  BY <1>1 DEF StopProcessor, Busy
<1>5. ClosingInv' /\ ServedInv'
  BY <1>1, <1>2, <1>3, <1>4 DEF ClosingInv, ServedInv
<1>6. VirtualInv'
  BY <1>1, <1>2, <1>3 DEF VirtualInv
<1>7. QED
  BY <1>5, <1>6

\* and main lets go of its processor.
LEMMA DeleteServed ==
    ASSUME OwnersInv, ProcsInv, ClientFacts, ClientFacts', ClosingInv, VirtualInv, ServedInv,
           Up', DeleteProcessor
    PROVE  ClosingInv' /\ VirtualInv' /\ ServedInv'
<1>1. /\ dying \in Processor /\ dying = NextToDie /\ dying' = NoProcessor
      /\ UNCHANGED <<building, main, threw>>
      /\ ~Busy /\ ~Busy'
  BY DEF DeleteProcessor, handlerVars, ProcsInv, Busy
<1>2. /\ Alsa!Disable({dying}) /\ user = "idle" /\ user' = "remove" /\ closing' = dying
      /\ dying \in alive
      /\ UNCHANGED <<client, ports, alive, number, open, tidy, running, input>>
  BY DEF DeleteProcessor, Alsa!Close, Alsa!UseDeadPort, Alsa!portVars, Alsa!inputVars, Up
<1>3. enabled' = enabled \ {dying} /\ (enabled' # {} /\ ~shouldExit => ~shouldExit')
  BY <1>2 DEF Alsa!Disable, ClientFacts
<1>4. ServedInv'
  BY <1>1, <1>2, <1>3 DEF ServedInv
<1>5. CASE dying = virtual
  <2>1. virtual' = NoProcessor /\ procs' = procs
    BY <1>5 DEF DeleteProcessor
  <2>2. QED
    BY <1>1, <1>2, <1>4, <1>5, <2>1 DEF ClosingInv, VirtualInv
<1>6. CASE dying # virtual
  <2>1. virtual' = virtual /\ procs' = Tail(procs)
    BY <1>6 DEF DeleteProcessor
  <2>2. procs # << >> /\ dying = procs[1]
    BY <1>1, <1>6 DEF NextToDie
  <2>3. \A k \in DOMAIN procs : k = 1 \/ (k - 1 \in DOMAIN procs' /\ procs'[k - 1] = procs[k])
    BY <2>1, <2>2 DEF ProcsInv
  <2>4. \A h \in open : \/ h = virtual'
                        \/ \E k \in DOMAIN procs' : procs'[k] = h
                        \/ h = closing'
    BY <1>2, <2>1, <2>2, <2>3 DEF ClosingInv
  <2>5. ClosingInv'
    BY <1>1, <1>2, <2>4 DEF ClosingInv, Busy
  <2>6. VirtualInv'
    BY <1>1, <1>2, <1>3, <1>6, <2>1 DEF VirtualInv
  <2>7. QED
    BY <1>4, <2>5, <2>6
<1>7. QED
  BY <1>5, <1>6

LEMMA StartServed ==
    ASSUME ProcsInv, ClientFacts, ClosingInv, VirtualInv, ServedInv, StartInput
    PROVE  ClosingInv' /\ VirtualInv' /\ ServedInv'
<1>1. /\ main = "start" /\ main' = "assign" /\ Busy /\ Busy'
      /\ enabled' = enabled \cup {building}
      /\ UNCHANGED <<procs, virtual, building, dying, threw, client, ports, alive, number, open,
                     tidy, user, closing>>
  BY DEF StartInput, Alsa!Start, Busy, procVars, handlerVars, Alsa!portVars, Alsa!userVars
<1>2. ClosingInv' /\ VirtualInv'
  BY <1>1 DEF ClosingInv, VirtualInv
<1>3. CASE activeCallbacks = 0
  <2>1. shouldExit' = FALSE /\ running' = TRUE /\ input' = IF running THEN input ELSE "begin"
    BY <1>3 DEF StartInput, Alsa!Start
  <2>2. ~running
    BY <1>1, <1>3 DEF ServedInv, ClientFacts
  <2>3. QED
    BY <1>1, <1>2, <2>1, <2>2 DEF ServedInv
<1>4. CASE activeCallbacks # 0
  <2>1. UNCHANGED <<shouldExit, running, input>>
    BY <1>4 DEF StartInput, Alsa!Start
  <2>2. enabled # {}
    BY <1>4 DEF ClientFacts
  <2>3. QED
    BY <1>1, <1>2, <2>1, <2>2 DEF ServedInv
<1>5. QED
  BY <1>3, <1>4

\* All inputs but the virtual one are closed.
LEMMA ClearedServed ==
    ASSUME ProcsInv, ClientFacts, ClosingInv, VirtualInv, ServedInv, Up', Cleared
    PROVE  ClosingInv' /\ VirtualInv' /\ ServedInv'
<1>1. /\ main = "clear" /\ main' = "names" /\ user = "idle" /\ dying = NoProcessor
      /\ NextToDie = NoProcessor /\ UNCHANGED <<alsaVars, procVars, threw>>
  BY DEF Cleared, Up, handlerVars
<1>2. procs = << >>
  <2>1. procs # << >> => Head(procs) \in Processor
    BY DEF ProcsInv
  <2>2. QED
    BY <1>1, <2>1, AlsaAssumption DEF NextToDie
<1>3. CASE virtual = NoProcessor
  <2>1. open = {}
    <3>1. \A h \in open : h = NoProcessor
      BY <1>1, <1>2, <1>3 DEF ClosingInv
    <3>2. QED
      BY <3>1, AlsaAssumption DEF ClientFacts
  <2>2. client = "none"
    BY <1>1, <2>1 DEF ClosingInv, ClientFacts
  <2>3. tidy /\ ~running /\ enabled = {}
    BY <2>1, <2>2 DEF ClosingInv, ClientFacts
  <2>4. QED
    BY <1>1, <1>3, <2>1, <2>2, <2>3
       DEF ClosingInv, VirtualInv, ServedInv, Busy, alsaVars, procVars
<1>4. CASE virtual # NoProcessor
  <2>1. virtual \in enabled
    BY <1>1, <1>4 DEF VirtualInv
  <2>2. ClosingInv' /\ VirtualInv'
    BY <1>1, <1>4 DEF ClosingInv, VirtualInv, Busy, alsaVars, procVars
  <2>3. ServedInv'
    BY <1>1, <2>1 DEF ServedInv, alsaVars
  <2>4. QED
    BY <2>2, <2>3
<1>5. QED
  BY <1>3, <1>4

\* The input thread ends only when it was told to, or the handler threw.
LEMMA InputServed ==
    ASSUME ClosingInv, VirtualInv, ServedInv, InputStep
    PROVE  ClosingInv' /\ VirtualInv' /\ ServedInv'
<1>1. UNCHANGED <<procVars, main, client, ports, alive, number, open, tidy, enabled, user, closing,
                  shouldExit>>
  BY DEF InputStep, ReadMidi, CallHandler, UseDeadProcessor, ReadLength, MakeAddress, MakeBody,
     BodyThrows, SendMessage, Alsa!Begin, Alsa!TestExit, Alsa!PollTimesOut, Alsa!PollReturns,
     Alsa!Read, Alsa!CheckSize, Alsa!CheckEnabled, Alsa!AskPort, Alsa!Pending, Alsa!Leave,
     Alsa!Call, Alsa!CallbackThrows,
     Alsa!CallbackReturns, Alsa!portVars, Alsa!userVars, Alsa!callbackVars, alsaVars
<1>2. ClosingInv' /\ VirtualInv'
  BY <1>1 DEF ClosingInv, VirtualInv, Busy, procVars
<1>3. CASE BodyThrows
  <2>1. threw' = TRUE /\ running' = running
    BY <1>3 DEF BodyThrows, Alsa!CallbackThrows, Alsa!callbackVars
  <2>2. QED
    BY <1>1, <1>2, <2>1 DEF ServedInv, Busy
<1>4. CASE ReadMidi
  <2>1. threw' = threw
    BY <1>4 DEF ReadMidi, handlerVars
  <2>2. CASE Alsa!Leave
    <3>1. input = "leave" /\ running' = FALSE
      BY <2>2 DEF Alsa!Leave
    <3>2. QED
      BY <1>1, <1>2, <2>1, <3>1 DEF ServedInv
  <2>3. CASE ~Alsa!Leave
    <3>1. running' = running /\ (input' = "leave" => input = "leave" \/ shouldExit)
      BY <1>4, <2>3
         DEF ReadMidi, Alsa!Begin, Alsa!TestExit, Alsa!PollTimesOut, Alsa!PollReturns, Alsa!Read,
         Alsa!CheckSize, Alsa!CheckEnabled, Alsa!AskPort, Alsa!Pending, Alsa!AskSequencer,
         Alsa!callbackVars, Alsa!inputVars
    <3>2. QED
      BY <1>1, <1>2, <2>1, <3>1 DEF ServedInv, Busy
  <2>4. QED
    BY <2>2, <2>3
<1>5. CASE CallHandler \/ SendMessage
  <2>1. threw' = threw /\ running' = running /\ (input' = "leave" => input = "leave")
    BY <1>5 DEF CallHandler, SendMessage, Alsa!Call, Alsa!AskPort, Alsa!CallbackReturns,
       Alsa!callbackVars
  <2>2. QED
    BY <1>1, <1>2, <2>1 DEF ServedInv, Busy
<1>6. CASE UseDeadProcessor \/ ReadLength \/ MakeAddress \/ MakeBody
  <2>1. UNCHANGED <<alsaVars, threw>>
    BY <1>6 DEF UseDeadProcessor, ReadLength, MakeAddress, MakeBody, handlerVars
  <2>2. QED
    BY <1>1, <1>2, <2>1 DEF ServedInv, Busy, alsaVars
<1>7. QED
  BY <1>3, <1>4, <1>5, <1>6 DEF InputStep

LEMMA ServedStep ==
    ASSUME OwnersInv, ProcsInv, ClientFacts, ClientFacts', ClosingInv, VirtualInv, ServedInv,
           Up', [Next]_vars
    PROVE  ClosingInv' /\ VirtualInv' /\ ServedInv'
<1>1. CASE OpenVirtual \/ OpenNext
  BY <1>1, OpenServed
<1>2. CASE StartInput
  BY <1>2, StartServed
<1>3. CASE StopProcessor \/ DeleteProcessor \/ FinishDelete
  BY <1>3, StopServed, DeleteServed, FinishServed
<1>4. CASE Cleared
  BY <1>4, ClearedServed
<1>5. CASE InputStep
  BY <1>5, InputServed
<1>6. CASE \/ ReadNames \/ LookUpNext \/ LookUpFails \/ OpenCrashes \/ AssignInput
           \/ SetOscTemplate \/ SetOscRawMidiMessage \/ Prepared \/ Snapshot \/ LoopTest \/ Poll
           \/ SendHeartbeat \/ HeartbeatThrows
  <2>1. /\ UNCHANGED <<alsaVars, procs, virtual, dying, threw>>
        /\ Busy /\ main # "start" /\ main' \notin {"start", "virtual"}
    <3>1. CASE ReadNames \/ LookUpNext \/ LookUpFails \/ OpenCrashes \/ AssignInput
              \/ SetOscTemplate
      BY <3>1 DEF ReadNames, LookUpNext, LookUpFails, OpenCrashes, AssignInput, SetOscTemplate,
         procVars, handlerVars, Busy
    <3>2. CASE SetOscRawMidiMessage \/ Prepared \/ Snapshot \/ LoopTest \/ Poll
      BY <3>2 DEF SetOscRawMidiMessage, Prepared, Snapshot, LoopTest, Poll, procVars, handlerVars,
         Busy
    <3>3. CASE SendHeartbeat \/ HeartbeatThrows
      BY <3>3 DEF SendHeartbeat, HeartbeatThrows, procVars, handlerVars, Busy
    <3>4. QED
      BY <1>6, <3>1, <3>2, <3>3
  <2>2. user = "idle"
    BY <2>1 DEF ClosingInv, ClientFacts
  <2>3. QED
    BY <2>1, <2>2 DEF ClosingInv, VirtualInv, ServedInv, Busy, alsaVars
<1>7. CASE EnvStep \/ UNCHANGED vars
  <2>1. UNCHANGED <<client, ports, alive, number, open, tidy, enabled, activeCallbacks, shouldExit,
                    running, input, user, closing, procs, virtual, building, dying, threw, main>>
    BY <1>7 DEF EnvStep, DevicesChange, MidiArrives, CtrlC, vars, alsaVars, procVars, handlerVars,
       Alsa!Arrive, Alsa!portVars, Alsa!callbackVars, Alsa!inputVars, Alsa!userVars
  <2>2. QED
    BY <2>1 DEF ClosingInv, VirtualInv, ServedInv, Busy
<1>8. QED
  BY <1>1, <1>2, <1>3, <1>4, <1>5, <1>6, <1>7 DEF Next, MainStep, Ended

\* juce_linux_Midi.cpp:215 starts no thread while the old one has not ended, which may
\* leave an input without one. In m2o it cannot: an input is started either next to
\* one that is started already, or on a new client, made after the old thread was
\* joined. Only an exception of the handler leaves started inputs without a thread.
THEOREM InputIsAlwaysServed == Spec => []InputIsServed
<1> DEFINE Inv == Up => ClosingInv /\ VirtualInv /\ ServedInv
<1>1. Init => Inv
  <2> SUFFICES ASSUME Init PROVE ClosingInv /\ VirtualInv /\ ServedInv
    OBVIOUS
  <2>1. /\ user = "idle" /\ client = "none" /\ tidy /\ open = {} /\ enabled = {} /\ ~running
        /\ virtual = NoProcessor /\ procs = << >>
    BY DEF Init, Alsa!Init
  <2>2. QED
    BY <2>1 DEF ClosingInv, VirtualInv, ServedInv
<1>2. OwnersInv /\ ProcsInv /\ ClientFacts /\ ClientFacts' /\ Inv /\ [Next]_vars => Inv'
  <2> SUFFICES ASSUME OwnersInv, ProcsInv, ClientFacts, ClientFacts', Inv, [Next]_vars, Up'
               PROVE  ClosingInv' /\ VirtualInv' /\ ServedInv'
    OBVIOUS
  <2>1. Up
    <3>1. UNCHANGED vars => (Up' <=> Up)
      BY DEF vars, alsaVars, progVars, Up
    <3>2. QED
      BY <3>1 DEF Next, Ended
  <2>2. QED
    BY <2>1, ServedStep
<1>3. Inv => InputIsServed
  BY DEF ServedInv, InputIsServed
<1>4. Spec => []ClientFacts
  BY AlsaInvariance, ClientFactsHold, PTL
<1>5. QED
  BY <1>1, <1>2, <1>3, <1>4, PortsInvariance, SetUpInvariance, PTL DEF Spec

----------------------------------------------------------------------------
(* Types. *)

\* TypeOK without the parts that other invariants account for.
ControlTypeOK ==
    /\ {assigned, templated, rawSet, ready} \subseteq SUBSET Processor
    /\ handler \in {"out", "length", "address", "body", "send"}
    /\ threw \in BOOLEAN
    /\ main \in {"virtual", "names", "open", "start", "assign", "setTemplate", "setRaw",
                 "snapshot", "loop", "poll", "clear", "heartbeat", "leave"}
    /\ started \in BOOLEAN
    /\ wantToExit \in BOOLEAN
    /\ status \in {"up", "exit0", "exitMinus1", "terminated", "crashed", "undefined"}
    /\ lastPorts \in Seq(Name)
    /\ newPorts \in Seq(Name)

LEMMA ControlTypeStep ==
    ASSUME ControlTypeOK, ProcsInv, devices \in Seq(Name), [Next]_vars
    PROVE  ControlTypeOK'
<1> USE DEF ControlTypeOK
<1>1. CASE OpenVirtual \/ OpenNext \/ LookUpNext \/ LookUpFails \/ OpenCrashes \/ StartInput
  BY <1>1 DEF OpenVirtual, OpenNext, LookUpNext, LookUpFails, OpenCrashes, StartInput, setUpVars,
     handlerVars, hotplugVars, progVars
<1>2. CASE AssignInput \/ SetOscTemplate \/ SetOscRawMidiMessage
  <2>1. building \in Processor
    BY <1>2 DEF AssignInput, SetOscTemplate, SetOscRawMidiMessage, ProcsInv
  <2>2. {assigned', templated', rawSet', ready'} \subseteq SUBSET Processor
    BY <1>2, <2>1 DEF AssignInput, SetOscTemplate, SetOscRawMidiMessage
  <2>3. main' \in {"names", "setTemplate", "setRaw", "open"}
    BY <1>2 DEF AssignInput, SetOscTemplate, SetOscRawMidiMessage
  <2>4. UNCHANGED <<handlerVars, hotplugVars, progVars>>
    BY <1>2 DEF AssignInput, SetOscTemplate, SetOscRawMidiMessage
  <2>5. QED
    BY <2>2, <2>3, <2>4 DEF handlerVars, hotplugVars, progVars
<1>3. CASE ReadNames \/ LoopTest \/ SendHeartbeat \/ HeartbeatThrows \/ StopProcessor
           \/ FinishDelete
  <2>1. UNCHANGED <<setUpVars, handlerVars, started, wantToExit, lastPorts>>
    BY <1>3 DEF ReadNames, LoopTest, SendHeartbeat, HeartbeatThrows, StopProcessor, FinishDelete,
       hotplugVars, progVars
  <2>2. main' \in {main, "open", "leave", "poll", "loop"} /\ status' \in {status, "terminated"}
    BY <1>3 DEF ReadNames, LoopTest, SendHeartbeat, HeartbeatThrows, StopProcessor, FinishDelete,
       progVars
  <2>3. newPorts' \in {newPorts, << >>}
    BY <1>3 DEF ReadNames, LoopTest, SendHeartbeat, HeartbeatThrows, StopProcessor, FinishDelete,
       hotplugVars
  <2>4. newPorts' \in Seq(Name)
    <3>1. << >> \in Seq(Name)
      OBVIOUS
    <3>2. QED
      BY <2>3, <3>1
  <2>5. QED
    BY <2>1, <2>2, <2>4 DEF setUpVars, handlerVars
<1>4. CASE Prepared \/ Poll
  <2>1. lastPorts' \in {lastPorts, newPorts} /\ newPorts' \in {newPorts, devices}
    BY <1>4 DEF Prepared, Poll
  <2>2. main' \in {"heartbeat", "snapshot", "clear"}
    BY <1>4 DEF Prepared, Poll
  <2>3. UNCHANGED <<setUpVars, handlerVars, progVars>>
    BY <1>4 DEF Prepared, Poll
  <2>4. lastPorts' \in Seq(Name) /\ newPorts' \in Seq(Name)
    BY <2>1
  <2>5. QED
    BY <2>2, <2>3, <2>4 DEF setUpVars, handlerVars, progVars
<1>5. CASE Snapshot
  <2>1. started' \in BOOLEAN
    BY Zenon, <1>5 DEF Snapshot
  <2>2. QED
    BY <1>5, <2>1 DEF Snapshot, setUpVars, handlerVars
<1>6. CASE DeleteProcessor
  BY <1>6 DEF DeleteProcessor, handlerVars, hotplugVars, progVars
<1>7. CASE Cleared
  <2>1. main' \in {main, "names"} /\ status' \in {status, "exit0", "exitMinus1"}
    BY <1>7 DEF Cleared
  <2>2. QED
    BY <1>7, <2>1 DEF Cleared, setUpVars, handlerVars, hotplugVars
<1>8. CASE InputStep
  <2>1. UNCHANGED <<setUpVars, main, hotplugVars, started, wantToExit>>
    BY <1>8 DEF InputStep, ReadMidi, CallHandler, UseDeadProcessor, ReadLength, MakeAddress,
       MakeBody, BodyThrows, SendMessage, progVars
  <2>2. handler' \in {handler, "out", "length", "address", "body", "send"}
    BY <1>8 DEF InputStep, ReadMidi, CallHandler, UseDeadProcessor, ReadLength, MakeAddress,
       MakeBody, BodyThrows, SendMessage, handlerVars
  <2>3. threw' \in BOOLEAN
    <3>1. CASE BodyThrows
      BY Zenon, <3>1 DEF BodyThrows
    <3>2. CASE ~BodyThrows
      <4>1. threw' = threw
        BY <1>8, <3>2 DEF InputStep, ReadMidi, CallHandler, UseDeadProcessor, ReadLength,
           MakeAddress, MakeBody, SendMessage, handlerVars
      <4>2. QED
        BY <4>1
    <3>3. QED
      BY <3>1, <3>2
  <2>4. status' \in {status, "crashed", "undefined"}
    BY <1>8 DEF InputStep, ReadMidi, CallHandler, UseDeadProcessor, ReadLength, MakeAddress,
       MakeBody, BodyThrows, SendMessage, progVars
  <2>5. QED
    BY <2>1, <2>2, <2>3, <2>4 DEF setUpVars, hotplugVars
<1>9. CASE DevicesChange \/ MidiArrives \/ UNCHANGED vars
  BY <1>9 DEF DevicesChange, MidiArrives, vars, setUpVars, handlerVars, hotplugVars, progVars
<1>10. CASE CtrlC
  <2>1. wantToExit' \in BOOLEAN
    BY Zenon, <1>10 DEF CtrlC
  <2>2. QED
    BY <1>10, <2>1 DEF CtrlC, setUpVars, handlerVars, hotplugVars
<1>11. QED
  BY <1>1, <1>2, <1>3, <1>4, <1>5, <1>6, <1>7, <1>8, <1>9, <1>10
     DEF Next, MainStep, EnvStep, Ended

\* The variables of m2o keep their types.
THEOREM M2oTypeCorrect == Spec => []TypeOK
<1>1. Init => ControlTypeOK
  <2> SUFFICES ASSUME Init PROVE ControlTypeOK
    OBVIOUS
  <2>1. started \in BOOLEAN /\ wantToExit \in BOOLEAN /\ threw \in BOOLEAN
    BY Zenon DEF Init
  <2>2. QED
    BY <2>1 DEF Init, ControlTypeOK
<1>2. PP!IInv /\ ControlTypeOK /\ ProcsInv /\ [Next]_vars => ControlTypeOK'
  <2>1. PP!IInv => devices \in Seq(Name)
    BY PP!ListFacts DEF PP!IInv, PP!TypeOK
  <2>2. QED
    BY <2>1, ControlTypeStep
<1>3. PP!IInv /\ AP!IInv /\ ProcsInv /\ HandlerInv /\ ControlTypeOK => TypeOK
  <2> SUFFICES ASSUME PP!IInv, AP!IInv, ProcsInv, HandlerInv, ControlTypeOK
               PROVE  TypeOK
    OBVIOUS
  <2>1. Ports!TypeOK
    BY DEF PP!IInv, PP!TypeOK, Ports!TypeOK, PP!DeviceLists, Ports!DeviceLists,
           PP!IsInjective, Ports!IsInjective, PP!PendingPort, Ports!PendingPort,
           PP!Port, Ports!Port
  <2>2. Alsa!TypeOK
    BY DEF AP!IInv, AP!TypeOK, Alsa!TypeOK, AP!Handle, Alsa!Handle, AP!Message, Alsa!Message,
           AP!NoMessage, Alsa!NoMessage
  <2>3. QED
    BY <2>1, <2>2 DEF ProcsInv, HandlerInv, ControlTypeOK, TypeOK
<1>4. Spec => []ControlTypeOK
  BY <1>1, <1>2, PortsInvariance, PTL DEF Spec
<1>5. QED
  BY PortsInvariance, AlsaInvariance, SetUpInvariance, <1>3, <1>4, PTL
==============================================================================
