------------------------------ MODULE O2mProofs ------------------------------
(***************************************************************************)
(* The program o2m for any devices, options and bounds: it uses the tables  *)
(* of names, JUCE's client and the receive loop only as their modules       *)
(* allow, so what is proved there holds of it; its two threads exclude each *)
(* other, and its outputs keep their Ports through every rebuild.           *)
(***************************************************************************)
EXTENDS O2m, TLAPS

\* The modules with their theorems; PP!X and Ports!X are two names for one
\* definition of MidiPorts, and so are AP!X and Alsa!X, and MP!X and Mux!X.
PP == INSTANCE MidiPortsProofs
AP == INSTANCE AlsaClientProofs WITH
          Input <- {}, Output <- MidiOutput, NoHandle <- NoOutput, QueueBound <- 0,
          enabled <- NoInputs.enabled, activeCallbacks <- NoInputs.activeCallbacks,
          shouldExit <- NoInputs.shouldExit, running <- NoInputs.running, input <- NoInputs.at,
          event <- NoInputs.event, called <- NoInputs.called, queue <- NoInputs.queue
MP == INSTANCE SocketMultiplexerProofs

USE PortsAssumption, AlsaAssumption, MuxAssumption, OptionsAssumption

----------------------------------------------------------------------------
(* The two names of each definition. *)

LEMMA SamePorts ==
    /\ Ports!Init => PP!Init
    /\ Ports!Next => PP!Next
<1>1. Ports!Init => PP!Init
  BY DEF PP!Init, Ports!Init, PP!DeviceLists, Ports!DeviceLists, PP!IsInjective,
         Ports!IsInjective
<1>2. Ports!Next => PP!Next
  <2>1. Ports!Plug => PP!Plug
    BY DEF Ports!Plug, PP!Plug, Ports!InsertAt, PP!InsertAt, Ports!Range, PP!Range
  <2>2. Ports!Unplug => PP!Unplug
    BY DEF Ports!Unplug, PP!Unplug, Ports!RemoveAt, PP!RemoveAt
  <2>3. \A n : Ports!Register(n) => PP!Register(n)
    BY DEF Ports!Register, PP!Register, Ports!StickyOf, PP!StickyOf,
           Ports!RefreshedMap, PP!RefreshedMap, Ports!IndexNow, PP!IndexNow,
           Ports!Range, PP!Range
  <2>4. \A n : Ports!LookUp(n) => PP!LookUp(n)
    BY <2>3 DEF Ports!LookUp, PP!LookUp, Ports!StickyOf, PP!StickyOf
  <2>5. \A n : Ports!LookUpThrows(n) => PP!LookUpThrows(n)
    BY <2>3 DEF Ports!LookUpThrows, PP!LookUpThrows
  <2>6. Ports!Open => PP!Open
    BY DEF Ports!Open, PP!Open, Ports!DeviceAt, PP!DeviceAt
  <2>7. \A n : Ports!CreateVirtual(n) => PP!CreateVirtual(n)
    BY <2>3 DEF Ports!CreateVirtual, PP!CreateVirtual
  <2>8. Ports!CloseFirst => PP!CloseFirst
    BY DEF Ports!CloseFirst, PP!CloseFirst
  <2>9. QED
    BY <2>1, <2>2, <2>4, <2>5, <2>6, <2>7, <2>8
       DEF Ports!Next, PP!Next, Ports!Environment, PP!Environment
<1>3. QED
  BY <1>1, <1>2

LEMMA SameMux ==
    /\ Mux!Init => MP!Init
    /\ Mux!Next => MP!Next
<1>1. Mux!Init => MP!Init
  BY DEF Mux!Init, MP!Init
<1>2. Mux!Next => MP!Next
  <2>1. Mux!Enter => MP!Enter
    BY DEF Mux!Enter, MP!Enter
  <2>2. Mux!RunStep => MP!RunStep
    BY DEF Mux!RunStep, MP!RunStep, Mux!TestBreak, MP!TestBreak, Mux!Select, MP!Select,
           Mux!Descriptor, MP!Descriptor, Mux!Readable, MP!Readable, Mux!Woken, MP!Woken,
           Mux!AfterRead, MP!AfterRead, Mux!PacketDone, MP!PacketDone, Mux!PacketThrows,
           MP!PacketThrows
  <2>3. /\ Mux!SelectInterrupted => MP!SelectInterrupted
        /\ Mux!SelectFails => MP!SelectFails
    BY DEF Mux!SelectInterrupted, MP!SelectInterrupted, Mux!SelectFails, MP!SelectFails
  <2>4. Mux!AsynchronousBreak => MP!AsynchronousBreak
    BY DEF Mux!AsynchronousBreak, MP!AsynchronousBreak, Mux!SetFlag, MP!SetFlag,
           Mux!WriteByte, MP!WriteByte
  <2>5. \A p : Mux!Arrive(p) => MP!Arrive(p)
    BY DEF Mux!Arrive, MP!Arrive
  <2>6. QED
    BY <2>1, <2>2, <2>3, <2>4, <2>5 DEF Mux!Next, MP!Next
<1>3. QED
  BY <1>1, <1>2

\* What AlsaClient assumes of its constants, o2m's assumptions give it.
LEMMA AlsaConstants == AP!HandleAssumption
<1>1. IsFiniteSet(MidiOutput) => AP!IsFiniteSet({} \cup MidiOutput)
  <2>1. {} \cup MidiOutput = MidiOutput
    OBVIOUS
  <2>2. QED
    BY Zenon, <2>1 DEF IsFiniteSet, AP!IsFiniteSet
<1>2. QED
  BY <1>1 DEF AP!HandleAssumption, AP!Handle

LEMMA SameCardinality == \A S : Alsa!Cardinality(S) = AP!Cardinality(S)
  BY Zenon DEF Alsa!Cardinality, AP!Cardinality, Alsa!IsFiniteSet, AP!IsFiniteSet

LEMMA SameAlsa ==
    /\ Alsa!Init => AP!Init
    /\ Alsa!UserStep => AP!UserStep
    /\ Alsa!FinishClose => AP!FinishClose
<1> USE DEF Alsa!portVars, AP!portVars, Alsa!callbackVars, AP!callbackVars, Alsa!inputVars,
            AP!inputVars, Alsa!userVars, AP!userVars, Alsa!vars, AP!vars, Alsa!NoMessage,
            AP!NoMessage, Alsa!Handle, AP!Handle
<1>0. \A i : Alsa!At(i) = AP!At(i)
  BY DEF Alsa!At, AP!At
<1>1. \A S : Alsa!Disable(S) => AP!Disable(S)
  BY SameCardinality DEF Alsa!Disable, AP!Disable
<1>2. \A h : Alsa!Open(h) => AP!Open(h)
  <2>1. \A n, h : Alsa!Placed(n, h) = AP!Placed(n, h)
    BY DEF Alsa!Placed, AP!Placed
  <2>2. \A n : Alsa!LowestFree(n) => AP!LowestFree(n)
    BY DEF Alsa!LowestFree, AP!LowestFree
  <2>3. \A h : Alsa!Fresh(h) => AP!Fresh(h)
    BY DEF Alsa!Fresh, AP!Fresh
  <2>4. QED
    BY <1>0, <1>1, <2>1, <2>2, <2>3, SameCardinality DEF Alsa!Open, AP!Open
<1>3. \A h : Alsa!Start(h) => AP!Start(h)
  BY DEF Alsa!Start, AP!Start
<1>4. \A h : (Alsa!Stop(h) => AP!Stop(h)) /\ (Alsa!Close(h) => AP!Close(h))
  BY <1>1 DEF Alsa!Stop, AP!Stop, Alsa!Close, AP!Close
<1>5. \A h : Alsa!UseDeadPort(h) => AP!UseDeadPort(h)
  BY DEF Alsa!UseDeadPort, AP!UseDeadPort
<1>6. Alsa!Remove => AP!Remove
  BY <1>0, <1>1 DEF Alsa!Remove, AP!Remove, Alsa!Removed, AP!Removed, Alsa!Released,
     AP!Released
<1>7. (Alsa!Destroy => AP!Destroy) /\ (Alsa!Joined => AP!Joined)
  BY DEF Alsa!Destroy, AP!Destroy, Alsa!Joined, AP!Joined, Alsa!ThreadEnded,
     AP!ThreadEnded
<1>8. Alsa!Init => AP!Init
  BY DEF Alsa!Init, AP!Init
<1>9. QED
  BY <1>8, <1>2, <1>3, <1>4, <1>5, <1>6, <1>7
     DEF Alsa!UserStep, AP!UserStep, Alsa!FinishClose, AP!FinishClose

----------------------------------------------------------------------------
(* The ports. *)

\* The names that are still to be opened are names, and a port is under
\* construction only while one of them is being opened.
PreparingInv ==
    /\ toOpen \in Seq(Name)
    /\ opening # << >> => main = "open" /\ toOpen # << >>

\* Every step of o2m is a step of MidiPorts or leaves the ports alone.
LEMMA PortsStep ==
    PreparingInv /\ [Next]_vars => [Ports!Next]_portVars
<1> SUFFICES ASSUME PreparingInv, [Next]_vars, ~UNCHANGED portVars
             PROVE  Ports!Next
  OBVIOUS
<1>1. CASE CloseFirst
  BY <1>1 DEF CloseFirst, Ports!Next
<1>2. CASE LookUpNext \/ LookUpFails
  <2>1. Head(toOpen) \in Name
    BY <1>2 DEF LookUpNext, LookUpFails, PreparingInv
  <2>2. QED
    BY <1>2, <2>1 DEF LookUpNext, LookUpFails, Ports!Next
<1>3. CASE OpenNext
  BY <1>3 DEF OpenNext, Ports!Next
<1>4. CASE DevicesChange
  BY <1>4 DEF DevicesChange, Ports!Next, Ports!Environment
<1>5. CASE /\ ~(CloseFirst \/ LookUpNext \/ LookUpFails \/ OpenNext)
           /\ MainStep
  BY <1>5 DEF MainStep, ReadNames, Lock, FinishClose, Cleared, Prepared, Spawn, Snapshot,
     LoopTest, EnterRun, InRun, HandlePacket, HandleCrashes, HandleThrows, Poll,
     SendHeartbeat, HeartbeatThrows, Join, Return, outputVars
<1>6. CASE ThrStep
  BY <1>6 DEF ThrStep, ThrTest, ThrWakes, ThrSetFlag, ThrWriteByte, outputVars
<1>7. CASE DatagramArrives \/ CtrlC \/ SelectFails
  BY <1>7 DEF DatagramArrives, CtrlC, SelectFails, outputVars
<1>8. CASE UNCHANGED vars
  BY <1>8 DEF vars, outputVars
<1>9. QED
  BY <1>1, <1>2, <1>3, <1>4, <1>5, <1>6, <1>7, <1>8 DEF Next, EnvStep, Ended

LEMMA PreparingInvStep ==
    PP!IInv /\ PreparingInv /\ [Next]_vars => PreparingInv'
<1> SUFFICES ASSUME PP!IInv, PreparingInv, [Next]_vars
             PROVE  PreparingInv'
  OBVIOUS
<1> USE DEF PreparingInv
<1>1. CASE ReadNames
  <2>1. devices \in Seq(Name)
    BY PP!ListFacts DEF PP!IInv, PP!TypeOK
  <2>2. toOpen' \in Seq(Name)
    BY <1>1, <2>1 DEF ReadNames
  <2>3. opening = << >> /\ opening' = << >>
    BY <1>1 DEF ReadNames, outputVars, portVars
  <2>4. QED
    BY <2>2, <2>3
<1>2. CASE CloseFirst
  BY <1>2 DEF CloseFirst, Ports!CloseFirst, hotplugVars
<1>3. CASE LookUpNext
  BY <1>3 DEF LookUpNext, hotplugVars
<1>4. CASE LookUpFails
  <2>1. opening = << >> /\ opening' = << >> /\ toOpen' = toOpen
    BY <1>4 DEF LookUpFails, Ports!LookUpThrows, hotplugVars
  <2>2. QED
    BY <2>1
<1>5. CASE OpenNext
  <2>1. opening' = << >> /\ toOpen # << >> /\ toOpen' = Tail(toOpen)
    BY <1>5 DEF OpenNext, Ports!Open
  <2>2. QED
    BY <2>1
<1>6. CASE DevicesChange
  BY <1>6 DEF DevicesChange, Ports!Environment, Ports!Plug, Ports!Unplug, hotplugVars
<1>7. CASE /\ ~(ReadNames \/ CloseFirst \/ LookUpNext \/ LookUpFails \/ OpenNext)
           /\ MainStep
  <2>1. UNCHANGED <<portVars, toOpen>>
    BY <1>7 DEF MainStep, Lock, FinishClose, Cleared, Prepared, Spawn, Snapshot, LoopTest,
       EnterRun, InRun, HandlePacket, HandleCrashes, HandleThrows, Poll, SendHeartbeat,
       HeartbeatThrows, Join, Return, outputVars, hotplugVars
  <2>2. CASE Prepared
    <3>1. opening = << >>
      BY <2>2 DEF Prepared
    <3>2. QED
      BY <2>1, <3>1 DEF portVars
  <2>3. CASE ~Prepared
    <3>1. main # "open" \/ main' = "open"
      BY <1>7, <2>3 DEF MainStep, Lock, FinishClose, Cleared, Spawn, Snapshot, LoopTest,
         EnterRun, InRun, HandlePacket, HandleCrashes, HandleThrows, Poll, SendHeartbeat,
         HeartbeatThrows, Join, Return
    <3>2. QED
      BY <2>1, <3>1 DEF portVars
  <2>4. QED
    BY <2>2, <2>3
<1>8. CASE ThrStep
  BY <1>8 DEF ThrStep, ThrTest, ThrWakes, ThrSetFlag, ThrWriteByte, outputVars, portVars,
     hotplugVars
<1>9. CASE DatagramArrives \/ CtrlC \/ SelectFails
  BY <1>9 DEF DatagramArrives, CtrlC, SelectFails, outputVars, portVars, hotplugVars
<1>10. CASE UNCHANGED vars
  BY <1>10 DEF vars, outputVars, portVars, hotplugVars
<1>11. QED
  BY <1>1, <1>2, <1>3, <1>4, <1>5, <1>6, <1>7, <1>8, <1>9, <1>10 DEF Next, EnvStep, Ended

LEMMA PortsInvariance == Spec => [](PP!IInv /\ PreparingInv)
<1>1. Init => PP!IInv /\ PreparingInv
  <2>1. Init => PP!IInv
    BY SamePorts, PP!InitIInv DEF Init
  <2>2. Init => PreparingInv
    BY DEF Init, PreparingInv, Ports!Init
  <2>3. QED
    BY <2>1, <2>2
<1>2. PP!IInv /\ PreparingInv /\ [Next]_vars => (PP!IInv /\ PreparingInv)'
  <2> SUFFICES ASSUME PP!IInv, PreparingInv, [Next]_vars
               PROVE  (PP!IInv /\ PreparingInv)'
    OBVIOUS
  <2>1. [PP!Next]_(PP!portVars)
    BY PortsStep, SamePorts DEF PP!portVars, portVars
  <2>2. PP!IInv'
    BY <2>1, PP!NextIInv
  <2>3. QED
    BY <2>2, PreparingInvStep
<1>3. QED
  BY <1>1, <1>2, PTL DEF Spec

\* Every behaviour of o2m is, for the ports and their tables, one of MidiPorts,
\* so the theorems of MidiPortsProofs hold in it: the main thread uses the port
\* objects in no order that MidiPorts does not allow.
THEOREM PortsAreUsedAsSpecified == Spec => Ports!Init /\ [][Ports!Next]_portVars
<1>1. Init => Ports!Init
  BY DEF Init
<1>2. QED
  BY PortsInvariance, PortsStep, <1>1, PTL DEF Spec

\* In o2m the sticky id that a heartbeat gives for a port names that port for good.
THEOREM StickyIdsInO2m == Spec => []Ports!StickyIdsIdentifyNames
<1>1. PP!IInv => Ports!StickyIdsIdentifyNames
  BY DEF PP!IInv, PP!StickyIdsIdentifyNames, Ports!StickyIdsIdentifyNames,
         PP!IsInjective, Ports!IsInjective, PP!Range, Ports!Range
<1>2. QED
  BY PortsInvariance, <1>1, PTL

----------------------------------------------------------------------------
(* JUCE's client. *)

LEMMA NewIsAnOutput ==
    ASSUME \E h \in MidiOutput : Alsa!Fresh(h)
    PROVE  NewOutput \in MidiOutput /\ Alsa!Fresh(NewOutput)
  BY DEF NewOutput

\* Every step of o2m is one of AlsaClient's user, or finishes a destructor, or leaves
\* the client alone.
LEMMA AlsaStep ==
    ASSUME AP!IInv, [Next]_vars
    PROVE  \/ Alsa!Defined /\ (Alsa!UserStep \/ Alsa!FinishClose)
           \/ UNCHANGED alsaVars
<1> USE DEF Alsa!Defined, Alsa!Handle, Alsa!UserStep, outputVars
<1>1. CASE Up /\ OpenNext
  <2>1. CASE UNCHANGED alsaVars
    BY <2>1
  <2>2. CASE ~UNCHANGED alsaVars
    <3>1. Alsa!Open(NewOutput) /\ \E h \in MidiOutput : Alsa!Fresh(h)
      BY <1>1, <2>2 DEF OpenNext
    <3>2. NewOutput \in MidiOutput
      BY <3>1, NewIsAnOutput
    <3>3. QED
      BY <1>1, <3>1, <3>2 DEF Up
  <2>3. QED
    BY <2>1, <2>2
<1>2. CASE Up /\ CloseFirst
  <2>1. CASE Head(handles) = NoOutput
    BY <1>2, <2>1 DEF CloseFirst
  <2>2. CASE Head(handles) # NoOutput
    <3>1. Alsa!Close(Head(handles)) \/ Alsa!UseDeadPort(Head(handles))
      BY <1>2, <2>2 DEF CloseFirst
    <3>2. Head(handles) \in Alsa!Handle
      BY <3>1 DEF Alsa!Close, Alsa!UseDeadPort, AP!IInv, AP!TypeOK, AP!Handle
    <3>3. QED
      BY <1>2, <3>1, <3>2 DEF Up
  <2>3. QED
    BY <2>1, <2>2
<1>3. CASE Up /\ FinishClose
  BY <1>3 DEF Up, FinishClose
<1>4. CASE /\ ~(OpenNext \/ CloseFirst \/ FinishClose)
           /\ MainStep
  BY <1>4 DEF MainStep, ReadNames, Lock, Cleared, LookUpNext, LookUpFails, Prepared, Spawn,
     Snapshot, LoopTest, EnterRun, InRun, HandlePacket, HandleCrashes, HandleThrows, Poll,
     SendHeartbeat, HeartbeatThrows, Join, Return
<1>5. CASE ThrStep
  BY <1>5 DEF ThrStep, ThrTest, ThrWakes, ThrSetFlag, ThrWriteByte
<1>6. CASE EnvStep
  BY <1>6 DEF EnvStep, DevicesChange, DatagramArrives, CtrlC, SelectFails
<1>7. CASE UNCHANGED vars
  BY <1>7 DEF vars
<1>8. QED
  BY <1>1, <1>2, <1>3, <1>4, <1>5, <1>6, <1>7 DEF Next, MainStep, Ended

LEMMA AlsaKept == AP!IInv /\ [Next]_vars => AP!IInv'
<1> SUFFICES ASSUME AP!IInv, [Next]_vars PROVE AP!IInv'
  OBVIOUS
<1>1. [AP!Next]_(AP!vars)
  <2>1. CASE Alsa!Defined /\ (Alsa!UserStep \/ Alsa!FinishClose)
    BY <2>1, SameAlsa DEF Alsa!Defined, AP!Defined, AP!Next
  <2>2. CASE UNCHANGED alsaVars
    BY <2>2 DEF alsaVars, AP!vars, AP!portVars, AP!callbackVars, AP!inputVars, AP!userVars,
       NoInputs
  <2>3. QED
    BY <2>1, <2>2, AlsaStep
<1>2. QED
  BY <1>1, AlsaConstants, AP!NextKeepsIInv

LEMMA AlsaInvariance == Spec => []AP!IInv
<1>1. Init => AP!IInv
  BY SameAlsa, AlsaConstants, AP!InitIInv DEF Init
<1>2. QED
  BY <1>1, AlsaKept, PTL DEF Spec

\* Every behaviour of o2m is one of AlsaClient for its outputs: main opens and closes
\* them in no order that AlsaClient does not allow, one that ends in undefined
\* behaviour included.
THEOREM ClientIsUsedAsSpecified == Spec => Alsa!Init /\ [][Alsa!Next]_alsaVars
<1>1. Init => Alsa!Init
  BY DEF Init
<1>2. AP!IInv /\ [Next]_vars => [Alsa!Next]_alsaVars
  BY AlsaStep DEF Alsa!Next
<1>3. QED
  BY AlsaInvariance, <1>1, <1>2, PTL DEF Spec

----------------------------------------------------------------------------
(* The outputs and their Ports. *)

\* The MidiOutputs of the outputs.
Held == Range(handles) \ {NoOutput}

\* The inductive invariant behind OutputsHaveTheirPorts. Every MidiOutput is held by
\* one output; what is open is held or is being closed; main closes outputs only in a
\* rebuild and on its way out; and once nothing is open the client has gone, so that
\* the ports of the next one are in order.
OutputsInv ==
    /\ handles \in Seq(MidiOutput \cup {NoOutput})
    /\ Len(handles) = Len(outputs)
    /\ \A j, k \in DOMAIN handles : handles[j] = handles[k] /\ handles[j] # NoOutput => j = k
    /\ undef = "no" =>
          /\ user # "remove" => open = Held
          /\ user = "remove" => closing \notin Held /\ open = Held \cup {closing}
          /\ main \notin {"clear", "leave"} => user = "idle" /\ tidy
          /\ refs = 0 /\ user = "idle" => tidy

LEMMA TailFacts ==
    ASSUME NEW S, NEW s \in Seq(S), s # << >>
    PROVE  /\ Tail(s) \in Seq(S) /\ Len(Tail(s)) = Len(s) - 1
           /\ Head(s) = s[1] /\ 1 \in DOMAIN s
           /\ \A k \in DOMAIN Tail(s) : k + 1 \in DOMAIN s /\ Tail(s)[k] = s[k + 1]
           /\ \A k \in DOMAIN s : k # 1 => k - 1 \in DOMAIN Tail(s) /\ Tail(s)[k - 1] = s[k]
  OBVIOUS

\* Steps that open and close nothing, and leave no rebuild.
LEMMA OutputsLeftAlone ==
    ASSUME OutputsInv, UNCHANGED <<alsaVars, handles>>, Len(outputs') = Len(outputs),
           main \in {"clear", "leave"} => main' \in {"clear", "leave"}
    PROVE  OutputsInv'
<1>1. Held' = Held
  BY DEF Held
<1>2. QED
  BY <1>1 DEF OutputsInv, alsaVars

LEMMA OpenNextKeepsOutputs ==
    ASSUME OutputsInv, AP!IInv, PP!IInv, Up, OpenNext
    PROVE  OutputsInv'
<1>1. /\ main = "open" /\ main' = main /\ undef = "no"
      /\ user = "idle" /\ tidy /\ open = Held
  BY DEF OpenNext, OutputsInv, Up
<1>2. outputs \in Seq(PP!Port)
  BY DEF PP!IInv, PP!TypeOK
<1>3. Len(outputs') = Len(outputs) + 1
  <2> DEFINE p == Head(opening)
             d == Ports!DeviceAt(p.index)
             o == [name |-> p.name, id |-> p.id, device |-> d, live |-> d # NoDevice]
  <2>1. outputs' = Append(outputs, o)
    BY DEF OpenNext, Ports!Open
  <2> HIDE DEF o
  <2>2. QED
    BY <1>2, <2>1
<1>4. \A h \in MidiOutput \cup {NoOutput} :
         /\ Append(handles, h) \in Seq(MidiOutput \cup {NoOutput})
         /\ Len(Append(handles, h)) = Len(handles) + 1
         /\ DOMAIN Append(handles, h) = DOMAIN handles \cup {Len(handles) + 1}
         /\ Append(handles, h)[Len(handles) + 1] = h
         /\ \A k \in DOMAIN handles : k # Len(handles) + 1 /\ Append(handles, h)[k] = handles[k]
  BY DEF OutputsInv
<1>5. CASE UNCHANGED alsaVars /\ handles' = Append(handles, NoOutput)
  <2>1. Held' = Held
    BY <1>4, <1>5 DEF Held, Range
  <2>2. QED
    BY <1>1, <1>3, <1>4, <1>5, <2>1 DEF OutputsInv, alsaVars
<1>6. CASE /\ \E h \in MidiOutput : Alsa!Fresh(h)
           /\ Alsa!Open(NewOutput)
           /\ handles' = Append(handles, NewOutput)
  <2>1. NewOutput \in MidiOutput /\ NewOutput \notin Held /\ NewOutput # NoOutput
    BY <1>1, <1>6, NewIsAnOutput DEF Alsa!Fresh
  <2>2. Held' = Held \cup {NewOutput}
    BY <1>4, <1>6, <2>1 DEF Held, Range
  <2>3. open' = open \cup {NewOutput} /\ user' = user /\ tidy' = tidy
    BY <1>6 DEF Alsa!Open, Alsa!userVars
  <2>4. \A j, k \in DOMAIN handles' :
           handles'[j] = handles'[k] /\ handles'[j] # NoOutput => j = k
    BY <1>4, <1>6, <2>1 DEF OutputsInv, Held, Range
  <2>5. handles' \in Seq(MidiOutput \cup {NoOutput}) /\ Len(handles') = Len(outputs')
    BY <1>3, <1>4, <1>6, <2>1 DEF OutputsInv
  <2>6. QED
    BY <1>1, <2>2, <2>3, <2>4, <2>5 DEF OutputsInv
<1>7. QED
  BY <1>5, <1>6 DEF OpenNext

LEMMA CloseFirstKeepsOutputs ==
    ASSUME OutputsInv, PP!IInv, Up, CloseFirst
    PROVE  OutputsInv'
<1>1. /\ main \in {"clear", "leave"} /\ main' = main
      /\ user = "idle" /\ undef = "no" /\ open = Held
      /\ outputs # << >> /\ outputs' = Tail(outputs) /\ handles' = Tail(handles)
  BY DEF CloseFirst, Up, Ports!CloseFirst, OutputsInv
<1>2. outputs \in Seq(PP!Port) /\ handles \in Seq(MidiOutput \cup {NoOutput})
  BY DEF PP!IInv, PP!TypeOK, OutputsInv
<1>3. handles # << >>
  BY <1>1, <1>2 DEF OutputsInv
<1>4. /\ handles' \in Seq(MidiOutput \cup {NoOutput}) /\ Len(handles') = Len(handles) - 1
      /\ Head(handles) = handles[1] /\ 1 \in DOMAIN handles
      /\ \A k \in DOMAIN handles' : k + 1 \in DOMAIN handles /\ handles'[k] = handles[k + 1]
      /\ \A k \in DOMAIN handles :
            k # 1 => k - 1 \in DOMAIN handles' /\ handles'[k - 1] = handles[k]
  BY <1>1, <1>2, <1>3, TailFacts
<1>5. Len(outputs') = Len(outputs) - 1
  BY <1>1, <1>2, TailFacts
<1>6. \A k \in DOMAIN handles' : k \in Nat /\ k # 0
  BY <1>4
<1>7. \A j, k \in DOMAIN handles' :
         handles'[j] = handles'[k] /\ handles'[j] # NoOutput => j = k
  <2>1. SUFFICES ASSUME NEW j \in DOMAIN handles', NEW k \in DOMAIN handles',
                        handles'[j] = handles'[k], handles'[j] # NoOutput
                 PROVE  j = k
    OBVIOUS
  <2>2. j + 1 = k + 1
    BY <1>4, <2>1 DEF OutputsInv
  <2>3. QED
    BY <1>6, <2>2
<1>8. Held' = Held \ {Head(handles)}
  <2>1. ASSUME NEW k \in DOMAIN handles', handles'[k] # NoOutput
        PROVE  handles'[k] \in Held /\ handles'[k] # Head(handles)
    <3>1. k + 1 \in DOMAIN handles /\ handles'[k] = handles[k + 1] /\ k + 1 # 1
      BY <1>4, <1>6
    <3>2. QED
      BY <1>4, <2>1, <3>1 DEF OutputsInv, Held, Range
  <2>2. ASSUME NEW k \in DOMAIN handles, handles[k] # NoOutput, handles[k] # Head(handles)
        PROVE  handles[k] \in Held'
    <3>1. k - 1 \in DOMAIN handles' /\ handles'[k - 1] = handles[k]
      BY <1>4, <2>2
    <3>2. QED
      BY <2>2, <3>1 DEF Held, Range
  <2>3. QED
    BY <2>1, <2>2 DEF Held, Range
<1>9. CASE Head(handles) = NoOutput
  <2>1. UNCHANGED alsaVars /\ Held' = Held
    BY <1>8, <1>9 DEF CloseFirst, Held
  <2>2. QED
    BY <1>1, <1>4, <1>5, <1>7, <2>1 DEF OutputsInv, alsaVars
<1>10. CASE Head(handles) # NoOutput /\ Alsa!Close(Head(handles))
  <2>1. /\ user' = "remove" /\ closing' = Head(handles) /\ open' = open
        /\ closing' \in Held
    BY <1>4, <1>10 DEF Alsa!Close, Alsa!portVars, Held, Range
  <2>2. closing' \notin Held' /\ open' = Held' \cup {closing'}
    BY <1>1, <1>8, <2>1
  <2>3. QED
    BY <1>1, <1>4, <1>5, <1>7, <2>1, <2>2 DEF OutputsInv
<1>11. CASE Head(handles) # NoOutput /\ Alsa!UseDeadPort(Head(handles))
  <2>1. undef' # "no"
    BY <1>11 DEF Alsa!UseDeadPort
  <2>2. QED
    BY <1>4, <1>5, <1>7, <2>1 DEF OutputsInv
<1>12. QED
  BY <1>9, <1>10, <1>11 DEF CloseFirst

LEMMA FinishCloseKeepsOutputs ==
    ASSUME OutputsInv, Up, FinishClose
    PROVE  OutputsInv'
<1>1. /\ main' = main /\ undef = "no"
      /\ UNCHANGED <<handles, outputs>>
      /\ Alsa!FinishClose
  BY DEF FinishClose, Up, portVars
<1>2. Held' = Held
  BY <1>1 DEF Held
<1>3. user # "idle"
  BY <1>1 DEF Alsa!FinishClose, Alsa!Remove, Alsa!Destroy, Alsa!Joined
<1>4. main \in {"clear", "leave"}
  BY <1>1, <1>3 DEF OutputsInv
<1>5. CASE Alsa!Remove
  <2>1. /\ user = "remove" /\ open' = open \ {closing}
        /\ user' = (IF refs' = 0 THEN "destroy" ELSE "idle")
    BY <1>5 DEF Alsa!Remove
  <2>2. open' = Held' /\ user' # "remove" /\ ~(refs' = 0 /\ user' = "idle")
    BY <1>1, <1>2, <2>1 DEF OutputsInv
  <2>3. QED
    BY <1>1, <1>4, <2>2 DEF OutputsInv
<1>6. CASE Alsa!Destroy
  <2>1. open' = Held' /\ user' = "join"
    BY <1>1, <1>2, <1>6 DEF Alsa!Destroy, OutputsInv
  <2>2. QED
    BY <1>1, <1>4, <2>1 DEF OutputsInv
<1>7. CASE Alsa!Joined
  <2>1. undef' = "no" => open' = Held' /\ user' = "idle" /\ tidy'
    BY <1>1, <1>2, <1>7 DEF Alsa!Joined, OutputsInv
  <2>2. QED
    BY <1>1, <1>4, <2>1 DEF OutputsInv
<1>8. QED
  BY <1>1, <1>5, <1>6, <1>7 DEF Alsa!FinishClose

LEMMA ClearedKeepsOutputs ==
    ASSUME OutputsInv, AP!IInv, Up, Cleared
    PROVE  OutputsInv'
<1>1. /\ user = "idle" /\ outputs = << >> /\ undef = "no"
      /\ UNCHANGED <<alsaVars, handles, outputs>>
  BY DEF Cleared, outputVars, portVars, Up
<1>2. handles = << >>
  BY <1>1 DEF OutputsInv
<1>3. open = {}
  BY <1>1, <1>2 DEF OutputsInv, Held, Range
<1>4. tidy
  BY <1>1, <1>3, AlsaConstants, AP!NothingLeft DEF OutputsInv
<1>5. Held' = Held
  BY <1>1 DEF Held
<1>6. QED
  BY <1>1, <1>4, <1>5 DEF OutputsInv, alsaVars

LEMMA OutputsInvStep ==
    ASSUME OutputsInv, AP!IInv, PP!IInv, [Next]_vars
    PROVE  OutputsInv'
<1>1. CASE Up /\ (OpenNext \/ CloseFirst \/ FinishClose \/ Cleared)
  BY <1>1, OpenNextKeepsOutputs, CloseFirstKeepsOutputs, FinishCloseKeepsOutputs,
     ClearedKeepsOutputs
<1>2. CASE LookUpNext \/ LookUpFails
  <2>1. UNCHANGED <<alsaVars, handles, outputs>> /\ main = "open"
    BY <1>2 DEF LookUpNext, LookUpFails, Ports!LookUp, Ports!LookUpThrows
  <2>2. QED
    BY <2>1, OutputsLeftAlone
<1>3. CASE /\ ~(OpenNext \/ CloseFirst \/ FinishClose \/ Cleared \/ LookUpNext \/ LookUpFails)
           /\ MainStep
  <2>1. UNCHANGED <<alsaVars, handles, outputs>>
    BY <1>3 DEF MainStep, ReadNames, Lock, Prepared, Spawn, Snapshot, LoopTest, EnterRun, InRun,
       HandlePacket, HandleCrashes, HandleThrows, Poll, SendHeartbeat, HeartbeatThrows, Join,
       Return, outputVars, portVars
  <2>2. main \in {"clear", "leave"} => main' = main
    BY <1>3 DEF MainStep, ReadNames, Lock, Prepared, Spawn, Snapshot, LoopTest, EnterRun, InRun,
       HandlePacket, HandleCrashes, HandleThrows, Poll, SendHeartbeat, HeartbeatThrows, Join,
       Return
  <2>3. QED
    BY <2>1, <2>2, OutputsLeftAlone
<1>4. CASE ThrStep \/ DatagramArrives \/ CtrlC \/ SelectFails \/ UNCHANGED vars
  <2>1. UNCHANGED <<alsaVars, handles, outputs>>
    BY <1>4 DEF ThrStep, ThrTest, ThrWakes, ThrSetFlag, ThrWriteByte, DatagramArrives, CtrlC,
       SelectFails, vars, outputVars, portVars
  <2>2. main \in {"clear", "leave"} => main' = main
    BY <1>4 DEF ThrStep, ThrTest, ThrWakes, ThrSetFlag, ThrWriteByte, DatagramArrives, CtrlC,
       SelectFails, vars
  <2>3. QED
    BY <2>1, <2>2, OutputsLeftAlone
<1>5. CASE DevicesChange
  <2>1. UNCHANGED <<alsaVars, handles, main>>
    BY <1>5 DEF DevicesChange
  <2>2. Len(outputs') = Len(outputs)
    <3>1. CASE Ports!Plug
      BY <3>1 DEF Ports!Plug
    <3>2. CASE Ports!Unplug
      <4>1. outputs \in Seq(PP!Port) /\ DOMAIN outputs' = DOMAIN outputs
        BY <3>2 DEF Ports!Unplug, PP!IInv, PP!TypeOK
      <4>2. QED
        BY <3>2, <4>1 DEF Ports!Unplug
    <3>3. QED
      BY <1>5, <3>1, <3>2 DEF DevicesChange, Ports!Environment
  <2>3. QED
    BY <2>1, <2>2, OutputsLeftAlone
<1>6. QED
  BY <1>1, <1>2, <1>3, <1>4, <1>5 DEF Next, MainStep, EnvStep, Ended

LEMMA OutputsInvariance == Spec => [](AP!IInv /\ OutputsInv)
<1>1. Init => OutputsInv
  BY DEF Init, OutputsInv, Held, Range, Ports!Init, Alsa!Init
<1>2. QED
  BY <1>1, AlsaInvariance, PortsInvariance, OutputsInvStep, PTL DEF Spec

\* m_outputs (oscinprocessor.cpp:37) and the Ports of juce_linux_Midi.cpp: a datagram
\* never plays through an output that has lost its Port, and no Port is left over,
\* for any number of outputs and rebuilds: a rebuild that loses one ends in undefined
\* behaviour before it opens anything, and any other opens its outputs on a new client.
THEOREM OutputsKeepTheirPorts == Spec => []OutputsHaveTheirPorts
<1>1. AP!IInv /\ OutputsInv => OutputsHaveTheirPorts
  BY DEF AP!IInv, AP!TidyInv, OutputsInv, OutputsHaveTheirPorts, Held, Up
<1>2. QED
  BY <1>1, OutputsInvariance, PTL

----------------------------------------------------------------------------
(* The receive loop. *)

\* Every step of o2m is a step of SocketMultiplexer or leaves it alone.
LEMMA MuxStep == [Next]_vars => [Mux!Next]_muxVars
<1> SUFFICES ASSUME [Next]_vars, ~UNCHANGED muxVars
             PROVE  Mux!Next
  OBVIOUS
<1>1. CASE EnterRun
  BY <1>1 DEF EnterRun, Mux!Next
<1>2. CASE InRun \/ HandlePacket \/ HandleCrashes \/ HandleThrows
  BY <1>2 DEF InRun, HandlePacket, HandleCrashes, HandleThrows, Mux!Next, Mux!RunStep
<1>3. CASE ThrSetFlag \/ ThrWriteByte
  BY <1>3 DEF ThrSetFlag, ThrWriteByte, Mux!Next, Mux!AsynchronousBreak
<1>4. CASE DatagramArrives
  BY <1>4 DEF DatagramArrives, Mux!Next
<1>5. CASE CtrlC \/ SelectFails
  BY <1>5 DEF CtrlC, SelectFails, Mux!Next
<1>6. CASE /\ ~(EnterRun \/ InRun \/ HandlePacket \/ HandleCrashes \/ HandleThrows)
           /\ MainStep
  BY <1>6 DEF MainStep, ReadNames, Lock, CloseFirst, FinishClose, Cleared, LookUpNext,
     LookUpFails, OpenNext, Prepared, Spawn, Snapshot, LoopTest, Poll, SendHeartbeat,
     HeartbeatThrows, Join, Return
<1>7. CASE ThrTest \/ ThrWakes
  BY <1>7 DEF ThrTest, ThrWakes
<1>8. CASE DevicesChange
  BY <1>8 DEF DevicesChange
<1>9. CASE UNCHANGED vars
  BY <1>9 DEF vars
<1>10. QED
  BY <1>1, <1>2, <1>3, <1>4, <1>5, <1>6, <1>7, <1>8, <1>9
     DEF Next, ThrStep, EnvStep, Ended

\* In o2m, too, no break of the break thread is lost on a main thread that is
\* blocked in select().
THEOREM WakeupsInO2m == Spec => []Mux!NoLostWakeup
<1>1. Init => MP!IInv
  BY SameMux, MP!InitIInv DEF Init
<1>2. MP!IInv /\ [Next]_vars => MP!IInv'
  <2> SUFFICES ASSUME MP!IInv, [Next]_vars
               PROVE  MP!IInv'
    OBVIOUS
  <2>1. [MP!Next]_(MP!muxVars)
    BY MuxStep, SameMux DEF MP!muxVars, muxVars
  <2>2. QED
    BY <2>1, MP!NextIInv
<1>3. MP!IInv => Mux!NoLostWakeup
  BY DEF MP!IInv, MP!NoLostWakeup, Mux!NoLostWakeup
<1>4. QED
  BY <1>1, <1>2, <1>3, PTL DEF Spec

----------------------------------------------------------------------------
(* The two threads. *)

\* The inductive invariant behind BreakThreadIsAlone: who holds the mutex is where
\* it uses the OscInProcessor, main holds it while it rebuilds the outputs of a
\* process that is up, the thread is started once, and main leaves only when the
\* break thread has finished or was never started.
MutexInv ==
    /\ mutex \in {"free", "main", "thr"}
    /\ mutex = "thr" <=> thr = "asyncBreak"
    /\ status = "up" => (mutex = "main" <=> main \in {"clear", "open"})
    /\ main \in {"clear", "open"} => thr # "asyncBreak"
    /\ main = "spawn" => thr = "none"
    /\ main = "leave" => thr \in {"none", "finished"}

LEMMA MutexInvStep == MutexInv /\ [Next]_vars => MutexInv'
<1> SUFFICES ASSUME MutexInv, [Next]_vars PROVE MutexInv'
  OBVIOUS
<1> USE DEF MutexInv, Up
<1>1. CASE Up /\ (ReadNames \/ Lock \/ CloseFirst \/ FinishClose \/ Cleared \/ LookUpNext)
  BY <1>1 DEF ReadNames, Lock, CloseFirst, FinishClose, Cleared, LookUpNext
<1>2. CASE Up /\ (OpenNext \/ Prepared \/ Spawn \/ Snapshot \/ LoopTest)
  <2>1. CASE OpenNext
    BY <1>2, <2>1 DEF OpenNext
  <2>2. CASE Prepared
    BY <1>2, <2>2 DEF Prepared
  <2>3. CASE Spawn
    BY <1>2, <2>3 DEF Spawn
  <2>4. CASE Snapshot \/ LoopTest
    BY <1>2, <2>4 DEF Snapshot, LoopTest
  <2>5. QED
    BY <1>2, <2>1, <2>2, <2>3, <2>4
<1>3. CASE Up /\ (EnterRun \/ InRun \/ HandlePacket)
  BY <1>3 DEF EnterRun, InRun, HandlePacket
<1>4. CASE Up /\ LookUpFails
  <2>1. /\ main = "open" /\ mutex' = "free" /\ thr' = thr
        /\ IF thr = "none" THEN main' = "leave" /\ status' = status
           ELSE status' = "terminated" /\ main' = main
    BY <1>4 DEF LookUpFails, Raise
  <2>2. QED
    BY <1>4, <2>1
<1>5. CASE Up /\ (HandleCrashes \/ HandleThrows \/ HeartbeatThrows)
  BY <1>5 DEF HandleCrashes, HandleThrows, HeartbeatThrows, Raise
<1>6. CASE Up /\ (Poll \/ SendHeartbeat \/ Join \/ Return)
  BY <1>6 DEF Poll, SendHeartbeat, Join, Return
<1>7. CASE Up /\ ThrStep
  BY <1>7 DEF ThrStep, ThrTest, ThrWakes, ThrSetFlag, ThrWriteByte
<1>8. CASE Up /\ EnvStep
  BY <1>8 DEF EnvStep, DevicesChange, DatagramArrives, CtrlC, SelectFails, Raise
<1>9. CASE UNCHANGED vars
  BY <1>9 DEF vars
<1>10. QED
  BY <1>1, <1>2, <1>3, <1>4, <1>5, <1>6, <1>7, <1>8, <1>9 DEF Next, MainStep, Ended

\* asyncBreakThread never calls into an OscInProcessor whose outputs are being
\* rebuilt or that main has destroyed (o2m.cpp:129, 158, 241).
THEOREM BreakThreadIsAlwaysAlone == Spec => []BreakThreadIsAlone
<1>1. Init => MutexInv
  BY DEF Init, MutexInv
<1>2. MutexInv => BreakThreadIsAlone
  BY DEF MutexInv, BreakThreadIsAlone
<1>3. QED
  BY <1>1, <1>2, MutexInvStep, PTL DEF Spec

----------------------------------------------------------------------------
(* Types. *)

\* TypeOK without the part the two instances account for.
ControlTypeOK ==
    /\ main \in {"names", "lock", "clear", "open", "spawn", "snapshot", "loop", "run", "inRun",
                 "poll", "heartbeat", "join", "leave"}
    /\ thr \in {"none", "test", "sleep", "asyncBreak", "finished"}
    /\ mutex \in {"free", "main", "thr"}
    /\ wantToExit \in BOOLEAN
    /\ status \in {"up", "exit0", "exitMinus1", "terminated", "crashed"}
    /\ lastPorts \in Seq(Name)
    /\ newPorts \in Seq(Name)

LEMMA ControlTypeStep ==
    ControlTypeOK /\ devices \in Seq(Name) /\ [Next]_vars => ControlTypeOK'
<1> SUFFICES ASSUME ControlTypeOK, devices \in Seq(Name), [Next]_vars
             PROVE  ControlTypeOK'
  OBVIOUS
<1> USE DEF ControlTypeOK, hotplugVars
<1>1. CASE \/ ReadNames \/ Lock \/ CloseFirst \/ FinishClose \/ Cleared \/ LookUpNext
           \/ OpenNext
  BY <1>1 DEF ReadNames, Lock, CloseFirst, FinishClose, Cleared, LookUpNext, OpenNext
<1>2. CASE Prepared \/ Spawn \/ Snapshot \/ LoopTest
  <2>1. CASE Prepared
    <3>1. lastPorts' \in {lastPorts, newPorts}
      BY <2>1 DEF Prepared
    <3>2. main' \in {"spawn", "heartbeat"} /\ mutex' = "free"
      BY <2>1 DEF Prepared
    <3>3. UNCHANGED <<thr, wantToExit, status, newPorts>>
      BY <2>1 DEF Prepared
    <3>4. QED
      BY <3>1, <3>2, <3>3
  <2>2. CASE Spawn
    BY <2>2 DEF Spawn
  <2>3. CASE Snapshot
    BY <2>3 DEF Snapshot
  <2>4. CASE LoopTest
    BY <2>4 DEF LoopTest
  <2>5. QED
    BY <1>2, <2>1, <2>2, <2>3, <2>4
<1>3. CASE EnterRun \/ InRun \/ HandlePacket
  BY <1>3 DEF EnterRun, InRun, HandlePacket
<1>4. CASE LookUpFails \/ HandleCrashes \/ HandleThrows \/ HeartbeatThrows
  BY <1>4 DEF LookUpFails, HandleCrashes, HandleThrows, HeartbeatThrows, Raise
<1>5. CASE Poll \/ SendHeartbeat \/ Join \/ Return
  <2>1. CASE Poll
    <3>1. main' \in {"names", "heartbeat"} /\ newPorts' = devices
      BY <2>1 DEF Poll
    <3>2. UNCHANGED <<thr, mutex, wantToExit, status, lastPorts>>
      BY <2>1 DEF Poll
    <3>3. QED
      BY <3>1, <3>2
  <2>2. CASE SendHeartbeat
    BY <2>2 DEF SendHeartbeat
  <2>3. CASE Join
    BY <2>3 DEF Join
  <2>4. CASE Return
    BY <2>4 DEF Return
  <2>5. QED
    BY <1>5, <2>1, <2>2, <2>3, <2>4
<1>6. CASE ThrStep
  BY <1>6 DEF ThrStep, ThrTest, ThrWakes, ThrSetFlag, ThrWriteByte
<1>7. CASE DevicesChange \/ DatagramArrives
  BY <1>7 DEF DevicesChange, DatagramArrives
<1>8. CASE CtrlC
  <2>1. wantToExit' \in BOOLEAN
    BY <1>8, Zenon DEF CtrlC
  <2>2. main' \in {main, "poll", "inRun"}
    BY <1>8 DEF CtrlC
  <2>3. UNCHANGED <<thr, mutex, status, hotplugVars>>
    BY <1>8 DEF CtrlC
  <2>4. QED
    BY <2>1, <2>2, <2>3
<1>9. CASE SelectFails
  BY <1>9 DEF SelectFails, Raise
<1>10. CASE UNCHANGED vars
  BY <1>10 DEF vars
<1>11. QED
  BY <1>1, <1>2, <1>3, <1>4, <1>5, <1>6, <1>7, <1>8, <1>9, <1>10
     DEF Next, MainStep, EnvStep, Ended

\* The variables of o2m keep their types.
THEOREM O2mTypeCorrect == Spec => []TypeOK
<1>1. Init => ControlTypeOK
  <2> SUFFICES ASSUME Init PROVE ControlTypeOK
    OBVIOUS
  <2>1. wantToExit \in BOOLEAN
    BY Zenon DEF Init
  <2>2. QED
    BY <2>1 DEF Init, ControlTypeOK
<1>2. Init => MP!IInv
  BY SameMux, MP!InitIInv DEF Init
<1>3. PP!IInv => devices \in Seq(Name)
  BY PP!ListFacts DEF PP!IInv, PP!TypeOK
<1>4. MP!IInv /\ [Next]_vars => MP!IInv'
  <2> SUFFICES ASSUME MP!IInv, [Next]_vars
               PROVE  MP!IInv'
    OBVIOUS
  <2>1. [MP!Next]_(MP!muxVars)
    BY MuxStep, SameMux DEF MP!muxVars, muxVars
  <2>2. QED
    BY <2>1, MP!NextIInv
<1>5. PP!IInv /\ AP!IInv /\ OutputsInv /\ PreparingInv /\ MP!IInv /\ ControlTypeOK => TypeOK
  <2> SUFFICES ASSUME PP!IInv, AP!IInv, OutputsInv, PreparingInv, MP!IInv, ControlTypeOK
               PROVE  TypeOK
    OBVIOUS
  <2>1. Ports!TypeOK
    BY DEF PP!IInv, PP!TypeOK, Ports!TypeOK, PP!DeviceLists, Ports!DeviceLists,
           PP!IsInjective, Ports!IsInjective, PP!PendingPort, Ports!PendingPort,
           PP!Port, Ports!Port
  <2>2. Mux!TypeOK
    BY DEF MP!IInv, MP!TypeOK, Mux!TypeOK, MP!InsideRun, Mux!InsideRun,
           MP!Descriptor, Mux!Descriptor
  <2>3. Alsa!TypeOK
    BY DEF AP!IInv, AP!TypeOK, Alsa!TypeOK, AP!Handle, Alsa!Handle, AP!Message, Alsa!Message,
           AP!NoMessage, Alsa!NoMessage
  <2>4. handles \in Seq(MidiOutput \cup {NoOutput})
    BY DEF OutputsInv
  <2>5. QED
    BY <2>1, <2>2, <2>3, <2>4 DEF PreparingInv, ControlTypeOK, TypeOK
<1>6. QED
  BY PortsInvariance, OutputsInvariance, ControlTypeStep, <1>1, <1>2, <1>3, <1>4, <1>5, PTL DEF Spec
=============================================================================
