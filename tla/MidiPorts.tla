----------------------------- MODULE MidiPorts -----------------------------
(***************************************************************************)
(* The port objects of osmid (MidiOut, MidiIn, MidiCommon) and the tables they *)
(* share: MidiCommon's static maps from port names to JUCE indices and to   *)
(* "sticky" ids. A port object is built in two looks at the list of MIDI    *)
(* devices, the first to find the index of its name and the second to open  *)
(* that index; the list belongs to ALSA and may change in between.          *)
(***************************************************************************)
EXTENDS Integers, Sequences, Functions, SequencesExt

CONSTANTS
    Name,         \* names of MIDI devices; JUCE numbers those of twins, which are distinct
    NoDevice,     \* what openDevice(index) opens when there is no such index
    MaxDevices,   \* at most this many devices are plugged in at once
    MaxChanges    \* the device list changes at most this often

ASSUME NoDeviceAssumption == NoDevice \notin Name
ASSUME BoundsAssumption == MaxDevices \in Nat /\ MaxChanges \in Nat

VARIABLES
    devices,      \* the names MidiOutput::getDevices() would return, external
    changes,      \* how often the list has changed, external
    juceNames,    \* m_midiJuceMidiIdToName: the list when it was last looked at
    juceId,       \* m_midiNameToJuceMidiId: a map, its domain grows
    stickyId,     \* m_midiNameToStickyId: a map, its domain grows
    nStickyIds,   \* m_nStickyIds
    opening,      \* the port object under construction, in a sequence of 0 or 1
    outputs       \* the port objects, OscInProcessor::m_outputs

portVars == <<devices, changes, juceNames, juceId, stickyId, nStickyIds, opening, outputs>>
tableVars == <<juceNames, juceId, stickyId, nStickyIds>>

DeviceLists == {s \in UNION {[1..k -> Name] : k \in 0..MaxDevices} : IsInjective(s)}

\* A port object before it is opened: m_portName, m_stickyId, m_juceMidiId.
PendingPort == [name : Name, id : Nat, index : Nat]

\* An opened one. device is the device its handle was opened on, whatever
\* name was asked for; live is FALSE once that device was unplugged, which ends
\* the ALSA subscription for good.
Port == [name : Name, id : Nat, device : Name \cup {NoDevice}, live : BOOLEAN]

TypeOK ==
    /\ devices \in DeviceLists
    /\ changes \in 0..MaxChanges
    /\ juceNames \in DeviceLists
    /\ juceId \in [DOMAIN juceId -> Nat] /\ DOMAIN juceId \subseteq Name
    /\ stickyId \in [DOMAIN stickyId -> Nat] /\ DOMAIN stickyId \subseteq Name
    /\ nStickyIds \in Nat
    /\ opening \in Seq(PendingPort) /\ Len(opening) \in 0..1
    /\ outputs \in Seq(Port)

Init ==
    /\ devices \in DeviceLists
    /\ changes = 0
    /\ juceNames = << >>
    /\ juceId = << >>
    /\ stickyId = << >>
    /\ nStickyIds = 0
    /\ opening = << >>
    /\ outputs = << >>

----------------------------------------------------------------------------
(* The environment: devices come and go. A new client of the sequencer takes *)
(* the lowest free number, so a new device may enter the list anywhere.      *)

Plug ==
    /\ changes < MaxChanges
    /\ Len(devices) < MaxDevices
    /\ \E n \in Name \ Range(devices), i \in 1..Len(devices) + 1 :
          devices' = InsertAt(devices, i, n)
    /\ changes' = changes + 1
    /\ UNCHANGED <<juceNames, juceId, stickyId, nStickyIds, opening, outputs>>

Unplug ==
    /\ changes < MaxChanges
    /\ \E i \in DOMAIN devices :
          /\ devices' = RemoveAt(devices, i)
          /\ outputs' = [k \in DOMAIN outputs |->
                IF outputs[k].device = devices[i]
                THEN [outputs[k] EXCEPT !.live = FALSE] ELSE outputs[k]]
    /\ changes' = changes + 1
    /\ UNCHANGED <<juceNames, juceId, stickyId, nStickyIds, opening>>

----------------------------------------------------------------------------
(* MidiOut::MidiOut, in two steps. *)

\* getOutputNames()[i] of the list seen now.
IndexNow(n) == (CHOOSE i \in DOMAIN devices : devices[i] = n) - 1

\* Mutant: map::insert instead of operator[], an index once known stays.
InsertedMap ==
    [n \in DOMAIN juceId \cup Range(devices) |->
        IF n \in DOMAIN juceId THEN juceId[n] ELSE IndexNow(n)]

\* updateMidiDevicesNamesMapping: the names seen now get their index, and the
\* names no longer there keep the one they had.
RefreshedMap ==
    [n \in DOMAIN juceId \cup Range(devices) |->
        IF n \in Range(devices) THEN IndexNow(n) ELSE juceId[n]]

\* Mutant: the id of a port is counted from the names now present.
StickyOfReused(n) ==
    IF n \in DOMAIN stickyId THEN stickyId[n] ELSE Len(devices)

\* Mutant: the number is the last one given, not the next.
StickyOfLast(n) ==
    IF n \in DOMAIN stickyId THEN stickyId[n] ELSE nStickyIds - 1

\* The sticky id the port gets: the table's, or else the next number.
StickyOf(n) == IF n \in DOMAIN stickyId THEN stickyId[n] ELSE nStickyIds

\* Mutant: the table is refreshed only when the number of devices changed.
RegisterWhenCountChanges(n) ==
    /\ juceNames' = devices
    /\ juceId' = IF Len(devices) = Len(juceNames) THEN juceId ELSE RefreshedMap
    /\ stickyId' = [m \in DOMAIN stickyId \cup {n} |->
                        IF m = n THEN StickyOf(n) ELSE stickyId[m]]
    /\ nStickyIds' = IF n \in DOMAIN stickyId THEN nStickyIds ELSE nStickyIds + 1

\* Mutant: a name that was away gets a new id when it comes back.
RegisterAgain(n) ==
    /\ juceNames' = devices
    /\ juceId' = RefreshedMap
    /\ stickyId' = [m \in DOMAIN stickyId \cup {n} |->
                        IF m = n THEN nStickyIds ELSE stickyId[m]]
    /\ nStickyIds' = nStickyIds + 1

\* What the constructor does to the tables, whether or not it then finds the name.
Register(n) ==
    /\ juceNames' = devices
    /\ juceId' = RefreshedMap
    /\ stickyId' = [m \in DOMAIN stickyId \cup {n} |->
                        IF m = n THEN StickyOf(n) ELSE stickyId[m]]
    /\ nStickyIds' = IF n \in DOMAIN stickyId THEN nStickyIds ELSE nStickyIds + 1

\* The constructor as far as getJuceMidiIdFromName(n), which finds an index,
\* today's or an old one.
LookUp(n) ==
    /\ opening = << >>
    /\ Register(n)
    /\ n \in DOMAIN juceId'
    /\ opening' = <<[name |-> n, id |-> StickyOf(n), index |-> juceId'[n]]>>
    /\ UNCHANGED <<devices, changes, outputs>>

\* getJuceMidiIdFromName(n) throws std::out_of_range, the tables already changed.
LookUpThrows(n) ==
    /\ opening = << >>
    /\ Register(n)
    /\ n \notin DOMAIN juceId'
    /\ UNCHANGED <<devices, changes, opening, outputs>>

\* MidiOutput::openDevice(index): the device at that index of the list as it is
\* now, or a null pointer.
DeviceAt(index) ==
    IF index < Len(devices) THEN devices[index + 1] ELSE NoDevice

Open ==
    /\ opening # << >>
    /\ LET p == Head(opening)
           d == DeviceAt(p.index)
       IN  outputs' = Append(outputs,
               [name |-> p.name, id |-> p.id, device |-> d, live |-> d # NoDevice])
    /\ opening' = << >>
    /\ UNCHANGED <<devices, changes, juceNames, juceId, stickyId, nStickyIds>>

\* MidiIn::MidiIn with isVirtual: the tables change, and no device is opened.
CreateVirtual(n) ==
    /\ opening = << >>
    /\ Register(n)
    /\ UNCHANGED <<devices, changes, opening, outputs>>

\* One port is destroyed: a vector goes from front to back.
CloseFirst ==
    /\ outputs # << >>
    /\ outputs' = Tail(outputs)
    /\ UNCHANGED <<devices, changes, juceNames, juceId, stickyId, nStickyIds, opening>>

----------------------------------------------------------------------------
(* The component on its own: any caller, opening any names in any order.     *)

Environment == Plug \/ Unplug

Next ==
    \/ Environment
    \/ \E n \in Name : LookUp(n) \/ LookUpThrows(n) \/ CreateVirtual(n)
    \/ Open
    \/ CloseFirst

Spec == Init /\ [][Next]_portVars

----------------------------------------------------------------------------
(* Properties. *)

\* The heartbeat names a port by its sticky id. The table numbers the names
\* 0, 1, 2, ... without a gap or a repetition, and every port object, open or
\* under construction, carries the number the table gives its name.
StickyIdsIdentifyNames ==
    /\ IsInjective(stickyId)
    /\ Range(stickyId) = 0..(nStickyIds - 1)
    /\ \A k \in DOMAIN outputs :
          /\ outputs[k].name \in DOMAIN stickyId
          /\ outputs[k].id = stickyId[outputs[k].name]
    /\ \A k \in DOMAIN opening :
          /\ opening[k].name \in DOMAIN stickyId
          /\ opening[k].id = stickyId[opening[k].name]

\* A name once numbered keeps its number for the life of the process, however
\* often its device is unplugged, and every device list is rebuilt.
StickyIdsNeverChange ==
    [][\A n \in DOMAIN stickyId :
          n \in DOMAIN stickyId' /\ stickyId'[n] = stickyId[n]]_portVars

\* Every name of the last list looked at maps to its place in that list; only
\* names that were not in it can have an old index.
MapFollowsList ==
    \A i \in DOMAIN juceNames :
        juceNames[i] \in DOMAIN juceId /\ juceId[juceNames[i]] = i - 1

\* If the list is the same at the two looks and holds the name, the port is
\* opened on the device of that name: nothing but a change between the looks or
\* a name that is gone sends a port to a wrong device.
UndisturbedOpenIsRight ==
    [][(/\ Len(outputs') > Len(outputs)
        /\ devices = juceNames
        /\ Head(opening).name \in Range(devices))
       => Last(outputs').device = Head(opening).name]_portVars

\* README, --midiout: "open the specified output device". A port opened under a
\* name writes to the device of that name or to none. The code does not keep
\* this: see the findings.
PortsReachTheirNames ==
    \A k \in DOMAIN outputs : outputs[k].device \in {outputs[k].name, NoDevice}
=============================================================================
