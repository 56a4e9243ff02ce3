-------------------------- MODULE AlsaClientProofs --------------------------
(***************************************************************************)
(* AlsaClient for any finite set of inputs and outputs and any queue: type  *)
(* correctness, the counts, the lifetime of client and thread, and what     *)
(* closing devices in the reverse order guarantees.                         *)
(***************************************************************************)
EXTENDS AlsaClient, FiniteSetTheorems, TLAPS

USE HandleAssumption

----------------------------------------------------------------------------
(* The inductive invariant. *)

\* The Ports that exist are those in the array, each once.
PortsInv ==
    /\ \A k \in DOMAIN ports : ports[k] \in alive
    /\ \A h \in alive : \E k \in DOMAIN ports : ports[k] = h
    /\ \A j, k \in DOMAIN ports : ports[j] = ports[k] => j = k

CallbackInv ==
    /\ enabled \subseteq alive \cap open
    /\ activeCallbacks = Cardinality(enabled)

\* Who holds the client, and how far its end has got.
ClientInv ==
    /\ refs = Cardinality(open)
    /\ open # {} => client = "live"
    /\ client = "closed" <=> user = "join"
    /\ user \in {"destroy", "join"} => open = {}
    /\ user = "remove" => closing \in open /\ closing \notin enabled

\* Only with a client is there a thread, and it reads only what is there.
ThreadInv ==
    /\ running <=> input # "ended"
    /\ client = "none" => ~running
    /\ (input = "read" /\ client = "live") => queue # << >>

\* A message is addressed to the number its Port has, whatever has become of it:
\* a handle that is still in a message is not used again.
MessageInv ==
    /\ \A k \in DOMAIN queue : queue[k].dest = number[queue[k].of]
    /\ event.of \in Handle => event.dest = number[event.of]

TidyInv ==
    tidy => /\ undef # "deadPort"
            /\ \A k \in DOMAIN ports : number[ports[k]] = k - 1
            /\ alive = open

IInv ==
    /\ TypeOK
    /\ PortsInv
    /\ CallbackInv
    /\ ClientInv
    /\ ThreadInv
    /\ MessageInv
    /\ TidyInv
    /\ MessagesOfOpenDevices

LEMMA InitIInv == Init => IInv
<1> SUFFICES ASSUME Init PROVE IInv
  OBVIOUS
<1>1. TypeOK
  <2>1. /\ shouldExit \in BOOLEAN /\ running \in BOOLEAN /\ tidy \in BOOLEAN
        /\ event \in Message \cup {NoMessage} /\ called \in Handle \cup {NoHandle}
        /\ closing \in Handle \cup {NoHandle}
    BY Zenon DEF Init
  <2>2. QED
    BY <2>1 DEF Init, TypeOK
<1>2. PortsInv /\ MessageInv /\ TidyInv /\ MessagesOfOpenDevices
  BY DEF Init, PortsInv, MessageInv, TidyInv, MessagesOfOpenDevices, NoMessage
<1>3. CallbackInv /\ ClientInv /\ ThreadInv
  BY FS_EmptySet DEF Init, CallbackInv, ClientInv, ThreadInv
<1>4. QED
  BY <1>1, <1>2, <1>3 DEF IInv

----------------------------------------------------------------------------
(* Counting. *)

LEMMA FiniteHandles == \A S \in SUBSET Handle : IsFiniteSet(S) /\ Cardinality(S) \in Nat
  BY FS_Subset, FS_CardinalityType

\* What Disable does, whatever it is asked to disable.
LEMMA DisableCounts ==
    ASSUME TypeOK, CallbackInv, NEW S \in SUBSET Handle, Disable(S)
    PROVE  /\ enabled' = enabled \ S
           /\ activeCallbacks' = Cardinality(enabled')
           /\ activeCallbacks' \in Int
           /\ enabled' \in SUBSET Input
           /\ shouldExit' \in BOOLEAN
<1>1. enabled \in SUBSET Input /\ enabled \in SUBSET Handle
  BY DEF TypeOK, Handle
<1>2. IsFiniteSet(enabled) /\ Cardinality(enabled \ S) \in Nat
  BY <1>1, FiniteHandles
<1>3. Cardinality(enabled \ S) = Cardinality(enabled) - Cardinality(enabled \cap S)
  BY <1>2, FS_Difference
<1>4. enabled \cap S = S \cap enabled
  OBVIOUS
<1>5. activeCallbacks' = Cardinality(enabled \ S)
  BY <1>3, <1>4 DEF Disable, CallbackInv
<1>6. shouldExit' \in BOOLEAN
  BY Zenon DEF Disable, TypeOK
<1>7. QED
  BY <1>1, <1>2, <1>5, <1>6 DEF Disable

LEMMA AtIsAPort ==
    ASSUME TypeOK, PortsInv, NEW i \in Nat
    PROVE  /\ At(i) \subseteq alive
           /\ At(i) \in SUBSET Handle
           /\ i < Len(ports) => At(i) = {ports[i + 1]} /\ i + 1 \in DOMAIN ports
           /\ ~(i < Len(ports)) => At(i) = {}
  BY DEF At, TypeOK, PortsInv

\* While the ports are in order, a new one gets the number that is its index.
LEMMA NumberIsNextIndex ==
    ASSUME TypeOK, PortsInv, TidyInv, tidy, NEW n \in Nat, LowestFree(n)
    PROVE  n = Len(ports)
<1>1. \A k \in 1 .. Len(ports) : ports[k] \in alive /\ number[ports[k]] = k - 1
  BY DEF PortsInv, TidyInv, TypeOK
<1>2. ~(n < Len(ports))
  <2>1. SUFFICES ASSUME n < Len(ports) PROVE FALSE
    OBVIOUS
  <2>2. n + 1 \in 1 .. Len(ports)
    BY <2>1 DEF TypeOK
  <2>3. number[ports[n + 1]] = n /\ ports[n + 1] \in alive
    BY <1>1, <2>2
  <2>4. QED
    BY <2>3 DEF LowestFree
<1>3. ~(n > Len(ports))
  <2>1. SUFFICES ASSUME n > Len(ports) PROVE FALSE
    OBVIOUS
  <2>2. Len(ports) \in 0 .. n - 1
    BY <2>1 DEF TypeOK
  <2>3. PICK h \in alive : number[h] = Len(ports)
    BY <2>2 DEF LowestFree
  <2>4. PICK k \in DOMAIN ports : ports[k] = h
    BY <2>3 DEF PortsInv
  <2>5. DOMAIN ports = 1 .. Len(ports)
    BY DEF TypeOK
  <2>6. k \in 1 .. Len(ports) /\ number[h] = k - 1
    BY <1>1, <2>4, <2>5
  <2>7. QED
    BY <2>3, <2>6 DEF TypeOK
<1>4. QED
  BY <1>2, <1>3 DEF TypeOK

LEMMA NothingLeft ==
    ASSUME IInv
    PROVE  /\ activeCallbacks = 0 <=> enabled = {}
           /\ refs = 0 <=> open = {}
<1>1. enabled \in SUBSET Handle /\ open \in SUBSET Handle
  BY DEF IInv, TypeOK, Handle
<1>2. IsFiniteSet(enabled) /\ IsFiniteSet(open)
  BY <1>1, FiniteHandles
<1>3. QED
  BY <1>2, FS_EmptySet DEF IInv, CallbackInv, ClientInv

----------------------------------------------------------------------------
(* The array of Ports. *)

\* A new Port takes the place of the one it deletes, or is at the end.
LEMMA PlacedPorts ==
    ASSUME TypeOK, PortsInv, NEW n \in Nat, NEW h \in Handle, h \notin alive,
           ports' = Placed(n, h), alive' = (alive \ At(n)) \cup {h}
    PROVE  PortsInv' /\ ports' \in Seq(Handle)
<1>1. ports \in Seq(Handle) /\ DOMAIN ports = 1 .. Len(ports)
  BY DEF TypeOK
<1>2. CASE n < Len(ports)
  <2>1. /\ ports' = [ports EXCEPT ![n + 1] = h]
        /\ At(n) = {ports[n + 1]}
        /\ n + 1 \in DOMAIN ports
    BY <1>2, AtIsAPort DEF Placed
  <2>2. /\ DOMAIN ports' = DOMAIN ports
        /\ ports'[n + 1] = h
        /\ \A k \in DOMAIN ports : k # n + 1 => ports'[k] = ports[k]
    BY <2>1, <1>1
  <2>3. ports' \in Seq(Handle)
    BY <2>1, <1>1
  <2>4. \A k \in DOMAIN ports' : ports'[k] \in alive'
    BY <2>1, <2>2 DEF PortsInv
  <2>5. \A g \in alive' : \E k \in DOMAIN ports' : ports'[k] = g
    <3>1. TAKE g \in alive'
    <3>2. CASE g = h
      BY <2>1, <2>2, <3>2
    <3>3. CASE g # h
      <4>1. g \in alive /\ g # ports[n + 1]
        BY <2>1, <3>1, <3>3
      <4>2. PICK k \in DOMAIN ports : ports[k] = g
        BY <4>1 DEF PortsInv
      <4>3. QED
        BY <4>1, <4>2, <2>2
    <3>4. QED
      BY <3>2, <3>3
  <2>6. \A j, k \in DOMAIN ports' : ports'[j] = ports'[k] => j = k
    BY <2>1, <2>2 DEF PortsInv
  <2>7. QED
    BY <2>3, <2>4, <2>5, <2>6 DEF PortsInv
<1>3. CASE ~(n < Len(ports))
  <2>1. ports' = Append(ports, h) /\ At(n) = {}
    BY <1>3, AtIsAPort DEF Placed
  <2>2. /\ ports' \in Seq(Handle)
        /\ DOMAIN ports' = 1 .. Len(ports) + 1
        /\ ports'[Len(ports) + 1] = h
        /\ \A k \in DOMAIN ports : ports'[k] = ports[k]
    BY <2>1, <1>1
  <2>3. alive' = alive \cup {h}
    BY <2>1
  <2>4. \A k \in DOMAIN ports' : k \in DOMAIN ports \/ k = Len(ports) + 1
    BY <2>2, <1>1
  <2>5. DOMAIN ports \subseteq DOMAIN ports' /\ Len(ports) + 1 \in DOMAIN ports'
    BY <2>2, <1>1
  <2>6. \A k \in DOMAIN ports' : ports'[k] \in alive'
    BY <2>2, <2>3, <2>4 DEF PortsInv
  <2>7. \A g \in alive' : \E k \in DOMAIN ports' : ports'[k] = g
    BY <2>2, <2>3, <2>5 DEF PortsInv
  <2>8. \A j, k \in DOMAIN ports' : ports'[j] = ports'[k] => j = k
    BY <2>2, <2>4 DEF PortsInv
  <2>9. QED
    BY <2>2, <2>6, <2>7, <2>8 DEF PortsInv
<1>4. QED
  BY <1>2, <1>3

\* The Port at an index goes, the ones behind it move up.
LEMMA RemovedPorts ==
    ASSUME TypeOK, PortsInv, NEW i \in Nat,
           ports' = Removed(i), alive' = alive \ At(i)
    PROVE  PortsInv' /\ ports' \in Seq(Handle)
<1>1. /\ ports \in Seq(Handle) /\ Len(ports) \in Nat
      /\ DOMAIN ports = 1 .. Len(ports)
      /\ \A k \in DOMAIN ports : ports[k] \in Handle
  BY DEF TypeOK
<1>2. CASE ~(i < Len(ports))
  <2>1. ports' = ports /\ alive' = alive
    BY <1>2, AtIsAPort DEF Removed
  <2>2. QED
    BY <2>1, <1>1 DEF PortsInv
<1>3. CASE i < Len(ports)
  <2>1. At(i) = {ports[i + 1]} /\ i + 1 \in DOMAIN ports
    BY <1>3, AtIsAPort
  <2>2. ports' = [k \in 1 .. Len(ports) - 1 |-> IF k <= i THEN ports[k] ELSE ports[k + 1]]
    BY <1>3 DEF Removed
  <2>3. \A k \in 1 .. Len(ports) - 1 : k \in DOMAIN ports /\ k + 1 \in DOMAIN ports
    BY <1>1
  <2>4. Len(ports) - 1 \in Nat
    BY <1>1, <1>3
  <2>5. /\ DOMAIN ports' = 1 .. Len(ports) - 1
        /\ \A k \in DOMAIN ports' : k <= i => ports'[k] = ports[k]
        /\ \A k \in DOMAIN ports' : ~(k <= i) => ports'[k] = ports[k + 1]
    BY <2>2
  <2>6. ports' \in Seq(Handle)
    BY <2>2, <2>3, <2>4, <1>1
  <2>7. \A k \in DOMAIN ports' : ports'[k] \in alive'
    <3>1. TAKE k \in DOMAIN ports'
    <3>2. k \in Int /\ k \in DOMAIN ports /\ k + 1 \in DOMAIN ports
      BY <2>3, <2>5
    <3>3. CASE k <= i
      BY <3>1, <3>2, <3>3, <2>1, <2>5 DEF PortsInv
    <3>4. CASE ~(k <= i)
      BY <3>1, <3>2, <3>4, <2>1, <2>5 DEF PortsInv
    <3>5. QED
      BY <3>3, <3>4
  <2>8. \A g \in alive' : \E k \in DOMAIN ports' : ports'[k] = g
    <3>1. TAKE g \in alive'
    <3>2. PICK k \in DOMAIN ports : ports[k] = g
      BY DEF PortsInv
    <3>3. k # i + 1
      BY <3>1, <3>2, <2>1
    <3>4. CASE k <= i
      <4>1. k \in DOMAIN ports' /\ ports'[k] = ports[k]
        BY <3>2, <3>4, <2>5, <1>1, <1>3
      <4>2. QED
        BY <4>1, <3>2
    <3>5. CASE k > i + 1
      <4>1. k - 1 \in DOMAIN ports' /\ ~(k - 1 <= i) /\ (k - 1) + 1 = k
        BY <3>2, <3>5, <2>5, <1>1
      <4>2. QED
        BY <4>1, <3>2, <2>5
    <3>6. QED
      BY <3>2, <3>3, <3>4, <3>5, <1>1
  <2>9. \A j, k \in DOMAIN ports' : ports'[j] = ports'[k] => j = k
    <3>1. SUFFICES ASSUME NEW j \in DOMAIN ports', NEW k \in DOMAIN ports',
                          ports'[j] = ports'[k]
                   PROVE  j = k
      OBVIOUS
    <3>2. /\ j \in Int /\ j \in DOMAIN ports /\ j + 1 \in DOMAIN ports
          /\ k \in Int /\ k \in DOMAIN ports /\ k + 1 \in DOMAIN ports
      BY <2>3, <2>5
    <3>3. \A p, q \in DOMAIN ports : ports[p] = ports[q] => p = q
      BY DEF PortsInv
    <3>4. CASE j <= i /\ k <= i
      BY <3>1, <3>2, <3>3, <3>4, <2>5
    <3>5. CASE j <= i /\ ~(k <= i)
      <4>1. j = k + 1
        BY <3>1, <3>2, <3>3, <3>5, <2>5
      <4>2. QED
        BY <4>1, <3>2, <3>5
    <3>6. CASE ~(j <= i) /\ k <= i
      <4>1. j + 1 = k
        BY <3>1, <3>2, <3>3, <3>6, <2>5
      <4>2. QED
        BY <4>1, <3>2, <3>6
    <3>7. CASE ~(j <= i) /\ ~(k <= i)
      <4>1. j + 1 = k + 1
        BY <3>1, <3>2, <3>3, <3>7, <2>5
      <4>2. QED
        BY <4>1, <3>2
    <3>8. QED
      BY <3>4, <3>5, <3>6, <3>7
  <2>10. QED
    BY <2>6, <2>7, <2>8, <2>9 DEF PortsInv
<1>4. QED
  BY <1>2, <1>3
----------------------------------------------------------------------------
(* The user's steps. *)

LEMMA OpenKeepsIInv ==
    ASSUME IInv, NEW h \in Handle, Open(h)
    PROVE  IInv'
<1>1. PICK n \in 0 .. Cardinality(alive) :
         /\ LowestFree(n)
         /\ number' = [number EXCEPT ![h] = n]
         /\ ports' = Placed(n, h)
         /\ alive' = (alive \ At(n)) \cup {h}
         /\ Disable(At(n))
  BY DEF Open
<1>2. /\ user = "idle" /\ user' = "idle"
      /\ client' = "live" /\ refs' = refs + 1 /\ open' = open \cup {h}
      /\ UNCHANGED <<running, input, event, called, closing, queue, tidy, undef>>
  BY DEF Open, inputVars, userVars
<1>3. /\ h \notin open /\ h \notin alive /\ h # called /\ h # event.of
      /\ \A k \in DOMAIN queue : queue[k].of # h
  BY DEF Open, Fresh
<1>4. TypeOK /\ PortsInv /\ CallbackInv /\ ClientInv /\ ThreadInv /\ MessageInv /\ TidyInv
      /\ MessagesOfOpenDevices
  BY DEF IInv
<1>5. n \in Nat
  BY <1>4, FiniteHandles DEF TypeOK
<1>6. At(n) \subseteq alive /\ At(n) \in SUBSET Handle
  BY <1>4, <1>5, AtIsAPort
<1>7. PortsInv' /\ ports' \in Seq(Handle)
  BY <1>1, <1>3, <1>4, <1>5, PlacedPorts
<1>8. /\ enabled' = enabled \ At(n)
      /\ activeCallbacks' = Cardinality(enabled')
      /\ activeCallbacks' \in Int /\ enabled' \in SUBSET Input /\ shouldExit' \in BOOLEAN
  BY <1>1, <1>4, <1>6, DisableCounts
<1>9. IsFiniteSet(open) /\ refs' = Cardinality(open') /\ refs' \in Nat
  <2>1. IsFiniteSet(open) /\ Cardinality(open) \in Nat
    BY <1>4, FiniteHandles DEF TypeOK
  <2>2. Cardinality(open \cup {h}) = Cardinality(open) + 1
    BY <1>3, <2>1, FS_AddElement
  <2>3. QED
    BY <1>2, <1>4, <2>1, <2>2 DEF ClientInv
<1>10. /\ number' \in [Handle -> Nat] /\ number'[h] = n
       /\ \A g \in Handle : g # h => number'[g] = number[g]
  BY <1>1, <1>4, <1>5 DEF TypeOK
<1>11. TypeOK'
  <2>1. alive' \in SUBSET Handle /\ open' \in SUBSET Handle
    BY <1>1, <1>2, <1>4 DEF TypeOK
  <2>2. QED
    BY <1>2, <1>4, <1>7, <1>8, <1>9, <1>10, <2>1 DEF TypeOK
<1>12. CallbackInv'
  BY <1>1, <1>2, <1>4, <1>8 DEF CallbackInv
<1>13. ClientInv'
  BY <1>2, <1>9 DEF ClientInv
<1>14. ThreadInv'
  BY <1>2, <1>4 DEF ThreadInv, ClientInv, TypeOK
<1>15. MessageInv'
  <2>1. queue \in Seq(Message)
    BY <1>4 DEF TypeOK
  <2>2. \A k \in DOMAIN queue : queue[k] \in Message
    BY <2>1
  <2>3. \A k \in DOMAIN queue : queue[k].of \in Handle /\ queue[k].of # h
    BY <1>3, <2>2 DEF Message
  <2>4. QED
    BY <1>2, <1>3, <1>4, <1>10, <2>3 DEF MessageInv
<1>16. TidyInv'
  <2>1. SUFFICES ASSUME tidy
                 PROVE  /\ undef # "deadPort"
                        /\ \A k \in DOMAIN ports' : number'[ports'[k]] = k - 1
                        /\ alive' = open'
    BY <1>2 DEF TidyInv
  <2>2. n = Len(ports)
    BY <1>1, <1>4, <1>5, <2>1, NumberIsNextIndex
  <2>3. ports' = Append(ports, h) /\ At(n) = {}
    BY <1>1, <1>4, <1>5, <2>2, AtIsAPort DEF Placed, TypeOK
  <2>4. alive' = open' /\ undef # "deadPort"
    BY <1>1, <1>2, <1>4, <2>1, <2>3 DEF TidyInv
  <2>5. \A k \in DOMAIN ports : ports[k] \in Handle /\ ports[k] # h /\ number[ports[k]] = k - 1
    BY <1>3, <1>4, <2>1 DEF TidyInv, PortsInv, TypeOK
  <2>6. \A k \in DOMAIN ports' :
           \/ k \in DOMAIN ports /\ ports'[k] = ports[k]
           \/ k = Len(ports) + 1 /\ ports'[k] = h
    BY <1>4, <2>3 DEF TypeOK
  <2>7. Len(ports) \in Nat
    BY <1>4 DEF TypeOK
  <2>8. QED
    BY <1>10, <2>2, <2>4, <2>5, <2>6, <2>7
<1>17. MessagesOfOpenDevices'
  BY <1>2, <1>3, <1>4 DEF MessagesOfOpenDevices
<1>18. QED
  BY <1>7, <1>11, <1>12, <1>13, <1>14, <1>15, <1>16, <1>17 DEF IInv

LEMMA StartKeepsIInv ==
    ASSUME IInv, NEW h \in Handle, Start(h)
    PROVE  IInv'
<1> USE DEF IInv
<1>1. /\ user = "idle" /\ h \in open /\ h \in alive /\ h \in Input /\ h \notin enabled
      /\ enabled' = enabled \cup {h} /\ activeCallbacks' = activeCallbacks + 1
      /\ UNCHANGED <<client, refs, ports, alive, number, open, tidy, event, called, user,
                     closing, queue, undef>>
  BY DEF Start, portVars, userVars
<1>2. client = "live"
  BY <1>1 DEF ClientInv
<1>3. activeCallbacks' = Cardinality(enabled')
  <2>1. IsFiniteSet(enabled) /\ Cardinality(enabled) \in Nat
    BY FiniteHandles DEF TypeOK, Handle
  <2>2. QED
    BY <1>1, <2>1, FS_AddElement DEF CallbackInv
<1>4. /\ shouldExit' \in BOOLEAN /\ running' \in BOOLEAN
      /\ input' \in {input, "begin"}
      /\ running' <=> input' # "ended"
  <2>1. CASE activeCallbacks = 0 /\ running
    BY Zenon, <2>1 DEF Start, ThreadInv
  <2>2. CASE activeCallbacks = 0 /\ ~running
    BY <2>2 DEF Start
  <2>3. CASE activeCallbacks # 0
    BY <2>3 DEF Start, TypeOK, ThreadInv
  <2>4. QED
    BY <2>1, <2>2, <2>3
<1>5. TypeOK'
  BY <1>1, <1>4 DEF TypeOK
<1>6. PortsInv' /\ TidyInv' /\ MessageInv'
  BY <1>1 DEF PortsInv, TidyInv, MessageInv
<1>7. CallbackInv' /\ ClientInv' /\ ThreadInv'
  BY <1>1, <1>2, <1>3, <1>4 DEF CallbackInv, ClientInv, ThreadInv
<1>8. MessagesOfOpenDevices'
  BY <1>1, <1>4 DEF MessagesOfOpenDevices
<1>9. QED
  BY <1>5, <1>6, <1>7, <1>8

\* Stop and Close disable a callback and leave everything else but user and closing.
LEMMA DisablingKeeps ==
    ASSUME IInv, NEW S \in SUBSET Handle, Disable(S),
           UNCHANGED <<portVars, running, inputVars, queue, undef>>
    PROVE  /\ PortsInv' /\ CallbackInv' /\ ThreadInv' /\ MessageInv' /\ TidyInv'
           /\ MessagesOfOpenDevices'
           /\ user' \in {"idle", "remove", "destroy", "join"} /\ closing' \in Handle \cup {NoHandle}
                => TypeOK'
<1> USE DEF IInv, portVars, inputVars
<1>1. /\ enabled' = enabled \ S
      /\ activeCallbacks' = Cardinality(enabled')
      /\ activeCallbacks' \in Int /\ enabled' \in SUBSET Input /\ shouldExit' \in BOOLEAN
  BY DisableCounts
<1>2. PortsInv' /\ ThreadInv' /\ MessageInv' /\ TidyInv' /\ MessagesOfOpenDevices'
  BY DEF PortsInv, ThreadInv, MessageInv, TidyInv, MessagesOfOpenDevices
<1>3. CallbackInv'
  BY <1>1 DEF CallbackInv
<1>4. user' \in {"idle", "remove", "destroy", "join"} /\ closing' \in Handle \cup {NoHandle}
         => TypeOK'
  BY <1>1 DEF TypeOK
<1>5. QED
  BY <1>2, <1>3, <1>4

LEMMA StopKeepsIInv ==
    ASSUME IInv, NEW h \in Handle, Stop(h)
    PROVE  IInv'
<1>1. /\ Disable({h}) /\ {h} \in SUBSET Handle
      /\ UNCHANGED <<portVars, running, inputVars, userVars, queue, undef>>
  BY DEF Stop
<1>2. enabled' = enabled \ {h}
  BY <1>1 DEF Disable
<1>3. ClientInv' /\ user' \in {"idle", "remove", "destroy", "join"}
      /\ closing' \in Handle \cup {NoHandle}
  BY <1>1, <1>2 DEF IInv, ClientInv, portVars, userVars, TypeOK
<1>4. QED
  BY <1>1, <1>3, DisablingKeeps DEF IInv

LEMMA CloseKeepsIInv ==
    ASSUME IInv, NEW h \in Handle, Close(h)
    PROVE  IInv'
<1>1. /\ Disable({h}) /\ {h} \in SUBSET Handle
      /\ h \in open /\ user = "idle" /\ user' = "remove" /\ closing' = h
      /\ UNCHANGED <<portVars, running, inputVars, queue, undef>>
  BY DEF Close
<1>2. enabled' = enabled \ {h}
  BY <1>1 DEF Disable
<1>3. ClientInv'
  BY <1>1, <1>2 DEF IInv, ClientInv, portVars
<1>4. QED
  BY <1>1, <1>3, DisablingKeeps DEF IInv

LEMMA UseDeadPortKeepsIInv ==
    ASSUME IInv, NEW h \in Handle, UseDeadPort(h)
    PROVE  IInv'
<1> USE DEF IInv, UseDeadPort, portVars, callbackVars, inputVars, userVars
<1>1. TypeOK' /\ PortsInv' /\ CallbackInv' /\ ClientInv'
  BY DEF TypeOK, PortsInv, CallbackInv, ClientInv
<1>2. ThreadInv' /\ MessageInv' /\ MessagesOfOpenDevices'
  BY DEF ThreadInv, MessageInv, MessagesOfOpenDevices
<1>3. TidyInv'
  BY DEF TidyInv
<1>4. QED
  BY <1>1, <1>2, <1>3

----------------------------------------------------------------------------
(* The end of a device, and of the client. *)

LEMMA RemoveKeepsIInv ==
    ASSUME IInv, Remove
    PROVE  IInv'
<1> DEFINE i == number[closing]
<1>1. /\ user = "remove"
      /\ ports' = Removed(i) /\ alive' = alive \ At(i)
      /\ open' = open \ {closing} /\ refs' = refs - 1
      /\ Disable(At(i))
      /\ tidy' = (tidy /\ \A h \in alive : number[h] <= i)
      /\ user' = (IF refs' = 0 THEN "destroy" ELSE "idle")
      /\ closing' = NoHandle
      /\ UNCHANGED <<client, number, running, input, event, called, queue, undef>>
  BY DEF Remove, Released, inputVars
<1>2. TypeOK /\ PortsInv /\ CallbackInv /\ ClientInv /\ ThreadInv /\ MessageInv /\ TidyInv
      /\ MessagesOfOpenDevices
  BY DEF IInv
<1>3. closing \in open /\ closing \in Handle /\ closing \notin enabled /\ i \in Nat
  BY <1>1, <1>2 DEF ClientInv, TypeOK
<1>4. client = "live"
  BY <1>2, <1>3 DEF ClientInv
<1> HIDE DEF i
<1>5. At(i) \in SUBSET Handle
  BY <1>2, <1>3, AtIsAPort
<1>6. PortsInv' /\ ports' \in Seq(Handle)
  BY <1>1, <1>2, <1>3, RemovedPorts
<1>7. /\ enabled' = enabled \ At(i)
      /\ activeCallbacks' = Cardinality(enabled')
      /\ activeCallbacks' \in Int /\ enabled' \in SUBSET Input /\ shouldExit' \in BOOLEAN
  BY <1>1, <1>2, <1>5, DisableCounts
<1>8. /\ refs' = Cardinality(open') /\ refs' \in Nat
      /\ refs' = 0 <=> open' = {}
  <2>1. IsFiniteSet(open) /\ Cardinality(open) \in Nat
    BY <1>2, FiniteHandles DEF TypeOK
  <2>2. open' \in SUBSET Handle
    BY <1>1, <1>2 DEF TypeOK
  <2>3. IsFiniteSet(open') /\ Cardinality(open') \in Nat
    BY <2>2, FiniteHandles
  <2>4. Cardinality(open') = Cardinality(open) - 1
    BY <1>1, <1>3, <2>1, FS_RemoveElement
  <2>5. Cardinality(open') = 0 <=> open' = {}
    BY <2>3, FS_EmptySet
  <2>6. QED
    BY <1>1, <1>2, <2>3, <2>4, <2>5 DEF ClientInv
<1>9. tidy' \in BOOLEAN /\ user' \in {"idle", "destroy"}
  BY Zenon, <1>1
<1>10. TypeOK'
  <2>1. alive' \in SUBSET Handle /\ open' \in SUBSET Handle
    BY <1>1, <1>2 DEF TypeOK
  <2>2. QED
    BY <1>1, <1>2, <1>6, <1>7, <1>8, <1>9, <2>1 DEF TypeOK
<1>11. CallbackInv'
  BY <1>1, <1>2, <1>3, <1>7 DEF CallbackInv
<1>12. ClientInv'
  BY <1>1, <1>2, <1>4, <1>8 DEF ClientInv
<1>13. ThreadInv' /\ MessageInv'
  BY <1>1, <1>2 DEF ThreadInv, MessageInv
<1>14. TidyInv'
  <2>1. SUFFICES ASSUME tidy, \A h \in alive : number[h] <= i
                 PROVE  /\ undef # "deadPort"
                        /\ \A k \in DOMAIN ports' : number[ports'[k]] = k - 1
                        /\ alive' = open'
    BY <1>1 DEF TidyInv
  <2>2. /\ undef # "deadPort" /\ alive = open
        /\ \A k \in DOMAIN ports : ports[k] \in alive /\ number[ports[k]] = k - 1
    BY <1>2, <2>1 DEF TidyInv, PortsInv
  <2>3. Len(ports) \in Nat /\ DOMAIN ports = 1 .. Len(ports)
    BY <1>2 DEF TypeOK
  <2>4. PICK c \in DOMAIN ports : ports[c] = closing
    BY <1>2, <1>3, <2>2 DEF PortsInv
  <2>5. i = c - 1
    BY <2>2, <2>4 DEF i
  <2>6. c = Len(ports)
    <3>1. Len(ports) \in DOMAIN ports
      BY <2>3, <2>4
    <3>2. Len(ports) - 1 <= i
      BY <2>1, <2>2, <3>1
    <3>3. QED
      BY <2>3, <2>4, <2>5, <3>2
  <2>7. i < Len(ports) /\ i + 1 = c
    BY <2>3, <2>5, <2>6
  <2>8. At(i) = {closing}
    BY <1>2, <1>3, <2>4, <2>7, AtIsAPort
  <2>9. alive' = open'
    BY <1>1, <2>2, <2>8
  <2>10. ports' = [k \in 1 .. Len(ports) - 1 |-> IF k <= i THEN ports[k] ELSE ports[k + 1]]
    BY <1>1, <2>7 DEF Removed
  <2>11. \A k \in DOMAIN ports' : k \in DOMAIN ports /\ ports'[k] = ports[k]
    BY <2>3, <2>5, <2>6, <2>10
  <2>12. QED
    BY <2>2, <2>9, <2>11
<1>15. MessagesOfOpenDevices'
  BY <1>1, <1>2 DEF MessagesOfOpenDevices
<1>16. QED
  BY <1>6, <1>10, <1>11, <1>12, <1>13, <1>14, <1>15 DEF IInv

LEMMA DestroyKeepsIInv ==
    ASSUME IInv, Destroy
    PROVE  IInv'
<1> USE DEF IInv, Destroy, inputVars
<1>1. shouldExit' \in BOOLEAN
  BY Zenon DEF TypeOK
<1>2. TypeOK' /\ PortsInv' /\ CallbackInv'
  BY <1>1 DEF TypeOK, PortsInv, CallbackInv
<1>3. ClientInv' /\ ThreadInv'
  BY DEF ClientInv, ThreadInv
<1>4. MessageInv' /\ TidyInv' /\ MessagesOfOpenDevices'
  BY DEF MessageInv, TidyInv, MessagesOfOpenDevices
<1>5. QED
  BY <1>2, <1>3, <1>4

LEMMA JoinedKeepsIInv ==
    ASSUME IInv, Defined, Joined
    PROVE  IInv'
<1> USE DEF IInv
<1>1. /\ user = "join" /\ ~running
      /\ UNCHANGED <<refs, ports, alive, number, open, enabled, running, input, event, called,
                     closing, queue>>
  BY DEF Joined, ThreadEnded, inputVars
<1>2. open = {} /\ enabled = {} /\ input = "ended" /\ client = "closed"
  BY <1>1 DEF ClientInv, CallbackInv, ThreadInv
<1>3. CASE ports = << >>
  <2>1. /\ client' = "none" /\ user' = "idle" /\ tidy' = TRUE /\ shouldExit' = FALSE
        /\ activeCallbacks' = 0 /\ undef' = undef
    BY <1>3 DEF Joined
  <2>2. alive = {}
    BY <1>3 DEF PortsInv
  <2>3. TypeOK' /\ PortsInv'
    <3>1. tidy' \in BOOLEAN /\ shouldExit' \in BOOLEAN
      BY Zenon, <2>1
    <3>2. TypeOK'
      BY <1>1, <2>1, <3>1 DEF TypeOK
    <3>3. PortsInv'
      BY <1>1 DEF PortsInv
    <3>4. QED
      BY <3>2, <3>3
  <2>4. CallbackInv'
    BY <1>1, <1>2, <2>1, FS_EmptySet DEF CallbackInv
  <2>5. ClientInv' /\ ThreadInv' /\ MessageInv' /\ MessagesOfOpenDevices'
    BY <1>1, <1>2, <2>1 DEF ClientInv, ThreadInv, MessageInv, MessagesOfOpenDevices
  <2>6. undef # "deadPort"
    BY DEF Defined
  <2>7. TidyInv'
    BY <1>1, <1>2, <1>3, <2>1, <2>2, <2>6 DEF TidyInv
  <2>8. QED
    BY <2>3, <2>4, <2>5, <2>7
<1>4. CASE ports # << >>
  <2>1. /\ undef' = "closedSequencer"
        /\ UNCHANGED <<client, user, tidy, shouldExit, activeCallbacks>>
    BY <1>4 DEF Joined
  <2>2. QED
    BY <1>1, <2>1 DEF TypeOK, PortsInv, CallbackInv, ClientInv, ThreadInv, MessageInv, TidyInv,
       MessagesOfOpenDevices
<1>5. QED
  BY <1>3, <1>4

----------------------------------------------------------------------------
(* The input thread's steps, and the devices'. *)

\* Steps that leave the ports, the callbacks and the user alone.
LEMMA PortsAreLeftAlone ==
    ASSUME IInv, UNCHANGED <<portVars, callbackVars, userVars>>
    PROVE  PortsInv' /\ CallbackInv' /\ ClientInv'
  BY DEF IInv, PortsInv, CallbackInv, ClientInv, portVars, callbackVars, userVars

\* Steps to a place where the thread has nothing to read and calls nobody.
LEMMA MovingOnKeepsIInv ==
    ASSUME IInv, UNCHANGED <<portVars, callbackVars, userVars, queue, undef>>,
           input # "ended",
           input' \in {"test", "poll", "size", "enabled", "call", "pending", "leave"},
           event' \in {event, NoMessage}, called' \in {called, NoHandle}
    PROVE  IInv'
<1>1. PortsInv' /\ CallbackInv' /\ ClientInv'
  BY PortsAreLeftAlone
<1> USE DEF IInv, portVars, callbackVars, userVars
<1>2. TypeOK'
  BY DEF TypeOK
<1>3. ThreadInv' /\ TidyInv' /\ MessagesOfOpenDevices'
  BY DEF ThreadInv, TidyInv, MessagesOfOpenDevices
<1>4. MessageInv'
  BY DEF MessageInv, NoMessage
<1>5. QED
  BY <1>1, <1>2, <1>3, <1>4

\* What a closed sequencer is asked for is undefined, and nothing else changes.
LEMMA ClosedSequencerKeepsIInv ==
    ASSUME IInv, undef' = "closedSequencer",
           UNCHANGED <<portVars, callbackVars, userVars, queue, inputVars>>
    PROVE  IInv'
<1>1. PortsInv' /\ CallbackInv' /\ ClientInv'
  BY PortsAreLeftAlone
<1> USE DEF IInv, portVars, callbackVars, userVars, inputVars
<1>2. TypeOK' /\ ThreadInv' /\ TidyInv'
  BY DEF TypeOK, ThreadInv, TidyInv
<1>3. MessageInv' /\ MessagesOfOpenDevices'
  BY DEF MessageInv, MessagesOfOpenDevices
<1>4. QED
  BY <1>1, <1>2, <1>3

LEMMA BeginKeepsIInv == ASSUME IInv, Begin PROVE IInv'
<1>1. CASE client = "live"
  BY <1>1, MovingOnKeepsIInv DEF Begin, AskSequencer
<1>2. CASE client # "live"
  BY <1>2, ClosedSequencerKeepsIInv DEF Begin, AskSequencer
<1>3. QED
  BY <1>1, <1>2

LEMMA TestExitKeepsIInv == ASSUME IInv, TestExit PROVE IInv'
  BY MovingOnKeepsIInv DEF TestExit

LEMMA PollTimesOutKeepsIInv == ASSUME IInv, PollTimesOut PROVE IInv'
  BY MovingOnKeepsIInv DEF PollTimesOut

LEMMA PollReturnsKeepsIInv == ASSUME IInv, PollReturns PROVE IInv'
<1>1. CASE shouldExit
  BY <1>1, MovingOnKeepsIInv DEF PollReturns
<1>2. CASE ~shouldExit
  <2>1. /\ input = "poll" /\ input' = "read"
        /\ queue # << >> \/ client # "live"
        /\ UNCHANGED <<portVars, callbackVars, event, called, userVars, queue, undef>>
    BY <1>2 DEF PollReturns
  <2>2. PortsInv' /\ CallbackInv' /\ ClientInv'
    BY <2>1, PortsAreLeftAlone
  <2> USE DEF IInv, portVars, callbackVars, userVars
  <2>3. TypeOK'
    BY <2>1 DEF TypeOK
  <2>4. ThreadInv' /\ TidyInv'
    BY <2>1 DEF ThreadInv, TidyInv
  <2>5. MessageInv' /\ MessagesOfOpenDevices'
    BY <2>1 DEF MessageInv, MessagesOfOpenDevices
  <2>6. QED
    BY <2>2, <2>3, <2>4, <2>5
<1>3. QED
  BY <1>1, <1>2

LEMMA ReadKeepsIInv == ASSUME IInv, Read PROVE IInv'
<1>1. CASE client = "live"
  <2>1. /\ input = "read" /\ input' = "size"
        /\ event' = Head(queue) /\ queue' = Tail(queue)
        /\ UNCHANGED <<portVars, callbackVars, called, userVars, undef>>
    BY <1>1 DEF Read, AskSequencer
  <2>2. PortsInv' /\ CallbackInv' /\ ClientInv'
    BY <2>1, PortsAreLeftAlone
  <2> USE DEF IInv, portVars, callbackVars, userVars
  <2>3. queue \in Seq(Message) /\ queue # << >>
    BY <1>1, <2>1 DEF TypeOK, ThreadInv
  <2>4. /\ Head(queue) = queue[1] /\ 1 \in DOMAIN queue
        /\ Tail(queue) \in Seq(Message)
        /\ \A k \in DOMAIN Tail(queue) : k + 1 \in DOMAIN queue /\ Tail(queue)[k] = queue[k + 1]
    BY <2>3
  <2>5. event' \in Message /\ event' = queue[1]
    BY <2>1, <2>3, <2>4
  <2>6. TypeOK'
    BY <2>1, <2>4, <2>5 DEF TypeOK
  <2>7. ThreadInv' /\ TidyInv' /\ MessagesOfOpenDevices'
    BY <2>1 DEF ThreadInv, TidyInv, MessagesOfOpenDevices
  <2>8. MessageInv'
    BY <2>1, <2>4, <2>5 DEF MessageInv
  <2>9. QED
    BY <2>2, <2>6, <2>7, <2>8
<1>2. CASE client # "live"
  BY <1>2, ClosedSequencerKeepsIInv DEF Read, AskSequencer
<1>3. QED
  BY <1>1, <1>2

LEMMA CheckSizeKeepsIInv == ASSUME IInv, CheckSize PROVE IInv'
  BY MovingOnKeepsIInv DEF CheckSize

\* A look through the null pointer is undefined, and nothing else changes.
LEMMA NoPortKeepsIInv ==
    ASSUME IInv, undef' = "noPort",
           UNCHANGED <<portVars, callbackVars, userVars, queue, inputVars>>
    PROVE  IInv'
<1>1. PortsInv' /\ CallbackInv' /\ ClientInv'
  BY PortsAreLeftAlone
<1> USE DEF IInv, portVars, callbackVars, userVars, inputVars
<1>2. TypeOK' /\ ThreadInv' /\ TidyInv'
  BY DEF TypeOK, ThreadInv, TidyInv
<1>3. MessageInv' /\ MessagesOfOpenDevices'
  BY DEF MessageInv, MessagesOfOpenDevices
<1>4. QED
  BY <1>1, <1>2, <1>3

LEMMA CheckEnabledKeepsIInv == ASSUME IInv, CheckEnabled PROVE IInv'
<1>1. CASE event.dest < Len(ports)
  <2>1. /\ input = "enabled" /\ input' \in {"call", "pending"}
        /\ UNCHANGED <<portVars, callbackVars, event, called, userVars, queue, undef>>
    BY <1>1 DEF CheckEnabled, AskPort
  <2>2. QED
    BY <2>1, MovingOnKeepsIInv
<1>2. CASE ~(event.dest < Len(ports))
  <2>1. undef' = "noPort"
        /\ UNCHANGED <<portVars, callbackVars, userVars, queue, inputVars>>
    BY <1>2 DEF CheckEnabled, AskPort, inputVars
  <2>2. QED
    BY <2>1, NoPortKeepsIInv
<1>3. QED
  BY <1>1, <1>2

\* Where the ports are in order, the Port at the index is the one the message came from.
LEMMA CallKeepsIInv == ASSUME IInv, Call PROVE IInv'
<1> USE DEF IInv, portVars, callbackVars, userVars
<1>1. input = "call" /\ UNCHANGED <<portVars, callbackVars, event, userVars, queue>>
  BY DEF Call
<1>2. PortsInv' /\ CallbackInv' /\ ClientInv'
  BY <1>1, PortsAreLeftAlone
<1>3. MessageInv'
  BY <1>1 DEF MessageInv
<1>4. CASE event.dest < Len(ports)
  <2>1. called' = ports[event.dest + 1] /\ input' = "callback" /\ undef' = undef
    BY <1>4 DEF Call, AskPort
  <2>2. event.dest \in Nat
    BY DEF TypeOK, Message, NoMessage
  <2>3. event.dest + 1 \in DOMAIN ports /\ called' \in Handle
    BY <1>4, <2>1, <2>2 DEF TypeOK
  <2>4. TypeOK'
    BY <1>1, <2>1, <2>3 DEF TypeOK
  <2>5. ThreadInv' /\ TidyInv'
    BY <1>1, <2>1 DEF ThreadInv, TidyInv
  <2>6. MessagesOfOpenDevices'
    <3>1. SUFFICES ASSUME tidy, event.of \in open
                   PROVE  called' = event.of
      BY <1>1 DEF MessagesOfOpenDevices
    <3>2. event.of \in Handle /\ event.of \in alive
      BY <3>1 DEF TidyInv, TypeOK
    <3>3. event.dest = number[event.of]
      BY <3>2 DEF MessageInv
    <3>4. PICK k \in DOMAIN ports : ports[k] = event.of
      BY <3>2 DEF PortsInv
    <3>5. number[ports[k]] = k - 1 /\ k \in Nat
      BY <3>1, <3>4 DEF TidyInv, TypeOK
    <3>6. event.dest + 1 = k
      BY <3>3, <3>4, <3>5
    <3>7. QED
      BY <2>1, <3>4, <3>6
  <2>7. QED
    BY <1>2, <1>3, <2>4, <2>5, <2>6
<1>5. CASE ~(event.dest < Len(ports))
  <2>1. undef' = "noPort" /\ UNCHANGED inputVars
    BY <1>1, <1>5 DEF Call, AskPort, inputVars
  <2>2. QED
    BY <1>1, <2>1, NoPortKeepsIInv
<1>6. QED
  BY <1>4, <1>5

LEMMA CallbackReturnsKeepsIInv == ASSUME IInv, CallbackReturns PROVE IInv'
  BY MovingOnKeepsIInv DEF CallbackReturns

LEMMA CallbackThrowsKeepsIInv == ASSUME IInv, CallbackThrows PROVE IInv'
  BY MovingOnKeepsIInv DEF CallbackThrows

LEMMA PendingKeepsIInv == ASSUME IInv, Pending PROVE IInv'
<1>1. CASE client = "live" /\ queue = << >>
  BY <1>1, MovingOnKeepsIInv DEF Pending, AskSequencer
<1>2. CASE client = "live" /\ queue # << >>
  <2>1. /\ input = "pending" /\ input' = "read" /\ event' = NoMessage
        /\ UNCHANGED <<portVars, callbackVars, called, userVars, queue, undef>>
    BY <1>2 DEF Pending, AskSequencer
  <2>2. PortsInv' /\ CallbackInv' /\ ClientInv'
    BY <2>1, PortsAreLeftAlone
  <2> USE DEF IInv, portVars, callbackVars, userVars
  <2>3. TypeOK'
    BY <2>1 DEF TypeOK
  <2>4. ThreadInv' /\ TidyInv' /\ MessagesOfOpenDevices'
    BY <1>2, <2>1 DEF ThreadInv, TidyInv, MessagesOfOpenDevices
  <2>5. MessageInv'
    BY <2>1 DEF MessageInv, NoMessage
  <2>6. QED
    BY <2>2, <2>3, <2>4, <2>5
<1>3. CASE client # "live"
  BY <1>3, ClosedSequencerKeepsIInv DEF Pending, AskSequencer
<1>4. QED
  BY <1>1, <1>2, <1>3

LEMMA LeaveKeepsIInv == ASSUME IInv, Leave PROVE IInv'
<1>1. /\ input' = "ended" /\ event' = NoMessage /\ running' = FALSE
      /\ UNCHANGED <<portVars, enabled, activeCallbacks, shouldExit, called, userVars, queue,
                     undef>>
  BY DEF Leave
<1> USE DEF IInv, portVars, userVars
<1>2. PortsInv' /\ CallbackInv' /\ ClientInv'
  BY <1>1 DEF PortsInv, CallbackInv, ClientInv
<1>3. running' \in BOOLEAN
  BY Zenon, <1>1
<1>4. TypeOK'
  BY <1>1, <1>3 DEF TypeOK
<1>5. ThreadInv' /\ TidyInv' /\ MessagesOfOpenDevices'
  BY <1>1 DEF ThreadInv, TidyInv, MessagesOfOpenDevices
<1>6. MessageInv'
  BY <1>1 DEF MessageInv, NoMessage
<1>7. QED
  BY <1>2, <1>4, <1>5, <1>6

LEMMA ArriveKeepsIInv == ASSUME IInv, NEW h \in Input, Arrive(h) PROVE IInv'
<1> DEFINE m == [dest |-> number[h], of |-> h]
<1>1. /\ queue' = Append(queue, m)
      /\ UNCHANGED <<portVars, callbackVars, inputVars, userVars, undef>>
  BY DEF Arrive
<1>2. PortsInv' /\ CallbackInv' /\ ClientInv'
  BY <1>1, PortsAreLeftAlone
<1> USE DEF IInv, portVars, callbackVars, inputVars, userVars
<1>3. queue \in Seq(Message)
  BY DEF TypeOK
<1>4. m \in Message /\ m.dest = number[m.of]
  BY DEF TypeOK, Message, Handle
<1> HIDE DEF m
<1>5. /\ queue' \in Seq(Message) /\ queue' # << >>
      /\ \A k \in DOMAIN queue' :
            (k \in DOMAIN queue /\ queue'[k] = queue[k]) \/ queue'[k] = m
  BY <1>1, <1>3, <1>4
<1>6. TypeOK'
  BY <1>1, <1>5 DEF TypeOK
<1>7. ThreadInv' /\ TidyInv' /\ MessagesOfOpenDevices'
  BY <1>1, <1>5 DEF ThreadInv, TidyInv, MessagesOfOpenDevices
<1>8. MessageInv'
  BY <1>1, <1>4, <1>5 DEF MessageInv
<1>9. QED
  BY <1>2, <1>6, <1>7, <1>8

LEMMA StutterKeepsIInv == ASSUME IInv, UNCHANGED vars PROVE IInv'
<1>1. UNCHANGED <<portVars, callbackVars, inputVars, userVars, queue, undef>>
  BY DEF vars
<1>2. PortsInv' /\ CallbackInv' /\ ClientInv'
  BY <1>1, PortsAreLeftAlone
<1> USE DEF IInv, portVars, callbackVars, inputVars, userVars
<1>3. TypeOK' /\ ThreadInv' /\ TidyInv'
  BY <1>1 DEF TypeOK, ThreadInv, TidyInv
<1>4. MessageInv' /\ MessagesOfOpenDevices'
  BY <1>1 DEF MessageInv, MessagesOfOpenDevices
<1>5. QED
  BY <1>2, <1>3, <1>4

LEMMA NextKeepsIInv == IInv /\ [Next]_vars => IInv'
<1> SUFFICES ASSUME IInv, [Next]_vars PROVE IInv'
  OBVIOUS
<1>1. ASSUME Defined, UserStep PROVE IInv'
  <2>1. ASSUME NEW h \in Handle, Open(h) \/ Close(h) \/ UseDeadPort(h) PROVE IInv'
    BY <2>1, OpenKeepsIInv, CloseKeepsIInv, UseDeadPortKeepsIInv
  <2>2. ASSUME NEW h \in Input, Start(h) \/ Stop(h) PROVE IInv'
    BY <2>2, StartKeepsIInv, StopKeepsIInv DEF Handle
  <2>3. QED
    BY <1>1, <2>1, <2>2 DEF UserStep
<1>2. ASSUME Defined, FinishClose PROVE IInv'
  BY <1>2, RemoveKeepsIInv, DestroyKeepsIInv, JoinedKeepsIInv DEF FinishClose
<1>3. ASSUME InputStep PROVE IInv'
  BY <1>3, BeginKeepsIInv, TestExitKeepsIInv, PollTimesOutKeepsIInv, PollReturnsKeepsIInv,
     ReadKeepsIInv, CheckSizeKeepsIInv, CheckEnabledKeepsIInv, CallKeepsIInv,
     CallbackReturnsKeepsIInv, CallbackThrowsKeepsIInv, PendingKeepsIInv, LeaveKeepsIInv
   DEF InputStep
<1>4. ASSUME NEW h \in Input, Arrive(h) PROVE IInv'
  BY <1>4, ArriveKeepsIInv
<1>5. QED
  BY <1>1, <1>2, <1>3, <1>4, StutterKeepsIInv DEF Next

LEMMA IInvAlways == Spec => []IInv
  BY InitIInv, NextKeepsIInv, PTL DEF Spec

LEMMA IInvClient == IInv => ClientGoesWithLastDevice
<1> SUFFICES ASSUME IInv PROVE ClientGoesWithLastDevice
  OBVIOUS
<1>1. ASSUME client = "closed" PROVE activeCallbacks = 0
  <2>1. enabled = {}
    BY <1>1 DEF IInv, ClientInv, CallbackInv
  <2>2. QED
    BY <2>1, FS_EmptySet DEF IInv, CallbackInv
<1>2. QED
  BY <1>1 DEF IInv, ClientInv, ThreadInv, ClientGoesWithLastDevice

----------------------------------------------------------------------------
(* What holds of every behaviour. *)

\* The state of the client, its ports and its thread always has its type: in
\* particular the sequencer's queue and the array hold what the code reads from them.
THEOREM TypeCorrect == Spec => []TypeOK
<1>1. IInv => TypeOK
  BY DEF IInv
<1>2. QED
  BY <1>1, IInvAlways, PTL

\* juce_linux_Midi.cpp:221 and 295: the callbacks that are counted are those that are
\* enabled, in whatever order devices are started, stopped and closed, and also when
\* deletePort destroys the Port of another device than the one being closed.
THEOREM CallbacksAlwaysCounted == Spec => []CallbacksAreCounted
<1>1. IInv => CallbacksAreCounted
  BY DEF IInv, CallbackInv, CallbacksAreCounted
<1>2. QED
  BY <1>1, IInvAlways, PTL

\* getInstance and the reference count: there is a client as long as a device is
\* open, at its end no callback is left, and its thread has ended before it goes.
THEOREM ClientOutlivesDevices == Spec => []ClientGoesWithLastDevice
<1>1. IInv => ClientGoesWithLastDevice
  BY IInvClient
<1>2. QED
  BY <1>1, IInvAlways, PTL

\* A user that closes devices in the reverse of the order it opened them in never uses
\* a device whose Port is gone, for any number of devices. The vectors of o2m and m2o
\* go from front to back, which is that order for a single device only.
THEOREM ReverseOrderIsSafe == Spec => []LastInFirstOutIsSafe
<1>1. IInv => LastInFirstOutIsSafe
  <2> SUFFICES ASSUME IInv, tidy
               PROVE  /\ undef # "deadPort"
                      /\ \A k \in DOMAIN ports : number[ports[k]] = k - 1
                      /\ alive = open
                      /\ user = "join" => ports = << >>
    BY DEF LastInFirstOutIsSafe
  <2>1. ASSUME user = "join" PROVE ports = << >>
    <3>1. alive = {}
      BY <2>1 DEF IInv, ClientInv, TidyInv
    <3>2. ports \in Seq(Handle) /\ DOMAIN ports = {}
      BY <3>1 DEF IInv, TypeOK, PortsInv
    <3>3. QED
      BY <3>2
  <2>2. QED
    BY <2>1 DEF IInv, TidyInv
<1>2. QED
  BY <1>1, IInvAlways, PTL

\* In that order, the lookup by port number finds the callback of the device that
\* sent the message, whatever was closed and opened between sending and dispatch.
THEOREM OpenDevicesAreHeard == Spec => []MessagesOfOpenDevices
<1>1. IInv => MessagesOfOpenDevices
  BY DEF IInv
<1>2. QED
  BY <1>1, IInvAlways, PTL
=============================================================================
