--------------------------- MODULE MidiPortsProofs ---------------------------
(***************************************************************************)
(* For any set of device names, any number of devices and any number of     *)
(* changes of the device list: type correctness, the sticky ids, and the    *)
(* map from names to indices.                                               *)
(***************************************************************************)
EXTENDS MidiPorts, SequenceTheorems, TLAPS

USE NoDeviceAssumption, BoundsAssumption

\* The inductive invariant is the conjunction of the invariants themselves.
IInv == TypeOK /\ StickyIdsIdentifyNames /\ MapFollowsList

\* The tables alone: what Register must preserve.
TablesOK ==
    /\ juceNames \in DeviceLists
    /\ juceId \in [DOMAIN juceId -> Nat] /\ DOMAIN juceId \subseteq Name
    /\ stickyId \in [DOMAIN stickyId -> Nat] /\ DOMAIN stickyId \subseteq Name
    /\ nStickyIds \in Nat
    /\ IsInjective(stickyId)
    /\ Range(stickyId) = 0..(nStickyIds - 1)
    /\ MapFollowsList

----------------------------------------------------------------------------
(* Device lists. *)

\* What a device list is.
LEMMA ListFacts ==
    ASSUME NEW s \in DeviceLists
    PROVE  /\ s \in Seq(Name)
           /\ Len(s) \in 0..MaxDevices
           /\ DOMAIN s = 1..Len(s)
           /\ s \in [1..Len(s) -> Name]
           /\ \A i, j \in 1..Len(s) : s[i] = s[j] => i = j
           /\ Range(s) \subseteq Name
<1>1. PICK k \in 0..MaxDevices : s \in [1..k -> Name]
  BY DEF DeviceLists
<1>2. s \in Seq(Name) /\ Len(s) = k /\ DOMAIN s = 1..k
  BY <1>1
<1>3. \A i, j \in 1..Len(s) : s[i] = s[j] => i = j
  BY <1>2 DEF DeviceLists, IsInjective
<1>4. QED
  BY <1>1, <1>2, <1>3 DEF Range

\* What it takes to be one.
LEMMA ListIntro ==
    ASSUME NEW k \in 0..MaxDevices, NEW s \in [1..k -> Name],
           \A i, j \in 1..k : s[i] = s[j] => i = j
    PROVE  s \in DeviceLists
  BY DEF DeviceLists, IsInjective

LEMMA InsertKeepsList ==
    ASSUME NEW s \in DeviceLists, Len(s) < MaxDevices,
           NEW n \in Name \ Range(s), NEW i \in 1..Len(s) + 1
    PROVE  InsertAt(s, i, n) \in DeviceLists
<1> DEFINE t == InsertAt(s, i, n)
           k == Len(s) + 1
<1>1. k \in 0..MaxDevices /\ Len(s) \in Nat
  BY ListFacts
<1>2. t = (SubSeq(s, 1, i - 1) \o <<n>>) \o SubSeq(s, i, Len(s))
  BY DEF InsertAt
<1>3. /\ t \in [1..k -> Name]
      /\ \A j \in 1..k : t[j] = IF j < i THEN s[j] ELSE IF j = i THEN n ELSE s[j - 1]
  <2> DEFINE u == SubSeq(s, 1, i - 1)
             v == SubSeq(s, i, Len(s))
             w == u \o <<n>>
  <2>1. s \in Seq(Name) /\ i \in Int /\ Len(s) \in Nat
    BY ListFacts
  <2>2. /\ u \in Seq(Name) /\ Len(u) = i - 1
        /\ \A j \in 1..(i - 1) : u[j] = s[j]
    BY <2>1
  <2>3. /\ v \in Seq(Name) /\ Len(v) = Len(s) - i + 1
        /\ \A j \in 1..(Len(s) - i + 1) : v[j] = s[j + i - 1]
    BY <2>1
  <2>4. /\ w \in Seq(Name) /\ Len(w) = i
        /\ \A j \in 1..i : w[j] = IF j < i THEN s[j] ELSE n
    <3> HIDE DEF u
    <3>1. <<n>> \in Seq(Name) /\ Len(<<n>>) = 1 /\ <<n>>[1] = n
      OBVIOUS
    <3>2. /\ u \o <<n>> \in Seq(Name)
          /\ Len(u \o <<n>>) = i - 1 + 1
          /\ \A j \in 1..(i - 1 + 1) :
                (u \o <<n>>)[j] = IF j <= i - 1 THEN u[j] ELSE <<n>>[j - (i - 1)]
      BY <2>2, <3>1, ConcatProperties
    <3> HIDE DEF w
    <3>3. QED
      BY <2>1, <2>2, <3>1, <3>2 DEF w
  <2>5. /\ w \o v \in Seq(Name)
        /\ Len(w \o v) = i + Len(v)
        /\ \A j \in 1..(i + Len(v)) :
              (w \o v)[j] = IF j <= i THEN w[j] ELSE v[j - i]
    <3> HIDE DEF u, v, w
    <3>1. /\ w \o v \in Seq(Name)
          /\ Len(w \o v) = Len(w) + Len(v)
          /\ \A j \in 1..(Len(w) + Len(v)) :
                (w \o v)[j] = IF j <= Len(w) THEN w[j] ELSE v[j - Len(w)]
      BY <2>3, <2>4, ConcatProperties
    <3>2. QED
      BY <2>4, <3>1
  <2>6. i + Len(v) = k
    BY <2>1, <2>3
  <2>7. t \in [1..k -> Name]
    <3> HIDE DEF u, v, w, t
    <3>1. t = w \o v
      BY <1>2 DEF u, v, w
    <3> HIDE DEF k
    <3>2. t \in Seq(Name) /\ Len(t) = k
      BY <2>5, <2>6, <3>1
    <3>3. QED
      BY <3>2
  <2>8. ASSUME NEW j \in 1..k
        PROVE  t[j] = IF j < i THEN s[j] ELSE IF j = i THEN n ELSE s[j - 1]
    <3> HIDE DEF u, v, w, t
    <3>1. t[j] = IF j <= i THEN w[j] ELSE v[j - i]
      BY <1>2, <2>5, <2>6 DEF u, v, w
    <3>2. CASE j <= i
      BY <2>1, <2>4, <3>1, <3>2
    <3>3. CASE j > i
      <4>1. j - i \in 1..(Len(s) - i + 1) /\ (j - i) + i - 1 = j - 1
        BY <2>1, <3>3
      <4>2. QED
        BY <2>1, <2>3, <3>1, <3>3, <4>1
    <3>4. QED
      BY <2>1, <3>2, <3>3
  <2>9. QED
    BY <2>7, <2>8
<1>4. \A j \in 1..Len(s) : s[j] # n
  BY ListFacts DEF Range
<1>5. ASSUME NEW x \in 1..k, NEW y \in 1..k, t[x] = t[y]
      PROVE  x = y
  <2> DEFINE Old(z) == IF z < i THEN z ELSE z - 1
  <2>1. ASSUME NEW z \in 1..k, z # i
        PROVE  Old(z) \in 1..Len(s) /\ t[z] = s[Old(z)] /\ t[z] # n
    BY <1>1, <1>3, <1>4, <2>1
  <2>2. t[i] = n /\ i \in 1..k
    BY <1>3, <1>1
  <2>3. CASE x = i \/ y = i
    BY <2>1, <2>2, <2>3, <1>5
  <2>4. CASE x # i /\ y # i
    <3>1. /\ Old(x) \in 1..Len(s) /\ t[x] = s[Old(x)]
          /\ Old(y) \in 1..Len(s) /\ t[y] = s[Old(y)]
      BY <2>1, <2>4
    <3>2. s[Old(x)] = s[Old(y)]
      BY <1>5, <3>1
    <3>3. \A a, b \in 1..Len(s) : s[a] = s[b] => a = b
      BY ListFacts
    <3> HIDE DEF Old, t, k
    <3>4. Old(x) = Old(y)
      BY <3>1, <3>2, <3>3
    <3>5. QED
      BY <3>4, <2>4, <1>1 DEF Old, k
  <2>5. QED
    BY <2>3, <2>4
<1>6. QED
  BY <1>1, <1>3, <1>5, ListIntro

LEMMA RemoveKeepsList ==
    ASSUME NEW s \in DeviceLists, NEW i \in DOMAIN s
    PROVE  RemoveAt(s, i) \in DeviceLists
<1> DEFINE t == RemoveAt(s, i)
           k == Len(s) - 1
           Old(z) == IF z < i THEN z ELSE z + 1
<1>1. s \in Seq(Name) /\ i \in 1..Len(s) /\ Len(s) \in 0..MaxDevices /\ k \in 0..MaxDevices
  BY ListFacts
<1>2. t = SubSeq(s, 1, i - 1) \o SubSeq(s, i + 1, Len(s))
  BY DEF RemoveAt
<1>3. t \in [1..k -> Name] /\ \A j \in 1..k : Old(j) \in 1..Len(s) /\ t[j] = s[Old(j)]
  <2> DEFINE u == SubSeq(s, 1, i - 1)
             v == SubSeq(s, i + 1, Len(s))
  <2>1. /\ u \in Seq(Name) /\ Len(u) = i - 1
        /\ \A j \in 1..(i - 1) : u[j] = s[j]
    BY <1>1
  <2>2. /\ v \in Seq(Name) /\ Len(v) = Len(s) - i
        /\ \A j \in 1..(Len(s) - i) : v[j] = s[j + i]
    BY <1>1
  <2>3. /\ t \in Seq(Name) /\ Len(t) = k
        /\ \A j \in 1..k : t[j] = IF j <= i - 1 THEN u[j] ELSE v[j - (i - 1)]
    <3> HIDE DEF u, v
    <3>1. Len(u) + Len(v) = k
      BY <1>1, <2>1, <2>2
    <3>2. t = u \o v
      BY <1>2 DEF u, v
    <3>3. /\ u \o v \in Seq(Name)
          /\ Len(u \o v) = Len(u) + Len(v)
          /\ \A j \in 1..(Len(u) + Len(v)) :
                (u \o v)[j] = IF j <= Len(u) THEN u[j] ELSE v[j - Len(u)]
      BY <2>1, <2>2, ConcatProperties
    <3> HIDE DEF t
    <3>4. QED
      BY <2>1, <3>1, <3>2, <3>3
  <2>4. ASSUME NEW j \in 1..k
        PROVE  Old(j) \in 1..Len(s) /\ t[j] = s[Old(j)]
    <3> HIDE DEF t, u, v
    <3>1. CASE j < i
      BY <1>1, <2>1, <2>3, <3>1
    <3>2. CASE j >= i
      <4>1. j - (i - 1) \in 1..(Len(s) - i)
        BY <1>1, <3>2
      <4>2. v[j - (i - 1)] = s[j + 1]
        BY <1>1, <2>2, <4>1
      <4>3. QED
        BY <1>1, <2>3, <3>2, <4>2
    <3>3. QED
      BY <1>1, <3>1, <3>2
  <2>5. QED
    BY <1>1, <2>3, <2>4
<1>4. ASSUME NEW x \in 1..k, NEW y \in 1..k, t[x] = t[y]
      PROVE  x = y
  <2>1. /\ Old(x) \in 1..Len(s) /\ t[x] = s[Old(x)]
        /\ Old(y) \in 1..Len(s) /\ t[y] = s[Old(y)]
    BY <1>3
  <2>2. s[Old(x)] = s[Old(y)]
    BY <1>4, <2>1
  <2>3. \A a, b \in 1..Len(s) : s[a] = s[b] => a = b
    BY ListFacts
  <2> HIDE DEF Old, t, k
  <2>4. Old(x) = Old(y)
    BY <2>1, <2>2, <2>3
  <2>5. QED
    BY <2>4, <1>1 DEF Old, k
<1>5. QED
  BY <1>1, <1>3, <1>4, ListIntro

----------------------------------------------------------------------------
(* The tables. *)

LEMMA IndexFacts ==
    ASSUME devices \in DeviceLists, NEW i \in DOMAIN devices
    PROVE  IndexNow(devices[i]) = i - 1 /\ i - 1 \in Nat
<1>1. /\ DOMAIN devices = 1..Len(devices) /\ Len(devices) \in Nat
      /\ \A j \in DOMAIN devices : devices[j] = devices[i] => j = i
  BY ListFacts
<1>2. (CHOOSE j \in DOMAIN devices : devices[j] = devices[i]) = i
  BY <1>1
<1>3. QED
  BY <1>1, <1>2 DEF IndexNow

\* Registering a name keeps the tables in order, keeps every number given before,
\* and leaves the name with the number the port gets.
LEMMA RegisterKeepsTables ==
    ASSUME TablesOK, devices \in DeviceLists, NEW n \in Name, Register(n)
    PROVE  /\ TablesOK'
           /\ StickyOf(n) \in Nat
           /\ n \in DOMAIN stickyId' /\ stickyId'[n] = StickyOf(n)
           /\ \A m \in DOMAIN stickyId :
                 m \in DOMAIN stickyId' /\ stickyId'[m] = stickyId[m]
<1>1. juceNames' \in DeviceLists
  BY DEF Register
<1>2. /\ juceId' \in [DOMAIN juceId' -> Nat] /\ DOMAIN juceId' \subseteq Name
      /\ MapFollowsList'
  <2>1. /\ DOMAIN juceId' = DOMAIN juceId \cup Range(devices)
        /\ \A m \in DOMAIN juceId' :
              juceId'[m] = IF m \in Range(devices) THEN IndexNow(m) ELSE juceId[m]
        /\ juceId' = [m \in DOMAIN juceId' |-> juceId'[m]]
    BY DEF Register, RefreshedMap
  <2>2. Range(devices) \subseteq Name
    BY ListFacts
  <2>3. ASSUME NEW m \in Range(devices)
        PROVE  IndexNow(m) \in Nat
    BY IndexFacts DEF Range
  <2>4. \A m \in DOMAIN juceId' : juceId'[m] \in Nat
    BY <2>1, <2>3 DEF TablesOK
  <2>5. DOMAIN juceId' \subseteq Name
    BY <2>1, <2>2 DEF TablesOK
  <2>6. juceId' \in [DOMAIN juceId' -> Nat]
    BY <2>1, <2>4
  <2>7. ASSUME NEW i \in DOMAIN devices
        PROVE  devices[i] \in DOMAIN juceId' /\ juceId'[devices[i]] = i - 1
    BY <2>1, IndexFacts DEF Range
  <2>8. juceNames' = devices
    BY DEF Register
  <2>9. QED
    BY <2>5, <2>6, <2>7, <2>8 DEF MapFollowsList
<1>3. /\ stickyId \in [DOMAIN stickyId -> Nat] /\ DOMAIN stickyId \subseteq Name
      /\ nStickyIds \in Nat
      /\ \A x, y \in DOMAIN stickyId : stickyId[x] = stickyId[y] => x = y
      /\ \A x \in DOMAIN stickyId : stickyId[x] \in 0..(nStickyIds - 1)
      /\ \A i \in 0..(nStickyIds - 1) : \E x \in DOMAIN stickyId : stickyId[x] = i
  BY DEF TablesOK, IsInjective, Range
<1>4. /\ DOMAIN stickyId' = DOMAIN stickyId \cup {n}
      /\ \A m \in DOMAIN stickyId' :
            stickyId'[m] = IF m = n THEN StickyOf(n) ELSE stickyId[m]
      /\ stickyId' = [m \in DOMAIN stickyId' |-> stickyId'[m]]
      /\ nStickyIds' = IF n \in DOMAIN stickyId THEN nStickyIds ELSE nStickyIds + 1
  BY DEF Register
<1>5. StickyOf(n) \in Nat
  BY <1>3 DEF StickyOf
<1>6. CASE n \in DOMAIN stickyId
  <2>1. stickyId' = stickyId /\ nStickyIds' = nStickyIds
    BY <1>3, <1>4, <1>6 DEF StickyOf
  <2>2. QED
    BY <1>1, <1>2, <1>5, <1>6, <2>1 DEF TablesOK, StickyOf
<1>7. CASE n \notin DOMAIN stickyId
  <2>1. StickyOf(n) = nStickyIds /\ nStickyIds' = nStickyIds + 1
    BY <1>4, <1>7 DEF StickyOf
  <2>2. \A m \in DOMAIN stickyId : m # n /\ stickyId'[m] = stickyId[m]
    BY <1>4, <1>7
  <2>3. stickyId'[n] = nStickyIds
    BY <1>4, <2>1
  <2>4. stickyId' \in [DOMAIN stickyId' -> Nat] /\ DOMAIN stickyId' \subseteq Name
    BY <1>3, <1>4, <2>1
  <2>5. \A m \in DOMAIN stickyId : stickyId'[m] # nStickyIds
    BY <1>3, <2>2
  <2>6. IsInjective(stickyId')
    <3>1. ASSUME NEW x \in DOMAIN stickyId', NEW y \in DOMAIN stickyId',
                 stickyId'[x] = stickyId'[y]
          PROVE  x = y
      BY <1>3, <1>4, <2>2, <2>3, <2>5, <3>1
    <3>2. QED
      BY <3>1 DEF IsInjective
  <2>7. Range(stickyId') = 0..(nStickyIds' - 1)
    <3>1. \A x \in DOMAIN stickyId' : stickyId'[x] \in 0..(nStickyIds' - 1)
      BY <1>3, <1>4, <2>1, <2>2, <2>3
    <3>2. ASSUME NEW i \in 0..(nStickyIds' - 1)
          PROVE  \E x \in DOMAIN stickyId' : stickyId'[x] = i
      <4>1. CASE i = nStickyIds
        BY <1>4, <2>3, <4>1
      <4>2. CASE i # nStickyIds
        <5>1. i \in 0..(nStickyIds - 1)
          BY <1>3, <2>1, <4>2
        <5>2. QED
          BY <1>3, <1>4, <2>2, <5>1
      <4>3. QED
        BY <4>1, <4>2
    <3>3. QED
      BY <3>1, <3>2 DEF Range
  <2>8. nStickyIds' \in Nat
    BY <1>3, <2>1
  <2>9. QED
    BY <1>1, <1>2, <1>4, <1>5, <2>2, <2>4, <2>6, <2>7, <2>8 DEF TablesOK
<1>8. QED
  BY <1>6, <1>7

----------------------------------------------------------------------------
(* The invariant. *)

LEMMA IInvTables == IInv => TablesOK
  BY DEF IInv, TypeOK, StickyIdsIdentifyNames, TablesOK

LEMMA InitIInv == Init => IInv
<1> SUFFICES ASSUME Init PROVE IInv
  OBVIOUS
<1>1. << >> \in DeviceLists
  BY DEF DeviceLists, IsInjective
<1>2. 0..(0 - 1) = {}
  OBVIOUS
<1>3. TypeOK
  BY <1>1 DEF Init, TypeOK
<1>4. StickyIdsIdentifyNames
  BY <1>2 DEF Init, StickyIdsIdentifyNames, IsInjective, Range
<1>5. MapFollowsList
  BY DEF Init, MapFollowsList
<1>6. QED
  BY <1>3, <1>4, <1>5 DEF IInv

\* A change of the environment: the tables stay, and the ports lose at most live.
LEMMA EnvironmentKeepsIInv == IInv /\ Environment => IInv'
<1> SUFFICES ASSUME IInv, Environment PROVE IInv'
  OBVIOUS
<1> USE DEF IInv
<1>1. /\ devices' \in DeviceLists
      /\ changes' \in 0..MaxChanges
  <2>1. CASE Plug
    <3>1. PICK n \in Name \ Range(devices), i \in 1..Len(devices) + 1 :
             devices' = InsertAt(devices, i, n)
      BY <2>1 DEF Plug
    <3>2. devices' \in DeviceLists
      BY <2>1, <3>1, InsertKeepsList DEF Plug, TypeOK
    <3>3. QED
      BY <2>1, <3>2 DEF Plug, TypeOK
  <2>2. CASE Unplug
    <3>1. PICK i \in DOMAIN devices : devices' = RemoveAt(devices, i)
      BY <2>2 DEF Unplug
    <3>2. devices' \in DeviceLists
      BY <3>1, RemoveKeepsList DEF TypeOK
    <3>3. QED
      BY <2>2, <3>2 DEF Unplug, TypeOK
  <2>3. QED
    BY <2>1, <2>2 DEF Environment
<1>2. /\ UNCHANGED <<tableVars, opening>>
      /\ outputs' \in Seq(Port)
      /\ DOMAIN outputs' = DOMAIN outputs
      /\ \A k \in DOMAIN outputs :
            outputs'[k].name = outputs[k].name /\ outputs'[k].id = outputs[k].id
  <2>1. CASE Plug
    BY <2>1 DEF Plug, tableVars, TypeOK
  <2>2. CASE Unplug
    <3>1. PICK i \in DOMAIN devices :
             outputs' = [k \in DOMAIN outputs |->
                IF outputs[k].device = devices[i]
                THEN [outputs[k] EXCEPT !.live = FALSE] ELSE outputs[k]]
      BY <2>2 DEF Unplug
    <3>2. \A k \in DOMAIN outputs : outputs[k] \in Port
      BY DEF TypeOK
    <3>3. /\ DOMAIN outputs' = DOMAIN outputs
          /\ \A k \in DOMAIN outputs :
                /\ outputs'[k] \in Port
                /\ outputs'[k].name = outputs[k].name
                /\ outputs'[k].id = outputs[k].id
      BY <3>1, <3>2 DEF Port
    <3>4. outputs' \in Seq(Port)
      <4>1. DOMAIN outputs = 1..Len(outputs) /\ Len(outputs) \in Nat
        BY DEF TypeOK
      <4>2. outputs' = [k \in 1..Len(outputs) |-> outputs'[k]]
        BY <3>1, <4>1
      <4>3. QED
        BY <3>3, <4>1, <4>2
    <3>5. QED
      BY <2>2, <3>3, <3>4 DEF Unplug, tableVars
  <2>3. QED
    BY <2>1, <2>2 DEF Environment
<1>3. TypeOK'
  BY <1>1, <1>2 DEF TypeOK, tableVars
<1>4. StickyIdsIdentifyNames'
  BY <1>2 DEF StickyIdsIdentifyNames, tableVars
<1>5. MapFollowsList'
  BY <1>2 DEF MapFollowsList, tableVars
<1>6. QED
  BY <1>3, <1>4, <1>5

\* The ports' numbers still agree with the table once a name is registered.
LEMMA RegisterKeepsPorts ==
    ASSUME IInv, NEW n \in Name, Register(n)
    PROVE  /\ \A k \in DOMAIN outputs :
                 /\ outputs[k].name \in DOMAIN stickyId'
                 /\ outputs[k].id = stickyId'[outputs[k].name]
           /\ \A k \in DOMAIN opening :
                 /\ opening[k].name \in DOMAIN stickyId'
                 /\ opening[k].id = stickyId'[opening[k].name]
<1>1. \A m \in DOMAIN stickyId : m \in DOMAIN stickyId' /\ stickyId'[m] = stickyId[m]
  BY IInvTables, RegisterKeepsTables DEF IInv, TypeOK
<1>2. QED
  BY <1>1 DEF IInv, StickyIdsIdentifyNames

LEMMA LookUpKeepsIInv ==
    ASSUME IInv, NEW n \in Name, LookUp(n)
    PROVE  IInv'
<1>1. /\ TablesOK' /\ StickyOf(n) \in Nat
      /\ n \in DOMAIN stickyId' /\ stickyId'[n] = StickyOf(n)
  BY IInvTables, RegisterKeepsTables DEF IInv, TypeOK, LookUp
<1> DEFINE p == [name |-> n, id |-> StickyOf(n), index |-> juceId'[n]]
<1>2. opening' = <<p>> /\ p \in PendingPort
  BY <1>1 DEF LookUp, TablesOK, PendingPort
<1>3. TypeOK'
  BY <1>1, <1>2 DEF TypeOK, TablesOK, IInv, LookUp
<1>4. StickyIdsIdentifyNames'
  <2>1. \A k \in DOMAIN outputs' :
           /\ outputs'[k].name \in DOMAIN stickyId'
           /\ outputs'[k].id = stickyId'[outputs'[k].name]
    BY RegisterKeepsPorts DEF LookUp
  <2>2. DOMAIN opening' = {1} /\ opening'[1] = p
    BY <1>2
  <2>3. QED
    BY <1>1, <2>1, <2>2 DEF StickyIdsIdentifyNames, TablesOK
<1>5. QED
  BY <1>1, <1>3, <1>4 DEF IInv, TablesOK

LEMMA LookUpThrowsKeepsIInv ==
    ASSUME IInv, NEW n \in Name, LookUpThrows(n)
    PROVE  IInv'
<1>1. TablesOK'
  BY IInvTables, RegisterKeepsTables DEF IInv, TypeOK, LookUpThrows
<1>2. TypeOK'
  BY <1>1 DEF TypeOK, TablesOK, IInv, LookUpThrows
<1>3. StickyIdsIdentifyNames'
  BY <1>1, RegisterKeepsPorts DEF StickyIdsIdentifyNames, TablesOK, LookUpThrows
<1>4. QED
  BY <1>1, <1>2, <1>3 DEF IInv, TablesOK

\* The tables change as for a name that is not found.
LEMMA CreateVirtualKeepsIInv ==
    ASSUME IInv, NEW n \in Name, CreateVirtual(n)
    PROVE  IInv'
<1>1. TablesOK'
  BY IInvTables, RegisterKeepsTables DEF IInv, TypeOK, CreateVirtual
<1>2. TypeOK'
  BY <1>1 DEF TypeOK, TablesOK, IInv, CreateVirtual
<1>3. StickyIdsIdentifyNames'
  BY <1>1, RegisterKeepsPorts DEF StickyIdsIdentifyNames, TablesOK, CreateVirtual
<1>4. QED
  BY <1>1, <1>2, <1>3 DEF IInv, TablesOK

LEMMA OpenKeepsIInv == IInv /\ Open => IInv'
<1> SUFFICES ASSUME IInv, Open PROVE IInv'
  OBVIOUS
<1> DEFINE p == Head(opening)
           d == DeviceAt(p.index)
           o == [name |-> p.name, id |-> p.id, device |-> d, live |-> d # NoDevice]
<1>1. p \in PendingPort /\ 1 \in DOMAIN opening /\ p = opening[1]
  BY DEF Open, IInv, TypeOK
<1>2. d \in Name \cup {NoDevice}
  <2>1. CASE p.index < Len(devices)
    <3>1. /\ p.index \in Nat /\ Len(devices) \in Nat
          /\ \A i \in 1..Len(devices) : devices[i] \in Name
      BY <1>1, ListFacts DEF IInv, TypeOK, PendingPort
    <3>2. p.index + 1 \in 1..Len(devices)
      BY <2>1, <3>1
    <3>3. QED
      BY <2>1, <3>1, <3>2 DEF DeviceAt
  <2>2. CASE ~(p.index < Len(devices))
    BY <2>2 DEF DeviceAt
  <2>3. QED
    BY <2>1, <2>2
<1>3. o \in Port /\ o.name = p.name /\ o.id = p.id
  <2>1. (d # NoDevice) \in BOOLEAN
    OBVIOUS
  <2>2. p.name \in Name /\ p.id \in Nat
    BY <1>1 DEF PendingPort
  <2> HIDE DEF d, p
  <2>3. QED
    BY <1>2, <2>1, <2>2 DEF Port
<1>4. outputs' = Append(outputs, o) /\ opening' = << >>
  BY DEF Open
<1>5. /\ outputs' \in Seq(Port)
      /\ DOMAIN outputs' = 1..(Len(outputs) + 1)
      /\ \A k \in 1..Len(outputs) : outputs'[k] = outputs[k]
      /\ outputs'[Len(outputs) + 1] = o
  <2> HIDE DEF o
  <2>1. QED
    BY <1>3, <1>4 DEF IInv, TypeOK
<1>6. TypeOK'
  BY <1>4, <1>5 DEF TypeOK, IInv, Open
<1>7. StickyIdsIdentifyNames'
  <2>1. UNCHANGED <<stickyId, nStickyIds>>
    BY DEF Open
  <2>2. p.name \in DOMAIN stickyId /\ p.id = stickyId[p.name]
    BY <1>1 DEF IInv, StickyIdsIdentifyNames
  <2>3. ASSUME NEW k \in DOMAIN outputs'
        PROVE  /\ outputs'[k].name \in DOMAIN stickyId
               /\ outputs'[k].id = stickyId[outputs'[k].name]
    <3>1. CASE k = Len(outputs) + 1
      <4> HIDE DEF o, p
      <4>1. QED
        BY <1>3, <1>5, <2>2, <3>1
    <3>2. CASE k # Len(outputs) + 1
      <4>1. k \in DOMAIN outputs /\ outputs'[k] = outputs[k]
        BY <1>5, <3>2 DEF IInv, TypeOK
      <4>2. QED
        BY <4>1 DEF IInv, StickyIdsIdentifyNames
    <3>3. QED
      BY <3>1, <3>2
  <2>4. QED
    BY <1>4, <2>1, <2>3 DEF IInv, StickyIdsIdentifyNames
<1>8. MapFollowsList'
  BY DEF IInv, MapFollowsList, Open
<1>9. QED
  BY <1>6, <1>7, <1>8 DEF IInv

LEMMA CloseFirstKeepsIInv == IInv /\ CloseFirst => IInv'
<1> SUFFICES ASSUME IInv, CloseFirst PROVE IInv'
  OBVIOUS
<1> USE DEF IInv, CloseFirst
<1>1. outputs \in Seq(Port) /\ outputs # << >>
  BY DEF TypeOK
<1>2. /\ outputs' \in Seq(Port)
      /\ \A k \in DOMAIN outputs' : k + 1 \in DOMAIN outputs /\ outputs'[k] = outputs[k + 1]
  BY <1>1
<1>3. TypeOK' /\ MapFollowsList'
  BY <1>2 DEF TypeOK, MapFollowsList
<1>4. StickyIdsIdentifyNames'
  BY <1>2 DEF StickyIdsIdentifyNames
<1>5. QED
  BY <1>3, <1>4

LEMMA StutterKeepsIInv == IInv /\ UNCHANGED portVars => IInv'
  BY DEF IInv, portVars, TypeOK, StickyIdsIdentifyNames, MapFollowsList

LEMMA NextIInv == IInv /\ [Next]_portVars => IInv'
  BY EnvironmentKeepsIInv, LookUpKeepsIInv, LookUpThrowsKeepsIInv, CreateVirtualKeepsIInv,
     OpenKeepsIInv, CloseFirstKeepsIInv, StutterKeepsIInv DEF Next

LEMMA Invariance == Spec => []IInv
  BY InitIInv, NextIInv, PTL DEF Spec

----------------------------------------------------------------------------

\* The tables, the list and the ports keep their types.
THEOREM TypeCorrect == Spec => []TypeOK
<1>1. IInv => TypeOK
  BY DEF IInv
<1>2. QED
  BY Invariance, <1>1, PTL

\* The sticky ids (midicommon.cpp:75-90) number the names without gap or
\* repetition, and every port carries the number of its name.
THEOREM StickyIdsAreIdentities == Spec => []StickyIdsIdentifyNames
<1>1. IInv => StickyIdsIdentifyNames
  BY DEF IInv
<1>2. QED
  BY Invariance, <1>1, PTL

\* The map of updateMidiDevicesNamesMapping (midiout.cpp:76-82) is right for every
\* name of the list it was last refreshed from.
THEOREM MapIsCurrent == Spec => []MapFollowsList
<1>1. IInv => MapFollowsList
  BY DEF IInv
<1>2. QED
  BY Invariance, <1>1, PTL

\* A name keeps its sticky id for ever.
THEOREM StickyIdsAreForEver == Spec => StickyIdsNeverChange
<1> DEFINE Kept == \A n \in DOMAIN stickyId :
                      n \in DOMAIN stickyId' /\ stickyId'[n] = stickyId[n]
<1>1. IInv /\ [Next]_portVars => [Kept]_portVars
  <2> SUFFICES ASSUME IInv, Next PROVE Kept
    BY DEF portVars
  <2>1. CASE \E n \in Name : Register(n)
    BY <2>1, IInvTables, RegisterKeepsTables DEF IInv, TypeOK
  <2>2. CASE UNCHANGED stickyId
    BY <2>2
  <2>3. QED
    BY <2>1, <2>2
       DEF Next, Environment, Plug, Unplug, LookUp, LookUpThrows, CreateVirtual, Open,
           CloseFirst
<1>2. QED
  BY Invariance, <1>1, PTL DEF Spec, StickyIdsNeverChange

\* A port under construction holds the index its name has in the map.
OpeningIsLookedUp ==
    \A k \in DOMAIN opening :
        opening[k].name \in DOMAIN juceId /\ opening[k].index = juceId[opening[k].name]

LEMMA OpeningInvariance == Spec => []OpeningIsLookedUp
<1>1. Init => OpeningIsLookedUp
  BY DEF Init, OpeningIsLookedUp
<1>2. OpeningIsLookedUp /\ [Next]_portVars => OpeningIsLookedUp'
  <2> SUFFICES ASSUME OpeningIsLookedUp, [Next]_portVars PROVE OpeningIsLookedUp'
    OBVIOUS
  <2>1. CASE \E n \in Name : LookUp(n)
    <3>1. PICK n \in Name : LookUp(n)
      BY <2>1
    <3> DEFINE p == [name |-> n, id |-> StickyOf(n), index |-> juceId'[n]]
    <3>2. opening' = <<p>> /\ n \in DOMAIN juceId'
      BY <3>1 DEF LookUp
    <3>3. DOMAIN opening' = {1} /\ opening'[1].name = n /\ opening'[1].index = juceId'[n]
      BY <3>2
    <3>4. QED
      BY <3>2, <3>3 DEF OpeningIsLookedUp
  <2>2. CASE opening' = << >>
    BY <2>2 DEF OpeningIsLookedUp
  <2>3. CASE UNCHANGED <<opening, juceId>>
    BY <2>3 DEF OpeningIsLookedUp
  <2>4. QED
    BY <2>1, <2>2, <2>3
       DEF Next, Environment, Plug, Unplug, LookUpThrows, CreateVirtual, Open, CloseFirst,
           portVars
<1>3. QED
  BY <1>1, <1>2, PTL DEF Spec

\* A port whose name is in the list, and whose two looks saw the same list, is
\* opened on the device of its name (midiout.cpp:29-46).
THEOREM UndisturbedOpensAreRight == Spec => UndisturbedOpenIsRight
<1> DEFINE Right == (/\ Len(outputs') > Len(outputs)
                     /\ devices = juceNames
                     /\ Head(opening).name \in Range(devices))
                    => Last(outputs').device = Head(opening).name
<1>1. IInv /\ OpeningIsLookedUp /\ [Next]_portVars => [Right]_portVars
  <2> SUFFICES ASSUME IInv, OpeningIsLookedUp, Next,
                      Len(outputs') > Len(outputs), devices = juceNames,
                      Head(opening).name \in Range(devices)
               PROVE  Last(outputs').device = Head(opening).name
    BY DEF portVars
  <2>1. outputs \in Seq(Port) /\ Len(outputs) \in Nat /\ devices \in DeviceLists
    BY DEF IInv, TypeOK
  <2>2. CASE Open
    <3> DEFINE p == Head(opening)
               d == DeviceAt(p.index)
               o == [name |-> p.name, id |-> p.id, device |-> d, live |-> d # NoDevice]
    <3>1. p = opening[1] /\ 1 \in DOMAIN opening
      BY <2>2 DEF Open, IInv, TypeOK
    <3>2. PICK i \in DOMAIN devices : devices[i] = p.name
      BY DEF Range
    <3>3. p.index = i - 1
      BY <3>1, <3>2 DEF OpeningIsLookedUp, IInv, MapFollowsList
    <3>4. i \in 1..Len(devices) /\ Len(devices) \in Nat
      BY <2>1, ListFacts
    <3>5. d = p.name
      BY <3>2, <3>3, <3>4 DEF DeviceAt
    <3>6. outputs' = Append(outputs, o)
      BY <2>2 DEF Open
    <3>7. Len(outputs') = Len(outputs) + 1 /\ outputs'[Len(outputs) + 1] = o
      <4> HIDE DEF o
      <4>1. QED
        BY <2>1, <3>6
    <3>8. QED
      BY <3>5, <3>7 DEF Last
  <2>3. CASE ~Open
    <3>1. CASE Unplug
      <4>1. DOMAIN outputs' = DOMAIN outputs
        BY <3>1 DEF Unplug
      <4>2. Len(outputs') = Len(outputs)
        BY <2>1, <3>1, <4>1 DEF Unplug
      <4>3. QED
        BY <2>1, <4>2
    <3>2. CASE outputs' = outputs \/ outputs' = << >>
      BY <2>1, <3>2
    <3>3. CASE CloseFirst
      BY <2>1, <3>3 DEF CloseFirst
    <3>4. QED
      BY <2>3, <3>1, <3>2, <3>3
         DEF Next, Environment, Plug, LookUp, LookUpThrows, CreateVirtual
  <2>4. QED
    BY <2>2, <2>3
<1>2. QED
  BY Invariance, OpeningInvariance, <1>1, PTL DEF Spec, UndisturbedOpenIsRight
=============================================================================
