----------------------- MODULE SocketMultiplexerProofs -----------------------
(***************************************************************************)
(* For every set of datagrams and every pipe bound: the type invariant, the *)
(* absence of lost wake-ups and of blocking reads, and the step simulation  *)
(* of BreakableRun.                                                         *)
(***************************************************************************)
EXTENDS SocketMultiplexer, TLAPS

USE NoPacketAssumption, PipeBoundAssumption

\* The inductive invariant: a thread in select() under a requested break has its
\* wake-up on the way, and a reported byte is still in the pipe.
IInv == TypeOK /\ NoLostWakeup /\ ReadNeverBlocks

LEMMA InitIInv == Init => IInv
<1> SUFFICES ASSUME Init PROVE IInv
  OBVIOUS
<1>1. breakFlag \in BOOLEAN
  BY Zenon DEF Init
<1>2. TypeOK
  BY <1>1 DEF Init, TypeOK, InsideRun, Descriptor
<1>3. NoLostWakeup /\ ReadNeverBlocks
  BY DEF Init, NoLostWakeup, ReadNeverBlocks
<1>4. QED
  BY <1>2, <1>3 DEF IInv

LEMMA NextIInv == IInv /\ [Next]_muxVars => IInv'
<1> SUFFICES ASSUME IInv, [Next]_muxVars PROVE IInv'
  OBVIOUS
<1> USE DEF IInv, TypeOK, NoLostWakeup, ReadNeverBlocks, InsideRun, Descriptor
<1>1. CASE Enter
  BY <1>1 DEF Enter
<1>2. CASE RunStep
  <2>1. CASE TestBreak
    BY <2>1 DEF TestBreak
  <2>2. CASE Select
    BY <2>2 DEF Select, Readable
  <2>3. CASE Woken
    BY <2>3 DEF Woken, AfterRead
  <2>4. CASE PacketDone
    BY <2>4 DEF PacketDone
  <2>5. CASE PacketThrows
    BY <2>5 DEF PacketThrows
  <2>6. QED
    BY <1>2, <2>1, <2>2, <2>3, <2>4, <2>5 DEF RunStep
<1>3. CASE SelectInterrupted
  BY <1>3 DEF SelectInterrupted
<1>4. CASE SelectFails
  BY <1>4 DEF SelectFails
<1>5. CASE AsynchronousBreak
  <2>1. CASE SetFlag
    BY <2>1 DEF SetFlag
  <2>2. CASE WriteByte
    BY <2>2 DEF WriteByte
  <2>3. QED
    BY <1>5, <2>1, <2>2 DEF AsynchronousBreak
<1>6. CASE \E p \in Packet : Arrive(p)
  BY <1>6 DEF Arrive
<1>7. CASE UNCHANGED muxVars
  BY <1>7 DEF muxVars
<1>8. QED
  BY <1>1, <1>2, <1>3, <1>4, <1>5, <1>6, <1>7 DEF Next

\* The variables keep their types, whatever the datagrams and the pipe bound.
THEOREM TypeCorrect == Spec => []TypeOK
<1>1. IInv => TypeOK
  BY DEF IInv
<1>2. QED
  BY InitIInv, NextIInv, <1>1, PTL DEF Spec

\* A thread blocked in select() while a break is requested is woken by the byte
\* of that break: AsynchronousBreak (UdpSocket.cpp:532) loses no wake-up.
THEOREM WakeupIsNeverLost == Spec => []NoLostWakeup
<1>1. IInv => NoLostWakeup
  BY DEF IInv
<1>2. QED
  BY InitIInv, NextIInv, <1>1, PTL DEF Spec

\* The read of the self-pipe in Run() never blocks.
THEOREM PipeReadNeverBlocks == Spec => []ReadNeverBlocks
<1>1. IInv => ReadNeverBlocks
  BY DEF IInv
<1>2. QED
  BY InitIInv, NextIInv, <1>1, PTL DEF Spec

\* Every behaviour of the receive loop is one of BreakableRun, its fairness aside:
\* Run() returns only on a request made since it was entered.
THEOREM RunIsBreakable == Spec => Abstract!Init /\ [][Abstract!Next]_(Abstract!runVars)
<1>1. Init => Abstract!Init
  BY DEF Init, Abstract!Init, InsideRun
<1>2. IInv /\ [Next]_muxVars => [Abstract!Next]_(Abstract!runVars)
  <2> SUFFICES ASSUME IInv, [Next]_muxVars
               PROVE  [Abstract!Next]_(Abstract!runVars)
    OBVIOUS
  <2> USE DEF IInv, TypeOK, InsideRun, Abstract!Next, Abstract!runVars,
              Abstract!Start, Abstract!Request, Abstract!Return, Abstract!Throw
  <2>1. CASE Enter
    BY <2>1 DEF Enter
  <2>2. CASE RunStep
    BY <2>2 DEF RunStep, TestBreak, Select, Readable, Woken, AfterRead, PacketDone, PacketThrows
  <2>3. CASE SelectInterrupted
    BY <2>3 DEF SelectInterrupted
  <2>4. CASE SelectFails
    BY <2>4 DEF SelectFails
  <2>5. CASE AsynchronousBreak
    BY <2>5 DEF AsynchronousBreak, SetFlag, WriteByte
  <2>6. CASE \E p \in Packet : Arrive(p)
    BY <2>6 DEF Arrive
  <2>7. CASE UNCHANGED muxVars
    BY <2>7 DEF muxVars
  <2>8. QED
    BY <2>1, <2>2, <2>3, <2>4, <2>5, <2>6, <2>7 DEF Next
<1>3. QED
  BY InitIInv, NextIInv, <1>1, <1>2, PTL DEF Spec
=============================================================================
