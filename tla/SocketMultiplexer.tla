------------------------- MODULE SocketMultiplexer -------------------------
(***************************************************************************)
(* The receive loop of oscpack's SocketReceiveMultiplexer (posix), as osmid *)
(* uses it: one UDP socket, no timers, one thread inside Run() and one      *)
(* other thread that calls AsynchronousBreak() to get the first one out.    *)
(* The two threads share the flag break_ and the self-pipe breakPipe_.      *)
(***************************************************************************)
EXTENDS Integers

CONSTANTS
    Packet,      \* what a datagram can be, as far as the caller tells apart
    NoPacket,    \* the socket has nothing to read
    PipeBound    \* the unread pipe bytes are counted up to here: PipeBound of
                 \* them stand for that many or more

ASSUME NoPacketAssumption == NoPacket \notin Packet
ASSUME PipeBoundAssumption == PipeBound \in Nat \ {0}

VARIABLES
    breakFlag,   \* break_
    pipe,        \* bytes written to breakPipe_[1] and not yet read
    inbox,       \* the datagram at the head of the socket's queue, external
    runPc,       \* where the thread that calls Run() is
    ready,       \* tempfds after select(): the descriptors it found readable
    breaker      \* AsynchronousBreak(): "idle", or "set" between its two statements

muxVars == <<breakFlag, pipe, inbox, runPc, ready, breaker>>

Descriptor == {"pipe", "socket"}

InsideRun == {"while", "select", "woken", "packet"}

TypeOK ==
    /\ breakFlag \in BOOLEAN
    /\ pipe \in 0..PipeBound
    /\ inbox \in Packet \cup {NoPacket}
    /\ runPc \in InsideRun \cup {"outside", "threw"}
    /\ ready \in SUBSET Descriptor
    /\ breaker \in {"idle", "set"}

Init ==
    /\ breakFlag = FALSE
    /\ pipe = 0
    /\ inbox = NoPacket
    /\ runPc = "outside"
    /\ ready = {}
    /\ breaker = "idle"

----------------------------------------------------------------------------
(* The thread inside Run(). *)

Enter ==
    /\ runPc = "outside"
    /\ breakFlag' = FALSE
    /\ runPc' = "while"
    /\ UNCHANGED <<pipe, inbox, ready, breaker>>

TestBreak ==
    /\ runPc = "while"
    /\ runPc' = IF breakFlag THEN "outside" ELSE "select"
    /\ UNCHANGED <<breakFlag, pipe, inbox, ready, breaker>>

Readable(d) ==
    \/ d = "pipe" /\ pipe > 0
    \/ d = "socket" /\ inbox # NoPacket

\* select() blocks until one of the two descriptors is readable.
Select ==
    /\ runPc = "select"
    /\ ready' = {d \in Descriptor : Readable(d)}
    /\ ready' # {}
    /\ runPc' = "woken"
    /\ UNCHANGED <<breakFlag, pipe, inbox, breaker>>

\* Mutant: EINTR falls through to the descriptors select() did not clear.
InterruptedFallsThrough ==
    /\ runPc = "select"
    /\ ready' = Descriptor
    /\ runPc' = "woken"
    /\ UNCHANGED <<breakFlag, pipe, inbox, breaker>>

\* A signal handled by this thread: select() fails with EINTR.
SelectInterrupted ==
    /\ runPc = "select"
    /\ runPc' = IF breakFlag THEN "outside" ELSE "while"
    /\ UNCHANGED <<breakFlag, pipe, inbox, ready, breaker>>

\* select() fails for another reason.
SelectFails ==
    /\ runPc = "select"
    /\ runPc' = IF breakFlag THEN "outside" ELSE "threw"
    /\ UNCHANGED <<breakFlag, pipe, inbox, ready, breaker>>

\* What read() of one byte can leave in the pipe.
AfterRead == {pipe - 1} \cup (IF pipe = PipeBound THEN {pipe} ELSE {})

\* Mutant: the test of break_ after the pipe is read is forgotten.
WokenForgetsBreak ==
    /\ runPc = "woken"
    /\ pipe' \in IF "pipe" \in ready THEN AfterRead ELSE {pipe}
    /\ runPc' = IF "socket" \in ready THEN "packet" ELSE "select"
    /\ ready' = {}
    /\ UNCHANGED <<breakFlag, inbox, breaker>>

\* Mutant: the pipe is read whether select() reported it or not.
WokenReadsAlways ==
    /\ runPc = "woken"
    /\ pipe' \in AfterRead
    /\ runPc' = IF breakFlag THEN "outside"
                ELSE IF "socket" \in ready THEN "packet" ELSE "while"
    /\ ready' = {}
    /\ UNCHANGED <<breakFlag, inbox, breaker>>

\* One byte leaves the pipe, then break_ is tested, then the socket is looked at.
Woken ==
    /\ runPc = "woken"
    /\ pipe' \in IF "pipe" \in ready THEN AfterRead ELSE {pipe}
    /\ runPc' = IF breakFlag THEN "outside"
                ELSE IF "socket" \in ready THEN "packet" ELSE "while"
    /\ ready' = {}
    /\ UNCHANGED <<breakFlag, inbox, breaker>>

\* ReceiveFrom and a ProcessPacket that returns. With no timers the loop then
\* tests break_, whether the test after ProcessPacket breaks the for or not.
PacketDone ==
    /\ runPc = "packet"
    /\ inbox' = NoPacket
    /\ runPc' = "while"
    /\ UNCHANGED <<breakFlag, pipe, ready, breaker>>

\* ReceiveFrom and a ProcessPacket that throws: Run() rethrows.
PacketThrows ==
    /\ runPc = "packet"
    /\ inbox' = NoPacket
    /\ runPc' = "threw"
    /\ UNCHANGED <<breakFlag, pipe, ready, breaker>>

----------------------------------------------------------------------------
(* AsynchronousBreak(), called by one other thread at a time: two           *)
(* statements, the flag and then the byte.                                  *)

SetFlag ==
    /\ breaker = "idle"
    /\ breakFlag' = TRUE
    /\ breaker' = "set"
    /\ UNCHANGED <<pipe, inbox, runPc, ready>>

\* Mutant: the flag is set and the byte forgotten.
WriteNothing ==
    /\ breaker = "set"
    /\ breaker' = "idle"
    /\ UNCHANGED <<breakFlag, pipe, inbox, runPc, ready>>

WriteByte ==
    /\ breaker = "set"
    /\ pipe' = IF pipe < PipeBound THEN pipe + 1 ELSE pipe
    /\ breaker' = "idle"
    /\ UNCHANGED <<breakFlag, inbox, runPc, ready>>

\* Mutant: the byte first, the flag second.
BreakSwapped ==
    \/ /\ breaker = "idle"
       /\ pipe' = IF pipe < PipeBound THEN pipe + 1 ELSE pipe
       /\ breaker' = "set"
       /\ UNCHANGED <<breakFlag, inbox, runPc, ready>>
    \/ /\ breaker = "set"
       /\ breakFlag' = TRUE
       /\ breaker' = "idle"
       /\ UNCHANGED <<pipe, inbox, runPc, ready>>

AsynchronousBreak == SetFlag \/ WriteByte

\* The network, external: a datagram reaches the socket.
Arrive(p) ==
    /\ inbox = NoPacket
    /\ inbox' = p
    /\ UNCHANGED <<breakFlag, pipe, runPc, ready, breaker>>

----------------------------------------------------------------------------
(* The component on its own: a caller that calls Run() again whenever it    *)
(* has returned, and a breaker that may break it at any moment.             *)

RunStep ==
    \/ TestBreak \/ Select \/ Woken \/ PacketDone \/ PacketThrows

Next ==
    \/ Enter
    \/ RunStep
    \/ SelectInterrupted
    \/ SelectFails
    \/ AsynchronousBreak
    \/ \E p \in Packet : Arrive(p)

\* The thread in Run() and a call to AsynchronousBreak() that has begun keep
\* running; nobody is obliged to call either function, to signal or to send, and
\* select() need not fail.
Spec ==
    /\ Init
    /\ [][Next]_muxVars
    /\ WF_muxVars(RunStep)
    /\ WF_muxVars(WriteByte)

----------------------------------------------------------------------------
(* Properties. *)

\* No lost wake-up: a thread blocked in select() while a break is requested has
\* a byte to read, or the breaker has still to write it. This is what the order
\* of the two statements of AsynchronousBreak (UdpSocket.cpp:534-537) is for.
NoLostWakeup ==
    runPc = "select" /\ breakFlag => pipe > 0 \/ breaker = "set"

\* Every byte that select() reported is still there when read() is called, so
\* the read at UdpSocket.cpp:482 never blocks (only this thread reads the pipe).
ReadNeverBlocks == runPc = "woken" /\ "pipe" \in ready => pipe > 0

\* What Run() and AsynchronousBreak() promise together: Run() returns only when a
\* break was requested since it was entered, a byte left in the pipe by an earlier
\* break does not end it, and a break requested during it ends it.
Abstract == INSTANCE BreakableRun WITH
    state     <- IF runPc \in InsideRun THEN "running" ELSE runPc,
    requested <- breakFlag

ImplementsBreakableRun == Abstract!Spec
=============================================================================
