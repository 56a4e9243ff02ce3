---------------------------- MODULE BreakableRun ----------------------------
(***************************************************************************)
(* What a caller of SocketReceiveMultiplexer::Run() and AsynchronousBreak() *)
(* may rely on, without the flag, the pipe and select(). A call to Run()    *)
(* forgets the requests made before it; a request made during it ends it.   *)
(***************************************************************************)
VARIABLES
    state,      \* "outside", "running", or "threw"
    requested   \* a break has been requested since Run() was entered

runVars == <<state, requested>>

Init == state = "outside" /\ requested = FALSE

\* Run() is called; requests made earlier are forgotten.
Start ==
    /\ state = "outside"
    /\ state' = "running"
    /\ requested' = FALSE

\* AsynchronousBreak() takes effect.
Request ==
    /\ requested' = TRUE
    /\ UNCHANGED state

\* Run() returns, only because somebody asked.
Return ==
    /\ state = "running"
    /\ requested
    /\ state' = "outside"
    /\ UNCHANGED requested

\* The packet listener threw and Run() rethrows, or waiting for packets failed.
Throw ==
    /\ state = "running"
    /\ state' = "threw"
    /\ UNCHANGED requested

Next == Start \/ Request \/ Return \/ Throw

Spec == Init /\ [][Next]_runVars /\ WF_runVars(Return)
=============================================================================
