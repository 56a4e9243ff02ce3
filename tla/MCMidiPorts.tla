---------------------------- MODULE MCMidiPorts ----------------------------
(* MidiPorts for TLC: a caller that closes its ports before it has more than *)
(* MaxDevices of them.                                                       *)
EXTENDS MidiPorts

MCNext == Next /\ Len(outputs') <= MaxDevices

MCSpec == Init /\ [][MCNext]_portVars
=============================================================================
