------------------------------- MODULE MCO2m -------------------------------
(* O2m for TLC: the values of NamedOutputs. *)
EXTENDS O2m

CONSTANTS a, b

NoNames == << >>
OneName == <<a>>
=============================================================================
