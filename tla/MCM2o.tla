------------------------------- MODULE MCM2o -------------------------------
(* M2o for TLC: the value of NamedInputs. *)
EXTENDS M2o

CONSTANTS a, b

NoNames == << >>
=============================================================================
