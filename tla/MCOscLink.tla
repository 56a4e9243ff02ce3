------------------------------ MODULE MCOscLink ------------------------------
(* OscLink for TLC: the types of the arguments. *)
EXTENDS OscLink

\* Strings of two and of seven characters, an int32, a blob of two bytes.
KindOfLength == [n \in ArgumentLength |-> IF n = 4 THEN "i" ELSE IF n = 6 THEN "b" ELSE "s"]
=============================================================================
