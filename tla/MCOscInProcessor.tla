-------------------------- MODULE MCOscInProcessor --------------------------
(* OscInProcessor for TLC: names, arguments and outputs. *)
EXTENDS OscInProcessor

\* Two ports whose names are the same to OSC, one that may be closed.
MCDevice == {"*", "_", "My Synth", "my_synth", "organ"}
MCWildcard == "*"
MCSafeOscString ==
    [d \in MCDevice |-> CASE d = "My Synth" -> "my_synth" [] d = "*" -> "_" [] OTHER -> d]

\* Negative, zero, a channel and value, above seven bits, above eight.
MCInt32Value == {-129, 0, 2, 200, 9000}

Int32Arg(v) == [tag |-> "int32", value |-> v]
BlobArg == [tag |-> "blob", bytes |-> <<240, 1, 247>>]
OversizedArg == [tag |-> "oversized blob"]
OtherArg == [tag |-> "other"]

\* All lists of up to three int32s, and lists with something else or something more.
MCArgumentList ==
    UNION {[1..n -> {Int32Arg(v) : v \in Int32Value}] : n \in 0..3}
    \cup {<<BlobArg>>, <<OversizedArg>>, <<OtherArg>>, <<Int32Arg(2), OtherArg, Int32Arg(0)>>,
          <<Int32Arg(2), BlobArg>>, <<Int32Arg(2), Int32Arg(2), Int32Arg(2), Int32Arg(2)>>}

Open(name) == [name |-> name, open |-> TRUE]
Closed(name) == [name |-> name, open |-> FALSE]

MCOutputList ==
    {<<Open("my_synth")>>, <<Open("My Synth"), Open("my_synth")>>,
     <<Open("organ"), Closed("my_synth")>>}
=============================================================================
