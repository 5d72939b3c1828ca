------------------------------- MODULE MCServer -------------------------------
(* Two clients: commands of every type but one that is like another, garbage *)
(* between commands and a command of a later protocol version.  A password   *)
(* of two bytes needs the padding of base64.                                 *)
EXTENDS Server

Start(n, word) == [type |-> "Start", settings |-> n, password |-> word]
Plain(t)       == [type |-> t]
Sampling       == [type |-> "TurnSampling", index |-> 9, isSampling |-> 1]
Later          == [type |-> "Later", field |-> 7]
Garbage        == [type |-> "Garbage", field |-> 6]

MCScripts == <<<<Start(1, <<255, 18>>), Plain("Stop")>>,
               <<Garbage, Later, Plain("Cancel")>>,
               <<Sampling, Garbage, Plain("Stop")>>>>
=============================================================================
