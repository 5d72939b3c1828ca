------------------------------ MODULE MCStartup ------------------------------
(* Startup on machines that report 0 to 6 hardware threads and a user who  *)
(* types 0 to 12, with unsigned int cut down to 0 .. 11.                   *)
EXTENDS Startup

SmallHardware == {0, 1, 2, 4, 5, 6}
SmallArguments == {0, 1, 2, 4, 5, 7}
=============================================================================
