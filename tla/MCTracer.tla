------------------------------ MODULE MCTracer ------------------------------
(***************************************************************************)
(* Instances of Tracer for TLC.                                            *)
(***************************************************************************)
EXTENDS Tracer

\* A stack of one good address, and one whose outer address is bad.
MCCallstacks == {<<7>>, <<8, 0>>}

=============================================================================
