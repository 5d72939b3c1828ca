----------------------------- MODULE MCProfiler -----------------------------
(* The profiler with one worker and every pair of commands a client may    *)
(* send, among them a capture that is limited to one frame.                *)
EXTENDS Profiler

Command == [kind : {"Stop", "Cancel"}, limit : {0}] \cup [kind : {"Start"}, limit : {0, 1}]
ShortScripts == UNION {[1 .. n -> Command] : n \in 0 .. 2}
NoScript == {<< >>}
=============================================================================
