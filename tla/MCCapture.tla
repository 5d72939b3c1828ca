----------------------------- MODULE MCCapture -----------------------------
(***************************************************************************)
(* Instances of Capture and CaptureResponses for TLC.                      *)
(***************************************************************************)
EXTENDS CaptureResponses

\* A key with its value, a file, and a file that is empty.
MCAttachments == {[kind |-> "summary", size |-> 1], [kind |-> "file", size |-> 1],
                  [kind |-> "file", size |-> 0]}

=============================================================================
