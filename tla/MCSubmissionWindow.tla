------------------------- MODULE MCSubmissionWindow -------------------------
(* A small instance of SubmissionWindow for TLC.                            *)
EXTENDS SubmissionWindow

\* Updates close or open the window, or switch maintenance on or off.
MCBodies == [{"voting"} -> BOOLEAN] \cup [{"maintenance"} -> BOOLEAN]
=============================================================================
