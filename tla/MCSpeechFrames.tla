--------------------------- MODULE MCSpeechFrames ---------------------------
(* SpeechFrames as it is: its constants are numbers. *)
EXTENDS SpeechFrames
=============================================================================
