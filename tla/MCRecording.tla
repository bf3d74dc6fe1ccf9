---------------------------- MODULE MCRecording -----------------------------
(* Instances of Recording.                                                  *)
EXTENDS Recording

CONSTANTS i1, i2, i3
=============================================================================
