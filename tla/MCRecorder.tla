------------------------------ MODULE MCRecorder ------------------------------
(* A ring of three frames that restarts its indices soon, so that overflow,   *)
(* restart and lapping all happen within the frames the microphone delivers. *)
EXTENDS Recorder
===============================================================================
