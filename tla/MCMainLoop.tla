------------------------------ MODULE MCMainLoop ------------------------------
(* A clock of eight units, which wraps in the middle of a window of three.    *)
EXTENDS MainLoop
===============================================================================
