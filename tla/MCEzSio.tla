-------------------------------- MODULE MCEzSio --------------------------------
(* A small serial port: see README.md for the bounds. *)
EXTENDS EzSio
===============================================================================
