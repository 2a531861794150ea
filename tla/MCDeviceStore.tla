---------------------------- MODULE MCDeviceStore -----------------------------
(* A device with a plain name and one whose name holds a space, as in "my      *)
(* lamp"; two MACs; lists of up to three entries.                              *)
EXTENDS DeviceStore

Letters == {"@", " ", "door", "my", "lamp", "m", "n"}
PlainAndSpaced == {<<"door">>, <<"my", " ", "lamp">>}
TwoMacs == {<<"m">>, <<"n">>}
===============================================================================
