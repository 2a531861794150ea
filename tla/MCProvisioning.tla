---------------------------- MODULE MCProvisioning -----------------------------
(* The network's credentials, a name that contains "OK", and one with a ";"   *)
(* and a password that contains "ERROR".                                      *)
EXTENDS Provisioning

TheNetwork == <<<<"home", "net">>, <<"secret">>>>
AnyText == {TheNetwork, <<<<"OK">>, <<"secret">>>>, <<<<"home", ";", "net">>, <<"ERROR">>>>}
TextPieces == {"OK", "ERROR", ";", "ROLE0", "ROLE1", "home", "net", "secret"}
===============================================================================
