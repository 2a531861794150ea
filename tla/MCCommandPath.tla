---------------------------- MODULE MCCommandPath -----------------------------
(* Two messages from the phone for a device with a plain name and two whose  *)
(* names contain "reg" and "trig"; nobody speaks to the board.               *)
EXTENDS CommandPath

CONSTANTS lamp, regulator, trigger

MCTargets == {lamp, regulator, trigger}
MCWordsIn == [t \in MCTargets |-> CASE t = regulator -> <<"reg">>
                                    [] t = trigger -> <<"trig">>
                                    [] OTHER -> <<>>]
MCInputs == ({"trig"} \X MCTargets) \cup {<<"reg", lamp>>, <<"del", trigger>>}
===============================================================================
