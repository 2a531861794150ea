------------------------------ MODULE MCRegistry ------------------------------
(* One name to type (two for the violations), one room and one MAC; the data  *)
(* file holds another device or nothing when the app first starts.            *)
EXTENDS Registry

OneName == {<<"lamp">>}
Plain == {<<"lamp">>, <<"door">>}
Slashed == {<<"lamp">>, <<"door", "back">>}

Entry(name) == [dev |-> name \o <<"kitchen">>, mac |-> "m"]
NothingStored == {<<>>}
NoneOrOneStored == {<<>>, <<Entry(<<"door">>)>>}
TwoStored == {<<Entry(<<"lamp">>), Entry(<<"door">>)>>}
===============================================================================
