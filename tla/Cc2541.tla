-------------------------------- MODULE Cc2541 ---------------------------------
(***************************************************************************)
(* The Bluetooth module: cc2541.c, the module itself, and the dialogs of   *)
(* the phone (MainActivity.java) that send the credentials of the WiFi     *)
(* network through it.                                                     *)
(*                                                                         *)
(* While a peer is connected, what the board writes goes to the peer and   *)
(* what it reads comes from it; without one the module takes commands.     *)
(* Text is a sequence of pieces: "OK" and "ERROR" (also in a name), ";", the*)
(* answers "ROLE0" and "ROLE1", and whatever names are made of.            *)
(***************************************************************************)
EXTENDS Integers, Sequences

CONSTANTS
  Pieces,      (* what text is made of                                     *)
  Typed        (* what the user may type: <<id, password>>, in pieces      *)

Separator == ";"

\* The dialog does not accept an empty name or password.
Texts == Seq(Pieces) \ {<<>>}

ASSUME TypedAssumption ==
  /\ {"OK", Separator, "ROLE0", "ROLE1"} \subseteq Pieces
  /\ Typed \subseteq Texts \X Texts

VARIABLES
  cc2541,      (* the driver's object: "open", or "NULL" if init failed    *)
  ble,         (* text on its way to the board or in the receive ring      *)
  peer,        (* "none", "phone" or "switch"                              *)
  role,        (* 0 peripheral, 1 central                                  *)
  gatt,        (* the phone: TRUE from connectGatt (autoConnect) to        *)
               (* disconnect                                               *)
  alertLevel   (* the phone: TRUE once the characteristic has been found   *)

phoneVars == <<gatt, alertLevel>>
bleVars == <<cc2541, ble, peer, role, phoneVars>>

BleInit ==
  /\ cc2541 = "NULL" /\ ble = <<>>
  /\ peer \in {"none", "phone", "switch"}
  /\ role \in {r \in {0, 1} : (peer = "phone" => r = 0) /\ (peer = "switch" => r = 1)}
  /\ gatt = (peer = "phone") /\ alertLevel = (peer = "phone")

-------------------------------------------------------------------------------
(* Reading *)

First(S) == CHOOSE i \in S : \A j \in S : i <= j

HasOK(text) == \E i \in 1 .. Len(text) : text[i] = "OK"

HasSeparator(text) == \E i \in 1 .. Len(text) : text[i] = Separator

\* strtok(rxBuff, ";") skips separators and goes up to the next ...
Begin(text) == First({i \in 1 .. Len(text) : text[i] # Separator} \cup {Len(text) + 1})
End(text) == First({i \in Begin(text) + 1 .. Len(text) : text[i] = Separator} \cup {Len(text) + 1})
Printed(token) == IF token = <<>> THEN <<"(null)">> ELSE token

\* Mutant of Credentials: the separator is kept.
CredentialsWithSeparator(text) ==
  <<Printed(SubSeq(text, Begin(text), End(text) - 1)), Printed(SubSeq(text, End(text), Len(text)))>>

\* ... and strtok(NULL, "\n") takes the rest: no text has a newline before its end.
Credentials(text) ==
  <<Printed(SubSeq(text, Begin(text), End(text) - 1)), Printed(SubSeq(text, End(text) + 1, Len(text)))>>

\* What the module answers to a command, if it takes commands.
Stream(answer) == IF peer = "none" THEN Append(ble, answer) ELSE ble

\* The first n pieces are read; the rest had not come when the delay was over.
Take(stream, n) == ble' = SubSeq(stream, n + 1, Len(stream))

\* cc2541_get_connection_role: without "+ROLE=" in front role is not initialised.
RolesRead(text) ==
  IF text = <<>> THEN {-1}
  ELSE IF text[1] = "ROLE0" THEN {0} ELSE IF text[1] = "ROLE1" THEN {1} ELSE {0, 1}

-------------------------------------------------------------------------------
(* The phone's dialogs, and the link *)

\* A device of the list is chosen.
doConnection ==
  /\ ~gatt /\ gatt' = TRUE
  /\ UNCHANGED <<cc2541, ble, peer, role, alertLevel>>

\* onConnectionStateChange and onServicesDiscovered.
Linked ==
  /\ gatt /\ peer = "none" /\ role = 0
  /\ peer' = "phone" /\ alertLevel' = TRUE
  /\ UNCHANGED <<cc2541, ble, role, gatt>>

\* Out of range: autoConnect links again later.
Unlinked ==
  /\ peer = "phone" /\ peer' = "none"
  /\ UNCHANGED <<cc2541, ble, role, phoneVars>>

\* The Bluetooth dialog is closed.
CloseDialog ==
  /\ gatt /\ gatt' = FALSE /\ alertLevel' = FALSE
  /\ peer' = IF peer = "phone" THEN "none" ELSE peer
  /\ UNCHANGED <<cc2541, ble, role>>

\* What is written without a link is gone.
dataSend(typed) ==
  /\ ble' = IF peer = "phone" THEN ble \o typed[1] \o <<Separator>> \o typed[2] ELSE ble
  /\ UNCHANGED <<cc2541, peer, role, phoneVars>>

\* The WiFi dialog is confirmed: it reports success whatever became of the text.
Confirm(typed) == alertLevel /\ dataSend(typed)
===============================================================================
