-------------------------------- MODULE Esp8266 --------------------------------
(***************************************************************************)
(* The AT dialogue with the WiFi module: at_parser.c, the commands of      *)
(* esp8266.c that main.c uses, and the module at the other end.            *)
(*                                                                         *)
(* The board writes a command and reads up to the first OK or ERROR, or    *)
(* gives up after a while.  Nothing says which command an answer is for,   *)
(* and nothing empties the ring before the next command: an answer that    *)
(* comes too late is taken for the answer to a later one.  Nor does the    *)
(* board turn the module's echo off: an OK or ERROR in the credentials it  *)
(* sends comes back before the answer, and is taken for it.                *)
(***************************************************************************)
EXTENDS Naturals, Sequences

CONSTANTS
  Network,     (* the credentials that let the module join, <<ssid, pswd>> *)
  MaxFaults    (* bound: answers that come late or negative, lost links,   *)
               (* and what goes wrong on the Bluetooth side, in all        *)

ASSUME WifiAssumption == MaxFaults \in Nat

VARIABLES
  wifi_connected,  (* what the board believes                              *)
  trans_mode,      (* "NORMALSEND" or "PASSTHR", likewise                  *)
  asked,           (* TRUE: at_get_reply waits                             *)
  cmds,            (* commands the module has not carried out yet          *)
  line,            (* answers the board has not read yet                   *)
  wifi,            (* the module: [mode, joined, tcp, cipmode, sending]    *)
  faults,          (* history: what went wrong, counted                    *)
  causes,          (* history: and what it was                             *)
  misread          (* history: an OK was taken that was none, or that was  *)
                   (* the answer to another command                        *)

driverVars == <<wifi_connected, trans_mode>>
atVars == <<asked, cmds, line, misread>>
wifiVars == <<driverVars, atVars, wifi>>

\* A module that was not reset with the board may be joined, connected and
\* passing everything through; one that was may know a network to join.
WifiStates ==
  {w \in [mode : {"STA", "other"}, joined : {"no", "joining", "yes"},
          tcp : {"none", "open", "closed"}, cipmode : BOOLEAN, sending : BOOLEAN] :
     /\ w.mode = "other" => w.joined = "no"
     /\ w.joined # "yes" => w.tcp # "open"
     /\ w.sending => w.cipmode}

\* esp8266_init
WifiInit ==
  /\ wifi_connected = FALSE /\ trans_mode = "NORMALSEND"
  /\ asked = FALSE /\ cmds = <<>> /\ line = <<>>
  /\ wifi \in {w \in WifiStates : w.cipmode = w.sending /\ (w.sending => w.tcp = "open")}
  /\ faults = 0 /\ causes = {} /\ misread = FALSE

Fault(cause) ==
  /\ faults < MaxFaults
  /\ faults' = faults + 1
  /\ causes' = causes \cup {cause}

NoFault == UNCHANGED <<faults, causes>>

-------------------------------------------------------------------------------
(* at_parser.c *)

\* What at_get_reply looks for, in the text of a command.
Verdicts(args) ==
  IF args = <<>> THEN <<>> ELSE SelectSeq(args[1] \o args[2], LAMBDA p : p \in {"OK", "ERROR"})

\* A command on its way, and what of its echo is to come.
Sent(name, args) == [name |-> name, args |-> args, echo |-> Verdicts(args), stale |-> FALSE]

Stale(s) == [i \in 1 .. Len(s) |-> [s[i] EXCEPT !.stale = TRUE]]

\* What is still to come belongs to earlier commands.
at_send_cmd(name, args) ==
  /\ ~asked /\ asked' = TRUE
  /\ cmds' = Append(Stale(cmds), Sent(name, args))
  /\ line' = Stale(line)
  /\ UNCHANGED <<driverVars, wifi, misread, faults, causes>>

\* The first OK or ERROR there is ends the reading.
Answered(ret, data) ==
  /\ line # <<>>
  /\ ret = Head(line).final /\ data = Head(line).data
  /\ line' = Tail(line)
  /\ misread' = (misread \/ (ret = "OK" /\ (Head(line).stale \/ Head(line).data = "echo")))
  /\ NoFault

\* The time is over: an answer under way stays, perhaps without its data.
GaveUp ==
  /\ IF cmds = <<>> /\ line = <<>>
     THEN NoFault /\ UNCHANGED line
     ELSE /\ Fault("late")
          /\ \/ UNCHANGED line
             \/ line # <<>> /\ line' = [line EXCEPT ![1].data = "none"]
  /\ UNCHANGED misread

at_get_reply(ret, data) ==
  /\ asked /\ asked' = FALSE
  /\ \/ Answered(ret, data)
     \/ ret = "ERROR" /\ data = "none" /\ GaveUp
  /\ UNCHANGED <<cmds, wifi>>

-------------------------------------------------------------------------------
(* The module *)

STATUS(w) ==
  IF w.joined = "yes" THEN [none |-> "2", open |-> "3", closed |-> "4"][w.tcp] ELSE "5"

Refuses(c) ==
  \/ c.name = "CIPSTART" /\ (wifi.joined # "yes" \/ wifi.tcp = "open")
  \/ c.name = "CIPSEND" /\ ~(wifi.cipmode /\ wifi.tcp = "open")
  \/ c.name = "CWJAP_DEF" /\ wifi.mode # "STA"

\* The module's state and its answer when it does what it is told.
After(c) ==
  CASE c.name \in {"CWMODE_DEF", "CWMODE_CUR"} -> [wifi EXCEPT !.mode = "STA"]
    [] c.name = "CWJAP_DEF" ->
         [wifi EXCEPT !.joined = IF c.args = Network THEN "yes" ELSE "no", !.tcp = "none"]
    [] c.name = "CIPSTART" -> [wifi EXCEPT !.tcp = "open"]
    [] c.name = "CIPMODE" -> [wifi EXCEPT !.cipmode = TRUE]
    [] c.name = "CIPSEND" -> [wifi EXCEPT !.sending = TRUE]
    [] OTHER -> wifi

Data(c) ==
  CASE c.name = "CWMODE_DEF?" -> wifi.mode
    [] c.name = "CIPSTATUS" -> STATUS(wifi)
    [] c.name = "CWJAP_DEF" /\ c.args # Network -> "CWJAP"
    [] OTHER -> "none"

Answer(c, data, final) == line' = Append(line, [data |-> data, final |-> final, stale |-> c.stale])

\* A command comes back as it was sent, before it is carried out.
Echo ==
  LET c == Head(cmds)
  IN /\ cmds # <<>> /\ ~wifi.sending /\ c.echo # <<>>
     /\ cmds' = [cmds EXCEPT ![1].echo = Tail(@)]
     /\ Answer(c, "echo", Head(c.echo))
     /\ causes' = causes \cup {"echoed"}
     /\ UNCHANGED <<driverVars, asked, misread, wifi, faults>>

\* In transparent mode commands are data for the server.  A failed join may
\* end in neither OK nor ERROR.
Obey ==
  LET c == Head(cmds)
  IN /\ cmds # <<>> /\ cmds' = Tail(cmds)
     /\ wifi.sending \/ c.echo = <<>>
     /\ IF wifi.sending THEN UNCHANGED <<wifi, line, faults, causes>>
        ELSE \/ /\ ~Refuses(c)
                /\ wifi' = After(c)
                /\ \/ Answer(c, Data(c), "OK")
                   \/ Data(c) = "CWJAP" /\ UNCHANGED line
                /\ NoFault
             \/ /\ Answer(c, "none", "ERROR")
                /\ IF Refuses(c)
                   THEN UNCHANGED faults /\ causes' = causes \cup {"refused"}
                   ELSE Fault("refused")
                /\ UNCHANGED wifi
     /\ UNCHANGED <<driverVars, asked, misread>>

AutoJoin ==
  /\ wifi.joined = "joining"
  /\ wifi' = [wifi EXCEPT !.joined = "yes"]
  /\ UNCHANGED <<driverVars, atVars, faults, causes>>

\* The access point or the server goes away.
LinkLost ==
  /\ \/ /\ wifi.joined = "yes"
        /\ wifi' = [wifi EXCEPT !.joined = "joining", !.tcp = IF @ = "open" THEN "closed" ELSE @]
     \/ wifi.tcp = "open" /\ wifi' = [wifi EXCEPT !.tcp = "closed"]
  /\ Fault("lost")
  /\ UNCHANGED <<driverVars, atVars>>

WifiModule == Echo \/ Obey \/ AutoJoin \/ LinkLost

-------------------------------------------------------------------------------
(* esp8266.c: what the driver makes of an answer *)

\* Mutant of conn_status: a status of 5 counts as well.
conn_statusAny(ret, data) ==
  /\ wifi_connected' = (wifi_connected \/ (ret = "OK" /\ data \in {"2", "3", "4", "5"}))
  /\ UNCHANGED trans_mode

\* esp8266_conn_status: any status below 5 counts as connected.
conn_status(ret, data) ==
  /\ wifi_connected' = (wifi_connected \/ (ret = "OK" /\ data \in {"2", "3", "4"}))
  /\ UNCHANGED trans_mode

\* esp8266_wifi_connect, its second half: an OK without a code is success.
Joins(ret, data) == ret = "OK" /\ data # "CWJAP"
wifi_connect(ret, data) ==
  /\ wifi_connected' = (wifi_connected \/ Joins(ret, data))
  /\ UNCHANGED trans_mode

\* esp8266_transmission_mode(ESP8266_PASSTHR)
transmission_mode(ret) ==
  /\ trans_mode' = IF ret = "OK" THEN "PASSTHR" ELSE trans_mode
  /\ UNCHANGED wifi_connected

\* esp8266_passthr_end, and the pause after it: nothing is read.  What the
\* module was passing through has gone to the server.
passthr_end ==
  /\ ~asked
  /\ trans_mode' = "NORMALSEND"
  /\ wifi' = [wifi EXCEPT !.sending = FALSE]
  /\ cmds' = IF wifi.sending THEN <<>> ELSE cmds
  /\ UNCHANGED <<wifi_connected, asked, line, misread, faults, causes>>
===============================================================================
