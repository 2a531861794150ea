----------------------------- MODULE Provisioning ------------------------------
(***************************************************************************)
(* main() up to its endless loop (main.c:130-224): find the WiFi module,   *)
(* join a network, asking the phone for the credentials if need be, wait   *)
(* for the phone to leave, connect to the server and to the switch.        *)
(*                                                                         *)
(* An exchange with the Bluetooth module (write, wait, read) is one step:  *)
(* the phone does not link and send within its 100 ms.  An exchange with   *)
(* the WiFi module is two.                                                 *)
(***************************************************************************)
EXTENDS Esp8266, Cc2541

ASSUME ProvisioningAssumption == Network \in Typed

VARIABLES
  pc,        (* the call of main() under way                               *)
  trialNum,  (* status queries in this round                               *)
  creds      (* <<ssid, pswd>>                                             *)

vars == <<wifiVars, bleVars, faults, causes, pc, trialNum, creds>>
mainVars == <<trialNum, creds>>

MAX_CONN_TRIAL == 3

Init ==
  /\ WifiInit /\ BleInit
  /\ pc = "cc2541_init" /\ trialNum = 0 /\ creds = <<>>

-------------------------------------------------------------------------------
(* Exchanges with the WiFi module: the command, then main's next call. *)

Command(call) ==
  CASE call = "at_test" -> <<"AT", <<>>>>
    [] call = "mode_get" -> <<"CWMODE_DEF?", <<>>>>
    [] call = "mode_set" -> <<"CWMODE_DEF", <<>>>>
    [] call = "conn_status" -> <<"CIPSTATUS", <<>>>>
    [] call = "wifi_connect" -> <<"CWMODE_CUR", <<>>>>
    [] call = "join" -> <<"CWJAP_DEF", creds>>
    [] call = "tcp_connect" -> <<"CIPSTART", <<>>>>
    [] call = "passthr_start" -> <<"CIPMODE", <<>>>>
    [] call = "send" -> <<"CIPSEND", <<>>>>

WifiCalls == {"at_test", "mode_get", "mode_set", "conn_status", "wifi_connect", "join",
              "tcp_connect", "passthr_start", "send"}

Ask ==
  /\ pc \in WifiCalls
  /\ at_send_cmd(Command(pc)[1], Command(pc)[2])
  /\ UNCHANGED <<bleVars, pc, mainVars>>

Replied(call, ret, data) ==
  /\ pc = call
  /\ at_get_reply(ret, data)
  /\ UNCHANGED <<bleVars, creds>>

\* A reply that only decides which call is next.
Decides(call, ret, data, next) ==
  /\ Replied(call, ret, data)
  /\ pc' = next
  /\ UNCHANGED <<driverVars, trialNum>>

\* Mutant of TestReplied: nobody reads the answer.
TestUnread(ret, data) ==
  /\ pc = "at_test" /\ asked /\ asked' = FALSE
  /\ pc' = "mode_get"
  /\ UNCHANGED <<driverVars, cmds, line, misread, wifi, faults, causes, bleVars, mainVars>>

TestReplied(ret, data) == Decides("at_test", ret, data, "mode_get")

ModeGot(ret, data) ==
  Decides("mode_get", ret, data, IF data = "STA" THEN "passthr_end" ELSE "mode_set")

ModeSet(ret, data) == Decides("mode_set", ret, data, "passthr_end")

PassthrEnd ==
  /\ pc = "passthr_end" /\ passthr_end
  /\ pc' = "conn_status"
  /\ UNCHANGED <<bleVars, mainVars>>

\* Mutant of StatusReplied: one query too many.
StatusRepliedOnceMore(ret, data) ==
  /\ Replied("conn_status", ret, data)
  /\ conn_status(ret, data)
  /\ IF data # "2" /\ trialNum + 1 <= MAX_CONN_TRIAL
     THEN trialNum' = trialNum + 1 /\ UNCHANGED pc
     ELSE /\ trialNum' = 0
          /\ pc' = IF wifi_connected' THEN "test_AT" ELSE "get_role"

\* The for loop, and the questions after it.
StatusReplied(ret, data) ==
  /\ Replied("conn_status", ret, data)
  /\ conn_status(ret, data)
  /\ IF data # "2" /\ trialNum + 1 < MAX_CONN_TRIAL
     THEN trialNum' = trialNum + 1 /\ UNCHANGED pc
     ELSE /\ trialNum' = 0
          /\ pc' = IF wifi_connected' THEN "test_AT" ELSE "get_role"

\* esp8266_wifi_connect gives up if the mode was not confirmed.
ConnectReplied(ret, data) ==
  Decides("wifi_connect", ret, data, IF ret = "OK" THEN "join" ELSE "conn_status")

JoinReplied(ret, data) ==
  /\ Replied("join", ret, data)
  /\ wifi_connect(ret, data)
  /\ pc' = IF wifi_connected' THEN "test_AT" ELSE "conn_status"
  /\ UNCHANGED trialNum

TcpReplied(ret, data) ==
  Decides("tcp_connect", ret, data, IF ret = "OK" THEN "passthr_start" ELSE "conn_switch")

\* Mutant of ModeReplied: the module is not told to start sending.
ModeRepliedNoSend(ret, data) ==
  /\ Replied("passthr_start", ret, data)
  /\ transmission_mode(ret)
  /\ pc' = "conn_switch"
  /\ UNCHANGED trialNum

ModeReplied(ret, data) ==
  /\ Replied("passthr_start", ret, data)
  /\ transmission_mode(ret)
  /\ pc' = IF ret = "OK" THEN "send" ELSE "conn_switch"
  /\ UNCHANGED trialNum

SendReplied(ret, data) == Decides("send", ret, data, "conn_switch")

WifiReply ==
  \E ret \in {"OK", "ERROR"},
    data \in {"none", "echo", "STA", "other", "2", "3", "4", "5", "CWJAP"} :
      \/ TestReplied(ret, data) \/ ModeGot(ret, data) \/ ModeSet(ret, data)
      \/ StatusReplied(ret, data) \/ ConnectReplied(ret, data) \/ JoinReplied(ret, data)
      \/ TcpReplied(ret, data) \/ ModeReplied(ret, data) \/ SendReplied(ret, data)

-------------------------------------------------------------------------------
(* Exchanges with the Bluetooth module *)

\* cc2541_read: what has come within the delay.
cc2541_read(stream, text) ==
  \E n \in 0 .. Len(stream) :
    /\ text = SubSeq(stream, 1, n)
    /\ Take(stream, n)
    /\ IF n = Len(stream) THEN NoFault ELSE Fault("behind")

Reads(stream) == {SubSeq(stream, 1, n) : n \in 0 .. Len(stream)}

InitBle ==
  /\ pc = "cc2541_init"
  /\ \E text \in Reads(Stream("OK")) :
       /\ cc2541_read(Stream("OK"), text)
       /\ cc2541' = IF HasOK(text) THEN "open" ELSE "NULL"
  /\ pc' = "at_test"
  /\ UNCHANGED <<wifiVars, peer, role, phoneVars, mainVars>>

\* main() only prints a message when cc2541_init returned NULL: what the first
\* use of it does is undefined.
UseNull ==
  /\ cc2541 = "NULL" /\ pc \in {"get_role", "test_AT"}
  /\ pc' = "undefined"
  /\ UNCHANGED <<wifiVars, bleVars, faults, causes, mainVars>>

RoleAnswer == IF role = 0 THEN "ROLE0" ELSE "ROLE1"

GetRole ==
  /\ pc = "get_role" /\ cc2541 = "open"
  /\ \E text \in Reads(Stream(RoleAnswer)) :
       /\ cc2541_read(Stream(RoleAnswer), text)
       /\ \E r \in RolesRead(text) : pc' = IF r = 1 THEN "set_role0" ELSE "read_creds"
  /\ UNCHANGED <<wifiVars, cc2541, peer, role, phoneVars, mainVars>>

\* cc2541_set_connection_role: main() does not look at its result.
SetRole(call, r, answer, next) ==
  /\ pc = call
  /\ \E text \in Reads(Stream(answer)) : cc2541_read(Stream(answer), text)
  /\ role' = IF peer = "none" THEN r ELSE role
  /\ pc' = next
  /\ UNCHANGED <<wifiVars, cc2541, peer, phoneVars, mainVars>>

\* Mutant of SetRole0: the module stays central.
SetRole0Never ==
  /\ pc = "set_role0" /\ pc' = "read_creds"
  /\ UNCHANGED <<wifiVars, bleVars, faults, causes, mainVars>>

SetRole0 == SetRole("set_role0", 0, "ROLE0", "read_creds")

\* Any text ends the inner loop: sprintf has put something behind both quotes.
ReadCreds ==
  /\ pc = "read_creds"
  /\ \E text \in Reads(ble) \ {<<>>} :
       /\ cc2541_read(ble, text)
       /\ creds' = Credentials(text)
  /\ pc' = "wifi_connect"
  /\ UNCHANGED <<wifiVars, cc2541, peer, role, phoneVars, trialNum>>

\* Mutant of TestAT: tried once.
TestATOnce ==
  /\ pc = "test_AT" /\ cc2541 = "open"
  /\ \E text \in Reads(Stream("OK")) : cc2541_read(Stream("OK"), text)
  /\ pc' = "set_role1"
  /\ UNCHANGED <<wifiVars, cc2541, peer, role, phoneVars, mainVars>>

\* while (cc2541_test_AT(cc2541) != 0)
TestAT ==
  /\ pc = "test_AT" /\ cc2541 = "open"
  /\ \E text \in Reads(Stream("OK")) :
       /\ cc2541_read(Stream("OK"), text)
       /\ pc' = IF HasOK(text) THEN "set_role1" ELSE pc
  /\ UNCHANGED <<wifiVars, cc2541, peer, role, phoneVars, mainVars>>

SetRole1 == SetRole("set_role1", 1, "ROLE1", "tcp_connect")

\* AT+INQ and AT+CONN1: the answers are never read.
ConnectSwitch ==
  /\ pc = "conn_switch"
  /\ peer' \in IF role = 1 /\ peer = "none" THEN {"none", "switch"} ELSE {peer}
  /\ pc' = "loop"
  /\ UNCHANGED <<wifiVars, cc2541, ble, role, phoneVars, faults, causes, mainVars>>

Board ==
  \/ Ask \/ WifiReply \/ PassthrEnd
  \/ InitBle \/ UseNull \/ GetRole \/ SetRole0 \/ ReadCreds \/ TestAT \/ SetRole1
  \/ ConnectSwitch

-------------------------------------------------------------------------------
(* The user *)

\* Bound: whatever the board does not wait for counts as a fault.
Prompted(now) == IF now THEN NoFault ELSE Fault("hasty")

Phone ==
  /\ \/ doConnection /\ Prompted(pc = "read_creds")
     \/ CloseDialog /\ Prompted(pc = "test_AT")
     \/ \E typed \in Typed : Confirm(typed) /\ Prompted(pc = "read_creds" /\ ble = <<>>)
     \/ Linked /\ IF pc = "set_role1" THEN Fault("relinked") ELSE NoFault
     \/ Unlinked /\ Fault("unlinked")
  /\ UNCHANGED <<wifiVars, pc, mainVars>>

\* Bound: the instance ends where the endless loop begins (MainLoop).
Ended == pc \in {"loop", "undefined"}

World ==
  \/ Phone
  \/ WifiModule /\ UNCHANGED <<bleVars, pc, mainVars>>

Next == Board \/ (~Ended /\ World)

\* The module answers, the link is made, and the user does what the board waits
\* for; one who types in vain types the right credentials in the end.
Prompt == Phone /\ NoFault /\ ~Ended

Spec ==
  /\ Init /\ [][Next]_vars
  /\ WF_vars(Board)
  /\ WF_vars(~Ended /\ (Echo \/ Obey) /\ UNCHANGED <<bleVars, pc, mainVars>>)
  /\ WF_vars(Linked /\ Prompt) /\ WF_vars(doConnection /\ Prompt)
  /\ WF_vars(CloseDialog /\ Prompt) /\ SF_vars(Confirm(Network) /\ Prompt)

-------------------------------------------------------------------------------
(* Properties *)

TypeOK ==
  /\ pc \in WifiCalls \cup {"cc2541_init", "passthr_end", "get_role", "set_role0", "read_creds",
                          "test_AT", "set_role1", "conn_switch", "loop", "undefined"}
  /\ wifi_connected \in BOOLEAN /\ trans_mode \in {"NORMALSEND", "PASSTHR"}
  /\ asked \in BOOLEAN /\ misread \in BOOLEAN /\ wifi \in WifiStates
  /\ faults \in 0 .. MaxFaults
  /\ causes \subseteq {"late", "echoed", "refused", "lost", "behind", "hasty", "relinked",
                      "unlinked"}
  /\ trialNum \in 0 .. MAX_CONN_TRIAL - 1
  /\ cc2541 \in {"NULL", "open"} /\ peer \in {"none", "phone", "switch"} /\ role \in {0, 1}
  /\ ble \in Seq(Pieces)
  /\ gatt \in BOOLEAN /\ alertLevel \in BOOLEAN

\* Whatever the order of commands, retries and silences, an OK is taken for what
\* it is not only after an answer came later than its timeout, or after the text
\* of a command came back with an OK or ERROR in it.
AnsweredForItself == misread => causes \cap {"late", "echoed"} # {}

\* The board believes in a network only if the module has joined it, unless an
\* answer came late, an OK or ERROR was in what the user typed, or the network
\* went away since.
BelievedJoined ==
  wifi_connected /\ causes \cap {"late", "echoed", "lost"} = {} => wifi.joined = "yes"

\* The loop of main() starts with the module passing everything through to the
\* server, unless the module refused a command, an answer came late, an echo was
\* taken for one or a link was lost: nothing else leaves the board offline, for
\* which there is no second attempt.
OnlineAtLast ==
  pc = "loop" /\ causes \cap {"late", "echoed", "refused", "lost"} = {} =>
    trans_mode = "PASSTHR" /\ wifi.sending /\ wifi.joined = "yes"

\* The network is joined with what the user typed, unless the user was hasty or
\* text was read before all of it had come.  A ";" in the name divides it.
TypedCredentials ==
  pc \in {"wifi_connect", "join"} /\ causes \cap {"hasty", "behind"} = {} =>
    \E typed \in Typed :
      creds = IF HasSeparator(typed[1])
              THEN Credentials(typed[1] \o <<Separator>> \o typed[2])
              ELSE typed

\* The Bluetooth module is central when it is told to connect to the switch,
\* unless an OK was not the answer of a module without a peer, or the phone
\* linked again at that moment.
CentralForSwitch ==
  pc = "conn_switch" /\ causes \cap {"behind", "hasty", "relinked"} = {} => role = 1

\* main() reaches its loop in the end, or the use of a driver that failed to
\* start, however answers, reads, links and the user's haste fall.
ProvisioningEnds == <>Ended

\* The comment of esp8266_wifi_connect: AT_OK is success.
OkIsSuccess ==
  [][ \A ret \in {"OK"}, data \in {"none"} :
        JoinReplied(ret, data) /\ "lost" \notin causes => wifi.joined = "yes" ]_vars

-------------------------------------------------------------------------------
(* The strengthened invariants that ProvisioningProofs shows inductive *)

Current == Sent(Command(pc)[1], Command(pc)[2])

Answers ==
  [data : {"none", "STA", "other", "2", "3", "4", "5", "CWJAP"}, final : {"OK", "ERROR"}, stale : {FALSE}]

\* While no answer is late and no echo is taken for one, the ring and the module
\* hold nothing but the command the board waits for, or its answer.
Dialogue ==
  /\ asked => pc \in WifiCalls
  /\ causes \cap {"late", "echoed"} = {} =>
       /\ ~misread
       /\ \/ cmds = <<>> /\ line = <<>>
          \/ asked /\ cmds = <<Current>> /\ line = <<>>
          \/ asked /\ cmds = <<>> /\ \E a \in Answers : line = <<a>>

\* The board asks for a network until it believes in one ...
Unconnected == {"cc2541_init", "at_test", "mode_get", "mode_set", "passthr_end", "get_role",
                "set_role0", "read_creds", "wifi_connect", "join"}
Connected == {"test_AT", "set_role1", "tcp_connect", "passthr_start", "send", "conn_switch", "loop"}

\* ... and an answer that makes it believe is true when it arrives.
Belief ==
  /\ pc \in Unconnected => ~wifi_connected
  /\ pc \in Connected => wifi_connected
  /\ causes \cap {"late", "echoed", "lost"} = {} =>
       /\ wifi_connected => wifi.joined = "yes"
       /\ \A a \in Answers : line = <<a>> /\ a.final = "OK" =>
            /\ pc = "conn_status" /\ a.data \in {"2", "3", "4"} => wifi.joined = "yes"
            /\ pc = "join" /\ a.data # "CWJAP" => wifi.joined = "yes"

\* What each step towards the server has reached, from "+++" to "AT+CIPSEND".
Quiet == {"conn_status", "get_role", "set_role0", "read_creds", "wifi_connect", "join",
          "test_AT", "set_role1", "tcp_connect", "passthr_start"}

Online ==
  causes \cap {"late", "echoed", "refused", "lost"} = {} =>
    /\ pc \in Quiet => ~wifi.sending
    /\ pc = "send" => wifi.sending = (asked /\ cmds = <<>>)
    /\ pc \in {"passthr_start", "send"} => wifi.tcp = "open"
    /\ pc = "send" => wifi.cipmode /\ trans_mode = "PASSTHR"
    /\ pc \in {"conn_switch", "loop"} => wifi.sending /\ trans_mode = "PASSTHR"
    /\ asked /\ pc \in {"tcp_connect", "passthr_start", "send"} =>
         \/ cmds # <<>>
         \/ \E a \in Answers :
              /\ line = <<a>> /\ a.final = "OK"
              /\ pc = "tcp_connect" => wifi.tcp = "open"
              /\ pc = "passthr_start" => wifi.cipmode

\* Nothing is left in the Bluetooth ring but what the user has typed when asked.
Ring ==
  causes \cap {"behind", "hasty"} = {} =>
    \/ ble = <<>>
    \/ pc = "read_creds" /\ \E typed \in Typed : ble = typed[1] \o <<Separator>> \o typed[2]

\* From the OK of a module without a peer to the command to connect.
Central ==
  causes \cap {"behind", "hasty", "relinked"} = {} =>
    /\ pc = "set_role1" => peer = "none"
    /\ pc \in {"tcp_connect", "passthr_start", "send", "conn_switch"} => role = 1
===============================================================================
