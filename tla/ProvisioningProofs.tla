-------------------------- MODULE ProvisioningProofs ---------------------------
(***************************************************************************)
(* What holds of provisioning for every network, every text the user may   *)
(* type and every number of faults.                                        *)
(*                                                                         *)
(* Each invariant is proved on top of those before it: types, the dialogue *)
(* with the WiFi module, what the board believes, what it has reached, and *)
(* the Bluetooth ring and role.                                            *)
(***************************************************************************)
EXTENDS Provisioning, SequenceTheorems, TLAPS

-------------------------------------------------------------------------------
(* Kinds of steps *)

\* The calls that use the Bluetooth module.
BleCalls == {"cc2541_init", "get_role", "set_role0", "read_creds", "test_AT", "set_role1", "conn_switch"}

BleStep ==
  \/ InitBle \/ UseNull \/ GetRole \/ SetRole0 \/ ReadCreds \/ TestAT \/ SetRole1
  \/ ConnectSwitch

\* A step adds to the causes, if anything.
LEMMA CausesGrow == Next => causes \subseteq causes'
<1> SUFFICES ASSUME Next PROVE causes \subseteq causes'
  OBVIOUS
<1> USE DEF Fault, NoFault
<1>1. CASE Ask
  BY <1>1 DEF Ask, at_send_cmd
<1>2. CASE WifiReply
  BY <1>2 DEF WifiReply, TestReplied, ModeGot, ModeSet, StatusReplied, ConnectReplied, JoinReplied,
              TcpReplied, ModeReplied, SendReplied, Decides, Replied, at_get_reply, Answered, GaveUp
<1>3. CASE PassthrEnd
  BY <1>3 DEF PassthrEnd, passthr_end
<1>4. CASE BleStep
  BY <1>4 DEF BleStep, InitBle, UseNull, GetRole, SetRole0, ReadCreds, TestAT, SetRole1, SetRole,
              ConnectSwitch, cc2541_read
<1>5. CASE World
  BY <1>5 DEF World, Phone, Prompted, WifiModule, Echo, Obey, AutoJoin, LinkLost
<1> QED BY <1>1, <1>2, <1>3, <1>4, <1>5 DEF Next, Board, BleStep

\* The Bluetooth side leaves the WiFi side alone.
LEMMA BleApart == BleStep => pc \in BleCalls /\ UNCHANGED wifiVars
BY DEF BleStep, InitBle, UseNull, GetRole, SetRole0, ReadCreds, TestAT, SetRole1, SetRole,
       ConnectSwitch, BleCalls

LEMMA PhoneApart == Phone => UNCHANGED <<wifiVars, pc, mainVars>>
BY DEF Phone

\* A reply of the WiFi module is an answer read or an answer given up.
LEMMA ReplyRead ==
  WifiReply => /\ pc \in WifiCalls /\ asked /\ asked' = FALSE /\ UNCHANGED <<cmds, wifi, creds, bleVars>>
               /\ \E ret, data : Answered(ret, data) \/ GaveUp
BY DEF WifiReply, TestReplied, ModeGot, ModeSet, StatusReplied, ConnectReplied, JoinReplied,
       TcpReplied, ModeReplied, SendReplied, Decides, Replied, at_get_reply, WifiCalls

-------------------------------------------------------------------------------
(* Types *)

\* Whatever the module is told, it stays in a state of the module.
LEMMA AfterTyped ==
  ASSUME wifi \in WifiStates, NEW c, ~Refuses(c)
  PROVE  After(c) \in WifiStates
BY DEF WifiStates, Refuses, After

LEMMA ModuleTyped == wifi \in WifiStates /\ WifiModule => wifi' \in WifiStates
<1> SUFFICES ASSUME wifi \in WifiStates, WifiModule PROVE wifi' \in WifiStates
  OBVIOUS
<1>1. CASE Obey
  BY <1>1, AfterTyped DEF Obey
<1>2. CASE AutoJoin
  BY <1>2 DEF AutoJoin, WifiStates
<1>3. CASE LinkLost
  BY <1>3 DEF LinkLost, WifiStates
<1>4. CASE Echo
  BY <1>4 DEF Echo
<1> QED BY <1>1, <1>2, <1>3, <1>4 DEF WifiModule

\* What the module adds to its answer.
LEMMA DataTyped ==
  ASSUME wifi \in WifiStates, NEW c
  PROVE  Data(c) \in {"none", "STA", "other", "2", "3", "4", "5", "CWJAP"}
BY DEF Data, STATUS, WifiStates

\* Reading the Bluetooth ring.
LEMMA TakeTyped ==
  ASSUME NEW s \in Seq(Pieces), NEW n \in 0 .. Len(s), Take(s, n)
  PROVE  ble' \in Seq(Pieces)
BY DEF Take

LEMMA StreamTyped ==
  ASSUME ble \in Seq(Pieces), NEW w \in Pieces
  PROVE  Stream(w) \in Seq(Pieces)
BY AppendProperties, Zenon DEF Stream

LEMMA FaultsTyped ==
  ASSUME faults \in 0 .. MaxFaults, NEW cause, NoFault \/ Fault(cause)
  PROVE  faults' \in 0 .. MaxFaults /\ causes' \in {causes, causes \cup {cause}}
BY WifiAssumption DEF NoFault, Fault

LEMMA ReadTyped ==
  ASSUME ble \in Seq(Pieces), faults \in 0 .. MaxFaults,
         NEW s \in Seq(Pieces), NEW text, cc2541_read(s, text)
  PROVE  /\ ble' \in Seq(Pieces) /\ faults' \in 0 .. MaxFaults
         /\ causes' \in {causes, causes \cup {"behind"}}
<1>1. PICK n \in 0 .. Len(s) : Take(s, n) /\ (NoFault \/ Fault("behind"))
  BY DEF cc2541_read
<1> QED BY <1>1, TakeTyped, FaultsTyped

LEMMA TypeInit == Init => TypeOK
<1> SUFFICES ASSUME Init PROVE TypeOK
  OBVIOUS
<1>1. ble \in Seq(Pieces)
  BY EmptySeq, Zenon DEF Init, BleInit
<1>2. wifi \in WifiStates
  BY DEF Init, WifiInit
<1>3. faults \in 0 .. MaxFaults /\ trialNum \in 0 .. MAX_CONN_TRIAL - 1
  BY WifiAssumption DEF Init, WifiInit, MAX_CONN_TRIAL
<1>4. peer \in {"none", "phone", "switch"} /\ role \in {0, 1}
  BY DEF Init, BleInit
<1>5. gatt \in BOOLEAN /\ alertLevel \in BOOLEAN
  BY DEF Init, BleInit
<1> QED BY <1>1, <1>2, <1>3, <1>4, <1>5 DEF Init, WifiInit, BleInit, TypeOK

LEMMA OneElement ==
  ASSUME NEW S, NEW x \in S
  PROVE  <<x>> \in Seq(S)
OBVIOUS

\* The user's side: what is typed is text.
LEMMA TypedText ==
  ASSUME NEW typed \in Typed
  PROVE  /\ typed[1] \o <<Separator>> \o typed[2] \in Seq(Pieces)
         /\ ble \in Seq(Pieces) => ble \o typed[1] \o <<Separator>> \o typed[2] \in Seq(Pieces)
<1>1. typed[1] \in Seq(Pieces) /\ typed[2] \in Seq(Pieces)
  BY TypedAssumption DEF Texts
<1>2. <<Separator>> \in Seq(Pieces)
  BY TypedAssumption, OneElement, Zenon
<1> QED BY <1>1, <1>2, ConcatProperties, Zenon

LEMMA TypeStep == TypeOK /\ [Next]_vars => TypeOK'
<1> SUFFICES ASSUME TypeOK, [Next]_vars PROVE TypeOK'
  OBVIOUS
<1>1. CASE Ask
  BY <1>1 DEF Ask, at_send_cmd, TypeOK, driverVars, mainVars, bleVars, phoneVars
<1>2. CASE WifiReply
  <2>1. /\ asked' \in BOOLEAN /\ wifi' \in WifiStates /\ ble' \in Seq(Pieces)
        /\ UNCHANGED <<cc2541, peer, role, gatt, alertLevel>>
    BY <1>2, ReplyRead DEF TypeOK, bleVars, phoneVars
  <2>2. PICK ret, data : Answered(ret, data) \/ GaveUp
    BY <1>2, ReplyRead
  <2>3. misread' \in BOOLEAN
    BY <2>2 DEF Answered, GaveUp, TypeOK
  <2>4. NoFault \/ Fault("late")
    BY <2>2 DEF Answered, GaveUp
  <2>5. faults' \in 0 .. MaxFaults
    BY <2>4, FaultsTyped DEF TypeOK
  <2>6. causes' \in {causes, causes \cup {"late"}}
    BY <2>4 DEF NoFault, Fault
  <2>7. wifi_connected' \in BOOLEAN /\ trans_mode' \in {"NORMALSEND", "PASSTHR"}
    BY <1>2 DEF WifiReply, TestReplied, ModeGot, ModeSet, StatusReplied, ConnectReplied, JoinReplied,
                TcpReplied, ModeReplied, SendReplied, Decides, driverVars, conn_status,
                wifi_connect, transmission_mode, Joins, TypeOK
  <2>8. trialNum' \in 0 .. MAX_CONN_TRIAL - 1
    BY <1>2 DEF WifiReply, TestReplied, ModeGot, ModeSet, StatusReplied, ConnectReplied, JoinReplied,
                TcpReplied, ModeReplied, SendReplied, Decides, TypeOK, MAX_CONN_TRIAL
  <2>9. pc' \in WifiCalls \cup {"passthr_end", "get_role", "test_AT", "conn_switch"}
    BY <1>2 DEF WifiReply, TestReplied, ModeGot, ModeSet, StatusReplied, ConnectReplied, JoinReplied,
                TcpReplied, ModeReplied, SendReplied, Decides, Replied, WifiCalls
  <2> QED BY <2>1, <2>3, <2>5, <2>6, <2>7, <2>8, <2>9 DEF TypeOK
<1>3. CASE PassthrEnd
  BY <1>3 DEF PassthrEnd, passthr_end, TypeOK, WifiStates, bleVars, phoneVars, mainVars, WifiCalls
<1>4. CASE BleStep
  <2>1. UNCHANGED wifiVars
    BY <1>4, BleApart
  <2>2. gatt' \in BOOLEAN /\ alertLevel' \in BOOLEAN /\ trialNum' \in 0 .. MAX_CONN_TRIAL - 1
    BY <1>4 DEF BleStep, InitBle, UseNull, GetRole, SetRole0, ReadCreds, TestAT, SetRole1, SetRole,
                ConnectSwitch, bleVars, phoneVars, mainVars, TypeOK
  <2>3. cc2541' \in {"NULL", "open"} /\ peer' \in {"none", "phone", "switch"} /\ role' \in {0, 1}
    BY <1>4 DEF BleStep, InitBle, UseNull, GetRole, SetRole0, ReadCreds, TestAT, SetRole1, SetRole,
                ConnectSwitch, bleVars, TypeOK
  <2>4. pc' \in {"at_test", "undefined", "set_role0", "read_creds", "wifi_connect", "test_AT",
                 "set_role1", "tcp_connect", "loop"}
    BY <1>4 DEF BleStep, InitBle, UseNull, GetRole, SetRole0, ReadCreds, TestAT, SetRole1, SetRole,
                ConnectSwitch
  <2>5. \/ UNCHANGED <<ble, faults, causes>>
        \/ \E s \in Seq(Pieces) : \E text : cc2541_read(s, text)
    <3>1. \A w \in {"OK", "ROLE0", "ROLE1"} : Stream(w) \in Seq(Pieces)
      <4>1. "OK" \in Pieces /\ "ROLE0" \in Pieces /\ "ROLE1" \in Pieces
        BY TypedAssumption
      <4> QED BY <4>1, StreamTyped, Zenon DEF TypeOK
    <3>2. \/ UNCHANGED <<ble, faults, causes>>
          \/ \E text : cc2541_read(ble, text)
          \/ \E w \in {"OK", "ROLE0", "ROLE1"} : \E text : cc2541_read(Stream(w), text)
      BY <1>4
      DEF BleStep, InitBle, UseNull, GetRole, SetRole0, ReadCreds, TestAT, SetRole1, SetRole,
          ConnectSwitch, bleVars, RoleAnswer
    <3> QED BY <3>1, <3>2, Zenon DEF TypeOK
  <2>6. ble' \in Seq(Pieces) /\ faults' \in 0 .. MaxFaults /\ causes' \in {causes, causes \cup {"behind"}}
    BY <2>5, ReadTyped, Zenon DEF TypeOK
  <2> QED BY <2>1, <2>2, <2>3, <2>4, <2>6 DEF TypeOK, wifiVars, driverVars, atVars, WifiCalls
<1>5. CASE Phone
  <2>1. UNCHANGED <<wifiVars, pc, mainVars>>
    BY <1>5, PhoneApart
  <2>2. /\ peer' \in {"none", "phone", "switch"} /\ gatt' \in BOOLEAN /\ alertLevel' \in BOOLEAN
        /\ UNCHANGED <<cc2541, role>>
    BY <1>5 DEF Phone, doConnection, CloseDialog, Confirm, dataSend, Linked, Unlinked, phoneVars, TypeOK
  <2>3. ble' \in Seq(Pieces)
    <3>1. \/ ble' = ble
          \/ \E typed \in Typed : ble' = ble \o typed[1] \o <<Separator>> \o typed[2]
      BY <1>5 DEF Phone, doConnection, CloseDialog, Confirm, dataSend, Linked, Unlinked
    <3> QED BY <3>1, TypedText, Zenon DEF TypeOK
  <2>4. \E cause \in {"hasty", "relinked", "unlinked"} : NoFault \/ Fault(cause)
    BY <1>5 DEF Phone, Prompted
  <2>5. faults' \in 0 .. MaxFaults
    BY <2>4, FaultsTyped DEF TypeOK
  <2>6. causes' \subseteq causes \cup {"hasty", "relinked", "unlinked"}
    BY <2>4 DEF Fault, NoFault
  <2> QED BY <2>1, <2>2, <2>3, <2>5, <2>6 DEF TypeOK, wifiVars, driverVars, atVars, mainVars
<1>6. CASE WifiModule /\ UNCHANGED <<bleVars, pc, mainVars>>
  <2>1. wifi' \in WifiStates
    BY <1>6, ModuleTyped DEF TypeOK
  <2>2. UNCHANGED <<driverVars, asked, misread>>
    BY <1>6 DEF WifiModule, Echo, Obey, AutoJoin, LinkLost, atVars
  <2>3. \/ \E cause \in {"refused", "lost"} : NoFault \/ Fault(cause)
        \/ \E cause \in {"refused", "echoed"} : UNCHANGED faults /\ causes' = causes \cup {cause}
    BY <1>6 DEF WifiModule, Echo, Obey, AutoJoin, LinkLost, NoFault
  <2>4. faults' \in 0 .. MaxFaults
    BY <2>3, FaultsTyped DEF TypeOK
  <2>5. causes' \subseteq causes \cup {"echoed", "refused", "lost"}
    BY <2>3 DEF Fault, NoFault
  <2> QED BY <1>6, <2>1, <2>2, <2>4, <2>5 DEF TypeOK, driverVars, bleVars, phoneVars, mainVars
<1>7. CASE UNCHANGED vars
  BY <1>7 DEF vars, wifiVars, driverVars, atVars, bleVars, phoneVars, mainVars, TypeOK
<1> QED BY <1>1, <1>2, <1>3, <1>4, <1>5, <1>6, <1>7 DEF Next, Board, BleStep, World

-------------------------------------------------------------------------------
(* The dialogue with the WiFi module *)

LEMMA CurrentStays == UNCHANGED <<pc, creds>> => Current' = Current
BY DEF Current, Command

LEMMA CurrentIs ==
  Current.name = Command(pc)[1] /\ Current.args = Command(pc)[2] /\ Current.stale = FALSE
BY DEF Current, Sent

\* The answer to it is fresh, and all there is in an empty ring.
LEMMA AnswersAlone ==
  ASSUME line = <<>>, NEW data, NEW final, Answer(Current, data, final)
  PROVE  line' = <<[data |-> data, final |-> final, stale |-> FALSE]>>
<1>1. Current.stale = FALSE
  BY CurrentIs
<1>2. line' = Append(<<>>, [data |-> data, final |-> final, stale |-> FALSE])
  BY <1>1, Zenon DEF Answer
<1> QED BY <1>2

\* A command that comes back with an OK or ERROR is a cause.
LEMMA EchoCause == Echo => "echoed" \in causes'
BY DEF Echo

LEMMA DialogueInit == Init => Dialogue
BY DEF Init, WifiInit, BleInit, Dialogue

\* What leaves the dialogue and the call alone leaves the invariant alone.
LEMMA DialogueStays ==
  Dialogue /\ causes \subseteq causes' /\ UNCHANGED <<atVars, pc, creds>> => Dialogue'
BY CurrentStays DEF Dialogue, atVars

LEMMA DialogueStep == TypeOK /\ Dialogue /\ [Next]_vars => Dialogue'
<1> SUFFICES ASSUME TypeOK, Dialogue, [Next]_vars PROVE Dialogue'
  OBVIOUS
<1>0. causes \subseteq causes'
  BY CausesGrow DEF vars
<1>1. CASE Ask
  <2>1. /\ ~asked /\ asked' /\ UNCHANGED <<pc, creds, misread, causes>> /\ pc \in WifiCalls
        /\ cmds' = Append(Stale(cmds), Current) /\ line' = Stale(line)
    BY <1>1 DEF Ask, at_send_cmd, Current, mainVars
  <2>2. Stale(<<>>) = <<>> /\ Append(<<>>, Current) = <<Current>>
    BY DEF Stale
  <2> QED BY <2>1, <2>2, CurrentStays DEF Dialogue
<1>2. CASE WifiReply
  <2>1. asked /\ asked' = FALSE /\ UNCHANGED cmds
    BY <1>2, ReplyRead
  <2>2. PICK ret, data : Answered(ret, data) \/ GaveUp
    BY <1>2, ReplyRead
  <2>3. CASE Answered(ret, data)
    <3> SUFFICES ASSUME causes' \cap {"late", "echoed"} = {}
                 PROVE  ~misread' /\ cmds' = <<>> /\ line' = <<>>
      BY <2>1 DEF Dialogue
    <3>1. PICK a \in Answers : line = <<a>>
      BY <1>0, <2>3 DEF Answered, Dialogue
    <3>2. Head(line) = a /\ Tail(line) = <<>>
      BY <3>1
    <3>4. a.stale = FALSE /\ a.data # "echo"
      BY DEF Answers
    <3>3. cmds = <<>> /\ ~misread
      BY <1>0, <3>1 DEF Dialogue
    <3> QED BY <2>1, <2>3, <3>2, <3>3, <3>4 DEF Answered
  <2>4. CASE GaveUp
    BY <2>1, <2>4, <1>0 DEF GaveUp, Fault, Dialogue
  <2> QED BY <2>2, <2>3, <2>4
<1>3. CASE PassthrEnd
  BY <1>3 DEF PassthrEnd, passthr_end, Dialogue, WifiCalls
<1>4. CASE BleStep
  BY <1>0, <1>4, BleApart DEF Dialogue, BleCalls, WifiCalls, wifiVars, atVars
<1>5. CASE Phone
  BY <1>0, <1>5, PhoneApart, DialogueStays DEF wifiVars, mainVars
<1>6. CASE WifiModule /\ UNCHANGED <<bleVars, pc, mainVars>>
  <2>1. CASE Obey
    <3> SUFFICES ASSUME causes' \cap {"late", "echoed"} = {}
                 PROVE  /\ cmds' = <<>>
                        /\ line' = <<>> \/ \E a \in Answers : line' = <<a>>
      BY <1>0, <1>6, <2>1 DEF Dialogue, Obey, mainVars
    <3>1. cmds = <<Current>> /\ line = <<>>
      BY <1>0, <2>1 DEF Obey, Dialogue
    <3>2. Head(cmds) = Current /\ Tail(cmds) = <<>> /\ ~Current.stale
      BY <3>1, CurrentIs
    <3>3. ASSUME NEW data, NEW final, Answer(Current, data, final),
                 data = Data(Current) \/ data = "none", final \in {"OK", "ERROR"}
          PROVE  \E a \in Answers : line' = <<a>>
      <4>1. data \in {"none", "STA", "other", "2", "3", "4", "5", "CWJAP"}
        BY <3>3, DataTyped DEF TypeOK
      <4>2. [data |-> data, final |-> final, stale |-> FALSE] \in Answers
        BY <3>3, <4>1 DEF Answers
      <4>3. line' = <<[data |-> data, final |-> final, stale |-> FALSE]>>
        BY <3>1, <3>3, AnswersAlone
      <4> QED BY <4>2, <4>3
    <3> QED BY <2>1, <3>1, <3>2, <3>3 DEF Obey
  <2>2. CASE AutoJoin \/ LinkLost
    BY <1>0, <1>6, <2>2, DialogueStays DEF AutoJoin, LinkLost, mainVars
  <2>3. CASE Echo
    BY <1>6, <2>3, EchoCause DEF Echo, Dialogue
  <2> QED BY <1>6, <2>1, <2>2, <2>3 DEF WifiModule
<1>7. CASE UNCHANGED vars
  BY <1>0, <1>7, DialogueStays DEF vars, wifiVars, mainVars
<1> QED BY <1>1, <1>2, <1>3, <1>4, <1>5, <1>6, <1>7 DEF Next, Board, BleStep, World

\* The variables of provisioning keep their types.
THEOREM ProvisioningTypeCorrect == Spec => []TypeOK
BY TypeInit, TypeStep, PTL DEF Spec

LEMMA DialogueInvariance == Spec => []Dialogue
<1>1. TypeOK /\ Dialogue /\ [Next]_vars => Dialogue'
  BY DialogueStep
<1> QED BY DialogueInit, <1>1, ProvisioningTypeCorrect, PTL DEF Spec

\* No order of commands, retries and silences gives a command an OK that is not
\* its answer, as long as no answer comes later than its timeout and no command
\* comes back with an OK or ERROR in it.
THEOREM OwnAnswers == Spec => []AnsweredForItself
<1>1. Dialogue => AnsweredForItself
  BY DEF Dialogue, AnsweredForItself
<1> QED BY <1>1, DialogueInvariance, PTL

-------------------------------------------------------------------------------
(* What the board believes *)

LEMMA BeliefInit == Init => Belief
BY DEF Init, WifiInit, Belief, Unconnected, Connected

\* The answers that matter, by the command they are for.
LEMMA TrueAnswers ==
  ASSUME TypeOK, Dialogue, Obey, UNCHANGED <<pc, creds>>, causes \cap {"late", "echoed"} = {},
         NEW a \in Answers, line' = <<a>>, a.final = "OK"
  PROVE  /\ pc = "conn_status" /\ a.data \in {"2", "3", "4"} => wifi'.joined = "yes"
         /\ pc = "join" /\ a.data # "CWJAP" => wifi'.joined = "yes"
<1>1. cmds = <<Current>> /\ line = <<>>
  BY DEF Obey, Dialogue
<1>2. Head(cmds) = Current
  BY <1>1
<1>3. /\ ~Refuses(Current) /\ wifi' = After(Current) /\ Answer(Current, Data(Current), "OK")
  BY <1>1, <1>2 DEF Obey, Answer
<1>4. line' = <<[data |-> Data(Current), final |-> "OK", stale |-> FALSE]>>
  BY <1>1, <1>3, AnswersAlone
<1>5. a.data = Data(Current)
  BY <1>4
<1>6. CASE pc = "conn_status"
  <2>1. Current.name = "CIPSTATUS"
    BY <1>6, CurrentIs DEF Command
  <2> QED BY <1>3, <1>5, <1>6, <2>1 DEF Data, STATUS, After, TypeOK
<1>7. CASE pc = "join"
  <2>1. Current.name = "CWJAP_DEF"
    BY <1>7, CurrentIs DEF Command
  <2> QED BY <1>3, <1>5, <1>7, <2>1 DEF Data, After, TypeOK, WifiStates
<1> QED BY <1>6, <1>7

\* Only a join takes the module off a network it has joined.
LEMMA StaysJoined ==
  ASSUME TypeOK, Dialogue, Obey, causes \cap {"late", "echoed"} = {}, pc # "join",
         wifi.joined = "yes"
  PROVE  wifi'.joined = "yes"
<1>1. Head(cmds) = Current
  BY DEF Obey, Dialogue
<1>2. Current.name # "CWJAP_DEF"
  BY CurrentIs DEF Command, TypeOK, WifiCalls, Dialogue, Obey
<1>3. After(Current).joined = "yes"
  BY <1>2 DEF After, TypeOK, WifiStates
<1> QED BY <1>1, <1>3 DEF Obey

\* An answer read without delay was the only one, and was meant.
LEMMA ReadAnswer ==
  ASSUME Dialogue, NEW ret, NEW data, at_get_reply(ret, data), causes' \cap {"late", "echoed"} = {}
  PROVE  /\ cmds' = <<>> /\ line' = <<>> /\ UNCHANGED wifi
         /\ ret = "OK" => \E a \in Answers : line = <<a>> /\ a.final = "OK" /\ a.data = data
         /\ \A a \in Answers : line = <<a>> => ret = a.final
<1>1. causes \cap {"late", "echoed"} = {}
  BY DEF at_get_reply, Answered, GaveUp, NoFault, Fault
<1>2. CASE Answered(ret, data)
  <2>1. PICK a \in Answers : line = <<a>>
    BY <1>1, <1>2 DEF Answered, Dialogue
  <2>2. Head(line) = a /\ Tail(line) = <<>>
    BY <2>1
  <2>3. cmds = <<>>
    BY <1>1, <2>1 DEF Dialogue
  <2> QED BY <1>2, <2>1, <2>2, <2>3 DEF Answered, at_get_reply
<1>3. CASE ret = "ERROR" /\ GaveUp
  BY <1>3 DEF GaveUp, Fault, at_get_reply
<1> QED BY <1>2, <1>3 DEF at_get_reply

LEMMA BeliefReply ==
  ASSUME TypeOK, Dialogue, Belief, WifiReply, causes \subseteq causes'
  PROVE  Belief'
<1>1. PICK ret, data :
        \/ TestReplied(ret, data) \/ ModeGot(ret, data) \/ ModeSet(ret, data)
        \/ StatusReplied(ret, data) \/ ConnectReplied(ret, data) \/ JoinReplied(ret, data)
        \/ TcpReplied(ret, data) \/ ModeReplied(ret, data) \/ SendReplied(ret, data)
  BY DEF WifiReply
<1>2. at_get_reply(ret, data)
  BY <1>1 DEF TestReplied, ModeGot, ModeSet, StatusReplied, ConnectReplied, JoinReplied,
              TcpReplied, ModeReplied, SendReplied, Decides, Replied
<1>3. /\ pc' \in Unconnected => ~wifi_connected'
      /\ pc' \in Connected => wifi_connected'
  BY <1>1 DEF TestReplied, ModeGot, ModeSet, StatusReplied, ConnectReplied, JoinReplied,
              TcpReplied, ModeReplied, SendReplied, Decides, Replied, driverVars, conn_status,
              wifi_connect, transmission_mode, Belief, Unconnected, Connected, TypeOK
<1>4. \/ wifi_connected' = wifi_connected
      \/ pc = "conn_status" /\ ret = "OK" /\ data \in {"2", "3", "4"}
      \/ pc = "join" /\ ret = "OK" /\ data # "CWJAP"
  BY <1>1 DEF TestReplied, ModeGot, ModeSet, StatusReplied, ConnectReplied, JoinReplied,
              TcpReplied, ModeReplied, SendReplied, Decides, Replied, driverVars, conn_status,
              wifi_connect, transmission_mode, Joins, TypeOK
<1>5. ASSUME causes' \cap {"late", "echoed", "lost"} = {}
      PROVE  line' = <<>> /\ (wifi_connected' => wifi'.joined = "yes")
  <2>1. /\ line' = <<>> /\ UNCHANGED wifi
        /\ ret = "OK" => \E a \in Answers : line = <<a>> /\ a.final = "OK" /\ a.data = data
    BY <1>2, <1>5, ReadAnswer
  <2> QED BY <1>4, <1>5, <2>1 DEF Belief
<1>6. \A a \in Answers : <<>> # <<a>>
  OBVIOUS
<1> QED BY <1>3, <1>5, <1>6 DEF Belief

LEMMA BeliefStep == TypeOK /\ Dialogue /\ Belief /\ [Next]_vars => Belief'
<1> SUFFICES ASSUME TypeOK, Dialogue, Belief, [Next]_vars PROVE Belief'
  OBVIOUS
<1>0. causes \subseteq causes'
  BY CausesGrow DEF vars
<1>1. CASE Ask
  <2>1. UNCHANGED <<pc, wifi_connected, wifi, causes>> /\ ~asked /\ line' = Stale(line)
    BY <1>1 DEF Ask, at_send_cmd, driverVars
  <2>2. causes \cap {"late", "echoed"} = {} => line' = <<>>
    BY <2>1 DEF Dialogue, Stale
  <2> QED BY <2>1, <2>2 DEF Belief
<1>2. CASE WifiReply
  BY <1>0, <1>2, BeliefReply
<1>3. CASE PassthrEnd
  <2>1. /\ ~asked /\ pc' = "conn_status" /\ UNCHANGED <<wifi_connected, line, causes>>
        /\ wifi' = [wifi EXCEPT !.sending = FALSE]
    BY <1>3 DEF PassthrEnd, passthr_end
  <2>2. wifi'.joined = wifi.joined
    BY <2>1 DEF TypeOK, WifiStates
  <2>3. causes \cap {"late", "echoed"} = {} => line = <<>>
    BY <2>1 DEF Dialogue
  <2> QED BY <2>1, <2>2, <2>3 DEF Belief, Unconnected, Connected
<1>4. CASE BleStep
  <2>1. UNCHANGED <<wifi_connected, wifi, asked, cmds, line>> /\ pc \in BleCalls
    BY <1>4, BleApart DEF wifiVars, driverVars, atVars
  <2>2. /\ pc' \in Unconnected => pc \in Unconnected
        /\ pc' \in Connected => pc \in Connected
    BY <1>4 DEF BleStep, InitBle, UseNull, GetRole, SetRole0, ReadCreds, TestAT, SetRole1, SetRole,
                ConnectSwitch, Unconnected, Connected
  <2>3. causes \cap {"late", "echoed"} = {} => line = <<>>
    BY <2>1 DEF Dialogue, BleCalls, WifiCalls
  <2> QED BY <1>0, <2>1, <2>2, <2>3 DEF Belief
<1>5. CASE UNCHANGED <<wifiVars, pc>>
  BY <1>0, <1>5 DEF Belief, wifiVars, driverVars, atVars
<1>6. CASE WifiModule /\ UNCHANGED <<bleVars, pc, mainVars>>
  <2>1. UNCHANGED wifi_connected
    BY <1>6 DEF WifiModule, Echo, Obey, AutoJoin, LinkLost, driverVars
  <2>2. CASE Obey
    <3> SUFFICES ASSUME causes' \cap {"late", "echoed", "lost"} = {}
                 PROVE  /\ wifi_connected => wifi'.joined = "yes"
                        /\ \A a \in Answers : line' = <<a>> /\ a.final = "OK" =>
                             /\ pc = "conn_status" /\ a.data \in {"2", "3", "4"} => wifi'.joined = "yes"
                             /\ pc = "join" /\ a.data # "CWJAP" => wifi'.joined = "yes"
      BY <1>0, <1>6, <2>1 DEF Belief
    <3>1. causes \cap {"late", "echoed"} = {}
      BY <1>0
    <3>2. wifi_connected => wifi.joined = "yes" /\ pc # "join"
      BY <1>0 DEF Belief, Unconnected
    <3> QED BY <1>6, <2>2, <3>1, <3>2, TrueAnswers, StaysJoined DEF mainVars
  <2>3. CASE AutoJoin
    BY <1>0, <1>6, <2>1, <2>3 DEF AutoJoin, Belief, TypeOK, WifiStates, atVars
  <2>4. CASE LinkLost
    BY <1>0, <1>6, <2>1, <2>4 DEF LinkLost, Fault, Belief
  <2>5. CASE Echo
    BY <1>6, <2>1, <2>5, EchoCause DEF Belief
  <2> QED BY <1>6, <2>2, <2>3, <2>4, <2>5 DEF WifiModule
<1> QED BY <1>1, <1>2, <1>3, <1>4, <1>5, <1>6, PhoneApart DEF Next, Board, BleStep, World, vars, wifiVars

LEMMA BeliefInvariance == Spec => []Belief
<1>1. TypeOK /\ Dialogue /\ Belief /\ [Next]_vars => Belief'
  BY BeliefStep
<1> QED BY BeliefInit, <1>1, ProvisioningTypeCorrect, DialogueInvariance, PTL DEF Spec

\* The board believes in a network only when the module has joined it, unless
\* an answer was late, an OK or ERROR was in what the user typed, or the network
\* went away.
THEOREM BelievesRightly == Spec => []BelievedJoined
<1>1. Belief => BelievedJoined
  BY DEF Belief, BelievedJoined
<1> QED BY <1>1, BeliefInvariance, PTL

-------------------------------------------------------------------------------
(* What the board has reached *)

LEMMA OnlineInit == Init => Online
BY DEF Init, Online, Quiet

\* What becomes of a command that the module does not refuse.
LEMMA Obeyed ==
  ASSUME TypeOK, Dialogue, Obey, UNCHANGED <<pc, creds>>,
         causes' \cap {"late", "echoed", "refused", "lost"} = {}, causes \subseteq causes',
         ~wifi.sending
  PROVE  /\ asked /\ cmds = <<Current>> /\ cmds' = <<>> /\ ~Refuses(Current) /\ wifi' = After(Current)
         /\ Data(Current) # "CWJAP" =>
              \E a \in Answers : line' = <<a>> /\ a.final = "OK"
<1>1. asked /\ cmds = <<Current>> /\ line = <<>>
  BY DEF Obey, Dialogue
<1>2. Head(cmds) = Current /\ Tail(cmds) = <<>>
  BY <1>1
<1>3. /\ ~Refuses(Current) /\ wifi' = After(Current)
      /\ Data(Current) # "CWJAP" => Answer(Current, Data(Current), "OK")
  BY <1>2 DEF Obey, Fault
<1>4. ASSUME Answer(Current, Data(Current), "OK")
      PROVE  \E a \in Answers : line' = <<a>> /\ a.final = "OK"
  <2>1. line' = <<[data |-> Data(Current), final |-> "OK", stale |-> FALSE]>>
    BY <1>1, <1>4, AnswersAlone
  <2>2. [data |-> Data(Current), final |-> "OK", stale |-> FALSE] \in Answers
    BY DataTyped DEF Answers, TypeOK
  <2> QED BY <2>1, <2>2
<1> QED BY <1>1, <1>2, <1>3, <1>4 DEF Obey

LEMMA OnlineObey ==
  ASSUME TypeOK, Dialogue, Online, Obey, UNCHANGED <<pc, creds>>, causes \subseteq causes'
  PROVE  Online'
<1> SUFFICES ASSUME causes' \cap {"late", "echoed", "refused", "lost"} = {}
             PROVE  /\ pc \in Quiet => ~wifi'.sending
                    /\ pc = "send" => wifi'.sending = (asked /\ cmds' = <<>>)
                    /\ pc \in {"passthr_start", "send"} => wifi'.tcp = "open"
                    /\ pc = "send" => wifi'.cipmode /\ trans_mode = "PASSTHR"
                    /\ pc \notin {"conn_switch", "loop"}
                    /\ asked /\ pc \in {"tcp_connect", "passthr_start", "send"} =>
                         \E a \in Answers :
                           /\ line' = <<a>> /\ a.final = "OK"
                           /\ pc = "tcp_connect" => wifi'.tcp = "open"
                           /\ pc = "passthr_start" => wifi'.cipmode
  BY DEF Online, Obey, driverVars
<1>1. pc \in WifiCalls
  BY DEF Dialogue, Obey
<1>2. CASE pc \in Quiet \cup {"send"}
  <2>1. ~wifi.sending
    BY <1>2 DEF Online, Obey
  <2>2. /\ asked /\ cmds' = <<>> /\ ~Refuses(Current) /\ wifi' = After(Current)
        /\ Data(Current) # "CWJAP" => \E a \in Answers : line' = <<a>> /\ a.final = "OK"
    BY <2>1, Obeyed
  <2>3. CASE pc \in {"tcp_connect", "passthr_start", "send"}
    <3>1. Current.name = IF pc = "tcp_connect" THEN "CIPSTART" ELSE IF pc = "send" THEN "CIPSEND" ELSE "CIPMODE"
      BY <2>3, CurrentIs DEF Command
    <3>2. Data(Current) # "CWJAP"
      BY <2>3, <3>1 DEF Data
    <3>3. /\ pc = "tcp_connect" => wifi'.tcp = "open"
          /\ pc # "tcp_connect" => wifi'.tcp = wifi.tcp
          /\ pc = "passthr_start" => wifi'.cipmode
          /\ pc # "passthr_start" => wifi'.cipmode = wifi.cipmode
          /\ wifi'.sending = (pc = "send" \/ wifi.sending)
      BY <2>2, <2>3, <3>1 DEF After, TypeOK, WifiStates
    <3> QED BY <2>1, <2>2, <2>3, <3>2, <3>3 DEF Online, Quiet
  <2>4. CASE pc \notin {"tcp_connect", "passthr_start", "send"}
    <3>1. Current.name # "CIPSEND"
      BY <1>1, <2>4, CurrentIs DEF Command, WifiCalls
    <3>2. wifi'.sending = wifi.sending
      BY <2>2, <3>1 DEF After, TypeOK, WifiStates
    <3> QED BY <1>1, <2>1, <2>4, <3>2 DEF WifiCalls
  <2> QED BY <2>3, <2>4
<1>3. CASE pc \notin Quiet \cup {"send"}
  BY <1>1, <1>3 DEF Quiet, WifiCalls
<1> QED BY <1>2, <1>3

LEMMA OnlineReply ==
  ASSUME TypeOK, Dialogue, Online, WifiReply, causes \subseteq causes'
  PROVE  Online'
<1> SUFFICES ASSUME causes' \cap {"late", "echoed", "refused", "lost"} = {}
             PROVE  /\ pc' \in Quiet => ~wifi.sending
                    /\ pc' = "send" => ~wifi.sending
                    /\ pc' \in {"passthr_start", "send"} => wifi.tcp = "open"
                    /\ pc' = "send" => wifi.cipmode /\ trans_mode' = "PASSTHR"
                    /\ pc' \in {"conn_switch", "loop"} => wifi.sending /\ trans_mode' = "PASSTHR"
  <2>1. UNCHANGED wifi /\ asked' = FALSE /\ wifi.sending \in BOOLEAN
    BY ReplyRead DEF TypeOK, WifiStates
  <2> QED BY <2>1 DEF Online
<1>1. PICK ret, data :
        \/ TestReplied(ret, data) \/ ModeGot(ret, data) \/ ModeSet(ret, data)
        \/ StatusReplied(ret, data) \/ ConnectReplied(ret, data) \/ JoinReplied(ret, data)
        \/ TcpReplied(ret, data) \/ ModeReplied(ret, data) \/ SendReplied(ret, data)
  BY DEF WifiReply
<1>2. at_get_reply(ret, data)
  BY <1>1 DEF TestReplied, ModeGot, ModeSet, StatusReplied, ConnectReplied, JoinReplied,
              TcpReplied, ModeReplied, SendReplied, Decides, Replied
<1>3. asked /\ cmds = <<>> /\ \A a \in Answers : line = <<a>> => ret = a.final
  BY <1>2, ReadAnswer, ReplyRead
<1>4. pc \in {"tcp_connect", "passthr_start", "send"} =>
        /\ ret = "OK"
        /\ pc = "tcp_connect" => wifi.tcp = "open"
        /\ pc = "passthr_start" => wifi.cipmode
  BY <1>3 DEF Online
<1>5. CASE TcpReplied(ret, data) \/ ModeReplied(ret, data) \/ SendReplied(ret, data)
  BY <1>3, <1>4, <1>5 DEF TcpReplied, ModeReplied, SendReplied, Decides, Replied, driverVars,
                          transmission_mode, Online, Quiet
<1>6. CASE StatusReplied(ret, data) \/ ConnectReplied(ret, data) \/ JoinReplied(ret, data)
  BY <1>6 DEF StatusReplied, ConnectReplied, JoinReplied, Decides, Replied, Online, Quiet
<1>7. CASE TestReplied(ret, data) \/ ModeGot(ret, data) \/ ModeSet(ret, data)
  BY <1>7 DEF TestReplied, ModeGot, ModeSet, Decides, Replied, Quiet
<1> QED BY <1>1, <1>5, <1>6, <1>7

LEMMA OnlineStep == TypeOK /\ Dialogue /\ Online /\ [Next]_vars => Online'
<1> SUFFICES ASSUME TypeOK, Dialogue, Online, [Next]_vars PROVE Online'
  OBVIOUS
<1>0. causes \subseteq causes'
  BY CausesGrow DEF vars
<1>1. CASE Ask
  <2>1. /\ UNCHANGED <<pc, trans_mode, wifi, causes>> /\ ~asked
        /\ cmds' = Append(Stale(cmds), Current) /\ line' = Stale(line)
    BY <1>1 DEF Ask, at_send_cmd, driverVars, Current
  <2>2. causes \cap {"late", "echoed"} = {} => cmds' = <<Current>>
    <3>1. Stale(<<>>) = <<>> /\ Append(<<>>, Current) = <<Current>>
      BY DEF Stale
    <3> QED BY <2>1, <3>1 DEF Dialogue
  <2> QED BY <2>1, <2>2 DEF Online
<1>2. CASE WifiReply
  BY <1>0, <1>2, OnlineReply
<1>3. CASE PassthrEnd
  BY <1>3 DEF PassthrEnd, passthr_end, Online, Quiet, TypeOK, WifiStates
<1>4. CASE BleStep
  <2>1. UNCHANGED <<trans_mode, wifi, asked>> /\ pc \in BleCalls
    BY <1>4, BleApart DEF wifiVars, driverVars, atVars
  <2>2. ~asked
    BY <2>1 DEF Dialogue, BleCalls, WifiCalls
  <2>3. /\ pc' \in Quiet => pc \in Quiet
        /\ pc' = "loop" => pc = "conn_switch"
        /\ pc' \notin {"conn_switch", "passthr_start", "send"}
    BY <1>4 DEF BleStep, InitBle, UseNull, GetRole, SetRole0, ReadCreds, TestAT, SetRole1, SetRole,
                ConnectSwitch, Quiet
  <2> QED BY <1>0, <2>1, <2>2, <2>3 DEF Online
<1>5. CASE UNCHANGED <<wifiVars, pc>>
  BY <1>0, <1>5 DEF Online, wifiVars, driverVars, atVars
<1>6. CASE WifiModule /\ UNCHANGED <<bleVars, pc, mainVars>>
  <2>1. CASE Obey
    BY <1>0, <1>6, <2>1, OnlineObey DEF mainVars
  <2>2. CASE AutoJoin
    BY <1>6, <2>2 DEF AutoJoin, Online, TypeOK, WifiStates, driverVars, atVars
  <2>3. CASE LinkLost
    BY <2>3 DEF LinkLost, Fault, Online
  <2>4. CASE Echo
    BY <2>4, EchoCause DEF Online
  <2> QED BY <1>6, <2>1, <2>2, <2>3, <2>4 DEF WifiModule
<1> QED BY <1>1, <1>2, <1>3, <1>4, <1>5, <1>6, PhoneApart DEF Next, Board, BleStep, World, vars, wifiVars

LEMMA OnlineInvariance == Spec => []Online
<1>1. TypeOK /\ Dialogue /\ Online /\ [Next]_vars => Online'
  BY OnlineStep
<1> QED BY OnlineInit, <1>1, ProvisioningTypeCorrect, DialogueInvariance, PTL DEF Spec

\* The loop of main() starts with the board online, unless an answer was late,
\* an echo was taken for one, a command was refused or a link was lost.
THEOREM StartsOnline == Spec => []OnlineAtLast
<1>1. Belief /\ Online => OnlineAtLast
  BY DEF Belief, Online, OnlineAtLast, Connected
<1> QED BY <1>1, BeliefInvariance, OnlineInvariance, PTL

-------------------------------------------------------------------------------
(* The Bluetooth ring *)

\* Without a rest left behind, a read takes all there is.
LEMMA ReadAll ==
  ASSUME NEW s \in Seq(Pieces), NEW text, cc2541_read(s, text), "behind" \notin causes'
  PROVE  text = s /\ ble' = <<>>
<1>1. PICK n \in 0 .. Len(s) :
        /\ text = SubSeq(s, 1, n) /\ ble' = SubSeq(s, n + 1, Len(s))
        /\ n # Len(s) => Fault("behind")
  BY DEF cc2541_read, Take
<1>2. n = Len(s) /\ Len(s) \in Nat
  BY <1>1, LenProperties DEF Fault
<1>3. SubSeq(s, 1, Len(s)) = s
  BY SubSeqFull, Zenon
<1>4. SubSeq(s, Len(s) + 1, Len(s)) = <<>>
  BY <1>2, SubSeqEmpty
<1> QED BY <1>1, <1>2, <1>3, <1>4

LEMMA StreamsTyped ==
  TypeOK => ble \in Seq(Pieces) /\ \A w \in {"OK", "ROLE0", "ROLE1"} : Stream(w) \in Seq(Pieces)
<1>1. "OK" \in Pieces /\ "ROLE0" \in Pieces /\ "ROLE1" \in Pieces
  BY TypedAssumption
<1> QED BY <1>1, StreamTyped, Zenon DEF TypeOK

\* Every exchange with the module empties the ring, or leaves it alone.
LEMMA BleReads ==
  ASSUME TypeOK, BleStep, "behind" \notin causes'
  PROVE  ble' = <<>> \/ (UNCHANGED ble /\ pc # "read_creds")
<1>1. \/ UNCHANGED ble /\ pc # "read_creds"
      \/ \E text : cc2541_read(ble, text)
      \/ \E w \in {"OK", "ROLE0", "ROLE1"} : \E text : cc2541_read(Stream(w), text)
  BY DEF BleStep, InitBle, UseNull, GetRole, SetRole0, ReadCreds, TestAT, SetRole1, SetRole,
         ConnectSwitch, bleVars, RoleAnswer
<1> QED BY <1>1, StreamsTyped, ReadAll, Zenon

LEMMA RingInit == Init => Ring
BY DEF Init, BleInit, Ring

LEMMA RingStep == TypeOK /\ Dialogue /\ Ring /\ [Next]_vars => Ring'
<1> SUFFICES ASSUME TypeOK, Dialogue, Ring, [Next]_vars, causes' \cap {"behind", "hasty"} = {}
             PROVE  \/ ble' = <<>>
                    \/ /\ pc' = "read_creds"
                       /\ \E typed \in Typed : ble' = typed[1] \o <<Separator>> \o typed[2]
  BY DEF Ring
<1>0. causes \cap {"behind", "hasty"} = {}
  BY CausesGrow DEF vars
<1>1. CASE UNCHANGED ble /\ (pc # "read_creds" \/ UNCHANGED pc)
  BY <1>0, <1>1 DEF Ring
<1>2. CASE Ask \/ WifiReply \/ PassthrEnd
  <2>1. UNCHANGED ble /\ pc # "read_creds"
    BY <1>2, ReplyRead DEF Ask, PassthrEnd, bleVars, WifiCalls
  <2> QED BY <1>1, <2>1
<1>3. CASE BleStep
  BY <1>1, <1>3, BleReads
<1>4. CASE Phone
  <2>1. PICK typed \in Typed :
          \/ UNCHANGED ble
          \/ /\ ble' = ble \o typed[1] \o <<Separator>> \o typed[2]
             /\ Prompted(pc = "read_creds" /\ ble = <<>>)
    BY <1>4, ProvisioningAssumption
    DEF Phone, doConnection, CloseDialog, Confirm, dataSend, Linked, Unlinked
  <2>2. UNCHANGED pc
    BY <1>4, PhoneApart
  <2>3. CASE UNCHANGED ble
    BY <1>1, <2>2, <2>3
  <2>4. CASE ~UNCHANGED ble
    <3>1. pc = "read_creds" /\ ble = <<>>
      BY <2>1, <2>4 DEF Prompted, Fault
    <3>2. typed[1] \in Seq(Pieces)
      BY TypedAssumption DEF Texts
    <3>3. <<>> \o typed[1] = typed[1]
      BY <3>2, ConcatEmptySeq, Zenon
    <3> QED BY <2>1, <2>2, <2>4, <3>1, <3>3
  <2> QED BY <2>3, <2>4
<1>5. CASE WifiModule /\ UNCHANGED <<bleVars, pc, mainVars>>
  BY <1>1, <1>5 DEF bleVars
<1>6. CASE UNCHANGED vars
  BY <1>1, <1>6 DEF vars, bleVars
<1> QED BY <1>2, <1>3, <1>4, <1>5, <1>6 DEF Next, Board, BleStep, World

LEMMA RingInvariance == Spec => []Ring
<1>1. TypeOK /\ Dialogue /\ Ring /\ [Next]_vars => Ring'
  BY RingStep
<1> QED BY RingInit, <1>1, ProvisioningTypeCorrect, DialogueInvariance, PTL DEF Spec

-------------------------------------------------------------------------------
(* The role of the Bluetooth module *)

LEMMA CentralInit == Init => Central
BY DEF Init, Central

\* An OK is the answer of a module without a peer.
LEMMA OKWithoutPeer ==
  ASSUME TypeOK, Ring, TestAT, pc' = "set_role1", causes' \cap {"behind", "hasty"} = {},
         causes \subseteq causes'
  PROVE  peer' = "none"
<1>1. PICK text : cc2541_read(Stream("OK"), text) /\ HasOK(text)
  BY DEF TestAT
<1>2. text = Stream("OK")
  BY <1>1, ReadAll, StreamsTyped
<1>3. ASSUME peer # "none" PROVE FALSE
  <2>1. text = <<>>
    BY <1>2, <1>3 DEF Stream, Ring, TestAT
  <2> QED BY <1>1, <2>1 DEF HasOK
<1> QED BY <1>3 DEF TestAT

LEMMA CentralStep == TypeOK /\ Ring /\ Central /\ [Next]_vars => Central'
<1> SUFFICES ASSUME TypeOK, Ring, Central, [Next]_vars,
                    causes' \cap {"behind", "hasty", "relinked"} = {}
             PROVE  /\ pc' = "set_role1" => peer' = "none"
                    /\ pc' \in {"tcp_connect", "passthr_start", "send", "conn_switch"} => role' = 1
  BY DEF Central
<1>0. causes \subseteq causes'
  BY CausesGrow DEF vars
<1>1. CASE UNCHANGED <<peer, role, pc>>
  BY <1>0, <1>1 DEF Central
<1>2. CASE Ask \/ PassthrEnd
  BY <1>0, <1>2 DEF Ask, PassthrEnd, bleVars, Central
<1>3. CASE WifiReply
  BY <1>0, <1>3
  DEF WifiReply, TestReplied, ModeGot, ModeSet, StatusReplied, ConnectReplied, JoinReplied,
      TcpReplied, ModeReplied, SendReplied, Decides, Replied, bleVars, Central
<1>4. CASE TestAT
  BY <1>0, <1>4, OKWithoutPeer DEF TestAT
<1>5. CASE InitBle \/ UseNull \/ GetRole \/ SetRole0 \/ ReadCreds \/ SetRole1 \/ ConnectSwitch
  BY <1>0, <1>5
  DEF InitBle, UseNull, GetRole, SetRole0, ReadCreds, SetRole1, SetRole, ConnectSwitch, Central
<1>6. CASE Phone
  BY <1>0, <1>6, PhoneApart
  DEF Phone, doConnection, CloseDialog, Confirm, dataSend, Linked, Unlinked, Fault, Central
<1>7. CASE WifiModule /\ UNCHANGED <<bleVars, pc, mainVars>>
  BY <1>1, <1>7 DEF bleVars
<1>8. CASE UNCHANGED vars
  BY <1>1, <1>8 DEF vars, bleVars
<1> QED BY <1>2, <1>3, <1>4, <1>5, <1>6, <1>7, <1>8 DEF Next, Board, World

\* The module that is told to connect to the switch is central, unless text
\* was left behind, the user was hasty or the phone linked again.
THEOREM CentralAtLast == Spec => []CentralForSwitch
<1>1. TypeOK /\ Ring /\ Central /\ [Next]_vars => Central'
  BY CentralStep
<1>2. Spec => []Central
  BY CentralInit, <1>1, ProvisioningTypeCorrect, RingInvariance, PTL DEF Spec
<1>3. Central => CentralForSwitch
  BY DEF Central, CentralForSwitch
<1> QED BY <1>2, <1>3, PTL

-------------------------------------------------------------------------------
(* The credentials *)

LEMMA FirstIs ==
  ASSUME NEW S, S \subseteq Int, NEW i \in S, \A j \in S : i <= j
  PROVE  First(S) = i
<1>1. First(S) \in S /\ \A j \in S : First(S) <= j
  BY Zenon DEF First
<1>2. First(S) \in Int /\ i \in Int /\ First(S) <= i /\ i <= First(S)
  BY <1>1
<1> QED BY <1>2

\* The first separator divides a text that does not begin with it.
LEMMA DividedAt ==
  ASSUME NEW s \in Seq(Pieces), NEW L \in Nat \ {0}, L < Len(s),
         \A i \in 1 .. L : s[i] # Separator, s[L + 1] = Separator
  PROVE  Begin(s) = 1 /\ End(s) = L + 1
<1>0. Len(s) \in Nat
  BY LenProperties
<1>1. Begin(s) = 1
  <2> DEFINE S == {i \in 1 .. Len(s) : s[i] # Separator} \cup {Len(s) + 1}
  <2>1. S \subseteq Int /\ 1 \in S /\ \A j \in S : 1 <= j
    BY <1>0
  <2>2. First(S) = 1
    <3> HIDE DEF S
    <3> QED BY <2>1, FirstIs
  <2> QED BY <2>2 DEF Begin
<1>2. End(s) = L + 1
  <2> DEFINE S == {i \in 2 .. Len(s) : s[i] = Separator} \cup {Len(s) + 1}
  <2>1. S \subseteq Int /\ L + 1 \in S /\ \A j \in S : L + 1 <= j
    BY <1>0
  <2>2. First(S) = L + 1
    <3> HIDE DEF S
    <3> QED BY <2>1, FirstIs
  <2>3. Begin(s) + 1 = 2
    BY <1>1
  <2> QED BY <2>2, <2>3 DEF End
<1> QED BY <1>1, <1>2

\* Where the parts of a composed text are.
IsComposed(s, id, x, pw) ==
  /\ Len(s) = Len(id) + 1 + Len(pw)
  /\ \A i \in 1 .. Len(id) : s[i] = id[i]
  /\ s[Len(id) + 1] = x
  /\ \A i \in 1 .. Len(pw) : s[Len(id) + 1 + i] = pw[i]

LEMMA Composed ==
  ASSUME NEW S, NEW id \in Seq(S), NEW x \in S, NEW pw \in Seq(S)
  PROVE  /\ id \o <<x>> \o pw \in Seq(S)
         /\ IsComposed(id \o <<x>> \o pw, id, x, pw)
BY DEF IsComposed

\* A piece of a text that agrees with another text is that text.
LEMMA PieceIs ==
  ASSUME NEW S, NEW s \in Seq(S), NEW t \in Seq(S), NEW k \in Nat, k + Len(t) <= Len(s),
         \A i \in 1 .. Len(t) : s[k + i] = t[i]
  PROVE  SubSeq(s, k + 1, k + Len(t)) = t
<1>1. Len(t) \in Nat /\ Len(s) \in Nat
  BY LenProperties
<1>2. \A i \in k + 1 .. k + Len(t) : s[i] \in S
  BY <1>1, ElementOfSeq
<1>3. /\ SubSeq(s, k + 1, k + Len(t)) \in Seq(S)
      /\ Len(SubSeq(s, k + 1, k + Len(t))) = Len(t)
      /\ \A i \in 1 .. Len(t) : SubSeq(s, k + 1, k + Len(t))[i] = s[k + i]
  <2>1. PICK m \in Int, n \in Int : m = k + 1 /\ n = k + Len(t)
    BY <1>1
  <2>2. /\ SubSeq(s, m, n) \in Seq(S)
        /\ Len(SubSeq(s, m, n)) = IF m <= n THEN n - m + 1 ELSE 0
        /\ \A i \in 1 .. n - m + 1 : SubSeq(s, m, n)[i] = s[m + i - 1]
    <3>1. \A i \in m .. n : s[i] \in S
      BY <1>2, <2>1
    <3> QED BY <3>1, SubSeqProperties
  <2>3. n - m + 1 = Len(t) /\ (m <= n \/ Len(t) = 0) /\ \A i \in Int : m + i - 1 = k + i
    BY <1>1, <2>1
  <2> QED BY <1>1, <2>1, <2>2, <2>3
<1> QED BY <1>1, <1>3, SeqEqual, Zenon

\* Two texts joined by a separator, when the first has none.
LEMMA Divided ==
  ASSUME NEW id \in Texts, NEW pw \in Texts, ~HasSeparator(id)
  PROVE  Credentials(id \o <<Separator>> \o pw) = <<id, pw>>
<1>1. id \in Seq(Pieces) /\ pw \in Seq(Pieces) /\ id # <<>> /\ pw # <<>> /\ Separator \in Pieces
  BY TypedAssumption DEF Texts
<1>2. Len(id) \in Nat \ {0} /\ Len(pw) \in Nat \ {0}
  BY <1>1, EmptySeq, Zenon
<1>3. PICK s : s = id \o <<Separator>> \o pw
  OBVIOUS
<1>4. /\ s \in Seq(Pieces) /\ Len(s) = Len(id) + 1 + Len(pw)
      /\ \A i \in 1 .. Len(id) : s[i] = id[i]
      /\ s[Len(id) + 1] = Separator
      /\ \A i \in 1 .. Len(pw) : s[Len(id) + 1 + i] = pw[i]
  <2>1. s \in Seq(Pieces) /\ IsComposed(s, id, Separator, pw)
    BY <1>1, <1>3, Composed, Zenon
  <2> QED BY <2>1 DEF IsComposed
<1>5. Begin(s) = 1 /\ End(s) = Len(id) + 1
  <2>1. Len(id) < Len(s) /\ \A i \in 1 .. Len(id) : s[i] # Separator
    BY <1>2, <1>4 DEF HasSeparator
  <2> QED BY <1>2, <1>4, <2>1, DividedAt, Zenon
<1>6. SubSeq(s, 1, Len(id)) = id
  <2>1. 0 \in Nat /\ 0 + Len(id) <= Len(s) /\ \A i \in 1 .. Len(id) : s[0 + i] = id[i]
    BY <1>2, <1>4
  <2>2. SubSeq(s, 0 + 1, 0 + Len(id)) = id
    BY <1>1, <1>4, <2>1, PieceIs, Zenon
  <2> QED BY <1>2, <2>2
<1>7. SubSeq(s, Len(id) + 2, Len(s)) = pw
  <2>1. /\ Len(id) + 1 \in Nat /\ Len(id) + 1 + Len(pw) <= Len(s)
        /\ \A i \in 1 .. Len(pw) : s[Len(id) + 1 + i] = pw[i]
    BY <1>2, <1>4
  <2>2. SubSeq(s, Len(id) + 1 + 1, Len(id) + 1 + Len(pw)) = pw
    BY <1>1, <1>4, <2>1, PieceIs, Zenon
  <2>3. Len(id) + 1 + 1 = Len(id) + 2
    BY <1>2
  <2> QED BY <1>4, <2>2, <2>3
<1>8. End(s) - 1 = Len(id) /\ End(s) + 1 = Len(id) + 2
  BY <1>2, <1>5
<1>9. Credentials(s) = <<Printed(id), Printed(pw)>>
  BY <1>5, <1>6, <1>7, <1>8 DEF Credentials
<1> QED BY <1>1, <1>3, <1>9 DEF Printed

LEMMA TypedInit == Init => TypedCredentials
BY DEF Init, TypedCredentials

LEMMA TypedStep == TypeOK /\ Ring /\ TypedCredentials /\ [Next]_vars => TypedCredentials'
<1> DEFINE AsTyped(typed) ==
      IF HasSeparator(typed[1])
      THEN Credentials(typed[1] \o <<Separator>> \o typed[2])
      ELSE typed
<1> SUFFICES ASSUME TypeOK, Ring, TypedCredentials, [Next]_vars,
                    pc' \in {"wifi_connect", "join"}, causes' \cap {"behind", "hasty"} = {}
             PROVE  \E typed \in Typed : creds' = AsTyped(typed)
  BY DEF TypedCredentials
<1>0. causes \cap {"behind", "hasty"} = {}
  BY CausesGrow DEF vars
<1>1. CASE ReadCreds
  <2>1. PICK text : cc2541_read(ble, text) /\ text # <<>> /\ creds' = Credentials(text)
    BY <1>1 DEF ReadCreds
  <2>2. text = ble
    BY <2>1, ReadAll DEF TypeOK
  <2>3. PICK typed \in Typed : ble = typed[1] \o <<Separator>> \o typed[2]
    BY <1>0, <2>1, <2>2 DEF Ring
  <2>4. typed[1] \in Texts /\ typed[2] \in Texts /\ typed = <<typed[1], typed[2]>>
    BY TypedAssumption
  <2>5. creds' = AsTyped(typed)
    <3>1. CASE HasSeparator(typed[1])
      BY <2>1, <2>2, <2>3, <3>1
    <3>2. CASE ~HasSeparator(typed[1])
      BY <2>1, <2>2, <2>3, <2>4, <3>2, Divided
    <3> QED BY <3>1, <3>2
  <2> QED BY <2>5
<1>2. CASE UNCHANGED creds /\ pc \in {"wifi_connect", "join"}
  BY <1>0, <1>2 DEF TypedCredentials
<1>3. CASE Ask \/ PassthrEnd
  BY <1>2, <1>3 DEF Ask, PassthrEnd, mainVars
<1>4. CASE WifiReply
  BY <1>2, <1>4
  DEF WifiReply, TestReplied, ModeGot, ModeSet, StatusReplied, ConnectReplied, JoinReplied,
      TcpReplied, ModeReplied, SendReplied, Decides, Replied
<1>5. CASE InitBle \/ UseNull \/ GetRole \/ SetRole0 \/ TestAT \/ SetRole1 \/ ConnectSwitch
  BY <1>5 DEF InitBle, UseNull, GetRole, SetRole0, TestAT, SetRole1, SetRole, ConnectSwitch
<1>6. CASE World \/ UNCHANGED vars
  BY <1>2, <1>6, PhoneApart DEF World, vars, mainVars
<1> QED BY <1>1, <1>3, <1>4, <1>5, <1>6 DEF Next, Board

\* The network is joined with the name and the password the user typed, unless
\* the name holds a separator, the user was hasty or a read came too early.
THEOREM JoinsAsTyped == Spec => []TypedCredentials
<1>1. TypeOK /\ Ring /\ TypedCredentials /\ [Next]_vars => TypedCredentials'
  BY TypedStep
<1> QED BY TypedInit, <1>1, ProvisioningTypeCorrect, RingInvariance, PTL DEF Spec
===============================================================================
