----------------------------- MODULE RegistryProofs ----------------------------
(* A theorem about the app's two parallel lists and the registry around them, *)
(* for every set of names and any number of devices, threads and restarts,    *)
(* checked by TLAPS.                                                          *)
EXTENDS Registry, SequenceTheorems, TLAPS

Entries == [dev : Seq(STRING), mac : STRING]

-------------------------------------------------------------------------------
(* List.remove and the two lists of a file. *)

LEMMA RemovedIsSeq ==
  ASSUME NEW S, NEW s \in Seq(S), NEW i \in 1 .. Len(s)
  PROVE  RemoveAt(s, i) \in Seq(S) /\ Len(RemoveAt(s, i)) = Len(s) - 1
<1> DEFINE a == SubSeq(s, 1, i - 1)
           b == SubSeq(s, i + 1, Len(s))
<1>1. a \in Seq(S) /\ Len(a) = i - 1
  BY SubSeqProperties
<1>2. b \in Seq(S) /\ Len(b) = Len(s) - i
  BY SubSeqProperties
<1> HIDE DEF a, b
<1>3. a \o b \in Seq(S) /\ Len(a \o b) = Len(a) + Len(b)
  BY <1>1, <1>2, ConcatProperties
<1>4. RemoveAt(s, i) = a \o b
  BY DEF RemoveAt, a, b
<1>5. Len(s) \in Nat /\ (i - 1) + (Len(s) - i) = Len(s) - 1
  OBVIOUS
<1> QED BY <1>1, <1>2, <1>3, <1>4, <1>5

LEMMA LoadedLists ==
  ASSUME NEW f \in Seq(Entries)
  PROVE  /\ [i \in 1 .. Len(f) |-> f[i].dev] \in Seq(Seq(STRING))
         /\ [i \in 1 .. Len(f) |-> f[i].mac] \in Seq(STRING)
         /\ Len([i \in 1 .. Len(f) |-> f[i].dev]) = Len(f)
         /\ Len([i \in 1 .. Len(f) |-> f[i].mac]) = Len(f)
<1>1. Len(f) \in Nat /\ \A i \in 1 .. Len(f) : f[i].dev \in Seq(STRING) /\ f[i].mac \in STRING
  <2>1. Len(f) \in Nat
    OBVIOUS
  <2>2. ASSUME NEW i \in 1 .. Len(f) PROVE f[i].dev \in Seq(STRING) /\ f[i].mac \in STRING
    <3>1. f[i] \in Entries
      BY ElementOfSeq
    <3> QED BY <3>1 DEF Entries
  <2> QED BY <2>1, <2>2
<1> QED BY <1>1

-------------------------------------------------------------------------------
(* The inductive invariant. *)

Lists ==
  /\ regDevices \in Seq(Seq(STRING)) /\ regDevicesMac \in Seq(STRING)
  /\ file \in Seq(Entries)

\* The list of MACs is ahead of the list of devices between the two halves of a
\* registration and between those of a deletion.
MacsAhead == Len(regDevicesMac) = Len(regDevices) + 1

\* What sendMsg and removeData work on is in both lists until removeData has taken
\* it out of them.
UiPlace ==
  \/ ui = Idle /\ Aligned
  \/ ui.at = "addData" /\ ui.name \in Names /\ MacsAhead
  \/ /\ ui.at \in {"new", "putAction", "putTarget"} /\ Aligned
     /\ DOMAIN ui = {"at", "action", "id", "index"} /\ ui.index \in 1 .. Len(regDevices)
  \/ /\ ui.at = "removeData" /\ Aligned
     /\ DOMAIN ui = {"at", "index"} /\ ui.index \in 1 .. Len(regDevices)
  \/ /\ ui.at = "removeMac" /\ MacsAhead
     /\ DOMAIN ui = {"at", "index"} /\ ui.index \in 1 .. Len(regDevicesMac)

Wires ==
  /\ flag \in BOOLEAN /\ conn \in {"connecting", "up", "down"}
  /\ inflight \in 0 .. MaxInflight

RegistryIInv == Lists /\ UiPlace /\ Wires

LEMMA InitRegistry == Init => RegistryIInv
<1> SUFFICES ASSUME Init PROVE RegistryIInv
  OBVIOUS
<1>1. file \in Seq(Entries)
  BY AppAssumption DEF Init, AppInit, Entries
<1>2. Lists /\ Aligned
  BY <1>1, LoadedLists DEF Init, AppInit, Lists, Aligned
<1>3. UiPlace
  BY <1>2 DEF Init, AppInit, UiPlace
<1>4. Wires
  <2>1. flag \in BOOLEAN
    BY DEF Init, Server!Init
  <2>2. conn = "connecting" /\ inflight = 0 /\ MaxInflight \in Nat
    BY AppAssumption, Zenon DEF Init, AppInit
  <2> QED BY <2>1, <2>2 DEF Wires
<1> QED BY <1>2, <1>3, <1>4 DEF RegistryIInv

\* A step that changes none of what the invariant is about.
LEMMA Untouched ==
  ASSUME RegistryIInv, UNCHANGED <<regDevices, regDevicesMac, file, ui>>, Wires'
  PROVE  RegistryIInv'
  BY DEF RegistryIInv, Lists, UiPlace, Aligned, MacsAhead

\* A new process reads the two lists from one file.
LEMMA StartStep ==
  ASSUME RegistryIInv, StartAgain, UNCHANGED flag
  PROVE  RegistryIInv'
<1>1. file \in Seq(Entries) /\ MaxInflight \in Nat /\ flag \in BOOLEAN
  BY AppAssumption DEF RegistryIInv, Lists, Wires
<1>2. Lists' /\ Aligned'
  BY <1>1, LoadedLists DEF StartAgain, Lists, Aligned
<1>3. UiPlace'
  BY <1>2 DEF StartAgain, UiPlace, Idle
<1>4. Wires'
  BY <1>1 DEF StartAgain, Wires
<1> QED BY <1>2, <1>3, <1>4 DEF RegistryIInv

LEMMA UserSteps ==
  ASSUME RegistryIInv, User, UNCHANGED flag
  PROVE  RegistryIInv'
<1>1. /\ ui = Idle /\ ui.at = "idle" /\ Aligned /\ Lists /\ Wires
      /\ Len(regDevices) \in Nat
  BY DEF User, Register, Tap, ConfirmDelete, UserActs, RegistryIInv, UiPlace, Idle, Lists
<1>2. ASSUME NEW name \in Names, NEW mac \in Macs, Register(name, mac) PROVE RegistryIInv'
  <2>1. regDevicesMac' \in Seq(STRING) /\ Len(regDevicesMac') = Len(regDevicesMac) + 1
    <3>1. mac \in STRING /\ regDevicesMac \in Seq(STRING)
      BY <1>1, AppAssumption DEF Lists
    <3> QED BY <1>2, <3>1, AppendProperties DEF Register
  <2>2. Lists'
    BY <1>1, <1>2, <2>1 DEF Register, Lists
  <2>3. UiPlace'
    BY <1>1, <1>2, <2>1 DEF Register, UiPlace, MacsAhead, Aligned
  <2>4. Wires'
    BY <1>1, <1>2 DEF Register, Wires
  <2> QED BY <2>2, <2>3, <2>4 DEF RegistryIInv
<1>3. ASSUME NEW i \in 1 .. MaxDevices, Tap(i) \/ ConfirmDelete(i) PROVE RegistryIInv'
  <2>1. UNCHANGED <<regDevices, regDevicesMac, file, conn, inflight>> /\ i \in 1 .. Len(regDevices)
    BY <1>1, <1>3 DEF Tap, ConfirmDelete, userVars
  <2>2. UiPlace'
    <3>1. /\ ui'.at = "new" /\ ui'.index = i
          /\ DOMAIN ui' = {"at", "action", "id", "index"}
      BY <1>3 DEF Tap, ConfirmDelete
    <3> QED BY <1>1, <2>1, <3>1 DEF UiPlace, Aligned
  <2> QED BY <1>1, <2>1, <2>2 DEF RegistryIInv, Lists, Wires
<1> QED BY <1>2, <1>3 DEF User

LEMMA UiSteps ==
  ASSUME RegistryIInv, UiStep, UNCHANGED flag
  PROVE  RegistryIInv'
<1>1. /\ Lists /\ Wires /\ UiPlace
      /\ Len(regDevices) \in Nat /\ Len(regDevicesMac) \in Nat
  BY DEF RegistryIInv, Lists
<1>2. ASSUME AddData PROVE RegistryIInv'
  <2>1. MacsAhead /\ ui.name \in Names
    BY <1>1, <1>2 DEF AddData, UiPlace, Idle
  <2>2. ui.name \o <<Place>> \in Seq(STRING)
    <3>1. ui.name \in Seq(STRING) /\ <<Place>> \in Seq(STRING)
      BY <2>1, AppAssumption
    <3> QED BY <3>1, ConcatProperties
  <2>3. regDevices' \in Seq(Seq(STRING)) /\ Len(regDevices') = Len(regDevices) + 1
    <3>1. regDevices \in Seq(Seq(STRING)) /\ regDevices' = Append(regDevices, ui.name \o <<Place>>)
      BY <1>1, <1>2 DEF Lists, AddData
    <3> QED BY <2>2, <3>1, AppendProperties
  <2>4. UNCHANGED <<regDevicesMac, file, conn, inflight>>
    BY <1>2 DEF AddData, userVars
  <2>5. UiPlace'
    <3>1. /\ ui'.at = "new" /\ ui'.index = Len(regDevices) + 1
          /\ DOMAIN ui' = {"at", "action", "id", "index"}
      BY <1>2 DEF AddData
    <3> QED BY <1>1, <2>1, <2>3, <2>4, <3>1 DEF UiPlace, Aligned, MacsAhead
  <2> QED BY <1>1, <2>3, <2>4, <2>5 DEF RegistryIInv, Lists, Wires
<1>3. ASSUME SendMsg PROVE RegistryIInv'
  <2>1. UNCHANGED <<regDevices, regDevicesMac, file, conn, inflight>>
    BY <1>3 DEF SendMsg, SendMsgNew, SendMsgPutAction, SendMsgPutTarget, userVars
  <2>2. /\ ui.at \in {"new", "putAction", "putTarget"} /\ Aligned
        /\ DOMAIN ui = {"at", "action", "id", "index"} /\ ui.index \in 1 .. Len(regDevices)
    BY <1>1, <1>3
       DEF SendMsg, SendMsgNew, SendMsgPutAction, SendMsgPutTarget, UiPlace, Idle
  <2>3. UiPlace'
    <3>1. CASE \E place \in {"putAction", "putTarget"} : ui' = [ui EXCEPT !.at = place]
      <4>1. /\ ui'.at \in {"putAction", "putTarget"} /\ ui'.index = ui.index
            /\ DOMAIN ui' = {"at", "action", "id", "index"}
        BY <2>2, <3>1
      <4> QED BY <2>1, <2>2, <4>1 DEF UiPlace, Aligned
    <3>2. CASE ui' = Idle
      BY <2>1, <2>2, <3>2 DEF UiPlace, Aligned
    <3>3. CASE ui' = [at |-> "removeData", index |-> ui.index]
      <4>1. ui'.at = "removeData" /\ ui'.index = ui.index /\ DOMAIN ui' = {"at", "index"}
        BY <3>3
      <4> QED BY <2>1, <2>2, <4>1 DEF UiPlace, Aligned
    <3> QED BY <1>3, <3>1, <3>2, <3>3
            DEF SendMsg, SendMsgNew, SendMsgPutAction, SendMsgPutTarget
  <2> QED BY <1>1, <2>1, <2>3 DEF RegistryIInv, Lists, Wires
<1>4. ASSUME RemoveDevice PROVE RegistryIInv'
  <2>1. Aligned /\ DOMAIN ui = {"at", "index"} /\ ui.index \in 1 .. Len(regDevices)
    BY <1>1, <1>4 DEF RemoveDevice, UiPlace, Idle
  <2>2. regDevices' \in Seq(Seq(STRING)) /\ Len(regDevices') = Len(regDevices) - 1
    <3>1. regDevices \in Seq(Seq(STRING)) /\ regDevices' = RemoveAt(regDevices, ui.index)
      BY <1>1, <1>4 DEF Lists, RemoveDevice
    <3> QED BY <2>1, <3>1, RemovedIsSeq, Zenon
  <2>3. UNCHANGED <<regDevicesMac, file, conn, inflight>>
    BY <1>4 DEF RemoveDevice
  <2>4. UiPlace'
    <3>1. ui'.at = "removeMac" /\ ui'.index = ui.index /\ DOMAIN ui' = {"at", "index"}
      BY <1>4, <2>1 DEF RemoveDevice
    <3> QED BY <1>1, <2>1, <2>2, <2>3, <3>1 DEF UiPlace, Aligned, MacsAhead
  <2> QED BY <1>1, <2>2, <2>3, <2>4 DEF RegistryIInv, Lists, Wires
<1>5. ASSUME RemoveMac PROVE RegistryIInv'
  <2>1. MacsAhead /\ ui.index \in 1 .. Len(regDevicesMac)
    BY <1>1, <1>5 DEF RemoveMac, UiPlace, Idle
  <2>2. regDevicesMac' \in Seq(STRING) /\ Len(regDevicesMac') = Len(regDevicesMac) - 1
    <3>1. regDevicesMac \in Seq(STRING) /\ regDevicesMac' = RemoveAt(regDevicesMac, ui.index)
      BY <1>1, <1>5 DEF Lists, RemoveMac
    <3> QED BY <2>1, <3>1, RemovedIsSeq, Zenon
  <2>3. UNCHANGED <<regDevices, file, conn, inflight>> /\ ui' = Idle
    BY <1>5 DEF RemoveMac, userVars
  <2>4. UiPlace'
    BY <1>1, <2>1, <2>2, <2>3 DEF UiPlace, Aligned, MacsAhead
  <2> QED BY <1>1, <2>2, <2>3, <2>4 DEF RegistryIInv, Lists, Wires
<1> QED BY <1>2, <1>3, <1>4, <1>5 DEF UiStep

\* The file is written only while the lists are aligned, so each entry has its MAC.
LEMMA OnStopStep ==
  ASSUME RegistryIInv, OnStop, UNCHANGED flag
  PROVE  RegistryIInv'
<1>1. /\ Lists /\ Aligned /\ Wires /\ UiPlace
      /\ UNCHANGED <<regDevices, regDevicesMac, ui, conn, inflight>>
  BY DEF OnStop, RegistryIInv, UiPlace, Idle
<1>2. file' \in Seq(Entries)
  <2>1. file' = [i \in 1 .. Len(regDevices) |-> [dev |-> regDevices[i], mac |-> regDevicesMac[i]]]
    BY DEF OnStop
  <2>2. Len(regDevices) \in Nat
    BY <1>1 DEF Lists
  <2>3. ASSUME NEW i \in 1 .. Len(regDevices)
        PROVE  [dev |-> regDevices[i], mac |-> regDevicesMac[i]] \in Entries
    <3>1. regDevices[i] \in Seq(STRING) /\ regDevicesMac[i] \in STRING
      BY <1>1, <2>2 DEF Lists, Aligned
    <3> QED BY <3>1 DEF Entries
  <2> QED BY <2>1, <2>2, <2>3
<1> QED BY <1>1, <1>2 DEF RegistryIInv, Lists, Wires, UiPlace, Aligned, MacsAhead

LEMMA PublisherSteps ==
  ASSUME RegistryIInv, NEW p \in Publishers, Publisher(p), UNCHANGED flag
  PROVE  RegistryIInv'
<1>1. Wires /\ MaxInflight \in Nat
  BY AppAssumption DEF RegistryIInv
<1>2. ASSUME GetDevice(p) \/ GetMac(p) \/ PutTarget(p) \/ ToText(p) PROVE RegistryIInv'
  <2>1. UNCHANGED <<regDevices, regDevicesMac, file, ui, conn, inflight>>
    BY <1>2 DEF GetDevice, GetMac, PutTarget, ToText, threadVars
  <2> QED BY <1>1, <2>1, Untouched DEF Wires
<1>3. ASSUME Publish(p) PROVE RegistryIInv'
  <2>1. UNCHANGED <<regDevices, regDevicesMac, file, ui, conn>>
    BY <1>3 DEF Publish, threadVars
  <2>2. inflight' = inflight \/ (inflight < MaxInflight /\ inflight' = inflight + 1)
    <3>1. CASE conn = "up" /\ inflight < MaxInflight
      BY <1>3, <3>1 DEF Publish
    <3>2. CASE ~(conn = "up" /\ inflight < MaxInflight)
      BY <1>3, <3>2 DEF Publish
    <3> QED BY <3>1, <3>2
  <2>3. Wires'
    BY <1>1, <2>1, <2>2 DEF Wires
  <2> QED BY <2>1, <2>3, Untouched
<1>4. ASSUME ToTextFails(p) PROVE RegistryIInv'
  <2>1. CASE thread[p].topic = "init"
    <3>1. UNCHANGED <<regDevices, regDevicesMac, file, ui, conn, inflight>>
      BY <1>4, <2>1 DEF ToTextFails, threadVars
    <3> QED BY <1>1, <3>1, Untouched DEF Wires
  <2>2. CASE thread[p].topic # "init"
    BY <1>4, <2>2, StartStep DEF ToTextFails
  <2> QED BY <2>1, <2>2
<1> QED BY <1>2, <1>3, <1>4 DEF Publisher

LEMMA NextRegistry == RegistryIInv /\ [Next]_vars => RegistryIInv'
<1> SUFFICES ASSUME RegistryIInv, [Next]_vars PROVE RegistryIInv'
  OBVIOUS
<1>1. Wires /\ MaxInflight \in Nat
  BY AppAssumption DEF RegistryIInv
<1>2. ASSUME AppStep, UNCHANGED flag PROVE RegistryIInv'
  <2>1. ASSUME SendStoredDevices \/ Connect \/ ConnectionLost PROVE RegistryIInv'
    <3>1. UNCHANGED <<regDevices, regDevicesMac, file, ui>>
      BY <2>1 DEF SendStoredDevices, Connect, ConnectionLost, connVars
    <3>2. Wires'
      BY <1>1, <1>2, <2>1 DEF SendStoredDevices, Connect, ConnectionLost, connVars, Wires
    <3> QED BY <3>1, <3>2, Untouched
  <2>2. ASSUME Relaunch PROVE RegistryIInv'
    BY <1>2, <2>2, StartStep DEF Relaunch
  <2> QED BY <1>2, <2>1, <2>2, UserSteps, UiSteps, OnStopStep, PublisherSteps DEF AppStep
<1>3. ASSUME Deliver PROVE RegistryIInv'
  <2>1. UNCHANGED <<regDevices, regDevicesMac, file, ui, conn, inflight>>
    BY <1>3 DEF Deliver
  <2>2. flag' \in BOOLEAN
    BY <1>1, <1>3 DEF Deliver, Wires, Server!PublishedArc, Server!PublishedInit
  <2> QED BY <1>1, <2>1, <2>2, Untouched DEF Wires
<1>4. ASSUME RestartServer PROVE RegistryIInv'
  <2>1. UNCHANGED <<regDevices, regDevicesMac, file, ui, inflight>>
    BY <1>4 DEF RestartServer
  <2>2. flag' = FALSE /\ (conn' = "down" \/ conn' = conn)
    BY <1>4 DEF RestartServer, Server!Restart
  <2> QED BY <1>1, <2>1, <2>2, Untouched DEF Wires
<1>5. CASE UNCHANGED vars
  BY <1>1, <1>5, Untouched DEF vars, appVars, Wires
<1> QED BY <1>2, <1>3, <1>4, <1>5 DEF Next

-------------------------------------------------------------------------------
(* The theorem. *)

\* MainActivity.java: the list of devices and the list of MACs have the same length
\* whenever the UI thread is between two gestures, whatever is registered, deleted,
\* stored, loaded, and wherever the process dies; and an unanswered publish is
\* counted up to the limit of the session at most.
THEOREM RegistryTypeCorrect == Spec => []RegistryTypeOK
<1>1. Init => RegistryIInv
  BY InitRegistry
<1>2. RegistryIInv /\ [Next]_vars => RegistryIInv'
  BY NextRegistry
<1>3. RegistryIInv => RegistryTypeOK
  <2>1. ASSUME UiPlace
        PROVE  /\ ui.at \in {"idle", "addData", "new", "putAction", "putTarget",
                             "removeData", "removeMac"}
               /\ ui = Idle => Aligned
    BY <2>1 DEF UiPlace, Idle
  <2>2. ASSUME Wires PROVE inflight <= MaxInflight
    BY <2>2, AppAssumption DEF Wires
  <2> QED BY <2>1, <2>2 DEF RegistryIInv, Wires, RegistryTypeOK
<1> QED BY <1>1, <1>2, <1>3, PTL DEF Spec
===============================================================================
