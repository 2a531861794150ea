-------------------------------- MODULE ArcApp --------------------------------
(***************************************************************************)
(* The phone app: MainActivity.java, RegisteredAdapter.java and the MQTT   *)
(* wrapper MqttManager.java.                                               *)
(*                                                                         *)
(* The UI thread owns the two parallel lists regDevices and regDevicesMac. *)
(* Every message leaves through a thread of its own (a publisher), and all *)
(* of them share ONE JSON object, the field payload: sendMsg replaces it   *)
(* and fills it in, the publishers of the init handler write into it, and  *)
(* each publisher turns it into text when it gets to run.                  *)
(*                                                                         *)
(* A device name typed by the user is the sequence of the parts between    *)
(* its slashes; the list holds name \o <<place>>, which is what the code's *)
(* split("/") takes apart again.                                           *)
(***************************************************************************)
EXTENDS Naturals, Sequences, SequencesExt, Functions

CONSTANTS
  Names,        (* names the user may type, sequences of parts             *)
  Place,        (* the room chosen: a key of the map place                 *)
  Macs,         (* MAC addresses the user may type                         *)
  Stored,       (* what the data file may hold when the app first starts   *)
  MaxDevices,   (* bound: devices in the list                              *)
  MaxTaps,      (* bound: what the user does with the app, in all          *)
  MaxLaunches,  (* bound: times the process starts again                   *)
  MaxInflight,  (* unacknowledged publishes a session allows (100)         *)
  Publishers    (* bound: numbers of the publisher threads                 *)

ASSUME AppAssumption ==
  /\ \A n \in Names : n \in Seq(STRING) /\ n # <<>>
  /\ Place \in STRING /\ Macs \subseteq STRING
  /\ Stored \subseteq Seq([dev : Seq(STRING), mac : STRING])
  /\ MaxDevices \in Nat /\ MaxTaps \in Nat /\ MaxLaunches \in Nat
  /\ MaxInflight \in Nat
  /\ Publishers \subseteq Nat

VARIABLES
  regDevices,     (* texts shown in the list                               *)
  regDevicesMac,  (* the MAC of each, in a list of its own                 *)
  payload,        (* the shared JSON object: [action, target]              *)
  ui,             (* where the UI thread is in sendMsg and around it       *)
  thread,         (* publisher -> where it is                              *)
  started,        (* the publishers at work, in the order of their start   *)
  conn,           (* "connecting", "up" or "down"                          *)
  builtMsg,       (* TRUE: the message what = 1 waits in the handler       *)
  inflight,       (* publishes of this session no PUBREC has answered      *)
  net,            (* messages published, on their way to the broker        *)
  file,           (* the lists in the data file                            *)
  taps,           (* history: what the user has done, counted              *)
  launches,       (* history: restarts, counted                            *)
  lost,           (* history: a publish was dropped that nothing repeats   *)
  doubled,        (* history: a device was registered that the list held   *)
  raced           (* history: publishers got in each other's way, see Races *)

threads == <<thread, started>>
appVars == <<regDevices, regDevicesMac, payload, ui, threads, conn, builtMsg,
             inflight, net, file, taps, launches, lost, doubled, raced>>

\* Keys that have not been put: JavaScript reads undefined.
NoAction == "undefined"
NoTarget == [id |-> <<>>, room |-> "undefined", mac |-> "undefined"]
Empty == [action |-> NoAction, target |-> NoTarget]
Idle == [at |-> "idle"]
NoThread == [at |-> "none"]

-------------------------------------------------------------------------------
(* The text of a target: name, number of the room, MAC. *)

\* place.get(mplace): the room's number, or null for anything else.
RoomOf(part) == IF part = Place THEN "0" ELSE "null"

\* id + "/" + place.get(device.split("/")[1]) + "@" + mac.
Target(id, device, mac) == [id |-> id, room |-> RoomOf(device[2]), mac |-> mac]

\* The target of list entry i as tap, deletion and init compose it.
TargetAt(i) == Target(<<regDevices[i][1]>>, regDevices[i], regDevicesMac[i])

Aligned == Len(regDevices) = Len(regDevicesMac)

AppInit ==
  /\ file \in Stored
  /\ regDevices = [i \in 1 .. Len(file) |-> file[i].dev]
  /\ regDevicesMac = [i \in 1 .. Len(file) |-> file[i].mac]
  /\ payload = Empty
  /\ ui = Idle
  /\ thread = [p \in Publishers |-> NoThread] /\ started = <<>>
  /\ conn = "connecting" /\ builtMsg = FALSE /\ inflight = 0
  /\ net = <<>>
  /\ taps = 0 /\ launches = 0 /\ lost = FALSE /\ doubled = FALSE
  /\ raced = FALSE

Running == {p \in Publishers : thread[p] # NoThread}

\* The numbers that n new threads can get: any free ones would do.
Free(n) == {s \in [1 .. n -> Publishers \ Running] : IsInjective(s)}

-------------------------------------------------------------------------------
(* The UI thread *)

userVars == <<conn, builtMsg, inflight, net, file, launches, lost, doubled, raced>>

UserActs == ui = Idle /\ taps < MaxTaps /\ taps' = taps + 1

\* onConfirm of the registration dialog: the MAC goes into its list first.
Register(name, mac) ==
  /\ UserActs
  /\ Len(regDevices) < MaxDevices
  /\ regDevicesMac' = Append(regDevicesMac, mac)
  /\ ui' = [at |-> "addData", name |-> name]
  /\ doubled' = (doubled \/ \E i \in 1 .. Len(regDevices) :
                              regDevices[i] = name \o <<Place>> /\ regDevicesMac[i] = mac)
  /\ UNCHANGED <<regDevices, payload, threads, conn, builtMsg, inflight, net, file, launches, lost, raced>>

\* updateDevice: regAdapter.addData, then sendMsg("reg", name, size - 1).
AddData ==
  /\ ui.at = "addData"
  /\ regDevices' = Append(regDevices, ui.name \o <<Place>>)
  /\ ui' = [at |-> "new", action |-> "reg", id |-> ui.name, index |-> Len(regDevices) + 1]
  /\ UNCHANGED <<regDevicesMac, payload, threads, taps, userVars>>

\* A short press: sendMsg("trig", array[0], position).
Tap(i) ==
  /\ UserActs
  /\ i <= Len(regDevices)
  /\ ui' = [at |-> "new", action |-> "trig", id |-> <<regDevices[i][1]>>, index |-> i]
  /\ UNCHANGED <<regDevices, regDevicesMac, payload, threads, userVars>>

\* A long press confirmed: sendMsg("del", array[0], index), then removeData.
ConfirmDelete(i) ==
  /\ UserActs
  /\ i <= Len(regDevices)
  /\ ui' = [at |-> "new", action |-> "del", id |-> <<regDevices[i][1]>>, index |-> i]
  /\ UNCHANGED <<regDevices, regDevicesMac, payload, threads, userVars>>

\* sendMsg: payload = new JSONObject() ...
SendMsgNew ==
  /\ ui.at = "new"
  /\ payload' = Empty
  /\ ui' = [ui EXCEPT !.at = "putAction"]
  /\ UNCHANGED <<regDevices, regDevicesMac, threads, taps, userVars>>

\* ... payload.put("action", action) ...
SendMsgPutAction ==
  /\ ui.at = "putAction"
  /\ payload' = [payload EXCEPT !.action = ui.action]
  /\ ui' = [ui EXCEPT !.at = "putTarget"]
  /\ UNCHANGED <<regDevices, regDevicesMac, threads, taps, userVars>>

Meant(u) ==
  [action |-> u.action,
   target |-> Target(u.id, regDevices[u.index], regDevicesMac[u.index])]

GoOn(p, t) == thread' = [thread EXCEPT ![p] = t] /\ UNCHANGED started

\* ... payload.put("target", result) and the publisher's start.
SendMsgPutTarget ==
  /\ ui.at = "putTarget"
  /\ payload' = [payload EXCEPT !.target = Meant(ui).target]
  /\ Free(1) # {}
  /\ LET start == CHOOSE s \in Free(1) : TRUE
     IN /\ thread' = [thread EXCEPT ![start[1]] = [at |-> "text", topic |-> "arc", meant |-> Meant(ui)]]
        /\ started' = started \o start
  /\ ui' = IF ui.action = "del" THEN [at |-> "removeData", index |-> ui.index] ELSE Idle
  /\ UNCHANGED <<regDevices, regDevicesMac, taps, userVars>>

\* Races: a deletion shifts the lists under init publishers that still read them ...
Reading == {p \in Running : thread[p].at \in {"getDevice", "getMac"}}

\* ... a publisher turns into text what another one, or the UI, has written ...
Mixed(p) == payload # thread[p].meant

\* ... and a publisher overtakes one that was started before it.
Overtakes(p) ==
  \E i, j \in 1 .. Len(started) :
    /\ i < j /\ started[j] = p
    /\ "arc" \in {thread[p].topic, thread[started[i]].topic}

\* removeData: the two lists, one after the other.
RemoveDevice ==
  /\ ui.at = "removeData"
  /\ regDevices' = RemoveAt(regDevices, ui.index)
  /\ ui' = [ui EXCEPT !.at = "removeMac"]
  /\ raced' = (raced \/ Reading # {})
  /\ UNCHANGED <<regDevicesMac, payload, threads, taps, conn, builtMsg, inflight, net, file,
                 launches, lost, doubled>>

\* Mutant of RemoveMac: removeData leaves the MAC in its list.
RemoveMacNever ==
  /\ ui.at = "removeMac"
  /\ ui' = Idle
  /\ UNCHANGED <<regDevices, regDevicesMac, payload, threads, taps, userVars>>

RemoveMac ==
  /\ ui.at = "removeMac"
  /\ regDevicesMac' = RemoveAt(regDevicesMac, ui.index)
  /\ ui' = Idle
  /\ UNCHANGED <<regDevices, payload, threads, taps, userVars>>

\* The handler of "connection built": a fresh payload and one publisher for
\* each stored device, all of them started before any has to run.
SendStoredDevices ==
  /\ ui = Idle
  /\ builtMsg
  /\ builtMsg' = FALSE
  /\ payload' = Empty
  /\ Free(Len(regDevices)) # {}
  /\ LET start == CHOOSE s \in Free(Len(regDevices)) : TRUE
     IN /\ thread' = [p \in Publishers |->
                        IF p \in ToSet(start)
                        THEN [at |-> "getDevice", topic |-> "init",
                              index |-> CHOOSE i \in DOMAIN start : start[i] = p]
                        ELSE thread[p]]
        /\ started' = started \o start
  /\ UNCHANGED <<regDevices, regDevicesMac, ui, conn, inflight, net, file, taps, launches, lost,
                 doubled, raced>>

\* onStop: StoreData.storeData (see DeviceStore for what the file can hold).
OnStop ==
  /\ ui = Idle
  /\ file' = [i \in 1 .. Len(regDevices) |-> [dev |-> regDevices[i], mac |-> regDevicesMac[i]]]
  /\ file' # file
  /\ UNCHANGED <<regDevices, regDevicesMac, payload, ui, threads, conn, builtMsg, inflight,
                 net, taps, launches, lost, doubled, raced>>

-------------------------------------------------------------------------------
(* The publishers *)

Finish(p) ==
  /\ thread' = [thread EXCEPT ![p] = NoThread]
  /\ started' = RemoveFirst(started, p)

threadVars == <<regDevices, regDevicesMac, ui, conn, builtMsg, file, taps, launches, doubled>>

\* The init publisher reads regDevices.get(index): past the end it gives up.
GetDevice(p) ==
  /\ thread[p].at = "getDevice"
  /\ IF thread[p].index <= Len(regDevices)
     THEN GoOn(p, [at |-> "getMac", topic |-> "init", index |-> thread[p].index,
                   device |-> regDevices[thread[p].index]])
     ELSE Finish(p)
  /\ UNCHANGED <<threadVars, payload, inflight, net, lost, raced>>

GetMac(p) ==
  /\ thread[p].at = "getMac"
  /\ IF thread[p].index <= Len(regDevicesMac)
     THEN LET device == thread[p].device
              result == Target(<<device[1]>>, device, regDevicesMac[thread[p].index])
          IN GoOn(p, [at |-> "put", topic |-> "init",
                       meant |-> [action |-> NoAction, target |-> result]])
     ELSE Finish(p)
  /\ UNCHANGED <<threadVars, payload, inflight, net, lost, raced>>

PutTarget(p) ==
  /\ thread[p].at = "put"
  /\ payload' = [payload EXCEPT !.target = thread[p].meant.target]
  /\ GoOn(p, [at |-> "text", topic |-> thread[p].topic, meant |-> thread[p].meant])
  /\ UNCHANGED <<threadVars, inflight, net, lost, raced>>

\* payload.toString(): the object the field refers to now, as it is now.
ToText(p) ==
  /\ thread[p].at = "text"
  /\ GoOn(p, [at |-> "publish", topic |-> thread[p].topic, meant |-> thread[p].meant,
               text |-> payload])
  /\ raced' = (raced \/ Mixed(p))
  /\ UNCHANGED <<threadVars, payload, inflight, net, lost>>

\* MqttManager.publish: dropped without a connection, and when MaxInflight
\* publishes have gone unanswered (the broker never answers QoS 2).
\* A registration dropped before the connection is built is repeated by init.
Publish(p) ==
  /\ thread[p].at = "publish"
  /\ IF conn = "up" /\ inflight < MaxInflight
     THEN /\ net' = Append(net, [topic |-> thread[p].topic, text |-> thread[p].text,
                                 meant |-> thread[p].meant])
          /\ inflight' = inflight + 1
          /\ UNCHANGED lost
     ELSE /\ lost' = (lost \/ conn # "connecting" \/ thread[p].meant.action # "reg")
          /\ UNCHANGED <<net, inflight>>
  /\ Finish(p)
  /\ raced' = (raced \/ Overtakes(p))
  /\ UNCHANGED <<threadVars, payload>>

-------------------------------------------------------------------------------
(* The connection and the process *)

connVars == <<regDevices, regDevicesMac, payload, ui, threads, file, taps, doubled, raced>>

\* Mutant of Connect: nobody is told that the connection is built.
ConnectSilently ==
  /\ conn = "connecting"
  /\ conn' \in {"up", "down"}
  /\ inflight' = 0
  /\ UNCHANGED <<connVars, builtMsg, net, launches, lost>>

\* createConnection: connected or not, it posts what = 1.
Connect ==
  /\ conn = "connecting"
  /\ conn' \in {"up", "down"}
  /\ builtMsg' = TRUE
  /\ inflight' = 0
  /\ UNCHANGED <<connVars, net, launches, lost>>

\* connectionLost posts what = 0, which the handler ignores: no reconnection.
\* What was on its way is gone (a clean session).
ConnectionLost ==
  /\ conn = "up"
  /\ conn' = "down"
  /\ lost' = (lost \/ net # <<>>)
  /\ net' = <<>>
  /\ UNCHANGED <<connVars, builtMsg, inflight, launches>>

Saved == Aligned /\ file = [i \in 1 .. Len(regDevices) |->
                              [dev |-> regDevices[i], mac |-> regDevicesMac[i]]]

\* A new process: only the data file survives.
StartAgain ==
  /\ regDevices' = [i \in 1 .. Len(file) |-> file[i].dev]
  /\ regDevicesMac' = [i \in 1 .. Len(file) |-> file[i].mac]
  /\ payload' = Empty /\ ui' = Idle
  /\ thread' = [p \in Publishers |-> NoThread] /\ started' = <<>>
  /\ conn' = "connecting" /\ builtMsg' = FALSE /\ inflight' = 0
  /\ lost' = (lost \/ ~Saved \/ net # <<>>
                   \/ \E p \in Running : thread[p].topic = "arc")
  /\ net' = <<>>
  /\ UNCHANGED <<file, taps, doubled, raced>>

\* The process is killed and started again.
Relaunch == launches < MaxLaunches /\ launches' = launches + 1 /\ StartAgain

\* JSONObject.toString() on the map that another thread is putting a new key
\* into throws: an init publisher gives up, any other takes the process down.
PutUnderWay(p) ==
  \/ ui.at \in {"putAction", "putTarget"}
  \/ payload.target = NoTarget /\ \E q \in Running \ {p} : thread[q].at = "put"

ToTextFails(p) ==
  /\ thread[p].at = "text" /\ PutUnderWay(p)
  /\ IF thread[p].topic = "init"
     THEN /\ Finish(p) /\ lost' = TRUE
          /\ UNCHANGED <<threadVars, payload, inflight, net, raced>>
     ELSE StartAgain /\ UNCHANGED launches

Publisher(p) ==
  GetDevice(p) \/ GetMac(p) \/ PutTarget(p) \/ ToText(p) \/ Publish(p) \/ ToTextFails(p)

SendMsg == SendMsgNew \/ SendMsgPutAction \/ SendMsgPutTarget
UiStep == AddData \/ SendMsg \/ RemoveDevice \/ RemoveMac

User ==
  \/ \E name \in Names, mac \in Macs : Register(name, mac)
  \/ \E i \in 1 .. MaxDevices : Tap(i) \/ ConfirmDelete(i)
===============================================================================
