------------------------------- MODULE Registry -------------------------------
(***************************************************************************)
(* The registry of devices is kept twice: in the app's lists and in the    *)
(* server's regDevices.  The app tells the server of every change, and of  *)
(* everything it has stored whenever it connects.  This module composes    *)
(* ArcApp and SwitchServer with the broker's connection between them and   *)
(* asks when the two copies agree.                                         *)
(***************************************************************************)
EXTENDS ArcApp, Bags

CONSTANTS
  MaxServerRestarts, (* bound: times the server process is restarted       *)
  MaxTurns           (* bound: what the user does, launches and restarts   *)

ASSUME RegistryAssumption == MaxServerRestarts \in Nat /\ MaxTurns \in Nat

VARIABLES
  flag, op, serverDevices,  (* the server's variables (regDevices renamed)  *)
  restarts                  (* history: server restarts, counted            *)

vars == <<appVars, flag, op, serverDevices, restarts>>

Server == INSTANCE SwitchServer WITH regDevices <- serverDevices

Init == AppInit /\ Server!Init /\ restarts = 0

\* The broker hands the next message to server.on('published').
Deliver ==
  /\ net # <<>>
  /\ IF Head(net).topic = "arc"
     THEN Server!PublishedArc(Head(net).text)
     ELSE Server!PublishedInit(Head(net).text)
  /\ net' = Tail(net)
  /\ UNCHANGED <<regDevices, regDevicesMac, payload, ui, threads, conn, builtMsg, inflight,
                 file, taps, launches, lost, doubled, raced, restarts>>

\* The server restarts: its list is gone, and so is the app's connection.
RestartServer ==
  /\ restarts < MaxServerRestarts
  /\ restarts' = restarts + 1
  /\ Server!Restart
  /\ conn' = IF conn = "up" THEN "down" ELSE conn
  /\ net' = <<>>
  /\ lost' = (lost \/ net # <<>>)
  /\ UNCHANGED <<regDevices, regDevicesMac, payload, ui, threads, builtMsg, inflight,
                 file, taps, launches, doubled, raced>>

AppStep ==
  \/ User \/ UiStep \/ SendStoredDevices \/ OnStop
  \/ \E p \in Publishers : Publisher(p)
  \/ Connect \/ ConnectionLost \/ Relaunch

WithinTurns == taps' + launches' + restarts' <= MaxTurns

Next ==
  \/ AppStep /\ UNCHANGED <<flag, op, serverDevices, restarts>> /\ WithinTurns
  \/ Deliver
  \/ RestartServer /\ WithinTurns

\* Java runs every thread that can run, and TCP delivers while it is up.
AppProgress ==
  /\ UiStep \/ SendStoredDevices \/ Connect \/ \E p \in Publishers : Publisher(p)
  /\ UNCHANGED <<flag, op, serverDevices, restarts>>

Spec == Init /\ [][Next]_vars /\ WF_vars(AppProgress) /\ WF_vars(Deliver)

-------------------------------------------------------------------------------
(* Properties *)

RegistryTypeOK ==
  /\ flag \in BOOLEAN /\ conn \in {"connecting", "up", "down"}
  /\ inflight <= MaxInflight
  /\ ui.at \in {"idle", "addData", "new", "putAction", "putTarget", "removeData", "removeMac"}
  /\ ui = Idle => Aligned

AppTargets == [i \in 1 .. Len(regDevices) |-> TargetAt(i)]

BagOf(s) == [x \in ToSet(s) |-> Cardinality({i \in 1 .. Len(s) : s[i] = x})]

\* Connected, told everything, and nothing under way.
Settled ==
  /\ conn = "up" /\ ~builtMsg
  /\ ui = Idle /\ Running = {} /\ net = <<>>

\* Once everything under way has arrived, the server knows exactly the devices
\* of the app, unless a device was registered twice (init sends it once),
\* something was lost that nothing repeats, or the publishers raced in one of
\* three ways (Reading, Mixed, Overtakes): no other interleaving of the app's
\* threads matters, and relaunches, failed connections and restarts of the
\* server are made good by init.
AgreeWhenSettled ==
  Settled /\ ~lost /\ ~doubled /\ ~raced => BagOf(serverDevices) = BagOf(AppTargets)

\* MainActivity.java:246: when the connection is built the stored devices are
\* sent to the server, however the threads that send them are scheduled.
StoredDevicesSent == Settled /\ ~lost /\ ~doubled => ToSet(AppTargets) \subseteq ToSet(serverDevices)

\* server.js:87: a deletion removes the element it names from the server's
\* list, and no other.
Deletes(m) == m.topic = "arc" /\ m.text.action = "del"
DeletesItsTarget ==
  [][ Deliver /\ Deletes(Head(net)) =>
        \A t \in ToSet(serverDevices) \ {Head(net).text.target} : t \in ToSet(serverDevices') ]_vars

\* A device in the app's list becomes known to the server, unless the user
\* deletes it, the connection goes and nobody restarts the app, or something
\* was lost, registered twice or raced as above.
DeviceBecomesKnown ==
  \A name \in Names, mac \in Macs :
    LET t == Target(<<name[1]>>, name \o <<Place>>, mac)
    IN (t \in ToSet(AppTargets)) ~>
         (t \in ToSet(serverDevices) \/ t \notin ToSet(AppTargets) \/ conn = "down" \/ lost \/ doubled \/ raced)
===============================================================================
