----------------------------- MODULE DeviceStore ------------------------------
(***************************************************************************)
(* StoreData.java: the app's device lists and the text file that keeps     *)
(* them between two lives of the process.  onCreate loads the file INTO    *)
(* the lists, which are static: they outlive the activity, not the         *)
(* process.  onStop empties the file and then writes it.                   *)
(*                                                                         *)
(* A text is a sequence of tokens, two of which are the separators of the  *)
(* file format.                                                            *)
(***************************************************************************)
EXTENDS Naturals, Sequences, SequencesExt

CONSTANTS
  Tokens,      (* what a text is made of                                   *)
  At, Space,   (* the separators "@" and " "                               *)
  Devices,     (* texts "name/place" the user may register                 *)
  Macs,        (* texts the user may type for the MAC                      *)
  MaxDevices   (* bound: entries of a list                                 *)

ASSUME StoreAssumption ==
  /\ At \in Tokens /\ Space \in Tokens /\ At # Space
  /\ \A t \in Devices \cup Macs : t \in Seq(Tokens) /\ t # <<>>
  /\ MaxDevices \in Nat

VARIABLES
  regDevices,     (* static list of texts                                  *)
  regDevicesMac,  (* static list of their MACs                             *)
  file,           (* the data file                                         *)
  at,             (* "running", "storing", "stopped" or "dead"             *)
  registered,     (* history: every <<device, MAC>> the user registered    *)
  saved,          (* history: the two lists when they were last stored     *)
  torn            (* history: the process died with the file emptied       *)

lists == <<regDevices, regDevicesMac>>
vars == <<regDevices, regDevicesMac, file, at, registered, saved, torn>>

-------------------------------------------------------------------------------
(* The file format *)

\* One entry of the file.
Entry(device, mac) == device \o <<At>> \o mac

\* Mutant of Format: no space between two entries.
FormatUnseparated(devs, macs) ==
  FlattenSeq([i \in 1 .. Len(devs) |-> Entry(devs[i], macs[i])])

\* storeData's text (data.trim() has no effect: its result is dropped).
Format(devs, macs) ==
  LET data[i \in 0 .. Len(devs)] ==
        IF i = 0 THEN <<>> ELSE data[i - 1] \o Entry(devs[i], macs[i]) \o <<Space>>
  IN data[Len(devs)]

\* The pieces of a text so far, and one more token.
WithToken(ps, tok, sep) ==
  IF tok = sep THEN Append(ps, <<>>) ELSE [ps EXCEPT ![Len(ps)] = Append(@, tok)]

Pieces(text, sep) ==
  LET pieces[i \in 0 .. Len(text)] ==
        IF i = 0 THEN <<<<>>>> ELSE WithToken(pieces[i - 1], text[i], sep)
  IN pieces[Len(text)]

\* String.split: empty pieces at the end are dropped.
Split(text, sep) ==
  LET ps == Pieces(text, sep)
      full == {i \in 1 .. Len(ps) : ps[i] # <<>>}
  IN SubSeq(ps, 1, IF full = {} THEN 0 ELSE CHOOSE i \in full : \A j \in full : j <= i)

\* One entry of loadData's loop: an entry without a second part has its first
\* part added to regDevices before the exception that ends the loop.
LoadEntry(acc, entry) ==
  LET pair == Split(entry, At)
  IN IF acc.failed \/ entry = <<>> THEN acc
     ELSE IF Len(pair) = 0 THEN [acc EXCEPT !.failed = TRUE]
     ELSE IF Len(pair) = 1
          THEN [acc EXCEPT !.devs = Append(@, pair[1]), !.failed = TRUE]
          ELSE [acc EXCEPT !.devs = Append(@, pair[1]), !.macs = Append(@, pair[2])]

\* loadData: it adds to the lists as they are.
Loaded(devs, macs, text) ==
  LET array == Split(text, Space)
      loaded[i \in 0 .. Len(array)] ==
        IF i = 0 THEN [devs |-> devs, macs |-> macs, failed |-> FALSE]
        ELSE LoadEntry(loaded[i - 1], array[i])
  IN loaded[Len(array)]

-------------------------------------------------------------------------------
(* The activity and its process *)

Init ==
  /\ regDevices = <<>> /\ regDevicesMac = <<>>
  /\ file = <<>> /\ at = "running"
  /\ registered = {} /\ saved = <<<<>>, <<>>>> /\ torn = FALSE

\* onConfirm and updateDevice.
Register(device, mac) ==
  /\ at = "running" /\ Len(regDevices) < MaxDevices
  /\ regDevices' = Append(regDevices, device)
  /\ regDevicesMac' = Append(regDevicesMac, mac)
  /\ registered' = registered \cup {<<device, mac>>}
  /\ UNCHANGED <<file, at, saved, torn>>

\* Mutant of Delete: the MAC stays in its list.
DeleteKeepsMac(i) ==
  /\ at = "running" /\ i <= Len(regDevices)
  /\ regDevices' = RemoveAt(regDevices, i)
  /\ UNCHANGED <<regDevicesMac, file, at, registered, saved, torn>>

\* removeData: with lists of different lengths the second removal may throw,
\* which takes the process down.
Delete(i) ==
  /\ at = "running" /\ i <= Len(regDevices)
  /\ regDevices' = RemoveAt(regDevices, i)
  /\ IF i <= Len(regDevicesMac)
     THEN regDevicesMac' = RemoveAt(regDevicesMac, i) /\ UNCHANGED at
     ELSE at' = "dead" /\ UNCHANGED regDevicesMac
  /\ UNCHANGED <<file, registered, saved, torn>>

\* onStop, storeData: openFileOutput empties the file ...
StoreOpen ==
  /\ at = "running"
  /\ file' = <<>>
  /\ at' = "storing"
  /\ UNCHANGED <<lists, registered, saved, torn>>

\* ... and write fills it, unless composing the text throws: a device without
\* a MAC, outside every try.
StoreWrite ==
  /\ at = "storing"
  /\ IF Len(regDevices) <= Len(regDevicesMac)
     THEN /\ file' = Format(regDevices, regDevicesMac)
          /\ at' = "stopped"
          /\ saved' = lists /\ torn' = FALSE
     ELSE /\ at' = "dead" /\ torn' = TRUE
          /\ UNCHANGED <<file, saved>>
  /\ UNCHANGED <<lists, registered>>

\* The activity comes back as it was (onStart).
Resume ==
  /\ at = "stopped"
  /\ at' = "running"
  /\ UNCHANGED <<lists, file, registered, saved, torn>>

Load(devs, macs) ==
  /\ regDevices' = Loaded(devs, macs, file).devs
  /\ regDevicesMac' = Loaded(devs, macs, file).macs

\* The activity was destroyed (rotated, finished) and is created again in the
\* same process: onCreate loads the file into lists that are still full.
Recreate ==
  /\ at = "stopped"
  /\ 2 * Len(regDevices) <= MaxDevices
  /\ Load(regDevices, regDevicesMac)
  /\ at' = "running"
  /\ UNCHANGED <<file, registered, saved, torn>>

\* The process is killed.
Kill ==
  /\ at # "dead"
  /\ at' = "dead"
  /\ torn' = (torn \/ at = "storing")
  /\ UNCHANGED <<lists, file, registered, saved>>

\* A new process: onCreate loads the file into empty lists.
Launch ==
  /\ at = "dead"
  /\ Load(<<>>, <<>>)
  /\ at' = "running"
  /\ UNCHANGED <<file, registered, saved, torn>>

Next ==
  \/ \E device \in Devices, mac \in Macs : Register(device, mac)
  \/ \E i \in 1 .. MaxDevices : Delete(i)
  \/ StoreOpen \/ StoreWrite \/ Resume \/ Recreate \/ Kill \/ Launch

Spec == Init /\ [][Next]_vars

-------------------------------------------------------------------------------
(* Properties *)

\* No text the user registered holds a separator of the file format.
PlainOnly ==
  \A r \in registered : \A j \in 1 .. 2 : {At, Space} \cap ToSet(r[j]) = {}

\* Whatever the names hold and wherever an exception ends loadData or removeData,
\* no MAC is in the list without a device.
StoreTypeOK ==
  /\ at \in {"running", "storing", "stopped", "dead"} /\ torn \in BOOLEAN
  /\ regDevices \in Seq(Seq(Tokens)) /\ regDevicesMac \in Seq(Seq(Tokens))
  /\ file \in Seq(Tokens)
  /\ Len(saved) = 2 /\ \A j \in 1 .. 2 : saved[j] \in Seq(Seq(Tokens))
  /\ Len(regDevicesMac) <= Len(regDevices)
  /\ PlainOnly => Len(regDevices) <= MaxDevices

\* With plain names a new process shows exactly the devices, with their MACs and
\* in their order, of the last onStop that ended, unless a process died between
\* the emptying of the file and the writing of it.
LaunchRestores == [][Launch /\ PlainOnly /\ ~torn => lists' = saved]_vars

\* StoreData.java:42: the entries of the file are cut into device and MAC again,
\* so that whatever is stopped, killed and created again, every device in the
\* list stands beside a MAC that the user registered for it.
EachWithItsMac ==
  /\ Len(regDevices) = Len(regDevicesMac)
  /\ \A i \in 1 .. Len(regDevices) : <<regDevices[i], regDevicesMac[i]>> \in registered

\* With plain names it does, over any number of stops, kills and creations.
PlainWithItsMac == PlainOnly => EachWithItsMac
===============================================================================
