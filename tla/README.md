# Verification of ARCIoT_SwitchBot

TLA+ models of the switch bot: a board with a microphone that presses a light
switch through a Bluetooth actuator, a phone app, and a small server between
the two. The modules follow the code; TLC checks them on small instances, and
TLAPS proves every safety property the passing runs check for every value of
the constants, and that the audio ring implements a bounded queue.

## The system

| Part | Code | State it keeps | Operations |
| --- | --- | --- | --- |
| Audio recorder | `Test_Wifi.w.BLE.w.DSpotter/recorder.c` | `gWrite`, `gRead`, `gIsOverflow`, 24 frames | the I2S interrupt stores a frame; the loop takes and releases one |
| Main loop | `main.c:238-278` | `recNum`, `spottedMS`, `startMS`, the UART ring | recognise, time out, carry out, poll |
| Provisioning | `main.c:128-224` | how often it has asked, the credentials | find the modules, join a network, open the connection, connect to the switch |
| WiFi module driver | `esp8266.c`, `at_parser.c` | `wifi_connected`, `trans_mode`, the answer waited for | send a command, wait for `OK` or `ERROR`, give up after a timeout |
| Bluetooth module driver | `cc2541.c` | the module's role | read, ask for and set the role, test |
| Phone app: Bluetooth dialogs | `MainActivity.java:301-548` | `alertLevel`, the link | link, send name and password, close |
| Serial driver | `ez_sio.c`, `ringbuffer.c` (under `uart.c`) | two rings for each UART, the enabled interrupts | `ez_sio_write` and `ez_sio_read`; the receive and the transmit callback |
| Server | `Arc_server/server.js` | `flag`, `op`, `regDevices` | MQTT `published`, HTTP poll |
| Phone app | `MainActivity.java`, `RegisteredAdapter.java`, `MqttManager.java`, `MqttCallbackBus.java` | two parallel lists, one shared `payload` | register, press, delete, connect |
| Data file | `StoreData.java` | one text file | load at `onCreate`, store at `onStop` |

In operation board and phone never talk to each other directly. The phone publishes on
`arc` (commands, registrations, deletions) and on `init` (everything it has
stored, whenever it has connected). The server puts the last message on `arc`
into a one-slot mailbox, which the board empties with an HTTP poll every two
seconds over a transparent TCP link through its WiFi module. Only to tell the
board the name and password of a network does the phone talk to it directly,
through the Bluetooth module, which afterwards becomes the board's hand on the
switch. The microphone
interrupt and the main loop share the audio ring, the UART interrupt and the
main loop share the receive ring, and the app's publisher threads share one
JSON object.

What is hard here: the interrupt comes between any two instructions of the
loop, and moves the reader's index as well as its own; the clock wraps; the
reply the board reads belongs to an earlier poll, and may be cut or merged; the
mailbox and the connection lose messages; server, app and connection come and
go at any time, and only the app keeps a file; the app's threads interleave. A
module's answer carries no mark of the command it belongs to, may come after
the board has given up on it, and follows the command's echo; words are looked for
in whole texts, the user's own names included; text is read in whatever part of it the ring
holds; the modules keep their state when the board alone restarts.

## Modules

- `AudioQueue` is what the recorder promises the recogniser: a bounded queue
  that gives up waiting frames once, whole. `Recorder` is `recorder.c` at the
  grain of loads and stores, and implements it (`ImplementsAudioQueue`, with
  the queue read off the ring). `callback_on_record_data` is one action, because
  nothing interrupts it; `Recorder_GetBuffer` is two, because its comparison
  loads two shared variables in an order the compiler chooses.
- `MainLoop` is the `while (1)` of `main.c`, one action for each part of its
  body: `Recognise` (lines 239-253), `CheckTimeout` (254-257), `Act` (258-264),
  `Poll` (265-277). Time passes between any two of them (`Tick`).
- `SwitchServer` is `server.js`: each handler is one action, since JavaScript
  runs it to its end.
- `CommandPath` composes `SwitchServer` and `MainLoop` with the byte stream
  between them. A reply is the sequence of the words `main.c` looks for: its action,
  then what the device's name contains of them (`WordsIn`). A word is two tokens, so
  that a read may cut it. What the phone sends is a set of pairs (`Inputs`) of one of
  its three actions and a device.
- `ArcApp` is the phone app. The UI thread's `sendMsg` is three steps and a
  publisher up to five, since each may come between the others' uses of
  `payload` and of the two lists.
- `Registry` composes `ArcApp` and `SwitchServer` and asks when the app's list
  and the server's agree.
- `DeviceStore` is `StoreData.java` with the life of the activity (`Resume`,
  `Recreate`) and of its process (`Kill`, `Launch`). A text is a sequence of
  tokens, two of them the separators of the file; `Format`, `Pieces` and `Loaded`
  are the loops of `storeData`, of `split` and of `loadData`, as functions of the
  number of rounds done.
- `RingBuffer` is `ringbuffer.c` as operators on a record; `EzSio` is the serial
  driver over it. `ez_sio_read` and `ez_sio_write` run with the CPU locked and are
  one action each; `uart_isr_proc` is a loop that goes on while the UART reports a
  cause, so a byte may arrive or leave between its rounds. Bytes are numbered.
- `Esp8266` is the AT parser, the commands of `esp8266.c` that `main.c` uses, and
  the WiFi module that obeys, refuses or ignores them; an answer is its data and
  its final word, marked `stale` when another command has been sent since. The
  board never turns the module's echo off, and `README.rst:69-117` of the firmware
  shows it in the buffer `at_get_reply` searches: a command carries the `OK`s and
  `ERROR`s of its arguments (`Verdicts`), which `Echo` sends back before the command is
  obeyed, each of them an end for the board's reading.
  `Cc2541` is the Bluetooth module with its driver, and the dialogs of the phone
  at the other end of its link; text is a sequence of pieces, so that a read may
  end anywhere. `Provisioning` composes them with `main()` up to its loop: `pc` is
  the call under way, a command to the WiFi module and its answer are two steps
  (`Ask`, `WifiReply`), an exchange with the Bluetooth module is one.
- `RecorderProofs`, `MainLoopProofs`, `EzSioProofs`, `CommandPathProofs`,
  `ProvisioningProofs`, `RegistryProofs`, `AgreementProofs` (on top of
  `RegistryProofs`) and `DeviceStoreProofs` hold the theorems. `MC*` modules and
  their `.cfg` files are the instances TLC checks.

Variables marked *history* belong to the properties: they record what happened
and no action's guard reads them, except that counters of events are bounded.

## Runs

| Run | Instance | Shows |
| --- | --- | --- |
| `recorder` | ring of 3, restart above 4, 13 frames | no interleaving of interrupt and loop tears, skips, repeats or strands a frame before the second overrun; the ring implements the queue |
| `voice` | clock of 8 units, window 3, slack 2 | one command per trigger, in time, and carried out, across the wrap; the window closes |
| `command_path` | two messages: presses of a plain device, of one with "reg" and of one with "trig" in its name, a registration, a deletion; connection resets | only a press, or a message about the third device, drives the switch; in order, a press of another device at most once; it is lost only for a named cause |
| `registry` | a stored device and a new one; two of gestures, launches and server restarts, publishers interleaved freely | the two lists agree whenever nothing is under way, unless the publishers raced in one of three ways; a device becomes known |
| `device_store` | two devices, one with a space in its name, two MACs, lists of 3 | plain names survive every stop, kill, launch and re-creation |
| `serial` | rings of 2, UART FIFOs of 2, 5 bytes in, 6 out, writes of 1 and 4, reads of 1 and 2 | both directions keep order and lose nothing but what the UART had no room for; no byte is left in the send ring without an interrupt; what was taken goes out |
| `provisioning` | three pairs of name and password, one holding "OK", one ";" and "ERROR", every state the modules may be left in, two faults | the board believes in a network only when it has joined it, takes no other text for a command's answer, joins as typed, starts its loop online with the module as central, and gets there in the end |
| `ok_is_success` | violation of the return code `esp8266.c` gives `esp8266_wifi_connect` | after one late answer the board takes the `OK` of another command for a joined network |
| `stored_devices_sent` | violation of `MainActivity.java:246` | two stored devices may be announced as one twice |
| `delete_target` | violation of `server.js:87` | deleting a device with a slash in its name removes another one |
| `spaced_name` | violation of `StoreData.java:42` | a name with a space comes back in pieces, without a MAC |
| `full_ring` | violation of `dev_uart.h:214-216` | a byte that meets a full receive ring keeps the interrupt handler in its loop for ever |

### Why the bounds are enough

- *Recorder.* Ring positions repeat with period `NUM_OF_BUFFER`; 13 frames go
  round a ring of three more than four times, enough for a restart of the
  indices, a first overflow, and a second overrun in every order. The proofs
  remove the bound.
- *Voice.* A clock of 8 with a window of 3 and a slack of 2 puts the wrap at
  every place of the window. The proofs remove the bound.
- *Command path.* Two messages are what it takes for one to overwrite, precede
  or merge with another; two requests may be under way, so that a reply is read
  one and two polls late. Registration and deletion are sent for one device each, the
  one whose name says nothing and the one whose name holds "trig": to `main.c` they
  are what their words are. Voice is off (`Speech = FALSE`): the two halves of the
  loop share only the switch.
- *Registry.* One stored device and one registered give a deletion in every
  position relative to a registration, a press and the init messages.
  `MaxInflight` is 3 instead of 100, so that the limit is met. Two turns, of
  gestures, launches and server restarts, put any two of them beside each other;
  nothing that races needs three. The proofs remove the bounds, and allow any number
  of devices and publishers.
- *Data file.* Three entries leave room for a re-created activity to double a
  list of one, and for a later entry to be shifted by an earlier one. The proofs remove
  the bound, for plain texts of any length.
- *Serial driver.* With two places a ring is empty, half full and full, and five
  or six bytes take its indices round more than twice. A write of 4 overflows the
  UART and the ring together. The FIFO is smaller than a write, as 16 is smaller
  than a request. The proofs remove the bounds from what is sent.

- *Provisioning.* Two faults (late or refused answers, lost links, short reads,
  haste) are one and its consequence; an echo taken for an answer needs none. The
  retries of `main.c` have no bound, nor has the model's.

### The causes of loss

Several properties are of the form "unless something happened", and say exactly
what that something may be. Taking any of the causes out of them makes TLC find
a counterexample, so none is there for comfort.

- `LostForKnownCause`: a newer message overwrote the command in the mailbox,
  the connection broke, a read cut the word or returned two replies, or the
  device's own name contains "reg".
- `DrivenOnceInOrder` has one exception, a device with "trig" in its name: `main.c:271`
  looks for the word in the whole reply, so that a registration or a deletion of such a
  device drives the switch too, and a read that divides the reply does so twice.
- `AgreeWhenSettled`: a device was registered twice (`doubled`), something was
  dropped that `init` does not repeat (`lost`), or the publishers raced:
  a deletion shifted the lists under an init thread that was reading them, a
  thread turned into text what another had written, or one overtook another.
  The app and the server have many ways to disagree, and the hazards list each of them
  with this property: those that the code does not survive are among its causes, so
  that what it shows is that there is no other.
- Of provisioning, `causes` holds what went wrong: an answer came after its
  timeout (`late`), the echo of a command held an "OK" or "ERROR" (`echoed`, which
  takes a network whose name or password contains one), a command was refused
  (`refused`), a link was lost (`lost`), a read ended before the text (`behind`), the user did not wait for the board
  (`hasty`), the phone linked again while the role was set (`relinked`), the phone
  went out of range (`unlinked`). Each property names only those it needs.
- `LaunchRestores`: the process died between the emptying of the file and the
  writing of it, or a name held a separator of the file format.

### Fairness

`Recorder`: weak fairness of the main loop, which runs alone and never blocks;
none of the interrupt, which may fall silent. `MainLoop`: the loop body and the
clock. `CommandPath`: these, and the delivery of what the network does not lose
(TCP). `Registry`: the app's threads (Java runs a thread that can run) and the
broker's delivery; none of the user, of restarts or of reconnections.
`Provisioning`: the board goes on, the WiFi module works off its commands,
Bluetooth makes a link that is wanted, and the user does what the board waits for:
choose a device, close the dialog, and (strong fairness, for what is typed first
may be wrong) type the right name and password again and again. Faults are
bounded, so that every answer comes in time in the end.
`DeviceStore` promises nothing in the end and assumes no fairness. `EzSio`: the
UART sends what it holds, and a pending interrupt is taken and worked on; nothing
is assumed of the program or of the bytes that arrive.

`CHECK_DEADLOCK FALSE` is set for `Registry`, since an app that has lost its
connection and is not touched again has stopped, for `full_ring`, where nobody
reads and the line falls silent, and for `provisioning`, which ends where the
main loop begins (or in the use of a Bluetooth driver that was not found).

## Proofs

From `RecorderAssumption` (a ring of two frames at least, restarted only above
its size):

- `Invariance`: `IInv` is inductive. The properties alone are not: it adds what
  an index loaded before an interrupt is still worth after it (`LoadedIndex`),
  that the waiting slots hold frames in recording order, newer than the last one
  heard (`RingOrder`), and that before an overflow they have no gap (`NoGap`).
  The arithmetic is in one lemma, `SlotsDiffer`: indices less than a ring apart
  have different slots.
- `TypeCorrect`, `HeldIntact`, `HeldInRing`, `FirstOverrunClean`, `HeardInOrder`:
  the properties of the run, from it.
- `RingIsQueue`: the ring implements `AudioQueue`. An interrupt is a `Put`, the one
  `DropBurst`, or the `Break`, a step of the loop a `Deliver`, a `Release` or a
  stutter; that the restart of the indices is a `Put` into an empty queue, and that
  what `Recorder_NextBuffer` releases was heard, come from the invariant.

From `MainLoopAssumption` (the clock's range is larger than the timeout plus the
time between two checks):

- `VoiceInvariance`: `LoopIInv` is inductive. `CodeMeans` says what `recNum`
  stands for at each place of the loop, `WindowOpen` that while the board is
  armed the difference of wrapped clock readings is the true time since the
  trigger. `OneMoreElapsed` is the lemma on wrapped differences.
- `VoiceTypeCorrect`, `OneCommand`, `CommandInTime`, `CarriedOut`: the safety
  properties of the run, from it.

From `EzSioAssumption` (rings and FIFOs of at least one byte, writes of at least
one):

- `PopKeepsRing`, `PushKeepsRing`, `ContentsPop` and `ContentsPush`: `rb_pop` and
  `rb_push` take from the front and add at the back of what the ring holds, and
  keep `avail` and the indices in step. `PlaceFromWrite` says how far behind the
  write index a byte is; below it is arithmetic modulo the size (`ModAdd`,
  `ModEqual`, `ModSmall`), from the defining property of division.
- `SerialInvariance`: `SerialIInv` is inductive. To the properties it adds the
  types and that both rings are as `rb_init` made them, with an integer at every
  place. `WriteStep` is the step that matters: bytes may pass the ring by, or go
  into it, since one of the two is empty (`NoOvertaking`).
- `SerialTypeCorrect`, `SendsInOrder`, `NothingStranded`: the properties of the
  run, from it.
- `ReceivesInOrder`: from it and `ReceiveIInv`, which the sending half leaves alone.
  The program's read and the interrupt's only move bytes (`OnlyMoved`, by
  `ContentsPop` and `ContentsPush`); a byte that arrives either goes to the end
  (`NumberedAppends`) or into `overrun` (`NumberedSkips`).

From `CommandPathAssumption` and `MainLoopAssumption`:

- `PathInvariance`: `PathIInv` is inductive. `Line` is what is still to be read, ring
  and wire together. `Honest` says that its tokens are those of messages that were
  published, `Sorted` and `Mailbox` that what was executed, the line and the mailbox
  follow each other in the order of publication, `Whole` that words are whole until
  a read cuts one or a connection breaks. `ReadExecutes` is the heart: a read that
  is not mangled finds the word it holds. `FirstIn` (the first position of a match
  exists) rests on the well-foundedness of the naturals.
- `AtMostOnceInOrder`, `LostOnlySo`: the safety properties of the run, from it.
  `PathTypeCorrect` adds the types, among them those of voice control inside the
  composition, from the lemmas of `MainLoopProofs`.

From `TypedAssumption` and `ProvisioningAssumption` (the right name and password may
be typed; nothing else is assumed of what is typed, nor a bound on faults), in layers,
each invariant resting on those before it:

- `Dialogue`: while no answer is late and no echo taken for one, the module and the
  ring hold nothing but the command waited for, or its answer. Gives `OwnAnswers`.
- `Belief`: the board asks until it believes, and an answer that makes it believe is
  true when it arrives. Gives `BelievesRightly`.
- `Online`: what each step towards the server has reached. Gives `StartsOnline`.
- `Ring` (the Bluetooth ring holds what was typed when asked, or nothing) and
  `Central` (the module has no peer from its `OK` to the setting of its role). Give
  `JoinsAsTyped`, with what `strtok` makes of text that holds separators, and
  `CentralAtLast`.
- `ProvisioningTypeCorrect`: the types, first of all.

From `AppAssumption` (names, MACs and stored entries are texts):

- `RegistryTypeCorrect`: `RegistryIInv` is inductive. `RegistryTypeOK` says only that
  the two lists have one length while the UI thread is idle; `UiPlace` adds which of
  them is ahead at every place between, and that the position `sendMsg` and
  `removeData` use is in both. `OnStopStep` needs it: each device in the file has its
  MAC. `StartStep` is every way the process starts again.

From `AppAssumption`, `RegistryAssumption`, `PlainNames` (no name holds a slash) and
`StoredByApp` (the file found at the very first start is one the app could have
written, each device once), both true of the run `registry`:

- `AgreementInvariance`: `AgreementIInv` is `RegistryIInv` and, while the state is
  `Clean` (nothing lost, doubled or raced), `Good`. What is under way is one queue,
  `Pending`: the messages on the wire, then the publishers in the order of their
  start. `Told` is what the app's list holds but for the entry (`Untold`) that
  `sendMsg` has not announced yet, or has announced as deleted. `Holds` says
  whether a target is in the server's list just before the k-th change of the queue,
  `AtMost` that the queue leads to a list with nothing but `Told` in it and that no
  registration meets its target there, `AtLeast` that it leads to all of `Told`
  whatever its first c changes do. `AtMost` always holds; `AtLeast` from the moment
  when the stored devices are announced (`AllAnnounced`), for the server may have
  begun empty and the connection have dropped what was said before. Why this is
  needed: the two lists themselves say nothing while a message is under way.
  The lemmas of the queue say what an appended, an executed and a dropped change do
  to the two; those of the server's list what `indexOf` and `splice` do to it
  (`PlaceInList`, `SplicedList`, `ListWithDevice`). `Overtakes` of `Registry` is what
  keeps a publisher that is not the first from publishing in a `Clean` state, so that
  `Pending` keeps its order; `Reading` and `Mixed` are what keeps its target.
- `AgreesWhenSettled`: with an empty queue both lists have the same elements, each
  once (`OneOfEach`), hence the same bag.
- `PlainNames` is not for comfort: with a slash in a name `server.js:87` deletes
  another device, which the run `delete_target` shows.
- Before it was proved, TLC has checked `Good` on a larger instance than the run's (two
  names, two devices, three publishers, three gestures, three turns, a launch and a
  restart of the server: 2,133,810 states).

From `StoreAssumption` (texts are not empty and made of tokens; the two separators
are tokens, and different), for texts and lists of any length:

- `Recursion`: a function given by its value at 0 and by each value from the one
  before it exists; `InStep`: there is only one. Both rest on `UpTo`, induction for
  the elements of a set, by a smallest counterexample. With them `FormatTable`,
  `PiecesTable` and `LoadedTable` say what the three loops do round by round.
- `StoredIsLoaded` is the heart: what `storeData` writes for texts without
  separators, `loadData` adds to the lists again, device by device, and no exception
  ends its loop. `FormatSplit` (the file is cut into its entries), `EntrySplit` (an
  entry into device and MAC) and `LoadWord` (one round of the loop) lead to it.
- `StoreInvariance`: `StoreIInv` is inductive. While all that was registered is plain,
  the file is empty or `Format` of what was last stored, it is empty only while it is
  written or when a process died at that, and a stopped activity shows what it stored;
  the last is what bounds the lists when an activity is created again and loads into
  lists that are full. TLC has checked it with a third device, one with "@" in its
  name (5,262,064 states).
- `StoreTypeCorrect` (for texts of every kind: the list of MACs is never the longer
  one), `EachPlainWithItsMac` and `RestoredAtLaunch`: the properties of the run, from it.

Only model-checked: everything under fairness (`BacklogDrains`, `WindowCloses`,
`TriggerDrivesSwitch`, `DeviceBecomesKnown`, `InterruptEnds`, `AcceptedIsSent`,
`ProvisioningEnds`), which is out of the prover's reach, and the five violations.

## Not modelled

- Of `esp8266.c` and `at_parser.c`: the commands the firmware never sends (scan,
  disconnect, DNS, server, normal send). A `+++` is sent outside transparent mode
  without effect; lines that end in neither `OK` nor `ERROR` are left out; `sscanf`
  on a string that `strstr` did not find is taken as no match. A name with "CWJAP:" or
  "STATUS:" and a digit in it would give its echo the look of an answer's data. The
  module works off the commands it has got in their order; that it drops one that comes
  while it is busy is left out, which matters only after `late` or `echoed`.
- Of the Bluetooth link: the phone does not link and send within the 100 ms of one
  exchange, and what the user types fits one write and is ASCII.
- `CommandPath` starts with the connection made and the module in transparent mode,
  as `OnlineAtLast` says of the end of provisioning; its receive ring is never
  full, unlike `EzSio`'s.
- `ArcApp` does not create the activity a second time in the same process;
  `DeviceStore` models what that does to the lists.
- The recogniser is a binary library: what it may report is a choice. The app's
  list of scanned Bluetooth devices is user interface over Android (of its WiFi
  dialog, `Cc2541` models what is sent).
- Of the app: `MqttManager.getInstance` is taken as the singleton it means to be,
  although two threads may find it unset; and a dialog of the device list is opened and
  confirmed in one step, since it is modal and nothing else changes the list.
- The sound samples, the wording of messages and the contents of names (but for
  the separators and the words "reg", "trig", "OK" and "ERROR").
- The server's `/all` page reads the list and changes nothing.

## Plan

1. *Done*: `Recorder`, `MainLoop`, `SwitchServer`, `CommandPath`, `ArcApp`,
   `Registry`, `DeviceStore`, `RingBuffer`, `EzSio`, `Esp8266`, `Cc2541`,
   `Provisioning`, and the theorems above.
2. `EzSio` under `CommandPath`: a receive ring that fills while the loop is busy.
3. The theorems about `RingBuffer`, reused in that composition; and whether
   `AgreesWhenSettled` holds of an app that re-creates its activity, by composing
   `DeviceStore` with `ArcApp`.
