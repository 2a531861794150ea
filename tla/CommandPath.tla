----------------------------- MODULE CommandPath ------------------------------
(***************************************************************************)
(* How a command from the phone reaches the switch: the broker's handler   *)
(* puts it into the server's one-slot mailbox, the board polls the server   *)
(* over TCP through the WiFi module, and acts on the reply of an EARLIER    *)
(* poll, because main.c reads the UART right after it has sent the request. *)
(*                                                                         *)
(* Composes SwitchServer and MainLoop with the byte stream between them.   *)
(***************************************************************************)
EXTENDS MainLoop, FiniteSets, SequencesExt

CONSTANTS
  Targets,      (* devices the phone sends commands for                    *)
  WordsIn,      (* which of "reg" and "trig" a target's text contains      *)
  Inputs,       (* what the phone sends: pairs of an action and a target   *)
  MaxPublished, (* bound: messages the phone publishes                     *)
  MaxReqs,      (* bound: poll requests on their way                       *)
  Resets        (* TRUE if the TCP connection may break                    *)

Actions == {"reg", "del", "trig"}

ASSUME CommandPathAssumption ==
  /\ WordsIn \in [Targets -> Seq({"reg", "trig"})]
  /\ Inputs \subseteq Actions \X Targets
  /\ MaxPublished \in Nat /\ MaxReqs \in Nat
  /\ Resets \in BOOLEAN

VARIABLES
  flag, op, regDevices,  (* the server                                     *)
  wire,                  (* reply tokens between the server and the UART   *)
  published,             (* history: the messages published, in order      *)
  overwritten,           (* history: a message replaced one not yet polled *)
  reset,                 (* history: a broken connection lost something    *)
  mangled                (* history: a read cut a word or mixed two replies *)

netVars == <<flag, op, regDevices, wire, published, overwritten, reset, mangled>>
vars == <<loopVars, netVars>>

Server == INSTANCE SwitchServer

Init ==
  /\ LoopInit
  /\ Server!Init
  /\ wire = <<>> /\ published = <<>>
  /\ overwritten = FALSE /\ reset = FALSE /\ mangled = FALSE

-------------------------------------------------------------------------------
(* The stream *)

\* The words of a reply that main.c's strstr can see, each in two halves: the
\* action comes first in the JSON text, the device's own text after it.
Tokens(m) ==
  IF m.action = "none" THEN <<>>
  ELSE LET words == <<m.action>> \o WordsIn[m.target]
       IN [k \in 1 .. 2 * Len(words) |->
             [word |-> words[(k + 1) \div 2], half |-> 2 - (k % 2), id |-> m.id]]

Ids(tokens) == {tokens[i].id : i \in 1 .. Len(tokens)}

\* The ids of the phone's "trig" messages, and those on their way to the switch.
Triggers == {i \in 1 .. Len(published) : published[i].action = "trig"}
InMailbox == IF op = Server!NoOp THEN {} ELSE {op.id}
OnTheWay == InMailbox \cup Ids(wire) \cup Ids(uartRx)
Executed == {executed[i] : i \in 1 .. Len(executed)}

\* Message i is about a device whose text contains the word w.
Names(i, w) == w \in Range(WordsIn[published[i].target])

-------------------------------------------------------------------------------
(* The phone, the network and the board *)

\* The broker hands a message on 'arc' to server.on('published').
Publish(action, target) ==
  /\ Len(published) < MaxPublished
  /\ LET m == [action |-> action, target |-> target, id |-> Len(published) + 1]
     IN Server!PublishedArc(m) /\ published' = Append(published, m)
  /\ overwritten' = (overwritten \/ flag)
  /\ UNCHANGED <<loopVars, wire, reset, mangled>>

\* A poll reaches the HTTP server, which answers at once.
ServePoll ==
  /\ reqs > 0
  /\ reqs' = reqs - 1
  /\ wire' = wire \o Tokens(IF flag THEN op ELSE Server!NoOp)
  /\ Server!HttpRoot
  /\ UNCHANGED <<clock, pc, sinceCheck, voiceVars, startMS, uartRx, executed,
                 published, overwritten, reset, mangled>>

\* The WiFi module passes a token on to the board's UART.
Receive ==
  /\ wire # <<>>
  /\ uartRx' = Append(uartRx, Head(wire))
  /\ wire' = Tail(wire)
  /\ UNCHANGED <<clock, pc, sinceCheck, voiceVars, startMS, reqs, executed, flag, op,
                 regDevices, published, overwritten, reset, mangled>>

\* The connection breaks; the WiFi module opens a new one by itself.
Reset ==
  /\ Resets
  /\ wire # <<>> \/ reqs > 0
  /\ wire' = <<>> /\ reqs' = 0
  /\ reset' = TRUE
  /\ UNCHANGED <<clock, pc, sinceCheck, voiceVars, startMS, uartRx, executed, flag, op,
                 regDevices, published, overwritten, mangled>>

\* What at_read returns is cut inside a word, or holds two replies at once.
Mangled(buf) ==
  /\ buf # <<>>
  /\ \/ Last(buf).half = 1 \/ Head(buf).half = 2
     \/ Cardinality(Ids(buf)) > 1

\* The board's loop (bound: with MaxReqs on their way a poll sends nothing).
BoardStep ==
  /\ Loop(reqs < MaxReqs)
  /\ mangled' = (mangled \/ (uartRx' = <<>> /\ Mangled(uartRx)))
  /\ UNCHANGED <<flag, op, regDevices, wire, published, overwritten, reset>>

Next ==
  \/ \E input \in Inputs : Publish(input[1], input[2])
  \/ ServePoll
  \/ Receive
  \/ Reset
  \/ Tick /\ UNCHANGED netVars
  \/ BoardStep

\* The loop and the clock go on (see MainLoop); the network delivers in the
\* end what it does not lose.
Spec ==
  /\ Init /\ [][Next]_vars
  /\ WF_vars(BoardStep) /\ WF_vars(Tick /\ UNCHANGED netVars)
  /\ WF_vars(ServePoll) /\ WF_vars(Receive)

-------------------------------------------------------------------------------
(* Properties *)

PathTypeOK ==
  /\ LoopTypeOK
  /\ flag \in BOOLEAN /\ (flag <=> op # Server!NoOp)
  /\ reqs <= MaxReqs
  /\ \A i \in 1 .. Len(regDevices) : regDevices[i] \in Targets

\* What drives the switch for j comes after what drove it for i.
NotBefore(i, j) == i < j \/ (i = j /\ Names(i, "trig"))

\* Only a press drives the switch, or any other message about a device whose
\* name contains "trig" (main.c looks for the word in the whole reply); and in the
\* order of publication: no reply is acted on twice, none is acted on after a
\* newer one, whatever the network and the polls' timing do.  Only where the
\* word is in the name too may a reply that two reads divide act twice.
DrivenOnceInOrder ==
  /\ \A e \in 1 .. Len(executed) :
       executed[e] \in Triggers \/ (executed[e] \in 1 .. Len(published) /\ Names(executed[e], "trig"))
  /\ \A d, e \in 1 .. Len(executed) : d < e => NotBefore(executed[d], executed[e])

Calm == ~overwritten /\ ~reset /\ ~mangled

\* A trigger is lost only if a newer message overwrote it in the mailbox, the
\* connection broke, a read cut it in two or returned two replies at once, or
\* the device's own name contains "reg": the five ways, and no other, in which
\* the server, the network and the polling board lose a command.
LostForKnownCause ==
  Calm => \A i \in Triggers : ~Names(i, "reg")
                               => i \in OnTheWay \cup Executed

\* A trigger does drive the switch in the end, unless one of those causes
\* intervenes: the board keeps polling, and reads with a later poll what the
\* reply of an earlier one brought.
TriggerDrivesSwitch ==
  \A i \in 1 .. MaxPublished :
    (i \in Triggers /\ ~Names(i, "reg")) ~> (i \in Executed \/ ~Calm)
-------------------------------------------------------------------------------
(* Why the properties hold: the inductive invariant of CommandPathProofs. *)

Token == [word : Actions \cup {"reg", "trig"}, half : 1 .. 2, id : Nat]
Message == [action : Actions, target : Targets, id : Nat]

PathTypes ==
  /\ uartRx \in Seq(Token) /\ wire \in Seq(Token)
  /\ published \in Seq(Message) /\ executed \in Seq(Nat)
  /\ flag \in BOOLEAN /\ op \in Message \cup {Server!NoOp}
  /\ overwritten \in BOOLEAN /\ reset \in BOOLEAN /\ mangled \in BOOLEAN
  /\ reqs \in Nat

\* What is still to be read, in the order in which it will be.
Line == uartRx \o wire

\* A token belongs to a message that was published, and tells the truth of it.
Honest ==
  \A k \in 1 .. Len(Line) :
    /\ Line[k].id \in 1 .. Len(published)
    /\ Line[k].word = published[Line[k].id].action \/ Names(Line[k].id, Line[k].word)

\* A token with which a word "trig" begins.
Starts(t) == t.half = 1 /\ t.word = "trig"

\* What was executed comes before what is in the line, and that before the mailbox.
Sorted ==
  /\ \A j, k \in 1 .. Len(Line) :
       j < k /\ Starts(Line[j]) /\ Starts(Line[k]) => NotBefore(Line[j].id, Line[k].id)
  /\ \A e \in 1 .. Len(executed), k \in 1 .. Len(Line) :
       Starts(Line[k]) => NotBefore(executed[e], Line[k].id)

Mailbox ==
  /\ flag <=> op # Server!NoOp
  /\ flag =>
       /\ op.id \in 1 .. Len(published) /\ published[op.id] = op
       /\ \A k \in 1 .. Len(Line) : Line[k].id < op.id
       /\ \A e \in 1 .. Len(executed) : executed[e] < op.id

\* Until a read cuts a word or a connection breaks, words are whole.
Whole ==
  Calm =>
    /\ Line # <<>> => Line[1].half # 2
    /\ \A k \in 1 .. Len(Line) :
         Line[k].half = 1 =>
           /\ k < Len(Line) /\ Line[k + 1].half = 2
           /\ Line[k + 1].id = Line[k].id /\ Line[k + 1].word = Line[k].word
    /\ \A k \in 2 .. Len(Line) : Line[k].half = 2 => Line[k - 1].half = 1

PathIInv ==
  /\ PathTypes /\ Honest /\ DrivenOnceInOrder /\ Sorted /\ Mailbox /\ Whole /\ LostForKnownCause
===============================================================================
