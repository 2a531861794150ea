------------------------------- MODULE MainLoop -------------------------------
(***************************************************************************)
(* The while (1) of main.c, entered once the board is provisioned: it      *)
(* recognises the trigger phrase and then a command within RECORD_TIMEOUT, *)
(* and every POLL_PERIOD asks the server for a command from the phone.     *)
(* Both drive the same switch through the BLE module.                      *)
(*                                                                         *)
(* The loop runs alone on the processor.  Between its steps time passes    *)
(* and the UART interrupt appends what the WiFi module passes through to   *)
(* the receive ring, uartRx.  Text from the server is a sequence of        *)
(* tokens: a word that strstr looks for may be cut in two by a read, so it *)
(* is two tokens, [word, half, id], whether it is the action of a command  *)
(* or a part of the device's name.                                         *)
(***************************************************************************)
EXTENDS Integers, Sequences

CONSTANTS
  WRAP,            (* the millisecond clock counts modulo WRAP (2^32)      *)
  RECORD_TIMEOUT,  (* ms the command may take after the trigger (5000)     *)
  POLL_PERIOD,     (* ms between two polls of the server (2000)            *)
  Slack,           (* most ms the loop lets pass between timeout checks    *)
  Commands,        (* command ids of group 1 the recogniser may report     *)
  Speech           (* TRUE if anybody speaks to the board in this instance *)

ASSUME MainLoopAssumption ==
  /\ RECORD_TIMEOUT \in Nat /\ POLL_PERIOD \in Nat /\ Slack \in Nat
  /\ WRAP \in Nat /\ WRAP > RECORD_TIMEOUT + Slack + 1
  /\ Commands \subseteq 0 .. 127
  /\ Speech \in BOOLEAN

IDLE  == 255   \* 0xff: waiting for the trigger phrase
ARMED == 128   \* 0x80: trigger heard, waiting for the command
DONE  == 254   \* 0xfe: command carried out

VARIABLES
  clock,        (* OSP_GET_CUR_MS()                                        *)
  pc,           (* the next part of the loop body to run                   *)
  recNum,       (* IDLE, ARMED, DONE, or the command just recognised       *)
  spottedMS,    (* clock when the trigger was last recognised              *)
  startMS,      (* clock when the last poll ended                          *)
  uartRx,       (* tokens in the receive ring of the WiFi UART             *)
  reqs,         (* poll requests on their way to the server                *)
  sinceTrigger, (* history: true time since the trigger was recognised     *)
  sinceCheck,   (* history: true time since the last timeout check         *)
  triggered,    (* history: a trigger is in force: not timed out, not spent        *)
  accepted,     (* history: the command accepted and not carried out, or -1 *)
  executed      (* history: ids of the phone's commands that drove the switch *)

voiceVars == <<recNum, spottedMS, sinceTrigger, triggered, accepted>>
pollVars  == <<startMS, uartRx, reqs, executed>>
loopVars  == <<clock, pc, sinceCheck, voiceVars, pollVars>>

\* Unsigned subtraction of two clock readings.
Elapsed(from) == (clock - from) % WRAP

LoopInit ==
  /\ clock \in {0, WRAP - 1}
  /\ pc = "frame"
  /\ recNum = IDLE /\ spottedMS = 0 /\ startMS = clock
  /\ uartRx = <<>> /\ reqs = 0
  /\ sinceTrigger = 0 /\ sinceCheck = 0
  /\ triggered = FALSE /\ accepted = -1
  /\ executed = <<>>

-------------------------------------------------------------------------------
(* The environment *)

\* Bound: histories of time stop counting once the window is surely over.
MaxAge == RECORD_TIMEOUT + Slack + 1

\* Mutant of Tick: the clock does not wrap.
TickPastWrap ==
  /\ sinceCheck < Slack
  /\ clock' = clock + 1
  /\ sinceCheck' = sinceCheck + 1
  /\ sinceTrigger' = IF sinceTrigger < MaxAge THEN sinceTrigger + 1 ELSE sinceTrigger
  /\ UNCHANGED <<pc, recNum, spottedMS, triggered, accepted, pollVars>>

\* Time passes.  Bound: at most Slack between two timeout checks.
Tick ==
  /\ sinceCheck < Slack
  /\ clock' = (clock + 1) % WRAP
  /\ sinceCheck' = sinceCheck + 1
  /\ sinceTrigger' = IF sinceTrigger < MaxAge THEN sinceTrigger + 1 ELSE sinceTrigger
  /\ UNCHANGED <<pc, recNum, spottedMS, triggered, accepted, pollVars>>

-------------------------------------------------------------------------------
(* One pass of the loop body *)

\* Spotter_AddSample wants more samples.
NothingSpotted ==
  UNCHANGED voiceVars

TriggerSpotted ==
  /\ Speech
  /\ recNum' = ARMED
  /\ spottedMS' = clock
  /\ sinceTrigger' = 0
  /\ triggered' = TRUE
  /\ UNCHANGED accepted

\* Mutant of CommandSpotted: a command needs no trigger before it.
CommandWithoutTrigger(cmdID) ==
  /\ Speech
  /\ recNum' = cmdID /\ accepted' = cmdID
  /\ UNCHANGED <<spottedMS, sinceTrigger, triggered>>

CommandSpotted(cmdID) ==
  /\ Speech
  /\ IF recNum = ARMED
     THEN recNum' = cmdID /\ accepted' = cmdID
     ELSE UNCHANGED <<recNum, accepted>>
  /\ UNCHANGED <<spottedMS, sinceTrigger, triggered>>

\* Recorder_GetBuffer returned a frame: recognise it.  (Without a frame the
\* loop starts over: no step.)
Recognise ==
  /\ pc = "frame"
  /\ \/ NothingSpotted
     \/ TriggerSpotted
     \/ \E cmdID \in Commands : CommandSpotted(cmdID)
  /\ pc' = "check"
  /\ UNCHANGED <<clock, sinceCheck, pollVars>>

\* Mutants of CheckTimeout: it also disarms an accepted command; it compares
\* the wrong way round the clock's wrap.
CheckDisarmsAccepted ==
  /\ pc = "check"
  /\ recNum' = IF Elapsed(spottedMS) > RECORD_TIMEOUT THEN IDLE ELSE recNum
  /\ sinceCheck' = 0
  /\ pc' = "act"
  /\ UNCHANGED <<clock, spottedMS, sinceTrigger, triggered, accepted, pollVars>>

CheckSigned ==
  /\ pc = "check"
  /\ recNum' = IF clock - spottedMS > RECORD_TIMEOUT /\ recNum = ARMED THEN IDLE ELSE recNum
  /\ sinceCheck' = 0
  /\ pc' = "act"
  /\ UNCHANGED <<clock, spottedMS, sinceTrigger, triggered, accepted, pollVars>>

CheckTimeout ==
  /\ pc = "check"
  /\ IF Elapsed(spottedMS) > RECORD_TIMEOUT /\ recNum = ARMED
     THEN recNum' = IDLE /\ triggered' = FALSE
     ELSE UNCHANGED <<recNum, triggered>>
  /\ sinceCheck' = 0
  /\ pc' = "act"
  /\ UNCHANGED <<clock, spottedMS, sinceTrigger, accepted, pollVars>>

\* Carry the command out ("on" or "off" to the switch), then Recorder_NextBuffer.
Act ==
  /\ pc = "act"
  /\ IF recNum < 128
     THEN /\ recNum' = DONE
          /\ accepted' = -1
          /\ triggered' = FALSE
     ELSE UNCHANGED <<recNum, accepted, triggered>>
  /\ pc' = "poll"
  /\ UNCHANGED <<clock, sinceCheck, spottedMS, sinceTrigger, pollVars>>

-------------------------------------------------------------------------------
(* The poll at the end of the body *)

\* strstr(buf, w): the two halves of w, one after the other.
FoundAt(buf, w) ==
  {i \in 1 .. Len(buf) - 1 :
     /\ buf[i].word = w /\ buf[i].half = 1
     /\ buf[i + 1].word = w /\ buf[i + 1].half = 2}

First(S) == CHOOSE i \in S : \A j \in S : i <= j

\* Ids of the phone's commands a reply makes the board carry out.
Trigged(buf) ==
  IF FoundAt(buf, "reg") = {} /\ FoundAt(buf, "trig") # {}
  THEN <<buf[First(FoundAt(buf, "trig"))].id>>
  ELSE <<>>

\* Mutant of Poll: what was read is left in the ring.
PollKeepsRx(connected) ==
  /\ pc = "poll"
  /\ IF Elapsed(startMS) > POLL_PERIOD
     THEN /\ reqs' = IF connected THEN reqs + 1 ELSE reqs
          /\ executed' = executed \o Trigged(uartRx)
          /\ startMS' = clock
          /\ UNCHANGED uartRx
     ELSE UNCHANGED pollVars
  /\ pc' = "frame"
  /\ UNCHANGED <<clock, sinceCheck, voiceVars>>

\* Mutant of Poll: the ring is emptied before it is read.
PollFlushesFirst(connected) ==
  /\ pc = "poll"
  /\ IF Elapsed(startMS) > POLL_PERIOD
     THEN /\ reqs' = IF connected THEN reqs + 1 ELSE reqs
          /\ uartRx' = <<>>
          /\ startMS' = clock
          /\ UNCHANGED executed
     ELSE UNCHANGED pollVars
  /\ pc' = "frame"
  /\ UNCHANGED <<clock, sinceCheck, voiceVars>>

\* esp8266_passthr_write of the request (nothing is sent unless the board is
\* in passthrough mode), at_read of whatever has arrived by now, the search
\* for "reg" and then "trig", and the clearing of http_client_buf.
Poll(connected) ==
  /\ pc = "poll"
  /\ IF Elapsed(startMS) > POLL_PERIOD
     THEN /\ reqs' = IF connected THEN reqs + 1 ELSE reqs
          /\ executed' = executed \o Trigged(uartRx)
          /\ uartRx' = <<>>
          /\ startMS' = clock
     ELSE UNCHANGED pollVars
  /\ pc' = "frame"
  /\ UNCHANGED <<clock, sinceCheck, voiceVars>>

Loop(connected) == Recognise \/ CheckTimeout \/ Act \/ Poll(connected)

-------------------------------------------------------------------------------
(* The loop with a board that is offline: voice control only. *)

VoiceNext == Tick \/ Loop(FALSE)

\* The microphone delivers frames for ever (Recorder), so the loop body runs
\* again and again, and the clock does not stop.
VoiceSpec ==
  /\ LoopInit /\ [][VoiceNext]_loopVars
  /\ WF_loopVars(Loop(FALSE)) /\ WF_loopVars(Tick)

-------------------------------------------------------------------------------
(* Properties of voice control *)

LoopTypeOK ==
  /\ clock \in 0 .. WRAP - 1
  /\ pc \in {"frame", "check", "act", "poll"}
  /\ recNum \in {IDLE, ARMED, DONE} \cup Commands
  /\ spottedMS \in 0 .. WRAP - 1 /\ startMS \in 0 .. WRAP - 1
  /\ sinceTrigger \in 0 .. MaxAge /\ sinceCheck \in 0 .. Slack
  /\ triggered \in BOOLEAN
  /\ accepted \in Commands \cup {-1}
  /\ reqs \in Nat

\* A command is carried out only on a trigger that has neither timed out nor
\* been spent on an earlier command: no chain of frames, timeouts and polls
\* lets a second command through.
OneCommandPerTrigger == recNum < 128 => triggered

\* An accepted command was spoken at most RECORD_TIMEOUT after the trigger,
\* plus the time the loop may take between two timeout checks: the check comes
\* after the recognition, so a command in the pass that would time out still
\* counts.  Holds across the wrap of the millisecond clock.
NoLateCommand == recNum < 128 /\ pc = "check" => sinceTrigger <= RECORD_TIMEOUT + Slack

\* A command once accepted is carried out in the same pass, even if the timeout
\* expires between its recognition and the timeout check.
AcceptedIsCarriedOut == pc \in {"poll", "frame"} => accepted = -1

\* The board does not stay armed: the window closes, by a command or by the
\* timeout, unless the trigger is spoken again and again.
WindowCloses ==
  []<>(recNum # ARMED) \/ []<><<Recognise /\ TriggerSpotted>>_loopVars
===============================================================================
