---------------------------- MODULE MainLoopProofs ----------------------------
(***************************************************************************)
(* The safety of voice control, for every clock width, timeout, slack and  *)
(* set of commands.                                                        *)
(*                                                                         *)
(* None of the properties is inductive.  The strengthening, LoopIInv, says *)
(* what the byte recNum means at each place of the loop body (CodeMeans),  *)
(* and that while the board is armed the wrapping clock still measures the *)
(* true time since the trigger, which has not outrun the checks            *)
(* (WindowOpen).                                                           *)
(***************************************************************************)
EXTENDS MainLoop, TLAPS

\* A command number is in recNum only from its recognition to its execution,
\* is the one accepted, and like ARMED stands for a trigger in force.
CodeMeans ==
  /\ recNum \in Commands => /\ pc \in {"check", "act"}
                            /\ accepted = recNum
                            /\ triggered
  /\ recNum \notin Commands => accepted = -1
  /\ recNum = ARMED => triggered

\* Armed, or a command in recNum that has not met the timeout check.
Waiting == recNum = ARMED \/ (recNum \in Commands /\ pc = "check")

WindowOpen ==
  Waiting => /\ Elapsed(spottedMS) = sinceTrigger
             /\ sinceTrigger <= RECORD_TIMEOUT + sinceCheck

LoopIInv == LoopTypeOK /\ CodeMeans /\ WindowOpen

-------------------------------------------------------------------------------

\* The difference of two clock readings, without the remainder.
LEMMA ClockDifference ==
  ASSUME NEW x \in 0 .. WRAP - 1, NEW y \in 0 .. WRAP - 1
  PROVE  (x - y) % WRAP = IF y <= x THEN x - y ELSE x - y + WRAP
<1>1. WRAP \in Nat /\ WRAP > 0
  BY MainLoopAssumption
<1>2. CASE y <= x
  BY <1>1, <1>2
<1>3. CASE ~(y <= x)
  BY <1>1, <1>3
<1> QED
  BY <1>2, <1>3

\* The next reading of the clock, without the remainder.
LEMMA ClockAdvance ==
  ASSUME NEW x \in 0 .. WRAP - 1
  PROVE  (x + 1) % WRAP = IF x = WRAP - 1 THEN 0 ELSE x + 1
<1>1. WRAP \in Nat /\ WRAP > 0
  BY MainLoopAssumption
<1>2. CASE x = WRAP - 1
  BY <1>1, <1>2
<1>3. CASE x # WRAP - 1
  BY <1>1, <1>3
<1> QED
  BY <1>2, <1>3

\* The clock read at a trigger is zero away from itself.
LEMMA NoTimeElapsed ==
  ASSUME NEW x \in 0 .. WRAP - 1
  PROVE  (x - x) % WRAP = 0
BY ClockDifference

\* One tick takes a measured time one further, if that is still less than WRAP.
LEMMA OneMoreElapsed ==
  ASSUME NEW x \in 0 .. WRAP - 1, NEW y \in 0 .. WRAP - 1,
         (x - y) % WRAP < WRAP - 1
  PROVE  /\ (x + 1) % WRAP \in 0 .. WRAP - 1
         /\ (((x + 1) % WRAP) - y) % WRAP = ((x - y) % WRAP) + 1
<1>1. WRAP \in Nat /\ WRAP > 0
  BY MainLoopAssumption
<1> DEFINE next == (x + 1) % WRAP
<1>2. next = IF x = WRAP - 1 THEN 0 ELSE x + 1
  BY ClockAdvance
<1>3. next \in 0 .. WRAP - 1
  BY <1>1, <1>2
<1>4. (next - y) % WRAP = IF y <= next THEN next - y ELSE next - y + WRAP
  BY <1>3, ClockDifference
<1>5. (x - y) % WRAP = IF y <= x THEN x - y ELSE x - y + WRAP
  BY ClockDifference
<1> HIDE DEF next
<1>6. (next - y) % WRAP = ((x - y) % WRAP) + 1
  BY <1>1, <1>2, <1>3, <1>4, <1>5
<1> QED
  BY <1>3, <1>6 DEF next

\* Command numbers are none of the three codes, nor -1.
LEMMA CommandsAreSmall ==
  /\ \A c \in Commands : c \in 0 .. 127 /\ c < 128
  /\ {IDLE, ARMED, DONE, -1} \cap Commands = {}
BY MainLoopAssumption DEF IDLE, ARMED, DONE

\* What "less than 0x80" tests.
LEMMA LessMeansCommand ==
  ASSUME LoopTypeOK
  PROVE  recNum < 128 <=> recNum \in Commands
BY CommandsAreSmall DEF LoopTypeOK, IDLE, ARMED, DONE

-------------------------------------------------------------------------------

LEMMA LoopInitIInv == LoopInit => LoopIInv
<1> SUFFICES ASSUME LoopInit PROVE LoopIInv
  OBVIOUS
<1>1. recNum \notin Commands
  BY CommandsAreSmall DEF LoopInit
<1>2. LoopTypeOK
  <2>1. clock \in 0 .. WRAP - 1 /\ spottedMS \in 0 .. WRAP - 1 /\ startMS \in 0 .. WRAP - 1
    BY MainLoopAssumption DEF LoopInit
  <2>2. sinceTrigger \in 0 .. MaxAge /\ sinceCheck \in 0 .. Slack /\ reqs \in Nat
    BY MainLoopAssumption DEF LoopInit, MaxAge
  <2>3. pc = "frame" /\ recNum = IDLE /\ triggered = FALSE /\ accepted = -1
    BY DEF LoopInit
  <2> QED
    BY <2>1, <2>2, <2>3, Zenon DEF LoopTypeOK
<1>3. CodeMeans
  BY <1>1 DEF LoopInit, CodeMeans, IDLE, ARMED
<1>4. WindowOpen
  BY <1>1 DEF LoopInit, WindowOpen, Waiting, IDLE, ARMED
<1> QED
  BY <1>2, <1>3, <1>4 DEF LoopIInv

\* Time passes: while the board waits, the measured and the true time since
\* the trigger go on together.
LEMMA TickStep == LoopIInv /\ Tick => LoopIInv'
<1> SUFFICES ASSUME LoopIInv, Tick PROVE LoopIInv'
  OBVIOUS
<1> USE MainLoopAssumption
<1>1. clock' \in 0 .. WRAP - 1
  BY ClockAdvance DEF LoopIInv, LoopTypeOK, Tick
<1>2. LoopTypeOK'
  BY <1>1 DEF LoopIInv, LoopTypeOK, Tick, MaxAge, pollVars
<1>3. CodeMeans'
  BY DEF LoopIInv, CodeMeans, Tick
<1>4. WindowOpen'
  <2> SUFFICES ASSUME Waiting' PROVE Elapsed(spottedMS)' = sinceTrigger'
                                     /\ sinceTrigger' <= RECORD_TIMEOUT + sinceCheck'
    BY DEF WindowOpen
  <2>1. Waiting
    BY DEF Waiting, Tick
  <2>2. Elapsed(spottedMS) = sinceTrigger /\ sinceTrigger <= RECORD_TIMEOUT + sinceCheck
    BY <2>1 DEF LoopIInv, WindowOpen
  <2>3. sinceTrigger < MaxAge /\ sinceTrigger < WRAP - 1
    BY <2>2 DEF LoopIInv, LoopTypeOK, Tick, MaxAge
  <2>4. sinceTrigger' = sinceTrigger + 1 /\ sinceCheck' = sinceCheck + 1
    BY <2>3 DEF Tick
  <2>5. (((clock + 1) % WRAP) - spottedMS) % WRAP = ((clock - spottedMS) % WRAP) + 1
    BY <2>2, <2>3, OneMoreElapsed DEF LoopIInv, LoopTypeOK, Elapsed
  <2>6. clock' = (clock + 1) % WRAP /\ spottedMS' = spottedMS
    BY DEF Tick
  <2> QED
    BY <2>2, <2>4, <2>5, <2>6 DEF Elapsed, LoopIInv, LoopTypeOK
<1> QED
  BY <1>2, <1>3, <1>4 DEF LoopIInv

\* Recognition: the trigger opens a window, and only an open window lets a
\* command in.
LEMMA RecogniseStep == LoopIInv /\ Recognise => LoopIInv'
<1> SUFFICES ASSUME LoopIInv, Recognise PROVE LoopIInv'
  OBVIOUS
<1> USE MainLoopAssumption, CommandsAreSmall
<1>0. recNum \notin Commands /\ accepted = -1
  BY DEF LoopIInv, CodeMeans, Recognise
<1>1. CASE NothingSpotted
  <2>1. LoopTypeOK'
    BY <1>1 DEF LoopIInv, LoopTypeOK, Recognise, NothingSpotted, voiceVars, pollVars
  <2>2. CodeMeans'
    BY <1>0, <1>1 DEF LoopIInv, CodeMeans, Recognise, NothingSpotted, voiceVars
  <2>3. WindowOpen'
    BY <1>0, <1>1 DEF LoopIInv, WindowOpen, Waiting, Elapsed, Recognise, NothingSpotted, voiceVars
  <2> QED
    BY <2>1, <2>2, <2>3 DEF LoopIInv
<1>2. CASE TriggerSpotted
  <2>1. LoopTypeOK'
    BY <1>2 DEF LoopIInv, LoopTypeOK, Recognise, TriggerSpotted, MaxAge, pollVars
  <2>2. CodeMeans'
    BY <1>0, <1>2 DEF CodeMeans, Recognise, TriggerSpotted
  <2>3. (clock - clock) % WRAP = 0
    BY NoTimeElapsed DEF LoopIInv, LoopTypeOK
  <2>4. Elapsed(spottedMS)' = 0 /\ sinceTrigger' = 0 /\ sinceCheck' = sinceCheck
    BY <1>2, <2>3 DEF Elapsed, Recognise, TriggerSpotted
  <2>5. WindowOpen'
    BY <2>4 DEF LoopIInv, LoopTypeOK, WindowOpen
  <2> QED
    BY <2>1, <2>2, <2>5 DEF LoopIInv
<1>3. ASSUME NEW cmdID \in Commands, CommandSpotted(cmdID)
      PROVE  LoopIInv'
  <2>1. CASE recNum = ARMED
    <3>1. LoopTypeOK'
      BY <1>3, <2>1 DEF LoopIInv, LoopTypeOK, Recognise, CommandSpotted, pollVars
    <3>2. CodeMeans'
      BY <1>3, <2>1 DEF LoopIInv, CodeMeans, Recognise, CommandSpotted
    <3>3. WindowOpen'
      BY <1>3, <2>1 DEF LoopIInv, WindowOpen, Waiting, Elapsed, Recognise, CommandSpotted
    <3> QED
      BY <3>1, <3>2, <3>3 DEF LoopIInv
  <2>2. CASE recNum # ARMED
    <3>1. LoopTypeOK'
      BY <1>3, <2>2 DEF LoopIInv, LoopTypeOK, Recognise, CommandSpotted, pollVars
    <3>2. CodeMeans'
      BY <1>0, <1>3, <2>2 DEF LoopIInv, CodeMeans, Recognise, CommandSpotted
    <3>3. WindowOpen'
      BY <1>0, <1>3, <2>2 DEF WindowOpen, Waiting, Recognise, CommandSpotted
    <3> QED
      BY <3>1, <3>2, <3>3 DEF LoopIInv
  <2> QED
    BY <2>1, <2>2
<1> QED
  BY <1>1, <1>2, <1>3 DEF Recognise

\* The timeout check: a board that stays armed was triggered at most
\* RECORD_TIMEOUT ago.
LEMMA CheckStep == LoopIInv /\ CheckTimeout => LoopIInv'
<1> SUFFICES ASSUME LoopIInv, CheckTimeout PROVE LoopIInv'
  OBVIOUS
<1>1. LoopTypeOK'
  <2>1. recNum' \in {IDLE, recNum} /\ triggered' \in {FALSE, triggered}
    BY DEF CheckTimeout
  <2>2. sinceCheck' = 0 /\ 0 \in 0 .. Slack /\ pc' = "act"
    BY MainLoopAssumption DEF CheckTimeout
  <2>3. UNCHANGED <<clock, spottedMS, sinceTrigger, accepted, pollVars>>
    BY DEF CheckTimeout
  <2> QED
    BY <2>1, <2>2, <2>3 DEF LoopIInv, LoopTypeOK, MaxAge, pollVars
<1> USE MainLoopAssumption, CommandsAreSmall
<1>2. CodeMeans'
  BY DEF LoopIInv, CodeMeans, CheckTimeout, IDLE, ARMED
<1>3. WindowOpen'
  <2> SUFFICES ASSUME Waiting' PROVE Elapsed(spottedMS)' = sinceTrigger'
                                     /\ sinceTrigger' <= RECORD_TIMEOUT + sinceCheck'
    BY DEF WindowOpen
  <2>1. recNum' = ARMED
    BY DEF Waiting, CheckTimeout
  <2>2. recNum = ARMED /\ ~(Elapsed(spottedMS) > RECORD_TIMEOUT)
    BY <2>1 DEF CheckTimeout, IDLE, ARMED
  <2>3. Elapsed(spottedMS) = sinceTrigger
    BY <2>2 DEF LoopIInv, WindowOpen, Waiting
  <2>4. sinceTrigger <= RECORD_TIMEOUT
    BY <2>2, <2>3 DEF LoopIInv, LoopTypeOK, MaxAge
  <2>5. Elapsed(spottedMS)' = Elapsed(spottedMS) /\ sinceTrigger' = sinceTrigger
        /\ sinceCheck' = 0
    BY DEF CheckTimeout, Elapsed
  <2> QED
    BY <2>3, <2>4, <2>5
<1> QED
  BY <1>1, <1>2, <1>3 DEF LoopIInv

\* Execution spends the trigger and clears the command.
LEMMA ActStep == LoopIInv /\ Act => LoopIInv'
<1> SUFFICES ASSUME LoopIInv, Act PROVE LoopIInv'
  OBVIOUS
<1> USE CommandsAreSmall
<1>0. recNum < 128 <=> recNum \in Commands
  BY LessMeansCommand DEF LoopIInv
<1>1. LoopTypeOK'
  BY DEF LoopIInv, LoopTypeOK, Act, pollVars
<1>2. CodeMeans'
  BY <1>0 DEF LoopIInv, CodeMeans, Act, DONE, ARMED
<1>3. WindowOpen'
  BY <1>0 DEF LoopIInv, WindowOpen, Waiting, Elapsed, Act, DONE, ARMED
<1> QED
  BY <1>1, <1>2, <1>3 DEF LoopIInv

\* The poll leaves voice control alone.
LEMMA PollStep == LoopIInv /\ Poll(FALSE) => LoopIInv'
<1> SUFFICES ASSUME LoopIInv, Poll(FALSE) PROVE LoopIInv'
  OBVIOUS
<1>0. recNum \notin Commands
  BY DEF LoopIInv, CodeMeans, Poll
<1>1. LoopTypeOK'
  BY DEF LoopIInv, LoopTypeOK, Poll, voiceVars, pollVars
<1>2. CodeMeans'
  BY <1>0 DEF LoopIInv, CodeMeans, Poll, voiceVars
<1>3. WindowOpen'
  BY <1>0 DEF LoopIInv, WindowOpen, Waiting, Elapsed, Poll, voiceVars
<1> QED
  BY <1>1, <1>2, <1>3 DEF LoopIInv

LEMMA LoopStutter == LoopIInv /\ UNCHANGED loopVars => LoopIInv'
<1> SUFFICES ASSUME LoopIInv, UNCHANGED loopVars PROVE LoopIInv'
  OBVIOUS
<1> USE DEF loopVars, voiceVars, pollVars
<1>1. LoopTypeOK'
  BY DEF LoopIInv, LoopTypeOK
<1>2. CodeMeans'
  BY DEF LoopIInv, CodeMeans
<1>3. WindowOpen'
  BY DEF LoopIInv, WindowOpen, Waiting, Elapsed
<1> QED
  BY <1>1, <1>2, <1>3 DEF LoopIInv

\* The strengthened invariant holds in every state of voice control.
THEOREM VoiceInvariance == VoiceSpec => []LoopIInv
<1>1. LoopInit => LoopIInv
  BY LoopInitIInv
<1>2. LoopIInv /\ [VoiceNext]_loopVars => LoopIInv'
  BY TickStep, RecogniseStep, CheckStep, ActStep, PollStep, LoopStutter DEF VoiceNext, Loop
<1> QED
  BY <1>1, <1>2, PTL DEF VoiceSpec

\* Every variable of the loop stays in its range: clock readings stay below
\* WRAP, and recNum is one of the codes or a command.
THEOREM VoiceTypeCorrect == VoiceSpec => []LoopTypeOK
<1>1. LoopIInv => LoopTypeOK
  BY DEF LoopIInv
<1> QED
  BY <1>1, VoiceInvariance, PTL

\* main.c carries a command out only on a trigger that is neither spent nor
\* timed out, for any number of frames, timeouts and commands.
THEOREM OneCommand == VoiceSpec => []OneCommandPerTrigger
<1>1. LoopIInv => OneCommandPerTrigger
  BY LessMeansCommand DEF LoopIInv, CodeMeans, OneCommandPerTrigger
<1> QED
  BY <1>1, VoiceInvariance, PTL

\* main.c accepts a command no later than RECORD_TIMEOUT after the trigger and
\* the time between two checks, for any width of the millisecond clock that is
\* larger than that, and wherever the clock wraps.
THEOREM CommandInTime == VoiceSpec => []NoLateCommand
<1>1. LoopIInv => NoLateCommand
  <2> SUFFICES ASSUME LoopIInv, recNum < 128, pc = "check"
               PROVE  sinceTrigger <= RECORD_TIMEOUT + Slack
    BY DEF NoLateCommand
  <2>1. recNum \in Commands
    BY LessMeansCommand DEF LoopIInv
  <2>2. sinceTrigger <= RECORD_TIMEOUT + sinceCheck
    BY <2>1 DEF LoopIInv, WindowOpen, Waiting
  <2> QED
    BY <2>2, MainLoopAssumption DEF LoopIInv, LoopTypeOK, MaxAge
<1> QED
  BY <1>1, VoiceInvariance, PTL

\* main.c carries an accepted command out before the pass ends: no timeout
\* comes between.
THEOREM CarriedOut == VoiceSpec => []AcceptedIsCarriedOut
<1>1. LoopIInv => AcceptedIsCarriedOut
  BY DEF LoopIInv, CodeMeans, AcceptedIsCarriedOut
<1> QED
  BY <1>1, VoiceInvariance, PTL
===============================================================================
