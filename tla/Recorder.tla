------------------------------- MODULE Recorder -------------------------------
(***************************************************************************)
(* recorder.c of the switch-bot firmware: a ring of NUM_OF_BUFFER audio    *)
(* frames between the I2S receive interrupt (callback_on_record_data) and  *)
(* the main loop (Recorder_GetBuffer, Spotter_AddSample,                   *)
(* Recorder_NextBuffer).  The interrupt may arrive between any two loads   *)
(* or stores of the main loop; the main loop never interrupts it.          *)
(*                                                                         *)
(* A frame is the number of the interrupt that recorded it: its samples    *)
(* matter to no property here.                                             *)
(***************************************************************************)
EXTENDS Integers, Sequences

CONSTANTS
  NUM_OF_BUFFER,  (* frames in gBuffer (24 in the code)                    *)
  ResetAt,        (* gWrite beyond which idle indices restart (10000)      *)
  MaxFrames       (* bound: interrupts that deliver a frame                *)

ASSUME RecorderAssumption ==
  /\ NUM_OF_BUFFER \in Nat /\ NUM_OF_BUFFER >= 2
  /\ ResetAt \in Nat /\ ResetAt >= NUM_OF_BUFFER
  /\ MaxFrames \in Nat

VARIABLES
  gWrite,       (* index of the next frame to record                       *)
  gRead,        (* index of the next frame to recognise                    *)
  gIsRunnning,  (* TRUE after Recorder_Start (the code's spelling)         *)
  gIsOverflow,  (* latched by the first overflow, never cleared            *)
  gBuffer,      (* slot -> number of the frame its samples belong to       *)
  pc,           (* where the main loop is                                  *)
  tmp,          (* the index Recorder_GetBuffer loaded first               *)
  pData,        (* slot the pointer pData refers to                        *)
  produced,     (* history: frames recorded so far                         *)
  got,          (* history: the frame in slot pData when it was returned   *)
  heard,        (* history: last frame given to the recogniser, 0 if none  *)
  lapped        (* history: the interrupt has overwritten a waiting frame  *)

isrVars  == <<gWrite, gIsOverflow, gBuffer, produced, lapped>>
mainVars == <<pc, tmp, pData, got, heard>>
vars == <<isrVars, gRead, gIsRunnning, mainVars>>

\* The slot of an index.
Slot(i) == i % NUM_OF_BUFFER

Init ==
  /\ gWrite = 0 /\ gRead = 0
  /\ gIsRunnning = FALSE /\ gIsOverflow = FALSE
  /\ gBuffer = [s \in 0 .. NUM_OF_BUFFER - 1 |-> 0]
  /\ pc = "start" /\ tmp = 0 /\ pData = 0
  /\ produced = 0 /\ got = 0 /\ heard = 0
  /\ lapped = FALSE

-------------------------------------------------------------------------------
(* The interrupt: callback_on_record_data. *)

\* Store the new frame at index w and advance past it.
Store(w) ==
  /\ gBuffer' = [gBuffer EXCEPT ![Slot(w)] = produced + 1]
  /\ gWrite' = w + 1
  /\ produced' = produced + 1

\* Mutant of OverflowsNow: > for >=.
OverflowsLate == ~gIsOverflow /\ gWrite - gRead > NUM_OF_BUFFER

OverflowsNow == ~gIsOverflow /\ gWrite - gRead >= NUM_OF_BUFFER

\* Mutant of RestartsNow: restarts without waiting for the ring to be empty.
RestartsBusy == ~OverflowsNow /\ gWrite > ResetAt

RestartsNow == ~OverflowsNow /\ gWrite > ResetAt /\ gRead = gWrite

\* Mutant of FirstOverflow: gives up the head of the ring too.
OverflowDropsHead ==
  /\ OverflowsNow
  /\ gIsOverflow' = TRUE
  /\ Store(gRead)
  /\ UNCHANGED <<gRead, lapped>>

FirstOverflow ==
  /\ OverflowsNow
  /\ gIsOverflow' = TRUE
  /\ Store(gRead + 1)
  /\ UNCHANGED <<gRead, lapped>>

\* Mutant of RestartIndices: the reader restarts one below the writer.
RestartBelowZero ==
  /\ RestartsNow
  /\ gRead' = -1
  /\ Store(0)
  /\ UNCHANGED <<gIsOverflow, lapped>>

RestartIndices ==
  /\ RestartsNow
  /\ gRead' = 0
  /\ Store(0)
  /\ UNCHANGED <<gIsOverflow, lapped>>

AppendFrame ==
  /\ ~OverflowsNow /\ ~RestartsNow
  /\ Store(gWrite)
  /\ lapped' = (lapped \/ gWrite - gRead >= NUM_OF_BUFFER)
  /\ UNCHANGED <<gRead, gIsOverflow>>

callback_on_record_data ==
  /\ gIsRunnning
  /\ produced < MaxFrames
  /\ FirstOverflow \/ RestartIndices \/ AppendFrame
  /\ UNCHANGED <<gIsRunnning, mainVars>>

-------------------------------------------------------------------------------
(* The main loop. *)

Recorder_Start ==
  /\ pc = "start"
  /\ gRead' = 0 /\ gWrite' = 0
  /\ gIsRunnning' = TRUE
  /\ pc' = "get"
  /\ UNCHANGED <<gIsOverflow, gBuffer, tmp, pData, produced, got, heard, lapped>>

\* "gRead >= gWrite" compares two shared variables: the build may load either
\* one first, and the interrupt may come between the two loads.
LoadIndex ==
  /\ pc = "get"
  /\ \/ tmp' = gRead  /\ pc' = "gotRead"
     \/ tmp' = gWrite /\ pc' = "gotWrite"
  /\ UNCHANGED <<isrVars, gRead, gIsRunnning, pData, got, heard>>

\* The second load, the comparison and the address of the frame.
Recorder_GetBuffer ==
  /\ pc \in {"gotRead", "gotWrite"}
  /\ LET r == IF pc = "gotRead" THEN tmp ELSE gRead
         w == IF pc = "gotRead" THEN gWrite ELSE tmp
     IN IF r >= w
        THEN pc' = "get" /\ UNCHANGED <<pData, got>>
        ELSE /\ pc' = "recognise"
             /\ pData' = Slot(r)
             /\ got' = gBuffer[Slot(r)]
  /\ UNCHANGED <<isrVars, gRead, gIsRunnning, tmp, heard>>

\* Spotter_AddSample(pData, ...) reads the samples while interrupts go on.
AddSample ==
  /\ pc = "recognise"
  /\ heard' = gBuffer[pData]
  /\ pc' = "next"
  /\ UNCHANGED <<isrVars, gRead, gIsRunnning, tmp, pData, got>>

\* Mutant of Recorder_NextBuffer: the last waiting frame is not released.
NextBufferKeepsLast ==
  /\ pc = "next"
  /\ gRead' = IF gRead + 1 >= gWrite THEN gRead ELSE gRead + 1
  /\ pc' = "get"
  /\ UNCHANGED <<isrVars, gIsRunnning, tmp, pData, got, heard>>

Recorder_NextBuffer ==
  /\ pc = "next"
  /\ gRead' = IF gRead >= gWrite THEN gRead ELSE gRead + 1
  /\ pc' = "get"
  /\ UNCHANGED <<isrVars, gIsRunnning, tmp, pData, got, heard>>

MainLoop ==
  Recorder_Start \/ LoadIndex \/ Recorder_GetBuffer \/ AddSample \/ Recorder_NextBuffer

Next == callback_on_record_data \/ MainLoop

\* main() never returns from its loop and nothing on the board can block it.
Spec == Init /\ [][Next]_vars /\ WF_vars(MainLoop)

-------------------------------------------------------------------------------
(* Properties *)

TypeOK ==
  /\ gWrite \in Nat /\ gRead \in Nat
  /\ gIsRunnning \in BOOLEAN /\ gIsOverflow \in BOOLEAN
  /\ gBuffer \in [0 .. NUM_OF_BUFFER - 1 -> 0 .. produced]
  /\ pc \in {"start", "get", "gotRead", "gotWrite", "recognise", "next"}
  /\ tmp \in Nat
  /\ pData \in 0 .. NUM_OF_BUFFER - 1
  /\ produced \in 0 .. MaxFrames /\ got \in Nat /\ heard \in 0 .. produced
  /\ lapped \in BOOLEAN

\* While the main loop works on a frame (from Recorder_GetBuffer to
\* Recorder_NextBuffer) the interrupt does not change that frame's samples,
\* first overflow included; only a second overrun (lapped) can tear it.
HeldFrameIntact ==
  pc \in {"recognise", "next"} /\ ~lapped => gBuffer[pData] = got

\* The loop's frame is always one the interrupt has finished: neither the
\* overflow (gWrite = gRead + 1) nor the restart (gRead = gWrite = 0) can move
\* the indices past the frame the loop holds, so Recorder_NextBuffer always
\* finds it still there and releases that frame and no other.
HeldFrameInRing ==
  pc \in {"recognise", "next"} =>
    gRead < gWrite /\ (lapped \/ pData = Slot(gRead))

\* No waiting frame is overwritten before the overflow has been noticed and
\* its one burst dropped: the first overrun loses whole frames, never halves.
FirstOverrunIsClean == lapped => gIsOverflow

\* The recogniser hears frames in the order they were recorded, none twice,
\* and misses none before the first overflow.
InOrder ==
  [][ (pc = "recognise" /\ pc' = "next" /\ ~lapped) =>
        /\ heard' > heard
        /\ ~gIsOverflow => heard' = heard + 1 ]_vars

\* When the microphone stops delivering, the main loop works off everything
\* that was recorded: no interleaving leaves a frame stranded in the ring.
BacklogDrains == <>[](gRead = gWrite)

-------------------------------------------------------------------------------
(* Why the properties hold: the inductive invariant of RecorderProofs. *)

Indices == gRead .. gWrite - 1

\* Before Recorder_Start no interrupt has recorded anything.
NotStarted ==
  pc = "start" =>
    /\ gWrite = 0 /\ gRead = 0 /\ ~gIsRunnning /\ ~gIsOverflow
    /\ produced = 0 /\ heard = 0 /\ ~lapped

\* What an index loaded before an interrupt is still worth after it.
LoadedIndex ==
  /\ pc = "gotWrite" /\ gRead < tmp => gRead < gWrite
  /\ pc = "gotRead" =>
       \/ tmp = gRead
       \/ tmp > ResetAt /\ gRead = 0 /\ gWrite > 0

\* The slots of the waiting indices hold frames in recording order, all newer
\* than the last one heard, with no gap before the first overflow.
RingOrder ==
  /\ gWrite - gRead <= NUM_OF_BUFFER
  /\ heard <= produced
  /\ \A i, j \in Indices : i < j => gBuffer[Slot(i)] < gBuffer[Slot(j)]
  /\ \A i \in Indices : gBuffer[Slot(i)] > heard \/ (pc = "next" /\ i = gRead)
  /\ pc = "next" => gBuffer[Slot(gRead)] = heard
  /\ pc \in {"recognise", "next"} => gBuffer[pData] = got

NoGap ==
  /\ \A i \in Indices : gBuffer[Slot(i)] = produced - (gWrite - 1 - i)
  /\ heard + (gWrite - gRead) = produced + (IF pc = "next" THEN 1 ELSE 0)

IInv ==
  /\ TypeOK
  /\ gRead <= gWrite
  /\ NotStarted
  /\ LoadedIndex
  /\ HeldFrameInRing
  /\ FirstOverrunIsClean
  /\ ~lapped => RingOrder
  /\ ~gIsOverflow => NoGap

-------------------------------------------------------------------------------
(* The ring implements the queue the recogniser relies on. *)

Waiting ==
  IF lapped THEN <<>>
  ELSE [i \in 1 .. gWrite - gRead |-> gBuffer[Slot(gRead + i - 1)]]

Abstract == INSTANCE AudioQueue WITH
  queue <- Waiting, dropped <- gIsOverflow, broken <- lapped

\* Every step of the ring is a step of the queue: what the loop is handed is
\* the oldest waiting frame, and only one burst is ever given up silently.
ImplementsAudioQueue == Abstract!Spec
===============================================================================
