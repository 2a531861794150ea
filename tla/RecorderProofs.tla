---------------------------- MODULE RecorderProofs ----------------------------
(* Theorems about Recorder for every ring size, restart threshold and number *)
(* of frames, checked by TLAPS.                                              *)
EXTENDS Recorder, SequenceTheorems, TLAPS

-------------------------------------------------------------------------------
(* The ring: fewer than NUM_OF_BUFFER apart, two indices have two slots. *)

LEMMA DivMod ==
  \A a \in Nat : /\ a = NUM_OF_BUFFER * (a \div NUM_OF_BUFFER) + Slot(a)
                 /\ Slot(a) \in 0 .. NUM_OF_BUFFER - 1
                 /\ a \div NUM_OF_BUFFER \in Nat
  BY RecorderAssumption, SMTT(30) DEF Slot

LEMMA SlotInRing == \A a \in Nat : Slot(a) \in 0 .. NUM_OF_BUFFER - 1
  BY DivMod

\* Two indices less than a ring apart never share a slot: what makes the ring
\* of recorder.c safe as long as gWrite - gRead <= NUM_OF_BUFFER.
LEMMA SlotsDiffer ==
  ASSUME NEW a \in Nat, NEW b \in Nat, a < b, b < a + NUM_OF_BUFFER
  PROVE  Slot(a) # Slot(b)
<1> SUFFICES ASSUME Slot(a) = Slot(b) PROVE FALSE
  OBVIOUS
<1> DEFINE N == NUM_OF_BUFFER
           p == a \div N
           q == b \div N
<1>1. /\ a = N * p + Slot(a) /\ b = N * q + Slot(b)
      /\ p \in Nat /\ q \in Nat /\ Slot(a) \in Nat /\ N \in Nat
  BY RecorderAssumption, DivMod
<1> HIDE DEF p, q, N
<1>2. N * q - N * p = b - a /\ N * p \in Nat /\ N * q \in Nat
  BY <1>1
<1>3. N * (q - p) = N * q - N * p
  BY <1>1, SMTT(30)
<1>4. N * (q - p) > 0 /\ N * (q - p) < N
  BY <1>1, <1>2, <1>3 DEF N
<1>5. CASE q - p <= 0
  BY <1>1, <1>4, <1>5, SMTT(30)
<1>6. CASE q - p >= 1
  BY <1>1, <1>4, <1>6, SMTT(30)
<1> QED BY <1>1, <1>5, <1>6

\* A store at index w leaves the slot of every index less than a ring away alone.
LEMMA StoreElsewhere ==
  ASSUME TypeOK, NEW w \in Nat, Store(w), NEW i \in Nat, i # w,
         i < w + NUM_OF_BUFFER, w < i + NUM_OF_BUFFER
  PROVE  gBuffer'[Slot(i)] = gBuffer[Slot(i)]
<1>1. Slot(i) # Slot(w)
  <2>1. CASE i < w
    BY <2>1, SlotsDiffer
  <2>2. CASE w < i
    BY <2>2, SlotsDiffer
  <2> QED BY <2>1, <2>2
<1>2. Slot(i) \in 0 .. NUM_OF_BUFFER - 1
  BY SlotInRing
<1> QED BY <1>1, <1>2 DEF TypeOK, Store

\* ... and puts the new frame, newer than every other, at its own slot.
LEMMA StoreHere ==
  ASSUME TypeOK, NEW w \in Nat, Store(w)
  PROVE  /\ gBuffer'[Slot(w)] = produced + 1
         /\ gWrite' = w + 1 /\ produced' = produced + 1
BY SlotInRing DEF TypeOK, Store

LEMMA SlotContents ==
  ASSUME TypeOK, NEW i \in Nat
  PROVE  gBuffer[Slot(i)] \in 0 .. produced
BY SlotInRing DEF TypeOK

-------------------------------------------------------------------------------
(* The invariant. *)

LEMMA InitIInv == Init => IInv
<1> SUFFICES ASSUME Init PROVE IInv
  OBVIOUS
<1>1. /\ gRead = 0 /\ gWrite = 0 /\ produced = 0 /\ heard = 0
      /\ pc = "start" /\ ~lapped /\ ~gIsOverflow /\ ~gIsRunnning
  BY DEF Init
<1>2. TypeOK
  <2>1. gBuffer \in [0 .. NUM_OF_BUFFER - 1 -> 0 .. produced]
    BY <1>1 DEF Init
  <2>2. 0 \in 0 .. NUM_OF_BUFFER - 1 /\ 0 \in 0 .. MaxFrames
    BY RecorderAssumption
  <2> QED BY <2>1, <2>2 DEF Init, TypeOK
<1>3. Indices = {}
  BY <1>1 DEF Indices
<1>4. RingOrder
  BY <1>1, <1>3, RecorderAssumption DEF RingOrder
<1>5. NoGap
  BY <1>1, <1>3 DEF NoGap
<1> QED
  BY <1>1, <1>2, <1>4, <1>5
  DEF IInv, NotStarted, LoadedIndex, HeldFrameInRing, FirstOverrunIsClean

LEMMA TypeStep == TypeOK /\ [Next]_vars => TypeOK'
<1> SUFFICES ASSUME TypeOK, [Next]_vars PROVE TypeOK'
  OBVIOUS
<1> USE RecorderAssumption
<1>1. ASSUME NEW w \in Nat, Store(w), produced < MaxFrames
      PROVE  /\ gWrite' \in Nat /\ produced' \in 0 .. MaxFrames /\ heard \in 0 .. produced'
             /\ gBuffer' \in [0 .. NUM_OF_BUFFER - 1 -> 0 .. produced']
  <2>1. gWrite' = w + 1 /\ produced' = produced + 1
    BY <1>1 DEF Store
  <2>2. gBuffer \in [0 .. NUM_OF_BUFFER - 1 -> 0 .. produced + 1]
    BY DEF TypeOK
  <2>3. gBuffer' \in [0 .. NUM_OF_BUFFER - 1 -> 0 .. produced + 1]
    <3>1. produced + 1 \in 0 .. produced + 1
      BY DEF TypeOK
    <3> QED BY <1>1, <2>2, <3>1 DEF Store
  <2> QED BY <1>1, <2>1, <2>3 DEF TypeOK
<1>2. CASE callback_on_record_data
  <2>0. /\ produced < MaxFrames
        /\ UNCHANGED <<gIsRunnning, pc, tmp, pData, got, heard>>
    BY <1>2 DEF callback_on_record_data, mainVars
  <2>1. CASE FirstOverflow
    <3>1. gRead + 1 \in Nat
      BY DEF TypeOK
    <3> QED BY <2>0, <2>1, <3>1, <1>1 DEF TypeOK, FirstOverflow
  <2>2. CASE RestartIndices
    BY <2>0, <2>2, <1>1 DEF TypeOK, RestartIndices
  <2>3. CASE AppendFrame
    BY <2>0, <2>3, <1>1 DEF TypeOK, AppendFrame
  <2> QED BY <1>2, <2>1, <2>2, <2>3 DEF callback_on_record_data
<1>3. CASE Recorder_Start
  BY <1>3 DEF TypeOK, Recorder_Start
<1>4. CASE LoadIndex
  BY <1>4 DEF TypeOK, LoadIndex, isrVars
<1>5. CASE Recorder_GetBuffer
  <2>1. \A r \in Nat : Slot(r) \in 0 .. NUM_OF_BUFFER - 1 /\ gBuffer[Slot(r)] \in Nat
    <3> TAKE r \in Nat
    <3>1. gBuffer[Slot(r)] \in 0 .. produced
      BY SlotContents
    <3>2. produced \in Nat
      BY DEF TypeOK
    <3>3. gBuffer[Slot(r)] \in Nat
      BY <3>1, <3>2
    <3> QED BY <3>3, SlotInRing
  <2> QED BY <1>5, <2>1 DEF TypeOK, Recorder_GetBuffer, isrVars
<1>6. CASE AddSample
  BY <1>6 DEF TypeOK, AddSample, isrVars
<1>7. CASE Recorder_NextBuffer
  BY <1>7 DEF TypeOK, Recorder_NextBuffer, isrVars
<1>8. CASE UNCHANGED vars
  BY <1>8 DEF TypeOK, vars, isrVars, mainVars
<1> QED BY <1>2, <1>3, <1>4, <1>5, <1>6, <1>7, <1>8 DEF Next, MainLoop

LEMMA InterruptStep == IInv /\ callback_on_record_data => IInv'
<1> SUFFICES ASSUME IInv, callback_on_record_data PROVE IInv'
  OBVIOUS
<1> USE RecorderAssumption
<1>1. TypeOK /\ TypeOK'
  BY TypeStep DEF IInv, Next
<1>2. /\ UNCHANGED <<gIsRunnning, pc, tmp, pData, got, heard>>
      /\ gIsRunnning /\ pc # "start"
  BY DEF callback_on_record_data, mainVars, IInv, NotStarted
<1>3. /\ gWrite \in Nat /\ gRead \in Nat /\ produced \in Nat /\ heard \in Nat
      /\ tmp \in Nat /\ gRead <= gWrite /\ lapped \in BOOLEAN
  BY <1>1 DEF IInv, TypeOK
<1>4. CASE FirstOverflow
  <2>1. Store(gRead + 1) /\ gRead' = gRead /\ lapped' = lapped /\ gIsOverflow'
    BY <1>4 DEF FirstOverflow
  <2>2. ~lapped /\ RingOrder
    BY <1>4 DEF FirstOverflow, OverflowsNow, IInv, FirstOverrunIsClean
  <2>3. gWrite' = gRead + 2 /\ gBuffer'[Slot(gRead + 1)] = produced + 1
        /\ produced' = produced + 1
    BY <1>1, <1>3, <2>1, StoreHere
  <2>4. gBuffer'[Slot(gRead)] = gBuffer[Slot(gRead)]
    BY <1>1, <1>3, <2>1, StoreElsewhere
  <2>5. gBuffer[Slot(gRead)] \in 0 .. produced
    BY <1>1, <1>3, SlotContents
  <2>6. gRead < gWrite
    BY <1>3, <1>4 DEF FirstOverflow, OverflowsNow
  <2>7. Indices' = {gRead, gRead + 1} /\ gRead \in Indices
    BY <1>3, <2>1, <2>3, <2>6 DEF Indices
  <2>8. HeldFrameInRing'
    BY <1>2, <1>3, <2>1, <2>3 DEF IInv, HeldFrameInRing
  <2>9. RingOrder'
    <3>1. (gWrite - gRead <= NUM_OF_BUFFER /\ heard <= produced)'
      BY <1>2, <1>3, <2>1, <2>2, <2>3 DEF RingOrder
    <3>2. (\A i, j \in Indices : i < j => gBuffer[Slot(i)] < gBuffer[Slot(j)])'
      BY <1>3, <2>3, <2>4, <2>5, <2>7
    <3>3. (\A i \in Indices : gBuffer[Slot(i)] > heard \/ (pc = "next" /\ i = gRead))'
      <4>1. gBuffer[Slot(gRead)] > heard \/ pc = "next"
        BY <2>2, <2>7 DEF RingOrder
      <4>2. produced + 1 > heard
        BY <1>3, <2>2 DEF RingOrder
      <4> QED BY <1>2, <2>1, <2>3, <2>4, <2>7, <4>1, <4>2
    <3>4. (pc = "next" => gBuffer[Slot(gRead)] = heard)'
      BY <1>2, <2>1, <2>2, <2>4 DEF RingOrder
    <3>5. (pc \in {"recognise", "next"} => gBuffer[pData] = got)'
      BY <1>2, <2>2, <2>4 DEF RingOrder, IInv, HeldFrameInRing
    <3> QED BY <3>1, <3>2, <3>3, <3>4, <3>5 DEF RingOrder
  <2>10. LoadedIndex'
    BY <1>2, <1>3, <2>1, <2>3 DEF IInv, LoadedIndex
  <2> QED
    BY <1>1, <1>2, <1>3, <2>1, <2>3, <2>8, <2>9, <2>10
    DEF IInv, NotStarted, FirstOverrunIsClean
<1>5. CASE RestartIndices
  <2>1. /\ Store(0) /\ gRead' = 0 /\ lapped' = lapped
        /\ gIsOverflow' = gIsOverflow /\ gRead = gWrite /\ gWrite > ResetAt
    BY <1>5 DEF RestartIndices, RestartsNow
  <2>2. gWrite' = 1 /\ gBuffer'[Slot(0)] = produced + 1 /\ produced' = produced + 1
    BY <1>1, <2>1, StoreHere
  <2>3. pc \notin {"recognise", "next"}
    BY <1>3, <2>1 DEF IInv, HeldFrameInRing
  <2>4. Indices' = {0}
    BY <2>1, <2>2 DEF Indices
  <2>5. LoadedIndex'
    BY <1>2, <1>3, <2>1, <2>2 DEF IInv, LoadedIndex
  <2>6. ASSUME ~lapped PROVE RingOrder'
    <3>1. heard <= produced
      BY <2>6 DEF IInv, RingOrder
    <3>2. (gWrite - gRead <= NUM_OF_BUFFER /\ heard <= produced)'
      BY <1>2, <1>3, <2>1, <2>2, <3>1
    <3>3. produced + 1 > heard
      BY <1>3, <3>1
    <3> QED BY <1>2, <2>1, <2>2, <2>3, <2>4, <3>2, <3>3 DEF RingOrder
  <2>7. ASSUME ~gIsOverflow PROVE NoGap'
    <3>1. heard = produced
      BY <1>3, <2>1, <2>3, <2>7 DEF IInv, NoGap
    <3> QED BY <1>2, <1>3, <2>1, <2>2, <2>3, <2>4, <3>1 DEF NoGap
  <2> QED
    BY <1>1, <1>2, <1>3, <2>1, <2>2, <2>3, <2>5, <2>6, <2>7
    DEF IInv, NotStarted, FirstOverrunIsClean, HeldFrameInRing
<1>6. CASE AppendFrame
  <2>1. /\ Store(gWrite) /\ gRead' = gRead /\ gIsOverflow' = gIsOverflow
        /\ lapped' = (lapped \/ gWrite - gRead >= NUM_OF_BUFFER) /\ ~OverflowsNow
    BY <1>6 DEF AppendFrame
  <2>2. gWrite' = gWrite + 1 /\ gBuffer'[Slot(gWrite)] = produced + 1
        /\ produced' = produced + 1
    BY <1>1, <1>3, <2>1, StoreHere
  <2>3. Indices' = Indices \cup {gWrite} /\ Indices \subseteq Nat
    BY <1>3, <2>1, <2>2 DEF Indices
  <2>4. ASSUME gWrite - gRead < NUM_OF_BUFFER, NEW i \in Indices
        PROVE  gBuffer'[Slot(i)] = gBuffer[Slot(i)]
    <3>1. i \in Nat /\ i < gWrite /\ gWrite < i + NUM_OF_BUFFER /\ i < gWrite + NUM_OF_BUFFER
      BY <1>3, <2>4 DEF Indices
    <3> QED BY <1>1, <1>3, <2>1, <3>1, StoreElsewhere
  <2>5. ~gIsOverflow => gWrite - gRead < NUM_OF_BUFFER
    BY <1>3, <2>1 DEF OverflowsNow
  <2>6. LoadedIndex'
    BY <1>2, <1>3, <2>1, <2>2 DEF IInv, LoadedIndex
  <2>7. HeldFrameInRing'
    BY <1>2, <1>3, <2>1, <2>2 DEF IInv, HeldFrameInRing
  <2>8. ASSUME ~lapped' PROVE RingOrder'
    <3>1. RingOrder /\ gWrite - gRead < NUM_OF_BUFFER
      <4>1. ~(lapped \/ gWrite - gRead >= NUM_OF_BUFFER)
        BY <2>1, <2>8, Zenon
      <4> QED BY <1>3, <4>1 DEF IInv
    <3>2. (gWrite - gRead <= NUM_OF_BUFFER /\ heard <= produced)'
      BY <1>2, <1>3, <2>1, <2>2, <3>1 DEF RingOrder
    <3>3. \A i \in Indices : /\ gBuffer'[Slot(i)] = gBuffer[Slot(i)]
                             /\ gBuffer[Slot(i)] < produced + 1 /\ i < gWrite
      <4> TAKE i \in Indices
      <4>1. gBuffer[Slot(i)] \in 0 .. produced
        BY <1>1, <2>3, SlotContents
      <4>2. i < gWrite
        BY <1>3 DEF Indices
      <4> QED BY <1>3, <2>4, <3>1, <4>1, <4>2
    <3>4. (\A i, j \in Indices : i < j => gBuffer[Slot(i)] < gBuffer[Slot(j)])'
      <4> SUFFICES ASSUME NEW i \in Indices', NEW j \in Indices', i < j
                   PROVE  gBuffer'[Slot(i)] < gBuffer'[Slot(j)]
        OBVIOUS
      <4>1. i \in Indices
        BY <1>3, <2>3, <3>3
      <4>2. CASE j \in Indices
        BY <3>1, <3>3, <4>1, <4>2 DEF RingOrder
      <4>3. CASE j = gWrite
        BY <2>2, <3>3, <4>1, <4>3
      <4> QED BY <2>3, <4>2, <4>3
    <3>5. (\A i \in Indices : gBuffer[Slot(i)] > heard \/ (pc = "next" /\ i = gRead))'
      <4>1. produced + 1 > heard
        BY <1>3, <3>1 DEF RingOrder
      <4>2. \A i \in Indices : gBuffer'[Slot(i)] > heard \/ (pc = "next" /\ i = gRead)
        BY <3>1, <3>3 DEF RingOrder
      <4> QED BY <1>2, <2>1, <2>2, <2>3, <4>1, <4>2
    <3>6. pc \in {"recognise", "next"} => gRead \in Indices /\ pData = Slot(gRead)
      BY <1>3, <2>1, <2>8 DEF IInv, HeldFrameInRing, Indices
    <3>7. (pc = "next" => gBuffer[Slot(gRead)] = heard)'
      BY <1>2, <2>1, <3>1, <3>3, <3>6 DEF RingOrder
    <3>8. (pc \in {"recognise", "next"} => gBuffer[pData] = got)'
      BY <1>2, <3>1, <3>3, <3>6 DEF RingOrder
    <3> QED BY <3>2, <3>4, <3>5, <3>7, <3>8 DEF RingOrder
  <2>9. ASSUME ~gIsOverflow PROVE NoGap'
    <3>1. NoGap /\ gWrite - gRead < NUM_OF_BUFFER
      BY <2>5, <2>9 DEF IInv
    <3>2. (\A i \in Indices : gBuffer[Slot(i)] = produced - (gWrite - 1 - i))'
      <4> SUFFICES ASSUME NEW i \in Indices'
                   PROVE  gBuffer'[Slot(i)] = produced' - (gWrite' - 1 - i)
        OBVIOUS
      <4>1. CASE i \in Indices
        BY <1>3, <2>2, <2>3, <2>4, <3>1, <4>1 DEF NoGap
      <4>2. CASE i = gWrite
        BY <1>3, <2>2, <4>2
      <4> QED BY <2>3, <4>1, <4>2
    <3>3. (heard + (gWrite - gRead) = produced + (IF pc = "next" THEN 1 ELSE 0))'
      BY <1>2, <1>3, <2>1, <2>2, <3>1 DEF NoGap
    <3> QED BY <3>2, <3>3 DEF NoGap
  <2>10. FirstOverrunIsClean'
    BY <1>3, <2>1, <2>5 DEF IInv, FirstOverrunIsClean
  <2>11. gRead' <= gWrite' /\ NotStarted'
    BY <1>2, <1>3, <2>1, <2>2 DEF NotStarted
  <2> QED
    BY <1>1, <2>1, <2>6, <2>7, <2>8, <2>9, <2>10, <2>11 DEF IInv
<1> QED BY <1>4, <1>5, <1>6 DEF callback_on_record_data

LEMMA MainLoopStep == IInv /\ MainLoop => IInv'
<1> SUFFICES ASSUME IInv, MainLoop PROVE IInv'
  OBVIOUS
<1> USE RecorderAssumption
<1>1. TypeOK /\ TypeOK'
  BY TypeStep DEF IInv, Next
<1>2. /\ gWrite \in Nat /\ gRead \in Nat /\ produced \in Nat /\ heard \in Nat
      /\ tmp \in Nat /\ gRead <= gWrite /\ lapped \in BOOLEAN
  BY <1>1 DEF IInv, TypeOK
<1>3. CASE Recorder_Start
  <2>1. /\ gRead' = 0 /\ gWrite' = 0 /\ pc' = "get"
        /\ UNCHANGED <<gIsOverflow, gBuffer, tmp, pData, produced, got, heard, lapped>>
        /\ ~gIsOverflow /\ produced = 0 /\ heard = 0 /\ ~lapped
    BY <1>3 DEF Recorder_Start, IInv, NotStarted
  <2>2. Indices' = {}
    BY <2>1 DEF Indices
  <2>3. RingOrder'
    BY <2>1, <2>2 DEF RingOrder
  <2>4. NoGap'
    BY <2>1, <2>2 DEF NoGap
  <2> QED
    BY <1>1, <2>1, <2>3, <2>4
    DEF IInv, NotStarted, LoadedIndex, HeldFrameInRing, FirstOverrunIsClean
<1>4. CASE LoadIndex
  <2>1. /\ pc = "get" /\ UNCHANGED <<isrVars, gRead, gIsRunnning, pData, got, heard>>
        /\ (tmp' = gRead /\ pc' = "gotRead") \/ (tmp' = gWrite /\ pc' = "gotWrite")
    BY <1>4 DEF LoadIndex
  <2>2. RingOrder => RingOrder'
    BY <2>1 DEF RingOrder, Indices, isrVars, Slot
  <2>3. NoGap => NoGap'
    BY <2>1 DEF NoGap, Indices, isrVars, Slot
  <2> QED
    BY <1>1, <1>2, <2>1, <2>2, <2>3
    DEF IInv, NotStarted, LoadedIndex, HeldFrameInRing, FirstOverrunIsClean, isrVars
<1>5. CASE Recorder_GetBuffer
  <2> DEFINE r == IF pc = "gotRead" THEN tmp ELSE gRead
             w == IF pc = "gotRead" THEN gWrite ELSE tmp
  <2>1. /\ pc \in {"gotRead", "gotWrite"}
        /\ UNCHANGED <<isrVars, gRead, gIsRunnning, tmp, heard>>
    BY <1>5 DEF Recorder_GetBuffer
  <2>2. CASE pc' = "get" /\ UNCHANGED <<pData, got>>
    <3>1. RingOrder => RingOrder'
      BY <2>1, <2>2 DEF RingOrder, Indices, isrVars, Slot
    <3>2. NoGap => NoGap'
      BY <2>1, <2>2 DEF NoGap, Indices, isrVars, Slot
    <3> QED
      BY <1>1, <1>2, <2>1, <2>2, <3>1, <3>2
      DEF IInv, NotStarted, LoadedIndex, HeldFrameInRing, FirstOverrunIsClean, isrVars
  <2>3. CASE ~(r >= w) /\ pc' = "recognise" /\ pData' = Slot(r) /\ got' = gBuffer[Slot(r)]
    <3>1. gRead < gWrite /\ (lapped \/ r = gRead)
      <4>1. CASE pc = "gotWrite"
        BY <1>2, <2>1, <2>3, <4>1 DEF IInv, LoadedIndex
      <4>2. CASE pc = "gotRead" /\ tmp = gRead
        BY <1>2, <2>3, <4>2
      <4>3. CASE pc = "gotRead" /\ tmp > ResetAt /\ gRead = 0 /\ gWrite > 0
        BY <1>2, <2>3, <4>3 DEF IInv, RingOrder
      <4> QED BY <2>1, <4>1, <4>2, <4>3 DEF IInv, LoadedIndex
    <3>2. HeldFrameInRing'
      BY <2>1, <2>3, <3>1 DEF HeldFrameInRing, isrVars, Slot
    <3>3. RingOrder => RingOrder'
      BY <2>1, <2>3 DEF RingOrder, Indices, isrVars, Slot
    <3>4. NoGap => NoGap'
      BY <2>1, <2>3 DEF NoGap, Indices, isrVars, Slot
    <3> QED
      BY <1>1, <1>2, <2>1, <2>3, <3>2, <3>3, <3>4
      DEF IInv, NotStarted, LoadedIndex, FirstOverrunIsClean, isrVars
  <2> QED BY <1>5, <2>2, <2>3 DEF Recorder_GetBuffer
<1>6. CASE AddSample
  <2>1. /\ pc = "recognise" /\ pc' = "next" /\ heard' = gBuffer[pData]
        /\ UNCHANGED <<isrVars, gRead, gIsRunnning, tmp, pData, got>>
    BY <1>6 DEF AddSample
  <2>2. gRead < gWrite /\ gRead \in Indices /\ (~lapped => pData = Slot(gRead))
    BY <1>2, <2>1 DEF IInv, HeldFrameInRing, Indices
  <2>3. ASSUME ~lapped PROVE RingOrder'
    <3>1. heard' \in 0 .. produced
      BY <1>1, <1>2, <2>1, <2>2, <2>3, SlotContents
    <3>2. \A i \in Indices : i # gRead => gBuffer[Slot(i)] > heard'
      <4> SUFFICES ASSUME NEW i \in Indices, i # gRead PROVE gBuffer[Slot(i)] > heard'
        OBVIOUS
      <4>1. gRead < i /\ i \in Nat
        BY <1>2 DEF Indices
      <4>2. gBuffer[Slot(gRead)] < gBuffer[Slot(i)]
        BY <2>2, <2>3, <4>1 DEF IInv, RingOrder
      <4>3. gBuffer[Slot(i)] \in Nat /\ gBuffer[Slot(gRead)] \in Nat
        BY <1>1, <1>2, <4>1, SlotContents
      <4> QED BY <2>1, <2>2, <2>3, <4>2, <4>3
    <3>3. UNCHANGED <<gBuffer, gRead, gWrite, produced, Indices>>
      BY <2>1 DEF isrVars, Indices
    <3> QED
      BY <1>2, <2>1, <2>2, <2>3, <3>1, <3>2, <3>3 DEF RingOrder, IInv, Slot
  <2>4. ASSUME ~gIsOverflow PROVE NoGap'
    <3>1. NoGap /\ ~lapped
      BY <2>4 DEF IInv, FirstOverrunIsClean
    <3>2. heard' = produced - (gWrite - 1 - gRead)
      BY <2>1, <2>2, <3>1 DEF NoGap
    <3>3. UNCHANGED <<gBuffer, gRead, gWrite, produced, Indices>>
      BY <2>1 DEF isrVars, Indices
    <3> QED BY <1>2, <2>1, <3>1, <3>2, <3>3 DEF NoGap, Slot
  <2> QED
    BY <1>1, <1>2, <2>1, <2>2, <2>3, <2>4
    DEF IInv, NotStarted, LoadedIndex, HeldFrameInRing, FirstOverrunIsClean, isrVars
<1>7. CASE Recorder_NextBuffer
  <2>1. /\ pc = "next" /\ pc' = "get" /\ gRead < gWrite /\ gRead' = gRead + 1
        /\ UNCHANGED <<isrVars, gIsRunnning, tmp, pData, got, heard>>
    BY <1>2, <1>7 DEF Recorder_NextBuffer, IInv, HeldFrameInRing
  <2>2. UNCHANGED <<gBuffer, gWrite, produced, lapped, gIsOverflow>>
    BY <2>1 DEF isrVars
  <2>3. Indices' \subseteq Indices /\ gRead \notin Indices'
    BY <1>2, <2>1, <2>2 DEF Indices
  <2>4. ASSUME ~lapped PROVE RingOrder'
    <3>1. RingOrder
      BY <2>4 DEF IInv
    <3> QED BY <1>2, <2>1, <2>2, <2>3, <3>1 DEF RingOrder, Slot
  <2>5. ASSUME ~gIsOverflow PROVE NoGap'
    <3>1. NoGap
      BY <2>5 DEF IInv
    <3> QED BY <1>2, <2>1, <2>2, <2>3, <3>1 DEF NoGap, Slot
  <2> QED
    BY <1>1, <1>2, <2>1, <2>2, <2>4, <2>5
    DEF IInv, NotStarted, LoadedIndex, HeldFrameInRing, FirstOverrunIsClean
<1> QED BY <1>3, <1>4, <1>5, <1>6, <1>7 DEF MainLoop

LEMMA StutterStep == IInv /\ UNCHANGED vars => IInv'
BY DEF IInv, vars, isrVars, mainVars, TypeOK, NotStarted, LoadedIndex,
       HeldFrameInRing, FirstOverrunIsClean, RingOrder, NoGap, Indices, Slot

\* No interleaving of the interrupt with the main loop leaves the invariant.
THEOREM Invariance == Spec => []IInv
<1>1. IInv /\ [Next]_vars => IInv'
  BY InterruptStep, MainLoopStep, StutterStep DEF Next
<1> QED BY InitIInv, <1>1, PTL DEF Spec

\* Every variable keeps its type.
THEOREM TypeCorrect == Spec => []TypeOK
BY Invariance, PTL DEF IInv

\* The interrupt never changes the samples the recogniser is reading, until a
\* second overrun.
THEOREM HeldIntact == Spec => []HeldFrameIntact
<1>1. IInv => HeldFrameIntact
  BY DEF IInv, RingOrder, HeldFrameIntact
<1> QED BY <1>1, Invariance, PTL

\* The loop's frame stays inside the ring, whatever the interrupt does to the
\* indices meanwhile.
THEOREM HeldInRing == Spec => []HeldFrameInRing
BY Invariance, PTL DEF IInv

\* No frame that waits is overwritten before the overflow has been noticed.
THEOREM FirstOverrunClean == Spec => []FirstOverrunIsClean
BY Invariance, PTL DEF IInv

\* The recogniser hears every frame in recording order, and misses none before
\* the first overflow.
THEOREM HeardInOrder == Spec => InOrder
<1>1. IInv /\ [Next]_vars =>
        [(pc = "recognise" /\ pc' = "next" /\ ~lapped) =>
           (heard' > heard /\ (~gIsOverflow => heard' = heard + 1))]_vars
  <2> SUFFICES ASSUME IInv, Next, pc = "recognise", pc' = "next", ~lapped
               PROVE  heard' > heard /\ (~gIsOverflow => heard' = heard + 1)
    BY DEF vars
  <2>1. AddSample
    BY DEF Next, MainLoop, callback_on_record_data, mainVars, Recorder_Start,
           LoadIndex, Recorder_GetBuffer, Recorder_NextBuffer
  <2>2. gRead \in Indices /\ heard' = gBuffer[Slot(gRead)]
    BY <2>1 DEF AddSample, IInv, HeldFrameInRing, Indices, TypeOK
  <2>3. heard' > heard
    BY <2>2 DEF IInv, RingOrder
  <2>4. ASSUME ~gIsOverflow PROVE heard' = heard + 1
    BY <2>2, <2>4 DEF IInv, NoGap, TypeOK
  <2> QED BY <2>3, <2>4
<1> QED BY <1>1, Invariance, PTL DEF Spec, InOrder
-------------------------------------------------------------------------------
(* The ring implements the queue of AudioQueue. *)

\* The waiting frames, read off the ring.
LEMMA Stretch ==
  ASSUME NEW r \in Nat, NEW w \in Nat, r <= w,
         NEW b, \A i \in r .. w - 1 : b[Slot(i)] \in Nat
  PROVE  LET s == [k \in 1 .. w - r |-> b[Slot(r + k - 1)]]
         IN  s \in Seq(Nat) /\ Len(s) = w - r /\ (w = r => s = <<>>)
<1> DEFINE s == [k \in 1 .. w - r |-> b[Slot(r + k - 1)]]
<1>1. w - r \in Nat
  OBVIOUS
<1>2. \A k \in 1 .. w - r : b[Slot(r + k - 1)] \in Nat
  <2> TAKE k \in 1 .. w - r
  <2>1. r + k - 1 \in r .. w - 1
    OBVIOUS
  <2> QED BY <2>1
<1>3. s \in [1 .. w - r -> Nat]
  BY <1>2
<1>4. s \in Seq(Nat) /\ Len(s) = w - r
  BY <1>1, <1>3
<1>5. w = r => s = <<>>
  BY <1>4, EmptySeq
<1> QED BY <1>4, <1>5

\* Two sequences of frames with equal elements are equal.
LEMMA SameFrames ==
  ASSUME NEW s \in Seq(Nat), NEW t \in Seq(Nat), Len(s) = Len(t),
         \A k \in 1 .. Len(s) : s[k] = t[k]
  PROVE  s = t
BY SeqEqual

\* What the ring holds while no waiting frame has been overwritten.
LEMMA WaitingFrames ==
  ASSUME IInv, ~lapped
  PROVE  /\ Waiting \in Seq(Nat) /\ Len(Waiting) = gWrite - gRead
         /\ \A k \in 1 .. gWrite - gRead : Waiting[k] = gBuffer[Slot(gRead + k - 1)]
         /\ gWrite = gRead => Waiting = <<>>
         /\ gWrite > gRead =>
              /\ Waiting # <<>> /\ Head(Waiting) = gBuffer[Slot(gRead)]
              /\ Tail(Waiting) \in Seq(Nat) /\ Len(Tail(Waiting)) = gWrite - gRead - 1
              /\ \A k \in 1 .. gWrite - gRead - 1 : Tail(Waiting)[k] = Waiting[k + 1]
<1>1. gWrite \in Nat /\ gRead \in Nat /\ gRead <= gWrite /\ produced \in Nat
  BY DEF IInv, TypeOK
<1>2. \A i \in gRead .. gWrite - 1 : gBuffer[Slot(i)] \in Nat
  <2> TAKE i \in gRead .. gWrite - 1
  <2>1. i \in Nat /\ TypeOK
    BY <1>1 DEF IInv
  <2> HIDE DEF Slot
  <2> QED BY <1>1, <2>1, SlotContents
<1>3. /\ Waiting \in Seq(Nat) /\ Len(Waiting) = gWrite - gRead
      /\ gWrite = gRead => Waiting = <<>>
  BY <1>1, <1>2, Stretch DEF Waiting
<1>4. \A k \in 1 .. gWrite - gRead : Waiting[k] = gBuffer[Slot(gRead + k - 1)]
  BY DEF Waiting
<1>5. ASSUME gWrite > gRead
      PROVE  /\ Waiting # <<>> /\ Head(Waiting) = gBuffer[Slot(gRead)]
             /\ Tail(Waiting) \in Seq(Nat) /\ Len(Tail(Waiting)) = gWrite - gRead - 1
             /\ \A k \in 1 .. gWrite - gRead - 1 : Tail(Waiting)[k] = Waiting[k + 1]
  <2>1. Len(Waiting) > 0 /\ Waiting # <<>>
    BY <1>1, <1>3, <1>5
  <2>2. Head(Waiting) = Waiting[1]
    BY <1>3, <2>1
  <2>3. Waiting[1] = gBuffer[Slot(gRead + 1 - 1)] /\ gRead + 1 - 1 = gRead
    BY <1>1, <1>4, <1>5
  <2>4. /\ Tail(Waiting) \in Seq(Nat) /\ Len(Tail(Waiting)) = Len(Waiting) - 1
        /\ \A k \in 1 .. Len(Waiting) - 1 : Tail(Waiting)[k] = Waiting[k + 1]
    BY <1>3, <2>1
  <2> QED BY <1>3, <2>1, <2>2, <2>3, <2>4
<1> QED BY <1>3, <1>4, <1>5

LEMMA QueueInit == Init => Abstract!Init
<1> SUFFICES ASSUME Init PROVE Waiting = <<>>
  BY DEF Init, Abstract!Init
<1>1. IInv /\ ~lapped /\ gWrite = gRead
  BY InitIInv DEF Init
<1> QED BY <1>1, WaitingFrames

\* An interrupt is a Put, the one DropBurst, the Break, or lost to a broken queue.
LEMMA QueueInterrupt ==
  ASSUME IInv, IInv', callback_on_record_data
  PROVE  Abstract!Next
<1> USE RecorderAssumption
<1>1. /\ produced < MaxFrames /\ heard' = heard
      /\ heard \in 0 .. produced /\ produced \in Nat
      /\ gWrite \in Nat /\ gRead \in Nat /\ gRead <= gWrite /\ TypeOK
      /\ lapped \in BOOLEAN /\ gIsOverflow \in BOOLEAN
  BY DEF IInv, TypeOK, callback_on_record_data, mainVars
<1>2. ASSUME ~lapped
      PROVE  /\ Waiting \in Seq(Nat) /\ Len(Waiting) = gWrite - gRead
             /\ gWrite - gRead <= NUM_OF_BUFFER
  BY <1>2, WaitingFrames DEF IInv, RingOrder
<1>3. ASSUME ~lapped'
      PROVE  /\ Waiting' \in Seq(Nat) /\ Len(Waiting') = gWrite' - gRead'
             /\ \A k \in 1 .. gWrite' - gRead' : Waiting'[k] = gBuffer'[Slot(gRead' + k - 1)]
  <2>1. (IInv /\ ~lapped =>
          /\ Waiting \in Seq(Nat) /\ Len(Waiting) = gWrite - gRead
          /\ \A k \in 1 .. gWrite - gRead : Waiting[k] = gBuffer[Slot(gRead + k - 1)])'
    BY WaitingFrames, PTL
  <2> QED BY <1>3, <2>1
<1>4. ASSUME NEW w \in Nat, Store(w)
      PROVE  /\ gWrite' = w + 1 /\ gBuffer'[Slot(w)] = produced + 1
             /\ produced' = produced + 1
  BY <1>1, <1>4, StoreHere
<1>5. CASE FirstOverflow
  <2>1. /\ Store(gRead + 1) /\ gRead' = gRead /\ ~lapped /\ ~lapped' /\ ~gIsOverflow
        /\ gIsOverflow' = TRUE /\ lapped' = lapped /\ gWrite - gRead = NUM_OF_BUFFER
    BY <1>1, <1>2, <1>5 DEF FirstOverflow, OverflowsNow, IInv, FirstOverrunIsClean
  <2>2. gWrite' = gRead + 2 /\ gBuffer'[Slot(gRead + 1)] = produced + 1 /\ produced' = produced + 1
    BY <1>1, <1>4, <2>1
  <2>3. gBuffer'[Slot(gRead)] = gBuffer[Slot(gRead)]
    BY <1>1, <2>1, StoreElsewhere
  <2>4. Head(Waiting) = gBuffer[Slot(gRead)] /\ Head(Waiting) \in Nat
    BY <1>1, <1>2, <2>1, WaitingFrames
  <2>5. Waiting' = <<Head(Waiting), produced + 1>>
    <3> DEFINE t == <<Head(Waiting), produced + 1>>
    <3>1. t \in Seq(Nat) /\ Len(t) = 2
      BY <1>1, <2>4
    <3>2. Waiting' \in Seq(Nat) /\ Len(Waiting') = 2
      BY <1>1, <1>3, <2>1, <2>2
    <3>3. Waiting'[1] = t[1]
      <4>1. Waiting'[1] = gBuffer'[Slot(gRead + 1 - 1)] /\ gRead + 1 - 1 = gRead
        BY <1>1, <1>3, <2>1, <2>2
      <4> QED BY <2>3, <2>4, <4>1
    <3>4. Waiting'[2] = t[2]
      <4>1. Waiting'[2] = gBuffer'[Slot(gRead + 2 - 1)] /\ gRead + 2 - 1 = gRead + 1
        BY <1>1, <1>3, <2>1, <2>2
      <4> QED BY <2>2, <4>1
    <3> HIDE DEF t
    <3>5. \A k \in 1 .. Len(t) : Waiting'[k] = t[k]
      <4> TAKE k \in 1 .. Len(t)
      <4>1. k = 1 \/ k = 2
        BY <3>1
      <4> QED BY <3>3, <3>4, <4>1
    <3>6. Waiting' = t
      BY <3>1, <3>2, <3>5, SameFrames
    <3> QED BY <3>6 DEF t
  <2>6. Abstract!DropBurst
    BY <1>1, <1>2, <2>1, <2>2, <2>5 DEF Abstract!DropBurst
  <2> QED BY <2>6 DEF Abstract!Next
<1>6. CASE RestartIndices
  <2>1. /\ Store(0) /\ gRead' = 0 /\ lapped' = lapped /\ gIsOverflow' = gIsOverflow
        /\ gRead = gWrite
    BY <1>6 DEF RestartIndices, RestartsNow
  <2>2. gWrite' = 1 /\ gBuffer'[Slot(0)] = produced + 1 /\ produced' = produced + 1
    BY <1>4, <2>1
  <2>3. CASE lapped
    <3>1. Waiting' = Waiting
      BY <2>1, <2>3 DEF Waiting
    <3>2. Abstract!Broken
      BY <1>1, <2>1, <2>2, <2>3, <3>1 DEF Abstract!Broken
    <3> QED BY <3>2 DEF Abstract!Next
  <2>4. CASE ~lapped
    <3>1. Waiting = <<>> /\ Len(Waiting) = 0
      BY <1>1, <2>1, <2>4, WaitingFrames
    <3>2. Waiting' \in Seq(Nat) /\ Len(Waiting') = 1 /\ Waiting'[1] = gBuffer'[Slot(0 + 1 - 1)]
      BY <1>3, <2>1, <2>2, <2>4
    <3>3. Waiting'[1] = produced + 1
      BY <2>2, <3>2
    <3> DEFINE t == Append(Waiting, produced + 1)
    <3>4. t \in Seq(Nat) /\ Len(t) = 1 /\ t[1] = produced + 1
      BY <1>1, <3>1
    <3> HIDE DEF t
    <3>5. \A k \in 1 .. Len(t) : Waiting'[k] = t[k]
      BY <3>3, <3>4
    <3>6. Waiting' = t
      BY <3>2, <3>4, <3>5, SameFrames
    <3>7. Abstract!Put
      BY <1>1, <2>1, <2>2, <2>4, <3>1, <3>6 DEF Abstract!Put, t
    <3> QED BY <3>7 DEF Abstract!Next
  <2> QED BY <1>1, <2>3, <2>4
<1>7. CASE AppendFrame
  <2>1. /\ Store(gWrite) /\ gRead' = gRead /\ gIsOverflow' = gIsOverflow
        /\ lapped' = (lapped \/ gWrite - gRead >= NUM_OF_BUFFER)
        /\ gWrite - gRead >= NUM_OF_BUFFER => gIsOverflow
    BY <1>1, <1>7 DEF AppendFrame, OverflowsNow
  <2>2. /\ gWrite' = gWrite + 1 /\ gBuffer'[Slot(gWrite)] = produced + 1
        /\ produced' = produced + 1
    BY <1>1, <1>4, <2>1
  <2>3. CASE lapped
    <3>1. Waiting' = Waiting /\ lapped'
      BY <2>1, <2>3 DEF Waiting
    <3>2. Abstract!Broken
      BY <1>1, <2>1, <2>2, <2>3, <3>1 DEF Abstract!Broken
    <3> QED BY <3>2 DEF Abstract!Next
  <2>4. CASE ~lapped /\ gWrite - gRead >= NUM_OF_BUFFER
    <3>1. Waiting' = <<>> /\ lapped' /\ gIsOverflow
      BY <2>1, <2>4 DEF Waiting
    <3>2. Len(Waiting) = NUM_OF_BUFFER
      BY <1>1, <1>2, <2>4
    <3>3. Abstract!Break
      BY <1>1, <2>1, <2>2, <2>4, <3>1, <3>2 DEF Abstract!Break
    <3> QED BY <3>3 DEF Abstract!Next
  <2>5. CASE ~lapped /\ gWrite - gRead < NUM_OF_BUFFER
    <3>1. ~lapped'
      BY <1>1, <2>1, <2>5
    <3>2. Waiting' = Append(Waiting, produced + 1)
      <4> DEFINE n == gWrite - gRead
                 t == Append(Waiting, produced + 1)
      <4>1. Waiting \in Seq(Nat) /\ Len(Waiting) = n /\ n \in Nat
        BY <1>1, <1>2, <2>5
      <4>2. t \in Seq(Nat) /\ Len(t) = n + 1
            /\ t[n + 1] = produced + 1 /\ \A k \in 1 .. n : t[k] = Waiting[k]
        <5> HIDE DEF n
        <5> QED BY <1>1, <4>1
      <4>3. Waiting' \in Seq(Nat) /\ Len(Waiting') = n + 1
        BY <1>1, <1>3, <2>1, <2>2, <3>1
      <4>4. \A k \in 1 .. n + 1 : Waiting'[k] = t[k]
        <5> HIDE DEF t
        <5> TAKE k \in 1 .. n + 1
        <5>1. Waiting'[k] = gBuffer'[Slot(gRead + k - 1)]
          BY <1>1, <1>3, <2>1, <2>2, <3>1
        <5>2. CASE k = n + 1
          <6>1. gRead + k - 1 = gWrite
            BY <1>1, <5>2
          <6> QED BY <2>2, <4>2, <5>1, <5>2, <6>1
        <5>3. CASE k \in 1 .. n
          <6> DEFINE i == gRead + k - 1
          <6>1. i \in Nat /\ i # gWrite /\ i < gWrite + NUM_OF_BUFFER /\ gWrite < i + NUM_OF_BUFFER
            BY <1>1, <2>5, <5>3
          <6>2. Waiting[k] = gBuffer[Slot(i)]
            BY <2>5, <5>3, WaitingFrames
          <6> HIDE DEF i
          <6>3. gBuffer'[Slot(i)] = gBuffer[Slot(i)]
            BY <1>1, <2>1, <6>1, StoreElsewhere
          <6> QED BY <4>2, <5>1, <5>3, <6>2, <6>3 DEF i
        <5> QED BY <4>1, <5>2, <5>3
      <4> HIDE DEF n, t
      <4>5. Waiting' = t
        BY <4>2, <4>3, <4>4, SameFrames
      <4> QED BY <4>5 DEF t
    <3>3. Len(Waiting) < NUM_OF_BUFFER
      BY <1>2, <2>5
    <3>4. Abstract!Put
      BY <1>1, <2>1, <2>2, <2>5, <3>1, <3>2, <3>3 DEF Abstract!Put
    <3> QED BY <3>4 DEF Abstract!Next
  <2> QED BY <1>1, <2>3, <2>4, <2>5
<1> QED BY <1>5, <1>6, <1>7 DEF callback_on_record_data

\* A step of the main loop is a Deliver, a Release, or nothing to the queue.
LEMMA QueueMainLoop ==
  ASSUME IInv, IInv', MainLoop
  PROVE  Abstract!Next \/ UNCHANGED Abstract!vars
<1> USE RecorderAssumption
<1>1. /\ heard \in 0 .. produced /\ produced \in Nat
      /\ gWrite \in Nat /\ gRead \in Nat /\ gRead <= gWrite /\ TypeOK
      /\ heard' \in 0 .. produced' /\ lapped \in BOOLEAN
  BY DEF IInv, TypeOK
<1>2. CASE Recorder_Start
  <2>1. /\ gWrite = 0 /\ gRead = 0 /\ gWrite' = 0 /\ gRead' = 0
        /\ UNCHANGED <<gBuffer, produced, heard, gIsOverflow, lapped>>
    BY <1>2 DEF Recorder_Start, IInv, NotStarted
  <2> QED BY <2>1 DEF Abstract!vars, Waiting
<1>3. CASE LoadIndex \/ Recorder_GetBuffer
  <2>1. UNCHANGED <<isrVars, gRead, heard>>
    BY <1>3 DEF LoadIndex, Recorder_GetBuffer
  <2> QED BY <2>1 DEF isrVars, Abstract!vars, Waiting
<1>4. CASE AddSample
  <2>1. /\ UNCHANGED <<isrVars, gRead>> /\ pc = "recognise" /\ heard' = gBuffer[pData]
    BY <1>4 DEF AddSample
  <2>2. Waiting' = Waiting /\ UNCHANGED <<produced, gIsOverflow, lapped>>
    BY <2>1 DEF Waiting, isrVars
  <2>3. CASE lapped
    <3>1. Abstract!Broken
      BY <1>1, <2>2, <2>3 DEF Abstract!Broken
    <3> QED BY <3>1 DEF Abstract!Next
  <2>4. CASE ~lapped
    <3>1. gRead < gWrite /\ pData = Slot(gRead)
      BY <2>1, <2>4 DEF IInv, HeldFrameInRing
    <3>2. Waiting # <<>> /\ heard' = Head(Waiting)
      BY <1>1, <2>1, <2>4, <3>1, WaitingFrames
    <3>3. Abstract!Deliver
      BY <2>2, <2>4, <3>2 DEF Abstract!Deliver
    <3> QED BY <3>3 DEF Abstract!Next
  <2> QED BY <1>1, <2>3, <2>4
<1>5. CASE Recorder_NextBuffer
  <2>1. /\ UNCHANGED <<isrVars, heard>> /\ pc = "next" /\ gRead < gWrite /\ gRead' = gRead + 1
    BY <1>1, <1>5 DEF Recorder_NextBuffer, IInv, HeldFrameInRing
  <2>2. UNCHANGED <<gWrite, gBuffer, produced, gIsOverflow, lapped>>
    BY <2>1 DEF isrVars
  <2>3. CASE lapped
    BY <2>1, <2>2, <2>3 DEF Waiting, Abstract!vars
  <2>4. CASE ~lapped
    <3>1. heard = Head(Waiting) /\ Waiting # <<>>
      BY <1>1, <2>1, <2>4, WaitingFrames DEF IInv, RingOrder
    <3>2. Waiting' = Tail(Waiting)
      <4>1. (IInv /\ ~lapped =>
              /\ Waiting \in Seq(Nat) /\ Len(Waiting) = gWrite - gRead
              /\ \A k \in 1 .. gWrite - gRead : Waiting[k] = gBuffer[Slot(gRead + k - 1)])'
        BY WaitingFrames, PTL
      <4>2. /\ Waiting' \in Seq(Nat) /\ Len(Waiting') = gWrite - (gRead + 1)
            /\ \A k \in 1 .. gWrite - (gRead + 1) : Waiting'[k] = gBuffer[Slot(gRead + 1 + k - 1)]
        BY <2>1, <2>2, <2>4, <4>1
      <4>3. /\ Tail(Waiting) \in Seq(Nat) /\ Len(Tail(Waiting)) = gWrite - gRead - 1
            /\ \A k \in 1 .. gWrite - gRead - 1 : Tail(Waiting)[k] = Waiting[k + 1]
            /\ \A k \in 1 .. gWrite - gRead : Waiting[k] = gBuffer[Slot(gRead + k - 1)]
        BY <1>1, <2>1, <2>4, WaitingFrames
      <4>4. gWrite - (gRead + 1) = gWrite - gRead - 1
        BY <1>1
      <4>5. \A k \in 1 .. gWrite - gRead - 1 : Waiting'[k] = Tail(Waiting)[k]
        <5> TAKE k \in 1 .. gWrite - gRead - 1
        <5>1. k + 1 \in 1 .. gWrite - gRead /\ gRead + (k + 1) - 1 = gRead + 1 + k - 1
          BY <1>1
        <5> QED BY <4>2, <4>3, <4>4, <5>1
      <4> QED BY <4>2, <4>3, <4>4, <4>5, SameFrames
    <3>3. Abstract!Release
      BY <2>1, <2>2, <2>4, <3>1, <3>2 DEF Abstract!Release
    <3> QED BY <3>3 DEF Abstract!Next
  <2> QED BY <1>1, <2>3, <2>4
<1> QED BY <1>2, <1>3, <1>4, <1>5 DEF MainLoop

\* Under every interleaving of interrupt and loop the ring of recorder.c is the
\* bounded queue of AudioQueue.
THEOREM RingIsQueue == Spec => ImplementsAudioQueue
<1>1. IInv /\ IInv' /\ [Next]_vars => [Abstract!Next]_(Abstract!vars)
  <2> SUFFICES ASSUME IInv, IInv', [Next]_vars
               PROVE  Abstract!Next \/ UNCHANGED Abstract!vars
    OBVIOUS
  <2>1. CASE callback_on_record_data
    BY <2>1, QueueInterrupt
  <2>2. CASE MainLoop
    BY <2>2, QueueMainLoop
  <2>3. CASE UNCHANGED vars
    BY <2>3 DEF vars, isrVars, mainVars, Abstract!vars, Waiting
  <2> QED BY <2>1, <2>2, <2>3 DEF Next
<1> QED BY QueueInit, <1>1, Invariance, PTL DEF Spec, ImplementsAudioQueue, Abstract!Spec
===============================================================================
