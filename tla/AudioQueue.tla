------------------------------ MODULE AudioQueue ------------------------------
(***************************************************************************)
(* What the recorder promises the speech recogniser: a queue of audio      *)
(* frames, filled by the microphone interrupt and emptied by the main      *)
(* loop.  The frame at the head stays available until it is released.  If   *)
(* the queue is full the recorder gives up the waiting frames behind the    *)
(* head, once; a second overrun breaks the promise for good.               *)
(***************************************************************************)
EXTENDS Naturals, Sequences

CONSTANTS NUM_OF_BUFFER,  (* frames the queue can hold                     *)
          MaxFrames       (* bound: frames the microphone delivers         *)

VARIABLES queue,     (* numbers of the frames waiting, oldest first        *)
          produced,  (* number of the newest frame the microphone made     *)
          heard,     (* number of the frame last given to the recogniser   *)
          dropped,   (* TRUE once a burst has been dropped                 *)
          broken     (* TRUE once an overrun found the drop already spent  *)

vars == <<queue, produced, heard, dropped, broken>>

Init ==
  /\ queue = <<>>
  /\ produced = 0
  /\ heard = 0
  /\ dropped = FALSE
  /\ broken = FALSE

Put ==
  /\ ~broken
  /\ produced < MaxFrames
  /\ Len(queue) < NUM_OF_BUFFER
  /\ produced' = produced + 1
  /\ queue' = Append(queue, produced + 1)
  /\ UNCHANGED <<heard, dropped, broken>>

DropBurst ==
  /\ ~broken /\ ~dropped
  /\ produced < MaxFrames
  /\ Len(queue) = NUM_OF_BUFFER
  /\ produced' = produced + 1
  /\ queue' = <<Head(queue), produced + 1>>
  /\ dropped' = TRUE
  /\ UNCHANGED <<heard, broken>>

Deliver ==
  /\ ~broken
  /\ queue # <<>>
  /\ heard' = Head(queue)
  /\ UNCHANGED <<queue, produced, dropped, broken>>

Release ==
  /\ ~broken
  /\ queue # <<>>
  /\ heard = Head(queue)
  /\ queue' = Tail(queue)
  /\ UNCHANGED <<produced, heard, dropped, broken>>

Break ==
  /\ ~broken /\ dropped
  /\ Len(queue) = NUM_OF_BUFFER
  /\ broken' = TRUE
  /\ produced' = produced + 1
  /\ queue' = <<>>
  /\ UNCHANGED <<heard, dropped>>

Broken ==
  /\ broken
  /\ produced' \in {produced, produced + 1}
  /\ heard' \in 0 .. produced
  /\ UNCHANGED <<queue, dropped, broken>>

Next == Put \/ DropBurst \/ Deliver \/ Release \/ Break \/ Broken

Spec == Init /\ [][Next]_vars
===============================================================================
