--------------------------------- MODULE EzSio ---------------------------------
(***************************************************************************)
(* The serial driver under the WiFi and the Bluetooth module: two byte      *)
(* rings between the program and the interrupt of one UART.                 *)
(*                                                                         *)
(* ez_sio_read and ez_sio_write run with the CPU locked, so each is one      *)
(* action; the interrupt handler is a loop (uart_isr_proc) that goes on as   *)
(* long as the UART reports a cause, one action for each round of it.  The  *)
(* bytes sent either way are numbered, so that a byte lost, doubled or out   *)
(* of order shows.                                                          *)
(***************************************************************************)
EXTENDS RingBuffer

CONSTANTS
  TxSize, RxSize,  (* tx_bufsz and rx_bufsz: 128 and 512, or 200 and 200   *)
  Depth,           (* bytes in either FIFO of the UART: 16                 *)
  ReadSizes,       (* the 'cnt' the program gives ez_sio_read              *)
  WriteSizes,      (* the 'cnt' it gives ez_sio_write                      *)
  MaxIn, MaxOut    (* bounds: bytes that arrive, bytes the program writes  *)

ASSUME EzSioAssumption ==
  /\ TxSize \in Nat \ {0} /\ RxSize \in Nat \ {0} /\ Depth \in Nat \ {0}
  /\ ReadSizes \subseteq Nat /\ WriteSizes \subseteq Nat \ {0}
  /\ MaxIn \in Nat /\ MaxOut \in Nat

VARIABLES
  at,              (* who has the CPU: "main", "isr" or its "tx" callback  *)
  snd_rb, rcv_rb,  (* the two rings                                        *)
  txInt,           (* the transmit interrupt is enabled (IER, 0x82)        *)
  hwTx, hwRx,      (* the UART's FIFOs                                     *)
  arrived,         (* bytes that came over the line                        *)
  overrun,         (* history: those the full FIFO of the UART lost        *)
  got,             (* history: what ez_sio_read returned                   *)
  written,         (* bytes the program gave ez_sio_write                  *)
  accepted,        (* history: those it counted in its return value        *)
  line             (* history: bytes that went out                         *)

rxVars == <<rcv_rb, hwRx, arrived, overrun, got>>
txVars == <<snd_rb, txInt, hwTx, written, accepted, line>>
vars == <<at, rxVars, txVars>>

\* ez_sio_open: empty rings, only the receive interrupt enabled.
Init ==
  /\ at = "main"
  /\ snd_rb = rb_init(TxSize, 0) /\ rcv_rb = rb_init(RxSize, 0)
  /\ txInt = FALSE /\ hwTx = <<>> /\ hwRx = <<>>
  /\ arrived = 0 /\ overrun = {} /\ got = <<>>
  /\ written = 0 /\ accepted = <<>> /\ line = <<>>

-------------------------------------------------------------------------------
(* The line *)

\* A byte comes in; the UART has no flow control and loses what does not fit.
Arrive ==
  /\ arrived < MaxIn
  /\ arrived' = arrived + 1
  /\ IF Len(hwRx) < Depth
     THEN hwRx' = Append(hwRx, arrived + 1) /\ UNCHANGED overrun
     ELSE overrun' = overrun \cup {arrived + 1} /\ UNCHANGED hwRx
  /\ UNCHANGED <<at, rcv_rb, got, txVars>>

Transmit ==
  /\ hwTx # <<>>
  /\ line' = Append(line, Head(hwTx)) /\ hwTx' = Tail(hwTx)
  /\ UNCHANGED <<at, rxVars, snd_rb, txInt, written, accepted>>

-------------------------------------------------------------------------------
(* The program, outside the interrupt *)

\* UART_CMD_GET_TXAVAIL.  The whole FIFO if the transmitter is idle.  Otherwise
\* it goes by a bit that means "FIFO full" with the transmit interrupt enabled
\* and "FIFO empty" without.
TxAvail ==
  IF hwTx = <<>> THEN {Depth, IF txInt THEN 1 ELSE 0}
  ELSE {IF txInt /\ Len(hwTx) = Depth THEN 0 ELSE 1}

\* Mutant of DirectAvail: whether or not older bytes wait in the ring.
DirectAlways == TxAvail
\* The room for bytes that need not go through the ring.
DirectAvail == IF rb_isempty(snd_rb) THEN TxAvail ELSE {0}

\* Mutant of EnablesTxInt: not when the UART took a part of them.
EnablesIfNoneDirect(direct, cnt) == direct = 0
\* The transmit interrupt is for what the UART did not take at once.
EnablesTxInt(direct, cnt) == direct < cnt

\* Bytes go straight to the UART while the ring is empty, the rest behind them
\* into the ring.  uart_write waits for room in the UART's FIFO.
ez_sio_write(cnt) ==
  /\ at = "main" /\ written + cnt <= MaxOut
  /\ \E wr_avail \in DirectAvail :
       LET buf == [i \in 1 .. cnt |-> written + i]
           direct == IF wr_avail > cnt THEN cnt ELSE wr_avail
           rest == SubSeq(buf, direct + 1, cnt)
           wr_cnt == direct + PushCount(snd_rb, cnt - direct)
       IN /\ Len(hwTx) + direct <= Depth
          /\ hwTx' = hwTx \o SubSeq(buf, 1, direct)
          /\ snd_rb' = rb_push(snd_rb, rest)
          /\ txInt' = (txInt \/ EnablesTxInt(direct, cnt))
          /\ accepted' = accepted \o SubSeq(buf, 1, wr_cnt)
  /\ written' = written + cnt
  /\ UNCHANGED <<at, rxVars, line>>

ez_sio_read(cnt) ==
  /\ at = "main"
  /\ got' = got \o Popped(rcv_rb, cnt)
  /\ rcv_rb' = rb_pop(rcv_rb, cnt)
  /\ UNCHANGED <<at, hwRx, arrived, overrun, txVars>>

-------------------------------------------------------------------------------
(* The interrupt *)

\* The causes the UART reports, the first before the second.
RxCause == hwRx # <<>>
TxCause == txInt /\ hwTx = <<>>

Interrupt ==
  /\ at = "main" /\ (RxCause \/ TxCause)
  /\ at' = "isr"
  /\ UNCHANGED <<rxVars, txVars>>

\* Mutant of sio_rx_callback: the byte is fetched even if there is no place for it.
rx_callback_drops ==
  /\ at = "isr" /\ RxCause
  /\ rcv_rb' = rb_push(rcv_rb, <<Head(hwRx)>>) /\ hwRx' = Tail(hwRx)
  /\ UNCHANGED <<at, arrived, overrun, got, txVars>>
\* GET_RXAVAIL never says more than one byte.  With the ring
\* full the byte stays in the UART, and the UART goes on reporting it.
sio_rx_callback ==
  /\ at = "isr" /\ RxCause
  /\ IF rb_isfull(rcv_rb) THEN UNCHANGED <<rcv_rb, hwRx>>
     ELSE rcv_rb' = rb_push(rcv_rb, <<Head(hwRx)>>) /\ hwRx' = Tail(hwRx)
  /\ UNCHANGED <<at, arrived, overrun, got, txVars>>

EnterTxCallback ==
  /\ at = "isr" /\ ~RxCause /\ TxCause
  /\ at' = "tx"
  /\ UNCHANGED <<rxVars, txVars>>

\* Mutant of DisablesTxInt: the statement stands outside its 'else'.
DisablesEachRound(wr_avail, poped_cnt) == wr_avail > 0
\* Mutant of DisablesTxInt: the statement is missing.
DisablesNever(wr_avail, poped_cnt) == FALSE
\* A round of the callback that finds the ring empty ends the transmission.
DisablesTxInt(wr_avail, poped_cnt) == wr_avail > 0 /\ poped_cnt = 0

\* A round of the loop of sio_tx_callback.
sio_tx_callback ==
  /\ at = "tx"
  /\ \E wr_avail \in TxAvail :
       LET poped_cnt == PopCount(snd_rb, wr_avail)
       IN /\ Len(hwTx) + poped_cnt <= Depth
          /\ hwTx' = hwTx \o Popped(snd_rb, wr_avail)
          /\ snd_rb' = rb_pop(snd_rb, wr_avail)
          /\ txInt' = (txInt /\ ~DisablesTxInt(wr_avail, poped_cnt))
          /\ at' = IF wr_avail > 0 /\ poped_cnt = wr_avail THEN "tx" ELSE "isr"
  /\ UNCHANGED <<rxVars, written, accepted, line>>

ReturnFromInterrupt ==
  /\ at = "isr" /\ ~RxCause /\ ~TxCause
  /\ at' = "main"
  /\ UNCHANGED <<rxVars, txVars>>

Isr ==
  \/ sio_rx_callback
  \/ EnterTxCallback
  \/ sio_tx_callback
  \/ ReturnFromInterrupt

Next ==
  \/ Arrive
  \/ Transmit
  \/ \E cnt \in WriteSizes : ez_sio_write(cnt)
  \/ \E cnt \in ReadSizes : ez_sio_read(cnt)
  \/ Interrupt
  \/ Isr

\* The line sends what the UART holds, and a pending interrupt is taken and
\* worked on; nothing is assumed of the program or of what arrives.
Spec ==
  /\ Init /\ [][Next]_vars
  /\ WF_vars(Transmit) /\ WF_vars(Interrupt) /\ WF_vars(Isr)

-------------------------------------------------------------------------------
(* Properties *)

\* 'avail' and the two indices of a ring tell the same story.
Sound(rb) ==
  /\ rb.avail \in 0 .. rb.size
  /\ rb.wridx \in 0 .. rb.size /\ rb.rdidx \in 0 .. rb.size
  /\ (rb.rdidx + Used(rb)) % rb.size = rb.wridx % rb.size

SerialTypeOK ==
  /\ at \in {"main", "isr", "tx"} /\ txInt \in BOOLEAN
  /\ Sound(snd_rb) /\ snd_rb.size = TxSize
  /\ Sound(rcv_rb) /\ rcv_rb.size = RxSize
  /\ Len(hwTx) <= Depth /\ Len(hwRx) <= Depth

\* What the program has read, what waits in the ring and what waits in the UART.
Received == got \o Contents(rcv_rb) \o hwRx

\* sio_rx_callback and ez_sio_read: these are together what arrived, in order, each
\* byte once, but for those the UART had no room for: the ring itself loses nothing.
ReceivedInOrder ==
  /\ {Received[i] : i \in 1 .. Len(Received)} = (1 .. arrived) \ overrun
  /\ \A i, j \in 1 .. Len(Received) : i < j => Received[i] < Received[j]

\* The bytes ez_sio_write said it took leave in the order they were written,
\* whether they went straight to the UART or through the ring.
SentInOrder == line \o hwTx \o Contents(snd_rb) = accepted

\* No byte waits in the ring with nothing to fetch it: the enabling of the
\* transmit interrupt by the program and its disabling by the callback do not
\* cross.
NoStrandedByte == ~rb_isempty(snd_rb) => txInt

\* The UART has a byte for a full ring.
Stuck == at = "isr" /\ RxCause /\ rb_isfull(rcv_rb)

\* The handler returns to the program unless it met a full receive ring.
InterruptEnds == (at # "main") ~> (at = "main" \/ Stuck)

\* A byte ez_sio_write took goes out in the end, unless the handler met a full
\* receive ring.
AcceptedIsSent ==
  \A b \in 1 .. MaxOut :
    (\E i \in 1 .. Len(accepted) : accepted[i] = b)
      ~> (Stuck \/ \E i \in 1 .. Len(line) : line[i] = b)

\* dev_uart.h says of GET_RXAVAIL that a callback can use it to read without
\* blocking: then the handler returns, whether or not the program reads.
NonBlockedRead == (at # "main") ~> (at = "main")
===============================================================================
