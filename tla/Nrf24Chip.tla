------------------------------ MODULE Nrf24Chip ------------------------------
(***************************************************************************)
(* The nRF24L01 transceiver, as far as its two drivers depend on it: the   *)
(* receive FIFO, the RX_DR interrupt flag and whether the chip listens     *)
(* (PRX mode with CE high).  The chip is hardware, it is not in the        *)
(* repository; every operator says which access of the drivers it answers. *)
(*                                                                         *)
(* RX_DR is set by an arriving payload and only ever cleared by writing    *)
(* STATUS: it says nothing of what the FIFO holds, which is the source of  *)
(* most of the trouble the drivers can get into.                           *)
(***************************************************************************)
EXTENDS RfTestPacket, Sequences

CONSTANT Depth          \* payloads the receive FIFO holds: 3 in the chip

ASSUME DepthAssumption == Depth \in Nat \ {0}

NoPipe == 7             \* RX_P_NO when the FIFO is empty

Fifos == {q \in Seq(Frame) : Len(q) <= Depth}

Chips == [fifo : Fifos, dr : BOOLEAN, prx : BOOLEAN]

PoweredOn == [fifo |-> <<>>, dr |-> FALSE, prx |-> FALSE]

\* A payload comes in from the air.  A full FIFO takes no more.
CanReceive(c) == c.prx /\ Len(c.fifo) < Depth
Arrival(c, f) == [c EXCEPT !.fifo = Append(@, f), !.dr = TRUE]

\* R_REGISTER of FIFO_STATUS and of STATUS.
RxEmpty(c) == c.fifo = <<>>
HeadPipe(c) == IF RxEmpty(c) THEN NoPipe ELSE Head(c.fifo).pipe

\* R_RX_PAYLOAD hands out the oldest payload and frees its place; on an empty
\* FIFO it hands out bytes that nobody sent.
Payload(c) == IF RxEmpty(c) THEN Blank ELSE Head(c.fifo)
Popped(c) == [c EXCEPT !.fifo = IF RxEmpty(c) THEN @ ELSE Tail(@)]

\* W_REGISTER of STATUS with the three interrupt bits, FLUSH_RX, and the CE
\* pin (with CONFIG).
IrqsCleared(c) == [c EXCEPT !.dr = FALSE]
RxFlushed(c)   == [c EXCEPT !.fifo = <<>>]
Listening(c)   == [c EXCEPT !.prx = TRUE]
Silent(c)      == [c EXCEPT !.prx = FALSE]
=============================================================================
