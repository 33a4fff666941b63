------------------------------ MODULE RpDriver ------------------------------
(***************************************************************************)
(* The receiving side of the RP2040's radio driver                         *)
(* (firmware/src/nrf24_radio.c) under the loop that calls it: each turn    *)
(* sends at most one packet and then polls once with nrf24_radio_recv_any. *)
(*                                                                         *)
(* Every SPI access is a step of its own, so a payload can arrive between  *)
(* any two of them.  What the code does with CE low is one step: the chip  *)
(* takes nothing in meanwhile.  The RP2040 may be reset at any place; the  *)
(* chip keeps its power, its FIFO and its flags.                           *)
(***************************************************************************)
EXTENDS Nrf24Chip

CONSTANTS
    Traffic,       \* the payloads that arrive
    None           \* no payload in hand

ASSUME TrafficAssumption == Traffic \subseteq Frame /\ None \notin Frame

VARIABLES
    chip,          \* the transceiver
    pc,            \* where the driver is
    rxDr,          \* RX_DR in the STATUS read by nrf24_rx_available
    pipeNo,        \* RX_P_NO in the STATUS read by nrf24_rx_pipe_number
    got            \* the payload read last, until the loop is done with it

vars == <<chip, pc, rxDr, pipeNo, got>>

Places == {"boot", "idle", "tx",                  \* main loop and send
           "status", "fifo",                      \* nrf24_rx_available
           "pipeStatus", "pipeFifo",              \* nrf24_rx_pipe_number
           "read", "clear",                       \* payload, then STATUS
           "wait"}                                \* sleep_ms(1)

TypeOK ==
    /\ chip \in Chips
    /\ pc \in Places
    /\ rxDr \in BOOLEAN
    /\ pipeNo \in {0, 1, NoPipe}
    /\ got \in Frame \cup {None}
-----------------------------------------------------------------------------
(* The pieces of the driver that work with CE low: the chip takes nothing  *)
(* in between their accesses.  FLUSH_TX and the address registers leave    *)
(* the receiving side as it is.                                            *)

\* EN_RXADDR = 0x03 in the dual-pipe build.
EnabledPipes == {0, 1}

\* Bytes to read from a pipe; 0 for a pipe that is not configured.
PayloadSize(pipe) ==
    CASE pipe = 0 -> 16 [] pipe = 1 -> 32 [] OTHER -> 0

SetTxMode(c)  == IrqsCleared(Silent(c))
PrepareTx(c)  == SetTxMode(IrqsCleared(Silent(c)))
SetRxMode(c)  == Listening(IrqsCleared(Silent(c)))
RestorePrx(c) == SetRxMode(IrqsCleared(Silent(c)))
-----------------------------------------------------------------------------
Init ==
    /\ chip = PoweredOn
    /\ pc = "boot"
    /\ rxDr = FALSE
    /\ pipeNo = NoPipe
    /\ got = None

\* The air: a payload of one of the two enabled pipes comes in.
Arrive(f) ==
    /\ CanReceive(chip) /\ f.pipe \in EnabledPipes
    /\ chip' = Arrival(chip, f)
    /\ UNCHANGED <<pc, rxDr, pipeNo, got>>

\* nrf24_radio_init_tx: CE low, interrupts cleared, both FIFOs flushed, and
\* nrf24_restore_prx.
Boot ==
    /\ pc = "boot"
    /\ pc' = "idle"
    /\ chip' = RestorePrx(RxFlushed(IrqsCleared(Silent(chip))))
    /\ UNCHANGED <<rxDr, pipeNo, got>>

\* The call of nrf24_radio_send_fixed, up to the pulse on CE:
\* nrf24_prepare_tx takes CE low and clears the interrupts.
StartSend ==
    /\ pc = "idle"
    /\ pc' = "tx"
    /\ chip' = PrepareTx(chip)
    /\ got' = None
    /\ UNCHANGED <<rxDr, pipeNo>>

\* Mutant: the way out of a send flushes the received payloads as well.
RestoreFlushing(sent) ==
    /\ pc = "tx"
    /\ pc' = "status"
    /\ chip' = RestorePrx(RxFlushed(chip))
    /\ UNCHANGED <<rxDr, pipeNo, got>>

\* Sent, not sent, or given up after 20 ms: nrf24_restore_prx in every case.
\* The loop polls next.
EndSend(sent) ==
    /\ pc = "tx"
    /\ pc' = "status"
    /\ chip' = RestorePrx(chip)
    /\ UNCHANGED <<rxDr, pipeNo, got>>

\* A turn without a send goes straight to nrf24_radio_recv_any.
StartPoll ==
    /\ pc = "idle"
    /\ pc' = "status"
    /\ got' = None
    /\ UNCHANGED <<chip, rxDr, pipeNo>>

ReadStatus ==
    /\ pc = "status"
    /\ rxDr' = chip.dr
    /\ pc' = "fifo"
    /\ UNCHANGED <<chip, pipeNo, got>>

\* Mutant: both signs of a payload are asked for, not one of them.
ReadFifoStatusBoth ==
    /\ pc = "fifo"
    /\ pc' = IF rxDr /\ ~ RxEmpty(chip) THEN "pipeStatus" ELSE "wait"
    /\ UNCHANGED <<chip, rxDr, pipeNo, got>>

\* Something is available if RX_DR was set or the FIFO is not empty.
ReadFifoStatus ==
    /\ pc = "fifo"
    /\ pc' = IF rxDr \/ ~ RxEmpty(chip) THEN "pipeStatus" ELSE "wait"
    /\ UNCHANGED <<chip, rxDr, pipeNo, got>>

ReadPipe ==
    /\ pc = "pipeStatus"
    /\ pipeNo' = HeadPipe(chip)
    /\ pc' = "pipeFifo"
    /\ UNCHANGED <<chip, rxDr, got>>

\* nrf24_rx_pipe_number gives the pipe only if the FIFO is not empty and the
\* STATUS read before named one; without a configured pipe the poll sleeps and
\* tries again.
CheckPipe ==
    /\ pc = "pipeFifo"
    /\ pc' = IF RxEmpty(chip) \/ pipeNo = NoPipe \/ PayloadSize(pipeNo) = 0
             THEN "wait" ELSE "read"
    /\ UNCHANGED <<chip, rxDr, pipeNo, got>>

ReadPayload ==
    /\ pc = "read"
    /\ got' = Payload(chip)
    /\ chip' = Popped(chip)
    /\ pc' = "clear"
    /\ UNCHANGED <<rxDr, pipeNo>>

\* Mutant: the interrupts are left as they are.
ClearNothing ==
    /\ pc = "clear"
    /\ pc' = "idle"
    /\ UNCHANGED <<chip, rxDr, pipeNo, got>>

\* The interrupts are cleared after the payload was read: the RX_DR of a
\* payload that came in between is lost, and nrf24_radio_recv_any returns.
ClearIrqs ==
    /\ pc = "clear"
    /\ chip' = IrqsCleared(chip)
    /\ pc' = "idle"
    /\ UNCHANGED <<rxDr, pipeNo, got>>

\* Mutant: the next try looks at the FIFO alone and keeps the pipe number.
PollFifoAgain ==
    /\ pc = "wait"
    /\ pc' = "pipeFifo"
    /\ UNCHANGED <<chip, rxDr, pipeNo, got>>

\* After the sleep the deadline of the poll has passed or has not: at least
\* one poll was made.
PollAgain ==
    /\ pc = "wait"
    /\ pc' = "status"
    /\ UNCHANGED <<chip, rxDr, pipeNo, got>>

PollTimeout ==
    /\ pc = "wait"
    /\ pc' = "idle"
    /\ UNCHANGED <<chip, rxDr, pipeNo, got>>

\* A reset of the RP2040; CE is undriven until the program is up again.
Reset ==
    /\ pc # "boot"
    /\ pc' = "boot"
    /\ \E ce \in BOOLEAN : chip' = [chip EXCEPT !.prx = ce]
    /\ rxDr' = FALSE
    /\ pipeNo' = NoPipe
    /\ got' = None

DriverStep ==
    \/ Boot
    \/ StartSend \/ (\E sent \in BOOLEAN : EndSend(sent))
    \/ StartPoll \/ ReadStatus \/ ReadFifoStatus \/ ReadPipe \/ CheckPipe
    \/ ReadPayload \/ ClearIrqs \/ PollAgain \/ PollTimeout

Next == DriverStep \/ (\E f \in Traffic : Arrive(f)) \/ Reset

Spec == Init /\ [][Next]_vars

\* The loop never blocks: every SPI transfer, sleep and send returns.
FairSpec == Spec /\ WF_vars(DriverStep)
-----------------------------------------------------------------------------
\* The driver is a mailbox that loses nothing while the program is up: no
\* payload the radio has accepted is lost, doubled, overtaken or made up, in
\* whatever order arrivals, sends and SPI reads fall (nrf24_radio.c:409-564).
Contract == INSTANCE Mailbox WITH
    Payloads <- Traffic, Capacity <- Depth, Lossy <- FALSE,
    inbox <- chip.fifo, hand <- got, up <- pc # "boot"

ImplementsMailbox == Contract!MailboxSpec

\* The pipe number that chose how many bytes to read is still the pipe of the
\* payload that is read, two SPI transfers later (lines 539-547).
PayloadMatchesPipe ==
    pc = "read" => ~ RxEmpty(chip) /\ pipeNo = HeadPipe(chip)

\* However a send ends, the radio listens again (lines 432 and 437).
NeverLeftDeaf == pc \notin {"boot", "tx"} => chip.prx

\* RX_DR may be clear while payloads are queued (line 549), but is never left
\* set over an empty FIFO once a payload has been fetched.
NoPhantomInterrupt ==
    pc \notin {"boot", "clear"} /\ chip.dr => ~ RxEmpty(chip)

\* The inductive invariant: once read, the pipe number stays that of the oldest
\* payload, and the hand is empty whenever a payload is about to be read.
PipeKnown ==
    pc = "pipeFifo" /\ pipeNo # NoPipe => ~ RxEmpty(chip) /\ pipeNo = HeadPipe(chip)
HandFree == pc \notin {"idle", "clear"} => got = None
IInv ==
    /\ TypeOK /\ PipeKnown /\ PayloadMatchesPipe
    /\ NeverLeftDeaf /\ NoPhantomInterrupt /\ HandFree

\* A queued payload is fetched, even when its RX_DR was wiped out by the
\* fetch of the one before it or by a send.
QueuedIsFetched == ~ RxEmpty(chip) ~> pc \in {"clear", "boot"}
=============================================================================
