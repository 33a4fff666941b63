------------------------------ MODULE EspBridge ------------------------------
(***************************************************************************)
(* The ESP32-C3 bridge: the loop of app_main                               *)
(* (firmware/esp32c3_bridge/main/main.c) over the driver nrf24_drv.c.  A   *)
(* turn polls the radio once; a DATA packet is answered with an ACK before *)
(* the turn ends.                                                          *)
(*                                                                         *)
(* Unlike the RP2040's, this driver reads STATUS and FIFO_STATUS once and  *)
(* takes any disagreement between the two for a fault: it flushes the      *)
(* receive FIFO.  Every SPI access is a step; what is done with CE low is  *)
(* one step.  An SPI access may fail: the driver either recovers (lines    *)
(* 534-541, 581) or aborts (ESP_ERROR_CHECK), which restarts the board.    *)
(***************************************************************************)
EXTENDS Nrf24Chip

CONSTANTS
    Traffic,       \* the payloads that arrive
    None,          \* no payload in hand
    SpiMayFail,    \* whether an SPI access may return an error
    CounterMod     \* values of the report's counters: 2^32 in the program

ASSUME TrafficAssumption == Traffic \subseteq Frame /\ None \notin Frame
ASSUME CounterAssumption == CounterMod \in Nat \ {0, 1} /\ SpiMayFail \in BOOLEAN

VARIABLES
    chip,          \* the transceiver
    pc,            \* where the loop is
    rxDr,          \* RX_DR in the STATUS of this poll
    pipeNo,        \* RX_P_NO in the same STATUS
    buf,           \* the payload this turn has taken, or None
    ret,           \* what nrf24_drv_recv_any is going to return
    count          \* valid_rx, garbage_rx, ack_tx_ok, ack_tx_fail, last_seq

vars == <<chip, pc, rxDr, pipeNo, buf, ret, count>>

Places == {"boot", "status", "fifo", "read",   \* nrf24_drv_recv_any
           "flush", "restore",                  \* nrf24_drv_recover_rx
           "clear", "handle", "tx", "delay"}    \* STATUS, the loop, the send

Results == {"none", "fault", "garbage", "payload"}     \* 0, -1, -2, length

Counters == [valid : 0 .. CounterMod - 1, garbage : 0 .. CounterMod - 1,
             ackOk : 0 .. CounterMod - 1, ackFail : 0 .. CounterMod - 1,
             lastSeq : Seqs]

TypeOK ==
    /\ chip \in Chips
    /\ pc \in Places
    /\ rxDr \in BOOLEAN
    /\ pipeNo \in {0, 1, NoPipe}
    /\ buf \in Frame \cup {None}
    /\ ret \in Results
    /\ count \in Counters
-----------------------------------------------------------------------------
(* The pieces of the driver that work with CE low: the chip takes nothing  *)
(* in between their accesses.                                              *)

\* EN_RXADDR = 0x03 in the dual-pipe build.
EnabledPipes == {0, 1}

\* Bytes to read from a pipe; 0 for a pipe that is not configured.
PayloadSize(pipe) ==
    CASE pipe = 0 -> 16 [] pipe = 1 -> 32 [] OTHER -> 0

PrepareTx(c)  == IrqsCleared(Silent(c))
SetRxMode(c)  == Listening(IrqsCleared(Silent(c)))
RestorePrx(c) == SetRxMode(IrqsCleared(Silent(c)))

\* Every byte 0x00, or every byte 0xff.
PayloadIsGarbage(f) == f.kind = "blank"
-----------------------------------------------------------------------------
Zero == [valid |-> 0, garbage |-> 0, ackOk |-> 0, ackFail |-> 0, lastSeq |-> 0]

Inc(n) == (n + 1) % CounterMod

Init ==
    /\ chip = PoweredOn
    /\ pc = "boot"
    /\ rxDr = FALSE
    /\ pipeNo = NoPipe
    /\ buf = None
    /\ ret = "none"
    /\ count = Zero

\* The air: a payload of one of the two enabled pipes comes in.
Arrive(f) ==
    /\ CanReceive(chip) /\ f.pipe \in EnabledPipes
    /\ chip' = Arrival(chip, f)
    /\ UNCHANGED <<pc, rxDr, pipeNo, buf, ret, count>>

\* Mutant: the receive FIFO is left as the last run of the program left it.
BootWithoutFlush ==
    /\ pc = "boot"
    /\ pc' = "status"
    /\ chip' = RestorePrx(chip)
    /\ count' = Zero
    /\ UNCHANGED <<rxDr, pipeNo, buf, ret>>

\* nrf24_drv_init: CE low, registers, interrupts cleared, both FIFOs flushed,
\* nrf24_restore_prx; the counters are locals of app_main.
Boot ==
    /\ pc = "boot"
    /\ pc' = "status"
    /\ chip' = RestorePrx(RxFlushed(IrqsCleared(Silent(chip))))
    /\ count' = Zero
    /\ UNCHANGED <<rxDr, pipeNo, buf, ret>>

\* One transfer brings RX_DR and RX_P_NO together.
ReadStatus ==
    /\ pc = "status"
    /\ rxDr' = chip.dr
    /\ pipeNo' = HeadPipe(chip)
    /\ ret' = "none"
    /\ pc' = "fifo"
    /\ UNCHANGED <<chip, buf, count>>

\* Mutants: a payload without RX_DR is left where it is; RX_DR and RX_P_NO are
\* not looked at.
ReadFifoStatusIgnoring ==
    /\ pc = "fifo"
    /\ pc' = IF rxDr THEN "read" ELSE "delay"
    /\ UNCHANGED <<chip, rxDr, pipeNo, buf, ret, count>>
ReadFifoStatusTrusting ==
    /\ pc = "fifo"
    /\ pc' = IF RxEmpty(chip) THEN "delay" ELSE "read"
    /\ UNCHANGED <<chip, rxDr, pipeNo, buf, ret, count>>

\* Nothing there; a payload; or STATUS and FIFO_STATUS (or RX_P_NO) disagree.
ReadFifoStatus ==
    LET nothing == ~ rxDr /\ RxEmpty(chip)
        payload == rxDr /\ ~ RxEmpty(chip) /\ PayloadSize(pipeNo) # 0
    IN  /\ pc = "fifo"
        /\ \/ nothing /\ pc' = "delay" /\ UNCHANGED ret
           \/ payload /\ pc' = "read" /\ UNCHANGED ret
           \/ ~ nothing /\ ~ payload /\ pc' = "flush" /\ ret' = "fault"
        /\ UNCHANGED <<chip, rxDr, pipeNo, buf, count>>

\* The payload is taken out of the FIFO, and thrown away if it is garbage.
ReadPayload ==
    /\ pc = "read"
    /\ buf' = Payload(chip)
    /\ chip' = Popped(chip)
    /\ \/ /\ PayloadIsGarbage(buf')
          /\ pc' = "flush"
          /\ ret' = "garbage"
       \/ /\ ~ PayloadIsGarbage(buf')
          /\ pc' = "clear"
          /\ ret' = "payload"
    /\ UNCHANGED <<rxDr, pipeNo, count>>

\* A register or the payload cannot be read: the driver recovers.  A failed
\* payload transfer has taken the payload out of the FIFO or has not.
SpiError ==
    /\ SpiMayFail
    /\ \/ /\ pc \in {"status", "fifo", "read"}
          /\ UNCHANGED <<chip, buf>>
       \/ /\ pc = "read"
          /\ buf' = Payload(chip)
          /\ chip' = Popped(chip)
    /\ pc' = "flush"
    /\ ret' = "fault"
    /\ UNCHANGED <<rxDr, pipeNo, count>>

\* nrf24_drv_recover_rx, first part: FLUSH_RX, with CE still high.
Flush ==
    /\ pc = "flush"
    /\ chip' = RxFlushed(chip)
    /\ pc' = "restore"
    /\ UNCHANGED <<rxDr, pipeNo, buf, ret, count>>

\* Mutant: the recovery forgets the interrupts.
RestoreKeepingIrqs ==
    /\ pc = "restore"
    /\ chip' = Listening(chip)
    /\ pc' = "delay"
    /\ count' = count
    /\ buf' = None
    /\ UNCHANGED <<rxDr, pipeNo, ret>>

\* Second part: nrf24_restore_prx.  The loop counts the garbage (-2).
Restore ==
    /\ pc = "restore"
    /\ chip' = RestorePrx(chip)
    /\ pc' = "delay"
    /\ count' = IF ret = "garbage"
                THEN [count EXCEPT !.garbage = Inc(@)] ELSE count
    /\ buf' = None
    /\ UNCHANGED <<rxDr, pipeNo, ret>>

ClearIrqs ==
    /\ pc = "clear"
    /\ chip' = IrqsCleared(chip)
    /\ pc' = "handle"
    /\ UNCHANGED <<rxDr, pipeNo, buf, ret, count>>

\* Nothing to answer: a pipe 1 frame, a foreign packet, an ACK.
Ignore ==
    /\ pc = "handle"
    /\ ~ (pipeNo = 0 /\ buf.kind = "data")
    /\ buf' = None
    /\ pc' = "delay"
    /\ UNCHANGED <<chip, rxDr, pipeNo, ret, count>>

\* The ACK is built and nrf24_drv_send called: nrf24_prepare_tx takes CE low
\* and clears the interrupts.
StartAck ==
    /\ pc = "handle"
    /\ pipeNo = 0 /\ buf.kind = "data"
    /\ chip' = PrepareTx(chip)
    /\ pc' = "tx"
    /\ UNCHANGED <<rxDr, pipeNo, buf, ret, count>>

\* Mutant: a send that timed out does not restore the receiver.
EndAckWhenSent(ok) ==
    /\ pc = "tx"
    /\ chip' = IF ok THEN RestorePrx(chip) ELSE chip
    /\ count' = count
    /\ buf' = None
    /\ pc' = "delay"
    /\ UNCHANGED <<rxDr, pipeNo, ret>>

\* The send ends one way or the other, with nrf24_restore_prx, and is counted.
EndAck(ok) ==
    /\ pc = "tx"
    /\ chip' = RestorePrx(chip)
    /\ count' = [count EXCEPT
                   !.valid = Inc(@),
                   !.lastSeq = buf.seq,
                   !.ackOk = IF ok THEN Inc(@) ELSE @,
                   !.ackFail = IF ok THEN @ ELSE Inc(@)]
    /\ buf' = None
    /\ pc' = "delay"
    /\ UNCHANGED <<rxDr, pipeNo, ret>>

\* vTaskDelay(pdMS_TO_TICKS(10))
Delay ==
    /\ pc = "delay"
    /\ pc' = "status"
    /\ UNCHANGED <<chip, rxDr, pipeNo, buf, ret, count>>

\* A failed ESP_ERROR_CHECK, or a reset: everything but the chip starts anew;
\* CE is undriven until then.
Abort ==
    /\ pc # "boot"
    /\ pc' = "boot"
    /\ \E ce \in BOOLEAN : chip' = [chip EXCEPT !.prx = ce]
    /\ rxDr' = FALSE
    /\ pipeNo' = NoPipe
    /\ buf' = None
    /\ ret' = "none"
    /\ count' = Zero

LoopStep ==
    \/ Boot \/ ReadStatus \/ ReadFifoStatus \/ ReadPayload
    \/ Flush \/ Restore \/ ClearIrqs
    \/ Ignore \/ StartAck \/ (\E ok \in BOOLEAN : EndAck(ok))
    \/ Delay

Next ==
    \/ LoopStep
    \/ \E f \in Traffic : Arrive(f)
    \/ SpiError
    \/ Abort

Spec == Init /\ [][Next]_vars

\* The task is never blocked for good; errors and resets are never certain.
FairSpec == Spec /\ WF_vars(LoopStep)
-----------------------------------------------------------------------------
\* The driver is a lossy mailbox: what it does not throw away is handed up in
\* order, once, and nothing is made up (nrf24_drv.c:521-601).
Contract == INSTANCE Mailbox WITH
    Payloads <- Traffic, Capacity <- Depth, Lossy <- TRUE,
    inbox <- chip.fifo, hand <- buf, up <- pc # "boot"

ImplementsLossyMailbox == Contract!MailboxSpec

\* The payload is read with the length of its own pipe (lines 550, 575).
PayloadMatchesPipe ==
    pc = "read" => ~ RxEmpty(chip) /\ pipeNo = HeadPipe(chip)

\* However an ACK or a recovery ends, the radio listens again.
NeverLeftDeaf == pc \notin {"boot", "tx"} => chip.prx

\* A poll never finds RX_DR set over an empty FIFO: the recovery of line 556
\* is for a fault of the SPI bus, no interleaving of the program gets there.
NoPhantomInterrupt ==
    /\ pc \in {"status", "delay"} /\ chip.dr => ~ RxEmpty(chip)
    /\ pc = "fifo" /\ rxDr => ~ RxEmpty(chip) /\ pipeNo = HeadPipe(chip)

\* The inductive invariant: where RX_DR can be relied on, and where a payload
\* is in hand.
InterruptTrue ==
    /\ pc \in {"status", "fifo", "read", "handle", "tx", "delay"} /\ chip.dr
         => ~ RxEmpty(chip)
    /\ pc = "fifo" /\ rxDr => ~ RxEmpty(chip) /\ pipeNo = HeadPipe(chip)
HandTrue ==
    /\ pc \in {"boot", "status", "fifo", "read", "delay"} => buf = None
    /\ pc \in {"clear", "handle", "tx"} => buf # None
IInv ==
    /\ TypeOK /\ PayloadMatchesPipe /\ NeverLeftDeaf
    /\ InterruptTrue /\ HandTrue

\* No payload stays in the FIFO for good, where it would take up one of the
\* three places: it is fetched or flushed.
QueueIsServed == ~ RxEmpty(chip) ~> pc \in {"clear", "restore", "boot"}

\* docs/protocol.md:89: having received a valid DATA packet, the ESP32-C3
\* answers it at once.  A flush would take one away that nobody has read.
NoDataFlushed ==
    pc = "flush" => \A i \in DOMAIN chip.fifo : chip.fifo[i].kind # "data"
=============================================================================
