--------------------------- MODULE EspBridgeProofs ---------------------------
(***************************************************************************)
(* The bridge's driver and loop are a mailbox that may throw its queue     *)
(* away, for every capacity of the chip's FIFO, all traffic and any        *)
(* failure of the SPI bus.                                                 *)
(***************************************************************************)
EXTENDS EspBridge, SequenceTheorems, TLAPS

USE SeqModAssumption, DepthAssumption, TrafficAssumption, CounterAssumption
-----------------------------------------------------------------------------
(* The chip.                                                                *)
LEMMA BlankIsFrame == Blank \in Frame
<1>1. 0 \in Seqs
  BY DEF Seqs
<1> QED
  BY <1>1 DEF Blank, Frame, Kinds

\* The pins, the interrupt flag and a flush leave a chip a chip.
LEMMA ChipAccess ==
    ASSUME NEW c \in Chips
    PROVE  /\ c.fifo \in Fifos /\ c.dr \in BOOLEAN /\ c.prx \in BOOLEAN
           /\ IrqsCleared(c) \in Chips /\ Listening(c) \in Chips
           /\ Silent(c) \in Chips /\ RxFlushed(c) \in Chips
           /\ \A ce \in BOOLEAN : [c EXCEPT !.prx = ce] \in Chips
<1>1. <<>> \in Fifos
  BY EmptySeq DEF Fifos
<1> HIDE DEF Fifos
<1> QED
  BY <1>1 DEF Chips, IrqsCleared, Listening, Silent, RxFlushed

\* A payload that comes in sets RX_DR and does not overtake the queued ones.
LEMMA ChipArrival ==
    ASSUME NEW c \in Chips, CanReceive(c), NEW f \in Frame
    PROVE  /\ Arrival(c, f) \in Chips
           /\ ~ RxEmpty(Arrival(c, f))
           /\ ~ RxEmpty(c) => HeadPipe(Arrival(c, f)) = HeadPipe(c)
           /\ Arrival(c, f).prx = c.prx
           /\ Arrival(c, f).fifo = Append(c.fifo, f)
<1>1. c.fifo \in Seq(Frame) /\ Len(c.fifo) < Depth
  BY ChipAccess DEF Fifos, CanReceive
<1>2. /\ Append(c.fifo, f) \in Fifos /\ Append(c.fifo, f) # <<>>
      /\ c.fifo # <<>> => Head(Append(c.fifo, f)) = Head(c.fifo)
  BY <1>1, AppendProperties DEF Fifos
<1> HIDE DEF Fifos
<1>3. /\ Arrival(c, f) \in Chips /\ Arrival(c, f).prx = c.prx
      /\ Arrival(c, f).fifo = Append(c.fifo, f)
  BY <1>2 DEF Arrival, Chips
<1> QED
  BY <1>2, <1>3 DEF RxEmpty, HeadPipe

\* Reading the payload of a non-empty FIFO hands out its head.
LEMMA ChipRead ==
    ASSUME NEW c \in Chips
    PROVE  /\ Popped(c) \in Chips /\ Payload(c) \in Frame
           /\ HeadPipe(c) \in {0, 1, NoPipe}
           /\ Popped(c).prx = c.prx
           /\ ~ RxEmpty(c) => Popped(c).fifo = Tail(c.fifo)
                              /\ Payload(c) = Head(c.fifo)
<1>1. c.fifo \in Seq(Frame) /\ c.fifo \in Fifos
  BY ChipAccess DEF Fifos
<1>2. c.fifo # <<>> => Head(c.fifo) \in Frame /\ Tail(c.fifo) \in Fifos
  BY <1>1, HeadTailProperties DEF Fifos
<1> HIDE DEF Fifos
<1>3. /\ Popped(c) \in Chips /\ Popped(c).prx = c.prx
      /\ ~ RxEmpty(c) => Popped(c).fifo = Tail(c.fifo)
  BY <1>1, <1>2 DEF Popped, RxEmpty, Chips
<1>4. Payload(c) \in Frame /\ (~ RxEmpty(c) => Payload(c) = Head(c.fifo))
  BY <1>2, BlankIsFrame DEF Payload, RxEmpty
<1>5. HeadPipe(c) \in {0, 1, NoPipe}
  BY <1>2 DEF HeadPipe, RxEmpty, Frame
<1> QED
  BY <1>3, <1>4, <1>5

\* Back to reception: RX_DR is gone, the queue is not.
LEMMA ChipRestored ==
    ASSUME NEW c \in Chips
    PROVE  /\ RestorePrx(c) \in Chips /\ PrepareTx(c) \in Chips
           /\ RestorePrx(c).prx = TRUE /\ RestorePrx(c).dr = FALSE
           /\ RestorePrx(c).fifo = c.fifo
           /\ PrepareTx(c).dr = FALSE /\ PrepareTx(c).fifo = c.fifo
<1> HIDE DEF Fifos
<1> QED
  BY DEF Chips, RestorePrx, SetRxMode, PrepareTx, IrqsCleared,
         Listening, Silent
-----------------------------------------------------------------------------
\* Counting stays in the width of the counters.
LEMMA CountStays ==
    ASSUME count \in Counters
    PROVE  /\ Zero \in Counters
           /\ [count EXCEPT !.garbage = Inc(@)] \in Counters
           /\ \A f \in Frame, ok \in BOOLEAN :
                [count EXCEPT
                   !.valid = Inc(@), !.lastSeq = f.seq,
                   !.ackOk = IF ok THEN Inc(@) ELSE @,
                   !.ackFail = IF ok THEN @ ELSE Inc(@)] \in Counters
<1>1. \A n \in 0 .. CounterMod - 1 : Inc(n) \in 0 .. CounterMod - 1
  BY DEF Inc
<1>2. 0 \in 0 .. CounterMod - 1 /\ 0 \in Seqs
  BY DEF Seqs
<1>3. \A f \in Frame : f.seq \in Seqs
  BY DEF Frame
<1> HIDE DEF Inc, Seqs, Frame
<1>4. Zero \in Counters /\ [count EXCEPT !.garbage = Inc(@)] \in Counters
  BY <1>1, <1>2 DEF Counters, Zero
<1>5. ASSUME NEW f \in Frame, NEW ok \in BOOLEAN
      PROVE  [count EXCEPT
                !.valid = Inc(@), !.lastSeq = f.seq,
                !.ackOk = IF ok THEN Inc(@) ELSE @,
                !.ackFail = IF ok THEN @ ELSE Inc(@)] \in Counters
  BY <1>1, <1>3 DEF Counters
<1> QED
  BY <1>4, <1>5

LEMMA InitIInv == Init => IInv
<1> SUFFICES ASSUME Init PROVE IInv
  OBVIOUS
<1>1. chip \in Chips
  <2>1. <<>> \in Fifos
    BY EmptySeq DEF Fifos
  <2> QED
    BY <2>1 DEF Init, PoweredOn, Chips
<1>2. count \in Counters
  BY DEF Init, Zero, Counters, Seqs
<1> QED
  BY <1>1, <1>2 DEF Init, IInv, TypeOK, PayloadMatchesPipe, NeverLeftDeaf,
                    InterruptTrue, HandTrue, Places, Results

LEMMA StepIInv == IInv /\ [Next]_vars => IInv'
<1> SUFFICES ASSUME IInv, [Next]_vars PROVE IInv'
  OBVIOUS
<1> USE DEF IInv, TypeOK, PayloadMatchesPipe, NeverLeftDeaf,
            InterruptTrue, HandTrue, Places, Results
<1> HIDE DEF Chips, Frame, NoPipe, Counters
<1>1. chip \in Chips /\ count \in Counters
  OBVIOUS
<1>2. ASSUME NEW f \in Traffic, Arrive(f)
      PROVE  IInv'
  <2>1. f \in Frame /\ CanReceive(chip) /\ chip' = Arrival(chip, f)
    BY <1>2 DEF Arrive
  <2>2. /\ chip' \in Chips /\ ~ RxEmpty(chip') /\ chip'.prx = chip.prx
        /\ ~ RxEmpty(chip) => HeadPipe(chip') = HeadPipe(chip)
    BY <1>1, <2>1, ChipArrival
  <2> QED
    BY <1>2, <2>2 DEF Arrive
<1>3. CASE Boot
  <2>1. RxFlushed(IrqsCleared(Silent(chip))) \in Chips /\ Zero \in Counters
    BY <1>1, ChipAccess, CountStays
  <2>2. chip' \in Chips /\ chip'.prx = TRUE /\ chip'.dr = FALSE
    BY <1>3, <2>1, ChipRestored DEF Boot
  <2> QED
    BY <1>3, <2>1, <2>2 DEF Boot
<1>4. CASE ReadStatus
  <2>1. chip.dr \in BOOLEAN /\ HeadPipe(chip) \in {0, 1, NoPipe}
    BY <1>1, ChipAccess, ChipRead
  <2> QED
    BY <1>4, <2>1 DEF ReadStatus
<1>5. CASE ReadFifoStatus
  BY <1>5 DEF ReadFifoStatus
<1>6. CASE ReadPayload
  <2>1. chip' \in Chips /\ chip'.prx = chip.prx /\ buf' \in Frame
    BY <1>1, <1>6, ChipRead DEF ReadPayload
  <2>2. pc' \in {"flush", "clear"} /\ ret' \in Results
    BY <1>6 DEF ReadPayload
  <2> QED
    BY <1>6, <2>1, <2>2 DEF ReadPayload
<1>7. CASE SpiError
  <2>1. chip' \in Chips /\ chip'.prx = chip.prx /\ buf' \in Frame \cup {None}
    BY <1>1, <1>7, ChipRead DEF SpiError
  <2>2. pc' = "flush" /\ ret' = "fault" /\ pc \in {"status", "fifo", "read"}
        /\ UNCHANGED <<rxDr, pipeNo, count>>
    BY <1>7 DEF SpiError
  <2> QED
    BY <2>1, <2>2
<1>8. CASE Flush
  <2>1. chip' \in Chips /\ chip'.prx = chip.prx
    BY <1>1, <1>8, ChipAccess DEF Flush, RxFlushed, Chips
  <2> QED
    BY <1>8, <2>1 DEF Flush
<1>9. CASE Restore
  <2>1. chip' \in Chips /\ chip'.prx = TRUE /\ chip'.dr = FALSE
    BY <1>1, <1>9, ChipRestored DEF Restore
  <2>2. count' \in Counters
    BY <1>1, <1>9, CountStays DEF Restore
  <2> QED
    BY <1>9, <2>1, <2>2 DEF Restore
<1>10. CASE ClearIrqs
  <2>1. chip' \in Chips /\ chip'.dr = FALSE /\ chip'.prx = chip.prx
    BY <1>1, <1>10, ChipAccess DEF ClearIrqs, IrqsCleared, Chips
  <2> QED
    BY <1>10, <2>1 DEF ClearIrqs
<1>11. CASE Ignore
  BY <1>11 DEF Ignore
<1>12. CASE StartAck
  <2>1. chip' \in Chips /\ chip'.dr = FALSE
    BY <1>1, <1>12, ChipRestored DEF StartAck
  <2> QED
    BY <1>12, <2>1 DEF StartAck
<1>13. ASSUME NEW ok \in BOOLEAN, EndAck(ok)
      PROVE  IInv'
  <2>1. chip' \in Chips /\ chip'.prx = TRUE /\ chip'.dr = FALSE
    BY <1>1, <1>13, ChipRestored DEF EndAck
  <2>2. count' \in Counters
    <3>1. buf \in Frame
      BY <1>13 DEF EndAck
    <3> QED
      BY <1>1, <1>13, <3>1, CountStays DEF EndAck
  <2> QED
    BY <1>13, <2>1, <2>2 DEF EndAck
<1>14. CASE Delay
  BY <1>14 DEF Delay
<1>15. CASE Abort
  <2>1. chip' \in Chips /\ count' \in Counters
    BY <1>1, <1>15, ChipAccess, CountStays DEF Abort
  <2> QED
    BY <1>15, <2>1 DEF Abort
<1>16. CASE UNCHANGED vars
  BY <1>16 DEF vars
<1> QED
  BY <1>2, <1>3, <1>4, <1>5, <1>6, <1>7, <1>8, <1>9, <1>10, <1>11, <1>12, <1>13,
     <1>14, <1>15, <1>16
     DEF Next, LoopStep

\* The inductive invariant, in every state the bridge and the air can reach.
THEOREM BridgeInvariance == Spec => []IInv
  BY InitIInv, StepIInv, PTL DEF Spec

\* The variables of loop, driver and chip keep their types.
THEOREM BridgeTypeSafety == Spec => []TypeOK
  BY BridgeInvariance, PTL DEF IInv

\* A payload is read with the length of the pipe it came in by.
THEOREM BridgeReadsWhole == Spec => []PayloadMatchesPipe
  BY BridgeInvariance, PTL DEF IInv

\* Whichever access fails, the radio listens again when the loop goes on.
THEOREM BridgeListens == Spec => []NeverLeftDeaf
  BY BridgeInvariance, PTL DEF IInv

\* The recovery from an RX_DR over an empty FIFO is never reached by any
\* interleaving: it remains for faults of the SPI bus.
THEOREM BridgeInterruptTrue == Spec => []NoPhantomInterrupt
<1>1. IInv => NoPhantomInterrupt
  BY DEF IInv, InterruptTrue, NoPhantomInterrupt
<1> QED
  BY <1>1, BridgeInvariance, PTL
-----------------------------------------------------------------------------
LEMMA MailboxInitially == Init => Contract!MailboxInit
  BY DEF Init, PoweredOn, Contract!MailboxInit

LEMMA MailboxStep ==
    IInv /\ [Next]_vars => [Contract!MailboxNext]_(Contract!mailbox)
<1> SUFFICES ASSUME IInv, [Next]_vars
             PROVE  Contract!MailboxNext \/ UNCHANGED <<chip.fifo, buf, pc # "boot">>
  BY DEF Contract!mailbox
<1>1. /\ chip \in Chips /\ buf \in Frame \cup {None}
      /\ pc = "read" => ~ RxEmpty(chip) /\ buf = None
      /\ pc = "boot" => buf = None
  BY DEF IInv, TypeOK, HandTrue, PayloadMatchesPipe
<1>2. ASSUME NEW f \in Traffic, Arrive(f)
      PROVE  Contract!Accept(f)
  <2>1. f \in Frame /\ CanReceive(chip) /\ chip' = Arrival(chip, f)
    BY <1>2 DEF Arrive
  <2>2. chip'.fifo = Append(chip.fifo, f) /\ Len(chip.fifo) < Depth
    BY <1>1, <2>1, ChipArrival DEF CanReceive
  <2> QED
    BY <1>2, <2>2 DEF Arrive, Contract!Accept
<1>3. CASE Boot
  <2>1. RxFlushed(IrqsCleared(Silent(chip))) \in Chips
        /\ RxFlushed(IrqsCleared(Silent(chip))).fifo = <<>>
    BY <1>1, ChipAccess DEF RxFlushed, IrqsCleared, Silent, Chips
  <2>2. chip'.fifo = <<>>
    BY <1>3, <2>1, ChipRestored DEF Boot
  <2>3. Contract!Restart
    BY <1>3, <2>2 DEF Boot, Contract!Restart
  <2> QED
    BY <2>3 DEF Contract!MailboxNext
<1>4. CASE ReadStatus \/ ReadFifoStatus \/ Delay
  BY <1>4 DEF ReadStatus, ReadFifoStatus, Delay
<1>5. ASSUME pc = "read", pc' # "boot", buf' = Payload(chip), chip' = Popped(chip)
      PROVE  Contract!Take
  <2>1. buf' = Head(chip.fifo) /\ chip'.fifo = Tail(chip.fifo)
    BY <1>1, <1>5, ChipRead
  <2> QED
    BY <1>1, <1>5, <2>1 DEF RxEmpty, Contract!Take
<1>6. CASE ReadPayload
  BY <1>5, <1>6 DEF ReadPayload, Contract!MailboxNext
<1>7. CASE SpiError
  <2>1. CASE UNCHANGED <<chip, buf>>
    BY <1>7, <2>1 DEF SpiError
  <2>2. CASE pc = "read" /\ buf' = Payload(chip) /\ chip' = Popped(chip)
    BY <1>5, <1>7, <2>2 DEF SpiError, Contract!MailboxNext
  <2> QED
    BY <1>7, <2>1, <2>2 DEF SpiError
<1>8. CASE Flush
  <2>1. chip'.fifo = <<>>
    BY <1>1, <1>8 DEF Flush, RxFlushed, Chips
  <2>2. Contract!Discard
    BY <1>8, <2>1 DEF Flush, Contract!Discard
  <2> QED
    BY <2>2 DEF Contract!MailboxNext
<1>9. ASSUME pc # "boot", pc' # "boot", chip'.fifo = chip.fifo, buf' = None
      PROVE  Contract!Finish \/ UNCHANGED <<chip.fifo, buf, pc # "boot">>
  <2>1. CASE buf = None
    BY <1>9, <2>1
  <2>2. CASE buf # None
    BY <1>9, <2>2 DEF Contract!Finish
  <2> QED
    BY <2>1, <2>2
<1>10. CASE Restore
  <2>1. chip'.fifo = chip.fifo
    BY <1>1, <1>10, ChipRestored DEF Restore
  <2> QED
    BY <1>9, <1>10, <2>1 DEF Restore, Contract!MailboxNext
<1>11. CASE ClearIrqs \/ StartAck
  <2>1. IrqsCleared(chip).fifo = chip.fifo /\ PrepareTx(chip).fifo = chip.fifo
    BY <1>1, ChipRestored DEF IrqsCleared, Chips
  <2> QED
    BY <1>11, <2>1 DEF ClearIrqs, StartAck
<1>12. CASE Ignore
  BY <1>9, <1>12 DEF Ignore, Contract!MailboxNext
<1>13. ASSUME NEW ok \in BOOLEAN, EndAck(ok)
      PROVE  Contract!MailboxNext \/ UNCHANGED <<chip.fifo, buf, pc # "boot">>
  <2>1. chip'.fifo = chip.fifo
    BY <1>1, <1>13, ChipRestored DEF EndAck
  <2> QED
    BY <1>9, <1>13, <2>1 DEF EndAck, Contract!MailboxNext
<1>14. CASE Abort
  <2>1. chip'.fifo = chip.fifo
    BY <1>1, <1>14 DEF Abort, Chips
  <2>2. Contract!Crash
    BY <1>14, <2>1 DEF Abort, Contract!Crash
  <2> QED
    BY <2>2 DEF Contract!MailboxNext
<1>15. CASE UNCHANGED vars
  BY <1>15 DEF vars
<1> QED
  BY <1>2, <1>3, <1>4, <1>6, <1>7, <1>8, <1>10, <1>11, <1>12, <1>13, <1>14, <1>15
     DEF Next, LoopStep, Contract!MailboxNext

\* The bridge implements the lossy mailbox, whatever fails.
THEOREM BridgeIsMailbox == Spec => ImplementsLossyMailbox
  BY MailboxInitially, MailboxStep, BridgeInvariance, PTL
     DEF Spec, ImplementsLossyMailbox, Contract!MailboxSpec
=============================================================================
