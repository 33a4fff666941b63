--------------------------- MODULE RpDriverProofs ---------------------------
(***************************************************************************)
(* The RP2040's driver is a mailbox for every capacity of the chip's FIFO  *)
(* and all traffic, wherever arrivals and resets fall between its SPI      *)
(* accesses.                                                               *)
(***************************************************************************)
EXTENDS RpDriver, SequenceTheorems, TLAPS

USE SeqModAssumption, DepthAssumption, TrafficAssumption
-----------------------------------------------------------------------------
(* The chip.                                                                *)
LEMMA BlankIsFrame == Blank \in Frame
<1>1. 0 \in Seqs
  BY DEF Seqs
<1> QED
  BY <1>1 DEF Blank, Frame, Kinds

\* The pins, the interrupt flag and a flush leave a chip a chip.
LEMMA ChipAccess ==
    ASSUME NEW c \in Chips
    PROVE  /\ c.fifo \in Fifos /\ c.dr \in BOOLEAN /\ c.prx \in BOOLEAN
           /\ IrqsCleared(c) \in Chips /\ Listening(c) \in Chips
           /\ Silent(c) \in Chips /\ RxFlushed(c) \in Chips
           /\ \A ce \in BOOLEAN : [c EXCEPT !.prx = ce] \in Chips
<1>1. <<>> \in Fifos
  BY EmptySeq DEF Fifos
<1> HIDE DEF Fifos
<1> QED
  BY <1>1 DEF Chips, IrqsCleared, Listening, Silent, RxFlushed

\* A payload that comes in sets RX_DR and does not overtake the queued ones.
LEMMA ChipArrival ==
    ASSUME NEW c \in Chips, CanReceive(c), NEW f \in Frame
    PROVE  /\ Arrival(c, f) \in Chips
           /\ ~ RxEmpty(Arrival(c, f))
           /\ ~ RxEmpty(c) => HeadPipe(Arrival(c, f)) = HeadPipe(c)
           /\ Arrival(c, f).prx = c.prx
           /\ Arrival(c, f).fifo = Append(c.fifo, f)
<1>1. c.fifo \in Seq(Frame) /\ Len(c.fifo) < Depth
  BY ChipAccess DEF Fifos, CanReceive
<1>2. /\ Append(c.fifo, f) \in Fifos /\ Append(c.fifo, f) # <<>>
      /\ c.fifo # <<>> => Head(Append(c.fifo, f)) = Head(c.fifo)
  BY <1>1, AppendProperties DEF Fifos
<1> HIDE DEF Fifos
<1>3. /\ Arrival(c, f) \in Chips /\ Arrival(c, f).prx = c.prx
      /\ Arrival(c, f).fifo = Append(c.fifo, f)
  BY <1>2 DEF Arrival, Chips
<1> QED
  BY <1>2, <1>3 DEF RxEmpty, HeadPipe

\* Reading the payload of a non-empty FIFO hands out its head.
LEMMA ChipRead ==
    ASSUME NEW c \in Chips
    PROVE  /\ Popped(c) \in Chips /\ Payload(c) \in Frame
           /\ HeadPipe(c) \in {0, 1, NoPipe}
           /\ Popped(c).prx = c.prx
           /\ ~ RxEmpty(c) => Popped(c).fifo = Tail(c.fifo)
                              /\ Payload(c) = Head(c.fifo)
<1>1. c.fifo \in Seq(Frame) /\ c.fifo \in Fifos
  BY ChipAccess DEF Fifos
<1>2. c.fifo # <<>> => Head(c.fifo) \in Frame /\ Tail(c.fifo) \in Fifos
  BY <1>1, HeadTailProperties DEF Fifos
<1> HIDE DEF Fifos
<1>3. /\ Popped(c) \in Chips /\ Popped(c).prx = c.prx
      /\ ~ RxEmpty(c) => Popped(c).fifo = Tail(c.fifo)
  BY <1>1, <1>2 DEF Popped, RxEmpty, Chips
<1>4. Payload(c) \in Frame /\ (~ RxEmpty(c) => Payload(c) = Head(c.fifo))
  BY <1>2, BlankIsFrame DEF Payload, RxEmpty
<1>5. HeadPipe(c) \in {0, 1, NoPipe}
  BY <1>2 DEF HeadPipe, RxEmpty, Frame
<1> QED
  BY <1>3, <1>4, <1>5

\* Back to reception: RX_DR is gone, the queue is not.
LEMMA ChipRestored ==
    ASSUME NEW c \in Chips
    PROVE  /\ RestorePrx(c) \in Chips /\ PrepareTx(c) \in Chips
           /\ RestorePrx(c).prx = TRUE /\ RestorePrx(c).dr = FALSE
           /\ RestorePrx(c).fifo = c.fifo
           /\ PrepareTx(c).dr = FALSE /\ PrepareTx(c).fifo = c.fifo
<1> HIDE DEF Fifos
<1> QED
  BY DEF Chips, RestorePrx, SetRxMode, PrepareTx, SetTxMode, IrqsCleared,
         Listening, Silent
-----------------------------------------------------------------------------
LEMMA InitIInv == Init => IInv
<1> SUFFICES ASSUME Init PROVE IInv
  OBVIOUS
<1>1. chip \in Chips
  <2>1. <<>> \in Fifos
    BY EmptySeq DEF Fifos
  <2> QED
    BY <2>1 DEF Init, PoweredOn, Chips
<1> QED
  BY <1>1 DEF Init, IInv, TypeOK, PipeKnown, PayloadMatchesPipe, NeverLeftDeaf,
              NoPhantomInterrupt, HandFree, Places

LEMMA StepIInv == IInv /\ [Next]_vars => IInv'
<1> SUFFICES ASSUME IInv, [Next]_vars PROVE IInv'
  OBVIOUS
<1> USE DEF IInv, TypeOK, PipeKnown, PayloadMatchesPipe, NeverLeftDeaf,
            NoPhantomInterrupt, HandFree, Places
<1> HIDE DEF Chips, Frame, NoPipe
<1>1. chip \in Chips
  OBVIOUS
<1>2. ASSUME NEW f \in Traffic, Arrive(f)
      PROVE  IInv'
  <2>1. f \in Frame /\ CanReceive(chip) /\ chip' = Arrival(chip, f)
    BY <1>2 DEF Arrive
  <2>2. /\ chip' \in Chips /\ ~ RxEmpty(chip') /\ chip'.prx = chip.prx
        /\ ~ RxEmpty(chip) => HeadPipe(chip') = HeadPipe(chip)
    BY <1>1, <2>1, ChipArrival
  <2> QED
    BY <1>2, <2>2 DEF Arrive
<1>3. CASE Boot
  <2>1. RxFlushed(IrqsCleared(Silent(chip))) \in Chips
    BY <1>1, ChipAccess
  <2>2. chip' \in Chips /\ chip'.prx = TRUE /\ chip'.dr = FALSE
    BY <1>3, <2>1, ChipRestored DEF Boot
  <2> QED
    BY <1>3, <2>2 DEF Boot
<1>4. CASE StartSend
  <2>1. chip' \in Chips /\ chip'.dr = FALSE
    BY <1>1, <1>4, ChipRestored DEF StartSend
  <2> QED
    BY <1>4, <2>1 DEF StartSend
<1>5. ASSUME NEW sent \in BOOLEAN, EndSend(sent)
      PROVE  IInv'
  <2>1. chip' \in Chips /\ chip'.prx = TRUE /\ chip'.dr = FALSE
    BY <1>1, <1>5, ChipRestored DEF EndSend
  <2> QED
    BY <1>5, <2>1 DEF EndSend
<1>6. CASE StartPoll \/ ReadFifoStatus \/ PollAgain \/ PollTimeout
  BY <1>6 DEF StartPoll, ReadFifoStatus, PollAgain, PollTimeout
<1>7. CASE ReadStatus
  <2>1. chip.dr \in BOOLEAN
    BY <1>1, ChipAccess
  <2> QED
    BY <1>7, <2>1 DEF ReadStatus
<1>8. CASE ReadPipe
  <2>1. HeadPipe(chip) \in {0, 1, NoPipe}
    BY <1>1, ChipRead
  <2>2. HeadPipe(chip) # NoPipe => ~ RxEmpty(chip)
    BY DEF HeadPipe
  <2> QED
    BY <1>8, <2>1, <2>2 DEF ReadPipe
<1>9. CASE CheckPipe
  BY <1>9 DEF CheckPipe
<1>10. CASE ReadPayload
  <2>1. chip' \in Chips /\ chip'.prx = chip.prx /\ got' \in Frame
    BY <1>1, <1>10, ChipRead DEF ReadPayload
  <2> QED
    BY <1>10, <2>1 DEF ReadPayload
<1>11. CASE ClearIrqs
  <2>1. chip' \in Chips /\ chip'.dr = FALSE /\ chip'.prx = chip.prx
    BY <1>1, <1>11, ChipAccess DEF ClearIrqs, IrqsCleared, Chips
  <2> QED
    BY <1>11, <2>1 DEF ClearIrqs
<1>12. CASE Reset
  <2>1. chip' \in Chips
    BY <1>1, <1>12, ChipAccess DEF Reset
  <2> QED
    BY <1>12, <2>1 DEF Reset
<1>13. CASE UNCHANGED vars
  BY <1>13 DEF vars
<1> QED
  BY <1>2, <1>3, <1>4, <1>5, <1>6, <1>7, <1>8, <1>9, <1>10, <1>11, <1>12, <1>13
     DEF Next, DriverStep

\* The inductive invariant, in every state the driver and the air can reach.
THEOREM DriverInvariance == Spec => []IInv
  BY InitIInv, StepIInv, PTL DEF Spec

\* The variables of driver and chip keep their types.
THEOREM DriverTypeSafety == Spec => []TypeOK
  BY DriverInvariance, PTL DEF IInv

\* A payload is read with the length of the pipe it came in by.
THEOREM DriverReadsWhole == Spec => []PayloadMatchesPipe
  BY DriverInvariance, PTL DEF IInv

\* Whatever became of a send, the radio listens again when it returns.
THEOREM DriverListens == Spec => []NeverLeftDeaf
  BY DriverInvariance, PTL DEF IInv

\* RX_DR is never left over from a payload that is gone.
THEOREM DriverInterruptTrue == Spec => []NoPhantomInterrupt
  BY DriverInvariance, PTL DEF IInv
-----------------------------------------------------------------------------
LEMMA MailboxInitially == Init => Contract!MailboxInit
  BY DEF Init, PoweredOn, Contract!MailboxInit

LEMMA MailboxStep ==
    IInv /\ [Next]_vars => [Contract!MailboxNext]_(Contract!mailbox)
<1> SUFFICES ASSUME IInv, [Next]_vars
             PROVE  Contract!MailboxNext \/ UNCHANGED <<chip.fifo, got, pc # "boot">>
  BY DEF Contract!mailbox
<1>1. /\ chip \in Chips /\ got \in Frame \cup {None}
      /\ pc \notin {"idle", "clear"} => got = None
  BY DEF IInv, TypeOK, HandFree
<1>2. ASSUME NEW f \in Traffic, Arrive(f)
      PROVE  Contract!Accept(f)
  <2>1. f \in Frame /\ CanReceive(chip) /\ chip' = Arrival(chip, f)
    BY <1>2 DEF Arrive
  <2>2. chip'.fifo = Append(chip.fifo, f) /\ Len(chip.fifo) < Depth
    BY <1>1, <2>1, ChipArrival DEF CanReceive
  <2> QED
    BY <1>2, <2>2 DEF Arrive, Contract!Accept
<1>3. CASE Boot
  <2>1. RxFlushed(IrqsCleared(Silent(chip))) \in Chips
        /\ RxFlushed(IrqsCleared(Silent(chip))).fifo = <<>>
    BY <1>1, ChipAccess DEF RxFlushed, IrqsCleared, Silent, Chips
  <2>2. chip'.fifo = <<>>
    BY <1>3, <2>1, ChipRestored DEF Boot
  <2>3. Contract!Restart
    BY <1>3, <2>2 DEF Boot, Contract!Restart
  <2> QED
    BY <2>3 DEF Contract!MailboxNext
<1>4. CASE StartSend \/ StartPoll
  <2>1. chip'.fifo = chip.fifo
    BY <1>1, <1>4, ChipRestored DEF StartSend, StartPoll
  <2>2. pc = "idle" /\ pc' # "boot" /\ got' = None
    BY <1>4 DEF StartSend, StartPoll
  <2>3. CASE got = None
    BY <2>1, <2>2, <2>3
  <2>4. CASE got # None
    BY <2>1, <2>2, <2>4 DEF Contract!Finish, Contract!MailboxNext
  <2> QED
    BY <2>3, <2>4
<1>5. ASSUME NEW sent \in BOOLEAN, EndSend(sent)
      PROVE  UNCHANGED <<chip.fifo, got, pc # "boot">>
  BY <1>1, <1>5, ChipRestored DEF EndSend
<1>6. CASE ReadStatus \/ ReadFifoStatus \/ ReadPipe \/ CheckPipe
           \/ PollAgain \/ PollTimeout
  BY <1>6
     DEF ReadStatus, ReadFifoStatus, ReadPipe, CheckPipe, PollAgain, PollTimeout
<1>7. CASE ReadPayload
  <2>1. ~ RxEmpty(chip) /\ got = None
    BY <1>1, <1>7 DEF ReadPayload, IInv, PayloadMatchesPipe
  <2>2. got' = Head(chip.fifo) /\ chip'.fifo = Tail(chip.fifo)
    BY <1>1, <1>7, <2>1, ChipRead DEF ReadPayload
  <2>3. Contract!Take
    BY <1>7, <2>1, <2>2 DEF ReadPayload, RxEmpty, Contract!Take
  <2> QED
    BY <2>3 DEF Contract!MailboxNext
<1>8. CASE ClearIrqs
  <2>1. chip'.fifo = chip.fifo
    BY <1>1, <1>8 DEF ClearIrqs, IrqsCleared, Chips
  <2> QED
    BY <1>8, <2>1 DEF ClearIrqs
<1>9. CASE Reset
  <2>1. chip'.fifo = chip.fifo
    BY <1>1, <1>9 DEF Reset, Chips
  <2>2. Contract!Crash
    BY <1>9, <2>1 DEF Reset, Contract!Crash
  <2> QED
    BY <2>2 DEF Contract!MailboxNext
<1>10. CASE UNCHANGED vars
  BY <1>10 DEF vars
<1> QED
  BY <1>2, <1>3, <1>4, <1>5, <1>6, <1>7, <1>8, <1>9, <1>10
     DEF Next, DriverStep, Contract!MailboxNext

\* The driver implements the mailbox: every step of driver, air and reset is
\* one step of it, or none.
THEOREM DriverIsMailbox == Spec => ImplementsMailbox
  BY MailboxInitially, MailboxStep, DriverInvariance, PTL
     DEF Spec, ImplementsMailbox, Contract!MailboxSpec
=============================================================================
