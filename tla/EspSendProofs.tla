---------------------------- MODULE EspSendProofs ----------------------------
(***************************************************************************)
(* Proofs about EspSend, for every width of the tick counter, timeout,     *)
(* time on the air and round of the loop that SendAssumption allows.       *)
(***************************************************************************)
EXTENDS EspSend, TLAPS

USE ClockModAssumption, SendAssumption
-----------------------------------------------------------------------------
\* Both operations stay in the range of the counter.
LEMMA ModRange ==
    ASSUME NEW a \in Times, NEW b \in Times
    PROVE  ModAdd(a, b) \in Times /\ ModSub(a, b) \in Times
  BY DEF Times, ModAdd, ModSub
-----------------------------------------------------------------------------
\* What the arithmetic of the steps needs to know of the variables.
LEMMA SendFacts ==
    ASSUME TypeOK
    PROVE  /\ clock \in Nat /\ clock < ClockMod
           /\ deadline \in Nat /\ deadline < ClockMod
           /\ gap \in Nat /\ gap <= MaxGap
           /\ airAge \in Nat /\ airAge <= AirTime
           /\ elapsed \in Nat /\ elapsed <= Timeout + 2 * MaxGap
           /\ onAir \in BOOLEAN /\ txDs \in BOOLEAN
  BY DEF TypeOK, Times, ElapsedCap

LEMMA Zeros ==
    0 \in Times /\ 0 \in 0 .. MaxGap /\ 0 \in 0 .. AirTime /\ 0 \in 0 .. ElapsedCap
  BY DEF Times, ElapsedCap

LEMMA InitIInv == Init => IInv
<1> SUFFICES ASSUME Init PROVE IInv
  OBVIOUS
<1>1. TypeOK
  BY Zeros DEF Init, TypeOK
<1>2. ChipFirst /\ SeenInTime /\ Measured /\ Rounds
  BY DEF Init, ChipFirst, SeenInTime, Measured, Rounds, Polling
<1> QED
  BY <1>1, <1>2 DEF IInv
-----------------------------------------------------------------------------
\* The deadline is computed: no time has passed since, and one that has not
\* wrapped is the sum it stands for.
LEMMA StampStep ==
    ASSUME IInv, Stamp
    PROVE  IInv'
<1> USE DEF IInv
<1>1. clock \in Times /\ Timeout \in Times
  BY DEF TypeOK, Times
<1>2. deadline' \in Times /\ clock' = clock /\ elapsed' = 0 /\ gap' = 0
      /\ UNCHANGED <<onAir, txDs, airAge>>
  BY <1>1, ModRange DEF Stamp
<1>3. TypeOK'
  BY <1>2 DEF Stamp, TypeOK, ElapsedCap
<1>4. deadline' >= Timeout => deadline' = clock + Timeout
  BY <1>1, SendFacts DEF Stamp, ModAdd
<1>5. ChipFirst' /\ SeenInTime'
  BY <1>2, SendFacts DEF ChipFirst, SeenInTime
<1>6. Measured' /\ Rounds'
  BY <1>2, <1>4, SendFacts DEF Measured, Rounds, NotWrapped, ClearOfWrap
<1> QED
  BY <1>3, <1>5, <1>6

\* A round begins only before the deadline.
LEMMA TestStep ==
    ASSUME IInv, Test
    PROVE  IInv'
<1> USE DEF IInv
<1>1. UNCHANGED <<clock, deadline, onAir, txDs, airAge, elapsed>> /\ gap' = 0
      /\ pc = "test"
  BY DEF Test
<1>2. TypeOK'
  BY DEF Test, TypeOK, ElapsedCap
<1>3. ChipFirst' /\ SeenInTime'
  BY <1>1 DEF Test, ChipFirst, SeenInTime
<1>4. CASE InTime /\ pc' = "read"
  <2>1. Measured'
    BY <1>1, <1>4 DEF Measured, Polling, NotWrapped
  <2>2. Rounds'
    BY <1>1, <1>4, SendFacts DEF Rounds, Polling, NotWrapped, ClearOfWrap, InTime
  <2> QED
    BY <1>2, <1>3, <2>1, <2>2
<1>5. CASE pc' = "restore"
  BY <1>2, <1>3, <1>5 DEF Measured, Rounds, Polling
<1> QED
  BY <1>4, <1>5 DEF Test

\* The loop goes on only if it has not seen TX_DS.
LEMMA ReadStep ==
    ASSUME IInv, Read
    PROVE  IInv'
<1> USE DEF IInv
<1>1. UNCHANGED <<clock, deadline, onAir, txDs, gap, airAge, elapsed>>
      /\ pc = "read"
  BY DEF Read
<1>2. TypeOK'
  BY DEF Read, TypeOK, ElapsedCap
<1>3. ChipFirst' /\ SeenInTime'
  BY <1>1 DEF Read, ChipFirst, SeenInTime
<1>4. Measured' /\ Rounds'
  BY <1>1 DEF Measured, Rounds, Polling, NotWrapped, ClearOfWrap
<1> QED
  BY <1>2, <1>3, <1>4

\* A tick: what is compared grows alike, until the counter wraps.
LEMMA TickStep ==
    ASSUME IInv, Tick
    PROVE  IInv'
<1> USE DEF IInv
<1>1. /\ UNCHANGED <<pc, deadline, onAir, txDs>>
      /\ pc # "idle" => gap < MaxGap /\ gap' = gap + 1
      /\ pc = "idle" => gap' = gap
      /\ onAir => airAge < AirTime /\ airAge' = airAge + 1
      /\ ~ onAir => airAge' = airAge
  BY DEF Tick
<1>2. clock' \in Times
      /\ (clock + 1 < ClockMod => clock' = clock + 1)
  BY SendFacts DEF Tick, ModAdd, Times
<1>3. /\ elapsed' \in 0 .. ElapsedCap /\ elapsed' <= elapsed + 1
      /\ Polling /\ elapsed < ElapsedCap => elapsed' = elapsed + 1
      /\ Polling /\ elapsed = ElapsedCap => elapsed' = elapsed
  BY SendFacts DEF Tick, ElapsedCap, Polling
<1>4. TypeOK'
  <2>1. gap' \in 0 .. MaxGap /\ airAge' \in 0 .. AirTime
    BY <1>1, SendFacts
  <2>2. result' = result /\ (elapsed \in 0 .. ElapsedCap)'
    BY <1>3 DEF Tick, ElapsedCap
  <2> QED
    BY <1>1, <1>2, <2>1, <2>2 DEF TypeOK
<1>5. ChipFirst' /\ SeenInTime'
  BY <1>1, <1>3, SendFacts DEF ChipFirst, SeenInTime, ElapsedCap
<1>6. Measured'
  <2> SUFFICES ASSUME Polling, deadline >= Timeout, elapsed' <= Timeout
               PROVE  clock' + Timeout = deadline + elapsed'
    BY <1>1, <1>3, SendFacts DEF Measured, Polling, NotWrapped, ElapsedCap
  <2>1. elapsed < ElapsedCap /\ elapsed' = elapsed + 1
    BY <1>3, SendFacts DEF ElapsedCap
  <2>2. clock + Timeout = deadline + elapsed
    BY <2>1, SendFacts DEF Measured, NotWrapped
  <2>3. clock + 1 < ClockMod
    BY <2>1, <2>2, SendFacts
  <2> QED
    BY <1>2, <2>1, <2>2, <2>3, SendFacts
<1>7. Rounds'
  <2> SUFFICES ASSUME Polling, ClearOfWrap
               PROVE  /\ clock' + Timeout = deadline + elapsed'
                      /\ elapsed' <= Timeout + gap'
    BY <1>1 DEF Rounds, Polling, NotWrapped, ClearOfWrap
  <2>1. clock + Timeout = deadline + elapsed /\ elapsed <= Timeout + gap
    BY DEF Rounds
  <2>2. gap < MaxGap /\ gap' = gap + 1
    BY <1>1 DEF Polling
  <2>3. elapsed < ElapsedCap /\ elapsed' = elapsed + 1
    BY <1>3, <2>1, <2>2, SendFacts DEF ElapsedCap
  <2>4. clock + 1 < ClockMod
    BY <2>1, <2>2, SendFacts DEF ClearOfWrap
  <2> QED
    BY <1>2, <2>1, <2>2, <2>3, <2>4, SendFacts
<1> QED
  BY <1>4, <1>5, <1>6, <1>7

\* Every step of loop, chip and time keeps the invariant.
LEMMA StepIInv == IInv /\ [Next]_vars => IInv'
<1> SUFFICES ASSUME IInv, [Next]_vars PROVE IInv'
  OBVIOUS
<1> USE DEF IInv
<1>1. CASE Start \/ Restore
  <2>1. /\ pc' \in {"idle", "pulsed"} /\ onAir' \in BOOLEAN /\ txDs' = FALSE
        /\ gap' = 0 /\ airAge' = 0 /\ elapsed' = 0
        /\ UNCHANGED <<clock, deadline, result>>
    BY <1>1 DEF Start, Restore
  <2>2. TypeOK'
    BY <2>1, Zeros DEF TypeOK, ElapsedCap
  <2>3. ChipFirst' /\ SeenInTime' /\ Measured' /\ Rounds'
    BY <2>1 DEF ChipFirst, SeenInTime, Measured, Rounds, Polling
  <2> QED
    BY <2>2, <2>3
<1>2. CASE Delay
  <2>1. TypeOK'
    BY <1>2 DEF Delay, TypeOK, ElapsedCap
  <2>2. ChipFirst' /\ SeenInTime' /\ Measured' /\ Rounds'
    BY <1>2 DEF Delay, ChipFirst, SeenInTime, Measured, Rounds, Polling,
                NotWrapped, ClearOfWrap
  <2> QED
    BY <2>1, <2>2
<1>3. CASE Transmitted
  <2>1. TypeOK' /\ ChipFirst'
    BY <1>3 DEF Transmitted, TypeOK, ElapsedCap, ChipFirst
  <2>2. SeenInTime'
    BY <1>3, SendFacts DEF Transmitted, ChipFirst, SeenInTime
  <2>3. Measured' /\ Rounds'
    BY <1>3 DEF Transmitted, Measured, Rounds, Polling, NotWrapped, ClearOfWrap
  <2> QED
    BY <2>1, <2>2, <2>3
<1>4. CASE UNCHANGED vars
  BY <1>4 DEF vars, TypeOK, ElapsedCap, ChipFirst, SeenInTime, Measured, Rounds,
              Polling, NotWrapped, ClearOfWrap
<1> QED
  BY <1>1, <1>2, <1>3, <1>4, StampStep, TestStep, ReadStep, TickStep
     DEF Next, SendStep
-----------------------------------------------------------------------------
\* The strengthening holds throughout every send.
THEOREM SendInvariance == Spec => []IInv
  BY InitIInv, StepIInv, PTL DEF Spec

\* Every variable of a send keeps its type.
THEOREM SendTypeSafety == Spec => []TypeOK
<1>1. IInv => TypeOK
  BY DEF IInv
<1> QED
  BY <1>1, SendInvariance, PTL

\* Whatever the chip does, the loop is held up no longer than the timeout and
\* one round, if the deadline is clear of the wrap (nrf24_drv.c:447-458).
THEOREM SendIsBounded == Spec => []SendBounded
<1>1. IInv => SendBounded
  BY SendFacts DEF IInv, Rounds, SendBounded
<1> QED
  BY <1>1, SendInvariance, PTL

\* A send is reported as failed only if the chip has not sent the packet and
\* is not sending it either, unless the deadline has wrapped.
THEOREM FailureIsTrue == Spec => NoFalseFailure
<1>1. IInv /\ [Next]_vars
        => [pc = "test" /\ pc' = "restore" /\ NotWrapped => ~ txDs /\ ~ onAir]_vars
  <2> SUFFICES ASSUME IInv, Next, pc = "test", pc' = "restore", NotWrapped
               PROVE  ~ txDs /\ ~ onAir
    OBVIOUS
  <2>1. Test
    BY DEF Next, SendStep, Start, Stamp, Read, Delay, Restore, Transmitted, Tick
  <2>2. deadline < clock
    BY <2>1, SendFacts DEF Test, InTime, IInv
  <2>3. Timeout < elapsed
    BY <2>2, SendFacts DEF IInv, Measured, Polling
  <2>4. ~ onAir
    BY <2>3, SendFacts DEF IInv, ChipFirst
  <2>5. ~ txDs
    BY <2>3, SendFacts DEF IInv, SeenInTime
  <2> QED
    BY <2>4, <2>5
<1> QED
  BY <1>1, SendInvariance, PTL DEF Spec, NoFalseFailure
=============================================================================
