----------------------------- MODULE RfTestProofs -----------------------------
(***************************************************************************)
(* Proofs about the RF test: first the RP2040's loop alone, for every      *)
(* clock width, interval, window and loop time that ClockAssumption        *)
(* allows, then the two boards together.                                   *)
(***************************************************************************)
EXTENDS RfTestLink, SequenceTheorems, TLAPS
-----------------------------------------------------------------------------
\* Both operations stay in the range of the counter.
LEMMA ModRange ==
    ASSUME NEW a \in Times, NEW b \in Times
    PROVE  ModAdd(a, b) \in Times /\ ModSub(a, b) \in Times
  BY ClockModAssumption DEF Times, ModAdd, ModSub

\* A tick of the clock adds one to every difference that is not about to wrap.
LEMMA ModTick ==
    ASSUME NEW a \in Times, NEW b \in Times, ModSub(a, b) + 1 < ClockMod
    PROVE  ModSub(ModAdd(a, 1), b) = ModSub(a, b) + 1
  BY ClockModAssumption DEF Times, ModAdd, ModSub

\* With a, b, c in order of time, the differences add up.
LEMMA ModBetween ==
    ASSUME NEW a \in Times, NEW b \in Times, NEW c \in Times,
           ModSub(c, b) <= ModSub(c, a)
    PROVE  ModSub(b, a) = ModSub(c, a) - ModSub(c, b)
  BY ClockModAssumption DEF Times, ModSub

\* The signed 32-bit comparison of the timeout is right as long as sample and
\* deadline are less than half the counter's range apart.
LEMMA SignedCompare ==
    ASSUME NEW a \in Times, NEW n \in Times, NEW w \in Times,
           2 * w < ClockMod, 2 * ModSub(n, a) < ClockMod
    PROVE  2 * ModSub(n, ModAdd(a, w)) < ClockMod <=> w <= ModSub(n, a)
  BY ClockModAssumption DEF Times, ModAdd, ModSub
-----------------------------------------------------------------------------
\* The next sequence number is one.
LEMMA NextSeqRange ==
    ASSUME NEW s \in Seqs
    PROVE  NextSeq(s) \in Seqs
  BY SeqModAssumption DEF Seqs, NextSeq
-----------------------------------------------------------------------------
\* The loop starts in the invariant.
LEMMA InitIInv == Init => IInv
<1> USE SeqModAssumption, ClockModAssumption, ClockAssumption
<1> SUFFICES ASSUME Init
             PROVE  IInv
  OBVIOUS
<1> clock \in Times /\ nowMs = clock /\ Interval \in Times
  BY DEF Init, Times
<1>1. TypeOK
  <2>1. lastRf \in Times
    BY ModRange DEF Init
  <2>2. 0 \in Times /\ 0 \in Seqs /\ 0 \in 0 .. MaxLoop /\ Interval \in 0 .. AgeCap
    BY DEF Times, Seqs, AgeCap
  <2> QED
    BY <2>1, <2>2 DEF Init, TypeOK, Steps
<1>2. ClocksAgree
  BY DEF Init, ClocksAgree, Times, ModSub
<1>3. AgeBounds /\ OpenAttempt
  BY DEF Init, AgeBounds, OpenAttempt, SampledAge
<1> QED
  BY <1>1, <1>2, <1>3 DEF IInv

\* SampledAge is what the code computes as now_ms - last_rf_test_ms.
LEMMA SampleDifference ==
    ASSUME IInv
    PROVE  ModSub(nowMs, lastRf) = SampledAge
<1> USE SeqModAssumption, ClockModAssumption, ClockAssumption
<1>1. clock \in Times /\ nowMs \in Times /\ lastRf \in Times
  BY DEF IInv, TypeOK
<1>2. ModSub(clock, nowMs) <= ModSub(clock, lastRf)
  BY DEF IInv, ClocksAgree
<1> QED
  BY <1>1, <1>2, ModBetween DEF IInv, ClocksAgree, SampledAge

\* For an open attempt the test of line 306 compares true times.
LEMMA ExpiredExact ==
    ASSUME IInv, pending, pc = "check"
    PROVE  AckExpired <=> AckWindow <= SampledAge
<1> USE SeqModAssumption, ClockModAssumption, ClockAssumption
<1>1. nowMs \in Times /\ lastRf \in Times /\ AckWindow \in Times
  BY DEF IInv, TypeOK, Times
<1>2. deadline = ModAdd(lastRf, AckWindow) /\ SampledAge < AckWindow + MaxLoop
  BY DEF IInv, OpenAttempt
<1>3. ModSub(nowMs, lastRf) = SampledAge
  BY SampleDifference
<1>4. SampledAge \in Int
  BY DEF IInv, TypeOK, SampledAge, AgeCap
<1>5. 2 * AckWindow < ClockMod /\ 2 * ModSub(nowMs, lastRf) < ClockMod
  BY <1>2, <1>3, <1>4
<1> QED
  BY <1>1, <1>2, <1>3, <1>5, SignedCompare DEF AckExpired

\* Every step of the loop, and the passing of time, keeps the invariant.
LEMMA StepIInv == IInv /\ [Next]_vars => IInv'
<1> USE SeqModAssumption, ClockModAssumption, ClockAssumption
<1> SUFFICES ASSUME IInv, [Next]_vars
             PROVE  IInv'
  OBVIOUS
<1> USE DEF IInv
<1>1. CASE Top
  <2>1. TypeOK'
    BY <1>1 DEF Top, TypeOK, Steps, attempt
  <2>2. ClocksAgree'
    BY <1>1 DEF Top, ClocksAgree, TypeOK, Times, ModSub, AgeCap
  <2>3. AgeBounds'
    <3>1. age <= Interval + MaxLoop /\ age \in Nat
      BY <1>1 DEF Top, AgeBounds, SampledAge, TypeOK, AgeCap
    <3>2. SampledAge' = age
      BY <1>1, <3>1 DEF Top, SampledAge
    <3>3. pc' = IF age >= Interval THEN "send" ELSE "recv"
      BY <1>1 DEF Top, SendDue, ClocksAgree
    <3> QED
      BY <3>1, <3>2, <3>3 DEF AgeBounds
  <2>4. OpenAttempt'
    <3> SUFFICES ASSUME pending'
                 PROVE  OpenAttempt'
      BY DEF OpenAttempt
    <3>1. pending /\ SampledAge < AckWindow /\ seq = NextSeq(expected)
          /\ deadline = ModAdd(lastRf, AckWindow)
      BY <1>1 DEF Top, OpenAttempt, attempt
    <3>2. age \in Nat /\ loopMs \in 0 .. MaxLoop
      BY DEF TypeOK, AgeCap
    <3>3. SampledAge' = age
      BY <1>1, <3>2 DEF Top, SampledAge
    <3>4. SampledAge' < AckWindow + MaxLoop /\ age < Interval
      BY <3>1, <3>2, <3>3 DEF SampledAge
    <3>5. pc' = "recv"
      BY <1>1, <3>2, <3>4 DEF Top, SendDue, ClocksAgree
    <3> QED
      BY <1>1, <3>1, <3>4, <3>5 DEF Top, OpenAttempt, attempt
  <2> QED
    BY <2>1, <2>2, <2>3, <2>4
<1>2. ASSUME NEW sent \in BOOLEAN, Send(sent)
      PROVE  IInv'
  <2>0. clock \in Times /\ nowMs \in Times /\ AckWindow \in Times /\ ~ pending
    BY <1>2 DEF Send, OpenAttempt, TypeOK, Times
  <2>1. TypeOK'
    <3>1. NextSeq(seq) \in Seqs /\ ModAdd(nowMs, AckWindow) \in Times
      BY <2>0, NextSeqRange, ModRange DEF TypeOK
    <3>2. loopMs \in 0 .. AgeCap
      BY DEF TypeOK, AgeCap
    <3> QED
      BY <1>2, <3>1, <3>2 DEF Send, TypeOK, Steps
  <2>2. ClocksAgree'
    BY <1>2 DEF Send, ClocksAgree, TypeOK
  <2>3. SampledAge' = 0
    BY <1>2 DEF Send, SampledAge, TypeOK
  <2>4. AgeBounds'
    BY <1>2, <2>3 DEF Send, AgeBounds
  <2>5. OpenAttempt'
    <3>1. pc' = "recv" /\ SampledAge' < AckWindow + MaxLoop
      BY <1>2, <2>3 DEF Send
    <3>2. CASE sent
      BY <1>2, <3>1, <3>2 DEF Send, OpenAttempt
    <3>3. CASE ~ sent
      <4> ~ pending'
        BY <1>2, <2>0, <3>3 DEF Send
      <4> QED
        BY DEF OpenAttempt
    <3> QED
      BY <3>2, <3>3
  <2> QED
    BY <2>1, <2>2, <2>4, <2>5
<1>3. ASSUME NEW f \in Frame, Recv(f)
      PROVE  IInv'
  <2>1. TypeOK'
    BY <1>3 DEF Recv, TypeOK, Steps, timers
  <2>2. ClocksAgree' /\ AgeBounds'
    BY <1>3 DEF Recv, ClocksAgree, AgeBounds, SampledAge, timers
  <2>3. OpenAttempt'
    BY <1>3 DEF Recv, OpenAttempt, SampledAge, timers
  <2> QED
    BY <2>1, <2>2, <2>3
<1>4. CASE RecvNothing
  BY <1>4 DEF RecvNothing, TypeOK, Steps, ClocksAgree, AgeBounds, OpenAttempt,
              SampledAge, timers, attempt
<1>5. CASE Check
  <2>1. TypeOK'
    BY <1>5 DEF Check, TypeOK, Steps, timers
  <2>2. ClocksAgree' /\ AgeBounds'
    BY <1>5 DEF Check, ClocksAgree, AgeBounds, SampledAge, timers
  <2>3. OpenAttempt'
    <3> SUFFICES ASSUME pending'
                 PROVE  OpenAttempt'
      BY DEF OpenAttempt
    <3>1. pending /\ ~ AckExpired /\ pc = "check"
      BY <1>5 DEF Check
    <3>2. SampledAge < AckWindow
      BY <3>1, ExpiredExact DEF SampledAge, TypeOK, AgeCap
    <3> QED
      BY <1>5, <3>1, <3>2 DEF Check, OpenAttempt, SampledAge, timers
  <2> QED
    BY <2>1, <2>2, <2>3
<1>6. CASE Sleep
  BY <1>6 DEF Sleep, TypeOK, Steps, ClocksAgree, AgeBounds, OpenAttempt,
              SampledAge, timers, attempt
<1>7. CASE Tick
  <2>0. /\ clock \in Times /\ nowMs \in Times /\ lastRf \in Times
        /\ age \in Nat /\ loopMs \in 0 .. MaxLoop /\ loopMs < MaxLoop
    BY <1>7 DEF Tick, TypeOK, AgeCap
  <2>1. SampledAge <= Interval + MaxLoop
    BY <2>0 DEF AgeBounds, SampledAge, TypeOK, Steps
  <2>2. age + 1 < AgeCap /\ age' = age + 1 /\ loopMs' = loopMs + 1
    BY <1>7, <2>0, <2>1 DEF Tick, SampledAge, AgeCap
  <2>3. TypeOK'
    <3>1. clock' \in Times
      <4>1. 1 \in Times
        BY DEF Times
      <4> QED
        BY <1>7, <2>0, <4>1, ModRange DEF Tick
    <3>2. loopMs' \in 0 .. MaxLoop /\ age' \in 0 .. AgeCap
      BY <2>0, <2>2 DEF AgeCap
    <3> QED
      BY <1>7, <3>1, <3>2 DEF Tick, TypeOK, attempt
  <2>4. ClocksAgree'
    <3>1. age + 1 < ClockMod /\ loopMs + 1 < ClockMod
      BY <2>0, <2>2 DEF AgeCap
    <3>2. ModSub(clock, nowMs) = loopMs /\ ModSub(clock, lastRf) = age
          /\ loopMs <= age
      BY DEF ClocksAgree
    <3>3. ModSub(clock', nowMs) = loopMs + 1
      BY <1>7, <2>0, <3>1, <3>2, ModTick DEF Tick
    <3>4. ModSub(clock', lastRf) = age + 1
      BY <1>7, <2>0, <3>1, <3>2, ModTick DEF Tick
    <3> QED
      BY <1>7, <2>0, <2>2, <3>2, <3>3, <3>4 DEF Tick, ClocksAgree
  <2>5. SampledAge' = SampledAge
    BY <2>0, <2>2 DEF SampledAge
  <2> QED
    BY <1>7, <2>3, <2>4, <2>5 DEF Tick, AgeBounds, OpenAttempt, attempt
<1>8. CASE UNCHANGED vars
  BY <1>8 DEF vars, TypeOK, ClocksAgree, AgeBounds, OpenAttempt, SampledAge
<1> QED
  BY <1>1, <1>2, <1>3, <1>4, <1>5, <1>6, <1>7, <1>8 DEF Next, LoopStep
-----------------------------------------------------------------------------
\* The inductive invariant: in every reachable state the modular differences
\* the loop computes are true times, and each place bounds the attempt's age.
THEOREM Invariance == Spec => []IInv
  BY InitIInv, StepIInv, PTL DEF Spec

\* The loop's variables keep their types (main.c:151-157).
THEOREM TypeCorrect == Spec => []TypeOK
<1>1. IInv => TypeOK
  BY DEF IInv
<1> QED
  BY <1>1, Invariance, PTL

\* No attempt is overwritten while it is open: one window plus one turn of the
\* loop fits into an interval, so its timeout test is reached first.
THEOREM AttemptsResolved == Spec => []EverySendResolved
<1>1. IInv => EverySendResolved
  BY DEF IInv, OpenAttempt, EverySendResolved
<1> QED
  BY <1>1, Invariance, PTL

\* The pace of the DATA packets, wherever the counter wraps.
THEOREM SendPace == Spec => []SendPeriod
<1>1. IInv => SendPeriod
  BY DEF IInv, AgeBounds, SendPeriod
<1> QED
  BY <1>1, Invariance, PTL

\* An open attempt is the latest one sent.
THEOREM AttemptIsLatest == Spec => []AttemptConsistent
<1>1. IInv => AttemptConsistent
  BY DEF IInv, OpenAttempt, AttemptConsistent
<1> QED
  BY <1>1, Invariance, PTL

\* The timeout test of line 306 is exact on the sample it uses.
THEOREM TimeoutIsExact == Spec => TimeoutExact
<1> USE SeqModAssumption, ClockModAssumption, ClockAssumption
<1>1. IInv /\ [Next]_vars
        => [pc = "check" /\ pc' = "sleep" /\ pending
              => (pending' <=> SampledAge < AckWindow)]_vars
  <2> SUFFICES ASSUME IInv, [Next]_vars, pc = "check", pc' = "sleep", pending
               PROVE  pending' <=> SampledAge < AckWindow
    OBVIOUS
  <2>1. AckExpired <=> AckWindow <= SampledAge
    BY ExpiredExact
  <2>2. Check
    BY DEF Next, LoopStep, Top, Send, Recv, RecvNothing, Sleep, Tick, vars
  <2>3. SampledAge \in Int
    BY DEF IInv, TypeOK, SampledAge, AgeCap
  <2>4. pending' <=> ~ AckExpired
    BY <2>2 DEF Check
  <2> QED
    BY <2>1, <2>3, <2>4
<1> QED
  BY <1>1, Invariance, PTL DEF Spec, TimeoutExact

\* An ACK that ends an attempt is at most the window and two turns old.
THEOREM LateAckIsBounded == Spec => LateAckBounded
<1> USE SeqModAssumption, ClockModAssumption, ClockAssumption
<1>1. IInv /\ [Next]_vars
        => [pc = "recv" /\ pending /\ ~ pending'
              => age < AckWindow + 2 * MaxLoop]_vars
  <2> SUFFICES ASSUME IInv, pc = "recv", pending
               PROVE  age < AckWindow + 2 * MaxLoop
    OBVIOUS
  <2>1. SampledAge < AckWindow + MaxLoop /\ loopMs \in 0 .. MaxLoop
        /\ age \in Nat
    BY DEF IInv, OpenAttempt, TypeOK, AgeCap
  <2> QED
    BY <2>1 DEF SampledAge
<1> QED
  BY <1>1, Invariance, PTL DEF Spec, LateAckBounded
-----------------------------------------------------------------------------
(* The link.  What was proved of the loop alone holds here as well: the     *)
(* radios only choose which payload a poll returns, and a reset leads back  *)
(* to the initial values.                                                   *)
USE LinkAssumption, AirAssumption

\* Queues stay queues, whatever happens to them.
LEMMA OutdatedIsQueue ==
    ASSUME NEW q \in Queues
    PROVE  Outdated(q) \in Queues
<1>1. q \in [1 .. Len(q) -> Packet] /\ Len(q) \in Nat /\ DOMAIN q = 1 .. Len(q)
  BY DEF Queues
<1>2. Outdated(q) \in [1 .. Len(q) -> Packet]
  BY <1>1 DEF Outdated, Packet
<1>3. Outdated(q) \in Seq(Packet)
  BY <1>1, <1>2
<1>4. Len(Outdated(q)) = Len(q)
  BY <1>1, <1>2, <1>3
<1> QED
  BY <1>3, <1>4 DEF Queues

LEMMA ArrivalsAreQueues ==
    ASSUME NEW q \in Queues, NEW p \in Packet, NEW lossy,
           NEW r \in Arrivals(q, p, lossy)
    PROVE  r \in Queues
<1>1. q \in Seq(Packet) /\ Len(q) \in Nat
  BY DEF Queues
<1>2. CASE r = q
  BY <1>2
<1>3. CASE r # q
  <2>1. r = Append(q, p) /\ Len(q) < Depth
    BY <1>3 DEF Arrivals
  <2> QED
    BY <1>1, <2>1, AppendProperties DEF Queues
<1> QED
  BY <1>2, <1>3

LEMMA TailIsQueue ==
    ASSUME NEW q \in Queues, q # <<>>
    PROVE  Head(q) \in Packet /\ Tail(q) \in Queues
  BY HeadTailProperties DEF Queues

LEMMA EmptyIsQueue == <<>> \in Queues
  BY EmptySeq DEF Queues
-----------------------------------------------------------------------------
QueuesOK == rpFifo \in Queues /\ espFifo \in Queues

\* A step of the link is a step of the RP2040's loop, a stutter of it, or its
\* reset to the initial values.
LEMMA LinkStep == QueuesOK /\ [LinkNext]_linkVars => [Next]_vars \/ Init'
<1> SUFFICES ASSUME QueuesOK, [LinkNext]_linkVars
             PROVE  [Next]_vars \/ Init'
  OBVIOUS
<1>1. CASE RpQuiet
  BY <1>1 DEF RpQuiet, Next, LoopStep
<1>2. CASE RpPoll
  <2>1. CASE rpFifo # <<>> /\ Recv(Head(rpFifo).frame)
    <3>1. Head(rpFifo).frame \in Frame
      BY <2>1, TailIsQueue DEF QueuesOK, Packet
    <3> QED
      BY <2>1, <3>1 DEF Next, LoopStep
  <2>2. CASE RecvNothing
    BY <2>2 DEF Next, LoopStep
  <2> QED
    BY <1>2, <2>1, <2>2 DEF RpPoll
<1>3. ASSUME NEW sent \in BOOLEAN, RpSend(sent)
      PROVE  [Next]_vars
  BY <1>3 DEF RpSend, Next, LoopStep
<1>4. CASE RpReset
  BY <1>4 DEF RpReset, Init
<1>5. CASE Pass
  BY <1>5 DEF Pass, Next
<1>6. CASE RpBoot \/ EspTurn \/ EspIdle \/ EspFlush \/ ForeignPacket
  BY <1>6 DEF RpBoot, EspTurn, EspIdle, EspFlush, ForeignPacket
<1>7. CASE UNCHANGED linkVars
  BY <1>7 DEF linkVars
<1> QED
  BY <1>1, <1>2, <1>3, <1>4, <1>5, <1>6, <1>7 DEF LinkNext, RpStep, EspStep

\* The radios' queues keep their types and their capacity.
LEMMA QueuesStep == IInv /\ QueuesOK /\ [LinkNext]_linkVars => QueuesOK'
<1> SUFFICES ASSUME IInv, QueuesOK, [LinkNext]_linkVars
             PROVE  QueuesOK'
  OBVIOUS
<1> USE DEF QueuesOK
<1>1. CASE RpQuiet \/ EspIdle \/ Pass \/ UNCHANGED linkVars
  BY <1>1 DEF RpQuiet, EspIdle, Pass, radios, linkVars
<1>2. CASE RpPoll
  BY <1>2, TailIsQueue DEF RpPoll
<1>3. ASSUME NEW sent \in BOOLEAN, RpSend(sent)
      PROVE  QueuesOK'
  <2>1. rpFifo' \in Queues /\ Outdated(espFifo) \in Queues
    BY <1>3, OutdatedIsQueue DEF RpSend
  <2> DEFINE data == [frame |-> DataFrame(seq), fresh |-> TRUE]
  <2>2. data \in Packet
    BY DEF IInv, TypeOK, Packet, Frame, DataFrame, Kinds
  <2>3. espFifo' \in Arrivals(Outdated(espFifo), data, env.lossy)
                           \cup {Outdated(espFifo)}
    BY <1>3 DEF RpSend
  <2> HIDE DEF data
  <2> QED
    BY <2>1, <2>2, <2>3, ArrivalsAreQueues
<1>4. CASE RpReset
  BY <1>4, OutdatedIsQueue DEF RpReset
<1>5. CASE EspTurn
  <2> DEFINE p == Head(espFifo)
             ack == [frame |-> AckFor(p.frame), fresh |-> p.fresh]
  <2>1. p \in Packet /\ Tail(espFifo) \in Queues
    BY <1>5, TailIsQueue DEF EspTurn
  <2>2. ack \in Packet
    BY <2>1 DEF Packet, Frame, AckFor, Kinds
  <2>3. rpFifo' \in Arrivals(rpFifo, ack, env.lossy) /\ espFifo' = Tail(espFifo)
    BY <1>5 DEF EspTurn
  <2> HIDE DEF p, ack
  <2> QED
    BY <2>1, <2>2, <2>3, ArrivalsAreQueues
<1>6. CASE ForeignPacket
  <2> DEFINE p == [frame |-> Foreign, fresh |-> FALSE]
  <2>1. p \in Packet
    <3>1. 0 \in Seqs
      BY SeqModAssumption DEF Seqs
    <3> QED
      BY <3>1 DEF Packet, Frame, Foreign, Kinds
  <2>2. rpFifo' = Append(rpFifo, p) /\ Len(rpFifo) < Depth /\ espFifo' = espFifo
    BY <1>6 DEF ForeignPacket
  <2> HIDE DEF p
  <2> QED
    BY <2>1, <2>2, AppendProperties DEF Queues
<1>7. CASE RpBoot \/ EspFlush
  BY <1>7, EmptyIsQueue DEF RpBoot, EspFlush
<1> QED
  BY <1>1, <1>2, <1>3, <1>4, <1>5, <1>6, <1>7 DEF LinkNext, RpStep, EspStep
-----------------------------------------------------------------------------
\* The invariant of the RP2040's loop survives lost, late and foreign packets
\* and resets of either board.
THEOREM LinkInvariance == LinkSpec => [](IInv /\ QueuesOK)
<1>1. LinkInit => IInv /\ QueuesOK
  BY InitIInv, EmptyIsQueue DEF LinkInit, QueuesOK
<1>2. IInv /\ QueuesOK /\ [LinkNext]_linkVars => (IInv /\ QueuesOK)'
  <2> SUFFICES ASSUME IInv, QueuesOK, [LinkNext]_linkVars
               PROVE  IInv' /\ QueuesOK'
    OBVIOUS
  <2>1. Init' => IInv'
    BY InitIInv, PTL
  <2>2. [Next]_vars \/ Init'
    BY LinkStep
  <2> QED
    BY <2>1, <2>2, StepIInv, QueuesStep
<1> QED
  BY <1>1, <1>2, PTL DEF LinkSpec

\* On the link, too, no attempt is overwritten while it is open.
THEOREM LinkAttemptsResolved == LinkSpec => []EverySendResolved
<1>1. IInv /\ QueuesOK => EverySendResolved
  BY DEF IInv, OpenAttempt, EverySendResolved
<1> QED
  BY <1>1, LinkInvariance, PTL

\* Types of the link's own variables; the rest is in LinkInvariance.
TurnsOK ==
    /\ rpUp \in BOOLEAN /\ bootMs \in 0 .. BootTime
    /\ espSince \in 0 .. EspPeriod /\ env \in Environments

LEMMA TurnsStep == TurnsOK /\ [LinkNext]_linkVars => TurnsOK'
<1> SUFFICES ASSUME TurnsOK, [LinkNext]_linkVars PROVE TurnsOK'
  OBVIOUS
<1> USE DEF TurnsOK
<1>1. CASE RpQuiet \/ RpPoll
  BY <1>1 DEF RpQuiet, RpPoll
<1>2. ASSUME NEW sent \in BOOLEAN, RpSend(sent)
      PROVE  TurnsOK'
  BY <1>2 DEF RpSend
<1>3. CASE RpBoot
  BY <1>3 DEF RpBoot
<1>4. CASE RpReset
  <2>1. 0 \in 0 .. BootTime
    OBVIOUS
  <2>2. rpUp' = FALSE /\ bootMs' = 0 /\ espSince' = espSince /\ env' = env
    BY <1>4 DEF RpReset
  <2> QED
    BY <2>1, <2>2
<1>5. CASE EspTurn \/ EspIdle \/ EspFlush \/ ForeignPacket
  BY <1>5 DEF EspTurn, EspIdle, EspFlush, ForeignPacket
<1>6. CASE Pass
  <2>1. rpUp' = rpUp /\ env' = env /\ espSince' \in 0 .. EspPeriod
    BY <1>6 DEF Pass, Environment
  <2>2. bootMs' \in 0 .. BootTime
    BY <1>6 DEF Pass
  <2> QED
    BY <2>1, <2>2
<1>7. CASE UNCHANGED linkVars
  BY <1>7 DEF linkVars
<1> QED
  BY <1>1, <1>2, <1>3, <1>4, <1>5, <1>6, <1>7 DEF LinkNext, RpStep, EspStep

\* Every variable of the link keeps its type.
THEOREM LinkTypeSafety == LinkSpec => []LinkTypeOK
<1>1. LinkInit => TurnsOK
  BY DEF LinkInit, TurnsOK
<1>2. LinkSpec => []TurnsOK
  BY <1>1, TurnsStep, PTL DEF LinkSpec
<1>3. IInv /\ QueuesOK /\ TurnsOK => LinkTypeOK
  BY DEF IInv, QueuesOK, TurnsOK, LinkTypeOK
<1> QED
  BY <1>2, <1>3, LinkInvariance, PTL
-----------------------------------------------------------------------------
(* What is at which place of a queue.                                      *)
LEMMA PacketAt ==
    ASSUME NEW q \in Queues
    PROVE  /\ Len(q) \in 0 .. Depth
           /\ \A i \in 1 .. Len(q) : q[i] \in Packet /\ q[i].frame \in Frame
                                     /\ q[i].frame.seq \in Seqs
<1>1. q \in Seq(Packet) /\ Len(q) \in Nat /\ Len(q) <= Depth
  BY DEF Queues
<1>2. ASSUME NEW i \in 1 .. Len(q)
      PROVE  q[i] \in Packet /\ q[i].frame \in Frame /\ q[i].frame.seq \in Seqs
  <2>1. q[i] \in Packet
    BY <1>1, ElementOfSeq
  <2> QED
    BY <2>1 DEF Packet, Frame
<1> QED
  BY <1>1, <1>2

LEMMA OutdatedAt ==
    ASSUME NEW q \in Queues
    PROVE  /\ Len(Outdated(q)) = Len(q)
           /\ \A i \in 1 .. Len(q) : Outdated(q)[i] = [q[i] EXCEPT !.fresh = FALSE]
<1>1. Len(q) \in Nat /\ DOMAIN q = 1 .. Len(q)
  BY DEF Queues
<1>2. Outdated(q) \in Seq(Packet) /\ DOMAIN Outdated(q) = 1 .. Len(q)
  BY <1>1, OutdatedIsQueue DEF Queues, Outdated
<1>3. Len(Outdated(q)) = Len(q)
  BY <1>1, <1>2, LenProperties
<1> QED
  BY <1>1, <1>3 DEF Outdated

LEMMA TailAt ==
    ASSUME NEW q \in Queues, q # <<>>
    PROVE  /\ 1 \in 1 .. Len(q) /\ Head(q) = q[1]
           /\ Len(Tail(q)) = Len(q) - 1
           /\ \A i \in 1 .. Len(Tail(q)) :
                 Tail(q)[i] = q[i + 1] /\ i + 1 \in 1 .. Len(q)
<1>1. q \in Seq(Packet) /\ Len(q) \in Nat /\ Len(q) # 0
  BY EmptySeq DEF Queues
<1> QED
  BY <1>1, HeadTailProperties

LEMMA AppendAt ==
    ASSUME NEW q \in Queues, NEW p \in Packet
    PROVE  /\ Len(Append(q, p)) = Len(q) + 1
           /\ \A i \in 1 .. Len(q) : Append(q, p)[i] = q[i]
           /\ Append(q, p)[Len(q) + 1] = p
<1>1. q \in Seq(Packet) /\ Len(q) \in Nat
  BY DEF Queues
<1> QED
  BY <1>1, AppendProperties

\* A packet that arrives comes last; a queue that is full, or a lossy air, may
\* lose it.
LEMMA ArrivalsAt ==
    ASSUME NEW q \in Queues, NEW p \in Packet, NEW lossy,
           NEW r \in Arrivals(q, p, lossy)
    PROVE  \/ r = q /\ (lossy \/ Len(q) = Depth)
           \/ /\ Len(q) < Depth /\ Len(r) = Len(q) + 1
              /\ \A i \in 1 .. Len(q) : r[i] = q[i]
              /\ r[Len(q) + 1] = p
<1>1. CASE r = q
  BY <1>1 DEF Arrivals
<1>2. CASE r # q
  <2>1. r = Append(q, p) /\ Len(q) < Depth
    BY <1>2 DEF Arrivals
  <2> QED
    BY <2>1, AppendAt
<1> QED
  BY <1>1, <1>2
-----------------------------------------------------------------------------
(* Sequence numbers and the age of packets.                                *)
LEMMA Multiples ==
    ASSUME NEW a \in Int, NEW c \in Nat
    PROVE  /\ a * c \in Int
           /\ (a + 1) * c = a * c + c /\ (a - 1) * c = a * c - c
           /\ \A b \in Int : a <= b => a * c <= b * c
<1>1. a * c \in Int /\ (a + 1) * c = a * c + c /\ (a - 1) * c = a * c - c
  OBVIOUS
<1>2. ASSUME NEW b \in Int, a <= b PROVE a * c <= b * c
  <2>1. 0 <= (b - a) * c
    BY <1>2
  <2>2. (b - a) * c = b * c - a * c
    OBVIOUS
  <2>3. a * c \in Int /\ b * c \in Int
    OBVIOUS
  <2> QED
    BY <2>1, <2>2, <2>3
<1> QED
  BY <1>1, <1>2

LEMMA BehindRange ==
    ASSUME NEW s \in Seqs, NEW n \in Seqs
    PROVE  Behind(s, n) \in 1 .. SeqMod
  BY SeqModAssumption DEF Behind, Seqs

\* A new attempt puts every number one further behind, until it comes round.
LEMMA BehindNext ==
    ASSUME NEW s \in Seqs, NEW n \in Seqs
    PROVE  /\ Behind(n, NextSeq(n)) = 1
           /\ Behind(s, n) # SeqMod => Behind(s, NextSeq(n)) = Behind(s, n) + 1
  BY SeqModAssumption DEF Behind, NextSeq, Seqs

\* A packet waits as long as it gets older.
LEMMA StillUnderWay ==
    ASSUME NEW p \in Packet, NEW n \in Seqs, NEW a \in Int, NEW w \in Int,
           NEW a2 \in Int, NEW w2 \in Int,
           p.frame.seq \in Seqs,
           UnderWay(p, n, a, w), a2 + w2 <= a + w
    PROVE  UnderWay(p, n, a2, w2)
<1> DEFINE b == Behind(p.frame.seq, n)
<1>1. b \in Int /\ Lifetime \in Int
  BY BehindRange, SeqModAssumption, ClockAssumption DEF Lifetime
<1>2. (b - 1) * Interval \in Int
  BY <1>1, ClockAssumption
<1>3. (b - 1) * Interval + a + w <= Lifetime
  BY DEF UnderWay
<1>4. (b - 1) * Interval + a2 + w2 <= Lifetime
  <2> HIDE DEF b
  <2> QED
    BY <1>1, <1>2, <1>3
<1> QED
  BY <1>4 DEF UnderWay

\* With the next attempt it is of an earlier one, and its number still tells so.
LEMMA Overtaken ==
    ASSUME NEW p \in Packet, NEW n \in Seqs, NEW a \in Int, NEW w \in Nat,
           NEW l \in Nat, NEW w2 \in Int,
           p.frame.seq \in Seqs,
           UnderWay(p, n, a, w), Interval + l <= a, w2 <= w
    PROVE  UnderWay([p EXCEPT !.fresh = FALSE], NextSeq(n), l, w2)
<1> DEFINE b == Behind(p.frame.seq, n)
           later == [p EXCEPT !.fresh = FALSE]
<1>1. b \in 1 .. SeqMod /\ Lifetime \in Int /\ SeqMod \in Int
  BY BehindRange, SeqModAssumption, ClockAssumption DEF Lifetime
<1>2. (b - 1) * Interval + a + w <= Lifetime
  BY DEF UnderWay
<1>3. later.frame = p.frame /\ later.fresh = FALSE
  BY DEF Packet
<1>4. b # SeqMod => Behind(p.frame.seq, NextSeq(n)) = b + 1
  BY BehindNext
<1> HIDE DEF b, later
<1>5. b * Interval \in Int /\ (b - 1) * Interval = b * Interval - Interval
  BY <1>1, Multiples, ClockAssumption
<1>6. b * Interval + l + w2 <= Lifetime
  BY <1>1, <1>2, <1>5, ClockAssumption
<1>7. b # SeqMod
  BY <1>1, <1>2, <1>5, ClockAssumption, NumbersAssumption
<1>8. (b + 1) - 1 = b /\ b + 1 # 1
  BY <1>1
<1> QED
  BY <1>3, <1>4, <1>6, <1>7, <1>8 DEF UnderWay, later

\* The packet of the new attempt.
LEMMA Departing ==
    ASSUME NEW n \in Seqs, NEW l \in Nat, NEW w \in Int, l + w <= Lifetime
    PROVE  UnderWay([frame |-> DataFrame(n), fresh |-> TRUE], NextSeq(n), l, w)
<1>1. Behind(n, NextSeq(n)) = 1
  BY BehindNext
<1>2. (1 - 1) * Interval = 0
  BY ClockAssumption
<1> QED
  BY <1>1, <1>2 DEF UnderWay, DataFrame

\* An ACK is as old as the DATA packet it answers.
LEMMA Answering ==
    ASSUME NEW p \in Packet, NEW n, NEW a, NEW w, UnderWay(p, n, a, w)
    PROVE  UnderWay([frame |-> AckFor(p.frame), fresh |-> p.fresh], n, a, w)
  BY DEF UnderWay, AckFor
-----------------------------------------------------------------------------
(* How long packets may have to wait.                                      *)
Shape == IInv /\ LinkTypeOK /\ espSince <= env.turn

LEMMA ShapeFacts ==
    ASSUME Shape
    PROVE  /\ rpFifo \in Queues /\ espFifo \in Queues
           /\ Len(rpFifo) \in 0 .. Depth /\ Len(espFifo) \in 0 .. Depth
           /\ seq \in Seqs /\ age \in Nat /\ loopMs \in 0 .. MaxLoop
           /\ espSince \in 0 .. EspPeriod /\ bootMs \in 0 .. BootTime
           /\ env.turn \in 1 .. EspPeriod /\ pc \in Steps
           /\ SampledAge = age - loopMs
<1>1. rpFifo \in Queues /\ espFifo \in Queues /\ env \in Environment
  BY DEF Shape, LinkTypeOK
<1> QED
  BY <1>1, PacketAt
     DEF Shape, LinkTypeOK, TypeOK, AgeCap, SampledAge, Environment

LEMMA WaitBounds ==
    ASSUME Shape
    PROVE  /\ ToPoll \in 0 .. 2 * MaxLoop
           /\ (Depth + 1) * MaxLoop \in Nat /\ Depth * EspPeriod \in Nat
           /\ \A i \in 1 .. Depth :
                /\ RpWait(i) \in 0 .. (Depth + 1) * MaxLoop
                /\ RpWait(i + 1) = RpWait(i) + MaxLoop
                /\ EspWait(i) \in (Depth + 1) * MaxLoop
                                    .. (Depth + 1) * MaxLoop + Depth * EspPeriod
                /\ EspWait(i + 1) = EspWait(i) + EspPeriod
<1>1. loopMs \in 0 .. MaxLoop /\ espSince \in 0 .. EspPeriod /\ MaxLoop \in Nat
  BY ShapeFacts, ClockAssumption
<1>2. ToPoll \in 0 .. 2 * MaxLoop
  BY <1>1 DEF ToPoll
<1>3. (Depth + 1) * MaxLoop \in Nat /\ Depth * EspPeriod \in Nat
      /\ (Depth + 1) * MaxLoop = Depth * MaxLoop + MaxLoop
      /\ (Depth - 1) * MaxLoop = Depth * MaxLoop - MaxLoop
  BY <1>1, Multiples
<1>4. ASSUME NEW i \in 1 .. Depth
      PROVE  /\ RpWait(i) \in 0 .. (Depth + 1) * MaxLoop
             /\ RpWait(i + 1) = RpWait(i) + MaxLoop
  <2>1. 0 * MaxLoop <= (i - 1) * MaxLoop
        /\ (i - 1) * MaxLoop <= (Depth - 1) * MaxLoop
        /\ (i - 1) * MaxLoop \in Int /\ 0 * MaxLoop = 0
    BY <1>1, Multiples
  <2>2. (i + 1) - 1 = (i - 1) + 1 /\ ((i - 1) + 1) * MaxLoop = (i - 1) * MaxLoop + MaxLoop
    BY <1>1, Multiples
  <2> QED
    BY <1>1, <1>2, <1>3, <2>1, <2>2 DEF RpWait
<1>5. ASSUME NEW i \in 1 .. Depth
      PROVE  /\ EspWait(i) \in (Depth + 1) * MaxLoop
                                 .. (Depth + 1) * MaxLoop + Depth * EspPeriod
             /\ EspWait(i + 1) = EspWait(i) + EspPeriod
  <2>1. 1 * EspPeriod <= i * EspPeriod /\ i * EspPeriod <= Depth * EspPeriod
        /\ i * EspPeriod \in Int /\ 1 * EspPeriod = EspPeriod
        /\ (i + 1) * EspPeriod = i * EspPeriod + EspPeriod
    BY <1>1, Multiples
  <2> QED
    BY <1>1, <1>3, <2>1 DEF EspWait
<1> QED
  BY <1>2, <1>3, <1>4, <1>5
-----------------------------------------------------------------------------
\* The numbers of what is under way stay true, action by action.
EspTrue == \A i \in 1 .. Len(espFifo) : UnderWay(espFifo[i], seq, age, EspWait(i))
RpTrue ==
    \A i \in 1 .. Len(rpFifo) :
        rpFifo[i].frame.kind = "ack" => UnderWay(rpFifo[i], seq, age, RpWait(i))

\* Neither queue has changed, nor anything a packet's wait is counted from.
LEMMA NumbersKept ==
    ASSUME NumbersTrue, UNCHANGED linkVars
    PROVE  NumbersTrue'
  BY DEF linkVars, vars, NumbersTrue, Draining, UnderWay, EspWait, RpWait, ToPoll

\* A turn of the RP2040 that leaves the radio alone.
LEMMA QuietNumbers ==
    ASSUME Shape, NumbersTrue, RpQuiet
    PROVE  NumbersTrue'
<1>1. /\ rpUp /\ rpUp' /\ seq' = seq /\ age' = age
      /\ UNCHANGED <<rpFifo, espFifo, espSince>>
  BY DEF RpQuiet, radios, Top, Check, Sleep, timers, attempt
<1>2. ToPoll' <= ToPoll /\ ToPoll \in Int /\ ToPoll' \in Int
  <2>1. loopMs \in 0 .. MaxLoop /\ pc \in Steps
    BY ShapeFacts
  <2>2. CASE Top
    BY <2>1, <2>2, ClockAssumption DEF Top, ToPoll
  <2>3. CASE Check \/ Sleep
    BY <2>1, <2>3, ClockAssumption DEF Check, Sleep, timers, ToPoll
  <2> QED
    BY <2>2, <2>3 DEF RpQuiet
<1>3. EspTrue'
  <2>1. ASSUME NEW i PROVE EspWait(i)' = EspWait(i)
    BY <1>1 DEF EspWait
  <2> QED
    BY <1>1, <2>1 DEF NumbersTrue, EspTrue
<1>4. RpTrue'
  <2> SUFFICES ASSUME NEW i \in 1 .. Len(rpFifo), rpFifo[i].frame.kind = "ack"
               PROVE  UnderWay(rpFifo[i], seq, age, RpWait(i)')
    BY <1>1 DEF RpTrue
  <2>1. UnderWay(rpFifo[i], seq, age, RpWait(i))
    BY <1>1 DEF NumbersTrue
  <2>2. RpWait(i)' <= RpWait(i) /\ RpWait(i)' \in Int /\ RpWait(i) \in Int
    <3>1. i \in 1 .. Depth /\ MaxLoop \in Nat
      BY ShapeFacts, ClockAssumption
    <3>2. (i - 1) * MaxLoop \in Int
      BY <3>1
    <3> QED
      BY <1>2, <3>2 DEF RpWait
  <2>3. rpFifo[i] \in Packet /\ rpFifo[i].frame.seq \in Seqs
    BY ShapeFacts, PacketAt
  <2>4. seq \in Seqs /\ age \in Int /\ age + RpWait(i)' <= age + RpWait(i)
    BY <2>2, ShapeFacts
  <2> QED
    BY <2>1, <2>2, <2>3, <2>4, StillUnderWay
<1> QED
  BY <1>1, <1>3, <1>4 DEF NumbersTrue, EspTrue, RpTrue

\* Time passes for what is under way as for what waits for it.
LEMMA PassNumbers ==
    ASSUME Shape, NumbersTrue, Pass
    PROVE  NumbersTrue'
<1>1. /\ rpUp' = rpUp /\ UNCHANGED <<rpFifo, espFifo>>
      /\ espSince' = espSince + 1
  BY DEF Pass, radios
<1>2. CASE rpUp
  <2>1. Tick
    BY <1>2 DEF Pass
  <2>2. seq' = seq /\ age' \in Int /\ age' <= age + 1
        /\ ToPoll' = ToPoll - 1 /\ ToPoll \in Int
    <3>1. seq' = seq /\ pc' = pc /\ loopMs' = loopMs + 1
          /\ (age' = age + 1 \/ age' = age)
      BY <2>1 DEF Tick, attempt
    <3>2. age \in Int /\ loopMs \in Int /\ MaxLoop \in Int
      BY ShapeFacts, ClockAssumption
    <3> QED
      BY <3>1, <3>2 DEF ToPoll
  <2>3. EspTrue'
    <3> SUFFICES ASSUME NEW i \in 1 .. Len(espFifo)
                 PROVE  UnderWay(espFifo[i], seq, age', EspWait(i)')
      BY <1>1, <2>2 DEF EspTrue
    <3>1. UnderWay(espFifo[i], seq, age, EspWait(i))
      BY <1>2 DEF NumbersTrue
    <3>2. espFifo[i] \in Packet /\ espFifo[i].frame.seq \in Seqs /\ i \in 1 .. Depth
      BY ShapeFacts, PacketAt
    <3>3. EspWait(i) \in Int /\ EspWait(i)' = EspWait(i) - 1
      <4>1. i * EspPeriod \in Int /\ (Depth + 1) * MaxLoop \in Int /\ espSince \in Int
        BY <3>2, ShapeFacts, ClockAssumption
      <4> QED
        BY <1>1, <4>1 DEF EspWait
    <3>4. seq \in Seqs /\ age \in Int /\ age' + EspWait(i)' <= age + EspWait(i)
      BY <2>2, <3>3, ShapeFacts
    <3> QED
      BY <2>2, <3>1, <3>2, <3>3, <3>4, StillUnderWay
  <2>4. RpTrue'
    <3> SUFFICES ASSUME NEW i \in 1 .. Len(rpFifo), rpFifo[i].frame.kind = "ack"
                 PROVE  UnderWay(rpFifo[i], seq, age', RpWait(i)')
      BY <1>1, <2>2 DEF RpTrue
    <3>1. UnderWay(rpFifo[i], seq, age, RpWait(i))
      BY <1>2 DEF NumbersTrue
    <3>2. rpFifo[i] \in Packet /\ rpFifo[i].frame.seq \in Seqs /\ i \in 1 .. Depth
      BY ShapeFacts, PacketAt
    <3>3. RpWait(i) \in Int /\ RpWait(i)' = RpWait(i) - 1
      <4>1. (i - 1) * MaxLoop \in Int
        BY <3>2, ClockAssumption
      <4> QED
        BY <2>2, <4>1 DEF RpWait
    <3>4. seq \in Seqs /\ age \in Int /\ age' + RpWait(i)' <= age + RpWait(i)
      BY <2>2, <3>3, ShapeFacts
    <3> QED
      BY <2>2, <3>1, <3>2, <3>3, <3>4, StillUnderWay
  <2> QED
    BY <1>1, <1>2, <2>3, <2>4 DEF NumbersTrue, EspTrue, RpTrue
<1>3. CASE ~ rpUp
  <2>1. bootMs' = bootMs + 1
    BY <1>3 DEF Pass
  <2>2. ASSUME NEW i \in 1 .. Len(espFifo)
        PROVE  i * EspPeriod - espSince' + bootMs' <= Depth * EspPeriod
    <3>1. i * EspPeriod - espSince + bootMs <= Depth * EspPeriod
      BY <1>3 DEF NumbersTrue, Draining
    <3>2. i * EspPeriod \in Int /\ Depth * EspPeriod \in Int
      BY ShapeFacts
    <3>3. espSince \in Int /\ bootMs \in Int
      BY ShapeFacts
    <3> DEFINE due == i * EspPeriod
               last == Depth * EspPeriod
    <3> HIDE DEF due, last
    <3>4. due - espSince' + bootMs' <= last
      BY <1>1, <2>1, <3>1, <3>2, <3>3 DEF due, last
    <3> QED
      BY <3>4 DEF due, last
  <2> QED
    BY <1>1, <1>3, <2>2 DEF NumbersTrue, Draining
<1> QED
  BY <1>2, <1>3

\* A new attempt: what is under way falls one behind, and its own packet joins.
LEMMA SendNumbers ==
    ASSUME Shape, NumbersTrue, NEW sent \in BOOLEAN, RpSend(sent)
    PROVE  NumbersTrue'
<1> DEFINE old == Outdated(espFifo)
           data == [frame |-> DataFrame(seq), fresh |-> TRUE]
<1>1. /\ rpUp /\ rpUp' /\ pc = "send" /\ pc' = "recv"
      /\ seq' = NextSeq(seq) /\ age' = loopMs /\ loopMs' = loopMs
      /\ espSince' = espSince /\ rpFifo' = Outdated(rpFifo)
      /\ espFifo' \in Arrivals(old, data, env.lossy) \cup {old}
  BY DEF RpSend, Send
<1>2. Interval + loopMs <= age /\ ToPoll' = ToPoll
  BY <1>1, ShapeFacts, ClockAssumption DEF Shape, IInv, AgeBounds, ToPoll
<1>3. seq \in Seqs /\ seq' \in Seqs /\ age \in Int /\ loopMs \in Nat /\ Interval \in Int
  BY <1>1, ShapeFacts, NextSeqRange, ClockAssumption
<1>4. RpTrue'
  <2> SUFFICES ASSUME NEW i \in 1 .. Len(rpFifo), rpFifo[i].frame.kind = "ack"
               PROVE  UnderWay(Outdated(rpFifo)[i], NextSeq(seq), loopMs, RpWait(i)')
    <3>1. ASSUME NEW i \in 1 .. Len(rpFifo)
          PROVE  Outdated(rpFifo)[i].frame = rpFifo[i].frame
      <4>1. rpFifo[i] \in Packet
        BY ShapeFacts, PacketAt
      <4>2. Outdated(rpFifo)[i] = [rpFifo[i] EXCEPT !.fresh = FALSE]
        BY ShapeFacts, OutdatedAt
      <4> QED
        BY <4>1, <4>2 DEF Packet
    <3> QED
      BY <1>1, <3>1, ShapeFacts, OutdatedAt DEF RpTrue
  <2>1. UnderWay(rpFifo[i], seq, age, RpWait(i))
    BY <1>1 DEF NumbersTrue
  <2>2. rpFifo[i] \in Packet /\ rpFifo[i].frame.seq \in Seqs /\ i \in 1 .. Depth
    BY ShapeFacts, PacketAt
  <2>3. RpWait(i) \in Nat /\ RpWait(i)' = RpWait(i)
    BY <1>2, <2>2, WaitBounds DEF RpWait
  <2>4. UnderWay([rpFifo[i] EXCEPT !.fresh = FALSE], NextSeq(seq), loopMs, RpWait(i))
    BY <1>2, <1>3, <2>1, <2>2, <2>3, Overtaken
  <2> QED
    BY <2>3, <2>4, ShapeFacts, OutdatedAt
<1>5. ASSUME NEW i \in 1 .. Len(espFifo)
      PROVE  UnderWay(old[i], NextSeq(seq), loopMs, EspWait(i))
  <2>1. UnderWay(espFifo[i], seq, age, EspWait(i))
    BY <1>1 DEF NumbersTrue
  <2>2. espFifo[i] \in Packet /\ espFifo[i].frame.seq \in Seqs /\ i \in 1 .. Depth
    BY ShapeFacts, PacketAt
  <2>3. EspWait(i) \in Nat
    BY <2>2, WaitBounds
  <2>4. UnderWay([espFifo[i] EXCEPT !.fresh = FALSE], NextSeq(seq), loopMs, EspWait(i))
    BY <1>2, <1>3, <2>1, <2>2, <2>3, Overtaken
  <2> QED
    BY <2>4, ShapeFacts, OutdatedAt
<1>6. Len(espFifo) < Depth
        => UnderWay(data, NextSeq(seq), loopMs, EspWait(Len(espFifo) + 1))
  <2> SUFFICES ASSUME Len(espFifo) < Depth
               PROVE  UnderWay(data, NextSeq(seq), loopMs, EspWait(Len(espFifo) + 1))
    OBVIOUS
  <2> DEFINE w == EspWait(Len(espFifo) + 1)
  <2>1. Len(espFifo) + 1 \in 1 .. Depth
    BY ShapeFacts
  <2>2. w \in Int /\ w <= (Depth + 1) * MaxLoop + Depth * EspPeriod
    BY <2>1, WaitBounds
  <2>3. loopMs + w <= Lifetime
    <3> HIDE DEF w
    <3> QED
      BY <2>2, WaitBounds, ShapeFacts, ClockAssumption DEF Lifetime
  <2> QED
    BY <1>3, <2>2, <2>3, Departing
<1>7. EspTrue'
  <2>1. ASSUME NEW i PROVE EspWait(i)' = EspWait(i)
    BY <1>1 DEF EspWait
  <2>2. old \in Queues /\ Len(old) = Len(espFifo) /\ data \in Packet
    BY ShapeFacts, OutdatedIsQueue, OutdatedAt DEF Packet, Frame, DataFrame, Kinds
  <2> HIDE DEF old, data
  <2>3. CASE espFifo' = old
    BY <1>1, <1>5, <2>1, <2>2, <2>3 DEF EspTrue
  <2>4. CASE /\ Len(old) < Depth /\ Len(espFifo') = Len(old) + 1
             /\ \A i \in 1 .. Len(old) : espFifo'[i] = old[i]
             /\ espFifo'[Len(old) + 1] = data
    <3> SUFFICES ASSUME NEW i \in 1 .. Len(espFifo')
                 PROVE  UnderWay(espFifo'[i], NextSeq(seq), loopMs, EspWait(i))
      BY <1>1, <2>1 DEF EspTrue
    <3>1. i \in 1 .. Len(espFifo) \/ i = Len(espFifo) + 1
      BY <2>2, <2>4, ShapeFacts
    <3> QED
      BY <1>5, <1>6, <2>2, <2>4, <3>1
  <2> QED
    BY <1>1, <2>2, <2>3, <2>4, ArrivalsAt
<1> QED
  BY <1>1, <1>4, <1>7 DEF NumbersTrue, EspTrue, RpTrue

\* A poll: what stays moves up, and the next poll is a turn away.
LEMMA PollNumbers ==
    ASSUME Shape, NumbersTrue, RpPoll
    PROVE  NumbersTrue'
<1>1. /\ rpUp /\ rpUp' /\ seq' = seq /\ age' = age /\ loopMs' = loopMs
      /\ pc = "recv" /\ pc' = "check"
      /\ UNCHANGED <<espFifo, espSince>>
      /\ rpFifo' = IF rpFifo = <<>> THEN rpFifo ELSE Tail(rpFifo)
  BY DEF RpPoll, Recv, RecvNothing, timers, attempt
<1>2. ToPoll' = ToPoll + MaxLoop /\ ToPoll \in Int
  BY <1>1, ShapeFacts, ClockAssumption DEF ToPoll
<1>3. EspTrue'
  <2>1. ASSUME NEW i PROVE EspWait(i)' = EspWait(i)
    BY <1>1 DEF EspWait
  <2> QED
    BY <1>1, <2>1 DEF NumbersTrue, EspTrue
<1>4. CASE rpFifo = <<>>
  <2>1. Len(rpFifo') = 0
    BY <1>1, <1>4
  <2>2. RpTrue'
    BY <2>1 DEF RpTrue
  <2> QED
    BY <1>1, <1>3, <2>2 DEF NumbersTrue, EspTrue, RpTrue
<1>5. CASE rpFifo # <<>>
  <2>1. rpFifo' = Tail(rpFifo)
    BY <1>1, <1>5
  <2>2. RpTrue'
    <3> SUFFICES ASSUME NEW i \in 1 .. Len(Tail(rpFifo)),
                        Tail(rpFifo)[i].frame.kind = "ack"
                 PROVE  UnderWay(Tail(rpFifo)[i], seq, age, RpWait(i)')
      BY <1>1, <2>1 DEF RpTrue
    <3>1. Tail(rpFifo)[i] = rpFifo[i + 1] /\ i + 1 \in 1 .. Len(rpFifo)
      BY <1>5, ShapeFacts, TailAt
    <3>2. UnderWay(rpFifo[i + 1], seq, age, RpWait(i + 1))
      BY <1>1, <3>1 DEF NumbersTrue
    <3>3. i \in 1 .. Depth
      BY <3>1, ShapeFacts
    <3>4. RpWait(i + 1) = RpWait(i) + MaxLoop
      BY <3>3, WaitBounds
    <3>5. RpWait(i)' = RpWait(i) + MaxLoop
      <4>1. (i - 1) * MaxLoop \in Int /\ MaxLoop \in Int
        BY <3>3, ClockAssumption
      <4> QED
        BY <1>2, <4>1 DEF RpWait
    <3> QED
      BY <3>1, <3>2, <3>4, <3>5
  <2> QED
    BY <1>1, <1>3, <2>2 DEF NumbersTrue, EspTrue, RpTrue
<1> QED
  BY <1>4, <1>5

\* A turn of the ESP32-C3: the answer has waited no longer than it may.
LEMMA TurnNumbers ==
    ASSUME Shape, NumbersTrue, EspTurn
    PROVE  NumbersTrue'
<1> DEFINE p == Head(espFifo)
           ack == [frame |-> AckFor(p.frame), fresh |-> p.fresh]
<1>1. /\ espFifo # <<>> /\ espFifo' = Tail(espFifo) /\ espSince' = 0
      /\ rpFifo' \in Arrivals(rpFifo, ack, env.lossy)
      /\ UNCHANGED <<vars, rpUp, bootMs>>
  BY DEF EspTurn
<1>2. UNCHANGED <<seq, age, ToPoll>>
  BY <1>1 DEF vars, ToPoll
<1>3. /\ Head(espFifo) = espFifo[1] /\ 1 \in 1 .. Len(espFifo)
      /\ \A i \in 1 .. Len(Tail(espFifo)) :
            /\ Tail(espFifo)[i] = espFifo[i + 1]
            /\ i + 1 \in 1 .. Len(espFifo) /\ i \in 1 .. Depth
  BY <1>1, ShapeFacts, TailAt
<1>4. seq \in Seqs /\ age \in Int /\ espSince \in Int /\ EspPeriod \in Int
  BY ShapeFacts
<1>5. CASE rpUp
  <2>1. EspTrue'
    <3> SUFFICES ASSUME NEW i \in 1 .. Len(Tail(espFifo))
                 PROVE  UnderWay(espFifo[i + 1], seq, age, EspWait(i)')
      BY <1>1, <1>2, <1>3 DEF EspTrue
    <3>1. UnderWay(espFifo[i + 1], seq, age, EspWait(i + 1))
      BY <1>3, <1>5 DEF NumbersTrue
    <3>2. espFifo[i + 1] \in Packet /\ espFifo[i + 1].frame.seq \in Seqs
      BY <1>3, ShapeFacts, PacketAt
    <3>3. EspWait(i + 1) = EspWait(i) + EspPeriod /\ EspWait(i) \in Int
      BY <1>3, WaitBounds
    <3>4. EspWait(i)' \in Int /\ EspWait(i)' = EspWait(i) + espSince
      <4>1. i * EspPeriod \in Int /\ (Depth + 1) * MaxLoop \in Int
        BY <1>3, <1>4, WaitBounds
      <4> QED
        BY <1>1, <1>4, <4>1 DEF EspWait
    <3>5. age + EspWait(i)' <= age + EspWait(i + 1) /\ EspWait(i + 1) \in Int
      BY <1>4, <3>3, <3>4, ShapeFacts
    <3> QED
      BY <1>4, <3>1, <3>2, <3>4, <3>5, StillUnderWay
  <2>2. Len(rpFifo) < Depth
          => UnderWay(ack, seq, age, RpWait(Len(rpFifo) + 1))
    <3> SUFFICES ASSUME Len(rpFifo) < Depth
                 PROVE  UnderWay(ack, seq, age, RpWait(Len(rpFifo) + 1))
      OBVIOUS
    <3> DEFINE w == RpWait(Len(rpFifo) + 1)
    <3>1. p \in Packet /\ p.frame.seq \in Seqs /\ UnderWay(p, seq, age, EspWait(1))
      BY <1>3, <1>5, ShapeFacts, PacketAt DEF NumbersTrue
    <3>2. Len(rpFifo) + 1 \in 1 .. Depth /\ 1 \in 1 .. Depth
      BY <1>3, ShapeFacts
    <3>3. w \in Int /\ EspWait(1) \in Int /\ w <= EspWait(1)
      BY <3>2, WaitBounds
    <3>4. age + w <= age + EspWait(1)
      BY <1>4, <3>3
    <3> HIDE DEF w, p
    <3>5. UnderWay(p, seq, age, w)
      BY <1>4, <3>1, <3>3, <3>4, StillUnderWay
    <3> QED
      BY <3>1, <3>5, Answering DEF w
  <2>3. RpTrue'
    <3>1. ASSUME NEW i PROVE RpWait(i)' = RpWait(i)
      BY <1>2 DEF RpWait
    <3>2. ack \in Packet
      <4>1. p \in Packet
        BY <1>3, ShapeFacts, PacketAt
      <4> QED
        BY <4>1 DEF Packet, Frame, AckFor, Kinds
    <3> HIDE DEF ack
    <3>3. CASE rpFifo' = rpFifo
      BY <1>2, <1>5, <3>1, <3>3 DEF RpTrue, NumbersTrue
    <3>4. CASE /\ Len(rpFifo) < Depth /\ Len(rpFifo') = Len(rpFifo) + 1
               /\ \A i \in 1 .. Len(rpFifo) : rpFifo'[i] = rpFifo[i]
               /\ rpFifo'[Len(rpFifo) + 1] = ack
      <4> SUFFICES ASSUME NEW i \in 1 .. Len(rpFifo'), rpFifo'[i].frame.kind = "ack"
                   PROVE  UnderWay(rpFifo'[i], seq, age, RpWait(i))
        BY <1>2, <3>1 DEF RpTrue
      <4>1. i \in 1 .. Len(rpFifo) \/ i = Len(rpFifo) + 1
        BY <3>4, ShapeFacts
      <4> QED
        BY <1>5, <2>2, <3>4, <4>1 DEF NumbersTrue
    <3> QED
      BY <1>1, <3>2, <3>3, <3>4, ArrivalsAt, ShapeFacts
  <2> QED
    BY <1>1, <1>5, <2>1, <2>3 DEF NumbersTrue, EspTrue, RpTrue
<1>6. CASE ~ rpUp
  <2>1. ASSUME NEW i \in 1 .. Len(espFifo')
        PROVE  i * EspPeriod - espSince' + bootMs' <= Depth * EspPeriod
    <3>1. i \in 1 .. Depth /\ i + 1 \in 1 .. Len(espFifo)
      BY <1>1, <1>3
    <3>2. (i + 1) * EspPeriod - espSince + bootMs <= Depth * EspPeriod
      BY <1>6, <3>1 DEF NumbersTrue, Draining
    <3>3. /\ (i + 1) * EspPeriod = i * EspPeriod + EspPeriod
          /\ i * EspPeriod \in Int /\ Depth * EspPeriod \in Int
      BY <3>1, Multiples, WaitBounds
    <3>4. bootMs \in Int /\ espSince <= EspPeriod
      BY ShapeFacts
    <3> DEFINE due == i * EspPeriod
               last == Depth * EspPeriod
    <3>5. due - 0 + bootMs <= last
      <4> HIDE DEF due, last
      <4> QED
        BY <1>4, <3>2, <3>3, <3>4 DEF due, last
    <3> QED
      BY <1>1, <3>5
  <2> QED
    BY <1>1, <1>6, <2>1 DEF NumbersTrue, Draining
<1> QED
  BY <1>5, <1>6

\* Resets: the old packets are drained while the RP2040 starts.
LEMMA ResetNumbers ==
    ASSUME Shape, NumbersTrue, RpReset
    PROVE  NumbersTrue'
<1>1. /\ rpUp' = FALSE /\ bootMs' = 0 /\ espSince' = espSince
      /\ espFifo' = Outdated(espFifo)
  BY DEF RpReset
<1>2. Len(espFifo') \in 0 .. Depth
  BY <1>1, ShapeFacts, OutdatedAt
<1>3. ASSUME NEW i \in 1 .. Len(espFifo')
      PROVE  i * EspPeriod - espSince' + bootMs' <= Depth * EspPeriod
  <2>1. /\ i * EspPeriod <= Depth * EspPeriod
        /\ i * EspPeriod \in Int /\ Depth * EspPeriod \in Int
    BY <1>2, Multiples
  <2>2. espSince \in Nat
    BY ShapeFacts
  <2> QED
    BY <1>1, <2>1, <2>2
<1> QED
  BY <1>1, <1>3 DEF NumbersTrue, Draining

LEMMA BootNumbers ==
    ASSUME Shape, NumbersTrue, RpBoot
    PROVE  NumbersTrue'
<1>1. /\ ~ rpUp /\ rpUp' /\ bootMs = BootTime
      /\ rpFifo' = <<>> /\ espFifo' = espFifo
  BY DEF RpBoot
<1>2. Len(espFifo) = 0
  <2> SUFFICES ASSUME 1 <= Len(espFifo)
               PROVE  FALSE
    BY ShapeFacts
  <2>1. 1 * EspPeriod - espSince + BootTime <= Depth * EspPeriod
    BY <1>1, ShapeFacts DEF NumbersTrue, Draining
  <2>2. Depth * EspPeriod \in Int /\ espSince \in 0 .. EspPeriod
    BY ShapeFacts
  <2> QED
    BY <2>1, <2>2
<1>3. Len(rpFifo') = 0
  BY <1>1
<1> QED
  BY <1>1, <1>2, <1>3 DEF NumbersTrue

\* The ESP32-C3's queue is empty afterwards.
LEMMA EmptiedNumbers ==
    ASSUME Shape, NumbersTrue, EspFlush \/ EspIdle
    PROVE  NumbersTrue'
<1>1. espFifo' = <<>> /\ UNCHANGED <<vars, rpUp, bootMs, rpFifo>>
  BY DEF EspFlush, EspIdle, radios
<1>2. Len(espFifo') = 0
  BY <1>1
<1>3. UNCHANGED <<seq, age, ToPoll>>
  BY <1>1 DEF vars, ToPoll
<1>4. ASSUME NEW i PROVE RpWait(i)' = RpWait(i)
  BY <1>3 DEF RpWait
<1>5. rpUp => RpTrue'
  BY <1>1, <1>3, <1>4 DEF NumbersTrue, RpTrue
<1> QED
  BY <1>1, <1>2, <1>5 DEF NumbersTrue, Draining, RpTrue

LEMMA ForeignNumbers ==
    ASSUME Shape, NumbersTrue, ForeignPacket
    PROVE  NumbersTrue'
<1> DEFINE p == [frame |-> Foreign, fresh |-> FALSE]
<1>1. /\ rpFifo' = Append(rpFifo, p)
      /\ UNCHANGED <<vars, rpUp, bootMs, espFifo, espSince>>
  BY DEF ForeignPacket
<1>2. UNCHANGED <<seq, age, ToPoll>>
  BY <1>1 DEF vars, ToPoll
<1>3. ASSUME NEW i PROVE RpWait(i)' = RpWait(i) /\ EspWait(i)' = EspWait(i)
  BY <1>1, <1>2 DEF RpWait, EspWait
<1>4. p \in Packet /\ p.frame.kind # "ack"
  BY SeqModAssumption DEF Packet, Frame, Foreign, Kinds, Seqs
<1>5. rpUp => RpTrue'
  <2> HIDE DEF p
  <2> SUFFICES ASSUME rpUp, NEW i \in 1 .. Len(rpFifo'), rpFifo'[i].frame.kind = "ack"
               PROVE  UnderWay(rpFifo'[i], seq, age, RpWait(i))
    BY <1>2, <1>3 DEF RpTrue
  <2>1. Len(rpFifo') = Len(rpFifo) + 1
        /\ (\A j \in 1 .. Len(rpFifo) : rpFifo'[j] = rpFifo[j])
        /\ rpFifo'[Len(rpFifo) + 1] = p
    BY <1>1, <1>4, AppendAt, ShapeFacts
  <2>2. i # Len(rpFifo) + 1
    BY <1>4, <2>1
  <2>3. i \in 1 .. Len(rpFifo)
    <3> DEFINE n == Len(rpFifo)
    <3>1. i \in 1 .. n + 1 /\ n \in Nat /\ i # n + 1
      BY <2>1, <2>2, ShapeFacts
    <3> HIDE DEF n
    <3>2. i \in 1 .. n
      BY <3>1
    <3> QED
      BY <3>2 DEF n
  <2> QED
    BY <2>1, <2>3 DEF NumbersTrue
<1> QED
  BY <1>1, <1>2, <1>3, <1>5 DEF NumbersTrue, Draining, RpTrue
-----------------------------------------------------------------------------
\* Every step keeps the numbers true.
LEMMA NumbersStep == Shape /\ NumbersTrue /\ [LinkNext]_linkVars => NumbersTrue'
<1> SUFFICES ASSUME Shape, NumbersTrue, [LinkNext]_linkVars
             PROVE  NumbersTrue'
  OBVIOUS
<1>1. ASSUME NEW sent \in BOOLEAN, RpSend(sent)
      PROVE  NumbersTrue'
  BY <1>1, SendNumbers
<1> QED
  BY <1>1, NumbersKept, QuietNumbers, PassNumbers, PollNumbers, TurnNumbers,
     ResetNumbers, BootNumbers, EmptiedNumbers, ForeignNumbers
     DEF LinkNext, RpStep, EspStep

\* The ESP32-C3 keeps the turn of the circumstances.
LEMMA SinceStep ==
    ASSUME espSince <= env.turn, LinkTypeOK, [LinkNext]_linkVars
    PROVE  espSince' <= env'.turn
<1>0. env.turn \in Nat /\ espSince \in Nat
  BY DEF LinkTypeOK, Environment
<1>1. CASE Pass
  BY <1>0, <1>1 DEF Pass
<1>2. CASE EspTurn \/ EspFlush \/ EspIdle
  BY <1>0, <1>2 DEF EspTurn, EspFlush, EspIdle
<1>3. CASE RpReset
  BY <1>3 DEF RpReset
<1>4. CASE RpQuiet \/ RpPoll \/ RpBoot \/ ForeignPacket
  BY <1>4 DEF RpQuiet, RpPoll, RpBoot, ForeignPacket
<1>5. ASSUME NEW sent \in BOOLEAN, RpSend(sent)
      PROVE  espSince' <= env'.turn
  BY <1>5 DEF RpSend
<1>6. CASE UNCHANGED linkVars
  BY <1>6 DEF linkVars
<1> QED
  BY <1>1, <1>2, <1>3, <1>4, <1>5, <1>6 DEF LinkNext, RpStep, EspStep

LEMMA ShapeHolds == LinkSpec => []Shape
<1> DEFINE Turns == espSince <= env.turn
<1>1. LinkInit => Turns
  BY DEF LinkInit, Environment
<1>2. LinkTypeOK /\ Turns /\ [LinkNext]_linkVars => Turns'
  BY SinceStep
<1>3. LinkSpec => []Turns
  BY <1>1, <1>2, LinkTypeSafety, PTL DEF LinkSpec
<1>4. IInv /\ LinkTypeOK /\ Turns => Shape
  BY DEF Shape
<1> QED
  BY <1>3, <1>4, LinkInvariance, LinkTypeSafety, PTL

\* The number of every packet under way tells how many attempts ago it was
\* made (main.c:176, 193-195, 239-254).
THEOREM NumbersHold == LinkSpec => []NumbersTrue
<1>1. LinkInit => NumbersTrue
  <2>1. LinkInit => rpUp /\ Len(rpFifo) = 0 /\ Len(espFifo) = 0
    BY DEF LinkInit
  <2> QED
    BY <2>1 DEF NumbersTrue
<1> QED
  BY <1>1, NumbersStep, ShapeHolds, PTL DEF LinkSpec

\* Whatever is lost, late, foreign or left over from before a reset, an ACK
\* that closes an attempt answers the DATA packet of that attempt.
THEOREM AckIsOwn == LinkSpec => AckIsForCurrentData
<1>1. Shape /\ NumbersTrue /\ [LinkNext]_linkVars
        => [rpUp /\ rpUp' /\ pc = "recv" /\ pending /\ ~ pending'
              => Head(rpFifo).fresh]_linkVars
  <2> SUFFICES ASSUME Shape, NumbersTrue, LinkNext,
                      rpUp, rpUp', pc = "recv", pending, ~ pending'
               PROVE  Head(rpFifo).fresh
    BY DEF linkVars, vars
  <2>1. RpPoll
    <3>1. ~ RpQuiet
      BY DEF RpQuiet, Top, Check, Sleep
    <3>2. ASSUME NEW sent \in BOOLEAN PROVE ~ RpSend(sent)
      BY DEF RpSend, Send
    <3>3. ~ (RpBoot \/ EspTurn \/ EspIdle \/ EspFlush \/ ForeignPacket \/ RpReset)
      BY DEF RpBoot, EspTurn, EspIdle, EspFlush, ForeignPacket, RpReset, vars
    <3>4. ~ Pass
      BY DEF Pass, Tick, attempt, vars
    <3> QED
      BY <3>1, <3>2, <3>3, <3>4 DEF LinkNext, RpStep, EspStep
  <2>2. rpFifo # <<>> /\ AckMatches(Head(rpFifo).frame)
    BY <2>1 DEF RpPoll, Recv, RecvNothing, attempt
  <2>3. Head(rpFifo) = rpFifo[1] /\ 1 \in 1 .. Len(rpFifo)
    BY <2>2, ShapeFacts, TailAt
  <2>4. rpFifo[1].fresh <=> Behind(rpFifo[1].frame.seq, seq) = 1
    BY <2>2, <2>3 DEF NumbersTrue, UnderWay, AckMatches
  <2>5. seq = NextSeq(expected) /\ expected \in Seqs
    BY DEF Shape, IInv, TypeOK, OpenAttempt
  <2>6. Behind(expected, seq) = 1
    BY <2>5, BehindNext
  <2> QED
    BY <2>2, <2>3, <2>4, <2>6 DEF AckMatches
<1> QED
  BY <1>1, NumbersHold, ShapeHolds, PTL DEF LinkSpec, AckIsForCurrentData
-----------------------------------------------------------------------------
(* With nothing lost, every attempt that went out is answered in time.     *)
LEMMA QueueEmpty ==
    ASSUME NEW q \in Queues
    PROVE  Len(q) = 0 <=> q = <<>>
  BY EmptySeq DEF Queues

LEMMA EnvironmentKept == [LinkNext]_linkVars => env' = env
  BY DEF LinkNext, RpStep, EspStep, RpQuiet, RpPoll, RpBoot, RpSend, EspTurn,
         EspIdle, EspFlush, RpReset, ForeignPacket, Pass, linkVars

LEMMA AnsweredFacts ==
    ASSUME Shape, Undisturbed, Answered
    PROVE  /\ env.lossy = FALSE /\ ~ env.foreigners /\ ~ env.resets /\ rpUp
           /\ MaxLoop + env.turn < AckWindow /\ AckWindow + MaxLoop <= Interval
           /\ ToPoll \in Int /\ ToPoll <= 2 * MaxLoop
           /\ espFifo # <<>> => Len(espFifo) = 1 /\ rpFifo = <<>>
           /\ rpFifo # <<>> => Len(rpFifo) = 1 /\ espFifo = <<>>
<1>1. Len(rpFifo) \in Nat /\ Len(espFifo) \in Nat
      /\ (Len(rpFifo) = 0 <=> rpFifo = <<>>) /\ (Len(espFifo) = 0 <=> espFifo = <<>>)
  BY ShapeFacts, QueueEmpty
<1>2. env.lossy = FALSE /\ ~ env.foreigners /\ ~ env.resets /\ rpUp
      /\ MaxLoop + env.turn < AckWindow
  BY DEF Undisturbed, Answered, Shape, LinkTypeOK, Environment
<1>3. AckWindow + MaxLoop <= Interval /\ ToPoll \in Int /\ ToPoll <= 2 * MaxLoop
  BY ClockAssumption, WaitBounds
<1>4. Len(espFifo) + Len(rpFifo) <= 1
  BY DEF Answered
<1>5. /\ espFifo # <<>> => Len(espFifo) = 1 /\ Len(rpFifo) = 0
      /\ rpFifo # <<>> => Len(rpFifo) = 1 /\ Len(espFifo) = 0
  <2> DEFINE a == Len(espFifo)
             b == Len(rpFifo)
  <2>1. a \in Nat /\ b \in Nat /\ a + b <= 1
    BY <1>1, <1>4
  <2> HIDE DEF a, b
  <2>2. (a # 0 => a = 1 /\ b = 0) /\ (b # 0 => b = 1 /\ a = 0)
    BY <2>1
  <2> QED
    BY <1>1, <2>2 DEF a, b
<1> QED
  BY <1>1, <1>2, <1>3, <1>5

\* An attempt that may begin finds both queues empty.
LEMMA NothingLeft ==
    ASSUME Shape, Undisturbed, Answered, pc = "send"
    PROVE  rpFifo = <<>> /\ espFifo = <<>> /\ ~ pending
<1>1. SampledAge >= Interval /\ ~ pending /\ ToPoll = MaxLoop - loopMs
  BY ClockAssumption DEF Shape, IInv, AgeBounds, OpenAttempt, ToPoll
<1>2. /\ age \in Nat /\ loopMs \in 0 .. MaxLoop /\ SampledAge = age - loopMs
      /\ espSince \in Nat /\ env.turn \in Nat /\ espSince <= env.turn
      /\ MaxLoop \in Nat /\ Interval \in Nat /\ AckWindow \in Nat
  BY ShapeFacts, ClockAssumption DEF Shape
<1>3. MaxLoop + env.turn < AckWindow /\ AckWindow + MaxLoop <= Interval
  BY AnsweredFacts
<1>4. espFifo = <<>>
  <2> SUFFICES ASSUME espFifo # <<>> PROVE FALSE
    OBVIOUS
  <2>1. age <= MaxLoop + espSince
    BY DEF Answered
  <2> QED
    BY <1>1, <1>2, <1>3, <2>1
<1>5. rpFifo = <<>>
  <2> SUFFICES ASSUME rpFifo # <<>> PROVE FALSE
    OBVIOUS
  <2>1. age + ToPoll <= 3 * MaxLoop + env.turn
    BY DEF Answered
  <2> QED
    BY <1>1, <1>2, <1>3, <2>1
<1> QED
  BY <1>1, <1>4, <1>5

\* A packet that nothing keeps from arriving is the only one there.
LEMMA ArrivesAlone ==
    ASSUME NEW p \in Packet, NEW lossy, ~ lossy, NEW r \in Arrivals(<<>>, p, lossy)
    PROVE  r # <<>> /\ Len(r) = 1 /\ r[1] = p
<1> DEFINE q == <<>>
<1>1. q \in Queues /\ Len(q) = 0 /\ Depth # 0 /\ r \in Arrivals(q, p, lossy)
  BY EmptyIsQueue
<1> HIDE DEF q
<1>2. Len(r) = Len(q) + 1 /\ r[Len(q) + 1] = p
  <2>1. r = Append(q, p)
    BY <1>1 DEF Arrivals
  <2> QED
    BY <1>1, <2>1, AppendAt
<1>3. Len(r) = 1 /\ r[1] = p
  BY <1>1, <1>2
<1> QED
  BY <1>3

LEMMA SendAnswered ==
    ASSUME Shape, Undisturbed, Answered, NEW sent \in BOOLEAN, RpSend(sent)
    PROVE  Answered'
<1> DEFINE data == [frame |-> DataFrame(seq), fresh |-> TRUE]
<1>0. ~ env.lossy
  BY AnsweredFacts
<1>1. rpFifo = <<>> /\ espFifo = <<>> /\ ~ pending
  BY NothingLeft DEF RpSend, Send
<1>2. Outdated(<<>>) = <<>>
  <2>1. Len(Outdated(<<>>)) = 0 /\ Outdated(<<>>) \in Queues
    BY OutdatedAt, OutdatedIsQueue, EmptyIsQueue
  <2> QED
    BY <2>1, QueueEmpty
<1>3. rpFifo' = <<>> /\ rpUp' = rpUp /\ espSince' = espSince /\ age' = loopMs
  BY <1>1, <1>2 DEF RpSend, Send
<1>4. age' <= MaxLoop + espSince'
  BY <1>3, ShapeFacts, ClockAssumption
<1>5. \/ espFifo' \in Arrivals(<<>>, data, env.lossy)
      \/ espFifo' = <<>> /\ ~ sent
  <2>1. espFifo' \in Arrivals(<<>>, data, env.lossy)
                       \cup (IF sent THEN {} ELSE {<<>>})
    BY <1>1, <1>2 DEF RpSend
  <2>2. env.lossy = FALSE
    BY AnsweredFacts
  <2> HIDE DEF data
  <2> QED
    BY <2>1, <2>2
<1>6. data \in Packet /\ data.frame.seq = seq
  BY ShapeFacts DEF Packet, Frame, DataFrame, Kinds
<1>7. CASE espFifo' \in Arrivals(<<>>, data, env.lossy)
  <2> HIDE DEF data
  <2>1. espFifo' # <<>> /\ Len(espFifo') = 1 /\ espFifo'[1].frame.seq = seq
    BY <1>0, <1>6, <1>7, ArrivesAlone
  <2>2. pending' => expected' = seq
    BY <1>1 DEF RpSend, Send
  <2> QED
    BY <1>3, <1>4, <2>1, <2>2, AnsweredFacts DEF Answered
<1>8. CASE espFifo' = <<>> /\ ~ sent
  <2>1. ~ pending'
    BY <1>1, <1>8 DEF RpSend, Send
  <2> QED
    BY <1>3, <1>8, <2>1, AnsweredFacts DEF Answered
<1> QED
  BY <1>5, <1>7, <1>8

LEMMA TurnAnswered ==
    ASSUME Shape, Undisturbed, Answered, EspTurn
    PROVE  Answered'
<1> DEFINE p == Head(espFifo)
           ack == [frame |-> AckFor(p.frame), fresh |-> p.fresh]
<1>1. espFifo # <<>> /\ Len(espFifo) = 1 /\ rpFifo = <<>> /\ rpUp' /\ env.lossy = FALSE
  BY AnsweredFacts DEF EspTurn
<1>2. p = espFifo[1] /\ p \in Packet /\ Len(Tail(espFifo)) = 0
      /\ Tail(espFifo) \in Queues
  BY <1>1, ShapeFacts, TailAt, TailIsQueue
<1>3. espFifo' = <<>>
  BY <1>2, QueueEmpty DEF EspTurn
<1>4. ack \in Packet /\ ack.frame = AckFor(p.frame)
  BY <1>2 DEF Packet, Frame, AckFor, Kinds
<1>5. rpFifo' \in Arrivals(<<>>, ack, env.lossy)
  BY <1>1 DEF EspTurn
<1>6. rpFifo' # <<>> /\ Len(rpFifo') = 1 /\ rpFifo'[1].frame = AckFor(p.frame)
  <2> HIDE DEF ack
  <2> QED
    BY <1>1, <1>4, <1>5, ArrivesAlone
<1>7. UNCHANGED <<age, loopMs, pc, pending, expected, ToPoll, SampledAge, env>>
  BY DEF EspTurn, vars, ToPoll, SampledAge
<1>8. pending => AckMatches(AckFor(p.frame))
  BY <1>1, <1>2 DEF Answered, AckMatches, AckFor
<1>9. age + ToPoll <= 3 * MaxLoop + env.turn /\ SampledAge <= MaxLoop + env.turn
  <2>1. age <= MaxLoop + espSince /\ espSince <= env.turn
    BY <1>1 DEF Answered, Shape
  <2>2. /\ age \in Int /\ loopMs \in Nat /\ espSince \in Int /\ env.turn \in Int
        /\ MaxLoop \in Int /\ SampledAge = age - loopMs
        /\ ToPoll \in Int /\ ToPoll <= 2 * MaxLoop
    BY ShapeFacts, AnsweredFacts, ClockAssumption
  <2> QED
    BY <2>1, <2>2
<1> QED
  BY <1>1, <1>3, <1>6, <1>7, <1>8, <1>9 DEF Answered, AckMatches

LEMMA PollAnswered ==
    ASSUME Shape, Undisturbed, Answered, RpPoll
    PROVE  Answered'
<1>1. /\ rpUp' /\ pc' = "check"
      /\ UNCHANGED <<espFifo, espSince, env, age, expected>>
  BY AnsweredFacts DEF RpPoll, Recv, RecvNothing, timers, attempt
<1>2. CASE rpFifo = <<>>
  <2>1. rpFifo' = <<>> /\ pending' = pending
    BY <1>2 DEF RpPoll, RecvNothing, attempt
  <2> QED
    BY <1>1, <1>2, <2>1 DEF Answered
<1>3. CASE rpFifo # <<>>
  <2>1. Len(rpFifo) = 1 /\ espFifo = <<>>
    BY <1>3, AnsweredFacts
  <2>2. Head(rpFifo) = rpFifo[1] /\ Len(Tail(rpFifo)) = 0 /\ Tail(rpFifo) \in Queues
    BY <1>3, <2>1, ShapeFacts, TailAt, TailIsQueue
  <2>3. rpFifo' = <<>>
    BY <1>3, <2>2, QueueEmpty DEF RpPoll
  <2>4. ~ pending'
    BY <1>3, <2>1, <2>2 DEF RpPoll, Recv, Answered
  <2> QED
    BY <1>1, <2>1, <2>3, <2>4 DEF Answered
<1> QED
  BY <1>2, <1>3

LEMMA QuietAnswered ==
    ASSUME Shape, Undisturbed, Answered, RpQuiet
    PROVE  Answered'
<1>1. /\ rpUp' /\ pc' # "check" /\ (pending' => pending)
      /\ UNCHANGED <<rpFifo, espFifo, espSince, env, age, expected>>
  <2>1. rpUp' /\ UNCHANGED <<rpFifo, espFifo, espSince, env>>
    BY DEF RpQuiet, radios
  <2>2. CASE Top
    BY <2>1, <2>2 DEF Top, attempt
  <2>3. CASE Check
    BY <2>1, <2>3 DEF Check, timers
  <2>4. CASE Sleep
    BY <2>1, <2>4 DEF Sleep, timers, attempt
  <2> QED
    BY <2>2, <2>3, <2>4 DEF RpQuiet
<1>2. ToPoll' <= ToPoll /\ ToPoll' \in Int
  <2>1. loopMs \in 0 .. MaxLoop
    BY ShapeFacts
  <2>2. CASE Top
    BY <2>1, <2>2, ClockAssumption DEF Top, ToPoll
  <2>3. CASE Check \/ Sleep
    BY <2>1, <2>3, ClockAssumption DEF Check, Sleep, timers, ToPoll
  <2> QED
    BY <2>2, <2>3 DEF RpQuiet
<1>3. rpFifo # <<>> => age + ToPoll' <= 3 * MaxLoop + env.turn
  <2>1. rpFifo # <<>> => age + ToPoll <= 3 * MaxLoop + env.turn
    BY DEF Answered
  <2>2. age \in Int /\ env.turn \in Int /\ MaxLoop \in Int
    BY ShapeFacts, ClockAssumption
  <2>3. ToPoll \in Int
    BY AnsweredFacts
  <2> QED
    BY <1>2, <2>1, <2>2, <2>3
<1> QED
  BY <1>1, <1>3 DEF Answered, AckMatches

LEMMA PassAnswered ==
    ASSUME Shape, Undisturbed, Answered, Pass
    PROVE  Answered'
<1>1. Tick /\ rpUp' /\ espSince' = espSince + 1 /\ UNCHANGED <<radios, env>>
  BY AnsweredFacts DEF Pass
<1>2. /\ UNCHANGED <<pc, pending, expected>> /\ loopMs' = loopMs + 1
      /\ (age' = age + 1 \/ age' = age)
  BY <1>1 DEF Tick, attempt
<1>3. age \in Int /\ loopMs \in Int /\ MaxLoop \in Int /\ espSince \in Int
      /\ ToPoll \in Int /\ env.turn \in Int
  BY ShapeFacts, ClockAssumption, AnsweredFacts
<1>4. ToPoll' = ToPoll - 1
  BY <1>2, <1>3 DEF ToPoll
<1>5. SampledAge' <= SampledAge /\ SampledAge \in Int /\ SampledAge' \in Int
  BY <1>2, <1>3 DEF SampledAge
<1>6. espFifo # <<>> => age' <= MaxLoop + espSince'
  BY <1>1, <1>2, <1>3 DEF Answered
<1>7. rpFifo # <<>> =>
        /\ age' + ToPoll' <= 3 * MaxLoop + env.turn
        /\ pc = "check" => SampledAge' <= MaxLoop + env.turn
  BY <1>2, <1>3, <1>4, <1>5 DEF Answered
<1> QED
  BY <1>1, <1>2, <1>6, <1>7 DEF Answered, radios, AckMatches

LEMMA AnsweredStep ==
    ASSUME Shape, Undisturbed => Answered, [LinkNext]_linkVars
    PROVE  (Undisturbed => Answered)'
<1> SUFFICES ASSUME Undisturbed' PROVE Answered'
  OBVIOUS
<1>1. Undisturbed /\ Answered
  BY EnvironmentKept DEF Undisturbed
<1>2. ASSUME NEW sent \in BOOLEAN, RpSend(sent)
      PROVE  Answered'
  BY <1>1, <1>2, SendAnswered
<1>3. CASE EspIdle
  BY <1>1, <1>3 DEF EspIdle, Answered, vars, radios, ToPoll, SampledAge, AckMatches
<1>4. ~ (EspFlush \/ RpReset \/ ForeignPacket \/ RpBoot)
  BY <1>1, AnsweredFacts DEF EspFlush, RpReset, ForeignPacket, RpBoot
<1>5. CASE UNCHANGED linkVars
  BY <1>1, <1>5 DEF linkVars, Answered, vars, ToPoll, SampledAge, AckMatches
<1> QED
  BY <1>1, <1>2, <1>3, <1>4, <1>5, TurnAnswered, PollAnswered, QuietAnswered,
     PassAnswered DEF LinkNext, RpStep, EspStep

\* As long as nothing is lost, the packet of an open attempt is under way and
\* alone.
LEMMA AnsweredHolds == LinkSpec => [](Undisturbed => Answered)
<1>1. LinkInit => (Undisturbed => Answered)
  <2> SUFFICES ASSUME LinkInit PROVE Answered
    OBVIOUS
  <2>1. rpUp /\ rpFifo = <<>> /\ espFifo = <<>> /\ ~ pending
        /\ Len(rpFifo) = 0 /\ Len(espFifo) = 0
    BY DEF LinkInit, Init
  <2> QED
    BY <2>1 DEF Answered
<1>2. Shape /\ (Undisturbed => Answered) /\ [LinkNext]_linkVars
        => (Undisturbed => Answered)'
  BY AnsweredStep
<1> QED
  BY <1>1, <1>2, ShapeHolds, PTL DEF LinkSpec

\* The inductive invariant of the link, all of it.
THEOREM LinkInduction == LinkSpec => []LinkIInv
<1>1. Shape /\ NumbersTrue /\ (Undisturbed => Answered) => LinkIInv
  BY DEF Shape, LinkIInv
<1> QED
  BY <1>1, ShapeHolds, NumbersHold, AnsweredHolds, PTL

\* The window is wide enough wherever a turn of either loop fits into it: with
\* nothing lost no timeout is reported (main.c:195, 306).
THEOREM WindowSuffices == LinkSpec => NoFalseTimeout
<1>1. Shape /\ (Undisturbed => Answered) /\ [LinkNext]_linkVars
        => [rpUp /\ pc = "check" /\ pending /\ Undisturbed => pending']_linkVars
  <2> SUFFICES ASSUME Shape, Answered, LinkNext,
                      rpUp, pc = "check", pending, Undisturbed
               PROVE  pending'
    OBVIOUS
  <2>1. SampledAge < AckWindow
    <3>1. /\ age \in Nat /\ loopMs \in Nat /\ SampledAge = age - loopMs
          /\ espSince \in Nat /\ env.turn \in Nat /\ espSince <= env.turn
          /\ MaxLoop \in Nat /\ AckWindow \in Nat
          /\ MaxLoop + env.turn < AckWindow
      <4>1. espSince <= env.turn /\ MaxLoop + env.turn < AckWindow
        BY DEF Shape, Undisturbed
      <4> QED
        BY <4>1, ShapeFacts, ClockAssumption
    <3>2. age <= MaxLoop + espSince \/ SampledAge <= MaxLoop + env.turn
      BY DEF Answered
    <3> QED
      BY <3>1, <3>2
  <2>2. ~ AckExpired
    <3>1. AckExpired <=> AckWindow <= SampledAge
      BY ExpiredExact DEF Shape
    <3>2. SampledAge \in Int /\ AckWindow \in Int
      BY ShapeFacts, ClockAssumption
    <3> QED
      BY <2>1, <3>1, <3>2
  <2>3. CASE RpQuiet
    BY <2>2, <2>3 DEF RpQuiet, Top, Check, Sleep, timers
  <2>4. ~ RpPoll /\ ~ (\E sent \in BOOLEAN : RpSend(sent))
    BY DEF RpPoll, Recv, RecvNothing, RpSend, Send
  <2>5. CASE RpBoot \/ EspTurn \/ EspIdle \/ EspFlush \/ ForeignPacket
    BY <2>5 DEF RpBoot, EspTurn, EspIdle, EspFlush, ForeignPacket, vars
  <2>6. CASE Pass
    BY <2>6 DEF Pass, Tick, attempt, vars
  <2>7. ~ RpReset
    BY DEF RpReset, Undisturbed
  <2> QED
    BY <2>3, <2>4, <2>5, <2>6, <2>7 DEF LinkNext, RpStep, EspStep
<1> QED
  BY <1>1, AnsweredHolds, ShapeHolds, PTL DEF LinkSpec, NoFalseTimeout
=============================================================================
