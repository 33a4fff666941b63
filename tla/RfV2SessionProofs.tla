-------------------------- MODULE RfV2SessionProofs --------------------------
(***************************************************************************)
(* The strengthening IInv of RfV2Session is inductive for every interval,  *)
(* timeout, range of the counters and length of the loops' turns.          *)
(***************************************************************************)
EXTENDS RfV2Session, SequenceTheorems, TLAPS

USE ClockModAssumption, AirAssumption, SessionAssumption
-----------------------------------------------------------------------------
\* Both operations stay in the range of the counter.
LEMMA ModRange ==
    ASSUME NEW a \in Times, NEW b \in Times
    PROVE  ModAdd(a, b) \in Times /\ ModSub(a, b) \in Times
  BY DEF Times, ModAdd, ModSub

\* A tick of the clock adds one to every difference that is not about to wrap.
LEMMA ModTick ==
    ASSUME NEW a \in Times, NEW b \in Times, ModSub(a, b) + 1 < ClockMod
    PROVE  ModSub(ModAdd(a, 1), b) = ModSub(a, b) + 1
  BY DEF Times, ModAdd, ModSub

\* The way through b is no shorter than the way from a to c.
LEMMA ModTriangle ==
    ASSUME NEW a \in Times, NEW b \in Times, NEW c \in Times
    PROVE  ModSub(c, a) <= ModSub(b, a) + ModSub(c, b)
  BY DEF Times, ModSub
-----------------------------------------------------------------------------
\* The number after a number is one a request may carry, and another one.
LEMMA NextSeqIsSeq ==
    ASSUME NEW s \in Seqs
    PROVE  NextSeq(s) \in Seqs /\ NextSeq(s) # s
  BY DEF NextSeq, Seqs, Reserved

LEMMA NextNonceIsNonce ==
    ASSUME NEW n \in Nonces
    PROVE  NextNonce(n) \in Nonces
  BY DEF NextNonce, Nonces

\* Queues stay queues, whatever happens to them.
LEMMA EmptyIsQueue == <<>> \in Queues
  BY EmptySeq DEF Queues

LEMMA TailIsQueue ==
    ASSUME NEW q \in Queues, q # <<>>
    PROVE  Head(q) \in Packet /\ Tail(q) \in Queues
  BY HeadTailProperties DEF Queues

LEMMA AppendIsQueue ==
    ASSUME NEW q \in Queues, NEW p \in Packet, Len(q) < Depth
    PROVE  Append(q, p) \in Queues
  BY AppendProperties DEF Queues

LEMMA ArrivalsAreQueues ==
    ASSUME NEW q \in Queues, NEW p \in Packet, NEW r \in Arrivals(q, p, TRUE)
    PROVE  r \in Queues
<1>1. CASE r = q
  BY <1>1
<1>2. CASE r # q
  BY <1>2, AppendIsQueue DEF Arrivals
<1> QED
  BY <1>1, <1>2

\* A queue whose packets are replaced, place by place, is a queue.
LEMMA RewrittenIsQueue ==
    ASSUME NEW q \in Queues, NEW r,
           DOMAIN q = 1 .. Len(q) => r \in [1 .. Len(q) -> Packet]
    PROVE  r \in Queues
<1>1. q \in Seq(Packet) /\ Len(q) \in Nat /\ DOMAIN q = 1 .. Len(q)
  BY DEF Queues
<1>2. r \in Seq(Packet)
  <2>1. \E n \in Nat : r \in [1 .. n -> Packet]
    BY <1>1
  <2> HIDE DEF Packet
  <2> QED
    BY <2>1, SeqDef
<1>3. Len(r) = Len(q)
  BY <1>1, <1>2
<1> QED
  BY <1>2, <1>3 DEF Queues

LEMMA PacketAt ==
    ASSUME NEW q \in Queues, NEW i \in 1 .. Len(q)
    PROVE  q[i] \in Packet
  BY DEF Queues

LEMMA OutdatedIsQueue ==
    ASSUME NEW q \in Queues
    PROVE  Outdated(q) \in Queues
<1>1. ASSUME NEW i \in 1 .. Len(q)
      PROVE  [q[i] EXCEPT !.fresh = FALSE] \in Packet
  BY PacketAt DEF Packet
<1> QED
  BY <1>1, RewrittenIsQueue DEF Outdated

LEMMA SupersededIsQueue ==
    ASSUME NEW q \in Queues, NEW k \in Requests
    PROVE  Superseded(q, k) \in Queues
<1> DEFINE still(i) == q[i].fresh /\ (q[i].kind \in {k, Answer[k]} => failed[k])
           after(i) == [q[i] EXCEPT !.fresh = still(i)]
<1>1. ASSUME NEW p \in Packet, NEW b \in BOOLEAN
      PROVE  [p EXCEPT !.fresh = b] \in Packet
  BY <1>1 DEF Packet
<1>2. ASSUME NEW i \in 1 .. Len(q)
      PROVE  after(i) \in Packet
  <2>1. still(i) \in BOOLEAN
    OBVIOUS
  <2> HIDE DEF still
  <2> QED
    BY <1>1, <2>1, PacketAt
<1>3. Superseded(q, k) = [i \in DOMAIN q |-> after(i)]
  BY DEF Superseded
<1> HIDE DEF after
<1> QED
  BY <1>2, <1>3, RewrittenIsQueue

LEMMA RequestIsPacket ==
    ASSUME TypeOK, NEW k \in Requests
    PROVE  RequestFrame(k) \in Packet
<1>1. requestSeq \in 0 .. SeqMax /\ nonce \in Nonces /\ 0 \in Nonces
  BY DEF TypeOK, Seqs, Nonces
<1> QED
  BY <1>1 DEF RequestFrame, Packet

LEMMA AnswerIsPacket ==
    ASSUME NEW p \in Packet, p.kind \in Requests
    PROVE  AnswerTo(p) \in Packet
<1>1. Answer[p.kind] \in Requests \cup {"pong", "status", "other"}
  BY DEF Answer, Requests
<1> QED
  BY <1>1 DEF AnswerTo, Packet

LEMMA OtherIsPacket == Other \in Packet
<1>1. 0 \in 0 .. SeqMax /\ 0 \in Nonces
  BY DEF Nonces
<1> QED
  BY <1>1 DEF Other, Packet
-----------------------------------------------------------------------------
(* Types.                                                                   *)
LEMMA InitTypeOK == Init => TypeOK
<1> SUFFICES ASSUME Init PROVE TypeOK
  OBVIOUS
<1>1. clock \in Times /\ now = clock /\ 0 \in Times
  BY DEF Init, Times
<1>2. 0 \in Nonces /\ 1 % NonceMod \in Nonces
  BY DEF Nonces
<1>3. lastAsk \in [Requests -> Times] /\ deadline \in [Requests -> Times]
  BY <1>1 DEF Init, FirstAsk
<1>4. /\ inFlight \in [Requests -> BOOLEAN] /\ failed \in [Requests -> BOOLEAN]
      /\ waitSeq \in [Requests -> Seqs \cup {Reserved}]
  BY DEF Init
<1>5. age \in [Requests -> Nat] /\ \A k \in Requests : age[k] <= AgeCap(k)
  BY DEF Init, AgeCap
<1>6. rpFifo \in Queues /\ espFifo \in Queues
  BY EmptyIsQueue DEF Init
<1>7. /\ pc \in {"top", "recv", "expire"} \cup Requests /\ requestSeq \in Seqs
      /\ turnAge \in 0 .. MaxTurn /\ rpIdle \in 0 .. RpTurn
  BY DEF Init, Requests, Seqs
<1> QED
  BY <1>1, <1>2, <1>3, <1>4, <1>5, <1>6, <1>7 DEF Init, TypeOK

LEMMA CloseTypes ==
    ASSUME TypeOK, NEW D, Close(D)
    PROVE  /\ inFlight' \in [Requests -> BOOLEAN]
           /\ waitSeq' \in [Requests -> Seqs \cup {Reserved}]
           /\ waitNonce' \in Nonces
           /\ UNCHANGED <<deadline, requestSeq, nonce>>
<1>1. 0 \in Nonces
  BY DEF Nonces
<1>2. waitNonce' \in Nonces /\ UNCHANGED <<deadline, requestSeq, nonce>>
  BY <1>1 DEF TypeOK, Close
<1>3. inFlight' \in [Requests -> BOOLEAN]
  BY DEF Close
<1>4. waitSeq' \in [Requests -> Seqs \cup {Reserved}]
  BY DEF TypeOK, Close
<1> QED
  BY <1>2, <1>3, <1>4

LEMMA AskTypes ==
    ASSUME TypeOK, NEW k \in Requests, NEW sent \in BOOLEAN, Ask(k, sent)
    PROVE  TypeOK'
<1>1. /\ clock' \in Times /\ now' \in Times /\ turnAge' \in 0 .. MaxTurn
      /\ pc' \in {"top", "recv", "expire"} \cup Requests
  BY DEF Ask, TypeOK, AfterAsk, Requests
<1>2. /\ lastAsk' \in [Requests -> Times] /\ failed' \in [Requests -> BOOLEAN]
  BY DEF Ask, TypeOK
<1>3. age' \in [Requests -> Nat] /\ \A j \in Requests : age'[j] <= AgeCap(j)
  <2>1. age' = [age EXCEPT ![k] = turnAge] /\ turnAge \in Nat /\ turnAge <= MaxTurn
    BY DEF Ask, TypeOK
  <2>2. \A j \in Requests : age'[j] = (IF j = k THEN turnAge ELSE age[j])
    BY <2>1 DEF TypeOK
  <2>3. MaxTurn <= AgeCap(k)
    BY DEF AgeCap
  <2>4. AgeCap(k) \in Nat
    BY DEF AgeCap
  <2> QED
    BY <2>1, <2>2, <2>3, <2>4 DEF TypeOK
<1>4. ModAdd(now, Timeout[k]) \in Times
  <2>1. now \in Times /\ Timeout[k] \in Times
    BY DEF TypeOK, Times
  <2> QED
    BY <2>1, ModRange
<1>5. NextSeq(requestSeq) \in Seqs /\ NextNonce(nonce) \in Nonces
  BY NextSeqIsSeq, NextNonceIsNonce DEF TypeOK
<1>6. /\ inFlight' \in [Requests -> BOOLEAN] /\ deadline' \in [Requests -> Times]
      /\ waitSeq' \in [Requests -> Seqs \cup {Reserved}]
  BY <1>4 DEF Ask, TypeOK, session
<1>7. waitNonce' \in Nonces /\ nonce' \in Nonces /\ requestSeq' \in Seqs
  BY <1>5 DEF Ask, TypeOK, session
<1>8. /\ rpFifo' \in Queues /\ espFifo' \in Queues /\ rpIdle' \in 0 .. RpTurn
  <2>1. rpFifo \in Queues /\ espFifo \in Queues /\ rpIdle \in 0 .. RpTurn
    BY DEF TypeOK
  <2>2. Superseded(rpFifo, k) \in Queues /\ Superseded(espFifo, k) \in Queues
    BY <2>1, SupersededIsQueue
  <2>3. /\ rpFifo' \in Arrivals(Superseded(rpFifo, k), RequestFrame(k), TRUE)
        /\ espFifo' = Superseded(espFifo, k) /\ rpIdle' = rpIdle
    BY DEF Ask, Transmit
  <2> QED
    BY <2>1, <2>2, <2>3, RequestIsPacket, ArrivalsAreQueues
<1>9. env' \in Environments
  BY DEF Ask, Transmit, TypeOK
<1> QED
  BY <1>1, <1>2, <1>3, <1>6, <1>7, <1>8, <1>9 DEF TypeOK, AgeCap

\* No circumstances allow a turn longer than the constants do.
LEMMA TurnsBounded ==
    ASSUME TypeOK
    PROVE  env.turn \in 1 .. MaxTurn /\ env.rpTurn \in 1 .. RpTurn
  BY DEF TypeOK, Environment

LEMMA TickTypes ==
    ASSUME TypeOK, Tick
    PROVE  TypeOK'
<1>1. clock' \in Times
  <2>1. clock \in Times /\ 1 \in Times
    BY DEF TypeOK, Times
  <2> QED
    BY <2>1, ModRange DEF Tick
<1>2. turnAge' \in 0 .. MaxTurn /\ rpIdle' \in 0 .. RpTurn
  BY TurnsBounded DEF Tick, TypeOK
<1>3. age' \in [Requests -> Nat] /\ \A k \in Requests : age'[k] <= AgeCap(k)
  <2>1. \A k \in Requests : age[k] \in Nat /\ AgeCap(k) \in Nat
    BY DEF TypeOK, AgeCap
  <2>2. \A k \in Requests :
          age'[k] = (IF age[k] < AgeCap(k) THEN age[k] + 1 ELSE age[k])
    BY DEF Tick
  <2>3. age' \in [Requests -> Nat]
    BY <2>1 DEF Tick
  <2> QED
    BY <2>1, <2>2, <2>3 DEF TypeOK
<1> QED
  BY <1>1, <1>2, <1>3 DEF Tick, TypeOK, session, AgeCap

LEMMA EspRestartTypes ==
    ASSUME TypeOK, EspRestart
    PROVE  TypeOK'
<1>1. clock' \in Times /\ now' = clock' /\ 0 \in Times
  BY DEF EspRestart, Times
<1>2. 0 \in Nonces /\ 1 % NonceMod \in Nonces
  BY DEF Nonces
<1>3. lastAsk' \in [Requests -> Times] /\ deadline' \in [Requests -> Times]
  BY <1>1 DEF EspRestart, FirstAsk
<1>4. /\ inFlight' \in [Requests -> BOOLEAN] /\ failed' \in [Requests -> BOOLEAN]
      /\ waitSeq' \in [Requests -> Seqs \cup {Reserved}]
  BY DEF EspRestart
<1>5. age' \in [Requests -> Nat] /\ \A k \in Requests : age'[k] <= AgeCap(k)
  BY DEF EspRestart, AgeCap
<1>6. rpFifo' \in Queues /\ espFifo' \in Queues
  BY EmptyIsQueue, OutdatedIsQueue DEF EspRestart, TypeOK
<1>7. /\ pc' \in {"top", "recv", "expire"} \cup Requests /\ requestSeq' \in Seqs
      /\ turnAge' \in 0 .. MaxTurn /\ rpIdle' \in 0 .. RpTurn
  BY DEF EspRestart, Requests, Seqs, TypeOK
<1> QED
  BY <1>1, <1>2, <1>3, <1>4, <1>5, <1>6, <1>7 DEF EspRestart, TypeOK, AgeCap

LEMMA RpPollTypes ==
    ASSUME TypeOK, RpPoll
    PROVE  TypeOK'
<1>1. rpFifo' \in Queues /\ Head(rpFifo) \in Packet /\ espFifo \in Queues
  BY TailIsQueue DEF RpPoll, TypeOK
<1>2. espFifo' \in Queues
  BY <1>1, AnswerIsPacket, ArrivalsAreQueues DEF RpPoll
<1>3. rpIdle' \in 0 .. RpTurn
  BY DEF RpPoll
<1> QED
  BY <1>1, <1>2, <1>3 DEF RpPoll, TypeOK, session, time, AgeCap

LEMMA TypeStep == TypeOK /\ [Next]_vars => TypeOK'
<1> SUFFICES ASSUME TypeOK, [Next]_vars PROVE TypeOK'
  OBVIOUS
<1>1. CASE Top
  BY <1>1 DEF Top, TypeOK, session, radios, Requests, AgeCap
<1>2. ASSUME NEW k \in Requests, Skip(k)
      PROVE  TypeOK'
  BY <1>2 DEF Skip, TypeOK, session, time, radios, AfterAsk, Requests, AgeCap
<1>3. ASSUME NEW k \in Requests, NEW sent \in BOOLEAN, Ask(k, sent)
      PROVE  TypeOK'
  BY <1>3, AskTypes
<1>4. CASE Recv
  <2>1. espFifo' \in Queues
    BY <1>4, TailIsQueue DEF Recv, TypeOK
  <2>2. PICK D : Close(D)
    BY <1>4 DEF Recv
  <2> QED
    BY <1>4, <2>1, <2>2, CloseTypes DEF Recv, TypeOK, time, AgeCap
<1>5. CASE RecvNothing
  BY <1>5, EmptyIsQueue DEF RecvNothing, TypeOK, session, time, AgeCap
<1>6. CASE Expire
  <2>1. PICK D : Close(D)
    BY <1>6 DEF Expire
  <2> QED
    BY <1>6, <2>1, CloseTypes DEF Expire, TypeOK, time, radios, AgeCap
<1>7. CASE RpPoll
  BY <1>7, RpPollTypes
<1>8. CASE RpPollNothing \/ RpRestart
  BY <1>8, EmptyIsQueue
     DEF RpPollNothing, RpRestart, TypeOK, session, time, AgeCap
<1>9. CASE OtherPacket
  <2>1. rpFifo' \in Queues /\ espFifo' \in Queues
    BY <1>9, OtherIsPacket, AppendIsQueue DEF OtherPacket, TypeOK
  <2> QED
    BY <1>9, <2>1 DEF OtherPacket, TypeOK, session, time, AgeCap
<1>10. CASE EspRestart
  BY <1>10, EspRestartTypes
<1>11. CASE Tick
  BY <1>11, TickTypes
<1>12. CASE UNCHANGED vars
  BY <1>12 DEF vars, TypeOK, session, time, radios, AgeCap
<1> QED
  BY <1>1, <1>2, <1>3, <1>4, <1>5, <1>6, <1>7, <1>8, <1>9, <1>10, <1>11, <1>12
     DEF Next, EspStep, RpStep
-----------------------------------------------------------------------------
(* Time and numbers.                                                        *)
LEMMA TurnFacts ==
    ASSUME TypeOK
    PROVE  /\ clock \in Nat /\ clock < ClockMod /\ now \in Nat /\ now < ClockMod
           /\ turnAge \in Nat /\ turnAge <= MaxTurn
           /\ MaxTurn \in Nat \ {0} /\ ClockMod \in Nat
  BY DEF TypeOK, Times

LEMMA RequestFacts ==
    ASSUME TypeOK, NEW k \in Requests
    PROVE  /\ lastAsk[k] \in Nat /\ lastAsk[k] < ClockMod
           /\ deadline[k] \in Nat /\ deadline[k] < ClockMod
           /\ age[k] \in Nat /\ inFlight[k] \in BOOLEAN
           /\ Timeout[k] \in Nat /\ Timeout[k] < ClockMod /\ Interval[k] \in Nat
           /\ \A j \in Requests : Timeout[k] + 2 * MaxTurn <= Interval[j]
  BY DEF TypeOK, Times

LEMMA ClockStep == TypeOK /\ ClockTrue /\ [Next]_vars => ClockTrue'
<1> SUFFICES ASSUME TypeOK, ClockTrue, [Next]_vars PROVE ClockTrue'
  OBVIOUS
<1> USE TurnFacts
<1>1. CASE Tick
  <2>1. clock \in Times /\ now \in Times
    BY DEF TypeOK
  <2>2. ModSub(clock, now) + 1 < ClockMod
    BY <1>1, TurnsBounded DEF ClockTrue, Tick
  <2> QED
    BY <1>1, <2>1, <2>2, ModTick DEF ClockTrue, Tick
<1>2. CASE Top
  <2>1. clock' = clock /\ now' = clock /\ turnAge' = 0
    BY <1>2 DEF Top
  <2> QED
    BY <2>1 DEF ClockTrue, ModSub
<1>3. CASE EspRestart
  <2>1. clock' \in Nat /\ now' = clock' /\ turnAge' = 0
    BY <1>3 DEF EspRestart, Times
  <2>2. \A t \in Nat : ModSub(t, t) = 0
    BY DEF ModSub
  <2> QED
    BY <2>1, <2>2 DEF ClockTrue
<1>4. ASSUME UNCHANGED <<clock, now, turnAge>>
      PROVE  ClockTrue'
  BY <1>4 DEF ClockTrue
<1> QED
  BY <1>1, <1>2, <1>3, <1>4
     DEF Next, EspStep, RpStep, vars, time, Skip, Ask, Recv, RecvNothing, Expire,
         RpPoll, RpPollNothing, RpRestart, OtherPacket

LEMMA CloseHolds ==
    ASSUME TypeOK, NumbersHeld, NEW D, Close(D)
    PROVE  NumbersHeld'
  BY DEF TypeOK, NumbersHeld, Close, Seqs, Reserved

LEMMA NumbersStep == TypeOK /\ NumbersHeld /\ [Next]_vars => NumbersHeld'
<1> SUFFICES ASSUME TypeOK, NumbersHeld, [Next]_vars PROVE NumbersHeld'
  OBVIOUS
<1>1. ASSUME NEW k \in Requests, NEW sent \in BOOLEAN, Ask(k, sent)
      PROVE  NumbersHeld'
  <2>1. CASE sent
    <3>1. requestSeq # Reserved
      BY DEF TypeOK, Seqs, Reserved
    <3>2. \A j \in Requests :
            /\ inFlight'[j] = (IF j = k THEN TRUE ELSE inFlight[j])
            /\ waitSeq'[j] = (IF j = k THEN requestSeq ELSE waitSeq[j])
      BY <1>1, <2>1 DEF Ask, TypeOK
    <3> QED
      BY <3>1, <3>2 DEF NumbersHeld
  <2>2. CASE ~ sent
    BY <1>1, <2>2 DEF Ask, NumbersHeld, session
  <2> QED
    BY <2>1, <2>2
<1>2. CASE Recv \/ Expire
  BY <1>2, CloseHolds DEF Recv, Expire
<1>3. CASE EspRestart
  BY <1>3 DEF EspRestart, NumbersHeld
<1>4. ASSUME UNCHANGED <<inFlight, waitSeq>>
      PROVE  NumbersHeld'
  BY <1>4 DEF NumbersHeld
<1> QED
  BY <1>1, <1>2, <1>3, <1>4
     DEF Next, EspStep, RpStep, vars, time, session, Top, Skip, RecvNothing, Tick,
         RpPoll, RpPollNothing, RpRestart, OtherPacket
-----------------------------------------------------------------------------
(* Open requests.                                                           *)
Open(k) == inFlight[k] /\ ClearOfWrap(k)

\* A step that leaves the tick counter and its sample alone, makes no request
\* and may end some keeps what is known of the open ones.
LEMMA QuietKeepsOpen ==
    ASSUME TypeOK, OpenTrue,
           UNCHANGED <<now, lastAsk, turnAge, age, deadline, requestSeq>>,
           \A k \in Requests :
              inFlight'[k] => inFlight[k] /\ waitSeq'[k] = waitSeq[k],
           pc' = "top" =>
              \A k \in Requests : inFlight'[k] /\ ClearOfWrap(k)
                                    => pc = "top" \/ SampledAge(k) < Timeout[k]
    PROVE  OpenTrue'
<1> SUFFICES ASSUME NEW k \in Requests, Open(k)'
             PROVE  /\ AgeTrue(k)'
                    /\ \A j \in Requests \ {k} : OneAskSince(k, j)'
  BY DEF OpenTrue, Open
<1>1. Open(k) /\ inFlight'[k] /\ ClearOfWrap(k)
  BY DEF Open, ClearOfWrap
<1>2. AgeTrue(k) /\ \A j \in Requests \ {k} : OneAskSince(k, j)
  BY <1>1 DEF OpenTrue, Open
<1>3. AgeTrue(k)'
  BY <1>1, <1>2, TurnFacts, RequestFacts DEF AgeTrue, SampledAge
<1>4. ASSUME NEW j \in Requests \ {k}
      PROVE  OneAskSince(k, j)'
  <2>1. OneAskSince(k, j) /\ waitSeq'[k] = waitSeq[k]
    BY <1>1, <1>2
  <2>2. inFlight'[j] /\ ClearOfWrap(j)'
          => inFlight[j] /\ ClearOfWrap(j) /\ waitSeq'[j] = waitSeq[j]
    BY DEF ClearOfWrap
  <2> QED
    BY <2>1, <2>2 DEF OneAskSince
<1> QED
  BY <1>3, <1>4

\* The next sample: before the deadline of an open request neither it nor the
\* counter can have wrapped.
LEMMA TopKeepsOpen ==
    ASSUME TypeOK, ClockTrue, OpenTrue, Top
    PROVE  OpenTrue'
<1> SUFFICES ASSUME NEW k \in Requests, Open(k)'
             PROVE  /\ AgeTrue(k)'
                    /\ \A j \in Requests \ {k} : OneAskSince(k, j)'
  BY DEF OpenTrue, Open
<1> USE TurnFacts, RequestFacts
<1>1. Open(k) /\ AgeTrue(k)
  BY DEF Open, OpenTrue, ClearOfWrap, Top, session
<1>2. now + Timeout[k] = deadline[k] + age[k] - turnAge
      /\ age[k] - turnAge < Timeout[k] /\ deadline[k] + MaxTurn <= ClockMod
  BY <1>1 DEF AgeTrue, SampledAge, Top, Open, ClearOfWrap
<1>3. clock = now + turnAge
  BY <1>2 DEF ClockTrue, ModSub
<1>4. AgeTrue(k)'
  BY <1>1, <1>2, <1>3 DEF AgeTrue, SampledAge, Top, session
<1>5. ASSUME NEW j \in Requests \ {k}
      PROVE  OneAskSince(k, j)'
  <2>1. OneAskSince(k, j)
    BY <1>1 DEF OpenTrue, Open
  <2>2. now <= now' /\ now' \in Nat /\ UNCHANGED <<lastAsk, session>>
    BY <1>3 DEF Top
  <2>3. lastAsk[j] <= now => lastAsk[j] <= now'
    BY <2>2
  <2> QED
    BY <2>1, <2>2, <2>3 DEF OneAskSince, ClearOfWrap, session
<1> QED
  BY <1>4, <1>5

LEMMA TickKeepsOpen ==
    ASSUME TypeOK, OpenTrue, Tick
    PROVE  OpenTrue'
<1> SUFFICES ASSUME NEW k \in Requests, Open(k)'
             PROVE  /\ AgeTrue(k)'
                    /\ \A j \in Requests \ {k} : OneAskSince(k, j)'
  BY DEF OpenTrue, Open
<1> USE TurnFacts, RequestFacts
<1>1. Open(k) /\ AgeTrue(k)
  BY DEF Open, OpenTrue, ClearOfWrap, Tick, session
<1>2. turnAge' = turnAge + 1 /\ turnAge < MaxTurn
  BY TurnsBounded DEF Tick
<1>3. age[k] < AgeCap(k)
  BY <1>1, <1>2 DEF AgeTrue, SampledAge, AgeCap
<1>4. age'[k] = age[k] + 1
  BY <1>3 DEF Tick
<1>5. AgeTrue(k)'
  BY <1>1, <1>2, <1>4 DEF AgeTrue, SampledAge, Tick, session
<1>6. ASSUME NEW j \in Requests \ {k}
      PROVE  OneAskSince(k, j)'
  <2>1. OneAskSince(k, j)
    BY <1>1 DEF OpenTrue, Open
  <2>2. UNCHANGED <<now, lastAsk, session>>
    BY DEF Tick
  <2> QED
    BY <2>1, <2>2 DEF OneAskSince, ClearOfWrap, session
<1> QED
  BY <1>5, <1>6

\* While the number of open request j is no longer the last one given out, the
\* other kind is not due: its interval outlasts the timeout and two turns.
LEMMA NumberIsNew ==
    ASSUME TypeOK, OpenTrue, NEW k \in Requests, NEW j \in Requests \ {k},
           pc = k, AskDue(k), Open(j)
    PROVE  requestSeq # waitSeq[j]
<1> USE TurnFacts, RequestFacts
<1>1. AgeTrue(j) /\ OneAskSince(j, k)
  BY DEF OpenTrue, Open
<1>2. CASE requestSeq = NextSeq(waitSeq[j])
  <2>1. waitSeq[j] \in Seqs \cup {Reserved} /\ requestSeq \in Seqs
    BY DEF TypeOK
  <2> QED
    BY <1>2, <2>1 DEF NextSeq, Seqs, Reserved
<1>3. CASE lastAsk[k] <= now /\ deadline[j] <= lastAsk[k] + Timeout[j]
  <2>1. now - lastAsk[k] >= Interval[k]
    BY <1>3 DEF AskDue, ModSub
  <2>2. now + Timeout[j] = deadline[j] + SampledAge(j)
        /\ SampledAge(j) < Timeout[j] + MaxTurn
    BY <1>1 DEF AgeTrue, SampledAge
  <2>3. Timeout[j] + 2 * MaxTurn <= Interval[k]
    OBVIOUS
  <2>4. SampledAge(j) \in Int
    BY DEF SampledAge
  <2> QED
    BY <1>3, <2>1, <2>2, <2>3, <2>4
<1> QED
  BY <1>1, <1>2, <1>3 DEF OneAskSince

\* A request that goes out: its deadline, if clear of the wrap, is exactly
\* Timeout after the sample.
LEMMA AskKeepsOpen ==
    ASSUME TypeOK, OpenTrue, NumbersHeld, NEW k \in Requests,
           NEW sent \in BOOLEAN, Ask(k, sent)
    PROVE  OpenTrue'
<1> SUFFICES ASSUME NEW i \in Requests, Open(i)'
             PROVE  /\ AgeTrue(i)'
                    /\ \A j \in Requests \ {i} : OneAskSince(i, j)'
  BY DEF OpenTrue, Open
<1> USE TurnFacts, RequestFacts
<1>1. /\ pc = k /\ AskDue(k) /\ pc' # "top"
      /\ UNCHANGED <<clock, now, turnAge>>
  BY DEF Ask, AfterAsk, Requests
<1>2. \A j \in Requests :
        /\ lastAsk'[j] = (IF j = k THEN now ELSE lastAsk[j])
        /\ age'[j] = (IF j = k THEN turnAge ELSE age[j])
  BY DEF Ask, TypeOK
<1>3. \A j \in Requests :
        /\ inFlight'[j] = (IF j = k THEN sent ELSE inFlight[j])
        /\ waitSeq'[j] = (IF j = k /\ sent THEN requestSeq ELSE waitSeq[j])
        /\ deadline'[j] =
             (IF j = k /\ sent THEN ModAdd(now, Timeout[k]) ELSE deadline[j])
  BY <1>1 DEF Ask, TypeOK, session, AskDue
<1>4. requestSeq' = IF sent THEN NextSeq(requestSeq) ELSE requestSeq
  BY DEF Ask, session
<1>5. ASSUME NEW j \in Requests \ {k}
      PROVE  Open(j)' <=> Open(j)
  BY <1>3 DEF Open, ClearOfWrap
<1>6. ASSUME NEW j \in Requests \ {k}, Open(j)
      PROVE  requestSeq # waitSeq[j]
  BY <1>1, <1>6, NumberIsNew
<1>7. CASE i = k
  <2>1. sent
    BY <1>3, <1>7 DEF Open
  <2>2. deadline'[k] = now + Timeout[k]
    <3>1. deadline'[k] = ModAdd(now, Timeout[k])
      BY <1>3, <2>1
    <3>2. deadline'[k] >= Timeout[k]
      BY <1>7 DEF Open, ClearOfWrap
    <3> QED
      BY <3>1, <3>2 DEF ModAdd
  <2>3. AgeTrue(k)'
    <3>1. now' = now /\ turnAge' = turnAge /\ age'[k] = turnAge /\ pc' # "top"
      BY <1>1, <1>2
    <3> QED
      BY <2>2, <3>1 DEF AgeTrue, SampledAge
  <2>4. ASSUME NEW j \in Requests \ {k}
        PROVE  OneAskSince(k, j)'
    <3>1. requestSeq' = NextSeq(waitSeq'[k]) /\ waitSeq'[k] = requestSeq
      BY <1>3, <1>4, <2>1
    <3>2. inFlight'[j] /\ ClearOfWrap(j)' => waitSeq'[j] # waitSeq'[k]
      BY <1>3, <1>5, <1>6, <3>1 DEF Open
    <3> QED
      BY <3>1, <3>2 DEF OneAskSince
  <2> QED
    BY <1>7, <2>3, <2>4
<1>8. CASE i # k
  <2>1. Open(i) /\ AgeTrue(i) /\ \A j \in Requests \ {i} : OneAskSince(i, j)
    BY <1>5, <1>8 DEF Open, OpenTrue
  <2>2. deadline'[i] = deadline[i] /\ waitSeq'[i] = waitSeq[i] /\ age'[i] = age[i]
    BY <1>2, <1>3, <1>8
  <2>3. AgeTrue(i)'
    <3>1. pc # "top"
      BY <1>1 DEF Requests
    <3> QED
      BY <1>1, <2>1, <2>2, <3>1 DEF AgeTrue, SampledAge
  <2>4. ASSUME NEW j \in Requests \ {i}
        PROVE  OneAskSince(i, j)'
    <3>1. j = k
      BY <1>8 DEF Requests
    <3>2. lastAsk'[j] <= now' /\ deadline'[i] <= lastAsk'[j] + Timeout[i]
      <4>1. lastAsk'[j] = now /\ now' = now
        BY <1>1, <1>2, <3>1
      <4>2. deadline[i] <= now + Timeout[i]
        BY <2>1 DEF AgeTrue, SampledAge
      <4> QED
        BY <2>2, <4>1, <4>2
    <3>3. inFlight'[j] /\ ClearOfWrap(j)' => waitSeq'[j] # waitSeq'[i]
      BY <1>3, <1>6, <1>8, <2>1, <2>2, <3>1
    <3> QED
      BY <3>2, <3>3 DEF OneAskSince
  <2> QED
    BY <2>3, <2>4
<1> QED
  BY <1>7, <1>8

\* Only what is not yet over is left open at the end of a turn.
LEMMA ExpireKeepsOpen ==
    ASSUME TypeOK, OpenTrue, Expire
    PROVE  OpenTrue'
<1> USE TurnFacts, RequestFacts
<1>1. UNCHANGED <<now, lastAsk, turnAge, age, deadline, requestSeq>>
  BY DEF Expire, Close, time
<1>2. ASSUME NEW k \in Requests, inFlight'[k]
      PROVE  inFlight[k] /\ now < deadline[k] /\ waitSeq'[k] = waitSeq[k]
  <2>1. inFlight[k] /\ ~ Expired(k)
    BY <1>2 DEF Expire, Close
  <2>2. waitSeq'[k] = waitSeq[k]
    BY <2>1 DEF Expire, Close
  <2> QED
    BY <2>1, <2>2 DEF Expired
<1>3. ASSUME NEW k \in Requests, inFlight'[k], ClearOfWrap(k)
      PROVE  SampledAge(k) < Timeout[k]
  <2>1. AgeTrue(k) /\ now < deadline[k]
    BY <1>2, <1>3 DEF OpenTrue, Open
  <2> QED
    BY <2>1 DEF AgeTrue, SampledAge
<1> QED
  BY <1>1, <1>2, <1>3, QuietKeepsOpen

LEMMA OpenStep ==
    TypeOK /\ ClockTrue /\ NumbersHeld /\ OpenTrue /\ [Next]_vars => OpenTrue'
<1> SUFFICES ASSUME TypeOK, ClockTrue, NumbersHeld, OpenTrue, [Next]_vars
             PROVE  OpenTrue'
  OBVIOUS
<1>1. CASE Top
  BY <1>1, TopKeepsOpen
<1>2. ASSUME NEW k \in Requests, NEW sent \in BOOLEAN, Ask(k, sent)
      PROVE  OpenTrue'
  BY <1>2, AskKeepsOpen
<1>3. CASE Recv
  <2>1. /\ UNCHANGED <<now, lastAsk, turnAge, age, deadline, requestSeq>>
        /\ pc' # "top"
    BY <1>3 DEF Recv, Close, time
  <2>2. \A k \in Requests :
          inFlight'[k] => inFlight[k] /\ waitSeq'[k] = waitSeq[k]
    BY <1>3 DEF Recv, Close
  <2> QED
    BY <2>1, <2>2, QuietKeepsOpen
<1>4. CASE Expire
  BY <1>4, ExpireKeepsOpen
<1>5. CASE Tick
  BY <1>5, TickKeepsOpen
<1>6. CASE EspRestart
  BY <1>6 DEF EspRestart, OpenTrue
<1>7. ASSUME UNCHANGED <<session, time>>, pc' = "top" => pc = "top"
      PROVE  OpenTrue'
  BY <1>7, QuietKeepsOpen DEF session, time
<1>8. ASSUME NEW k \in Requests, Skip(k)
      PROVE  OpenTrue'
  BY <1>7, <1>8 DEF Skip, AfterAsk, Requests
<1>9. CASE RecvNothing
  BY <1>7, <1>9 DEF RecvNothing
<1>10. CASE RpStep \/ RpRestart \/ OtherPacket
  BY <1>7, <1>10 DEF RpStep, RpPoll, RpPollNothing, RpRestart, OtherPacket
<1>11. CASE UNCHANGED vars
  BY <1>7, <1>11 DEF vars
<1> QED
  BY <1>1, <1>2, <1>3, <1>4, <1>5, <1>6, <1>8, <1>9, <1>10, <1>11
     DEF Next, EspStep
-----------------------------------------------------------------------------
LEMMA InitOpenInv == Init => OpenInv
<1> SUFFICES ASSUME Init PROVE OpenInv
  OBVIOUS
<1>1. TypeOK
  BY InitTypeOK
<1>2. ClockTrue
  BY <1>1, TurnFacts DEF Init, ClockTrue, ModSub
<1>3. NumbersHeld /\ OpenTrue
  BY DEF Init, NumbersHeld, OpenTrue
<1> QED
  BY <1>1, <1>2, <1>3 DEF OpenInv

LEMMA OpenInvStep == OpenInv /\ [Next]_vars => OpenInv'
  BY TypeStep, ClockStep, NumbersStep, OpenStep DEF OpenInv

\* What is known of the open requests holds in every state of every session.
LEMMA OpenInvariance == Spec => []OpenInv
  BY InitOpenInv, OpenInvStep, PTL DEF Spec

\* Every variable keeps its type, for every size of the counters.
THEOREM SessionTypeSafety == Spec => []TypeOK
<1>1. OpenInv => TypeOK
  BY DEF OpenInv
<1> QED
  BY <1>1, OpenInvariance, PTL

\* The two open requests never wait for the same number, nor for the one that
\* receivers refuse.
THEOREM NumbersDistinct == Spec => []OwnNumbers
<1>1. OpenInv => OwnNumbers
  <2> SUFFICES ASSUME OpenInv,
                      \A k \in Requests : inFlight[k] /\ ClearOfWrap(k)
               PROVE  waitSeq["ping"] # waitSeq["get_status"]
    BY DEF OpenInv, NumbersHeld, OwnNumbers
  <2>1. "ping" \in Requests /\ "get_status" \in Requests \ {"ping"}
    BY DEF Requests
  <2>2. OneAskSince("ping", "get_status")
    BY <2>1 DEF OpenInv, OpenTrue
  <2> QED
    BY <2>1, <2>2 DEF OneAskSince
<1> QED
  BY <1>1, OpenInvariance, PTL

\* A request is given up in the first turn whose sample finds it Timeout old,
\* and in no earlier one.
THEOREM GivenUpInTime == Spec => TimeoutExact
<1>1. OpenInv /\ [Next]_vars
        => [pc = "expire" /\ pc' = "top"
              => \A k \in Requests :
                   inFlight[k] /\ ClearOfWrap(k)
                     => (inFlight'[k] <=> SampledAge(k) < Timeout[k])]_vars
  <2> SUFFICES ASSUME OpenInv, [Next]_vars, pc = "expire", pc' = "top",
                      NEW k \in Requests, inFlight[k], ClearOfWrap(k)
               PROVE  inFlight'[k] <=> SampledAge(k) < Timeout[k]
    OBVIOUS
  <2>1. TypeOK
    BY DEF OpenInv
  <2>2. Expire
    BY DEF Next, EspStep, RpStep, vars, Top, Skip, Ask, Recv, RecvNothing,
           RpPoll, RpPollNothing, RpRestart, OtherPacket, EspRestart, Tick,
           Requests
  <2>3. inFlight'[k] <=> ~ (now >= deadline[k])
    BY <2>2 DEF Expire, Close, Expired
  <2>4. AgeTrue(k)
    BY DEF OpenInv, OpenTrue
  <2> QED
    BY <2>1, <2>3, <2>4, TurnFacts, RequestFacts DEF AgeTrue, SampledAge
<1> QED
  BY <1>1, OpenInvariance, PTL DEF Spec, TimeoutExact
-----------------------------------------------------------------------------
(* What is at which place of a queue.                                       *)
LEMMA QueueAt ==
    ASSUME NEW q \in Queues
    PROVE  /\ Len(q) \in 0 .. Depth
           /\ Len(q) = 0 <=> q = <<>>
           /\ \A i \in 1 .. Len(q) : q[i] \in Packet
<1>1. q \in Seq(Packet) /\ Len(q) \in Nat /\ Len(q) <= Depth
  BY DEF Queues
<1>2. Len(q) = 0 <=> q = <<>>
  BY <1>1, EmptySeq
<1> QED
  BY <1>1, <1>2, PacketAt

LEMMA TailAt ==
    ASSUME NEW q \in Queues, q # <<>>
    PROVE  /\ 1 \in 1 .. Len(q) /\ Head(q) = q[1]
           /\ Len(Tail(q)) = Len(q) - 1
           /\ \A i \in 1 .. Len(Tail(q)) :
                 Tail(q)[i] = q[i + 1] /\ i + 1 \in 1 .. Len(q)
<1>1. q \in Seq(Packet) /\ Len(q) \in Nat /\ Len(q) # 0
  BY EmptySeq DEF Queues
<1> QED
  BY <1>1, HeadTailProperties

LEMMA AppendAt ==
    ASSUME NEW q \in Queues, NEW p \in Packet
    PROVE  /\ Len(Append(q, p)) = Len(q) + 1
           /\ \A i \in 1 .. Len(q) : Append(q, p)[i] = q[i]
           /\ Append(q, p)[Len(q) + 1] = p
<1>1. q \in Seq(Packet) /\ Len(q) \in Nat
  BY DEF Queues
<1> QED
  BY <1>1, AppendProperties

\* A packet that arrives comes last.
LEMMA ArrivalsAt ==
    ASSUME NEW q \in Queues, NEW p \in Packet, NEW r \in Arrivals(q, p, TRUE)
    PROVE  \/ r = q
           \/ /\ Len(q) < Depth /\ Len(r) = Len(q) + 1
              /\ \A i \in 1 .. Len(q) : r[i] = q[i]
              /\ r[Len(q) + 1] = p
<1>1. CASE r = q
  BY <1>1 DEF Arrivals
<1>2. CASE r # q
  <2>1. r = Append(q, p) /\ Len(q) < Depth
    BY <1>2 DEF Arrivals
  <2> QED
    BY <2>1, AppendAt
<1> QED
  BY <1>1, <1>2

\* Place by place, a queue that is marked afresh holds the same packets.
LEMMA SupersededAt ==
    ASSUME NEW q \in Queues, NEW k \in Requests
    PROVE  /\ Len(Superseded(q, k)) = Len(q)
           /\ \A i \in 1 .. Len(q) :
                 Superseded(q, k)[i] =
                   [q[i] EXCEPT !.fresh =
                       @ /\ (q[i].kind \in {k, Answer[k]} => failed[k])]
<1>1. Len(q) \in Nat /\ DOMAIN q = 1 .. Len(q)
  BY DEF Queues
<1>2. Superseded(q, k) \in Seq(Packet)
      /\ DOMAIN Superseded(q, k) = 1 .. Len(q)
  BY <1>1, SupersededIsQueue DEF Queues, Superseded
<1>3. Len(Superseded(q, k)) = Len(q)
  BY <1>1, <1>2, LenProperties
<1> QED
  BY <1>1, <1>3 DEF Superseded

\* A frame is of one kind of request, and so is its answer.
LEMMA KindFacts ==
    ASSUME NEW p \in Packet
    PROVE  /\ KindOf(p) \in Requests
           /\ p.kind # "other" =>
                \A k \in Requests : p.kind \in {k, Answer[k]} <=> KindOf(p) = k
           /\ p.kind \in Requests =>
                KindOf(p) = p.kind /\ KindOf(AnswerTo(p)) = p.kind
  BY DEF KindOf, Packet, Requests, Answer, AnswerTo
-----------------------------------------------------------------------------
(* Numbers and waits.                                                       *)
LEMMA Multiples ==
    ASSUME NEW a \in Int, NEW c \in Nat
    PROVE  /\ a * c \in Int
           /\ (a + 1) * c = a * c + c /\ (a - 1) * c = a * c - c
           /\ \A b \in Int : a <= b => a * c <= b * c
<1>1. a * c \in Int /\ (a + 1) * c = a * c + c /\ (a - 1) * c = a * c - c
  OBVIOUS
<1>2. ASSUME NEW b \in Int, a <= b PROVE a * c <= b * c
  <2>1. 0 <= (b - a) * c
    BY <1>2
  <2>2. (b - a) * c = b * c - a * c
    OBVIOUS
  <2>3. a * c \in Int /\ b * c \in Int
    OBVIOUS
  <2> QED
    BY <2>1, <2>2, <2>3
<1> QED
  BY <1>1, <1>2

LEMMA BehindFacts ==
    ASSUME NEW s \in Seqs, NEW n \in Seqs
    PROVE  /\ Behind(s, n) \in 0 .. SeqMax - 1
           /\ Behind(s, n) = 0 <=> s = n
           /\ Behind(n, NextSeq(n)) = 1
           /\ Behind(s, n) # SeqMax - 1
                => Behind(s, NextSeq(n)) = Behind(s, n) + 1
           /\ s = NextSeq(n) => Behind(s, n) = SeqMax - 1
  BY DEF Behind, NextSeq, Seqs, Reserved

LEMMA PauseFacts ==
    /\ Pause \in Nat
    /\ \A k \in Requests : Pause <= Interval[k] /\ Timeout[k] + 2 * MaxTurn <= Pause
<1>1. "ping" \in Requests /\ "get_status" \in Requests
  BY DEF Requests
<1>2. Interval["ping"] \in Nat /\ Interval["get_status"] \in Nat
  BY <1>1
<1>3. Pause \in {Interval[k] : k \in Requests}
      /\ Pause <= Interval["ping"] /\ Pause <= Interval["get_status"]
  BY <1>1, <1>2 DEF Pause
<1> QED
  BY <1>2, <1>3 DEF Requests

LEMMA EnvFacts ==
    ASSUME TypeOK
    PROVE  /\ env \in Environments
           /\ env.turn \in Nat /\ 1 <= env.turn /\ env.turn <= MaxTurn
           /\ env.rpTurn \in Nat /\ 1 <= env.rpTurn
           /\ turnAge \in Nat /\ rpIdle \in Nat
           /\ env.restarts \in BOOLEAN
           /\ Lifetime(env) \in Nat
<1>1. env \in Environment /\ env \in Environments
  BY DEF TypeOK
<1>2. env.turn \in 1 .. MaxTurn /\ env.rpTurn \in 1 .. RpTurn
      /\ env.restarts \in BOOLEAN
  BY <1>1 DEF Environment
<1>3. Lifetime(env) \in Nat
  <2>1. Depth * env.rpTurn \in Nat /\ (Depth + 1) * env.turn \in Nat
    BY <1>2
  <2> QED
    BY <2>1 DEF Lifetime
<1> QED
  BY <1>1, <1>2, <1>3 DEF TypeOK

\* When a frame is fetched from its place at the latest.
LEMMA DueFacts ==
    ASSUME TypeOK, TurnsKept
    PROVE  /\ Fetch \in {env.turn, 2 * env.turn}
           /\ (Depth + 1) * env.turn \in Nat
           /\ \A i \in 1 .. Depth :
                /\ EspDue(i) \in Nat
                /\ EspDue(i + 1) = EspDue(i) + env.turn
                /\ env.turn <= EspDue(i)
                /\ EspDue(i) <= (Depth + 1) * env.turn
                /\ RpDue(i) \in Nat
                /\ RpDue(i + 1) = RpDue(i) + env.rpTurn
                /\ env.turn <= RpDue(i)
                /\ turnAge + (Depth + 1) * env.turn <= RpDue(i)
                /\ RpDue(i) <= Lifetime(env) + env.turn
<1> DEFINE T == env.turn
           R == env.rpTurn
<1>1. /\ T \in Nat /\ 1 <= T /\ R \in Nat /\ 1 <= R
      /\ turnAge \in Nat /\ rpIdle \in Nat /\ turnAge <= T /\ rpIdle <= R
  BY EnvFacts DEF TurnsKept
<1>2. Fetch \in Nat /\ Fetch \in {T, 2 * T} /\ T <= Fetch /\ Fetch <= 2 * T
  BY <1>1 DEF Fetch
<1>3. /\ (Depth + 1) * T \in Nat
      /\ (Depth + 1) * T = Depth * T + T /\ (Depth - 1) * T = Depth * T - T
      /\ 1 * T <= Depth * T /\ 1 * T = T
      /\ Lifetime(env) = Depth * R + (Depth + 1) * T
  BY <1>1, Multiples DEF Lifetime
<1>4. ASSUME NEW i \in 1 .. Depth
      PROVE  /\ EspDue(i) \in Nat
             /\ EspDue(i + 1) = EspDue(i) + T
             /\ T <= EspDue(i)
             /\ EspDue(i) <= (Depth + 1) * T
  <2>1. /\ (i - 1) * T \in Int /\ 0 * T <= (i - 1) * T /\ 0 * T = 0
        /\ (i - 1) * T <= (Depth - 1) * T
    BY <1>1, Multiples
  <2>2. ((i + 1) - 1) * T = (i - 1) * T + T
    BY <1>1, Multiples
  <2>3. EspDue(i) = (i - 1) * T + Fetch /\ EspDue(i + 1) = ((i + 1) - 1) * T + Fetch
    BY DEF EspDue
  <2> HIDE DEF T, R
  <2> QED
    BY <1>1, <1>2, <1>3, <2>1, <2>2, <2>3
<1>5. ASSUME NEW i \in 1 .. Depth
      PROVE  /\ RpDue(i) \in Nat
             /\ RpDue(i + 1) = RpDue(i) + R
             /\ T <= RpDue(i)
             /\ turnAge + (Depth + 1) * T <= RpDue(i)
             /\ RpDue(i) <= Lifetime(env) + T
  <2>1. /\ i * R \in Int /\ 1 * R <= i * R /\ 1 * R = R /\ i * R <= Depth * R
        /\ (i + 1) * R = i * R + R /\ Depth * R \in Int /\ Depth * T \in Int
    BY <1>1, Multiples
  <2>2. RpDue(i) = i * R - rpIdle + turnAge + (Depth + 1) * T
        /\ RpDue(i + 1) = (i + 1) * R - rpIdle + turnAge + (Depth + 1) * T
    BY DEF RpDue
  <2> HIDE DEF T, R
  <2> QED
    BY <1>1, <1>3, <2>1, <2>2
<1> QED
  BY <1>2, <1>3, <1>4, <1>5
-----------------------------------------------------------------------------
(* Turns.                                                                   *)
LEMMA TurnsStep == TypeOK /\ TurnsKept /\ [Next]_vars => TurnsKept'
<1> SUFFICES ASSUME TypeOK, TurnsKept, [Next]_vars PROVE TurnsKept'
  OBVIOUS
<1>1. /\ turnAge \in Nat /\ rpIdle \in Nat
      /\ turnAge <= env.turn /\ rpIdle <= env.rpTurn
      /\ env.turn \in Nat /\ env.rpTurn \in Nat
  BY EnvFacts DEF TurnsKept
<1>2. CASE Tick
  BY <1>1, <1>2 DEF Tick, TurnsKept
<1>3. CASE ~ Tick
  <2>1. env' = env
    BY <1>3
       DEF Next, EspStep, RpStep, vars, radios, Skip, Ask, Transmit, Recv,
           RecvNothing, Expire, RpPoll, RpPollNothing, RpRestart, OtherPacket,
           EspRestart, Top
  <2>2. turnAge' \in {0, turnAge}
    BY <1>3
       DEF Next, EspStep, RpStep, vars, time, Skip, Ask, Recv, RecvNothing,
           Expire, RpPoll, RpPollNothing, RpRestart, OtherPacket, EspRestart, Top
  <2>3. rpIdle' \in {0, rpIdle}
    BY <1>3
       DEF Next, EspStep, RpStep, vars, radios, Skip, Ask, Transmit, Recv,
           RecvNothing, Expire, RpPoll, RpPollNothing, RpRestart, OtherPacket,
           EspRestart, Top
  <2> QED
    BY <1>1, <2>1, <2>2, <2>3 DEF TurnsKept
<1> QED
  BY <1>2, <1>3
-----------------------------------------------------------------------------
(* Frames that stay under way.                                              *)
LEMMA SinceFacts ==
    ASSUME TypeOK, NEW k \in Requests
    PROVE  /\ Since(k) \in Nat /\ Spaced(k) \in Nat
           /\ Spaced(k) <= Pause /\ Spaced(k) <= Since(k)
<1>1. now \in Times /\ lastAsk[k] \in Times
  BY DEF TypeOK
<1>2. Since(k) \in Nat
  <2>1. Since(k) \in Times
    BY <1>1, ModRange DEF Since
  <2> QED
    BY <2>1 DEF Times
<1> QED
  BY <1>2, PauseFacts DEF Spaced

\* A step that makes no request and does not restart the ESP32-C3; each sample
\* is at most d after the one before.
Passes(d) ==
    /\ UNCHANGED <<requestSeq, failed, env>>
    /\ \A k \in Requests :
          inFlight'[k] => inFlight[k] /\ waitSeq'[k] = waitSeq[k]
    /\ \A k \in Requests : Since(k)' <= Since(k) + d

\* What is known of a frame stays known of it, and of the answer to it, as
\* long as it is not held up.
LEMMA StillTrue ==
    ASSUME TypeOK, TypeOK', NEW d \in Nat, Passes(d),
           NEW p \in Packet, NEW w \in Int, NEW w2 \in Int,
           w2 + d <= w, FrameTrue(p, w)
    PROVE  FrameTrue(p, w2)'
<1>1. CASE p.kind = "other"
  BY <1>1 DEF FrameTrue
<1>2. KindOf(p) \in Requests /\ "ping" \in Requests /\ "get_status" \in Requests
  BY KindFacts DEF Requests
<1>3. ASSUME NEW k \in Requests
      PROVE  /\ Since(k) \in Nat /\ Since(k)' \in Nat
             /\ Since(k)' <= Since(k) + d
             /\ Spaced(k) \in Nat /\ Spaced(k)' \in Nat
             /\ Spaced(k)' <= Spaced(k) + d
  <2>1. Since(k) \in Nat /\ Since(k)' <= Since(k) + d
    BY SinceFacts DEF Passes
  <2>2. now' \in Times /\ lastAsk'[k] \in Times
    BY DEF TypeOK
  <2>3. Since(k)' \in Nat
    <3>1. Since(k)' \in Times
      BY <2>2, ModRange DEF Since
    <3> QED
      BY <3>1 DEF Times
  <2> QED
    BY <2>1, <2>3, PauseFacts DEF Spaced
<1>4. CASE p.kind # "other" /\ env.restarts
  <2> DEFINE L == Lifetime(env) + env.turn
  <2>1. GoneInTime(p, w) /\ env' = env
    BY <1>4 DEF FrameTrue, Passes
  <2>2. Since(KindOf(p)) + w <= L /\ L \in Int
    BY <2>1, EnvFacts DEF GoneInTime
  <2>3. Since(KindOf(p))' + w2 <= L
    <3> HIDE DEF L
    <3> QED
      BY <1>2, <1>3, <2>2
  <2>4. inFlight'[KindOf(p)] => p.fresh
    BY <1>2, <2>1 DEF GoneInTime, Passes
  <2> QED
    BY <1>4, <2>1, <2>3, <2>4 DEF FrameTrue, GoneInTime
<1>5. CASE p.kind # "other" /\ ~ env.restarts
  <2> DEFINE B == Behind(p.seq, requestSeq) * Pause
             M == 2 * (Pause + env.turn + Lifetime(env))
  <2>1. /\ NumberTells(p, w)
        /\ env' = env /\ requestSeq' = requestSeq /\ failed' = failed
    BY <1>5 DEF FrameTrue, Passes
  <2>2. /\ B + Spaced("ping") + Spaced("get_status") + 2 * w <= M
        /\ B \in Int /\ M \in Int
    <3>1. p.seq \in Seqs /\ requestSeq \in Seqs
      BY <2>1 DEF NumberTells, TypeOK
    <3>2. Behind(p.seq, requestSeq) \in Int
      BY <3>1, BehindFacts
    <3> QED
      BY <2>1, <3>2, EnvFacts, PauseFacts, Multiples DEF NumberTells
  <2>3. B + Spaced("ping")' + Spaced("get_status")' + 2 * w2 <= M
    <3> HIDE DEF B, M
    <3> QED
      BY <1>2, <1>3, <2>2
  <2>4. inFlight'[KindOf(p)] /\ p.seq = waitSeq'[KindOf(p)] => p.fresh
    BY <1>2, <2>1 DEF NumberTells, Passes
  <2>5. p.seq \in Seqs /\ (p.seq = requestSeq => p.fresh /\ failed[KindOf(p)])
    BY <2>1 DEF NumberTells
  <2> QED
    BY <1>5, <2>1, <2>3, <2>4, <2>5 DEF FrameTrue, NumberTells
<1> QED
  BY <1>1, <1>4, <1>5

LEMMA AnswerTrue ==
    ASSUME NEW p \in Packet, p.kind \in Requests, NEW w, FrameTrue(p, w)
    PROVE  FrameTrue(AnswerTo(p), w)
<1>1. KindOf(AnswerTo(p)) = KindOf(p)
  BY KindFacts
<1>2. AnswerTo(p).seq = p.seq /\ AnswerTo(p).fresh = p.fresh /\ p.kind # "other"
  BY DEF AnswerTo, Packet, Requests
<1> QED
  BY <1>1, <1>2 DEF FrameTrue, GoneInTime, NumberTells

\* Where a frame comes from that is due after `due': it was in one of the queues,
\* or it answers one that was.
Carried(p, due) ==
    \/ p.kind = "other"
    \/ \E j \in 1 .. Len(espFifo) : p = espFifo[j] /\ due <= EspDue(j)
    \/ \E j \in 1 .. Len(rpFifo) : p = rpFifo[j] /\ due <= RpDue(j)
    \/ \E j \in 1 .. Len(rpFifo) :
          /\ rpFifo[j].kind \in Requests
          /\ p = AnswerTo(rpFifo[j]) /\ due <= RpDue(j)

LEMMA CarriedTrue ==
    ASSUME TypeOK, TypeOK', TurnsKept, FramesTrue, NEW d \in Nat, Passes(d),
           NEW p \in Packet, NEW w \in Int, Carried(p, w + d)
    PROVE  FrameTrue(p, w)'
<1>1. CASE p.kind = "other"
  BY <1>1 DEF FrameTrue
<1>2. ASSUME NEW q \in Packet, NEW due \in Int, FrameTrue(q, due), w + d <= due,
             p = q \/ (q.kind \in Requests /\ p = AnswerTo(q))
      PROVE  FrameTrue(p, w)'
  <2>1. FrameTrue(p, due)
    BY <1>2, AnswerTrue
  <2> QED
    BY <1>2, <2>1, StillTrue
<1>3. ASSUME NEW j \in 1 .. Len(espFifo)
      PROVE  espFifo[j] \in Packet /\ EspDue(j) \in Int
             /\ FrameTrue(espFifo[j], EspDue(j))
  <2>1. espFifo[j] \in Packet /\ j \in 1 .. Depth
    BY QueueAt DEF TypeOK
  <2> QED
    BY <2>1, DueFacts DEF FramesTrue
<1>4. ASSUME NEW j \in 1 .. Len(rpFifo)
      PROVE  rpFifo[j] \in Packet /\ RpDue(j) \in Int
             /\ FrameTrue(rpFifo[j], RpDue(j))
  <2>1. rpFifo[j] \in Packet /\ j \in 1 .. Depth
    BY QueueAt DEF TypeOK
  <2> QED
    BY <2>1, DueFacts DEF FramesTrue
<1>5. CASE \E j \in 1 .. Len(espFifo) : p = espFifo[j] /\ w + d <= EspDue(j)
  BY <1>2, <1>3, <1>5
<1>6. CASE \E j \in 1 .. Len(rpFifo) : p = rpFifo[j] /\ w + d <= RpDue(j)
  BY <1>2, <1>4, <1>6
<1>7. CASE \E j \in 1 .. Len(rpFifo) :
             /\ rpFifo[j].kind \in Requests
             /\ p = AnswerTo(rpFifo[j]) /\ w + d <= RpDue(j)
  BY <1>2, <1>4, <1>7
<1> QED
  BY <1>1, <1>5, <1>6, <1>7 DEF Carried

\* What is to be shown of each place of the queues.
LEMMA FramesFrom ==
    ASSUME \A i \in 1 .. Len(espFifo') : \A p, w :
              p = espFifo'[i] /\ w = EspDue(i)' => FrameTrue(p, w)',
           \A i \in 1 .. Len(rpFifo') : \A p, w :
              p = rpFifo'[i] /\ w = RpDue(i)' => FrameTrue(p, w)'
    PROVE  FramesTrue'
<1>1. ASSUME NEW i \in 1 .. Len(espFifo')
      PROVE  FrameTrue(espFifo[i], EspDue(i))'
  <2>1. PICK p, w : p = espFifo'[i] /\ w = EspDue(i)'
    OBVIOUS
  <2>2. FrameTrue(p, w)'
    BY <2>1
  <2> QED
    BY <2>1, <2>2 DEF FrameTrue, GoneInTime, NumberTells, Since, Spaced
<1>2. ASSUME NEW i \in 1 .. Len(rpFifo')
      PROVE  FrameTrue(rpFifo[i], RpDue(i))'
  <2>1. PICK p, w : p = rpFifo'[i] /\ w = RpDue(i)'
    OBVIOUS
  <2>2. FrameTrue(p, w)'
    BY <2>1
  <2> QED
    BY <2>1, <2>2 DEF FrameTrue, GoneInTime, NumberTells, Since, Spaced
<1> QED
  BY <1>1, <1>2 DEF FramesTrue

Dues == \A i \in 1 .. Depth :
          /\ EspDue(i) \in Nat /\ RpDue(i) \in Nat
          /\ RpDue(i) <= Lifetime(env) + env.turn

LEMMA DueTypes == TypeOK /\ TurnsKept => Dues
  BY DueFacts DEF Dues

\* Steps that only carry frames along.
LEMMA FramesCarried ==
    ASSUME TypeOK, TypeOK', TurnsKept, TurnsKept', FramesTrue,
           NEW d \in Nat, Passes(d),
           \A i \in 1 .. Len(espFifo') : Carried(espFifo'[i], EspDue(i)' + d),
           \A i \in 1 .. Len(rpFifo') : Carried(rpFifo'[i], RpDue(i)' + d)
    PROVE  FramesTrue'
<1>0. Dues'
  BY DueTypes, PTL
<1>1. ASSUME NEW i \in 1 .. Len(espFifo')
      PROVE  espFifo'[i] \in Packet /\ EspDue(i)' \in Int
  <2>1. espFifo' \in Queues
    BY DEF TypeOK
  <2>2. espFifo'[i] \in Packet /\ i \in 1 .. Depth
    BY <2>1, QueueAt
  <2> QED
    BY <1>0, <2>2 DEF Dues
<1>2. ASSUME NEW i \in 1 .. Len(rpFifo')
      PROVE  rpFifo'[i] \in Packet /\ RpDue(i)' \in Int
  <2>1. rpFifo' \in Queues
    BY DEF TypeOK
  <2>2. rpFifo'[i] \in Packet /\ i \in 1 .. Depth
    BY <2>1, QueueAt
  <2> QED
    BY <1>0, <2>2 DEF Dues
<1>3. ASSUME NEW i \in 1 .. Len(espFifo'), NEW p, NEW w,
             p = espFifo'[i], w = EspDue(i)'
      PROVE  FrameTrue(p, w)'
  <2>1. p \in Packet /\ w \in Int
    BY <1>1, <1>3
  <2>2. Carried(p, w + d)
    BY <1>3
  <2> QED
    BY <2>1, <2>2, CarriedTrue
<1>4. ASSUME NEW i \in 1 .. Len(rpFifo'), NEW p, NEW w,
             p = rpFifo'[i], w = RpDue(i)'
      PROVE  FrameTrue(p, w)'
  <2>1. p \in Packet /\ w \in Int
    BY <1>2, <1>4
  <2>2. Carried(p, w + d)
    BY <1>4
  <2> QED
    BY <2>1, <2>2, CarriedTrue
<1> QED
  BY <1>3, <1>4, FramesFrom

LEMMA DueMoves ==
    ASSUME TypeOK, TypeOK', TurnsKept, TurnsKept', env' = env
    PROVE  /\ Fetch \in Nat /\ Fetch' \in Nat
           /\ \A i \in 1 .. Depth :
                /\ EspDue(i) \in Nat /\ EspDue(i)' = EspDue(i) + (Fetch' - Fetch)
                /\ RpDue(i) \in Nat
                /\ RpDue(i)' = RpDue(i) + (turnAge' - rpIdle') - (turnAge - rpIdle)
<1>1. /\ env.turn \in Nat /\ env.rpTurn \in Nat
      /\ turnAge \in Nat /\ rpIdle \in Nat /\ turnAge' \in Nat /\ rpIdle' \in Nat
  <2>1. turnAge' \in Nat /\ rpIdle' \in Nat
    BY DEF TypeOK
  <2> QED
    BY <2>1, EnvFacts
<1>2. Fetch \in Nat /\ Fetch' \in Nat
  BY <1>1 DEF Fetch
<1>3. ASSUME NEW i \in 1 .. Depth
      PROVE  /\ EspDue(i)' = EspDue(i) + (Fetch' - Fetch)
             /\ RpDue(i)' = RpDue(i) + (turnAge' - rpIdle') - (turnAge - rpIdle)
  <2>1. (i - 1) * env.turn \in Int /\ i * env.rpTurn \in Int
        /\ (Depth + 1) * env.turn \in Int
    BY <1>1
  <2>2. EspDue(i) = (i - 1) * env.turn + Fetch /\ EspDue(i)' = (i - 1) * env.turn + Fetch'
    BY DEF EspDue
  <2>3. /\ RpDue(i) = i * env.rpTurn - rpIdle + turnAge + (Depth + 1) * env.turn
        /\ RpDue(i)' = i * env.rpTurn - rpIdle' + turnAge' + (Depth + 1) * env.turn
    BY DEF RpDue
  <2> QED
    BY <1>1, <1>2, <2>1, <2>2, <2>3
<1> QED
  BY <1>2, <1>3, DueFacts

\* Steps after which every frame left is still at its place.
LEMMA FramesStay ==
    ASSUME TypeOK, TypeOK', TurnsKept, TurnsKept', FramesTrue,
           NEW d \in Nat, Passes(d),
           espFifo' = <<>> \/ Fetch' + d <= Fetch,
           rpFifo' = <<>> \/ turnAge' - rpIdle' + d <= turnAge - rpIdle,
           \A i \in 1 .. Len(espFifo') :
              \/ espFifo'[i].kind = "other"
              \/ i \in 1 .. Len(espFifo) /\ espFifo'[i] = espFifo[i],
           \A i \in 1 .. Len(rpFifo') :
              \/ rpFifo'[i].kind = "other"
              \/ i \in 1 .. Len(rpFifo) /\ rpFifo'[i] = rpFifo[i]
    PROVE  FramesTrue'
<1>1. /\ turnAge \in Nat /\ rpIdle \in Nat /\ turnAge' \in Nat /\ rpIdle' \in Nat
      /\ env' = env
      /\ Len(espFifo) \in 0 .. Depth /\ Len(rpFifo) \in 0 .. Depth
      /\ espFifo' = <<>> => Len(espFifo') = 0
      /\ rpFifo' = <<>> => Len(rpFifo') = 0
  BY QueueAt DEF TypeOK, Passes
<1>2. ASSUME NEW i \in 1 .. Len(espFifo')
      PROVE  Carried(espFifo'[i], EspDue(i)' + d)
  <2>1. CASE espFifo'[i].kind = "other"
    BY <2>1 DEF Carried
  <2>2. CASE i \in 1 .. Len(espFifo) /\ espFifo'[i] = espFifo[i]
    <3>1. Fetch' + d <= Fetch
      BY <1>1, <1>2
    <3>2. i \in 1 .. Depth
      BY <1>1, <2>2
    <3>3. /\ Fetch \in Nat /\ Fetch' \in Nat
          /\ EspDue(i) \in Nat /\ EspDue(i)' = EspDue(i) + (Fetch' - Fetch)
      BY <1>1, <3>2, DueMoves
    <3>4. EspDue(i)' + d <= EspDue(i)
      BY <3>1, <3>3
    <3> QED
      BY <2>2, <3>4 DEF Carried
  <2> QED
    BY <2>1, <2>2
<1>3. ASSUME NEW i \in 1 .. Len(rpFifo')
      PROVE  Carried(rpFifo'[i], RpDue(i)' + d)
  <2>1. CASE rpFifo'[i].kind = "other"
    BY <2>1 DEF Carried
  <2>2. CASE i \in 1 .. Len(rpFifo) /\ rpFifo'[i] = rpFifo[i]
    <3>1. turnAge' - rpIdle' + d <= turnAge - rpIdle
      BY <1>1, <1>3
    <3>2. i \in 1 .. Depth
      BY <1>1, <2>2
    <3>3. /\ RpDue(i) \in Nat
          /\ RpDue(i)' = RpDue(i) + (turnAge' - rpIdle') - (turnAge - rpIdle)
      BY <1>1, <3>2, DueMoves
    <3>4. PICK a \in Int, b \in Int : a = turnAge - rpIdle /\ b = turnAge' - rpIdle'
      <4>1. turnAge - rpIdle \in Int /\ turnAge' - rpIdle' \in Int
        BY <1>1
      <4> QED
        BY <4>1
    <3>5. RpDue(i)' + d <= RpDue(i)
      <4>1. b + d <= a
        BY <3>1, <3>4
      <4>2. RpDue(i)' = RpDue(i) + b - a
        BY <3>3, <3>4
      <4> QED
        BY <3>3, <4>1, <4>2
    <3> QED
      BY <2>2, <3>5 DEF Carried
  <2> QED
    BY <2>1, <2>2
<1> QED
  BY <1>2, <1>3, FramesCarried

\* All steps but a request and a restart of the ESP32-C3.
LEMMA SameSince ==
    ASSUME TypeOK, UNCHANGED <<requestSeq, failed, env, now, lastAsk>>,
           \A k \in Requests :
              inFlight'[k] => inFlight[k] /\ waitSeq'[k] = waitSeq[k]
    PROVE  Passes(0)
<1>1. ASSUME NEW k \in Requests
      PROVE  Since(k)' <= Since(k) + 0
  <2>1. Since(k)' = Since(k) /\ Since(k) \in Nat
    BY SinceFacts DEF Since
  <2> QED
    BY <2>1
<1> QED
  BY <1>1 DEF Passes

LEMMA TopFrames ==
    ASSUME TypeOK, TypeOK', TurnsKept, TurnsKept', ClockTrue, FramesTrue, Top
    PROVE  FramesTrue'
<1>1. PICK d \in Nat : d = turnAge
  BY EnvFacts
<1>2. /\ d <= env.turn /\ env.turn \in Nat
      /\ turnAge' = 0 /\ env' = env /\ rpIdle' = rpIdle /\ rpIdle \in Nat
      /\ Len(espFifo) \in Nat /\ Len(rpFifo) \in Nat
      /\ espFifo' = espFifo /\ rpFifo' = rpFifo
  BY <1>1, EnvFacts, QueueAt DEF Top, TurnsKept, TypeOK, radios
<1>3. Passes(d)
  <2>1. ASSUME NEW k \in Requests
        PROVE  Since(k)' <= Since(k) + d
    <3>1. clock \in Times /\ now \in Times /\ lastAsk[k] \in Times
      BY DEF TypeOK
    <3>2. now' = clock /\ lastAsk' = lastAsk /\ ModSub(clock, now) = d
      BY <1>1 DEF Top, ClockTrue
    <3>3. ModSub(clock, lastAsk[k]) <= ModSub(now, lastAsk[k]) + ModSub(clock, now)
      BY <3>1, ModTriangle
    <3> QED
      BY <3>2, <3>3 DEF Since
  <2> QED
    BY <2>1 DEF Passes, Top, session, radios
<1>4. Fetch' + d <= Fetch
  <2>1. Fetch = 2 * env.turn /\ Fetch' = env.turn
    BY <1>2 DEF Top, Fetch, Requests
  <2> QED
    BY <1>2, <2>1
<1>5. turnAge' - rpIdle' + d <= turnAge - rpIdle
  BY <1>1, <1>2
<1> QED
  BY <1>2, <1>3, <1>4, <1>5, FramesStay

LEMMA RecvFrames ==
    ASSUME TypeOK, TypeOK', TurnsKept, TurnsKept', FramesTrue, Recv
    PROVE  FramesTrue'
<1>1. Passes(0)
  BY SameSince DEF Recv, Close, time
<1>2. /\ env' = env /\ turnAge' = turnAge /\ rpIdle' = rpIdle /\ rpFifo' = rpFifo
      /\ espFifo # <<>> /\ espFifo' = Tail(espFifo)
      /\ Fetch = env.turn /\ Fetch' = 2 * env.turn
      /\ env.turn \in Nat /\ turnAge \in Nat /\ rpIdle \in Nat
  BY EnvFacts DEF Recv, time, Fetch, Requests
<1>3. Len(espFifo) \in 0 .. Depth /\ Len(rpFifo) \in 0 .. Depth
  BY QueueAt DEF TypeOK
<1>4. ASSUME NEW i \in 1 .. Len(espFifo')
      PROVE  Carried(espFifo'[i], EspDue(i)' + 0)
  <2>1. espFifo'[i] = espFifo[i + 1] /\ i + 1 \in 1 .. Len(espFifo)
    BY <1>2, TailAt DEF TypeOK
  <2>2. i \in 1 .. Depth
    BY <1>3, <2>1
  <2>3. EspDue(i) \in Nat /\ EspDue(i + 1) = EspDue(i) + env.turn
    BY <2>2, DueFacts
  <2>4. EspDue(i)' = EspDue(i) + (Fetch' - Fetch)
    BY <1>2, <2>2, DueMoves
  <2>5. EspDue(i)' + 0 <= EspDue(i + 1)
    BY <1>2, <2>3, <2>4
  <2> QED
    BY <2>1, <2>5 DEF Carried
<1>5. ASSUME NEW i \in 1 .. Len(rpFifo')
      PROVE  Carried(rpFifo'[i], RpDue(i)' + 0)
  <2>1. i \in 1 .. Len(rpFifo) /\ rpFifo'[i] = rpFifo[i] /\ i \in 1 .. Depth
    BY <1>2, <1>3
  <2>2. RpDue(i)' = RpDue(i) /\ RpDue(i) \in Nat
    BY <1>2, <2>1, DueFacts DEF RpDue
  <2>3. RpDue(i)' + 0 <= RpDue(i)
    BY <2>2
  <2> QED
    BY <2>1, <2>3 DEF Carried
<1> QED
  BY <1>1, <1>4, <1>5, FramesCarried

LEMMA RpPollFrames ==
    ASSUME TypeOK, TypeOK', TurnsKept, TurnsKept', FramesTrue, RpPoll
    PROVE  FramesTrue'
<1>1. Passes(0)
  BY SameSince DEF RpPoll, time, session
<1>2. /\ env' = env /\ turnAge' = turnAge /\ rpIdle' = 0 /\ pc' = pc
      /\ rpFifo # <<>> /\ rpFifo' = Tail(rpFifo)
      /\ rpIdle \in Nat /\ rpIdle <= env.rpTurn /\ env.rpTurn \in Nat
      /\ turnAge \in Nat /\ env.turn \in Nat
  BY EnvFacts DEF RpPoll, time, TurnsKept
<1>3. /\ Len(espFifo) \in 0 .. Depth /\ Len(rpFifo) \in 0 .. Depth
      /\ 1 \in 1 .. Len(rpFifo) /\ Head(rpFifo) = rpFifo[1] /\ rpFifo[1] \in Packet
  BY <1>2, QueueAt, TailAt DEF TypeOK
<1>4. ASSUME NEW i \in 1 .. Len(rpFifo')
      PROVE  Carried(rpFifo'[i], RpDue(i)' + 0)
  <2>1. rpFifo'[i] = rpFifo[i + 1] /\ i + 1 \in 1 .. Len(rpFifo)
    BY <1>2, TailAt DEF TypeOK
  <2>2. i \in 1 .. Depth
    BY <1>3, <2>1
  <2>3. RpDue(i) \in Nat /\ RpDue(i + 1) = RpDue(i) + env.rpTurn
    BY <2>2, DueFacts
  <2>4. RpDue(i)' = RpDue(i) + (turnAge' - rpIdle') - (turnAge - rpIdle)
    BY <1>2, <2>2, DueMoves
  <2>5. RpDue(i)' = RpDue(i) + rpIdle
    BY <1>2, <2>3, <2>4
  <2>6. RpDue(i)' + 0 <= RpDue(i + 1)
    BY <1>2, <2>3, <2>5
  <2> QED
    BY <2>1, <2>6 DEF Carried
<1>5. ASSUME NEW i \in 1 .. Depth
      PROVE  EspDue(i)' + 0 = EspDue(i) /\ EspDue(i) <= RpDue(1)
             /\ EspDue(i) \in Nat
  <2>1. EspDue(i)' = EspDue(i)
    BY <1>2 DEF EspDue, Fetch
  <2>2. /\ EspDue(i) \in Nat /\ EspDue(i) <= (Depth + 1) * env.turn
        /\ RpDue(1) \in Nat /\ turnAge + (Depth + 1) * env.turn <= RpDue(1)
        /\ (Depth + 1) * env.turn \in Nat
    BY <1>3, DueFacts
  <2> QED
    BY <1>2, <2>1, <2>2
<1>6. ASSUME NEW i \in 1 .. Len(espFifo')
      PROVE  Carried(espFifo'[i], EspDue(i)' + 0)
  <2>1. CASE i \in 1 .. Len(espFifo) /\ espFifo'[i] = espFifo[i]
    <3>1. EspDue(i)' + 0 <= EspDue(i)
      BY <1>3, <1>5, <2>1
    <3> QED
      BY <2>1, <3>1 DEF Carried
  <2>2. CASE /\ rpFifo[1].kind \in Requests /\ i \in 1 .. Depth
             /\ espFifo'[i] = AnswerTo(rpFifo[1])
    <3>1. EspDue(i)' + 0 <= RpDue(1)
      BY <1>5, <2>2
    <3> QED
      BY <1>3, <2>2, <3>1 DEF Carried
  <2>3. CASE espFifo' = espFifo
    BY <2>1, <2>3
  <2>4. CASE espFifo' # espFifo
    <3>1. /\ rpFifo[1].kind \in Requests
          /\ espFifo' \in Arrivals(espFifo, AnswerTo(rpFifo[1]), TRUE)
      BY <1>3, <2>4 DEF RpPoll
    <3>2. AnswerTo(rpFifo[1]) \in Packet /\ espFifo \in Queues
      BY <1>3, <3>1, AnswerIsPacket DEF TypeOK
    <3>3. /\ Len(espFifo) < Depth /\ Len(espFifo') = Len(espFifo) + 1
          /\ \A j \in 1 .. Len(espFifo) : espFifo'[j] = espFifo[j]
          /\ espFifo'[Len(espFifo) + 1] = AnswerTo(rpFifo[1])
      BY <2>4, <3>1, <3>2, ArrivalsAt
    <3>4. i \in 1 .. Len(espFifo) \/ i = Len(espFifo) + 1
      BY <1>3, <3>3
    <3> QED
      BY <1>3, <2>1, <2>2, <3>1, <3>3, <3>4
  <2> QED
    BY <2>3, <2>4
<1> QED
  BY <1>1, <1>4, <1>6, FramesCarried

\* The steps that leave all frames where they are, or lose them, or bring others.
LEMMA QuietFrames ==
    ASSUME TypeOK, TypeOK', TurnsKept, TurnsKept', FramesTrue,
           \/ \E k \in Requests : Skip(k)
           \/ RecvNothing \/ Expire \/ RpPollNothing \/ RpRestart \/ OtherPacket
           \/ Tick \/ UNCHANGED vars
    PROVE  FramesTrue'
<1>1. Passes(0)
  BY SameSince
     DEF Skip, RecvNothing, Expire, RpPollNothing, RpRestart, OtherPacket, Tick, vars,
         session, time, radios, Close
<1>2. /\ turnAge \in Nat /\ rpIdle \in Nat /\ turnAge' \in Nat /\ rpIdle' \in Nat
      /\ env.turn \in Nat /\ env' = env
  BY <1>1, EnvFacts DEF TypeOK, Passes
<1>3. /\ Len(espFifo) \in 0 .. Depth /\ Len(rpFifo) \in 0 .. Depth
      /\ espFifo \in Queues /\ rpFifo \in Queues
      /\ espFifo' = <<>> => Len(espFifo') = 0
      /\ rpFifo' = <<>> => Len(rpFifo') = 0
  BY QueueAt DEF TypeOK
<1>4. espFifo' = <<>> \/ Fetch' + 0 <= Fetch
  <2>1. CASE RecvNothing
    BY <2>1 DEF RecvNothing
  <2>2. CASE \E k \in Requests : Skip(k)
    <3>1. Fetch = env.turn /\ Fetch' = env.turn
      BY <1>2, <2>2 DEF Skip, Fetch, AfterAsk, Requests
    <3> QED
      BY <1>2, <3>1
  <2>3. CASE Expire
    <3>1. Fetch = 2 * env.turn /\ Fetch' = 2 * env.turn
      BY <1>2, <2>3 DEF Expire, Fetch, Requests
    <3> QED
      BY <1>2, <3>1
  <2>4. CASE pc' = pc
    <3>1. Fetch' = Fetch /\ Fetch \in Nat
      BY <1>2, <2>4 DEF Fetch
    <3> QED
      BY <3>1
  <2> QED
    BY <2>1, <2>2, <2>3, <2>4
       DEF RpPollNothing, RpRestart, OtherPacket, Tick, vars
<1>5. rpFifo' = <<>> \/ turnAge' - rpIdle' + 0 <= turnAge - rpIdle
  <2>1. CASE RpPollNothing \/ RpRestart
    BY <2>1 DEF RpPollNothing, RpRestart
  <2>2. CASE Tick
    <3>1. turnAge' = turnAge + 1 /\ rpIdle' = rpIdle + 1
      BY <2>2 DEF Tick
    <3> QED
      BY <1>2, <3>1
  <2>3. CASE turnAge' = turnAge /\ rpIdle' = rpIdle
    BY <1>2, <2>3
  <2> QED
    BY <2>1, <2>2, <2>3
       DEF Skip, RecvNothing, Expire, OtherPacket, vars, time, radios
<1>6. /\ espFifo' \in {<<>>, espFifo}
         \/ (espFifo' = Append(espFifo, Other) /\ Other.kind = "other")
      /\ rpFifo' \in {<<>>, rpFifo}
         \/ (rpFifo' = Append(rpFifo, Other) /\ Other.kind = "other")
  BY DEF Skip, RecvNothing, Expire, RpPollNothing, RpRestart, OtherPacket, Tick, vars,
         radios, Other
<1>7. ASSUME NEW i \in 1 .. Len(espFifo')
      PROVE  \/ espFifo'[i].kind = "other"
             \/ i \in 1 .. Len(espFifo) /\ espFifo'[i] = espFifo[i]
  <2>1. CASE espFifo' \in {<<>>, espFifo}
    BY <1>3, <2>1
  <2>2. CASE espFifo' = Append(espFifo, Other) /\ Other.kind = "other"
    <3>1. /\ Len(espFifo') = Len(espFifo) + 1
          /\ \A j \in 1 .. Len(espFifo) : espFifo'[j] = espFifo[j]
          /\ espFifo'[Len(espFifo) + 1] = Other
      BY <1>3, <2>2, OtherIsPacket, AppendAt
    <3>2. i \in 1 .. Len(espFifo) \/ i = Len(espFifo) + 1
      BY <1>3, <3>1
    <3> QED
      BY <2>2, <3>1, <3>2
  <2> QED
    BY <1>6, <2>1, <2>2
<1>8. ASSUME NEW i \in 1 .. Len(rpFifo')
      PROVE  \/ rpFifo'[i].kind = "other"
             \/ i \in 1 .. Len(rpFifo) /\ rpFifo'[i] = rpFifo[i]
  <2>1. CASE rpFifo' \in {<<>>, rpFifo}
    BY <1>3, <2>1
  <2>2. CASE rpFifo' = Append(rpFifo, Other) /\ Other.kind = "other"
    <3>1. /\ Len(rpFifo') = Len(rpFifo) + 1
          /\ \A j \in 1 .. Len(rpFifo) : rpFifo'[j] = rpFifo[j]
          /\ rpFifo'[Len(rpFifo) + 1] = Other
      BY <1>3, <2>2, OtherIsPacket, AppendAt
    <3>2. i \in 1 .. Len(rpFifo) \/ i = Len(rpFifo) + 1
      BY <1>3, <3>1
    <3> QED
      BY <2>2, <3>1, <3>2
  <2> QED
    BY <1>6, <2>1, <2>2
<1> QED
  BY <1>1, <1>4, <1>5, <1>7, <1>8, FramesStay

\* With no request open, the frames left to the RP2040 are gone in time.
LEMMA RestartFrames ==
    ASSUME TypeOK, TypeOK', TurnsKept, TurnsKept', EspRestart
    PROVE  FramesTrue'
<1>1. /\ env.restarts /\ env' = env /\ espFifo' = <<>> /\ Len(espFifo') = 0
      /\ env.turn \in Nat /\ Lifetime(env) \in Nat
      /\ Len(rpFifo') \in 0 .. Depth
      /\ inFlight' = [k \in Requests |-> FALSE]
  <2>1. espFifo' = <<>> /\ Len(espFifo') = 0
    BY QueueAt, EmptyIsQueue DEF EspRestart
  <2>2. rpFifo' \in Queues
    BY DEF TypeOK
  <2>3. Len(rpFifo') \in 0 .. Depth
    BY <2>2, QueueAt
  <2> QED
    BY <2>1, <2>3, EnvFacts DEF EspRestart
<1>2. ASSUME NEW k \in Requests
      PROVE  Since(k)' = 0 /\ ~ inFlight'[k]
  <2>1. now' \in Nat /\ lastAsk'[k] = now'
    BY DEF EspRestart, FirstAsk, TypeOK, Times
  <2>2. \A t \in Nat : ModSub(t, t) = 0
    BY DEF ModSub
  <2>3. Since(k)' = 0
    BY <2>1, <2>2 DEF Since
  <2> QED
    BY <1>1, <2>3
<1>3. ASSUME NEW i \in 1 .. Len(rpFifo'), NEW p, NEW w,
             p = rpFifo'[i], w = RpDue(i)'
      PROVE  FrameTrue(p, w)'
  <2>1. p \in Packet /\ i \in 1 .. Depth
    <3>1. rpFifo' \in Queues
      BY DEF TypeOK
    <3> QED
      BY <1>1, <1>3, <3>1, QueueAt
  <2>2. w \in Nat /\ w <= Lifetime(env) + env.turn
    <3>1. Dues'
      BY DueTypes, PTL
    <3> QED
      BY <1>1, <1>3, <2>1, <3>1 DEF Dues
  <2>3. Since(KindOf(p))' + w <= Lifetime(env) + env.turn /\ ~ inFlight'[KindOf(p)]
    <3>1. Since(KindOf(p))' = 0 /\ ~ inFlight'[KindOf(p)]
      BY <1>2, <2>1, KindFacts
    <3> QED
      BY <1>1, <2>2, <3>1
  <2> QED
    BY <1>1, <2>3 DEF FrameTrue, GoneInTime
<1>4. ASSUME NEW i \in 1 .. Len(espFifo'), NEW p, NEW w,
             p = espFifo'[i], w = EspDue(i)'
      PROVE  FrameTrue(p, w)'
  BY <1>1
<1> QED
  BY <1>3, <1>4, FramesFrom
-----------------------------------------------------------------------------
(* A request is made.                                                       *)
LEMMA AskFacts ==
    ASSUME TypeOK, NEW k \in Requests, NEW sent \in BOOLEAN, Ask(k, sent)
    PROVE  /\ env' = env /\ turnAge' = turnAge /\ rpIdle' = rpIdle
           /\ Fetch = env.turn /\ Fetch' = env.turn
           /\ ~ inFlight[k] /\ Interval[k] <= Since(k) /\ Spaced(k) = Pause
           /\ Since(k)' = 0 /\ Spaced(k)' = 0
           /\ failed'[k] = ~ sent
           /\ \A j \in Requests \ {k} :
                 /\ Since(j)' = Since(j) /\ Spaced(j)' = Spaced(j)
                 /\ inFlight'[j] = inFlight[j] /\ waitSeq'[j] = waitSeq[j]
                 /\ failed'[j] = failed[j]
           /\ sent => /\ inFlight'[k] /\ waitSeq'[k] = requestSeq
                      /\ requestSeq' = NextSeq(requestSeq)
           /\ ~ sent => UNCHANGED <<inFlight, waitSeq, requestSeq>>
<1>1. /\ env' = env /\ turnAge' = turnAge /\ rpIdle' = rpIdle /\ now' = now
      /\ Fetch = env.turn /\ Fetch' = env.turn
  BY EnvFacts DEF Ask, Transmit, Fetch, AfterAsk, Requests
<1>2. ~ inFlight[k] /\ Interval[k] <= Since(k)
  BY RequestFacts, SinceFacts DEF Ask, AskDue, Since
<1>3. Spaced(k) = Pause
  <2>1. Pause <= Interval[k] /\ Pause \in Nat /\ Interval[k] \in Nat /\ Since(k) \in Nat
    BY PauseFacts, RequestFacts, SinceFacts
  <2> QED
    BY <1>2, <2>1 DEF Spaced
<1>4. \A j \in Requests : lastAsk'[j] = IF j = k THEN now ELSE lastAsk[j]
  BY DEF Ask, TypeOK
<1>5. Since(k)' = 0
  <2>1. \A t \in Nat : ModSub(t, t) = 0
    BY DEF ModSub
  <2> QED
    BY <1>1, <1>4, <2>1, TurnFacts DEF Since
<1>6. Spaced(k)' = 0
  BY <1>5, PauseFacts DEF Spaced
<1>7. ASSUME NEW j \in Requests \ {k}
      PROVE  /\ Since(j)' = Since(j) /\ Spaced(j)' = Spaced(j)
             /\ inFlight'[j] = inFlight[j] /\ waitSeq'[j] = waitSeq[j]
             /\ failed'[j] = failed[j]
  <2>1. Since(j)' = Since(j)
    BY <1>1, <1>4 DEF Since
  <2>2. Spaced(j)' = Spaced(j)
    BY <2>1 DEF Spaced
  <2>3. /\ inFlight'[j] = inFlight[j] /\ waitSeq'[j] = waitSeq[j]
        /\ failed'[j] = failed[j]
    BY DEF Ask, TypeOK, session
  <2> QED
    BY <2>1, <2>2, <2>3
<1>8. /\ failed'[k] = ~ sent
      /\ sent => /\ inFlight'[k] /\ waitSeq'[k] = requestSeq
                 /\ requestSeq' = NextSeq(requestSeq)
      /\ ~ sent => UNCHANGED <<inFlight, waitSeq, requestSeq>>
  BY DEF Ask, TypeOK, session
<1> QED
  BY <1>1, <1>2, <1>3, <1>5, <1>6, <1>7, <1>8

\* Time enough for all other numbers to be used up has not passed.
LEMMA BudgetLeft ==
    ASSUME NEW P \in Nat, NEW T \in Nat, NEW L \in Nat, NEW b \in Nat,
           NEW s \in Nat, NEW due \in Nat, T <= due,
           b * P + P + s + 2 * due <= 2 * (P + T + L),
           2 * L < (SeqMax - 2) * P
    PROVE  b # SeqMax - 1 /\ (b + 1) * P + s + 2 * due <= 2 * (P + T + L)
<1>1. (b + 1) * P = b * P + P /\ b * P \in Nat
  OBVIOUS
<1>2. ASSUME b = SeqMax - 1 PROVE FALSE
  <2>1. b * P = (SeqMax - 2) * P + P /\ (SeqMax - 2) * P \in Int
    BY <1>2
  <2> DEFINE x == (SeqMax - 2) * P
             y == b * P
  <2> HIDE DEF x, y
  <2>2. y = x + P /\ x \in Int /\ y + P + s + 2 * due <= 2 * (P + T + L) /\ 2 * L < x
    BY <2>1 DEF x, y
  <2> QED
    BY <2>2
<1> QED
  BY <1>1, <1>2

\* What is under way stays what it was, or becomes outdated; and its number is
\* not the next one.
LEMMA OldFrame ==
    ASSUME TypeOK, NEW k \in Requests, NEW sent \in BOOLEAN, Ask(k, sent),
           NEW p \in Packet, NEW due \in Nat, env.turn <= due, FrameTrue(p, due),
           NEW q, q = [p EXCEPT !.fresh =
                          @ /\ (p.kind \in {k, Answer[k]} => failed[k])]
    PROVE  FrameTrue(q, due)'
<1>1. q.kind = p.kind /\ q.seq = p.seq /\ KindOf(q) = KindOf(p)
  BY DEF Packet, KindOf
<1>2. CASE p.kind = "other"
  BY <1>1, <1>2 DEF FrameTrue
<1>3. /\ KindOf(p) \in Requests
      /\ p.kind # "other" => (q.fresh <=> p.fresh /\ (KindOf(p) = k => failed[k]))
  BY KindFacts DEF Packet
<1>4. /\ env \in Environments /\ env.turn \in Nat /\ Lifetime(env) \in Nat
      /\ Pause \in Nat /\ Pause <= Interval[k] /\ Interval[k] \in Nat
      /\ Since(k) \in Nat /\ Interval[k] <= Since(k)
  BY EnvFacts, PauseFacts, SinceFacts, RequestFacts, AskFacts
<1>5. CASE p.kind # "other" /\ env.restarts
  <2>1. /\ Since(KindOf(p)) + due <= Lifetime(env) + env.turn
        /\ inFlight[KindOf(p)] => p.fresh
    BY <1>5 DEF FrameTrue, GoneInTime
  <2>2. Lifetime(env) < Pause
    BY <1>4, <1>5, LifetimeAssumption
  <2>3. KindOf(p) # k
    <3> SUFFICES ASSUME KindOf(p) = k PROVE FALSE
      OBVIOUS
    <3>1. Since(k) + due <= Lifetime(env) + env.turn
      BY <2>1
    <3> QED
      BY <1>4, <2>2, <3>1
  <2>4. /\ Since(KindOf(p))' = Since(KindOf(p))
        /\ inFlight'[KindOf(p)] = inFlight[KindOf(p)] /\ env' = env
    BY <1>3, <2>3, AskFacts
  <2>5. Since(KindOf(q))' + due <= Lifetime(env) + env.turn
    BY <1>1, <2>1, <2>4
  <2> QED
    BY <1>1, <1>3, <1>5, <2>1, <2>3, <2>4, <2>5 DEF FrameTrue, GoneInTime
<1>6. CASE p.kind # "other" /\ ~ env.restarts
  <2> DEFINE M == 2 * (Pause + env.turn + Lifetime(env))
  <2>1. NumberTells(p, due) /\ env' = env
    BY <1>6, AskFacts DEF FrameTrue
  <2>2. p.seq \in Seqs /\ requestSeq \in Seqs
    BY <2>1 DEF NumberTells, TypeOK
  <2>3. PICK b \in Nat : b = Behind(p.seq, requestSeq)
    BY <2>2, BehindFacts
  <2>4. PICK s \in Nat :
          /\ Spaced("ping") + Spaced("get_status") = Pause + s
          /\ Spaced("ping")' + Spaced("get_status")' = s
    <3>1. Spaced("ping") \in Nat /\ Spaced("get_status") \in Nat
      BY SinceFacts DEF Requests
    <3>2. CASE k = "ping"
      <4>1. "get_status" \in Requests \ {k}
        BY <3>2 DEF Requests
      <4>2. /\ Spaced("ping") = Pause /\ Spaced("ping")' = 0
            /\ Spaced("get_status")' = Spaced("get_status")
        BY <3>2, <4>1, AskFacts
      <4>3. /\ Spaced("ping") + Spaced("get_status") = Pause + Spaced("get_status")
            /\ Spaced("ping")' + Spaced("get_status")' = Spaced("get_status")
        BY <1>4, <3>1, <4>2
      <4> QED
        BY <3>1, <4>3
    <3>3. CASE k = "get_status"
      <4>1. "ping" \in Requests \ {k}
        BY <3>3 DEF Requests
      <4>2. /\ Spaced("get_status") = Pause /\ Spaced("get_status")' = 0
            /\ Spaced("ping")' = Spaced("ping")
        BY <3>3, <4>1, AskFacts
      <4>3. /\ Spaced("ping") + Spaced("get_status") = Pause + Spaced("ping")
            /\ Spaced("ping")' + Spaced("get_status")' = Spaced("ping")
        BY <1>4, <3>1, <4>2
      <4> QED
        BY <3>1, <4>3
    <3> QED
      BY <3>2, <3>3 DEF Requests
  <2>5. b * Pause + Pause + s + 2 * due <= M
    <3>1. b * Pause + Spaced("ping") + Spaced("get_status") + 2 * due <= M
      BY <2>1, <2>3 DEF NumberTells
    <3>2. b * Pause \in Nat /\ Spaced("ping") \in Nat /\ Spaced("get_status") \in Nat
      BY <1>4, SinceFacts DEF Requests
    <3> DEFINE x == b * Pause
    <3>3. x \in Nat /\ x + Spaced("ping") + Spaced("get_status") + 2 * due <= M
      BY <3>1, <3>2
    <3> HIDE DEF x, M
    <3>4. x + Pause + s + 2 * due <= M
      BY <1>4, <2>4, <3>2, <3>3
    <3> QED
      BY <3>4 DEF x
  <2>6. 2 * Lifetime(env) < (SeqMax - 2) * Pause
    BY <1>4, <1>6, LifetimeAssumption
  <2>7. b # SeqMax - 1 /\ (b + 1) * Pause + s + 2 * due <= M
    BY <1>4, <2>5, <2>6, BudgetLeft
  <2>8. Behind(p.seq, requestSeq') * Pause + Spaced("ping")' + Spaced("get_status")'
          + 2 * due <= M
    <3>1. PICK c \in Nat :
            /\ c = Behind(p.seq, requestSeq')
            /\ c * Pause + s + 2 * due <= M
      <4>1. CASE sent
        <5>1. requestSeq' = NextSeq(requestSeq)
          BY <4>1, AskFacts
        <5>2. Behind(p.seq, NextSeq(requestSeq)) = b + 1
          BY <2>2, <2>3, <2>7, BehindFacts
        <5> QED
          BY <2>7, <5>1, <5>2
      <4>2. CASE ~ sent
        <5>1. Behind(p.seq, requestSeq') = b
          BY <2>3, <4>2, AskFacts
        <5>2. b * Pause \in Nat
          BY <1>4
        <5>3. b * Pause + s + 2 * due <= M
          <6> DEFINE x == b * Pause
          <6>1. x \in Nat /\ x + Pause + s + 2 * due <= M /\ M \in Int
            BY <1>4, <2>5, <5>2
          <6> HIDE DEF x, M
          <6>2. x + s + 2 * due <= M
            BY <1>4, <6>1
          <6> QED
            BY <6>2 DEF x
        <5> QED
          BY <5>1, <5>3
      <4> QED
        BY <4>1, <4>2
    <3>2. Spaced("ping")' \in Nat /\ Spaced("get_status")' \in Nat
      <4>1. "ping" \in Requests /\ "get_status" \in Requests
        BY DEF Requests
      <4> QED
        BY <4>1, SinceFacts, AskFacts
    <3> DEFINE x == c * Pause
    <3>3. x \in Nat /\ x + s + 2 * due <= M
      BY <1>4, <3>1
    <3> HIDE DEF x, M
    <3>4. x + Spaced("ping")' + Spaced("get_status")' + 2 * due <= M
      BY <2>4, <3>2, <3>3
    <3> QED
      BY <3>1, <3>4 DEF x
  <2>9. p.seq = requestSeq' => ~ sent
    BY <2>2, <2>3, <2>7, AskFacts, BehindFacts
  <2>10. p.seq = requestSeq => p.fresh /\ failed[KindOf(p)]
    BY <2>1 DEF NumberTells
  <2>11. p.seq = requestSeq' => q.fresh /\ failed'[KindOf(p)]
    BY <1>3, <1>6, <2>9, <2>10, AskFacts
  <2>12. inFlight'[KindOf(p)] /\ p.seq = waitSeq'[KindOf(p)] => q.fresh
    <3>1. CASE KindOf(p) = k
      BY <1>3, <1>6, <2>10, <3>1, AskFacts
    <3>2. CASE KindOf(p) # k
      BY <1>3, <1>6, <2>1, <3>2, AskFacts DEF NumberTells
    <3> QED
      BY <3>1, <3>2
  <2> QED
    BY <1>1, <1>6, <2>1, <2>2, <2>8, <2>11, <2>12 DEF FrameTrue, NumberTells
<1> QED
  BY <1>2, <1>5, <1>6

\* The new frame carries the number that is used up by it.
LEMMA NewFrame ==
    ASSUME TypeOK, NEW k \in Requests, NEW sent \in BOOLEAN, Ask(k, sent),
           NEW due \in Nat, due <= Lifetime(env) + env.turn,
           NEW q, q = RequestFrame(k)
    PROVE  FrameTrue(q, due)'
<1>1. q.kind = k /\ q.seq = requestSeq /\ q.fresh = TRUE
  BY DEF RequestFrame
<1>2. KindOf(q) = k /\ q.kind # "other"
  BY <1>1 DEF KindOf, Requests
<1>3. /\ env.turn \in Nat /\ Lifetime(env) \in Nat /\ Pause \in Nat
      /\ Since(k)' = 0 /\ env' = env
  BY EnvFacts, PauseFacts, AskFacts
<1>4. CASE env.restarts
  <2>1. Since(KindOf(q))' + due <= Lifetime(env) + env.turn
    BY <1>2, <1>3
  <2> QED
    BY <1>1, <1>2, <1>3, <1>4, <2>1 DEF FrameTrue, GoneInTime
<1>5. CASE ~ env.restarts
  <2> DEFINE M == 2 * (Pause + env.turn + Lifetime(env))
  <2>1. requestSeq \in Seqs
    BY DEF TypeOK
  <2>2. PICK c \in Nat : /\ c = Behind(requestSeq, requestSeq') /\ c \in {0, 1}
    <3>1. CASE sent
      <4>1. requestSeq' = NextSeq(requestSeq)
        BY <3>1, AskFacts
      <4>2. Behind(requestSeq, NextSeq(requestSeq)) = 1
        BY <2>1, BehindFacts
      <4> QED
        BY <4>1, <4>2
    <3>2. CASE ~ sent
      BY <2>1, <3>2, AskFacts, BehindFacts
    <3> QED
      BY <3>1, <3>2
  <2>3. PICK s \in Nat :
          s = Spaced("ping")' + Spaced("get_status")' /\ s <= Pause
    <3>1. \A j \in Requests :
            Spaced(j)' \in Nat /\ Spaced(j)' <= Pause /\ (j = k => Spaced(j)' = 0)
      BY <1>3, SinceFacts, AskFacts
    <3>2. "ping" \in Requests /\ "get_status" \in Requests
          /\ (k = "ping" \/ k = "get_status")
      BY DEF Requests
    <3>3. /\ Spaced("ping")' + Spaced("get_status")' \in Nat
          /\ Spaced("ping")' + Spaced("get_status")' <= Pause
      BY <1>3, <3>1, <3>2
    <3> QED
      BY <3>3
  <2>4. c * Pause + s + 2 * due <= M
    <3>1. c * Pause \in Nat /\ c * Pause <= Pause
      BY <1>3, <2>2
    <3> DEFINE x == c * Pause
    <3>2. x \in Nat /\ x <= Pause
      BY <3>1
    <3> HIDE DEF x
    <3>3. x + s + 2 * due <= M
      BY <1>3, <2>3, <3>2
    <3> QED
      BY <3>3 DEF x
  <2>5. c * Pause + Spaced("ping")' + Spaced("get_status")' + 2 * due <= M
    <3>1. /\ Spaced("ping")' \in Nat /\ Spaced("get_status")' \in Nat
          /\ c * Pause \in Nat
      BY <1>3, <2>2, SinceFacts, AskFacts DEF Requests
    <3> DEFINE x == c * Pause
    <3>2. x \in Nat /\ x + s + 2 * due <= M
      BY <2>4, <3>1
    <3> HIDE DEF x, M
    <3>3. x + Spaced("ping")' + Spaced("get_status")' + 2 * due <= M
      BY <2>3, <3>1, <3>2
    <3> QED
      BY <3>3 DEF x
  <2>6. requestSeq = requestSeq' => failed'[k]
    <3>1. sent => requestSeq' # requestSeq
      BY <2>1, NextSeqIsSeq, AskFacts
    <3> QED
      BY <3>1, AskFacts
  <2>7. Behind(q.seq, requestSeq') * Pause + Spaced("ping")' + Spaced("get_status")'
          + 2 * due <= M
    BY <1>1, <2>2, <2>5
  <2> QED
    BY <1>1, <1>2, <1>3, <1>5, <2>1, <2>6, <2>7 DEF FrameTrue, NumberTells
<1> QED
  BY <1>4, <1>5

LEMMA AskFrames ==
    ASSUME TypeOK, TurnsKept, FramesTrue,
           NEW k \in Requests, NEW sent \in BOOLEAN, Ask(k, sent)
    PROVE  FramesTrue'
<1>1. /\ rpFifo \in Queues /\ espFifo \in Queues
      /\ Len(rpFifo) \in 0 .. Depth /\ Len(espFifo) \in 0 .. Depth
  BY QueueAt DEF TypeOK
<1>2. ASSUME NEW i \in 1 .. Depth
      PROVE  /\ EspDue(i)' = EspDue(i) /\ RpDue(i)' = RpDue(i)
             /\ EspDue(i) \in Nat /\ env.turn <= EspDue(i)
             /\ RpDue(i) \in Nat /\ env.turn <= RpDue(i)
             /\ RpDue(i) <= Lifetime(env) + env.turn
  <2>1. EspDue(i)' = EspDue(i) /\ RpDue(i)' = RpDue(i)
    BY AskFacts DEF EspDue, RpDue
  <2> QED
    BY <2>1, DueFacts
<1>3. ASSUME NEW i \in 1 .. Len(espFifo'), NEW q, NEW due,
             q = espFifo'[i], due = EspDue(i)'
      PROVE  FrameTrue(q, due)'
  <2>1. PICK old : /\ old = Superseded(espFifo, k) /\ Len(old) = Len(espFifo)
                   /\ espFifo' = old
    BY <1>1, SupersededAt DEF Ask, Transmit
  <2>2. /\ i \in 1 .. Len(espFifo) /\ i \in 1 .. Depth
        /\ q = [espFifo[i] EXCEPT !.fresh =
                  @ /\ (espFifo[i].kind \in {k, Answer[k]} => failed[k])]
    <3>1. i \in 1 .. Len(espFifo) /\ i \in 1 .. Depth /\ q = old[i]
      BY <1>1, <1>3, <2>1
    <3> QED
      BY <1>1, <2>1, <3>1, SupersededAt
  <2>3. /\ espFifo[i] \in Packet /\ FrameTrue(espFifo[i], EspDue(i))
        /\ due = EspDue(i) /\ due \in Nat /\ env.turn <= due
    BY <1>1, <1>2, <1>3, <2>2, PacketAt DEF FramesTrue
  <2>4. PICK p \in Packet : p = espFifo[i]
    BY <2>3
  <2>5. FrameTrue(p, due)
    BY <2>3, <2>4
  <2> QED
    BY <2>2, <2>3, <2>4, <2>5, OldFrame
<1>4. ASSUME NEW i \in 1 .. Len(rpFifo'), NEW q, NEW due,
             q = rpFifo'[i], due = RpDue(i)'
      PROVE  FrameTrue(q, due)'
  <2>1. PICK old \in Queues : old = Superseded(rpFifo, k) /\ Len(old) = Len(rpFifo)
    BY <1>1, SupersededIsQueue, SupersededAt
  <2>2. CASE i \in 1 .. Len(old) /\ rpFifo'[i] = old[i]
    <3>1. /\ i \in 1 .. Len(rpFifo) /\ i \in 1 .. Depth
          /\ q = [rpFifo[i] EXCEPT !.fresh =
                    @ /\ (rpFifo[i].kind \in {k, Answer[k]} => failed[k])]
      BY <1>1, <1>4, <2>1, <2>2, SupersededAt
    <3>2. /\ rpFifo[i] \in Packet /\ FrameTrue(rpFifo[i], RpDue(i))
          /\ due = RpDue(i) /\ due \in Nat /\ env.turn <= due
      BY <1>1, <1>2, <1>4, <3>1, PacketAt DEF FramesTrue
    <3>3. PICK p \in Packet : p = rpFifo[i]
      BY <3>2
    <3>4. FrameTrue(p, due)
      BY <3>2, <3>3
    <3> QED
      BY <3>1, <3>2, <3>3, <3>4, OldFrame
  <2>3. CASE i \in 1 .. Depth /\ rpFifo'[i] = RequestFrame(k)
    <3>1. due \in Nat /\ due <= Lifetime(env) + env.turn
      BY <1>2, <1>4, <2>3
    <3> QED
      BY <1>4, <2>3, <3>1, NewFrame
  <2>4. CASE rpFifo' = old
    BY <2>2, <2>4
  <2>5. CASE rpFifo' # old
    <3>1. rpFifo' \in Arrivals(old, RequestFrame(k), TRUE)
      BY <2>1, <2>5 DEF Ask, Transmit
    <3>2. /\ Len(old) < Depth /\ Len(rpFifo') = Len(old) + 1
          /\ \A j \in 1 .. Len(old) : rpFifo'[j] = old[j]
          /\ rpFifo'[Len(old) + 1] = RequestFrame(k)
      BY <2>5, <3>1, RequestIsPacket, ArrivalsAt
    <3>3. i \in 1 .. Len(old) \/ i = Len(old) + 1
      BY <1>1, <2>1, <3>2
    <3> QED
      BY <1>1, <2>1, <2>2, <2>3, <3>2, <3>3
  <2> QED
    BY <2>4, <2>5
<1> QED
  BY <1>3, <1>4, FramesFrom

LEMMA FramesStep ==
    /\ TypeOK /\ TypeOK' /\ TurnsKept /\ TurnsKept'
    /\ ClockTrue /\ FramesTrue /\ [Next]_vars
    => FramesTrue'
  BY TopFrames, RecvFrames, RpPollFrames, QuietFrames, RestartFrames, AskFrames
     DEF Next, EspStep, RpStep

\* Open requests are as old as samples and deadline say and wait for numbers of
\* their own, and every frame under way leaves its queue before its number can
\* be taken for another request's: the inductive invariant (main.c:192-401).
THEOREM SessionInvariance == Spec => []IInv
<1>1. Init => IInv
  <2> SUFFICES ASSUME Init PROVE IInv
    OBVIOUS
  <2>1. OpenInv
    BY InitOpenInv
  <2>2. TurnsKept
    BY <2>1, EnvFacts DEF Init, OpenInv, TurnsKept
  <2>3. FramesTrue
    <3>1. Len(rpFifo) = 0 /\ Len(espFifo) = 0
      BY EmptySeq DEF Init
    <3> QED
      BY <3>1 DEF FramesTrue
  <2> QED
    BY <2>1, <2>2, <2>3 DEF IInv
<1>2. IInv /\ [Next]_vars => IInv'
  <2>1. OpenInv /\ [Next]_vars => OpenInv'
    BY OpenInvStep
  <2> QED
    BY <2>1, TurnsStep, FramesStep DEF IInv, OpenInv
<1> QED
  BY <1>1, <1>2, PTL DEF Spec

\* An answer that ends a request answers that very one: by its number where the
\* ESP32-C3 runs on, by its age where it may restart.
THEOREM AnswerIsOwn == Spec => AnswerIsForCurrentRequest
<1>1. IInv /\ [Next]_vars
        => [pc = "recv" /\ pc' = "expire"
              => \A k \in Requests :
                   inFlight[k] /\ ~ inFlight'[k] => Head(espFifo).fresh]_vars
  <2> SUFFICES ASSUME IInv, [Next]_vars, pc = "recv", pc' = "expire",
                      NEW k \in Requests, inFlight[k], ~ inFlight'[k]
               PROVE  Head(espFifo).fresh
    OBVIOUS
  <2>1. TypeOK /\ FramesTrue
    BY DEF IInv, OpenInv
  <2>2. Recv
    BY DEF Next, EspStep, RpStep, vars, session, Top, Skip, Ask, RecvNothing,
           Expire, RpPoll, RpPollNothing, RpRestart, OtherPacket, EspRestart, Tick,
           Requests, AfterAsk
  <2>3. /\ Accepts(k, Head(espFifo)) /\ Head(espFifo) = espFifo[1]
        /\ 1 \in 1 .. Len(espFifo) /\ espFifo[1] \in Packet
    BY <2>1, <2>2, TailAt, QueueAt DEF Recv, Close, TypeOK
  <2>4. PICK p \in Packet : p = espFifo[1]
    BY <2>3
  <2>5. p.kind = Answer[k] /\ p.seq = waitSeq[k]
    BY <2>3, <2>4 DEF Accepts
  <2>6. p.kind # "other" /\ KindOf(p) = k
    BY <2>5 DEF Answer, Requests, KindOf
  <2>7. FrameTrue(p, EspDue(1))
    BY <2>1, <2>3, <2>4 DEF FramesTrue
  <2>8. p.fresh
    BY <2>5, <2>6, <2>7 DEF FrameTrue, GoneInTime, NumberTells
  <2> QED
    BY <2>3, <2>4, <2>8
<1> QED
  BY <1>1, SessionInvariance, PTL DEF Spec, AnswerIsForCurrentRequest
=============================================================================
