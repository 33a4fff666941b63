----------------------------- MODULE RfV2Session -----------------------------
(***************************************************************************)
(* The RFV2 diagnostics, compiled in with RFV2_DISABLE_DIAG=0 and          *)
(* NRF24_DUAL_PIPE_BASELINE=0: the ESP32-C3 sends PING and GET_STATUS      *)
(* requests, one of each outstanding at a time, the RP2040 answers with    *)
(* PONG and STATUS, and a request without an answer is given up at its     *)
(* deadline (esp32c3_bridge/main/main.c, src/main.c).                      *)
(*                                                                         *)
(* In that build no radio listens to pipe 1, on which these frames go out  *)
(* (nrf24_drv.c:304, nrf24_radio.c:262), so as it stands all of them are   *)
(* lost and every request is given up.  Here the air may lose any frame;   *)
(* nothing is claimed of answers that do come, but that they are told      *)
(* apart.                                                                  *)
(*                                                                         *)
(* The tick of a turn is sampled once, at its top.  The intervals are      *)
(* modular differences and survive the wrap of the counter; the deadlines  *)
(* are compared as they are (main.c:383, 393) and do not: a deadline that  *)
(* wraps is over at once, one among the last values of the counter may be  *)
(* stepped over and the request stay open for another round.               *)
(***************************************************************************)
EXTENDS WrapClock, Air

CONSTANTS
    Interval,      \* of each request: RFV2_PING_INTERVAL_MS 7000, ..STATUS.. 10000
    Timeout,       \* RFV2_PING_TIMEOUT_MS, RFV2_STATUS_TIMEOUT_MS: 1500
    SeqMax,        \* RFV2_SEQ_MAX: 0xffff
    NonceMod,      \* values of ping_nonce: 2^32
    MaxTurn,       \* the longest turn of the ESP32-C3's loop, in ticks
    RpTurn,        \* the longest turn of the RP2040's loop
    Environments,  \* the circumstances the boards may work in
    BootClocks     \* values the tick counter may have at boot

Requests == {"ping", "get_status"}
Answer == [ping |-> "pong", get_status |-> "status"]

\* Whether packets of others take up places in the FIFOs, whether the boards
\* restart, and how long the turns of the two loops get.
Environment ==
    [others : BOOLEAN, restarts : BOOLEAN,
     turn : 1 .. MaxTurn, rpTurn : 1 .. RpTurn]

ASSUME SessionAssumption ==
    /\ Interval \in [Requests -> Nat] /\ Timeout \in [Requests -> Nat \ {0}]
    /\ SeqMax \in Nat \ {0, 1} /\ NonceMod \in Nat \ {0}
    /\ MaxTurn \in Nat \ {0} /\ RpTurn \in Nat \ {0}
    /\ Environments \subseteq Environment /\ BootClocks \subseteq Times
    /\ \A k, j \in Requests : Timeout[k] + 2 * MaxTurn <= Interval[j]
    /\ MaxTurn < ClockMod /\ \A k \in Requests : Timeout[k] < ClockMod

\* The shorter interval, and the longest time a frame is under way: through a
\* full queue of the RP2040's radio, then one of the ESP32-C3's.
Pause == IF Interval["ping"] <= Interval["get_status"]
         THEN Interval["ping"] ELSE Interval["get_status"]
Lifetime(e) == Depth * e.rpTurn + (Depth + 1) * e.turn

\* Frames of before a restart are gone by the first request after it; where
\* nothing restarts, the numbers outlast a frame.
ASSUME LifetimeAssumption ==
    \A e \in Environments :
        IF e.restarts THEN Lifetime(e) < Pause
        ELSE 2 * Lifetime(e) < (SeqMax - 2) * Pause

VARIABLES
    pc,            \* where the ESP32-C3's loop is
    clock,         \* xTaskGetTickCount()
    now,           \* now, the sample of the turn
    lastAsk,       \* last_ping_tick, last_status_tick
    inFlight,      \* ping_in_flight, status_in_flight
    waitSeq,       \* ping_wait_seq, status_wait_seq
    waitNonce,     \* ping_wait_nonce
    deadline,      \* ping_deadline_tick, status_deadline_tick
    requestSeq,    \* request_seq, shared by both requests
    nonce,         \* ping_nonce
    turnAge,       \* history: time since now was sampled
    age,           \* history: time since the sample of the last request
    failed,        \* history: the last attempt at a request was not sent
    rpIdle,        \* time since the RP2040 last looked into its FIFO
    rpFifo,        \* receive FIFO of the RP2040's radio
    espFifo,       \* receive FIFO of the ESP32-C3's radio
    env            \* the circumstances of this behaviour

session == <<inFlight, waitSeq, waitNonce, deadline, requestSeq, nonce>>
time == <<clock, now, lastAsk, turnAge, age, failed>>
radios == <<rpIdle, rpFifo, espFifo, env>>
vars == <<pc, session, time, radios>>

Reserved == 0                   \* RFV2_SEQ_RESERVED
Seqs == 1 .. SeqMax             \* RFV2_SEQ_FIRST_VALID and up
Nonces == 0 .. NonceMod - 1
AgeCap(k) == Timeout[k] + 2 * MaxTurn    \* age stops counting here

\* A frame under way, and (history) whether it belongs to the last request of
\* its kind.  "other" is whatever else takes up a place: HEARTBEAT, DATA, ACK.
Packet ==
    [kind : Requests \cup {"pong", "status", "other"},
     seq : 0 .. SeqMax, nonce : Nonces, fresh : BOOLEAN]
Queues == {q \in Seq(Packet) : Len(q) <= Depth}

TypeOK ==
    /\ pc \in {"top", "recv", "expire"} \cup Requests
    /\ clock \in Times /\ now \in Times
    /\ lastAsk \in [Requests -> Times] /\ deadline \in [Requests -> Times]
    /\ inFlight \in [Requests -> BOOLEAN] /\ failed \in [Requests -> BOOLEAN]
    /\ waitSeq \in [Requests -> Seqs \cup {Reserved}]
    /\ waitNonce \in Nonces /\ nonce \in Nonces
    /\ requestSeq \in Seqs
    /\ turnAge \in 0 .. MaxTurn /\ rpIdle \in 0 .. RpTurn
    /\ age \in [Requests -> Nat] /\ \A k \in Requests : age[k] <= AgeCap(k)
    /\ rpFifo \in Queues /\ espFifo \in Queues
    /\ env \in Environments
-----------------------------------------------------------------------------
\* Mutant: a request does not use up its number.
NextSeqSame(s) == s

\* rfv2_next_seq
NextSeq(s) == IF s = Reserved \/ s = SeqMax THEN 1 ELSE s + 1

NextNonce(n) == IF n + 1 = NonceMod THEN 0 ELSE n + 1

\* last_ping_tick and last_status_tick of a board that boots at tick t.
FirstAsk(t, k) == t

\* build_rfv2_ping, build_rfv2_get_status
RequestFrame(k) ==
    [kind |-> k, seq |-> requestSeq,
     nonce |-> IF k = "ping" THEN nonce ELSE 0, fresh |-> TRUE]

\* build_rfv2_pong, build_rfv2_status: number and nonce are copied.
AnswerTo(p) == [p EXCEPT !.kind = Answer[p.kind]]

Other == [kind |-> "other", seq |-> 0, nonce |-> 0, fresh |-> FALSE]

\* With a new request of kind k, what is under way of its kind is of an
\* earlier one.  One that could not be sent keeps its number: the attempt
\* after it is at the same request.
Superseded(q, k) ==
    [i \in DOMAIN q |->
        [q[i] EXCEPT !.fresh =
            @ /\ (q[i].kind \in {k, Answer[k]} => failed[k])]]

\* Mutant: the time of the next request, instead of a difference.
AskDueNoWrap(k) == ~ inFlight[k] /\ now >= lastAsk[k] + Interval[k]

\* !ping_in_flight && (now - last_ping_tick) >= interval
AskDue(k) == ~ inFlight[k] /\ ModSub(now, lastAsk[k]) >= Interval[k]

\* Mutant: any answer of the right kind will do.
AcceptsAnyNumber(k, p) == inFlight[k] /\ p.kind = Answer[k]

\* The conditions under which a frame ends the request of kind k.
Accepts(k, p) ==
    /\ inFlight[k]
    /\ p.kind = Answer[k]
    /\ p.seq = waitSeq[k]
    /\ k = "ping" => p.nonce = waitNonce

\* Mutants: a deadline one tick long; the comparison of the RP2040.
ExpiredAt(k) == now = deadline[k]
ExpiredLate(k) == now > deadline[k]

\* now >= ping_deadline_tick
Expired(k) == now >= deadline[k]
-----------------------------------------------------------------------------
Init ==
    /\ env \in Environments
    /\ pc = "ping"
    /\ clock \in BootClocks
    /\ now = clock
    /\ lastAsk = [k \in Requests |-> FirstAsk(clock, k)]
    /\ inFlight = [k \in Requests |-> FALSE]
    /\ waitSeq = [k \in Requests |-> Reserved]
    /\ waitNonce = 0 /\ nonce = 1 % NonceMod
    /\ deadline = [k \in Requests |-> 0]
    /\ requestSeq = 1
    /\ turnAge = 0 /\ age = [k \in Requests |-> 0]
    /\ failed = [k \in Requests |-> FALSE]
    /\ rpIdle = 0 /\ rpFifo = <<>> /\ espFifo = <<>>

\* vTaskDelay lasts a tick at least; then the next turn takes its sample.
Top ==
    /\ pc = "top"
    /\ turnAge > 0
    /\ now' = clock
    /\ turnAge' = 0
    /\ pc' = "ping"
    /\ UNCHANGED <<clock, lastAsk, age, failed, session, radios>>

AfterAsk == [ping |-> "get_status", get_status |-> "recv"]

\* The block of a request that is not due.
Skip(k) ==
    /\ pc = k
    /\ ~ AskDue(k)
    /\ pc' = AfterAsk[k]
    /\ UNCHANGED <<session, time, radios>>

\* What a request does to the radios, whatever the send reports: it may or may
\* not have been heard.
Transmit(k) ==
    /\ rpFifo' \in Arrivals(Superseded(rpFifo, k), RequestFrame(k), TRUE)
    /\ espFifo' = Superseded(espFifo, k)
    /\ UNCHANGED <<rpIdle, env>>

\* The request goes out: lines 209-231 and 233-248.  One that could not be
\* sent restarts the interval but keeps its number for the next.
Ask(k, sent) ==
    /\ pc = k
    /\ AskDue(k)
    /\ Transmit(k)
    /\ IF sent
       THEN /\ inFlight' = [inFlight EXCEPT ![k] = TRUE]
            /\ waitSeq' = [waitSeq EXCEPT ![k] = requestSeq]
            /\ deadline' = [deadline EXCEPT ![k] = ModAdd(now, Timeout[k])]
            /\ requestSeq' = NextSeq(requestSeq)
            /\ waitNonce' = IF k = "ping" THEN nonce ELSE waitNonce
            /\ nonce' = IF k = "ping" THEN NextNonce(nonce) ELSE nonce
       ELSE UNCHANGED session
    /\ lastAsk' = [lastAsk EXCEPT ![k] = now]
    /\ age' = [age EXCEPT ![k] = turnAge]
    /\ pc' = AfterAsk[k]
    /\ failed' = [failed EXCEPT ![k] = ~ sent]
    /\ UNCHANGED <<clock, now, turnAge>>

\* The requests of D are over: their numbers are reserved again.
Close(D) ==
    /\ inFlight' = [k \in Requests |-> inFlight[k] /\ k \notin D]
    /\ waitSeq' = [k \in Requests |-> IF k \in D THEN Reserved ELSE waitSeq[k]]
    /\ waitNonce' = IF "ping" \in D THEN 0 ELSE waitNonce
    /\ UNCHANGED <<deadline, requestSeq, nonce>>

\* nrf24_drv_recv_any returned a frame; an answer ends the request it matches.
Recv ==
    /\ pc = "recv"
    /\ espFifo # <<>>
    /\ espFifo' = Tail(espFifo)
    /\ Close({k \in Requests : Accepts(k, Head(espFifo))})
    /\ pc' = "expire"
    /\ UNCHANGED <<time, rpIdle, rpFifo, env>>

\* It returned 0, or -1 or -2 after a recovery that has flushed the FIFO.
RecvNothing ==
    /\ pc = "recv"
    /\ espFifo' = <<>>
    /\ pc' = "expire"
    /\ UNCHANGED <<session, time, rpIdle, rpFifo, env>>

\* Lines 383-396.
Expire ==
    /\ pc = "expire"
    /\ Close({k \in Requests : inFlight[k] /\ Expired(k)})
    /\ pc' = "top"
    /\ UNCHANGED <<time, radios>>
-----------------------------------------------------------------------------
\* A turn of the RP2040: the oldest frame is fetched and, if it is a request,
\* answered; whether the answer could be sent is not looked at.
RpPoll ==
    /\ rpFifo # <<>>
    /\ rpFifo' = Tail(rpFifo)
    /\ LET p == Head(rpFifo)
       IN  IF p.kind \in Requests
           THEN espFifo' \in Arrivals(espFifo, AnswerTo(p), TRUE)
           ELSE UNCHANGED espFifo
    /\ rpIdle' = 0
    /\ UNCHANGED <<pc, session, time, env>>

RpPollNothing ==
    /\ rpFifo = <<>>
    /\ rpIdle > 0
    /\ rpIdle' = 0
    /\ UNCHANGED <<pc, session, time, rpFifo, espFifo, env>>

\* The RP2040 restarts and flushes what its radio has queued.
RpRestart ==
    /\ env.restarts
    /\ rpFifo # <<>>
    /\ rpFifo' = <<>>
    /\ UNCHANGED <<pc, session, time, rpIdle, espFifo, env>>

\* Heartbeats, DATA, ACKs or other transmitters take up a place.
OtherPacket ==
    /\ env.others
    /\ \/ /\ Len(rpFifo) < Depth
          /\ rpFifo' = Append(rpFifo, Other)
          /\ UNCHANGED espFifo
       \/ /\ Len(espFifo) < Depth
          /\ espFifo' = Append(espFifo, Other)
          /\ UNCHANGED rpFifo
    /\ UNCHANGED <<pc, session, time, rpIdle, env>>

\* The ESP32-C3 restarts, at any place: lines 164-185, and nrf24_drv_init
\* flushes its radio.  Numbers and nonces start again; what the RP2040 still
\* has queued is of the former life.
EspRestart ==
    /\ env.restarts
    /\ pc' = "ping"
    /\ clock' \in BootClocks
    /\ now' = clock'
    /\ lastAsk' = [k \in Requests |-> FirstAsk(clock', k)]
    /\ inFlight' = [k \in Requests |-> FALSE]
    /\ waitSeq' = [k \in Requests |-> Reserved]
    /\ waitNonce' = 0 /\ nonce' = 1 % NonceMod
    /\ deadline' = [k \in Requests |-> 0]
    /\ requestSeq' = 1
    /\ turnAge' = 0 /\ age' = [k \in Requests |-> 0]
    /\ failed' = [k \in Requests |-> FALSE]
    /\ espFifo' = <<>>
    /\ rpFifo' = Outdated(rpFifo)
    /\ UNCHANGED <<rpIdle, env>>

\* Time passes; neither board overruns the longest turn of its loop.
Tick ==
    /\ turnAge < env.turn /\ rpIdle < env.rpTurn
    /\ clock' = ModAdd(clock, 1)
    /\ turnAge' = turnAge + 1
    /\ rpIdle' = rpIdle + 1
    /\ age' = [k \in Requests |-> IF age[k] < AgeCap(k) THEN age[k] + 1 ELSE age[k]]
    /\ UNCHANGED <<pc, now, lastAsk, failed, session, rpFifo, espFifo,
                   env>>

EspStep ==
    \/ Top \/ Recv \/ RecvNothing \/ Expire
    \/ \E k \in Requests : Skip(k) \/ \E sent \in BOOLEAN : Ask(k, sent)

RpStep == RpPoll \/ RpPollNothing

Next == EspStep \/ RpStep \/ RpRestart \/ OtherPacket \/ EspRestart \/ Tick

Spec == Init /\ [][Next]_vars

\* Time passes and the calls of either loop return.
FairSpec ==
    Spec /\ WF_vars(EspStep) /\ WF_vars(RpStep) /\ WF_vars(Tick)
-----------------------------------------------------------------------------
(* How old the last request of kind k was when now was sampled. *)
SampledAge(k) == age[k] - turnAge

\* The deadline is clear of the wrap: it has not wrapped itself, and the loop
\* takes a sample between it and the end of the counter's range.
ClearOfWrap(k) ==
    deadline[k] >= Timeout[k] /\ deadline[k] + MaxTurn <= ClockMod

\* A PONG or STATUS that ends a request answers that very request, though
\* numbers wrap, both kinds of request share them, a failed send leaves its
\* number to the next, a restart begins again with 1, and old frames may
\* still be queued in either radio (main.c:352-354, 371).
AnswerIsForCurrentRequest ==
    [][pc = "recv" /\ pc' = "expire"
         => \A k \in Requests :
              inFlight[k] /\ ~ inFlight'[k] => Head(espFifo).fresh]_vars

\* A turn gives a request up exactly when, at its sample, the request was
\* Timeout old, unless its deadline is not clear of the wrap.
TimeoutExact ==
    [][pc = "expire" /\ pc' = "top"
         => \A k \in Requests :
              inFlight[k] /\ ClearOfWrap(k)
                => (inFlight'[k] <=> SampledAge(k) < Timeout[k])]_vars

\* Two open requests never wait for the same number, and none for the number
\* that receivers refuse ("wrap policy 0xffff -> 0x0001", protocol.md:193).
OwnNumbers ==
    /\ \A k \in Requests : inFlight[k] <=> waitSeq[k] # Reserved
    /\ (\A k \in Requests : inFlight[k] /\ ClearOfWrap(k))
         => waitSeq["ping"] # waitSeq["get_status"]

\* Every request ends, answered or not, if a sample can fall on or after its
\* deadline (so also one whose deadline has wrapped).
RequestEnds ==
    \A k \in Requests :
        inFlight[k] /\ deadline[k] + MaxTurn <= ClockMod ~> ~ inFlight[k]

\* After a request is over, by an answer, its deadline or a send that failed,
\* another of its kind is made, wherever the counter wraps (main.c:209, 233).
\* It takes a sample between the interval and the counter's coming round, and
\* a board that does not restart all the time.
AskedAgain ==
    \A k \in Requests :
        ~ inFlight[k] /\ ~ env.restarts /\ Interval[k] + MaxTurn <= ClockMod
          ~> pc = k /\ AskDue(k)
-----------------------------------------------------------------------------
(* The strengthening that is inductive.  While a request is open and its    *)
(* deadline clear of the wrap, the samples grow with its true age, and the  *)
(* other kind of request has been made at most once since.                  *)
ClockTrue == ModSub(clock, now) = turnAge

NumbersHeld == \A k \in Requests : inFlight[k] <=> waitSeq[k] # Reserved

AgeTrue(k) ==
    /\ turnAge <= age[k]
    /\ now + Timeout[k] = deadline[k] + SampledAge(k)
    /\ SampledAge(k) < IF pc = "top" THEN Timeout[k] ELSE Timeout[k] + MaxTurn

OneAskSince(k, j) ==
    /\ \/ requestSeq = NextSeq(waitSeq[k])
       \/ lastAsk[j] <= now /\ deadline[k] <= lastAsk[j] + Timeout[k]
    /\ inFlight[j] /\ ClearOfWrap(j) => waitSeq[j] # waitSeq[k]

OpenTrue ==
    \A k \in Requests :
        inFlight[k] /\ ClearOfWrap(k)
          => AgeTrue(k) /\ \A j \in Requests \ {k} : OneAskSince(k, j)

OpenInv == TypeOK /\ ClockTrue /\ NumbersHeld /\ OpenTrue
-----------------------------------------------------------------------------
(* The frames under way.                                                    *)
TurnsKept == turnAge <= env.turn /\ rpIdle <= env.rpTurn

\* The request a frame asks or answers.
KindOf(p) == IF p.kind \in {"ping", "pong"} THEN "ping" ELSE "get_status"

\* How long ago request k was made last, by the samples; and as much of it as
\* tells two requests apart.
Since(k) == ModSub(now, lastAsk[k])
Spaced(k) == IF Since(k) <= Pause THEN Since(k) ELSE Pause

\* At most this long after its last sample the ESP32-C3 fetches next, and fetches
\* what is at place i of its own queue, or of that of the RP2040.
Fetch == IF pc \in Requests \cup {"recv"} THEN env.turn ELSE 2 * env.turn
EspDue(i) == (i - 1) * env.turn + Fetch
RpDue(i) == i * env.rpTurn - rpIdle + turnAge + (Depth + 1) * env.turn

\* Where the ESP32-C3 restarts: a frame is gone before the next of its kind.
GoneInTime(p, due) ==
    /\ Since(KindOf(p)) + due <= Lifetime(env) + env.turn
    /\ inFlight[KindOf(p)] => p.fresh

\* How many numbers have been used up since number s, n being the next.
Behind(s, n) == IF s <= n THEN n - s ELSE n - s + SeqMax

\* Where it does not: its number tells whether it is of the open request.  The
\* next number is on no frame but that of an attempt that could not be sent.
NumberTells(p, due) ==
    /\ p.seq \in Seqs
    /\ Behind(p.seq, requestSeq) * Pause + Spaced("ping") + Spaced("get_status")
         + 2 * due <= 2 * (Pause + env.turn + Lifetime(env))
    /\ p.seq = requestSeq => p.fresh /\ failed[KindOf(p)]
    /\ inFlight[KindOf(p)] /\ p.seq = waitSeq[KindOf(p)] => p.fresh

FrameTrue(p, due) ==
    p.kind # "other" =>
        IF env.restarts THEN GoneInTime(p, due) ELSE NumberTells(p, due)

FramesTrue ==
    /\ \A i \in 1 .. Len(espFifo) : FrameTrue(espFifo[i], EspDue(i))
    /\ \A i \in 1 .. Len(rpFifo) : FrameTrue(rpFifo[i], RpDue(i))
IInv == OpenInv /\ TurnsKept /\ FramesTrue
=============================================================================
