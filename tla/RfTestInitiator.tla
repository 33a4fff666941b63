--------------------------- MODULE RfTestInitiator ---------------------------
(***************************************************************************)
(* The main loop of the RP2040 (firmware/src/main.c, the default           *)
(* dual-pipe build): once a second it sends a DATA packet, then it polls   *)
(* the radio for the matching ACK, and gives the attempt up when the ACK   *)
(* window has passed.                                                      *)
(*                                                                         *)
(* The time of the whole loop is taken ONCE, at its top (main.c:172), and  *)
(* every deadline is computed from, and compared with, that sample in      *)
(* unsigned 32-bit arithmetic.  Here the millisecond clock runs on its own *)
(* and wraps at ClockMod; the history variables loopMs and age say how     *)
(* much time has really passed.                                            *)
(***************************************************************************)
EXTENDS RfTestPacket, WrapClock

CONSTANTS
    Interval,      \* RF_TEST_INTERVAL_MS: 1000
    AckWindow,     \* how long an ACK is waited for: 75
    MinLoop,       \* sleep_ms(5): the least time a turn of the loop takes
    MaxLoop,       \* the most: 20 ms send + 10 ms poll + 5 ms sleep + output
    BootClocks     \* values the counter may have when the loop is entered

ASSUME ClockAssumption ==
    /\ Interval \in Nat /\ AckWindow \in Nat
    /\ MinLoop \in Nat /\ MaxLoop \in Nat
    /\ 0 < AckWindow /\ 0 < MinLoop /\ MinLoop <= MaxLoop
    /\ AckWindow + MaxLoop <= Interval
    /\ 2 * (Interval + 2 * MaxLoop) < ClockMod
    /\ BootClocks \subseteq 0 .. ClockMod - 1

VARIABLES
    pc,            \* where the loop is
    clock,         \* to_ms_since_boot(get_absolute_time())
    nowMs,         \* now_ms, the sample taken at the top of the loop
    lastRf,        \* last_rf_test_ms
    seq,           \* seq, of the next DATA packet
    pending,       \* rf_test_ack_pending
    expected,      \* rf_test_expected_ack_seq
    deadline,      \* rf_test_ack_deadline_ms
    loopMs,        \* history: time since nowMs was sampled
    age            \* history: time since lastRf was sampled

vars == <<pc, clock, nowMs, lastRf, seq, pending, expected, deadline,
          loopMs, age>>
timers == <<clock, nowMs, lastRf, loopMs, age>>
attempt == <<seq, pending, expected, deadline>>

AgeCap == Interval + 2 * MaxLoop + 1      \* age stops counting here
Steps == {"top", "send", "recv", "check", "sleep"}

TypeOK ==
    /\ pc \in Steps
    /\ clock \in Times /\ nowMs \in Times /\ lastRf \in Times
    /\ seq \in Seqs /\ expected \in Seqs
    /\ pending \in BOOLEAN
    /\ deadline \in Times
    /\ loopMs \in 0 .. MaxLoop
    /\ age \in 0 .. AgeCap
-----------------------------------------------------------------------------
\* Mutants: the comparisons written without regard to the wrap, or for one
\* instant only.
SendDueNoWrap == clock >= lastRf + Interval
AckExpiredNoWrap == nowMs >= deadline
AckExpiredAt == nowMs = deadline

\* (now_ms - last_rf_test_ms) >= RF_TEST_INTERVAL_MS, as Top samples now_ms.
SendDue == ModSub(clock, lastRf) >= Interval

\* (int32_t)(now_ms - rf_test_ack_deadline_ms) >= 0: now_ms is the sample.
AckExpired == 2 * ModSub(nowMs, deadline) < ClockMod

\* Mutant: any ACK ends the attempt.
AckMatchesAnySeq(f) == f.pipe = 0 /\ f.kind = "ack" /\ pending

\* The conditions under which a received payload ends the attempt.
AckMatches(f) ==
    f.pipe = 0 /\ f.kind = "ack" /\ pending /\ f.seq = expected
-----------------------------------------------------------------------------
\* last_rf_test_ms is set one interval back, so that the first turn sends.
Init ==
    /\ pc = "top"
    /\ clock \in BootClocks
    /\ nowMs = clock
    /\ lastRf = ModSub(clock, Interval)
    /\ seq = 0 /\ expected = 0 /\ deadline = 0
    /\ pending = FALSE
    /\ loopMs = 0
    /\ age = Interval

Top ==
    /\ pc = "top"
    /\ nowMs' = clock
    /\ loopMs' = 0
    /\ pc' = IF SendDue THEN "send" ELSE "recv"
    /\ UNCHANGED <<clock, lastRf, age, attempt>>

\* Mutant: the interval restarts only when the radio took the packet.
SendRestartsOnSuccess(sent) ==
    /\ pc = "send"
    /\ seq' = NextSeq(seq)
    /\ IF sent
       THEN /\ pending' = TRUE
            /\ expected' = seq
            /\ deadline' = ModAdd(nowMs, AckWindow)
            /\ lastRf' = nowMs
            /\ age' = loopMs
       ELSE UNCHANGED <<pending, expected, deadline, lastRf, age>>
    /\ pc' = "recv"
    /\ UNCHANGED <<clock, nowMs, loopMs>>

\* Mutant: the ACK is expected for the counter after seq++.
SendExpectsNext(sent) ==
    /\ pc = "send"
    /\ seq' = NextSeq(seq)
    /\ IF sent
       THEN /\ pending' = TRUE
            /\ expected' = seq'
            /\ deadline' = ModAdd(nowMs, AckWindow)
       ELSE UNCHANGED <<pending, expected, deadline>>
    /\ lastRf' = nowMs
    /\ age' = loopMs
    /\ pc' = "recv"
    /\ UNCHANGED <<clock, nowMs, loopMs>>

\* nrf24_radio_send_fixed returned sent; the sequence number is used up and
\* the interval restarted whether the radio took the packet or not.
Send(sent) ==
    /\ pc = "send"
    /\ seq' = NextSeq(seq)
    /\ IF sent
       THEN /\ pending' = TRUE
            /\ expected' = seq
            /\ deadline' = ModAdd(nowMs, AckWindow)
       ELSE UNCHANGED <<pending, expected, deadline>>
    /\ lastRf' = nowMs
    /\ age' = loopMs
    /\ pc' = "recv"
    /\ UNCHANGED <<clock, nowMs, loopMs>>

\* nrf24_radio_recv_any returned a payload.
Recv(f) ==
    /\ pc = "recv"
    /\ pending' = (pending /\ ~ AckMatches(f))
    /\ pc' = "check"
    /\ UNCHANGED <<timers, seq, expected, deadline>>

\* nrf24_radio_recv_any returned 0.
RecvNothing ==
    /\ pc = "recv"
    /\ pc' = "check"
    /\ UNCHANGED <<timers, attempt>>

\* Mutant: an attempt is closed by its ACK only.
CheckWithoutTimeout ==
    /\ pc = "check"
    /\ pc' = "sleep"
    /\ UNCHANGED <<timers, attempt>>

Check ==
    /\ pc = "check"
    /\ pending' = (pending /\ ~ AckExpired)
    /\ pc' = "sleep"
    /\ UNCHANGED <<timers, seq, expected, deadline>>

Sleep ==
    /\ pc = "sleep"
    /\ loopMs >= MinLoop
    /\ pc' = "top"
    /\ UNCHANGED <<timers, attempt>>

\* A millisecond passes.  The guard says that a turn of the loop, from one
\* sample to the next, takes at most MaxLoop.
Tick ==
    /\ loopMs < MaxLoop
    /\ clock' = ModAdd(clock, 1)
    /\ loopMs' = loopMs + 1
    /\ age' = IF age < AgeCap THEN age + 1 ELSE age
    /\ UNCHANGED <<pc, nowMs, lastRf, attempt>>

LoopStep ==
    \/ Top
    \/ \E sent \in BOOLEAN : Send(sent)
    \/ \E f \in Frame : Recv(f)
    \/ RecvNothing
    \/ Check
    \/ Sleep

Next == LoopStep \/ Tick

Spec == Init /\ [][Next]_vars

\* Time passes, and every call of the loop returns.
FairSpec == Spec /\ WF_vars(LoopStep) /\ WF_vars(Tick)
-----------------------------------------------------------------------------
(* How old the current attempt was when now_ms was sampled. *)
SampledAge == age - loopMs

\* When the next packet is about to be sent, the attempt before it has been
\* closed: an ACK was matched or a timeout reported ("logs a timeout and goes on
\* with the next 1 Hz cycle", docs/protocol.md:90); none is overwritten by
\* lines 193-195 of main.c while still open.
EverySendResolved == pc = "send" => ~ pending

\* The 1 Hz pace holds through the wrap of the counter: the samples of two
\* successive sends are at least Interval apart and at most one turn of the
\* loop more.
SendPeriod ==
    pc = "send" => SampledAge \in Interval .. Interval + MaxLoop

\* A turn reports a timeout exactly when, at its sample, the attempt was
\* AckWindow old: neither early nor late, wherever the counter wraps.
TimeoutExact ==
    [][pc = "check" /\ pc' = "sleep" /\ pending
         => (pending' <=> SampledAge < AckWindow)]_vars

\* The sample is stale by the time the timeout is tested and the test comes
\* after the poll, so an ACK is still taken after the window: but never two
\* turns of the loop after it.
LateAckBounded ==
    [][pc = "recv" /\ pending /\ ~ pending'
         => age < AckWindow + 2 * MaxLoop]_vars

\* An open attempt is the latest one: no failed send slips in between, so the
\* sequence number waited for is the last one used and the deadline lies one
\* window after the sample from which the next interval is counted.
AttemptConsistent ==
    pending => /\ seq = NextSeq(expected)
               /\ deadline = ModAdd(lastRf, AckWindow)

\* The demo never stops sending, and no attempt stays open for good.
SendsForever == []<>(pc = "send")
AttemptEnds == pending ~> ~ pending
-----------------------------------------------------------------------------
(* The strengthening that is inductive: the modular differences the code   *)
(* computes are the times that have really passed, and each place of the   *)
(* loop bounds the age of the attempt.                                     *)
ClocksAgree ==
    /\ ModSub(clock, nowMs) = loopMs
    /\ ModSub(clock, lastRf) = age
    /\ loopMs <= age

AgeBounds ==
    /\ pc = "top" => SampledAge <= Interval
    /\ pc = "send" => SampledAge \in Interval .. Interval + MaxLoop
    /\ pc \in {"recv", "check", "sleep"} => SampledAge < Interval

OpenAttempt ==
    pending =>
      /\ pc # "send"
      /\ seq = NextSeq(expected)
      /\ deadline = ModAdd(lastRf, AckWindow)
      /\ pc \in {"recv", "check"} => SampledAge < AckWindow + MaxLoop
      /\ pc \in {"sleep", "top"} => SampledAge < AckWindow

IInv == TypeOK /\ ClocksAgree /\ AgeBounds /\ OpenAttempt
=============================================================================
