# Formal models of the nRF24 test link

The repository is a test platform for USB drivers: an RP2040 (the device under
control), an ESP32-C3 (a radio bridge) and a console on the host.  What runs on
the hardware today is a radio round trip: once a second the RP2040 sends a DATA
packet over an nRF24L01, the ESP32-C3 answers with an ACK.  Everything else is
compiled but not called yet, or compiled out.  This directory holds TLA+ models
of that program, TLC configurations that check them and TLAPS proofs.

The models of the RF test and of the drivers are of the default build: `NRF24_DUAL_PIPE_BASELINE=1`,
`RFV2_DISABLE_DIAG=1`, `NRF24_SINGLE_PIPE_RFTEST=0`, `PIPE0_DIRECTION_TEST=0`.  `RfV2Session` is of
the build with diagnostics: `NRF24_DUAL_PIPE_BASELINE=0`, `RFV2_DISABLE_DIAG=0`.

## 1. Inventory

| Part | Source | State | Operations | Correct when |
|---|---|---|---|---|
| RP2040 main loop | `firmware/src/main.c:150-316` | time of the last send, sequence number, the open attempt (pending, expected, deadline) | send once per interval, poll, match ACK, time out | every attempt is reported once, pace and timeout survive the wrap of the clock, an ACK is of the attempt it closes |
| RP2040 radio driver | `firmware/src/nrf24_radio.c` | last STATUS, ready flag; the chip | init, send, poll for a payload | no accepted payload is lost, none is read with the wrong length, the radio is never left deaf |
| ESP32-C3 main loop | `firmware/esp32c3_bridge/main/main.c` | report counters, last sequence number | poll, answer DATA with ACK, count, heartbeat | every valid DATA is answered; neither loop nor queue gets stuck |
| ESP32-C3 radio driver | `firmware/esp32c3_bridge/main/nrf24_drv.c` | last STATUS, ready flag; the chip | init, send, poll, recover | as above, and a recovery leaves chip and flags usable |
| RFV2 diagnostics | both `main.c`, `rf_frame_v2.h` | requests in flight, their numbers, nonce, deadlines | ping/pong, status, heartbeat | an answer is taken for its own request only, a request without one is given up at its deadline, two open requests have two numbers (compiled out by default) |
| Scheduler | `firmware/src/scheduler.c` | task table, tick | register, enable, tick, reset | every enabled task runs once a period (not called yet) |
| Watchdog guard | `firmware/src/watchdog_guard.c` | last kick, state, trips | kick, poll, force reason | expires after the timeout and not before (not called yet) |
| Command dispatch | `firmware/src/command_dispatch.c` | the response | handle a command, build an answer | a request is refused for the right reason (a stub) |
| Mode, status | `mode_manager.c`, `status.c` | mode, its copy in the status | request mode, enter safe, setters | (stubs that nothing calls) |
| RFV2 frames, CRC-8 | `rf_frame_v2.h`, both `main.c`, `crc8.c`, `host_console/protocol/rf_frame_v2.py` | the next sequence number | build, check, encode, decode | what is built is accepted and read back on either side, and noise is noticed |
| Host console, bridge UART | `host_console/*`, `bridge_uart.c` | an open port | print, parse | I/O only |

How they interact.  The two boards share nothing but the air.  On each board one
loop calls one driver; the driver talks to the nRF24L01 over SPI, access by
access, while the chip puts arriving payloads into a FIFO of three and sets the
flag RX_DR.  There are no interrupts and no second thread: the concurrency is
between loop and chip, and between the boards.  What is hard:

* a payload may arrive between any two SPI accesses, and RX_DR is cleared by
  writing STATUS whether or not the FIFO is empty;
* the time of a turn is sampled once, at its top, and used until its end;
* the millisecond counter wraps, and one comparison of it is signed;
* DATA or ACK may be lost, late, or left over from before a reset: the chip keeps
  its power, its FIFO and its flags when its processor is reset;
* the ESP32-C3 takes a disagreement between STATUS and FIFO_STATUS for a fault
  and flushes its queue;
* an SPI access of the ESP32-C3 may fail, into a recovery or into an abort;
* with diagnostics, two kinds of request share one sequence of numbers, a request
  that could not be sent leaves its number to the next, and no frame is ever received;
* the ESP32-C3 compares ticks as they are, so a deadline that wraps is over at once
  and one just below the wrap may be stepped over.

`PROJECT.json` lists these one by one under `hazards`, each at its line.

## 2. Modules

| Module | Models | Uses |
|---|---|---|
| `RfTestPacket` | the packet, the other payloads, sequence numbers | |
| `WrapClock` | counters that wrap, their sums and differences | |
| `Air` | a receiver's FIFO seen from the other board | |
| `RfTestInitiator` | the RP2040's loop | `RfTestPacket`, `WrapClock` |
| `Nrf24Chip` | the receiving half of the transceiver (hardware) | `RfTestPacket` |
| `Mailbox` | abstract: what a receiving driver promises | |
| `RpDriver`, `RpDriverProofs` | `nrf24_radio.c` under the RP2040's loop; theorems | `Nrf24Chip`, implements `Mailbox` |
| `EspBridge`, `EspBridgeProofs` | `nrf24_drv.c` and the loop of `app_main`; theorems | `Nrf24Chip`, implements `Mailbox` with loss |
| `EspSend`, `EspSendProofs` | the polling loop of a send of the ESP32-C3; theorems | `WrapClock` |
| `RfTestLink` | the two boards together | extends `RfTestInitiator`, `Air` |
| `RfTestProofs` | theorems about the RP2040's loop and about the link | `RfTestLink` |
| `RfV2Session`, `RfV2SessionProofs` | the RFV2 diagnostics of both boards; theorems | `WrapClock`, `Air` |
| `WatchdogGuard`, `WatchdogGuardProofs` | `watchdog_guard.c`; theorems | `WrapClock` |
| `Scheduler`, `SchedulerProofs` | `scheduler.c`; theorems | |
| `Crc8` | `crc8.c` and its Python twin | |
| `RfFrameV2`, `RfFrameV2Proofs` | the RFV2 frame, as built and checked in C and in Python; theorems about it and about the CRC | `Crc8` |

**RfTestPacket.**  A payload is its pipe, a kind (`data`, `ack`, `foreign` for a
wrong magic or version, `blank` for all 0x00 or all 0xff, `rfv2` for a frame of
pipe 1) and a sequence number.  Its other fields are copied and never looked at.

**RfTestInitiator.**  `pc` walks through the turn: `Top` samples `now_ms` and
decides whether a send is due, `Send(sent)` is the whole block of lines 174-200,
`Recv(f)` / `RecvNothing` the poll with the ACK match, `Check` the timeout test,
`Sleep` the end of the turn.  `Tick` lets a millisecond pass at any place.  Two
history variables, `loopMs` and `age`, count the time that has really passed
since the sample and since the last send's sample; `age` stops at `AgeCap`, which
it never reaches in the model (only mutants get there).

**Nrf24Chip, Mailbox, RpDriver, EspBridge.**  A driver step is one SPI access;
accesses made while CE is low are taken together, because the chip takes nothing
in meanwhile.  `Arrive` may happen between any two steps.  The time-outs of poll
and send are choices: a poll that found nothing may give up or try again, a send
ends well or badly.  `Reset` and `Abort` throw away the program's variables but
not the chip; while the program is down CE is undriven, so the radio may go on
receiving.  In `EspBridge` the variable `ret` is what `nrf24_drv_recv_any` is
going to return; `count` holds the counters of the report, which wrap.  The
`Mailbox` sees the chip's FIFO as `inbox`, the payload that the loop is
working on as `hand`, and `pc # "boot"` as `up`.

**RfTestLink.**  The drivers are reduced to what the two refinements show: the
RP2040 fetches what is queued, oldest first; the ESP32-C3 does too, or flushes.
`Pass` is the time of both boards: no turn of either loop takes longer than its
bound.  Packets carry a history bit, `fresh`: it belongs to the last attempt.
Which faults there are and how long the ESP32-C3 may take is a variable, `env`, that is
chosen in `Init` and never changes, so that one run covers several environments;
`RfV2Session` does the same.

**EspSend.**  `EspBridge` has a send as one step with either result.  Here the step
is opened up: `Start` loads the payload and pulses CE, `Stamp` computes the deadline,
then `Test`, `Read` and `Delay` go round until TX_DS shows or the deadline is over.
The chip finishes (`Transmitted`) within `AirTime` of the pulse, or never
answers.  At the default tick of 10 ms `vTaskDelay(pdMS_TO_TICKS(1))` waits for no
tick at all, so `Delay` takes no time by itself; `Tick` may come at any place.

**RfV2Session.**  `pc` walks through the ESP32-C3's turn: `Top` samples `now`, then
for each kind of request `Ask(k, sent)` or `Skip(k)`, then `Recv` / `RecvNothing`,
then `Expire`.  The RP2040 is one step, `RpPoll`: the oldest frame is fetched and, if
it is a request, answered with its own number and nonce.  Whatever else is on the air
(heartbeats, DATA, ACK) only takes up places (`OtherPacket`).  A send with result
"failed" may have been heard all the same.  Both boards may restart (`EspRestart`,
`RpRestart`).  In the build as it stands pipe 1 is enabled on neither board, so every
frame is lost and every request given up.  That is one behaviour of the air here, which
may lose any frame; what is claimed of answers is only that they are not mistaken for one
another, and nothing is claimed of requests that should be answered.  Frames carry
`fresh`, the history bit "belongs to the last request of its kind"; an attempt that could not be sent and the attempt after it, which goes out
with the same number and nonce, count as the same request (`failed`).

**WatchdogGuard, Scheduler.**  Both are compiled and called by nobody, so their
environment is the one their interfaces allow.  A guard is set up at any value of the
counter, and kicked and polled at any time, at least one of the two every `PollGap` ms.
`watchdog_guard_init` puts 0 for the last kick, not the time of the call: a guard that is
set up late and polled before it is kicked is expired at once.  The model does that too,
so `NoFalseAlarm` speaks of a guard that has been kicked (`kicked`).  A scheduler is ticked with the
millisecond counter; between ticks, or out of a running task function (`pc = "fn"`),
anybody may register, enable or reset.  A step of `scheduler_tick` is one slot
skipped, one function called or one returned from.  `stall` and `quiet` are the true
times since the last kick, or since the guard was set up, and since the last call;
`base` is the tick from which a slot owes its task a period, `woken` the slots somebody made due while a tick was on.

**Crc8, RfFrameV2.**  Here the bytes are the point: a header is its ten bytes, the
CRC is computed with the real polynomial, and noise flips real bits.  A byte is the set
of its one-bits (`Bits` and `Value` lead from numbers to bytes and back): shifting moves
the elements up, the exclusive or is the symmetric difference, and the two loops of
`crc8_compute` are the recursive functions `Steps` and `Crcs`.  A burst flips the bits at
the distances `burst`, 0 to 7, from the bit `first`; what lies beyond the CRC byte is
cut off.  The payload is reduced to how many of its bytes were written.  `HeaderIsValid`
is the boards' check, `Refused`, `Decoded`, `PayloadLen` and `CrcIsValid` are the
console's.

Definitions marked `Mutant` are never used by the models: each is a plausible
mistake in the definition that follows it, and `PROJECT.json` names the property
that catches it.

## 3. Runs

| Run | Question | Result |
|---|---|---|
| `initiator` | Is every attempt closed before the next one, at the right time, wherever the clock wraps? Does the loop go on? | holds |
| `rp_driver` | Does the driver lose, double, reorder or misread a payload, or leave one lying? | no: it implements the lossless mailbox |
| `esp_bridge` | The same, with loss by flushing, failing SPI accesses and aborts; does anything get stuck? | implements the lossy mailbox |
| `esp_loss` | Is a valid DATA packet ever flushed unread, in the absence of faults? | **yes** |
| `link` | With loss, lateness, foreign packets and resets: does an accepted ACK always belong to the current DATA? With nothing lost: is the window wide enough? | both hold |
| `session` | RFV2: is an answer ever taken for a request it does not answer, over loss, failed sends, restarts, late answers and the wrap of the numbers? Do two open requests share a number? | no to both |
| `session_wrap` | Is a request given up at the right turn, does every request end, wherever its deadline falls, and is another made after it? | yes, clear of the wrap |
| `esp_send` | Is the result of a send right about the air, does it hold up the loop no longer than its timeout and one round, does it return? | yes, clear of the wrap |
| `watchdog` | Once the guard has been kicked, is there a false alarm? Is there a stall that goes unnoticed or is forgotten when the counter comes round? | no |
| `scheduler` | Are the runs of a task a period apart, and does a tick run all that is due, whatever task functions do to the table? | yes, before the wrap |
| `rfv2_frame` | Do boards and console accept and read what is built? Does a burst of up to eight bits in the header ever pass? | yes; no |
| `rfv2_zero` | Does the console read a frame without payload as one? | **no** |

Type invariants.  `IInv` (on the link, `LinkIInv`), the inductive invariant of the
proofs, contains the type invariant of its module and more; it is what the runs check,
so that TLC has seen each strengthening hold.  `RfFrameV2` is the exception: its `IInv`
stands in `RfFrameV2Proofs`, because it says that some burst is what has hit the header,
and to search for it would cost TLC all bursts in every state.

What the two violations show.

* `esp_loss`: a DATA packet arrives after STATUS and before FIFO_STATUS is read.
  "FIFO not empty, RX_DR clear" counts as a fault and the queue is flushed;
  `docs/protocol.md:89` says a valid DATA is answered at once.  The same happens
  to a second queued payload after the first has been fetched (line 593 clears
  RX_DR) and to one that arrives between FLUSH_RX and CE low.
* `rfv2_zero`: `RFFrameV2.__post_init__` (`rf_frame_v2.py:93`) takes a length of 0
  for "not given".  A decoded GET_STATUS, without payload by `docs/protocol.md:210`,
  comes out with 22 bytes, and `validate_frame_crc` refuses it.
A remark on the window.  The sample of the turn is used for the timeout, and the poll
comes before the test: an attempt may be one tick short of its deadline at the sample and
still take an ACK at the end of the next turn's poll.  `docs/protocol.md:88` says the
window is 75 ms; the code guarantees 75 ms plus less than two turns, and that is what
`LateAckBounded` states (checked by `initiator`, and proved).

Bounds, and why they are enough.

* `initiator`: interval 8, window 3, turns of 1 or 2 ms, counter modulo 25, every
  boot value.  These are the least numbers that meet `ClockAssumption` and still
  leave turns with and without a send, timeouts on the first and on a later
  sample, and the wrap at every place of a turn.  The proofs lift all of it to any
  numbers; 1000, 75, 5, about 40 and 2^32 are one instance.
* `rp_driver`, `esp_bridge`: the real FIFO depth, 3, and payloads of both pipes,
  of distinguishable order.  The counters wrap at 2.
* `link`: two sequence numbers, so a number comes round at every other send
  (65536 in the program); FIFOs of two; interval 8, window 4.  Two environments.
  `Stormy`: loss, foreign packets, resets, and an ESP32-C3 that takes up to 3 ms a turn: a
  packet may be under way for 14 ms (`Lifetime`), longer than an interval, so that ACKs do
  come late and meet the next attempt.  `Calm`: nothing is lost, and a turn of the
  RP2040 (2) and one of the ESP32-C3 (1) together fit into the window, which is the
  condition under which `NoFalseTimeout` is claimed; in the program 20 to 40 ms and
  75 ms.  `BootTime` is longer than the queue of the ESP32-C3.
* `session`: timeouts 4, intervals 6 and 8, counter modulo 12, numbers 1 to 6, two
  nonces, FIFOs of two: intervals, deadlines and numbers all wrap while frames are
  under way.  Two environments.  `Stormy`: loss, other packets, failed sends,
  restarts of both boards, and loops quick enough that what is queued does not outlast
  an interval; the code relies on that across a restart (an answer of a former life
  would match otherwise), and in the program intervals are 7000 and 10000 ms.  `Late`:
  the RP2040 takes up to 4 ticks to look, so that an answer to a frame behind another
  meets the request after its own; no restarts.
* `session_wrap`: numbers 1 to 5, interval 7, timeouts 3, counter modulo 13, GET_STATUS
  never due; turns of up to two ticks, so that a deadline can be stepped over.  Nothing
  restarts: a board that restarted more often than once an interval would never ask.
* `esp_send`: timeout 5 ticks, a packet of 2, rounds of up to 3, counter modulo 12.  20 ms
  are 2 ticks of 10 ms in the program and a packet of 32 bytes at 250 kbit/s takes
  1.4 ms; `SendAssumption` is that packet and round fit into the timeout.
* `watchdog`: counter modulo 8, timeouts 0 (off) and 3, calls at most 2 ms apart,
  stalls up to `MaxStall` 20, that is more than two rounds of the counter, so the
  difference of line 44 falls below the timeout again while the alarm is on.  Trips
  modulo 3.
* `scheduler`: two slots, so that a function can touch a slot before it, after it and
  its own; periods 0 and 2; time up to `MaxUptime` 4, two periods.  Beyond the wrap of
  `next_run_ms` the scheduler keeps neither promise (line 69 compares absolute times),
  and no bound of the model reaches it.
* `rfv2_frame`: two frames, numbered 65535 and what follows it; all five packet types,
  every position of a burst and every pattern of up to eight bits (`Bursts`: the first
  bit, at distance 0, is flipped, the seven that follow are free).

Fairness.  `FairSpec` of the loops is weak fairness of the loop's own steps: a
super-loop with nothing to block on, whose every SPI transfer and sleep returns,
and a single FreeRTOS task.  In `RfTestInitiator`, `RfV2Session` and `EspSend` time
passes too, and in `EspSend` a chip that has started to send finishes.  Nothing is assumed of
arrivals, losses, errors or resets.  `Tick` is disabled after `MaxLoop`
milliseconds in one turn, and in `RfV2Session` after `MaxTurn` ticks: that is the assumption that a turn is bounded, about
20 ms for a send, 10 for a poll, 5 of sleep, and the output.

What "clear of the wrap" excludes.  `TimeoutExact` of the session
leaves out deadlines that have wrapped (the request is given up in the turn that sent it)
and deadlines within one turn of the end of the counter (if the loop takes no
sample in between, the request stays open until the counter has come round, and no
request of its kind goes out meanwhile).  `RequestEnds` leaves out only the latter, and
`AskedAgain` begins where a request is over.
The same two cases are left out of `NoFalseFailure`, `SendBounded` and `SendEnds`.
With 32-bit ticks of 10 ms the wrap comes after 497 days.

Assumptions worth knowing.  `NumbersAssumption` of the link and `LifetimeAssumption` of
the session are what makes a number tell an old frame from a current one.  A frame waits
in at most two queues, each served once a turn; the sum is `Lifetime`, well under a second
in the program.  On the link numbers come round after 65536 s.  In the session they
come round after 65535 requests of at least 7 s, of which the proof uses half (both kinds
draw from one sequence); and where the ESP32-C3 may restart, and begin again with 1,
`Lifetime` has to be shorter than the 7 s the first request waits: nothing else keeps a
PONG of the former life from being taken for the answer to the first PING.  `TLC`
evaluates both assumptions on every run.

`ClockAssumption` wants window + longest turn <=
interval.  The proof of `AttemptsResolved` uses it, and it is not a mere
convenience: output over USB that blocks a turn for more than 925 ms would have
the next send overwrite an open attempt that is then never reported.

## 4. Proofs

`RfTestProofs`, the RP2040's loop, for every value of the constants that meets
`SeqModAssumption` and `ClockAssumption`:

* `Invariance`: `IInv` is inductive.  It says that the modular differences the
  code computes are true times (`ClocksAgree`), how old the last send's sample is
  at each place of the turn (`AgeBounds`), and that an open attempt is the
  last one sent and younger than window + turn (before the timeout test) or
  window (after it) (`OpenAttempt`).  `EverySendResolved` alone is not inductive:
  nothing in it keeps an attempt from being open when the interval is over.
* `TypeCorrect`, `AttemptsResolved`, `SendPace`, `AttemptIsLatest`: invariants that
  follow from it.
* `TimeoutIsExact`, `LateAckIsBounded`: action properties that follow from it,
  the first by `SignedCompare`, the lemma on the signed comparison.

`RfTestProofs`, the link, for every depth of the FIFOs and every set of environments:

* The link's steps are steps, stutters or resets of the loop (`LinkStep`), hence
  `LinkInvariance` and `LinkAttemptsResolved`: the results about the loop hold
  whatever the air and the other board do.
* `NumbersHold`: for every packet under way, so many intervals as sends have been made
  since its own, and what it may still have to wait, do not exceed `Lifetime` (`UnderWay`).
  A packet that waits loses of its allowance what the attempt gains in age; a send adds
  an interval, and the attempt before it is at least that old.  As a round of the numbers
  takes longer than `Lifetime`, a packet with the current number is of the current
  attempt.  A reset starts the numbers anew; then the ESP32-C3 drains its queue while the
  RP2040 starts up (`Draining`), and `nrf24_radio_init_tx` flushes what it answered.
  `AckIsOwn` follows: whatever is late, lost or left over, an ACK closes its own attempt.
* `LinkInduction`, `WindowSuffices`: with nothing lost there is one packet under way at
  most, that of an open attempt is, and it is in time (`Answered`); so no timeout is
  reported while the turns of both boards fit into the window.

`EspSendProofs`: `SendInvariance`.  A chip that sends has been at it at least as long as
the loop has waited (`ChipFirst`), TX_DS that the loop has not looked at is no older than
the round (`SeenInTime`), and the counter tells how long ago the deadline was computed
(`Measured`, `Rounds`).  `FailureIsTrue` and `SendIsBounded` follow: the first
uses that packet and round fit into the timeout, the second that a round falls between
the deadline and the wrap.

`WatchdogGuardProofs`: `GuardInvariance` adds to the two properties that, as long as
no stall has been noticed, the modular difference is the true time since the last kick
(`DifferenceTrue`); a guard that has not been kicked yet may be short of it by `PollGap`,
if it was set up just before the wrap and polled just after.  It has to say by how much
a stall may be overdue unnoticed, or the counter could come round; that is where `GuardAssumption` (timeout + `PollGap` below
the range of the counter) is used.  `GuardNoFalseAlarm` and `GuardStallNoticed` follow.

`SchedulerProofs`: `SchedulerInvariance` says that a slot's `next_run_ms` is at least
a period after its `base`, but while its own function runs (`Spaced`), and that slots the
tick has passed are due later than its time (`Passed`).  `TickCompletes` is the second
at the end of a tick; `RunsAreSpaced` follows from the first at the call.
`SchedulerAssumption` keeps sums below the wrap.

`RpDriverProofs` and `EspBridgeProofs`, for every FIFO depth.  `DriverInvariance` adds
to the invariants of the run that a pipe number just read is that of the payload at the
head (`PipeKnown`), because payloads only join the queue at its end, and that nothing is
in hand but between a fetch and the return (`HandFree`).  `BridgeInvariance` says where
RX_DR is the truth about the queue (`InterruptTrue`): not in the middle of a recovery,
where FLUSH_RX has emptied the queue and the flag is still set.  The invariants of the
runs follow.  `DriverIsMailbox` and `BridgeIsMailbox` are the step simulations: the chip
lemmas first (an arrival is a delivery, a fetch takes the head), then one step per
action of the driver, which is a step of the mailbox or a stutter.  The chip lemmas
stand in both modules.

`RfV2SessionProofs`, for every interval, timeout, turn, FIFO depth and range of numbers
that meets `SessionAssumption` and `LifetimeAssumption`: `SessionInvariance`, an invariant
in two parts, the second of which rests on the first.

* `OpenInv`: while a request is open and its deadline clear of the wrap, the sample and
  the deadline differ by what the request's true age and its timeout differ by
  (`AgeTrue`); a request is open exactly if it waits for a number (`NumbersHeld`); the
  other kind of request has gone out at most once since (`OneAskSince`), as an
  interval is longer than a timeout and two turns.  That last part is what keeps the shared
  numbers apart when they wrap: `NumbersDistinct`.  `GivenUpInTime` is the action
  property `TimeoutExact`; `SessionTypeSafety` the types.
* `FramesTrue`: by when each frame is fetched from its place (`EspDue`, `RpDue`), and
  what that says of its number.  Where nothing restarts, each number used up since its
  own has cost a `Pause` of one kind or the other, but for the two that are running
  (`Spaced`), and all of that fits into `Lifetime` (`NumberTells`); where the
  ESP32-C3 may restart, the frame is gone before the next request of its kind
  (`GoneInTime`).  A number that a failed send has left to the next is the exception:
  it is on no frame but those of the failed attempt, which count as the request itself.
  `AnswerIsOwn` follows.

Not clear beforehand, and found by the proof: the numbers of the session may come round
up to twice as fast as one kind of request uses them.  That is the factor in
`LifetimeAssumption`.

`RfFrameV2Proofs`, the CRC, for bytes of any number:

* The provers have no induction, but the library has that `<` is well-founded on the
  natural numbers, and that yields a least element (`Least`), a set that is closed under
  the successor (`Induction`) and the function that a recursion defines (`Iteration`).
  With these `Steps` and `Crcs`, recursive functions, are what their equations say
  (`StepsLaws`, `CrcsLaws`), and the rest is by induction on steps or on bytes.
* A step of the CRC is linear (`ShiftedLinear`) and, as bit 0 of the result is the bit
  that was shifted out, injective (`ShiftedInjective`); so are a byte (`ReducedLaws`) and
  a sequence: CRCs that differ go on differing (`CrcsApart`).
* A burst that begins with bit 7 - k of a byte lies in that byte and the top k bits of the
  next (`HitShape`).  What the CRC makes of the first part is never the second
  (`ByteApart`): after k steps the one has its top bit set and the other, moved back by
  the 8 - k steps that remain, has not, and steps can be undone (`StepsBack`).
* `BurstDetected`: hence no burst of up to eight bits makes bytes and CRC that fit,
  whether it lies in the data, in the CRC or across them.

`RfFrameV2Proofs`, the frame, for every sequence number and every set of bursts that
meets `FrameAssumption`: `FrameInvariance` says that the frame under way is one that
a board built (`Intact`), or such a frame hit by one burst (`HitOnce`).
`BoardsAlwaysAccept` and `ConsoleAlwaysReads` follow with `ValueOfBits` (a number is read
back from its bits) and `Numbers` (the reserved number is never given out).
`NoiseAlwaysDetected` is `BurstDetected` for the header, with one case of its own: if the
burst makes the length byte 0, the console puts 22 there before it computes the CRC, and
what it checks differs from what was sent in more than a burst.
`ZeroedLengthDetected` shows that it fails all the same, and it takes the numbers: it
holds for the lengths 4, 8 and 12 that the boards send, by the bits 22 has where they
have none.

The lemmas on counters stand with the proofs that cite them: sums and differences stay
in range (`ModRange`), a tick adds one to a difference (`ModTick`), differences of
samples in order add up (`ModBetween`), a later sample adds at most what has passed
(`ModTriangle`), the signed comparison of the RP2040 is right (`SignedCompare`).
`LinkTypeSafety`, `GuardTypeSafety` and `SchedulerTypeSafety` are the type invariants of
the other modules.

Only model-checked: liveness (`SendsForever`, `AttemptEnds`, `QueuedIsFetched`,
`QueueIsServed`, `RequestEnds`, `AskedAgain`, `SendEnds`), which is out of the provers' reach.  Every
invariant and every action property of a passing run is a theorem.

## 5. Not modelled, and the plan

What could come next:

1. `Scheduler` past the wrap, where it keeps neither promise (`scheduler.c:69`).
2. Two boards whose drivers are the detailed ones.  The two refinements of `Mailbox` make
   the link's abstraction of the drivers sound; the composition would be a check of that.
3. The timer of the RP2040's heartbeat, the same modular comparison as that of DATA.

Left out for good: mode manager and status (setters that nothing calls), the command
dispatcher (a stub that nothing calls: it refuses every command, and one `if`,
`command_dispatch.c:44`, gives CP_ERR_BAD_VERSION for a wrong magic as well, where
`docs/protocol.md:402` has CP_ERR_BAD_MAGIC), logging, the
diagnostic dumps, the UART and the console (I/O without state), register values and
addresses, the contents of packets but for RFV2 headers, a radio that
fails by itself.  The wrappers `nrf24_radio_recv_fixed`, `nrf24_radio_recv_frame_v2` and
`nrf24_drv_recv`, which nobody calls, add nothing to `recv_any` but that the first two drop
a payload of the other pipe.
