------------------------------- MODULE EspSend -------------------------------
(***************************************************************************)
(* A send of the ESP32-C3 (nrf24_drv_send, nrf24_drv_send_frame_v2): how   *)
(* long it holds up the loop and what its result says.  EspBridge has it   *)
(* as one step with either result; here its polling loop meets the tick    *)
(* counter and the chip, which finishes the packet on its own.             *)
(*                                                                         *)
(* The loop compares ticks as they are (nrf24_drv.c:448, 494): a deadline  *)
(* that has wrapped is over at once, and one among the last values of the  *)
(* counter may be stepped over.  EN_AA and SETUP_RETR are 0, so MAX_RT     *)
(* never comes up: the chip sends the packet, or does not answer at all.   *)
(***************************************************************************)
EXTENDS WrapClock

CONSTANTS
    Timeout,       \* NRF24_TX_TIMEOUT_MS in ticks: 20 ms
    AirTime,       \* the chip has sent a packet this long after the pulse
    MaxGap,        \* ticks between two rounds of the loop, other tasks included
    ChipMayFail    \* whether the chip may fail to answer

ASSUME SendAssumption ==
    /\ Timeout \in Nat /\ AirTime \in Nat /\ MaxGap \in Nat \ {0}
    /\ Timeout < ClockMod /\ AirTime + MaxGap <= Timeout
    /\ ChipMayFail \in BOOLEAN

VARIABLES
    pc,            \* where the send is
    clock,         \* xTaskGetTickCount()
    deadline,
    onAir,         \* the chip is sending
    txDs,          \* TX_DS in the chip's STATUS
    result,        \* what the send returns: "sent" or "failed"
    gap,           \* time since the counter was read last
    airAge,        \* time since the pulse
    elapsed        \* history: time since the deadline was computed

vars == <<pc, clock, deadline, onAir, txDs, result, gap, airAge, elapsed>>

ElapsedCap == Timeout + 2 * MaxGap      \* elapsed stops counting here

TypeOK ==
    /\ pc \in {"idle", "pulsed", "test", "read", "delay", "restore"}
    /\ clock \in Times /\ deadline \in Times
    /\ onAir \in BOOLEAN /\ txDs \in BOOLEAN
    /\ result \in {"sent", "failed"}
    /\ gap \in 0 .. MaxGap /\ airAge \in 0 .. AirTime
    /\ elapsed \in 0 .. ElapsedCap

Init ==
    /\ pc = "idle"
    /\ clock = 0 /\ deadline = 0
    /\ onAir = FALSE /\ txDs = FALSE
    /\ result = "failed"
    /\ gap = 0 /\ airAge = 0 /\ elapsed = 0

\* nrf24_prepare_tx clears the interrupts; the payload is loaded and the pulse
\* on CE starts the chip, if it works.
Start ==
    /\ pc = "idle"
    /\ pc' = "pulsed"
    /\ onAir' \in IF ChipMayFail THEN BOOLEAN ELSE {TRUE}
    /\ txDs' = FALSE
    /\ gap' = 0 /\ airAge' = 0 /\ elapsed' = 0
    /\ UNCHANGED <<clock, deadline, result>>

\* Line 447.
Stamp ==
    /\ pc = "pulsed"
    /\ deadline' = ModAdd(clock, Timeout)
    /\ pc' = "test"
    /\ gap' = 0 /\ elapsed' = 0
    /\ UNCHANGED <<clock, onAir, txDs, result, airAge>>

\* Mutant: over when the deadline is reached.
InTimeBefore == clock < deadline

\* xTaskGetTickCount() <= deadline
InTime == clock <= deadline

\* The condition of the loop; when it fails the send is given up, whatever the
\* chip says by then.
Test ==
    /\ pc = "test"
    /\ \/ InTime /\ pc' = "read" /\ UNCHANGED result
       \/ ~ InTime /\ pc' = "restore" /\ result' = "failed"
    /\ gap' = 0
    /\ UNCHANGED <<clock, deadline, onAir, txDs, airAge, elapsed>>

\* STATUS is read: TX_DS ends the send.
Read ==
    /\ pc = "read"
    /\ \/ txDs /\ pc' = "restore" /\ result' = "sent"
       \/ ~ txDs /\ pc' = "delay" /\ UNCHANGED result
    /\ UNCHANGED <<clock, deadline, onAir, txDs, gap, airAge, elapsed>>

\* Mutant: the time starts anew in every round.
DelayStamped ==
    /\ pc = "delay"
    /\ pc' = "test"
    /\ deadline' = ModAdd(clock, Timeout)
    /\ UNCHANGED <<clock, onAir, txDs, result, gap, airAge, elapsed>>

\* vTaskDelay(pdMS_TO_TICKS(1)), which may be no tick at all.
Delay ==
    /\ pc = "delay"
    /\ pc' = "test"
    /\ UNCHANGED <<clock, deadline, onAir, txDs, result, gap, airAge, elapsed>>

\* nrf24_restore_prx takes CE low, clears the interrupts and flushes what has
\* not been sent; the send returns.
Restore ==
    /\ pc = "restore"
    /\ pc' = "idle"
    /\ onAir' = FALSE /\ txDs' = FALSE
    /\ gap' = 0 /\ airAge' = 0 /\ elapsed' = 0
    /\ UNCHANGED <<clock, deadline, result>>

\* The chip has sent the packet.
Transmitted ==
    /\ onAir
    /\ onAir' = FALSE
    /\ txDs' = TRUE
    /\ UNCHANGED <<pc, clock, deadline, result, gap, airAge, elapsed>>

\* Time passes, between sends at no cost.
Tick ==
    /\ pc # "idle" => gap < MaxGap
    /\ onAir => airAge < AirTime
    /\ clock' = ModAdd(clock, 1)
    /\ gap' = IF pc = "idle" THEN gap ELSE gap + 1
    /\ airAge' = IF onAir THEN airAge + 1 ELSE airAge
    /\ elapsed' = IF pc \in {"idle", "pulsed"} \/ elapsed = ElapsedCap
                  THEN elapsed ELSE elapsed + 1
    /\ UNCHANGED <<pc, deadline, onAir, txDs, result>>

SendStep == Stamp \/ Test \/ Read \/ Delay \/ Restore

Next == Start \/ SendStep \/ Transmitted \/ Tick

Spec == Init /\ [][Next]_vars

\* The task gets the processor, time passes, and a chip that has started to
\* send finishes.
FairSpec ==
    Spec /\ WF_vars(SendStep) /\ WF_vars(Tick) /\ WF_vars(Transmitted)
-----------------------------------------------------------------------------
Polling == pc \in {"test", "read", "delay"}

\* The deadline has not wrapped; a round falls between it and the wrap.
NotWrapped == deadline >= Timeout
ClearOfWrap == NotWrapped /\ deadline + MaxGap < ClockMod

\* A send is given up only if the chip has not sent the packet: ack_tx_fail
\* and a PING that stays off the record are right about the air, unless the
\* deadline has wrapped (nrf24_drv.c:448-461).
NoFalseFailure ==
    [][pc = "test" /\ pc' = "restore" /\ NotWrapped => ~ txDs /\ ~ onAir]_vars

\* Whatever the chip does, a send holds up the loop for no longer than its
\* timeout and one round: what the turns of the other models are bounded by.
SendBounded == Polling /\ ClearOfWrap => elapsed <= Timeout + MaxGap

\* Every send returns if a round falls between its deadline and the wrap (so
\* also one whose deadline has wrapped).
SendEnds == Polling /\ deadline + MaxGap < ClockMod ~> pc = "idle"
-----------------------------------------------------------------------------
(* The strengthening that is inductive.                                     *)

\* While the chip sends, the loop has waited no longer than it.
ChipFirst == onAir => elapsed <= airAge

\* Where the loop has yet to look, TX_DS is no older than the current round.
SeenInTime == pc \in {"test", "delay"} /\ txDs => elapsed <= AirTime + gap

\* A deadline that has not wrapped is Timeout after the instant it was computed
\* at; the counter tells how long ago that was, or it is over.
Measured ==
    Polling /\ NotWrapped
      => clock + Timeout = deadline + elapsed \/ Timeout < elapsed

\* Each round begins in time, and clear of the wrap the counter tells so.
Rounds ==
    Polling /\ ClearOfWrap
      => clock + Timeout = deadline + elapsed /\ elapsed <= Timeout + gap

IInv == TypeOK /\ ChipFirst /\ SeenInTime /\ Measured /\ Rounds
=============================================================================
