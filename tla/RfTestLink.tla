----------------------------- MODULE RfTestLink -----------------------------
(***************************************************************************)
(* The two boards together: the RP2040's loop (RfTestInitiator), the       *)
(* ESP32-C3 answering it (app_main, one payload a turn), the receive FIFOs *)
(* of the two radios and the air between them, which loses packets.  The   *)
(* drivers appear as what RpDriver and EspBridge show of them: the RP2040  *)
(* fetches what is queued, in order; the ESP32-C3 may also flush its queue *)
(* (nrf24_drv_recover_rx, or a restart).  Either board may be reset while  *)
(* the other one goes on.                                                  *)
(***************************************************************************)
EXTENDS RfTestInitiator, Air

CONSTANTS
    EspPeriod,     \* the longest turn of the ESP32-C3's loop
    BootTime,      \* sleep_ms(2000) before the RP2040 starts its radio
    Environments   \* the circumstances the boards may work in

\* Whether packets get lost and queues flushed, whether the RP2040 is reset,
\* whether other transmitters reach it, and how long the turns of the
\* ESP32-C3 get.
Environment ==
    [lossy : BOOLEAN, resets : BOOLEAN, foreigners : BOOLEAN,
     turn : 1 .. EspPeriod]

ASSUME LinkAssumption ==
    /\ EspPeriod \in Nat \ {0}
    /\ BootTime \in Nat /\ Depth * EspPeriod < BootTime
    /\ Environments \subseteq Environment

\* The longest time a packet is under way, from the sample of the turn that
\* sends the DATA to the fetch of the ACK, with both queues full.  A sequence
\* number comes round only after that.
Lifetime == MaxLoop + Depth * EspPeriod + (Depth + 1) * MaxLoop

ASSUME NumbersAssumption == Lifetime < SeqMod * Interval

VARIABLES
    rpUp,          \* the RP2040's loop runs
    bootMs,        \* time since it was reset
    rpFifo,        \* receive FIFO of the RP2040's radio
    espFifo,       \* receive FIFO of the ESP32-C3's radio
    espSince,      \* time since the ESP32-C3 last began a turn
    env            \* the circumstances of this behaviour

linkVars == <<vars, rpUp, bootMs, rpFifo, espFifo, espSince, env>>
radios == <<rpFifo, espFifo>>

\* A packet under way, and (history) whether it belongs to the attempt the
\* RP2040 made last.
Packet == [frame : Frame, fresh : BOOLEAN]

Queues == {q \in Seq(Packet) : Len(q) <= Depth}

LinkTypeOK ==
    /\ TypeOK
    /\ rpUp \in BOOLEAN
    /\ bootMs \in 0 .. BootTime
    /\ rpFifo \in Queues /\ espFifo \in Queues
    /\ espSince \in 0 .. EspPeriod
    /\ env \in Environments
-----------------------------------------------------------------------------
LinkInit ==
    /\ Init
    /\ env \in Environments
    /\ rpUp = TRUE /\ bootMs = BootTime
    /\ rpFifo = <<>> /\ espFifo = <<>>
    /\ espSince = 0

\* A turn of the RP2040 that does not touch the radio.
RpQuiet ==
    /\ rpUp
    /\ Top \/ Check \/ Sleep
    /\ UNCHANGED <<rpUp, bootMs, radios, espSince, env>>

\* The DATA packet goes out; whatever is still under way is of an earlier
\* attempt now.  A send reported as failed may or may not have been heard.
RpSend(sent) ==
    /\ rpUp
    /\ Send(sent)
    /\ rpFifo' = Outdated(rpFifo)
    /\ LET old == Outdated(espFifo)
           data == [frame |-> DataFrame(seq), fresh |-> TRUE]
       IN  espFifo' \in Arrivals(old, data, env.lossy)
                              \cup (IF sent THEN {} ELSE {old})
    /\ UNCHANGED <<rpUp, bootMs, espSince, env>>

\* The poll fetches the oldest payload, or finds none.
RpPoll ==
    /\ rpUp
    /\ \/ /\ rpFifo # <<>>
          /\ Recv(Head(rpFifo).frame)
          /\ rpFifo' = Tail(rpFifo)
       \/ /\ rpFifo = <<>>
          /\ RecvNothing
          /\ UNCHANGED rpFifo
    /\ UNCHANGED <<rpUp, bootMs, espFifo, espSince, env>>

\* Mutant: what the radio has queued survives the restart of the program.
RpBootWithoutFlush ==
    /\ ~ rpUp
    /\ bootMs = BootTime
    /\ rpUp' = TRUE
    /\ UNCHANGED <<vars, bootMs, radios, espSince, env>>

\* The RP2040 starts over, with sequence number 0; nrf24_radio_init_tx, after
\* the two seconds, flushes what its radio has queued meanwhile.
RpBoot ==
    /\ ~ rpUp
    /\ bootMs = BootTime
    /\ rpUp' = TRUE
    /\ rpFifo' = <<>>
    /\ UNCHANGED <<vars, bootMs, espFifo, espSince, env>>

\* The locals of main are as in Init; to_ms_since_boot counts anew.
RpReset ==
    /\ env.resets
    /\ rpUp
    /\ rpUp' = FALSE
    /\ bootMs' = 0
    /\ pc' = "top" /\ pending' = FALSE
    /\ seq' = 0 /\ expected' = 0 /\ deadline' = 0
    /\ clock' \in BootClocks
    /\ nowMs' = clock' /\ lastRf' = ModSub(clock', Interval)
    /\ loopMs' = 0 /\ age' = Interval
    /\ rpFifo' = Outdated(rpFifo)
    /\ espFifo' = Outdated(espFifo)
    /\ UNCHANGED <<espSince, env>>

\* A turn of the ESP32-C3: the oldest payload is fetched and, if it is DATA,
\* answered with the ACK of its sequence number.
EspTurn ==
    /\ espFifo # <<>>
    /\ espFifo' = Tail(espFifo)
    /\ LET p == Head(espFifo)
           ack == [frame |-> AckFor(p.frame), fresh |-> p.fresh]
       IN  rpFifo' \in Arrivals(rpFifo, ack, env.lossy)
    /\ espSince' = 0
    /\ UNCHANGED <<vars, rpUp, bootMs, env>>

\* The ESP32-C3 flushes its queue unread, or restarts and does so.
EspFlush ==
    /\ env.lossy
    /\ espFifo # <<>>
    /\ espFifo' = <<>>
    /\ espSince' = 0
    /\ UNCHANGED <<vars, rpUp, bootMs, rpFifo, env>>

EspIdle ==
    /\ espFifo = <<>>
    /\ espSince > 0
    /\ espSince' = 0
    /\ UNCHANGED <<vars, rpUp, bootMs, radios, env>>

\* Somebody else's packet reaches the RP2040 on pipe 0.
ForeignPacket ==
    /\ env.foreigners
    /\ Len(rpFifo) < Depth
    /\ rpFifo' = Append(rpFifo, [frame |-> Foreign, fresh |-> FALSE])
    /\ UNCHANGED <<vars, rpUp, bootMs, espFifo, espSince, env>>

\* Time passes for both boards; neither overruns the longest turn of its loop.
Pass ==
    /\ espSince < env.turn
    /\ espSince' = espSince + 1
    /\ \/ /\ rpUp
          /\ Tick
          /\ UNCHANGED bootMs
       \/ /\ ~ rpUp
          /\ bootMs < BootTime
          /\ bootMs' = bootMs + 1
          /\ UNCHANGED vars
    /\ UNCHANGED <<rpUp, radios, env>>

RpStep ==
    \/ RpQuiet \/ RpPoll \/ RpBoot
    \/ \E sent \in BOOLEAN : RpSend(sent)

EspStep == EspTurn \/ EspIdle

LinkNext == RpStep \/ EspStep \/ EspFlush \/ RpReset \/ ForeignPacket \/ Pass

LinkSpec == LinkInit /\ [][LinkNext]_linkVars
-----------------------------------------------------------------------------
\* An ACK that closes an attempt answers the DATA packet of that very attempt,
\* though sequence numbers wrap, start again at 0 after a reset, and old
\* packets may still be queued in either radio (main.c:239-254).
AckIsForCurrentData ==
    [][rpUp /\ rpUp' /\ pc = "recv" /\ pending /\ ~ pending'
         => Head(rpFifo).fresh]_linkVars

Undisturbed ==
    /\ ~ env.lossy /\ ~ env.foreigners /\ ~ env.resets
    /\ MaxLoop + env.turn < AckWindow

\* The window is wide enough: as long as nothing is lost, no attempt that went
\* out is reported as a timeout, however the two loops are out of step, if
\* the turns of both fit into it (main.c:195).
NoFalseTimeout ==
    [][rpUp /\ pc = "check" /\ pending /\ Undisturbed => pending']_linkVars
-----------------------------------------------------------------------------
(* The strengthening that is inductive.  How many attempts have been made   *)
(* since that of a packet shows in its number s, n being the next one: that *)
(* many intervals, and what the packet may still have to wait, do not       *)
(* exceed the time it may be under way.                                     *)
Behind(s, n) == IF s < n THEN n - s ELSE n - s + SeqMod

UnderWay(p, n, elapsed, wait) ==
    /\ p.fresh <=> Behind(p.frame.seq, n) = 1
    /\ (Behind(p.frame.seq, n) - 1) * Interval + elapsed + wait <= Lifetime

\* At most this long until the RP2040 polls, and until it fetches what is at
\* place i of its own queue, or of that of the ESP32-C3.
ToPoll == IF pc \in {"send", "recv"} THEN MaxLoop - loopMs ELSE 2 * MaxLoop - loopMs
RpWait(i) == (i - 1) * MaxLoop + ToPoll
EspWait(i) == i * EspPeriod - espSince + (Depth + 1) * MaxLoop

\* While the RP2040 starts, the ESP32-C3 works off what is of before.
Draining ==
    \A i \in 1 .. Len(espFifo) :
        i * EspPeriod - espSince + bootMs <= Depth * EspPeriod

NumbersTrue ==
    IF rpUp
    THEN /\ \A i \in 1 .. Len(espFifo) : UnderWay(espFifo[i], seq, age, EspWait(i))
         /\ \A i \in 1 .. Len(rpFifo) :
                rpFifo[i].frame.kind = "ack"
                  => UnderWay(rpFifo[i], seq, age, RpWait(i))
    ELSE Draining

\* With nothing lost there is one packet under way at most, and that of an
\* open attempt is there; it leaves either queue in time.
Answered ==
    /\ rpUp
    /\ Len(espFifo) + Len(rpFifo) <= 1
    /\ pending => \/ espFifo # <<>> /\ espFifo[1].frame.seq = expected
                  \/ rpFifo # <<>> /\ AckMatches(rpFifo[1].frame)
    /\ espFifo # <<>> => age <= MaxLoop + espSince
    /\ rpFifo # <<>> =>
         /\ age + ToPoll <= 3 * MaxLoop + env.turn
         /\ pc = "check" => SampledAge <= MaxLoop + env.turn

LinkIInv ==
    /\ IInv /\ LinkTypeOK
    /\ espSince <= env.turn
    /\ NumbersTrue
    /\ Undisturbed => Answered
=============================================================================
