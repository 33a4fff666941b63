---------------------------- MODULE WatchdogGuard ----------------------------
(***************************************************************************)
(* The watchdog guard (firmware/src/watchdog_guard.c): a loop kicks it, a  *)
(* supervisor polls it, and it is expired from the first poll that finds   *)
(* the last kick timeout_ms milliseconds back, until the next kick.  Times *)
(* are uint32_t and wrap; the difference of a poll is only good for a      *)
(* stall shorter than the range of the counter, the latch is for the rest. *)
(*                                                                         *)
(* Nothing calls the guard yet.  The environment is the one its interface  *)
(* asks for: set up at any time, kicks and polls at any time, two calls at *)
(* most PollGap apart.                                                     *)
(*                                                                         *)
(* Before the first kick the guard measures from the last time the counter *)
(* was 0 (line 12), whenever it was set up: it may be expired at its first *)
(* poll.  What it promises of an alarm begins with the first kick.         *)
(***************************************************************************)
EXTENDS WrapClock

CONSTANTS
    TripMod,       \* values of trip_count: 2^16
    Timeouts,      \* values timeout_ms may be set to; 0 turns the guard off
    PollGap,       \* the most time between two calls of kick or poll
    MaxStall       \* bound: no stall of the model is longer

ASSUME GuardAssumption ==
    /\ TripMod \in Nat \ {0} /\ Timeouts \subseteq Nat
    /\ PollGap \in Nat \ {0} /\ MaxStall \in Nat
    /\ PollGap < ClockMod /\ \A t \in Timeouts : t + PollGap < ClockMod

VARIABLES
    timeout,       \* timeout_ms
    clock,         \* the now_ms that a caller would pass
    lastKick,      \* last_kick_ms
    lastCheck,     \* last_check_ms
    state,         \* state: OK or EXPIRED (WARNING is never assigned)
    reason,        \* reason
    trips,         \* trip_count
    kicked,        \* history: the guard has been kicked
    stall,         \* history: time since the last kick, or since it was set up
    quiet          \* history: time since the last call

vars == <<timeout, clock, lastKick, lastCheck, state, reason, trips, kicked,
          stall, quiet>>

Reasons == {"none", "loop_stall", "task_timeout", "manual_recovery"}

TypeOK ==
    /\ timeout \in Timeouts
    /\ clock \in Times /\ lastKick \in Times /\ lastCheck \in Times
    /\ state \in {"ok", "expired"}
    /\ reason \in Reasons
    /\ trips \in 0 .. TripMod - 1
    /\ kicked \in BOOLEAN /\ stall \in Nat /\ quiet \in 0 .. PollGap
-----------------------------------------------------------------------------
Trip(n) == IF n + 1 = TripMod THEN 0 ELSE n + 1

\* Mutants: compared without regard to the wrap; a deadline kept instead.
OverdueNoWrap == clock >= lastKick + timeout
OverdueDeadline == clock >= ModAdd(lastKick, timeout)

\* (now_ms - guard->last_kick_ms) >= guard->timeout_ms
Overdue == ModSub(clock, lastKick) >= timeout
-----------------------------------------------------------------------------
\* watchdog_guard_init, called at any time: last_kick_ms is 0, and not the time
\* of the call.
Init ==
    /\ timeout \in Timeouts
    /\ clock \in Times
    /\ lastKick = 0 /\ lastCheck = 0
    /\ state = "ok" /\ reason = "none" /\ trips = 0
    /\ kicked = FALSE /\ stall = 0 /\ quiet = 0

\* watchdog_guard_kick
Kick ==
    /\ lastKick' = clock
    /\ lastCheck' = clock
    /\ state' = "ok"
    /\ reason' = "none"
    /\ kicked' = TRUE /\ stall' = 0 /\ quiet' = 0
    /\ UNCHANGED <<timeout, clock, trips>>

\* Mutant: the state is that of this poll alone.
PollWithoutLatch ==
    /\ lastCheck' = clock
    /\ quiet' = 0
    /\ state' = IF timeout # 0 /\ Overdue THEN "expired" ELSE "ok"
    /\ trips' = IF state' = "expired" THEN Trip(trips) ELSE trips
    /\ UNCHANGED <<timeout, clock, lastKick, reason, kicked, stall>>

\* watchdog_guard_poll: every poll that finds the guard overdue is a trip.
Poll ==
    /\ lastCheck' = clock
    /\ quiet' = 0
    /\ \/ /\ timeout = 0
          /\ state' = "ok"
          /\ UNCHANGED trips
       \/ /\ timeout # 0 /\ Overdue
          /\ state' = "expired"
          /\ trips' = Trip(trips)
       \/ /\ timeout # 0 /\ ~ Overdue
          /\ UNCHANGED <<state, trips>>
    /\ UNCHANGED <<timeout, clock, lastKick, reason, kicked, stall>>

\* watchdog_guard_force_reason
ForceReason(r) ==
    /\ reason' = r
    /\ UNCHANGED <<timeout, clock, lastKick, lastCheck, state, trips, kicked,
                   stall, quiet>>

\* A millisecond passes.
Pass ==
    /\ quiet < PollGap /\ stall < MaxStall
    /\ clock' = ModAdd(clock, 1)
    /\ stall' = stall + 1
    /\ quiet' = quiet + 1
    /\ UNCHANGED <<timeout, lastKick, lastCheck, state, reason, trips, kicked>>

Next ==
    \/ Kick \/ Poll \/ Pass
    \/ \E r \in Reasons : ForceReason(r)

Spec == Init /\ [][Next]_vars
-----------------------------------------------------------------------------
\* A guard that has been kicked is expired only if the loop has really not
\* kicked for timeout since (line 44), wherever the counter has wrapped.
NoFalseAlarm ==
    state = "expired" => timeout # 0 /\ (kicked => stall >= timeout)

\* A guard set up just before the wrap and not kicked yet counts from 0 again if
\* its first poll, up to PollGap later, comes after the wrap.
Grace == IF kicked THEN 0 ELSE PollGap

\* A stall is noticed by the next poll, and stays noticed although the
\* difference of line 44 starts again at 0 when the counter comes round
\* (lines 44-49: the state is left alone, never set back to OK).
StallNoticed ==
    timeout # 0 /\ state = "ok" =>
        /\ stall < timeout + PollGap + Grace
        /\ quiet = 0 => stall < timeout + Grace

\* The inductive invariant: as long as no stall has been noticed, the
\* difference that the code computes is the true one; before the first kick
\* there has been no poll yet, or it is short by PollGap at most.
DifferenceTrue ==
    timeout # 0 /\ state = "ok" =>
        IF kicked
        THEN ModSub(clock, lastKick) = stall /\ stall - quiet < timeout
        ELSE /\ lastKick = 0
             /\ \/ stall = quiet
                \/ /\ 0 <= clock - quiet /\ clock - quiet < timeout
                   /\ stall <= clock + PollGap

IInv == TypeOK /\ NoFalseAlarm /\ DifferenceTrue
=============================================================================
