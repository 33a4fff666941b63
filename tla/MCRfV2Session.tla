---------------------------- MODULE MCRfV2Session ----------------------------
(* Intervals just longer than a frame can stay under way, and a counter     *)
(* just longer than they are, so that deadlines fall on both sides of the   *)
(* wrap.  PingOnly puts GET_STATUS beyond the range of the counter.         *)
EXTENDS RfV2Session

MCInterval == [ping |-> 6, get_status |-> 8]
PingOnly == [ping |-> 7, get_status |-> ClockMod]
MCTimeout == [ping |-> 4, get_status |-> 4]
ShortTimeout == [ping |-> 3, get_status |-> 3]
MCBootClocks == {0}

\* Everything goes wrong that can, while both loops are quick.
Stormy == [others |-> TRUE, restarts |-> TRUE, turn |-> 1, rpTurn |-> 1]
\* The RP2040 may take longer to look than an interval lasts.
Late == [others |-> FALSE, restarts |-> FALSE, turn |-> 1, rpTurn |-> RpTurn]

Quick == {Stormy, Late}

\* The ESP32-C3 takes turns so long that a deadline may be stepped over.
Slow == [others |-> FALSE, restarts |-> FALSE, turn |-> MaxTurn, rpTurn |-> 1]

SlowOnly == {Slow}
=============================================================================
