---------------------------- MODULE MCRfTestLink ----------------------------
(* Two sequence numbers, so that every other attempt reuses one, and a      *)
(* counter that wraps during the second attempt.                            *)
EXTENDS RfTestLink

MCBootClocks == {ClockMod - 10}

\* Everything goes wrong that can, and the ESP32-C3 is so slow that an answer
\* may come an interval late.
Stormy == [lossy |-> TRUE, resets |-> TRUE, foreigners |-> TRUE,
           turn |-> EspPeriod]
\* Nothing is lost, and an answer takes a turn of either loop at most.
Calm == [lossy |-> FALSE, resets |-> FALSE, foreigners |-> FALSE, turn |-> 1]

MCEnvironments == {Stormy, Calm}
=============================================================================
