------------------------------ MODULE WrapClock ------------------------------
(***************************************************************************)
(* The free-running counters the boards tell the time by: uint32_t         *)
(* milliseconds on the RP2040, TickType_t ticks on the ESP32-C3.  Both     *)
(* wrap, and sums and differences of their values are unsigned.            *)
(***************************************************************************)
EXTENDS Integers

CONSTANT ClockMod      \* values of the counter: 2^32 in the program

ASSUME ClockModAssumption == ClockMod \in Nat \ {0, 1}

Times == 0 .. ClockMod - 1

\* Mutant: computed in a wider type.
ModAddWide(a, b) == a + b

\* Addition and subtraction, for operands of Times (and, on the right,
\* anything not above ClockMod).
ModAdd(a, b) == IF a + b < ClockMod THEN a + b ELSE a + b - ClockMod
ModSub(a, b) == IF b <= a THEN a - b ELSE a - b + ClockMod
=============================================================================
