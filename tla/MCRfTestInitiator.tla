-------------------------- MODULE MCRfTestInitiator --------------------------
(* A small clock: 8 ticks between sends, a window of 3, turns of 1 or 2.   *)
(* Every boot value is tried, so the wrap falls at every place of the loop. *)
EXTENDS RfTestInitiator

MCBootClocks == 0 .. ClockMod - 1
=============================================================================
