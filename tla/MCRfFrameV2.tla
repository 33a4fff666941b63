----------------------------- MODULE MCRfFrameV2 -----------------------------
(* The last sequence number and the one that follows it; every burst of up  *)
(* to eight bits, named by where it begins and which bits it flips.         *)
EXTENDS RfFrameV2

MCFirstSeqs == {65535}
MCBursts == {b \in SUBSET (0 .. 7) : 0 \in b}
=============================================================================
