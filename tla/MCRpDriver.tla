----------------------------- MODULE MCRpDriver -----------------------------
(* An ACK, a packet of another program on pipe 0 and a frame of pipe 1: two *)
(* pipes, and two payloads of one pipe that cannot be taken for each other. *)
EXTENDS RpDriver

MCTraffic == {AckFor(DataFrame(1)), Foreign, RfV2}
=============================================================================
