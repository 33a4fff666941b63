----------------------------- MODULE MCEspBridge -----------------------------
(* Two DATA packets, an all-zero payload and a frame of pipe 1.             *)
EXTENDS EspBridge

MCTraffic == {DataFrame(0), DataFrame(1), Blank, RfV2}
MCDataOnly == {DataFrame(0), DataFrame(1)}
=============================================================================
