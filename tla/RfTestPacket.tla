---------------------------- MODULE RfTestPacket ----------------------------
(***************************************************************************)
(* The 16-byte RF test packet the two boards exchange on pipe 0            *)
(* (firmware/include/rf_test_packet.h), and the other payloads a receiver  *)
(* of this link has to tell from it.                                       *)
(*                                                                         *)
(* A payload is reduced to what the handlers look at:                      *)
(*   "data", "ack"  magic, version and msg_type are those of a packet      *)
(*   "foreign"      pipe 0, but another magic or version                   *)
(*   "blank"        every byte 0x00, or every byte 0xff                    *)
(*   "rfv2"         a 32-byte payload of pipe 1                            *)
(* uptime_ms and arg0 are copied into an ACK and read by nobody: left out. *)
(***************************************************************************)
EXTENDS Naturals

CONSTANT SeqMod        \* number of sequence numbers: 2^16 in the program

ASSUME SeqModAssumption == SeqMod \in Nat \ {0, 1}

Seqs == 0 .. SeqMod - 1

\* seq++ on a uint16_t.
NextSeq(s) == IF s + 1 = SeqMod THEN 0 ELSE s + 1

Kinds == {"data", "ack", "foreign", "blank", "rfv2"}

Frame == [pipe : {0, 1}, kind : Kinds, seq : Seqs]

DataFrame(s) == [pipe |-> 0, kind |-> "data", seq |-> s]

\* The acknowledgement of a DATA packet carries its sequence number.
AckFor(f) == [pipe |-> 0, kind |-> "ack", seq |-> f.seq]

Foreign == [pipe |-> 0, kind |-> "foreign", seq |-> 0]
Blank   == [pipe |-> 0, kind |-> "blank",   seq |-> 0]
RfV2    == [pipe |-> 1, kind |-> "rfv2",    seq |-> 0]

Noise == {Foreign, Blank, RfV2}
=============================================================================
