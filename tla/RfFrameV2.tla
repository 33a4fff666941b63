------------------------------ MODULE RfFrameV2 ------------------------------
(***************************************************************************)
(* The compact radio frame rf_frame_v2: ten bytes of header, the last one  *)
(* a CRC-8 of the others, and 22 bytes of payload of which payload_len     *)
(* count.  The boards build and check frames in C (main.c of both, in the  *)
(* build with diagnostics), the host console in Python                     *)
(* (host_console/protocol/rf_frame_v2.py).  One frame at a time is built,  *)
(* hit by noise or not, and read by both.                                  *)
(***************************************************************************)
EXTENDS Crc8

CONSTANTS
    FirstSeqs,     \* sequence numbers to start from
    MaxFrames,     \* bound: frames sent in a behaviour
    Bursts,        \* what noise may do to a header: see Noise
    None           \* no frame

HeaderSize == 10
PayloadSize == 22
SeqReserved == 0
SeqFirst == 1
SeqMax == 65535

ASSUME FrameAssumption ==
    /\ FirstSeqs \subseteq SeqFirst .. SeqMax /\ MaxFrames \in Nat
    /\ Bursts \subseteq {b \in SUBSET (0 .. 7) : 0 \in b}

\* The packets the boards exchange: who sends them and how much they carry.
Packets == {
    [type |-> 1, src |-> 1, len |-> 8],        \* HEARTBEAT of the RP2040
    [type |-> 2, src |-> 2, len |-> 4],        \* PING of the ESP32-C3
    [type |-> 3, src |-> 1, len |-> 8],        \* PONG
    [type |-> 4, src |-> 2, len |-> 0],        \* GET_STATUS
    [type |-> 5, src |-> 1, len |-> 12] }      \* STATUS

VARIABLES
    seq,           \* request_seq, heartbeat_seq: of the next frame
    sent,          \* the packet under way, with seq and payload, or None
    header,        \* its header as received
    payload,       \* its payload as received
    noisy,         \* whether noise has hit it
    frames         \* frames sent

vars == <<seq, sent, header, payload, noisy, frames>>
-----------------------------------------------------------------------------
(* Both languages.                                                          *)

\* Mutant: plain 16-bit arithmetic.
NextSeqPlain(s) == (s + 1) % (SeqMax + 1)

\* rfv2_next_seq
NextSeq(s) ==
    IF s \in {SeqReserved, SeqMax} THEN SeqFirst ELSE s + 1

\* The header without its CRC: magic 0x5632, version 2, flags 0; little-endian.
HeaderOf(type, src, s, len) ==
    <<Bits(50), Bits(86), Bits(2), Bits(type), Bits(src), Bits(0),
      Bits(s % 256), Bits(s \div 256), Bits(len)>>

Seal(h) == Append(h, crc8_compute(h))

\* memset and memcpy of the boards, ljust of the console.
Padded(bytes) ==
    bytes \o [k \in 1 .. PayloadSize - Len(bytes) |-> 0]

HeaderSeq(h) == Value[h[7]] + 256 * Value[h[8]]
-----------------------------------------------------------------------------
(* The boards.                                                              *)

\* rfv2_header_is_valid, rfv2_frame_is_valid
HeaderIsValid(h) ==
    /\ h[1] = Bits(50) /\ h[2] = Bits(86) /\ h[3] = Bits(2)
    /\ HeaderSeq(h) # SeqReserved
    /\ Value[h[9]] <= PayloadSize
    /\ h[10] = crc8_compute(SubSeq(h, 1, HeaderSize - 1))
-----------------------------------------------------------------------------
(* The console.                                                             *)

\* Mutant: payload_len is what is there, whatever the header says.
PayloadLenAll(len, bytes) == Len(bytes)

\* RFFrameV2.__post_init__: a length of 0 stands for "not given".
PayloadLen(len, bytes) == IF len = 0 THEN Len(bytes) ELSE len

\* decode_frame: the ValueError of a length above 22, and the object.
Refused(h) == Value[h[9]] > PayloadSize

Decoded(h, bytes) ==
    [type |-> Value[h[4]], src |-> Value[h[5]], seq |-> HeaderSeq(h),
     len |-> PayloadLen(Value[h[9]], bytes), payload |-> bytes,
     head |-> SubSeq(h, 1, 8), crc |-> h[10]]

\* validate_frame_crc: the header is packed again, with payload_len as it is
\* in the object.
CrcIsValid(f) == f.crc = crc8_compute(Append(f.head, Bits(f.len)))
-----------------------------------------------------------------------------
Init ==
    /\ seq \in FirstSeqs
    /\ sent = None
    /\ header = <<>> /\ payload = <<>>
    /\ noisy = FALSE
    /\ frames = 0

\* build_rfv2_header and the copy of the payload; encode_frame gives the same
\* bytes.  Then rfv2_next_seq.
Send(p) ==
    LET bytes == [k \in 1 .. p.len |-> 1]
    IN  /\ frames < MaxFrames
        /\ frames' = frames + 1
        /\ sent' = [type |-> p.type, src |-> p.src, seq |-> seq,
                    payload |-> bytes]
        /\ header' = Seal(HeaderOf(p.type, p.src, seq, p.len))
        /\ payload' = Padded(bytes)
        /\ noisy' = FALSE
        /\ seq' = NextSeq(seq)

\* The bits of byte m a burst hits: those at the distances of `burst' from bit
\* number `first' of the header, most significant bits first.
Hit(m, first, burst) == {i \in Bit : 8 * m - 1 - i - first \in burst}

\* Noise flips bits of the header in a burst of at most eight.
Noise(first, burst) ==
    /\ sent # None /\ ~ noisy
    /\ header' = [m \in 1 .. HeaderSize |-> SymDiff(header[m], Hit(m, first, burst))]
    /\ noisy' = TRUE
    /\ UNCHANGED <<seq, sent, payload, frames>>

Next ==
    \/ \E p \in Packets : Send(p)
    \/ \E first \in 0 .. 8 * HeaderSize - 1, b \in Bursts : Noise(first, b)

Spec == Init /\ [][Next]_vars
-----------------------------------------------------------------------------
\* What the boards build the boards accept, at every sequence number.
BoardsAccept == sent # None /\ ~ noisy =>
    HeaderIsValid(header) /\ HeaderSeq(header) = sent.seq

\* The console reads what was built: packet, payload and a good CRC.  (Of a
\* frame without payload it does not: ZeroPayloadKept.)
ConsoleReads ==
    sent # None /\ ~ noisy /\ sent.payload # <<>> =>
        LET f == Decoded(header, payload)
        IN  /\ ~ Refused(header)
            /\ f.type = sent.type /\ f.src = sent.src /\ f.seq = sent.seq
            /\ SubSeq(f.payload, 1, f.len) = sent.payload
            /\ CrcIsValid(f)

\* No burst of up to eight bits, the CRC byte included, makes another header
\* that the boards accept, nor one that the console accepts.  (The console
\* checks another header than the one of a frame without payload.)
NoiseDetected ==
    noisy =>
        /\ ~ HeaderIsValid(header)
        /\ sent.payload # <<>> =>
             Refused(header) \/ ~ CrcIsValid(Decoded(header, payload))

\* docs/protocol.md:210: GET_STATUS is a packet without payload.  Read by the
\* console it still has none, and its CRC is good.
ZeroPayloadKept ==
    sent # None /\ ~ noisy /\ sent.payload = <<>> =>
        LET f == Decoded(header, payload)
        IN  ~ Refused(header) /\ f.len = 0 /\ CrcIsValid(f)
=============================================================================
