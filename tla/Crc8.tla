-------------------------------- MODULE Crc8 --------------------------------
(* CRC-8, polynomial x^8 + x^2 + x + 1, initial value 0                     *)
(* (firmware/src/crc8.c, and crc8_compute of rf_frame_v2.py).  A byte is    *)
(* the set of its one-bits, the exclusive or of two the symmetric           *)
(* difference.                                                              *)
EXTENDS Integers, Sequences, FiniteSetsExt

Bit == 0 .. 7
Byte == SUBSET Bit

\* The byte of value n, and the value of a byte.
Bits(n) == {i \in Bit : (n \div 2 ^ i) % 2 = 1}
Value == [b \in Byte |-> CHOOSE n \in 0 .. 255 : Bits(n) = b]

Polynomial == {0, 1, 2}     \* CRC8_POLYNOMIAL 0x07

Moved(crc) == {i \in 1 .. 7 : i - 1 \in crc}     \* crc << 1

\* Mutant: the polynomial is applied to the bit shifted in, not to the one out.
ShiftedLate(crc) ==
    IF 6 \in crc THEN SymDiff(Moved(crc), Polynomial) ELSE Moved(crc)

\* One step of the inner loop: shift out the top bit; if it was set, subtract
\* the polynomial.
Shifted(crc) ==
    IF 7 \in crc THEN SymDiff(Moved(crc), Polynomial) ELSE Moved(crc)

\* The inner loop: what crc is after each of its steps.
Steps(crc) ==
    LET step[n \in 0 .. 8] == IF n = 0 THEN crc ELSE Shifted(step[n - 1])
    IN  step

Reduced == [crc \in Byte |-> Steps(crc)[8]]

\* The outer loop: what crc is after each of the bytes.
Crcs(bytes) ==
    LET crc[i \in 0 .. Len(bytes)] ==
            IF i = 0 THEN {} ELSE Reduced[SymDiff(crc[i - 1], bytes[i])]
    IN  crc

crc8_compute(bytes) == Crcs(bytes)[Len(bytes)]
=============================================================================
