--------------------------------- MODULE Air ---------------------------------
(***************************************************************************)
(* The air between the two boards, seen from a receiver's FIFO, and the    *)
(* history bit `fresh' of the packets under way.                           *)
(***************************************************************************)
EXTENDS Sequences, Naturals

CONSTANT Depth     \* payloads a radio queues: 3 in the nRF24L01

ASSUME AirAssumption == Depth \in Nat \ {0}

Outdated(q) == [i \in DOMAIN q |-> [q[i] EXCEPT !.fresh = FALSE]]

\* The queues a packet p may leave behind at a receiver: none takes it if its
\* FIFO is full, or if a lossy air loses it.
Arrivals(q, p, lossy) ==
    {r \in {q, Append(q, p)} :
        IF r = q THEN lossy \/ Len(q) = Depth ELSE Len(q) < Depth}
=============================================================================
