--------------------------- MODULE RfFrameV2Proofs ---------------------------
(***************************************************************************)
(* Proofs about the CRC and the frame: a burst of up to eight bits is      *)
(* detected in frames of any length, and the invariants of RfFrameV2 hold  *)
(* for every sequence number and every set of bursts.                      *)
(***************************************************************************)
EXTENDS RfFrameV2, SequenceTheorems, WellFoundedInduction, TLAPS
-----------------------------------------------------------------------------
(* Induction over the natural numbers, and what it defines.                 *)

LEMMA Least ==
    ASSUME NEW T, T \subseteq Nat, T # {}
    PROVE  \E x \in T : \A y \in T : x <= y
<1>1. IsWellFoundedOn(OpToRel(<, Nat), Nat)
  BY NatLessThanWellFounded
<1>2. PICK R : R = OpToRel(<, Nat)
  OBVIOUS
<1>3. PICK x \in T : \A y \in T : ~ (<<y, x>> \in R)
  BY <1>1, <1>2, WFMin
<1>4. \A y \in T : <<y, x>> \in R <=> y < x
  BY <1>2 DEF OpToRel
<1>5. \A y \in T : ~ (y < x) /\ y \in Nat /\ x \in Nat
  BY <1>3, <1>4
<1>6. \A y \in T : x <= y
  BY <1>5
<1> QED
  BY <1>6

LEMMA Induction ==
    ASSUME NEW S, 0 \in S, \A n \in Nat : n \in S => n + 1 \in S
    PROVE  Nat \subseteq S
<1> SUFFICES ASSUME NEW n \in Nat, n \notin S PROVE FALSE
  OBVIOUS
<1>1. PICK m \in Nat \ S : \A y \in Nat \ S : m <= y
  <2>1. PICK T : T = Nat \ S
    OBVIOUS
  <2> QED
    BY <2>1, Least
<1>2. m - 1 \in Nat /\ m - 1 \notin S
  BY <1>1
<1> QED
  BY <1>1, <1>2

\* A set S of values, a value of it and one function of S for every step:
\* there is the function that takes the steps one after the other.
Iterates(f, a, N, G, S) ==
    /\ f \in [0 .. N -> S] /\ f[0] = a
    /\ \A i \in 1 .. N : f[i] = G[i][f[i - 1]]

LEMMA Iteration ==
    ASSUME NEW S, NEW a \in S, NEW N \in Nat, NEW G \in [1 .. N -> [S -> S]]
    PROVE  \E f : Iterates(f, a, N, G, S)
<1> DEFINE Upto(f, n) == f[0] = a /\ \A i \in 1 .. n : f[i] = G[i][f[i - 1]]
<1>1. PICK T : T = {n \in Nat : n <= N => \E f \in [0 .. n -> S] : Upto(f, n)}
  OBVIOUS
<1>2. 0 \in T
  <2>1. PICK f : f = [i \in 0 .. 0 |-> a]
    OBVIOUS
  <2>2. f \in [0 .. 0 -> S] /\ Upto(f, 0)
    BY <2>1
  <2> QED
    BY <1>1, <2>2
<1>3. ASSUME NEW n \in Nat, n \in T, n + 1 <= N
      PROVE  \E f \in [0 .. n + 1 -> S] : Upto(f, n + 1)
  <2>1. PICK f \in [0 .. n -> S] : Upto(f, n)
    BY <1>1, <1>3
  <2>2. PICK g : g = [i \in 0 .. n + 1 |-> IF i = n + 1 THEN G[n + 1][f[n]] ELSE f[i]]
    OBVIOUS
  <2>3. G[n + 1][f[n]] \in S
    BY <1>3
  <2>4. g \in [0 .. n + 1 -> S]
    BY <2>2, <2>3
  <2>5. \A i \in 0 .. n : g[i] = f[i]
    BY <2>2
  <2>6. g[n + 1] = G[n + 1][g[n]]
    BY <2>2, <2>5
  <2>7. \A i \in 1 .. n : g[i] = G[i][g[i - 1]]
    BY <2>1, <2>5
  <2>8. Upto(g, n + 1)
    <3>1. g[0] = a
      BY <2>1, <2>5
    <3>2. \A i \in 1 .. n + 1 : i = n + 1 \/ i \in 1 .. n
      OBVIOUS
    <3>3. (n + 1) - 1 = n
      OBVIOUS
    <3> QED
      BY <2>6, <2>7, <3>1, <3>2, <3>3
  <2> QED
    BY <2>4, <2>8
<1>4. \A n \in Nat : n \in T => n + 1 \in T
  BY <1>1, <1>3
<1>5. N \in T
  BY <1>2, <1>4, Induction
<1> QED
  BY <1>1, <1>5 DEF Iterates
-----------------------------------------------------------------------------
(* Bytes and their values.                                                  *)

LEMMA BitsIsByte ==
    ASSUME NEW n
    PROVE  Bits(n) \in Byte
  BY DEF Bits, Byte

LEMMA BitsInjective ==
    ASSUME NEW m \in 0 .. 255, NEW n \in 0 .. 255, Bits(m) = Bits(n)
    PROVE  m = n
<1> DEFINE B(x, i) == (x \div (2 ^ i)) % 2
<1>1. \A i \in Bit : B(m, i) = 1 <=> B(n, i) = 1
  BY DEF Bits
<1>2. \A x \in 0 .. 255 :
        x = B(x, 0) + 2 * B(x, 1) + 4 * B(x, 2) + 8 * B(x, 3)
            + 16 * B(x, 4) + 32 * B(x, 5) + 64 * B(x, 6) + 128 * B(x, 7)
  OBVIOUS
<1>3. \A x \in 0 .. 255, i \in Bit : B(x, i) \in {0, 1}
  BY DEF Bit
<1> HIDE DEF B
<1> QED
  BY <1>1, <1>2, <1>3 DEF Bit

LEMMA BitsSurjective ==
    ASSUME NEW b \in Byte
    PROVE  \E n \in 0 .. 255 : Bits(n) = b
<1> DEFINE X(i) == IF i \in b THEN 1 ELSE 0
           n == X(0) + 2 * X(1) + 4 * X(2) + 8 * X(3)
                + 16 * X(4) + 32 * X(5) + 64 * X(6) + 128 * X(7)
<1>1. \A i \in Bit : X(i) \in {0, 1} /\ (X(i) = 1 <=> i \in b)
  OBVIOUS
<1> HIDE DEF X
<1>2. n \in 0 .. 255
  BY <1>1 DEF Bit
<1>3. \A i \in Bit : (n \div 2 ^ i) % 2 = X(i)
  <2>1. /\ 2 ^ 0 = 1 /\ 2 ^ 1 = 2 /\ 2 ^ 2 = 4 /\ 2 ^ 3 = 8
        /\ 2 ^ 4 = 16 /\ 2 ^ 5 = 32 /\ 2 ^ 6 = 64 /\ 2 ^ 7 = 128
    OBVIOUS
  <2>2. /\ (n \div 1) % 2 = X(0) /\ (n \div 2) % 2 = X(1)
        /\ (n \div 4) % 2 = X(2) /\ (n \div 8) % 2 = X(3)
        /\ (n \div 16) % 2 = X(4) /\ (n \div 32) % 2 = X(5)
        /\ (n \div 64) % 2 = X(6) /\ (n \div 128) % 2 = X(7)
    BY <1>1 DEF Bit
  <2> HIDE DEF n
  <2>3. \A i \in Bit : i \in {0, 1, 2, 3, 4, 5, 6, 7}
    BY DEF Bit
  <2>4. SUFFICES ASSUME NEW i \in Bit PROVE (n \div 2 ^ i) % 2 = X(i)
    OBVIOUS
  <2> QED
    BY <2>1, <2>2, <2>3
<1>4. \A i \in Bit : i \in Bits(n) <=> i \in b
  BY <1>1, <1>3 DEF Bits
<1>5. Bits(n) = b
  BY <1>4 DEF Bits, Byte
<1> QED
  BY <1>2, <1>5

\* Value and Bits are inverse to each other.
LEMMA ValueOfBits ==
    ASSUME NEW n \in 0 .. 255
    PROVE  Value[Bits(n)] = n
<1>1. Value[Bits(n)] = CHOOSE m \in 0 .. 255 : Bits(m) = Bits(n)
  BY BitsIsByte DEF Value
<1>2. \A m \in 0 .. 255 : Bits(m) = Bits(n) => m = n
  BY BitsInjective
<1> QED
  BY <1>1, <1>2

LEMMA BitsOfValue ==
    ASSUME NEW b \in Byte
    PROVE  Value[b] \in 0 .. 255 /\ Bits(Value[b]) = b
  BY BitsSurjective, ValueOfBits
-----------------------------------------------------------------------------
(* One step of the CRC is linear and injective, and so is a byte of it.     *)

LEMMA XorIsByte ==
    ASSUME NEW a \in Byte, NEW b \in Byte
    PROVE  SymDiff(a, b) \in Byte
  BY DEF Byte, SymDiff

LEMMA ShiftedIn ==
    ASSUME NEW a \in Byte
    PROVE  /\ Shifted(a) \in Byte
           /\ \A i \in Bit : i \in Shifted(a) <=>
                ~ ((i > 0 /\ i - 1 \in a) <=> (7 \in a /\ i <= 2))
  BY DEF Byte, Bit, Shifted, Moved, Polynomial, SymDiff

LEMMA ShiftedLinear ==
    ASSUME NEW a \in Byte, NEW b \in Byte
    PROVE  Shifted(SymDiff(a, b)) = SymDiff(Shifted(a), Shifted(b))
<1>1. SymDiff(a, b) \in Byte /\ Shifted(SymDiff(a, b)) \in Byte
      /\ SymDiff(Shifted(a), Shifted(b)) \in Byte
  BY XorIsByte, ShiftedIn
<1>2. \A i : i \in SymDiff(a, b) <=> ~ (i \in a <=> i \in b)
  BY DEF SymDiff
<1>3. \A i : i \in SymDiff(Shifted(a), Shifted(b)) <=>
               ~ (i \in Shifted(a) <=> i \in Shifted(b))
  BY DEF SymDiff
<1>4. \A i \in Bit : i \in Shifted(SymDiff(a, b)) <=>
                       i \in SymDiff(Shifted(a), Shifted(b))
  BY <1>1, <1>2, <1>3, ShiftedIn
<1> QED
  BY <1>1, <1>4 DEF Byte

LEMMA ShiftedInjective ==
    ASSUME NEW a \in Byte, NEW b \in Byte, Shifted(a) = Shifted(b)
    PROVE  a = b
<1>1. 7 \in a <=> 7 \in b
  BY ShiftedIn DEF Bit
<1>2. \A i \in 1 .. 7 : i - 1 \in a <=> i - 1 \in b
  BY <1>1, ShiftedIn DEF Bit
<1>3. \A i \in 0 .. 6 : i \in a <=> i \in b
  <2> SUFFICES ASSUME NEW i \in 0 .. 6 PROVE i \in a <=> i \in b
    OBVIOUS
  <2>1. i + 1 \in 1 .. 7 /\ (i + 1) - 1 = i
    OBVIOUS
  <2> QED
    BY <1>2, <2>1
<1>4. \A i \in Bit : i \in a <=> i \in b
  BY <1>1, <1>3 DEF Bit
<1> QED
  BY <1>4 DEF Byte

\* What the inner loop makes of crc.
LEMMA StepsLaws ==
    ASSUME NEW c \in Byte
    PROVE  /\ Steps(c) \in [0 .. 8 -> Byte] /\ Steps(c)[0] = c
           /\ \A n \in 1 .. 8 : Steps(c)[n] = Shifted(Steps(c)[n - 1])
<1> DEFINE F(s) == s = [n \in 0 .. 8 |-> IF n = 0 THEN c ELSE Shifted(s[n - 1])]
<1>1. PICK G : G = [n \in 1 .. 8 |-> [x \in Byte |-> Shifted(x)]]
  OBVIOUS
<1>2. G \in [1 .. 8 -> [Byte -> Byte]]
  BY <1>1, ShiftedIn
<1>3. PICK f \in [0 .. 8 -> Byte] :
        f[0] = c /\ \A n \in 1 .. 8 : f[n] = G[n][f[n - 1]]
  <2>1. PICK N \in Nat : N = 8
    OBVIOUS
  <2>2. G \in [1 .. N -> [Byte -> Byte]]
    BY <1>2, <2>1
  <2>3. \E f : Iterates(f, c, N, G, Byte)
    BY <2>2, Iteration
  <2> QED
    BY <2>1, <2>3 DEF Iterates
<1>4. F(f)
  <2>1. \A n \in 1 .. 8 : f[n] = Shifted(f[n - 1])
    BY <1>1, <1>3
  <2> QED
    BY <1>3, <2>1
<1>5. F(Steps(c))
  <2>1. Steps(c) = CHOOSE s : F(s)
    BY DEF Steps
  <2> QED
    BY <1>4, <2>1
<1> DEFINE g == Steps(c)
<1>6. g[0] = c /\ \A n \in 1 .. 8 : g[n] = Shifted(g[n - 1])
  BY <1>5
<1>7. \A n \in 0 .. 8 : g[n] \in Byte
  <2>1. PICK T : T = {n \in Nat : n <= 8 => g[n] \in Byte}
    OBVIOUS
  <2>2. 0 \in T
    BY <1>6, <2>1
  <2>3. ASSUME NEW n \in Nat, n \in T PROVE n + 1 \in T
    <3>1. n + 1 <= 8 => g[n + 1] = Shifted(g[n])
      BY <1>6
    <3> QED
      BY <2>1, <2>3, <3>1, ShiftedIn
  <2> QED
    BY <2>1, <2>2, <2>3, Induction
<1> QED
  BY <1>5, <1>6, <1>7

LEMMA StepsLinear ==
    ASSUME NEW a \in Byte, NEW b \in Byte
    PROVE  \A n \in 0 .. 8 :
             Steps(SymDiff(a, b))[n] = SymDiff(Steps(a)[n], Steps(b)[n])
<1> DEFINE P(n) == Steps(SymDiff(a, b))[n] = SymDiff(Steps(a)[n], Steps(b)[n])
<1>1. PICK T : T = {n \in Nat : n <= 8 => P(n)}
  OBVIOUS
<1>2. SymDiff(a, b) \in Byte
  BY XorIsByte
<1>3. 0 \in T
  BY <1>1, <1>2, StepsLaws
<1>4. ASSUME NEW n \in Nat, n \in T, n + 1 <= 8 PROVE P(n + 1)
  <2>1. P(n) /\ n + 1 \in 1 .. 8 /\ (n + 1) - 1 = n /\ n \in 0 .. 8
    BY <1>1, <1>4
  <2>2. \A c \in Byte : Steps(c)[n] \in Byte /\ Steps(c)[n + 1] = Shifted(Steps(c)[n])
    BY <2>1, StepsLaws
  <2> QED
    BY <1>2, <2>1, <2>2, ShiftedLinear
<1>5. \A n \in Nat : n \in T => n + 1 \in T
  BY <1>1, <1>4
<1> QED
  BY <1>1, <1>3, <1>5, Induction

\* Nothing comes out at the top while there is room.
LEMMA StepsMove ==
    ASSUME NEW c \in Byte, NEW k \in 0 .. 8, \A i \in c : i + k <= 7
    PROVE  \A n \in 0 .. k : \A i \in Bit : i \in Steps(c)[n] <=> i - n \in c
<1> DEFINE P(n) == \A i \in Bit : i \in Steps(c)[n] <=> i - n \in c
<1>1. PICK T : T = {n \in Nat : n <= k => P(n)}
  OBVIOUS
<1>2. 0 \in T
  BY <1>1, StepsLaws DEF Bit
<1>3. ASSUME NEW n \in Nat, n \in T, n + 1 <= k PROVE P(n + 1)
  <2>1. P(n) /\ n + 1 \in 1 .. 8 /\ (n + 1) - 1 = n /\ n \in 0 .. 8
    BY <1>1, <1>3
  <2>2. Steps(c)[n] \in Byte /\ Steps(c)[n + 1] = Shifted(Steps(c)[n])
    BY <2>1, StepsLaws
  <2>3. 7 - n \notin c
    BY <1>3
  <2>4. 7 \notin Steps(c)[n]
    BY <2>1, <2>3 DEF Bit
  <2>5. SUFFICES ASSUME NEW i \in Bit
                 PROVE  i \in Steps(c)[n + 1] <=> i - (n + 1) \in c
    OBVIOUS
  <2>6. i \in Steps(c)[n + 1] <=> i > 0 /\ i - 1 \in Steps(c)[n]
    BY <2>2, <2>4, ShiftedIn
  <2>7. i > 0 => i - 1 \in Bit /\ (i - 1) - n = i - (n + 1)
    BY DEF Bit
  <2>8. i = 0 => i - (n + 1) \notin c
    BY DEF Byte, Bit
  <2>9. i \in Nat
    BY DEF Bit
  <2> QED
    BY <2>1, <2>6, <2>7, <2>8, <2>9
<1>4. \A n \in Nat : n \in T => n + 1 \in T
  BY <1>1, <1>3
<1> QED
  BY <1>1, <1>2, <1>4, Induction

\* Of a byte without its two top bits, each bit makes a copy of the polynomial.
LEMMA ReducedLow ==
    ASSUME NEW c \in Byte, 6 \notin c, 7 \notin c
    PROVE  \A i \in Bit : i \in Reduced[c] <=>
             ~ (i \in c <=> ~ (i - 1 \in c <=> i - 2 \in c))
<1> DEFINE P(n) == \A i \in Bit : i \in Steps(c)[n] <=>
               ~ (~ (i - n \in c <=> i + 8 - n \in c) <=>
                  ~ (i >= 1 /\ i + 7 - n \in c <=> i >= 2 /\ i + 6 - n \in c))
<1>1. PICK T : T = {n \in Nat : n <= 8 => P(n)}
  OBVIOUS
<1>2. \A i \in c : i \in 0 .. 5
  BY DEF Byte, Bit
<1>3. 0 \in T
  <2>1. P(0)
    BY <1>2, StepsLaws DEF Bit
  <2> QED
    BY <1>1, <2>1
<1>4. ASSUME NEW n \in Nat, n \in T, n + 1 <= 8 PROVE P(n + 1)
  <2>1. P(n) /\ n + 1 \in 1 .. 8 /\ (n + 1) - 1 = n /\ n \in 0 .. 7
    BY <1>1, <1>4
  <2>2. Steps(c)[n] \in Byte /\ Steps(c)[n + 1] = Shifted(Steps(c)[n])
    BY <2>1, StepsLaws
  <2>3. 7 \in Steps(c)[n] <=> 7 - n \in c
    BY <1>2, <2>1 DEF Bit
  <2>4. SUFFICES ASSUME NEW i \in Bit
        PROVE  i \in Steps(c)[n + 1] <=>
               ~ (~ (i - (n + 1) \in c <=> i + 8 - (n + 1) \in c) <=>
                  ~ (i >= 1 /\ i + 7 - (n + 1) \in c <=> i >= 2 /\ i + 6 - (n + 1) \in c))
    OBVIOUS
  <2>5. i \in Steps(c)[n + 1] <=>
          ~ ((i > 0 /\ i - 1 \in Steps(c)[n]) <=> (7 - n \in c /\ i <= 2))
    BY <2>2, <2>3, ShiftedIn
  <2>6. i > 0 => (i - 1 \in Steps(c)[n] <=>
               ~ (~ (i - (n + 1) \in c <=> i + 8 - (n + 1) \in c) <=>
                  ~ (i >= 2 /\ i + 7 - (n + 1) \in c <=> i >= 3 /\ i + 6 - (n + 1) \in c)))
    <3> SUFFICES ASSUME i > 0
                 PROVE  i - 1 \in Steps(c)[n] <=>
               ~ (~ (i - (n + 1) \in c <=> i + 8 - (n + 1) \in c) <=>
                  ~ (i >= 2 /\ i + 7 - (n + 1) \in c <=> i >= 3 /\ i + 6 - (n + 1) \in c))
      OBVIOUS
    <3>1. PICK j \in Bit : j = i - 1
      BY DEF Bit
    <3>2. /\ j - n = i - (n + 1) /\ j + 8 - n = i + 8 - (n + 1)
          /\ j + 7 - n = i + 7 - (n + 1) /\ j + 6 - n = i + 6 - (n + 1)
          /\ (j >= 1 <=> i >= 2) /\ (j >= 2 <=> i >= 3)
      BY <3>1 DEF Bit
    <3> QED
      BY <2>1, <3>1, <3>2
  <2>7. CASE i = 0
    BY <1>2, <2>5, <2>7
  <2>8. CASE i = 1
    BY <1>2, <2>5, <2>6, <2>8
  <2>9. CASE i = 2
    BY <1>2, <2>5, <2>6, <2>9
  <2>10. CASE i >= 3
    BY <1>2, <2>5, <2>6, <2>10 DEF Bit
  <2> QED
    BY <2>7, <2>8, <2>9, <2>10 DEF Bit
<1>5. \A n \in Nat : n \in T => n + 1 \in T
  BY <1>1, <1>4
<1>6. P(8)
  <2>1. 8 \in T
    BY <1>3, <1>5, Induction
  <2> QED
    BY <1>1, <2>1
<1> QED
  BY <1>2, <1>6 DEF Reduced, Bit
-----------------------------------------------------------------------------
(* A byte of the CRC is linear and injective.                               *)

\* Steps can be undone.
LEMMA StepsBack ==
    ASSUME NEW a \in Byte, NEW b \in Byte, NEW m \in 0 .. 8, NEW n \in 0 .. 8,
           NEW l \in Nat, m + l <= 8, n + l <= 8,
           Steps(a)[m + l] = Steps(b)[n + l]
    PROVE  Steps(a)[m] = Steps(b)[n]
<1> DEFINE P(j) == Steps(a)[m + j] = Steps(b)[n + j]
<1>1. PICK T : T = {j \in Nat : m + j <= 8 /\ n + j <= 8 /\ P(j) => P(0)}
  OBVIOUS
<1>2. 0 \in T
  BY <1>1
<1>3. ASSUME NEW j \in Nat, j \in T, m + (j + 1) <= 8, n + (j + 1) <= 8, P(j + 1)
      PROVE  P(0)
  <2>1. /\ m + (j + 1) \in 1 .. 8 /\ m + (j + 1) - 1 = m + j /\ m + j \in 0 .. 8
        /\ n + (j + 1) \in 1 .. 8 /\ n + (j + 1) - 1 = n + j /\ n + j \in 0 .. 8
    BY <1>3
  <2>2. Shifted(Steps(a)[m + j]) = Shifted(Steps(b)[n + j])
    BY <1>3, <2>1, StepsLaws
  <2>3. Steps(a)[m + j] \in Byte /\ Steps(b)[n + j] \in Byte
    BY <2>1, StepsLaws
  <2>4. P(j)
    BY <2>2, <2>3, ShiftedInjective
  <2> QED
    BY <1>1, <1>3, <2>1, <2>4
<1>4. \A j \in Nat : j \in T => j + 1 \in T
  BY <1>1, <1>3
<1>5. l \in T
  BY <1>2, <1>4, Induction
<1>6. P(0)
  BY <1>1, <1>5
<1> QED
  BY <1>6

LEMMA ReducedLaws ==
    ASSUME NEW a \in Byte, NEW b \in Byte
    PROVE  /\ Reduced[a] \in Byte
           /\ Reduced[SymDiff(a, b)] = SymDiff(Reduced[a], Reduced[b])
           /\ Reduced[a] = Reduced[b] => a = b
<1>1. \A c \in Byte : Reduced[c] = Steps(c)[8] /\ Steps(c)[8] \in Byte /\ Steps(c)[0] = c
  BY StepsLaws DEF Reduced
<1>2. Reduced[SymDiff(a, b)] = SymDiff(Reduced[a], Reduced[b])
  BY <1>1, XorIsByte, StepsLinear
<1>3. ASSUME Reduced[a] = Reduced[b] PROVE a = b
  <2>1. Steps(a)[0 + 8] = Steps(b)[0 + 8]
    BY <1>1, <1>3
  <2>2. Steps(a)[0] = Steps(b)[0]
    BY <2>1, StepsBack
  <2> QED
    BY <1>1, <2>2
<1> QED
  BY <1>1, <1>2, <1>3

LEMMA NothingVanishes ==
    ASSUME NEW a \in Byte, a # {}
    PROVE  Reduced[a] # {}
<1>1. {} \in Byte
  BY DEF Byte
<1>2. SymDiff({}, {}) = {}
  BY DEF SymDiff
<1>3. \A x : SymDiff(x, x) = {}
  BY DEF SymDiff
<1>4. Reduced[SymDiff({}, {})] = SymDiff(Reduced[{}], Reduced[{}])
  BY <1>1, ReducedLaws
<1>5. Reduced[{}] = {}
  BY <1>2, <1>3, <1>4
<1> QED
  BY <1>1, <1>5, ReducedLaws

\* What is left of bits at the end of a byte is not made up for by the bits
\* that follow them in the next one, within eight of the first.
LEMMA ByteApart ==
    ASSUME NEW d \in Byte, NEW e \in Byte, NEW k \in 0 .. 7,
           7 - k \in d, \A i \in d : i <= 7 - k, \A i \in e : i >= 8 - k
    PROVE  Reduced[d] # e
<1> SUFFICES ASSUME Reduced[d] = e PROVE FALSE
  OBVIOUS
<1>1. PICK x \in Byte : x = {i \in Bit : i + 8 - k \in e}
  BY DEF Byte
<1>2. Steps(x)[8 - k] = e
  <2>1. \A i \in x : i + (8 - k) <= 7
    BY <1>1 DEF Byte, Bit
  <2>2. \A i \in Bit : i \in Steps(x)[8 - k] <=> i - (8 - k) \in x
    BY <2>1, StepsMove
  <2>3. \A i \in Bit : i - (8 - k) \in x <=> i \in e
    BY <1>1 DEF Byte, Bit
  <2>4. Steps(x)[8 - k] \in Byte
    BY StepsLaws
  <2> QED
    BY <2>2, <2>3, <2>4 DEF Byte
<1>3. 7 \in Steps(d)[k]
  <2>1. \A i \in d : i + k <= 7
    BY DEF Byte, Bit
  <2>2. 7 \in Steps(d)[k] <=> 7 - k \in d
    BY <2>1, StepsMove DEF Bit
  <2> QED
    BY <2>2
<1>4. Steps(d)[k] = Steps(x)[0]
  <2>1. k + (8 - k) = 8 /\ 0 + (8 - k) = 8 - k /\ 8 - k \in Nat /\ k \in 0 .. 8
    OBVIOUS
  <2>2. Steps(d)[k + (8 - k)] = Steps(x)[0 + (8 - k)]
    BY <1>2, <2>1 DEF Reduced
  <2> QED
    BY <2>1, <2>2, StepsBack
<1>5. 7 + 8 - k \in e
  BY <1>1, <1>3, <1>4, StepsLaws
<1> QED
  BY <1>5 DEF Byte, Bit
-----------------------------------------------------------------------------
(* The CRC of a sequence of bytes.                                          *)

LEMMA CrcsLaws ==
    ASSUME NEW h \in Seq(Byte)
    PROVE  /\ Crcs(h) \in [0 .. Len(h) -> Byte] /\ Crcs(h)[0] = {}
           /\ \A i \in 1 .. Len(h) :
                Crcs(h)[i] = Reduced[SymDiff(Crcs(h)[i - 1], h[i])]
<1> DEFINE F(c) == c = [i \in 0 .. Len(h) |->
                          IF i = 0 THEN {} ELSE Reduced[SymDiff(c[i - 1], h[i])]]
<1>1. PICK N \in Nat : N = Len(h)
  BY LenProperties
<1>2. PICK G : G = [i \in 1 .. N |-> [x \in Byte |-> Reduced[SymDiff(x, h[i])]]]
  OBVIOUS
<1>3. G \in [1 .. N -> [Byte -> Byte]]
  <2>1. \A i \in 1 .. N : h[i] \in Byte
    BY <1>1, ElementOfSeq
  <2>2. \A i \in 1 .. N : \A x \in Byte : Reduced[SymDiff(x, h[i])] \in Byte
    BY <2>1, XorIsByte, ReducedLaws
  <2> QED
    BY <1>2, <2>2
<1>4. {} \in Byte
  BY DEF Byte
<1>5. PICK f : Iterates(f, {}, N, G, Byte)
  BY <1>3, <1>4, Iteration
<1>6. F(f)
  BY <1>1, <1>2, <1>5 DEF Iterates
<1>7. F(Crcs(h))
  <2>1. Crcs(h) = CHOOSE c : F(c)
    BY DEF Crcs
  <2> QED
    BY <1>6, <2>1
<1> DEFINE g == Crcs(h)
<1>8. g[0] = {} /\ \A i \in 1 .. N : g[i] = Reduced[SymDiff(g[i - 1], h[i])]
  <2>1. PICK c : c = g
    OBVIOUS
  <2>2. F(c)
    BY <1>7, <2>1
  <2>3. c[0] = {}
    BY <1>1, <2>2
  <2>4. ASSUME NEW i \in 1 .. N
        PROVE  c[i] = Reduced[SymDiff(c[i - 1], h[i])]
    <3>1. i \in 0 .. Len(h) /\ i # 0
      BY <1>1
    <3>2. PICK r : r = [j \in 0 .. Len(h) |->
                          IF j = 0 THEN {} ELSE Reduced[SymDiff(c[j - 1], h[j])]]
      OBVIOUS
    <3>3. r[i] = Reduced[SymDiff(c[i - 1], h[i])]
      BY <3>1, <3>2
    <3> QED
      BY <2>2, <3>2, <3>3
  <2> QED
    BY <2>1, <2>3, <2>4
<1>9. \A i \in 0 .. N : g[i] \in Byte
  <2>1. PICK T : T = {n \in Nat : n <= N => g[n] \in Byte}
    OBVIOUS
  <2>2. 0 \in T
    BY <1>4, <1>8, <2>1
  <2>3. ASSUME NEW n \in Nat, n \in T PROVE n + 1 \in T
    <3>1. n + 1 <= N => g[n + 1] = G[n + 1][g[n]] /\ G[n + 1][g[n]] \in Byte
      <4> SUFFICES ASSUME n + 1 <= N
                   PROVE  g[n + 1] = G[n + 1][g[n]] /\ G[n + 1][g[n]] \in Byte
        OBVIOUS
      <4>1. n + 1 \in 1 .. N /\ (n + 1) - 1 = n /\ g[n] \in Byte
        BY <2>1, <2>3
      <4> QED
        BY <1>2, <1>3, <1>8, <4>1
    <3> QED
      BY <2>1, <3>1
  <2> QED
    BY <2>1, <2>2, <2>3, Induction
<1> QED
  BY <1>1, <1>7, <1>8, <1>9

\* The CRCs of bytes that agree agree.
LEMMA CrcsAgree ==
    ASSUME NEW a \in Seq(Byte), NEW b \in Seq(Byte), NEW n \in Nat,
           n <= Len(a), n <= Len(b), \A m \in 1 .. n : a[m] = b[m]
    PROVE  Crcs(a)[n] = Crcs(b)[n]
<1>1. PICK T : T = {m \in Nat : m <= n => Crcs(a)[m] = Crcs(b)[m]}
  OBVIOUS
<1>2. 0 \in T
  BY <1>1, CrcsLaws
<1>3. ASSUME NEW m \in Nat, m \in T, m + 1 <= n
      PROVE  Crcs(a)[m + 1] = Crcs(b)[m + 1]
  <2>1. m + 1 \in 1 .. Len(a) /\ m + 1 \in 1 .. Len(b) /\ (m + 1) - 1 = m
        /\ m + 1 \in 1 .. n /\ Len(a) \in Nat /\ Len(b) \in Nat
    BY <1>3, LenProperties
  <2>2. Crcs(a)[m + 1] = Reduced[SymDiff(Crcs(a)[m], a[m + 1])]
        /\ Crcs(b)[m + 1] = Reduced[SymDiff(Crcs(b)[m], b[m + 1])]
    BY <2>1, CrcsLaws
  <2> QED
    BY <1>1, <1>3, <2>1, <2>2
<1>4. \A m \in Nat : m \in T => m + 1 \in T
  BY <1>1, <1>3
<1>5. n \in T
  BY <1>2, <1>4, Induction
<1> QED
  BY <1>1, <1>5

\* One byte: the difference of the CRCs and the one of the bytes add up.
LEMMA CrcsDifference ==
    ASSUME NEW a \in Seq(Byte), NEW b \in Seq(Byte), Len(a) = Len(b),
           NEW n \in 1 .. Len(a)
    PROVE  SymDiff(Crcs(a)[n], Crcs(b)[n]) =
             Reduced[SymDiff(SymDiff(Crcs(a)[n - 1], Crcs(b)[n - 1]), SymDiff(a[n], b[n]))]
<1> DEFINE A == Crcs(a)[n - 1]
           B == Crcs(b)[n - 1]
<1>1. Len(a) \in Nat /\ n - 1 \in 0 .. Len(a)
  BY LenProperties
<1>2. A \in Byte /\ B \in Byte /\ a[n] \in Byte /\ b[n] \in Byte
  BY <1>1, CrcsLaws, ElementOfSeq
<1>3. Crcs(a)[n] = Reduced[SymDiff(A, a[n])] /\ Crcs(b)[n] = Reduced[SymDiff(B, b[n])]
  BY CrcsLaws
<1> HIDE DEF A, B
<1>4. SymDiff(SymDiff(A, a[n]), SymDiff(B, b[n])) = SymDiff(SymDiff(A, B), SymDiff(a[n], b[n]))
  BY DEF SymDiff
<1>5. SymDiff(A, a[n]) \in Byte /\ SymDiff(B, b[n]) \in Byte
  BY <1>2, XorIsByte
<1>6. SymDiff(Crcs(a)[n], Crcs(b)[n]) = Reduced[SymDiff(SymDiff(A, B), SymDiff(a[n], b[n]))]
  BY <1>3, <1>4, <1>5, ReducedLaws
<1> QED
  BY <1>6 DEF A, B

\* CRCs that differ go on differing while the bytes are the same.
LEMMA CrcsApart ==
    ASSUME NEW a \in Seq(Byte), NEW b \in Seq(Byte), Len(a) = Len(b),
           NEW n \in 0 .. Len(a), Crcs(a)[n] # Crcs(b)[n],
           \A m \in n + 1 .. Len(a) : a[m] = b[m]
    PROVE  crc8_compute(a) # crc8_compute(b)
<1> DEFINE P(m) == Crcs(a)[m] # Crcs(b)[m]
<1>1. PICK T : T = {j \in Nat : n + j <= Len(a) => P(n + j)}
  OBVIOUS
<1>2. 0 \in T
  BY <1>1
<1>3. ASSUME NEW j \in Nat, j \in T, n + (j + 1) <= Len(a) PROVE P(n + (j + 1))
  <2>1. PICK m \in Nat : m = n + j
    OBVIOUS
  <2>2. /\ m + 1 = n + (j + 1) /\ m + 1 \in 1 .. Len(a) /\ (m + 1) - 1 = m
        /\ m \in 0 .. Len(a) /\ m + 1 \in n + 1 .. Len(a) /\ P(m)
    BY <1>1, <1>3, <2>1, LenProperties
  <2>3. Crcs(a)[m] \in Byte /\ Crcs(b)[m] \in Byte /\ a[m + 1] \in Byte
    BY <2>2, CrcsLaws, ElementOfSeq
  <2>4. /\ Crcs(a)[m + 1] = Reduced[SymDiff(Crcs(a)[m], a[m + 1])]
        /\ Crcs(b)[m + 1] = Reduced[SymDiff(Crcs(b)[m], a[m + 1])]
    BY <2>2, CrcsLaws
  <2>5. SymDiff(Crcs(a)[m], a[m + 1]) # SymDiff(Crcs(b)[m], a[m + 1])
    BY <2>2 DEF SymDiff
  <2>6. SymDiff(Crcs(a)[m], a[m + 1]) \in Byte /\ SymDiff(Crcs(b)[m], a[m + 1]) \in Byte
    BY <2>3, XorIsByte
  <2>7. P(m + 1)
    BY <2>4, <2>5, <2>6, ReducedLaws
  <2> QED
    BY <2>2, <2>7
<1>4. \A j \in Nat : j \in T => j + 1 \in T
  BY <1>1, <1>3
<1>5. Len(a) - n \in T /\ n + (Len(a) - n) = Len(a)
  BY <1>2, <1>4, Induction, LenProperties
<1>6. P(Len(a))
  BY <1>1, <1>5
<1> QED
  BY <1>6 DEF crc8_compute
-----------------------------------------------------------------------------
(* Bursts.                                                                  *)

\* The burst begins with bit 7 - k of byte n ...
Begins(first, burst, n, k) ==
    /\ n \in Nat /\ k \in 0 .. 7 /\ first = 8 * (n - 1) + k
    /\ burst \subseteq 0 .. 7 /\ 0 \in burst

\* ... and ends in the byte that follows.
LEMMA HitShape ==
    ASSUME NEW first, NEW burst, NEW n, NEW k, Begins(first, burst, n, k),
           NEW m \in Nat
    PROVE  /\ Hit(m, first, burst) \in Byte
           /\ m < n \/ m > n + 1 => Hit(m, first, burst) = {}
           /\ m = n => /\ 7 - k \in Hit(m, first, burst)
                       /\ \A i \in Hit(m, first, burst) : i <= 7 - k
           /\ m = n + 1 => \A i \in Hit(m, first, burst) : i >= 8 - k
<1> USE DEF Begins
<1>1. \A i \in Bit : i \in Hit(m, first, burst) <=> 8 * m - 1 - i - first \in burst
  BY DEF Hit
<1>2. Hit(m, first, burst) \in Byte
  BY DEF Hit, Byte
<1>3. ASSUME m < n \/ m > n + 1, NEW i \in Bit PROVE i \notin Hit(m, first, burst)
  <2>1. 8 * m - 1 - i - first \notin 0 .. 7
    BY <1>3 DEF Bit
  <2> QED
    BY <1>1, <2>1
<1>4. m = n => 7 - k \in Hit(m, first, burst)
  BY <1>1 DEF Bit
<1>5. ASSUME NEW i \in Hit(m, first, burst)
      PROVE  (m = n => i <= 7 - k) /\ (m = n + 1 => i >= 8 - k)
  <2>1. i \in Bit /\ 8 * m - 1 - i - first \in 0 .. 7
    BY <1>1, <1>2 DEF Byte
  <2> QED
    BY <2>1 DEF Bit
<1> QED
  BY <1>2, <1>3, <1>4, <1>5 DEF Byte

\* The place of a bit: its byte and its bit in it.
LEMMA PlaceOfBit ==
    ASSUME NEW l \in Nat, NEW first \in 0 .. 8 * l - 1
    PROVE  \E n \in 1 .. l, k \in 0 .. 7 : first = 8 * (n - 1) + k
<1>1. first = 8 * (first \div 8) + (first % 8) /\ (first % 8) \in 0 .. 7
  OBVIOUS
<1>2. first \div 8 + 1 \in 1 .. l /\ (first \div 8 + 1) - 1 = first \div 8
  OBVIOUS
<1> QED
  BY <1>1, <1>2

\* b and the CRC r are what a burst of up to eight bits makes of the bytes a and
\* their CRC: however many bytes they are, r is not the CRC of b.
THEOREM BurstDetected ==
    ASSUME NEW a \in Seq(Byte), NEW b \in Seq(Byte), Len(a) = Len(b), NEW r,
           NEW first \in 0 .. 8 * (Len(a) + 1) - 1,
           NEW burst \in SUBSET (0 .. 7), 0 \in burst,
           \A m \in 1 .. Len(a) : b[m] = SymDiff(a[m], Hit(m, first, burst)),
           r = SymDiff(crc8_compute(a), Hit(Len(a) + 1, first, burst))
    PROVE  r # crc8_compute(b)
<1> DEFINE L == Len(a)
           H(m) == Hit(m, first, burst)
<1>1. L \in Nat
  BY LenProperties
<1>2. PICK n \in 1 .. L + 1, k \in 0 .. 7 : first = 8 * (n - 1) + k
  <2>1. PICK l \in Nat : l = L + 1
    BY <1>1
  <2>2. \E n \in 1 .. l, k \in 0 .. 7 : first = 8 * (n - 1) + k
    BY <2>1, PlaceOfBit
  <2> QED
    BY <2>1, <2>2
<1>2a. n \in Nat /\ n + 1 \in Nat /\ Begins(first, burst, n, k)
  BY <1>1, <1>2 DEF Begins
<1>3. ASSUME NEW m \in Nat
      PROVE  H(m) \in Byte /\ (m < n \/ m > n + 1 => H(m) = {})
  BY <1>2a, HitShape
<1>4. /\ 7 - k \in H(n) /\ \A i \in H(n) : i <= 7 - k
      /\ \A i \in H(n + 1) : i >= 8 - k
  BY <1>2a, HitShape
<1> HIDE DEF H
<1>5. \A m \in 1 .. L : m < n \/ m > n + 1 => b[m] = a[m]
  <2>1. \A x : SymDiff(x, {}) = x
    BY DEF SymDiff
  <2>2. \A m \in 1 .. L : b[m] = SymDiff(a[m], H(m))
    BY DEF H
  <2>3. \A m \in 1 .. L : m \in Nat
    BY <1>1
  <2> QED
    BY <1>3, <2>1, <2>2, <2>3
<1>6. Crcs(a)[n - 1] = Crcs(b)[n - 1]
  <2>1. \A m \in 1 .. n - 1 : a[m] = b[m]
    BY <1>1, <1>5
  <2> QED
    BY <1>1, <2>1, CrcsAgree
<1>7. crc8_compute(a) = Crcs(a)[L] /\ crc8_compute(b) = Crcs(b)[L]
      /\ Crcs(a)[L] \in Byte /\ Crcs(b)[L] \in Byte
  BY <1>1, CrcsLaws DEF crc8_compute
<1>8. r = SymDiff(Crcs(a)[L], H(L + 1))
  BY <1>7 DEF H
<1>9. CASE n = L + 1
  <2>1. \A x : SymDiff(x, H(n)) # x
    BY <1>4 DEF SymDiff
  <2> QED
    BY <1>1, <1>6, <1>7, <1>8, <1>9, <2>1
<1>10. ASSUME n \in 1 .. L
       PROVE  SymDiff(Crcs(a)[n], Crcs(b)[n]) = Reduced[H(n)] /\ Reduced[H(n)] # H(n + 1)
  <2>1. SymDiff(a[n], b[n]) = H(n)
    <3>1. \A x, y : SymDiff(x, SymDiff(x, y)) = y
      BY DEF SymDiff
    <3>2. b[n] = SymDiff(a[n], H(n))
      BY <1>10 DEF H
    <3> QED
      BY <3>1, <3>2
  <2>2. SymDiff(SymDiff(Crcs(a)[n - 1], Crcs(b)[n - 1]), H(n)) = H(n)
    BY <1>6 DEF SymDiff
  <2>3. H(n) \in Byte /\ H(n + 1) \in Byte
    BY <1>3
  <2>4. Reduced[H(n)] # H(n + 1)
    BY <1>4, <2>3, ByteApart
  <2> QED
    BY <1>10, <2>1, <2>2, <2>4, CrcsDifference
<1>11. CASE n = L
  <2>1. SymDiff(Crcs(a)[L], Crcs(b)[L]) # H(L + 1)
    BY <1>10, <1>11
  <2>2. \A x, y, z : y = SymDiff(x, z) => SymDiff(x, y) = z
    BY DEF SymDiff
  <2> QED
    BY <1>7, <1>8, <2>1, <2>2
<1>12. CASE n + 1 \in 1 .. L
  <2>1. n \in 1 .. L /\ n + 1 \in 1 .. L /\ (n + 1) - 1 = n
    BY <1>1, <1>12
  <2>2. SymDiff(a[n + 1], b[n + 1]) = H(n + 1)
    <3>1. \A x, y : SymDiff(x, SymDiff(x, y)) = y
      BY DEF SymDiff
    <3>2. b[n + 1] = SymDiff(a[n + 1], H(n + 1))
      BY <2>1 DEF H
    <3> QED
      BY <3>1, <3>2
  <2> DEFINE D == SymDiff(Reduced[H(n)], H(n + 1))
  <2>3. SymDiff(Crcs(a)[n + 1], Crcs(b)[n + 1]) = Reduced[D]
    BY <1>10, <2>1, <2>2, CrcsDifference
  <2>4. D # {} /\ D \in Byte
    <3>1. H(n) \in Byte /\ H(n + 1) \in Byte
      BY <1>3
    <3>2. D \in Byte
      BY <3>1, ReducedLaws, XorIsByte
    <3>3. D # {}
      BY <1>10, <2>1 DEF SymDiff
    <3> QED
      BY <3>2, <3>3
  <2>5. Reduced[D] # {}
    BY <2>4, NothingVanishes
  <2>6. Crcs(a)[n + 1] # Crcs(b)[n + 1]
    BY <2>3, <2>5 DEF SymDiff
  <2>7. \A m \in (n + 1) + 1 .. L : a[m] = b[m]
    BY <1>1, <1>5, <2>1
  <2>8. crc8_compute(a) # crc8_compute(b)
    BY <2>1, <2>6, <2>7, CrcsApart
  <2>9. H(L + 1) = {}
    BY <1>1, <1>3, <2>1
  <2>10. r = crc8_compute(a)
    BY <1>7, <1>8, <2>9 DEF SymDiff
  <2> QED
    BY <2>8, <2>10
<1> QED
  BY <1>1, <1>9, <1>11, <1>12
-----------------------------------------------------------------------------
(* What the console makes of a length of zero.                              *)

LEMMA Lengths ==
    /\ Bits(0) = {} /\ Bits(4) = {2} /\ Bits(8) = {3} /\ Bits(12) = {2, 3}
    /\ Bits(22) = {1, 2, 4}
<1>1. /\ 2 ^ 0 = 1 /\ 2 ^ 1 = 2 /\ 2 ^ 2 = 4 /\ 2 ^ 3 = 8
      /\ 2 ^ 4 = 16 /\ 2 ^ 5 = 32 /\ 2 ^ 6 = 64 /\ 2 ^ 7 = 128
  OBVIOUS
<1>2. ASSUME NEW n \in 0 .. 31
      PROVE  /\ Bits(n) \subseteq {0, 1, 2, 3, 4}
             /\ 0 \in Bits(n) <=> n % 2 = 1
             /\ 1 \in Bits(n) <=> (n \div 2) % 2 = 1
             /\ 2 \in Bits(n) <=> (n \div 4) % 2 = 1
             /\ 3 \in Bits(n) <=> (n \div 8) % 2 = 1
             /\ 4 \in Bits(n) <=> (n \div 16) % 2 = 1
  <2>1. \A i \in Bit : i \in Bits(n) <=> (n \div 2 ^ i) % 2 = 1
    BY DEF Bits
  <2>2. \A i \in Bit : i \in {0, 1, 2, 3, 4, 5, 6, 7}
    BY DEF Bit
  <2>3. 5 \notin Bits(n) /\ 6 \notin Bits(n) /\ 7 \notin Bits(n)
    BY <1>1, <2>1 DEF Bit
  <2>4. Bits(n) \subseteq {0, 1, 2, 3, 4}
    BY <2>2, <2>3 DEF Bits
  <2>5. n \div 1 = n
    OBVIOUS
  <2> QED
    BY <1>1, <2>1, <2>4, <2>5 DEF Bit
<1>3. Bits(0) = {}
  BY <1>2
<1>4. Bits(4) = {2}
  BY <1>2
<1>5. Bits(8) = {3}
  BY <1>2
<1>6. Bits(12) = {2, 3}
  BY <1>2
<1>7. Bits(22) = {1, 2, 4}
  BY <1>2
<1> QED
  BY <1>3, <1>4, <1>5, <1>6, <1>7

\* A burst makes the length byte of the header a zero, for which the console
\* puts 22: the header it checks does not have the CRC either.
LEMMA ZeroedLengthDetected ==
    ASSUME NEW a \in Seq(Byte), NEW b \in Seq(Byte), Len(a) = 9, Len(b) = 9,
           a[9] \in {Bits(4), Bits(8), Bits(12)}, b[9] = Bits(22),
           NEW first \in 0 .. 79, NEW burst \in SUBSET (0 .. 7), 0 \in burst,
           Hit(9, first, burst) = a[9],
           \A m \in 1 .. 8 : b[m] = SymDiff(a[m], Hit(m, first, burst))
    PROVE  SymDiff(crc8_compute(a), Hit(10, first, burst)) # crc8_compute(b)
<1>0. PICK len \in {4, 8, 12} : a[9] = Bits(len)
  OBVIOUS
<1>0a. PICK r : r = SymDiff(crc8_compute(a), Hit(10, first, burst))
  OBVIOUS
<1> DEFINE H(m) == Hit(m, first, burst)
           E == SymDiff(Bits(len), Bits(22))
<1>1. PICK n \in 1 .. 10, k \in 0 .. 7 : first = 8 * (n - 1) + k
  <2>1. PICK l \in Nat : l = 10
    OBVIOUS
  <2>2. \E n \in 1 .. l, k \in 0 .. 7 : first = 8 * (n - 1) + k
    BY <2>1, PlaceOfBit
  <2> QED
    BY <2>1, <2>2
<1>2. Begins(first, burst, n, k) /\ n \in Nat
  BY <1>1 DEF Begins
<1>3. ASSUME NEW m \in Nat
      PROVE  H(m) \in Byte /\ (m < n \/ m > n + 1 => H(m) = {})
  BY <1>2, HitShape
<1>4. /\ 7 - k \in H(n) /\ \A i \in H(n) : i <= 7 - k
      /\ \A i \in H(n + 1) : i >= 8 - k
  BY <1>2, HitShape
<1>5. H(9) = Bits(len) /\ r = SymDiff(crc8_compute(a), H(10))
      /\ \A m \in 1 .. 8 : b[m] = SymDiff(a[m], H(m))
  BY <1>0, <1>0a
<1> HIDE DEF H, E
<1>6. /\ E \in Byte /\ 0 \notin E /\ 1 \in E /\ 4 \in E /\ 6 \notin E /\ 7 \notin E
      /\ 2 \in E <=> 2 \notin Bits(len)
      /\ \A i \in Bits(len) : i \in {2, 3}
      /\ \E i \in Bits(len) : TRUE
  <2>1. E \in Byte
    BY BitsIsByte, XorIsByte DEF E
  <2>2. \A i : i \in E <=> ~ (i \in Bits(len) <=> i \in {1, 2, 4})
    BY Lengths DEF E, SymDiff
  <2>3. Bits(len) \in {{2}, {3}, {2, 3}}
    BY Lengths
  <2>4. CASE Bits(len) = {2}
    BY <2>1, <2>2, <2>4
  <2>5. CASE Bits(len) = {3}
    BY <2>1, <2>2, <2>5
  <2>6. CASE Bits(len) = {2, 3}
    BY <2>1, <2>2, <2>6
  <2> QED
    BY <2>3, <2>4, <2>5, <2>6
<1>7. SymDiff(a[9], b[9]) = E
  BY <1>0 DEF E
<1>8. n = 8 \/ n = 9
  BY <1>1, <1>3, <1>5, <1>6
<1>9. ASSUME NEW m \in 1 .. 9, m < n PROVE Crcs(a)[m] = Crcs(b)[m]
  <2>1. \A x : SymDiff(x, {}) = x
    BY DEF SymDiff
  <2>2. \A i \in 1 .. m : i \in 1 .. 8 /\ i \in Nat /\ i < n
    BY <1>8, <1>9
  <2>3. \A i \in 1 .. m : a[i] = b[i]
    BY <1>3, <1>5, <2>1, <2>2
  <2>4. m \in Nat /\ m <= Len(a) /\ m <= Len(b)
    OBVIOUS
  <2> QED
    BY <2>3, <2>4, CrcsAgree
<1>10. crc8_compute(a) = Crcs(a)[9] /\ crc8_compute(b) = Crcs(b)[9]
  BY DEF crc8_compute
<1>10a. \A m \in 1 .. 9 : SymDiff(Crcs(a)[m], Crcs(b)[m]) =
         Reduced[SymDiff(SymDiff(Crcs(a)[m - 1], Crcs(b)[m - 1]), SymDiff(a[m], b[m]))]
  BY CrcsDifference
<1>11. SymDiff(Crcs(a)[9], Crcs(b)[9]) =
         Reduced[SymDiff(SymDiff(Crcs(a)[8], Crcs(b)[8]), E)]
  <2>1. 9 \in 1 .. 9 /\ 9 - 1 = 8
    OBVIOUS
  <2> QED
    BY <1>7, <1>10a, <2>1
<1>12. \A x, y : SymDiff({}, y) = y /\ SymDiff(x, x) = {} /\ SymDiff(x, {}) = x
                 /\ (SymDiff(x, y) = {} => x = y) /\ SymDiff(x, SymDiff(x, y)) = y
  BY DEF SymDiff
<1>13. ASSUME n = 9 PROVE r # crc8_compute(b)
  <2>1. SymDiff(Crcs(a)[9], Crcs(b)[9]) = Reduced[E]
    <3>1. Crcs(a)[8] = Crcs(b)[8]
      BY <1>9, <1>13
    <3>2. SymDiff(Crcs(a)[8], Crcs(b)[8]) = {}
      BY <1>12, <3>1
    <3>3. SymDiff({}, E) = E
      BY <1>12
    <3> QED
      BY <1>11, <3>2, <3>3
  <2>2. 1 \in Reduced[E]
    <3>1. \A i \in E : i \in Bit
      BY <1>6 DEF Byte
    <3> QED
      BY <1>6, <3>1, ReducedLow DEF Bit
  <2>3. 1 \notin H(10)
    BY <1>4, <1>5, <1>6, <1>13
  <2> QED
    BY <1>5, <1>10, <2>1, <2>2, <2>3 DEF SymDiff
<1>14. ASSUME n = 8 PROVE r # crc8_compute(b)
  <2>1. SymDiff(Crcs(a)[8], Crcs(b)[8]) = Reduced[H(8)]
    <3>1. Crcs(a)[7] = Crcs(b)[7]
      BY <1>9, <1>14
    <3>2. SymDiff(a[8], b[8]) = H(8)
      BY <1>5, <1>12
    <3>3. SymDiff(Crcs(a)[8], Crcs(b)[8]) =
            Reduced[SymDiff(SymDiff(Crcs(a)[7], Crcs(b)[7]), SymDiff(a[8], b[8]))]
      <4>1. 8 \in 1 .. 9 /\ 8 - 1 = 7
        OBVIOUS
      <4> QED
        BY <1>10a, <4>1
    <3> QED
      BY <1>12, <3>1, <3>2, <3>3
  <2>2. H(8) \in Byte /\ \A i \in H(8) : i \in 0 .. 2
    BY <1>3, <1>4, <1>5, <1>6, <1>14 DEF Byte, Bit
  <2>3. 2 \in H(8) => 2 \in E
    BY <1>4, <1>5, <1>6, <1>14
  <2>4. ASSUME Reduced[H(8)] = E PROVE FALSE
    <3>1. \A i \in Bit : i \in E <=>
             ~ (i \in H(8) <=> ~ (i - 1 \in H(8) <=> i - 2 \in H(8)))
      BY <2>2, <2>4, ReducedLow
    <3>2. 0 \notin H(8)
      BY <1>6, <2>2, <3>1 DEF Bit
    <3>3. 1 \in H(8)
      BY <1>6, <2>2, <3>1, <3>2 DEF Bit
    <3>4. 2 \in H(8)
      BY <1>6, <2>2, <3>1 DEF Bit
    <3> QED
      BY <2>3, <3>1, <3>2, <3>3, <3>4 DEF Bit
  <2>5. Reduced[H(8)] \in Byte /\ SymDiff(Reduced[H(8)], E) \in Byte
    BY <1>6, <2>2, ReducedLaws, XorIsByte
  <2>6. SymDiff(Reduced[H(8)], E) # {}
    BY <1>12, <2>4
  <2>7. Reduced[SymDiff(Reduced[H(8)], E)] # {}
    BY <2>5, <2>6, NothingVanishes
  <2>8. Crcs(a)[9] # Crcs(b)[9]
    BY <1>11, <1>12, <2>1, <2>7
  <2>9. H(10) = {}
    BY <1>3, <1>14
  <2>10. r = crc8_compute(a)
    BY <1>5, <1>12, <2>9
  <2> QED
    BY <1>10, <2>8, <2>10
<1> QED
  BY <1>0a, <1>8, <1>13, <1>14
-----------------------------------------------------------------------------
(* The frames of the boards.                                                *)

Built(p, s) == Seal(HeaderOf(p.type, p.src, s, p.len))
Carried(p) == [k \in 1 .. p.len |-> 1]

LEMMA Numbers ==
    ASSUME NEW s \in SeqFirst .. SeqMax
    PROVE  /\ s % 256 \in 0 .. 255 /\ s \div 256 \in 0 .. 255
           /\ (s % 256) + 256 * (s \div 256) = s /\ s # SeqReserved
           /\ NextSeq(s) \in SeqFirst .. SeqMax
<1>1. SeqFirst = 1 /\ SeqMax = 65535 /\ SeqReserved = 0
  BY DEF SeqFirst, SeqMax, SeqReserved
<1>2. s \in Nat /\ 1 <= s /\ s <= 65535
  BY <1>1
<1>3. PICK q, l : q = s \div 256 /\ l = s % 256
  OBVIOUS
<1>4. q \in Int /\ l \in Int /\ 0 <= l /\ l <= 255 /\ s = 256 * q + l
  BY <1>2, <1>3
<1>5. q \in 0 .. 255 /\ l \in 0 .. 255 /\ l + 256 * q = s
  BY <1>2, <1>4
<1>6. s % 256 \in 0 .. 255 /\ s \div 256 \in 0 .. 255
      /\ (s % 256) + 256 * (s \div 256) = s
  BY <1>3, <1>5, Zenon
<1>7. NextSeq(s) = IF s = SeqMax THEN SeqFirst ELSE s + 1
  BY <1>1, <1>2 DEF NextSeq
<1>8. NextSeq(s) \in SeqFirst .. SeqMax
  <2>1. SeqFirst \in SeqFirst .. SeqMax
    BY <1>1
  <2>2. s # SeqMax => s + 1 \in SeqFirst .. SeqMax
    <3>1. PICK f \in Int, m \in Int : f = SeqFirst /\ m = SeqMax
      BY <1>1
    <3>2. s \in f .. m
      BY <3>1, Zenon
    <3>3. s # m => s + 1 \in f .. m
      BY <3>2
    <3> QED
      BY <3>1, <3>3, Zenon
  <2> QED
    BY <1>7, <2>1, <2>2, Zenon
<1>9. s # SeqReserved
  BY <1>1, <1>2
<1> QED
  BY <1>6, <1>8, <1>9, Zenon

LEMMA PacketFields ==
    ASSUME NEW p \in Packets
    PROVE  /\ p.type \in 0 .. 255 /\ p.src \in 0 .. 255
           /\ p.len \in {0, 4, 8, 12}
  BY DEF Packets

LEMMA BuiltLaws ==
    ASSUME NEW p \in Packets, NEW s \in SeqFirst .. SeqMax
    PROVE  LET a == HeaderOf(p.type, p.src, s, p.len)
               h == Built(p, s)
           IN  /\ a \in Seq(Byte) /\ Len(a) = 9
               /\ h \in Seq(Byte) /\ Len(h) = 10
               /\ h[10] = crc8_compute(a) /\ \A m \in 1 .. 9 : h[m] = a[m]
<1> DEFINE a == HeaderOf(p.type, p.src, s, p.len)
<1>1. a \in Seq(Byte) /\ Len(a) = 9
  <2>1. \A n : Bits(n) \in Byte
    BY BitsIsByte
  <2> QED
    BY <2>1 DEF HeaderOf
<1> HIDE DEF a
<1>2. crc8_compute(a) \in Byte
  BY <1>1, CrcsLaws, LenProperties DEF crc8_compute
<1>3. Built(p, s) = Append(a, crc8_compute(a))
  BY DEF Built, Seal, a
<1>4. /\ Built(p, s) \in Seq(Byte) /\ Len(Built(p, s)) = 10
      /\ Built(p, s)[10] = crc8_compute(a) /\ \A m \in 1 .. 9 : Built(p, s)[m] = a[m]
  <2>1. PICK e \in Byte : e = crc8_compute(a)
    BY <1>2
  <2>2. /\ Append(a, e) \in Seq(Byte) /\ Len(Append(a, e)) = Len(a) + 1
        /\ \A m \in 1 .. Len(a) : Append(a, e)[m] = a[m]
        /\ Append(a, e)[Len(a) + 1] = e
    <3>1. PICK x \in Seq(Byte) : x = a
      BY <1>1
    <3>2. /\ Append(x, e) \in Seq(Byte) /\ Len(Append(x, e)) = Len(x) + 1
          /\ \A m \in 1 .. Len(x) : Append(x, e)[m] = x[m]
          /\ Append(x, e)[Len(x) + 1] = e
      BY AppendProperties
    <3> QED
      BY <3>1, <3>2
  <2> QED
    BY <1>1, <1>3, <2>1, <2>2
<1> QED
  BY <1>1, <1>4 DEF a

\* The bytes of a header up to one of them.
LEMMA Prefix ==
    ASSUME NEW h \in Seq(Byte), Len(h) = 10, NEW n \in 1 .. 9
    PROVE  /\ SubSeq(h, 1, n) \in Seq(Byte) /\ Len(SubSeq(h, 1, n)) = n
           /\ \A m \in 1 .. n : SubSeq(h, 1, n)[m] = h[m]
<1>1. \A i \in 1 .. n : h[i] \in Byte
  <2>1. h \in [1 .. 10 -> Byte]
    BY LenProperties
  <2> QED
    BY <2>1
<1>2. 1 \in Int /\ n \in Int
  OBVIOUS
<1>3. /\ SubSeq(h, 1, n) \in Seq(Byte)
      /\ Len(SubSeq(h, 1, n)) = IF 1 <= n THEN n - 1 + 1 ELSE 0
      /\ \A i \in 1 .. n - 1 + 1 : SubSeq(h, 1, n)[i] = h[1 + i - 1]
  BY <1>1, <1>2, SubSeqProperties
<1> QED
  BY <1>3

\* The header the console packs again: its first eight bytes and a length.
LEMMA Packed ==
    ASSUME NEW h \in Seq(Byte), Len(h) = 10, NEW e \in Byte
    PROVE  LET b == Append(SubSeq(h, 1, 8), e)
           IN  /\ b \in Seq(Byte) /\ Len(b) = 9 /\ b[9] = e
               /\ \A m \in 1 .. 8 : b[m] = h[m]
               /\ e = h[9] => b = SubSeq(h, 1, 9)
<1> DEFINE b == Append(SubSeq(h, 1, 8), e)
           c == SubSeq(h, 1, 9)
<1>1. /\ SubSeq(h, 1, 8) \in Seq(Byte) /\ Len(SubSeq(h, 1, 8)) = 8
      /\ \A m \in 1 .. 8 : SubSeq(h, 1, 8)[m] = h[m]
  BY Prefix
<1>2. /\ b \in Seq(Byte) /\ Len(b) = 9 /\ b[9] = e
      /\ \A m \in 1 .. 8 : b[m] = h[m]
  BY <1>1, AppendProperties
<1>3. c \in Seq(Byte) /\ Len(c) = 9 /\ \A m \in 1 .. 9 : c[m] = h[m]
  BY Prefix
<1> HIDE DEF b, c
<1>4. ASSUME e = h[9] PROVE b = c
  <2>1. \A m \in 1 .. Len(b) : b[m] = c[m]
    BY <1>2, <1>3, <1>4
  <2> QED
    BY <1>2, <1>3, <2>1, SeqEqual
<1> QED
  BY <1>2, <1>4 DEF b, c

LEMMA PayloadLaws ==
    ASSUME NEW p \in Packets
    PROVE  /\ Carried(p) \in Seq(Nat) /\ Len(Carried(p)) = p.len
           /\ Carried(p) # <<>> <=> p.len # 0
           /\ Padded(Carried(p)) \in Seq(Nat) /\ Len(Padded(Carried(p))) = 22
           /\ SubSeq(Padded(Carried(p)), 1, p.len) = Carried(p)
<1>1. p.len \in Nat /\ p.len <= 12
  BY PacketFields
<1>2. PICK c : c = Carried(p)
  OBVIOUS
<1>3. c \in Seq(Nat) /\ Len(c) = p.len /\ (c # <<>> <=> p.len # 0)
  BY <1>1, <1>2 DEF Carried
<1>4. PICK z : z = [k \in 1 .. 22 - p.len |-> 0]
  OBVIOUS
<1>5. z \in Seq(Nat) /\ Len(z) = 22 - p.len
  BY <1>1, <1>4
<1>6. Padded(c) = c \o z
  BY <1>3, <1>4 DEF Padded, PayloadSize
<1>7. c \o z \in Seq(Nat) /\ Len(c \o z) = 22
  BY <1>1, <1>3, <1>5, ConcatProperties
<1>8. SubSeq(c \o z, 1, p.len) = c
  <2>1. CASE p.len = 0
    <3>1. c = <<>>
      BY <1>3, <2>1
    <3> QED
      BY <2>1, <3>1, SubSeqEmpty
  <2>2. CASE p.len # 0
    <3>1. SubSeq(c \o z, 1, p.len) = SubSeq(c, 1, p.len)
      BY <1>1, <1>3, <1>5, <2>2, SubSeqOfConcat1
    <3> QED
      BY <1>3, <3>1, SubSeqFull
  <2> QED
    BY <2>1, <2>2
<1> QED
  BY <1>2, <1>3, <1>6, <1>7, <1>8
-----------------------------------------------------------------------------
(* The inductive invariant: the frame under way is one that a board built,  *)
(* or such a frame hit by one burst.                                        *)

UnderWay(p) ==
    /\ sent.seq \in SeqFirst .. SeqMax
    /\ sent = [type |-> p.type, src |-> p.src, seq |-> sent.seq,
               payload |-> Carried(p)]
    /\ payload = Padded(Carried(p))

Spoilt(h, first, burst) ==
    [m \in 1 .. HeaderSize |-> SymDiff(h[m], Hit(m, first, burst))]

Intact == sent # None /\ ~ noisy =>
    \E p \in Packets : UnderWay(p) /\ header = Built(p, sent.seq)

HitOnce == noisy =>
    \E p \in Packets, first \in 0 .. 8 * HeaderSize - 1, burst \in Bursts :
        UnderWay(p) /\ header = Spoilt(Built(p, sent.seq), first, burst)

IInv ==
    /\ seq \in SeqFirst .. SeqMax
    /\ noisy \in BOOLEAN /\ (noisy => sent # None)
    /\ Intact /\ HitOnce

LEMMA InitIInv == Init => IInv
  BY FrameAssumption DEF Init, IInv, Intact, HitOnce

LEMMA SendKeepsIInv ==
    ASSUME IInv, NEW p \in Packets, Send(p)
    PROVE  IInv'
<1>1. seq' \in SeqFirst .. SeqMax
  BY Numbers DEF IInv, Send
<1>2. noisy' = FALSE /\ seq \in SeqFirst .. SeqMax
  BY DEF IInv, Send
<1>3. UnderWay(p)' /\ header' = Built(p, sent'.seq)
  <2>1. /\ sent' = [type |-> p.type, src |-> p.src, seq |-> seq,
                    payload |-> Carried(p)]
        /\ payload' = Padded(Carried(p)) /\ header' = Built(p, seq)
    BY DEF Send, Built, Carried
  <2>2. sent'.seq = seq
    BY <2>1
  <2> QED
    BY <1>2, <2>1, <2>2 DEF UnderWay
<1>4. Intact'
  BY <1>3 DEF Intact
<1> QED
  BY <1>1, <1>2, <1>4 DEF IInv, HitOnce

LEMMA NoiseKeepsIInv ==
    ASSUME IInv, NEW first \in 0 .. 8 * HeaderSize - 1, NEW burst \in Bursts,
           Noise(first, burst)
    PROVE  IInv'
<1>1. sent # None /\ ~ noisy /\ noisy' = TRUE /\ sent' = sent
      /\ payload' = payload /\ seq' = seq
  BY DEF Noise
<1>2. PICK p \in Packets : UnderWay(p) /\ header = Built(p, sent.seq)
  BY <1>1 DEF IInv, Intact
<1>3. UnderWay(p)'
  BY <1>1, <1>2 DEF UnderWay
<1>4. header' = Spoilt(Built(p, sent'.seq), first, burst)
  BY <1>1, <1>2 DEF Noise, Spoilt
<1>5. HitOnce'
  BY <1>3, <1>4 DEF HitOnce
<1> QED
  BY <1>1, <1>5 DEF IInv, Intact

\* The frame under way is always one a board built, hit by at most one burst.
THEOREM FrameInvariance == Spec => []IInv
<1>1. IInv /\ [Next]_vars => IInv'
  <2> SUFFICES ASSUME IInv, [Next]_vars PROVE IInv'
    OBVIOUS
  <2>1. ASSUME NEW p \in Packets, Send(p) PROVE IInv'
    BY <2>1, SendKeepsIInv
  <2>2. ASSUME NEW first \in 0 .. 8 * HeaderSize - 1, NEW b \in Bursts,
               Noise(first, b)
        PROVE  IInv'
    BY <2>2, NoiseKeepsIInv
  <2>3. CASE UNCHANGED vars
    BY <2>3 DEF vars, IInv, Intact, HitOnce, UnderWay
  <2> QED
    BY <2>1, <2>2, <2>3 DEF Next
<1> QED
  BY InitIInv, <1>1, PTL DEF Spec
-----------------------------------------------------------------------------
(* What the readers make of it.                                             *)

LEMMA HeaderNumber ==
    ASSUME NEW h, NEW s \in SeqFirst .. SeqMax,
           h[7] = Bits(s % 256), h[8] = Bits(s \div 256)
    PROVE  HeaderSeq(h) = s
<1>1. Value[h[7]] = s % 256 /\ Value[h[8]] = s \div 256
  <2>1. PICK l \in 0 .. 255, u \in 0 .. 255 : l = s % 256 /\ u = s \div 256
    BY Numbers
  <2>2. Value[Bits(l)] = l /\ Value[Bits(u)] = u
    BY ValueOfBits
  <2> QED
    BY <2>1, <2>2
<1> QED
  BY <1>1, Numbers DEF HeaderSeq

\* The bytes of a frame as built, one by one.
LEMMA BuiltBytes ==
    ASSUME NEW p \in Packets, NEW s \in SeqFirst .. SeqMax, NEW h,
           h = Built(p, s)
    PROVE  /\ h[1] = Bits(50) /\ h[2] = Bits(86) /\ h[3] = Bits(2)
           /\ h[4] = Bits(p.type) /\ h[5] = Bits(p.src)
           /\ h[9] = Bits(p.len) /\ HeaderSeq(h) = s
           /\ h \in Seq(Byte) /\ Len(h) = 10
           /\ h[10] = crc8_compute(SubSeq(h, 1, 9))
<1> DEFINE a == HeaderOf(p.type, p.src, s, p.len)
<1>1. /\ a \in Seq(Byte) /\ Len(a) = 9 /\ h \in Seq(Byte) /\ Len(h) = 10
      /\ h[10] = crc8_compute(a) /\ \A m \in 1 .. 9 : h[m] = a[m]
  BY BuiltLaws
<1>2. /\ a[1] = Bits(50) /\ a[2] = Bits(86) /\ a[3] = Bits(2)
      /\ a[4] = Bits(p.type) /\ a[5] = Bits(p.src)
      /\ a[7] = Bits(s % 256) /\ a[8] = Bits(s \div 256) /\ a[9] = Bits(p.len)
  BY DEF HeaderOf
<1> HIDE DEF a
<1>3. SubSeq(h, 1, 9) = a
  <2>1. PICK b : b = SubSeq(h, 1, 9)
    OBVIOUS
  <2>2. b \in Seq(Byte) /\ Len(b) = 9 /\ \A m \in 1 .. 9 : b[m] = h[m]
    BY <1>1, <2>1, Prefix
  <2>3. b = a
    <3>1. \A m \in 1 .. Len(a) : a[m] = b[m]
      BY <1>1, <2>2
    <3> QED
      BY <1>1, <2>2, <3>1, SeqEqual
  <2> QED
    BY <2>1, <2>3
<1>4. HeaderSeq(h) = s
  <2>1. h[7] = Bits(s % 256) /\ h[8] = Bits(s \div 256)
    BY <1>1, <1>2
  <2> QED
    BY <2>1, HeaderNumber
<1>5. /\ h[1] = a[1] /\ h[2] = a[2] /\ h[3] = a[3] /\ h[4] = a[4] /\ h[5] = a[5]
      /\ h[9] = a[9]
  BY <1>1
<1> QED
  BY <1>1, <1>2, <1>3, <1>4, <1>5

LEMMA IInvBoards == IInv => BoardsAccept
<1> SUFFICES ASSUME IInv, sent # None, ~ noisy
             PROVE  HeaderIsValid(header) /\ HeaderSeq(header) = sent.seq
  BY DEF BoardsAccept
<1>1. PICK p \in Packets : UnderWay(p) /\ header = Built(p, sent.seq)
  BY DEF IInv, Intact
<1>2. sent.seq \in SeqFirst .. SeqMax
  BY <1>1 DEF UnderWay
<1>3. /\ header[1] = Bits(50) /\ header[2] = Bits(86) /\ header[3] = Bits(2)
      /\ header[9] = Bits(p.len) /\ HeaderSeq(header) = sent.seq
      /\ header[10] = crc8_compute(SubSeq(header, 1, 9))
  BY <1>1, <1>2, BuiltBytes
<1>4. Value[header[9]] = p.len /\ p.len <= 22
  BY <1>3, PacketFields, ValueOfBits
<1>5. sent.seq # SeqReserved
  BY <1>2, Numbers
<1> QED
  BY <1>3, <1>4, <1>5 DEF HeaderIsValid, HeaderSize, PayloadSize

LEMMA IInvConsole == IInv => ConsoleReads
<1> SUFFICES ASSUME IInv, sent # None, ~ noisy, sent.payload # <<>>
             PROVE  LET f == Decoded(header, payload)
                    IN  /\ ~ Refused(header)
                        /\ f.type = sent.type /\ f.src = sent.src /\ f.seq = sent.seq
                        /\ SubSeq(f.payload, 1, f.len) = sent.payload
                        /\ CrcIsValid(f)
  BY DEF ConsoleReads
<1>1. PICK p \in Packets : UnderWay(p) /\ header = Built(p, sent.seq)
  BY DEF IInv, Intact
<1>2. /\ sent.seq \in SeqFirst .. SeqMax /\ payload = Padded(Carried(p))
      /\ sent.type = p.type /\ sent.src = p.src /\ sent.payload = Carried(p)
  BY <1>1 DEF UnderWay
<1>3. /\ header[4] = Bits(p.type) /\ header[5] = Bits(p.src)
      /\ header[9] = Bits(p.len) /\ HeaderSeq(header) = sent.seq
      /\ header \in Seq(Byte) /\ Len(header) = 10
      /\ header[10] = crc8_compute(SubSeq(header, 1, 9))
  BY <1>1, <1>2, BuiltBytes
<1>4. p.len # 0 /\ SubSeq(payload, 1, p.len) = Carried(p)
  BY <1>2, PayloadLaws
<1>5. /\ Value[header[4]] = p.type /\ Value[header[5]] = p.src
      /\ Value[header[9]] = p.len /\ p.len \in 0 .. 22
  <2>1. p.type \in 0 .. 255 /\ p.src \in 0 .. 255 /\ p.len \in 0 .. 255
        /\ p.len \in 0 .. 22
    BY PacketFields
  <2>2. /\ Value[Bits(p.type)] = p.type /\ Value[Bits(p.src)] = p.src
        /\ Value[Bits(p.len)] = p.len
    BY <2>1, ValueOfBits
  <2> QED
    BY <1>3, <2>1, <2>2
<1> DEFINE f == Decoded(header, payload)
<1>6. /\ f.type = p.type /\ f.src = p.src /\ f.seq = sent.seq /\ f.len = p.len
      /\ f.payload = payload /\ f.head = SubSeq(header, 1, 8) /\ f.crc = header[10]
  BY <1>3, <1>4, <1>5 DEF Decoded, PayloadLen
<1> HIDE DEF f
<1>7. CrcIsValid(f)
  <2>1. Append(SubSeq(header, 1, 8), header[9]) = SubSeq(header, 1, 9)
    BY <1>3, BitsIsByte, Packed
  <2> QED
    BY <1>3, <1>6, <2>1 DEF CrcIsValid
<1>8. ~ Refused(header)
  BY <1>5 DEF Refused, PayloadSize
<1>9. /\ ~ Refused(header)
      /\ f.type = sent.type /\ f.src = sent.src /\ f.seq = sent.seq
      /\ SubSeq(f.payload, 1, f.len) = sent.payload
      /\ CrcIsValid(f)
  BY <1>2, <1>4, <1>6, <1>7, <1>8
<1> QED
  BY <1>9 DEF f
-----------------------------------------------------------------------------
LEMMA SpoiltLaws ==
    ASSUME NEW h \in Seq(Byte), Len(h) = 10, NEW first, NEW burst, NEW g,
           g = Spoilt(h, first, burst)
    PROVE  /\ g \in Seq(Byte) /\ Len(g) = 10
           /\ \A m \in 1 .. 10 : g[m] = SymDiff(h[m], Hit(m, first, burst))
<1>1. g = [m \in 1 .. 10 |-> SymDiff(h[m], Hit(m, first, burst))]
  BY DEF Spoilt, HeaderSize
<1>2. \A m \in 1 .. 10 : SymDiff(h[m], Hit(m, first, burst)) \in Byte
  <2>1. h \in [1 .. 10 -> Byte]
    BY LenProperties
  <2>2. \A m \in 1 .. 10 : Hit(m, first, burst) \in Byte
    BY DEF Hit, Byte
  <2> QED
    BY <2>1, <2>2, XorIsByte
<1>3. g \in [1 .. 10 -> Byte]
  BY <1>1, <1>2
<1>4. g \in Seq(Byte) /\ Len(g) = 10
  <2>1. g \in Seq(Byte)
    BY <1>3, SeqDef
  <2>2. Len(g) \in Nat /\ 1 .. Len(g) = 1 .. 10
    BY <1>3, <2>1, LenProperties
  <2>3. 10 \in 1 .. Len(g) /\ 11 \notin 1 .. Len(g)
    BY <2>2
  <2> QED
    BY <2>1, <2>2, <2>3
<1> QED
  BY <1>1, <1>4

LEMMA IInvNoise == IInv => NoiseDetected
<1> SUFFICES ASSUME IInv, noisy
             PROVE  /\ ~ HeaderIsValid(header)
                    /\ sent.payload # <<>> =>
                         Refused(header) \/ ~ CrcIsValid(Decoded(header, payload))
  BY DEF NoiseDetected
<1>1. PICK p \in Packets, first \in 0 .. 79, burst \in Bursts :
        UnderWay(p) /\ header = Spoilt(Built(p, sent.seq), first, burst)
  BY DEF IInv, HitOnce, HeaderSize
<1>2. /\ sent.seq \in SeqFirst .. SeqMax /\ payload = Padded(Carried(p))
      /\ sent.payload = Carried(p)
  BY <1>1 DEF UnderWay
<1>3. burst \in SUBSET (0 .. 7) /\ 0 \in burst
  BY FrameAssumption
<1> DEFINE H(m) == Hit(m, first, burst)
<1>4. PICK a \in Seq(Byte), h \in Seq(Byte) :
        /\ h = Built(p, sent.seq) /\ Len(a) = 9 /\ Len(h) = 10
        /\ h[10] = crc8_compute(a) /\ a[9] = Bits(p.len)
        /\ \A m \in 1 .. 9 : h[m] = a[m]
  <2>1. HeaderOf(p.type, p.src, sent.seq, p.len)[9] = Bits(p.len)
    BY DEF HeaderOf
  <2> QED
    BY <1>2, <2>1, BuiltLaws
<1>5. /\ header \in Seq(Byte) /\ Len(header) = 10
      /\ \A m \in 1 .. 10 : header[m] = SymDiff(h[m], H(m))
  BY <1>1, <1>4, SpoiltLaws
<1>6. header[10] = SymDiff(crc8_compute(a), H(10))
      /\ \A m \in 1 .. 9 : header[m] = SymDiff(a[m], H(m))
  BY <1>4, <1>5
<1>7. PICK b \in Seq(Byte) :
        b = SubSeq(header, 1, 9) /\ Len(b) = 9 /\ \A m \in 1 .. 9 : b[m] = header[m]
  <2>1. PICK b : b = SubSeq(header, 1, 9)
    OBVIOUS
  <2>2. b \in Seq(Byte) /\ Len(b) = 9 /\ \A m \in 1 .. 9 : b[m] = header[m]
    BY <1>5, <2>1, Prefix
  <2> QED
    BY <2>1, <2>2
<1>8. header[10] # crc8_compute(b)
  <2>1. first \in 0 .. 8 * (Len(a) + 1) - 1 /\ Len(a) = Len(b)
    BY <1>4, <1>7
  <2>2. \A m \in 1 .. Len(a) : b[m] = SymDiff(a[m], Hit(m, first, burst))
    BY <1>4, <1>6, <1>7
  <2>3. header[10] = SymDiff(crc8_compute(a), Hit(Len(a) + 1, first, burst))
    BY <1>4, <1>6
  <2> QED
    BY <1>3, <2>1, <2>2, <2>3, BurstDetected
<1>9. ~ HeaderIsValid(header)
  BY <1>7, <1>8 DEF HeaderIsValid, HeaderSize
<1>10. ASSUME sent.payload # <<>>
       PROVE  ~ CrcIsValid(Decoded(header, payload))
  <2> DEFINE f == Decoded(header, payload)
             v == Value[header[9]]
  <2>1. header[9] \in Byte /\ v \in 0 .. 255 /\ Bits(v) = header[9]
    <3>1. header \in [1 .. 10 -> Byte]
      BY <1>5, LenProperties
    <3>2. header[9] \in Byte
      BY <3>1
    <3> QED
      BY <3>2, BitsOfValue
  <2>2. p.len \in {4, 8, 12} /\ Len(payload) = 22
    BY <1>2, <1>10, PacketFields, PayloadLaws
  <2>3. /\ f.len = IF v = 0 THEN 22 ELSE v
        /\ f.head = SubSeq(header, 1, 8) /\ f.crc = header[10]
    BY <2>2 DEF Decoded, PayloadLen
  <2> HIDE DEF f, v
  <2>4. PICK c \in Seq(Byte) :
          /\ c = Append(SubSeq(header, 1, 8), Bits(f.len)) /\ Len(c) = 9
          /\ c[9] = Bits(f.len) /\ \A m \in 1 .. 8 : c[m] = header[m]
          /\ Bits(f.len) = header[9] => c = SubSeq(header, 1, 9)
    BY <1>5, BitsIsByte, Packed
  <2>5. CrcIsValid(f) <=> header[10] = crc8_compute(c)
    BY <2>3, <2>4 DEF CrcIsValid
  <2>6. CASE v # 0
    <3>1. c = b
      BY <1>7, <2>1, <2>3, <2>4, <2>6
    <3> QED
      BY <1>8, <2>5, <3>1 DEF f
  <2>7. CASE v = 0
    <3>1. header[9] = {}
      BY <2>1, <2>7, Lengths
    <3>2. SymDiff(Bits(p.len), H(9)) = {}
      BY <1>4, <1>6, <3>1
    <3>3. Hit(9, first, burst) = Bits(p.len)
      BY <3>2 DEF SymDiff
    <3>4. c[9] = Bits(22)
      BY <2>3, <2>4, <2>7
    <3>5. \A m \in 1 .. 8 : c[m] = SymDiff(a[m], Hit(m, first, burst))
      BY <1>6, <2>4
    <3>6. header[10] = SymDiff(crc8_compute(a), Hit(10, first, burst))
      BY <1>6
    <3>7. header[10] # crc8_compute(c)
      <4>1. a[9] \in {Bits(4), Bits(8), Bits(12)} /\ Hit(9, first, burst) = a[9]
        BY <1>4, <2>2, <3>3
      <4>2. Len(a) = 9 /\ Len(c) = 9
        BY <1>4, <2>4
      <4>3. SymDiff(crc8_compute(a), Hit(10, first, burst)) # crc8_compute(c)
        BY <1>3, <3>4, <3>5, <4>1, <4>2, ZeroedLengthDetected
      <4> QED
        BY <3>6, <4>3
    <3> QED
      BY <2>5, <3>7 DEF f
  <2> QED
    BY <2>6, <2>7
<1> QED
  BY <1>9, <1>10
-----------------------------------------------------------------------------
\* The boards accept what they build, whichever sequence number it carries:
\* rfv2_next_seq never gives out the reserved one, and the bytes of the header
\* read back as what was written.
THEOREM BoardsAlwaysAccept == Spec => []BoardsAccept
  BY FrameInvariance, IInvBoards, PTL

\* The console reads what the boards built, packet, payload and CRC, unless it
\* is a frame without payload.
THEOREM ConsoleAlwaysReads == Spec => []ConsoleReads
  BY FrameInvariance, IInvConsole, PTL

\* Neither reader takes a header that noise has hit, at whichever bit the burst
\* began and whatever it flipped.
THEOREM NoiseAlwaysDetected == Spec => []NoiseDetected
  BY FrameInvariance, IInvNoise, PTL
=============================================================================
