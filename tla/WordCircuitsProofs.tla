------------------------- MODULE WordCircuitsProofs -------------------------
(***************************************************************************)
(* The bit-level algorithms of WordCircuits are right for words of every   *)
(* width 2^LogWidth, not only for the widths TLC checks.                   *)
(***************************************************************************)
EXTENDS WordCircuits, FiniteSums

-----------------------------------------------------------------------------
(* Quotients and remainders. *)

\* Where a number is in its part of 2 * p numbers, and in that half of it.
LEMMA Halves ==
  ASSUME NEW p \in Nat, p >= 1, NEW i \in Nat, NEW K \in Nat, i < (2 * p) * K
  PROVE  \E s \in Nat :
           /\ i % (2 * p) = s /\ s < 2 * p /\ s <= i
           /\ (i - s) + 2 * p <= (2 * p) * K
           /\ i % p = IF s < p THEN s ELSE s - p
           /\ ((i - s) + p) % p = 0
<1> DEFINE d == 2 * p
           q == i \div d
           s == i % d
<1>1. d \in Nat /\ d >= 1 /\ d = p + p
  OBVIOUS
<1>2. q \in Nat /\ s \in Nat /\ s < d /\ i = d * q + s
  BY <1>1, DivMod
<1>3. (2 * p) * q = p * (2 * q) /\ (2 * p) * q \in Nat
  BY <1>2
<1>4. s <= i
  BY <1>2, <1>3
<1>5. (i - s) + d <= d * K
  <2> HIDE DEF d, q, s
  <2>1. q < K
    <3>1. SUFFICES ASSUME K <= q PROVE FALSE
      BY <1>2
    <3>2. d * K <= d * q
      BY <1>1, <1>2, <3>1
    <3>3. i < d * K
      BY DEF d
    <3> QED
      BY <1>1, <1>2, <3>2, <3>3
  <2>2. d * (q + 1) <= d * K
    BY <1>1, <1>2, <2>1
  <2>3. d * (q + 1) = d * q + d
    BY <1>1, <1>2
  <2> QED
    BY <1>1, <1>2, <2>2, <2>3
<1>6. i % p = IF s < p THEN s ELSE s - p
  <2> HIDE DEF q, s
  <2>1. CASE s < p
    <3>1. i = p * (2 * q) + s /\ 2 * q \in Nat
      BY <1>2, <1>3
    <3> QED
      BY <1>2, <2>1, <3>1, DivModUnique
  <2>2. CASE ~ (s < p)
    <3>1. i = p * (2 * q + 1) + (s - p)
      BY <1>2
    <3>2. 2 * q + 1 \in Nat /\ s - p \in Nat /\ s - p < p
      BY <1>2, <2>2
    <3>3. i % p = s - p
      BY <3>1, <3>2, DivModUnique
    <3> QED
      BY <2>2, <3>3
  <2> QED
    BY <2>1, <2>2
<1>7. ((i - s) + p) % p = 0
  <2> HIDE DEF q, s
  <2>1. (i - s) + p = p * (2 * q + 1) + 0
    BY <1>2
  <2>2. 2 * q + 1 \in Nat /\ (i - s) + p \in Nat
    BY <1>2, <1>4
  <2> HIDE DEF d
  <2> QED
    BY <2>1, <2>2, DivModUnique
<1> QED
  BY <1>2, <1>4, <1>5, <1>6, <1>7

-----------------------------------------------------------------------------
(* Powers of two, and the width of a word. *)

LEMMA Widths ==
  /\ LogWidth \in Nat /\ LogWidth >= 1
  /\ Width \in Nat /\ Width >= 2
  /\ \A r \in 0 .. LogWidth : 2^r \in Nat /\ 2^r >= 1
  /\ \A r \in 1 .. LogWidth : 2^r = 2 * 2^(r - 1)
  /\ \A r \in 0 .. LogWidth : \E K \in Nat : K >= 1 /\ Width = 2^r * K
<1>1. LogWidth \in Nat /\ LogWidth >= 1
  BY WordAssumption
<1>2. \A r \in 0 .. LogWidth : 2^r \in Nat /\ 2^r >= 1
  BY PowPositive, <1>1
<1>3. \A r \in 1 .. LogWidth : 2^r = 2 * 2^(r - 1)
  <2>1. ASSUME NEW r \in 1 .. LogWidth PROVE 2^r = 2 * 2^(r - 1)
    <3>1. r - 1 \in Nat /\ (r - 1) + 1 = r
      BY <1>1
    <3> QED
      BY <3>1, PowDouble
  <2> QED
    BY <2>1
<1>4. Width \in Nat /\ Width >= 2
  <2>1. 2^LogWidth = 2 * 2^(LogWidth - 1) /\ LogWidth - 1 \in 0 .. LogWidth
    BY <1>1, <1>3
  <2>2. 2^(LogWidth - 1) \in Nat /\ 2^(LogWidth - 1) >= 1
    BY <1>2, <2>1
  <2> QED
    BY <2>1, <2>2 DEF Width
<1>5. \A r \in 0 .. LogWidth : \E K \in Nat : K >= 1 /\ Width = 2^r * K
  <2>1. ASSUME NEW r \in 0 .. LogWidth
        PROVE  2^(LogWidth - r) \in Nat /\ 2^(LogWidth - r) >= 1 /\ Width = 2^r * 2^(LogWidth - r)
    <3>1. LogWidth - r \in Nat /\ r \in Nat /\ r <= LogWidth
      BY <1>1
    <3> QED
      BY <1>1, <3>1, PowSplit, PowPositive DEF Width
  <2> QED
    BY <2>1
<1> QED
  BY <1>1, <1>2, <1>3, <1>4, <1>5

-----------------------------------------------------------------------------
(* The rounds of eq_b and greater. *)

\* The bits i such that all from i to the end of the part of p bits that i is in
\* are in A.
SuffixOf(A, p) == {i \in Bits : \A j \in i .. (i - (i % p)) + p - 1 : j \in A}

\* One round: from parts of p bits to parts of 2 * p bits.
LEMMA SuffixRound ==
  ASSUME NEW A, NEW r \in 1 .. LogWidth, NEW p, p = 2^(r - 1)
  PROVE  SuffixOf(A, p) \cap ShiftGreater(SuffixOf(A, p), r) = SuffixOf(A, 2 * p)
<1>1. p \in Nat /\ p >= 1 /\ 2^r = 2 * p
  BY Widths
<1>2. PICK K \in Nat : Width = (2 * p) * K
  BY Widths, <1>1
<1>3. (2 * p) \div 2 = p
  BY <1>1
<1> DEFINE B == SuffixOf(A, p)
<1>4. ASSUME NEW i \in Bits
      PROVE  i \in B \cap ShiftGreater(B, r) <=> i \in SuffixOf(A, 2 * p)
  <2>1. i \in Nat /\ i < (2 * p) * K
    BY <1>2, Widths DEF Bits
  <2>2. PICK s \in Nat :
           /\ i % (2 * p) = s /\ s < 2 * p /\ s <= i
           /\ (i - s) + 2 * p <= (2 * p) * K
           /\ i % p = IF s < p THEN s ELSE s - p
           /\ ((i - s) + p) % p = 0
    <3>1. p \in Nat /\ p >= 1 /\ i \in Nat /\ K \in Nat /\ i < (2 * p) * K
      BY <1>1, <2>1
    <3> HIDE DEF B
    <3> QED
      BY ONLY <3>1, Halves
  <2> DEFINE m == (i - s) + p
  <2>3. m \in Nat /\ m < Width /\ m \in Bits /\ m % p = 0
    BY <1>1, <1>2, <2>2, Widths DEF Bits
  <2>4. i \in ShiftGreater(B, r) <=> IF i < m THEN m \in B ELSE i \in B
    BY <1>1, <1>3, <2>2 DEF ShiftGreater
  <2>5. i \in SuffixOf(A, 2 * p) <=> \A j \in i .. (i - s) + 2 * p - 1 : j \in A
    BY <2>2 DEF SuffixOf
  <2>6. m \in B <=> \A j \in m .. m + p - 1 : j \in A
    BY <2>3 DEF SuffixOf
  <2> HIDE DEF B
  <2>7. CASE s < p
    <3>1. i \in B <=> \A j \in i .. (i - s) + p - 1 : j \in A
      BY <2>2, <2>7 DEF SuffixOf, B
    <3>2. i < m /\ i <= m
      BY <1>1, <2>1, <2>2, <2>7
    <3>3. i .. (i - s) + 2 * p - 1 = (i .. (i - s) + p - 1) \cup (m .. m + p - 1)
      BY <1>1, <2>1, <2>2, <2>7
    <3> HIDE DEF m
    <3> QED
      BY <2>4, <2>5, <2>6, <3>1, <3>2, <3>3
  <2>8. CASE ~ (s < p)
    <3>1. ~ (i < m)
      BY <1>1, <2>1, <2>2, <2>8
    <3>2. (i - (s - p)) + p - 1 = (i - s) + 2 * p - 1
      BY <1>1, <2>1, <2>2, <2>8
    <3>3. i \in B <=> \A j \in i .. (i - s) + 2 * p - 1 : j \in A
      BY <2>2, <2>8, <3>2 DEF SuffixOf, B
    <3> HIDE DEF m
    <3> QED
      BY <2>4, <2>5, <3>1, <3>3
  <2> QED
    BY <2>7, <2>8
<1>5. B \subseteq Bits /\ SuffixOf(A, 2 * p) \subseteq Bits
  BY DEF SuffixOf
<1> HIDE DEF B
<1> QED
  BY <1>4, <1>5 DEF B

\* Round 0 of eq_b changes nothing: a part of one bit has an empty lower half.
LEMMA SuffixOne ==
  ASSUME NEW A, A \subseteq Bits
  PROVE  SuffixOf(A, 1) = A /\ A \cap ShiftGreater(A, 0) = A
<1>1. \A i \in Bits : i \in Nat /\ i % 1 = 0
  BY Widths DEF Bits
<1>2. \A i \in Bits : i \in ShiftGreater(A, 0) <=> i \in A
  BY <1>1 DEF ShiftGreater
<1>3. \A i \in Bits : i \in SuffixOf(A, 1) <=> i \in A
  BY <1>1 DEF SuffixOf
<1>4. SuffixOf(A, 1) \subseteq Bits
  BY DEF SuffixOf
<1> QED
  BY <1>2, <1>3, <1>4

-----------------------------------------------------------------------------
(* The rounds of eq_b_sync. *)

\* The numbers of the parts of p bits that are in A.
PartsOf(A, p) ==
  {j \in 0 .. Width \div p - 1 : \A i \in j * p .. (j + 1) * p - 1 : i \in A}

LEMMA SyncRound ==
  ASSUME NEW A, NEW r \in 0 .. LogWidth - 1
  PROVE  Level2(PartsOf(A, 2^r), Width \div 2^r) = PartsOf(A, 2^(r + 1))
<1> DEFINE p == 2^r
           B == PartsOf(A, p)
           C == PartsOf(A, 2 * p)
<1>1. p \in Nat /\ p >= 1 /\ 2^(r + 1) = 2 * p
  <2>1. r \in 0 .. LogWidth /\ r + 1 \in 1 .. LogWidth /\ (r + 1) - 1 = r
    BY Widths
  <2>2. 2^(r + 1) = 2 * 2^((r + 1) - 1)
    BY <2>1, Widths
  <2> QED
    BY <2>1, <2>2, Widths
<1>2. PICK K \in Nat : Width = (2 * p) * K
  <2>1. r + 1 \in 0 .. LogWidth
    BY Widths
  <2>2. \E K \in Nat : K >= 1 /\ Width = 2^(r + 1) * K
    BY <2>1, Widths
  <2> QED
    BY <1>1, <2>2
<1> SUFFICES Level2(B, Width \div p) = C
  BY <1>1
<1> HIDE DEF p
<1>3. Width \div (2 * p) = K /\ Width \div p = 2 * K /\ (2 * K) \div 2 = K
  <2>1. Width = (2 * p) * K + 0 /\ Width = p * (2 * K) + 0 /\ 2 * K \in Nat /\ 2 * p \in Nat
    BY <1>1, <1>2, Widths
  <2> QED
    BY <1>1, <2>1, Widths, DivModUnique
<1>4. ASSUME NEW j \in 0 .. K - 1
      PROVE  j \in Level2(B, Width \div p) <=> j \in C
  <2> DEFINE t == (2 * j) * p
  <2>1. t \in Nat /\ (2 * j + 1) * p = t + p /\ ((2 * j + 1) + 1) * p = (t + p) + p
    BY <1>1
  <2>2. j * (2 * p) = t /\ (j + 1) * (2 * p) = (t + p) + p
    BY <1>1
  <2>3. 2 * j \in 0 .. 2 * K - 1 /\ 2 * j + 1 \in 0 .. 2 * K - 1
    OBVIOUS
  <2>4. 2 * j \in B <=> \A i \in t .. (t + p) - 1 : i \in A
    BY <1>3, <2>1, <2>3 DEF PartsOf
  <2>5. 2 * j + 1 \in B <=> \A i \in t + p .. ((t + p) + p) - 1 : i \in A
    BY <1>3, <2>1, <2>3 DEF PartsOf
  <2>6. j \in C <=> \A i \in t .. ((t + p) + p) - 1 : i \in A
    BY <1>3, <2>2 DEF PartsOf
  <2>7. j \in Level2(B, Width \div p) <=> 2 * j \in B /\ 2 * j + 1 \in B
    BY <1>3 DEF Level2
  <2>8. t .. ((t + p) + p) - 1 = (t .. (t + p) - 1) \cup (t + p .. ((t + p) + p) - 1)
    BY <1>1, <2>1
  <2> HIDE DEF t, B, C
  <2> QED
    BY <2>4, <2>5, <2>6, <2>7, <2>8
<1>5. Level2(B, Width \div p) \subseteq 0 .. K - 1 /\ C \subseteq 0 .. K - 1
  BY <1>3 DEF Level2, PartsOf
<1> HIDE DEF B, C
<1> QED
  BY <1>4, <1>5

LEMMA PartsOne ==
  ASSUME NEW A, A \subseteq Bits
  PROVE  PartsOf(A, 1) = A
<1>1. Width \div 1 = Width
  BY Widths
<1>2. \A j \in Bits : j * 1 = j /\ (j + 1) * 1 - 1 = j
  BY Widths DEF Bits
<1>3. \A j \in Bits : j .. j = {j}
  BY Widths DEF Bits
<1>4. PartsOf(A, 1) = {j \in Bits : j \in A}
  BY <1>1, <1>2, <1>3 DEF PartsOf, Bits
<1> QED
  BY <1>4

\* A single part is left: the word as a whole.
LEMMA PartsAll ==
  ASSUME NEW A
  PROVE  PartsOf(A, Width) = Bool(Bits \subseteq A)
<1>1. Width \div Width = 1
  BY Widths, Width = Width * 1 + 0, DivModUnique
<1>2. 0 * Width = 0 /\ (0 + 1) * Width = Width /\ 0 .. 1 - 1 = {0}
  BY Widths
<1> QED
  BY <1>1, <1>2 DEF PartsOf, Bool, Bits

-----------------------------------------------------------------------------
(* The numbers of words. *)

LEMMA UnsignedIsPowSum == \A u : Unsigned(u) = PowSum(u)
  BY DEF Unsigned, PowSum

LEMMA LowAll ==
  ASSUME NEW u \in Word
  PROVE  Unsigned(u) = LowSum(u, Width) /\ Unsigned(u) \in Nat /\ Unsigned(u) < 2^Width
<1>1. u \cap 0 .. Width - 1 = u
  BY DEF Word, Bits
<1>2. Unsigned(u) = LowSum(u, Width)
  BY <1>1, UnsignedIsPowSum DEF LowSum
<1> QED
  BY <1>2, LowBound, Widths

-----------------------------------------------------------------------------
(* The order of words. *)

\* The words differ in bit i, which is in u, and in no higher bit.
Top(i, u, v) == i \in u /\ i \notin v /\ \A j \in Bits : j > i => (j \in u <=> j \in v)

\* Of two words the one with the highest bit that differs is the larger one.
LEMMA TopIsGreater ==
  ASSUME NEW u \in Word, NEW v \in Word, NEW i \in Bits, Top(i, u, v)
  PROVE  Unsigned(u) > Unsigned(v)
<1>1. i \in Nat /\ i < Width
  BY Widths DEF Bits
<1> DEFINE S == {k \in Nat : (i + 1) + k <= Width =>
                   LowSum(u, (i + 1) + k) > LowSum(v, (i + 1) + k)}
<1>2. 0 \in S
  <2>1. LowSum(u, i + 1) = LowSum(u, i) + 2^i /\ LowSum(v, i + 1) = LowSum(v, i)
    BY <1>1, LowStep, LowBound DEF Top
  <2>2. LowSum(u, i) \in Nat /\ LowSum(v, i) \in Nat /\ LowSum(v, i) < 2^i /\ 2^i \in Nat
    BY <1>1, LowBound, PowType
  <2>3. LowSum(u, i + 1) > LowSum(v, i + 1) /\ (i + 1) + 0 = i + 1
    BY <1>1, <2>1, <2>2
  <2> QED
    BY <2>3
<1>3. ASSUME NEW k \in Nat, k \in S PROVE k + 1 \in S
  <2> DEFINE n == (i + 1) + k
  <2>1. n \in Nat /\ (i + 1) + (k + 1) = n + 1 /\ n > i
    BY <1>1
  <2>2. SUFFICES ASSUME n + 1 <= Width PROVE LowSum(u, n + 1) > LowSum(v, n + 1)
    BY <1>1, <2>1, Widths
  <2>3. n \in Bits /\ LowSum(u, n) > LowSum(v, n)
    BY <1>1, <1>3, <2>1, <2>2, Widths DEF Bits
  <2> HIDE DEF n, S
  <2>4. n \in u <=> n \in v
    BY <1>1, <2>1, <2>3 DEF Top, Bits
  <2>5. /\ LowSum(u, n + 1) = LowSum(u, n) + (IF n \in u THEN 2^n ELSE 0)
        /\ LowSum(v, n + 1) = LowSum(v, n) + (IF n \in v THEN 2^n ELSE 0)
    BY <2>1, LowStep
  <2>6. LowSum(u, n) \in Nat /\ LowSum(v, n) \in Nat /\ 2^n \in Nat
    BY <2>1, LowBound, PowType
  <2> QED
    BY <2>3, <2>4, <2>5, <2>6
<1>4. Nat \subseteq S
  <2> HIDE DEF S
  <2> QED
    BY <1>2, <1>3, InductionSet
<1>5. LowSum(u, Width) > LowSum(v, Width)
  <2> DEFINE k == Width - (i + 1)
  <2>1. k \in Nat /\ (i + 1) + k = Width /\ Width <= Width
    BY <1>1, Widths
  <2> HIDE DEF k
  <2>2. k \in S
    BY <1>4, <2>1
  <2>3. LowSum(u, (i + 1) + k) > LowSum(v, (i + 1) + k)
    BY <2>1, <2>2
  <2> QED
    BY <2>1, <2>3
<1> QED
  BY <1>5, LowAll

\* Two words that are not the same have a highest bit that differs.
LEMMA TopExists ==
  ASSUME NEW u \in Word, NEW v \in Word, u # v
  PROVE  \E i \in Bits : Top(i, u, v) \/ Top(i, v, u)
<1> DEFINE D == {k \in Nat : k < Width /\ ~ (Width - 1 - k \in u <=> Width - 1 - k \in v)}
<1>1. PICK b \in Bits : ~ (b \in u <=> b \in v)
  BY DEF Word
<1>2. Width - 1 - b \in D
  <2>1. Width - 1 - b \in Nat /\ Width - 1 - b < Width /\ Width - 1 - (Width - 1 - b) = b
    BY Widths DEF Bits
  <2> QED
    BY <1>1, <2>1
<1>3. PICK k \in D : \A n \in D : k <= n
  <2>1. D \subseteq Nat /\ D # {}
    BY <1>2
  <2> HIDE DEF D
  <2> QED
    BY <2>1, LeastElement
<1> DEFINE i == Width - 1 - k
<1>4. i \in Bits /\ ~ (i \in u <=> i \in v)
  BY <1>3, Widths DEF Bits
<1>5. ASSUME NEW j \in Bits, j > i PROVE j \in u <=> j \in v
  <2> DEFINE n == Width - 1 - j
  <2>1. k \in Nat /\ n \in Nat /\ n < Width /\ n < k /\ Width - 1 - n = j
    BY <1>5, Widths DEF Bits
  <2>2. n \notin D
    <3> HIDE DEF D, n
    <3> QED
      BY <1>3, <2>1
  <2> HIDE DEF n
  <2> QED
    BY <2>1, <2>2
<1> HIDE DEF i
<1> QED
  BY <1>4, <1>5 DEF Top

-----------------------------------------------------------------------------
(* The adder. *)

\* The carries out of the bits below bit n.
CarriesOf(u, v, n) == {i \in 0 .. n - 1 : Overflows(u, v, i)}

BitOf(u, i) == IF i \in u THEN {i} ELSE {}

CarryFrom(A, i) == IF i > 0 /\ i - 1 \in A THEN {i} ELSE {}

\* One round of the adder.
LEMMA CarryRound ==
  ASSUME NEW u, NEW v, NEW i \in Nat
  PROVE  CarriesOf(u, v, i) \cup
           CarryBit(BitOf(u, i), BitOf(v, i), CarryFrom(CarriesOf(u, v, i), i))
             = CarriesOf(u, v, i + 1)
<1> DEFINE s == BitOf(u, i)
           t == BitOf(v, i)
           w == CarryFrom(CarriesOf(u, v, i), i)
<1>1. i > 0 => (i - 1 \in CarriesOf(u, v, i) <=> Overflows(u, v, i - 1))
  BY DEF CarriesOf
<1>2. CarryBit(s, t, w) = IF Overflows(u, v, i) THEN {i} ELSE {}
  BY <1>1, OverflowsStep DEF CarryBit, Xor, BitOf, CarryFrom
<1>3. 0 .. (i + 1) - 1 = (0 .. i - 1) \cup {i}
  OBVIOUS
<1>4. CarriesOf(u, v, i + 1) = CarriesOf(u, v, i) \cup (IF Overflows(u, v, i) THEN {i} ELSE {})
  BY <1>3 DEF CarriesOf
<1> QED
  BY <1>2, <1>4

\* boolean_addition: the words exclusive or the carries one bit up.
LEMMA AdderSum ==
  ASSUME NEW u \in Word, NEW v \in Word
  PROVE  Unsigned(Xor(Xor(u, v), ShiftLeft(CarriesOf(u, v, Width - 1))))
           = (Unsigned(u) + Unsigned(v)) % 2^Width
<1> DEFINE C == CarriesOf(u, v, Width - 1)
           s == Xor(Xor(u, v), ShiftLeft(C))
           P == 2^Width
<1>1. ASSUME NEW n \in Nat, n < Width
      PROVE  n \in s <=> IF n > 0 /\ Overflows(u, v, n - 1)
                         THEN n \in u <=> n \in v ELSE ~ (n \in u <=> n \in v)
  <2>1. n \in Bits
    BY <1>1, Widths DEF Bits
  <2>2. n > 0 => (n - 1 \in C <=> Overflows(u, v, n - 1))
    BY <1>1, Widths DEF CarriesOf
  <2>3. n \in ShiftLeft(C) <=> n > 0 /\ Overflows(u, v, n - 1)
    BY <2>1, <2>2 DEF ShiftLeft
  <2> HIDE DEF C
  <2> QED
    BY <2>3 DEF Xor
<1>2. s \in Word
  BY DEF Xor, ShiftLeft, Word
<1> HIDE DEF s
<1>3. SumBits(s, u, v, Width)
  BY <1>1 DEF SumBits
<1>4. LowSum(s, Width) = (LowSum(u, Width) + LowSum(v, Width)) % P
  BY <1>3, SumModulo, Widths
<1>5. /\ Unsigned(s) = LowSum(s, Width)
      /\ Unsigned(u) = LowSum(u, Width) /\ Unsigned(v) = LowSum(v, Width)
  BY <1>2, LowAll
<1> QED
  BY <1>4, <1>5 DEF s, P

-----------------------------------------------------------------------------
(* The last round of greater. *)

\* What is left of the diagonal: the highest bit that differs, if x has it.
LEMMA LastOfGreater ==
  ASSUME NEW u \in Word, NEW v \in Word
  PROVE  Parity((ShiftRight(SuffixOf(Agree(u, v), Width)) \cup {Width - 1}) \cap (u \ v))
           = Bool(Unsigned(u) > Unsigned(v))
<1> DEFINE A == Agree(u, v)
           D == (ShiftRight(SuffixOf(A, Width)) \cup {Width - 1}) \cap (u \ v)
<1> SUFFICES Parity(D) = Bool(Unsigned(u) > Unsigned(v))
  OBVIOUS
<1>1. \A j \in Bits : j \in A <=> (j \in u <=> j \in v)
  BY DEF Agree, Not, Xor
<1>2. ASSUME NEW i \in Bits PROVE i \in D <=> Top(i, u, v)
  <2>1. i \in Nat /\ i < Width
    BY Widths DEF Bits
  <2>2. CASE i = Width - 1
    <3>1. \A j \in Bits : ~ (j > i)
      BY <2>2, Widths DEF Bits
    <3> HIDE DEF A
    <3> QED
      BY <2>2, <3>1 DEF Top
  <2>3. CASE i # Width - 1
    <3> DEFINE k == i + 1
    <3>1. k \in Nat /\ k < Width /\ k \in Bits
      BY <2>1, <2>3, Widths DEF Bits
    <3>2. k % Width = k
      BY <3>1, Widths, k = Width * 0 + k, DivModUnique
    <3>3. (k - (k % Width)) + Width - 1 = Width - 1
      BY <3>1, <3>2, Widths
    <3>4. k \in SuffixOf(A, Width) <=> \A j \in k .. Width - 1 : j \in A
      BY <3>1, <3>3 DEF SuffixOf
    <3>5. \A j \in Nat : j \in k .. Width - 1 <=> j \in Bits /\ j > i
      BY <2>1, <3>1, Widths DEF Bits
    <3>6. (\A j \in k .. Width - 1 : j \in A)
            <=> \A j \in Bits : j > i => (j \in u <=> j \in v)
      BY <1>1, <3>1, <3>5, Widths DEF Bits
    <3>7. i \in ShiftRight(SuffixOf(A, Width)) <=> k \in SuffixOf(A, Width)
      BY DEF ShiftRight
    <3> HIDE DEF A, k
    <3> QED
      BY <2>3, <3>4, <3>6, <3>7 DEF Top
  <2> QED
    BY <2>2, <2>3
<1>3. D \subseteq Bits
  BY DEF Word
<1>4. CASE \E i \in Bits : Top(i, u, v)
  <2>1. PICK i \in Bits : Top(i, u, v)
    BY <1>4
  <2>2. ASSUME NEW j \in D PROVE j = i
    <3>1. Top(j, u, v) /\ j \in Bits
      BY <1>2, <1>3
    <3>2. i \in Nat /\ j \in Nat
      BY <3>1, Widths DEF Bits
    <3> HIDE DEF D
    <3> QED
      BY <2>1, <3>1, <3>2 DEF Top
  <2>3. D = {i}
    <3>1. i \in D
      BY <1>2, <2>1
    <3> HIDE DEF D
    <3> QED
      BY <2>2, <3>1
  <2>4. Cardinality({i}) = 1
    BY FS_Singleton
  <2>5. Unsigned(u) > Unsigned(v)
    BY <2>1, TopIsGreater
  <2> HIDE DEF D
  <2> QED
    BY <2>3, <2>4, <2>5 DEF Parity, Bool
<1>5. CASE ~ \E i \in Bits : Top(i, u, v)
  <2>1. D = {}
    BY <1>2, <1>3, <1>5
  <2>2. ~ (Unsigned(u) > Unsigned(v))
    <3>1. CASE u = v
      BY <3>1, LowAll
    <3>2. CASE u # v
      <4>1. PICK i \in Bits : Top(i, v, u)
        BY <1>5, <3>2, TopExists
      <4>2. Unsigned(v) > Unsigned(u)
        BY <4>1, TopIsGreater
      <4> QED
        BY <4>2, LowAll
    <3> QED
      BY <3>1, <3>2
  <2> HIDE DEF D
  <2> QED
    BY <2>1, <2>2, FS_EmptySet DEF Parity, Bool
<1> QED
  BY <1>4, <1>5

-----------------------------------------------------------------------------
(* The rounds of and_b_all and and_b_all_group. *)

Block(k, n) == k * n .. (k + 1) * n - 1

Pair(k, j, n) == {k * n + 2 * j, k * n + 2 * j + 1} \cap Block(k, n)

Half(n) == (n + 1) \div 2

LeftOf(n, G) == {k * Half(n) + j : k \in 0 .. G - 1, j \in 0 .. Half(n) - 1}

\* The array after a round on G groups of n bits.
AndOf(A, n, G) ==
  (A \ LeftOf(n, G)) \cup
  {i \in LeftOf(n, G) : Pair(i \div Half(n), i % Half(n), n) \subseteq A}

LEMMA HalfFacts ==
  ASSUME NEW n \in Nat, n >= 2
  PROVE  Half(n) \in Nat /\ Half(n) >= 1 /\ Half(n) < n
         /\ (n = 2 * Half(n) \/ n = 2 * Half(n) - 1)
  BY DEF Half

\* The bits of a group after a round are all 1 exactly when those before it are.
LEMMA AndOfKeeps ==
  ASSUME NEW A, NEW n \in Nat, n >= 2, NEW G \in Nat, NEW k \in 0 .. G - 1
  PROVE  Block(k, Half(n)) \subseteq AndOf(A, n, G) <=> Block(k, n) \subseteq A
<1> DEFINE h == Half(n)
           B == AndOf(A, n, G)
           a == k * n
           b == k * h
<1>1. /\ h \in Nat /\ h >= 1 /\ (n = 2 * h \/ n = 2 * h - 1)
      /\ a \in Nat /\ b \in Nat /\ (k + 1) * n = a + n /\ (k + 1) * h = b + h
  <2>1. h \in Nat /\ h >= 1 /\ (n = 2 * h \/ n = 2 * h - 1)
    BY HalfFacts
  <2> HIDE DEF h
  <2> QED
    BY <2>1
<1>2. ASSUME NEW j \in 0 .. h - 1
      PROVE  b + j \in B <=> Pair(k, j, n) \subseteq A
  <2>1. b + j \in LeftOf(n, G)
    BY DEF LeftOf
  <2>2. b + j \in Nat /\ j \in Nat /\ j < h /\ b + j = h * k + j /\ k \in Nat
    BY <1>1
  <2>3. (b + j) \div h = k /\ (b + j) % h = j
    <3> HIDE DEF h, b
    <3> QED
      BY <1>1, <2>2, DivModUnique
  <2>4. b + j \in B <=> Pair((b + j) \div h, (b + j) % h, n) \subseteq A
    BY <2>1 DEF AndOf
  <2> HIDE DEF h, b, B
  <2> QED
    BY <2>3, <2>4
<1>3. ASSUME Block(k, h) \subseteq B, NEW i \in Block(k, n) PROVE i \in A
  <2> DEFINE c == i - a
             j == c \div 2
  <2>1. c \in Nat /\ c < n /\ i = a + c /\ i \in Nat
    BY <1>1 DEF Block
  <2> HIDE DEF c
  <2>2. j \in Nat /\ (c = 2 * j \/ c = 2 * j + 1)
    BY <2>1
  <2> HIDE DEF j
  <2>3. j \in 0 .. h - 1
    BY <1>1, <2>1, <2>2
  <2>4. b + j \in Block(k, h)
    <3> HIDE DEF h
    <3> QED
      BY <1>1, <2>3 DEF Block
  <2>5. Pair(k, j, n) \subseteq A
    BY <1>2, <1>3, <2>3, <2>4
  <2>6. i \in Pair(k, j, n)
    BY <1>3, <2>1, <2>2 DEF Pair
  <2> QED
    BY <2>5, <2>6
<1>4. ASSUME Block(k, n) \subseteq A, NEW i \in Block(k, h) PROVE i \in B
  <2> DEFINE j == i - b
  <2>1. j \in 0 .. h - 1 /\ b + j = i
    <3> HIDE DEF h
    <3> QED
      BY <1>1 DEF Block
  <2>2. Pair(k, j, n) \subseteq A
    BY <1>4 DEF Pair
  <2> HIDE DEF j, B
  <2> QED
    BY <1>2, <2>1, <2>2
<1> HIDE DEF h, B
<1> QED
  BY <1>3, <1>4 DEF h, B

-----------------------------------------------------------------------------
(* The inductive invariant: what the working word is after each round, and what *)
(* is returned after the last.                                                  *)

Shape ==
  /\ fn \in Function /\ x \in Word /\ y \in Word
  /\ round \in Nat /\ acc \in Word /\ diag \in Word

\* The parts that round rounds of eq_b or greater have compared to their ends.
Compared == IF round = 0 THEN 1 ELSE 2^(round - 1)

EqInv ==
  fn = "eq_b" =>
    /\ round <= LogWidth
    /\ acc = SuffixOf(Agree(x, y), Compared)
    /\ result = IF round = LogWidth THEN << acc \cap {0} >> ELSE <<>>

SyncInv ==
  fn = "eq_b_sync" =>
    /\ round <= LogWidth
    /\ acc = PartsOf(Agree(x, y), 2^round)
    /\ result = IF round = LogWidth THEN << acc >> ELSE <<>>

GreaterInv ==
  fn \in {"greater", "cmp_swap"} =>
    /\ round = 0 \/ round \in 2 .. LogWidth + 1
    /\ acc = SuffixOf(Agree(x, y), Compared)
    /\ round > 0 => diag = x \ y
    /\ \/ result = <<>>
       \/ /\ fn = "greater"
          /\ result = << Bool(Unsigned(x) > Unsigned(y)) >>
       \/ /\ fn = "cmp_swap"
          /\ result = IF Unsigned(x) > Unsigned(y) THEN <<y, x>> ELSE <<x, y>>

AddInv ==
  fn = "boolean_addition" =>
    /\ round <= Width - 1
    /\ acc = CarriesOf(x, y, round)
    /\ \/ result = <<>>
       \/ round = Width - 1 /\ result = << Xor(Xor(x, y), ShiftLeft(acc)) >>

AndInv ==
  fn \in AndAll =>
    /\ round <= GroupSize
    /\ \A k \in 0 .. Groups - 1 :
         Block(k, round) \subseteq acc <=> Block(k, GroupSize) \subseteq Agree(x, y)
    /\ \/ result = <<>>
       \/ round = 1 /\ result = << acc \cap 0 .. Groups - 1 >>

WordInv == Shape /\ EqInv /\ SyncInv /\ GreaterInv /\ AddInv /\ AndInv

LEMMA AgreeType == ASSUME NEW u, NEW v PROVE Agree(u, v) \subseteq Bits
  BY DEF Agree, Not

LEMMA SuffixType == ASSUME NEW A, NEW p PROVE SuffixOf(A, p) \in Word
  BY DEF SuffixOf, Word

LEMMA GroupFacts ==
  /\ Groups \in Nat /\ Groups >= 1 /\ Groups <= 2
  /\ GroupSize \in Nat /\ Groups * (GroupSize + 1) <= Width
<1>1. PICK K \in Nat : K >= 1 /\ Width = 2 * K
  <2>1. 1 \in 0 .. LogWidth /\ 2^1 = 2
    BY Widths
  <2> QED
    BY <2>1, Widths
<1>2. Width \div 1 = Width /\ Width \div 2 = K
  BY <1>1, Widths
<1> QED
  BY <1>1, <1>2, Widths DEF Groups, GroupSize

LEMMA WordsInitially == Init => WordInv
<1> SUFFICES ASSUME Init PROVE WordInv
  OBVIOUS
<1> USE DEF Init
<1>1. x \in Word /\ y \in Word /\ fn \in Function
  BY WordAssumption
<1>2. Agree(x, y) \subseteq Bits
  BY AgreeType
<1>3. Shape
  BY <1>1, <1>2, GroupFacts DEF Shape, Word
<1>4. EqInv /\ GreaterInv
  <2>1. (Compared = 1 /\ acc = Agree(x, y) /\ round = 0)
        \/ fn \notin {"eq_b", "greater", "cmp_swap"}
    BY <1>1 DEF Compared, AndAll, Function
  <2>2. SuffixOf(Agree(x, y), 1) = Agree(x, y)
    BY <1>2, SuffixOne
  <2> QED
    BY <2>1, <2>2, Widths DEF EqInv, GreaterInv
<1>5. SyncInv
  <2>1. PartsOf(Agree(x, y), 2^0) = Agree(x, y)
    BY <1>2, PartsOne
  <2> QED
    BY <2>1, Widths DEF SyncInv, AndAll
<1>6. AddInv
  <2>1. CarriesOf(x, y, 0) = {}
    BY DEF CarriesOf
  <2> QED
    BY <2>1, Widths DEF AddInv, AndAll
<1>7. AndInv
  BY GroupFacts DEF AndInv, AndAll
<1> QED
  BY <1>3, <1>4, <1>5, <1>6, <1>7 DEF WordInv

\* A step of one function leaves the parts of the invariant on the others alone.
LEMMA OnlyFn ==
  ASSUME Shape', fn' = fn
  PROVE  /\ fn \in {"greater", "cmp_swap", "eq_b_sync", "boolean_addition"} \cup AndAll => EqInv'
         /\ fn \in {"greater", "cmp_swap", "eq_b", "boolean_addition"} \cup AndAll => SyncInv'
         /\ fn \in {"eq_b", "eq_b_sync", "boolean_addition"} \cup AndAll => GreaterInv'
         /\ fn \in {"greater", "cmp_swap", "eq_b", "eq_b_sync"} \cup AndAll => AddInv'
         /\ fn \in {"greater", "cmp_swap", "eq_b", "eq_b_sync", "boolean_addition"} => AndInv'
  BY DEF EqInv, SyncInv, GreaterInv, AddInv, AndInv, AndAll

LEMMA EqRoundKeeps == WordInv /\ EqRound => WordInv'
<1> SUFFICES ASSUME WordInv, EqRound PROVE WordInv'
  OBVIOUS
<1>1. /\ fn = "eq_b" /\ fn' = fn /\ x' = x /\ y' = y /\ diag' = diag
      /\ round' = round + 1 /\ acc' = acc \cap ShiftGreater(acc, round)
      /\ result' = IF round = LogWidth - 1 THEN << acc' \cap {0} >> ELSE <<>>
      /\ result = <<>>
  BY DEF EqRound, Running
<1>2. Shape /\ EqInv
  BY DEF WordInv
<1>3. round \in Nat /\ round < LogWidth /\ acc = SuffixOf(Agree(x, y), Compared)
  BY <1>1, <1>2, Widths DEF EqInv, Shape
<1>4. Agree(x, y) \subseteq Bits
  BY AgreeType
<1>5. Compared' = 2^round
  BY <1>1, <1>3 DEF Compared
<1>6. acc' = SuffixOf(Agree(x, y), 2^round)
  <2>1. CASE round = 0
    <3>1. acc = Agree(x, y) /\ 2^round = 1
      BY <1>3, <1>4, <2>1, SuffixOne DEF Compared
    <3> QED
      BY <1>1, <1>4, <2>1, <3>1, SuffixOne
  <2>2. CASE round # 0
    <3> DEFINE p == 2^(round - 1)
    <3>1. round \in 1 .. LogWidth /\ Compared = p /\ 2^round = 2 * p
      BY <1>3, <2>2, Widths DEF Compared
    <3>2. SuffixOf(Agree(x, y), p) \cap ShiftGreater(SuffixOf(Agree(x, y), p), round)
            = SuffixOf(Agree(x, y), 2 * p)
      BY <3>1, SuffixRound
    <3> QED
      BY <1>1, <1>3, <3>1, <3>2
  <2> QED
    BY <2>1, <2>2
<1>7. Shape'
  <2>1. acc' \in Word
    BY <1>6, SuffixType
  <2> QED
    BY <1>1, <1>2, <2>1 DEF Shape
<1>8. EqInv'
  BY <1>1, <1>3, <1>5, <1>6, Widths DEF EqInv
<1> QED
  BY <1>1, <1>7, <1>8, OnlyFn DEF WordInv

LEMMA EqSyncRoundKeeps == WordInv /\ EqSyncRound => WordInv'
<1> SUFFICES ASSUME WordInv, EqSyncRound PROVE WordInv'
  OBVIOUS
<1>1. /\ fn = "eq_b_sync" /\ fn' = fn /\ x' = x /\ y' = y /\ diag' = diag
      /\ round' = round + 1 /\ acc' = Level2(acc, Width \div 2^round)
      /\ result' = IF round = LogWidth - 1 THEN << acc' >> ELSE <<>>
      /\ result = <<>>
  BY DEF EqSyncRound, Running
<1>2. Shape /\ SyncInv
  BY DEF WordInv
<1>3. round \in 0 .. LogWidth - 1 /\ acc = PartsOf(Agree(x, y), 2^round)
  BY <1>1, <1>2, Widths DEF SyncInv, Shape
<1>4. acc' = PartsOf(Agree(x, y), 2^(round + 1))
  BY <1>1, <1>3, SyncRound
<1>5. acc' \in Word
  <2>1. round + 1 \in 0 .. LogWidth
    BY <1>3, Widths
  <2>2. PICK K \in Nat : Width = 2^(round + 1) * K
    BY <2>1, Widths
  <2>3. 2^(round + 1) \in Nat /\ 2^(round + 1) >= 1
    BY <2>1, Widths
  <2> DEFINE p == 2^(round + 1)
  <2> HIDE DEF p
  <2>4. Width = p * K + 0
    BY <2>2, Widths DEF p
  <2>5. Width \div p = K
    BY <2>3, <2>4, Widths, DivModUnique DEF p
  <2>6. K <= Width
    BY <2>3, <2>4 DEF p
  <2>7. PartsOf(Agree(x, y), p) \subseteq Bits
    BY <2>5, <2>6, Widths DEF PartsOf, Bits
  <2> QED
    BY <1>4, <2>7 DEF Word, p
<1>6. Shape'
  BY <1>1, <1>2, <1>3, <1>5 DEF Shape
<1>7. SyncInv'
  BY <1>1, <1>3, <1>4, Widths DEF SyncInv
<1> QED
  BY <1>1, <1>6, <1>7, OnlyFn DEF WordInv

LEMMA GreaterFirstKeeps == WordInv /\ GreaterFirst => WordInv'
<1> SUFFICES ASSUME WordInv, GreaterFirst PROVE WordInv'
  OBVIOUS
<1>1. /\ fn \in {"greater", "cmp_swap"} /\ result = <<>> /\ round = 0
      /\ fn' = fn /\ x' = x /\ y' = y /\ result' = result /\ round' = 2
      /\ acc' = acc \cap ShiftGreater(acc, 1)
      /\ diag' = ((Xor(x, y) \ {0}) \cup ({0} \ y)) \cap x
  BY DEF GreaterFirst, InGreater, Running
<1>2. Shape /\ GreaterInv
  BY DEF WordInv
<1>3. acc = SuffixOf(Agree(x, y), 1)
  BY <1>1, <1>2 DEF GreaterInv, Compared
<1>4. Compared' = 2
  BY <1>1 DEF Compared
<1>5. acc' = SuffixOf(Agree(x, y), 2)
  <2>1. 1 \in 1 .. LogWidth /\ 1 = 2^(1 - 1)
    BY Widths
  <2>2. SuffixOf(Agree(x, y), 1) \cap ShiftGreater(SuffixOf(Agree(x, y), 1), 1)
          = SuffixOf(Agree(x, y), 2 * 1)
    BY <2>1, SuffixRound
  <2> QED
    BY <1>1, <1>3, <2>2
<1>6. diag' = x \ y
  BY <1>1 DEF Xor
<1>7. Shape'
  <2>1. acc' \in Word /\ diag' \in Word
    BY <1>2, <1>5, <1>6, SuffixType DEF Shape, Word
  <2> QED
    BY <1>1, <1>2, <2>1 DEF Shape
<1>8. GreaterInv'
  BY <1>1, <1>4, <1>5, <1>6, Widths DEF GreaterInv
<1> QED
  BY <1>1, <1>7, <1>8, OnlyFn DEF WordInv

LEMMA GreaterRoundKeeps == WordInv /\ GreaterRound => WordInv'
<1> SUFFICES ASSUME WordInv, GreaterRound PROVE WordInv'
  OBVIOUS
<1>1. /\ fn \in {"greater", "cmp_swap"} /\ result = <<>> /\ round \in 2 .. LogWidth
      /\ fn' = fn /\ x' = x /\ y' = y /\ diag' = diag /\ result' = result
      /\ round' = round + 1 /\ acc' = acc \cap ShiftGreater(acc, round)
  BY DEF GreaterRound, InGreater, Running
<1>2. Shape /\ GreaterInv
  BY DEF WordInv
<1> DEFINE p == 2^(round - 1)
<1>3. round \in 1 .. LogWidth /\ Compared = p /\ 2^round = 2 * p /\ Compared' = 2 * p
  BY <1>1, Widths DEF Compared
<1>4. acc = SuffixOf(Agree(x, y), p) /\ diag = x \ y
  BY <1>1, <1>2, <1>3 DEF GreaterInv
<1>5. acc' = SuffixOf(Agree(x, y), 2 * p)
  BY <1>1, <1>3, <1>4, SuffixRound
<1> HIDE DEF p
<1>6. Shape'
  <2>1. acc' \in Word
    BY <1>5, SuffixType
  <2> QED
    BY <1>1, <1>2, <2>1, Widths DEF Shape
<1>7. GreaterInv'
  BY <1>1, <1>3, <1>4, <1>5, Widths DEF GreaterInv
<1> QED
  BY <1>1, <1>6, <1>7, OnlyFn DEF WordInv

\* The multiplexer of cmp_swap.
LEMMA MuxChooses ==
  ASSUME NEW u \in Word, NEW v \in Word, NEW b
  PROVE  Mux(Bool(b), u, v) = IF b THEN v ELSE u
<1>1. ToBShare(Bool(b)) = Bool(b)
  BY DEF ToBShare, Bool
<1>2. Fill(Bool(b)) = IF b THEN Bits ELSE {}
  BY DEF Fill, Bool
<1>3. CASE b
  BY <1>1, <1>2, <1>3 DEF Mux, Xor, Not, Word
<1>4. CASE ~b
  BY <1>1, <1>2, <1>4 DEF Mux, Xor, Not, Word
<1> QED
  BY <1>3, <1>4

LEMMA GreaterLastKeeps == WordInv /\ GreaterLast => WordInv'
<1> SUFFICES ASSUME WordInv, GreaterLast PROVE WordInv'
  OBVIOUS
<1> DEFINE b == Parity((ShiftRight(acc) \cup {Width - 1}) \cap diag)
           more == Unsigned(x) > Unsigned(y)
<1>1. /\ fn \in {"greater", "cmp_swap"} /\ result = <<>> /\ round > LogWidth
      /\ fn' = fn /\ x' = x /\ y' = y /\ diag' = diag /\ round' = round /\ acc' = acc
      /\ result' = IF fn = "greater" THEN << b >> ELSE << Mux(b, x, y), Mux(b, y, x) >>
  BY DEF GreaterLast, InGreater, Running
<1>2. Shape /\ GreaterInv
  BY DEF WordInv
<1>3. round = LogWidth + 1
  BY <1>1, <1>2, Widths DEF GreaterInv
<1>4. Compared = Width /\ Compared' = Width
  BY <1>1, <1>3, Widths DEF Compared, Width
<1>5. acc = SuffixOf(Agree(x, y), Width) /\ diag = x \ y
  BY <1>1, <1>2, <1>3, <1>4, Widths DEF GreaterInv
<1>6. x \in Word /\ y \in Word
  BY <1>2 DEF Shape
<1>7. b = Bool(more)
  BY <1>5, <1>6, LastOfGreater
<1> HIDE DEF b
<1>8. fn = "greater" => result' = << Bool(more) >>
  BY <1>1, <1>7
<1>9. fn = "cmp_swap" => result' = IF more THEN <<y, x>> ELSE <<x, y>>
  <2>1. Mux(b, x, y) = (IF more THEN y ELSE x) /\ Mux(b, y, x) = (IF more THEN x ELSE y)
    <3> HIDE DEF more
    <3> QED
      BY <1>6, <1>7, MuxChooses
  <2> QED
    BY <1>1, <2>1
<1>10. Shape'
  BY <1>1, <1>2 DEF Shape
<1>11. GreaterInv'
  BY <1>1, <1>3, <1>4, <1>5, <1>8, <1>9, Widths DEF GreaterInv
<1> QED
  BY <1>1, <1>10, <1>11, OnlyFn DEF WordInv

LEMMA CarryKeeps == WordInv /\ Carry => WordInv'
<1> SUFFICES ASSUME WordInv, Carry PROVE WordInv'
  OBVIOUS
<1>1. /\ fn = "boolean_addition" /\ result = <<>> /\ (round = 0 \/ round < Width - 1)
      /\ fn' = fn /\ x' = x /\ y' = y /\ diag' = diag /\ result' = result
      /\ round' = round + 1
      /\ acc' = acc \cup CarryBit(BitOf(x, round), BitOf(y, round), CarryFrom(acc, round))
  BY DEF Carry, Running, BitOf, CarryFrom
<1>2. Shape /\ AddInv
  BY DEF WordInv
<1>3. round \in Nat /\ round < Width - 1 /\ acc = CarriesOf(x, y, round)
  BY <1>1, <1>2, Widths DEF AddInv, Shape
<1>4. acc' = CarriesOf(x, y, round + 1)
  BY <1>1, <1>3, CarryRound
<1>5. Shape'
  <2>1. acc' \subseteq Bits
    BY <1>3, <1>4, Widths DEF CarriesOf, Bits
  <2> QED
    BY <1>1, <1>2, <1>3, <2>1 DEF Shape, Word
<1>6. AddInv'
  BY <1>1, <1>3, <1>4, Widths DEF AddInv
<1> QED
  BY <1>1, <1>5, <1>6, OnlyFn DEF WordInv

LEMMA AddCarriesKeeps == WordInv /\ AddCarries => WordInv'
<1> SUFFICES ASSUME WordInv, AddCarries PROVE WordInv'
  OBVIOUS
<1>1. /\ fn = "boolean_addition" /\ result = <<>> /\ round >= Width - 1
      /\ fn' = fn /\ x' = x /\ y' = y /\ diag' = diag /\ round' = round /\ acc' = acc
      /\ result' = << Xor(Xor(x, y), ShiftLeft(acc)) >>
  BY DEF AddCarries, Running
<1>2. Shape /\ AddInv
  BY DEF WordInv
<1>3. round = Width - 1
  BY <1>1, <1>2, Widths DEF AddInv, Shape
<1>4. Shape'
  BY <1>1, <1>2 DEF Shape
<1>5. AddInv'
  BY <1>1, <1>2, <1>3 DEF AddInv
<1> QED
  BY <1>1, <1>4, <1>5, OnlyFn DEF WordInv

LEMMA AndRoundKeeps == WordInv /\ AndRound => WordInv'
<1> SUFFICES ASSUME WordInv, AndRound PROVE WordInv'
  OBVIOUS
<1>1. /\ fn \in AndAll /\ round > 1
      /\ fn' = fn /\ x' = x /\ y' = y /\ diag' = diag /\ result' = result
      /\ round' = Half(round) /\ acc' = AndOf(acc, round, Groups)
  BY DEF AndRound, AndOf, LeftOf, Half, Pair, Block
<1>2. Shape /\ AndInv
  BY DEF WordInv
<1>3. round \in Nat /\ round >= 2 /\ round <= GroupSize /\ result = <<>>
  BY <1>1, <1>2 DEF AndInv, Shape
<1>4. Groups' = Groups /\ GroupSize' = GroupSize /\ Agree(x, y)' = Agree(x, y)
  BY <1>1 DEF Groups, GroupSize, Agree, Not, Xor
<1>5. Half(round) \in Nat /\ Half(round) >= 1 /\ Half(round) < round
  BY <1>3, HalfFacts
<1>6. acc' \in Word
  <2>1. ASSUME NEW i \in LeftOf(round, Groups) PROVE i \in Bits
    <3>1. PICK k \in 0 .. Groups - 1, j \in 0 .. Half(round) - 1 : i = k * Half(round) + j
      BY DEF LeftOf
    <3>2. k = 0 \/ (k = 1 /\ Groups = 2)
      BY GroupFacts
    <3> DEFINE h == Half(round)
               g == GroupSize + 1
    <3>3. h \in Nat /\ h < g /\ g \in Nat /\ j \in Nat /\ j < h
      BY <1>3, <1>5, GroupFacts
    <3>4. i \in Nat /\ i < Groups * g
      <4>1. CASE k = 0
        <5>1. i = j /\ (Groups = 1 \/ Groups = 2)
          BY <3>1, <3>3, <4>1, GroupFacts
        <5> HIDE DEF h, g
        <5> QED
          BY <3>3, <5>1
      <4>2. CASE k = 1 /\ Groups = 2
        <5>1. i = h + j
          BY <3>1, <3>3, <4>2
        <5> HIDE DEF h, g
        <5> QED
          BY <3>3, <4>2, <5>1
      <4> QED
        BY <3>2, <4>1, <4>2
    <3> QED
      BY <3>4, GroupFacts, Widths DEF Bits
  <2>2. acc \subseteq Bits
    BY <1>2 DEF Shape, Word
  <2> QED
    BY <1>1, <2>1, <2>2 DEF AndOf, Word
<1>7. Shape'
  BY <1>1, <1>2, <1>5, <1>6 DEF Shape
<1>8. AndInv'
  <2>1. ASSUME NEW k \in 0 .. Groups - 1
        PROVE  Block(k, Half(round)) \subseteq acc'
                 <=> Block(k, GroupSize) \subseteq Agree(x, y)
    <3>1. Block(k, Half(round)) \subseteq acc' <=> Block(k, round) \subseteq acc
      BY <1>1, <1>3, AndOfKeeps, GroupFacts
    <3>2. Block(k, round) \subseteq acc <=> Block(k, GroupSize) \subseteq Agree(x, y)
      BY <1>1, <1>2 DEF AndInv
    <3> QED
      BY <3>1, <3>2
  <2>2. \A k \in 0 .. Groups' - 1 :
          Block(k, round') \subseteq acc' <=> Block(k, GroupSize') \subseteq Agree(x, y)'
    BY <1>1, <1>4, <2>1
  <2>3. round' <= GroupSize' /\ result' = <<>>
    BY <1>1, <1>3, <1>4, <1>5, GroupFacts
  <2>4. \A k, n : Block(k, n)' = Block(k, n)
    BY DEF Block
  <2> QED
    BY <2>2, <2>3 DEF AndInv
<1> QED
  BY <1>1, <1>7, <1>8, OnlyFn DEF WordInv

LEMMA AndLastKeeps == WordInv /\ AndLast => WordInv'
<1> SUFFICES ASSUME WordInv, AndLast PROVE WordInv'
  OBVIOUS
<1>1. /\ fn \in AndAll /\ round = 1
      /\ fn' = fn /\ x' = x /\ y' = y /\ diag' = diag /\ round' = round /\ acc' = acc
      /\ result' = << acc \cap 0 .. Groups - 1 >>
  BY DEF AndLast
<1>2. Shape /\ AndInv
  BY DEF WordInv
<1>3. Groups' = Groups /\ GroupSize' = GroupSize /\ Agree(x, y)' = Agree(x, y)
  BY <1>1 DEF Groups, GroupSize, Agree, Not, Xor
<1>4. Shape'
  BY <1>1, <1>2 DEF Shape
<1>5. AndInv'
  BY <1>1, <1>2, <1>3 DEF AndInv
<1> QED
  BY <1>1, <1>4, <1>5, OnlyFn DEF WordInv

LEMMA StutterKeeps == WordInv /\ UNCHANGED vars => WordInv'
<1> SUFFICES ASSUME WordInv, UNCHANGED vars PROVE WordInv'
  OBVIOUS
<1>1. /\ fn' = fn /\ x' = x /\ y' = y /\ diag' = diag /\ round' = round /\ acc' = acc
      /\ result' = result
  BY DEF vars
<1>2. /\ Groups' = Groups /\ GroupSize' = GroupSize /\ Agree(x, y)' = Agree(x, y)
      /\ Compared' = Compared
  BY <1>1 DEF Groups, GroupSize, Agree, Not, Xor, Compared
<1>3. Shape' /\ EqInv' /\ SyncInv' /\ AddInv'
  BY <1>1, <1>2 DEF WordInv, Shape, EqInv, SyncInv, AddInv
<1>4. GreaterInv' /\ AndInv'
  BY <1>1, <1>2 DEF WordInv, GreaterInv, AndInv
<1> QED
  BY <1>3, <1>4 DEF WordInv

\* The loops keep their invariants, for words of every width: WordInv is an
\* invariant of the primitives of primitives.cpp, and inductive.
THEOREM WordInvariant == Spec => []WordInv
<1>1. Init => WordInv
  BY WordsInitially
<1>2. WordInv /\ [Next]_vars => WordInv'
  BY EqRoundKeeps, EqSyncRoundKeeps, GreaterFirstKeeps, GreaterRoundKeeps,
     GreaterLastKeeps, CarryKeeps, AddCarriesKeeps, AndRoundKeeps, AndLastKeeps,
     StutterKeeps DEF Next, Returned
<1> QED
  BY <1>1, <1>2, PTL DEF Spec

-----------------------------------------------------------------------------
(* The properties. *)

\* Every variable keeps its type; no round reads or makes a bit beyond the word.
THEOREM TypeCorrect == Spec => []TypeOK
<1>1. WordInv => TypeOK
  <2> SUFFICES ASSUME WordInv PROVE TypeOK
    OBVIOUS
  <2>1. Shape
    BY DEF WordInv
  <2>2. result = <<>> \/ (\E u \in Word : result = <<u>>) \/ \E u, v \in Word : result = <<u, v>>
    <3>1. \A b : Bool(b) \in Word
      BY Widths DEF Bool, Word, Bits
    <3>2. acc \cap {0} \in Word /\ acc \cap 0 .. Groups - 1 \in Word
      BY <2>1 DEF Shape, Word
    <3>3. Xor(Xor(x, y), ShiftLeft(acc)) \in Word
      BY <2>1 DEF Shape, Word, Xor, ShiftLeft
    <3>4. acc \in Word /\ x \in Word /\ y \in Word /\ fn \in Function
      BY <2>1 DEF Shape
    <3>5. CASE fn = "eq_b" \/ fn = "eq_b_sync"
      BY <3>2, <3>4, <3>5 DEF WordInv, EqInv, SyncInv
    <3>6. CASE fn \in {"greater", "cmp_swap"}
      BY <3>1, <3>4, <3>6 DEF WordInv, GreaterInv
    <3>7. CASE fn = "boolean_addition"
      BY <3>3, <3>7 DEF WordInv, AddInv
    <3>8. CASE fn \in AndAll
      BY <3>2, <3>8 DEF WordInv, AndInv
    <3> QED
      BY <3>4, <3>5, <3>6, <3>7, <3>8 DEF Function
  <2>3. Len(result) <= 2 /\ \A i \in 1 .. Len(result) : result[i] \in Word
    <3>1. CASE result = <<>>
      BY <3>1
    <3>2. ASSUME NEW u \in Word, result = <<u>>
          PROVE  Len(result) <= 2 /\ \A i \in 1 .. Len(result) : result[i] \in Word
      <4>1. Len(<<u>>) = 1 /\ <<u>>[1] = u
        OBVIOUS
      <4> QED
        BY ONLY <3>2, <4>1
    <3>3. ASSUME NEW u \in Word, NEW v \in Word, result = <<u, v>>
          PROVE  Len(result) <= 2 /\ \A i \in 1 .. Len(result) : result[i] \in Word
      <4>1. Len(<<u, v>>) = 2 /\ <<u, v>>[1] = u /\ <<u, v>>[2] = v
        OBVIOUS
      <4> QED
        BY ONLY <3>3, <4>1
    <3> QED
      BY <2>2, <3>1, <3>2, <3>3
  <2> QED
    BY <2>1, <2>3 DEF TypeOK, Shape
<1> QED
  BY <1>1, WordInvariant, PTL

\* eq_b, with rounds 0 to LogWidth - 1, tells whether the lower halves of the words
\* are equal, at every width.
THEOREM EqBComparesLowerHalf == Spec => []EqOfLowerHalf
<1>1. WordInv => EqOfLowerHalf
  <2> SUFFICES ASSUME WordInv, fn = "eq_b", result # <<>>
               PROVE  result[1] = Bool(0 .. Width \div 2 - 1 \subseteq Agree(x, y))
    BY DEF EqOfLowerHalf, Returns
  <2> DEFINE p == 2^(LogWidth - 1)
  <2>1. round = LogWidth /\ result = << acc \cap {0} >> /\ acc = SuffixOf(Agree(x, y), Compared)
    BY DEF WordInv, EqInv
  <2>2. Compared = p /\ p \in Nat /\ p >= 1 /\ Width = 2 * p
    BY <2>1, Widths DEF Compared, Width
  <2> HIDE DEF p
  <2>3. Width \div 2 = p /\ 0 % p = 0 /\ 0 \in Bits /\ (0 - 0) + p - 1 = p - 1
    BY <2>2, Widths DEF Bits
  <2>4. 0 \in SuffixOf(Agree(x, y), p) <=> \A j \in 0 .. p - 1 : j \in Agree(x, y)
    BY <2>3 DEF SuffixOf
  <2> QED
    BY <2>1, <2>2, <2>3, <2>4 DEF Bool
<1> QED
  BY <1>1, WordInvariant, PTL

\* eq_b_sync and eq_b_async tell whether the words are equal.
THEOREM EqSyncCompares == Spec => []EqSyncCorrect
<1>1. WordInv => EqSyncCorrect
  <2> SUFFICES ASSUME WordInv, fn = "eq_b_sync", result # <<>>
               PROVE  result[1] = Bool(x = y)
    BY DEF EqSyncCorrect, Returns
  <2>1. result = << acc >> /\ acc = PartsOf(Agree(x, y), Width)
    BY DEF WordInv, SyncInv, Width
  <2>2. acc = Bool(Bits \subseteq Agree(x, y))
    BY <2>1, PartsAll
  <2>3. x \in Word /\ y \in Word
    BY DEF WordInv, Shape
  <2>4. Bits \subseteq Agree(x, y) <=> x = y
    BY <2>3 DEF Agree, Not, Xor, Word
  <2> QED
    BY <2>1, <2>2, <2>4 DEF Bool
<1> QED
  BY <1>1, WordInvariant, PTL

LEMMA SameSign ==
  ASSUME NEW u \in Word, NEW v \in Word, Negative(u) <=> Negative(v)
  PROVE  /\ Signed(u) > Signed(v) <=> Unsigned(u) > Unsigned(v)
         /\ Signed(u) <= Signed(v) <=> Unsigned(u) <= Unsigned(v)
<1>1. Unsigned(u) \in Nat /\ Unsigned(v) \in Nat /\ 2^Width \in Nat
  BY LowAll, Widths, PowType
<1> DEFINE P == 2^Width
<1>2. CASE Negative(u)
  <2>1. Signed(u) = Unsigned(u) - P /\ Signed(v) = Unsigned(v) - P
    BY <1>2 DEF Signed
  <2> QED
    BY <1>1, <2>1
<1>3. CASE ~ Negative(u)
  <2>1. Signed(u) = Unsigned(u) - 0 /\ Signed(v) = Unsigned(v) - 0
    BY <1>3 DEF Signed
  <2> QED
    BY <1>1, <2>1
<1> QED
  BY <1>2, <1>3

\* "Checks x > y using boolean shares, where x,y have the same sign."
THEOREM GreaterCompares == Spec => []GreaterCorrect
<1>1. WordInv => GreaterCorrect
  <2> SUFFICES ASSUME WordInv, fn = "greater", result # <<>>, Negative(x) <=> Negative(y)
               PROVE  result[1] = Bool(Signed(x) > Signed(y))
    BY DEF GreaterCorrect, Returns
  <2>1. result = << Bool(Unsigned(x) > Unsigned(y)) >>
    BY DEF WordInv, GreaterInv
  <2>2. x \in Word /\ y \in Word
    BY DEF WordInv, Shape
  <2>3. Signed(x) > Signed(y) <=> Unsigned(x) > Unsigned(y)
    BY <2>2, SameSign
  <2> QED
    BY <2>1, <2>3 DEF Bool
<1> QED
  BY <1>1, WordInvariant, PTL

\* cmp_swap returns its two numbers, the smaller one first, if they have the same
\* sign.
THEOREM SwapSorts == Spec => []SwapCorrect
<1>1. WordInv => SwapCorrect
  <2> SUFFICES ASSUME WordInv, fn = "cmp_swap", result # <<>>, Negative(x) <=> Negative(y)
               PROVE  {result[1], result[2]} = {x, y} /\ Signed(result[1]) <= Signed(result[2])
    BY DEF SwapCorrect, Returns
  <2>1. result = IF Unsigned(x) > Unsigned(y) THEN <<y, x>> ELSE <<x, y>>
    BY DEF WordInv, GreaterInv
  <2>2. x \in Word /\ y \in Word /\ Unsigned(x) \in Nat /\ Unsigned(y) \in Nat
    BY LowAll DEF WordInv, Shape
  <2>3. CASE Unsigned(x) > Unsigned(y)
    <3>1. result[1] = y /\ result[2] = x
      BY <2>1, <2>3
    <3>2. Signed(y) <= Signed(x)
      BY <2>2, <2>3, SameSign
    <3> QED
      BY <3>1, <3>2
  <2>4. CASE ~ (Unsigned(x) > Unsigned(y))
    <3>1. result[1] = x /\ result[2] = y
      BY <2>1, <2>4
    <3>2. Signed(x) <= Signed(y)
      BY <2>2, <2>4, SameSign
    <3> QED
      BY <3>1, <3>2
  <2> QED
    BY <2>3, <2>4
<1> QED
  BY <1>1, WordInvariant, PTL

\* boolean_addition adds modulo 2^Width.
THEOREM AdderAdds == Spec => []AdditionCorrect
<1>1. WordInv => AdditionCorrect
  <2> SUFFICES ASSUME WordInv, fn = "boolean_addition", result # <<>>
               PROVE  Unsigned(result[1]) = (Unsigned(x) + Unsigned(y)) % 2^Width
    BY DEF AdditionCorrect, Returns
  <2>1. result[1] = Xor(Xor(x, y), ShiftLeft(CarriesOf(x, y, Width - 1)))
    BY DEF WordInv, AddInv
  <2>2. x \in Word /\ y \in Word
    BY DEF WordInv, Shape
  <2> QED
    BY <2>1, <2>2, AdderSum
<1> QED
  BY <1>1, WordInvariant, PTL

\* The invariants of the loops as the runs check them.
THEOREM LoopInvariants == Spec => []RoundsKeep
<1>1. WordInv => RoundsKeep
  <2> SUFFICES ASSUME WordInv PROVE RoundsKeep
    OBVIOUS
  <2>1. fn = "eq_b_sync" =>
          acc = {j \in 0 .. Width \div 2^round - 1 :
                   \A i \in j * 2^round .. (j + 1) * 2^round - 1 : i \in Agree(x, y)}
    BY DEF WordInv, SyncInv, PartsOf
  <2>2. InGreater /\ round > 0 =>
          LET part == 2^(round - 1)
          IN  acc = {i \in Bits :
                       \A j \in i .. (i - (i % part)) + part - 1 : j \in Agree(x, y)}
    <3> SUFFICES ASSUME InGreater, round > 0
                 PROVE  acc = SuffixOf(Agree(x, y), 2^(round - 1))
      BY DEF SuffixOf
    <3> QED
      BY DEF WordInv, GreaterInv, InGreater, Running, Compared
  <2>3. fn = "boolean_addition" =>
          \A i \in 0 .. round - 1 :
            i \in acc <=> Unsigned(x \cap 0 .. i) + Unsigned(y \cap 0 .. i) >= 2^(i + 1)
    BY UnsignedIsPowSum DEF WordInv, AddInv, CarriesOf, Overflows
  <2>4. fn \in AndAll =>
          \A k \in 0 .. Groups - 1 :
            k * round .. (k + 1) * round - 1 \subseteq acc
              <=> k * GroupSize .. (k + 1) * GroupSize - 1 \subseteq Agree(x, y)
    BY DEF WordInv, AndInv, Block
  <2> QED
    BY <2>1, <2>2, <2>3, <2>4 DEF RoundsKeep
<1> QED
  BY <1>1, WordInvariant, PTL

=============================================================================
