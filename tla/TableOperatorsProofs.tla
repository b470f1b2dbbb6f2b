------------------------ MODULE TableOperatorsProofs ------------------------
(***************************************************************************)
(* Proofs about TableOperators for tables of every size, any sort keys and *)
(* any batches: the sort network sorts, the tree of the semi-join finds    *)
(* the rows without a partner, every index is a row of the table, and the  *)
(* table of a plan that is done shows the answer of its query.             *)
(***************************************************************************)
EXTENDS TableOperators, FiniteSums, SequenceTheorems

-----------------------------------------------------------------------------
(* The order of rows. *)

Sortable(keys) == keys \in Seq(Key) /\ Len(keys) \in 1 .. 3

LEMMA ColumnInt ==
  ASSUME NEW key \in Key, NEW x \in Row
  PROVE  x[key.col] \in Int
<1>1. \A n \in Word : n \in Int
  BY DEF Word
<1>2. key.col \in Columns
  BY DEF Key
<1>3. x[key.col] \in Word
  BY <1>2 DEF Row
<1> QED
  BY <1>1, <1>3

\* One key orders the rows.
LEMMA KeyOrder ==
  ASSUME NEW key \in Key, NEW x \in Row, NEW y \in Row, NEW z \in Row
  PROVE  /\ ~ Greater(key, x, x) /\ Equal(key, x, x)
         /\ Equal(key, x, y) <=> ~ Greater(key, x, y) /\ ~ Greater(key, y, x)
         /\ ~ (Greater(key, x, y) /\ Greater(key, y, x))
         /\ Equal(key, x, y) => Equal(key, y, x)
         /\ Equal(key, x, y) /\ Equal(key, y, z) => Equal(key, x, z)
         /\ Greater(key, x, y) /\ Greater(key, y, z) => Greater(key, x, z)
         /\ Greater(key, x, y) /\ Equal(key, y, z) => Greater(key, x, z)
         /\ Equal(key, x, y) /\ Greater(key, y, z) => Greater(key, x, z)
  BY ColumnInt DEF Greater, Equal

\* Before, key by key.
LEMMA BeforeByKeys ==
  ASSUME NEW keys, Sortable(keys), NEW x, NEW y
  PROVE  Before(keys, x, y) <=>
           \/ Greater(keys[1], y, x)
           \/ Len(keys) >= 2 /\ Equal(keys[1], x, y) /\ Greater(keys[2], y, x)
           \/ /\ Len(keys) = 3 /\ Equal(keys[1], x, y) /\ Equal(keys[2], x, y)
              /\ Greater(keys[3], y, x)
<1>1. DOMAIN keys = 1 .. Len(keys)
  BY DEF Sortable
<1>2. Len(keys) \in 1 .. 3
  BY DEF Sortable
<1>3. Before(keys, x, y) <=>
        \E i \in 1 .. Len(keys) : /\ \A j \in 1 .. i - 1 : Equal(keys[j], x, y)
                                  /\ Greater(keys[i], y, x)
  BY <1>1 DEF Before
<1>4. CASE Len(keys) = 1
  BY <1>3, <1>4
<1>5. CASE Len(keys) = 2
  BY <1>3, <1>5
<1>6. CASE Len(keys) = 3
  BY <1>3, <1>6
<1> QED
  BY <1>2, <1>4, <1>5, <1>6

\* What cmp_swap_batch computes for a pair of rows is whether they are out of order.
LEMMA CompositeIsBefore ==
  ASSUME NEW keys, Sortable(keys), NEW x \in Row, NEW y \in Row
  PROVE  Composite(keys, x, y) <=> Before(keys, y, x)
<1>1. keys[1] \in Key /\ (Len(keys) >= 2 => keys[2] \in Key)
      /\ (Len(keys) = 3 => keys[3] \in Key) /\ Len(keys) \in 1 .. 3
  BY DEF Sortable
<1>2. \A key \in Key : /\ Equal(key, x, y) <=> Equal(key, y, x)
                       /\ Equal(key, x, y) => ~ Greater(key, x, y)
  BY KeyOrder
<1>3. Before(keys, y, x) <=>
           \/ Greater(keys[1], x, y)
           \/ Len(keys) >= 2 /\ Equal(keys[1], y, x) /\ Greater(keys[2], x, y)
           \/ /\ Len(keys) = 3 /\ Equal(keys[1], y, x) /\ Equal(keys[2], y, x)
              /\ Greater(keys[3], x, y)
  BY BeforeByKeys
<1>4. CASE Len(keys) = 1
  BY <1>1, <1>2, <1>3, <1>4 DEF Composite
<1>5. CASE Len(keys) = 2
  BY <1>1, <1>2, <1>3, <1>5 DEF Composite
<1>6. CASE Len(keys) = 3
  BY <1>1, <1>2, <1>3, <1>6 DEF Composite
<1> QED
  BY <1>1, <1>4, <1>5, <1>6

\* Before is a strict order, and rows that it does not order are alike.
LEMMA BeforeOrder ==
  ASSUME NEW keys, Sortable(keys), NEW x \in Row, NEW y \in Row, NEW z \in Row
  PROVE  /\ ~ Before(keys, x, x)
         /\ ~ (Before(keys, x, y) /\ Before(keys, y, x))
         /\ Before(keys, x, y) => Before(keys, x, z) \/ Before(keys, z, y)
<1>1. /\ keys[1] \in Key /\ (Len(keys) >= 2 => keys[2] \in Key)
      /\ (Len(keys) = 3 => keys[3] \in Key) /\ Len(keys) \in 1 .. 3
  BY DEF Sortable
<1> DEFINE g(k, u, v) == Greater(keys[k], u, v)
           e(k, u, v) == Equal(keys[k], u, v)
           ok(k) == keys[k] \in Key =>
             \A u, v, w \in Row :
               /\ ~ g(k, u, u) /\ e(k, u, u)
               /\ e(k, u, v) <=> ~ g(k, u, v) /\ ~ g(k, v, u)
               /\ ~ (g(k, u, v) /\ g(k, v, u))
               /\ e(k, u, v) => e(k, v, u)
               /\ e(k, u, v) /\ e(k, v, w) => e(k, u, w)
               /\ g(k, u, v) /\ g(k, v, w) => g(k, u, w)
               /\ g(k, u, v) /\ e(k, v, w) => g(k, u, w)
               /\ e(k, u, v) /\ g(k, v, w) => g(k, u, w)
<1>2. ok(1) /\ ok(2) /\ ok(3)
  BY KeyOrder
<1>3. \A u, v \in Row : Before(keys, u, v) <=>
           \/ g(1, v, u)
           \/ Len(keys) >= 2 /\ e(1, u, v) /\ g(2, v, u)
           \/ Len(keys) = 3 /\ e(1, u, v) /\ e(2, u, v) /\ g(3, v, u)
  BY BeforeByKeys
<1> HIDE DEF g, e
<1>4. CASE Len(keys) = 1
  BY <1>1, <1>2, <1>3, <1>4
<1>5. CASE Len(keys) = 2
  BY <1>1, <1>2, <1>3, <1>5
<1>6. CASE Len(keys) = 3
  BY <1>1, <1>2, <1>3, <1>6
<1> QED
  BY <1>1, <1>4, <1>5, <1>6

-----------------------------------------------------------------------------
(* A column of the network, box by box.  Compared with a row z, a box of the *)
(* table is a set of places: those with a row not before z.                  *)

Alternate(S, a, b, c, e) ==
  \/ a \in S /\ b \notin S /\ c \in S /\ e \notin S
  \/ a \notin S /\ b \in S /\ c \notin S /\ e \in S

\* S is an interval of the circle 0 .. w - 1.
Cyclic(S, w) ==
  \A a, b, c, e \in 0 .. w - 1 : a < b /\ b < c /\ c < e => ~ Alternate(S, a, b, c, e)

\* Cyclic intervals stay such when the two halves of the circle are laid upon
\* each other.
LEMMA CyclicHalves ==
  ASSUME NEW d \in Nat, NEW S, Cyclic(S, 2 * d)
  PROVE  /\ Cyclic({i \in 0 .. d - 1 : i \in S /\ i + d \in S}, d)
         /\ Cyclic({i \in 0 .. d - 1 : i \in S \/ i + d \in S}, d)
<1> DEFINE both == {i \in 0 .. d - 1 : i \in S /\ i + d \in S}
           some == {i \in 0 .. d - 1 : i \in S \/ i + d \in S}
<1>1. SUFFICES ASSUME NEW i \in 0 .. d - 1, NEW j \in 0 .. d - 1, NEW k \in 0 .. d - 1,
                      NEW l \in 0 .. d - 1, i < j, j < k, k < l
               PROVE  ~ Alternate(both, i, j, k, l) /\ ~ Alternate(some, i, j, k, l)
  BY DEF Cyclic
<1>2. /\ ~ Alternate(S, i, j, k, l) /\ ~ Alternate(S, i, j, k, l + d)
      /\ ~ Alternate(S, i, j, k + d, l + d) /\ ~ Alternate(S, i + d, j + d, k + d, l + d)
      /\ ~ Alternate(S, l, i + d, j + d, k + d) /\ ~ Alternate(S, j, k, l, i + d)
  BY <1>1 DEF Cyclic
<1> QED
  BY <1>2 DEF Alternate

AtLeast(keys, T, z, base, w) == {r \in 0 .. w - 1 : ~ Before(keys, T[base + r], z)}

\* Rows x and y change places if they are out of order: x is then the smaller one.
Least(keys, x, y) == IF Before(keys, y, x) THEN y ELSE x
Greatest(keys, x, y) == IF Before(keys, y, x) THEN x ELSE y

LEMMA LeastAtLeast ==
  ASSUME NEW keys, Sortable(keys), NEW x \in Row, NEW y \in Row, NEW z \in Row
  PROVE  /\ ~ Before(keys, Least(keys, x, y), z)
              <=> ~ Before(keys, x, z) /\ ~ Before(keys, y, z)
         /\ ~ Before(keys, Greatest(keys, x, y), z)
              <=> ~ Before(keys, x, z) \/ ~ Before(keys, y, z)
         /\ Least(keys, x, y) \in Row /\ Greatest(keys, x, y) \in Row
<1>1. /\ ~ (Before(keys, x, y) /\ Before(keys, y, x))
      /\ Before(keys, y, z) => Before(keys, y, x) \/ Before(keys, x, z)
      /\ Before(keys, x, z) => Before(keys, x, y) \/ Before(keys, y, z)
  BY BeforeOrder
<1>2. Before(keys, y, x) => (Before(keys, x, z) => Before(keys, y, z))
  BY <1>1
<1>3. ~ Before(keys, y, x) => (Before(keys, y, z) => Before(keys, x, z))
  BY <1>1
<1>4. CASE Before(keys, y, x)
  BY <1>2, <1>4 DEF Least, Greatest
<1>5. CASE ~ Before(keys, y, x)
  BY <1>3, <1>5 DEF Least, Greatest
<1> QED
  BY <1>4, <1>5

\* lo and hi are the rows of a box after its halves have been compared.
Compared(keys, T, base, d, lo, hi) ==
  \A r \in 0 .. d - 1 : /\ lo[r] = Least(keys, T[base + r], T[base + r + d])
                        /\ hi[r] = Greatest(keys, T[base + r], T[base + r + d])

\* The half cleaner: of a box whose rows go up and down once, around the circle, no
\* row of the lower half is after a row of the upper half, and both halves are
\* such boxes again.
LEMMA HalfCleaner ==
  ASSUME NEW keys, Sortable(keys), NEW d \in Nat, NEW base \in Nat, NEW T,
         \A r \in 0 .. 2 * d - 1 : T[base + r] \in Row,
         \A z \in Row : Cyclic(AtLeast(keys, T, z, base, 2 * d), 2 * d),
         NEW lo, NEW hi, Compared(keys, T, base, d, lo, hi)
  PROVE  /\ \A r, s \in 0 .. d - 1 : ~ Before(keys, hi[s], lo[r])
         /\ \A z \in Row : /\ Cyclic({r \in 0 .. d - 1 : ~ Before(keys, lo[r], z)}, d)
                           /\ Cyclic({r \in 0 .. d - 1 : ~ Before(keys, hi[r], z)}, d)
         /\ \A r \in 0 .. d - 1 : lo[r] \in Row /\ hi[r] \in Row
<1> DEFINE S(z) == AtLeast(keys, T, z, base, 2 * d)
<1>1. ASSUME NEW r \in 0 .. d - 1
      PROVE  /\ lo[r] \in Row /\ hi[r] \in Row
             /\ \A z \in Row : /\ ~ Before(keys, lo[r], z) <=> r \in S(z) /\ r + d \in S(z)
                               /\ ~ Before(keys, hi[r], z) <=> r \in S(z) \/ r + d \in S(z)
  <2>1. /\ r \in 0 .. 2 * d - 1 /\ r + d \in 0 .. 2 * d - 1
        /\ base + (r + d) = base + r + d
    OBVIOUS
  <2>2. T[base + r] \in Row /\ T[base + r + d] \in Row
    BY <2>1
  <2>3. /\ lo[r] = Least(keys, T[base + r], T[base + r + d])
        /\ hi[r] = Greatest(keys, T[base + r], T[base + r + d])
    BY DEF Compared
  <2>4. \A z \in Row : /\ r \in S(z) <=> ~ Before(keys, T[base + r], z)
                       /\ r + d \in S(z) <=> ~ Before(keys, T[base + r + d], z)
    BY <2>1 DEF AtLeast
  <2> HIDE DEF S
  <2> QED
    BY <2>2, <2>3, <2>4, LeastAtLeast
<1> HIDE DEF S
<1>2. ASSUME NEW z \in Row
      PROVE  /\ Cyclic({r \in 0 .. d - 1 : ~ Before(keys, lo[r], z)}, d)
             /\ Cyclic({r \in 0 .. d - 1 : ~ Before(keys, hi[r], z)}, d)
  <2>1. /\ {r \in 0 .. d - 1 : ~ Before(keys, lo[r], z)}
             = {r \in 0 .. d - 1 : r \in S(z) /\ r + d \in S(z)}
        /\ {r \in 0 .. d - 1 : ~ Before(keys, hi[r], z)}
             = {r \in 0 .. d - 1 : r \in S(z) \/ r + d \in S(z)}
    BY <1>1
  <2>2. Cyclic(S(z), 2 * d)
    BY DEF S
  <2> QED
    BY <2>1, <2>2, CyclicHalves
<1>3. ASSUME NEW r \in 0 .. d - 1, NEW s \in 0 .. d - 1, Before(keys, hi[s], lo[r])
      PROVE  FALSE
  <2> DEFINE z == lo[r]
  <2>1. z \in Row
    BY <1>1
  <2>2. r \in S(z) /\ r + d \in S(z)
    BY <1>1, <2>1, BeforeOrder
  <2>3. s \notin S(z) /\ s + d \notin S(z)
    BY <1>1, <1>3, <2>1
  <2> HIDE DEF z
  <2>4. Cyclic(S(z), 2 * d)
    BY <2>1 DEF S
  <2>5. r < s => ~ Alternate(S(z), r, s, r + d, s + d)
    BY <2>4 DEF Cyclic
  <2>6. s < r => ~ Alternate(S(z), s, r, s + d, r + d)
    BY <2>4 DEF Cyclic
  <2>7. r # s
    BY <2>2, <2>3
  <2> QED
    BY <2>2, <2>3, <2>5, <2>6, <2>7 DEF Alternate
<1> QED
  BY <1>1, <1>2, <1>3

-----------------------------------------------------------------------------
(* Tables of n rows.  A block consists of C boxes of w rows; the blocks are   *)
(* sorted up and down in turn.                                               *)

\* The boxes of a block are in order: rows of different boxes are.
Blocked(keys, T, n, w, C) ==
  \A u \in Nat, v1, v2 \in 0 .. C - 1, r1, r2 \in 0 .. w - 1 :
    v1 < v2 /\ w * (C * u + v2) + w <= n
      => InOrder(keys, u % 2 = 0, T[w * (C * u + v1) + r1], T[w * (C * u + v2) + r2])

\* The rows of a box go up and down once, around the circle.
Bitonic(keys, T, n, w) ==
  \A b \in Nat, z \in Row : w * b + w <= n => Cyclic(AtLeast(keys, T, z, w * b, w), w)

\* The halves of a box of T have been compared and exchanged.
PairExchanged(keys, T, E, i, d, up) ==
  LET x == T[i]
      y == T[i + d]
  IN  IF up THEN E[i] = Least(keys, x, y) /\ E[i + d] = Greatest(keys, x, y)
      ELSE E[i] = Greatest(keys, x, y) /\ E[i + d] = Least(keys, x, y)

BoxExchanged(keys, T, E, base, d, up) ==
  \A r \in 0 .. d - 1 : PairExchanged(keys, T, E, base + r, d, up)

Exchanged(keys, T, E, n, d, C) ==
  \A u \in Nat, v \in 0 .. C - 1 :
    2 * d * (C * u + v) + 2 * d <= n
      => BoxExchanged(keys, T, E, 2 * d * (C * u + v), d, u % 2 = 0)

\* What a box is before and after a column.
BoxReady(keys, T, base, w) ==
  /\ \A r \in 0 .. w - 1 : T[base + r] \in Row
  /\ \A z \in Row : Cyclic(AtLeast(keys, T, z, base, w), w)

BoxSorted(keys, T, E, base, d, up) ==
  /\ \A r, s \in 0 .. d - 1 : InOrder(keys, up, E[base + r], E[base + d + s])
  /\ \A z \in Row : /\ Cyclic(AtLeast(keys, E, z, base, d), d)
                    /\ Cyclic(AtLeast(keys, E, z, base + d, d), d)
  /\ \A r \in 0 .. 2 * d - 1 : \E s \in 0 .. 2 * d - 1 : E[base + r] = T[base + s]

LEMMA BoxSorts ==
  ASSUME NEW keys, Sortable(keys), NEW d \in Nat, NEW base \in Nat, NEW T, NEW E,
         NEW up \in BOOLEAN, BoxReady(keys, T, base, 2 * d),
         BoxExchanged(keys, T, E, base, d, up)
  PROVE  BoxSorted(keys, T, E, base, d, up)
<1> USE DEF BoxReady, BoxSorted
<1> DEFINE lo == [r \in 0 .. d - 1 |-> Least(keys, T[base + r], T[base + r + d])]
           hi == [r \in 0 .. d - 1 |-> Greatest(keys, T[base + r], T[base + r + d])]
<1>1. Compared(keys, T, base, d, lo, hi)
  BY DEF Compared
<1>2. \A r \in 0 .. d - 1 :
        /\ base + r + d = base + d + r
        /\ up => E[base + r] = lo[r] /\ E[base + d + r] = hi[r]
        /\ ~ up => E[base + r] = hi[r] /\ E[base + d + r] = lo[r]
  <2>1. \A r \in 0 .. d - 1 : base + r + d = base + d + r
    OBVIOUS
  <2> QED
    BY <2>1 DEF BoxExchanged, PairExchanged
<1>3. /\ \A r, s \in 0 .. d - 1 : ~ Before(keys, hi[s], lo[r])
      /\ \A z \in Row : /\ Cyclic({r \in 0 .. d - 1 : ~ Before(keys, lo[r], z)}, d)
                        /\ Cyclic({r \in 0 .. d - 1 : ~ Before(keys, hi[r], z)}, d)
  <2> HIDE DEF lo, hi
  <2> QED
    BY <1>1, HalfCleaner
<1>4. \A r \in 0 .. 2 * d - 1 : \E s \in 0 .. 2 * d - 1 : E[base + r] = T[base + s]
  <2>1. ASSUME NEW r \in 0 .. d - 1
        PROVE  /\ \E s \in 0 .. 2 * d - 1 : lo[r] = T[base + s]
               /\ \E s \in 0 .. 2 * d - 1 : hi[r] = T[base + s]
    <3>1. r \in 0 .. 2 * d - 1 /\ r + d \in 0 .. 2 * d - 1 /\ base + (r + d) = base + r + d
      OBVIOUS
    <3>2. /\ lo[r] = T[base + r] \/ lo[r] = T[base + (r + d)]
          /\ hi[r] = T[base + r] \/ hi[r] = T[base + (r + d)]
      BY <3>1 DEF Least, Greatest
    <3> HIDE DEF lo, hi
    <3> QED
      BY <3>1, <3>2
  <2> HIDE DEF lo, hi
  <2>2. ASSUME NEW r \in 0 .. 2 * d - 1
        PROVE  \E s \in 0 .. 2 * d - 1 : E[base + r] = T[base + s]
    <3>1. CASE r < d
      <4>1. r \in 0 .. d - 1
        BY <3>1
      <4>2. E[base + r] = lo[r] \/ E[base + r] = hi[r]
        BY <1>2, <4>1
      <4> QED
        BY <2>1, <4>1, <4>2
    <3>2. CASE ~ (r < d)
      <4>1. r - d \in 0 .. d - 1 /\ base + d + (r - d) = base + r
        BY <3>2
      <4>2. E[base + r] = lo[r - d] \/ E[base + r] = hi[r - d]
        BY <1>2, <4>1
      <4> QED
        BY <2>1, <4>1, <4>2
    <3> QED
      BY <3>1, <3>2
  <2> QED
    BY <2>2
<1> HIDE DEF lo, hi
<1>5. CASE up
  <2>1. \A z \in Row : /\ AtLeast(keys, E, z, base, d) = {r \in 0 .. d - 1 : ~ Before(keys, lo[r], z)}
                       /\ AtLeast(keys, E, z, base + d, d) = {r \in 0 .. d - 1 : ~ Before(keys, hi[r], z)}
    BY <1>2, <1>5 DEF AtLeast
  <2>2. \A r, s \in 0 .. d - 1 : InOrder(keys, up, E[base + r], E[base + d + s])
    BY <1>2, <1>3, <1>5 DEF InOrder
  <2> QED
    BY <1>3, <1>4, <2>1, <2>2
<1>6. CASE ~ up
  <2>1. \A z \in Row : /\ AtLeast(keys, E, z, base, d) = {r \in 0 .. d - 1 : ~ Before(keys, hi[r], z)}
                       /\ AtLeast(keys, E, z, base + d, d) = {r \in 0 .. d - 1 : ~ Before(keys, lo[r], z)}
    BY <1>2, <1>6 DEF AtLeast
  <2>2. \A r, s \in 0 .. d - 1 : InOrder(keys, up, E[base + r], E[base + d + s])
    BY <1>2, <1>3, <1>6 DEF InOrder
  <2> QED
    BY <1>3, <1>4, <2>1, <2>2
<1> QED
  BY <1>5, <1>6

\* The columns of a network of n = (2 * d * C) * K rows: with boxes of 2 * d rows,
\* bitonic and in order within their block, a column leaves such boxes of d rows.
LEMMA ColumnSorts ==
  ASSUME NEW keys, Sortable(keys), NEW d \in Nat, d >= 1, NEW C \in Nat, C >= 1,
         NEW n \in Nat, NEW K \in Nat, n = 2 * d * K,
         NEW T, \A i \in 0 .. n - 1 : T[i] \in Row, NEW E,
         Blocked(keys, T, n, 2 * d, C), Bitonic(keys, T, n, 2 * d),
         Exchanged(keys, T, E, n, d, C)
  PROVE  Blocked(keys, E, n, d, 2 * C) /\ Bitonic(keys, E, n, d)
<1> DEFINE w == 2 * d
<1>1. w \in Nat /\ w >= 1 /\ n = w * K /\ w = d + d
  OBVIOUS
<1> DEFINE Sorted(base, up) == BoxSorted(keys, T, E, base, d, up)
<1>2. ASSUME NEW u \in Nat, NEW v \in 0 .. C - 1, w * (C * u + v) + w <= n
      PROVE  Sorted(w * (C * u + v), u % 2 = 0)
  <2> DEFINE b == C * u + v
             base == w * b
  <2>1. b \in Nat /\ base \in Nat /\ base + w <= n
    <3>1. b \in Nat
      OBVIOUS
    <3>2. w * b \in Nat
      <4> HIDE DEF b, w
      <4> QED
        BY <1>1, <3>1
    <3> QED
      BY <1>2, <3>1, <3>2
  <2>2. \A r \in 0 .. w - 1 : T[base + r] \in Row
    <3> HIDE DEF base, w
    <3>1. \A r \in 0 .. w - 1 : base + r \in 0 .. n - 1
      BY <1>1, <2>1
    <3> QED
      BY <3>1
  <2>3. \A z \in Row : Cyclic(AtLeast(keys, T, z, base, w), w)
    BY <2>1 DEF Bitonic
  <2>4. BoxExchanged(keys, T, E, base, d, u % 2 = 0)
    BY <1>2 DEF Exchanged
  <2> DEFINE up == u % 2 = 0
  <2>5. up \in BOOLEAN /\ BoxReady(keys, T, base, 2 * d)
    BY <2>2, <2>3 DEF BoxReady
  <2>6. BoxExchanged(keys, T, E, base, d, up)
    BY <2>4
  <2> HIDE DEF base, up
  <2>7. Sorted(base, up)
    BY <2>1, <2>5, <2>6, BoxSorts
  <2> QED
    BY <2>7 DEF base, up
\* The boxes of d rows of a block are numbered from 0; number 2 * x + h is a half of
\* box x of w rows.
<1>3. ASSUME NEW u \in Nat, NEW x \in 0 .. C - 1, NEW h \in 0 .. 1
      PROVE  d * (2 * C * u + (2 * x + h)) = w * (C * u + x) + h * d
  OBVIOUS
<1>4. ASSUME NEW v \in 0 .. 2 * C - 1
      PROVE  \E x \in 0 .. C - 1, h \in 0 .. 1 : v = 2 * x + h
  <2>1. v = 2 * (v \div 2) + (v % 2) /\ v % 2 \in 0 .. 1 /\ v \div 2 \in 0 .. C - 1
    OBVIOUS
  <2> QED
    BY <2>1
<1>5. ASSUME NEW u \in Nat, NEW x \in 0 .. C - 1, NEW h \in 0 .. 1,
             (w * (C * u + x) + h * d) + d <= n
      PROVE  w * (C * u + x) + w <= n
  <2> DEFINE b == C * u + x
  <2>1. b \in Nat
    OBVIOUS
  <2>2. w * b + d <= w * K
    BY <1>1, <1>5
  <2> HIDE DEF b, w
  <2>3. b < K
    <3>1. SUFFICES ASSUME K <= b PROVE FALSE
      BY <2>1
    <3>2. w * K <= w * b
      BY <1>1, <2>1, <3>1
    <3>3. w * b \in Nat /\ w * K \in Nat
      BY <1>1, <2>1
    <3> QED
      BY <2>2, <3>2, <3>3
  <2>4. w * (b + 1) <= w * K
    BY <1>1, <2>1, <2>3
  <2>5. w * (b + 1) = w * b + w
    BY <1>1, <2>1
  <2> QED
    BY <1>1, <2>4, <2>5 DEF b
\* The places of half h of box x of block u.
<1> DEFINE P(u, x, h) == w * (C * u + x) + h * d
<1>6. Bitonic(keys, E, n, d)
  <2> SUFFICES ASSUME NEW b \in Nat, NEW z \in Row, d * b + d <= n
               PROVE  Cyclic(AtLeast(keys, E, z, d * b, d), d)
    BY DEF Bitonic
  <2>1. PICK u \in Nat, v \in 0 .. 2 * C - 1 : b = 2 * C * u + v
    <3>1. 2 * C \in Nat /\ 2 * C >= 1
      OBVIOUS
    <3> DEFINE m == 2 * C
    <3>2. m \in Nat /\ m >= 1
      BY <3>1
    <3> HIDE DEF m
    <3>3. b \div m \in Nat /\ b % m \in 0 .. m - 1 /\ b = m * (b \div m) + (b % m)
      BY <3>2, DivMod
    <3> QED
      BY <3>3 DEF m
  <2>2. PICK x \in 0 .. C - 1, h \in 0 .. 1 : v = 2 * x + h
    BY <1>4
  <2>3. d * b = P(u, x, h)
    BY <1>3, <2>1, <2>2
  <2>4. w * (C * u + x) + w <= n
    BY <1>5, <2>3
  <2>5. Sorted(w * (C * u + x), u % 2 = 0)
    BY <1>2, <2>4
  <2>6. P(u, x, h) = w * (C * u + x) \/ P(u, x, h) = w * (C * u + x) + d
    OBVIOUS
  <2> QED
    BY <2>3, <2>5, <2>6 DEF BoxSorted
<1>7. Blocked(keys, E, n, d, 2 * C)
  <2> SUFFICES ASSUME NEW u \in Nat, NEW v1 \in 0 .. 2 * C - 1, NEW v2 \in 0 .. 2 * C - 1,
                      NEW r1 \in 0 .. d - 1, NEW r2 \in 0 .. d - 1,
                      v1 < v2, d * (2 * C * u + v2) + d <= n
               PROVE  InOrder(keys, u % 2 = 0, E[d * (2 * C * u + v1) + r1],
                                               E[d * (2 * C * u + v2) + r2])
    BY DEF Blocked
  <2>1. PICK x1 \in 0 .. C - 1, h1 \in 0 .. 1 : v1 = 2 * x1 + h1
    BY <1>4
  <2>2. PICK x2 \in 0 .. C - 1, h2 \in 0 .. 1 : v2 = 2 * x2 + h2
    BY <1>4
  <2>3. /\ d * (2 * C * u + v1) = w * (C * u + x1) + h1 * d
        /\ d * (2 * C * u + v2) = w * (C * u + x2) + h2 * d
    BY <1>3, <2>1, <2>2
  <2>4. x1 < x2 \/ (x1 = x2 /\ h1 = 0 /\ h2 = 1)
    BY <2>1, <2>2
  <2>5. w * (C * u + x2) + w <= n
    BY <1>5, <2>3
  <2>6. Sorted(w * (C * u + x2), u % 2 = 0)
    BY <1>2, <2>5
  <2>7. CASE x1 < x2
    <3>1. w * (C * u + x1) + w <= n
      <4> DEFINE b1 == C * u + x1
                 b2 == C * u + x2
      <4>1. b1 \in Nat /\ b2 \in Nat /\ b1 <= b2
        BY <2>7
      <4> HIDE DEF b1, b2
      <4>2. w * b1 <= w * b2 /\ w * b1 \in Nat /\ w * b2 \in Nat
        BY <1>1, <4>1
      <4> QED
        BY <1>1, <2>5, <4>2 DEF b1, b2
    <3>2. Sorted(w * (C * u + x1), u % 2 = 0)
      BY <1>2, <3>1
    <3>3. h1 * d + r1 \in 0 .. w - 1 /\ h2 * d + r2 \in 0 .. w - 1
      <4>1. (h1 = 0 \/ h1 = 1) /\ (h2 = 0 \/ h2 = 1)
        OBVIOUS
      <4> QED
        BY <4>1
    <3>4. /\ \E s \in 0 .. w - 1 : E[w * (C * u + x1) + (h1 * d + r1)] = T[w * (C * u + x1) + s]
          /\ \E s \in 0 .. w - 1 : E[w * (C * u + x2) + (h2 * d + r2)] = T[w * (C * u + x2) + s]
      BY <2>6, <3>2, <3>3 DEF BoxSorted
    <3>5. \A s1, s2 \in 0 .. w - 1 :
            InOrder(keys, u % 2 = 0, T[w * (C * u + x1) + s1], T[w * (C * u + x2) + s2])
      BY <2>5, <2>7 DEF Blocked
    <3>6. /\ d * (2 * C * u + v1) + r1 = w * (C * u + x1) + (h1 * d + r1)
          /\ d * (2 * C * u + v2) + r2 = w * (C * u + x2) + (h2 * d + r2)
      BY <2>3
    <3> QED
      BY <3>4, <3>5, <3>6
  <2>8. CASE x1 = x2 /\ h1 = 0 /\ h2 = 1
    <3>1. /\ d * (2 * C * u + v1) + r1 = w * (C * u + x2) + r1
          /\ d * (2 * C * u + v2) + r2 = w * (C * u + x2) + d + r2
      BY <2>3, <2>8
    <3> QED
      BY <2>6, <3>1 DEF BoxSorted
  <2> QED
    BY <2>4, <2>7, <2>8
<1> QED
  BY <1>6, <1>7

\* A phase begins with blocks of L sorted rows, up and down in turn: two of them
\* make a bitonic box.
LEMMA PhaseStarts ==
  ASSUME NEW keys, Sortable(keys), NEW L \in Nat, L >= 1,
         NEW n \in Nat, NEW T, \A i \in 0 .. n - 1 : T[i] \in Row,
         Blocked(keys, T, n, 1, L)
  PROVE  Blocked(keys, T, n, 2 * L, 1) /\ Bitonic(keys, T, n, 2 * L)
<1>1. Blocked(keys, T, n, 2 * L, 1)
  BY DEF Blocked
<1>2. ASSUME NEW b \in Nat, NEW z \in Row, 2 * L * b + 2 * L <= n
      PROVE  Cyclic(AtLeast(keys, T, z, 2 * L * b, 2 * L), 2 * L)
  <2> DEFINE base == 2 * L * b
             S == AtLeast(keys, T, z, base, 2 * L)
  <2>1. base \in Nat /\ base + 2 * L <= n
    <3>1. L * b \in Nat
      OBVIOUS
    <3> QED
      BY <1>2, <3>1
  <2>2. L * (2 * b) = base /\ L * (2 * b + 1) = base + L
    OBVIOUS
  <2>3. (2 * b) % 2 = 0 /\ (2 * b + 1) % 2 # 0 /\ 2 * b \in Nat /\ 2 * b + 1 \in Nat
    OBVIOUS
  <2>4. ASSUME NEW r \in 0 .. L - 1, NEW s \in 0 .. L - 1, r < s
        PROVE  /\ ~ Before(keys, T[base + s], T[base + r])
               /\ ~ Before(keys, T[base + L + r], T[base + L + s])
    <3>1. /\ 1 * (L * (2 * b) + r) + 0 = base + r /\ 1 * (L * (2 * b) + s) + 0 = base + s
          /\ 1 * (L * (2 * b) + s) + 1 <= n
      BY <2>1, <2>2
    <3>2. /\ 1 * (L * (2 * b + 1) + r) + 0 = base + L + r
          /\ 1 * (L * (2 * b + 1) + s) + 0 = base + L + s
          /\ 1 * (L * (2 * b + 1) + s) + 1 <= n
      BY <2>1, <2>2
    <3>3. 0 \in 0 .. 1 - 1
      OBVIOUS
    <3>4. InOrder(keys, (2 * b) % 2 = 0, T[base + r], T[base + s])
      <4>1. InOrder(keys, (2 * b) % 2 = 0, T[1 * (L * (2 * b) + r) + 0],
                                           T[1 * (L * (2 * b) + s) + 0])
        BY <2>3, <2>4, <3>1, <3>3 DEF Blocked
      <4> QED
        BY <3>1, <4>1
    <3>5. InOrder(keys, (2 * b + 1) % 2 = 0, T[base + L + r], T[base + L + s])
      <4>1. InOrder(keys, (2 * b + 1) % 2 = 0, T[1 * (L * (2 * b + 1) + r) + 0],
                                               T[1 * (L * (2 * b + 1) + s) + 0])
        BY <2>3, <2>4, <3>2, <3>3 DEF Blocked
      <4> QED
        BY <3>2, <4>1
    <3> QED
      BY <2>3, <3>4, <3>5 DEF InOrder
  <2> HIDE DEF base
  <2>5. \A r \in 0 .. 2 * L - 1 : T[base + r] \in Row
    BY <2>1
  <2>6. \A r \in 0 .. 2 * L - 1 : r \in S <=> ~ Before(keys, T[base + r], z)
    BY DEF AtLeast
  <2> HIDE DEF S
  <2>7. ASSUME NEW r \in 0 .. 2 * L - 1, NEW s \in 0 .. 2 * L - 1, r < s
        PROVE  /\ s < L /\ r \in S => s \in S
               /\ r >= L /\ s \in S => r \in S
    <3>1. T[base + r] \in Row /\ T[base + s] \in Row
      BY <2>5
    <3>2. CASE s < L
      <4>1. ~ Before(keys, T[base + s], T[base + r])
        BY <2>4, <2>7, <3>2
      <4>2. Before(keys, T[base + s], z)
              => Before(keys, T[base + s], T[base + r]) \/ Before(keys, T[base + r], z)
        BY <3>1, BeforeOrder
      <4> QED
        BY <2>6, <2>7, <3>2, <4>1, <4>2
    <3>3. CASE r >= L
      <4>1. r - L \in 0 .. L - 1 /\ s - L \in 0 .. L - 1 /\ r - L < s - L
        BY <2>7, <3>3
      <4>2. base + L + (r - L) = base + r /\ base + L + (s - L) = base + s
        BY <2>1
      <4>3. ~ Before(keys, T[base + L + (r - L)], T[base + L + (s - L)])
        BY <2>4, <4>1
      <4>4. ~ Before(keys, T[base + r], T[base + s])
        BY <4>2, <4>3
      <4>5. Before(keys, T[base + r], z)
              => Before(keys, T[base + r], T[base + s]) \/ Before(keys, T[base + s], z)
        BY <3>1, BeforeOrder
      <4> QED
        BY <2>6, <2>7, <3>3, <4>4, <4>5
    <3> QED
      BY <3>2, <3>3
  <2>8. Cyclic(S, 2 * L)
    <3> SUFFICES ASSUME NEW a \in 0 .. 2 * L - 1, NEW c \in 0 .. 2 * L - 1,
                        NEW e \in 0 .. 2 * L - 1, NEW f \in 0 .. 2 * L - 1,
                        a < c, c < e, e < f, Alternate(S, a, c, e, f)
                 PROVE  FALSE
      BY DEF Cyclic
    <3>1. CASE a \in S /\ c \notin S /\ e \in S /\ f \notin S
      <4>1. c >= L
        BY <2>7, <3>1
      <4> QED
        BY <2>7, <3>1, <4>1
    <3>2. CASE a \notin S /\ c \in S /\ e \notin S /\ f \in S
      <4>1. e >= L
        BY <2>7, <3>2
      <4> QED
        BY <2>7, <3>2, <4>1
    <3> QED
      BY <3>1, <3>2 DEF Alternate
  <2> QED
    BY <2>8 DEF base, S
<1> QED
  BY <1>1, <1>2 DEF Bitonic

-----------------------------------------------------------------------------
(* The comparisons of a column, in the order of the batches.  Comparison      *)
(* d * b + r is that of row r of box b with the row d places after it.        *)

Spot(d, b, r) == 2 * d * b + r
Comparison(d, b, r) == d * b + r
Low(d, q) == 2 * d * (q \div d) + (q % d)

LEMMA LowIs ==
  ASSUME NEW d \in Nat, d >= 1, NEW b \in Nat, NEW r \in 0 .. d - 1
  PROVE  Low(d, Comparison(d, b, r)) = Spot(d, b, r) /\ Comparison(d, b, r) \in Nat
<1>1. d * b \in Nat
  OBVIOUS
<1>2. (d * b + r) % d = r /\ (d * b + r) \div d = b
  BY <1>1, DivModUnique
<1> QED
  BY <1>1, <1>2 DEF Low, Spot, Comparison

LEMMA BoxAndRow ==
  ASSUME NEW d \in Nat, d >= 1, NEW q \in Nat
  PROVE  \E b \in Nat, r \in 0 .. d - 1 : q = Comparison(d, b, r)
<1>1. q \div d \in Nat /\ q % d \in 0 .. d - 1 /\ q = d * (q \div d) + (q % d)
  BY DivMod
<1> QED
  BY <1>1 DEF Comparison

LEMMA SpotFacts ==
  ASSUME NEW d \in Nat, d >= 1, NEW b \in Nat, NEW r \in 0 .. d - 1
  PROVE  /\ Spot(d, b, r) \in Nat
         /\ Spot(d, b, r) \div (2 * d) = b
         /\ (Spot(d, b, r) \div d) % 2 = 0
         /\ ((Spot(d, b, r) + d) \div d) % 2 = 1
<1> DEFINE i == 2 * d * b + r
<1>1. d * b \in Nat
  OBVIOUS
<1>2. i = 2 * (d * b) + r /\ i = (2 * d) * b + r /\ i = d * (2 * b) + r
      /\ i + d = d * (2 * b + 1) + r
  OBVIOUS
<1>3. i \in Nat /\ i + d \in Nat
  BY <1>1, <1>2
<1>4. i \div (2 * d) = b
  <2>1. 2 * d \in Nat /\ 2 * d >= 1 /\ r < 2 * d
    OBVIOUS
  <2> HIDE DEF i
  <2> QED
    BY <1>2, <1>3, <2>1, DivModUnique
<1>5. i \div d = 2 * b /\ (i + d) \div d = 2 * b + 1
  <2> HIDE DEF i
  <2> QED
    BY <1>2, <1>3, DivModUnique
<1> QED
  BY <1>3, <1>4, <1>5 DEF Spot

LEMMA SpotUnique ==
  ASSUME NEW d \in Nat, d >= 1, NEW b \in Nat, NEW r \in 0 .. d - 1,
         NEW c \in Nat, NEW s \in 0 .. d - 1, Spot(d, b, r) = Spot(d, c, s)
  PROVE  b = c /\ r = s
<1>1. b = c
  BY SpotFacts
<1> QED
  BY <1>1 DEF Spot

LEMMA NextLow ==
  ASSUME NEW d \in Nat, d >= 1, Distance = d, NEW q \in Nat
  PROVE  NextIndex(Low(d, q)) = Low(d, q + 1)
<1>1. PICK b \in Nat, r \in 0 .. d - 1 : q = Comparison(d, b, r)
  BY BoxAndRow
<1>2. Low(d, q) = Spot(d, b, r)
  BY <1>1, LowIs
<1>3. (Spot(d, b, r) \div (2 * d)) * 2 * d = 2 * d * b
  <2>1. Spot(d, b, r) \div (2 * d) = b
    BY SpotFacts
  <2> QED
    BY <2>1
<1>4. 2 * d * b \in Nat
  <2>1. d * b \in Nat /\ 2 * d * b = 2 * (d * b)
    OBVIOUS
  <2> QED
    BY <2>1
<1>5. NextIndex(Spot(d, b, r)) = IF r + 1 >= d THEN 2 * d * b + 2 * d ELSE 2 * d * b + r + 1
  <2>1. Spot(d, b, r) + 1 >= 2 * d * b + d <=> r + 1 >= d
    BY <1>4 DEF Spot
  <2>2. NextIndex(Spot(d, b, r)) =
          IF Spot(d, b, r) + 1 >= 2 * d * b + d THEN 2 * d * b + 2 * d ELSE Spot(d, b, r) + 1
    BY <1>3 DEF NextIndex
  <2>3. Spot(d, b, r) + 1 = 2 * d * b + r + 1
    BY DEF Spot
  <2> QED
    BY ONLY <2>1, <2>2, <2>3
<1>6. CASE r + 1 >= d
  <2> DEFINE c == b + 1
  <2>1. q + 1 = d * c + 0 /\ 2 * d * c + 0 = 2 * d * b + 2 * d
    BY <1>1, <1>6 DEF Comparison
  <2>2. c \in Nat /\ 0 \in 0 .. d - 1
    OBVIOUS
  <2> HIDE DEF c
  <2>3. Low(d, Comparison(d, c, 0)) = Spot(d, c, 0)
    BY <2>2, LowIs
  <2>4. Low(d, q + 1) = 2 * d * c + 0
    BY ONLY <2>1, <2>3 DEF Comparison, Spot
  <2> QED
    BY <1>2, <1>5, <1>6, <2>1, <2>4
<1>7. CASE ~ (r + 1 >= d)
  <2>1. q + 1 = d * b + (r + 1) /\ r + 1 \in 0 .. d - 1
        /\ 2 * d * b + (r + 1) = 2 * d * b + r + 1
    BY <1>1, <1>4, <1>7 DEF Comparison
  <2>2. Low(d, Comparison(d, b, r + 1)) = Spot(d, b, r + 1)
    BY <2>1, LowIs
  <2>3. Low(d, q + 1) = 2 * d * b + (r + 1)
    BY ONLY <2>1, <2>2 DEF Comparison, Spot
  <2> QED
    BY <1>2, <1>5, <1>7, <2>1, <2>3
<1> QED
  BY <1>6, <1>7

\* The batch that starts with comparison m has the comparisons that follow.
LEMMA PositionIs ==
  ASSUME NEW d \in Nat, d >= 1, Distance = d, NEW m \in Nat, at = Low(d, m)
  PROVE  \A k \in Nat : Position[k] = Low(d, m + k)
<1> DEFINE F(f) == [k \in Nat |-> IF k = 0 THEN at ELSE NextIndex(f[k - 1])]
           g == [k \in Nat |-> Low(d, m + k)]
<1>1. g = F(g)
  <2>1. ASSUME NEW k \in Nat
        PROVE  Low(d, m + k) = IF k = 0 THEN at ELSE NextIndex(g[k - 1])
    <3>1. CASE k = 0
      BY <3>1
    <3>2. CASE k # 0
      <4>1. k - 1 \in Nat /\ m + (k - 1) \in Nat /\ m + (k - 1) + 1 = m + k
        BY <3>2
      <4>2. NextIndex(Low(d, m + (k - 1))) = Low(d, m + k)
        BY <4>1, NextLow
      <4> QED
        BY <3>2, <4>1, <4>2
    <3> QED
      BY <3>1, <3>2
  <2> QED
    BY <2>1
<1>2. Position = F(Position)
  <2>1. Position = CHOOSE f : f = F(f)
    BY DEF Position
  <2> HIDE DEF F, g
  <2> QED
    BY <1>1, <2>1
<1>3. \A k \in Nat : Position[k] = IF k = 0 THEN at ELSE NextIndex(Position[k - 1])
  BY <1>2
<1> DEFINE S == {k \in Nat : Position[k] = Low(d, m + k)}
<1>4. 0 \in S
  BY <1>3
<1>5. ASSUME NEW k \in Nat, k \in S PROVE k + 1 \in S
  <2>1. (k + 1) - 1 = k /\ k + 1 # 0 /\ m + (k + 1) = (m + k) + 1 /\ m + k \in Nat
    OBVIOUS
  <2>2. Position[k + 1] = NextIndex(Position[k])
    BY <1>3, <2>1
  <2>3. NextIndex(Low(d, m + k)) = Low(d, (m + k) + 1)
    BY <2>1, NextLow
  <2> QED
    BY <1>5, <2>1, <2>2, <2>3
<1> HIDE DEF S
<1>6. Nat \subseteq S
  BY <1>4, <1>5, InductionSet
<1> QED
  BY <1>6 DEF S

\* A comparison is with the row of the same place in the other half of the box, and
\* its direction is that of the block.
Exchanges(d, u, i) ==
  /\ Partner(i) = i + d
  /\ Swapped(i) =
       IF u % 2 = 0 THEN << Least(SortKeys, rows[i], rows[i + d]),
                            Greatest(SortKeys, rows[i], rows[i + d]) >>
       ELSE << Greatest(SortKeys, rows[i], rows[i + d]),
               Least(SortKeys, rows[i], rows[i + d]) >>

LEMMA SwappedIs ==
  ASSUME NEW d \in Nat, d >= 1, Distance = d, NEW C \in Nat, C >= 1,
         2^(phase + 1) = 2 * d * C, Sortable(SortKeys),
         NEW u \in Nat, NEW v \in 0 .. C - 1, NEW b, b = C * u + v, NEW r \in 0 .. d - 1,
         rows[Spot(d, b, r)] \in Row, rows[Spot(d, b, r) + d] \in Row
  PROVE  Exchanges(d, u, Spot(d, b, r))
<1> DEFINE i == Spot(d, b, r)
<1>1. b \in Nat
  OBVIOUS
<1>2. i \in Nat /\ (i \div d) % 2 = 0
  BY <1>1, SpotFacts
<1>3. Partner(i) = i + d
  BY <1>2 DEF Partner
<1>4. Up(i) <=> u % 2 = 0
  <2> DEFINE s == 2 * d * v + r
             p == 2 * d * C
  <2>1. p \in Nat /\ p >= 1
    <3>1. d * C \in Nat /\ d * C >= 1
      OBVIOUS
    <3>2. p = 2 * (d * C)
      OBVIOUS
    <3> QED
      BY <3>1, <3>2
  <2>2. s \in Nat /\ s < p
    <3>1. d * v \in Nat /\ d * v <= d * (C - 1)
      OBVIOUS
    <3>2. d * (C - 1) = d * C - d /\ d * C \in Nat
      OBVIOUS
    <3>3. s = 2 * (d * v) + r /\ p = 2 * (d * C)
      OBVIOUS
    <3> QED
      BY <3>1, <3>2, <3>3
  <2>3. i = p * u + s
    BY DEF Spot
  <2> HIDE DEF p, s, i
  <2>4. i \div p = u
    BY <1>2, <2>1, <2>2, <2>3, DivModUnique
  <2> QED
    BY <2>4 DEF Up, p
<1> HIDE DEF i
<1>5. Composite(SortKeys, rows[i], rows[i + d]) <=> Before(SortKeys, rows[i + d], rows[i])
  BY CompositeIsBefore DEF i
<1> SUFFICES /\ Partner(i) = i + d
             /\ Swapped(i) =
                  IF u % 2 = 0 THEN << Least(SortKeys, rows[i], rows[i + d]),
                                       Greatest(SortKeys, rows[i], rows[i + d]) >>
                  ELSE << Greatest(SortKeys, rows[i], rows[i + d]),
                          Least(SortKeys, rows[i], rows[i + d]) >>
  BY DEF i, Exchanges
<1> QED
  BY <1>3, <1>4, <1>5 DEF Swapped, Least, Greatest

\* The comparisons 0 .. m - 1 of a column have been made, of rows that were old.
HalfDone(keys, old, T, n, d, C, m) ==
  \A u \in Nat, v \in 0 .. C - 1, r \in 0 .. d - 1 :
    2 * d * (C * u + v) + 2 * d <= n =>
      LET i == Spot(d, C * u + v, r)
      IN  IF Comparison(d, C * u + v, r) < m
          THEN PairExchanged(keys, old, T, i, d, u % 2 = 0)
          ELSE T[i] = old[i] /\ T[i + d] = old[i + d]

LEMMA SpotInTable ==
  ASSUME NEW d \in Nat, d >= 1, NEW b \in Nat, NEW r \in 0 .. d - 1,
         NEW n \in Nat, 2 * d * b + 2 * d <= n
  PROVE  Spot(d, b, r) \in 0 .. n - 1 /\ Spot(d, b, r) + d \in 0 .. n - 1
  BY SpotFacts DEF Spot

\* The rows after a batch that starts with comparison m.
LEMMA BatchRows ==
  ASSUME NEW d \in Nat, d >= 1, Distance = d, N \in Nat,
         NEW m \in Nat, at = Low(d, m), NEW B \in Nat, BatchSize = B,
         SortBatch, NEW b \in Nat, NEW r \in 0 .. d - 1, 2 * d * b + 2 * d <= N
  PROVE  LET i == Spot(d, b, r)
         IN  IF Comparison(d, b, r) \in m .. m + B - 1
             THEN rows'[i] = Swapped(i)[1] /\ rows'[i + d] = Swapped(i)[2]
             ELSE rows'[i] = rows[i] /\ rows'[i + d] = rows[i + d]
<1> DEFINE i == Spot(d, b, r)
           firsts == {Position[k] : k \in 0 .. BatchSize - 1} \cap Index
<1>1. i \in Index /\ i + d \in Index
  BY SpotInTable DEF Index
<1>2. rows' = [j \in Index |->
                 IF \E f \in firsts : Partner(f) = j
                 THEN Swapped(CHOOSE f \in firsts : Partner(f) = j)[2]
                 ELSE IF j \in firsts THEN Swapped(j)[1] ELSE rows[j]]
  BY DEF SortBatch
<1>3. ASSUME NEW f \in firsts
      PROVE  \E c \in Nat, s \in 0 .. d - 1 :
               /\ f = Spot(d, c, s) /\ Comparison(d, c, s) \in m .. m + B - 1
               /\ Partner(f) = f + d
  <2>1. PICK k \in 0 .. B - 1 : f = Position[k]
    OBVIOUS
  <2>2. k \in Nat /\ m + k \in Nat
    OBVIOUS
  <2>3. f = Low(d, m + k)
    BY <2>1, <2>2, PositionIs
  <2>4. PICK c \in Nat, s \in 0 .. d - 1 : m + k = Comparison(d, c, s)
    BY <2>2, BoxAndRow
  <2>5. f = Spot(d, c, s)
    BY <2>3, <2>4, LowIs
  <2>6. Partner(f) = f + d
    BY <2>5, SpotFacts DEF Partner
  <2> QED
    BY <2>4, <2>5, <2>6
<1>4. i \in firsts <=> Comparison(d, b, r) \in m .. m + B - 1
  <2>1. ASSUME i \in firsts PROVE Comparison(d, b, r) \in m .. m + B - 1
    <3>1. PICK c \in Nat, s \in 0 .. d - 1 :
            i = Spot(d, c, s) /\ Comparison(d, c, s) \in m .. m + B - 1
      BY <1>3, <2>1
    <3>2. b = c /\ r = s
      BY <3>1, SpotUnique
    <3> QED
      BY <3>1, <3>2
  <2>2. ASSUME Comparison(d, b, r) \in m .. m + B - 1 PROVE i \in firsts
    <3> DEFINE q == Comparison(d, b, r)
    <3>1. Low(d, q) = i /\ q \in Nat
      BY LowIs
    <3>2. q - m \in 0 .. B - 1 /\ q - m \in Nat /\ m + (q - m) = q
      BY <2>2, <3>1
    <3> HIDE DEF q, i
    <3>3. Position[q - m] = i
      BY <3>1, <3>2, PositionIs
    <3> QED
      BY <1>1, <3>2, <3>3
  <2> QED
    BY <2>1, <2>2
<1>5. ~ \E f \in firsts : Partner(f) = i
  <2> SUFFICES ASSUME NEW f \in firsts, Partner(f) = i PROVE FALSE
    OBVIOUS
  <2>1. PICK c \in Nat, s \in 0 .. d - 1 : f = Spot(d, c, s) /\ Partner(f) = f + d
    BY <1>3
  <2>2. (i \div d) % 2 = 0 /\ ((Spot(d, c, s) + d) \div d) % 2 = 1
    BY SpotFacts
  <2> HIDE DEF i
  <2> QED
    BY <2>1, <2>2
<1>6. \A f \in firsts : Partner(f) = i + d <=> f = i
  <2> TAKE f \in firsts
  <2>1. PICK c \in Nat, s \in 0 .. d - 1 : f = Spot(d, c, s) /\ Partner(f) = f + d
    BY <1>3
  <2>2. f \in Nat /\ i \in Nat
    BY <2>1, SpotFacts
  <2> HIDE DEF i
  <2> QED
    BY <2>1, <2>2
<1>7. i + d \notin firsts
  <2> SUFFICES ASSUME i + d \in firsts PROVE FALSE
    OBVIOUS
  <2>1. PICK c \in Nat, s \in 0 .. d - 1 : i + d = Spot(d, c, s)
    BY <1>3
  <2>2. (Spot(d, c, s) \div d) % 2 = 0 /\ ((i + d) \div d) % 2 = 1
    BY SpotFacts
  <2> HIDE DEF i
  <2> QED
    BY <2>1, <2>2
<1> HIDE DEF i, firsts
<1>8. rows'[i] = IF i \in firsts THEN Swapped(i)[1] ELSE rows[i]
  BY <1>1, <1>2, <1>5
<1>9. rows'[i + d] = IF i \in firsts THEN Swapped(i)[2] ELSE rows[i + d]
  <2>1. CASE i \in firsts
    <3>1. (CHOOSE f \in firsts : Partner(f) = i + d) = i
      BY <1>6, <2>1
    <3> QED
      BY <1>1, <1>2, <1>6, <2>1, <3>1
  <2>2. CASE i \notin firsts
    BY <1>1, <1>2, <1>6, <1>7, <2>2
  <2> QED
    BY <2>1, <2>2
<1> QED
  BY <1>4, <1>8, <1>9 DEF i

LEMMA BatchKeepsHalf ==
  ASSUME NEW d \in Nat, d >= 1, Distance = d, NEW C \in Nat, C >= 1,
         2^(phase + 1) = 2 * d * C, N \in Nat, Sortable(SortKeys),
         \A i \in Index : rows[i] \in Row,
         NEW m \in Nat, at = Low(d, m), NEW B \in Nat, BatchSize = B,
         SortBatch, NEW old, HalfDone(SortKeys, old, rows, N, d, C, m)
  PROVE  HalfDone(SortKeys, old, rows', N, d, C, m + B)
<1> DEFINE keys == SortKeys
<1> SUFFICES ASSUME NEW u \in Nat, NEW v \in 0 .. C - 1, NEW r \in 0 .. d - 1,
                    2 * d * (C * u + v) + 2 * d <= N
             PROVE  LET i == Spot(d, C * u + v, r)
                    IN  IF Comparison(d, C * u + v, r) < m + B
                        THEN PairExchanged(keys, old, rows', i, d, u % 2 = 0)
                        ELSE rows'[i] = old[i] /\ rows'[i + d] = old[i + d]
  BY DEF HalfDone
<1> DEFINE b == C * u + v
           i == Spot(d, b, r)
           q == Comparison(d, b, r)
           up == u % 2 = 0
<1>1. b \in Nat /\ 2 * d * b + 2 * d <= N
  OBVIOUS
<1>2. IF q < m THEN PairExchanged(keys, old, rows, i, d, up)
      ELSE rows[i] = old[i] /\ rows[i + d] = old[i + d]
  BY DEF HalfDone
<1> HIDE DEF b
<1>3. q \in Nat /\ i \in Index /\ i + d \in Index
  BY <1>1, LowIs, SpotInTable DEF Index
<1>4. rows[i] \in Row /\ rows[i + d] \in Row
  BY <1>3
<1>5. IF q \in m .. m + B - 1
      THEN rows'[i] = Swapped(i)[1] /\ rows'[i + d] = Swapped(i)[2]
      ELSE rows'[i] = rows[i] /\ rows'[i + d] = rows[i + d]
  BY <1>1, BatchRows
<1>6. Swapped(i) = IF up THEN << Least(keys, rows[i], rows[i + d]),
                                 Greatest(keys, rows[i], rows[i + d]) >>
                   ELSE << Greatest(keys, rows[i], rows[i + d]),
                           Least(keys, rows[i], rows[i + d]) >>
  <2>1. b = C * u + v
    BY DEF b
  <2>2. rows[Spot(d, b, r)] \in Row /\ rows[Spot(d, b, r) + d] \in Row
    BY <1>4
  <2>3. Exchanges(d, u, Spot(d, b, r))
    BY <2>1, <2>2, SwappedIs
  <2> QED
    BY <2>3 DEF Exchanges
<1> HIDE DEF i, q, up, keys
<1>7. IF q < m + B THEN PairExchanged(keys, old, rows', i, d, up)
      ELSE rows'[i] = old[i] /\ rows'[i + d] = old[i + d]
  <2>1. CASE q < m
    BY <1>2, <1>3, <1>5, <2>1 DEF PairExchanged
  <2>2. CASE q \in m .. m + B - 1
    <3>1. rows[i] = old[i] /\ rows[i + d] = old[i + d]
      BY <1>2, <1>3, <2>2
    <3>2. CASE up
      BY <1>3, <1>5, <1>6, <2>2, <3>1, <3>2 DEF PairExchanged
    <3>3. CASE ~ up
      BY <1>3, <1>5, <1>6, <2>2, <3>1, <3>3 DEF PairExchanged
    <3> QED
      BY <3>2, <3>3
  <2>3. CASE q >= m + B
    BY <1>2, <1>3, <1>5, <2>3
  <2> QED
    BY <1>3, <2>1, <2>2, <2>3
<1> QED
  BY <1>7 DEF i, q, up, b, keys

\* When all comparisons of a column have been made, all boxes have been exchanged.
LEMMA AllDone ==
  ASSUME NEW keys, NEW old, NEW T, NEW n \in Nat, NEW d \in Nat, d >= 1,
         NEW C \in Nat, C >= 1, NEW K \in Nat, n = 2 * d * K,
         HalfDone(keys, old, T, n, d, C, d * K)
  PROVE  Exchanged(keys, old, T, n, d, C)
<1> SUFFICES ASSUME NEW u \in Nat, NEW v \in 0 .. C - 1, NEW r \in 0 .. d - 1,
                    2 * d * (C * u + v) + 2 * d <= n
             PROVE  PairExchanged(keys, old, T, 2 * d * (C * u + v) + r, d, u % 2 = 0)
  BY DEF Exchanged, BoxExchanged
<1> DEFINE b == C * u + v
<1>1. b \in Nat
  OBVIOUS
<1>2. 2 * d * b + 2 * d <= 2 * d * K
  OBVIOUS
<1>3. Comparison(d, b, r) < d * K
  <2> HIDE DEF b
  <2>1. d * b \in Nat /\ d * K \in Nat /\ 2 * d * b = 2 * (d * b) /\ 2 * d * K = 2 * (d * K)
    BY <1>1
  <2> QED
    BY <1>2, <2>1 DEF Comparison
<1> QED
  BY <1>3 DEF HalfDone, Spot

\* The sizes of a sort: boxes, blocks and batches divide the table.
LEMMA SortSizes ==
  ASSUME NEW a \in Nat, N = 2^a, NEW e \in Nat, e < a, BatchSize = 2^e,
         phase \in Nat, phase < a, column \in 0 .. phase
  PROVE  /\ Distance \in Nat /\ Distance >= 1 /\ 2^column \in Nat /\ 2^column >= 1
         /\ 2^phase \in Nat /\ 2^phase >= 1 /\ N \in Nat
         /\ 2^phase = Distance * 2^column /\ 2^(phase + 1) = 2 * Distance * 2^column
         /\ \E K, J \in Nat : /\ N = 2 * Distance * K /\ N \div 2 = Distance * K
                              /\ Distance * K = BatchSize * J /\ J >= 1
                              /\ (N \div 2) \div BatchSize = J
                              /\ BatchSize \in Nat /\ BatchSize >= 1
<1> DEFINE d == 2^(phase - column)
           C == 2^column
           K == 2^(a - 1 - (phase - column))
           B == 2^e
           J == 2^(a - 1 - e)
           H == 2^(a - 1)
<1>1. /\ phase - column \in Nat /\ phase - column <= a - 1 /\ a - 1 \in Nat
      /\ e <= a - 1 /\ column \in Nat /\ column <= phase
      /\ a - 1 - (phase - column) \in Nat /\ a - 1 - e \in Nat
  OBVIOUS
<1>2. /\ d \in Nat /\ d >= 1 /\ C \in Nat /\ C >= 1 /\ K \in Nat /\ B \in Nat /\ B >= 1
      /\ J \in Nat /\ J >= 1 /\ H \in Nat /\ 2^phase \in Nat /\ 2^phase >= 1
  BY <1>1, PowPositive
<1>3. H = d * K
  BY <1>1, PowSplit
<1>4. H = B * J
  BY <1>1, PowSplit
<1>5. N = 2 * H
  <2>1. (a - 1) + 1 = a
    OBVIOUS
  <2> QED
    BY <1>1, <2>1, PowDouble
<1>6. 2^phase = C * d
  BY <1>1, PowSplit
<1>7. 2^(phase + 1) = 2 * 2^phase
  BY PowDouble
<1>8. Distance = d
  BY DEF Distance
<1> HIDE DEF d, C, K, B, J, H
<1>9. N \div 2 = H /\ N \in Nat
  BY <1>2, <1>5
<1>10. H \div B = J
  <2>1. H = B * J + 0
    BY <1>2, <1>4
  <2> QED
    BY <1>2, <2>1, DivModUnique
<1>11. N = 2 * d * K /\ C * d = d * C /\ 2 * (C * d) = 2 * d * C
  BY <1>2, <1>3, <1>5
<1>12. /\ Distance \in Nat /\ Distance >= 1 /\ C \in Nat /\ C >= 1
       /\ 2^phase = Distance * C /\ 2^(phase + 1) = 2 * Distance * C
  BY <1>2, <1>6, <1>7, <1>8, <1>11
<1>13. /\ N = 2 * Distance * K /\ N \div 2 = Distance * K
       /\ Distance * K = BatchSize * J /\ J >= 1 /\ (N \div 2) \div BatchSize = J
       /\ BatchSize \in Nat /\ BatchSize >= 1
  <2>1. BatchSize = B
    BY DEF B
  <2> QED
    BY <1>2, <1>3, <1>4, <1>8, <1>9, <1>10, <1>11, <2>1
<1> QED
  BY <1>2, <1>9, <1>12, <1>13 DEF C

-----------------------------------------------------------------------------
(* The inductive invariant. *)

\* The rows before a column: what the columns and phases before it have done.
ColumnReady(T) ==
  /\ Blocked(SortKeys, T, N, 2 * Distance, 2^column)
  /\ Bitonic(SortKeys, T, N, 2 * Distance)
  /\ column = 0 => Blocked(SortKeys, T, N, 1, 2^phase)

\* A batch leaves the rows of a column between those before it and those after it.
ColumnHalf ==
  \E old \in [Index -> Row] :
    /\ ColumnReady(old)
    /\ HalfDone(SortKeys, old, rows, N, Distance, 2^column, turn * BatchSize)

SortInv ==
  pc = "columns" =>
    /\ Sorting
    /\ phase \in Nat /\ column \in 0 .. phase
    /\ \E a \in Nat : N = 2^a /\ phase <= a
    /\ 2^phase = N => column = 0 /\ turn = 0 /\ Blocked(SortKeys, rows, N, 1, 2^phase)
    /\ 2^phase < N => /\ turn \in 0 .. (N \div 2) \div BatchSize - 1
                      /\ at = Low(Distance, turn * BatchSize)
                      /\ turn = 0 => ColumnReady(rows)
                      /\ ColumnHalf

TreeInv ==
  pc = "levels" =>
    /\ ops # <<>> /\ Op.kind = "semi_join"
    /\ at \in Index
    /\ DOMAIN work = Rows(LeftEnd - at)
    /\ \E e \in Nat : NR = 2^e /\ column \in 0 .. e
    /\ TreeKeeps

PlaceInv ==
  /\ pc \in {"start", "levels", "columns", "adjacent"}
  /\ at \in Nat
  /\ pc \in {"start", "levels"} => phase = 0 /\ turn = 0
  /\ pc = "start" /\ Sorting => column = 0 /\ at = 0
  /\ pc = "adjacent" => /\ ops # <<>> /\ Op.kind \in {"distinct", "adjacent_eq"}
                        /\ DOMAIN work = Index

DataInv ==
  /\ in \in Calls
  /\ \E k \in 0 .. Len(in.ops) : ops = SubSeq(in.ops, k + 1, Len(in.ops))
  /\ \E a \in Nat : /\ rows \in [0 .. 2^a - 1 -> Row] /\ in.batch <= 2^a
                    /\ Has(in, "join") => 2^a % in.lefts = 0
  /\ used \in BOOLEAN
  /\ \A k \in DOMAIN work : work[k] \in {0, 1}

TableInv == DataInv /\ PlaceInv /\ SortInv /\ TreeInv

-----------------------------------------------------------------------------
(* Sizes, words and operators of a state. *)

LEMMA PowMonotone ==
  ASSUME NEW m \in Nat, NEW n \in Nat, m <= n
  PROVE  2^m <= 2^n
<1> DEFINE p == 2^m
           q == 2^(n - m)
<1>1. 2^n = p * q /\ n - m \in Nat
  BY PowSplit
<1>2. p \in Nat /\ q \in Nat /\ q >= 1
  BY <1>1, PowPositive
<1> HIDE DEF p, q
<1>3. p <= p * q
  BY <1>2
<1> QED
  BY <1>1, <1>3 DEF p

LEMMA PowInjective ==
  ASSUME NEW m \in Nat, NEW n \in Nat
  PROVE  /\ 2^m < 2^n => m < n
         /\ 2^m = 2^n => m = n
<1>1. 2^m \in Nat /\ 2^n \in Nat /\ 2^m >= 1 /\ 2^n >= 1
  BY PowPositive
<1>2. ASSUME n <= m PROVE 2^n <= 2^m
  BY <1>2, PowMonotone
<1>3. ASSUME NEW i \in Nat, NEW j \in Nat, i < j PROVE 2^i < 2^j
  <2>1. 2^(i + 1) = 2 * 2^i
    BY PowDouble
  <2>2. 2^(i + 1) <= 2^j
    BY <1>3, PowMonotone
  <2>3. 2^i \in Nat /\ 2^i >= 1 /\ 2^j \in Nat
    BY PowPositive
  <2> QED
    BY <2>1, <2>2, <2>3
<1>4. ASSUME 2^m = 2^n PROVE m = n
  <2>1. ~ (m < n)
    BY <1>1, <1>3, <1>4
  <2>2. ~ (n < m)
    BY <1>1, <1>3, <1>4
  <2> QED
    BY <2>1, <2>2
<1> QED
  BY <1>1, <1>2, <1>4

LEMMA PartOfInterval ==
  ASSUME NEW n \in Nat, NEW u \in SUBSET (0 .. n - 1)
  PROVE  IsFiniteSet(u) /\ u \subseteq Nat
<1> DEFINE S == 0 .. n - 1
<1>1. IsFiniteSet(S) /\ S \subseteq Nat
  BY FS_Interval
<1>2. u \in SUBSET S
  OBVIOUS
<1> HIDE DEF S
<1>3. IsFiniteSet(u)
  BY <1>1, <1>2, FS_Subset
<1> QED
  BY <1>1, <1>2, <1>3

\* A sum of different powers of two below 2^n is below 2^n.
LEMMA PowSumBound ==
  ASSUME NEW n \in Nat, NEW u \in SUBSET (0 .. n - 1)
  PROVE  PowSum(u) \in 0 .. 2^n - 1
<1> DEFINE S == {m \in Nat : \A s \in SUBSET (0 .. m - 1) : PowSum(s) <= 2^m - 1}
<1>1. 0 \in S
  <2>1. ASSUME NEW s \in SUBSET (0 .. 0 - 1) PROVE PowSum(s) <= 2^0 - 1
    <3>1. s = {}
      OBVIOUS
    <3>2. PowSum(s) = 0
      BY <3>1, PowSumEmpty
    <3> QED
      BY <3>2
  <2> QED
    BY <2>1
<1>2. ASSUME NEW m \in Nat, m \in S PROVE m + 1 \in S
  <2>1. ASSUME NEW s \in SUBSET (0 .. (m + 1) - 1) PROVE PowSum(s) <= 2^(m + 1) - 1
    <3> DEFINE t == s \ {m}
    <3>1. t \in SUBSET (0 .. m - 1)
      OBVIOUS
    <3>2. IsFiniteSet(s) /\ s \subseteq Nat /\ IsFiniteSet(t) /\ t \subseteq Nat
      <4>1. m + 1 \in Nat
        OBVIOUS
      <4> QED
        BY <3>1, <4>1, PartOfInterval
    <3>3. PowSum(t) <= 2^m - 1 /\ PowSum(t) \in Nat
      BY <1>2, <3>1, <3>2, PowSumType
    <3>4. 2^m \in Nat /\ 2^m >= 1 /\ 2^(m + 1) = 2 * 2^m
      BY PowPositive, PowDouble
    <3>5. CASE m \in s
      <4>1. \A i \in s : 2^i \in Nat
        BY <3>2, PowPositive
      <4>2. PowSum(s) = 2^m + PowSum(t)
        BY <3>2, <3>5, <4>1, PowSumRemove
      <4> QED
        BY <3>3, <3>4, <4>2
    <3>6. CASE m \notin s
      <4>1. t = s
        BY <3>6
      <4>2. PowSum(s) = PowSum(t)
        BY <4>1
      <4> HIDE DEF t
      <4> QED
        BY <3>3, <3>4, <4>2
    <3> QED
      BY <3>5, <3>6
  <2> QED
    BY <2>1
<1>3. Nat \subseteq S
  <2> HIDE DEF S
  <2> QED
    BY <1>1, <1>2, InductionSet
<1>4. PowSum(u) \in Nat
  BY PartOfInterval, PowSumType
<1>5. 2^n \in Nat
  BY PowPositive
<1> QED
  BY <1>3, <1>4, <1>5

LEMMA Words ==
  /\ MaxWord \in Word /\ 0 \in Word /\ 1 \in Word
  /\ Masked \in Row
  /\ \A b \in BOOLEAN : Bit(b) \in {0, 1} /\ Bit(b) \in Word
<1>1. 2^Width \in Nat /\ 2^Width >= 2
  <2>1. Width - 1 \in Nat /\ (Width - 1) + 1 = Width
    BY WidthAssumption
  <2>2. 2^((Width - 1) + 1) = 2 * 2^(Width - 1) /\ 2^(Width - 1) \in Nat /\ 2^(Width - 1) >= 1
    BY <2>1, PowDouble, PowPositive
  <2> QED
    BY <2>1, <2>2
<1>2. MaxWord \in Word /\ 0 \in Word /\ 1 \in Word
  BY <1>1 DEF Word, MaxWord
<1> QED
  BY <1>2 DEF Masked, Row, Bit

LEMMA AndWordType == \A x, y : AndWord(x, y) \in Word
<1> SUFFICES ASSUME NEW x, NEW y PROVE AndWord(x, y) \in Word
  OBVIOUS
<1> DEFINE u == {i \in 0 .. Width - 1 : (x \div 2^i) % 2 = 1 /\ (y \div 2^i) % 2 = 1}
<1>1. AndWord(x, y) = Unsigned(u)
  BY DEF AndWord
<1>2. u \in SUBSET (0 .. Width - 1)
  OBVIOUS
<1> HIDE DEF u
<1>3. Width \in Nat /\ Unsigned(u) = PowSum(u)
  BY WidthAssumption DEF Unsigned, PowSum
<1>4. PowSum(u) \in 0 .. 2^Width - 1
  BY <1>2, <1>3, PowSumBound
<1> QED
  BY <1>1, <1>3, <1>4 DEF Word, MaxWord

\* The table has N rows.
LEMMA TableSize ==
  ASSUME NEW n \in Nat, NEW t, DOMAIN t = 0 .. n - 1
  PROVE  Size(t) = n
<1>1. Cardinality(0 .. n - 1) = n
  BY FS_Interval
<1> QED
  BY <1>1 DEF Size

LEMMA CallFacts ==
  ASSUME in \in Calls
  PROVE  /\ in.ops \in Seq(Operation)
         /\ in.left \in [0 .. Size(in.left) - 1 -> Row]
         /\ in.right \in [0 .. NR - 1 -> Row]
         /\ in.lefts \in Nat /\ in.lefts >= 1 /\ in.rights \in Nat /\ in.rights >= 1
         /\ \E a \in Nat : Size(in.left) = 2^a /\ in.batch <= 2^a
         /\ \E e \in Nat : e >= 1 /\ in.batch = 2^e
         /\ \E e \in Nat : NR = 2^e
         /\ Has(in, "join") => /\ Size(in.left) % in.lefts = 0 /\ NR % in.rights = 0
<1>1. ASSUME NEW p \in PowersOfTwo PROVE \E e \in Nat : p = 2^e
  BY DEF PowersOfTwo
<1>2. /\ in.left \in [0 .. Size(in.left) - 1 -> Row]
      /\ in.right \in [0 .. Size(in.right) - 1 -> Row]
      /\ Size(in.left) \in PowersOfTwo /\ Size(in.right) \in PowersOfTwo
      /\ in.batch \in PowersOfTwo \ {1} /\ in.batch <= Size(in.left)
      /\ in.lefts \in Nat \ {0} /\ in.rights \in PowersOfTwo
      /\ in.ops \in Seq(Operation)
      /\ Has(in, "join") => /\ Size(in.left) % in.lefts = 0
                            /\ Size(in.right) % in.rights = 0
  BY CallsAssumption
<1>3. \E a \in Nat : Size(in.left) = 2^a /\ in.batch <= 2^a
  BY <1>1, <1>2
<1>4. \E e \in Nat : e >= 1 /\ in.batch = 2^e
  <2>1. PICK e \in Nat : in.batch = 2^e
    BY <1>1, <1>2
  <2>2. 2^0 = 1
    OBVIOUS
  <2>3. e # 0
    BY <1>2, <2>1, <2>2
  <2> QED
    BY <2>1, <2>3
<1>5. in.rights \in Nat /\ in.rights >= 1
  BY <1>1, <1>2, PowPositive
<1>6. \E e \in Nat : NR = 2^e
  BY <1>1, <1>2 DEF NR
<1> QED
  BY <1>2, <1>3, <1>4, <1>5, <1>6 DEF NR

LEMMA DataFacts ==
  ASSUME DataInv
  PROVE  /\ rows \in [Index -> Row] /\ DOMAIN rows = Index
         /\ \E a \in Nat : N = 2^a /\ Index = 0 .. 2^a - 1
         /\ N \in Nat /\ N >= 1 /\ in.batch <= N
         /\ Has(in, "join") => N % in.lefts = 0
         /\ in.right \in [0 .. NR - 1 -> Row]
         /\ in.ops \in Seq(Operation)
<1>1. PICK a \in Nat : /\ rows \in [0 .. 2^a - 1 -> Row] /\ in.batch <= 2^a
                       /\ Has(in, "join") => 2^a % in.lefts = 0
  BY DEF DataInv
<1>2. 2^a \in Nat /\ 2^a >= 1
  BY PowPositive
<1>3. N = 2^a
  BY <1>1, <1>2, TableSize DEF N
<1>4. in \in Calls
  BY DEF DataInv
<1> QED
  BY <1>1, <1>2, <1>3, <1>4, CallFacts DEF Index

LEMMA CurrentOperation ==
  ASSUME in \in Calls, ops # <<>>, NEW k \in 0 .. Len(in.ops),
         ops = SubSeq(in.ops, k + 1, Len(in.ops))
  PROVE  /\ Op \in Operation /\ Op.by \in Seq(Key) /\ Op.kind \in Kinds
         /\ k + 1 \in DOMAIN in.ops /\ Op = in.ops[k + 1]
         /\ Len(Op.by) <= 3
         /\ Op.kind \in {"order_by", "distinct"} => Op.by # <<>>
         /\ Op.kind # "order_by" => Len(Op.by) <= 2
         /\ Op.kind = "filter_const" => Op.const \in Word
         /\ k + 1 \in 0 .. Len(in.ops)
         /\ Tail(ops) = SubSeq(in.ops, (k + 1) + 1, Len(in.ops))
<1>1. in.ops \in Seq(Operation)
  BY CallFacts
<1>2. k < Len(in.ops)
  <2>1. CASE k = Len(in.ops)
    <3>1. SubSeq(in.ops, k + 1, Len(in.ops)) = <<>>
      BY <1>1, <2>1, SubSeqEmpty
    <3> QED
      BY <3>1
  <2> QED
    BY <1>1, <2>1
<1>3. k + 1 \in 1 .. Len(in.ops) /\ Len(in.ops) \in k + 1 .. Len(in.ops)
  BY <1>1, <1>2
<1>4. Op = in.ops[k + 1] /\ Tail(ops) = SubSeq(in.ops, (k + 1) + 1, Len(in.ops))
  BY <1>1, <1>3, HeadTailOfSubSeq DEF Op
<1>5. k + 1 \in DOMAIN in.ops /\ in.ops[k + 1] \in Operation
  BY <1>1, <1>3
<1>6. /\ Len(in.ops[k + 1].by) <= 3
      /\ in.ops[k + 1].kind \in {"order_by", "distinct"} => in.ops[k + 1].by # <<>>
      /\ in.ops[k + 1].kind # "order_by" => Len(in.ops[k + 1].by) <= 2
  BY <1>5, CallsAssumption
<1>7. ASSUME NEW o \in Operation
      PROVE  /\ o.by \in Seq(Key) /\ o.kind \in Kinds
             /\ o.kind = "filter_const" => o.const \in Word
  <2>1. CASE o \in [kind : Kinds \ {"filter_const"}, by : Seq(Key)]
    BY <2>1
  <2>2. CASE o \in [kind : {"filter_const"}, by : {<<>>}, const : Word]
    <3>1. o.by = <<>> /\ o.kind = "filter_const" /\ o.const \in Word
      BY <2>2
    <3>2. <<>> \in Seq(Key)
      OBVIOUS
    <3> QED
      BY <3>1, <3>2 DEF Kinds
  <2> QED
    BY <2>1, <2>2 DEF Operation
<1> QED
  BY <1>3, <1>4, <1>5, <1>6, <1>7

LEMMA SortingFacts ==
  ASSUME DataInv, Sorting
  PROVE  /\ ops # <<>> /\ Sortable(SortKeys)
         /\ \A a \in Nat : N = 2^a => \E e \in Nat : e < a /\ BatchSize = 2^e
<1>1. ops # <<>> /\ Op.kind \in {"order_by", "distinct"} /\ in \in Calls
  BY DEF Sorting, DataInv
<1>2. /\ Op.by \in Seq(Key) /\ Len(Op.by) <= 3 /\ Op.by # <<>>
      /\ Op.kind # "order_by" => Len(Op.by) <= 2
  <2>1. PICK k \in 0 .. Len(in.ops) : ops = SubSeq(in.ops, k + 1, Len(in.ops))
    BY DEF DataInv
  <2> QED
    BY <1>1, <2>1, CurrentOperation
<1>3. Sortable(SortKeys)
  <2>1. Len(Op.by) \in Nat /\ Len(Op.by) >= 1
    BY <1>2
  <2>2. CASE Op.kind # "order_by" /\ used
    <3> DEFINE sel == [col |-> "sel", asc |-> TRUE]
    <3>1. sel \in Key
      BY DEF Key, Columns
    <3> HIDE DEF sel
    <3>2. <<sel>> \o Op.by \in Seq(Key) /\ Len(<<sel>> \o Op.by) = 1 + Len(Op.by)
      BY <1>2, <3>1
    <3>3. SortKeys = <<sel>> \o Op.by
      BY <2>2 DEF SortKeys, sel
    <3> QED
      BY <1>2, <2>1, <2>2, <3>2, <3>3 DEF Sortable
  <2>3. CASE ~ (Op.kind # "order_by" /\ used)
    <3>1. SortKeys = Op.by
      BY <2>3 DEF SortKeys
    <3>2. \A n \in Nat : n >= 1 /\ n <= 3 => n \in 1 .. 3
      OBVIOUS
    <3>3. Sortable(Op.by)
      BY <1>2, <2>1, <3>2 DEF Sortable
    <3> QED
      BY <3>1, <3>3
  <2> QED
    BY <2>2, <2>3
<1>4. ASSUME NEW a \in Nat, N = 2^a PROVE \E e \in Nat : e < a /\ BatchSize = 2^e
  <2>1. PICK e \in Nat : e >= 1 /\ in.batch = 2^e
    BY <1>1, CallFacts
  <2>2. in.batch <= N
    BY DataFacts
  <2>3. CASE in.batch = N
    <3>1. e = a
      BY <1>4, <2>1, <2>3, PowInjective
    <3>2. a - 1 \in Nat /\ (a - 1) + 1 = a
      BY <2>1, <3>1
    <3>3. N = 2 * 2^(a - 1) /\ 2^(a - 1) \in Nat
      BY <1>4, <3>2, PowDouble, PowPositive
    <3>4. N \div 2 = 2^(a - 1)
      BY <3>3
    <3> QED
      BY <2>3, <3>2, <3>4 DEF BatchSize
  <2>4. CASE in.batch # N
    <3>1. 2^e < 2^a
      <4>1. 2^e \in Nat /\ 2^a \in Nat
        BY PowPositive
      <4> QED
        BY <1>4, <2>1, <2>2, <2>4, <4>1
    <3>2. e < a
      BY <3>1, PowInjective
    <3> QED
      BY <2>1, <2>4, <3>2 DEF BatchSize
  <2> QED
    BY <2>3, <2>4
<1> QED
  BY <1>1, <1>3, <1>4

-----------------------------------------------------------------------------
(* The operators that work a row at a time. *)

LEMMA Finished ==
  ASSUME TableInv, ops # <<>>, Finish, in' = in, used' \in BOOLEAN,
         NEW a \in Nat, rows' \in [0 .. 2^a - 1 -> Row], in.batch <= 2^a,
         Has(in, "join") => 2^a % in.lefts = 0
  PROVE  TableInv'
<1>1. /\ ops' = Tail(ops) /\ pc' = "start" /\ work' = <<>>
      /\ phase' = 0 /\ column' = 0 /\ turn' = 0 /\ at' = 0
  BY DEF Finish
<1>2. \E k \in 0 .. Len(in'.ops) : ops' = SubSeq(in'.ops, k + 1, Len(in'.ops))
  <2>1. PICK k \in 0 .. Len(in.ops) : ops = SubSeq(in.ops, k + 1, Len(in.ops))
    BY DEF TableInv, DataInv
  <2>2. in \in Calls
    BY DEF TableInv, DataInv
  <2>3. k + 1 \in 0 .. Len(in.ops) /\ Tail(ops) = SubSeq(in.ops, (k + 1) + 1, Len(in.ops))
    BY <2>1, <2>2, CurrentOperation
  <2> QED
    BY <1>1, <2>3
<1>3. DataInv'
  <2>1. \A k \in DOMAIN work' : work'[k] \in {0, 1}
    BY <1>1
  <2>2. in' \in Calls
    BY DEF TableInv, DataInv
  <2>3. Has(in', "join") => 2^a % in'.lefts = 0
    BY DEF Has
  <2> QED
    BY <1>2, <2>1, <2>2, <2>3 DEF DataInv
<1>4. PlaceInv'
  BY <1>1 DEF PlaceInv
<1>5. SortInv' /\ TreeInv'
  BY <1>1 DEF SortInv, TreeInv
<1> QED
  BY <1>3, <1>4, <1>5 DEF TableInv

\* An operator that changes rows but keeps their number.
LEMMA FinishedRows ==
  ASSUME TableInv, ops # <<>>, Finish, in' = in, used' \in BOOLEAN,
         rows' \in [Index -> Row]
  PROVE  TableInv'
<1>1. PICK a \in Nat : /\ rows \in [0 .. 2^a - 1 -> Row] /\ in.batch <= 2^a
                       /\ Has(in, "join") => 2^a % in.lefts = 0
  BY DEF TableInv, DataInv
<1>2. 0 .. 2^a - 1 = Index
  BY <1>1, DataFacts DEF TableInv
<1> QED
  BY <1>1, <1>2, Finished

LEMMA SelectionType ==
  ASSUME NEW f, \A i \in Index : f[i] \in Word, rows \in [Index -> Row],
         rows' = [i \in Index |-> [rows[i] EXCEPT !.sel = f[i]]]
  PROVE  rows' \in [Index -> Row]
BY DEF Row

LEMMA FilterConstKeeps == TableInv /\ FilterConst => TableInv'
<1> SUFFICES ASSUME TableInv, FilterConst PROVE TableInv'
  OBVIOUS
<1> DEFINE f == [i \in Index |-> Bit(rows[i].val = Op.const)]
<1>1. \A i \in Index : f[i] \in Word
  BY Words
<1>2. rows' = [i \in Index |-> [rows[i] EXCEPT !.sel = f[i]]]
  BY DEF FilterConst
<1> HIDE DEF f
<1>3. rows' \in [Index -> Row]
  BY <1>1, <1>2, DataFacts, SelectionType DEF TableInv
<1> QED
  BY <1>3, FinishedRows DEF FilterConst, Start

LEMMA FilterKeeps == TableInv /\ Filter => TableInv'
<1> SUFFICES ASSUME TableInv, Filter PROVE TableInv'
  OBVIOUS
<1> DEFINE g == [i \in Index |-> EqWord(rows[i].val, rows[i].key)]
           f == [i \in Index |-> IF used THEN AndWord(rows[i].sel, g[i]) ELSE g[i]]
<1>1. rows \in [Index -> Row]
  BY DataFacts DEF TableInv
<1>2. \A i \in Index : g[i] \in Word
  <2> TAKE i \in Index
  <2>1. rows[i].val \in Word /\ rows[i].key \in Word
    BY <1>1 DEF Row, Columns
  <2> QED
    BY <2>1, Words DEF EqWord
<1>3. rows' = [i \in Index |-> [rows[i] EXCEPT !.sel = f[i]]] /\ used' = TRUE
  BY DEF Filter, SelectRows, Conjoined
<1> HIDE DEF g
<1>4. \A i \in Index : f[i] \in Word
  BY <1>2, AndWordType
<1> HIDE DEF f
<1>5. rows' \in [Index -> Row]
  BY <1>1, <1>3, <1>4, SelectionType
<1> QED
  BY <1>3, <1>5, FinishedRows DEF Filter, Start

LEMMA MaskKeeps == TableInv /\ MaskBatch => TableInv'
<1> SUFFICES ASSUME TableInv, MaskBatch PROVE TableInv'
  OBVIOUS
<1> DEFINE size == IF in.batch > N THEN N ELSE in.batch
           end == IF at + size <= N THEN at + size ELSE N
<1>1. rows \in [Index -> Row] /\ N \in Nat /\ at \in Nat /\ size \in Nat
  <2>1. \E e \in Nat : in.batch = 2^e
    BY CallFacts DEF TableInv, DataInv
  <2>2. in.batch \in Nat
    BY <2>1, PowPositive
  <2> QED
    BY <2>2, DataFacts DEF TableInv, PlaceInv
<1>2. /\ rows' = [i \in Index |-> IF i \in at .. end - 1 /\ ~Selected(rows[i])
                                   THEN Masked ELSE rows[i]]
      /\ IF end < N
         THEN at' = end /\ UNCHANGED <<ops, pc, phase, column, turn, work>>
         ELSE Finish
      /\ in' = in /\ used' = used
      /\ pc = "start" /\ ops # <<>> /\ Op.kind = "mask"
  BY DEF MaskBatch, Start
<1>3. end \in Nat
  BY <1>1
<1> HIDE DEF size, end
<1>4. rows' \in [Index -> Row]
  BY <1>1, <1>2, Words
<1>5. CASE ~ (end < N)
  BY <1>2, <1>4, <1>5, FinishedRows DEF TableInv, DataInv
<1>6. CASE end < N
  <2>1. /\ at' = end /\ ops' = ops /\ pc' = pc /\ phase' = phase /\ column' = column
        /\ turn' = turn /\ work' = work
    BY <1>2, <1>6
  <2>2. DataInv'
    <3>1. PICK a \in Nat : /\ rows \in [0 .. 2^a - 1 -> Row] /\ in.batch <= 2^a
                           /\ Has(in, "join") => 2^a % in.lefts = 0
      BY DEF TableInv, DataInv
    <3>2. 0 .. 2^a - 1 = Index
      BY <3>1, DataFacts DEF TableInv
    <3>3. Has(in', "join") => 2^a % in'.lefts = 0
      BY <1>2, <3>1 DEF Has
    <3> QED
      BY <1>2, <1>4, <2>1, <3>1, <3>2, <3>3 DEF TableInv, DataInv
  <2>3. ~ Sorting'
    BY <1>2, <2>1 DEF Sorting, Op
  <2>4. PlaceInv'
    BY <1>2, <1>3, <2>1, <2>3 DEF TableInv, PlaceInv
  <2>5. SortInv' /\ TreeInv'
    BY <1>2, <2>1 DEF SortInv, TreeInv
  <2> QED
    BY <2>2, <2>4, <2>5 DEF TableInv
<1> QED
  BY <1>5, <1>6

\* The quotient and the remainder of a number below p * M.
LEMMA QuotientBelow ==
  ASSUME NEW p \in Nat, p >= 1, NEW M \in Nat, NEW r \in 0 .. p * M - 1
  PROVE  r \div p \in 0 .. M - 1 /\ r % p \in 0 .. p - 1
<1> DEFINE x == r \div p
           y == r % p
<1>1. p * M \in Nat
  OBVIOUS
<1>2. r \in Nat /\ r < p * M
  BY <1>1
<1>3. x \in Nat /\ y \in Nat /\ y < p /\ r = p * x + y
  BY <1>2, DivMod
<1> HIDE DEF x, y
<1>4. x < M
  <2> SUFFICES ASSUME x >= M PROVE FALSE
    BY <1>3
  <2>1. p * x >= p * M /\ p * x \in Nat
    BY <1>3
  <2> QED
    BY <1>1, <1>2, <1>3, <2>1
<1>5. x \in 0 .. M - 1 /\ y \in 0 .. p - 1
  BY <1>3, <1>4
<1> QED
  BY <1>5 DEF x, y

LEMMA BlockPlace ==
  ASSUME NEW l \in Nat, NEW M \in Nat, NEW s \in 0 .. l - 1, NEW x \in 0 .. M - 1
  PROVE  s + x * l \in 0 .. l * M - 1
<1>1. x * l \in Nat /\ l * M \in Nat
  OBVIOUS
<1>2. x * l + l = (x + 1) * l /\ (x + 1) * l <= M * l /\ M * l = l * M
  OBVIOUS
<1> QED
  BY <1>1, <1>2

\* The rows that a row of the result combines are rows of the inputs.
LEMMA JoinPlaces ==
  ASSUME N \in Nat, in.lefts \in Nat, in.lefts >= 1, N % in.lefts = 0,
         NR \in Nat, in.rights \in Nat, in.rights >= 1, NR % in.rights = 0,
         NEW r \in 0 .. N * NR - 1
  PROVE  LeftOf(r) \in 0 .. N - 1 /\ RightOf(r) \in 0 .. NR - 1
<1> DEFINE l == in.lefts
           R == in.rights
           M == N \div l
           P == NR \div R
           p == l * NR
           y == r % p
<1>1. M \in Nat /\ P \in Nat /\ N = l * M /\ NR = R * P
  <2>1. M \in Nat /\ N = l * M + (N % l)
    BY DivMod
  <2>2. P \in Nat /\ NR = R * P + (NR % R)
    BY DivMod
  <2>3. l * M \in Nat /\ R * P \in Nat
    BY <2>1, <2>2
  <2> QED
    BY <2>1, <2>2, <2>3
<1>2. l \in Nat /\ l >= 1 /\ R \in Nat /\ R >= 1
  OBVIOUS
<1>3. N * NR = p * M /\ p \in Nat /\ p = (l * R) * P /\ l * R \in Nat /\ l * R >= 1
  <2> HIDE DEF l, R, M, P
  <2> QED
    BY <1>1, <1>2
<1>4. r \in Nat /\ p >= 1
  <2>1. p * M \in Nat /\ r < p * M /\ r \in Nat
    BY <1>1, <1>3
  <2>2. p # 0
    <3> SUFFICES ASSUME p = 0 PROVE FALSE
      OBVIOUS
    <3>1. p * M = 0
      <4> HIDE DEF p, M
      <4> QED
        BY <1>1
    <3> HIDE DEF p, M
    <3> QED
      BY <2>1, <3>1
  <2> QED
    BY <1>3, <2>1, <2>2
<1>5. r \div p \in 0 .. M - 1 /\ y \in 0 .. p - 1
  <2>1. r \in 0 .. p * M - 1
    BY <1>3
  <2> HIDE DEF p, M
  <2> QED
    BY <1>1, <1>3, <1>4, <2>1, QuotientBelow DEF y
<1>6. LeftOf(r) \in 0 .. N - 1
  <2> DEFINE s == (r \div R) % l
             x == r \div p
  <2>1. s \in 0 .. l - 1
    <3>1. r \div R \in Nat
      BY <1>2, <1>4, DivMod
    <3> HIDE DEF l, R
    <3> QED
      BY <1>2, <3>1, DivMod
  <2>2. LeftOf(r) = s + x * l
    BY DEF LeftOf
  <2>3. x \in 0 .. M - 1
    BY <1>5
  <2> HIDE DEF s, x, l, M
  <2>4. s + x * l \in 0 .. l * M - 1
    BY <1>1, <1>2, <2>1, <2>3, BlockPlace
  <2> QED
    BY <1>1, <2>2, <2>4
<1>7. RightOf(r) \in 0 .. NR - 1
  <2> DEFINE s == y % R
             x == y \div (l * R)
  <2>1. RightOf(r) = s + x * R
    BY DEF RightOf
  <2>2. y \in 0 .. (l * R) * P - 1 /\ y \in Nat
    BY <1>3, <1>4, <1>5
  <2> HIDE DEF y
  <2>3. s \in 0 .. R - 1
    BY <1>2, <2>2, DivMod
  <2>4. x \in 0 .. P - 1
    <3> DEFINE w == l * R
    <3>1. w \in Nat /\ w >= 1 /\ y \in 0 .. w * P - 1
      BY <1>3, <2>2
    <3> HIDE DEF w, P
    <3>2. y \div w \in 0 .. P - 1
      BY <1>1, <3>1, QuotientBelow
    <3> QED
      BY <3>2 DEF w
  <2> HIDE DEF s, x, R, P
  <2>5. s + x * R \in 0 .. R * P - 1
    BY <1>1, <1>2, <2>3, <2>4, BlockPlace
  <2> QED
    BY <1>1, <2>1, <2>5
<1> QED
  BY <1>6, <1>7

LEMMA JoinKeeps == TableInv /\ Join => TableInv'
<1> SUFFICES ASSUME TableInv, Join PROVE TableInv'
  OBVIOUS
<1> DEFINE g == [r \in 0 .. N * NR - 1 |->
                   LET eq == JoinWord(r)
                       l == IF used THEN AndWord(rows[LeftOf(r)].sel, eq) ELSE eq
                   IN  IF in.rightSel THEN AndWord(in.right[RightOf(r)].sel, l) ELSE l]
<1>1. /\ rows \in [Index -> Row] /\ N \in Nat /\ N >= 1 /\ in.batch <= N
      /\ Has(in, "join") => N % in.lefts = 0
      /\ in.right \in [0 .. NR - 1 -> Row]
  BY DataFacts DEF TableInv
<1>2. in \in Calls /\ ops # <<>> /\ Op.kind = "join"
  BY DEF Join, Start, TableInv, DataInv
<1>3. Has(in, "join")
  <2>1. PICK k \in 0 .. Len(in.ops) : ops = SubSeq(in.ops, k + 1, Len(in.ops))
    BY DEF TableInv, DataInv
  <2>2. k + 1 \in DOMAIN in.ops /\ Op = in.ops[k + 1]
    BY <1>2, <2>1, CurrentOperation
  <2> QED
    BY <1>2, <2>2 DEF Has
<1>4. PICK a \in Nat : N = 2^a /\ Index = 0 .. 2^a - 1
  BY DataFacts DEF TableInv
<1>5. PICK e \in Nat : NR = 2^e
  BY <1>2, CallFacts
<1>6. /\ in.lefts \in Nat /\ in.lefts >= 1 /\ in.rights \in Nat /\ in.rights >= 1
      /\ NR % in.rights = 0 /\ N % in.lefts = 0 /\ NR \in Nat /\ NR >= 1
      /\ \E x \in Nat : in.batch = 2^x
  BY <1>1, <1>2, <1>3, <1>5, CallFacts, PowPositive
<1>7. \A r \in 0 .. N * NR - 1 : LeftOf(r) \in Index /\ RightOf(r) \in 0 .. NR - 1
  BY <1>1, <1>6, JoinPlaces DEF Index
<1>8. \A r \in 0 .. N * NR - 1 : g[r] \in Word
  <2> TAKE r \in 0 .. N * NR - 1
  <2>1. JoinWord(r) \in Word
    BY Words DEF JoinWord
  <2> QED
    BY <2>1, AndWordType
<1>9. /\ rows' = [r \in 0 .. N * NR - 1 |->
                    [rows[LeftOf(r)] EXCEPT !.rkey = in.right[RightOf(r)].key,
                                            !.sel = g[r]]]
      /\ used' = TRUE /\ Finish /\ in' = in
  BY DEF Join
<1> HIDE DEF g
<1>10. rows' \in [0 .. N * NR - 1 -> Row]
  <2>1. ASSUME NEW r \in 0 .. N * NR - 1
        PROVE  [rows[LeftOf(r)] EXCEPT !.rkey = in.right[RightOf(r)].key,
                                       !.sel = g[r]] \in Row
    <3>1. rows[LeftOf(r)] \in Row /\ in.right[RightOf(r)] \in Row /\ g[r] \in Word
      BY <1>1, <1>7, <1>8
    <3>2. in.right[RightOf(r)].key \in Word
      BY <3>1 DEF Row, Columns
    <3> QED
      BY <3>1, <3>2 DEF Row
  <2> QED
    BY <1>9, <2>1
<1>11. N * NR = 2^(a + e) /\ a + e \in Nat
  <2>1. a + e \in Nat /\ a <= a + e /\ (a + e) - a = e
    OBVIOUS
  <2> QED
    BY <1>4, <1>5, <2>1, PowSplit
<1>12. in.batch <= N * NR
  <2>1. N * NR >= N /\ N * NR \in Nat
    BY <1>1, <1>6
  <2>2. in.batch \in Nat
    BY <1>6, PowPositive
  <2> QED
    BY <1>1, <2>1, <2>2
<1>13. (N * NR) % in.lefts = 0
  <2> DEFINE l == in.lefts
             M == N \div l
  <2>1. M \in Nat /\ N = l * M + 0
    BY <1>1, <1>6, DivMod
  <2>2. M * NR \in Nat /\ N * NR \in Nat /\ N * NR = l * (M * NR) + 0 /\ l \in Nat /\ l >= 1
    <3> HIDE DEF M, l
    <3>1. l \in Nat /\ l >= 1
      BY <1>6 DEF l
    <3> QED
      BY <1>1, <1>6, <2>1, <3>1
  <2> HIDE DEF M, l
  <2>3. (N * NR) % l = 0
    BY <2>2, DivModUnique
  <2> QED
    BY <2>3 DEF l
<1> QED
  BY <1>2, <1>9, <1>10, <1>11, <1>12, <1>13, Finished

-----------------------------------------------------------------------------
(* The tree of the semi-join. *)

LEMMA LeftEndIs ==
  ASSUME in \in Calls, at \in Index, N \in Nat
  PROVE  LeftEnd \in at + 1 .. N /\ LeftEnd - at \in Nat /\ LeftEnd - at >= 1
<1>1. in.lefts \in Nat /\ in.lefts >= 1
  BY CallFacts
<1> QED
  BY <1>1 DEF LeftEnd, Index

\* TreeKeeps for the values w after c levels, for b left rows.
Tree(w, c, b) ==
  \A a \in 0 .. b - 1 : (\A e \in 0 .. NR \div 2^c - 1 : w[a * NR + e] = 1)
                          <=> \A e \in 0 .. NR - 1 : Unequal(a * NR + e) = 1

LEMMA TreePrimed ==
  ASSUME in' = in, rows' = rows, at' = at, Tree(work', column', LeftEnd - at)
  PROVE  TreeKeeps'
<1>1. LeftEnd' = LeftEnd /\ NR' = NR
  BY DEF NR, LeftEnd, N
<1>2. \A k : Unequal(k)' = Unequal(k)
  BY <1>1 DEF Unequal, Selected
<1> QED
  BY <1>1, <1>2 DEF TreeKeeps, Tree

\* Place e of left row a.
LEMMA WorkPlace ==
  ASSUME NEW n \in Nat, n >= 1, NEW b \in Nat, NEW a \in 0 .. b - 1, NEW e \in 0 .. n - 1
  PROVE  /\ a * n + e \in 0 .. b * n - 1 /\ (a * n + e) % n = e
         /\ (a * n + e) - e = a * n
<1>1. a * n \in Nat /\ n * a = a * n /\ b * n \in Nat
  OBVIOUS
<1>2. a * n + n <= b * n
  BY <1>1
<1>3. (a * n + e) % n = e
  <2> DEFINE i == a * n + e
  <2>1. i \in Nat /\ i = n * a + e /\ e \in Nat /\ e < n /\ a \in Nat
    BY <1>1
  <2> HIDE DEF i
  <2>2. i % n = e
    BY <2>1, DivModUnique
  <2> QED
    BY <2>2 DEF i
<1> QED
  BY <1>1, <1>2, <1>3

LEMMA SemiJoinEqKeeps == TableInv /\ SemiJoinEq => TableInv'
<1> SUFFICES ASSUME TableInv, SemiJoinEq PROVE TableInv'
  OBVIOUS
<1> DEFINE b == LeftEnd - at
<1>1. /\ in \in Calls /\ N \in Nat /\ at \in Nat /\ phase = 0 /\ turn = 0 /\ at < N
      /\ ops # <<>> /\ Op.kind = "semi_join"
  BY DataFacts DEF SemiJoinEq, Start, TableInv, DataInv, PlaceInv
<1>2. /\ work' = [k \in Rows(b) |-> Unequal(k)] /\ column' = 0 /\ pc' = "levels"
      /\ in' = in /\ ops' = ops /\ rows' = rows /\ used' = used /\ phase' = phase
      /\ turn' = turn /\ at' = at
  BY DEF SemiJoinEq
<1>3. at \in Index /\ b \in Nat
  <2>1. at \in Index
    BY <1>1 DEF Index
  <2> QED
    BY <1>1, <2>1, LeftEndIs
<1>4. PICK e \in Nat : NR = 2^e
  BY <1>1, CallFacts
<1>5. NR \in Nat /\ NR >= 1
  BY <1>4, PowPositive
<1>6. DataInv'
  <2>1. \A k \in Rows(b) : Unequal(k) \in {0, 1}
    BY Words DEF Unequal, Bit
  <2>2. \A k \in DOMAIN work' : work'[k] \in {0, 1}
    BY <1>2, <2>1
  <2>3. Has(in', "join") <=> Has(in, "join")
    BY <1>2
  <2> QED
    BY <1>2, <2>2, <2>3 DEF TableInv, DataInv
<1>7. PlaceInv'
  BY <1>1, <1>2 DEF PlaceInv
<1>8. SortInv'
  BY <1>2 DEF SortInv
<1>9. TreeKeeps'
  <2>1. NR \div 2^0 = NR
    BY <1>5
  <2>2. ASSUME NEW a \in 0 .. b - 1
        PROVE  (\A x \in 0 .. NR \div 2^0 - 1 : work'[a * NR + x] = 1)
                 <=> \A x \in 0 .. NR - 1 : Unequal(a * NR + x) = 1
    <3>1. \A x \in 0 .. NR - 1 : work'[a * NR + x] = Unequal(a * NR + x)
      <4> TAKE x \in 0 .. NR - 1
      <4>1. a * NR + x \in 0 .. b * NR - 1
        <5> HIDE DEF b
        <5> QED
          BY <1>3, <1>5, WorkPlace
      <4> QED
        BY <1>2, <4>1 DEF Rows
    <3> QED
      BY <2>1, <3>1
  <2>3. Tree(work', column', b)
    BY <1>2, <2>2 DEF Tree
  <2> QED
    BY <1>2, <2>3, TreePrimed
<1>10. TreeInv'
  <2>1. /\ ops' # <<>> /\ (Op.kind)' = "semi_join" /\ (at \in Index)'
        /\ (Rows(LeftEnd - at))' = Rows(b) /\ NR' = NR
    BY <1>1, <1>2, <1>3 DEF Op, Index, N, Rows, LeftEnd, NR
  <2>2. DOMAIN work' = Rows(b)
    BY <1>2
  <2>3. NR' = 2^e /\ column' \in 0 .. e
    BY <1>2, <1>4, <2>1
  <2> QED
    BY <1>9, <2>1, <2>2, <2>3 DEF TreeInv
<1> QED
  BY <1>6, <1>7, <1>8, <1>10 DEF TableInv

LEMMA PowQuotient ==
  ASSUME NEW e \in Nat, NEW c \in 0 .. e
  PROVE  2^e \div 2^c = 2^(e - c) /\ 2^(e - c) \in Nat /\ 2^(e - c) >= 1 /\ 2^(e - c) <= 2^e
<1> DEFINE p == 2^c
           q == 2^(e - c)
           i == 2^e
<1>1. i = p * q /\ e - c \in Nat
  BY PowSplit
<1>2. p \in Nat /\ p >= 1 /\ q \in Nat /\ q >= 1 /\ i \in Nat
  BY <1>1, PowPositive
<1> HIDE DEF p, q, i
<1>3. i = p * q + 0 /\ q <= i
  BY <1>1, <1>2
<1>4. i \div p = q
  BY <1>2, <1>3, DivModUnique
<1> QED
  BY <1>2, <1>3, <1>4 DEF p, q, i

\* A level leaves half of the elements of each left row.
Halved(n, h, b, a, x) ==
  /\ a * n + x \in 0 .. b * n - 1
  /\ InLevel(a * n + x) = IF x < h THEN work[a * n + 2 * x] * work[a * n + 2 * x + 1]
                          ELSE work[a * n + x]
  /\ x < h => /\ 2 * x \in 0 .. n - 1 /\ 2 * x + 1 \in 0 .. n - 1
              /\ a * n + 2 * x \in 0 .. b * n - 1
              /\ a * n + 2 * x + 1 \in 0 .. b * n - 1

LEMMA LevelHalves ==
  ASSUME NEW n \in Nat, n >= 1, NR = n, NEW h \in Nat, 2 * h <= n, NR \div 2^column = 2 * h,
         NEW b \in Nat, NEW a \in 0 .. b - 1, NEW x \in 0 .. n - 1
  PROVE  Halved(n, h, b, a, x)
<1> DEFINE k == a * n + x
<1>1. k \in 0 .. b * n - 1 /\ k % n = x /\ k - x = a * n
  BY WorkPlace
<1>2. 2 * x < 2 * h <=> x < h
  OBVIOUS
<1> HIDE DEF k
<1>3. InLevel(k) = IF x < h THEN work[a * n + 2 * x] * work[a * n + 2 * x + 1] ELSE work[k]
  BY <1>1, <1>2 DEF InLevel
<1>4. ASSUME x < h
      PROVE  /\ 2 * x \in 0 .. n - 1 /\ 2 * x + 1 \in 0 .. n - 1
             /\ a * n + 2 * x \in 0 .. b * n - 1
             /\ a * n + 2 * x + 1 \in 0 .. b * n - 1
  <2>1. 2 * x \in 0 .. n - 1 /\ 2 * x + 1 \in 0 .. n - 1
    BY <1>4
  <2>2. a * n + 2 * x \in 0 .. b * n - 1
    BY <2>1, WorkPlace
  <2>3. a * n + (2 * x + 1) \in 0 .. b * n - 1
    BY <2>1, WorkPlace
  <2>4. a * n + (2 * x + 1) = a * n + 2 * x + 1
    <3>1. a * n \in Nat
      OBVIOUS
    <3> QED
      BY <3>1
  <2> QED
    BY <2>1, <2>2, <2>3, <2>4
<1> QED
  BY <1>1, <1>3, <1>4 DEF k, Halved

LEMMA SemiJoinLevelKeeps == TableInv /\ SemiJoinLevel => TableInv'
<1> SUFFICES ASSUME TableInv, SemiJoinLevel PROVE TableInv'
  OBVIOUS
<1> DEFINE b == LeftEnd - at
           n == NR
<1>1. /\ pc = "levels" /\ 2^column < NR
      /\ work' = [k \in DOMAIN work |-> InLevel(k)] /\ column' = column + 1
      /\ in' = in /\ ops' = ops /\ rows' = rows /\ used' = used /\ pc' = pc
      /\ phase' = phase /\ turn' = turn /\ at' = at
  BY DEF SemiJoinLevel
<1>2. /\ in \in Calls /\ N \in Nat /\ at \in Index /\ ops # <<>> /\ Op.kind = "semi_join"
      /\ DOMAIN work = Rows(b) /\ \A k \in Rows(b) : work[k] \in {0, 1}
      /\ TreeKeeps
  BY <1>1, DataFacts DEF TableInv, DataInv, TreeInv
<1>3. b \in Nat
  BY <1>2, LeftEndIs
<1>4. PICK e \in Nat : NR = 2^e /\ column \in 0 .. e
  BY <1>1 DEF TableInv, TreeInv
<1>5. column < e /\ column + 1 \in 0 .. e /\ column \in Nat
  BY <1>1, <1>4, PowInjective
<1> DEFINE h == 2^(e - (column + 1))
<1>6. /\ n \in Nat /\ n >= 1 /\ h \in Nat /\ h >= 1 /\ n \div 2^(column + 1) = h
      /\ n \div 2^column = 2 * h /\ 2 * h <= n
  <2>1. n \div 2^(column + 1) = h /\ h \in Nat /\ h >= 1
    BY <1>4, <1>5, PowQuotient
  <2>2. n \div 2^column = 2^(e - column) /\ 2^(e - column) <= n
    BY <1>4, <1>5, PowQuotient
  <2>3. 2^(e - column) = 2 * h
    <3>1. e - (column + 1) \in Nat /\ (e - (column + 1)) + 1 = e - column
      BY <1>5
    <3> QED
      BY <3>1, PowDouble
  <2> QED
    BY <1>4, <2>1, <2>2, <2>3, PowPositive
<1> HIDE DEF h, b
<1>7. ASSUME NEW a \in 0 .. b - 1, NEW x \in 0 .. n - 1
      PROVE  /\ a * n + x \in Rows(b)
             /\ work'[a * n + x] = IF x < h THEN work[a * n + 2 * x] * work[a * n + 2 * x + 1]
                                   ELSE work[a * n + x]
             /\ x < h => /\ a * n + 2 * x \in Rows(b) /\ a * n + 2 * x + 1 \in Rows(b)
  <2>1. Halved(n, h, b, a, x)
    <3> HIDE DEF n
    <3>1. NR = n
      BY DEF n
    <3> QED
      BY <1>3, <1>6, <3>1, LevelHalves
  <2> QED
    BY <1>1, <1>2, <2>1 DEF Rows, Halved
<1>8. \A k \in DOMAIN work' : work'[k] \in {0, 1}
  <2> SUFFICES ASSUME NEW k \in Rows(b) PROVE work'[k] \in {0, 1}
    BY <1>1, <1>2
  <2>1. k \in 0 .. n * b - 1
    <3>1. b * n = n * b
      BY <1>3, <1>6
    <3> QED
      BY <3>1 DEF Rows
  <2> DEFINE a == k \div n
             x == k % n
  <2>2. a \in 0 .. b - 1 /\ x \in 0 .. n - 1
    <3> HIDE DEF n
    <3> QED
      BY <1>3, <1>6, <2>1, QuotientBelow
  <2>3. k = a * n + x
    <3>1. k \in Nat
      BY <2>1
    <3>2. k = n * a + x /\ a \in Nat
      <4> HIDE DEF n
      <4> QED
        BY <1>6, <3>1, DivMod
    <3>3. n * a = a * n
      BY <1>6, <3>2
    <3> QED
      BY <3>2, <3>3
  <2> HIDE DEF a, x, n
  <2>4. CASE x < h
    <3>1. work[a * n + 2 * x] \in {0, 1} /\ work[a * n + 2 * x + 1] \in {0, 1}
      BY <1>2, <1>7, <2>2, <2>4
    <3>2. work'[k] = work[a * n + 2 * x] * work[a * n + 2 * x + 1]
      BY <1>7, <2>2, <2>3, <2>4
    <3> QED
      BY <3>1, <3>2
  <2>5. CASE ~ (x < h)
    BY <1>2, <1>7, <2>2, <2>3, <2>5
  <2> QED
    BY <2>4, <2>5
<1>9. DataInv'
  <2>1. Has(in', "join") <=> Has(in, "join")
    BY <1>1
  <2> QED
    BY <1>1, <1>8, <2>1 DEF TableInv, DataInv
<1>10. PlaceInv'
  BY <1>1 DEF TableInv, PlaceInv
<1>11. SortInv'
  BY <1>1 DEF SortInv
<1>12. Tree(work', column', b)
  <2>1. ASSUME NEW a \in 0 .. b - 1
        PROVE  (\A x \in 0 .. h - 1 : work'[a * n + x] = 1)
                 <=> \A y \in 0 .. 2 * h - 1 : work[a * n + y] = 1
    <3>1. ASSUME NEW x \in 0 .. h - 1
          PROVE  /\ work'[a * n + x] = 1 <=> work[a * n + 2 * x] = 1 /\ work[a * n + (2 * x + 1)] = 1
                 /\ 2 * x \in 0 .. 2 * h - 1 /\ 2 * x + 1 \in 0 .. 2 * h - 1
      <4>1. x \in 0 .. n - 1 /\ x < h /\ 2 * x \in 0 .. 2 * h - 1 /\ 2 * x + 1 \in 0 .. 2 * h - 1
        BY <1>6
      <4>2. /\ work[a * n + 2 * x] \in {0, 1} /\ work[a * n + 2 * x + 1] \in {0, 1}
            /\ work'[a * n + x] = work[a * n + 2 * x] * work[a * n + 2 * x + 1]
        BY <1>2, <1>7, <4>1
      <4>3. a * n + 2 * x + 1 = a * n + (2 * x + 1)
        <5>1. a * n \in Nat
          BY <1>6
        <5> QED
          BY <5>1
      <4>4. ASSUME NEW p \in {0, 1}, NEW q \in {0, 1} PROVE p * q = 1 <=> p = 1 /\ q = 1
        OBVIOUS
      <4>5. work'[a * n + x] = 1 <=> work[a * n + 2 * x] = 1 /\ work[a * n + 2 * x + 1] = 1
        BY <4>2, <4>4
      <4> QED
        BY <4>1, <4>3, <4>5
    <3>2. ASSUME NEW y \in 0 .. 2 * h - 1
          PROVE  \E x \in 0 .. h - 1 : y = 2 * x \/ y = 2 * x + 1
      <4>1. y \div 2 \in 0 .. h - 1 /\ (y = 2 * (y \div 2) \/ y = 2 * (y \div 2) + 1)
        BY <1>6
      <4> QED
        BY <4>1
    <3> HIDE DEF n
    <3> QED
      BY <3>1, <3>2
  <2>2. ASSUME NEW a \in 0 .. b - 1
        PROVE  (\A y \in 0 .. 2 * h - 1 : work[a * n + y] = 1)
                 <=> \A y \in 0 .. n - 1 : Unequal(a * n + y) = 1
    BY <1>1, <1>2, <1>6 DEF TreeKeeps, b
  <2>3. NR \div 2^column' - 1 = h - 1
    BY <1>1, <1>6
  <2> QED
    BY <2>1, <2>2, <2>3 DEF Tree
<1>13. TreeKeeps'
  BY <1>1, <1>12, TreePrimed DEF b
<1>14. TreeInv'
  <2>1. /\ ops' # <<>> /\ (Op.kind)' = "semi_join" /\ (at \in Index)'
        /\ (Rows(LeftEnd - at))' = Rows(b) /\ NR' = NR
    BY <1>1, <1>2 DEF Op, Index, N, Rows, LeftEnd, NR, b
  <2>2. DOMAIN work' = Rows(b)
    BY <1>1, <1>2
  <2>3. NR' = 2^e /\ column' \in 0 .. e
    BY <1>1, <1>4, <1>5, <2>1
  <2> QED
    BY <1>13, <2>1, <2>2, <2>3 DEF TreeInv
<1> QED
  BY <1>9, <1>10, <1>11, <1>14 DEF TableInv

LEMMA SemiJoinResultKeeps == TableInv /\ SemiJoinResult => TableInv'
<1> SUFFICES ASSUME TableInv, SemiJoinResult PROVE TableInv'
  OBVIOUS
<1> DEFINE g == [i \in at .. LeftEnd - 1 |-> 1 - work[(i - at) * NR]]
           f == [i \in at .. LeftEnd - 1 |->
                   IF used THEN AndWord(rows[i].sel, g[i]) ELSE g[i]]
<1>1. pc = "levels"
  BY DEF SemiJoinResult
<1>2. /\ in \in Calls /\ N \in Nat /\ at \in Index /\ ops # <<>> /\ Op.kind = "semi_join"
      /\ DOMAIN work = Rows(LeftEnd - at) /\ \A k \in DOMAIN work : work[k] \in {0, 1}
      /\ rows \in [Index -> Row] /\ phase = 0 /\ turn = 0
  BY <1>1, DataFacts DEF TableInv, DataInv, TreeInv, PlaceInv
<1>3. LeftEnd \in at + 1 .. N /\ LeftEnd - at \in Nat /\ at \in Nat
  BY <1>2, LeftEndIs DEF Index
<1>4. NR \in Nat /\ NR >= 1
  <2>1. \E e \in Nat : NR = 2^e
    BY <1>2, CallFacts
  <2> QED
    BY <2>1, PowPositive
<1>5. \A i \in at .. LeftEnd - 1 : g[i] \in Word
  <2> TAKE i \in at .. LeftEnd - 1
  <2> DEFINE b == LeftEnd - at
             a == i - at
  <2>1. a \in 0 .. b - 1 /\ b \in Nat
    BY <1>3
  <2>2. a * NR \in 0 .. b * NR - 1
    <3> HIDE DEF a, b
    <3>1. 0 \in 0 .. NR - 1
      BY <1>4
    <3>2. a * NR + 0 \in 0 .. b * NR - 1
      BY <1>4, <2>1, <3>1, WorkPlace
    <3>3. a * NR + 0 = a * NR
      BY <1>4, <2>1
    <3> QED
      BY <3>2, <3>3
  <2>3. work[a * NR] \in {0, 1}
    BY <1>2, <2>2 DEF Rows
  <2>4. g[i] = 1 - work[a * NR]
    OBVIOUS
  <2> HIDE DEF g, a
  <2> QED
    BY <2>3, <2>4, Words
<1>6. /\ rows' = [i \in Index |-> IF i \in at .. LeftEnd - 1
                                   THEN [rows[i] EXCEPT !.sel = f[i]] ELSE rows[i]]
      /\ IF LeftEnd < N
         THEN /\ pc' = "start" /\ at' = LeftEnd
              /\ ops' = ops /\ used' = used /\ phase' = phase /\ column' = column
              /\ turn' = turn /\ work' = work
         ELSE used' = TRUE /\ Finish
      /\ in' = in
  BY DEF SemiJoinResult, Conjoined
<1> HIDE DEF g
<1>7. \A i \in at .. LeftEnd - 1 : f[i] \in Word
  BY <1>5, AndWordType
<1> HIDE DEF f
<1>8. rows' \in [Index -> Row]
  <2>1. \A i \in Index : i \in at .. LeftEnd - 1 => [rows[i] EXCEPT !.sel = f[i]] \in Row
    BY <1>2, <1>7 DEF Row
  <2> QED
    BY <1>2, <1>6, <2>1
<1>9. CASE ~ (LeftEnd < N)
  BY <1>2, <1>6, <1>8, <1>9, FinishedRows
<1>10. CASE LeftEnd < N
  <2>1. /\ pc' = "start" /\ at' = LeftEnd /\ ops' = ops /\ used' = used
        /\ phase' = phase /\ column' = column /\ turn' = turn /\ work' = work
    BY <1>6, <1>10
  <2>2. DataInv'
    <3>1. PICK a \in Nat : /\ rows \in [0 .. 2^a - 1 -> Row] /\ in.batch <= 2^a
                           /\ Has(in, "join") => 2^a % in.lefts = 0
      BY DEF TableInv, DataInv
    <3>2. 0 .. 2^a - 1 = Index
      BY <3>1, DataFacts DEF TableInv
    <3>3. Has(in', "join") => 2^a % in'.lefts = 0
      BY <1>6, <3>1 DEF Has
    <3> QED
      BY <1>6, <1>8, <2>1, <3>1, <3>2, <3>3 DEF TableInv, DataInv
  <2>3. ~ Sorting'
    BY <1>2, <2>1 DEF Sorting, Op
  <2>4. PlaceInv'
    BY <1>2, <1>3, <2>1, <2>3 DEF PlaceInv
  <2>5. SortInv' /\ TreeInv'
    BY <2>1 DEF SortInv, TreeInv
  <2> QED
    BY <2>2, <2>4, <2>5 DEF TableInv
<1> QED
  BY <1>9, <1>10

-----------------------------------------------------------------------------
(* Adjacent rows. *)

LEMMA FirstDistinctKeeps ==
  ASSUME TableInv, ops # <<>>, Op.kind \in {"distinct", "adjacent_eq"}, FirstDistinct,
         in' = in, ops' = ops, rows' = rows, used' = used
  PROVE  TableInv'
<1>1. pc' = "adjacent" /\ at' = 0 /\ work' = [k \in Index |-> Bit(k = 0)]
  BY DEF FirstDistinct
<1>2. \A k \in DOMAIN work' : work'[k] \in {0, 1}
  BY <1>1, Words DEF Bit
<1>3. DataInv'
  <2>1. Has(in', "join") <=> Has(in, "join")
    OBVIOUS
  <2> QED
    BY <1>2, <2>1 DEF TableInv, DataInv
<1>4. PlaceInv'
  <2>1. DOMAIN work' = Index'
    BY <1>1 DEF Index, N
  <2>2. ops' # <<>> /\ (Op.kind)' \in {"distinct", "adjacent_eq"}
    BY DEF Op
  <2> QED
    BY <1>1, <2>1, <2>2 DEF PlaceInv
<1> QED
  BY <1>1, <1>3, <1>4 DEF TableInv, SortInv, TreeInv

LEMMA StartAdjacentKeeps == TableInv /\ StartAdjacent => TableInv'
BY FirstDistinctKeeps DEF StartAdjacent, Start

LEMMA DistinctKeeps == TableInv /\ DistinctBatch => TableInv'
<1> SUFFICES ASSUME TableInv, DistinctBatch PROVE TableInv'
  OBVIOUS
<1> DEFINE next == at + BatchSize - 1
           end == IF next <= N - 1 THEN next ELSE N - 1
           bits == [k \in Index |-> IF k \in at + 1 .. end THEN NewGroup(k) ELSE work[k]]
           f == [i \in Index |-> IF used THEN AndWord(rows[i].sel, bits[i]) ELSE bits[i]]
<1>1. pc = "adjacent"
  BY DEF DistinctBatch
<1>2. /\ in \in Calls /\ N \in Nat /\ at \in Nat
      /\ ops # <<>> /\ Op.kind \in {"distinct", "adjacent_eq"}
      /\ DOMAIN work = Index /\ \A k \in DOMAIN work : work[k] \in {0, 1}
      /\ rows \in [Index -> Row]
  BY <1>1, DataFacts DEF TableInv, DataInv, PlaceInv
<1>3. BatchSize \in Nat /\ BatchSize >= 1
  <2>1. CASE Sorting
    <3>1. \E e \in Nat : BatchSize = 2^e
      BY <2>1, DataFacts, SortingFacts DEF TableInv
    <3> QED
      BY <3>1, PowPositive
  <2>2. CASE ~ Sorting
    <3>1. \E e \in Nat : in.batch = 2^e
      BY <1>2, CallFacts
    <3>2. BatchSize = in.batch
      BY <2>2 DEF BatchSize
    <3> QED
      BY <3>1, <3>2, PowPositive
  <2> QED
    BY <2>1, <2>2
<1>4. \A k \in Index : bits[k] \in {0, 1}
  BY <1>2, Words DEF NewGroup
<1>5. /\ IF next < N - 1
         THEN /\ at' = next /\ work' = bits
              /\ ops' = ops /\ rows' = rows /\ used' = used /\ pc' = pc /\ phase' = phase
              /\ column' = column /\ turn' = turn
         ELSE /\ rows' = [i \in Index |-> [rows[i] EXCEPT !.sel = f[i]]]
              /\ used' = TRUE /\ Finish
      /\ in' = in
  BY DEF DistinctBatch, SelectRows, Conjoined
<1>6. next \in Nat /\ DOMAIN bits = Index
  BY <1>2, <1>3
<1> HIDE DEF next, bits
<1>7. CASE ~ (next < N - 1)
  <2>1. \A i \in Index : f[i] \in Word
    BY <1>4, AndWordType, Words
  <2> HIDE DEF f
  <2>2. rows' = [i \in Index |-> [rows[i] EXCEPT !.sel = f[i]]]
    BY <1>5, <1>7
  <2>3. rows' \in [Index -> Row]
    BY <1>2, <2>1, <2>2, SelectionType
  <2> QED
    BY <1>2, <1>5, <1>7, <2>3, FinishedRows
<1>8. CASE next < N - 1
  <2>1. /\ at' = next /\ work' = bits /\ ops' = ops /\ rows' = rows /\ used' = used
        /\ pc' = pc /\ phase' = phase /\ column' = column /\ turn' = turn /\ in' = in
    BY <1>5, <1>8
  <2>2. \A k \in DOMAIN work' : work'[k] \in {0, 1}
    BY <1>4, <1>6, <2>1
  <2>3. DataInv'
    <3>1. Has(in', "join") <=> Has(in, "join")
      BY <2>1
    <3> QED
      BY <2>1, <2>2, <3>1 DEF TableInv, DataInv
  <2>4. PlaceInv'
    <3>1. DOMAIN work' = Index'
      BY <1>6, <2>1 DEF Index, N
    <3>2. ops' # <<>> /\ (Op.kind)' \in {"distinct", "adjacent_eq"}
      BY <1>2, <2>1 DEF Op
    <3> QED
      BY <1>1, <1>6, <2>1, <3>1, <3>2 DEF PlaceInv
  <2> QED
    BY <1>1, <2>1, <2>3, <2>4 DEF TableInv, SortInv, TreeInv
<1> QED
  BY <1>7, <1>8

-----------------------------------------------------------------------------
(* The sort. *)

\* The comparisons of a batch are of rows of the table.
LEMMA PositionInTable ==
  ASSUME NEW d \in Nat, d >= 1, Distance = d, NEW K \in Nat, N = 2 * d * K,
         NEW m \in Nat, at = Low(d, m), NEW k \in Nat, m + k < d * K
  PROVE  /\ Position[k] \in Index
         /\ Partner(Position[k]) = Position[k] + d /\ Partner(Position[k]) \in Index
<1>1. PICK b \in Nat, r \in 0 .. d - 1 : m + k = Comparison(d, b, r)
  <2>1. m + k \in Nat
    OBVIOUS
  <2> QED
    BY <2>1, BoxAndRow
<1>2. Position[k] = Spot(d, b, r)
  <2>1. Position[k] = Low(d, m + k)
    BY PositionIs
  <2>2. Low(d, Comparison(d, b, r)) = Spot(d, b, r)
    BY LowIs
  <2> QED
    BY <1>1, <2>1, <2>2
<1>3. 2 * d * b + 2 * d <= N /\ N \in Nat
  <2>1. d * b < d * K /\ d * b \in Nat /\ d * K \in Nat
    BY <1>1 DEF Comparison
  <2>2. b < K
    <3> SUFFICES ASSUME b >= K PROVE FALSE
      OBVIOUS
    <3>1. d * b >= d * K
      OBVIOUS
    <3> QED
      BY <2>1, <3>1
  <2>3. d * b + d <= d * K
    <3>1. b + 1 <= K /\ d * (b + 1) = d * b + d /\ d * (b + 1) <= d * K
      BY <2>2
    <3> QED
      BY <3>1
  <2>4. 2 * d * K = 2 * (d * K) /\ 2 * d * b = 2 * (d * b)
    OBVIOUS
  <2> QED
    BY <2>1, <2>3, <2>4
<1>4. Spot(d, b, r) \in Index /\ Spot(d, b, r) + d \in Index
  BY <1>3, SpotInTable DEF Index
<1>5. Partner(Spot(d, b, r)) = Spot(d, b, r) + d
  BY SpotFacts DEF Partner
<1> QED
  BY <1>2, <1>4, <1>5

\* Before a batch: the sizes and the places of the comparisons.
BatchFacts(d, C, K, J, B) ==
  /\ d \in Nat /\ d >= 1 /\ Distance = d /\ C \in Nat /\ C >= 1 /\ 2^column = C
  /\ 2^phase = d * C /\ 2^(phase + 1) = 2 * d * C
  /\ K \in Nat /\ N = 2 * d * K /\ N \in Nat
  /\ J \in Nat /\ J >= 1 /\ (N \div 2) \div BatchSize = J
  /\ B \in Nat /\ B >= 1 /\ BatchSize = B /\ d * K = B * J

LEMMA BatchBegins ==
  ASSUME DataInv, SortInv, pc = "columns", 2^phase < N
  PROVE  \E d, C, K, J, B : BatchFacts(d, C, K, J, B)
<1>1. Sorting /\ phase \in Nat /\ column \in 0 .. phase
  BY DEF SortInv
<1>2. PICK a \in Nat : N = 2^a /\ phase <= a
  BY DEF SortInv
<1>3. phase < a
  <2>1. phase # a
    <3> SUFFICES ASSUME phase = a PROVE FALSE
      OBVIOUS
    <3>1. 2^a \in Nat
      BY PowPositive
    <3> QED
      BY <1>2, <3>1
  <2> QED
    BY <1>1, <1>2, <2>1
<1>4. PICK e \in Nat : e < a /\ BatchSize = 2^e
  BY <1>1, <1>2, SortingFacts
<1>5. /\ Distance \in Nat /\ Distance >= 1 /\ 2^column \in Nat /\ 2^column >= 1
      /\ N \in Nat
      /\ 2^phase = Distance * 2^column /\ 2^(phase + 1) = 2 * Distance * 2^column
      /\ \E K, J \in Nat : /\ N = 2 * Distance * K /\ N \div 2 = Distance * K
                           /\ Distance * K = BatchSize * J /\ J >= 1
                           /\ (N \div 2) \div BatchSize = J
                           /\ BatchSize \in Nat /\ BatchSize >= 1
  BY <1>1, <1>2, <1>3, <1>4, SortSizes
<1>6. PICK K, J \in Nat : /\ N = 2 * Distance * K
                          /\ Distance * K = BatchSize * J /\ J >= 1
                          /\ (N \div 2) \div BatchSize = J
                          /\ BatchSize \in Nat /\ BatchSize >= 1
  BY <1>5
<1>7. BatchFacts(Distance, 2^column, K, J, BatchSize)
  BY <1>5, <1>6 DEF BatchFacts
<1> QED
  BY <1>7

LEMMA BatchPlaces ==
  ASSUME NEW d, NEW C, NEW K, NEW J, NEW B, BatchFacts(d, C, K, J, B),
         NEW t \in 0 .. J - 1, at = Low(d, t * B), NEW k \in 0 .. BatchSize - 1
  PROVE  /\ Position[k] \in Index
         /\ Partner(Position[k]) = Position[k] + d /\ Partner(Position[k]) \in Index
<1>1. k \in Nat /\ k < B /\ t \in Nat /\ t + 1 <= J
  BY DEF BatchFacts
<1> DEFINE m == t * B
<1>2. m \in Nat /\ m + B = (t + 1) * B
  BY <1>1 DEF BatchFacts
<1>3. (t + 1) * B <= B * J
  BY <1>1 DEF BatchFacts
<1>4. m + k < d * K
  <2> HIDE DEF m
  <2> QED
    BY <1>1, <1>2, <1>3 DEF BatchFacts
<1>5. at = Low(d, m)
  OBVIOUS
<1> HIDE DEF m
<1> QED
  BY <1>1, <1>2, <1>4, <1>5, PositionInTable DEF BatchFacts

LEMMA BatchType ==
  ASSUME DataInv, SortInv, pc = "columns", SortBatch
  PROVE  rows' \in [Index -> Row]
<1>1. rows \in [Index -> Row]
  BY DataFacts
<1>2. 2^phase < N
  BY DEF SortBatch
<1>3. PICK d, C, K, J, B : BatchFacts(d, C, K, J, B)
  BY <1>2, BatchBegins
<1>4. turn \in 0 .. J - 1 /\ at = Low(d, turn * B)
  BY <1>2, <1>3 DEF SortInv, BatchFacts
<1> DEFINE firsts == {Position[k] : k \in 0 .. BatchSize - 1} \cap Index
<1>5. rows' = [i \in Index |->
                 IF \E f \in firsts : Partner(f) = i
                 THEN Swapped(CHOOSE f \in firsts : Partner(f) = i)[2]
                 ELSE IF i \in firsts THEN Swapped(i)[1] ELSE rows[i]]
  BY DEF SortBatch
<1>6. ASSUME NEW f \in firsts PROVE Swapped(f)[1] \in Row /\ Swapped(f)[2] \in Row
  <2>1. PICK k \in 0 .. BatchSize - 1 : f = Position[k]
    OBVIOUS
  <2>2. f \in Index /\ Partner(f) \in Index
    BY <1>3, <1>4, <2>1, BatchPlaces
  <2>3. rows[f] \in Row /\ rows[Partner(f)] \in Row
    BY <1>1, <2>2
  <2> QED
    BY <2>3 DEF Swapped
<1> HIDE DEF firsts
<1>7. ASSUME NEW i \in Index PROVE rows'[i] \in Row
  <2>1. CASE \E f \in firsts : Partner(f) = i
    <3>1. (CHOOSE f \in firsts : Partner(f) = i) \in firsts
      BY <2>1
    <3>2. rows'[i] = Swapped(CHOOSE f \in firsts : Partner(f) = i)[2]
      BY <1>5, <2>1
    <3> QED
      BY <1>6, <3>1, <3>2
  <2>2. CASE ~ \E f \in firsts : Partner(f) = i
    BY <1>1, <1>5, <1>6, <2>2
  <2> QED
    BY <2>1, <2>2
<1> QED
  BY <1>5, <1>7

LEMMA HalfStarts ==
  ASSUME NEW keys, NEW T, NEW n \in Nat, NEW d \in Nat, d >= 1, NEW C \in Nat, C >= 1
  PROVE  HalfDone(keys, T, T, n, d, C, 0) /\ Low(d, 0) = 0
<1>1. ASSUME NEW u \in Nat, NEW v \in 0 .. C - 1, NEW r \in 0 .. d - 1
      PROVE  ~ (Comparison(d, C * u + v, r) < 0)
  <2> DEFINE b == C * u + v
  <2>1. b \in Nat
    OBVIOUS
  <2> HIDE DEF b
  <2>2. Comparison(d, b, r) \in Nat
    BY <2>1, LowIs
  <2>3. ~ (Comparison(d, b, r) < 0)
    BY <2>2
  <2> QED
    BY <2>3 DEF b
<1>2. HalfDone(keys, T, T, n, d, C, 0)
  BY <1>1 DEF HalfDone
<1>3. 0 \div d = 0 /\ 0 % d = 0
  <2>1. 0 = d * 0 + 0
    OBVIOUS
  <2> QED
    BY <2>1, DivModUnique
<1>4. Low(d, 0) = 0
  BY <1>3 DEF Low
<1> QED
  BY <1>2, <1>4

\* The invariant at the start of a column.
LEMMA ColumnBegins ==
  ASSUME NEW T, NEW n \in Nat, NEW d \in Nat, d >= 1, NEW C \in Nat, C >= 1,
         N' = n, Distance' = d, (2^column)' = C, turn' = 0, at' = 0, NEW B \in Nat, BatchSize' = B,
         rows' = T, T \in [Index' -> Row], ColumnReady(rows)'
  PROVE  ColumnHalf' /\ at' = Low(Distance', turn' * BatchSize')
<1>1. HalfDone(SortKeys', T, T, n, d, C, 0) /\ Low(d, 0) = 0
  BY HalfStarts
<1>2. turn' * BatchSize' = 0
  <2>1. 0 * B = 0
    OBVIOUS
  <2> QED
    BY <2>1
<1>3. (HalfDone(SortKeys, rows, rows, N, Distance, 2^column, turn * BatchSize))'
  BY <1>1, <1>2
<1>4. rows' \in [Index' -> Row]
  OBVIOUS
<1>5. ColumnHalf'
  BY <1>3, <1>4 DEF ColumnHalf
<1> QED
  BY <1>1, <1>2, <1>5

\* What a step of the sort leaves as it is.
LEMMA SortFixed ==
  ASSUME TableInv, pc = "columns", in' = in, ops' = ops, used' = used, pc' = pc,
         work' = work, rows' \in [Index -> Row], at' \in Nat
  PROVE  /\ N' = N /\ Index' = Index /\ SortKeys' = SortKeys /\ Sorting'
         /\ BatchSize' = BatchSize /\ DataInv' /\ PlaceInv' /\ TreeInv'
<1>1. N \in Nat /\ Index = 0 .. N - 1 /\ Sorting
  BY DataFacts DEF TableInv, Index, SortInv
<1>2. N' = N
  <2>1. DOMAIN rows' = 0 .. N - 1
    BY <1>1
  <2>2. Size(rows') = N
    BY <1>1, <2>1, TableSize
  <2> QED
    BY <2>2 DEF N
<1>3. Index' = Index
  BY <1>2 DEF Index
<1>4. SortKeys' = SortKeys /\ Sorting'
  BY <1>1 DEF SortKeys, Sorting, Op
<1>5. BatchSize' = BatchSize
  BY <1>1, <1>2, <1>4 DEF BatchSize
<1>6. DataInv'
  <2>1. PICK a \in Nat : /\ rows \in [0 .. 2^a - 1 -> Row] /\ in.batch <= 2^a
                         /\ Has(in, "join") => 2^a % in.lefts = 0
    BY DEF TableInv, DataInv
  <2>2. 0 .. 2^a - 1 = Index
    BY <2>1, DataFacts DEF TableInv
  <2>3. Has(in', "join") => 2^a % in'.lefts = 0
    BY <2>1 DEF Has
  <2> QED
    BY <2>1, <2>2, <2>3 DEF TableInv, DataInv
<1>7. PlaceInv'
  BY DEF PlaceInv
<1>8. TreeInv'
  BY DEF TreeInv
<1> QED
  BY <1>2, <1>3, <1>4, <1>5, <1>6, <1>7, <1>8

LEMMA StartSortKeeps == TableInv /\ StartSort => TableInv'
<1> SUFFICES ASSUME TableInv, StartSort PROVE TableInv'
  OBVIOUS
<1>1. /\ pc = "start" /\ Sorting /\ pc' = "columns" /\ in' = in /\ ops' = ops /\ rows' = rows
      /\ used' = used /\ phase' = phase /\ column' = column /\ turn' = turn /\ at' = at
      /\ work' = work
  BY DEF StartSort, loop
<1>2. phase = 0 /\ turn = 0 /\ column = 0 /\ at = 0
  BY <1>1 DEF TableInv, PlaceInv
<1>3. /\ N' = N /\ Index' = Index /\ SortKeys' = SortKeys /\ Sorting'
      /\ BatchSize' = BatchSize
  BY <1>1 DEF N, Index, SortKeys, Sorting, Op, BatchSize
<1>4. DataInv' /\ PlaceInv' /\ TreeInv'
  <2>1. Has(in', "join") <=> Has(in, "join")
    BY <1>1
  <2> QED
    BY <1>1, <1>2, <2>1 DEF TableInv, DataInv, PlaceInv, TreeInv
<1>5. PICK a \in Nat : N = 2^a
  BY DataFacts DEF TableInv
<1>6. PICK e \in Nat : e < a /\ BatchSize = 2^e
  BY <1>1, <1>5, SortingFacts DEF TableInv
<1>7. rows \in [Index -> Row] /\ N \in Nat /\ Sortable(SortKeys)
  BY <1>1, DataFacts, SortingFacts DEF TableInv
<1>8. 2^0 = 1 /\ 2^(0 - 0) = 1
  OBVIOUS
<1>9. Blocked(SortKeys, rows, N, 1, 1)
  BY DEF Blocked
<1>10. Blocked(SortKeys, rows, N, 2, 1) /\ Bitonic(SortKeys, rows, N, 2)
  <2>1. \A i \in 0 .. N - 1 : rows[i] \in Row
    BY <1>7 DEF Index
  <2>2. Blocked(SortKeys, rows, N, 2 * 1, 1) /\ Bitonic(SortKeys, rows, N, 2 * 1)
    BY <1>7, <1>9, <2>1, PhaseStarts
  <2>3. 2 * 1 = 2
    OBVIOUS
  <2> QED
    BY <2>2, <2>3
<1>11. Distance' = 1 /\ (2^column)' = 1 /\ (2^phase)' = 1
  BY <1>1, <1>2, <1>8 DEF Distance
<1>12. ColumnReady(rows)'
  <2>1. 2 * Distance' = 2
    BY <1>11
  <2> QED
    BY <1>1, <1>3, <1>9, <1>10, <1>11, <2>1 DEF ColumnReady
<1>13. BatchSize \in Nat /\ BatchSize >= 1 /\ (N \div 2) \div BatchSize \in Nat
       /\ (N \div 2) \div BatchSize >= 1
  <2>1. 0 <= 0 /\ 0 \in Nat
    OBVIOUS
  <2>2. phase \in Nat /\ phase < a /\ column \in 0 .. phase
    BY <1>2, <1>6
  <2>3. \E K, J \in Nat : /\ J >= 1 /\ (N \div 2) \div BatchSize = J
                          /\ BatchSize \in Nat /\ BatchSize >= 1
    BY <1>5, <1>6, <2>2, SortSizes
  <2> QED
    BY <2>3
<1>14. ColumnHalf' /\ at' = Low(Distance', turn' * BatchSize')
  <2>1. rows' \in [Index' -> Row] /\ BatchSize' \in Nat
    BY <1>1, <1>3, <1>7, <1>13
  <2> QED
    BY <1>1, <1>2, <1>3, <1>7, <1>11, <1>12, <2>1, ColumnBegins
<1>15. SortInv'
  <2>1. phase' \in Nat /\ column' \in 0 .. phase' /\ N' = 2^a /\ phase' <= a
    BY <1>1, <1>2, <1>3, <1>5
  <2>2. turn' \in 0 .. (N' \div 2) \div BatchSize' - 1
    BY <1>1, <1>2, <1>3, <1>13
  <2>3. (Blocked(SortKeys, rows, N, 1, 2^phase))'
    BY <1>1, <1>3, <1>9, <1>11
  <2>4. column' = 0 /\ turn' = 0
    BY <1>1, <1>2
  <2> QED
    BY <1>3, <1>12, <1>14, <2>1, <2>2, <2>3, <2>4 DEF SortInv
<1> QED
  BY <1>4, <1>15 DEF TableInv

LEMMA EndSortKeeps == TableInv /\ EndSort => TableInv'
<1> SUFFICES ASSUME TableInv, EndSort PROVE TableInv'
  OBVIOUS
<1>1. pc = "columns" /\ in' = in /\ rows' = rows /\ used' = used
  BY DEF EndSort
<1>2. Sorting /\ ops # <<>> /\ rows \in [Index -> Row] /\ used \in BOOLEAN
  BY <1>1, DataFacts DEF TableInv, SortInv, Sorting, DataInv
<1>3. CASE Op.kind = "distinct"
  BY <1>1, <1>2, <1>3, FirstDistinctKeeps DEF EndSort
<1>4. CASE Op.kind # "distinct"
  <2>1. Finish
    BY <1>4 DEF EndSort
  <2> QED
    BY <1>1, <1>2, <2>1, FinishedRows
<1> QED
  BY <1>3, <1>4

\* A batch that is not the last one of a column.
LEMMA BatchInside ==
  ASSUME TableInv, SortBatch, pc = "columns", 2^phase < N,
         turn + 1 < (N \div 2) \div BatchSize
  PROVE  TableInv'
<1>1. DataInv /\ SortInv /\ Sorting
  BY DEF TableInv, SortInv
<1>2. PICK d, C, K, J, B : BatchFacts(d, C, K, J, B)
  BY <1>1, BatchBegins
<1>3. turn \in 0 .. J - 1 /\ at = Low(d, turn * B) /\ turn + 1 < J
  BY <1>1, <1>2 DEF SortInv, BatchFacts
<1>4. PICK old \in [Index -> Row] :
        ColumnReady(old) /\ HalfDone(SortKeys, old, rows, N, d, C, turn * B)
  BY <1>1, <1>2 DEF SortInv, ColumnHalf, BatchFacts
<1>5. /\ turn' = turn + 1 /\ at' = Position[BatchSize] /\ phase' = phase
      /\ column' = column /\ ops' = ops /\ in' = in /\ used' = used /\ pc' = pc
      /\ work' = work
  BY DEF SortBatch
<1>6. Sortable(SortKeys) /\ rows \in [Index -> Row]
  BY <1>1, SortingFacts, DataFacts
<1> DEFINE m == turn * B
<1>7. m \in Nat /\ m + B = (turn + 1) * B /\ B \in Nat
  <2>1. turn \in Nat /\ B \in Nat
    BY <1>2, <1>3 DEF BatchFacts
  <2> QED
    BY <2>1
<1>8. HalfDone(SortKeys, old, rows', N, d, C, m + B)
  <2>1. at = Low(d, m) /\ HalfDone(SortKeys, old, rows, N, d, C, m)
    BY <1>3, <1>4
  <2>2. \A i \in Index : rows[i] \in Row
    BY <1>6
  <2> HIDE DEF m
  <2> QED
    BY <1>2, <1>6, <1>7, <2>1, <2>2, BatchKeepsHalf DEF BatchFacts
<1>9. at' = Low(d, m + B) /\ at' \in Nat
  <2>1. at = Low(d, m)
    BY <1>3
  <2> HIDE DEF m
  <2>2. d \in Nat /\ d >= 1 /\ Distance = d /\ BatchSize = B /\ m + B \in Nat
    BY <1>2, <1>7 DEF BatchFacts
  <2>3. Position[B] = Low(d, m + B)
    BY <1>7, <2>1, <2>2, PositionIs
  <2>4. PICK b \in Nat, r \in 0 .. d - 1 : m + B = Comparison(d, b, r)
    BY <2>2, BoxAndRow
  <2>5. Low(d, m + B) \in Nat
    BY <2>2, <2>4, LowIs, SpotFacts
  <2> QED
    BY <1>5, <2>2, <2>3, <2>5
<1>10. rows' \in [Index -> Row]
  BY <1>1, BatchType
<1>11. /\ N' = N /\ Index' = Index /\ SortKeys' = SortKeys /\ Sorting'
       /\ BatchSize' = BatchSize /\ DataInv' /\ PlaceInv' /\ TreeInv'
  BY <1>5, <1>9, <1>10, SortFixed
<1>12. Distance' = Distance /\ Distance = d /\ BatchSize = B /\ 2^column = C
  BY <1>2, <1>5 DEF Distance, BatchFacts
<1>13. ColumnHalf'
  <2>1. ColumnReady(old)'
    BY <1>4, <1>5, <1>11, <1>12 DEF ColumnReady
  <2>2. turn' * BatchSize' = m + B
    BY <1>5, <1>7, <1>11, <1>12
  <2> HIDE DEF m
  <2>3. (HalfDone(SortKeys, old, rows, N, Distance, 2^column, turn * BatchSize))'
    BY <1>5, <1>8, <1>11, <1>12, <2>2
  <2> QED
    BY <1>4, <1>11, <2>1, <2>3 DEF ColumnHalf
<1>14. SortInv'
  <2>1. at' = Low(Distance', turn' * BatchSize')
    BY <1>5, <1>7, <1>9, <1>11, <1>12
  <2>2. turn' \in 0 .. (N' \div 2) \div BatchSize' - 1 /\ turn' # 0
    <3>1. (N \div 2) \div BatchSize = J /\ J \in Nat
      BY <1>2 DEF BatchFacts
    <3> QED
      BY <1>3, <1>5, <1>11, <3>1
  <2>3. phase' \in Nat /\ column' \in 0 .. phase' /\ (\E a \in Nat : N' = 2^a /\ phase' <= a)
    BY <1>1, <1>5, <1>11 DEF SortInv
  <2>4. 2^phase' # N'
    <3>1. 2^phase \in Nat /\ N \in Nat
      BY <1>1, DataFacts, PowPositive DEF SortInv
    <3> QED
      BY <1>5, <1>11, <3>1
  <2> QED
    BY <1>11, <1>13, <2>1, <2>2, <2>3, <2>4 DEF SortInv
<1> QED
  BY <1>11, <1>14 DEF TableInv

\* What a column leaves.
LEMMA ColumnEnds ==
  ASSUME TableInv, SortBatch, pc = "columns", 2^phase < N,
         ~ (turn + 1 < (N \div 2) \div BatchSize),
         NEW d, NEW C, NEW K, NEW J, NEW B, BatchFacts(d, C, K, J, B)
  PROVE  Blocked(SortKeys, rows', N, d, 2 * C) /\ Bitonic(SortKeys, rows', N, d)
<1>1. DataInv /\ SortInv /\ Sorting
  BY DEF TableInv, SortInv
<1>2. turn \in 0 .. J - 1 /\ at = Low(d, turn * B) /\ ~ (turn + 1 < J)
  BY <1>1 DEF SortInv, BatchFacts
<1>3. PICK old \in [Index -> Row] :
        ColumnReady(old) /\ HalfDone(SortKeys, old, rows, N, d, C, turn * B)
  BY <1>1 DEF SortInv, ColumnHalf, BatchFacts
<1>4. Sortable(SortKeys) /\ rows \in [Index -> Row]
  BY <1>1, SortingFacts, DataFacts
<1> DEFINE m == turn * B
<1>5. m \in Nat /\ m + B = d * K
  <2>1. turn + 1 = J /\ turn \in Nat /\ B \in Nat /\ J \in Nat
    BY <1>2 DEF BatchFacts
  <2>2. m \in Nat /\ m + B = B * J
    BY <2>1
  <2> HIDE DEF m
  <2> QED
    BY <2>2 DEF BatchFacts
<1>6. HalfDone(SortKeys, old, rows', N, d, C, d * K)
  <2>1. at = Low(d, m) /\ HalfDone(SortKeys, old, rows, N, d, C, m)
    BY <1>2, <1>3
  <2>2. \A i \in Index : rows[i] \in Row
    BY <1>4
  <2> HIDE DEF m
  <2>3. HalfDone(SortKeys, old, rows', N, d, C, m + B)
    BY <1>4, <1>5, <2>1, <2>2, BatchKeepsHalf DEF BatchFacts
  <2> QED
    BY <1>5, <2>3
<1>7. Exchanged(SortKeys, old, rows', N, d, C)
  BY <1>6, AllDone DEF BatchFacts
<1>8. Blocked(SortKeys, old, N, 2 * d, C) /\ Bitonic(SortKeys, old, N, 2 * d)
  BY <1>3 DEF ColumnReady, BatchFacts
<1>9. \A i \in 0 .. N - 1 : old[i] \in Row
  BY <1>3 DEF Index
<1> QED
  BY <1>4, <1>7, <1>8, <1>9, ColumnSorts DEF BatchFacts

\* The last batch of a column: the next column, or the next phase.
LEMMA BatchLast ==
  ASSUME TableInv, SortBatch, pc = "columns", 2^phase < N,
         ~ (turn + 1 < (N \div 2) \div BatchSize)
  PROVE  TableInv'
<1>1. DataInv /\ SortInv /\ Sorting /\ phase \in Nat /\ column \in 0 .. phase
  BY DEF TableInv, SortInv
<1>2. PICK d, C, K, J, B : BatchFacts(d, C, K, J, B)
  BY <1>1, BatchBegins
<1>3. Blocked(SortKeys, rows', N, d, 2 * C) /\ Bitonic(SortKeys, rows', N, d)
  BY <1>2, ColumnEnds
<1>4. /\ turn' = 0 /\ at' = 0
      /\ column' = IF column < phase THEN column + 1 ELSE 0
      /\ phase' = IF column < phase THEN phase ELSE phase + 1
      /\ ops' = ops /\ in' = in /\ used' = used /\ pc' = pc /\ work' = work
  BY DEF SortBatch
<1>5. rows' \in [Index -> Row]
  BY <1>1, BatchType
<1>6. /\ N' = N /\ Index' = Index /\ SortKeys' = SortKeys /\ Sorting'
      /\ BatchSize' = BatchSize /\ DataInv' /\ PlaceInv' /\ TreeInv'
  <2>1. at' \in Nat
    BY <1>4
  <2> QED
    BY <1>4, <1>5, <2>1, SortFixed
<1>7. BatchSize = B /\ B \in Nat /\ (N \div 2) \div BatchSize = J /\ J \in Nat /\ J >= 1
  BY <1>2 DEF BatchFacts
<1>8. PICK a \in Nat : N = 2^a /\ phase <= a
  BY <1>1 DEF SortInv
<1>9. phase < a
  <2>1. 2^phase \in Nat /\ 2^phase < 2^a
    BY <1>1, <1>8, PowPositive
  <2> QED
    BY <1>1, <2>1, PowInjective
<1>10. turn' \in 0 .. (N' \div 2) \div BatchSize' - 1
  BY <1>4, <1>6, <1>7
<1>11. CASE column < phase
  <2> DEFINE h == 2^(phase - (column + 1))
  <2>1. phase - (column + 1) \in Nat /\ (phase - (column + 1)) + 1 = phase - column
        /\ column \in Nat
    BY <1>1, <1>11
  <2>2. d = 2 * h /\ h \in Nat /\ h >= 1
    BY <1>2, <2>1, PowDouble, PowPositive DEF BatchFacts, Distance
  <2>3. 2^(column + 1) = 2 * C /\ 2 * C \in Nat /\ 2 * C >= 1
    BY <1>2, <2>1, PowDouble DEF BatchFacts
  <2>4. column' = column + 1 /\ phase' = phase
    BY <1>4, <1>11
  <2>5. Distance' = h /\ (2^column)' = 2 * C
    BY <2>3, <2>4 DEF Distance
  <2> HIDE DEF h
  <2>6. ColumnReady(rows)'
    <3>1. column' # 0
      BY <2>1, <2>4
    <3> QED
      BY <1>3, <1>6, <2>2, <2>5, <3>1 DEF ColumnReady
  <2>7. ColumnHalf' /\ at' = Low(Distance', turn' * BatchSize')
    <3>1. N \in Nat /\ BatchSize' = B
      BY <1>2, <1>6, <1>7 DEF BatchFacts
    <3> QED
      BY <1>4, <1>5, <1>6, <1>7, <2>2, <2>3, <2>5, <2>6, <3>1, ColumnBegins
  <2>8. 2^phase' # N'
    <3>1. 2^phase \in Nat
      BY <1>1, PowPositive
    <3> QED
      BY <1>6, <2>4, <3>1
  <2>9. phase' \in Nat /\ column' \in 0 .. phase' /\ N' = 2^a /\ phase' <= a
    BY <1>1, <1>6, <1>8, <1>11, <2>1, <2>4
  <2>10. SortInv'
    BY <1>6, <1>10, <2>6, <2>7, <2>8, <2>9 DEF SortInv
  <2> QED
    BY <1>6, <2>10 DEF TableInv
<1>12. CASE ~ (column < phase)
  <2> DEFINE L == 2^(phase + 1)
  <2>1. column = phase /\ phase - column = 0
    BY <1>1, <1>12
  <2>2. column' = 0 /\ phase' = phase + 1 /\ phase + 1 \in Nat
    BY <1>1, <1>4, <1>12
  <2>3. d = 1 /\ L = 2 * C /\ L \in Nat /\ L >= 1
    <3>1. 2^0 = 1
      OBVIOUS
    <3>2. d = 1
      BY <1>2, <2>1, <3>1 DEF BatchFacts, Distance
    <3>3. L = 2 * d * C /\ C \in Nat
      BY <1>2 DEF BatchFacts
    <3> QED
      BY <2>2, <3>2, <3>3, PowPositive
  <2>4. Blocked(SortKeys, rows', N, 1, L)
    BY <1>3, <2>3
  <2>5. Distance' = L /\ (2^column)' = 1 /\ (2^phase)' = L
    <3>1. phase' - column' = phase + 1 /\ 2^0 = 1
      BY <2>2
    <3> QED
      BY <2>2, <3>1 DEF Distance
  <2> HIDE DEF L
  <2>6. (Blocked(SortKeys, rows, N, 1, 2^phase))'
    BY <1>6, <2>4, <2>5
  <2>7. ColumnReady(rows)'
    <3>1. \A i \in 0 .. N - 1 : rows'[i] \in Row
      BY <1>5 DEF Index
    <3>2. N \in Nat /\ Sortable(SortKeys)
      BY <1>1, <1>2, SortingFacts DEF BatchFacts
    <3>3. Blocked(SortKeys, rows', N, 2 * L, 1) /\ Bitonic(SortKeys, rows', N, 2 * L)
      BY <2>3, <2>4, <3>1, <3>2, PhaseStarts
    <3> QED
      BY <1>6, <2>5, <2>6, <3>3 DEF ColumnReady
  <2>8. ColumnHalf' /\ at' = Low(Distance', turn' * BatchSize')
    <3>1. N \in Nat /\ BatchSize' = B
      BY <1>2, <1>6, <1>7 DEF BatchFacts
    <3> QED
      BY <1>4, <1>5, <1>6, <1>7, <2>3, <2>5, <2>7, <3>1, ColumnBegins
  <2>9. phase' \in Nat /\ column' \in 0 .. phase' /\ N' = 2^a /\ phase' <= a
    BY <1>1, <1>6, <1>8, <1>9, <2>2
  <2>10. SortInv'
    BY <1>4, <1>6, <1>10, <2>2, <2>6, <2>7, <2>8, <2>9 DEF SortInv
  <2> QED
    BY <1>6, <2>10 DEF TableInv
<1> QED
  BY <1>11, <1>12

LEMMA SortBatchKeeps == TableInv /\ SortBatch => TableInv'
<1> SUFFICES ASSUME TableInv, SortBatch PROVE TableInv'
  OBVIOUS
<1>1. pc = "columns" /\ 2^phase < N
  BY DEF SortBatch
<1> QED
  BY <1>1, BatchInside, BatchLast

-----------------------------------------------------------------------------
(* The theorems. *)

LEMMA InitEstablishes == Init => TableInv
<1> SUFFICES ASSUME Init PROVE TableInv
  OBVIOUS
<1>1. /\ in \in Calls /\ ops = in.ops /\ rows = in.left /\ used = FALSE /\ pc = "start"
      /\ phase = 0 /\ column = 0 /\ turn = 0 /\ at = 0 /\ work = <<>>
  BY DEF Init
<1>2. \E k \in 0 .. Len(in.ops) : ops = SubSeq(in.ops, k + 1, Len(in.ops))
  <2>1. in.ops \in Seq(Operation)
    BY <1>1, CallFacts
  <2>2. SubSeq(in.ops, 0 + 1, Len(in.ops)) = in.ops /\ 0 \in 0 .. Len(in.ops)
    BY <2>1, SubSeqFull
  <2> QED
    BY <1>1, <2>2
<1>3. PICK a \in Nat : Size(in.left) = 2^a /\ in.batch <= 2^a
  BY <1>1, CallFacts
<1>4. /\ rows \in [0 .. 2^a - 1 -> Row]
      /\ Has(in, "join") => 2^a % in.lefts = 0
  BY <1>1, <1>3, CallFacts
<1>5. \A k \in DOMAIN work : work[k] \in {0, 1}
  BY <1>1
<1>6. DataInv
  BY <1>1, <1>2, <1>3, <1>4, <1>5 DEF DataInv
<1> QED
  BY <1>1, <1>6 DEF TableInv, PlaceInv, SortInv, TreeInv

LEMMA NextKeeps == TableInv /\ [Next]_vars => TableInv'
<1> SUFFICES ASSUME TableInv, [Next]_vars PROVE TableInv'
  OBVIOUS
<1>1. CASE FilterConst
  BY <1>1, FilterConstKeeps
<1>2. CASE Filter
  BY <1>2, FilterKeeps
<1>3. CASE Join
  BY <1>3, JoinKeeps
<1>4. CASE SemiJoinEq
  BY <1>4, SemiJoinEqKeeps
<1>5. CASE SemiJoinLevel
  BY <1>5, SemiJoinLevelKeeps
<1>6. CASE SemiJoinResult
  BY <1>6, SemiJoinResultKeeps
<1>7. CASE StartSort
  BY <1>7, StartSortKeeps
<1>8. CASE SortBatch
  BY <1>8, SortBatchKeeps
<1>9. CASE EndSort
  BY <1>9, EndSortKeeps
<1>10. CASE StartAdjacent
  BY <1>10, StartAdjacentKeeps
<1>11. CASE DistinctBatch
  BY <1>11, DistinctKeeps
<1>12. CASE MaskBatch
  BY <1>12, MaskKeeps
<1>13. CASE UNCHANGED vars
  <2>1. /\ in' = in /\ ops' = ops /\ rows' = rows /\ used' = used /\ pc' = pc
        /\ phase' = phase /\ column' = column /\ turn' = turn /\ at' = at /\ work' = work
    BY <1>13 DEF vars
  <2>2. /\ N' = N /\ Index' = Index /\ NR' = NR /\ SortKeys' = SortKeys
        /\ Sorting' = Sorting /\ BatchSize' = BatchSize /\ Distance' = Distance
        /\ LeftEnd' = LeftEnd /\ Op' = Op
    BY <2>1 DEF N, Index, NR, SortKeys, Sorting, Op, BatchSize, Distance, LeftEnd
  <2>3. DataInv'
    <3>1. Has(in', "join") <=> Has(in, "join")
      BY <2>1
    <3> QED
      BY <2>1, <3>1 DEF TableInv, DataInv
  <2>4. PlaceInv'
    BY <2>1, <2>2 DEF TableInv, PlaceInv
  <2>5. TreeInv'
    <3>1. pc = "levels" => TreeKeeps'
      <4> SUFFICES ASSUME pc = "levels" PROVE TreeKeeps'
        OBVIOUS
      <4>1. Tree(work', column', LeftEnd - at)
        BY <2>1 DEF TableInv, TreeInv, TreeKeeps, Tree
      <4> QED
        BY <2>1, <4>1, TreePrimed
    <3>2. (Rows(LeftEnd - at))' = Rows(LeftEnd - at)
      BY <2>1, <2>2 DEF Rows
    <3> QED
      BY <2>1, <2>2, <3>1, <3>2 DEF TableInv, TreeInv
  <2>6. SortInv'
    <3>1. \A old : ColumnReady(old)' <=> ColumnReady(old)
      BY <2>1, <2>2 DEF ColumnReady
    <3>2. ColumnHalf => ColumnHalf'
      BY <2>1, <2>2, <3>1 DEF ColumnHalf
    <3>3. ColumnReady(rows) => ColumnReady(rows)'
      BY <2>1, <2>2 DEF ColumnReady
    <3> QED
      BY <2>1, <2>2, <3>2, <3>3 DEF TableInv, SortInv
  <2> QED
    BY <2>3, <2>4, <2>5, <2>6 DEF TableInv
<1> QED
  BY <1>1, <1>2, <1>3, <1>4, <1>5, <1>6, <1>7, <1>8, <1>9, <1>10, <1>11, <1>12, <1>13
  DEF Next, Done

\* The inductive invariant of the operators.
THEOREM TableInvariant == Spec => []TableInv
BY InitEstablishes, NextKeeps, PTL DEF Spec

\* Every word a step writes is a word, and every row a batch reads, compares or
\* exchanges is a row of the table, for tables, plans and batches of every size.
THEOREM TypeCorrect == Spec => []TypeOK
<1>1. TableInv => TypeOK
  <2> SUFFICES ASSUME TableInv PROVE TypeOK
    OBVIOUS
  <2>1. ASSUME pc = "columns", 2^phase < N, NEW k \in 0 .. BatchSize - 1
        PROVE  Position[k] \in Index /\ Partner(Position[k]) \in Index
    <3>1. DataInv /\ SortInv
      BY DEF TableInv
    <3>2. PICK d, C, K, J, B : BatchFacts(d, C, K, J, B)
      BY <2>1, <3>1, BatchBegins
    <3>3. turn \in 0 .. J - 1 /\ at = Low(d, turn * B)
      BY <2>1, <3>1, <3>2 DEF SortInv, BatchFacts
    <3> QED
      BY <2>1, <3>2, <3>3, BatchPlaces
  <2>2. \A i \in Index : rows[i] \in Row
    BY DataFacts DEF TableInv
  <2> QED
    BY <2>1, <2>2 DEF TypeOK, TableInv, DataInv, PlaceInv
<1> QED
  BY <1>1, TableInvariant, PTL

\* The elements that are left of a left row always decide about its partners.
THEOREM TreeDecides == Spec => []TreeKeeps
<1>1. TableInv => TreeKeeps
  BY DEF TableInv, TreeInv, TreeKeeps
<1> QED
  BY <1>1, TableInvariant, PTL

\* The block of a row is the block of its box.
InBlock(w, C, i) ==
  /\ (i \div w) \div C = i \div (w * C) /\ i \div w \in Nat
  /\ (i \div w) % C \in 0 .. C - 1 /\ i % w \in 0 .. w - 1 /\ i \div (w * C) \in Nat
  /\ i = w * (C * (i \div (w * C)) + ((i \div w) % C)) + (i % w)
  /\ i \div w = C * (i \div (w * C)) + ((i \div w) % C)

LEMMA BlockOfBox ==
  ASSUME NEW w \in Nat, w >= 1, NEW C \in Nat, C >= 1, NEW i \in Nat
  PROVE  InBlock(w, C, i)
<1> DEFINE p == i \div w
           r == i % w
           x == p \div C
           v == p % C
<1>1. p \in Nat /\ r \in Nat /\ r < w /\ i = w * p + r
  BY DivMod
<1> HIDE DEF p, r
<1>2. x \in Nat /\ v \in Nat /\ v < C /\ p = C * x + v
  BY <1>1, DivMod
<1> HIDE DEF x, v
<1> DEFINE b == w * C
           s == w * v + r
<1>3. b \in Nat /\ b >= 1
  OBVIOUS
<1>4. s \in Nat /\ s < b
  <2>1. w * v \in Nat /\ w * (v + 1) <= w * C /\ w * (v + 1) = w * v + w
    BY <1>2
  <2> QED
    BY <1>1, <2>1
<1>5. i = b * x + s
  BY <1>1, <1>2
<1> HIDE DEF b, s
<1>6. i \div b = x
  BY <1>2, <1>3, <1>4, <1>5, DivModUnique
<1>7. i \div (w * C) = x
  BY <1>6 DEF b
<1>8. i = w * (C * x + v) + r
  BY <1>1, <1>2
<1> QED
  BY <1>1, <1>2, <1>7, <1>8 DEF p, r, x, v, InBlock

\* Rows of different boxes of a block of block rows are in the order of the block.
Divided(n, w, C, K, block) ==
  /\ w \in Nat /\ w >= 1 /\ C \in Nat /\ C >= 1 /\ K \in Nat /\ n \in Nat
  /\ n = w * K /\ block = w * C
Apart(i, j, w, block) == i < j /\ i \div w # j \div w /\ i \div block = j \div block

LEMMA BlockedOrders ==
  ASSUME NEW keys, NEW T, NEW n, NEW w, NEW C, NEW K, NEW block,
         Divided(n, w, C, K, block), Blocked(keys, T, n, w, C),
         NEW i \in 0 .. n - 1, NEW j \in 0 .. n - 1, Apart(i, j, w, block)
  PROVE  InOrder(keys, (i \div block) % 2 = 0, T[i], T[j])
<1> SUFFICES ASSUME w \in Nat, w >= 1, C \in Nat, C >= 1, K \in Nat, n \in Nat,
                    n = w * K, i < j,
                    i \div w # j \div w, i \div (w * C) = j \div (w * C)
             PROVE  InOrder(keys, (i \div (w * C)) % 2 = 0, T[i], T[j])
  BY DEF Divided, Apart
<1> DEFINE u == i \div (w * C)
           v1 == (i \div w) % C
           v2 == (j \div w) % C
           r1 == i % w
           r2 == j % w
<1>1. /\ u \in Nat /\ v1 \in 0 .. C - 1 /\ r1 \in 0 .. w - 1 /\ i = w * (C * u + v1) + r1
      /\ i \div w = C * u + v1 /\ i \div w \in Nat
  <2>1. InBlock(w, C, i)
    BY BlockOfBox
  <2> QED
    BY <2>1 DEF InBlock
<1>2. /\ v2 \in 0 .. C - 1 /\ r2 \in 0 .. w - 1 /\ j = w * (C * u + v2) + r2
      /\ j \div w = C * u + v2 /\ j \div w \in Nat
  <2>1. InBlock(w, C, j)
    BY BlockOfBox
  <2> QED
    BY <2>1 DEF InBlock
<1> HIDE DEF u, v1, v2, r1, r2
<1>3. v1 < v2
  <2> DEFINE p == C * u + v1
             q == C * u + v2
  <2>1. p # q /\ p \in Nat /\ q \in Nat /\ i = w * p + r1 /\ j = w * q + r2
    BY <1>1, <1>2
  <2>2. ~ (v2 < v1)
    <3> SUFFICES ASSUME v2 < v1 PROVE FALSE
      OBVIOUS
    <3>1. q + 1 <= p
      BY <1>1, <1>2
    <3> HIDE DEF p, q
    <3>2. w * (q + 1) <= w * p /\ w * (q + 1) = w * q + w /\ w * p \in Nat /\ w * q \in Nat
      BY <2>1, <3>1
    <3> QED
      BY <1>1, <1>2, <2>1, <3>2
  <2> QED
    BY <1>1, <1>2, <2>1, <2>2
<1>4. w * (C * u + v2) + w <= n
  <2> DEFINE q == C * u + v2
  <2>1. q \in Nat /\ w * q <= j /\ j < w * K /\ w * q \in Nat /\ w * K \in Nat
    BY <1>1, <1>2
  <2> HIDE DEF q
  <2>2. q < K
    <3> SUFFICES ASSUME q >= K PROVE FALSE
      BY <2>1
    <3>1. w * q >= w * K
      BY <2>1
    <3> QED
      BY <2>1, <3>1
  <2>3. w * (q + 1) <= w * K /\ w * (q + 1) = w * q + w
    BY <2>1, <2>2
  <2> QED
    BY <2>3 DEF q
<1>5. InOrder(keys, u % 2 = 0, T[w * (C * u + v1) + r1], T[w * (C * u + v2) + r2])
  BY <1>1, <1>2, <1>3, <1>4 DEF Blocked
<1> QED
  BY <1>1, <1>2, <1>5 DEF u

\* After every column of every phase of bitonic_sort_batch the boxes of the blocks
\* are in order, and after the last phase the table is sorted: for tables of every
\* size, all keys and directions, and batches of every size.
THEOREM SortSorts == Spec => []SortKeeps
<1>1. TableInv => SortKeeps
  <2> SUFFICES ASSUME TableInv, pc = "columns", turn = 0, NEW i \in Index, NEW j \in Index,
                      i < j,
                      IF column = 0 THEN i \div 2^phase = j \div 2^phase
                      ELSE /\ i \div 2^(phase + 1 - column) # j \div 2^(phase + 1 - column)
                           /\ i \div 2^(phase + 1) = j \div 2^(phase + 1)
               PROVE  InOrder(SortKeys,
                              (IF column = 0 THEN i \div 2^phase ELSE i \div 2^(phase + 1))
                                % 2 = 0,
                              rows[i], rows[j])
    BY DEF SortKeeps
  <2>1. DataInv /\ SortInv /\ N \in Nat /\ phase \in Nat /\ column \in 0 .. phase
    BY DataFacts DEF TableInv, SortInv
  <2>2. i \in 0 .. N - 1 /\ j \in 0 .. N - 1
    BY DEF Index
  <2>3. PICK a \in Nat : N = 2^a /\ phase <= a
    BY <2>1 DEF SortInv
  <2>4. 2^phase <= N /\ 2^phase \in Nat /\ 2^phase >= 1
    BY <2>1, <2>3, PowMonotone, PowPositive
  <2>5. CASE column = 0
    <3> DEFINE L == 2^phase
    <3>1. Blocked(SortKeys, rows, N, 1, L)
      <4>1. CASE L = N
        BY <2>1, <4>1 DEF SortInv
      <4>2. CASE L < N
        BY <2>1, <2>5, <4>2 DEF SortInv, ColumnReady
      <4> QED
        BY <2>1, <2>4, <4>1, <4>2
    <3>2. i \div 1 = i /\ j \div 1 = j /\ 1 * L = L /\ N = 1 * N
      BY <2>1, <2>2, <2>4
    <3>3. L \in Nat /\ L >= 1 /\ i \div L = j \div L
      BY <2>4, <2>5
    <3> HIDE DEF L
    <3>4. Divided(N, 1, L, N, L)
      BY <2>1, <3>2, <3>3 DEF Divided
    <3>5. Apart(i, j, 1, L)
      BY <2>2, <3>2, <3>3 DEF Apart
    <3>6. InOrder(SortKeys, (i \div L) % 2 = 0, rows[i], rows[j])
      BY <2>2, <3>1, <3>4, <3>5, BlockedOrders
    <3> QED
      BY <2>5, <3>6 DEF L
  <2>6. CASE column # 0
    <3>1. 2^phase < N
      BY <2>1, <2>4, <2>6 DEF SortInv
    <3>2. PICK d, C, K, J, B : BatchFacts(d, C, K, J, B)
      BY <2>1, <3>1, BatchBegins
    <3> DEFINE w == 2 * d
    <3>3. Blocked(SortKeys, rows, N, w, C)
      BY <2>1, <3>1, <3>2 DEF SortInv, ColumnReady, BatchFacts
    <3>4. w \in Nat /\ w >= 1 /\ C \in Nat /\ C >= 1 /\ K \in Nat /\ N = w * K
      BY <3>2 DEF BatchFacts
    <3>5. 2^(phase + 1) = w * C
      BY <3>2 DEF BatchFacts
    <3>6. 2^(phase + 1 - column) = w
      <4>1. phase - column \in Nat /\ (phase - column) + 1 = phase + 1 - column
        BY <2>1
      <4> QED
        BY <3>2, <4>1, PowDouble DEF BatchFacts, Distance
    <3> HIDE DEF w
    <3> DEFINE block == 2^(phase + 1)
    <3>7. Divided(N, w, C, K, block)
      BY <2>1, <3>4, <3>5 DEF Divided
    <3>8. Apart(i, j, w, block)
      BY <2>6, <3>6 DEF Apart
    <3> HIDE DEF block
    <3>9. InOrder(SortKeys, (i \div block) % 2 = 0, rows[i], rows[j])
      BY <2>2, <3>3, <3>7, <3>8, BlockedOrders
    <3> QED
      BY <2>6, <3>9 DEF block
  <2> QED
    BY <2>5, <2>6
<1> QED
  BY <1>1, TableInvariant, PTL

-----------------------------------------------------------------------------
(* The answer.  Rows and tuples of the query correspond one to one.        *)

LEMMA LowSumParity ==
  ASSUME NEW u, NEW n \in Nat
  PROVE  LowSum(u, n + 1) % 2 = IF 0 \in u THEN 1 ELSE 0
<1> DEFINE b == IF 0 \in u THEN 1 ELSE 0
           S == {m \in Nat : LowSum(u, m + 1) % 2 = b}
<1>1. b \in {0, 1}
  OBVIOUS
<1>2. 0 \in S
  <2>1. 2^0 = 1
    OBVIOUS
  <2>2. LowSum(u, 0 + 1) = LowSum(u, 0) + (IF 0 \in u THEN 2^0 ELSE 0)
    BY LowStep
  <2>3. LowSum(u, 0) = 0
    BY LowZero
  <2>4. LowSum(u, 0 + 1) = b
    BY <2>1, <2>2, <2>3
  <2> HIDE DEF b
  <2>5. b % 2 = b
    BY <1>1
  <2> QED
    BY <2>4, <2>5
<1>3. ASSUME NEW m \in Nat, m \in S PROVE m + 1 \in S
  <2> DEFINE low == LowSum(u, m + 1)
             t == 2^m
  <2>1. low \in Nat /\ low % 2 = b
    BY <1>3, LowBound
  <2>2. LowSum(u, (m + 1) + 1) = low + (IF m + 1 \in u THEN 2^(m + 1) ELSE 0)
    BY LowStep
  <2>3. 2^(m + 1) = 2 * t /\ t \in Nat
    BY PowDouble, PowPositive
  <2> HIDE DEF low, t, b
  <2>4. PICK k \in Nat : LowSum(u, (m + 1) + 1) = low + 2 * k
    <3>1. CASE m + 1 \in u
      BY <2>2, <2>3, <3>1
    <3>2. CASE m + 1 \notin u
      <4>1. low + 0 = low + 2 * 0
        BY <2>1
      <4> QED
        BY <2>2, <3>2, <4>1
    <3> QED
      BY <3>1, <3>2
  <2>5. (low + 2 * k) % 2 = b
    BY <2>1
  <2> QED
    BY <2>4, <2>5
<1>4. Nat \subseteq S
  <2> HIDE DEF S
  <2> QED
    BY <1>2, <1>3, InductionSet
<1> QED
  BY <1>4

\* and_b on the lowest bit.
LEMMA AndWordParity ==
  ASSUME NEW x \in Word, NEW y \in Word
  PROVE  AndWord(x, y) % 2 = 1 <=> x % 2 = 1 /\ y % 2 = 1
<1> DEFINE u == {i \in 0 .. Width - 1 : (x \div 2^i) % 2 = 1 /\ (y \div 2^i) % 2 = 1}
<1>1. Width \in Nat /\ Width >= 1
  BY WidthAssumption
<1>2. u \cap 0 .. Width - 1 = u
  OBVIOUS
<1>3. AndWord(x, y) = LowSum(u, Width)
  BY <1>2 DEF AndWord, Unsigned, LowSum, PowSum
<1>4. Width - 1 \in Nat /\ (Width - 1) + 1 = Width
  BY <1>1
<1>5. LowSum(u, Width) % 2 = IF 0 \in u THEN 1 ELSE 0
  BY <1>4, LowSumParity
<1>6. 0 \in u <=> x % 2 = 1 /\ y % 2 = 1
  <2>1. 2^0 = 1
    OBVIOUS
  <2>2. x \in Nat /\ y \in Nat
    <3>1. MaxWord \in Word
      BY Words
    <3> QED
      BY DEF Word
  <2>3. x \div 1 = x /\ y \div 1 = y
    BY <2>2
  <2>4. 0 \in 0 .. Width - 1
    BY <1>1
  <2> QED
    BY <2>1, <2>3, <2>4
<1> HIDE DEF u
<1> QED
  BY <1>3, <1>5, <1>6

-----------------------------------------------------------------------------
(* Rows that agree, and rows in order. *)

\* x and y have the same words in the columns of the keys.
SameOn(keys, x, y) == \A i \in DOMAIN keys : x[keys[i].col] = y[keys[i].col]

\* What the keys make of x and y is what they make of v and w.
Alike(keys, x, y, v, w) ==
  \A i \in DOMAIN keys :
    LET col == keys[i].col
    IN  \/ x[col] = v[col] /\ y[col] = w[col]
        \/ x[col] = y[col] /\ v[col] = w[col]

LEMMA BeforeAlike ==
  ASSUME NEW keys, Sortable(keys), NEW x \in Row, NEW y \in Row, NEW v \in Row, NEW w \in Row,
         Alike(keys, x, y, v, w)
  PROVE  Before(keys, x, y) <=> Before(keys, v, w)
<1>1. ASSUME NEW i \in DOMAIN keys
      PROVE  /\ Equal(keys[i], x, y) <=> Equal(keys[i], v, w)
             /\ Greater(keys[i], y, x) <=> Greater(keys[i], w, v)
  <2> DEFINE col == keys[i].col
  <2>1. keys[i] \in Key
    BY DEF Sortable
  <2>2. x[col] \in Int /\ y[col] \in Int /\ v[col] \in Int /\ w[col] \in Int
    BY <2>1, ColumnInt
  <2>3. (x[col] = v[col] /\ y[col] = w[col]) \/ (x[col] = y[col] /\ v[col] = w[col])
    BY DEF Alike
  <2>4. Equal(keys[i], x, y) <=> Equal(keys[i], v, w)
    BY <2>3 DEF Equal
  <2>5. Greater(keys[i], y, x) <=> Greater(keys[i], w, v)
    BY <2>2, <2>3 DEF Greater
  <2> QED
    BY <2>4, <2>5
<1>2. DOMAIN keys = 1 .. Len(keys) /\ Len(keys) \in Nat
  BY DEF Sortable
<1>3. \A i \in DOMAIN keys : \A j \in 1 .. i - 1 : j \in DOMAIN keys
  BY <1>2
<1> QED
  BY <1>1, <1>3 DEF Before

\* What lies between two rows that agree on the first m keys agrees with them.
LEMMA Between ==
  ASSUME NEW keys, Sortable(keys), NEW x \in Row, NEW y \in Row, NEW z \in Row,
         ~ Before(keys, y, x), ~ Before(keys, z, y), NEW m \in 0 .. Len(keys),
         \A i \in 1 .. m : Equal(keys[i], x, z)
  PROVE  \A i \in 1 .. m : Equal(keys[i], x, y)
<1> SUFFICES ASSUME NEW a \in 1 .. m, ~ Equal(keys[a], x, y) PROVE FALSE
  OBVIOUS
<1> DEFINE T == {i \in 1 .. m : ~ Equal(keys[i], x, y)}
<1>1. T \subseteq Nat /\ T # {}
  OBVIOUS
<1>2. PICK i \in T : \A n \in T : i <= n
  BY <1>1, LeastElement
<1>3. \A j \in 1 .. i - 1 : Equal(keys[j], x, y) /\ Equal(keys[j], x, z)
  <2> TAKE j \in 1 .. i - 1
  <2>1. j \in 1 .. m /\ ~ (i <= j)
    BY <1>2
  <2>2. j \notin T
    BY <1>2, <2>1
  <2> QED
    BY <2>1, <2>2
<1>4. i \in DOMAIN keys /\ keys[i] \in Key /\ i \in 1 .. m
  BY <1>2 DEF Sortable
<1>5. ~ Greater(keys[i], x, y)
  <2>1. \A j \in 1 .. i - 1 : Equal(keys[j], y, x)
    BY <1>3 DEF Equal
  <2> QED
    BY <1>4, <2>1 DEF Before
<1>6. ~ Greater(keys[i], y, z)
  <2>1. \A j \in 1 .. i - 1 : Equal(keys[j], z, y)
    BY <1>3 DEF Equal
  <2> QED
    BY <1>4, <2>1 DEF Before
<1>7. ~ Equal(keys[i], x, y) /\ Equal(keys[i], x, z)
  BY <1>2, <1>4
<1>8. Greater(keys[i], y, x)
  BY <1>4, <1>5, <1>7, KeyOrder
<1>9. Greater(keys[i], y, z)
  BY <1>4, <1>7, <1>8, KeyOrder
<1> QED
  BY <1>6, <1>9

-----------------------------------------------------------------------------
(* What the operators that are done have made of the input.                *)

OneToOne(f, S, T) ==
  /\ f \in [S -> T]
  /\ \A a, b \in S : f[a] = f[b] => a = b
  /\ \A t \in T : \E a \in S : f[a] = t

\* One of the first n operators is of these kinds.
Did(x, n, kinds) == \E i \in 1 .. n : x.ops[i].kind \in kinds

\* The tuples that the rows stand for, as far as the input is joined.
TuplesAt(x, n) ==
  (DOMAIN x.left) \X (IF Did(x, n, {"join"}) THEN DOMAIN x.right ELSE {0})
RowAt(x, n, t) ==
  IF Did(x, n, {"join"}) THEN [x.left[t[1]] EXCEPT !.rkey = x.right[t[2]].key]
  ELSE x.left[t[1]]

\* What operator i asks of a tuple.
PartnerRow(x, a, b) == x.right[b].key = a.key /\ (x.rightSel => Selected(x.right[b]))
Condition(x, i, t) ==
  LET row == x.left[t[1]]
  IN  CASE x.ops[i].kind = "filter_const" -> row.val = x.ops[i].const
        [] x.ops[i].kind = "filter" -> row.val = row.key
        [] x.ops[i].kind = "semi_join" -> \E b \in DOMAIN x.right : PartnerRow(x, row, b)
        [] x.ops[i].kind = "join" -> t[2] \in DOMAIN x.right /\ PartnerRow(x, row, t[2])
        [] OTHER -> TRUE
Passes(x, n, t) == \A i \in 1 .. n : Condition(x, i, t)

Agrees(y, z) == \A col \in Columns \ {"sel"} : y[col] = z[col]

\* Row r of table T stands for the tuple f[r].
TableIs(x, T, n, f) ==
  /\ OneToOne(f, DOMAIN T, TuplesAt(x, n))
  /\ \A r \in DOMAIN T : Agrees(T[r], RowAt(x, n, f[r]))

\* Its column [SEL], once it has been written: all selected rows have the word c.
Stamped(x, T, r, written, n, f, c) ==
  written => /\ Selected(T[r]) <=> Passes(x, n, f[r])
             /\ Selected(T[r]) => T[r].sel = c

\* After a DISTINCT one row is selected for the keys of each tuple.
OnePerKey(x, T, n, f) ==
  /\ \A r \in DOMAIN T : Selected(T[r]) => Passes(x, n, f[r])
  /\ \A i \in 1 .. n, t \in TuplesAt(x, n) :
       x.ops[i].kind \in Uniques /\ Passes(x, n, t) =>
         \E r \in DOMAIN T : /\ Selected(T[r])
                             /\ SameOn(x.ops[i].by, T[r], RowAt(x, n, t))
                             /\ \A s \in DOMAIN T :
                                  Selected(T[s]) /\ SameOn(x.ops[i].by, T[s], T[r]) => s = r

Faithful(x, T, written, n) ==
  \E f, c :
    /\ TableIs(x, T, n, f)
    /\ IF Did(x, n, Uniques)
       THEN /\ written
            /\ \A r \in DOMAIN T : Selected(T[r]) => T[r].sel = c
            /\ OnePerKey(x, T, n, f)
       ELSE \A r \in DOMAIN T : Stamped(x, T, r, written, n, f, c)

\* The table is in the order of an operator that has just sorted it, and the rows
\* that may be selected remain in that order.
Live(T, written, r) == written => Selected(T[r])
Follows(keys, T, r, s) == r < s => ~ Before(keys, T[s], T[r])
InSequence(x, T, written, n) ==
  /\ n \in DOMAIN x.ops /\ x.ops[n].kind = "order_by" =>
       \A r, s \in DOMAIN T : Follows(x.ops[n].by, T, r, s)
  /\ \A i \in 1 .. n : x.ops[i].kind = "order_by" =>
       \A r, s \in DOMAIN T :
         Live(T, written, r) /\ Live(T, written, s) => Follows(x.ops[i].by, T, r, s)

Correct(x, T, written, n) == Faithful(x, T, written, n) /\ InSequence(x, T, written, n)

\* In a semi-join, the rows before m have been looked up.
HalfJoined(x, T, written, n, m) ==
  \E f, c :
    /\ TableIs(x, T, n, f)
    /\ \A r \in DOMAIN T :
         IF r < m
         THEN Stamped(x, T, r, TRUE, n + 1, f, IF written THEN AndWord(c, 1) ELSE 1)
         ELSE Stamped(x, T, r, written, n, f, c)

\* The mask has gone over the first m rows of T.
HalfMasked(x, T, written, n, m) ==
  \E R : /\ R \in [DOMAIN T -> Row]
         /\ Correct(x, R, written, n)
         /\ \A r \in DOMAIN T : T[r] = IF r < m /\ ~ Selected(R[r]) THEN Masked ELSE R[r]

\* The bits of a DISTINCT by the keys up to row m of T, whose equal rows are adjacent.
HalfMarked(T, keys, bits, m) ==
  /\ \A r, s, q \in DOMAIN T :
       r < s /\ s < q /\ SameOn(keys, T[r], T[q]) => SameOn(keys, T[r], T[s])
  /\ bits[0] = 1
  /\ \A k \in DOMAIN T : 1 <= k /\ k <= m => (bits[k] = 1 <=> ~ SameOn(keys, T[k - 1], T[k]))

Past == Len(in.ops) - Len(ops)

AnswerInv ==
  /\ used <=> Did(in, Past, Selections \cup Uniques)
  /\ IF ops = <<>> THEN HalfMasked(in, rows, TRUE, Past - 1, N)
     ELSE IF Op.kind = "mask" THEN HalfMasked(in, rows, used, Past, at)
     ELSE IF Op.kind = "semi_join" THEN HalfJoined(in, rows, used, Past, at)
     ELSE Correct(in, rows, used, Past)
  /\ pc = "adjacent" => HalfMarked(rows, SortKeys, work, at)

-----------------------------------------------------------------------------
(* The place of an operator in its plan.                                   *)

LEMMA DidNext ==
  ASSUME NEW x, NEW n \in Nat, NEW kinds
  PROVE  Did(x, n + 1, kinds) <=> Did(x, n, kinds) \/ x.ops[n + 1].kind \in kinds
BY DEF Did

LEMMA PassesNext ==
  ASSUME NEW x, NEW n \in Nat, NEW t
  PROVE  Passes(x, n + 1, t) <=> Passes(x, n, t) /\ Condition(x, n + 1, t)
<1>1. \A i : i \in 1 .. n + 1 <=> i \in 1 .. n \/ i = n + 1
  OBVIOUS
<1> QED
  BY <1>1 DEF Passes

\* Before a selection there are only selections.
LEMMA SelectionsFirst ==
  ASSUME NEW x, Planned(x), x.ops \in Seq(Operation), NEW n \in Nat, n + 1 \in DOMAIN x.ops,
         x.ops[n + 1].kind \in Selections
  PROVE  /\ \A i \in 1 .. n + 1 : x.ops[i].kind \in Selections
         /\ ~ Did(x, n, Uniques) /\ ~ Did(x, n + 1, Uniques)
         /\ \A i \in 1 .. n + 1 : x.ops[i].kind # "order_by"
         /\ x.ops[n + 1].kind = "join" => ~ Did(x, n, {"join"})
<1>1. ASSUME NEW i \in 1 .. n PROVE i \in DOMAIN x.ops /\ i < n + 1
  OBVIOUS
<1>2. ASSUME NEW i \in 1 .. n PROVE Follow(x.ops[i].kind, x.ops[n + 1].kind)
  BY <1>1 DEF Planned
<1>3. \A i \in 1 .. n + 1 : x.ops[i].kind \in Selections
  <2> TAKE i \in 1 .. n + 1
  <2>1. CASE i = n + 1
    BY <2>1
  <2>2. CASE i # n + 1
    <3>1. i \in 1 .. n
      BY <2>2
    <3> QED
      BY <1>2, <3>1 DEF Follow
  <2> QED
    BY <2>1, <2>2
<1>4. \A k \in Selections : k \notin Uniques /\ k # "order_by"
  BY DEF Selections, Uniques
<1>5. ~ Did(x, n, Uniques) /\ ~ Did(x, n + 1, Uniques)
  BY <1>3, <1>4 DEF Did
<1>6. x.ops[n + 1].kind = "join" => ~ Did(x, n, {"join"})
  BY <1>2 DEF Did, Follow
<1> QED
  BY <1>3, <1>4, <1>5, <1>6

LEMMA PastIs ==
  ASSUME DataInv
  PROVE  /\ in.ops \in Seq(Operation) /\ Past \in 0 .. Len(in.ops)
         /\ ops = SubSeq(in.ops, Past + 1, Len(in.ops))
         /\ ops = <<>> <=> Past = Len(in.ops)
         /\ ops # <<>> => Past + 1 \in DOMAIN in.ops /\ Op = in.ops[Past + 1]
<1>1. in.ops \in Seq(Operation) /\ in \in Calls
  BY DataFacts DEF DataInv
<1>2. PICK k \in 0 .. Len(in.ops) : ops = SubSeq(in.ops, k + 1, Len(in.ops))
  BY DEF DataInv
<1>3. Len(in.ops) \in Nat
  BY <1>1
<1>4. Len(ops) = Len(in.ops) - k /\ ops \in Seq(Operation)
  BY <1>1, <1>2, SubSeqProperties
<1>5. Past = k
  BY <1>3, <1>4 DEF Past
<1>6. ops = <<>> <=> Len(ops) = 0
  BY <1>4, EmptySeq
<1>7. ops # <<>> => k + 1 \in DOMAIN in.ops /\ Op = in.ops[k + 1]
  BY <1>1, <1>2, CurrentOperation
<1> QED
  BY <1>1, <1>2, <1>3, <1>4, <1>5, <1>6, <1>7

LEMMA PastNext ==
  ASSUME DataInv, ops # <<>>, ops' = Tail(ops), in' = in
  PROVE  /\ Past \in Nat /\ Past' = Past + 1
         /\ ops' = <<>> <=> Past + 1 = Len(in.ops)
         /\ ops' # <<>> => (Past + 1) + 1 \in DOMAIN in.ops /\ Op' = in.ops[(Past + 1) + 1]
<1>1. /\ in.ops \in Seq(Operation) /\ Past \in 0 .. Len(in.ops) /\ Past + 1 \in DOMAIN in.ops
      /\ ops = SubSeq(in.ops, Past + 1, Len(in.ops))
  BY PastIs
<1> DEFINE k == Past + 1
<1>2. k \in 1 .. Len(in.ops) /\ Len(in.ops) \in Nat
  BY <1>1
<1>3. Tail(ops) = SubSeq(in.ops, k + 1, Len(in.ops))
  BY <1>1, CurrentOperation DEF DataInv
<1> HIDE DEF k
<1>4. Len(ops') = Len(in.ops) - k /\ ops' \in Seq(Operation)
  <2>1. \A i \in k + 1 .. Len(in.ops) : in.ops[i] \in Operation
    BY <1>1, <1>2
  <2>2. /\ SubSeq(in.ops, k + 1, Len(in.ops)) \in Seq(Operation)
        /\ Len(SubSeq(in.ops, k + 1, Len(in.ops))) =
             IF k + 1 <= Len(in.ops) THEN Len(in.ops) - (k + 1) + 1 ELSE 0
    BY <1>2, <2>1, SubSeqProperties
  <2> DEFINE s == SubSeq(in.ops, k + 1, Len(in.ops))
             L == Len(in.ops)
  <2>3. s \in Seq(Operation) /\ Len(s) = IF k + 1 <= L THEN L - (k + 1) + 1 ELSE 0
    BY <2>2
  <2>4. ops' = s /\ k \in 1 .. L /\ L \in Nat
    BY <1>2, <1>3
  <2> HIDE DEF s, L
  <2>5. Len(s) = L - k
    BY <2>3, <2>4
  <2>6. Len(ops') = L - k /\ ops' \in Seq(Operation)
    BY <2>3, <2>4, <2>5
  <2> QED
    BY <2>6 DEF L
<1>5. Past' = k
  BY <1>2, <1>4 DEF Past
<1>6. ops' = <<>> <=> Len(ops') = 0
  BY <1>4, EmptySeq
<1>7. ASSUME ops' # <<>> PROVE k + 1 \in DOMAIN in.ops /\ Op' = in.ops[k + 1]
  <2>1. k < Len(in.ops)
    BY <1>2, <1>4, <1>6, <1>7
  <2>2. k + 1 \in 1 .. Len(in.ops) /\ k + 1 <= Len(in.ops)
    BY <1>2, <2>1
  <2>3. Head(SubSeq(in.ops, k + 1, Len(in.ops))) = in.ops[k + 1]
    BY <1>1, <1>2, <2>2, HeadTailOfSubSeq
  <2> QED
    BY <1>1, <1>3, <2>2, <2>3 DEF Op
<1>8. Past \in Nat
  BY <1>1, <1>2
<1>9. ops' = <<>> <=> k = Len(in.ops)
  <2>1. Len(in.ops) - k = 0 <=> k = Len(in.ops)
    BY <1>2
  <2> QED
    BY <1>4, <1>6, <2>1
<1> QED
  BY <1>5, <1>7, <1>8, <1>9 DEF k

-----------------------------------------------------------------------------
(* From one operator to the next.                                          *)

LEMMA NothingMasked ==
  ASSUME NEW x, NEW T, NEW S, T \in [S -> Row], S \subseteq Nat, NEW written, NEW n,
         Correct(x, T, written, n)
  PROVE  HalfMasked(x, T, written, n, 0)
<1>1. DOMAIN T = S
  OBVIOUS
<1>2. \A r \in S : ~ (r < 0)
  OBVIOUS
<1>3. \A r \in DOMAIN T : T[r] = IF r < 0 /\ ~ Selected(T[r]) THEN Masked ELSE T[r]
  BY <1>1, <1>2
<1>4. T \in [DOMAIN T -> Row]
  BY <1>1
<1> QED
  BY <1>3, <1>4 DEF HalfMasked

LEMMA NothingJoined ==
  ASSUME NEW x, NEW T, NEW S, T \in [S -> Row], S \subseteq Nat, NEW written, NEW n,
         Faithful(x, T, written, n), ~ Did(x, n, Uniques)
  PROVE  HalfJoined(x, T, written, n, 0)
<1>1. PICK f, c : /\ TableIs(x, T, n, f)
                  /\ \A r \in DOMAIN T : Stamped(x, T, r, written, n, f, c)
  BY DEF Faithful
<1>2. \A r \in DOMAIN T : ~ (r < 0)
  OBVIOUS
<1> QED
  BY <1>1, <1>2 DEF HalfJoined

LEMMA OperatorDone ==
  ASSUME TableInv, Planned(in), ops # <<>>, Op.kind # "mask", Finish, in' = in,
         NEW m \in Nat, rows' \in [0 .. m - 1 -> Row],
         used' <=> Did(in, Past + 1, Selections \cup Uniques),
         Correct(in, rows', used', Past + 1)
  PROVE  AnswerInv'
<1>1. DataInv /\ ops' = Tail(ops) /\ pc' = "start" /\ at' = 0
  BY DEF TableInv, Finish
<1>2. /\ in.ops \in Seq(Operation) /\ Past \in 0 .. Len(in.ops)
      /\ Past + 1 \in DOMAIN in.ops /\ Op = in.ops[Past + 1]
  BY <1>1, PastIs
<1>3. /\ Past \in Nat /\ Past' = Past + 1
      /\ ops' = <<>> <=> Past + 1 = Len(in.ops)
      /\ ops' # <<>> => (Past + 1) + 1 \in DOMAIN in.ops /\ Op' = in.ops[(Past + 1) + 1]
  BY <1>1, PastNext
<1>4. ops' # <<>>
  BY <1>2, <1>3 DEF Planned
<1> DEFINE n == Past + 1
<1>5. n \in Nat /\ Past' = n /\ n + 1 \in DOMAIN in.ops /\ Op' = in.ops[n + 1]
  BY <1>3, <1>4
<1> HIDE DEF n
<1>6. (used <=> Did(in, Past, Selections \cup Uniques))'
  BY <1>3
<1>7. 0 .. m - 1 \subseteq Nat
  OBVIOUS
<1>8. Correct(in, rows', used', n)
  BY DEF n
<1>9. CASE Op'.kind = "mask"
  <2>1. HalfMasked(in, rows', used', n, 0)
    BY <1>7, <1>8, NothingMasked
  <2>2. HalfMasked(in, rows, used, Past, at)'
    BY <1>1, <1>5, <2>1
  <2> QED
    BY <1>1, <1>4, <1>6, <1>9, <2>2 DEF AnswerInv
<1>10. CASE Op'.kind = "semi_join"
  <2>1. ~ Did(in, n, Uniques)
    BY <1>2, <1>5, <1>10, SelectionsFirst DEF Selections
  <2>2. HalfJoined(in, rows', used', n, 0)
    BY <1>7, <1>8, <2>1, NothingJoined DEF Correct
  <2>3. HalfJoined(in, rows, used, Past, at)'
    BY <1>1, <1>5, <2>2
  <2> QED
    BY <1>1, <1>4, <1>6, <1>10, <2>3 DEF AnswerInv
<1>11. CASE Op'.kind \notin {"mask", "semi_join"}
  <2>1. Correct(in, rows, used, Past)'
    BY <1>1, <1>5, <1>8
  <2> QED
    BY <1>1, <1>4, <1>6, <1>11, <2>1 DEF AnswerInv
<1> QED
  BY <1>9, <1>10, <1>11

-----------------------------------------------------------------------------
(* Selections.                                                             *)

LEMMA UnwrittenPasses ==
  ASSUME NEW x, NEW n \in Nat, ~ Did(x, n, Selections \cup Uniques), NEW t
  PROVE  Passes(x, n, t)
<1>1. \A i \in 1 .. n : x.ops[i].kind \notin Selections
  BY DEF Did
<1>2. \A i \in 1 .. n : Condition(x, i, t)
  BY <1>1 DEF Condition, Selections
<1> QED
  BY <1>2 DEF Passes

LEMMA LivePasses ==
  ASSUME NEW x, NEW T, NEW r, NEW n \in Nat, NEW f, NEW c,
         NEW written \in BOOLEAN, written <=> Did(x, n, Selections \cup Uniques),
         Stamped(x, T, r, written, n, f, c)
  PROVE  Live(T, written, r) <=> Passes(x, n, f[r])
<1>1. CASE written
  BY <1>1 DEF Stamped, Live
<1>2. CASE ~ written
  BY <1>2, UnwrittenPasses DEF Live
<1> QED
  BY <1>1, <1>2

\* The word w decides the condition of operator n + 1 and is conjoined.
Decision(x, n, t, w, one) ==
  /\ w \in Word
  /\ w % 2 = 1 => w = one
  /\ w % 2 = 1 <=> Condition(x, n + 1, t)
Conjoins(T, E, r, written, w) == E[r].sel = IF written THEN AndWord(T[r].sel, w) ELSE w

LEMMA Conjunction ==
  ASSUME NEW x, NEW T, NEW E, NEW r, T[r] \in Row, NEW n \in Nat, NEW f, NEW c,
         NEW written \in BOOLEAN, written <=> Did(x, n, Selections \cup Uniques),
         Stamped(x, T, r, written, n, f, c),
         NEW w, NEW one, Decision(x, n, f[r], w, one), Conjoins(T, E, r, written, w)
  PROVE  Stamped(x, E, r, TRUE, n + 1, f, IF written THEN AndWord(c, one) ELSE one)
<1>1. Passes(x, n + 1, f[r]) <=> Passes(x, n, f[r]) /\ w % 2 = 1
  BY PassesNext DEF Decision
<1>2. Live(T, written, r) <=> Passes(x, n, f[r])
  BY LivePasses
<1>3. /\ T[r].sel \in Word /\ w \in Word /\ (w % 2 = 1 => w = one)
      /\ E[r].sel = IF written THEN AndWord(T[r].sel, w) ELSE w
  BY DEF Row, Columns, Decision, Conjoins
<1>4. CASE written
  <2>1. Selected(T[r]) <=> Passes(x, n, f[r])
    BY <1>2, <1>4 DEF Live
  <2>2. Selected(T[r]) => T[r].sel = c
    BY <1>4 DEF Stamped
  <2>3. E[r].sel = AndWord(T[r].sel, w)
    BY <1>3, <1>4
  <2>4. Selected(E[r]) <=> Selected(T[r]) /\ w % 2 = 1
    BY <1>3, <2>3, AndWordParity DEF Selected
  <2>5. Selected(E[r]) => E[r].sel = AndWord(c, one)
    BY <1>3, <2>2, <2>3, <2>4
  <2> QED
    BY <1>1, <1>4, <2>1, <2>4, <2>5 DEF Stamped
<1>5. CASE ~ written
  <2>1. E[r].sel = w
    BY <1>3, <1>5
  <2>2. Passes(x, n, f[r])
    BY <1>2, <1>5 DEF Live
  <2> QED
    BY <1>1, <1>3, <1>5, <2>1, <2>2 DEF Stamped, Selected
<1> QED
  BY <1>4, <1>5

\* An operator other than a join leaves the other columns.
LEMMA SameTable ==
  ASSUME NEW x, NEW T, NEW E, DOMAIN E = DOMAIN T, NEW n \in Nat, NEW f,
         x.ops[n + 1].kind # "join", TableIs(x, T, n, f),
         \A r \in DOMAIN T : Agrees(E[r], T[r])
  PROVE  TableIs(x, E, n + 1, f)
<1>1. Did(x, n + 1, {"join"}) <=> Did(x, n, {"join"})
  BY DidNext
<1>2. TuplesAt(x, n + 1) = TuplesAt(x, n)
  BY <1>1 DEF TuplesAt
<1>3. \A t : RowAt(x, n + 1, t) = RowAt(x, n, t)
  BY <1>1 DEF RowAt
<1>4. \A r \in DOMAIN T : Agrees(E[r], RowAt(x, n, f[r]))
  BY DEF TableIs, Agrees
<1> QED
  BY <1>2, <1>3, <1>4 DEF TableIs

LEMMA SelectionCorrect ==
  ASSUME NEW x, Planned(x), x.ops \in Seq(Operation), NEW n \in Nat, n + 1 \in DOMAIN x.ops,
         x.ops[n + 1].kind \in Selections,
         NEW E, NEW f, NEW c, TableIs(x, E, n + 1, f),
         \A r \in DOMAIN E : Stamped(x, E, r, TRUE, n + 1, f, c)
  PROVE  Correct(x, E, TRUE, n + 1)
<1>1. ~ Did(x, n + 1, Uniques) /\ \A i \in 1 .. n + 1 : x.ops[i].kind # "order_by"
  BY SelectionsFirst
<1>2. Faithful(x, E, TRUE, n + 1)
  BY <1>1 DEF Faithful
<1>3. n + 1 \in 1 .. n + 1
  OBVIOUS
<1>4. InSequence(x, E, TRUE, n + 1)
  BY <1>1, <1>3 DEF InSequence
<1> QED
  BY <1>2, <1>4 DEF Correct

\* Before a selection, the table in the terms of its rows.
LEMMA BeforeSelection ==
  ASSUME NEW x, Planned(x), x.ops \in Seq(Operation), NEW n \in Nat, n + 1 \in DOMAIN x.ops,
         x.ops[n + 1].kind \in Selections, NEW T, NEW written, Correct(x, T, written, n)
  PROVE  \E f, c : /\ TableIs(x, T, n, f)
                   /\ \A r \in DOMAIN T : Stamped(x, T, r, written, n, f, c)
<1>1. ~ Did(x, n, Uniques)
  BY SelectionsFirst
<1> QED
  BY <1>1 DEF Correct, Faithful

\* Row y has the key and the value of the left row of tuple t.
HasLeft(x, n, t, y) ==
  /\ t \in TuplesAt(x, n) /\ t[1] \in DOMAIN x.left /\ x.left[t[1]] \in Row
  /\ y.key = x.left[t[1]].key /\ y.val = x.left[t[1]].val

LEMMA TableRow ==
  ASSUME NEW x, NEW S, x.left \in [S -> Row], NEW T, NEW n, NEW f, TableIs(x, T, n, f),
         NEW r \in DOMAIN T
  PROVE  HasLeft(x, n, f[r], T[r])
<1>1. f[r] \in TuplesAt(x, n)
  BY DEF TableIs, OneToOne
<1>2. f[r][1] \in S
  BY <1>1 DEF TuplesAt
<1>3. x.left[f[r][1]] \in Row
  BY <1>2
<1>4. Agrees(T[r], RowAt(x, n, f[r]))
  BY DEF TableIs
<1>5. /\ RowAt(x, n, f[r]).key = x.left[f[r][1]].key
      /\ RowAt(x, n, f[r]).val = x.left[f[r][1]].val
  BY <1>3 DEF RowAt, Row, Columns
<1>6. T[r].key = RowAt(x, n, f[r]).key /\ T[r].val = RowAt(x, n, f[r]).val
  BY <1>4 DEF Agrees, Columns
<1> QED
  BY <1>1, <1>2, <1>3, <1>5, <1>6 DEF HasLeft

\* The column [SEL] is written, the others are not.
LEMMA SelWritten ==
  ASSUME NEW y \in Row, NEW w
  PROVE  /\ [y EXCEPT !.sel = w].sel = w
         /\ Agrees([y EXCEPT !.sel = w], y)
BY DEF Row, Columns, Agrees

Selecting(kind) ==
  /\ DataInv /\ Planned(in) /\ ops # <<>> /\ Op.kind = kind
  /\ in.ops \in Seq(Operation) /\ Past \in Nat /\ Past + 1 \in DOMAIN in.ops
  /\ Op = in.ops[Past + 1]
  /\ in.left \in [0 .. Size(in.left) - 1 -> Row]
  /\ rows \in [Index -> Row] /\ DOMAIN rows = Index /\ N \in Nat
  /\ used \in BOOLEAN /\ (used <=> Did(in, Past, Selections \cup Uniques))

LEMMA SelectionBegins ==
  ASSUME TableInv, Planned(in), AnswerInv, ops # <<>>, NEW kind, Op.kind = kind
  PROVE  Selecting(kind)
<1>1. DataInv
  BY DEF TableInv
<1>2. rows \in [Index -> Row] /\ DOMAIN rows = Index /\ N \in Nat
  BY <1>1, DataFacts
<1>3. in.left \in [0 .. Size(in.left) - 1 -> Row]
  BY <1>1, CallFacts DEF DataInv
<1>4. /\ in.ops \in Seq(Operation) /\ Past \in Nat /\ Past + 1 \in DOMAIN in.ops
      /\ Op = in.ops[Past + 1]
  BY <1>1, PastIs
<1>5. used \in BOOLEAN /\ (used <=> Did(in, Past, Selections \cup Uniques))
  BY <1>1 DEF DataInv, AnswerInv
<1> QED
  BY <1>1, <1>2, <1>3, <1>4, <1>5 DEF Selecting

LEMMA SelectionEnds ==
  ASSUME TableInv, NEW kind \in Selections, Selecting(kind), Finish, in' = in, used' = TRUE,
         NEW m \in Nat, rows' \in [0 .. m - 1 -> Row],
         Correct(in, rows', TRUE, Past + 1)
  PROVE  AnswerInv'
<1>1. Did(in, Past + 1, Selections \cup Uniques)
  BY DidNext DEF Selecting
<1>2. kind # "mask"
  BY DEF Selections
<1> QED
  BY <1>1, <1>2, OperatorDone DEF Selecting

\* The words w decide operator Past + 1 for every row.
Decides(f, w, one) == \A r \in Index : Decision(in, Past, f[r], w[r], one)

LEMMA RowsSelected ==
  ASSUME TableInv, NEW kind \in Selections \ {"join"}, Selecting(kind), Finish, in' = in,
         used' = TRUE, NEW f, NEW c, TableIs(in, rows, Past, f),
         \A r \in Index : Stamped(in, rows, r, used, Past, f, c),
         NEW w, NEW one, Decides(f, w, one),
         rows' = [r \in Index |-> [rows[r] EXCEPT !.sel = IF used THEN AndWord(rows[r].sel, w[r])
                                                          ELSE w[r]]]
  PROVE  AnswerInv'
<1> DEFINE sel(r) == IF used THEN AndWord(rows[r].sel, w[r]) ELSE w[r]
<1>1. rows' = [r \in Index |-> [rows[r] EXCEPT !.sel = sel(r)]]
  OBVIOUS
<1>2. \A r \in Index : w[r] \in Word
  BY DEF Decides, Decision
<1>3. /\ Planned(in) /\ ops # <<>> /\ in.ops \in Seq(Operation) /\ Past \in Nat
      /\ Past + 1 \in DOMAIN in.ops /\ in.ops[Past + 1].kind = kind
      /\ rows \in [Index -> Row] /\ DOMAIN rows = Index /\ N \in Nat
      /\ used \in BOOLEAN /\ (used <=> Did(in, Past, Selections \cup Uniques))
  BY DEF Selecting
<1>4. ASSUME NEW r \in Index
      PROVE  sel(r) \in Word /\ rows'[r].sel = sel(r) /\ Agrees(rows'[r], rows[r])
  <2>1. sel(r) \in Word
    BY <1>2, AndWordType
  <2> HIDE DEF sel
  <2>2. rows'[r] = [rows[r] EXCEPT !.sel = sel(r)]
    BY <1>1
  <2>3. rows[r] \in Row
    BY <1>3
  <2> QED
    BY <2>1, <2>2, <2>3, SelWritten
<1>5. rows' \in [Index -> Row]
  <2> DEFINE g == [r \in Index |-> sel(r)]
  <2>1. \A r \in Index : g[r] \in Word
    BY <1>4
  <2>2. rows' = [r \in Index |-> [rows[r] EXCEPT !.sel = g[r]]]
    BY <1>1
  <2> HIDE DEF g
  <2> QED
    BY <1>3, <2>1, <2>2, SelectionType
<1>6. TableIs(in, rows', Past + 1, f)
  <2>1. in.ops[Past + 1].kind # "join" /\ DOMAIN rows' = DOMAIN rows
    BY <1>3, <1>5
  <2>2. \A r \in DOMAIN rows : Agrees(rows'[r], rows[r])
    BY <1>3, <1>4
  <2> QED
    BY <1>3, <2>1, <2>2, SameTable
<1>7. ASSUME NEW r \in Index
      PROVE  Stamped(in, rows', r, TRUE, Past + 1, f, IF used THEN AndWord(c, one) ELSE one)
  <2>1. Conjoins(rows, rows', r, used, w[r])
    BY <1>4 DEF Conjoins
  <2>2. rows[r] \in Row /\ Stamped(in, rows, r, used, Past, f, c)
    BY <1>3
  <2>3. Decision(in, Past, f[r], w[r], one)
    BY DEF Decides
  <2> HIDE DEF Past
  <2> QED
    BY <1>3, <2>1, <2>2, <2>3, Conjunction
<1>8. Correct(in, rows', TRUE, Past + 1)
  <2>1. \A r \in DOMAIN rows' :
          Stamped(in, rows', r, TRUE, Past + 1, f, IF used THEN AndWord(c, one) ELSE one)
    BY <1>5, <1>7
  <2>2. in.ops[Past + 1].kind \in Selections
    BY <1>3
  <2> QED
    BY <1>3, <1>6, <2>1, <2>2, SelectionCorrect
<1>9. Index = 0 .. N - 1
  BY DEF Index
<1> QED
  BY <1>3, <1>5, <1>8, <1>9, SelectionEnds

LEMMA SelectionStarts ==
  ASSUME TableInv, Planned(in), AnswerInv, ops # <<>>,
         Op.kind \in Selections \ {"semi_join"}
  PROVE  /\ Selecting(Op.kind)
         /\ \E f, c : /\ TableIs(in, rows, Past, f)
                      /\ \A r \in Index : Stamped(in, rows, r, used, Past, f, c)
<1>1. Selecting(Op.kind)
  BY SelectionBegins
<1>2. Op.kind \in Selections /\ Op.kind # "mask" /\ Op.kind # "semi_join"
  BY DEF Selections
<1>3. Correct(in, rows, used, Past)
  BY <1>2 DEF AnswerInv
<1>4. \E f, c : /\ TableIs(in, rows, Past, f)
                /\ \A r \in DOMAIN rows : Stamped(in, rows, r, used, Past, f, c)
  BY <1>1, <1>2, <1>3, BeforeSelection DEF Selecting
<1>5. DOMAIN rows = Index
  BY <1>1 DEF Selecting
<1> QED
  BY <1>1, <1>4, <1>5

\* Words that agree above the half that eq_b_array compares are equal if it finds
\* them equal.
LEMMA HalvesDecide ==
  ASSUME NEW x \in Word, NEW y \in Word, x \div Half = y \div Half
  PROVE  x % Half = y % Half <=> x = y
<1>1. Width \div 2 \in Nat
  BY WidthAssumption
<1>2. Half \in Nat /\ Half >= 1
  BY <1>1, PowPositive DEF Half
<1>3. x \in Nat /\ y \in Nat
  BY DEF Word
<1> HIDE DEF Half
<1>4. x = Half * (x \div Half) + (x % Half) /\ y = Half * (y \div Half) + (y % Half)
  BY <1>2, <1>3
<1> QED
  BY <1>4

LEMMA FilterAnswers ==
  ASSUME TableInv, Planned(in), AnswerInv, Filter
  PROVE  AnswerInv'
<1>1. ops # <<>> /\ Op.kind = "filter" /\ Finish /\ in' = in /\ used' = TRUE
  BY DEF Filter, Start, SelectRows
<1>2. "filter" \in Selections
  BY DEF Selections
<1>3. Selecting("filter")
  BY <1>1, SelectionBegins
<1>4. PICK f, c : /\ TableIs(in, rows, Past, f)
                  /\ \A r \in Index : Stamped(in, rows, r, used, Past, f, c)
  BY <1>1, <1>2, SelectionStarts
<1> DEFINE w == [r \in Index |-> EqWord(rows[r].val, rows[r].key)]
<1>5. rows' = [r \in Index |-> [rows[r] EXCEPT !.sel = IF used THEN AndWord(rows[r].sel, w[r])
                                                       ELSE w[r]]]
  BY DEF Filter, SelectRows, Conjoined
<1>6. ASSUME NEW r \in Index
      PROVE  /\ w[r] \in Word
             /\ w[r] % 2 = 1 => w[r] = 1
             /\ w[r] % 2 = 1 <=> Condition(in, Past + 1, f[r])
  <2>1. rows[r] \in Row /\ r \in DOMAIN rows /\ in.left \in [0 .. Size(in.left) - 1 -> Row]
    BY <1>3 DEF Selecting
  <2>2. rows[r].val \in Word /\ rows[r].key \in Word
    BY <2>1 DEF Row, Columns
  <2>3. HasLeft(in, Past, f[r], rows[r])
    BY <1>4, <2>1, TableRow
  <2>4. Condition(in, Past + 1, f[r]) <=> rows[r].val = rows[r].key
    BY <1>1, <1>3, <2>3 DEF Condition, Selecting, HasLeft
  <2>5. Comparable(rows[r])
    <3>1. in \in Calls /\ Past + 1 \in DOMAIN in.ops /\ in.ops[Past + 1].kind = "filter"
      BY <1>1, <1>3 DEF TableInv, DataInv, Selecting
    <3>2. Has(in, "filter") /\ DataFits(in)
      BY <3>1 DEF Has, Planned
    <3>3. \A a \in DOMAIN in.left : Comparable(in.left[a])
      BY <3>2 DEF DataFits
    <3> QED
      BY <2>3, <3>3 DEF HasLeft, Comparable
  <2>6. rows[r].val % Half = rows[r].key % Half <=> rows[r].val = rows[r].key
    BY <2>2, <2>5, HalvesDecide DEF Comparable
  <2>7. w[r] = IF rows[r].val = rows[r].key THEN 1 ELSE 0
    BY <2>6 DEF EqWord, Bit
  <2>8. 0 \in Word /\ 1 \in Word /\ 0 % 2 = 0 /\ 1 % 2 = 1
    BY Words
  <2> HIDE DEF w
  <2> QED
    BY <2>4, <2>7, <2>8
<1>7. Decides(f, w, 1)
  BY <1>6 DEF Decides, Decision
<1> HIDE DEF w
<1> QED
  BY <1>1, <1>2, <1>3, <1>4, <1>5, <1>7, RowsSelected

LEMMA FilterConstAnswers ==
  ASSUME TableInv, Planned(in), AnswerInv, FilterConst
  PROVE  AnswerInv'
<1>1. ops # <<>> /\ Op.kind = "filter_const" /\ Finish /\ in' = in /\ used' = TRUE
  BY DEF FilterConst, Start
<1>2. "filter_const" \in Selections
  BY DEF Selections
<1>3. Selecting("filter_const")
  BY <1>1, SelectionBegins
<1>4. PICK f, c : /\ TableIs(in, rows, Past, f)
                  /\ \A r \in Index : Stamped(in, rows, r, used, Past, f, c)
  BY <1>1, <1>2, SelectionStarts
<1>5. ~ used
  <2>1. in \in Calls
    BY DEF TableInv, DataInv
  <2>2. Past + 1 = 1
    BY <1>3, <2>1, CallsAssumption DEF Selecting
  <2>3. ~ \E i \in 1 .. Past : in.ops[i].kind \in Selections \cup Uniques
    BY <1>3, <2>2 DEF Selecting
  <2> QED
    BY <1>3, <2>3 DEF Selecting, Did
<1> DEFINE w == [r \in Index |-> Bit(rows[r].val = Op.const)]
<1>6. rows' = [r \in Index |-> [rows[r] EXCEPT !.sel = IF used THEN AndWord(rows[r].sel, w[r])
                                                       ELSE w[r]]]
  BY <1>5 DEF FilterConst
<1>7. ASSUME NEW r \in Index
      PROVE  /\ w[r] \in Word
             /\ w[r] % 2 = 1 => w[r] = 1
             /\ w[r] % 2 = 1 <=> Condition(in, Past + 1, f[r])
  <2>1. r \in DOMAIN rows /\ in.left \in [0 .. Size(in.left) - 1 -> Row]
    BY <1>3 DEF Selecting
  <2>2. HasLeft(in, Past, f[r], rows[r])
    BY <1>4, <2>1, TableRow
  <2>3. Condition(in, Past + 1, f[r]) <=> rows[r].val = Op.const
    BY <1>1, <1>3, <2>2 DEF Condition, Selecting, HasLeft
  <2>4. w[r] = IF rows[r].val = Op.const THEN 1 ELSE 0
    BY DEF Bit
  <2>5. 0 \in Word /\ 1 \in Word /\ 0 % 2 = 0 /\ 1 % 2 = 1
    BY Words
  <2> HIDE DEF w
  <2> QED
    BY <2>3, <2>4, <2>5
<1>8. Decides(f, w, 1)
  BY <1>7 DEF Decides, Decision
<1> HIDE DEF w
<1> QED
  BY <1>1, <1>2, <1>3, <1>4, <1>6, <1>8, RowsSelected

-----------------------------------------------------------------------------
(* The join.                                                               *)

\* Row r is row b of batch B of the right input, for row a of batch A of the left.
Laid(A, B, a, b) == in.lefts * NR * A + in.lefts * in.rights * B + in.rights * a + b
JoinSizes ==
  /\ N \in Nat /\ in.lefts \in Nat /\ in.lefts >= 1 /\ N % in.lefts = 0
  /\ NR \in Nat /\ in.rights \in Nat /\ in.rights >= 1 /\ NR % in.rights = 0
  /\ Index = 0 .. N - 1

LEMMA LaidIs ==
  ASSUME JoinSizes, NEW A \in Nat, NEW B \in 0 .. (NR \div in.rights) - 1,
         NEW a \in 0 .. in.lefts - 1, NEW b \in 0 .. in.rights - 1
  PROVE  LET r == Laid(A, B, a, b)
         IN  /\ r \in Nat
             /\ LeftOf(r) = a + A * in.lefts /\ RightOf(r) = b + B * in.rights
             /\ PlaceOf(a + A * in.lefts, b + B * in.rights) = r
<1> DEFINE l == in.lefts
           R == in.rights
           P == NR \div R
           r == Laid(A, B, a, b)
<1>1. l \in Nat /\ l >= 1 /\ R \in Nat /\ R >= 1 /\ NR \in Nat /\ NR % R = 0
  BY DEF JoinSizes
<1>2. P \in Nat /\ NR = R * P
  <2>1. P \in Nat /\ NR = R * P + (NR % R)
    BY <1>1, DivMod
  <2>2. R * P \in Nat
    <3> HIDE DEF P, R
    <3> QED
      BY <1>1, <2>1
  <2> QED
    BY <1>1, <2>1, <2>2
<1>3. r = l * NR * A + l * R * B + R * a + b
  BY DEF Laid
<1>4. a \in Nat /\ a < l /\ b \in Nat /\ b < R /\ B \in Nat /\ B < P
  BY <1>1, <1>2
<1> HIDE DEF P
<1> DEFINE q == l * R * B + R * a + b
           w == P * A + B
<1>5. w \in Nat /\ l * w + a \in Nat /\ q \in Nat /\ r \in Nat
      /\ r = R * (l * w + a) + b /\ r = (l * NR) * A + q
      /\ q = R * (l * B + a) + b /\ q = (l * R) * B + (R * a + b) /\ l * B + a \in Nat
      /\ l * NR \in Nat /\ l * R \in Nat /\ R * a + b \in Nat
  <2> HIDE DEF l, R, r
  <2> QED
    BY <1>1, <1>2, <1>3, <1>4
<1>6. R * a + b < l * R /\ l * R >= 1
  <2>1. R * a + R = R * (a + 1) /\ R * (a + 1) <= R * l /\ R * l = l * R /\ R * l >= 1
    <3> HIDE DEF l, R
    <3> QED
      BY <1>1, <1>4
  <2> HIDE DEF l, R
  <2>2. R * a \in Nat /\ R * l \in Nat
    BY <1>1, <1>4
  <2> QED
    BY <1>1, <1>4, <2>1, <2>2
<1>7. q < l * NR /\ l * NR >= 1
  <2> DEFINE v == l * R
             c == R * a + b
  <2>1. v \in Nat /\ c \in Nat /\ c < v /\ q = v * B + c /\ l * NR = v * P /\ v >= 1
    <3>1. l * NR = (l * R) * P
      <4> HIDE DEF l, R
      <4> QED
        BY <1>1, <1>2
    <3> QED
      BY <1>5, <1>6, <3>1
  <2> HIDE DEF v, c, q
  <2>2. v * B + v = v * (B + 1) /\ v * (B + 1) <= v * P /\ v * B \in Nat /\ v * P \in Nat
    BY <1>2, <1>4, <2>1
  <2> QED
    BY <2>1, <2>2
<1> HIDE DEF w
<1>8. r \div R = l * w + a /\ (l * w + a) % l = a
  <2> HIDE DEF l, R, r
  <2>1. r \div R = l * w + a
    <3> DEFINE x == l * w + a
    <3>1. x \in Nat /\ r = R * x + b
      BY <1>5
    <3> HIDE DEF x
    <3>2. r \div R = x
      BY <1>1, <1>4, <1>5, <3>1, DivModUnique
    <3> QED
      BY <3>2 DEF x
  <2>2. (l * w + a) % l = a
    BY <1>1, <1>4, <1>5, DivModUnique
  <2> QED
    BY <2>1, <2>2
<1>9. r \div (l * NR) = A /\ r % (l * NR) = q
  <2> DEFINE p == l * NR
  <2>1. p \in Nat /\ p >= 1 /\ q < p /\ r = p * A + q
    BY <1>5, <1>7
  <2> HIDE DEF p, r, q
  <2>2. r \div p = A /\ r % p = q
    BY <1>5, <2>1, DivModUnique
  <2> QED
    BY <2>2 DEF p
<1>10. q % R = b /\ q \div (l * R) = B
  <2> DEFINE p == l * R
             c == R * a + b
  <2>1. p \in Nat /\ p >= 1 /\ c < p /\ q = p * B + c /\ c \in Nat
    BY <1>5, <1>6
  <2> HIDE DEF p, q, c
  <2>2. q \div p = B
    BY <1>4, <1>5, <2>1, DivModUnique
  <2>3. q % R = b
    <3> HIDE DEF R, l
    <3> QED
      BY <1>1, <1>4, <1>5, DivModUnique
  <2> QED
    BY <2>2, <2>3 DEF p
<1>11. LeftOf(r) = a + A * l
  BY <1>8, <1>9 DEF LeftOf
<1>12. RightOf(r) = b + B * R
  BY <1>9, <1>10 DEF RightOf
<1>13. PlaceOf(a + A * l, b + B * R) = r
  <2> DEFINE x == a + A * l
             y == b + B * R
  <2>1. x \in Nat /\ y \in Nat /\ x = l * A + a /\ y = R * B + b /\ A * l \in Nat /\ B * R \in Nat
    <3> HIDE DEF l, R
    <3> QED
      BY <1>1, <1>4
  <2>2. x % l = a /\ y % R = b
    <3> HIDE DEF l, R, x, y
    <3> QED
      BY <1>1, <1>4, <2>1, DivModUnique
  <2>3. x - (x % l) = A * l /\ y - (y % R) = B * R
    BY <1>4, <2>1, <2>2
  <2>4. x - (A * l) = a /\ y - (B * R) = b
    BY <1>4, <2>1
  <2>5. PlaceOf(x, y) = (A * l) * NR + (B * R) * l + a * R + b
    <3> HIDE DEF x, y
    <3> QED
      BY <2>3, <2>4 DEF PlaceOf
  <2>6. (A * l) * NR + (B * R) * l + a * R + b = r
    <3> HIDE DEF l, R, r
    <3> QED
      BY <1>1, <1>3, <1>4
  <2> QED
    BY <2>5, <2>6
<1> QED
  BY <1>5, <1>11, <1>12, <1>13

\* The rows of the result are the pairs of rows.
LEMMA JoinPairs ==
  ASSUME JoinSizes
  PROVE  /\ \A r \in 0 .. N * NR - 1 :
              /\ LeftOf(r) \in Index /\ RightOf(r) \in 0 .. NR - 1
              /\ PlaceOf(LeftOf(r), RightOf(r)) = r
         /\ \A a \in Index, b \in 0 .. NR - 1 :
              /\ PlaceOf(a, b) \in 0 .. N * NR - 1
              /\ LeftOf(PlaceOf(a, b)) = a /\ RightOf(PlaceOf(a, b)) = b
<1> DEFINE l == in.lefts
           R == in.rights
           M == N \div l
           P == NR \div R
<1>1. /\ l \in Nat /\ l >= 1 /\ R \in Nat /\ R >= 1 /\ NR \in Nat /\ NR % R = 0
      /\ N \in Nat /\ N % l = 0
  BY DEF JoinSizes
<1>2. P \in Nat /\ NR = R * P /\ M \in Nat /\ N = l * M
  <2>1. P \in Nat /\ NR = R * P + (NR % R) /\ M \in Nat /\ N = l * M + (N % l)
    BY <1>1, DivMod
  <2>2. R * P \in Nat /\ l * M \in Nat
    <3> HIDE DEF P, R, l, M
    <3> QED
      BY <1>1, <2>1
  <2> QED
    BY <1>1, <2>1, <2>2
<1> HIDE DEF M
<1>3. ASSUME NEW r \in 0 .. N * NR - 1
      PROVE  /\ LeftOf(r) \in Index /\ RightOf(r) \in 0 .. NR - 1
             /\ PlaceOf(LeftOf(r), RightOf(r)) = r
  <2>1. LeftOf(r) \in Index /\ RightOf(r) \in 0 .. NR - 1
    BY JoinPlaces DEF JoinSizes
  <2> DEFINE p == l * NR
             q == r % p
             A == r \div p
             v == l * R
             B == q \div v
             c == q % v
             a == c \div R
             b == c % R
  <2>2. p \in Nat /\ v \in Nat /\ v >= 1 /\ p = v * P /\ N * NR = p * M /\ v = R * l
    <3> HIDE DEF l, R, P
    <3> QED
      BY <1>1, <1>2
  <2>3. p >= 1
    <3>1. p # 0
      <4> SUFFICES ASSUME p = 0 PROVE FALSE
        OBVIOUS
      <4>1. p * M = 0
        <5> HIDE DEF p
        <5> QED
          BY <1>2
      <4>2. N * NR = 0 /\ r \in Nat
        BY <2>2, <4>1
      <4> QED
        BY <4>2
    <3> QED
      BY <2>2, <3>1
  <2>4. r \in Nat /\ r \in 0 .. p * M - 1
    BY <2>2
  <2>5. A \in 0 .. M - 1 /\ q \in 0 .. p - 1 /\ r = p * A + q /\ A \in Nat
    <3> HIDE DEF p
    <3> QED
      BY <1>2, <2>2, <2>3, <2>4, QuotientBelow, DivMod
  <2>6. q \in 0 .. v * P - 1 /\ q \in Nat
    BY <2>2, <2>5
  <2> HIDE DEF q, A
  <2>7. B \in 0 .. P - 1 /\ c \in 0 .. v - 1 /\ q = v * B + c /\ B \in Nat
    <3> HIDE DEF v, P
    <3> QED
      BY <1>2, <2>2, <2>6, QuotientBelow, DivMod
  <2>8. c \in 0 .. R * l - 1 /\ c \in Nat
    BY <2>2, <2>7
  <2> HIDE DEF c, B
  <2>9. a \in 0 .. l - 1 /\ b \in 0 .. R - 1 /\ c = R * a + b /\ a \in Nat /\ b \in Nat
    <3> HIDE DEF R, l
    <3> QED
      BY <1>1, <2>8, QuotientBelow, DivMod
  <2> HIDE DEF a, b
  <2>10. r = Laid(A, B, a, b)
    <3>1. r = l * NR * A + (l * R * B + (R * a + b))
      BY <2>5, <2>7, <2>9
    <3>2. l * NR * A + (l * R * B + (R * a + b)) = l * NR * A + l * R * B + R * a + b
      <4>1. l * NR * A \in Nat /\ l * R * B \in Nat /\ R * a \in Nat
        <5> HIDE DEF R, l
        <5> QED
          BY <1>1, <2>5, <2>7, <2>9
      <4> HIDE DEF R, l
      <4> QED
        BY <2>9, <4>1
    <3> QED
      BY <3>1, <3>2 DEF Laid
  <2>11. PlaceOf(LeftOf(r), RightOf(r)) = r
    <3> HIDE DEF l, R, P
    <3>1. /\ LeftOf(r) = a + A * in.lefts /\ RightOf(r) = b + B * in.rights
          /\ PlaceOf(a + A * in.lefts, b + B * in.rights) = r
      BY <2>5, <2>7, <2>9, <2>10, LaidIs DEF l, R, P
    <3> QED
      BY <3>1
  <2> QED
    BY <2>1, <2>11
<1>4. ASSUME NEW x \in Index, NEW y \in 0 .. NR - 1
      PROVE  /\ PlaceOf(x, y) \in 0 .. N * NR - 1
             /\ LeftOf(PlaceOf(x, y)) = x /\ RightOf(PlaceOf(x, y)) = y
  <2> DEFINE A == x \div l
             a == x % l
             B == y \div R
             b == y % R
  <2>1. x \in 0 .. l * M - 1 /\ y \in 0 .. R * P - 1 /\ x \in Nat /\ y \in Nat
    BY <1>2 DEF JoinSizes
  <2>2. A \in 0 .. M - 1 /\ a \in 0 .. l - 1 /\ x = l * A + a /\ A \in Nat
    <3> HIDE DEF l
    <3> QED
      BY <1>1, <1>2, <2>1, QuotientBelow, DivMod
  <2>3. B \in 0 .. P - 1 /\ b \in 0 .. R - 1 /\ y = R * B + b /\ B \in Nat
    <3> HIDE DEF R, P
    <3> QED
      BY <1>1, <1>2, <2>1, QuotientBelow, DivMod
  <2> HIDE DEF A, a, B, b
  <2>4. x = a + A * in.lefts /\ y = b + B * in.rights
    BY <1>1, <2>2, <2>3
  <2> DEFINE r == Laid(A, B, a, b)
  <2>5. /\ r \in Nat /\ LeftOf(r) = x /\ RightOf(r) = y /\ PlaceOf(x, y) = r
    <3> HIDE DEF r
    <3>1. LET r2 == Laid(A, B, a, b)
          IN  /\ r2 \in Nat
              /\ LeftOf(r2) = a + A * in.lefts /\ RightOf(r2) = b + B * in.rights
              /\ PlaceOf(a + A * in.lefts, b + B * in.rights) = r2
      BY <2>2, <2>3, LaidIs
    <3> QED
      BY <2>4, <3>1 DEF r
  <2>6. r < N * NR /\ N * NR \in Nat
    <3> DEFINE p == l * NR
               v == l * R
    <3>1. /\ p \in Nat /\ v \in Nat /\ N * NR = p * M /\ p = v * P /\ v = R * l
          /\ r = p * A + v * B + R * a + b
      <4>1. r = p * A + v * B + R * a + b
        BY DEF Laid
      <4>2. p \in Nat /\ v \in Nat /\ N * NR = p * M /\ p = v * P /\ v = R * l
        <5> HIDE DEF r, l, R, P
        <5> QED
          BY <1>1, <1>2
      <4> QED
        BY <4>1, <4>2
    <3> HIDE DEF p, v, r, l, R, P
    <3>2. /\ p * A + p <= p * M /\ v * B + v <= v * P /\ R * a + R <= R * l
          /\ p * A \in Nat /\ v * B \in Nat /\ R * a \in Nat /\ p * M \in Nat
      <4>1. p * (A + 1) <= p * M /\ p * (A + 1) = p * A + p /\ p * A \in Nat
        BY <1>2, <2>2, <3>1
      <4>2. v * (B + 1) <= v * P /\ v * (B + 1) = v * B + v /\ v * B \in Nat
        BY <1>2, <2>3, <3>1
      <4>3. R * (a + 1) <= R * l /\ R * (a + 1) = R * a + R /\ R * a \in Nat
        BY <1>1, <2>2
      <4>4. p * M \in Nat
        BY <1>2, <3>1
      <4> QED
        BY <4>1, <4>2, <4>3, <4>4
    <3>3. b < R /\ b \in Nat
      BY <1>1, <2>3
    <3> QED
      BY <1>1, <3>1, <3>2, <3>3
  <2> HIDE DEF r
  <2> QED
    BY <2>5, <2>6
<1> QED
  BY <1>3, <1>4

\* The pair of rows that row r of the result combines.
Paired(f, r) == <<f[LeftOf(r)][1], RightOf(r)>>
Joining(f, c) ==
  /\ Selecting("join") /\ JoinSizes /\ in \in Calls
  /\ in.right \in [0 .. NR - 1 -> Row] /\ DOMAIN in.right = 0 .. NR - 1
  /\ ~ Did(in, Past, {"join"}) /\ Did(in, Past + 1, {"join"})
  /\ TableIs(in, rows, Past, f)
  /\ \A r \in Index : Stamped(in, rows, r, used, Past, f, c)

LEMMA JoinBegins ==
  ASSUME TableInv, Planned(in), AnswerInv, Join
  PROVE  \E f, c : Joining(f, c)
<1>1. ops # <<>> /\ Op.kind = "join"
  BY DEF Join, Start
<1>2. "join" \in Selections
  BY DEF Selections
<1>3. Selecting("join")
  BY <1>1, SelectionBegins
<1>4. DataInv /\ in \in Calls
  BY DEF TableInv, DataInv
<1>5. ~ Did(in, Past, {"join"})
  BY <1>1, <1>2, <1>3, SelectionsFirst DEF Selecting
<1>6. Did(in, Past + 1, {"join"})
  BY <1>1, <1>3, DidNext DEF Selecting
<1>7. Has(in, "join")
  BY <1>1, <1>3 DEF Selecting, Has
<1>8. PICK e \in Nat : NR = 2^e
  BY <1>4, CallFacts
<1>9. JoinSizes
  BY <1>4, <1>7, <1>8, CallFacts, DataFacts, PowPositive DEF JoinSizes, Index
<1>10. in.right \in [0 .. NR - 1 -> Row] /\ DOMAIN in.right = 0 .. NR - 1
  BY <1>4, DataFacts
<1>11. \E f, c : /\ TableIs(in, rows, Past, f)
                 /\ \A r \in Index : Stamped(in, rows, r, used, Past, f, c)
  BY <1>1, <1>2, SelectionStarts
<1> QED
  BY <1>3, <1>4, <1>5, <1>6, <1>9, <1>10, <1>11 DEF Joining

LEMMA JoinTuples ==
  ASSUME NEW f, NEW c, Joining(f, c)
  PROVE  /\ TuplesAt(in, Past) = (DOMAIN in.left) \X {0}
         /\ TuplesAt(in, Past + 1) = (DOMAIN in.left) \X (0 .. NR - 1)
         /\ OneToOne([r \in 0 .. N * NR - 1 |-> Paired(f, r)], 0 .. N * NR - 1,
                     TuplesAt(in, Past + 1))
<1> DEFINE S == 0 .. N * NR - 1
           g == [r \in S |-> Paired(f, r)]
<1>1. /\ TuplesAt(in, Past) = (DOMAIN in.left) \X {0}
      /\ TuplesAt(in, Past + 1) = (DOMAIN in.left) \X (0 .. NR - 1)
  BY DEF TuplesAt, Joining
<1>2. OneToOne(f, Index, (DOMAIN in.left) \X {0})
  BY <1>1 DEF Joining, TableIs, Selecting
<1>3. JoinSizes
  BY DEF Joining
<1>4. ASSUME NEW a \in Index PROVE f[a] = <<f[a][1], 0>> /\ f[a][1] \in DOMAIN in.left
  BY <1>2 DEF OneToOne
<1>5. ASSUME NEW r \in S PROVE g[r] \in TuplesAt(in, Past + 1)
  <2>1. LeftOf(r) \in Index /\ RightOf(r) \in 0 .. NR - 1
    BY <1>3, JoinPairs
  <2>2. f[LeftOf(r)][1] \in DOMAIN in.left
    BY <1>4, <2>1
  <2> QED
    BY <1>1, <2>1, <2>2 DEF Paired
<1>6. ASSUME NEW r \in S, NEW s \in S, g[r] = g[s] PROVE r = s
  <2>1. Paired(f, r) = Paired(f, s)
    BY <1>6
  <2>2. f[LeftOf(r)][1] = f[LeftOf(s)][1] /\ RightOf(r) = RightOf(s)
    BY <2>1 DEF Paired
  <2>3. /\ LeftOf(r) \in Index /\ PlaceOf(LeftOf(r), RightOf(r)) = r
        /\ LeftOf(s) \in Index /\ PlaceOf(LeftOf(s), RightOf(s)) = s
    BY <1>3, JoinPairs
  <2>4. f[LeftOf(r)] = f[LeftOf(s)]
    BY <1>4, <2>2, <2>3
  <2>5. LeftOf(r) = LeftOf(s)
    BY <1>2, <2>3, <2>4 DEF OneToOne
  <2> QED
    BY <2>2, <2>3, <2>5
<1>7. ASSUME NEW t \in TuplesAt(in, Past + 1) PROVE \E r \in S : g[r] = t
  <2>1. t = <<t[1], t[2]>> /\ t[1] \in DOMAIN in.left /\ t[2] \in 0 .. NR - 1
    BY <1>1
  <2>2. <<t[1], 0>> \in (DOMAIN in.left) \X {0}
    BY <2>1
  <2>3. PICK a \in Index : f[a] = <<t[1], 0>>
    BY <1>2, <2>2 DEF OneToOne
  <2>4. /\ PlaceOf(a, t[2]) \in S /\ LeftOf(PlaceOf(a, t[2])) = a
        /\ RightOf(PlaceOf(a, t[2])) = t[2]
    BY <1>3, <2>1, JoinPairs
  <2>5. Paired(f, PlaceOf(a, t[2])) = t
    BY <2>1, <2>3, <2>4 DEF Paired
  <2> QED
    BY <2>4, <2>5
<1>8. g \in [S -> TuplesAt(in, Past + 1)]
  BY <1>5
<1> HIDE DEF g, S
<1>9. OneToOne(g, S, TuplesAt(in, Past + 1))
  BY <1>6, <1>7, <1>8 DEF OneToOne
<1> QED
  BY <1>1, <1>9 DEF g, S

LEMMA JoinWordIs ==
  ASSUME JoinSizes, NEW r \in 0 .. N * NR - 1
  PROVE  JoinWord(r) = Bit(rows[LeftOf(r)].key = in.right[RightOf(r)].key)
<1> DEFINE pair == CHOOSE p \in Index \X (0 .. NR - 1) : PlaceOf(p[1], p[2]) = r
<1>1. /\ LeftOf(r) \in Index /\ RightOf(r) \in 0 .. NR - 1
      /\ PlaceOf(LeftOf(r), RightOf(r)) = r
  BY JoinPairs
<1>2. \E p \in Index \X (0 .. NR - 1) : PlaceOf(p[1], p[2]) = r
  <2>1. <<LeftOf(r), RightOf(r)>> \in Index \X (0 .. NR - 1)
    BY <1>1
  <2> WITNESS <<LeftOf(r), RightOf(r)>> \in Index \X (0 .. NR - 1)
  <2> QED
    BY <1>1
<1>3. pair \in Index \X (0 .. NR - 1) /\ PlaceOf(pair[1], pair[2]) = r
  BY <1>2
<1>4. pair[1] \in Index /\ pair[2] \in 0 .. NR - 1
  BY <1>3
<1> HIDE DEF pair
<1>5. LeftOf(r) = pair[1] /\ RightOf(r) = pair[2]
  BY <1>3, <1>4, JoinPairs
<1>6. JoinWord(r) = Bit(rows[pair[1]].key = in.right[pair[2]].key)
  BY DEF JoinWord, pair
<1> QED
  BY <1>5, <1>6

\* The conjunction of the selections of the two rows and the bit that they match.
BothSelected(eq, u, v, written, both, c) ==
  LET first(x, y) == IF written THEN AndWord(x, y) ELSE y
      word == IF both THEN AndWord(v, first(u, eq)) ELSE first(u, eq)
      one == IF both THEN AndWord(1, first(c, 1)) ELSE first(c, 1)
  IN  /\ word \in Word
      /\ word % 2 = 1 <=> (written => u % 2 = 1) /\ (both => v = 1) /\ eq = 1
      /\ word % 2 = 1 => word = one

LEMMA JoinedSelection ==
  ASSUME NEW eq \in {0, 1}, NEW u \in Word, NEW v \in {0, 1}, NEW written,
         NEW both, NEW c, written /\ u % 2 = 1 => u = c
  PROVE  BothSelected(eq, u, v, written, both, c)
<1> DEFINE l == IF written THEN AndWord(u, eq) ELSE eq
           d == IF written THEN AndWord(c, 1) ELSE 1
<1>1. eq \in Word /\ v \in Word /\ 0 % 2 = 0 /\ 1 % 2 = 1
  BY Words
<1>2. l \in Word
  BY <1>1, AndWordType
<1>3. l % 2 = 1 <=> (written => u % 2 = 1) /\ eq = 1
  BY <1>1, AndWordParity
<1>4. l % 2 = 1 => l = d
  <2>1. CASE written
    <3>1. l % 2 = 1 => u = c /\ eq = 1
      BY <1>3, <2>1
    <3> QED
      BY <2>1, <3>1
  <2>2. CASE ~ written
    <3>1. l = eq /\ d = 1
      BY <2>2
    <3> QED
      BY <1>3, <3>1
  <2> QED
    BY <2>1, <2>2
<1> HIDE DEF l, d
<1> DEFINE word == IF both THEN AndWord(v, l) ELSE l
           one == IF both THEN AndWord(1, d) ELSE d
<1>5. word \in Word
  BY <1>2, AndWordType
<1>6. word % 2 = 1 <=> (written => u % 2 = 1) /\ (both => v = 1) /\ eq = 1
  <2>1. v % 2 = 1 <=> v = 1
    BY <1>1
  <2> QED
    BY <1>1, <1>2, <1>3, <2>1, AndWordParity
<1>7. word % 2 = 1 => word = one
  BY <1>1, <1>2, <1>3, <1>4, <1>6, AndWordParity
<1> HIDE DEF word, one
<1>8. word \in Word /\ (word % 2 = 1 <=> (written => u % 2 = 1) /\ (both => v = 1) /\ eq = 1)
      /\ (word % 2 = 1 => word = one)
  BY <1>5, <1>6, <1>7
<1> QED
  BY <1>8 DEF word, one, l, d, BothSelected

\* Row r of the result is the joined row of its pair, and says whether it qualifies.
LEMMA JoinedRow ==
  ASSUME NEW f, NEW c, Joining(f, c), Join, NEW r \in 0 .. N * NR - 1
  PROVE  /\ Agrees(rows'[r], RowAt(in, Past + 1, Paired(f, r)))
         /\ LET first == IF used THEN AndWord(c, 1) ELSE 1
                one == IF in.rightSel THEN AndWord(1, first) ELSE first
            IN  /\ Selected(rows'[r]) <=> Passes(in, Past + 1, Paired(f, r))
                /\ Selected(rows'[r]) => rows'[r].sel = one
<1> DEFINE L == LeftOf(r)
           R == RightOf(r)
           a == rows[L]
           b == in.right[R]
           t == Paired(f, r)
           x == in.left[f[L][1]]
           eq == JoinWord(r)
           l == IF used THEN AndWord(a.sel, eq) ELSE eq
           word == IF in.rightSel THEN AndWord(b.sel, l) ELSE l
           first == IF used THEN AndWord(c, 1) ELSE 1
           one == IF in.rightSel THEN AndWord(1, first) ELSE first
<1>1. rows'[r] = [a EXCEPT !.rkey = b.key, !.sel = word]
  BY DEF Join
<1>2. JoinSizes /\ in \in Calls /\ Selecting("join") /\ Past \in Nat
  BY DEF Joining, Selecting
<1>3. L \in Index /\ R \in 0 .. NR - 1
  BY <1>2, JoinPairs
<1>4. a \in Row /\ b \in Row /\ L \in DOMAIN rows /\ in.left \in [0 .. Size(in.left) - 1 -> Row]
  BY <1>3 DEF Joining, Selecting
<1>5. HasLeft(in, Past, f[L], a)
  <2>1. TableIs(in, rows, Past, f)
    BY DEF Joining
  <2> QED
    BY <1>4, <2>1, TableRow
<1>6. Agrees(a, x)
  <2>1. Agrees(a, RowAt(in, Past, f[L]))
    BY <1>4 DEF Joining, TableIs
  <2>2. RowAt(in, Past, f[L]) = x
    BY DEF Joining, RowAt
  <2> QED
    BY <2>1, <2>2
<1>7. Stamped(in, rows, L, used, Past, f, c)
  BY <1>3 DEF Joining
<1>8. t[1] = f[L][1] /\ t[2] = R
  BY DEF Paired
<1>9. x \in Row
  BY <1>5 DEF HasLeft
<1>10. b.sel \in {0, 1} /\ a.sel \in Word /\ b.key \in Word
  <2>1. b.key \in Word /\ a.sel \in Word
    BY <1>4 DEF Row, Columns
  <2>2. R \in DOMAIN in.right
    BY <1>3 DEF Joining
  <2>3. b.sel \in {0, 1}
    BY <1>2, <2>2, CallsAssumption
  <2> QED
    BY <2>1, <2>3
<1>11. eq = Bit(a.key = b.key)
  BY <1>2, JoinWordIs
<1>12. used \in BOOLEAN /\ (used <=> Did(in, Past, Selections \cup Uniques))
  BY <1>2 DEF Selecting
<1>13. used /\ a.sel % 2 = 1 => a.sel = c
  BY <1>7 DEF Stamped, Selected
<1>15. /\ word \in Word
       /\ word % 2 = 1 <=> (used => a.sel % 2 = 1) /\ (in.rightSel => b.sel = 1) /\ eq = 1
       /\ word % 2 = 1 => word = one
  <2>1. eq \in {0, 1}
    BY <1>11 DEF Bit
  <2> HIDE DEF eq, a, b
  <2> QED
    <3>1. BothSelected(eq, a.sel, b.sel, used, in.rightSel, c)
      BY <1>10, <1>13, <2>1, JoinedSelection
    <3> QED
      BY <3>1 DEF BothSelected
<1>16. rows'[r].sel = word /\ rows'[r].rkey = b.key /\ rows'[r].key = a.key /\ rows'[r].val = a.val
  <2> HIDE DEF a, b, word
  <2> QED
    BY <1>1, <1>4, <1>10, <1>15 DEF Row, Columns
<1>17. Agrees(rows'[r], RowAt(in, Past + 1, t))
  <2>1. RowAt(in, Past + 1, t) = [x EXCEPT !.rkey = b.key]
    BY <1>8 DEF RowAt, Joining
  <2> HIDE DEF x, b, a
  <2>2. /\ RowAt(in, Past + 1, t).rkey = b.key /\ RowAt(in, Past + 1, t).key = x.key
        /\ RowAt(in, Past + 1, t).val = x.val
    BY <1>9, <1>10, <2>1 DEF Row, Columns
  <2>3. a.key = x.key /\ a.val = x.val
    BY <1>6 DEF Agrees, Columns
  <2> QED
    BY <1>16, <2>2, <2>3 DEF Agrees, Columns
<1>18. Live(rows, used, L) <=> Passes(in, Past, f[L])
  <2> HIDE DEF L, Past
  <2> QED
    BY <1>2, <1>7, <1>12, LivePasses
<1>19. Passes(in, Past, f[L]) <=> Passes(in, Past, t)
  <2>1. ASSUME NEW i \in 1 .. Past PROVE Condition(in, i, f[L]) <=> Condition(in, i, t)
    <3>1. in.ops[i].kind # "join"
      BY DEF Joining, Did
    <3>2. f[L][1] = t[1]
      BY <1>8
    <3> HIDE DEF t, L
    <3> QED
      BY <3>1, <3>2 DEF Condition
  <2> QED
    BY <2>1 DEF Passes
<1>20. Condition(in, Past + 1, t) <=> (in.rightSel => b.sel = 1) /\ eq = 1
  <2>1. in.ops[Past + 1].kind = "join"
    BY <1>2 DEF Selecting
  <2>2. R \in DOMAIN in.right
    BY <1>3 DEF Joining
  <2>3. Condition(in, Past + 1, t) <=> PartnerRow(in, x, R)
    <3> HIDE DEF t, R
    <3> QED
      BY <1>8, <2>1, <2>2 DEF Condition
  <2>4. PartnerRow(in, x, R) <=> b.key = x.key /\ (in.rightSel => Selected(b))
    BY DEF PartnerRow
  <2>5. a.key = x.key
    BY <1>5 DEF HasLeft
  <2>6. Selected(b) <=> b.sel = 1
    BY <1>10 DEF Selected
  <2>7. eq = 1 <=> a.key = b.key
    BY <1>11 DEF Bit
  <2> HIDE DEF eq, a, b, x, R, t
  <2> QED
    BY <2>3, <2>4, <2>5, <2>6, <2>7
<1>21. Passes(in, Past + 1, t) <=> Passes(in, Past, t) /\ Condition(in, Past + 1, t)
  BY <1>2, PassesNext
<1>22. Live(rows, used, L) <=> (used => a.sel % 2 = 1)
  BY DEF Live, Selected
<1>23. Selected(rows'[r]) <=> word % 2 = 1
  BY <1>16 DEF Selected
<1>24. Selected(rows'[r]) <=> Passes(in, Past + 1, t)
  <2> HIDE DEF word, t, a, b, eq, L
  <2> QED
    BY <1>15, <1>18, <1>19, <1>20, <1>21, <1>22, <1>23
<1>25. Selected(rows'[r]) => rows'[r].sel = one
  <2> HIDE DEF word, one
  <2> QED
    BY <1>15, <1>16, <1>23
<1> QED
  BY <1>17, <1>24, <1>25

LEMMA JoinAnswers ==
  ASSUME TableInv, Planned(in), AnswerInv, Join
  PROVE  AnswerInv'
<1>1. PICK f, c : Joining(f, c)
  BY JoinBegins
<1> DEFINE S == 0 .. N * NR - 1
           g == [r \in S |-> Paired(f, r)]
           first == IF used THEN AndWord(c, 1) ELSE 1
           one == IF in.rightSel THEN AndWord(1, first) ELSE first
<1>2. TableInv' /\ Finish /\ in' = in /\ used' = TRUE
  BY JoinKeeps DEF Join
<1>3. DOMAIN rows' = S
  BY DEF Join
<1>4. rows' \in [S -> Row]
  <2>1. DataInv'
    BY <1>2 DEF TableInv
  <2>2. rows' \in [DOMAIN rows' -> Row]
    BY <2>1 DEF DataInv
  <2> QED
    BY <1>3, <2>2
<1>5. OneToOne(g, S, TuplesAt(in, Past + 1))
  BY <1>1, JoinTuples
<1>6. ASSUME NEW r \in S
      PROVE  /\ Agrees(rows'[r], RowAt(in, Past + 1, g[r]))
             /\ Stamped(in, rows', r, TRUE, Past + 1, g, one)
  <2>1. g[r] = Paired(f, r)
    OBVIOUS
  <2>2. /\ Agrees(rows'[r], RowAt(in, Past + 1, Paired(f, r)))
        /\ Selected(rows'[r]) <=> Passes(in, Past + 1, Paired(f, r))
        /\ Selected(rows'[r]) => rows'[r].sel = one
    BY <1>1, JoinedRow
  <2> HIDE DEF g, one
  <2> QED
    BY <2>1, <2>2 DEF Stamped
<1> HIDE DEF g, one
<1>7. TableIs(in, rows', Past + 1, g)
  BY <1>3, <1>5, <1>6 DEF TableIs
<1>8. "join" \in Selections
  BY DEF Selections
<1>9. Selecting("join")
  BY <1>1 DEF Joining
<1>10. Correct(in, rows', TRUE, Past + 1)
  <2>1. \A r \in DOMAIN rows' : Stamped(in, rows', r, TRUE, Past + 1, g, one)
    BY <1>3, <1>6
  <2>2. /\ in.ops \in Seq(Operation) /\ Past \in Nat /\ Past + 1 \in DOMAIN in.ops
        /\ in.ops[Past + 1].kind \in Selections
    BY <1>8, <1>9 DEF Selecting
  <2> QED
    BY <1>7, <2>1, <2>2, SelectionCorrect
<1>11. N * NR \in Nat
  <2>1. N \in Nat /\ NR \in Nat
    BY <1>1 DEF Joining, JoinSizes
  <2> QED
    BY <2>1
<1> DEFINE m == N * NR
<1>12. m \in Nat /\ rows' \in [0 .. m - 1 -> Row]
  BY <1>4, <1>11
<1> HIDE DEF m
<1> QED
  BY <1>2, <1>8, <1>9, <1>10, <1>12, SelectionEnds

-----------------------------------------------------------------------------
(* The semi-join.                                                          *)

LEMMA SameAnswers ==
  ASSUME AnswerInv, in' = in, ops' = ops, rows' = rows, used' = used,
         at' = at \/ (ops # <<>> /\ Op.kind \notin {"mask", "semi_join"}),
         pc' = "adjacent" => HalfMarked(rows', SortKeys', work', at')
  PROVE  AnswerInv'
<1>1. Past' = Past
  BY DEF Past
<1>2. ops # <<>> => Op' = Op
  BY DEF Op
<1>3. (used <=> Did(in, Past, Selections \cup Uniques))'
  BY <1>1 DEF AnswerInv
<1>4. N' = N
  BY DEF N
<1>5. CASE ops = <<>>
  <2>1. HalfMasked(in, rows, TRUE, Past - 1, N)'
    BY <1>1, <1>4, <1>5 DEF AnswerInv
  <2>2. ops' = <<>>
    BY <1>5
  <2> QED
    BY <1>3, <2>1, <2>2 DEF AnswerInv
<1>6. CASE ops # <<>> /\ Op.kind = "mask"
  <2>1. HalfMasked(in, rows, used, Past, at)'
    BY <1>1, <1>6 DEF AnswerInv
  <2>2. ops' # <<>> /\ Op'.kind = "mask"
    BY <1>2, <1>6
  <2> QED
    BY <1>3, <2>1, <2>2 DEF AnswerInv
<1>7. CASE ops # <<>> /\ Op.kind = "semi_join"
  <2>1. HalfJoined(in, rows, used, Past, at)'
    BY <1>1, <1>7 DEF AnswerInv
  <2>2. ops' # <<>> /\ Op'.kind = "semi_join"
    BY <1>2, <1>7
  <2> QED
    BY <1>3, <2>1, <2>2 DEF AnswerInv
<1>8. CASE ops # <<>> /\ Op.kind # "mask" /\ Op.kind # "semi_join"
  <2>1. Correct(in, rows, used, Past)'
    BY <1>1, <1>8 DEF AnswerInv
  <2>2. ops' # <<>> /\ Op'.kind # "mask" /\ Op'.kind # "semi_join"
    BY <1>2, <1>8
  <2> QED
    BY <1>3, <2>1, <2>2 DEF AnswerInv
<1> QED
  BY <1>5, <1>6, <1>7, <1>8

LEMMA SemiJoinStepAnswers ==
  ASSUME TableInv, AnswerInv, SemiJoinEq \/ SemiJoinLevel
  PROVE  AnswerInv'
<1>1. /\ in' = in /\ ops' = ops /\ rows' = rows /\ used' = used /\ at' = at
      /\ pc' # "adjacent"
  BY DEF SemiJoinEq, SemiJoinLevel
<1> QED
  BY <1>1, SameAnswers

LEMMA SameRows ==
  ASSUME NEW x, NEW T, NEW E, DOMAIN E = DOMAIN T, NEW n, NEW f, TableIs(x, T, n, f),
         \A r \in DOMAIN T : Agrees(E[r], T[r])
  PROVE  TableIs(x, E, n, f)
<1>1. \A r \in DOMAIN T : Agrees(E[r], RowAt(x, n, f[r]))
  BY DEF TableIs, Agrees
<1> QED
  BY <1>1 DEF TableIs

LEMMA SameStamp ==
  ASSUME NEW x, NEW T, NEW E, NEW r, E[r] = T[r], NEW written, NEW n, NEW f, NEW c,
         Stamped(x, T, r, written, n, f, c)
  PROVE  Stamped(x, E, r, written, n, f, c)
BY DEF Stamped

\* What the tree of comparisons leaves of a left row.
LEMMA TreeFinds ==
  ASSUME TableInv, pc = "levels", 2^column = NR, NEW i \in at .. LeftEnd - 1
  PROVE  /\ work[(i - at) * NR] \in {0, 1}
         /\ 1 - work[(i - at) * NR] = 1 <=> \E b \in DOMAIN in.right : PartnerRow(in, rows[i], b)
<1> DEFINE a == i - at
<1>1. /\ in \in Calls /\ N \in Nat /\ at \in Index /\ at \in Nat
      /\ DOMAIN work = Rows(LeftEnd - at) /\ \A k \in DOMAIN work : work[k] \in {0, 1}
      /\ TreeKeeps /\ DOMAIN in.right = 0 .. NR - 1
  BY DataFacts DEF TableInv, DataInv, TreeInv, PlaceInv
<1>2. LeftEnd \in at + 1 .. N /\ LeftEnd - at \in Nat
  BY <1>1, LeftEndIs
<1>3. NR \in Nat /\ NR >= 1
  <2>1. \E e \in Nat : NR = 2^e
    BY <1>1, CallFacts
  <2> QED
    BY <2>1, PowPositive
<1>4. a \in 0 .. LeftEnd - at - 1 /\ a \in Nat /\ at + a = i
  BY <1>1, <1>2
<1> HIDE DEF a
<1>5. work[a * NR] \in {0, 1}
  <2> DEFINE b == LeftEnd - at
  <2>1. a \in 0 .. b - 1 /\ b \in Nat /\ 0 \in 0 .. NR - 1
    BY <1>2, <1>3, <1>4
  <2> HIDE DEF b
  <2>2. a * NR + 0 \in 0 .. b * NR - 1
    BY <1>3, <2>1, WorkPlace
  <2>3. a * NR + 0 = a * NR
    BY <1>3, <1>4
  <2> QED
    BY <1>1, <2>2, <2>3 DEF Rows, b
<1>6. (\A e \in 0 .. NR \div 2^column - 1 : work[a * NR + e] = 1)
        <=> \A e \in 0 .. NR - 1 : Unequal(a * NR + e) = 1
  BY <1>1, <1>4 DEF TreeKeeps
<1>7. NR \div 2^column = 1
  BY <1>3, DivModUnique
<1>8. work[a * NR] = 1 <=> \A e \in 0 .. NR - 1 : Unequal(a * NR + e) = 1
  <2>1. \A e : e \in 0 .. NR \div 2^column - 1 <=> e = 0
    BY <1>7
  <2>2. a * NR + 0 = a * NR
    BY <1>3, <1>4
  <2> QED
    BY <1>6, <2>1, <2>2
<1>9. ASSUME NEW e \in 0 .. NR - 1
      PROVE  Unequal(a * NR + e) = 1 <=> ~ PartnerRow(in, rows[i], e)
  <2> DEFINE k == a * NR + e
  <2>1. k \in Nat /\ k = NR * a + e /\ e \in Nat /\ e < NR
    BY <1>3, <1>4
  <2> HIDE DEF k
  <2>2. k \div NR = a /\ k % NR = e
    BY <1>3, <1>4, <2>1, DivModUnique
  <2>3. Unequal(k) = Bit(~ (rows[i].key = in.right[e].key
                           /\ (in.rightSel => Selected(in.right[e]))))
    BY <1>4, <2>2 DEF Unequal
  <2> QED
    BY <2>3 DEF Bit, PartnerRow, k
<1>10. work[a * NR] = 1 <=> ~ \E b \in DOMAIN in.right : PartnerRow(in, rows[i], b)
  BY <1>1, <1>8, <1>9
<1>11. work[a * NR] \in {0, 1} /\ (1 - work[a * NR] = 1 <=> work[a * NR] = 0)
  BY <1>5
<1>12. 1 - work[a * NR] = 1 <=> \E b \in DOMAIN in.right : PartnerRow(in, rows[i], b)
  BY <1>10, <1>11
<1> QED
  BY <1>5, <1>12 DEF a

\* The result of a batch, for the rows of the batch, those before and those after it.
LEMMA JoinedBatch ==
  ASSUME TableInv, Planned(in), AnswerInv, SemiJoinResult,
         NEW f, NEW c, TableIs(in, rows, Past, f),
         \A r \in Index :
           IF r < at
           THEN Stamped(in, rows, r, TRUE, Past + 1, f, IF used THEN AndWord(c, 1) ELSE 1)
           ELSE Stamped(in, rows, r, used, Past, f, c)
  PROVE  /\ DOMAIN rows' = Index /\ TableIs(in, rows', Past, f)
         /\ TableIs(in, rows', Past + 1, f)
         /\ \A r \in Index :
              IF r < LeftEnd
              THEN Stamped(in, rows', r, TRUE, Past + 1, f, IF used THEN AndWord(c, 1) ELSE 1)
              ELSE Stamped(in, rows', r, used, Past, f, c)
<1> DEFINE word(i) == 1 - work[(i - at) * NR]
<1>1. pc = "levels" /\ 2^column = NR
  BY DEF SemiJoinResult
<1>2. /\ in \in Calls /\ at \in Index /\ N \in Nat /\ at \in Nat
      /\ ops # <<>> /\ Op.kind = "semi_join"
  BY <1>1, DataFacts DEF TableInv, DataInv, TreeInv, PlaceInv
<1>3. Selecting("semi_join")
  BY <1>2, SelectionBegins
<1>4. LeftEnd \in at + 1 .. N
  BY <1>2, LeftEndIs
<1>5. rows' = [i \in Index |-> IF i \in at .. LeftEnd - 1
                                THEN [rows[i] EXCEPT !.sel = Conjoined(i, word)] ELSE rows[i]]
  BY DEF SemiJoinResult
<1>6. /\ DOMAIN rows = Index /\ DOMAIN rows' = Index /\ rows \in [Index -> Row]
      /\ in.ops[Past + 1].kind = "semi_join" /\ Past \in Nat
      /\ in.left \in [0 .. Size(in.left) - 1 -> Row]
      /\ used \in BOOLEAN /\ (used <=> Did(in, Past, Selections \cup Uniques))
  BY <1>3, <1>5 DEF Selecting
<1>7. ASSUME NEW r \in Index
      PROVE  /\ Agrees(rows'[r], rows[r])
             /\ r \notin at .. LeftEnd - 1 => rows'[r] = rows[r]
             /\ r \in at .. LeftEnd - 1 =>
                  Stamped(in, rows', r, TRUE, Past + 1, f, IF used THEN AndWord(c, 1) ELSE 1)
  <2>1. rows[r] \in Row
    BY <1>6
  <2>2. CASE r \notin at .. LeftEnd - 1
    <3>1. rows'[r] = rows[r]
      BY <1>5, <2>2
    <3> QED
      BY <2>2, <3>1 DEF Agrees
  <2>3. CASE r \in at .. LeftEnd - 1
    <3>1. rows'[r] = [rows[r] EXCEPT !.sel = Conjoined(r, word)]
      BY <1>5, <2>3
    <3>2. rows'[r].sel = Conjoined(r, word) /\ Agrees(rows'[r], rows[r])
      BY <2>1, <3>1, SelWritten
    <3> DEFINE w == work[(r - at) * NR]
               v == 1 - w
    <3>3. Conjoined(r, word) = IF used THEN AndWord(rows[r].sel, v) ELSE v
      BY DEF Conjoined
    <3>4. w \in {0, 1} /\ (v = 1 <=> \E b \in DOMAIN in.right : PartnerRow(in, rows[r], b))
      BY <1>1, <2>3, TreeFinds
    <3> HIDE DEF w, word
    <3>5. v \in {0, 1}
      BY <3>4
    <3> HIDE DEF v
    <3>6. HasLeft(in, Past, f[r], rows[r])
      BY <1>6, TableRow
    <3>7. Condition(in, Past + 1, f[r]) <=>
            \E b \in DOMAIN in.right : PartnerRow(in, in.left[f[r][1]], b)
      BY <1>6 DEF Condition
    <3>8. Condition(in, Past + 1, f[r]) <=> v = 1
      BY <3>4, <3>6, <3>7 DEF HasLeft, PartnerRow
    <3>9. v \in Word /\ (v % 2 = 1 <=> v = 1)
      BY <3>5, Words
    <3>10. Decision(in, Past, f[r], v, 1)
      BY <3>8, <3>9 DEF Decision
    <3>11. Conjoins(rows, rows', r, used, v)
      BY <3>2, <3>3 DEF Conjoins
    <3>12. Stamped(in, rows, r, used, Past, f, c)
      <4>1. ~ (r < at)
        BY <1>2, <1>4, <2>3
      <4> QED
        BY <4>1
    <3>13. Stamped(in, rows', r, TRUE, Past + 1, f, IF used THEN AndWord(c, 1) ELSE 1)
      <4> HIDE DEF Past
      <4> QED
        BY <1>6, <2>1, <3>10, <3>11, <3>12, Conjunction
    <3> QED
      BY <2>3, <3>2, <3>13
  <2> QED
    BY <2>2, <2>3
<1>8. ASSUME NEW r \in Index
      PROVE  IF r < LeftEnd
             THEN Stamped(in, rows', r, TRUE, Past + 1, f, IF used THEN AndWord(c, 1) ELSE 1)
             ELSE Stamped(in, rows', r, used, Past, f, c)
  <2>1. r \in Nat
    BY DEF Index
  <2>2. CASE r < at
    <3>1. r < LeftEnd /\ r \notin at .. LeftEnd - 1
      BY <1>2, <1>4, <2>1, <2>2
    <3>2. rows'[r] = rows[r]
      BY <1>7, <3>1
    <3>3. Stamped(in, rows, r, TRUE, Past + 1, f, IF used THEN AndWord(c, 1) ELSE 1)
      BY <2>2
    <3>4. Stamped(in, rows', r, TRUE, Past + 1, f, IF used THEN AndWord(c, 1) ELSE 1)
      BY <3>2, <3>3, SameStamp
    <3> QED
      BY <3>1, <3>4
  <2>3. CASE r \in at .. LeftEnd - 1
    <3>1. r < LeftEnd
      BY <1>2, <1>4, <2>1, <2>3
    <3> QED
      BY <1>7, <2>3, <3>1
  <2>4. CASE ~ (r < LeftEnd)
    <3>1. ~ (r < at) /\ r \notin at .. LeftEnd - 1
      BY <1>2, <1>4, <2>1, <2>4
    <3>2. rows'[r] = rows[r]
      BY <1>7, <3>1
    <3>3. Stamped(in, rows, r, used, Past, f, c)
      BY <3>1
    <3>4. Stamped(in, rows', r, used, Past, f, c)
      BY <3>2, <3>3, SameStamp
    <3> QED
      BY <2>4, <3>4
  <2>5. r < at \/ r \in at .. LeftEnd - 1 \/ ~ (r < LeftEnd)
    BY <1>2, <1>4, <2>1
  <2> QED
    BY <2>2, <2>3, <2>4, <2>5
<1>9. TableIs(in, rows', Past, f)
  BY <1>6, <1>7, SameRows
<1>10. TableIs(in, rows', Past + 1, f)
  BY <1>6, <1>7, SameTable
<1> QED
  BY <1>6, <1>8, <1>9, <1>10

LEMMA SemiJoinResultAnswers ==
  ASSUME TableInv, Planned(in), AnswerInv, SemiJoinResult
  PROVE  AnswerInv'
<1>1. /\ in \in Calls /\ at \in Index /\ N \in Nat /\ ops # <<>> /\ Op.kind = "semi_join"
  BY DataFacts DEF TableInv, DataInv, TreeInv, PlaceInv, SemiJoinResult
<1>2. Selecting("semi_join")
  BY <1>1, SelectionBegins
<1>3. LeftEnd \in at + 1 .. N
  BY <1>1, LeftEndIs
<1>4. HalfJoined(in, rows, used, Past, at)
  BY <1>1 DEF AnswerInv
<1>5. DOMAIN rows = Index
  BY <1>2 DEF Selecting
<1>6. PICK f, c :
        /\ TableIs(in, rows, Past, f)
        /\ \A r \in Index :
             IF r < at
             THEN Stamped(in, rows, r, TRUE, Past + 1, f, IF used THEN AndWord(c, 1) ELSE 1)
             ELSE Stamped(in, rows, r, used, Past, f, c)
  BY <1>4, <1>5 DEF HalfJoined
<1> DEFINE one == IF used THEN AndWord(c, 1) ELSE 1
<1>7. /\ DOMAIN rows' = Index /\ TableIs(in, rows', Past, f)
      /\ TableIs(in, rows', Past + 1, f)
      /\ \A r \in Index :
           IF r < LeftEnd THEN Stamped(in, rows', r, TRUE, Past + 1, f, one)
           ELSE Stamped(in, rows', r, used, Past, f, c)
  BY <1>6, JoinedBatch
<1>8. in' = in /\ (LeftEnd < N => /\ pc' = "start" /\ at' = LeftEnd /\ ops' = ops
                                  /\ used' = used)
      /\ (~ (LeftEnd < N) => used' = TRUE /\ Finish)
  BY DEF SemiJoinResult
<1>9. CASE LeftEnd < N
  <2>1. Past' = Past /\ Op' = Op /\ ops' # <<>>
    BY <1>1, <1>8, <1>9 DEF Past, Op
  <2>2. HalfJoined(in, rows', used, Past, LeftEnd)
    BY <1>7 DEF HalfJoined
  <2>3. HalfJoined(in, rows, used, Past, at)'
    BY <1>8, <1>9, <2>1, <2>2
  <2>4. (used <=> Did(in, Past, Selections \cup Uniques))'
    BY <1>8, <1>9, <2>1 DEF AnswerInv
  <2> QED
    BY <1>1, <1>8, <1>9, <2>1, <2>3, <2>4 DEF AnswerInv
<1>10. CASE ~ (LeftEnd < N)
  <2>1. LeftEnd = N
    BY <1>1, <1>3, <1>10 DEF Index
  <2>2. \A r \in DOMAIN rows' : Stamped(in, rows', r, TRUE, Past + 1, f, one)
    <3> TAKE r \in DOMAIN rows'
    <3>1. r \in Index /\ r < LeftEnd
      BY <1>1, <1>7, <2>1 DEF Index
    <3> HIDE DEF one
    <3> QED
      BY <1>7, <3>1
  <2>3. "semi_join" \in Selections
    BY DEF Selections
  <2>4. /\ in.ops \in Seq(Operation) /\ Past \in Nat /\ Past + 1 \in DOMAIN in.ops
        /\ in.ops[Past + 1].kind \in Selections
    BY <1>2, <2>3 DEF Selecting
  <2> HIDE DEF one
  <2>5. Correct(in, rows', TRUE, Past + 1)
    BY <1>7, <2>2, <2>4, SelectionCorrect
  <2>6. rows' \in [0 .. N - 1 -> Row]
    <3>1. DataInv'
      BY SemiJoinResultKeeps DEF TableInv
    <3>2. rows' \in [DOMAIN rows' -> Row]
      BY <3>1 DEF DataInv
    <3> QED
      BY <1>7, <3>2 DEF Index
  <2> QED
    BY <1>1, <1>2, <1>8, <1>10, <2>3, <2>5, <2>6, SelectionEnds
<1> QED
  BY <1>9, <1>10

-----------------------------------------------------------------------------
(* The sort changes the order of the rows only.                            *)

LEMMA Involution ==
  ASSUME NEW S, NEW p, p \in [S -> S], \A i \in S : p[p[i]] = i
  PROVE  OneToOne(p, S, S)
<1>1. ASSUME NEW a \in S, NEW b \in S, p[a] = p[b] PROVE a = b
  <2>1. p[p[a]] = a /\ p[p[b]] = b
    OBVIOUS
  <2> QED
    BY <1>1, <2>1
<1>2. ASSUME NEW t \in S PROVE \E a \in S : p[a] = t
  <2>1. p[t] \in S /\ p[p[t]] = t
    OBVIOUS
  <2> QED
    BY <2>1
<1> QED
  BY <1>1, <1>2 DEF OneToOne

\* Every row is in the low or in the high half of a box.
Boxed(n, d, K) == d \in Nat /\ d >= 1 /\ K \in Nat /\ n = 2 * d * K
LEMMA HalfOfBox ==
  ASSUME NEW n, NEW d, NEW K, Boxed(n, d, K), NEW i \in 0 .. n - 1
  PROVE  \E b \in Nat, r \in 0 .. d - 1 :
           /\ 2 * d * b + 2 * d <= n /\ Spot(d, b, r) \in 0 .. n - 1
           /\ Spot(d, b, r) + d \in 0 .. n - 1
           /\ i = Spot(d, b, r) \/ i = Spot(d, b, r) + d
<1> DEFINE w == 2 * d
           b == i \div w
           s == i % w
<1>1. /\ w \in Nat /\ w >= 1 /\ n = w * K /\ i \in 0 .. w * K - 1 /\ i \in Nat /\ n \in Nat
      /\ d \in Nat /\ d >= 1 /\ K \in Nat
  BY DEF Boxed
<1>2. b \in 0 .. K - 1 /\ s \in 0 .. w - 1 /\ i = w * b + s /\ b \in Nat /\ s \in Nat
  <2> HIDE DEF w
  <2> QED
    BY <1>1, QuotientBelow, DivMod
<1> HIDE DEF b, s
<1>3. 2 * d * b + 2 * d <= n /\ 2 * d * b = w * b /\ w * b \in Nat
  <2>1. w * (b + 1) <= w * K /\ w * (b + 1) = w * b + w /\ w * b \in Nat
    <3> HIDE DEF w
    <3> QED
      BY <1>1, <1>2
  <2> QED
    BY <1>1, <2>1
<1> DEFINE r == IF s < d THEN s ELSE s - d
<1>4. r \in 0 .. d - 1 /\ (s = r \/ s = r + d)
  BY <1>1, <1>2
<1> HIDE DEF r
<1>5. i = Spot(d, b, r) \/ i = Spot(d, b, r) + d
  BY <1>1, <1>2, <1>3, <1>4 DEF Spot
<1>6. Spot(d, b, r) \in 0 .. n - 1 /\ Spot(d, b, r) + d \in 0 .. n - 1
  BY <1>1, <1>2, <1>3, <1>4, SpotInTable
<1> QED
  BY <1>2, <1>3, <1>4, <1>5, <1>6

\* Rows i and j keep or exchange their places.
Traded(i, j) ==
  \/ rows'[i] = rows[i] /\ rows'[j] = rows[j]
  \/ rows'[i] = rows[j] /\ rows'[j] = rows[i]

LEMMA BatchTrades ==
  ASSUME TableInv, SortBatch, NEW d, NEW C, NEW K, NEW J, NEW B, BatchFacts(d, C, K, J, B),
         NEW b \in Nat, NEW r \in 0 .. d - 1, 2 * d * b + 2 * d <= N
  PROVE  Traded(Spot(d, b, r), Spot(d, b, r) + d)
<1> DEFINE i == Spot(d, b, r)
<1>1. pc = "columns" /\ 2^phase < N
  BY DEF SortBatch
<1>2. /\ d \in Nat /\ d >= 1 /\ Distance = d /\ N \in Nat
      /\ B \in Nat /\ BatchSize = B /\ turn \in 0 .. J - 1 /\ at = Low(d, turn * B)
  BY <1>1 DEF BatchFacts, TableInv, SortInv
<1>3. turn * B \in Nat
  <2>1. turn \in Nat
    BY <1>2
  <2> QED
    BY <1>2, <2>1
<1>4. IF Comparison(d, b, r) \in turn * B .. turn * B + B - 1
      THEN rows'[i] = Swapped(i)[1] /\ rows'[i + d] = Swapped(i)[2]
      ELSE rows'[i] = rows[i] /\ rows'[i + d] = rows[i + d]
  <2> DEFINE m == turn * B
  <2>1. m \in Nat /\ at = Low(d, m)
    BY <1>2, <1>3
  <2> HIDE DEF m
  <2>2. LET i2 == Spot(d, b, r)
        IN  IF Comparison(d, b, r) \in m .. m + B - 1
            THEN rows'[i2] = Swapped(i2)[1] /\ rows'[i2 + d] = Swapped(i2)[2]
            ELSE rows'[i2] = rows[i2] /\ rows'[i2 + d] = rows[i2 + d]
    BY <1>2, <2>1, BatchRows
  <2> QED
    BY <2>2 DEF m
<1>5. Partner(i) = i + d
  BY <1>2, SpotFacts DEF Partner
<1> HIDE DEF i
<1>6. \/ Swapped(i)[1] = rows[i] /\ Swapped(i)[2] = rows[i + d]
      \/ Swapped(i)[1] = rows[i + d] /\ Swapped(i)[2] = rows[i]
  BY <1>5 DEF Swapped
<1>7. Traded(i, i + d)
  BY <1>4, <1>6 DEF Traded
<1> QED
  BY <1>7 DEF i

LEMMA BatchPermutes ==
  ASSUME TableInv, SortBatch
  PROVE  /\ rows' \in [Index -> Row]
         /\ \E p : OneToOne(p, Index, Index) /\ \A i \in Index : rows'[i] = rows[p[i]]
<1>1. pc = "columns" /\ 2^phase < N /\ DataInv /\ SortInv
  BY DEF SortBatch, TableInv
<1>2. rows' \in [Index -> Row]
  BY <1>1, BatchType
<1>3. PICK d, C, K, J, B : BatchFacts(d, C, K, J, B)
  BY <1>1, BatchBegins
<1>4. d \in Nat /\ d >= 1 /\ K \in Nat /\ N = 2 * d * K
  BY <1>3 DEF BatchFacts
<1> DEFINE low(i) == (i \div d) % 2 = 0
           kept(i, j) == rows'[i] = rows[i] /\ rows'[j] = rows[j]
           p == [i \in Index |->
                   IF low(i) THEN IF kept(i, i + d) THEN i ELSE i + d
                   ELSE IF kept(i - d, i) THEN i ELSE i - d]
<1>5. ASSUME NEW i \in Index
      PROVE  p[i] \in Index /\ p[p[i]] = i /\ rows'[i] = rows[p[i]]
  <2>1. PICK b \in Nat, r \in 0 .. d - 1 :
          /\ 2 * d * b + 2 * d <= N /\ Spot(d, b, r) \in Index /\ Spot(d, b, r) + d \in Index
          /\ i = Spot(d, b, r) \/ i = Spot(d, b, r) + d
    <3>1. i \in 0 .. N - 1 /\ Index = 0 .. N - 1
      BY DEF Index
    <3>2. \E b \in Nat, r \in 0 .. d - 1 :
            /\ 2 * d * b + 2 * d <= N /\ Spot(d, b, r) \in 0 .. N - 1
            /\ Spot(d, b, r) + d \in 0 .. N - 1
            /\ i = Spot(d, b, r) \/ i = Spot(d, b, r) + d
      <4>1. Boxed(N, d, K)
        BY <1>4 DEF Boxed
      <4> QED
        BY <3>1, <4>1, HalfOfBox
    <3> QED
      BY <3>1, <3>2
  <2> DEFINE s == Spot(d, b, r)
             t == Spot(d, b, r) + d
  <2>2. Traded(s, t)
    BY <1>3, <2>1, BatchTrades
  <2>3. s \in Index /\ t \in Index /\ t = s + d /\ s = t - d
    BY <1>4, <2>1 DEF Index
  <2>4. low(s) /\ ~ low(t)
    BY <1>4, SpotFacts
  <2>5. i = s \/ i = t
    BY <2>1
  <2> HIDE DEF s, t, low
  <2>6. p[s] = IF kept(s, t) THEN s ELSE t
    BY <2>3, <2>4
  <2>7. p[t] = IF kept(s, t) THEN t ELSE s
    BY <2>3, <2>4
  <2>8. ~ kept(s, t) => rows'[s] = rows[t] /\ rows'[t] = rows[s]
    BY <2>2 DEF Traded
  <2> HIDE DEF p
  <2> QED
    BY <2>3, <2>5, <2>6, <2>7, <2>8
<1>6. p \in [Index -> Index]
  <2>1. p = [i \in Index |-> p[i]]
    OBVIOUS
  <2> HIDE DEF p
  <2> QED
    BY <1>5, <2>1
<1> HIDE DEF p
<1>7. OneToOne(p, Index, Index)
  BY <1>5, <1>6, Involution
<1> QED
  BY <1>2, <1>5, <1>7

LEMMA Composed ==
  ASSUME NEW S, NEW V, NEW f, NEW p, OneToOne(p, S, S), OneToOne(f, S, V)
  PROVE  OneToOne([r \in S |-> f[p[r]]], S, V)
<1> DEFINE g == [r \in S |-> f[p[r]]]
<1>1. g \in [S -> V]
  BY DEF OneToOne
<1>2. ASSUME NEW a \in S, NEW b \in S, g[a] = g[b] PROVE a = b
  <2>1. f[p[a]] = f[p[b]] /\ p[a] \in S /\ p[b] \in S
    BY <1>2 DEF OneToOne
  <2>2. p[a] = p[b]
    BY <2>1 DEF OneToOne
  <2> QED
    BY <2>2 DEF OneToOne
<1>3. ASSUME NEW t \in V PROVE \E a \in S : g[a] = t
  <2>1. PICK b \in S : f[b] = t
    BY DEF OneToOne
  <2>2. PICK a \in S : p[a] = b
    BY DEF OneToOne
  <2> QED
    BY <2>1, <2>2
<1> HIDE DEF g
<1>4. OneToOne(g, S, V)
  BY <1>1, <1>2, <1>3 DEF OneToOne
<1> QED
  BY <1>4 DEF g

LEMMA Permuted ==
  ASSUME NEW x, NEW T, NEW E, DOMAIN E = DOMAIN T, NEW written, NEW n,
         Faithful(x, T, written, n),
         NEW p, OneToOne(p, DOMAIN T, DOMAIN T), \A r \in DOMAIN T : E[r] = T[p[r]]
  PROVE  Faithful(x, E, written, n)
<1>1. PICK f, c :
        /\ TableIs(x, T, n, f)
        /\ IF Did(x, n, Uniques)
           THEN /\ written
                /\ \A r \in DOMAIN T : Selected(T[r]) => T[r].sel = c
                /\ OnePerKey(x, T, n, f)
           ELSE \A r \in DOMAIN T : Stamped(x, T, r, written, n, f, c)
  BY DEF Faithful
<1> DEFINE S == DOMAIN T
           g == [r \in S |-> f[p[r]]]
<1>2. \A r \in S : p[r] \in S /\ E[r] = T[p[r]] /\ g[r] = f[p[r]]
  BY DEF OneToOne
<1>3. TableIs(x, E, n, g)
  <2>1. OneToOne(g, S, TuplesAt(x, n))
    BY <1>1, Composed DEF TableIs
  <2>2. \A r \in S : Agrees(E[r], RowAt(x, n, g[r]))
    <3> TAKE r \in S
    <3> HIDE DEF g
    <3> QED
      BY <1>1, <1>2 DEF TableIs
  <2> HIDE DEF g
  <2> QED
    BY <2>1, <2>2 DEF TableIs
<1> HIDE DEF g
<1>4. CASE ~ Did(x, n, Uniques)
  <2>1. \A r \in DOMAIN E : Stamped(x, E, r, written, n, g, c)
    BY <1>1, <1>2, <1>4 DEF Stamped
  <2> QED
    BY <1>3, <1>4, <2>1 DEF Faithful
<1>5. CASE Did(x, n, Uniques)
  <2>1. written /\ OnePerKey(x, T, n, f)
    BY <1>1, <1>5
  <2>2. \A r \in DOMAIN E : Selected(E[r]) => E[r].sel = c
    BY <1>1, <1>2, <1>5
  <2>3. \A r \in DOMAIN E : Selected(E[r]) => Passes(x, n, g[r])
    BY <1>2, <2>1 DEF OnePerKey
  <2>4. ASSUME NEW i \in 1 .. n, NEW t \in TuplesAt(x, n), x.ops[i].kind \in Uniques,
               Passes(x, n, t)
        PROVE  \E r \in DOMAIN E : /\ Selected(E[r])
                                   /\ SameOn(x.ops[i].by, E[r], RowAt(x, n, t))
                                   /\ \A s \in DOMAIN E :
                                        Selected(E[s]) /\ SameOn(x.ops[i].by, E[s], E[r])
                                          => s = r
    <3>1. PICK q \in DOMAIN T : /\ Selected(T[q])
                                /\ SameOn(x.ops[i].by, T[q], RowAt(x, n, t))
                                /\ \A s \in DOMAIN T :
                                     Selected(T[s]) /\ SameOn(x.ops[i].by, T[s], T[q]) => s = q
      BY <2>1, <2>4 DEF OnePerKey
    <3>2. PICK r \in S : p[r] = q
      BY DEF OneToOne
    <3>3. ASSUME NEW s \in S, Selected(E[s]), SameOn(x.ops[i].by, E[s], E[r]) PROVE s = r
      <4>1. p[s] = q
        BY <1>2, <3>1, <3>2, <3>3
      <4> QED
        BY <3>2, <4>1 DEF OneToOne
    <3> QED
      BY <1>2, <3>1, <3>2, <3>3
  <2>5. OnePerKey(x, E, n, g)
    BY <2>3, <2>4 DEF OnePerKey
  <2> QED
    BY <1>3, <1>5, <2>1, <2>2, <2>5 DEF Faithful
<1> QED
  BY <1>4, <1>5

\* An order is made once.
LEMMA NotYetOrdered ==
  ASSUME NEW x, Planned(x), x.ops \in Seq(Operation), NEW n \in Nat, n + 1 \in DOMAIN x.ops,
         x.ops[n + 1].kind \in {"order_by", "distinct"}
  PROVE  /\ \A i \in 1 .. n : x.ops[i].kind # "order_by"
         /\ \A T, written : InSequence(x, T, written, n)
<1>1. ASSUME NEW i \in 1 .. n PROVE x.ops[i].kind # "order_by"
  <2>1. i \in DOMAIN x.ops /\ i < n + 1
    OBVIOUS
  <2>2. Follow(x.ops[i].kind, x.ops[n + 1].kind)
    BY <2>1 DEF Planned
  <2> QED
    BY <2>2 DEF Follow
<1>2. n \in DOMAIN x.ops => n \in 1 .. n
  BY DEF Planned
<1>3. \A T, written : InSequence(x, T, written, n)
  BY <1>1, <1>2 DEF InSequence
<1> QED
  BY <1>1, <1>3

LEMMA SortBatchAnswers ==
  ASSUME TableInv, Planned(in), AnswerInv, SortBatch
  PROVE  AnswerInv'
<1>1. /\ pc = "columns" /\ pc' = pc /\ in' = in /\ ops' = ops /\ used' = used
  BY DEF SortBatch
<1>2. ops # <<>> /\ Op.kind \in {"order_by", "distinct"}
  BY <1>1 DEF TableInv, SortInv, Sorting
<1>3. Correct(in, rows, used, Past)
  BY <1>2 DEF AnswerInv
<1>4. /\ in.ops \in Seq(Operation) /\ Past \in Nat /\ Past + 1 \in DOMAIN in.ops
      /\ Op = in.ops[Past + 1]
  BY <1>2, PastIs DEF TableInv
<1>5. Past' = Past /\ Op' = Op
  BY <1>1 DEF Past, Op
<1>6. PICK p : OneToOne(p, Index, Index) /\ \A i \in Index : rows'[i] = rows[p[i]]
  BY BatchPermutes
<1>7. DOMAIN rows = Index /\ DOMAIN rows' = Index
  BY BatchPermutes, DataFacts DEF TableInv
<1>8. Faithful(in, rows', used, Past)
  BY <1>3, <1>6, <1>7, Permuted DEF Correct
<1>9. InSequence(in, rows', used, Past)
  BY <1>2, <1>4, NotYetOrdered
<1>10. Correct(in, rows, used, Past)'
  BY <1>1, <1>5, <1>8, <1>9 DEF Correct
<1>11. (used <=> Did(in, Past, Selections \cup Uniques))'
  BY <1>1, <1>5 DEF AnswerInv
<1>12. /\ ops' # <<>> /\ Op'.kind # "mask" /\ Op'.kind # "semi_join" /\ pc' # "adjacent"
  BY <1>1, <1>2, <1>5
<1> QED
  BY <1>10, <1>11, <1>12 DEF AnswerInv

LEMMA StartSortAnswers ==
  ASSUME TableInv, AnswerInv, StartSort
  PROVE  AnswerInv'
<1>1. /\ in' = in /\ ops' = ops /\ rows' = rows /\ used' = used /\ at' = at
      /\ pc' # "adjacent"
  BY DEF StartSort, loop
<1> QED
  BY <1>1, SameAnswers

LEMMA OperationFacts ==
  ASSUME in \in Calls, NEW i \in DOMAIN in.ops
  PROVE  /\ in.ops[i].by \in Seq(Key) /\ in.ops[i].kind \in Kinds
         /\ in.ops[i].kind \in {"order_by", "distinct"} => Sortable(in.ops[i].by)
<1>1. in.ops \in Seq(Operation)
  BY CallFacts
<1>2. /\ Len(in.ops[i].by) <= 3
      /\ in.ops[i].kind \in {"order_by", "distinct"} => in.ops[i].by # <<>>
  BY CallsAssumption
<1>3. ASSUME NEW o \in Operation PROVE o.by \in Seq(Key) /\ o.kind \in Kinds
  <2>1. CASE o \in [kind : Kinds \ {"filter_const"}, by : Seq(Key)]
    BY <2>1
  <2>2. CASE o \in [kind : {"filter_const"}, by : {<<>>}, const : Word]
    <3>1. o.by = <<>> /\ o.kind = "filter_const"
      BY <2>2
    <3>2. <<>> \in Seq(Key)
      OBVIOUS
    <3> QED
      BY <3>1, <3>2 DEF Kinds
  <2> QED
    BY <2>1, <2>2 DEF Operation
<1>4. in.ops[i].by \in Seq(Key) /\ in.ops[i].kind \in Kinds
  BY <1>1, <1>3
<1>5. in.ops[i].by # <<>> => Len(in.ops[i].by) >= 1
  BY <1>4, EmptySeq
<1>6. Len(in.ops[i].by) \in Nat
  BY <1>4
<1>7. in.ops[i].kind \in {"order_by", "distinct"} => Len(in.ops[i].by) \in 1 .. 3
  <2> DEFINE L == Len(in.ops[i].by)
  <2>1. L \in Nat /\ L <= 3 /\ (in.ops[i].kind \in {"order_by", "distinct"} => L >= 1)
    BY <1>2, <1>5, <1>6
  <2> HIDE DEF L
  <2>2. in.ops[i].kind \in {"order_by", "distinct"} => L \in 1 .. 3
    BY <2>1
  <2> QED
    BY <2>2 DEF L
<1> QED
  BY <1>4, <1>7 DEF Sortable

\* Rows that agree on the keys are adjacent in a table that is sorted for them.
LEMMA Contiguous ==
  ASSUME NEW S, NEW T \in [S -> Row], NEW order, Sortable(order),
         \A r, s \in S : Follows(order, T, r, s), NEW keys \in Seq(Key), SortedFor(order, keys)
  PROVE  \A r, s, q \in DOMAIN T :
           r < s /\ s < q /\ SameOn(keys, T[r], T[q]) => SameOn(keys, T[r], T[s])
<1> SUFFICES ASSUME NEW r \in S, NEW s \in S, NEW q \in S, r < s, s < q,
                    SameOn(keys, T[r], T[q])
             PROVE  SameOn(keys, T[r], T[s])
  OBVIOUS
<1>1. T[r] \in Row /\ T[s] \in Row /\ T[q] \in Row
  OBVIOUS
<1>2. ~ Before(order, T[s], T[r]) /\ ~ Before(order, T[q], T[s])
  BY DEF Follows
<1>3. Len(keys) \in 0 .. Len(order) /\ DOMAIN keys = 1 .. Len(keys)
  BY DEF SortedFor, Sortable
<1>4. \A i \in 1 .. Len(keys) : order[i].col = keys[i].col
  BY <1>3 DEF SortedFor
<1>5. \A i \in 1 .. Len(keys) : Equal(order[i], T[r], T[q])
  BY <1>3, <1>4 DEF SameOn, Equal
<1>6. \A i \in 1 .. Len(keys) : Equal(order[i], T[r], T[s])
  <2> DEFINE m == Len(keys)
  <2>1. m \in 0 .. Len(order) /\ \A i \in 1 .. m : Equal(order[i], T[r], T[q])
    BY <1>3, <1>5
  <2> HIDE DEF m
  <2>2. \A i \in 1 .. m : Equal(order[i], T[r], T[s])
    BY <1>1, <1>2, <2>1, Between
  <2> QED
    BY <2>2 DEF m
<1> QED
  BY <1>3, <1>4, <1>6 DEF SameOn, Equal

\* After the last phase the rows are in the order of the keys.
LEMMA SortedAtEnd ==
  ASSUME TableInv, pc = "columns", 2^phase = N
  PROVE  /\ Sortable(SortKeys) /\ \A r, s \in Index : Follows(SortKeys, rows, r, s)
<1>1. Sorting /\ Blocked(SortKeys, rows, N, 1, N)
  BY DEF TableInv, SortInv
<1>2. Sortable(SortKeys)
  BY <1>1, SortingFacts DEF TableInv
<1>3. N \in Nat
  BY DataFacts DEF TableInv
<1>4. ASSUME NEW r \in Index, NEW s \in Index, r < s PROVE ~ Before(SortKeys, rows[s], rows[r])
  <2>1. /\ 0 \in Nat /\ r \in 0 .. N - 1 /\ s \in 0 .. N - 1 /\ 0 \in 0 .. 1 - 1
        /\ N * 0 = 0
    BY <1>3 DEF Index
  <2>2. 1 * (N * 0 + s) + 1 <= N
    BY <1>3, <2>1
  <2>3. 1 * (N * 0 + r) + 0 = r /\ 1 * (N * 0 + s) + 0 = s /\ 0 % 2 = 0
    BY <2>1
  <2>4. InOrder(SortKeys, 0 % 2 = 0, rows[1 * (N * 0 + r) + 0], rows[1 * (N * 0 + s) + 0])
    BY <1>1, <1>4, <2>1, <2>2 DEF Blocked
  <2>5. InOrder(SortKeys, TRUE, rows[r], rows[s])
    BY <2>3, <2>4
  <2> QED
    BY <2>5 DEF InOrder
<1> QED
  BY <1>2, <1>4 DEF Follows

\* The order of a table that has been sorted.
LEMMA OrderedCorrect ==
  ASSUME NEW x, Planned(x), x.ops \in Seq(Operation), NEW n \in Nat, n + 1 \in DOMAIN x.ops,
         x.ops[n + 1].kind = "order_by", NEW T, NEW written, Faithful(x, T, written, n),
         \A r, s \in DOMAIN T : Follows(x.ops[n + 1].by, T, r, s)
  PROVE  Correct(x, T, written, n + 1)
<1>1. \A kinds : "order_by" \notin kinds => (Did(x, n + 1, kinds) <=> Did(x, n, kinds))
  BY DidNext
<1>2. "order_by" \notin {"join"} /\ "order_by" \notin Uniques
  BY DEF Uniques
<1>3. (Did(x, n + 1, {"join"}) <=> Did(x, n, {"join"}))
      /\ (Did(x, n + 1, Uniques) <=> Did(x, n, Uniques))
  BY <1>1, <1>2
<1>4. \A t : Condition(x, n + 1, t)
  BY DEF Condition
<1>5. \A t : Passes(x, n + 1, t) <=> Passes(x, n, t)
  BY <1>4, PassesNext
<1>6. PICK f, c :
        /\ TableIs(x, T, n, f)
        /\ IF Did(x, n, Uniques)
           THEN /\ written
                /\ \A r \in DOMAIN T : Selected(T[r]) => T[r].sel = c
                /\ OnePerKey(x, T, n, f)
           ELSE \A r \in DOMAIN T : Stamped(x, T, r, written, n, f, c)
  BY DEF Faithful
<1>7. TableIs(x, T, n + 1, f)
  <2>1. \A r \in DOMAIN T : Agrees(T[r], T[r])
    BY DEF Agrees
  <2>2. x.ops[n + 1].kind # "join"
    OBVIOUS
  <2> QED
    BY <1>6, <2>1, <2>2, SameTable
<1>8. Faithful(x, T, written, n + 1)
  <2>1. CASE ~ Did(x, n, Uniques)
    <3>1. \A r \in DOMAIN T : Stamped(x, T, r, written, n + 1, f, c)
      BY <1>5, <1>6, <2>1 DEF Stamped
    <3> QED
      BY <1>3, <1>7, <2>1, <3>1 DEF Faithful
  <2>2. CASE Did(x, n, Uniques)
    <3>1. OnePerKey(x, T, n, f)
      BY <1>6, <2>2
    <3>2. TuplesAt(x, n + 1) = TuplesAt(x, n) /\ \A t : RowAt(x, n + 1, t) = RowAt(x, n, t)
      BY <1>3 DEF TuplesAt, RowAt
    <3>3. \A i \in 1 .. n + 1 : x.ops[i].kind \in Uniques => i \in 1 .. n
      BY <1>2
    <3>4. OnePerKey(x, T, n + 1, f)
      <4>1. \A r \in DOMAIN T : Selected(T[r]) => Passes(x, n + 1, f[r])
        BY <1>5, <3>1 DEF OnePerKey
      <4>2. ASSUME NEW i \in 1 .. n + 1, NEW t \in TuplesAt(x, n + 1),
                   x.ops[i].kind \in Uniques, Passes(x, n + 1, t)
            PROVE  \E r \in DOMAIN T : /\ Selected(T[r])
                                       /\ SameOn(x.ops[i].by, T[r], RowAt(x, n + 1, t))
                                       /\ \A s \in DOMAIN T :
                                            Selected(T[s]) /\ SameOn(x.ops[i].by, T[s], T[r])
                                              => s = r
        <5>1. i \in 1 .. n /\ t \in TuplesAt(x, n) /\ Passes(x, n, t)
          BY <1>5, <3>2, <3>3, <4>2
        <5>2. \E r \in DOMAIN T : /\ Selected(T[r])
                                  /\ SameOn(x.ops[i].by, T[r], RowAt(x, n, t))
                                  /\ \A s \in DOMAIN T :
                                       Selected(T[s]) /\ SameOn(x.ops[i].by, T[s], T[r]) => s = r
          BY <3>1, <4>2, <5>1 DEF OnePerKey
        <5> QED
          BY <3>2, <5>2
      <4> QED
        BY <4>1, <4>2 DEF OnePerKey
    <3> QED
      BY <1>3, <1>6, <1>7, <2>2, <3>4 DEF Faithful
  <2> QED
    BY <2>1, <2>2
<1>9. InSequence(x, T, written, n + 1)
  <2>1. \A i \in 1 .. n : x.ops[i].kind # "order_by"
    BY NotYetOrdered
  <2>2. ASSUME NEW i \in 1 .. n + 1, x.ops[i].kind = "order_by" PROVE i = n + 1
    <3>1. i \notin 1 .. n
      BY <2>1, <2>2
    <3> QED
      BY <3>1
  <2> QED
    BY <2>2 DEF InSequence
<1> QED
  BY <1>8, <1>9 DEF Correct

LEMMA FirstMarked ==
  ASSUME TableInv, AnswerInv, ops # <<>>, Op.kind \in {"distinct", "adjacent_eq"},
         in' = in, ops' = ops, rows' = rows, used' = used, FirstDistinct,
         NEW order, Sortable(order), \A r, s \in Index : Follows(order, rows, r, s),
         SortKeys \in Seq(Key), SortedFor(order, SortKeys)
  PROVE  AnswerInv'
<1>1. at' = 0 /\ work' = [k \in Index |-> Bit(k = 0)]
  BY DEF FirstDistinct
<1>2. SortKeys' = SortKeys
  BY DEF SortKeys, Op
<1>3. rows \in [Index -> Row] /\ N \in Nat /\ N >= 1 /\ Index = 0 .. N - 1
  BY DataFacts DEF TableInv, Index
<1>4. \A r, s, q \in DOMAIN rows :
        r < s /\ s < q /\ SameOn(SortKeys, rows[r], rows[q]) => SameOn(SortKeys, rows[r], rows[s])
  BY <1>3, Contiguous
<1>5. work'[0] = 1
  BY <1>1, <1>3 DEF Bit
<1>6. \A k \in DOMAIN rows : ~ (1 <= k /\ k <= 0)
  BY <1>3
<1>7. HalfMarked(rows, SortKeys, work', 0)
  BY <1>4, <1>5, <1>6 DEF HalfMarked
<1>8. HalfMarked(rows', SortKeys', work', at')
  BY <1>1, <1>2, <1>7
<1> QED
  BY <1>8, SameAnswers

LEMMA EndSortAnswers ==
  ASSUME TableInv, Planned(in), AnswerInv, EndSort
  PROVE  AnswerInv'
<1>1. pc = "columns" /\ 2^phase = N /\ in' = in /\ rows' = rows /\ used' = used
  BY DEF EndSort
<1>2. ops # <<>> /\ Op.kind \in {"order_by", "distinct"}
  BY <1>1 DEF TableInv, SortInv, Sorting
<1>3. Sortable(SortKeys) /\ \A r, s \in Index : Follows(SortKeys, rows, r, s)
  BY <1>1, SortedAtEnd
<1>4. CASE Op.kind = "distinct"
  <2>1. FirstDistinct /\ ops' = ops
    BY <1>4 DEF EndSort
  <2>2. SortKeys \in Seq(Key) /\ SortedFor(SortKeys, SortKeys)
    BY <1>3 DEF Sortable, SortedFor
  <2> QED
    BY <1>1, <1>2, <1>3, <1>4, <2>1, <2>2, FirstMarked
<1>5. CASE Op.kind = "order_by"
  <2>1. Finish
    BY <1>5 DEF EndSort
  <2>2. SortKeys = Op.by
    BY <1>5 DEF SortKeys
  <2>3. /\ in.ops \in Seq(Operation) /\ Past \in Nat /\ Past + 1 \in DOMAIN in.ops
        /\ Op = in.ops[Past + 1]
    BY <1>2, PastIs DEF TableInv
  <2>4. rows \in [Index -> Row] /\ DOMAIN rows = Index /\ N \in Nat /\ Index = 0 .. N - 1
    BY DataFacts DEF TableInv, Index
  <2>5. Faithful(in, rows, used, Past)
    BY <1>2, <1>5 DEF AnswerInv, Correct
  <2>6. Correct(in, rows, used, Past + 1)
    BY <1>3, <1>5, <2>2, <2>3, <2>4, <2>5, OrderedCorrect
  <2>7. used <=> Did(in, Past + 1, Selections \cup Uniques)
    <3>1. "order_by" \notin Selections \cup Uniques
      BY DEF Selections, Uniques
    <3> QED
      BY <1>5, <2>3, <3>1, DidNext DEF AnswerInv
  <2> QED
    BY <1>1, <1>2, <1>5, <2>1, <2>4, <2>6, <2>7, OperatorDone
<1> QED
  BY <1>2, <1>4, <1>5

LEMMA StartAdjacentAnswers ==
  ASSUME TableInv, Planned(in), AnswerInv, StartAdjacent
  PROVE  AnswerInv'
<1>1. /\ ops # <<>> /\ Op.kind = "adjacent_eq" /\ FirstDistinct
      /\ in' = in /\ ops' = ops /\ rows' = rows /\ used' = used
  BY DEF StartAdjacent, Start
<1>2. /\ in.ops \in Seq(Operation) /\ Past \in Nat /\ Past + 1 \in DOMAIN in.ops
      /\ Op = in.ops[Past + 1] /\ in \in Calls /\ rows \in [Index -> Row]
  <2>1. DataInv
    BY DEF TableInv
  <2>2. in \in Calls
    BY <2>1 DEF DataInv
  <2> QED
    BY <1>1, <2>1, <2>2, PastIs, DataFacts
<1>3. DOMAIN in.ops = 1 .. Len(in.ops) /\ Len(in.ops) \in Nat
  BY <1>2
<1> DEFINE i == Past + 1
           by == in.ops[i].by
           order == in.ops[Past].by
<1>4. /\ i > 1 /\ in.ops[i - 1].kind = "order_by"
      /\ SortedFor(in.ops[i - 1].by, IF i > 2 THEN <<SelKey>> \o by ELSE by)
  BY <1>1, <1>2 DEF Planned
<1>5. i - 1 = Past /\ Past \in DOMAIN in.ops
  BY <1>2, <1>3, <1>4
<1>6. Correct(in, rows, used, Past)
  BY <1>1 DEF AnswerInv
<1>7. \A r, s \in Index : Follows(order, rows, r, s)
  BY <1>2, <1>4, <1>5, <1>6 DEF Correct, InSequence
<1>8. Sortable(order) /\ by \in Seq(Key)
  BY <1>2, <1>4, <1>5, OperationFacts
<1>9. used <=> i > 2
  <2>1. CASE i > 2
    <3>1. 1 \in DOMAIN in.ops /\ 1 \in 1 .. Past /\ 1 < Past /\ 1 < i /\ 1 # Len(in.ops)
      BY <1>2, <1>3, <2>1
    <3>2. Follow(in.ops[1].kind, "order_by") /\ Follow(in.ops[1].kind, "adjacent_eq")
      BY <1>1, <1>2, <1>4, <1>5, <3>1 DEF Planned
    <3>3. in.ops[1].kind # "mask" /\ in.ops[1].kind \in Kinds
      BY <1>2, <3>1, OperationFacts DEF Planned
    <3>4. in.ops[1].kind \in Selections
      BY <3>2, <3>3 DEF Follow, Uniques, Selections, Kinds
    <3>5. Did(in, Past, Selections \cup Uniques)
      BY <3>1, <3>4 DEF Did
    <3> QED
      BY <2>1, <3>5 DEF AnswerInv
  <2>2. CASE ~ (i > 2)
    <3>1. Past = 1
      BY <1>2, <1>4, <2>2
    <3>2. in.ops[1].kind \notin Selections \cup Uniques
      BY <1>4, <1>5, <3>1 DEF Selections, Uniques
    <3>3. ~ Did(in, Past, Selections \cup Uniques)
      BY <3>1, <3>2 DEF Did
    <3> QED
      BY <2>2, <3>3 DEF AnswerInv
  <2> QED
    BY <2>1, <2>2
<1>10. SortKeys = IF i > 2 THEN <<SelKey>> \o by ELSE by
  BY <1>1, <1>2, <1>9 DEF SortKeys, SelKey
<1>11. SortKeys \in Seq(Key)
  <2>1. SelKey \in Key
    BY DEF SelKey, Key, Columns
  <2> HIDE DEF by, i
  <2> QED
    BY <1>8, <1>10, <2>1
<1>12. SortedFor(order, SortKeys)
  BY <1>4, <1>5, <1>10
<1> HIDE DEF order
<1> QED
  BY <1>1, <1>7, <1>8, <1>11, <1>12, FirstMarked

-----------------------------------------------------------------------------
(* DISTINCT: the first of the rows that agree is kept.                     *)

\* The bits that the last batch conjoins, of a table in the terms of its rows.
Uniting(f, c, bits) ==
  /\ in \in Calls /\ Planned(in) /\ in.ops \in Seq(Operation)
  /\ Past \in Nat /\ Past + 1 \in DOMAIN in.ops /\ Op = in.ops[Past + 1]
  /\ Op.kind \in Uniques /\ Op.by \in Seq(Key) /\ NoSel(Op.by)
  /\ N \in Nat /\ Index = 0 .. N - 1 /\ rows \in [Index -> Row] /\ DOMAIN rows = Index
  /\ used \in BOOLEAN /\ (used <=> Did(in, Past, Selections \cup Uniques))
  /\ ~ Did(in, Past, Uniques) /\ InSequence(in, rows, used, Past)
  /\ TableIs(in, rows, Past, f)
  /\ \A r \in Index : Stamped(in, rows, r, used, Past, f, c)
  /\ HalfMarked(rows, SortKeys, bits, N - 1)
  /\ \A r \in Index : bits[r] \in {0, 1}

LEMMA SortKeysSame ==
  ASSUME Op.kind \in Uniques, Op.by \in Seq(Key), NEW x, NEW y
  PROVE  SameOn(SortKeys, x, y) <=> SameOn(Op.by, x, y) /\ (used => x.sel = y.sel)
<1>1. Op.kind # "order_by"
  BY DEF Uniques
<1>2. CASE ~ used
  <2>1. SortKeys = Op.by
    BY <1>1, <1>2 DEF SortKeys
  <2> QED
    BY <1>2, <2>1
<1>3. CASE used
  <2> DEFINE sel == [col |-> "sel", asc |-> TRUE]
             by == Op.by
  <2>1. SortKeys = <<sel>> \o by
    BY <1>1, <1>3 DEF SortKeys
  <2>2. sel \in Key /\ sel.col = "sel"
    BY DEF Key, Columns
  <2> HIDE DEF sel
  <2>3. by \in Seq(Key) /\ Len(by) \in Nat /\ DOMAIN by = 1 .. Len(by)
    BY DEF Sortable
  <2> HIDE DEF by
  <2>4. /\ <<sel>> \o by \in Seq(Key) /\ Len(<<sel>> \o by) = 1 + Len(by)
        /\ (<<sel>> \o by)[1] = sel
        /\ \A i \in 1 .. Len(by) : (<<sel>> \o by)[i + 1] = by[i]
    BY <2>2, <2>3
  <2> DEFINE keys == <<sel>> \o by
  <2>5. DOMAIN keys = 1 .. 1 + Len(by)
    BY <2>4
  <2>6. keys[1] = sel /\ \A i \in DOMAIN by : keys[i + 1] = by[i] /\ i + 1 \in DOMAIN keys
    BY <2>3, <2>4, <2>5
  <2>7. \A i \in DOMAIN keys : i = 1 \/ (i - 1 \in DOMAIN by /\ keys[i] = by[i - 1])
    <3> TAKE i \in DOMAIN keys
    <3>1. i # 1 => i - 1 \in 1 .. Len(by) /\ (i - 1) + 1 = i
      BY <2>3, <2>5
    <3> QED
      BY <2>3, <2>6, <3>1
  <2>8. 1 \in DOMAIN keys
    BY <2>3, <2>5
  <2> HIDE DEF keys
  <2>9. SameOn(keys, x, y) <=> SameOn(by, x, y) /\ x.sel = y.sel
    <3>1. ASSUME SameOn(keys, x, y) PROVE SameOn(by, x, y) /\ x.sel = y.sel
      <4>1. x.sel = y.sel
        BY <2>2, <2>6, <2>8, <3>1 DEF SameOn
      <4>2. \A i \in DOMAIN by : x[by[i].col] = y[by[i].col]
        BY <2>6, <3>1 DEF SameOn
      <4> QED
        BY <4>1, <4>2 DEF SameOn
    <3>2. ASSUME SameOn(by, x, y), x.sel = y.sel PROVE SameOn(keys, x, y)
      <4>1. ASSUME NEW i \in DOMAIN keys PROVE x[keys[i].col] = y[keys[i].col]
        <5>1. CASE i = 1
          BY <2>2, <2>6, <3>2, <5>1
        <5>2. CASE i - 1 \in DOMAIN by /\ keys[i] = by[i - 1]
          BY <3>2, <5>2 DEF SameOn
        <5> QED
          BY <2>7, <5>1, <5>2
      <4> QED
        BY <4>1 DEF SameOn
    <3> QED
      BY <3>1, <3>2
  <2> QED
    BY <1>3, <2>1, <2>9 DEF keys, by
<1> QED
  BY <1>2, <1>3

\* Of the rows that may be selected and agree with row o, the first one is marked and
\* no other one.
LEMMA FirstOfGroup ==
  ASSUME NEW f, NEW c, NEW bits, Uniting(f, c, bits), NEW o \in Index, Live(rows, used, o)
  PROVE  \E r \in Index :
           /\ Live(rows, used, r) /\ bits[r] = 1 /\ SameOn(Op.by, rows[r], rows[o])
           /\ \A s \in Index :
                Live(rows, used, s) /\ bits[s] = 1 /\ SameOn(Op.by, rows[s], rows[r]) => s = r
<1> DEFINE G == {s \in Index : Live(rows, used, s) /\ SameOn(Op.by, rows[s], rows[o])}
<1>1. /\ N \in Nat /\ Index = 0 .. N - 1 /\ DOMAIN rows = Index
      /\ Op.kind \in Uniques /\ Op.by \in Seq(Key)
      /\ \A r \in Index : Stamped(in, rows, r, used, Past, f, c)
  BY DEF Uniting
<1>2. /\ \A r, s, q \in Index :
           r < s /\ s < q /\ SameOn(SortKeys, rows[r], rows[q])
             => SameOn(SortKeys, rows[r], rows[s])
      /\ bits[0] = 1
      /\ \A k \in Index : 1 <= k /\ k <= N - 1 =>
           (bits[k] = 1 <=> ~ SameOn(SortKeys, rows[k - 1], rows[k]))
  BY <1>1 DEF Uniting, HalfMarked
<1>3. \A x, y : SameOn(SortKeys, x, y) <=> SameOn(Op.by, x, y) /\ (used => x.sel = y.sel)
  BY <1>1, SortKeysSame
<1>4. \A keys, x, y, z : /\ SameOn(keys, x, y) => SameOn(keys, y, x)
                         /\ SameOn(keys, x, y) /\ SameOn(keys, y, z) => SameOn(keys, x, z)
                         /\ SameOn(keys, x, x)
  BY DEF SameOn
<1>5. G \subseteq Nat /\ o \in G
  BY <1>1, <1>4
<1>6. PICK r \in G : \A n \in G : r <= n
  BY <1>5, LeastElement
<1>7. r \in Index /\ Live(rows, used, r) /\ SameOn(Op.by, rows[r], rows[o])
  BY <1>6
<1>8. bits[r] = 1
  <2> SUFFICES ASSUME bits[r] # 1 PROVE FALSE
    OBVIOUS
  <2>1. r \in 1 .. N - 1 /\ r - 1 \in Index /\ ~ (r <= r - 1)
    BY <1>1, <1>2, <1>7
  <2>2. SameOn(SortKeys, rows[r - 1], rows[r])
    BY <1>1, <1>2, <1>7, <2>1
  <2>3. SameOn(Op.by, rows[r - 1], rows[r]) /\ (used => rows[r - 1].sel = rows[r].sel)
    BY <1>3, <2>2
  <2>4. Live(rows, used, r - 1)
    BY <1>7, <2>3 DEF Live, Selected
  <2>5. SameOn(Op.by, rows[r - 1], rows[o])
    BY <1>4, <1>7, <2>3
  <2>6. r - 1 \in G
    BY <2>1, <2>4, <2>5
  <2> QED
    BY <1>6, <2>1, <2>6
<1>9. ASSUME NEW s \in Index, Live(rows, used, s), bits[s] = 1,
             SameOn(Op.by, rows[s], rows[r])
      PROVE  s = r
  <2>1. s \in G
    BY <1>4, <1>7, <1>9
  <2>2. r <= s
    BY <1>6, <2>1
  <2> SUFFICES ASSUME r # s PROVE FALSE
    OBVIOUS
  <2>3. r < s /\ s \in 1 .. N - 1 /\ s - 1 \in Index /\ (r = s - 1 \/ r < s - 1) /\ s - 1 < s
    BY <1>1, <1>7, <2>2
  <2>4. used => rows[s].sel = c /\ rows[r].sel = c
    BY <1>1, <1>7, <1>9 DEF Live, Stamped
  <2>5. SameOn(SortKeys, rows[r], rows[s])
    BY <1>3, <1>4, <1>9, <2>4
  <2>6. SameOn(SortKeys, rows[r], rows[s - 1])
    BY <1>2, <1>4, <1>7, <2>3, <2>5
  <2>7. SameOn(SortKeys, rows[s - 1], rows[s])
    BY <1>4, <2>5, <2>6
  <2> QED
    BY <1>1, <1>2, <1>9, <2>3, <2>7
<1> QED
  BY <1>7, <1>8, <1>9

\* The last batch conjoins the bits.
United(bits) ==
  rows' = [r \in Index |-> [rows[r] EXCEPT !.sel = IF used THEN AndWord(rows[r].sel, bits[r])
                                                   ELSE bits[r]]]

LEMMA UnitedRow ==
  ASSUME NEW f, NEW c, NEW bits, Uniting(f, c, bits), United(bits), NEW r \in Index
  PROVE  /\ rows'[r] \in Row /\ Agrees(rows'[r], rows[r])
         /\ Selected(rows'[r]) <=> Live(rows, used, r) /\ bits[r] = 1
         /\ Selected(rows'[r]) => rows'[r].sel = IF used THEN AndWord(c, 1) ELSE 1
         /\ Live(rows, used, r) <=> Passes(in, Past, f[r])
<1>1. /\ rows[r] \in Row /\ bits[r] \in {0, 1} /\ Past \in Nat
      /\ used \in BOOLEAN /\ (used <=> Did(in, Past, Selections \cup Uniques))
      /\ Stamped(in, rows, r, used, Past, f, c)
  BY DEF Uniting
<1> DEFINE sel == IF used THEN AndWord(rows[r].sel, bits[r]) ELSE bits[r]
<1>2. rows'[r] = [rows[r] EXCEPT !.sel = sel]
  BY DEF United
<1>3. rows[r].sel \in Word /\ bits[r] \in Word /\ (bits[r] % 2 = 1 <=> bits[r] = 1)
  BY <1>1, Words DEF Row, Columns
<1>4. sel \in Word
  BY <1>3, AndWordType
<1>5. sel % 2 = 1 <=> (used => rows[r].sel % 2 = 1) /\ bits[r] = 1
  BY <1>1, <1>3, AndWordParity
<1>6. sel % 2 = 1 => sel = IF used THEN AndWord(c, 1) ELSE 1
  <2>1. CASE used
    <3>1. sel % 2 = 1 => rows[r].sel = c /\ bits[r] = 1
      BY <1>1, <1>5, <2>1 DEF Stamped, Selected
    <3> QED
      BY <2>1, <3>1
  <2>2. CASE ~ used
    BY <1>5, <2>2
  <2> QED
    BY <2>1, <2>2
<1> HIDE DEF sel
<1>7. rows'[r].sel = sel /\ Agrees(rows'[r], rows[r]) /\ rows'[r] \in Row
  <2>1. rows'[r] \in Row
    BY <1>1, <1>2, <1>4 DEF Row
  <2> QED
    BY <1>1, <1>2, <2>1, SelWritten
<1>8. Live(rows, used, r) <=> Passes(in, Past, f[r])
  <2> HIDE DEF Past
  <2> QED
    BY <1>1, LivePasses
<1> QED
  BY <1>5, <1>6, <1>7, <1>8 DEF Selected, Live

LEMMA NoSelSame ==
  ASSUME NEW by \in Seq(Key), NoSel(by), NEW y, NEW z, Agrees(y, z)
  PROVE  SameOn(by, y, z)
<1>1. ASSUME NEW i \in DOMAIN by PROVE by[i].col \in Columns \ {"sel"}
  <2>1. by[i] \in Key
    OBVIOUS
  <2> QED
    BY <2>1 DEF NoSel, Key
<1> QED
  BY <1>1 DEF SameOn, Agrees

LEMMA UnitedFaithful ==
  ASSUME NEW f, NEW c, NEW bits, Uniting(f, c, bits), United(bits)
  PROVE  Faithful(in, rows', TRUE, Past + 1)
<1> DEFINE n == Past + 1
           by == in.ops[n].by
           one == IF used THEN AndWord(c, 1) ELSE 1
<1>1. /\ Past \in Nat /\ n \in DOMAIN in.ops /\ in.ops[n].kind \in Uniques /\ n \in Nat
      /\ by \in Seq(Key) /\ NoSel(by) /\ Op.by = by
      /\ DOMAIN rows = Index /\ DOMAIN rows' = Index /\ rows \in [Index -> Row]
      /\ ~ Did(in, Past, Uniques) /\ TableIs(in, rows, Past, f)
  BY DEF Uniting, United
<1>2. \A r \in Index :
        /\ rows'[r] \in Row /\ Agrees(rows'[r], rows[r])
        /\ Selected(rows'[r]) <=> Live(rows, used, r) /\ bits[r] = 1
        /\ Selected(rows'[r]) => rows'[r].sel = one
        /\ Live(rows, used, r) <=> Passes(in, Past, f[r])
  BY UnitedRow
<1> HIDE DEF one
<1>3. Did(in, n, Uniques)
  BY <1>1, DidNext
<1>4. TableIs(in, rows', n, f)
  <2>1. in.ops[n].kind # "join"
    BY <1>1 DEF Uniques
  <2> QED
    BY <1>1, <1>2, <2>1, SameTable
<1>5. \A t : Passes(in, n, t) <=> Passes(in, Past, t)
  <2>1. \A t : Condition(in, n, t)
    BY <1>1 DEF Condition, Uniques
  <2> QED
    BY <1>1, <2>1, PassesNext
<1>6. \A i \in 1 .. n : in.ops[i].kind \in Uniques => i = n
  <2>1. \A i \in 1 .. n : i = n \/ i \in 1 .. Past
    BY <1>1
  <2> QED
    BY <1>1, <2>1 DEF Did
<1>7. \A keys, x, y, z : /\ SameOn(keys, x, y) => SameOn(keys, y, x)
                         /\ SameOn(keys, x, y) /\ SameOn(keys, y, z) => SameOn(keys, x, z)
  BY DEF SameOn
<1>8. ASSUME NEW r \in Index PROVE SameOn(by, rows'[r], rows[r])
  BY <1>1, <1>2, NoSelSame
<1>9. ASSUME NEW t \in TuplesAt(in, n), Passes(in, n, t)
      PROVE  \E r \in Index : /\ Selected(rows'[r])
                              /\ SameOn(by, rows'[r], RowAt(in, n, t))
                              /\ \A s \in Index :
                                   Selected(rows'[s]) /\ SameOn(by, rows'[s], rows'[r]) => s = r
  <2>1. PICK o \in Index : f[o] = t
    BY <1>1, <1>4 DEF TableIs, OneToOne
  <2>2. Live(rows, used, o)
    BY <1>2, <1>5, <1>9, <2>1
  <2>3. PICK r \in Index :
          /\ Live(rows, used, r) /\ bits[r] = 1 /\ SameOn(by, rows[r], rows[o])
          /\ \A s \in Index :
               Live(rows, used, s) /\ bits[s] = 1 /\ SameOn(by, rows[s], rows[r]) => s = r
    BY <1>1, <2>2, FirstOfGroup
  <2>4. Selected(rows'[r])
    BY <1>2, <2>3
  <2>5. SameOn(by, rows'[o], RowAt(in, n, t))
    <3>1. Agrees(rows'[o], RowAt(in, n, t))
      BY <1>1, <1>4, <2>1 DEF TableIs
    <3> QED
      BY <1>1, <3>1, NoSelSame
  <2>6. SameOn(by, rows'[r], RowAt(in, n, t))
    BY <1>7, <1>8, <2>3, <2>5
  <2>7. ASSUME NEW s \in Index, Selected(rows'[s]), SameOn(by, rows'[s], rows'[r]) PROVE s = r
    <3>1. Live(rows, used, s) /\ bits[s] = 1
      BY <1>2, <2>7
    <3>2. SameOn(by, rows[s], rows[r])
      BY <1>7, <1>8, <2>7
    <3> QED
      BY <2>3, <3>1, <3>2
  <2> QED
    BY <2>4, <2>6, <2>7
<1>10. \A r \in DOMAIN rows' : Selected(rows'[r]) => Passes(in, n, f[r])
  BY <1>1, <1>2, <1>5
<1>11. OnePerKey(in, rows', n, f)
  BY <1>1, <1>6, <1>9, <1>10 DEF OnePerKey
<1>12. \A r \in DOMAIN rows' : Selected(rows'[r]) => rows'[r].sel = one
  BY <1>1, <1>2
<1> HIDE DEF n
<1>13. Faithful(in, rows', TRUE, n)
  BY <1>3, <1>4, <1>11, <1>12 DEF Faithful
<1> QED
  BY <1>13 DEF n

LEMMA UnitedInSequence ==
  ASSUME NEW f, NEW c, NEW bits, Uniting(f, c, bits), United(bits)
  PROVE  InSequence(in, rows', TRUE, Past + 1)
<1> DEFINE n == Past + 1
           one == IF used THEN AndWord(c, 1) ELSE 1
<1>1. /\ in \in Calls /\ Planned(in) /\ in.ops \in Seq(Operation)
      /\ Past \in Nat /\ n \in DOMAIN in.ops /\ in.ops[n].kind \in Uniques /\ n \in Nat
      /\ DOMAIN rows = Index /\ DOMAIN rows' = Index /\ rows \in [Index -> Row]
      /\ (used <=> Did(in, Past, Selections \cup Uniques)) /\ InSequence(in, rows, used, Past)
      /\ \A r \in Index : Stamped(in, rows, r, used, Past, f, c)
  BY DEF Uniting, United
<1>2. \A r \in Index :
        /\ rows'[r] \in Row /\ Agrees(rows'[r], rows[r])
        /\ Selected(rows'[r]) => Live(rows, used, r) /\ rows'[r].sel = one
  BY UnitedRow
<1> HIDE DEF one
<1>3. in.ops[n].kind # "order_by"
  BY <1>1 DEF Uniques
<1>4. ASSUME NEW i \in 1 .. n, in.ops[i].kind = "order_by", NEW r \in Index, NEW s \in Index,
             Selected(rows'[r]), Selected(rows'[s]), r < s
      PROVE  ~ Before(in.ops[i].by, rows'[s], rows'[r])
  <2> DEFINE by == in.ops[i].by
  <2>1. i \in 1 .. Past /\ i \in DOMAIN in.ops
    <3>1. i # n
      BY <1>3, <1>4
    <3> QED
      BY <1>1, <3>1
  <2>2. Sortable(by)
    BY <1>1, <1>4, <2>1, OperationFacts
  <2>3. Live(rows, used, r) /\ Live(rows, used, s)
    BY <1>2, <1>4
  <2>4. ~ Before(by, rows[s], rows[r])
    BY <1>1, <1>4, <2>1, <2>3 DEF InSequence, Follows
  <2>5. used \/ NoSel(by)
    <3> SUFFICES ASSUME ~ used PROVE NoSel(by)
      OBVIOUS
    <3>1. 1 \in 1 .. Past /\ 1 \in DOMAIN in.ops /\ 1 # Len(in.ops) /\ 1 < n
      BY <1>1, <2>1
    <3>2. in.ops[1].kind \notin Selections \cup Uniques
      BY <1>1, <3>1 DEF Did
    <3>3. in.ops[1].kind \in Kinds /\ in.ops[1].kind # "mask"
      BY <1>1, <3>1, OperationFacts DEF Planned
    <3>4. in.ops[1].kind = "order_by"
      BY <3>2, <3>3 DEF Kinds, Selections, Uniques
    <3>5. ~ (1 < i)
      <4> SUFFICES ASSUME 1 < i PROVE FALSE
        OBVIOUS
      <4>1. Follow(in.ops[1].kind, in.ops[i].kind)
        BY <1>1, <2>1, <3>1 DEF Planned
      <4> QED
        BY <1>4, <3>4, <4>1 DEF Follow
    <3>6. i = 1
      BY <2>1, <3>5
    <3> QED
      BY <1>1, <3>4, <3>6 DEF Planned
  <2>6. Alike(by, rows'[s], rows'[r], rows[s], rows[r])
    <3> SUFFICES ASSUME NEW k \in DOMAIN by
                 PROVE  LET col == by[k].col
                        IN  \/ rows'[s][col] = rows[s][col] /\ rows'[r][col] = rows[r][col]
                            \/ rows'[s][col] = rows'[r][col] /\ rows[s][col] = rows[r][col]
      BY DEF Alike
    <3> DEFINE col == by[k].col
    <3>1. col \in Columns
      <4>1. by[k] \in Key
        BY <2>2 DEF Sortable
      <4> QED
        BY <4>1 DEF Key
    <3>2. CASE col # "sel"
      <4>1. rows'[s][col] = rows[s][col] /\ rows'[r][col] = rows[r][col]
        BY <1>2, <3>1, <3>2 DEF Agrees
      <4> QED
        BY <4>1
    <3>3. CASE col = "sel"
      <4>1. used
        BY <2>5, <3>3 DEF NoSel
      <4>2. rows[s].sel = c /\ rows[r].sel = c
        BY <1>1, <2>3, <4>1 DEF Live, Stamped
      <4>3. rows'[s].sel = rows'[r].sel
        BY <1>2, <1>4
      <4> QED
        BY <3>3, <4>2, <4>3
    <3> QED
      BY <3>2, <3>3
  <2>7. rows[r] \in Row /\ rows[s] \in Row /\ rows'[r] \in Row /\ rows'[s] \in Row
    BY <1>1, <1>2
  <2> HIDE DEF by
  <2>8. Before(by, rows'[s], rows'[r]) <=> Before(by, rows[s], rows[r])
    BY <2>2, <2>6, <2>7, BeforeAlike
  <2>9. ~ Before(by, rows'[s], rows'[r])
    BY <2>4, <2>8
  <2> QED
    BY <2>9 DEF by
<1> HIDE DEF n
<1>5. InSequence(in, rows', TRUE, n)
  BY <1>1, <1>3, <1>4 DEF InSequence, Live, Follows
<1> QED
  BY <1>5 DEF n

LEMMA UnitingBegins ==
  ASSUME TableInv, Planned(in), AnswerInv, pc = "adjacent", NEW bits,
         HalfMarked(rows, SortKeys, bits, N - 1), \A r \in Index : bits[r] \in {0, 1}
  PROVE  \E f, c : Uniting(f, c, bits)
<1>1. DataInv /\ in \in Calls /\ used \in BOOLEAN
  BY DEF TableInv, DataInv
<1>2. ops # <<>> /\ Op.kind \in Uniques
  BY DEF TableInv, PlaceInv, Uniques
<1>3. /\ in.ops \in Seq(Operation) /\ Past \in 0 .. Len(in.ops)
      /\ Past + 1 \in DOMAIN in.ops /\ Op = in.ops[Past + 1]
  BY <1>1, <1>2, PastIs
<1>4. Past \in Nat
  <2>1. Len(in.ops) \in Nat
    BY <1>3
  <2> QED
    BY <1>3, <2>1
<1>5. Op.by \in Seq(Key)
  BY <1>1, <1>3, OperationFacts
<1>6. NoSel(Op.by)
  BY <1>2, <1>3 DEF Planned
<1>7. /\ N \in Nat /\ Index = 0 .. N - 1 /\ rows \in [Index -> Row] /\ DOMAIN rows = Index
  BY <1>1, DataFacts DEF Index
<1>8. ~ Did(in, Past, Uniques)
  <2> SUFFICES ASSUME NEW i \in 1 .. Past, in.ops[i].kind \in Uniques PROVE FALSE
    BY DEF Did
  <2>1. i \in DOMAIN in.ops /\ i < Past + 1
    BY <1>3, <1>4
  <2>2. Follow(in.ops[i].kind, in.ops[Past + 1].kind)
    BY <1>3, <2>1 DEF Planned
  <2> QED
    BY <1>2, <1>3, <2>2 DEF Follow
<1>9. Correct(in, rows, used, Past) /\ (used <=> Did(in, Past, Selections \cup Uniques))
  BY <1>2 DEF AnswerInv, Uniques
<1>10. PICK f, c : /\ TableIs(in, rows, Past, f)
                   /\ \A r \in DOMAIN rows : Stamped(in, rows, r, used, Past, f, c)
  BY <1>8, <1>9 DEF Correct, Faithful
<1>11. InSequence(in, rows, used, Past)
  BY <1>9 DEF Correct
<1> HIDE DEF Past
<1>12. Uniting(f, c, bits)
  BY <1>1, <1>2, <1>3, <1>4, <1>5, <1>6, <1>7, <1>8, <1>9, <1>10, <1>11 DEF Uniting
<1> QED
  BY <1>12

\* The bits of a batch go on where the last one stopped.
LEMMA MarksExtend ==
  ASSUME DOMAIN rows = Index, 0 \in Index, NEW m \in Nat, NEW e \in Nat, NEW bits,
         HalfMarked(rows, SortKeys, work, m),
         bits = [k \in Index |-> IF k \in m + 1 .. e THEN NewGroup(k) ELSE work[k]]
  PROVE  HalfMarked(rows, SortKeys, bits, e)
<1>1. ASSUME NEW k \in Index, 1 <= k, k <= e
      PROVE  bits[k] = 1 <=> ~ SameOn(SortKeys, rows[k - 1], rows[k])
  <2>1. k \in Nat
    BY DEF Index
  <2>2. CASE k <= m
    <3>1. k \notin m + 1 .. e
      BY <2>1, <2>2
    <3>2. bits[k] = work[k]
      BY <3>1
    <3> QED
      BY <1>1, <2>2, <3>2 DEF HalfMarked
  <2>3. CASE ~ (k <= m)
    <3>1. k \in m + 1 .. e
      BY <1>1, <2>1, <2>3
    <3>2. bits[k] = NewGroup(k)
      BY <3>1
    <3>3. SameOn(SortKeys, rows[k - 1], rows[k])
            <=> \A i \in DOMAIN SortKeys : Equal(SortKeys[i], rows[k - 1], rows[k])
      BY DEF SameOn, Equal
    <3> QED
      BY <3>2, <3>3 DEF NewGroup, Bit
  <2> QED
    BY <2>2, <2>3
<1>2. bits[0] = 1
  <2>1. 0 \notin m + 1 .. e
    OBVIOUS
  <2>2. bits[0] = work[0]
    BY <2>1
  <2> QED
    BY <2>2 DEF HalfMarked
<1> QED
  BY <1>1, <1>2 DEF HalfMarked

LEMMA DistinctAnswers ==
  ASSUME TableInv, Planned(in), AnswerInv, DistinctBatch
  PROVE  AnswerInv'
<1> DEFINE next == at + BatchSize - 1
           end == IF next <= N - 1 THEN next ELSE N - 1
           bits == [k \in Index |-> IF k \in at + 1 .. end THEN NewGroup(k) ELSE work[k]]
<1>1. pc = "adjacent"
  BY DEF DistinctBatch
<1>2. DataInv /\ PlaceInv
  BY DEF TableInv
<1>3. /\ in \in Calls /\ at \in Nat /\ ops # <<>> /\ Op.kind \in {"distinct", "adjacent_eq"}
      /\ DOMAIN work = Index /\ \A k \in DOMAIN work : work[k] \in {0, 1}
  BY <1>1, <1>2 DEF DataInv, PlaceInv
<1>4. /\ rows \in [Index -> Row] /\ DOMAIN rows = Index /\ N \in Nat /\ N >= 1
      /\ Index = 0 .. N - 1
  BY <1>2, DataFacts DEF Index
<1>5. BatchSize \in Nat /\ BatchSize >= 1
  <2>1. CASE Sorting
    <3>1. \E e \in Nat : BatchSize = 2^e
      BY <1>2, <2>1, DataFacts, SortingFacts
    <3> QED
      BY <3>1, PowPositive
  <2>2. CASE ~ Sorting
    <3>1. \E e \in Nat : in.batch = 2^e
      BY <1>3, CallFacts
    <3>2. BatchSize = in.batch
      BY <2>2 DEF BatchSize
    <3> QED
      BY <3>1, <3>2, PowPositive
  <2> QED
    BY <2>1, <2>2
<1>6. next \in Nat /\ end \in Nat /\ end <= N - 1
  BY <1>3, <1>4, <1>5
<1>7. /\ IF next < N - 1
         THEN /\ at' = next /\ work' = bits
              /\ ops' = ops /\ rows' = rows /\ used' = used /\ pc' = pc
         ELSE United(bits) /\ used' = TRUE /\ Finish
      /\ in' = in
  BY DEF DistinctBatch, SelectRows, Conjoined, United
<1>8. HalfMarked(rows, SortKeys, work, at)
  BY <1>1 DEF AnswerInv
<1>9. HalfMarked(rows, SortKeys, bits, end)
  <2>1. 0 \in Index
    BY <1>4
  <2>2. bits = [k \in Index |-> IF k \in at + 1 .. end THEN NewGroup(k) ELSE work[k]]
    OBVIOUS
  <2> HIDE DEF end, bits
  <2> QED
    BY <1>3, <1>4, <1>6, <1>8, <2>1, <2>2, MarksExtend
<1>10. \A r \in Index : bits[r] \in {0, 1}
  BY <1>3, Words DEF NewGroup
<1>11. (next < N - 1 => end = next) /\ (~ (next < N - 1) => end = N - 1)
  BY <1>4, <1>6
<1> HIDE DEF next, end, bits
<1>12. CASE next < N - 1
  <2>1. SortKeys' = SortKeys
    BY <1>7, <1>12 DEF SortKeys, Op
  <2>2. HalfMarked(rows', SortKeys', work', at')
    BY <1>7, <1>9, <1>11, <1>12, <2>1
  <2> QED
    BY <1>3, <1>7, <1>12, <2>2, SameAnswers
<1>13. CASE ~ (next < N - 1)
  <2>1. HalfMarked(rows, SortKeys, bits, N - 1)
    BY <1>9, <1>11, <1>13
  <2>2. PICK f, c : Uniting(f, c, bits)
    BY <1>1, <1>10, <2>1, UnitingBegins
  <2>3. United(bits) /\ used' = TRUE /\ Finish /\ in' = in
    BY <1>7, <1>13
  <2>4. Correct(in, rows', TRUE, Past + 1)
    BY <2>2, <2>3, UnitedFaithful, UnitedInSequence DEF Correct
  <2>5. rows' \in [0 .. N - 1 -> Row]
    <3>1. \A r \in Index : rows'[r] \in Row
      BY <2>2, <2>3, UnitedRow
    <3>2. DOMAIN rows' = Index
      BY <2>3 DEF United
    <3>3. rows' = [r \in Index |-> rows'[r]]
      BY <2>3, <3>2 DEF United
    <3> QED
      BY <1>4, <3>1, <3>3
  <2>6. used' <=> Did(in, Past + 1, Selections \cup Uniques)
    <3>1. Past \in Nat /\ Op = in.ops[Past + 1] /\ Op.kind \in Uniques
      BY <2>2 DEF Uniting
    <3> QED
      BY <2>3, <3>1, DidNext
  <2>7. Op.kind # "mask"
    BY <1>3
  <2> QED
    BY <1>3, <1>4, <2>3, <2>4, <2>5, <2>6, <2>7, OperatorDone
<1> QED
  BY <1>12, <1>13

-----------------------------------------------------------------------------
(* The mask, and every step.                                               *)

\* A batch of the mask, from row m up to row e.
MaskedOn(S, T, E, m, e) ==
  /\ S \subseteq Nat /\ DOMAIN T = S /\ m \in Nat /\ e \in Nat
  /\ \A r \in S : r < m => r < e
  /\ E = [r \in S |-> IF r \in m .. e - 1 /\ ~ Selected(T[r]) THEN Masked ELSE T[r]]

LEMMA MaskedBatch ==
  ASSUME NEW S, NEW T, NEW E, NEW m, NEW e, MaskedOn(S, T, E, m, e),
         NEW x, NEW written, NEW n, HalfMasked(x, T, written, n, m)
  PROVE  HalfMasked(x, E, written, n, e)
<1> USE DEF MaskedOn
<1>1. PICK R : /\ R \in [S -> Row] /\ Correct(x, R, written, n)
               /\ \A r \in S : T[r] = IF r < m /\ ~ Selected(R[r]) THEN Masked ELSE R[r]
  BY DEF HalfMasked
<1>2. ASSUME NEW r \in S PROVE E[r] = IF r < e /\ ~ Selected(R[r]) THEN Masked ELSE R[r]
  <2>1. r \in Nat
    OBVIOUS
  <2>2. E[r] = IF r \in m .. e - 1 /\ ~ Selected(T[r]) THEN Masked ELSE T[r]
    OBVIOUS
  <2>3. CASE r < m
    <3>1. r \notin m .. e - 1 /\ r < e
      BY <2>1, <2>3
    <3> QED
      BY <1>1, <2>2, <2>3, <3>1
  <2>4. CASE ~ (r < m)
    <3>1. r \in m .. e - 1 <=> r < e
      BY <2>1, <2>4
    <3>2. T[r] = R[r]
      BY <1>1, <2>4
    <3> QED
      BY <2>2, <3>1, <3>2
  <2> QED
    BY <2>3, <2>4
<1>3. DOMAIN E = S
  OBVIOUS
<1> QED
  BY <1>1, <1>2, <1>3 DEF HalfMasked

LEMMA MaskAnswers ==
  ASSUME TableInv, Planned(in), AnswerInv, MaskBatch
  PROVE  AnswerInv'
<1> DEFINE size == IF in.batch > N THEN N ELSE in.batch
           end == IF at + size <= N THEN at + size ELSE N
<1>1. /\ rows \in [Index -> Row] /\ DOMAIN rows = Index /\ N \in Nat /\ Index = 0 .. N - 1
      /\ at \in Nat /\ size \in Nat
  <2>1. \E e \in Nat : in.batch = 2^e
    BY CallFacts DEF TableInv, DataInv
  <2>2. in.batch \in Nat
    BY <2>1, PowPositive
  <2> QED
    BY <2>2, DataFacts DEF TableInv, PlaceInv, Index
<1>2. /\ rows' = [i \in Index |-> IF i \in at .. end - 1 /\ ~Selected(rows[i])
                                   THEN Masked ELSE rows[i]]
      /\ IF end < N
         THEN at' = end /\ UNCHANGED <<ops, pc, phase, column, turn, work>>
         ELSE Finish
      /\ in' = in /\ used' = used
      /\ pc = "start" /\ ops # <<>> /\ Op.kind = "mask"
  BY DEF MaskBatch, Start
<1>3. end \in Nat /\ end <= N /\ \A r \in Index : r < at => r < end
  BY <1>1
<1> HIDE DEF size, end
<1>4. /\ DataInv /\ in.ops \in Seq(Operation) /\ Past \in 0 .. Len(in.ops) /\ Len(in.ops) \in Nat
      /\ Past + 1 \in DOMAIN in.ops /\ Op = in.ops[Past + 1]
  BY <1>2, PastIs DEF TableInv
<1>5. Past + 1 = Len(in.ops) /\ Past \in Nat
  BY <1>2, <1>4 DEF Planned
<1>6. HalfMasked(in, rows, used, Past, at) /\ (used <=> Did(in, Past, Selections \cup Uniques))
  BY <1>2 DEF AnswerInv
<1>7. HalfMasked(in, rows', used, Past, end)
  <2>1. MaskedOn(Index, rows, rows', at, end)
    BY <1>1, <1>2, <1>3 DEF MaskedOn
  <2> HIDE DEF Past
  <2> QED
    BY <1>6, <2>1, MaskedBatch
<1>8. CASE end < N
  <2>1. Past' = Past /\ Op' = Op /\ ops' # <<>> /\ pc' = "start" /\ at' = end
    BY <1>2, <1>8 DEF Past, Op
  <2>2. HalfMasked(in, rows, used, Past, at)'
    BY <1>2, <1>7, <2>1
  <2>3. (used <=> Did(in, Past, Selections \cup Uniques))'
    BY <1>2, <1>6, <2>1
  <2> QED
    BY <1>2, <2>1, <2>2, <2>3 DEF AnswerInv
<1>9. CASE ~ (end < N)
  <2>1. end = N /\ ops' = Tail(ops) /\ pc' = "start"
    BY <1>1, <1>2, <1>3, <1>9 DEF Finish
  <2>2. Past' = Past + 1 /\ ops' = <<>>
    BY <1>2, <1>4, <1>5, <2>1, PastNext
  <2>3. used
    <3>1. PICK i \in DOMAIN in.ops : in.ops[i].kind \in Selections \cup Uniques
      BY DEF Planned
    <3>2. i # Past + 1
      BY <1>2, <1>4, <3>1 DEF Selections, Uniques
    <3>3. i \in 1 .. Past
      BY <1>4, <1>5, <3>2
    <3> QED
      BY <1>6, <3>1, <3>3 DEF Did
  <2>4. used \in BOOLEAN
    BY <1>4 DEF DataInv
  <2>5. DOMAIN rows' = Index
    BY <1>2
  <2>6. N' = N
    BY <1>1, <2>5 DEF N, Size
  <2>7. Past' - 1 = Past
    BY <1>5, <2>2
  <2>8. HalfMasked(in, rows', TRUE, Past, N)
    BY <1>7, <2>1, <2>3, <2>4
  <2>9. HalfMasked(in, rows, TRUE, Past - 1, N)'
    BY <1>2, <2>6, <2>7, <2>8
  <2>10. (used <=> Did(in, Past, Selections \cup Uniques))'
    <3>1. Did(in, Past + 1, Selections \cup Uniques)
      BY <1>5, <1>6, <2>3, DidNext
    <3> QED
      BY <1>2, <2>2, <2>3, <3>1
  <2> QED
    BY <2>1, <2>2, <2>9, <2>10 DEF AnswerInv
<1> QED
  BY <1>8, <1>9

LEMMA InitAnswers ==
  ASSUME Init, Planned(in)
  PROVE  AnswerInv
<1>1. TableInv
  BY InitEstablishes
<1>2. /\ DataInv /\ in \in Calls /\ rows = in.left /\ ops = in.ops /\ used = FALSE /\ at = 0
      /\ pc = "start"
  BY <1>1 DEF TableInv, DataInv, Init
<1>3. /\ rows \in [Index -> Row] /\ N \in Nat /\ Index = 0 .. N - 1 /\ Index \subseteq Nat
      /\ DOMAIN rows = Index
  BY <1>2, DataFacts DEF Index
<1>4. Past = 0
  <2>1. Len(in.ops) \in Nat
    BY <1>2, PastIs
  <2> QED
    BY <1>2, <2>1 DEF Past
<1>5. \A kinds : ~ Did(in, 0, kinds)
  BY DEF Did
<1> DEFINE f == [r \in Index |-> <<r, 0>>]
<1>6. TuplesAt(in, 0) = Index \X {0} /\ \A t : RowAt(in, 0, t) = rows[t[1]]
  BY <1>2, <1>3, <1>5 DEF TuplesAt, RowAt
<1>7. OneToOne(f, Index, Index \X {0})
  <2>1. \A t \in Index \X {0} : \E a \in Index : f[a] = t
    OBVIOUS
  <2> QED
    BY <2>1 DEF OneToOne
<1>8. TableIs(in, rows, 0, f)
  <2>1. \A r \in Index : RowAt(in, 0, f[r]) = rows[r]
    BY <1>6
  <2> HIDE DEF f
  <2> QED
    BY <1>3, <1>6, <1>7, <2>1 DEF TableIs, Agrees
<1>9. Faithful(in, rows, used, 0)
  <2>1. \A r \in DOMAIN rows : Stamped(in, rows, r, used, 0, f, 0)
    BY <1>2 DEF Stamped
  <2> HIDE DEF f
  <2> QED
    BY <1>5, <1>8, <2>1 DEF Faithful
<1>10. Correct(in, rows, used, 0)
  <2>1. 0 \notin DOMAIN in.ops
    BY <1>2, PastIs
  <2>2. InSequence(in, rows, used, 0)
    BY <2>1 DEF InSequence
  <2> QED
    BY <1>9, <2>2 DEF Correct
<1>11. HalfMasked(in, rows, used, 0, 0)
  BY <1>3, <1>10, NothingMasked
<1>12. HalfJoined(in, rows, used, 0, 0)
  BY <1>3, <1>5, <1>9, NothingJoined
<1>13. ops # <<>>
  BY <1>2 DEF Planned
<1> QED
  BY <1>2, <1>4, <1>5, <1>10, <1>11, <1>12, <1>13 DEF AnswerInv

LEMMA NextAnswers == TableInv /\ Planned(in) /\ AnswerInv /\ [Next]_vars => AnswerInv'
<1> SUFFICES ASSUME TableInv, Planned(in), AnswerInv, [Next]_vars PROVE AnswerInv'
  OBVIOUS
<1>1. CASE FilterConst
  BY <1>1, FilterConstAnswers
<1>2. CASE Filter
  BY <1>2, FilterAnswers
<1>3. CASE Join
  BY <1>3, JoinAnswers
<1>4. CASE SemiJoinEq \/ SemiJoinLevel
  BY <1>4, SemiJoinStepAnswers
<1>5. CASE SemiJoinResult
  BY <1>5, SemiJoinResultAnswers
<1>6. CASE StartSort
  BY <1>6, StartSortAnswers
<1>7. CASE SortBatch
  BY <1>7, SortBatchAnswers
<1>8. CASE EndSort
  BY <1>8, EndSortAnswers
<1>9. CASE StartAdjacent
  BY <1>9, StartAdjacentAnswers
<1>10. CASE DistinctBatch
  BY <1>10, DistinctAnswers
<1>11. CASE MaskBatch
  BY <1>11, MaskAnswers
<1>12. CASE UNCHANGED vars
  <2>1. /\ in' = in /\ ops' = ops /\ rows' = rows /\ used' = used /\ at' = at
        /\ pc' = pc /\ work' = work
    BY <1>12 DEF vars
  <2>2. SortKeys' = SortKeys
    BY <2>1 DEF SortKeys, Op
  <2>3. pc' = "adjacent" => HalfMarked(rows', SortKeys', work', at')
    BY <2>1, <2>2 DEF AnswerInv
  <2> QED
    BY <2>1, <2>3, SameAnswers
<1> QED
  BY <1>1, <1>2, <1>3, <1>4, <1>5, <1>6, <1>7, <1>8, <1>9, <1>10, <1>11, <1>12 DEF Next, Done

-----------------------------------------------------------------------------
(* The table of a plan that is done.                                       *)

\* All n operators before the mask are done; row r of R, which the mask has not gone
\* over, stands for the tuple f[r].
Answered(n, R, f) ==
  /\ in \in Calls /\ Planned(in) /\ in.ops \in Seq(Operation)
  /\ n \in Nat /\ n + 1 \in DOMAIN in.ops /\ n + 1 = Len(in.ops) /\ in.ops[n + 1].kind = "mask"
  /\ DOMAIN rows = Index /\ N \in Nat /\ Index = 0 .. N - 1
  /\ R \in [Index -> Row] /\ InSequence(in, R, TRUE, n) /\ TableIs(in, R, n, f)
  /\ \A r \in Index : rows[r] = IF Selected(R[r]) THEN R[r] ELSE Masked

\* What the query asks of a tuple are the conditions of the operators.
LEMMA QueryIs ==
  ASSUME NEW n, NEW R, NEW f, Answered(n, R, f)
  PROVE  /\ Tuples = TuplesAt(in, n)
         /\ \A t \in Tuples : /\ TupleRow(t) = RowAt(in, n, t) /\ TupleRow(t) \in Row
                              /\ Qualifies(t) <=> Passes(in, n, t)
<1>1. /\ in.ops \in Seq(Operation) /\ n \in Nat /\ n + 1 = Len(in.ops)
      /\ in.ops[n + 1].kind = "mask" /\ in \in Calls
  BY DEF Answered
<1>2. DOMAIN in.ops = 1 .. n + 1 /\ \A i : i \in 1 .. n + 1 <=> i \in 1 .. n \/ i = n + 1
  BY <1>1
<1>3. Has(in, "join") <=> Did(in, n, {"join"})
  BY <1>1, <1>2 DEF Has, Did
<1>4. Tuples = TuplesAt(in, n)
  BY <1>3 DEF Tuples, TuplesAt
<1>5. in.left \in [0 .. Size(in.left) - 1 -> Row] /\ in.right \in [0 .. NR - 1 -> Row]
  BY <1>1, CallFacts
<1>6. ASSUME NEW t \in Tuples
      PROVE  /\ TupleRow(t) = RowAt(in, n, t) /\ TupleRow(t) \in Row
             /\ Qualifies(t) <=> Passes(in, n, t)
  <2> DEFINE a == in.left[t[1]]
             row == TupleRow(t)
  <2>1. TupleRow(t) = RowAt(in, n, t)
    BY <1>3 DEF TupleRow, RowAt
  <2>2. t[1] \in DOMAIN in.left /\ (Has(in, "join") => t[2] \in DOMAIN in.right)
    BY DEF Tuples
  <2>3. a \in Row /\ (Has(in, "join") => in.right[t[2]].key \in Word)
    BY <1>5, <2>2 DEF Row, Columns
  <2>4. row \in Row /\ row.key = a.key /\ row.val = a.val
    BY <2>3 DEF TupleRow, Row, Columns
  <2> HIDE DEF a, row
  <2>5. ASSUME NEW b PROVE b \in Partners(row) <=> b \in DOMAIN in.right /\ PartnerRow(in, a, b)
    BY <2>4 DEF Partners, PartnerRow
  <2>6. ASSUME NEW i \in DOMAIN in.ops
        PROVE  (CASE in.ops[i].kind = "filter_const" -> row.val = in.ops[i].const
                  [] in.ops[i].kind = "filter" -> row.val = row.key
                  [] in.ops[i].kind = "semi_join" -> Partners(row) # {}
                  [] in.ops[i].kind = "join" -> t[2] \in Partners(row)
                  [] OTHER -> TRUE)
               <=> Condition(in, i, t)
    <3>1. Partners(row) # {} <=> \E b \in DOMAIN in.right : PartnerRow(in, a, b)
      BY <2>5
    <3> QED
      BY <2>4, <2>5, <3>1 DEF Condition, a
  <2>7. Qualifies(t) <=> \A i \in DOMAIN in.ops : Condition(in, i, t)
    BY <2>6 DEF Qualifies, row
  <2>8. Condition(in, n + 1, t)
    BY <1>1 DEF Condition
  <2>9. Qualifies(t) <=> Passes(in, n, t)
    BY <1>2, <2>7, <2>8 DEF Passes
  <2> QED
    BY <2>1, <2>4, <2>9 DEF row
<1> QED
  BY <1>4, <1>6

LEMMA DataAgrees ==
  ASSUME NEW y \in Row, NEW z \in Row
  PROVE  Data(y) = Data(z) <=> Agrees(y, z)
<1>1. y \in [Columns -> Word] /\ z \in [Columns -> Word]
  BY DEF Row
<1>2. /\ DOMAIN Data(y) = Columns /\ DOMAIN Data(z) = Columns
      /\ \A col \in Columns : /\ Data(y)[col] = IF col = "sel" THEN 0 ELSE y[col]
                              /\ Data(z)[col] = IF col = "sel" THEN 0 ELSE z[col]
  BY <1>1 DEF Data
<1>3. ASSUME Agrees(y, z) PROVE Data(y) = Data(z)
  <2>1. \A col \in Columns : Data(y)[col] = Data(z)[col]
    BY <1>2, <1>3 DEF Agrees
  <2>2. Data(y) \in [Columns -> Word \cup {0}] /\ Data(z) \in [Columns -> Word \cup {0}]
    BY <1>1 DEF Data
  <2> QED
    BY <2>1, <2>2
<1>4. ASSUME Data(y) = Data(z) PROVE Agrees(y, z)
  BY <1>2, <1>4 DEF Agrees
<1> QED
  BY <1>3, <1>4

\* The rows that are not masked are those that are selected: no key of the data is the
\* word that the mask writes.
LEMMA ShownIs ==
  ASSUME NEW n, NEW R, NEW f, Answered(n, R, f), NEW r \in Index
  PROVE  /\ rows[r] # Masked <=> Selected(R[r])
         /\ rows[r] # Masked => rows[r] = R[r]
         /\ f[r] \in Tuples /\ R[r] \in Row /\ Agrees(R[r], TupleRow(f[r]))
         /\ TupleRow(f[r]) \in Row
<1>1. /\ in \in Calls /\ Planned(in) /\ R \in [Index -> Row] /\ TableIs(in, R, n, f)
      /\ \A i \in Index : rows[i] = IF Selected(R[i]) THEN R[i] ELSE Masked
  BY DEF Answered
<1>2. in.left \in [0 .. Size(in.left) - 1 -> Row] /\ r \in DOMAIN R
  BY <1>1, CallFacts
<1>3. HasLeft(in, n, f[r], R[r])
  BY <1>1, <1>2, TableRow
<1>4. R[r].key # MaxWord
  BY <1>1, <1>3 DEF HasLeft, Planned, DataFits
<1>5. Masked.key = MaxWord
  BY DEF Masked, Columns
<1>6. rows[r] # Masked <=> Selected(R[r])
  BY <1>1, <1>4, <1>5
<1>7. f[r] \in Tuples /\ TupleRow(f[r]) = RowAt(in, n, f[r]) /\ TupleRow(f[r]) \in Row
  BY <1>3, QueryIs DEF HasLeft
<1>8. Agrees(R[r], TupleRow(f[r]))
  BY <1>1, <1>2, <1>7 DEF TableIs
<1> QED
  BY <1>1, <1>6, <1>7, <1>8

\* What [SEL] says of the rows when the plan is done.
Chosen(n, R, f) ==
  IF Did(in, n, Uniques) THEN OnePerKey(in, R, n, f)
  ELSE \A r \in Index : Selected(R[r]) <=> Passes(in, n, f[r])

LEMMA PlanDone ==
  ASSUME TableInv, Planned(in), AnswerInv, ops = <<>>
  PROVE  \E n, R, f : Answered(n, R, f) /\ Chosen(n, R, f)
<1>1. DataInv /\ in \in Calls
  BY DEF TableInv, DataInv
<1>2. in.ops \in Seq(Operation) /\ Past = Len(in.ops) /\ Len(in.ops) \in Nat
  BY <1>1, PastIs
<1>3. DOMAIN in.ops = 1 .. Len(in.ops) /\ Len(in.ops) >= 1
  BY <1>2 DEF Planned
<1>4. rows \in [Index -> Row] /\ DOMAIN rows = Index /\ N \in Nat /\ Index = 0 .. N - 1
  BY <1>1, DataFacts DEF Index
<1> DEFINE n == Past - 1
<1>5. n \in Nat /\ n + 1 \in DOMAIN in.ops /\ n + 1 = Len(in.ops) /\ in.ops[n + 1].kind = "mask"
  BY <1>2, <1>3 DEF Planned
<1>6. HalfMasked(in, rows, TRUE, n, N)
  BY DEF AnswerInv
<1> HIDE DEF n
<1>7. PICK R : /\ R \in [Index -> Row] /\ Correct(in, R, TRUE, n)
               /\ \A r \in Index : rows[r] = IF r < N /\ ~ Selected(R[r]) THEN Masked ELSE R[r]
  BY <1>4, <1>6 DEF HalfMasked
<1>8. DOMAIN R = Index
  BY <1>7
<1>9. \A r \in Index : rows[r] = IF Selected(R[r]) THEN R[r] ELSE Masked
  <2>1. \A r \in Index : r < N
    BY <1>4
  <2> QED
    BY <1>7, <2>1
<1>10. PICK f, c :
         /\ TableIs(in, R, n, f)
         /\ IF Did(in, n, Uniques) THEN OnePerKey(in, R, n, f)
            ELSE \A r \in Index : Stamped(in, R, r, TRUE, n, f, c)
  BY <1>7, <1>8 DEF Correct, Faithful
<1>11. InSequence(in, R, TRUE, n)
  BY <1>7 DEF Correct
<1>12. Answered(n, R, f)
  BY <1>1, <1>2, <1>4, <1>5, <1>7, <1>9, <1>10, <1>11 DEF Answered
<1>13. Chosen(n, R, f)
  BY <1>10 DEF Chosen, Stamped
<1> QED
  BY <1>12, <1>13

\* The rows that are shown, and those of them and of the answer with the same data.
Shown == {r \in Index : rows[r] # Masked}
ShownAs(row) == {r \in Shown : Data(rows[r]) = row}
AnsweredAs(row) == {t \in Answer : Data(TupleRow(t)) = row}

LEMMA ShownQualifies ==
  ASSUME NEW n, NEW R, NEW f, Answered(n, R, f), Chosen(n, R, f), NEW r \in Shown
  PROVE  /\ f[r] \in Answer /\ Data(TupleRow(f[r])) = Data(rows[r])
         /\ rows[r] = R[r] /\ Selected(R[r])
<1>1. /\ rows[r] = R[r] /\ Selected(R[r]) /\ r \in Index /\ f[r] \in Tuples /\ R[r] \in Row
      /\ Agrees(R[r], TupleRow(f[r])) /\ TupleRow(f[r]) \in Row
  BY ShownIs DEF Shown
<1>2. Passes(in, n, f[r])
  <2>1. DOMAIN R = Index
    BY DEF Answered
  <2> QED
    BY <1>1, <2>1 DEF Chosen, OnePerKey
<1>3. f[r] \in Answer
  BY <1>1, <1>2, QueryIs DEF Answer
<1>4. Data(TupleRow(f[r])) = Data(rows[r])
  BY <1>1, DataAgrees
<1> QED
  BY <1>1, <1>3, <1>4

\* Without a DISTINCT every tuple of the answer is shown once.
LEMMA EachOnce ==
  ASSUME NEW n, NEW R, NEW f, Answered(n, R, f), Chosen(n, R, f), ~ Did(in, n, Uniques), NEW row
  PROVE  Cardinality(ShownAs(row)) = Cardinality(AnsweredAs(row))
<1> DEFINE S == ShownAs(row)
           T == AnsweredAs(row)
           g == [r \in S |-> f[r]]
<1>1. N \in Nat /\ Index = 0 .. N - 1 /\ OneToOne(f, Index, TuplesAt(in, n))
  <2>1. R \in [Index -> Row] /\ TableIs(in, R, n, f)
    BY DEF Answered
  <2> QED
    BY <2>1 DEF Answered, TableIs
<1>2. IsFiniteSet(S)
  <2>1. IsFiniteSet(Index)
    BY <1>1, FS_Interval
  <2>2. S \subseteq Index
    BY DEF ShownAs, Shown
  <2> QED
    BY <2>1, <2>2, FS_Subset
<1>3. ASSUME NEW r \in S PROVE f[r] \in T
  <2>1. r \in Shown /\ Data(rows[r]) = row
    BY DEF ShownAs
  <2>2. f[r] \in Answer /\ Data(TupleRow(f[r])) = Data(rows[r])
    BY <2>1, ShownQualifies
  <2> QED
    BY <2>1, <2>2 DEF AnsweredAs
<1>4. ASSUME NEW t \in T PROVE \E r \in S : f[r] = t
  <2>1. t \in Answer /\ Data(TupleRow(t)) = row
    BY DEF AnsweredAs
  <2>2. t \in TuplesAt(in, n) /\ Passes(in, n, t)
    BY <2>1, QueryIs DEF Answer
  <2>3. PICK r \in Index : f[r] = t
    BY <1>1, <2>2 DEF OneToOne
  <2>4. Selected(R[r])
    BY <2>2, <2>3 DEF Chosen
  <2>5. r \in Shown
    BY <2>4, ShownIs DEF Shown
  <2>6. Data(rows[r]) = row
    BY <2>1, <2>3, <2>5, ShownQualifies
  <2> QED
    BY <2>3, <2>5, <2>6 DEF ShownAs
<1>5. \A r, s \in S : f[r] = f[s] => r = s
  BY <1>1 DEF ShownAs, Shown, OneToOne
<1> HIDE DEF S, T
<1>6. g \in Bijection(S, T)
  <2>1. g \in [S -> T]
    BY <1>3
  <2>2. \A r, s \in S : g[r] = g[s] => r = s
    BY <1>5
  <2>3. \A t \in T : \E r \in S : g[r] = t
    BY <1>4
  <2> HIDE DEF g
  <2> QED
    BY <2>1, <2>2, <2>3 DEF Bijection, Injection, IsInjective, Surjection
<1>7. Cardinality(T) = Cardinality(S)
  BY <1>2, <1>6, FS_Bijection DEF ExistsBijection
<1> QED
  BY <1>7 DEF S, T

\* With a DISTINCT one row is shown for the keys of every tuple of the answer.
LEMMA OneShown ==
  ASSUME NEW n, NEW R, NEW f, Answered(n, R, f), Chosen(n, R, f),
         NEW i \in 1 .. n, in.ops[i].kind \in Uniques, NEW t \in Answer
  PROVE  Cardinality({r \in Shown : SameOn(in.ops[i].by, rows[r], TupleRow(t))}) = 1
<1> DEFINE by == in.ops[i].by
           S == {r \in Shown : SameOn(by, rows[r], TupleRow(t))}
<1>1. DOMAIN R = Index
  BY DEF Answered
<1>2. OnePerKey(in, R, n, f)
  BY DEF Chosen, Did
<1>3. t \in TuplesAt(in, n) /\ Passes(in, n, t) /\ TupleRow(t) = RowAt(in, n, t)
  BY QueryIs DEF Answer
<1>4. PICK r \in Index : /\ Selected(R[r]) /\ SameOn(by, R[r], TupleRow(t))
                         /\ \A s \in Index : Selected(R[s]) /\ SameOn(by, R[s], R[r]) => s = r
  BY <1>1, <1>2, <1>3 DEF OnePerKey
<1>5. \A x, y, z : SameOn(by, x, y) /\ SameOn(by, z, y) => SameOn(by, x, z)
  BY DEF SameOn
<1>6. r \in S
  <2>1. r \in Shown /\ rows[r] = R[r]
    BY <1>4, ShownIs DEF Shown
  <2> QED
    BY <1>4, <2>1
<1>7. ASSUME NEW s \in S PROVE s = r
  <2>1. s \in Index /\ Selected(R[s]) /\ SameOn(by, R[s], TupleRow(t))
    BY ShownIs DEF Shown
  <2>2. SameOn(by, R[s], R[r])
    BY <1>4, <1>5, <2>1
  <2> QED
    BY <1>4, <2>1, <2>2
<1> HIDE DEF S
<1>8. S = {r}
  BY <1>6, <1>7
<1>9. Cardinality(S) = 1
  BY <1>8, FS_Singleton
<1> QED
  BY <1>9 DEF S

LEMMA AnswerHolds ==
  ASSUME TableInv, Planned(in), AnswerInv
  PROVE  AnswerExact
<1> SUFFICES ASSUME pc = "start", ops = <<>>
             PROVE  LET unique == {i \in DOMAIN in.ops :
                                     in.ops[i].kind \in {"distinct", "adjacent_eq"}}
                        by == in.ops[CHOOSE i \in unique : TRUE].by
                        key(row) == [i \in DOMAIN by |-> row[by[i].col]]
                    IN  /\ \A r \in Shown : AnsweredAs(Data(rows[r])) # {}
                        /\ IF unique = {}
                           THEN \A t \in Answer :
                                  LET row == Data(TupleRow(t))
                                  IN  Cardinality(ShownAs(row)) = Cardinality(AnsweredAs(row))
                           ELSE \A t \in Answer :
                                  Cardinality({r \in Shown : key(rows[r]) = key(TupleRow(t))}) = 1
                        /\ \A i \in DOMAIN in.ops : in.ops[i].kind = "order_by" =>
                             \A r, s \in Shown : r < s => ~Before(in.ops[i].by, rows[s], rows[r])
  BY DEF AnswerExact, Shown, ShownAs, AnsweredAs
<1> DEFINE unique == {i \in DOMAIN in.ops : in.ops[i].kind \in {"distinct", "adjacent_eq"}}
           first == CHOOSE i \in unique : TRUE
           by == in.ops[first].by
           key(row) == [i \in DOMAIN by |-> row[by[i].col]]
<1>1. PICK n, R, f : Answered(n, R, f) /\ Chosen(n, R, f)
  BY PlanDone
<1>2. /\ in.ops \in Seq(Operation) /\ n \in Nat /\ n + 1 = Len(in.ops)
      /\ in.ops[n + 1].kind = "mask" /\ R \in [Index -> Row] /\ InSequence(in, R, TRUE, n)
  BY <1>1 DEF Answered
<1>3. DOMAIN in.ops = 1 .. n + 1 /\ \A i : i \in 1 .. n + 1 <=> i \in 1 .. n \/ i = n + 1
  BY <1>2
<1>4. unique = {i \in 1 .. n : in.ops[i].kind \in Uniques}
  BY <1>2, <1>3 DEF Uniques
<1>5. \A r \in Shown : AnsweredAs(Data(rows[r])) # {}
  <2> TAKE r \in Shown
  <2>1. f[r] \in AnsweredAs(Data(rows[r]))
    BY <1>1, ShownQualifies DEF AnsweredAs
  <2> QED
    BY <2>1
<1>6. ASSUME unique = {}, NEW t \in Answer
      PROVE  LET row == Data(TupleRow(t))
             IN  Cardinality(ShownAs(row)) = Cardinality(AnsweredAs(row))
  <2>1. ~ Did(in, n, Uniques)
    BY <1>4, <1>6 DEF Did
  <2> QED
    BY <1>1, <2>1, EachOnce
<1>7. ASSUME unique # {}, NEW t \in Answer
      PROVE  Cardinality({r \in Shown : key(rows[r]) = key(TupleRow(t))}) = 1
  <2>1. first \in unique
    BY <1>7
  <2>2. first \in 1 .. n /\ in.ops[first].kind \in Uniques
    BY <1>4, <2>1
  <2> HIDE DEF first
  <2>3. \A y, z : key(y) = key(z) <=> SameOn(by, y, z)
    <3>1. ASSUME NEW y, NEW z, key(y) = key(z) PROVE SameOn(by, y, z)
      <4>1. \A i \in DOMAIN by : key(y)[i] = y[by[i].col] /\ key(z)[i] = z[by[i].col]
        OBVIOUS
      <4> QED
        BY <3>1, <4>1 DEF SameOn
    <3>2. ASSUME NEW y, NEW z, SameOn(by, y, z) PROVE key(y) = key(z)
      BY <3>2 DEF SameOn
    <3> QED
      BY <3>1, <3>2
  <2>4. {r \in Shown : key(rows[r]) = key(TupleRow(t))}
          = {r \in Shown : SameOn(by, rows[r], TupleRow(t))}
    <3> HIDE DEF by, key
    <3> QED
      BY <2>3
  <2>5. Cardinality({r \in Shown : SameOn(by, rows[r], TupleRow(t))}) = 1
    BY <1>1, <2>2, OneShown
  <2> QED
    BY <2>4, <2>5
<1>8. ASSUME NEW i \in DOMAIN in.ops, in.ops[i].kind = "order_by",
             NEW r \in Shown, NEW s \in Shown, r < s
      PROVE  ~ Before(in.ops[i].by, rows[s], rows[r])
  <2>1. i \in 1 .. n
    BY <1>2, <1>3, <1>8
  <2>2. rows[r] = R[r] /\ Selected(R[r]) /\ rows[s] = R[s] /\ Selected(R[s])
    BY <1>1, ShownQualifies
  <2>3. r \in DOMAIN R /\ s \in DOMAIN R
    BY <1>2 DEF Shown
  <2>4. Follows(in.ops[i].by, R, r, s)
    BY <1>2, <1>8, <2>1, <2>2, <2>3 DEF InSequence, Live
  <2> QED
    BY <1>8, <2>2, <2>4 DEF Follows
<1> HIDE DEF key, by, first
<1>9. IF unique = {}
      THEN \A t \in Answer :
             LET row == Data(TupleRow(t))
             IN  Cardinality(ShownAs(row)) = Cardinality(AnsweredAs(row))
      ELSE \A t \in Answer :
             Cardinality({r \in Shown : key(rows[r]) = key(TupleRow(t))}) = 1
  BY <1>6, <1>7
<1> QED
  BY <1>5, <1>8, <1>9 DEF key, by, first

\* Whatever operator, batch or level of a semi-join comes next: the rows of
\* output.shareTable stand one to one for the tuples of the input, [SEL] says which of
\* them the operators that are done let pass, DISTINCT has left one of the rows that
\* agree, ORDER BY's order is kept, and the mask has gone over the rows before at.
THEOREM AnswerInvariant == Spec => [](Planned(in) => AnswerInv)
<1> DEFINE Inv == TableInv /\ (Planned(in) => AnswerInv)
<1>1. Init => Inv
  BY InitEstablishes, InitAnswers
<1>2. Inv /\ [Next]_vars => Inv'
  <2> SUFFICES ASSUME TableInv, Planned(in) => AnswerInv, [Next]_vars PROVE Inv'
    OBVIOUS
  <2>1. TableInv'
    BY NextKeeps
  <2>2. in' = in
    BY DEF Next, vars, FilterConst, Filter, Join, SemiJoinEq, SemiJoinLevel, SemiJoinResult,
           StartSort, SortBatch, EndSort, StartAdjacent, DistinctBatch, MaskBatch, Done
  <2>3. ASSUME Planned(in)' PROVE AnswerInv'
    <3>1. Planned(in)
      BY <2>2, <2>3
    <3> QED
      BY <3>1, NextAnswers
  <2> QED
    BY <2>1, <2>3
<1> QED
  BY <1>1, <1>2, PTL DEF Spec

\* After the mask of a plan whose operators come in the order that the planner gives
\* them, the rows that are not all ones are the answer of the query: none too many, none
\* missing, DISTINCT and ORDER BY respected.
THEOREM PlannedExact == Spec => [](Planned(in) => AnswerExact)
<1>1. TableInv /\ (Planned(in) => AnswerInv) => (Planned(in) => AnswerExact)
  BY AnswerHolds
<1> QED
  BY <1>1, TableInvariant, AnswerInvariant, PTL

\* When only such plans are executed, as in the run of MCTableOperators, every table that
\* SelectOperator .. MaskOperator hand back is the answer of its query.
THEOREM AnswersExact ==
  ASSUME \A x \in Calls : Planned(x)
  PROVE  Spec => []AnswerExact
<1>1. TableInv => Planned(in)
  BY DEF TableInv, DataInv
<1> QED
  BY <1>1, TableInvariant, PlannedExact, PTL

=============================================================================
