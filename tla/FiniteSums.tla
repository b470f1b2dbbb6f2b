----------------------------- MODULE FiniteSums -----------------------------
(***************************************************************************)
(* Facts about powers of two and about sums over finite sets, as           *)
(* MapThenSumSet computes them, for the proofs about words.                *)
(*                                                                         *)
(* They need induction over data.  The induction theorems of the library   *)
(* take the induction hypothesis as an operator, which the provers here    *)
(* cannot instantiate; the same inductions go through with sets in place   *)
(* of operators: a nonempty set of naturals has a least element, a         *)
(* nonempty set of subsets of a finite set a minimal one.                  *)
(***************************************************************************)
EXTENDS Integers, FiniteSets, FiniteSetsExt, FiniteSetTheorems,
        WellFoundedInduction, TLAPS

-----------------------------------------------------------------------------
(* Induction. *)

\* A nonempty set of naturals has a least element.
LEMMA LeastElement ==
  ASSUME NEW T, T \subseteq Nat, T # {}
  PROVE  \E m \in T : \A n \in T : m <= n
<1> DEFINE R == {ss \in Nat \X Nat : ss[1] < ss[2]}
<1>1. IsWellFoundedOn(R, Nat)
  BY NatLessThanWellFounded DEF OpToRel
<1> HIDE DEF R
<1>2. PICK m \in T : \A n \in T : ~ (<<n, m>> \in R)
  BY <1>1, WFMin
<1>3. \A n \in T : ~ (n < m)
  BY <1>2 DEF R
<1> QED
  BY <1>2, <1>3

\* Induction over the naturals: a set that has 0 and the successor of each of its
\* elements has all of them.
LEMMA InductionSet ==
  ASSUME NEW S, 0 \in S, \A n \in Nat : n \in S => n + 1 \in S
  PROVE  Nat \subseteq S
<1> DEFINE T == Nat \ S
<1>1. SUFFICES ASSUME T # {} PROVE FALSE
  OBVIOUS
<1>2. PICK m \in T : \A n \in T : m <= n
  BY <1>1, LeastElement
<1>3. m - 1 \in Nat /\ m - 1 \notin T
  BY <1>2
<1> QED
  BY <1>2, <1>3

\* A nonempty set of subsets of a finite set has a minimal element.
LEMMA MinimalSubset ==
  ASSUME NEW S, IsFiniteSet(S), NEW C, C \subseteq SUBSET S, C # {}
  PROVE  \E u \in C : \A v \in C : v \subseteq u => v = u
<1>1. IsWellFoundedOn(StrictSubsetOrdering(S), SUBSET S)
  BY FS_StrictSubsetOrderingWellFounded, FS_FiniteSubsetsOfFinite
<1>2. PICK u \in C : \A v \in C : ~ (<<v, u>> \in StrictSubsetOrdering(S))
  BY <1>1, WFMin
<1> QED
  BY <1>2 DEF StrictSubsetOrdering

-----------------------------------------------------------------------------
(* Powers of two.  The provers know nothing of them; what is needed follows *)
(* from the number of subsets of a finite set.                              *)

LEMMA PowType == ASSUME NEW n \in Nat PROVE 2^n \in Nat
<1> DEFINE S == 1 .. n
<1>1. IsFiniteSet(S) /\ Cardinality(S) = n
  BY FS_Interval
<1>2. IsFiniteSet(SUBSET S) /\ Cardinality(SUBSET S) = 2^n
  BY <1>1, FS_SUBSET
<1> QED
  BY <1>2, FS_CardinalityType

\* The subsets of 1 .. n + 1 with n + 1 are as many as those without.
LEMMA PowDouble == ASSUME NEW n \in Nat PROVE 2^(n + 1) = 2 * 2^n
<1> DEFINE S == 1 .. n
           T == 1 .. n + 1
           A == SUBSET S
           B == {s \cup {n + 1} : s \in A}
           f == [s \in A |-> s \cup {n + 1}]
<1>1. IsFiniteSet(S) /\ Cardinality(S) = n /\ IsFiniteSet(T) /\ Cardinality(T) = n + 1
  BY FS_Interval
<1>2. IsFiniteSet(A) /\ Cardinality(A) = 2^n
  BY <1>1, FS_SUBSET
<1>3. IsFiniteSet(SUBSET T) /\ Cardinality(SUBSET T) = 2^(n + 1)
  BY <1>1, FS_SUBSET
<1>4. f \in Bijection(A, B)
  <2>1. \A s \in A : n + 1 \notin s
    OBVIOUS
  <2>2. f \in Injection(A, B)
    <3>1. f \in [A -> B]
      OBVIOUS
    <3>2. \A s, t \in A : f[s] = f[t] => s = t
      <4>1. ASSUME NEW s \in A, NEW t \in A, f[s] = f[t] PROVE s = t
        <5>1. s \cup {n + 1} = t \cup {n + 1}
          BY <4>1
        <5>2. (s \cup {n + 1}) \ {n + 1} = s /\ (t \cup {n + 1}) \ {n + 1} = t
          BY <2>1
        <5> QED
          BY <5>1, <5>2
      <4> QED
        BY <4>1
    <3> QED
      BY <3>1, <3>2 DEF Injection, IsInjective
  <2>3. f \in Surjection(A, B)
    BY DEF Surjection
  <2> QED
    BY <2>2, <2>3 DEF Bijection
<1>5. IsFiniteSet(B) /\ Cardinality(B) = Cardinality(A)
  BY <1>2, <1>4, FS_Bijection DEF ExistsBijection
<1>6. SUBSET T = A \cup B
  <2>1. ASSUME NEW t \in SUBSET T PROVE t \in A \cup B
    <3>1. CASE n + 1 \in t
      <4>1. t \ {n + 1} \in A
        OBVIOUS
      <4>2. t = (t \ {n + 1}) \cup {n + 1}
        BY <3>1
      <4> QED
        BY <4>1, <4>2
    <3>2. CASE n + 1 \notin t
      BY <3>2
    <3> QED
      BY <3>1, <3>2
  <2>2. ASSUME NEW t \in A \cup B PROVE t \in SUBSET T
    OBVIOUS
  <2> QED
    BY <2>1, <2>2
<1>7. A \cap B = {}
  OBVIOUS
<1>8. Cardinality(A \cup B) = Cardinality(A) + Cardinality(B) - Cardinality(A \cap B)
  BY <1>2, <1>5, FS_Union
<1>9. Cardinality(A \cap B) = 0
  BY <1>7, FS_EmptySet
<1>10. 2^n \in Nat
  BY PowType
<1> HIDE DEF A, B, S, T, f
<1>11. Cardinality(A \cup B) = Cardinality(A) + Cardinality(A)
  BY <1>2, <1>5, <1>8, <1>9, <1>10
<1>12. 2^(n + 1) = Cardinality(A) + Cardinality(A)
  BY <1>3, <1>6, <1>11
<1> QED
  BY <1>2, <1>10, <1>12

LEMMA PowPositive == \A n \in Nat : 2^n \in Nat /\ 2^n >= 1
<1> DEFINE S == {n \in Nat : 2^n >= 1}
<1>1. 0 \in S
  OBVIOUS
<1>2. ASSUME NEW n \in Nat, n \in S PROVE n + 1 \in S
  BY <1>2, PowType, PowDouble
<1>3. Nat \subseteq S
  <2> HIDE DEF S
  <2> QED
    BY <1>1, <1>2, InductionSet
<1> QED
  BY <1>3, PowType

\* A power of two is the product of two smaller ones.
LEMMA PowSplit ==
  ASSUME NEW m \in Nat, NEW n \in Nat, m <= n
  PROVE  2^n = 2^m * 2^(n - m)
<1> DEFINE S == {k \in Nat : 2^(m + k) = 2^m * 2^k}
<1>1. 0 \in S
  BY PowPositive
<1>2. ASSUME NEW k \in Nat, k \in S PROVE k + 1 \in S
  <2>1. 2^((m + k) + 1) = 2 * 2^(m + k) /\ 2^(k + 1) = 2 * 2^k
    BY PowDouble
  <2>2. m + (k + 1) = (m + k) + 1
    OBVIOUS
  <2>3. 2^m \in Nat /\ 2^k \in Nat /\ 2^(m + k) = 2^m * 2^k
    BY <1>2, PowPositive
  <2> DEFINE a == 2^m
             b == 2^k
  <2>4. 2 * (a * b) = a * (2 * b)
    BY <2>3
  <2> QED
    BY <2>1, <2>2, <2>3, <2>4
<1>3. Nat \subseteq S
  <2> HIDE DEF S
  <2> QED
    BY <1>1, <1>2, InductionSet
<1>4. n - m \in S /\ m + (n - m) = n
  BY <1>3
<1> QED
  BY <1>4

-----------------------------------------------------------------------------
(* Quotients and remainders. *)

LEMMA DivMod ==
  ASSUME NEW p \in Nat, p >= 1, NEW i \in Nat
  PROVE  i \div p \in Nat /\ i % p \in Nat /\ i % p < p /\ i = p * (i \div p) + (i % p)
  OBVIOUS

LEMMA DivModUnique ==
  ASSUME NEW i \in Nat, NEW p \in Nat, p >= 1, NEW q \in Nat, NEW s \in Nat,
         s < p, i = p * q + s
  PROVE  i % p = s /\ i \div p = q
  OBVIOUS

-----------------------------------------------------------------------------
(* Sums.  g computes the sums of the weights w over the subsets of S, an    *)
(* element at a time, in the order in which CHOOSE takes them.              *)

First(s) == CHOOSE i \in s : TRUE

Sums(g, w, S) ==
  g = [s \in SUBSET S |-> IF s = {} THEN 0 ELSE w[First(s)] + g[s \ {First(s)}]]

LEMMA FirstType == ASSUME NEW s, s # {} PROVE First(s) \in s
  BY DEF First

LEMMA SumsStep ==
  ASSUME NEW S, NEW w, NEW g, Sums(g, w, S)
  PROVE  /\ g[{}] = 0
         /\ \A s \in SUBSET S : s # {} => g[s] = w[First(s)] + g[s \ {First(s)}]
  BY DEF Sums

\* The sum over a set does not depend on the larger set it is a part of.
LEMMA SumsUnique ==
  ASSUME NEW S, NEW T, IsFiniteSet(S), S \subseteq T, NEW w, NEW g, NEW h,
         Sums(g, w, S), Sums(h, w, T), NEW s \in SUBSET S
  PROVE  g[s] = h[s]
<1> DEFINE C == {v \in SUBSET S : g[v] # h[v]}
<1>1. C \subseteq SUBSET S
  OBVIOUS
<1> SUFFICES ASSUME C # {} PROVE FALSE
  OBVIOUS
<1> HIDE DEF C
<1>2. PICK u \in C : \A v \in C : v \subseteq u => v = u
  BY <1>1, MinimalSubset
<1> USE DEF C
<1>3. u # {}
  <2>1. g[{}] = 0 /\ h[{}] = 0
    BY SumsStep
  <2> QED
    BY <2>1
<1>4. g[u] = w[First(u)] + g[u \ {First(u)}] /\ h[u] = w[First(u)] + h[u \ {First(u)}]
  BY <1>3, SumsStep
<1>5. g[u \ {First(u)}] = h[u \ {First(u)}]
  BY <1>2, <1>3, FirstType
<1> QED
  BY <1>4, <1>5

LEMMA SumsExist ==
  ASSUME NEW S, IsFiniteSet(S), NEW w
  PROVE  \E g : Sums(g, w, S)
<1> DEFINE C == {s \in SUBSET S : ~ \E g : Sums(g, w, s)}
<1>1. C \subseteq SUBSET S
  OBVIOUS
<1> SUFFICES ASSUME C # {} PROVE FALSE
  OBVIOUS
<1> HIDE DEF C
<1>2. PICK u \in C : \A v \in C : v \subseteq u => v = u
  BY <1>1, MinimalSubset
<1> USE DEF C
<1> DEFINE f == [v \in SUBSET u |-> CHOOSE g : Sums(g, w, v)]
           h == [s \in SUBSET u |->
                   IF s = {} THEN 0
                   ELSE w[First(s)] + f[s \ {First(s)}][s \ {First(s)}]]
<1>3. \A v \in SUBSET u : v # u => Sums(f[v], w, v)
  BY <1>2
<1>4. \A s \in SUBSET u : IsFiniteSet(s)
  BY FS_Subset
<1> HIDE DEF f, C
<1>5. ASSUME NEW s \in SUBSET u, s # {}
      PROVE  f[s \ {First(s)}][s \ {First(s)}] = h[s \ {First(s)}]
  <2> DEFINE v == s \ {First(s)}
  <2>1. v \in SUBSET u /\ v # u
    BY <1>5, FirstType
  <2>2. Sums(f[v], w, v)
    BY <1>3, <2>1
  <2> HIDE DEF v
  <2> SUFFICES f[v][v] = h[v]
    BY DEF v
  <2>3. CASE v = {}
    BY <2>1, <2>2, <2>3, SumsStep
  <2>4. CASE v # {}
    <3> DEFINE t == v \ {First(v)}
    <3>1. f[v][v] = w[First(v)] + f[v][t]
      BY <2>2, <2>4, SumsStep
    <3>2. t \in SUBSET u /\ t # u /\ t \in SUBSET v
      BY <2>1, <2>4, FirstType
    <3>3. h[v] = w[First(v)] + f[t][t]
      BY <2>1, <2>4
    <3> HIDE DEF t, h
    <3>4. Sums(f[t], w, t) /\ IsFiniteSet(t)
      BY <3>2, <1>3, <1>4
    <3>5. \A r \in SUBSET t : f[t][r] = f[v][r]
      <4>1. t \subseteq v
        BY <3>2
      <4> DEFINE a == f[t]
                 b == f[v]
      <4>2. Sums(a, w, t) /\ Sums(b, w, v) /\ IsFiniteSet(t)
        BY <2>2, <3>4
      <4> SUFFICES \A r \in SUBSET t : a[r] = b[r]
        OBVIOUS
      <4> HIDE DEF a, b
      <4> QED
        BY <4>1, <4>2, SumsUnique
    <3>6. t \in SUBSET t
      OBVIOUS
    <3> QED
      BY <3>1, <3>3, <3>5, <3>6
  <2> QED
    BY <2>3, <2>4
<1>6. h = [s \in SUBSET u |-> IF s = {} THEN 0 ELSE w[First(s)] + h[s \ {First(s)}]]
  BY <1>5
<1>7. Sums(h, w, u)
  BY <1>6 DEF Sums
<1> QED
  BY <1>2, <1>7 DEF C

LEMMA SumsType ==
  ASSUME NEW S, IsFiniteSet(S), NEW w, NEW g, Sums(g, w, S),
         \A i \in S : w[i] \in Nat
  PROVE  \A s \in SUBSET S : g[s] \in Nat
<1> DEFINE C == {s \in SUBSET S : g[s] \notin Nat}
<1>1. C \subseteq SUBSET S
  OBVIOUS
<1> SUFFICES ASSUME C # {} PROVE FALSE
  OBVIOUS
<1> HIDE DEF C
<1>2. PICK u \in C : \A v \in C : v \subseteq u => v = u
  BY <1>1, MinimalSubset
<1> USE DEF C
<1>3. u # {}
  <2>1. g[{}] = 0
    BY SumsStep
  <2> QED
    BY <2>1
<1>4. g[u] = w[First(u)] + g[u \ {First(u)}]
  <2>1. u \in SUBSET S
    OBVIOUS
  <2> HIDE DEF C
  <2> QED
    BY <1>3, <2>1, SumsStep
<1>5. g[u \ {First(u)}] \in Nat
  BY <1>2, <1>3, FirstType
<1>6. w[First(u)] \in Nat
  BY <1>3, FirstType
<1> QED
  BY <1>2, <1>4, <1>5, <1>6

\* The order in which the elements are taken does not matter.
LEMMA SumsAnyOrder ==
  ASSUME NEW S, IsFiniteSet(S), NEW w, NEW g, Sums(g, w, S),
         \A n \in S : w[n] \in Nat, NEW s \in SUBSET S, NEW k \in s
  PROVE  g[s] = w[k] + g[s \ {k}]
<1> DEFINE C == {v \in SUBSET S : \E i \in v : g[v] # w[i] + g[v \ {i}]}
<1>1. C \subseteq SUBSET S
  OBVIOUS
<1> SUFFICES ASSUME C # {} PROVE FALSE
  OBVIOUS
<1> HIDE DEF C
<1>2. PICK u \in C : \A v \in C : v \subseteq u => v = u
  BY <1>1, MinimalSubset
<1> USE DEF C
<1>3. PICK i \in u : g[u] # w[i] + g[u \ {i}]
  OBVIOUS
<1> DEFINE c == First(u)
<1>4. c \in u
  BY <1>3, FirstType
<1>5. g[u] = w[c] + g[u \ {c}]
  BY <1>3, SumsStep
<1>6. c # i
  BY <1>3, <1>5
<1>7. u \ {c} \notin C /\ u \ {i} \notin C
  BY <1>2, <1>3, <1>4
<1>8. g[u \ {c}] = w[i] + g[(u \ {c}) \ {i}]
  BY <1>3, <1>6, <1>7
<1>9. g[u \ {i}] = w[c] + g[(u \ {i}) \ {c}]
  BY <1>4, <1>6, <1>7
<1>10. (u \ {c}) \ {i} = (u \ {i}) \ {c}
  OBVIOUS
<1>11. w[c] \in Nat /\ w[i] \in Nat /\ g[(u \ {i}) \ {c}] \in Nat
  BY <1>3, <1>4, SumsType
<1> DEFINE r == g[(u \ {i}) \ {c}]
           a == w[i]
           b == w[c]
<1>12. g[u \ {c}] = a + r /\ g[u \ {i}] = b + r /\ g[u] = b + g[u \ {c}]
  BY <1>5, <1>8, <1>9, <1>10
<1>13. g[u] # a + g[u \ {i}]
  BY <1>3
<1>14. a \in Nat /\ b \in Nat /\ r \in Nat
  BY <1>11
<1> HIDE DEF a, b, c, r, C
<1> QED
  BY <1>12, <1>13, <1>14

\* The sum over a set is that over the set without an element, and the element's
\* weight.
LEMMA SumsRemove ==
  ASSUME NEW S, IsFiniteSet(S), NEW k \in S, NEW w, \A n \in S : w[n] \in Nat,
         NEW g, Sums(g, w, S), NEW h, Sums(h, w, S \ {k})
  PROVE  g[S] = w[k] + h[S \ {k}]
<1> DEFINE rest == S \ {k}
<1>1. S \in SUBSET S
  OBVIOUS
<1>2. g[S] = w[k] + g[S \ {k}]
  BY <1>1, SumsAnyOrder
<1>3. IsFiniteSet(rest) /\ rest \in SUBSET rest /\ rest \subseteq S
  BY FS_RemoveElement
<1>4. Sums(h, w, rest)
  OBVIOUS
<1>5. h[rest] = g[rest]
  <2> HIDE DEF rest
  <2> QED
    BY <1>3, <1>4, SumsUnique
<1> QED
  BY <1>2, <1>5

\* The sum over two disjoint sets.
LEMMA SumsUnion ==
  ASSUME NEW S, NEW T, IsFiniteSet(S), IsFiniteSet(T), S \cap T = {}, NEW w,
         \A n \in S \cup T : w[n] \in Nat,
         NEW g, Sums(g, w, S \cup T), NEW h, Sums(h, w, S), NEW k, Sums(k, w, T)
  PROVE  g[S \cup T] = h[S] + k[T]
<1> DEFINE U == S \cup T
           C == {u \in SUBSET T : g[S \cup u] # g[S] + g[u]}
<1>1. IsFiniteSet(U) /\ S \in SUBSET U /\ T \in SUBSET U /\ Sums(g, w, U)
  BY FS_Union
<1>2. \A u \in SUBSET U : g[u] \in Nat
  <2> HIDE DEF U
  <2>1. \A n \in U : w[n] \in Nat
    BY DEF U
  <2> QED
    BY <1>1, <2>1, SumsType
<1>3. C = {}
  <2> SUFFICES ASSUME C # {} PROVE FALSE
    OBVIOUS
  <2>1. C \subseteq SUBSET T
    OBVIOUS
  <2> HIDE DEF C
  <2>2. PICK u \in C : \A v \in C : v \subseteq u => v = u
    BY <2>1, MinimalSubset
  <2>3. u \subseteq T
    BY <2>1
  <2>4. u # {}
    <3> SUFFICES ASSUME u = {} PROVE FALSE
      OBVIOUS
    <3>1. g[u] = 0 /\ g[S] \in Nat
      BY <1>1, <1>2, SumsStep
    <3>2. S \cup u = S
      OBVIOUS
    <3>3. g[S \cup u] # g[S] + g[u]
      BY DEF C
    <3> QED
      BY <3>1, <3>2, <3>3
  <2> DEFINE i == First(u)
             v == u \ {i}
  <2>5. i \in u
    BY <2>4, FirstType
  <2> HIDE DEF i
  <2>6. v \in SUBSET T /\ v \notin C
    BY <2>2, <2>3, <2>5
  <2>7. g[S \cup v] = g[S] + g[v]
    BY <2>6 DEF C
  <2>8. \A s \in SUBSET U : i \in s => g[s] = w[i] + g[s \ {i}]
    <3> HIDE DEF U
    <3>1. \A n \in U : w[n] \in Nat
      BY DEF U
    <3> QED
      BY <1>1, <3>1, SumsAnyOrder
  <2>9. g[u] = w[i] + g[v]
    BY <2>3, <2>5, <2>8
  <2>10. g[S \cup u] = w[i] + g[S \cup v]
    <3>1. (S \cup u) \ {i} = S \cup v
      BY <2>3, <2>5
    <3>2. S \cup u \in SUBSET U /\ i \in S \cup u
      BY <2>3, <2>5
    <3>3. g[S \cup u] = w[i] + g[(S \cup u) \ {i}]
      BY <2>8, <3>2
    <3> QED
      BY <3>1, <3>3
  <2>11. w[i] \in Nat /\ g[S] \in Nat /\ g[v] \in Nat
    BY <1>1, <1>2, <2>3, <2>5
  <2>12. g[S \cup u] = g[S] + g[u]
    BY <2>7, <2>9, <2>10, <2>11
  <2> QED
    BY <2>2, <2>12 DEF C
<1>4. g[S \cup T] = g[S] + g[T]
  <2>1. T \in SUBSET T /\ T \notin C
    BY <1>3
  <2> QED
    BY <2>1
<1>5. g[S] = h[S] /\ g[T] = k[T]
  <2> HIDE DEF U
  <2> QED
    BY <1>1, SumsUnique
<1> QED
  BY <1>4, <1>5

-----------------------------------------------------------------------------
(* The sums of MapThenSumSet with the weights 2^i. *)

PowSum(u) == MapThenSumSet(LAMBDA i : 2^i, u)

\* MapThenSumSet computes sums of this kind.
LEMMA PowSumIsSum ==
  ASSUME NEW S, IsFiniteSet(S), NEW w, \A n \in S : w[n] = 2^n
  PROVE  \E g : Sums(g, w, S) /\ PowSum(S) = g[S]
<1> DEFINE it == CHOOSE g : g = [s \in SUBSET S |->
                   IF s = {} THEN 0 ELSE 2^First(s) + g[s \ {First(s)}]]
<1>1. PowSum(S) = it[S]
  BY DEF PowSum, MapThenSumSet, MapThenFoldSet, First
<1>2. \A g : Sums(g, w, S) <=> g = [s \in SUBSET S |->
                   IF s = {} THEN 0 ELSE 2^First(s) + g[s \ {First(s)}]]
  <2>1. \A s \in SUBSET S : s # {} => w[First(s)] = 2^First(s)
    BY FirstType
  <2> QED
    BY <2>1 DEF Sums
<1>3. \E g : g = [s \in SUBSET S |->
                   IF s = {} THEN 0 ELSE 2^First(s) + g[s \ {First(s)}]]
  <2>1. \E g : Sums(g, w, S)
    BY SumsExist
  <2> QED
    BY <1>2, <2>1
<1>4. Sums(it, w, S)
  BY <1>2, <1>3
<1> QED
  BY <1>1, <1>4

LEMMA PowSumEmpty == PowSum({}) = 0
<1> DEFINE w == [n \in Nat |-> 2^n]
<1>1. IsFiniteSet({}) /\ \A n \in {} : w[n] = 2^n
  BY FS_EmptySet
<1> HIDE DEF w
<1>2. PICK g : Sums(g, w, {}) /\ PowSum({}) = g[{}]
  BY <1>1, PowSumIsSum
<1> QED
  BY <1>2, SumsStep

LEMMA PowSumType ==
  ASSUME NEW S, IsFiniteSet(S), S \subseteq Nat
  PROVE  PowSum(S) \in Nat
<1> DEFINE w == [i \in S |-> 2^i]
<1>1. \A i \in S : w[i] = 2^i /\ w[i] \in Nat
  BY PowType
<1> HIDE DEF w
<1>2. PICK g : Sums(g, w, S) /\ PowSum(S) = g[S]
  BY <1>1, PowSumIsSum
<1>3. \A s \in SUBSET S : g[s] \in Nat
  BY <1>1, <1>2, SumsType
<1> QED
  BY <1>2, <1>3

\* One element more or less.
LEMMA PowSumRemove ==
  ASSUME NEW S, IsFiniteSet(S), \A n \in S : 2^n \in Nat, NEW i \in S
  PROVE  PowSum(S) = 2^i + PowSum(S \ {i})
<1> DEFINE w == [n \in S |-> 2^n]
           rest == S \ {i}
<1>1. /\ \A n \in S : w[n] = 2^n /\ w[n] \in Nat
      /\ \A n \in rest : w[n] = 2^n
      /\ IsFiniteSet(rest)
  BY FS_RemoveElement
<1> HIDE DEF w, rest
<1>2. PICK g : Sums(g, w, S) /\ PowSum(S) = g[S]
  BY <1>1, PowSumIsSum
<1>3. PICK h : Sums(h, w, rest) /\ PowSum(rest) = h[rest]
  BY <1>1, PowSumIsSum
<1>4. g[S] = w[i] + h[S \ {i}]
  <2>1. Sums(h, w, S \ {i})
    BY <1>3 DEF rest
  <2> QED
    BY <1>1, <1>2, <2>1, SumsRemove
<1> QED
  BY <1>1, <1>2, <1>3, <1>4 DEF rest

-----------------------------------------------------------------------------
(* Words as sets of bits: the number in the bits below bit n. *)

LowSum(u, n) == PowSum(u \cap 0 .. n - 1)

LEMMA LowFinite ==
  ASSUME NEW u, NEW n \in Nat
  PROVE  IsFiniteSet(u \cap 0 .. n - 1) /\ u \cap 0 .. n - 1 \subseteq Nat
<1>1. IsFiniteSet(0 .. n - 1)
  BY FS_Interval
<1>2. IsFiniteSet(u \cap (0 .. n - 1))
  BY <1>1, FS_Intersection
<1>3. u \cap (0 .. n - 1) \subseteq Nat
  OBVIOUS
<1> QED
  BY <1>2, <1>3

\* The next bit of a word.
LEMMA LowStep ==
  ASSUME NEW u, NEW n \in Nat
  PROVE  LowSum(u, n + 1) = LowSum(u, n) + (IF n \in u THEN 2^n ELSE 0)
<1> DEFINE s == u \cap 0 .. n - 1
           t == u \cap 0 .. (n + 1) - 1
<1>1. IsFiniteSet(t) /\ t \subseteq Nat /\ IsFiniteSet(s) /\ s \subseteq Nat
  <2>1. n + 1 \in Nat
    OBVIOUS
  <2> QED
    BY <2>1, LowFinite
<1>2. \A i \in t : 2^i \in Nat
  BY <1>1, PowType
<1>3. LowSum(u, n) = PowSum(s) /\ LowSum(u, n + 1) = PowSum(t)
  BY DEF LowSum
<1>4. CASE n \in u
  <2>1. n \in t /\ t \ {n} = s
    BY <1>4
  <2> HIDE DEF s, t
  <2>2. PowSum(t) = 2^n + PowSum(t \ {n})
    BY <1>1, <1>2, <2>1, PowSumRemove
  <2>3. PowSum(s) \in Nat
    BY <1>1, PowSumType
  <2>4. PowSum(t \ {n}) = PowSum(s)
    BY <2>1
  <2> QED
    BY <1>3, <1>4, <2>2, <2>3, <2>4, PowType
<1>5. CASE n \notin u
  <2>1. t = s
    BY <1>5
  <2> HIDE DEF s, t
  <2>2. PowSum(s) \in Nat
    BY <1>1, PowSumType
  <2> QED
    BY <1>3, <1>5, <2>1, <2>2
<1> QED
  BY <1>4, <1>5

LEMMA LowZero == \A u : LowSum(u, 0) = 0
<1>1. \A u : u \cap 0 .. 0 - 1 = {}
  OBVIOUS
<1> QED
  BY <1>1, PowSumEmpty DEF LowSum

\* n bits make a number below 2^n.
LEMMA LowBound ==
  ASSUME NEW u, NEW n \in Nat
  PROVE  LowSum(u, n) \in Nat /\ LowSum(u, n) < 2^n
<1> DEFINE S == {k \in Nat : LowSum(u, k) \in Nat /\ LowSum(u, k) < 2^k}
<1>1. 0 \in S
  BY LowZero
<1>2. ASSUME NEW k \in Nat, k \in S PROVE k + 1 \in S
  <2>1. LowSum(u, k + 1) = LowSum(u, k) + (IF k \in u THEN 2^k ELSE 0)
    BY LowStep
  <2>2. 2^(k + 1) = 2 * 2^k /\ 2^k \in Nat
    BY PowDouble, PowType
  <2> QED
    BY <1>2, <2>1, <2>2
<1>3. Nat \subseteq S
  <2> HIDE DEF S
  <2> QED
    BY <1>1, <1>2, InductionSet
<1> QED
  BY <1>3

-----------------------------------------------------------------------------
(* Adding two words. *)

\* The numbers in bits 0 to i overflow them.
Overflows(u, v, i) == PowSum(u \cap 0 .. i) + PowSum(v \cap 0 .. i) >= 2^(i + 1)

LEMMA OverflowsLow ==
  ASSUME NEW u, NEW v, NEW i \in Nat
  PROVE  Overflows(u, v, i) <=> LowSum(u, i + 1) + LowSum(v, i + 1) >= 2^(i + 1)
<1>1. (i + 1) - 1 = i
  OBVIOUS
<1> QED
  BY <1>1 DEF Overflows, LowSum

\* A full adder: a bit overflows when two of the three bits are 1.
LEMMA OverflowsStep ==
  ASSUME NEW u, NEW v, NEW i \in Nat
  PROVE  Overflows(u, v, i) <=>
           \/ i \in u /\ i \in v
           \/ i > 0 /\ Overflows(u, v, i - 1) /\ (i \in u \/ i \in v)
<1> DEFINE a == LowSum(u, i)
           b == LowSum(v, i)
           w == 2^i
<1>1. a \in Nat /\ a < w /\ b \in Nat /\ b < w /\ w \in Nat /\ 2^(i + 1) = 2 * w
  BY LowBound, PowDouble, PowType
<1>2. LowSum(u, i + 1) = a + (IF i \in u THEN w ELSE 0)
  BY LowStep
<1>3. LowSum(v, i + 1) = b + (IF i \in v THEN w ELSE 0)
  BY LowStep
<1>4. Overflows(u, v, i) <=> LowSum(u, i + 1) + LowSum(v, i + 1) >= 2^(i + 1)
  BY OverflowsLow
<1>5. i > 0 /\ Overflows(u, v, i - 1) <=> a + b >= w
  <2>1. CASE i = 0
    BY <2>1, LowZero
  <2>2. CASE i # 0
    <3>1. i - 1 \in Nat /\ (i - 1) + 1 = i /\ i > 0
      BY <2>2
    <3> QED
      BY <3>1, OverflowsLow
  <2> QED
    BY <2>1, <2>2
<1> HIDE DEF a, b, w
<1> QED
  BY <1>1, <1>2, <1>3, <1>4, <1>5

\* The bits of s below bit M are those of the sum of u and v.
SumBits(s, u, v, M) ==
  \A n \in Nat : n < M =>
    (n \in s <=> IF n > 0 /\ Overflows(u, v, n - 1)
                 THEN n \in u <=> n \in v ELSE ~ (n \in u <=> n \in v))

\* They make the sum of the numbers, together with the carry out of them.
LEMMA SumStep ==
  ASSUME NEW u, NEW v, NEW s, NEW M \in Nat, SumBits(s, u, v, M)
  PROVE  LowSum(s, M) + (IF M > 0 /\ Overflows(u, v, M - 1) THEN 2^M ELSE 0)
           = LowSum(u, M) + LowSum(v, M)
<1> DEFINE Out(n) == IF n > 0 /\ Overflows(u, v, n - 1) THEN 2^n ELSE 0
           S == {n \in Nat : n <= M => LowSum(s, n) + Out(n) = LowSum(u, n) + LowSum(v, n)}
<1>1. 0 \in S
  BY LowZero
<1>2. ASSUME NEW n \in Nat, n \in S PROVE n + 1 \in S
  <2>1. SUFFICES ASSUME n + 1 <= M
                 PROVE  LowSum(s, n + 1) + Out(n + 1) = LowSum(u, n + 1) + LowSum(v, n + 1)
    OBVIOUS
  <2> DEFINE carry == n > 0 /\ Overflows(u, v, n - 1)
             w == 2^n
  <2>2. LowSum(s, n) + (IF carry THEN w ELSE 0) = LowSum(u, n) + LowSum(v, n)
    BY <1>2, <2>1
  <2>3. n \in s <=> IF carry THEN n \in u <=> n \in v ELSE ~ (n \in u <=> n \in v)
    BY <2>1 DEF SumBits
  <2>4. /\ LowSum(s, n + 1) = LowSum(s, n) + (IF n \in s THEN w ELSE 0)
        /\ LowSum(u, n + 1) = LowSum(u, n) + (IF n \in u THEN w ELSE 0)
        /\ LowSum(v, n + 1) = LowSum(v, n) + (IF n \in v THEN w ELSE 0)
    BY LowStep
  <2>5. LowSum(s, n) \in Nat /\ LowSum(u, n) \in Nat /\ LowSum(v, n) \in Nat /\ w \in Nat
    BY LowBound, PowType
  <2>6. Out(n + 1) = IF Overflows(u, v, n) THEN 2 * w ELSE 0
    <3>1. (n + 1) - 1 = n /\ n + 1 > 0 /\ 2^(n + 1) = 2 * w
      BY PowDouble
    <3> QED
      BY <3>1
  <2>7. Overflows(u, v, n) <=> (n \in u /\ n \in v) \/ (carry /\ (n \in u \/ n \in v))
    BY OverflowsStep
  <2>8. CASE carry
    <3>1. LowSum(s, n) + w = LowSum(u, n) + LowSum(v, n)
      BY <2>2, <2>8
    <3>2. n \in s <=> (n \in u <=> n \in v)
      BY <2>3, <2>8
    <3>3. Overflows(u, v, n) <=> n \in u \/ n \in v
      BY <2>7, <2>8
    <3> HIDE DEF w, Out
    <3> QED
      BY <2>4, <2>5, <2>6, <3>1, <3>2, <3>3
  <2>9. CASE ~ carry
    <3>1. LowSum(s, n) = LowSum(u, n) + LowSum(v, n)
      BY <2>2, <2>5, <2>9
    <3>2. n \in s <=> ~ (n \in u <=> n \in v)
      BY <2>3, <2>9
    <3>3. Overflows(u, v, n) <=> n \in u /\ n \in v
      BY <2>7, <2>9
    <3> HIDE DEF w, Out
    <3> QED
      BY <2>4, <2>5, <2>6, <3>1, <3>2, <3>3
  <2> QED
    BY <2>8, <2>9
<1>3. Nat \subseteq S
  <2> HIDE DEF S
  <2> QED
    BY <1>1, <1>2, InductionSet
<1>4. M \in S
  BY <1>3
<1> QED
  BY <1>4

\* Without it they are the sum modulo 2^M.
LEMMA SumModulo ==
  ASSUME NEW u, NEW v, NEW s, NEW M \in Nat, SumBits(s, u, v, M)
  PROVE  LowSum(s, M) = (LowSum(u, M) + LowSum(v, M)) % 2^M
<1> DEFINE P == 2^M
           sum == LowSum(u, M) + LowSum(v, M)
           r == LowSum(s, M)
<1>1. r + (IF M > 0 /\ Overflows(u, v, M - 1) THEN P ELSE 0) = sum
  BY SumStep
<1>2. P \in Nat /\ P >= 1 /\ sum \in Nat /\ r \in Nat /\ r < P
  BY LowBound, PowPositive
<1>3. SUFFICES sum % P = r
  OBVIOUS
<1>4. sum = P * 1 + r \/ sum = P * 0 + r
  <2> HIDE DEF P, sum, r
  <2> QED
    BY <1>1, <1>2
<1> HIDE DEF P, sum, r
<1> QED
  BY <1>2, <1>4, DivModUnique

=============================================================================
