--------------------------- MODULE GroupByProofs ---------------------------
(***************************************************************************)
(* Proofs about GroupBy for tables and batches of every size, any keys and *)
(* attributes and words of any width: the scans and the rounds of odd-even *)
(* aggregation leave one row of each group, which holds what the function  *)
(* computes of the group.                                                  *)
(***************************************************************************)
EXTENDS GroupBy, FiniteSums

-----------------------------------------------------------------------------
(* The invariant. *)

Fn == in.fn
Key(r) == in.rows[r].key

\* The call is one of a function on a sorted table.
CallHeld ==
  /\ Fn \in Functions /\ Accepts(in)
  /\ N \in Sizes /\ DOMAIN in.rows = Index
  /\ in.batch \in Nat /\ in.batch >= 1
  /\ Fn \in Joins => in.right \in Rights
  /\ in.sel \in [Index -> {0, 1}]
  /\ in.rows \in [Index -> Row]
  /\ \A i, j \in Index : i <= j => Key(i) <= Key(j)
  /\ \A i \in Index : Key(i) = MaxWord => in.rows[i] = Masked /\ in.sel[i] = 0
  /\ Fn \in Unselective => \A i \in Index : in.sel[i] = 1

\* The rows from r on as the call gave them.
GivenFrom(r) ==
  \A i \in Index : i >= r => c[i] = in.rows[i] /\ sel[i] = in.sel[i] /\ cnt[i] = in.sel[i]

\* Row r was masked by a scan.
Discarded(r) ==
  /\ c[r] = Masked
  /\ Fn \in Counting => cnt[r] = MaskedCount
  /\ Fn \in Summing => sum[r] = MaskedCount
  /\ Fn = "distinct_linear" => ~Selected(r)

\* Row r holds what a scan computes of the rows "of" of its group.
Gathered(r, of) ==
  /\ Holds(r, of)
  /\ Selected(r) <=> of # {}
  /\ of = {} => c[r] = in.rows[r]

UpTo(r) == Chosen({j \in GroupOf(r) : j <= r})

Passed(r) ==
  IF Key(r) # Key(r + 1) /\ UpTo(r) # {} THEN Gathered(r, UpTo(r)) ELSE Discarded(r)

ScanHeld ==
  Fn \in Scans =>
    /\ pc \in {"first", "scan", "last", "done"}
    /\ at \in 0 .. N - 1
    /\ pc = "first" => Fn \in Joins /\ at = 0
    /\ pc = "scan" => at < N - 1
    /\ pc = "last" => at = N - 1 /\ Fn \notin Unselective
    /\ pc = "done" => at = N - 1
    /\ bs <=> at > 0 /\ Key(at - 1) = Key(at)
    /\ GivenFrom(at + 1)
    /\ pc = "first" => GivenFrom(0)
    /\ pc \in {"scan", "last"} \/ (pc = "done" /\ Fn \in Unselective) => Gathered(at, UpTo(at))
    /\ pc = "done" /\ Fn \notin Unselective =>
         IF UpTo(at) # {} THEN Gathered(at, UpTo(at))
         ELSE /\ c[at].key \in {Key(at), MaxWord}
              /\ ~bs \/ Key(at) = MaxWord => c[at] = Masked
              /\ Fn \in Counting => cnt[at] = 0
              /\ ~Selected(at)
    /\ \A r \in 0 .. at - 1 : Passed(r)

FirstOf(r) == Min(GroupOf(r))

\* Row r is left when a round with distance d/2 has compared it with the row before.
Left(r, d) == r - FirstOf(r) < d /\ (Fn \in MinMax /\ r >= d => in.sel[r] = 1)

\* The rows of r's group at multiples of d after it.
Every(r, d) == Chosen({j \in GroupOf(r) : j >= r /\ (j - r) % d = 0})

\* The rounds have masked row r or it holds the rows at multiples of far.
RowHeld(r, near, far) ==
  /\ IF Left(r, near) THEN Holds(r, Every(r, far)) ELSE c[r].key = MaxWord
  /\ Key(r) = MaxWord => c[r].key = MaxWord /\ cnt[r] = 0
  /\ Fn \notin MinMax /\ c[r].key = MaxWord => c[r] = Masked

\* In a round, the rows before "at" have been compared with a later one, and
\* those at distance dist from them with an earlier one.
Near(r) == IF r - dist \in 0 .. at - 1 THEN dist ELSE 2 * dist
Far(r) == IF r < at THEN dist ELSE 2 * dist

\* The rows that are left in the end.
Kept(r) == r = FirstOf(r) /\ Chosen(GroupOf(r)) # {}

Ended(r) ==
  IF Kept(r) THEN Holds(r, Chosen(GroupOf(r)))
  ELSE /\ c[r] = Masked
       /\ Fn \in Counting => cnt[r] \in {0, MaskedCount}
       /\ Fn \in Summing => sum[r] = 0

RoundHeld ==
  Fn \in OddEven =>
    /\ pc \in {"first", "rounds", "final", "done"}
    /\ pc = "rounds" => sel = in.sel
    /\ pc = "first" => /\ Fn \in Joins /\ at \in 0 .. N - 1
                       /\ dist = N \div 2 /\ GivenFrom(0)
                       /\ \A r \in 0 .. at - 1 : sum[r] = Matching(in.rows[r].lo)
    /\ pc = "rounds" => /\ \E k \in 0 .. N : dist = 2^k
                        /\ at \in 0 .. N - dist - 1
                        /\ \A r \in Index : RowHeld(r, Near(r), Far(r))
    /\ pc = "final" => /\ at \in 0 .. N - 1 /\ (at = 0 => sel = in.sel)
                       /\ \A r \in at .. N - 1 : RowHeld(r, 1, 1)
                       /\ \A r \in 0 .. at - 1 : Ended(r)
    /\ pc = "done" => \A r \in Index : Ended(r)

PairsHeld ==
  Fn = "distinct_batch" =>
    /\ pc \in {"pairs", "done"}
    /\ c = in.rows
    /\ at \in 0 .. N - 1
    /\ pc = "done" => at = N - 1
    /\ pc = "pairs" => at < N - 1
    /\ sel[0] = 1 /\ \A r \in 1 .. at : sel[r] = IF Key(r - 1) = Key(r) THEN 0 ELSE 1

DataInv == ScanHeld /\ RoundHeld /\ PairsHeld

\* Counts stay words: those of a scan grow by one row at a time, and a round
\* doubles them at most.
ScanCounts ==
  pc = "scan" /\ Fn \in Counting => cnt[at] <= at + 1 /\ \A r \in at + 1 .. N - 1 : cnt[r] <= 1

RoundCounts ==
  pc = "rounds" =>
    \E k \in 1 .. N :
      /\ k * (2 * dist) <= N
      /\ \A r \in Index : cnt[r] <= IF r < at THEN 2 * k ELSE k

PlaceHeld ==
  /\ pc = "scan" => at < N - 1
  /\ pc = "pairs" => at < N - 1
  /\ pc = "rounds" => dist >= 1 /\ at + dist < N
  /\ pc = "last" => at = N - 1
  /\ pc = "first" => dist >= 1 /\ dist < N /\ (Fn = "group_by_join" => at = 0)

TypeInv ==
  TypeOK /\ CallHeld /\ PlaceHeld /\ ScanCounts /\ (Fn \notin RoundSums => RoundCounts)

-----------------------------------------------------------------------------
(* The call. *)

LEMMA Words ==
  /\ MaxWord \in Nat /\ MaxWord >= 1 /\ MaxWord + 1 \in Nat
  /\ \A x, y \in Nat : Plus(x, y) \in 0 .. MaxWord
  /\ MaskedCount \in 0 .. MaxWord
  /\ Masked \in Row /\ Masked.key = MaxWord
<1>1. MaxWord \in Nat /\ MaxWord >= 1
  <2>1. MaxWord \in Nat /\ MaxWord % 2 = 1
    BY InputAssumption
  <2>2. MaxWord # 0
    BY <2>1
  <2> QED
    BY <2>1, <2>2
<1>2. ASSUME NEW x \in Nat, NEW y \in Nat PROVE Plus(x, y) \in 0 .. MaxWord
  <2>1. x + y \in Nat /\ MaxWord + 1 \in Nat /\ MaxWord + 1 >= 1
    BY <1>1
  <2>2. (x + y) % (MaxWord + 1) \in Nat /\ (x + y) % (MaxWord + 1) < MaxWord + 1
    BY <2>1, DivMod
  <2> QED
    BY <1>1, <2>2 DEF Plus
<1>3. MaskedCount \in 0 .. MaxWord
  BY <1>1, <1>2 DEF MaskedCount
<1> QED
  BY <1>1, <1>2, <1>3 DEF Masked, Row

LEMMA WordIsNat == \A x \in 0 .. MaxWord : x \in Nat /\ x <= MaxWord
BY Words

LEMMA Sizes2 ==
  ASSUME CallHeld
  PROVE  /\ N \in Nat /\ N >= 2 /\ N <= MaxWord
         /\ Index = 0 .. N - 1 /\ IsFiniteSet(Index)
         /\ Batch \in Nat /\ Batch >= 1
<1>1. N \in Nat /\ N >= 2 /\ N <= MaxWord
  BY InputAssumption, Words DEF CallHeld
<1>2. Batch \in Nat /\ Batch >= 1
  BY <1>1 DEF CallHeld, Batch
<1> QED
  BY <1>1, <1>2, FS_Interval DEF Index

LEMMA Kinds ==
  ASSUME CallHeld
  PROVE  Fn \in Scans \/ Fn \in OddEven \/ Fn = "distinct_batch"
BY InputAssumption DEF CallHeld

\* Init in parts.
LEMMA InitCall ==
  ASSUME Init
  PROVE  /\ CallHeld
         /\ \A i \in Index : in.rows[i].key # MaxWord => in.rows[i].lo = in.rows[i].hi
<1>1. PICK f \in Functions, n \in Sizes :
    \E key \in {k \in [0 .. n - 1 -> Keys] : Sorted(k)}, s \in Selections(f, n),
       value \in IF f \in MinMax \cup Summing THEN Values(n)
                ELSE {[i \in 0 .. n - 1 |-> 1]},
       b \in IF f \in Scans THEN {1} ELSE Batches,
       t \in IF f \in Joins THEN Rights ELSE {<<>>} :
      /\ \A i \in 0 .. n - 1 : key[i] = MaxWord => s[i] = 0
      /\ in = [fn |-> f, sel |-> s, batch |-> b, right |-> t,
               rows |-> [i \in 0 .. n - 1 |-> RowOf(key[i], value[i])]]
  BY DEF Init, Call
<1>2. PICK key \in {k \in [0 .. n - 1 -> Keys] : Sorted(k)}, s \in Selections(f, n),
       value \in IF f \in MinMax \cup Summing THEN Values(n)
                ELSE {[i \in 0 .. n - 1 |-> 1]},
       b \in IF f \in Scans THEN {1} ELSE Batches,
       t \in IF f \in Joins THEN Rights ELSE {<<>>} :
      /\ \A i \in 0 .. n - 1 : key[i] = MaxWord => s[i] = 0
      /\ in = [fn |-> f, sel |-> s, batch |-> b, right |-> t,
               rows |-> [i \in 0 .. n - 1 |-> RowOf(key[i], value[i])]]
  BY <1>1
<1>3. n \in Nat /\ n >= 2 /\ n <= MaxWord
  BY Words, InputAssumption
<1>4. /\ in.fn = f /\ in.sel = s /\ in.batch = b /\ in.right = t
      /\ in.rows = [i \in 0 .. n - 1 |-> RowOf(key[i], value[i])]
  BY <1>2
<1>5. N = n /\ Index = 0 .. n - 1
  <2>1. DOMAIN in.rows = 0 .. n - 1
    BY <1>4
  <2>2. Cardinality(0 .. n - 1) = n
    BY <1>3, FS_Interval
  <2> QED
    BY <2>1, <2>2 DEF N, Index
<1>6. value \in [0 .. n - 1 -> 0 .. MaxWord]
  BY Words, InputAssumption
<1>7. key \in [0 .. n - 1 -> 0 .. MaxWord]
  BY InputAssumption
<1>8. \A i \in 0 .. n - 1 : in.rows[i] = RowOf(key[i], value[i])
  BY <1>4
<1>9. \A i \in 0 .. n - 1 : /\ in.rows[i].key = key[i] /\ in.rows[i] \in Row
                            /\ key[i] = MaxWord => in.rows[i] = Masked
                            /\ key[i] # MaxWord => in.rows[i].lo = in.rows[i].hi
  <2> SUFFICES ASSUME NEW i \in 0 .. n - 1
               PROVE  /\ in.rows[i].key = key[i] /\ in.rows[i] \in Row
                      /\ key[i] = MaxWord => in.rows[i] = Masked
                      /\ key[i] # MaxWord => in.rows[i].lo = in.rows[i].hi
    OBVIOUS
  <2>1. key[i] \in 0 .. MaxWord /\ value[i] \in 0 .. MaxWord
    BY <1>6, <1>7
  <2>2. in.rows[i] = RowOf(key[i], value[i])
    BY <1>8
  <2>3. CASE key[i] = MaxWord
    BY <2>2, <2>3, Words DEF RowOf
  <2>4. CASE key[i] # MaxWord
    <3>1. in.rows[i] = [key |-> key[i], lo |-> value[i], hi |-> value[i]]
      BY <2>2, <2>4 DEF RowOf
    <3> QED
      BY <2>1, <2>4, <3>1 DEF Row
  <2> QED
    BY <2>3, <2>4
<1>10. in.rows \in [Index -> Row] /\ DOMAIN in.rows = Index
  BY <1>4, <1>5, <1>9
<1>11. \A i, j \in Index : i <= j => Key(i) <= Key(j)
  <2> SUFFICES ASSUME NEW i \in Index, NEW j \in Index, i <= j PROVE Key(i) <= Key(j)
    OBVIOUS
  <2>1. Key(i) = key[i] /\ Key(j) = key[j]
    BY <1>5, <1>9 DEF Key
  <2>2. key[i] \in 0 .. MaxWord /\ i \in 0 .. n - 1 /\ j \in 0 .. n - 1
    BY <1>5, <1>7
  <2>3. i < j => key[i] <= key[j]
    <3>1. DOMAIN key = 0 .. n - 1 /\ Sorted(key)
      BY <1>7
    <3>2. i \in DOMAIN key /\ j \in DOMAIN key
      BY <1>5, <3>1
    <3> QED
      BY <3>1, <3>2 DEF Sorted
  <2> QED
    BY <1>3, <2>1, <2>2, <2>3, Words
<1>12. in.sel \in [Index -> {0, 1}] /\ (Fn \in Unselective => \A i \in Index : in.sel[i] = 1)
  BY <1>4, <1>5 DEF Selections, Fn
<1>13. in.batch \in Nat /\ in.batch >= 1
  BY <1>4, InputAssumption
<1>14. Fn \in Joins => in.right \in Rights
  BY <1>4 DEF Fn
<1>15. Accepts(in) /\ Fn \in Functions
  BY <1>4 DEF Init, Fn
<1>16. \A i \in Index : Key(i) = MaxWord => in.rows[i] = Masked /\ in.sel[i] = 0
  BY <1>2, <1>4, <1>5, <1>9 DEF Key
<1> QED
  BY <1>5, <1>9, <1>10, <1>11, <1>12, <1>13, <1>14, <1>15, <1>16 DEF CallHeld, Key

\* A step leaves the call as it is.
LEMMA SameCall ==
  ASSUME CallHeld, in' = in
  PROVE  CallHeld' /\ N' = N /\ Index' = Index
BY DEF CallHeld, N, Index, Fn, Key

-----------------------------------------------------------------------------
(* Types. *)

LEMMA InitTypes == Init => TypeInv
<1> SUFFICES ASSUME Init PROVE TypeInv
  OBVIOUS
<1>1. CallHeld
  BY InitCall
<1>2. N \in Nat /\ N >= 2 /\ N <= MaxWord /\ Index = 0 .. N - 1
  BY <1>1, Sizes2
<1>3. c = in.rows /\ sel = in.sel /\ cnt = in.sel /\ at = 0 /\ bs = FALSE /\ dist = N \div 2
  BY DEF Init
<1>4. c \in [Index -> Row] /\ in.sel \in [Index -> {0, 1}]
  BY <1>1, <1>3 DEF CallHeld
<1>5. sel \in [Index -> {0, 1, MaxWord}] /\ cnt \in [Index -> 0 .. MaxWord]
  <2>1. {0, 1} \subseteq {0, 1, MaxWord} /\ {0, 1} \subseteq 0 .. MaxWord
    BY Words
  <2> QED
    BY <1>3, <1>4, <2>1
<1>6. sum \in [Index -> 0 .. MaxWord]
  <2>1. \A i \in Index : in.rows[i].lo \in 0 .. MaxWord
    BY <1>1 DEF CallHeld, Row
  <2>2. 0 \in 0 .. MaxWord
    BY Words
  <2> QED
    BY <2>1, <2>2 DEF Init
<1>7. dist \in 0 .. N \div 2 /\ dist >= 1 /\ 2 * dist <= N /\ at + dist < N
  <2>1. N \div 2 \in Nat /\ N \div 2 >= 1 /\ 2 * (N \div 2) <= N /\ N \div 2 < N
    BY <1>2
  <2> QED
    BY <1>2, <1>3, <2>1
<1>8. pc \in {"scan", "first", "pairs", "rounds"}
  BY DEF Init
<1>9. PlaceHeld
  BY <1>2, <1>3, <1>7, <1>8 DEF PlaceHeld
<1>10. \A r \in Index : cnt[r] \in 0 .. 1
  BY <1>3, <1>4
<1>11. ScanCounts
  BY <1>2, <1>3, <1>10 DEF ScanCounts
<1>12. RoundCounts
  <2>1. 1 \in 1 .. N /\ 1 * (2 * dist) <= N
    BY <1>2, <1>7
  <2>2. \A r \in Index : cnt[r] <= IF r < at THEN 2 * 1 ELSE 1
    BY <1>10
  <2> QED
    BY <2>1, <2>2 DEF RoundCounts
<1>13. TypeOK
  <2>1. at \in 0 .. N /\ in.fn \in Functions
    BY <1>1, <1>2, <1>3 DEF CallHeld, Fn
  <2>3. bs \in BOOLEAN
    BY <1>3
  <2>2. pc \in {"scan", "last", "pairs", "first", "rounds", "final", "done"}
    BY <1>8
  <2> QED
    BY <2>1, <2>2, <2>3, <1>4, <1>5, <1>6, <1>7 DEF TypeOK
<1> QED
  BY <1>1, <1>9, <1>11, <1>12, <1>13 DEF TypeInv

\* The types of a row and its bits, whether masked or not.
LEMMA MaskedType ==
  ASSUME NEW b, NEW S, NEW x \in S, NEW y \in S
  PROVE  MaskedIf(b, x, y) \in S
BY DEF MaskedIf

\* What the iterations of a scan have in common.
LEMMA MoveOnTypes ==
  ASSUME TypeInv, MoveOn, pc = "scan"
  PROVE  /\ CallHeld' /\ PlaceHeld' /\ in' = in /\ N' = N /\ Index' = Index
         /\ at \in Index /\ at + 1 \in Index /\ at' = at + 1 /\ at' \in 0 .. N
         /\ bs' \in BOOLEAN /\ dist' \in 0 .. N \div 2
         /\ pc' \in {"scan", "done", "last"} /\ RoundCounts'
<1>1. CallHeld /\ at \in 0 .. N /\ at < N - 1 /\ dist \in 0 .. N \div 2
  BY DEF TypeInv, TypeOK, PlaceHeld
<1>2. N \in Nat /\ Index = 0 .. N - 1
  BY <1>1, Sizes2
<1>3. /\ at' = at + 1 /\ in' = in /\ dist' = dist /\ bs' \in BOOLEAN
      /\ pc' = IF at + 1 < N - 1 THEN "scan"
               ELSE IF in.fn \in Unselective THEN "done" ELSE "last"
  BY DEF MoveOn, Same
<1>4. CallHeld' /\ N' = N /\ Index' = Index
  BY <1>1, <1>3, SameCall
<1>5. PlaceHeld'
  BY <1>1, <1>2, <1>3, <1>4 DEF PlaceHeld
<1>6. pc' \in {"scan", "done", "last"}
  BY <1>3
<1>7. RoundCounts'
  BY <1>6 DEF RoundCounts
<1> QED
  BY <1>1, <1>2, <1>3, <1>4, <1>5, <1>6, <1>7

\* The sum over the rows of the right table with a given attribute is a word.
LEMMA MatchingType ==
  ASSUME CallHeld, Fn \in Joins
  PROVE  \A x : Matching(x) \in 0 .. MaxWord
<1> SUFFICES ASSUME NEW x PROVE Matching(x) \in 0 .. MaxWord
  OBVIOUS
<1> DEFINE t == in.right
           S == {k \in DOMAIN t : t[k].key = x}
           w == [k \in S |-> t[k].val]
           it == CHOOSE g : g = [s \in SUBSET S |->
                   IF s = {} THEN 0 ELSE t[First(s)].val + g[s \ {First(s)}]]
<1>1. t \in Rights /\ IsFiniteSet(DOMAIN t) /\ \A k \in DOMAIN t : t[k].val \in Nat
  <2>1. t \in Rights
    BY DEF CallHeld
  <2>2. IsFiniteSet(DOMAIN t) /\ \A k \in DOMAIN t : t[k].val \in 0 .. MaxWord
    BY <2>1, InputAssumption
  <2>3. 0 .. MaxWord \subseteq Nat
    BY Words
  <2> HIDE DEF t
  <2> QED
    BY <2>1, <2>2, <2>3
<1>2. IsFiniteSet(S) /\ \A k \in S : w[k] = t[k].val /\ w[k] \in Nat
  BY <1>1, FS_Subset
<1>3. Matching(x) = it[S] % (MaxWord + 1)
  BY DEF Matching, MapThenSumSet, MapThenFoldSet, First
<1> HIDE DEF S, w, t
<1>4. \A g : Sums(g, w, S) <=> g = [s \in SUBSET S |->
                   IF s = {} THEN 0 ELSE t[First(s)].val + g[s \ {First(s)}]]
  <2>1. \A s \in SUBSET S : s # {} => w[First(s)] = t[First(s)].val
    BY <1>2, FirstType
  <2> QED
    BY <2>1 DEF Sums
<1>5. \E g : Sums(g, w, S)
  BY <1>2, SumsExist
<1>6. Sums(it, w, S)
  BY <1>4, <1>5
<1> HIDE DEF it
<1>7. \A s \in SUBSET S : it[s] \in Nat
  BY <1>2, <1>6, SumsType
<1>8. it[S] \in Nat /\ MaxWord + 1 \in Nat /\ MaxWord + 1 >= 1
  BY <1>7, Words
<1>9. it[S] % (MaxWord + 1) \in Nat /\ it[S] % (MaxWord + 1) < MaxWord + 1
  BY <1>8, DivMod
<1> QED
  BY <1>3, <1>9, Words

LEMMA ScanTypes ==
  ASSUME TypeInv, ScanDistinct \/ ScanCount \/ ScanMinMax \/ ScanJoin
  PROVE  TypeInv'
<1>1. pc = "scan" /\ MoveOn
  BY DEF ScanDistinct, ScanCount, ScanMinMax, ScanJoin
<1>2. /\ CallHeld' /\ PlaceHeld' /\ in' = in /\ N' = N /\ Index' = Index
      /\ at \in Index /\ at + 1 \in Index /\ at' = at + 1 /\ at' \in 0 .. N
      /\ bs' \in BOOLEAN /\ dist' \in 0 .. N \div 2
      /\ pc' \in {"scan", "done", "last"} /\ RoundCounts'
  BY <1>1, MoveOnTypes
<1>3. TypeOK /\ CallHeld /\ ScanCounts
  BY DEF TypeInv
<1>4. N \in Nat /\ N >= 2 /\ N <= MaxWord /\ Index = 0 .. N - 1
  BY <1>3, Sizes2
<1>5. /\ c \in [Index -> Row] /\ sel \in [Index -> {0, 1, MaxWord}]
      /\ cnt \in [Index -> 0 .. MaxWord] /\ sum \in [Index -> 0 .. MaxWord]
  BY <1>3 DEF TypeOK
<1>6. /\ 0 \in {0, 1, MaxWord} /\ MaxWord \in {0, 1, MaxWord}
      /\ Masked \in Row /\ MaskedCount \in 0 .. MaxWord
  BY Words
<1>7. Propagated(at) \in {0, 1, MaxWord}
  BY <1>2, <1>5 DEF Propagated
<1>8. c' \in [Index -> Row] /\ sel' \in [Index -> {0, 1, MaxWord}]
  <2>1. CASE ScanDistinct
    <3>1. c' = [c EXCEPT ![at] = MaskedIf(Merged(at), c[at], Masked)]
      BY <2>1 DEF ScanDistinct
    <3>2. sel' = [sel EXCEPT ![at + 1] = Propagated(at),
                             ![at] = IF Same(at, at + 1) THEN 0
                                     ELSE sel[at]]
      BY <2>1 DEF ScanDistinct
    <3> QED
      BY <3>1, <3>2, <1>2, <1>5, <1>6, <1>7, MaskedType
  <2>2. CASE ScanCount
    <3>1. c' = [c EXCEPT ![at] = MaskedIf(Merged(at), c[at], Masked)]
      BY <2>2 DEF ScanCount
    <3>2. sel' = sel \/ sel' = [sel EXCEPT ![at + 1] = Propagated(at)]
      BY <2>2 DEF ScanCount
    <3> QED
      BY <3>1, <3>2, <1>2, <1>5, <1>6, <1>7, MaskedType
  <2>3. CASE ScanMinMax
    <3>1. c' = [c EXCEPT ![at] = MaskedIf(Merged(at), c[at], Masked), ![at + 1] = Extremes(at)]
      BY <2>3 DEF ScanMinMax
    <3>2. sel' = [sel EXCEPT ![at] = MaskedIf(Merged(at), sel[at], MaxWord),
                             ![at + 1] = Propagated(at)]
      BY <2>3 DEF ScanMinMax
    <3>3. Extremes(at) \in Row
      <4>1. c[at] \in Row /\ c[at + 1] \in Row
        BY <1>2, <1>5
      <4> QED
        BY <4>1 DEF Extremes, Row
    <3> QED
      BY <3>1, <3>2, <3>3, <1>2, <1>5, <1>6, <1>7, MaskedType
  <2>4. CASE ScanJoin
    <3>1. c' = [c EXCEPT ![at] = MaskedIf(~BeginsGroup(at + 1), c[at], Masked)] /\ sel' = sel
      BY <2>4 DEF ScanJoin
    <3> QED
      BY <3>1, <1>2, <1>5, <1>6, MaskedType
  <2> QED
    BY <2>1, <2>2, <2>3, <2>4
<1>9. sum' \in [Index -> 0 .. MaxWord]
  <2>1. CASE sum' = sum
    BY <2>1, <1>5
  <2>2. CASE ScanJoin
    <3> DEFINE own == Matching(c[at + 1].lo)
               x == IF BeginsGroup(at + 1) THEN own ELSE Plus(sum[at], own)
    <3>1. sum' = [sum EXCEPT ![at + 1] = x,
                    ![at] = MaskedIf(~BeginsGroup(at + 1), sum[at], MaskedCount)]
      BY <2>2 DEF ScanJoin
    <3>2. own \in 0 .. MaxWord
      BY <2>2, <1>3, MatchingType DEF ScanJoin, Joins, Fn
    <3>3. x \in 0 .. MaxWord
      <4>1. sum[at] \in Nat /\ own \in Nat
        BY <1>2, <1>5, <3>2, Words
      <4> QED
        BY <3>2, <4>1, Words
    <3> HIDE DEF x
    <3> QED
      BY <3>1, <3>3, <1>2, <1>5, <1>6, MaskedType
  <2> QED
    BY <2>1, <2>2 DEF ScanDistinct, ScanCount, ScanMinMax
<1>10. cnt' \in [Index -> 0 .. MaxWord] /\ ScanCounts'
  <2>1. CASE ScanCount
    <3>1. Fn \in Counting
      BY <2>1 DEF ScanCount, Fn, Counting
    <3>2. cnt[at] \in 0 .. at + 1 /\ \A r \in at + 1 .. N - 1 : cnt[r] <= 1
      BY <3>1, <1>1, <1>2, <1>3, <1>4, <1>5 DEF ScanCounts
    <3>9. at \in Nat /\ at + 2 <= N
      BY <1>2, <1>4
    <3>3. Counted(at) \in 0 .. at + 2
      <4>1. cnt[at + 1] \in 0 .. MaxWord /\ cnt[at + 1] <= 1
        BY <1>2, <1>4, <1>5, <3>2
      <4>2. cnt[at + 1] \in 0 .. 1
        <5>1. PICK x : x = cnt[at + 1]
          OBVIOUS
        <5>2. x \in 0 .. MaxWord /\ x <= 1 /\ MaxWord \in Nat
          BY <4>1, <5>1, Words
        <5> QED
          BY <5>1, <5>2
      <4> QED
        BY <3>2, <4>2, <3>9 DEF Counted
    <3>4. cnt' = [cnt EXCEPT ![at + 1] = Counted(at),
                    ![at] = MaskedIf(Merged(at), cnt[at], MaskedCount)]
      BY <2>1 DEF ScanCount
    <3>5. Counted(at) \in 0 .. MaxWord
      BY <3>3, <3>9, <1>4, Words
    <3>6. cnt' \in [Index -> 0 .. MaxWord]
      BY <3>4, <3>5, <1>2, <1>5, <1>6, MaskedType
    <3>7. cnt'[at + 1] = Counted(at) /\ \A r \in at + 2 .. N - 1 : cnt'[r] = cnt[r]
      BY <3>4, <1>2, <1>4, <1>5
    <3>8. cnt'[at'] <= at' + 1 /\ \A r \in at' + 1 .. N' - 1 : cnt'[r] <= 1
      BY <3>2, <3>3, <3>7, <1>2, <1>4
    <3> QED
      BY <3>6, <3>8 DEF ScanCounts
  <2>2. CASE ~ ScanCount
    <3>1. Fn \notin Counting
      BY <2>2 DEF ScanDistinct, ScanMinMax, ScanJoin, Fn, Counting
    <3>2. ScanCounts'
      BY <3>1, <1>2 DEF ScanCounts, Fn
    <3>3. CASE cnt' = cnt
      BY <3>2, <3>3, <1>5
    <3>4. CASE ScanJoin
      <4>1. cnt' = [cnt EXCEPT ![at] = MaskedIf(~BeginsGroup(at + 1), cnt[at], MaskedCount)]
        BY <3>4 DEF ScanJoin
      <4> QED
        BY <4>1, <3>2, <1>2, <1>5, <1>6, MaskedType
    <3> QED
      BY <2>2, <3>3, <3>4 DEF ScanDistinct, ScanMinMax
  <2> QED
    BY <2>1, <2>2
<1>11. TypeOK'
  <2>1. in.fn \in Functions
    BY <1>3 DEF TypeOK
  <2>2. pc' \in {"scan", "last", "pairs", "first", "rounds", "final", "done"}
    BY <1>2
  <2> QED
    BY <2>1, <2>2, <1>2, <1>8, <1>9, <1>10 DEF TypeOK
<1> QED
  BY <1>2, <1>10, <1>11 DEF TypeInv

\* What the batches of a round have in common.
LEMMA NextBatchTypes ==
  ASSUME TypeInv, NextBatch, pc = "rounds"
  PROVE  /\ CallHeld' /\ PlaceHeld' /\ ScanCounts' /\ in' = in /\ N' = N /\ Index' = Index
         /\ at' \in 0 .. N /\ bs' = bs /\ dist' \in 0 .. N \div 2
         /\ pc' \in {"rounds", "final"}
         /\ End \in Nat /\ End > at /\ End + dist <= N /\ Pairs = at .. End - 1
         /\ dist \in Nat /\ dist >= 1 /\ at \in Nat
         /\ \/ End + dist < N /\ at' = End /\ dist' = dist /\ pc' = "rounds"
            \/ End + dist = N /\ at' = 0 /\ 2 * dist' <= dist /\ (dist' >= 1 \/ pc' = "final")
<1>1. CallHeld /\ TypeOK /\ PlaceHeld
  BY DEF TypeInv
<1>2. N \in Nat /\ N >= 2 /\ Index = 0 .. N - 1 /\ Batch \in Nat /\ Batch >= 1
  BY <1>1, Sizes2
<1>3. at \in Nat /\ dist \in Nat /\ dist >= 1 /\ at + dist < N /\ N \div 2 \in Nat /\ dist <= N \div 2
  BY <1>1, <1>2 DEF TypeOK, PlaceHeld
<1>4. End \in Nat /\ End > at /\ End + dist <= N
  BY <1>2, <1>3 DEF End
<1>5. in' = in /\ bs' = bs
  BY DEF NextBatch
<1>6. CallHeld' /\ N' = N /\ Index' = Index
  BY <1>1, <1>5, SameCall
<1>7. CASE End < N - dist
  <2>1. at' = End /\ dist' = dist /\ pc' = "rounds"
    BY <1>7 DEF NextBatch
  <2>2. at' \in 0 .. N /\ dist' \in 0 .. N \div 2 /\ at' + dist' < N
    BY <2>1, <1>2, <1>3, <1>4, <1>7
  <2>3. PlaceHeld' /\ ScanCounts'
    BY <2>1, <2>2, <1>3, <1>6 DEF PlaceHeld, ScanCounts
  <2>4. End + dist < N
    BY <1>2, <1>3, <1>4, <1>7
  <2> QED
    BY <2>1, <2>2, <2>3, <2>4, <1>3, <1>4, <1>5, <1>6 DEF Pairs
<1>8. CASE ~ (End < N - dist)
  <2>1. at' = 0 /\ dist' = dist \div 2 /\ pc' = IF dist = 1 THEN "final" ELSE "rounds"
    BY <1>8 DEF NextBatch
  <2>2. End + dist = N
    BY <1>2, <1>3, <1>4, <1>8
  <2>3. dist \div 2 \in Nat /\ 2 * (dist \div 2) <= dist /\ (dist # 1 => dist \div 2 >= 1)
    BY <1>3
  <2>4. dist' \in 0 .. N \div 2 /\ 2 * dist' <= dist /\ (dist' >= 1 \/ pc' = "final")
        /\ pc' \in {"rounds", "final"} /\ at' \in 0 .. N
    BY <2>1, <2>3, <1>2, <1>3
  <2>5. PlaceHeld'
    <3>1. dist' < N
      BY <2>1, <2>3, <1>2, <1>3
    <3> QED
      BY <3>1, <2>1, <2>4, <1>2, <1>6 DEF PlaceHeld
  <2>6. ScanCounts'
    BY <2>4 DEF ScanCounts
  <2> QED
    BY <2>1, <2>2, <2>4, <2>5, <2>6, <1>3, <1>4, <1>5, <1>6 DEF Pairs
<1> QED
  BY <1>7, <1>8

LEMMA AccumulatedType ==
  ASSUME CallHeld, NEW col \in [Index -> 0 .. MaxWord], NEW r \in Index,
         r \in Pairs => r + dist \in Index
  PROVE  Accumulated(col, r) \in 0 .. MaxWord /\ Cleared(col, r) \in 0 .. MaxWord
<1>1. col[r] \in 0 .. MaxWord /\ 0 \in 0 .. MaxWord
  BY Words
<1>2. Cleared(col, r) \in 0 .. MaxWord
  BY <1>1 DEF Cleared
<1>3. CASE r \in Pairs
  <2>1. col[r + dist] \in 0 .. MaxWord
    BY <1>3
  <2>2. col[r] \in Nat /\ col[r + dist] \in Nat
    BY <1>1, <2>1, WordIsNat
  <2>3. Plus(col[r], col[r + dist]) \in 0 .. MaxWord
    BY <2>2, Words
  <2> QED
    BY <1>1, <1>2, <1>3, <2>3 DEF Accumulated
<1>4. CASE r \notin Pairs
  BY <1>2, <1>4 DEF Accumulated
<1> QED
  BY <1>2, <1>3, <1>4

\* Half the distance for twice the count.
LEMMA HalvedDistance ==
  ASSUME NEW k \in Nat, NEW d \in Nat, NEW e \in Nat, NEW n \in Nat,
         k * (2 * d) <= n, 2 * e <= d
  PROVE  (2 * k) * (2 * e) <= n
<1>1. PICK x : x = 2 * e
  OBVIOUS
<1>2. x \in Nat /\ x <= d
  BY <1>1
<1>3. k * x \in Nat /\ k * d \in Nat /\ k * x <= k * d
  BY <1>2
<1>4. (2 * k) * (2 * e) = 2 * (k * x) /\ k * (2 * d) = 2 * (k * d)
  BY <1>1, <1>2
<1> QED
  BY <1>3, <1>4

LEMMA RoundTypes ==
  ASSUME TypeInv, RoundCount \/ RoundSum \/ RoundMinMax
  PROVE  TypeInv'
<1>1. pc = "rounds" /\ NextBatch
  BY DEF RoundCount, RoundSum, RoundMinMax
<1>2. /\ CallHeld' /\ PlaceHeld' /\ ScanCounts' /\ in' = in /\ N' = N /\ Index' = Index
      /\ at' \in 0 .. N /\ bs' = bs /\ dist' \in 0 .. N \div 2
      /\ pc' \in {"rounds", "final"}
      /\ End \in Nat /\ End > at /\ End + dist <= N /\ Pairs = at .. End - 1
      /\ dist \in Nat /\ dist >= 1 /\ at \in Nat
      /\ \/ End + dist < N /\ at' = End /\ dist' = dist /\ pc' = "rounds"
         \/ End + dist = N /\ at' = 0 /\ 2 * dist' <= dist /\ (dist' >= 1 \/ pc' = "final")
  BY <1>1, NextBatchTypes
<1>3. TypeOK /\ CallHeld
  BY DEF TypeInv
<1>4. N \in Nat /\ N >= 2 /\ N <= MaxWord /\ Index = 0 .. N - 1
  BY <1>3, Sizes2
<1>5. /\ c \in [Index -> Row] /\ sel \in [Index -> {0, 1, MaxWord}]
      /\ cnt \in [Index -> 0 .. MaxWord] /\ sum \in [Index -> 0 .. MaxWord]
  BY <1>3 DEF TypeOK
<1>6. sel' = sel
  BY DEF RoundCount, RoundSum, RoundMinMax
<1>7. \A r \in Index : r \in Pairs => r + dist \in Index
  BY <1>2, <1>4
<1>8. c' \in [Index -> Row]
  <2>1. CASE RoundCount \/ RoundSum
    <3>1. c' = [r \in Index |->
             MaskedIf(r - dist \in Pairs /\ Same(r - dist, r), c[r], Masked)]
      BY <2>1 DEF RoundCount, RoundSum
    <3>2. \A r \in Index : c[r] \in Row /\ Masked \in Row
      BY <1>5, Words
    <3> QED
      BY <3>1, <3>2, MaskedType
  <2>2. CASE RoundMinMax
    <3> DEFINE masked == [r \in Index |->
                      MaskedIf(r - dist \in Pairs /\ Dropped(r - dist), c[r], Masked)]
    <3>1. c' = [r \in Index |->
                 IF r \in Pairs
                 THEN [masked[r] EXCEPT !.lo = NewLo(r), !.hi = NewHi(r)]
                 ELSE masked[r]]
      BY <2>2 DEF RoundMinMax
    <3>2. \A r \in Index : masked[r] \in Row
      <4>1. \A r \in Index : c[r] \in Row /\ Masked \in Row
        BY <1>5, Words
      <4> QED
        BY <4>1, MaskedType
    <3> HIDE DEF masked
    <3>3. \A r \in Index : r \in Pairs => NewLo(r) \in 0 .. MaxWord /\ NewHi(r) \in 0 .. MaxWord
      <4>1. \A r \in Index : c[r].lo \in 0 .. MaxWord /\ c[r].hi \in 0 .. MaxWord
        BY <1>5 DEF Row
      <4> QED
        BY <4>1, <1>7 DEF NewLo, NewHi
    <3>4. \A r \in Index : r \in Pairs =>
            [masked[r] EXCEPT !.lo = NewLo(r), !.hi = NewHi(r)] \in Row
      <4> SUFFICES ASSUME NEW r \in Index, r \in Pairs
                   PROVE  [masked[r] EXCEPT !.lo = NewLo(r), !.hi = NewHi(r)] \in Row
        OBVIOUS
      <4>1. masked[r] \in Row /\ NewLo(r) \in 0 .. MaxWord /\ NewHi(r) \in 0 .. MaxWord
        BY <3>2, <3>3
      <4> HIDE DEF NewLo, NewHi
      <4> QED
        BY <4>1 DEF Row
    <3> QED
      BY <3>1, <3>2, <3>4
  <2> QED
    BY <2>1, <2>2
<1>9. sum' \in [Index -> 0 .. MaxWord]
  <2>1. CASE RoundSum
    <3>1. sum' = [r \in Index |-> Accumulated(sum, r)]
      BY <2>1 DEF RoundSum
    <3>2. \A r \in Index : Accumulated(sum, r) \in 0 .. MaxWord
      BY <1>3, <1>5, <1>7, AccumulatedType
    <3> QED
      BY <3>1, <3>2
  <2>2. CASE ~ RoundSum
    BY <2>2, <1>5 DEF RoundCount, RoundMinMax
  <2> QED
    BY <2>1, <2>2
<1>10. cnt' \in [Index -> 0 .. MaxWord] /\ (Fn \notin RoundSums => RoundCounts)'
  <2>1. CASE RoundSum
    <3>1. Fn \in RoundSums
      BY <2>1 DEF RoundSum, Fn
    <3>2. (Fn \in RoundSums)'
      BY <3>1, <1>2 DEF Fn
    <3>3. cnt' = [r \in Index |-> IF in.fn \in Counting THEN Accumulated(cnt, r)
                             ELSE Cleared(cnt, r)]
      BY <2>1 DEF RoundSum
    <3>4. \A r \in Index : Accumulated(cnt, r) \in 0 .. MaxWord /\ Cleared(cnt, r) \in 0 .. MaxWord
      BY <1>3, <1>5, <1>7, AccumulatedType
    <3> QED
      BY <3>2, <3>3, <3>4
  <2>2. CASE ~ RoundSum
    <3>1. Fn \notin RoundSums
      BY <2>2 DEF RoundCount, RoundMinMax, Fn, RoundSums
    <3>2. PICK k \in 1 .. N : /\ k * (2 * dist) <= N
                              /\ \A r \in Index : cnt[r] <= IF r < at THEN 2 * k ELSE k
      BY <3>1, <1>1 DEF TypeInv, RoundCounts
    <3>3. k \in Nat /\ k >= 1 /\ k * dist \in Nat /\ k <= k * dist /\ 2 * (k * dist) <= N
      <4>1. k \in Nat /\ k >= 1 /\ k * (2 * dist) <= N
        BY <1>4, <3>2
      <4>2. k * (2 * dist) = 2 * (k * dist) /\ k * dist \in Nat /\ k <= k * dist
        BY <4>1, <1>2
      <4> QED
        BY <4>1, <4>2
    <3>7. k \in Nat /\ k >= 1 /\ 2 * k <= N
      <4>1. PICK y : y = k * dist
        OBVIOUS
      <4>2. y \in Nat /\ k \in Nat /\ k >= 1 /\ k <= y /\ 2 * y <= N
        BY <4>1, <3>3
      <4> QED
        BY <4>2, <1>4
    <3>8. dist \in Nat
      BY <1>2
    <3>4. ASSUME NEW r \in Index
          PROVE  cnt'[r] \in Nat /\ cnt'[r] <= IF r < End THEN 2 * k ELSE k
      <4>1. r \in Nat /\ cnt[r] \in Nat /\ cnt[r] <= IF r < at THEN 2 * k ELSE k
        <5>1. r \in Nat
          BY <1>4
        <5>2. cnt[r] \in 0 .. MaxWord
          BY <1>5
        <5> QED
          BY <5>1, <5>2, <3>2, WordIsNat
      <4>2. CASE RoundCount
        <5>1. cnt'[r] = IF r \in Pairs /\ Same(r, r + dist) THEN cnt[r] + cnt[r + dist]
                        ELSE cnt[r]
          BY <4>2 DEF RoundCount
        <5>2. CASE r \in Pairs /\ Same(r, r + dist)
          <6>1. r + dist \in Index /\ ~ (r < at) /\ ~ (r + dist < at) /\ r < End
            BY <5>2, <1>2, <1>7, <4>1
          <6>2. cnt[r + dist] \in Nat /\ cnt[r + dist] <= k
            BY <6>1, <1>5, <3>2, Words
          <6> QED
            BY <5>1, <5>2, <6>1, <6>2, <4>1, <3>3
        <5>3. CASE ~ (r \in Pairs /\ Same(r, r + dist))
          BY <5>1, <5>3, <4>1, <3>3, <1>2
        <5> QED
          BY <5>2, <5>3
      <4>3. CASE RoundMinMax
        <5>1. cnt' = cnt
          BY <4>3 DEF RoundMinMax
        <5> QED
          BY <5>1, <4>1, <3>3, <1>2
      <4> QED
        BY <2>2, <4>2, <4>3
    <3>5. cnt' \in [Index -> 0 .. MaxWord]
      <4>1. cnt' \in [Index -> Nat]
        <5>1. cnt' = [i \in Index |-> cnt'[i]]
          BY <2>2, <1>5 DEF RoundCount, RoundMinMax
        <5> QED
          BY <5>1, <3>4
      <4>2. \A r \in Index : cnt'[r] <= MaxWord
        <5> SUFFICES ASSUME NEW r \in Index PROVE cnt'[r] <= MaxWord
          OBVIOUS
        <5>1. PICK x : x = cnt'[r]
          OBVIOUS
        <5>2. x \in Nat /\ x <= 2 * k /\ 2 * k <= N
          <6>1. x \in Nat /\ x <= IF r < End THEN 2 * k ELSE k
            BY <5>1, <3>4
          <6> QED
            BY <6>1, <3>7
        <5>3. N <= MaxWord /\ N \in Nat /\ MaxWord \in Nat
          BY <1>4, Words
        <5>4. x <= MaxWord
          BY <5>2, <5>3, <3>7
        <5> QED
          BY <5>1, <5>4
      <4> QED
        BY <4>1, <4>2, Words
    <3>6. RoundCounts'
      <4>1. CASE End + dist < N /\ at' = End /\ dist' = dist
        BY <4>1, <1>2, <3>2, <3>4 DEF RoundCounts
      <4>2. CASE End + dist = N /\ at' = 0 /\ 2 * dist' <= dist
        <5> SUFFICES ASSUME pc' = "rounds" PROVE RoundCounts'
          BY DEF RoundCounts
        <5>1. dist' \in Nat /\ dist' >= 1
          <6>1. dist' \in 0 .. N \div 2 /\ N \div 2 \in Nat
            BY <1>2, <1>4
          <6>2. dist' >= 1
            BY <1>2, <4>2
          <6> QED
            BY <6>1, <6>2
        <5>2. 2 * k \in 1 .. N
          BY <1>4, <3>3
        <5>3. (2 * k) * (2 * dist') <= N
          BY <5>1, <4>2, <3>2, <3>7, <3>8, <1>4, HalvedDistance
        <5>4. \A r \in Index : cnt'[r] <= 2 * k /\ ~ (r < at')
          <6>1. \A r \in Index : r >= 0
            BY <1>4
          <6>2. ASSUME NEW r \in Index PROVE cnt'[r] <= 2 * k /\ ~ (r < at')
            <7>1. PICK x : x = cnt'[r]
              OBVIOUS
            <7>2. x \in Nat /\ x <= IF r < End THEN 2 * k ELSE k
              BY <7>1, <3>4
            <7>3. x <= 2 * k /\ r \in Nat
              BY <7>2, <3>3, <1>4
            <7> QED
              BY <7>1, <7>3, <4>2
          <6> QED
            BY <6>2
        <5> QED
          BY <5>2, <5>3, <5>4, <1>2 DEF RoundCounts
      <4> QED
        BY <4>1, <4>2, <1>2
    <3> QED
      BY <3>5, <3>6
  <2> QED
    BY <2>1, <2>2
<1>11. TypeOK'
  <2>1. in.fn \in Functions /\ bs \in BOOLEAN
    BY <1>3 DEF TypeOK
  <2>2. pc' \in {"scan", "last", "pairs", "first", "rounds", "final", "done"}
    BY <1>2
  <2> QED
    BY <2>1, <2>2, <1>2, <1>5, <1>6, <1>8, <1>9, <1>10 DEF TypeOK
<1> QED
  BY <1>2, <1>10, <1>11 DEF TypeInv

\* A step that leaves the scans and rounds, or none.
LEMMA OtherTypes ==
  ASSUME TypeInv, MaskLast \/ JoinStart \/ DistinctBatch \/ JoinFirst \/ Final
  PROVE  TypeInv'
<1>1. TypeOK /\ CallHeld /\ PlaceHeld
  BY DEF TypeInv
<1>2. N \in Nat /\ N >= 2 /\ N <= MaxWord /\ Index = 0 .. N - 1 /\ Batch \in Nat /\ Batch >= 1
  BY <1>1, Sizes2
<1>3. /\ c \in [Index -> Row] /\ sel \in [Index -> {0, 1, MaxWord}]
      /\ cnt \in [Index -> 0 .. MaxWord] /\ sum \in [Index -> 0 .. MaxWord]
      /\ at \in Nat /\ at <= N /\ bs \in BOOLEAN /\ dist \in 0 .. N \div 2
      /\ in.fn \in Functions
  <2>1. at \in Nat /\ at <= N
    BY <1>1, <1>2 DEF TypeOK
  <2>2. bs \in BOOLEAN
    BY <1>1 DEF TypeOK
  <2> QED
    BY <2>1, <2>2, <1>1 DEF TypeOK
<1>4. in' = in /\ bs' = bs /\ dist' = dist
  BY DEF MaskLast, JoinStart, DistinctBatch, JoinFirst, Final
<1>5. CallHeld' /\ N' = N /\ Index' = Index
  BY <1>1, <1>4, SameCall
<1>6. /\ 0 \in {0, 1, MaxWord} /\ 1 \in {0, 1, MaxWord} /\ MaxWord \in {0, 1, MaxWord}
      /\ 0 \in 0 .. MaxWord /\ Masked \in Row /\ MaskedCount \in 0 .. MaxWord
  BY Words
<1>7. SUFFICES ASSUME TRUE
      PROVE  /\ c' \in [Index -> Row] /\ sel' \in [Index -> {0, 1, MaxWord}]
             /\ cnt' \in [Index -> 0 .. MaxWord] /\ sum' \in [Index -> 0 .. MaxWord]
             /\ pc' \in {"scan", "last", "pairs", "first", "rounds", "final", "done"}
             /\ at' \in 0 .. N
             /\ PlaceHeld' /\ ScanCounts' /\ (Fn \notin RoundSums => RoundCounts)'
  <2>1. bs' \in BOOLEAN
    BY <1>3, <1>4
  <2>2. in'.fn \in Functions /\ dist' \in 0 .. N \div 2
    BY <1>3, <1>4
  <2>3. TypeOK'
    BY <2>1, <2>2, <1>5, <1>7 DEF TypeOK
  <2> QED
    BY <2>3, <1>5, <1>7 DEF TypeInv
<1>8. CASE MaskLast
  <2>1. /\ c' = [c EXCEPT ![N - 1] = MaskedIf(LastUnselected, c[N - 1], Masked)]
        /\ pc' = "done" /\ sel' = sel /\ cnt' = cnt /\ sum' = sum /\ at' = at
    BY <1>8 DEF MaskLast
  <2>2. N - 1 \in Index /\ at \in 0 .. N
    BY <1>2, <1>3
  <2>3. c' \in [Index -> Row]
    BY <2>1, <2>2, <1>3, <1>6, MaskedType
  <2>4. PlaceHeld' /\ ScanCounts' /\ (Fn \notin RoundSums => RoundCounts)'
    BY <2>1 DEF PlaceHeld, ScanCounts, RoundCounts
  <2> QED
    BY <2>1, <2>2, <2>3, <2>4, <1>3
<1>9. CASE JoinStart
  <2>1. /\ sum' = [sum EXCEPT ![0] = Matching(c[0].lo)]
        /\ pc' = "scan" /\ sel' = sel /\ cnt' = cnt /\ c' = c /\ at' = at
        /\ Fn = "group_by_join" /\ pc = "first"
    BY <1>9 DEF JoinStart, Fn
  <2>2. Matching(c[0].lo) \in 0 .. MaxWord
    BY <2>1, <1>1, MatchingType DEF Joins
  <2>3. sum' \in [Index -> 0 .. MaxWord]
    BY <2>1, <2>2, <1>3
  <2>4. at' = 0 /\ at' \in 0 .. N /\ at' < N - 1
    BY <2>1, <1>1, <1>2 DEF PlaceHeld
  <2>5. PlaceHeld' /\ (Fn \notin RoundSums => RoundCounts)'
    BY <2>1, <2>4, <1>5 DEF PlaceHeld, RoundCounts
  <2>6. ScanCounts'
    BY <2>1, <1>4 DEF ScanCounts, Fn, Counting
  <2> QED
    BY <2>1, <2>3, <2>4, <2>5, <2>6, <1>3
<1>10. CASE DistinctBatch
  <2> DEFINE batch == IF in.batch > N - 1 THEN N - 1 ELSE in.batch
             next == IF at + batch <= N - 1 THEN at + batch ELSE N - 1
  <2>1. /\ sel' = [i \in Index |-> CASE i = 0 -> 1
                                    [] i - 1 \in at .. next - 1 ->
                                         IF Same(i - 1, i) THEN 0 ELSE 1
                                    [] OTHER -> sel[i]]
        /\ at' = next /\ pc' = (IF next < N - 1 THEN "pairs" ELSE "done")
        /\ cnt' = cnt /\ sum' = sum /\ c' = c
    BY <1>10 DEF DistinctBatch
  <2>2. sel' \in [Index -> {0, 1, MaxWord}]
    BY <2>1, <1>3, <1>6
  <2>3. next \in 0 .. N
    <3>1. in.batch \in Nat
      BY <1>1 DEF CallHeld
    <3>2. batch \in Nat
      BY <3>1, <1>2
    <3> HIDE DEF batch
    <3> QED
      BY <3>2, <1>2, <1>3
  <2> HIDE DEF next
  <2>4. PlaceHeld' /\ ScanCounts' /\ (Fn \notin RoundSums => RoundCounts)'
    BY <2>1, <2>3, <1>5 DEF PlaceHeld, ScanCounts, RoundCounts
  <2> QED
    BY <2>1, <2>2, <2>3, <2>4, <1>3
<1>11. CASE JoinFirst
  <2>1. /\ sum' = [i \in Index |->
               IF i \in at .. FinalEnd - 1 THEN Matching(c[i].lo) ELSE sum[i]]
        /\ sel' = sel /\ cnt' = cnt /\ c' = c
        /\ Fn = "group_by_sum_odd_even" /\ pc = "first"
        /\ IF FinalEnd < N THEN at' = FinalEnd /\ pc' = pc
           ELSE at' = 0 /\ pc' = "rounds"
    BY <1>11 DEF JoinFirst, Fn
  <2>2. sum' \in [Index -> 0 .. MaxWord]
    <3>1. \A x : Matching(x) \in 0 .. MaxWord
      BY <2>1, <1>1, MatchingType DEF Joins
    <3> QED
      BY <2>1, <3>1, <1>3
  <2>3. FinalEnd \in 0 .. N
    BY <1>2, <1>3 DEF FinalEnd
  <2>4. dist >= 1 /\ dist < N /\ dist \in Nat
    BY <2>1, <1>1, <1>2, <1>3 DEF PlaceHeld
  <2>5. at' \in 0 .. N /\ pc' \in {"first", "rounds"}
    BY <2>1, <2>3, <1>2
  <2>6. PlaceHeld'
    <3>1. pc' = "rounds" => at' = 0
      BY <2>1
    <3>2. Fn' = "group_by_sum_odd_even"
      BY <2>1, <1>4 DEF Fn
    <3>3. dist' >= 1 /\ dist' < N' /\ (at' = 0 => at' + dist' < N')
      BY <2>4, <1>4, <1>5
    <3> QED
      BY <3>1, <3>2, <3>3, <2>5 DEF PlaceHeld
  <2>7. ScanCounts' /\ (Fn \notin RoundSums => RoundCounts)'
    <3>1. Fn' = "group_by_sum_odd_even"
      BY <2>1, <1>4 DEF Fn
    <3> QED
      BY <3>1, <2>5 DEF ScanCounts, RoundSums
  <2> QED
    BY <2>1, <2>2, <2>5, <2>6, <2>7, <1>3
<1>12. CASE Final
  <2> DEFINE hit == {i \in at .. FinalEnd - 1 : IsMasked(i)}
  <2>1. /\ c' = [i \in Index |-> MaskedIf(i \in hit \cap FinalRows, c[i], Masked)]
        /\ cnt' = [i \in Index |->
                      MaskedIf(i \in hit /\ in.fn \notin MinMax, cnt[i],
                               IF in.fn \in RoundSums THEN 0 ELSE MaskedCount)]
        /\ sum' = [i \in Index |->
                      MaskedIf(i \in hit /\ in.fn \in RoundSums, sum[i], 0)]
        /\ sel' = [i \in Index |->
                      MaskedIf(i \in hit /\ in.fn \in MinMax, sel[i], MaxWord)]
        /\ at' = FinalEnd
        /\ pc' = (IF FinalEnd = N THEN "done" ELSE "final")
    BY <1>12 DEF Final
  <2>2. FinalEnd \in 0 .. N
    BY <1>2, <1>3 DEF FinalEnd
  <2> HIDE DEF hit
  <2>3. c' \in [Index -> Row] /\ sel' \in [Index -> {0, 1, MaxWord}]
    <3>1. \A i \in Index : c[i] \in Row /\ sel[i] \in {0, 1, MaxWord}
      BY <1>3
    <3> QED
      BY <3>1, <2>1, <1>6, MaskedType
  <2>4. cnt' \in [Index -> 0 .. MaxWord] /\ sum' \in [Index -> 0 .. MaxWord]
    <3>1. \A i \in Index : cnt[i] \in 0 .. MaxWord /\ sum[i] \in 0 .. MaxWord
      BY <1>3
    <3>2. (IF in.fn \in RoundSums THEN 0 ELSE MaskedCount) \in 0 .. MaxWord
      BY <1>6
    <3>3. \A i \in Index : cnt'[i] \in 0 .. MaxWord /\ sum'[i] \in 0 .. MaxWord
      BY <3>1, <3>2, <2>1, <1>6, MaskedType
    <3> QED
      BY <3>3, <2>1
  <2>5. PlaceHeld' /\ ScanCounts' /\ (Fn \notin RoundSums => RoundCounts)'
    <3>1. pc' \in {"done", "final"}
      BY <2>1
    <3> QED
      BY <3>1 DEF PlaceHeld, ScanCounts, RoundCounts
  <2> QED
    BY <2>1, <2>2, <2>3, <2>4, <2>5
<1> QED
  BY <1>8, <1>9, <1>10, <1>11, <1>12

LEMMA TypeNext == TypeInv /\ [Next]_vars => TypeInv'
<1> SUFFICES ASSUME TypeInv, [Next]_vars PROVE TypeInv'
  OBVIOUS
<1>1. CASE UNCHANGED vars
  <2>1. /\ in' = in /\ c' = c /\ sel' = sel /\ cnt' = cnt /\ sum' = sum
        /\ pc' = pc /\ at' = at /\ dist' = dist
    BY <1>1 DEF vars
  <2>2. bs' = bs
    BY <1>1 DEF vars
  <2>3. CallHeld /\ TypeOK /\ PlaceHeld /\ ScanCounts /\ (Fn \notin RoundSums => RoundCounts)
    BY DEF TypeInv
  <2>4. CallHeld' /\ N' = N /\ Index' = Index
    BY <2>1, <2>3, SameCall
  <2>5. bs' \in BOOLEAN
    BY <2>2, <2>3 DEF TypeOK
  <2>6. TypeOK'
    BY <2>1, <2>3, <2>4, <2>5 DEF TypeOK
  <2>7. PlaceHeld' /\ ScanCounts' /\ (Fn \notin RoundSums => RoundCounts)'
    BY <2>1, <2>3, <2>4 DEF PlaceHeld, ScanCounts, RoundCounts, Fn
  <2> QED
    BY <2>4, <2>6, <2>7 DEF TypeInv
<1>2. CASE Next
  <2>1. CASE Return
    BY <2>1, <1>1 DEF Return
  <2> QED
    BY <2>1, <1>2, ScanTypes, RoundTypes, OtherTypes DEF Next
<1> QED
  BY <1>1, <1>2

\* Tables, counters and positions have their types in all grouping functions,
\* for tables and batches of all sizes: counters stay words, no index leaves
\* the table.
THEOREM WordsInRange == Spec => []TypeOK
<1>1. TypeInv => TypeOK
  BY DEF TypeInv
<1> QED
  BY <1>1, InitTypes, TypeNext, PTL DEF Spec

-----------------------------------------------------------------------------
(* What a row holds. *)

\* What a row adds to a sum, and the sums, minima and maxima over rows.
Share(j) == IF in.fn \in Joins THEN Matching(in.rows[j].lo) ELSE in.rows[j].lo
RowSum(of) == MapThenSumSet(LAMBDA j : IF in.fn \in Joins
                                         THEN Matching(in.rows[j].lo)
                                         ELSE in.rows[j].lo, of)
Least(of) == Min({in.rows[j].lo : j \in of})
Greatest(of) == Max({in.rows[j].hi : j \in of})

Has(row, n, s, r, of) ==
  /\ row.key = Key(r)
  /\ Fn \in Counting => n = Cardinality(of)
  /\ Fn \in Summing => s = RowSum(of) % (MaxWord + 1)
  /\ Fn \in MinMax /\ of # {} => row.lo = Least(of) /\ row.hi = Greatest(of)

LEMMA HoldsIs == \A r, of : Holds(r, of) <=> Has(c[r], cnt[r], sum[r], r, of)
BY DEF Holds, Has, Least, Greatest, RowSum, Key, Fn

LEMMA MatchingNext == ASSUME in' = in PROVE \A x : Matching(x)' = Matching(x)
BY DEF Matching, MapThenSumSet, MapThenFoldSet

LEMMA HoldsNext ==
  ASSUME in' = in
  PROVE  \A r, of : Holds(r, of)' <=> Has(c'[r], cnt'[r], sum'[r], r, of)
<1> SUFFICES ASSUME NEW r, NEW of
             PROVE  Holds(r, of)' <=> Has(c'[r], cnt'[r], sum'[r], r, of)
  OBVIOUS
<1>1. (MapThenSumSet(LAMBDA j : IF in.fn \in Joins
                                         THEN Matching(in.rows[j].lo)
                                         ELSE in.rows[j].lo, of))' = RowSum(of)
  BY DEF RowSum, MapThenSumSet, MapThenFoldSet, Matching
<1> QED
  BY <1>1 DEF Holds, Has, Least, Greatest, Key, Fn

LEMMA StaticNext ==
  ASSUME in' = in
  PROVE  \A r : Key(r)' = Key(r) /\ GroupOf(r)' = GroupOf(r) /\ UpTo(r)' = UpTo(r)
BY DEF Key, GroupOf, UpTo, Chosen, Index, N

\* A number from 0 to MaxWord.
LEMMA WordRange == ASSUME NEW x \in Nat, x <= MaxWord PROVE x \in 0 .. MaxWord
BY Words

LEMMA RowTypes ==
  ASSUME CallHeld, NEW i \in Index
  PROVE  /\ Key(i) \in Nat /\ Key(i) <= MaxWord /\ i \in Nat /\ i < N
         /\ in.rows[i].lo \in 0 .. MaxWord /\ in.rows[i].hi \in 0 .. MaxWord
         /\ in.sel[i] \in {0, 1} /\ in.rows[i] \in Row
<1>1. in.rows[i] \in Row /\ in.sel[i] \in {0, 1}
  BY DEF CallHeld
<1>2. /\ in.rows[i].lo \in 0 .. MaxWord /\ in.rows[i].hi \in 0 .. MaxWord
      /\ in.rows[i].key \in 0 .. MaxWord
  BY <1>1 DEF Row
<1>3. i \in Nat /\ i < N
  BY Sizes2
<1>4. Key(i) \in Nat /\ Key(i) <= MaxWord
  BY <1>2, WordIsNat DEF Key
<1> QED
  BY <1>1, <1>2, <1>3, <1>4

\* The rows of a group are adjacent.
LEMMA GroupRows ==
  ASSUME CallHeld, NEW r \in Index
  PROVE  /\ GroupOf(r) \subseteq Index /\ IsFiniteSet(GroupOf(r)) /\ r \in GroupOf(r)
         /\ \A j \in Index : j \in GroupOf(r) <=> Key(j) = Key(r)
         /\ \A j \in Index : Key(j) = Key(r) => GroupOf(j) = GroupOf(r)
         /\ \A i, k \in GroupOf(r) : \A j \in Index : i <= j /\ j <= k => j \in GroupOf(r)
<1>1. GroupOf(r) \subseteq Index /\ r \in GroupOf(r)
  BY DEF GroupOf
<1>2. IsFiniteSet(GroupOf(r))
  BY <1>1, Sizes2, FS_Subset
<1>3. \A j \in Index : j \in GroupOf(r) <=> Key(j) = Key(r)
  BY DEF GroupOf, Key
<1>4. \A j \in Index : Key(j) = Key(r) => GroupOf(j) = GroupOf(r)
  BY DEF GroupOf, Key
<1>5. ASSUME NEW i \in GroupOf(r), NEW k \in GroupOf(r), NEW j \in Index, i <= j, j <= k
      PROVE  j \in GroupOf(r)
  <2>1. Key(i) <= Key(j) /\ Key(j) <= Key(k)
    BY <1>1, <1>5 DEF CallHeld
  <2>2. Key(i) = Key(r) /\ Key(k) = Key(r)
    BY <1>1, <1>3
  <2>3. Key(j) \in Nat /\ Key(r) \in Nat
    BY RowTypes
  <2>4. Key(j) = Key(r)
    BY <2>1, <2>2, <2>3
  <2> QED
    BY <2>4, <1>3
<1> QED
  BY <1>1, <1>2, <1>3, <1>4, <1>5

\* The selected rows of a group up to a row, and up to the next one.
LEMMA UpToStep ==
  ASSUME CallHeld, NEW a \in Index, a + 1 \in Index
  PROVE  /\ IsFiniteSet(UpTo(a)) /\ UpTo(a) \subseteq Index
         /\ Key(a) = Key(a + 1) =>
              /\ a + 1 \notin UpTo(a)
              /\ UpTo(a + 1) = IF in.sel[a + 1] = 1 THEN UpTo(a) \cup {a + 1} ELSE UpTo(a)
         /\ Key(a) # Key(a + 1) =>
              /\ UpTo(a + 1) = IF in.sel[a + 1] = 1 THEN {a + 1} ELSE {}
              /\ UpTo(a) = Chosen(GroupOf(a))
<1>1. N \in Nat /\ N >= 2 /\ Index = 0 .. N - 1 /\ IsFiniteSet(Index) /\ a \in Nat
  BY Sizes2
<1>2. \A j : j \in UpTo(a) <=> j \in Index /\ Key(j) = Key(a) /\ j <= a /\ in.sel[j] = 1
  BY DEF UpTo, Chosen, GroupOf, Key
<1>3. \A j : j \in UpTo(a + 1) <=> j \in Index /\ Key(j) = Key(a + 1) /\ j <= a + 1 /\ in.sel[j] = 1
  BY DEF UpTo, Chosen, GroupOf, Key
<1>4. \A j \in Index : j \in Nat /\ Key(j) \in Nat
  BY RowTypes
<1>5. \A j \in Index : j <= a + 1 <=> j <= a \/ j = a + 1
  BY <1>1, <1>4
<1>6. UpTo(a) \subseteq Index /\ IsFiniteSet(UpTo(a))
  <2>1. UpTo(a) \subseteq Index
    BY <1>2
  <2> QED
    BY <2>1, <1>1, FS_Subset
<1>7. ASSUME Key(a) = Key(a + 1)
      PROVE  /\ a + 1 \notin UpTo(a)
             /\ UpTo(a + 1) = IF in.sel[a + 1] = 1 THEN UpTo(a) \cup {a + 1} ELSE UpTo(a)
  <2>1. a + 1 \notin UpTo(a)
    BY <1>1, <1>2
  <2>2. ASSUME NEW j
        PROVE  j \in UpTo(a + 1) <=> j \in UpTo(a) \/ (j = a + 1 /\ in.sel[a + 1] = 1)
    BY <1>2, <1>3, <1>5, <1>7
  <2>3. CASE in.sel[a + 1] = 1
    <3>1. UpTo(a + 1) = UpTo(a) \cup {a + 1}
      BY <2>2, <2>3
    <3> QED
      BY <2>1, <2>3, <3>1
  <2>4. CASE in.sel[a + 1] # 1
    <3>1. UpTo(a + 1) = UpTo(a)
      BY <2>2, <2>4
    <3> QED
      BY <2>1, <2>4, <3>1
  <2> QED
    BY <2>3, <2>4
<1>8. ASSUME Key(a) # Key(a + 1)
      PROVE  /\ UpTo(a + 1) = IF in.sel[a + 1] = 1 THEN {a + 1} ELSE {}
             /\ UpTo(a) = Chosen(GroupOf(a))
  <2>1. Key(a) < Key(a + 1)
    <3>1. Key(a) <= Key(a + 1)
      <4>1. a <= a + 1
        BY <1>1
      <4> QED
        BY <4>1 DEF CallHeld
    <3>2. Key(a) \in Nat /\ Key(a + 1) \in Nat
      BY <1>4
    <3> QED
      BY <3>1, <3>2, <1>8
  <2>2. ASSUME NEW j \in Index, j <= a PROVE Key(j) # Key(a + 1)
    <3>1. Key(j) <= Key(a)
      BY <2>2 DEF CallHeld
    <3>2. Key(a) \in Nat /\ Key(a + 1) \in Nat /\ Key(j) \in Nat
      BY <1>4
    <3> QED
      BY <2>1, <3>1, <3>2
  <2>3. ASSUME NEW j
        PROVE  j \in UpTo(a + 1) <=> (j = a + 1 /\ in.sel[a + 1] = 1)
    BY <1>1, <1>3, <1>5, <2>2
  <2>4. ASSUME NEW j \in Index, Key(j) = Key(a) PROVE j <= a
    <3>1. CASE j <= a
      BY <3>1
    <3>2. CASE a + 1 <= j
      <4>1. Key(a + 1) <= Key(j)
        BY <3>2 DEF CallHeld
      <4>2. Key(a) \in Nat /\ Key(a + 1) \in Nat /\ Key(j) \in Nat
        BY <1>4
      <4> QED
        BY <2>1, <2>4, <4>1, <4>2
    <3>3. j <= a \/ a + 1 <= j
      BY <1>1, <1>4
    <3> QED
      BY <3>1, <3>2, <3>3
  <2>5. UpTo(a) = Chosen(GroupOf(a))
    <3>1. \A j : j \in Chosen(GroupOf(a)) <=> j \in Index /\ Key(j) = Key(a) /\ in.sel[j] = 1
      BY DEF Chosen, GroupOf, Key
    <3>2. \A j : j \in Chosen(GroupOf(a)) <=> j \in UpTo(a)
      BY <3>1, <2>4, <1>2
    <3> QED
      BY <3>2
  <2>6. CASE in.sel[a + 1] = 1
    <3>1. UpTo(a + 1) = {a + 1}
      BY <2>3, <2>6
    <3> QED
      BY <2>5, <2>6, <3>1
  <2>7. CASE in.sel[a + 1] # 1
    <3>1. UpTo(a + 1) = {}
      BY <2>3, <2>7
    <3> QED
      BY <2>5, <2>7, <3>1
  <2> QED
    BY <2>6, <2>7
<1> QED
  BY <1>6, <1>7, <1>8

-----------------------------------------------------------------------------
(* Minima, maxima and sums over rows. *)

LEMMA MinIs ==
  ASSUME NEW S, S \subseteq Nat, NEW m \in S, \A y \in S : m <= y
  PROVE  Min(S) = m
<1>1. Min(S) \in S /\ \A y \in S : Min(S) <= y
  BY DEF Min
<1>2. Min(S) <= m /\ m <= Min(S) /\ m \in Nat /\ Min(S) \in Nat
  BY <1>1
<1> QED
  BY <1>2

LEMMA MinExists ==
  ASSUME NEW S, S \subseteq Nat, S # {}
  PROVE  Min(S) \in S /\ Min(S) \in Nat /\ \A y \in S : Min(S) <= y
<1>1. PICK m \in S : \A y \in S : m <= y
  BY LeastElement
<1>2. Min(S) = m
  BY <1>1, MinIs
<1> QED
  BY <1>1, <1>2

LEMMA MaxIs ==
  ASSUME NEW S, S \subseteq Nat, NEW m \in S, \A y \in S : y <= m
  PROVE  Max(S) = m
<1>1. Max(S) \in S /\ \A y \in S : Max(S) >= y
  BY DEF Max
<1>2. m <= Max(S) /\ Max(S) <= m /\ m \in Nat /\ Max(S) \in Nat
  BY <1>1
<1> QED
  BY <1>2

LEMMA MaxExists ==
  ASSUME NEW S, S \subseteq 0 .. MaxWord, S # {}
  PROVE  Max(S) \in S /\ Max(S) \in Nat /\ \A y \in S : y <= Max(S)
<1> DEFINE T == {MaxWord - x : x \in S}
<1>1. MaxWord \in Nat /\ \A x \in S : x \in Nat /\ x <= MaxWord
  BY Words
<1>2. T \subseteq Nat /\ T # {}
  <2>1. \A x \in S : MaxWord - x \in Nat
    BY <1>1
  <2>2. PICK x : x \in S
    OBVIOUS
  <2>3. MaxWord - x \in T
    BY <2>2
  <2> QED
    BY <2>1, <2>3
<1>3. PICK m \in T : \A n \in T : m <= n
  BY <1>2, LeastElement
<1>4. PICK x \in S : m = MaxWord - x
  BY <1>3
<1>5. \A y \in S : y <= x
  <2> SUFFICES ASSUME NEW y \in S PROVE y <= x
    OBVIOUS
  <2>1. m <= MaxWord - y
    BY <1>3
  <2> QED
    BY <2>1, <1>1, <1>4
<1>6. Max(S) = x /\ x \in Nat
  <2>1. S \subseteq Nat
    BY <1>1
  <2> QED
    BY <2>1, <1>5, MaxIs
<1> QED
  BY <1>5, <1>6

LEMMA MinUnion ==
  ASSUME NEW S, S \subseteq Nat, S # {}, NEW T, T \subseteq Nat, T # {}
  PROVE  Min(S \cup T) = IF Min(S) > Min(T) THEN Min(T) ELSE Min(S)
<1>1. Min(S) \in S /\ Min(S) \in Nat /\ \A y \in S : Min(S) <= y
  BY MinExists
<1>2. Min(T) \in T /\ Min(T) \in Nat /\ \A y \in T : Min(T) <= y
  BY MinExists
<1>3. S \cup T \subseteq Nat
  OBVIOUS
<1> DEFINE m == Min(S)
           n == Min(T)
           U == S \cup T
<1>4. CASE m > n
  <2>1. n \in U /\ \A y \in U : n <= y
    BY <1>1, <1>2, <1>4
  <2> HIDE DEF U, n
  <2>2. Min(U) = n
    BY <1>3, <2>1, MinIs DEF U
  <2> QED
    BY <2>2, <1>4 DEF U, n
<1>5. CASE ~ (m > n)
  <2>1. m \in U /\ \A y \in U : m <= y
    BY <1>1, <1>2, <1>5
  <2> HIDE DEF U, m
  <2>2. Min(U) = m
    BY <1>3, <2>1, MinIs DEF U
  <2> QED
    BY <2>2, <1>5 DEF U, m
<1> QED
  BY <1>4, <1>5

LEMMA MaxUnion ==
  ASSUME NEW S, S \subseteq 0 .. MaxWord, S # {}, NEW T, T \subseteq 0 .. MaxWord, T # {}
  PROVE  Max(S \cup T) = IF Max(S) > Max(T) THEN Max(S) ELSE Max(T)
<1>1. Max(S) \in S /\ Max(S) \in Nat /\ \A y \in S : y <= Max(S)
  BY MaxExists
<1>2. Max(T) \in T /\ Max(T) \in Nat /\ \A y \in T : y <= Max(T)
  BY MaxExists
<1>3. S \cup T \subseteq Nat
  OBVIOUS
<1> DEFINE m == Max(S)
           n == Max(T)
           U == S \cup T
<1>4. CASE m > n
  <2>1. m \in U /\ \A y \in U : y <= m
    BY <1>1, <1>2, <1>3, <1>4
  <2> HIDE DEF U, m
  <2>2. Max(U) = m
    BY <1>3, <2>1, MaxIs DEF U
  <2> QED
    BY <2>2, <1>4 DEF U, m
<1>5. CASE ~ (m > n)
  <2>1. n \in U /\ \A y \in U : y <= n
    BY <1>1, <1>2, <1>3, <1>5
  <2> HIDE DEF U, n
  <2>2. Max(U) = n
    BY <1>3, <2>1, MaxIs DEF U
  <2> QED
    BY <2>2, <1>5 DEF U, n
<1> QED
  BY <1>4, <1>5

\* The extremes of two nonempty sets of rows, and of one row.
LEMMA ExtremesUnion ==
  ASSUME CallHeld, NEW S \in SUBSET Index, NEW T \in SUBSET Index, S # {}, T # {}
  PROVE  /\ Least(S \cup T) = IF Least(S) > Least(T) THEN Least(T) ELSE Least(S)
         /\ Greatest(S \cup T) = IF Greatest(S) > Greatest(T) THEN Greatest(S) ELSE Greatest(T)
         /\ Least(S) \in Nat /\ Least(T) \in Nat /\ Greatest(S) \in Nat /\ Greatest(T) \in Nat
<1> DEFINE Lows(of) == {in.rows[j].lo : j \in of}
           Highs(of) == {in.rows[j].hi : j \in of}
<1>1. \A i \in Index : in.rows[i].lo \in 0 .. MaxWord /\ in.rows[i].hi \in 0 .. MaxWord
  BY RowTypes
<1>2. 0 .. MaxWord \subseteq Nat
  BY Words
<1>3. /\ Lows(S) \subseteq Nat /\ Lows(S) # {} /\ Lows(T) \subseteq Nat /\ Lows(T) # {}
      /\ Highs(S) \subseteq 0 .. MaxWord /\ Highs(S) # {}
      /\ Highs(T) \subseteq 0 .. MaxWord /\ Highs(T) # {}
      /\ Lows(S \cup T) = Lows(S) \cup Lows(T) /\ Highs(S \cup T) = Highs(S) \cup Highs(T)
  BY <1>1, <1>2
<1>4. \A of : Least(of) = Min(Lows(of)) /\ Greatest(of) = Max(Highs(of))
  BY DEF Least, Greatest
<1> HIDE DEF Lows, Highs
<1> QED
  BY <1>3, <1>4, MinUnion, MaxUnion, MinExists, MaxExists

LEMMA ExtremesOne ==
  ASSUME CallHeld, NEW j \in Index
  PROVE  Least({j}) = in.rows[j].lo /\ Greatest({j}) = in.rows[j].hi
<1>1. in.rows[j].lo \in Nat /\ in.rows[j].hi \in Nat
  BY RowTypes, WordIsNat
<1>2. {in.rows[i].lo : i \in {j}} = {in.rows[j].lo} /\ {in.rows[i].hi : i \in {j}} = {in.rows[j].hi}
  OBVIOUS
<1>3. \A x \in Nat : Min({x}) = x /\ Max({x}) = x
  BY MinIs, MaxIs
<1> QED
  BY <1>1, <1>2, <1>3 DEF Least, Greatest

LEMMA ShareType ==
  ASSUME CallHeld, Fn \in Summing, NEW j \in Index
  PROVE  Share(j) \in 0 .. MaxWord /\ Share(j) \in Nat
<1>1. Share(j) \in 0 .. MaxWord
  <2>1. CASE Fn \in Joins
    BY <2>1, MatchingType DEF Share, Fn
  <2>2. CASE Fn \notin Joins
    BY <2>2, RowTypes DEF Share, Fn
  <2> QED
    BY <2>1, <2>2
<1> QED
  BY <1>1, WordIsNat

LEMMA RowSumIsSum ==
  ASSUME NEW S, IsFiniteSet(S), NEW w, \A n \in S : w[n] = Share(n)
  PROVE  \E g : Sums(g, w, S) /\ RowSum(S) = g[S]
<1> DEFINE it == CHOOSE g : g = [s \in SUBSET S |->
                   IF s = {} THEN 0 ELSE Share(First(s)) + g[s \ {First(s)}]]
<1>1. RowSum(S) = it[S]
  BY DEF RowSum, Share, MapThenSumSet, MapThenFoldSet, First
<1>2. \A g : Sums(g, w, S) <=> g = [s \in SUBSET S |->
                   IF s = {} THEN 0 ELSE Share(First(s)) + g[s \ {First(s)}]]
  <2>1. \A s \in SUBSET S : s # {} => w[First(s)] = Share(First(s))
    BY FirstType
  <2> QED
    BY <2>1 DEF Sums
<1>3. \E g : g = [s \in SUBSET S |->
                   IF s = {} THEN 0 ELSE Share(First(s)) + g[s \ {First(s)}]]
  <2>1. \E g : Sums(g, w, S)
    BY SumsExist
  <2> QED
    BY <1>2, <2>1
<1>4. Sums(it, w, S)
  BY <1>2, <1>3
<1> QED
  BY <1>1, <1>4

LEMMA RowSumUnion ==
  ASSUME CallHeld, Fn \in Summing, NEW S \in SUBSET Index, NEW T \in SUBSET Index, S \cap T = {}
  PROVE  /\ RowSum(S \cup T) = RowSum(S) + RowSum(T)
         /\ RowSum(S) \in Nat /\ RowSum(T) \in Nat
<1> DEFINE w == [n \in Index |-> Share(n)]
           U == S \cup T
<1>1. IsFiniteSet(S) /\ IsFiniteSet(T) /\ IsFiniteSet(U) /\ U \subseteq Index
  <2>1. IsFiniteSet(Index)
    BY Sizes2
  <2> QED
    BY <2>1, FS_Subset
<1>2. \A n \in Index : w[n] = Share(n) /\ w[n] \in Nat
  BY ShareType
<1> HIDE DEF w
<1>3. PICK h : Sums(h, w, S) /\ RowSum(S) = h[S]
  BY <1>1, <1>2, RowSumIsSum
<1>4. PICK k : Sums(k, w, T) /\ RowSum(T) = k[T]
  BY <1>1, <1>2, RowSumIsSum
<1>5. PICK g : Sums(g, w, U) /\ RowSum(U) = g[U]
  <2> HIDE DEF U
  <2> QED
    BY <1>1, <1>2, RowSumIsSum
<1>6. g[S \cup T] = h[S] + k[T]
  BY <1>1, <1>2, <1>3, <1>4, <1>5, SumsUnion
<1>7. h[S] \in Nat /\ k[T] \in Nat
  <2>1. \A s \in SUBSET S : h[s] \in Nat
    BY <1>1, <1>2, <1>3, SumsType
  <2>2. \A s \in SUBSET T : k[s] \in Nat
    BY <1>1, <1>2, <1>4, SumsType
  <2> QED
    BY <2>1, <2>2
<1> QED
  BY <1>3, <1>4, <1>5, <1>6, <1>7

LEMMA RowSumEmpty == RowSum({}) = 0
<1> DEFINE w == [n \in {} |-> Share(n)]
<1>1. IsFiniteSet({}) /\ \A n \in {} : w[n] = Share(n)
  BY FS_EmptySet
<1> HIDE DEF w
<1>2. PICK g : Sums(g, w, {}) /\ RowSum({}) = g[{}]
  BY <1>1, RowSumIsSum
<1> QED
  BY <1>2, SumsStep

LEMMA RowSumOne ==
  ASSUME CallHeld, Fn \in Summing, NEW j \in Index
  PROVE  RowSum({j}) = Share(j)
<1> DEFINE w == [n \in {j} |-> Share(n)]
           S == {j}
<1>1. IsFiniteSet(S) /\ \A n \in S : w[n] = Share(n)
  BY FS_Singleton
<1>2. w[j] = Share(j) /\ Share(j) \in Nat
  BY ShareType
<1>3. S # {} /\ S \in SUBSET S /\ First(S) = j /\ S \ {j} = {}
  <2>1. First(S) \in S
    BY FirstType
  <2> QED
    BY <2>1
<1> HIDE DEF w, S
<1>4. PICK g : Sums(g, w, S) /\ RowSum(S) = g[S]
  BY <1>1, RowSumIsSum
<1>5. g[S] = w[First(S)] + g[S \ {First(S)}] /\ g[{}] = 0
  <2>1. \A s \in SUBSET S : s # {} => g[s] = w[First(s)] + g[s \ {First(s)}]
    BY <1>4 DEF Sums
  <2>2. g[{}] = 0
    BY <1>4 DEF Sums
  <2> QED
    BY <2>1, <2>2, <1>3
<1> QED
  BY <1>2, <1>3, <1>4, <1>5 DEF S

\* Sums of words wrap around like words.
LEMMA PlusModulo ==
  ASSUME NEW x \in Nat, NEW y \in Nat
  PROVE  /\ Plus(x % (MaxWord + 1), y % (MaxWord + 1)) = (x + y) % (MaxWord + 1)
         /\ Plus(x % (MaxWord + 1), y) = (x + y) % (MaxWord + 1)
         /\ y <= MaxWord => y % (MaxWord + 1) = y
<1> DEFINE M == MaxWord + 1
           a == x % M
           b == y % M
<1>1. M \in Nat /\ M >= 1
  BY Words
<1> HIDE DEF M
<1>2. x \div M \in Nat /\ a \in Nat /\ a < M /\ x = M * (x \div M) + a
  BY <1>1, DivMod
<1>3. y \div M \in Nat /\ b \in Nat /\ b < M /\ y = M * (y \div M) + b
  BY <1>1, DivMod
<1>4. PICK p, q : p = x \div M /\ q = y \div M
  OBVIOUS
<1>5. p \in Nat /\ q \in Nat /\ x = M * p + a /\ y = M * q + b
  BY <1>2, <1>3, <1>4
<1> HIDE DEF a, b
<1>6. (a + b) % M = (x + y) % M
  <2>1. (a + b) \div M \in Nat /\ (a + b) % M \in Nat /\ (a + b) % M < M
        /\ a + b = M * ((a + b) \div M) + ((a + b) % M)
    <3>1. a + b \in Nat
      BY <1>2, <1>3
    <3> QED
      BY <3>1, <1>1, DivMod
  <2>2. PICK s, t : s = (a + b) \div M /\ t = (a + b) % M
    OBVIOUS
  <2>3. s \in Nat /\ t \in Nat /\ t < M /\ a + b = M * s + t
    BY <2>1, <2>2
  <2>4. x + y = M * (p + q + s) + t
    <3>1. x + y = M * p + M * q + (a + b)
      BY <1>1, <1>2, <1>3, <1>5
    <3>2. M * (p + q + s) = M * p + M * q + M * s
      BY <1>1, <1>5, <2>3
    <3> QED
      BY <3>1, <3>2, <1>1, <1>5, <2>3
  <2>5. x + y \in Nat /\ p + q + s \in Nat
    BY <1>5, <2>3
  <2>6. (x + y) % M = t
    BY <2>3, <2>4, <2>5, <1>1, DivModUnique
  <2> QED
    BY <2>2, <2>6
<1>7. (a + y) % M = (x + y) % M
  <2>1. (a + y) \div M \in Nat /\ (a + y) % M \in Nat /\ (a + y) % M < M
        /\ a + y = M * ((a + y) \div M) + ((a + y) % M)
    <3>1. a + y \in Nat
      BY <1>2
    <3> QED
      BY <3>1, <1>1, DivMod
  <2>2. PICK s, t : s = (a + y) \div M /\ t = (a + y) % M
    OBVIOUS
  <2>3. s \in Nat /\ t \in Nat /\ t < M /\ a + y = M * s + t
    BY <2>1, <2>2
  <2>4. x + y = M * (p + s) + t
    <3>1. x + y = M * p + (a + y)
      BY <1>1, <1>2, <1>5
    <3>2. M * (p + s) = M * p + M * s
      BY <1>1, <1>5, <2>3
    <3> QED
      BY <3>1, <3>2, <1>1, <1>5, <2>3
  <2>5. x + y \in Nat /\ p + s \in Nat
    BY <1>5, <2>3
  <2>6. (x + y) % M = t
    BY <2>3, <2>4, <2>5, <1>1, DivModUnique
  <2> QED
    BY <2>2, <2>6
<1>8. y <= MaxWord => y % M = y
  <2> SUFFICES ASSUME y <= MaxWord PROVE y % M = y
    OBVIOUS
  <2>1. y < M /\ y = M * 0 + y
    BY Words, <1>1 DEF M
  <2> QED
    BY <2>1, <1>1, DivModUnique
<1> QED
  BY <1>6, <1>7, <1>8 DEF Plus, M, a, b

\* The row alone, as the call gave it.
Own(j) == IF in.sel[j] = 1 THEN {j} ELSE {}

LEMMA HasOwn ==
  ASSUME CallHeld, NEW j \in Index, NEW s, Fn \in Summing => s = Share(j)
  PROVE  Has(in.rows[j], in.sel[j], s, j, Own(j))
<1>1. in.rows[j].key = Key(j)
  BY DEF Key
<1>2. in.sel[j] = Cardinality(Own(j))
  <2>1. in.sel[j] \in {0, 1}
    BY RowTypes
  <2>2. Cardinality({}) = 0 /\ Cardinality({j}) = 1
    BY FS_EmptySet, FS_Singleton
  <2> QED
    BY <2>1, <2>2 DEF Own
<1>3. ASSUME Fn \in Summing PROVE s = RowSum(Own(j)) % (MaxWord + 1)
  <2>1. in.sel[j] = 1
    BY <1>3 DEF CallHeld, Unselective
  <2>2. RowSum(Own(j)) = Share(j)
    BY <1>3, <2>1, RowSumOne DEF Own
  <2>3. Share(j) \in Nat /\ Share(j) <= MaxWord
    BY <1>3, ShareType, WordIsNat
  <2>4. Share(j) % (MaxWord + 1) = Share(j)
    BY <2>3, PlusModulo
  <2> QED
    BY <1>3, <2>2, <2>4
<1>4. ASSUME Own(j) # {}
      PROVE  in.rows[j].lo = Least(Own(j)) /\ in.rows[j].hi = Greatest(Own(j))
  <2>1. Own(j) = {j}
    BY <1>4 DEF Own
  <2> QED
    BY <2>1, ExtremesOne
<1> QED
  BY <1>1, <1>2, <1>3, <1>4 DEF Has

\* Two rows of a group, merged.
LEMMA HasMerged ==
  ASSUME CallHeld, NEW r \in Index, NEW b \in Index, Key(r) = Key(b),
         NEW S \in SUBSET Index, NEW T \in SUBSET Index, S \cap T = {},
         NEW x, NEW n, NEW s, Has(x, n, s, r, S),
         NEW y, NEW m, NEW t, Has(y, m, t, b, T),
         NEW z, NEW k, NEW u, z.key = Key(b),
         Fn \in Counting => k = n + m,
         Fn \in Summing => u = Plus(s, t),
         Fn \in MinMax =>
           /\ S = {} => z.lo = y.lo /\ z.hi = y.hi
           /\ T = {} => z.lo = x.lo /\ z.hi = x.hi
           /\ S # {} /\ T # {} =>
                /\ z.lo = IF x.lo > y.lo THEN y.lo ELSE x.lo
                /\ z.hi = IF x.hi > y.hi THEN x.hi ELSE y.hi
  PROVE  Has(z, k, u, r, S \cup T) /\ Has(z, k, u, b, S \cup T)
<1>1. ASSUME Fn \in Counting PROVE k = Cardinality(S \cup T)
  <2>1. IsFiniteSet(S) /\ IsFiniteSet(T)
    BY Sizes2, FS_Subset
  <2>2. Cardinality(S \cup T) = Cardinality(S) + Cardinality(T) - Cardinality(S \cap T)
    BY <2>1, FS_Union
  <2>3. Cardinality(S \cap T) = 0 /\ Cardinality(S) \in Nat /\ Cardinality(T) \in Nat
    BY <2>1, FS_EmptySet, FS_CardinalityType
  <2>4. n = Cardinality(S) /\ m = Cardinality(T) /\ k = n + m
    BY <1>1 DEF Has
  <2> QED
    BY <2>2, <2>3, <2>4
<1>2. ASSUME Fn \in Summing PROVE u = RowSum(S \cup T) % (MaxWord + 1)
  <2>1. RowSum(S \cup T) = RowSum(S) + RowSum(T) /\ RowSum(S) \in Nat /\ RowSum(T) \in Nat
    BY <1>2, RowSumUnion
  <2>2. /\ s = RowSum(S) % (MaxWord + 1) /\ t = RowSum(T) % (MaxWord + 1)
        /\ u = Plus(s, t)
    BY <1>2 DEF Has
  <2> QED
    BY <2>1, <2>2, PlusModulo
<1>3. ASSUME Fn \in MinMax, S \cup T # {}
      PROVE  z.lo = Least(S \cup T) /\ z.hi = Greatest(S \cup T)
  <2>1. S # {} => x.lo = Least(S) /\ x.hi = Greatest(S)
    BY <1>3 DEF Has
  <2>2. T # {} => y.lo = Least(T) /\ y.hi = Greatest(T)
    BY <1>3 DEF Has
  <2>3. CASE S = {}
    <3>1. S \cup T = T
      BY <2>3
    <3> QED
      BY <3>1, <1>3, <2>2, <2>3
  <2>4. CASE T = {}
    <3>1. S \cup T = S
      BY <2>4
    <3> QED
      BY <3>1, <1>3, <2>1, <2>4
  <2>5. CASE S # {} /\ T # {}
    <3>1. /\ Least(S \cup T) = IF Least(S) > Least(T) THEN Least(T) ELSE Least(S)
          /\ Greatest(S \cup T) = IF Greatest(S) > Greatest(T) THEN Greatest(S) ELSE Greatest(T)
      BY <2>5, ExtremesUnion
    <3>2. /\ z.lo = IF x.lo > y.lo THEN y.lo ELSE x.lo
          /\ z.hi = IF x.hi > y.hi THEN x.hi ELSE y.hi
      BY <1>3, <2>5
    <3> QED
      BY <3>1, <3>2, <2>1, <2>2, <2>5
  <2> QED
    BY <2>3, <2>4, <2>5
<1> QED
  BY <1>1, <1>2, <1>3 DEF Has

-----------------------------------------------------------------------------
(* The scans. *)

LEMMA GatheredIs ==
  \A r, of : Gathered(r, of) <=> /\ Has(c[r], cnt[r], sum[r], r, of)
                                 /\ Selected(r) <=> of # {}
                                 /\ of = {} => c[r] = in.rows[r]
BY HoldsIs DEF Gathered

LEMMA GatheredNext ==
  ASSUME in' = in
  PROVE  \A r, of : Gathered(r, of)' <=> /\ Has(c'[r], cnt'[r], sum'[r], r, of)
                                         /\ sel'[r] % 2 = 1 <=> of # {}
                                         /\ of = {} => c'[r] = in.rows[r]
BY HoldsNext DEF Gathered, Selected

\* Where a scan is.
LEMMA ScanPlace ==
  ASSUME TypeInv, ScanHeld, Fn \in Scans, pc = "scan"
  PROVE  /\ CallHeld /\ N \in Nat /\ Index = 0 .. N - 1 /\ at \in Nat /\ at < N - 1
         /\ at \in Index /\ at + 1 \in Index
         /\ c[at + 1] = in.rows[at + 1] /\ sel[at + 1] = in.sel[at + 1]
         /\ cnt[at + 1] = in.sel[at + 1]
         /\ Gathered(at, UpTo(at)) /\ c[at].key = Key(at)
         /\ Same(at, at + 1) <=> Key(at) = Key(at + 1)
         /\ Selected(at) <=> UpTo(at) # {}
         /\ Selected(at + 1) <=> in.sel[at + 1] = 1
         /\ Fn \in Unselective => Selected(at) /\ in.sel[at + 1] = 1
<1>1. CallHeld
  BY DEF TypeInv
<1>2. N \in Nat /\ N >= 2 /\ Index = 0 .. N - 1
  BY <1>1, Sizes2
<1>3. at \in 0 .. N - 1 /\ at < N - 1 /\ GivenFrom(at + 1) /\ Gathered(at, UpTo(at))
  BY DEF ScanHeld
<1>4. at \in Nat /\ at \in Index /\ at + 1 \in Index
  BY <1>2, <1>3
<1>5. /\ c[at + 1] = in.rows[at + 1] /\ sel[at + 1] = in.sel[at + 1]
      /\ cnt[at + 1] = in.sel[at + 1]
  BY <1>3, <1>4 DEF GivenFrom
<1>6. c[at].key = Key(at) /\ (Selected(at) <=> UpTo(at) # {})
  BY <1>3, GatheredIs DEF Has
<1>7. Same(at, at + 1) <=> Key(at) = Key(at + 1)
  BY <1>5, <1>6 DEF Same, Key
<1>8. Selected(at + 1) <=> in.sel[at + 1] = 1
  <2>1. in.sel[at + 1] \in {0, 1}
    BY <1>1, <1>4, RowTypes
  <2> QED
    BY <2>1, <1>5 DEF Selected
<1>9. ASSUME Fn \in Unselective PROVE Selected(at) /\ in.sel[at + 1] = 1
  <2>1. in.sel[at] = 1 /\ in.sel[at + 1] = 1
    BY <1>1, <1>4, <1>9 DEF CallHeld
  <2>2. at \in UpTo(at)
    BY <2>1, <1>4 DEF UpTo, Chosen, GroupOf
  <2> QED
    BY <2>1, <2>2, <1>6
<1> QED
  BY <1>1, <1>2, <1>3, <1>4, <1>5, <1>6, <1>7, <1>8, <1>9

\* The rows passed stay as they are.
LEMMA PassedStays ==
  ASSUME in' = in, NEW r, Passed(r),
         c'[r] = c[r], sel'[r] = sel[r], cnt'[r] = cnt[r], sum'[r] = sum[r]
  PROVE  Passed(r)'
<1>1. Key(r)' = Key(r) /\ Key(r + 1)' = Key(r + 1) /\ UpTo(r)' = UpTo(r)
  BY StaticNext
<1>2. CASE Key(r) # Key(r + 1) /\ UpTo(r) # {}
  <2>1. Gathered(r, UpTo(r))
    BY <1>2 DEF Passed
  <2>2. Gathered(r, UpTo(r))'
    BY <2>1, <1>1, GatheredIs, GatheredNext DEF Selected
  <2> QED
    BY <2>2, <1>1, <1>2 DEF Passed
<1>3. CASE ~ (Key(r) # Key(r + 1) /\ UpTo(r) # {})
  <2>1. Discarded(r)
    BY <1>3 DEF Passed
  <2>2. Discarded(r)'
    BY <2>1 DEF Discarded, Selected, Fn
  <2> QED
    BY <2>2, <1>1, <1>3 DEF Passed
<1> QED
  BY <1>2, <1>3

\* One iteration: row "at" is masked or stays, the next row is the last one of
\* its group so far.
ScanStep ==
  /\ in' = in
  /\ \A i \in Index : i # at /\ i # at + 1 =>
       c'[i] = c[i] /\ sel'[i] = sel[i] /\ cnt'[i] = cnt[i] /\ sum'[i] = sum[i]
  /\ IF Merged(at)
     THEN /\ c'[at] = Masked
          /\ Fn \in Counting => cnt'[at] = MaskedCount
          /\ Fn \in Summing => sum'[at] = MaskedCount
          /\ Fn = "distinct_linear" => ~ (sel'[at] % 2 = 1)
     ELSE c'[at] = c[at] /\ sel'[at] = sel[at] /\ cnt'[at] = cnt[at] /\ sum'[at] = sum[at]
  /\ IF Fn \in MinMax THEN c'[at + 1] = Extremes(at) ELSE c'[at + 1] = c[at + 1]
  /\ IF Fn \in Unselective THEN sel'[at + 1] = sel[at + 1] ELSE sel'[at + 1] = Propagated(at)
  /\ Fn \in Counting => cnt'[at + 1] = Counted(at)
  /\ Fn \in Summing =>
       sum'[at + 1] = IF Same(at, at + 1) THEN Plus(sum[at], Share(at + 1)) ELSE Share(at + 1)

LEMMA ScanNextRow ==
  ASSUME TypeInv, ScanHeld, Fn \in Scans, pc = "scan", ScanStep, NEW b, b = at + 1
  PROVE  Gathered(b, UpTo(b))'
<1>1. /\ CallHeld /\ N \in Nat /\ Index = 0 .. N - 1 /\ at \in Nat /\ at < N - 1
      /\ at \in Index /\ b \in Index
      /\ c[b] = in.rows[b] /\ sel[b] = in.sel[b]
      /\ cnt[b] = in.sel[b]
      /\ Gathered(at, UpTo(at)) /\ c[at].key = Key(at)
      /\ Same(at, b) <=> Key(at) = Key(b)
      /\ Selected(at) <=> UpTo(at) # {}
      /\ Selected(b) <=> in.sel[b] = 1
      /\ Fn \in Unselective => Selected(at) /\ in.sel[b] = 1
  BY ScanPlace
<1>2. in' = in
  BY DEF ScanStep
<1>3. in.rows[b] \in Row /\ c[at] \in Row /\ Key(b) = in.rows[b].key
  <2>1. c[at] \in Row
    BY <1>1 DEF TypeInv, TypeOK
  <2> QED
    BY <2>1, <1>1, RowTypes DEF Key
<1>4. Has(in.rows[b], in.sel[b], Share(b), b, Own(b))
  BY <1>1, HasOwn
<1>5. Has(c[at], cnt[at], sum[at], at, UpTo(at))
  BY <1>1, GatheredIs
<1>6. /\ IF Fn \in MinMax THEN c'[b] = Extremes(at) ELSE c'[b] = c[b]
      /\ IF Fn \in Unselective THEN sel'[b] = sel[b] ELSE sel'[b] = Propagated(at)
      /\ Fn \in Counting => cnt'[b] = Counted(at)
      /\ Fn \in Summing =>
           sum'[b] = IF Same(at, b) THEN Plus(sum[at], Share(b)) ELSE Share(b)
  BY DEF ScanStep
<1>7. UpTo(b)' = UpTo(b)
  BY <1>2, StaticNext
<1>8. SUFFICES /\ Has(c'[b], cnt'[b], sum'[b], b, UpTo(b))
               /\ sel'[b] % 2 = 1 <=> UpTo(b) # {}
               /\ UpTo(b) = {} => c'[b] = in.rows[b]
  BY <1>2, <1>7, GatheredNext
<1>9. /\ c'[b].key = Key(b)
      /\ Fn \in MinMax =>
           /\ ~ Same(at, b) => c'[b] = in.rows[b]
           /\ Same(at, b) =>
                /\ ~ Selected(at) => c'[b] = in.rows[b]
                /\ ~ Selected(b) /\ Selected(at) => c'[b].lo = c[at].lo /\ c'[b].hi = c[at].hi
                /\ Selected(at) /\ Selected(b) =>
                     /\ c'[b].lo = IF c[at].lo > in.rows[b].lo THEN in.rows[b].lo ELSE c[at].lo
                     /\ c'[b].hi = IF c[at].hi > in.rows[b].hi THEN c[at].hi ELSE in.rows[b].hi
  <2>1. CASE Fn \in MinMax
    <3> DEFINE both == Same(at, b) /\ Selected(at) /\ Selected(b)
               first == Same(at, b) /\ Selected(at) /\ ~Selected(b)
               bu == first \/ (both /\ c[at].hi > c[b].hi)
               bp == first \/ (both /\ c[b].lo > c[at].lo)
    <3>1. c'[b] = [in.rows[b] EXCEPT !.hi = IF bu THEN c[at].hi ELSE in.rows[b].hi,
                                     !.lo = IF bp THEN c[at].lo ELSE in.rows[b].lo]
      BY <1>1, <1>6, <2>1 DEF Extremes
    <3> DEFINE x == IF bu THEN c[at].hi ELSE in.rows[b].hi
               y == IF bp THEN c[at].lo ELSE in.rows[b].lo
    <3> HIDE DEF x, y
    <3>2. c'[b] = [key |-> in.rows[b].key, lo |-> y, hi |-> x]
      BY <3>1, <1>3 DEF Row, x, y
    <3>3. c'[b].key = Key(b) /\ c'[b].lo = y /\ c'[b].hi = x
      BY <3>2, <1>3
    <3>4. ~ bu /\ ~ bp => c'[b] = in.rows[b]
      BY <3>2, <1>3 DEF Row, x, y
    <3>5. /\ c[at].lo \in Nat /\ in.rows[b].lo \in Nat
          /\ c[at].hi \in Nat /\ in.rows[b].hi \in Nat
      <4>1. /\ c[at].lo \in 0 .. MaxWord /\ in.rows[b].lo \in 0 .. MaxWord
            /\ c[at].hi \in 0 .. MaxWord /\ in.rows[b].hi \in 0 .. MaxWord
        BY <1>3 DEF Row
      <4> QED
        BY <4>1, WordIsNat
    <3> QED
      BY <3>3, <3>4, <3>5, <1>1, <2>1 DEF x, y
  <2>2. CASE Fn \notin MinMax
    BY <2>2, <1>1, <1>3, <1>6
  <2> QED
    BY <2>1, <2>2
<1>10. CASE ~ Same(at, b)
  <2>1. UpTo(b) = Own(b)
    BY <1>1, <1>10, UpToStep DEF Own
  <2>2. Fn \in Counting => cnt'[b] = in.sel[b]
    BY <1>1, <1>6, <1>10 DEF Counted
  <2>3. Fn \in Summing => sum'[b] = Share(b)
    BY <1>6, <1>10
  <2>4. c'[b] = in.rows[b]
    BY <1>1, <1>6, <1>9, <1>10
  <2>5. Has(c'[b], cnt'[b], sum'[b], b, Own(b))
    BY <1>4, <2>2, <2>3, <2>4 DEF Has
  <2>6. sel'[b] % 2 = 1 <=> Own(b) # {}
    <3>1. sel'[b] = sel[b]
      BY <1>6, <1>10 DEF Propagated
    <3> QED
      BY <3>1, <1>1 DEF Selected, Own
  <2> QED
    BY <2>1, <2>4, <2>5, <2>6
<1>11. CASE Same(at, b)
  <2>1. UpTo(b) = UpTo(at) \cup Own(b) /\ b \notin UpTo(at) /\ UpTo(at) \in SUBSET Index
    BY <1>1, <1>11, UpToStep DEF Own
  <2>2. Own(b) \in SUBSET Index /\ UpTo(at) \cap Own(b) = {}
    BY <2>1, <1>1 DEF Own
  <2>3. Own(b) # {} <=> Selected(b)
    BY <1>1 DEF Own
  <2>4. Fn \in Counting => cnt'[b] = cnt[at] + in.sel[b]
    BY <1>1, <1>6, <1>11 DEF Counted
  <2>5. Fn \in Summing => sum'[b] = Plus(sum[at], Share(b))
    BY <1>6, <1>11
  <2>6. Fn \in MinMax =>
           /\ UpTo(at) = {} => c'[b].lo = in.rows[b].lo /\ c'[b].hi = in.rows[b].hi
           /\ Own(b) = {} /\ UpTo(at) # {} => c'[b].lo = c[at].lo /\ c'[b].hi = c[at].hi
           /\ UpTo(at) # {} /\ Own(b) # {} =>
                /\ c'[b].lo = IF c[at].lo > in.rows[b].lo THEN in.rows[b].lo ELSE c[at].lo
                /\ c'[b].hi = IF c[at].hi > in.rows[b].hi THEN c[at].hi ELSE in.rows[b].hi
    BY <1>1, <1>9, <1>11, <2>3
  <2>7. CASE Own(b) = {} /\ UpTo(at) = {}
    <3>1. c'[b] = in.rows[b] /\ UpTo(b) = {} /\ UpTo(b) = Own(b)
      BY <1>1, <1>6, <1>9, <1>11, <2>1, <2>7
    <3>2. Fn \in Counting => cnt'[b] = in.sel[b]
      <4>1. Fn \in Counting => cnt[at] = Cardinality({})
        BY <1>5, <2>7 DEF Has
      <4>2. in.sel[b] \in {0, 1} /\ Cardinality({}) = 0
        BY <1>1, RowTypes, FS_EmptySet
      <4> QED
        BY <4>1, <4>2, <2>4
    <3>3. Fn \notin Summing
      BY <1>1, <2>7 DEF Own, Unselective
    <3>4. Has(c'[b], cnt'[b], sum'[b], b, UpTo(b))
      BY <3>1, <3>2, <3>3, <1>4 DEF Has
    <3>5. sel'[b] % 2 = 1 <=> UpTo(b) # {}
      <4>1. sel'[b] = sel[b]
        BY <1>1, <1>6, <2>7 DEF Propagated
      <4> QED
        BY <4>1, <3>1, <2>3, <2>7 DEF Selected
    <3> QED
      BY <3>1, <3>4, <3>5
  <2>8. CASE Own(b) # {} \/ UpTo(at) # {}
    <3>1. Has(c'[b], cnt'[b], sum'[b], b, UpTo(at) \cup Own(b))
      <4>1. Key(at) = Key(b)
        BY <1>1, <1>11
      <4>2. Fn \in MinMax =>
           /\ UpTo(at) = {} => c'[b].lo = in.rows[b].lo /\ c'[b].hi = in.rows[b].hi
           /\ Own(b) = {} => c'[b].lo = c[at].lo /\ c'[b].hi = c[at].hi
           /\ UpTo(at) # {} /\ Own(b) # {} =>
                /\ c'[b].lo = IF c[at].lo > in.rows[b].lo THEN in.rows[b].lo ELSE c[at].lo
                /\ c'[b].hi = IF c[at].hi > in.rows[b].hi THEN c[at].hi ELSE in.rows[b].hi
        BY <2>6, <2>8
      <4>3. c'[b].key = Key(b)
        BY <1>9
      <4>4. PICK x, n, s, y, m, t, z, k, u :
              /\ x = c[at] /\ n = cnt[at] /\ s = sum[at]
              /\ y = in.rows[b] /\ m = in.sel[b] /\ t = Share(b)
              /\ z = c'[b] /\ k = cnt'[b] /\ u = sum'[b]
        OBVIOUS
      <4>5. PICK a, S, T : a = at /\ S = UpTo(at) /\ T = Own(b)
        OBVIOUS
      <4>6. /\ CallHeld /\ a \in Index /\ b \in Index /\ Key(a) = Key(b)
            /\ S \in SUBSET Index /\ T \in SUBSET Index /\ S \cap T = {}
            /\ Has(x, n, s, a, S) /\ Has(y, m, t, b, T) /\ z.key = Key(b)
            /\ Fn \in Counting => k = n + m
            /\ Fn \in Summing => u = Plus(s, t)
        BY <1>1, <1>4, <1>5, <2>1, <2>2, <2>4, <2>5, <4>1, <4>3, <4>4, <4>5
      <4>7. Fn \in MinMax =>
               /\ S = {} => z.lo = y.lo /\ z.hi = y.hi
               /\ T = {} => z.lo = x.lo /\ z.hi = x.hi
               /\ S # {} /\ T # {} =>
                    /\ z.lo = IF x.lo > y.lo THEN y.lo ELSE x.lo
                    /\ z.hi = IF x.hi > y.hi THEN x.hi ELSE y.hi
        BY <4>2, <4>4, <4>5
      <4>8. Has(z, k, u, b, S \cup T)
        BY <4>6, <4>7, HasMerged
      <4> QED
        BY <4>4, <4>5, <4>8
    <3>2. sel'[b] % 2 = 1
      <4>1. CASE Fn \in Unselective
        BY <4>1, <1>1, <1>6 DEF Selected
      <4>2. CASE Fn \notin Unselective
        <5>1. sel'[b] = IF Selected(at) THEN sel[at] ELSE sel[b]
          BY <4>2, <1>6, <1>11 DEF Propagated
        <5>2. Selected(at) \/ Selected(b)
          BY <1>1, <2>3, <2>8
        <5> QED
          BY <5>1, <5>2 DEF Selected
      <4> QED
        BY <4>1, <4>2
    <3> QED
      BY <3>1, <3>2, <2>1, <2>8
  <2> QED
    BY <2>7, <2>8
<1> QED
  BY <1>10, <1>11

LEMMA ScanAdvance ==
  ASSUME TypeInv, ScanHeld, Fn \in Scans, pc = "scan", ScanStep, MoveOn
  PROVE  ScanHeld'
<1>1. /\ CallHeld /\ N \in Nat /\ Index = 0 .. N - 1 /\ at \in Nat /\ at < N - 1
      /\ at \in Index /\ at + 1 \in Index
      /\ Gathered(at, UpTo(at))
      /\ Same(at, at + 1) <=> Key(at) = Key(at + 1)
      /\ Selected(at) <=> UpTo(at) # {}
      /\ Fn \in Unselective => Selected(at)
  BY ScanPlace
<1>2. PICK a, b : a = at /\ b = at + 1
  OBVIOUS
<1>3. a \in Nat /\ b \in Nat /\ b = a + 1 /\ b <= N - 1 /\ b >= 1 /\ b - 1 = a /\ a \in Index /\ b \in Index
  BY <1>1, <1>2
<1>4. /\ in' = in /\ at' = b /\ bs' = Same(a, b)
      /\ pc' = IF b < N - 1 THEN "scan"
               ELSE IF Fn \in Unselective THEN "done" ELSE "last"
  BY <1>2 DEF MoveOn, ScanStep, Fn
<1>5. N' = N /\ Index' = Index /\ Fn' = Fn
  BY <1>1, <1>4, SameCall DEF Fn
<1>6. \A i \in Index : i # a /\ i # b =>
        c'[i] = c[i] /\ sel'[i] = sel[i] /\ cnt'[i] = cnt[i] /\ sum'[i] = sum[i]
  BY <1>2 DEF ScanStep
<1>7. (bs <=> at > 0 /\ Key(at - 1) = Key(at))'
  <2>1. Key(a)' = Key(a) /\ Key(b)' = Key(b)
    BY <1>4, StaticNext
  <2>2. Same(a, b) <=> Key(a) = Key(b)
    BY <1>1, <1>2
  <2>3. at' > 0 /\ at' - 1 = a
    BY <1>3, <1>4
  <2>4. Key(at - 1)' = Key(a)' /\ Key(at)' = Key(b)'
    BY <2>3, <1>4 DEF Key
  <2> QED
    BY <2>1, <2>2, <2>3, <2>4, <1>4
<1>8. GivenFrom(at + 1)'
  <2>1. GivenFrom(a + 1)
    BY <1>2 DEF ScanHeld
  <2>2. ASSUME NEW i \in Index, i >= b + 1
        PROVE  c'[i] = in.rows[i] /\ sel'[i] = in.sel[i] /\ cnt'[i] = in.sel[i]
    <3>1. i \in Nat /\ i # a /\ i # b /\ i >= a + 1
      BY <1>1, <1>3, <2>2
    <3>2. c[i] = in.rows[i] /\ sel[i] = in.sel[i] /\ cnt[i] = in.sel[i]
      BY <2>1, <3>1 DEF GivenFrom
    <3> QED
      BY <3>1, <3>2, <1>6
  <2> QED
    BY <2>2, <1>4, <1>5 DEF GivenFrom
<1>9. Gathered(b, UpTo(b))'
  BY <1>2, ScanNextRow
<1>10. Gathered(at, UpTo(at))'
  BY <1>9, <1>4 DEF Gathered, Holds, UpTo, Chosen, GroupOf, Selected
<1>11. Passed(a)'
  <2>1. Key(a)' = Key(a) /\ Key(a + 1)' = Key(b) /\ UpTo(a)' = UpTo(a)
    BY <1>3, <1>4, StaticNext
  <2>2. Merged(a) <=> Key(a) = Key(b) \/ UpTo(a) = {}
    <3>1. Merged(a) <=> Same(a, b) \/ (Fn \notin Unselective /\ ~ Selected(a))
      BY <1>3 DEF Merged, Fn
    <3> QED
      BY <3>1, <1>1, <1>2
  <2>3. CASE Merged(a)
    <3>1. /\ c'[a] = Masked
          /\ Fn \in Counting => cnt'[a] = MaskedCount
          /\ Fn \in Summing => sum'[a] = MaskedCount
          /\ Fn = "distinct_linear" => ~ (sel'[a] % 2 = 1)
      BY <2>3, <1>2 DEF ScanStep
    <3>2. Discarded(a)'
      BY <3>1, <1>4 DEF Discarded, Selected, Fn
    <3> QED
      BY <3>2, <2>1, <2>2, <2>3 DEF Passed
  <2>4. CASE ~ Merged(a)
    <3>1. c'[a] = c[a] /\ sel'[a] = sel[a] /\ cnt'[a] = cnt[a] /\ sum'[a] = sum[a]
      BY <2>4, <1>2 DEF ScanStep
    <3>2. Gathered(a, UpTo(a))
      BY <1>1, <1>2
    <3>3. Passed(a)
      BY <3>2, <2>2, <2>4, <1>3 DEF Passed
    <3> QED
      BY <3>1, <3>3, <1>4, PassedStays
  <2> QED
    BY <2>3, <2>4
<1>12. ASSUME NEW r \in 0 .. b - 1 PROVE Passed(r)'
  <2>1. CASE r = a
    BY <2>1, <1>11
  <2>2. CASE r # a
    <3>1. r \in 0 .. a - 1 /\ r \in Index /\ r # a /\ r # b
      BY <2>2, <1>1, <1>3
    <3>2. Passed(r)
      BY <3>1, <1>2 DEF ScanHeld
    <3> QED
      BY <3>1, <3>2, <1>4, <1>6, PassedStays
  <2> QED
    BY <2>1, <2>2
<1>13. \A r \in 0 .. at' - 1 : Passed(r)'
  BY <1>4, <1>12
<1>14. /\ pc' \in {"scan", "last", "done"}
       /\ at' \in 0 .. N' - 1
       /\ pc' = "scan" => at' < N' - 1
       /\ pc' = "last" => at' = N' - 1 /\ Fn' \notin Unselective
       /\ pc' = "done" => at' = N' - 1 /\ Fn' \in Unselective
  BY <1>1, <1>3, <1>4, <1>5
<1> QED
  BY <1>7, <1>8, <1>10, <1>13, <1>14 DEF ScanHeld

LEMMA ScanKeeps ==
  ASSUME TypeInv, ScanHeld, ScanDistinct \/ ScanCount \/ ScanMinMax \/ ScanJoin
  PROVE  ScanHeld'
<1>1. pc = "scan" /\ MoveOn /\ Fn \in Scans
  BY DEF ScanDistinct, ScanCount, ScanMinMax, ScanJoin, Fn, Scans
<1>2. /\ CallHeld /\ N \in Nat /\ Index = 0 .. N - 1 /\ at \in Nat /\ at < N - 1
      /\ at \in Index /\ at + 1 \in Index
      /\ c[at + 1] = in.rows[at + 1] /\ sel[at + 1] = in.sel[at + 1]
      /\ Fn \in Unselective => Selected(at) /\ in.sel[at + 1] = 1
  BY <1>1, ScanPlace
<1>3. PICK a, b : a = at /\ b = at + 1
  OBVIOUS
<1>4. a \in Index /\ b \in Index /\ a # b
  BY <1>2, <1>3
<1>5. /\ c \in [Index -> Row] /\ sel \in [Index -> {0, 1, MaxWord}]
      /\ cnt \in [Index -> 0 .. MaxWord] /\ sum \in [Index -> 0 .. MaxWord]
  BY DEF TypeInv, TypeOK
<1>6. in' = in
  BY <1>1 DEF MoveOn
<1>7. CASE ScanDistinct
  <2>1. Fn = "distinct_linear" /\ Fn \notin MinMax /\ Fn \notin Unselective
        /\ Fn \notin Counting /\ Fn \notin Summing
    BY <1>7 DEF ScanDistinct, Fn, MinMax, Unselective, Counting, Summing, Joins, RoundSums
  <2>2. c' = [c EXCEPT ![a] = MaskedIf(Merged(a), c[a], Masked)]
    BY <1>3, <1>7 DEF ScanDistinct
  <2>3. sel' = [sel EXCEPT ![b] = Propagated(a), ![a] = IF Same(a, b) THEN 0 ELSE sel[a]]
    BY <1>3, <1>7 DEF ScanDistinct
  <2>4. cnt' = cnt /\ sum' = sum
    BY <1>7 DEF ScanDistinct
  <2>5. /\ c'[a] = MaskedIf(Merged(a), c[a], Masked) /\ c'[b] = c[b]
        /\ sel'[b] = Propagated(a) /\ sel'[a] = (IF Same(a, b) THEN 0 ELSE sel[a])
        /\ \A i \in Index : i # a /\ i # b => c'[i] = c[i] /\ sel'[i] = sel[i]
    BY <2>2, <2>3, <1>4, <1>5
  <2>6. Merged(a) <=> Same(a, b) \/ ~ Selected(a)
    BY <2>1, <1>3 DEF Merged, Fn
  <2>7. ASSUME Merged(a) PROVE c'[a] = Masked /\ ~ (sel'[a] % 2 = 1)
    <3>1. c'[a] = Masked
      BY <2>5, <2>7 DEF MaskedIf
    <3>2. CASE Same(a, b)
      BY <3>1, <3>2, <2>5
    <3>3. CASE ~ Same(a, b)
      BY <3>1, <3>3, <2>5, <2>6, <2>7 DEF Selected
    <3> QED
      BY <3>2, <3>3
  <2>8. ASSUME ~ Merged(a) PROVE c'[a] = c[a] /\ sel'[a] = sel[a]
    BY <2>5, <2>6, <2>8 DEF MaskedIf
  <2>9. ScanStep
    BY <2>1, <2>4, <2>5, <2>7, <2>8, <1>3, <1>6 DEF ScanStep
  <2> QED
    BY <2>9, <1>1, ScanAdvance
<1>8. CASE ScanCount
  <2>1. Fn # "distinct_linear" /\ Fn \notin MinMax /\ Fn \in Counting /\ Fn \notin Summing
    BY <1>8 DEF ScanCount, Fn, MinMax, Counting, Summing, Joins, RoundSums
  <2>2. c' = [c EXCEPT ![a] = MaskedIf(Merged(a), c[a], Masked)]
    BY <1>3, <1>8 DEF ScanCount
  <2>3. cnt' = [cnt EXCEPT ![b] = Counted(a), ![a] = MaskedIf(Merged(a), cnt[a], MaskedCount)]
    BY <1>3, <1>8 DEF ScanCount
  <2>4. sel' = (IF Fn \in Unselective THEN sel ELSE [sel EXCEPT ![b] = Propagated(a)]) /\ sum' = sum
    BY <1>3, <1>8 DEF ScanCount, Fn
  <2>5. /\ c'[a] = MaskedIf(Merged(a), c[a], Masked) /\ c'[b] = c[b]
        /\ cnt'[a] = MaskedIf(Merged(a), cnt[a], MaskedCount) /\ cnt'[b] = Counted(a)
        /\ \A i \in Index : i # a /\ i # b => c'[i] = c[i] /\ cnt'[i] = cnt[i]
    BY <2>2, <2>3, <1>4, <1>5
  <2>6. /\ sel'[b] = (IF Fn \in Unselective THEN sel[b] ELSE Propagated(a))
        /\ \A i \in Index : i # b => sel'[i] = sel[i]
    BY <2>4, <1>4, <1>5
  <2>7. ScanStep
    BY <2>1, <2>4, <2>5, <2>6, <1>3, <1>4, <1>6 DEF ScanStep, MaskedIf
  <2> QED
    BY <2>7, <1>1, ScanAdvance
<1>9. CASE ScanMinMax
  <2>1. Fn # "distinct_linear" /\ Fn \in MinMax /\ Fn \notin Counting /\ Fn \notin Summing
        /\ Fn \notin Unselective
    BY <1>9 DEF ScanMinMax, Fn, MinMax, Counting, Summing, Joins, RoundSums, Unselective
  <2>2. c' = [c EXCEPT ![a] = MaskedIf(Merged(a), c[a], Masked), ![b] = Extremes(a)]
    BY <1>3, <1>9 DEF ScanMinMax
  <2>3. sel' = [sel EXCEPT ![a] = MaskedIf(Merged(a), sel[a], MaxWord), ![b] = Propagated(a)]
    BY <1>3, <1>9 DEF ScanMinMax
  <2>4. cnt' = cnt /\ sum' = sum
    BY <1>9 DEF ScanMinMax
  <2>5. /\ c'[a] = MaskedIf(Merged(a), c[a], Masked) /\ c'[b] = Extremes(a)
        /\ sel'[a] = MaskedIf(Merged(a), sel[a], MaxWord) /\ sel'[b] = Propagated(a)
        /\ \A i \in Index : i # a /\ i # b => c'[i] = c[i] /\ sel'[i] = sel[i]
    BY <2>2, <2>3, <1>4, <1>5
  <2>6. ScanStep
    BY <2>1, <2>4, <2>5, <1>3, <1>6 DEF ScanStep, MaskedIf
  <2> QED
    BY <2>6, <1>1, ScanAdvance
<1>10. CASE ScanJoin
  <2>1. Fn # "distinct_linear" /\ Fn \notin MinMax /\ Fn \notin Counting /\ Fn \in Unselective
        /\ Fn \in Joins
    BY <1>10 DEF ScanJoin, Fn, MinMax, Counting, Summing, Joins, RoundSums, Unselective
  <2> DEFINE own == Matching(c[at + 1].lo)
             b1 == BeginsGroup(at + 1)
  <2>2. /\ sum' = [sum EXCEPT ![b] = IF b1 THEN own ELSE Plus(sum[a], own),
                              ![a] = MaskedIf(~b1, sum[a], MaskedCount)]
        /\ cnt' = [cnt EXCEPT ![a] = MaskedIf(~b1, cnt[a], MaskedCount)]
        /\ c' = [c EXCEPT ![a] = MaskedIf(~b1, c[a], Masked)]
        /\ sel' = sel
    BY <1>3, <1>10 DEF ScanJoin
  <2>3. b1 <=> ~ Same(a, b)
    <3>1. (at + 1) - 1 = at
      BY <1>2
    <3> QED
      BY <3>1, <1>3 DEF BeginsGroup
  <2>4. own = Share(b)
    BY <2>1, <1>2, <1>3 DEF Share, Fn
  <2>5. Merged(a) <=> Same(a, b)
    BY <2>1, <1>3 DEF Merged, Fn
  <2> HIDE DEF own, b1
  <2>6. /\ c'[a] = MaskedIf(Same(a, b), c[a], Masked) /\ c'[b] = c[b]
        /\ cnt'[a] = MaskedIf(Same(a, b), cnt[a], MaskedCount)
        /\ \A i \in Index : i # a /\ i # b => c'[i] = c[i] /\ cnt'[i] = cnt[i]
    BY <2>2, <2>3, <1>4, <1>5 DEF MaskedIf
  <2>7. /\ sum'[a] = MaskedIf(Same(a, b), sum[a], MaskedCount)
        /\ sum'[b] = IF Same(a, b) THEN Plus(sum[a], Share(b)) ELSE Share(b)
        /\ \A i \in Index : i # a /\ i # b => sum'[i] = sum[i]
    <3>1. /\ sum'[a] = MaskedIf(~b1, sum[a], MaskedCount)
          /\ sum'[b] = IF b1 THEN own ELSE Plus(sum[a], own)
          /\ \A i \in Index : i # a /\ i # b => sum'[i] = sum[i]
      BY <2>2, <1>4, <1>5
    <3> QED
      BY <3>1, <2>3, <2>4 DEF MaskedIf
  <2>8. ScanStep
    BY <2>1, <2>2, <2>5, <2>6, <2>7, <1>3, <1>6 DEF ScanStep, MaskedIf
  <2> QED
    BY <2>8, <1>1, ScanAdvance
<1> QED
  BY <1>7, <1>8, <1>9, <1>10

LEMMA UpToFirst ==
  ASSUME CallHeld
  PROVE  0 \in Index /\ UpTo(0) = Own(0) /\ (in.sel[0] % 2 = 1 <=> Own(0) # {})
<1>1. N \in Nat /\ N >= 2 /\ Index = 0 .. N - 1 /\ 0 \in Index
  BY Sizes2
<1>2. UpTo(0) = Own(0)
  <2>1. \A j : j \in UpTo(0) <=> j \in Index /\ Key(j) = Key(0) /\ j <= 0 /\ in.sel[j] = 1
    BY DEF UpTo, Chosen, GroupOf, Key
  <2>2. \A j \in Index : j <= 0 <=> j = 0
    BY <1>1
  <2>3. \A j : j \in UpTo(0) <=> j \in Own(0)
    BY <2>1, <2>2, <1>1 DEF Own
  <2> QED
    BY <2>3
<1>3. in.sel[0] \in {0, 1}
  BY <1>1, RowTypes
<1> QED
  BY <1>1, <1>2, <1>3 DEF Own

\* Before the first iteration.
LEMMA ScanBegins ==
  ASSUME TypeInv, Fn \in Scans, c = in.rows, cnt = in.sel, at = 0, bs = FALSE, sel = in.sel,
         pc \in {"first", "scan"}, pc = "first" => Fn \in Joins,
         pc = "scan" /\ Fn \in Joins => sum[0] = Share(0)
  PROVE  ScanHeld
<1>1. CallHeld
  BY DEF TypeInv
<1>2. N \in Nat /\ N >= 2 /\ Index = 0 .. N - 1 /\ 0 \in Index
  BY <1>1, Sizes2
<1>3. GivenFrom(0) /\ GivenFrom(at + 1)
  BY DEF GivenFrom
<1>4. at \in 0 .. N - 1 /\ at < N - 1 /\ 0 .. at - 1 = {}
  BY <1>2
<1>5. ASSUME pc = "scan" PROVE Gathered(at, UpTo(at))
  <2>1. UpTo(0) = Own(0)
    BY <1>1, UpToFirst
  <2>2. Fn \in Summing => Fn \in Joins
    BY DEF Summing, Scans, RoundSums, Joins
  <2>3. Fn \in Summing => sum[0] = Share(0)
    BY <2>2, <1>5
  <2>4. Has(in.rows[0], in.sel[0], sum[0], 0, Own(0))
    BY <2>3, <1>1, <1>2, HasOwn
  <2>5. Selected(0) <=> Own(0) # {}
    BY <1>1, UpToFirst DEF Selected
  <2>6. Gathered(0, UpTo(0))
    BY <2>1, <2>4, <2>5, GatheredIs
  <2> QED
    BY <2>6
<1>6. bs <=> at > 0 /\ Key(at - 1) = Key(at)
  <2>1. ~ bs /\ ~ (at > 0)
    OBVIOUS
  <2> QED
    BY <2>1
<1> QED
  BY <1>3, <1>4, <1>5, <1>6 DEF ScanHeld

\* pc says which functions are where.
PhaseHeld ==
  /\ pc \in {"scan", "last"} => Fn \in Scans
  /\ pc = "first" => Fn \in Joins
  /\ pc \in {"rounds", "final"} => Fn \in OddEven
  /\ pc = "pairs" => Fn = "distinct_batch"

LEMMA ScanInit == Init => ScanHeld /\ PhaseHeld
<1> SUFFICES ASSUME Init PROVE ScanHeld /\ PhaseHeld
  OBVIOUS
<1>1. CallHeld /\ TypeInv
  BY InitCall, InitTypes
<1>2. c = in.rows /\ sel = in.sel /\ cnt = in.sel /\ at = 0
  BY DEF Init
<1>3. bs = FALSE
  BY DEF Init
<1>4. pc = CASE Fn \in Joins -> "first"
            [] Fn = "distinct_batch" -> "pairs"
            [] Fn \in Scans \ Joins -> "scan"
            [] OTHER -> "rounds"
  BY DEF Init, Fn
<1>5. PhaseHeld
  <2>1. Fn \in Scans \/ Fn \in OddEven \/ Fn = "distinct_batch"
    BY <1>1, Kinds
  <2> QED
    BY <2>1, <1>4 DEF PhaseHeld, Scans, OddEven, Joins
<1>6. ASSUME Fn \in Scans PROVE ScanHeld
  <2>1. pc = IF Fn \in Joins THEN "first" ELSE "scan"
    BY <1>4, <1>6 DEF Scans
  <2> QED
    BY <2>1, <1>1, <1>2, <1>3, <1>6, ScanBegins
<1>7. Fn \notin Scans => ScanHeld
  BY DEF ScanHeld
<1> QED
  BY <1>5, <1>6, <1>7

LEMMA PhaseNext ==
  ASSUME TypeInv, PhaseHeld, [Next]_vars
  PROVE  PhaseHeld'
<1>1. CASE UNCHANGED vars
  BY <1>1 DEF vars, PhaseHeld, Fn
<1>2. CASE ScanDistinct \/ ScanCount \/ ScanMinMax \/ ScanJoin
  <2>1. pc = "scan" /\ MoveOn
    BY <1>2 DEF ScanDistinct, ScanCount, ScanMinMax, ScanJoin
  <2> QED
    BY <2>1 DEF PhaseHeld, MoveOn, Fn
<1>3. CASE RoundCount \/ RoundSum \/ RoundMinMax
  <2>1. pc = "rounds" /\ NextBatch
    BY <1>3 DEF RoundCount, RoundSum, RoundMinMax
  <2>2. Fn' = Fn /\ pc' \in {"rounds", "final"}
    BY <2>1 DEF NextBatch, Fn
  <2> QED
    BY <2>1, <2>2 DEF PhaseHeld
<1>4. CASE MaskLast
  BY <1>4 DEF MaskLast, PhaseHeld, Fn
<1>5. CASE JoinStart
  BY <1>5 DEF JoinStart, PhaseHeld, Fn, Scans
<1>6. CASE DistinctBatch
  <2>1. Fn' = "distinct_batch" /\ pc' \in {"pairs", "done"}
    BY <1>6 DEF DistinctBatch, Fn
  <2> QED
    BY <2>1 DEF PhaseHeld
<1>7. CASE JoinFirst
  <2>1. Fn' = "group_by_sum_odd_even" /\ pc' \in {"first", "rounds"}
    BY <1>7 DEF JoinFirst, Fn
  <2> QED
    BY <2>1 DEF PhaseHeld, Joins, OddEven, RoundSums
<1>8. CASE Final
  <2>1. Fn' = Fn /\ pc = "final" /\ pc' \in {"final", "done"}
    BY <1>8 DEF Final, Fn
  <2> QED
    BY <2>1 DEF PhaseHeld
<1>9. CASE Return
  BY <1>1, <1>9 DEF Return
<1> QED
  BY <1>1, <1>2, <1>3, <1>4, <1>5, <1>6, <1>7, <1>8, <1>9 DEF Next

LEMMA ScanStutter ==
  ASSUME TypeInv, ScanHeld, UNCHANGED vars
  PROVE  ScanHeld'
<1>1. /\ in' = in /\ c' = c /\ sel' = sel /\ cnt' = cnt /\ sum' = sum
      /\ pc' = pc /\ at' = at
  BY DEF vars
<1>2. bs' <=> bs
  BY DEF vars
<1>3. N' = N /\ Index' = Index /\ Fn' = Fn
  BY <1>1 DEF N, Index, Fn
<1>4. \A r : Key(r)' = Key(r) /\ UpTo(r)' = UpTo(r)
  BY <1>1, StaticNext
<1> SUFFICES ASSUME Fn \in Scans PROVE ScanHeld'
  BY <1>3 DEF ScanHeld
<1>5. PICK a : a = at
  OBVIOUS
<1>6. \A r \in 0 .. a - 1 : Passed(r)'
  <2> SUFFICES ASSUME NEW r \in 0 .. a - 1 PROVE Passed(r)'
    OBVIOUS
  <2>1. Passed(r)
    BY <1>5 DEF ScanHeld
  <2> QED
    BY <2>1, <1>1, PassedStays
<1>7. Gathered(a, UpTo(a)) => Gathered(a, UpTo(a))'
  BY <1>1, <1>4, GatheredIs, GatheredNext DEF Selected
<1>8. Gathered(a, UpTo(a))' <=> Gathered(at, UpTo(at))'
  <2>1. at' = a
    BY <1>1, <1>5
  <2> QED
    BY <2>1 DEF Gathered, Holds, UpTo, Chosen, GroupOf, Selected
<1>9. (GivenFrom(at + 1) => GivenFrom(at + 1)') /\ (GivenFrom(0) => GivenFrom(0)')
  BY <1>1, <1>3 DEF GivenFrom
<1>10. (bs <=> at > 0 /\ Key(at - 1) = Key(at))' <=> (bs <=> at > 0 /\ Key(at - 1) = Key(at))
  BY <1>1, <1>2 DEF Key
<1>11. UpTo(at)' = UpTo(at) /\ Key(at)' = Key(at) /\ (Selected(at) <=> Selected(at)')
  BY <1>1, <1>3 DEF Key, UpTo, Chosen, GroupOf, Selected
<1> QED
  BY <1>1, <1>2, <1>3, <1>5, <1>6, <1>7, <1>8, <1>9, <1>10, <1>11 DEF ScanHeld

LEMMA ScanEnds ==
  ASSUME TypeInv, ScanHeld, PhaseHeld, MaskLast
  PROVE  ScanHeld'
<1>1. PICK a : a = at
  OBVIOUS
<1>2. /\ pc = "last" /\ pc' = "done" /\ in' = in /\ sel' = sel /\ cnt' = cnt /\ sum' = sum
      /\ c' = [c EXCEPT ![N - 1] = MaskedIf(LastUnselected, c[N - 1], Masked)]
      /\ at' = a
  BY <1>1 DEF MaskLast
<1>3. bs' <=> bs
  BY DEF MaskLast
<1>4. Fn \in Scans /\ CallHeld /\ c \in [Index -> Row]
  BY <1>2 DEF PhaseHeld, TypeInv, TypeOK
<1>5. N \in Nat /\ N >= 2 /\ Index = 0 .. N - 1
  BY <1>4, Sizes2
<1>6. /\ a = N - 1 /\ Fn \notin Unselective /\ GivenFrom(at + 1) /\ Gathered(a, UpTo(a))
      /\ bs <=> at > 0 /\ Key(at - 1) = Key(at)
      /\ \A r \in 0 .. a - 1 : Passed(r)
  BY <1>1, <1>2, <1>4 DEF ScanHeld
<1>7. N' = N /\ Index' = Index /\ Fn' = Fn /\ CallHeld'
  BY <1>2, <1>4, SameCall DEF Fn
<1>8. a \in Index /\ (LastUnselected <=> ~ bs /\ ~ Selected(a))
      /\ c'[a] = MaskedIf(LastUnselected, c[a], Masked)
      /\ \A i \in Index : i # a => c'[i] = c[i]
  BY <1>2, <1>4, <1>5, <1>6 DEF LastUnselected
<1>9. ASSUME NEW r \in 0 .. a - 1 PROVE Passed(r)'
  <2>1. r \in Index /\ r # a
    BY <1>5, <1>6
  <2> QED
    BY <2>1, <1>2, <1>6, <1>8, PassedStays
<1>10. GivenFrom(at + 1)'
  <2>1. ASSUME NEW i \in Index PROVE ~ (i >= at + 1)
    BY <1>1, <1>5, <1>6
  <2> QED
    BY <2>1, <1>1, <1>2, <1>7 DEF GivenFrom
<1>11. (bs <=> at > 0 /\ Key(at - 1) = Key(at))'
  BY <1>1, <1>2, <1>3, <1>6 DEF Key
<1>12. IF UpTo(a) # {} THEN Gathered(a, UpTo(a))'
       ELSE /\ c'[a].key \in {Key(a), MaxWord}
            /\ ~bs' \/ Key(a) = MaxWord => c'[a] = Masked
            /\ Fn \in Counting => cnt'[a] = 0
            /\ ~ (sel'[a] % 2 = 1)
  <2>1. /\ Has(c[a], cnt[a], sum[a], a, UpTo(a))
        /\ Selected(a) <=> UpTo(a) # {}
        /\ UpTo(a) = {} => c[a] = in.rows[a]
    BY <1>6, GatheredIs
  <2>2. CASE UpTo(a) # {}
    <3>1. c'[a] = c[a]
      BY <2>1, <2>2, <1>8 DEF MaskedIf
    <3>2. UpTo(a)' = UpTo(a)
      BY <1>2, StaticNext
    <3>3. Gathered(a, UpTo(a))'
      BY <2>1, <3>1, <3>2, <1>2, GatheredNext DEF Selected
    <3> QED
      BY <2>2, <3>3
  <2>3. CASE UpTo(a) = {}
    <3>1. c[a] = in.rows[a] /\ c[a].key = Key(a) /\ ~ Selected(a)
      BY <2>1, <2>3 DEF Key
    <3>2. c'[a] = IF bs THEN c[a] ELSE Masked
      BY <3>1, <1>8 DEF MaskedIf
    <3>3. Key(a) = MaxWord => c[a] = Masked
      BY <3>1, <1>4, <1>8 DEF CallHeld
    <3>4. Masked.key = MaxWord
      BY Words
    <3>5. Fn \in Counting => cnt'[a] = 0
      BY <2>1, <2>3, <1>2, FS_EmptySet DEF Has
    <3>6. ~ (sel'[a] % 2 = 1)
      BY <3>1, <1>2 DEF Selected
    <3> QED
      BY <2>3, <3>1, <3>2, <3>3, <3>4, <3>5, <3>6, <1>3
  <2> QED
    BY <2>2, <2>3
<1>13. (IF UpTo(at) # {} THEN Gathered(at, UpTo(at))
         ELSE /\ c[at].key \in {Key(at), MaxWord}
              /\ ~bs \/ Key(at) = MaxWord => c[at] = Masked
              /\ Fn \in Counting => cnt[at] = 0
              /\ ~Selected(at))'
  <2>1. UpTo(at)' = UpTo(a) /\ Key(at)' = Key(a) /\ (Selected(at)' <=> sel'[a] % 2 = 1)
    BY <1>2 DEF UpTo, Chosen, GroupOf, Key, Selected, Index, N
  <2>2. Gathered(at, UpTo(at))' <=> Gathered(a, UpTo(a))'
    BY <1>2 DEF Gathered, Holds, UpTo, Chosen, GroupOf, Selected
  <2> QED
    BY <2>1, <2>2, <1>2, <1>7, <1>12
<1>14. at' \in 0 .. N' - 1 /\ at' = N' - 1
  BY <1>2, <1>5, <1>6, <1>7
<1> QED
  BY <1>2, <1>6, <1>7, <1>9, <1>10, <1>11, <1>13, <1>14 DEF ScanHeld

LEMMA ScanNext ==
  ASSUME TypeInv, ScanHeld, PhaseHeld, [Next]_vars
  PROVE  ScanHeld'
<1>1. CallHeld /\ TypeInv'
  BY TypeNext DEF TypeInv
<1>2. N \in Nat /\ N >= 2 /\ Index = 0 .. N - 1
  BY <1>1, Sizes2
<1>3. CASE UNCHANGED vars
  BY <1>3, ScanStutter
<1>4. CASE ScanDistinct \/ ScanCount \/ ScanMinMax \/ ScanJoin
  BY <1>4, ScanKeeps
<1>5. ASSUME Fn' = Fn, Fn \notin Scans PROVE ScanHeld'
  BY <1>5 DEF ScanHeld
<1>6. CASE RoundCount \/ RoundSum \/ RoundMinMax
  <2>1. Fn \notin Scans /\ in' = in
    BY <1>6 DEF RoundCount, RoundSum, RoundMinMax, NextBatch, Fn, Scans, RoundSums
  <2> QED
    BY <2>1, <1>5 DEF Fn
<1>7. CASE DistinctBatch \/ JoinFirst
  <2>1. Fn \notin Scans /\ in' = in
    BY <1>7 DEF DistinctBatch, JoinFirst, Fn, Scans
  <2> QED
    BY <2>1, <1>5 DEF Fn
<1>8. CASE Final
  <2>1. Fn \notin Scans /\ in' = in
    BY <1>8 DEF Final, Fn, Scans, PhaseHeld, OddEven, RoundSums
  <2> QED
    BY <2>1, <1>5 DEF Fn
<1>9. CASE JoinStart
  <2>1. /\ sum' = [sum EXCEPT ![0] = Matching(c[0].lo)]
        /\ pc' = "scan" /\ in' = in /\ c' = c /\ sel' = sel /\ cnt' = cnt
        /\ at' = at /\ pc = "first" /\ Fn = "group_by_join" /\ bs' = bs
    BY <1>9 DEF JoinStart, Fn
  <2>2. Fn \in Scans /\ Fn \in Joins
    BY <2>1 DEF Scans, Joins
  <2>3. at = 0 /\ GivenFrom(0) /\ (bs <=> at > 0 /\ Key(at - 1) = Key(at))
    BY <2>1, <2>2 DEF ScanHeld
  <2>4. at' = 0 /\ ~ bs
    BY <2>1, <2>3
  <2>5. N' = N /\ Index' = Index /\ Fn' = Fn
    BY <2>1, <1>1, SameCall DEF Fn
  <2>6. sum'[0] = Share(0)
    <3>1. sum \in [Index -> 0 .. MaxWord] /\ 0 \in Index
      BY <1>1, UpToFirst DEF TypeInv, TypeOK
    <3>2. c[0] = in.rows[0]
      BY <2>3, <3>1, <1>2 DEF GivenFrom
    <3> QED
      BY <2>1, <2>2, <3>1, <3>2 DEF Share, Fn
  <2>7. Gathered(0, UpTo(0))'
    <3>1. /\ 0 \in Index /\ UpTo(0) = Own(0) /\ (in.sel[0] % 2 = 1 <=> Own(0) # {})
          /\ UpTo(0)' = UpTo(0)
      BY <2>1, <1>1, UpToFirst, StaticNext
    <3>2. c'[0] = in.rows[0] /\ cnt'[0] = in.sel[0] /\ sel'[0] = in.sel[0]
      BY <2>1, <2>3, <3>1, <1>2 DEF GivenFrom
    <3>3. Has(in.rows[0], in.sel[0], sum'[0], 0, Own(0))
      BY <2>6, <3>1, <1>1, HasOwn
    <3> QED
      BY <2>1, <3>1, <3>2, <3>3, GatheredNext
  <2>8. Gathered(at, UpTo(at))'
    BY <2>4, <2>7 DEF Gathered, Holds, UpTo, Chosen, GroupOf, Selected
  <2>9. GivenFrom(at + 1)'
    <3>1. \A i \in Index : i >= 1 => c[i] = in.rows[i] /\ sel[i] = in.sel[i] /\ cnt[i] = in.sel[i]
      BY <2>3, <1>2 DEF GivenFrom
    <3>2. (at + 1)' = 1
      BY <2>4
    <3> QED
      BY <3>1, <3>2, <2>1, <2>5 DEF GivenFrom
  <2>10. (bs <=> at > 0 /\ Key(at - 1) = Key(at))'
    <3>1. ~ (at' > 0) /\ ~ bs'
      BY <2>1, <2>4
    <3> QED
      BY <3>1
  <2>11. at' \in 0 .. N' - 1 /\ at' < N' - 1 /\ 0 .. at' - 1 = {}
    BY <2>4, <2>5, <1>2
  <2> QED
    BY <2>1, <2>8, <2>9, <2>10, <2>11 DEF ScanHeld
<1>10. CASE MaskLast
  BY <1>10, ScanEnds
<1>11. CASE Return
  BY <1>3, <1>11 DEF Return
<1> QED
  BY <1>3, <1>4, <1>6, <1>7, <1>8, <1>9, <1>10, <1>11 DEF Next

LEMMA ScanMeaning ==
  ASSUME TypeInv, ScanHeld, PhaseHeld
  PROVE  ScanCarries
<1> SUFFICES ASSUME pc \in {"scan", "last"} PROVE ScanCarries
  BY DEF ScanCarries
<1>1. Fn \in Scans /\ CallHeld
  BY DEF PhaseHeld, TypeInv
<1>2. N \in Nat /\ N >= 2 /\ Index = 0 .. N - 1
  BY <1>1, Sizes2
<1>3. /\ Gathered(at, UpTo(at)) /\ at \in 0 .. N - 1 /\ GivenFrom(at + 1)
      /\ \A r \in 0 .. at - 1 : Passed(r)
  BY <1>1 DEF ScanHeld
<1>4. UpTo(at) = Chosen({j \in GroupOf(at) : j <= at})
  BY DEF UpTo
<1>5. ASSUME NEW r \in 0 .. at - 1
      PROVE  IF in.rows[r].key # in.rows[r + 1].key /\ Chosen(GroupOf(r)) # {}
             THEN Holds(r, Chosen(GroupOf(r)))
             ELSE c[r] = Masked
  <2>1. Passed(r) /\ r \in Index /\ r + 1 \in Index
    BY <1>2, <1>3
  <2>2. Key(r) # Key(r + 1) => UpTo(r) = Chosen(GroupOf(r))
    BY <1>1, <2>1, UpToStep
  <2>3. CASE Key(r) # Key(r + 1)
    BY <2>1, <2>2, <2>3 DEF Passed, Gathered, Discarded, Key
  <2>4. CASE Key(r) = Key(r + 1)
    BY <2>1, <2>4 DEF Passed, Discarded, Key
  <2> QED
    BY <2>3, <2>4
<1>6. ASSUME NEW r \in at + 1 .. N - 1 PROVE c[r] = in.rows[r] /\ sel[r] = in.sel[r]
  BY <1>2, <1>3 DEF GivenFrom
<1> QED
  BY <1>3, <1>4, <1>5, <1>6 DEF ScanCarries, Gathered

\* In a scan, the current row carries all selected rows of its group so far,
\* the last rows of the groups before it hold their groups, all other rows
\* before it are masked, and those after it are untouched; for tables of
\* every size and every call, served or not.
THEOREM ScansCarry == Spec => []ScanCarries
<1> DEFINE Inv == TypeInv /\ ScanHeld /\ PhaseHeld
<1>1. Init => Inv
  BY InitTypes, ScanInit
<1>2. Inv /\ [Next]_vars => Inv'
  BY TypeNext, ScanNext, PhaseNext
<1>3. Inv => ScanCarries
  BY ScanMeaning
<1> HIDE DEF Inv
<1> QED
  BY <1>1, <1>2, <1>3, PTL DEF Spec

-----------------------------------------------------------------------------
(* The rounds: rows and pairs. *)

\* The rows of a group begin with its first one.
LEMMA FirstRow ==
  ASSUME CallHeld, NEW r \in Index
  PROVE  /\ FirstOf(r) \in Index /\ FirstOf(r) \in Nat /\ FirstOf(r) <= r /\ Key(FirstOf(r)) = Key(r)
         /\ \A i \in Index : Key(i) = Key(r) => FirstOf(r) <= i /\ FirstOf(i) = FirstOf(r)
         /\ \A i \in Index : i <= r => (Key(i) = Key(r) <=> FirstOf(r) <= i)
<1>1. /\ GroupOf(r) \subseteq Index /\ r \in GroupOf(r)
      /\ \A j \in Index : j \in GroupOf(r) <=> Key(j) = Key(r)
      /\ \A j \in Index : Key(j) = Key(r) => GroupOf(j) = GroupOf(r)
      /\ \A i, k \in GroupOf(r) : \A j \in Index : i <= j /\ j <= k => j \in GroupOf(r)
  BY GroupRows
<1>2. GroupOf(r) \subseteq Nat /\ GroupOf(r) # {}
  <2>1. \A i \in Index : i \in Nat
    BY RowTypes
  <2> QED
    BY <2>1, <1>1
<1>3. FirstOf(r) \in GroupOf(r) /\ FirstOf(r) \in Nat /\ \A i \in GroupOf(r) : FirstOf(r) <= i
  BY <1>2, MinExists DEF FirstOf
<1>4. \A i \in Index : Key(i) = Key(r) => FirstOf(r) <= i /\ FirstOf(i) = FirstOf(r)
  BY <1>1, <1>3 DEF FirstOf
<1>5. ASSUME NEW i \in Index, i <= r PROVE Key(i) = Key(r) <=> FirstOf(r) <= i
  BY <1>1, <1>3, <1>4, <1>5
<1> QED
  BY <1>1, <1>3, <1>4, <1>5

\* Every other multiple of d is a multiple of 2d, the rest are those plus d.
LEMMA EvenOdd ==
  ASSUME NEW d \in Nat, d >= 1, NEW x \in Nat
  PROVE  /\ x % d = 0 <=> x % (2 * d) = 0 \/ (x >= d /\ (x - d) % (2 * d) = 0)
         /\ ~ (x % (2 * d) = 0 /\ x >= d /\ (x - d) % (2 * d) = 0)
         /\ x < d => (x % d = 0 <=> x = 0) /\ (x % (2 * d) = 0 <=> x = 0)
<1>1. PICK e : e = 2 * d
  OBVIOUS
<1>2. e \in Nat /\ e >= 1
  BY <1>1
<1>3. PICK q, s : q = x \div e /\ s = x % e
  OBVIOUS
<1>4. q \in Nat /\ s \in Nat /\ s < e /\ x = e * q + s
  BY <1>2, <1>3, DivMod
<1>5. CASE s < d
  <2>1. x = d * (2 * q) + s
    BY <1>1, <1>4
  <2>2. 2 * q \in Nat
    BY <1>4
  <2>3. x % d = s
    BY <2>1, <2>2, <1>4, <1>5, DivModUnique
  <2>4. ASSUME x >= d PROVE (x - d) % e # 0
    <3>1. q # 0
      <4> SUFFICES ASSUME q = 0 PROVE FALSE
        OBVIOUS
      <4>1. e * q = 0
        BY <1>2
      <4>2. PICK y : y = e * q
        OBVIOUS
      <4>3. y = 0 /\ x = y + s
        BY <4>1, <4>2, <1>4
      <4> QED
        BY <4>3, <2>4, <1>4, <1>5
    <3>2. q - 1 \in Nat /\ s + d \in Nat /\ s + d < e /\ x - d \in Nat
      BY <3>1, <2>4, <1>1, <1>4, <1>5
    <3>3. x - d = e * (q - 1) + (s + d)
      <4>1. e * (q - 1) = e * q - e
        BY <1>2, <1>4
      <4>2. PICK y, z : y = e * q /\ z = e * (q - 1)
        OBVIOUS
      <4>3. y \in Nat /\ z = y - e /\ x = y + s
        BY <1>2, <1>4, <4>1, <4>2
      <4>4. x - d = z + (s + d)
        BY <4>3, <1>1, <1>4
      <4> QED
        BY <4>2, <4>4
    <3>4. (x - d) % e = s + d
      BY <3>2, <3>3, <1>2, DivModUnique
    <3> QED
      BY <3>4, <1>4
  <2>5. x < d => (s = 0 <=> x = 0)
    <3>1. ASSUME x < d PROVE x = s
      <4>1. x = d * 0 + x
        OBVIOUS
      <4>2. x % d = x
        BY <3>1, <4>1, DivModUnique
      <4> QED
        BY <4>2, <2>3
    <3> QED
      BY <3>1
  <2> QED
    BY <2>3, <2>4, <2>5, <1>1, <1>3
<1>6. CASE ~ (s < d)
  <2>1. s - d \in Nat /\ s - d < d /\ s - d < e /\ s # 0
    BY <1>1, <1>4, <1>6
  <2>2. x = d * (2 * q + 1) + (s - d) /\ 2 * q + 1 \in Nat
    <3>1. d * (2 * q + 1) = e * q + d
      BY <1>1, <1>4
    <3>2. PICK y : y = e * q
      OBVIOUS
    <3>3. y \in Nat /\ x = y + s /\ d * (2 * q + 1) = y + d
      BY <1>2, <1>4, <3>1, <3>2
    <3> QED
      BY <3>3, <1>4
  <2>3. x % d = s - d
    BY <2>1, <2>2, DivModUnique
  <2>4. x >= d /\ x - d \in Nat /\ x - d = e * q + (s - d)
    <3>1. PICK y : y = e * q
      OBVIOUS
    <3>2. y \in Nat /\ x = y + s
      BY <1>2, <1>4, <3>1
    <3> QED
      BY <3>1, <3>2, <1>4, <1>6
  <2>5. (x - d) % e = s - d
    BY <2>1, <2>4, <1>2, <1>4, DivModUnique
  <2> QED
    BY <2>1, <2>3, <2>4, <2>5, <1>1, <1>3
<1> QED
  BY <1>5, <1>6

\* The rows at multiples of d after row r.
LEMMA EveryStep ==
  ASSUME CallHeld, NEW r \in Index, NEW d \in Nat, d >= 1
  PROVE  /\ Every(r, d) \subseteq Index /\ IsFiniteSet(Every(r, d))
         /\ \A j \in Every(r, d) : j >= r /\ Key(j) = Key(r) /\ in.sel[j] = 1
         /\ in.sel[r] = 1 => r \in Every(r, d)
         /\ r + d \in Index /\ Key(r + d) = Key(r) =>
              /\ Every(r, d) = Every(r, 2 * d) \cup Every(r + d, 2 * d)
              /\ Every(r, 2 * d) \cap Every(r + d, 2 * d) = {}
         /\ r + d \notin Index \/ Key(r + d) # Key(r) =>
              Every(r, d) = Own(r) /\ Every(r, 2 * d) = Own(r)
<1>1. N \in Nat /\ N >= 2 /\ Index = 0 .. N - 1 /\ IsFiniteSet(Index) /\ r \in Nat
  BY Sizes2
<1>2. \A j \in Index : j \in Nat
  BY <1>1
<1>3. \A i, e : \A j : j \in Every(i, e) <=>
        j \in Index /\ Key(j) = Key(i) /\ j >= i /\ (j - i) % e = 0 /\ in.sel[j] = 1
  BY DEF Every, Chosen, GroupOf, Key
<1>4. Every(r, d) \subseteq Index
  BY <1>3
<1>5. IsFiniteSet(Every(r, d))
  BY <1>1, <1>4, FS_Subset
<1>6. in.sel[r] = 1 => r \in Every(r, d)
  <2>1. r - r = 0 /\ 0 = d * 0 + 0
    BY <1>1
  <2>2. 0 % d = 0
    BY <2>1, DivModUnique
  <2> QED
    BY <2>1, <2>2, <1>1, <1>3
<1>7. ASSUME NEW j \in Index, j >= r
      PROVE  /\ (j - r) % d = 0 <=>
                   (j - r) % (2 * d) = 0 \/ (j >= r + d /\ (j - (r + d)) % (2 * d) = 0)
             /\ ~ ((j - r) % (2 * d) = 0 /\ j >= r + d /\ (j - (r + d)) % (2 * d) = 0)
             /\ j < r + d => ((j - r) % d = 0 <=> j = r) /\ ((j - r) % (2 * d) = 0 <=> j = r)
  <2>1. PICK x : x = j - r
    OBVIOUS
  <2>2. x \in Nat /\ (x >= d <=> j >= r + d) /\ x - d = j - (r + d) /\ (x < d <=> j < r + d)
        /\ (x = 0 <=> j = r)
    BY <2>1, <1>1, <1>2, <1>7
  <2>3. /\ x % d = 0 <=> x % (2 * d) = 0 \/ (x >= d /\ (x - d) % (2 * d) = 0)
        /\ ~ (x % (2 * d) = 0 /\ x >= d /\ (x - d) % (2 * d) = 0)
        /\ x < d => (x % d = 0 <=> x = 0) /\ (x % (2 * d) = 0 <=> x = 0)
    BY <2>2, EvenOdd
  <2> QED
    BY <2>1, <2>2, <2>3
<1>8. ASSUME r + d \in Index, Key(r + d) = Key(r)
      PROVE  /\ Every(r, d) = Every(r, 2 * d) \cup Every(r + d, 2 * d)
             /\ Every(r, 2 * d) \cap Every(r + d, 2 * d) = {}
  <2>1. \A j \in Index : j >= r + d => j >= r
    BY <1>1, <1>2
  <2>2. \A j : j \in Every(r, d) <=> j \in Every(r, 2 * d) \/ j \in Every(r + d, 2 * d)
    BY <2>1, <1>3, <1>7, <1>8
  <2>3. \A j : ~ (j \in Every(r, 2 * d) /\ j \in Every(r + d, 2 * d))
    BY <2>1, <1>3, <1>7, <1>8
  <2> QED
    BY <2>2, <2>3
<1>9. ASSUME r + d \notin Index \/ Key(r + d) # Key(r)
      PROVE  Every(r, d) = Own(r) /\ Every(r, 2 * d) = Own(r)
  <2>1. ASSUME NEW j \in Index, j >= r + d PROVE Key(j) # Key(r)
    <3>1. r + d \in Index
      BY <2>1, <1>1, <1>2
    <3>2. Key(r) <= Key(r + d) /\ Key(r + d) <= Key(j)
      <4>1. r <= r + d /\ r + d <= j
        BY <2>1, <1>1
      <4> QED
        BY <3>1, <4>1, <2>1 DEF CallHeld
    <3>3. Key(r) \in Nat /\ Key(r + d) \in Nat /\ Key(j) \in Nat
      BY <3>1, RowTypes
    <3> QED
      BY <3>1, <3>2, <3>3, <1>9
  <2>2. \A j \in Index : j < r + d \/ j >= r + d
    BY <1>1, <1>2
  <2>5. r \in Index /\ r >= r /\ r < r + d
    BY <1>1
  <2>3. \A j : j \in Every(r, d) <=> j = r /\ in.sel[r] = 1
    BY <2>1, <2>2, <2>5, <1>3, <1>7
  <2>4. \A j : j \in Every(r, 2 * d) <=> j = r /\ in.sel[r] = 1
    BY <2>1, <2>2, <2>5, <1>3, <1>7
  <2> QED
    BY <2>3, <2>4 DEF Own
<1> QED
  BY <1>3, <1>4, <1>5, <1>6, <1>8, <1>9

-----------------------------------------------------------------------------
(* A round, row by row. *)

RowIs(row, n, s, r, near, far) ==
  /\ IF Left(r, near) THEN Has(row, n, s, r, Every(r, far)) ELSE row.key = MaxWord
  /\ Key(r) = MaxWord => row.key = MaxWord /\ n = 0
  /\ Fn \notin MinMax /\ row.key = MaxWord => row = Masked

LEMMA RowHeldIs ==
  \A r, near, far : RowHeld(r, near, far) <=> RowIs(c[r], cnt[r], sum[r], r, near, far)
BY HoldsIs DEF RowHeld, RowIs

LEMMA RowHeldNext ==
  ASSUME in' = in
  PROVE  \A r, near, far :
           RowHeld(r, near, far)' <=> RowIs(c'[r], cnt'[r], sum'[r], r, near, far)
<1> SUFFICES ASSUME NEW r, NEW near, NEW far
             PROVE  RowHeld(r, near, far)' <=> RowIs(c'[r], cnt'[r], sum'[r], r, near, far)
  OBVIOUS
<1>1. PICK of : of = Every(r, far)
  OBVIOUS
<1>2. Every(r, far)' = of /\ (Left(r, near)' <=> Left(r, near)) /\ Key(r)' = Key(r) /\ Fn' = Fn
  BY <1>1 DEF Every, Left, FirstOf, Chosen, GroupOf, Key, Fn, Index, N
<1>3. Holds(r, of)' <=> Has(c'[r], cnt'[r], sum'[r], r, of)
  BY HoldsNext
<1>4. Holds(r, Every(r, far))' <=> Holds(r, of)'
  BY <1>2 DEF Holds
<1> QED
  BY <1>1, <1>2, <1>3, <1>4 DEF RowHeld, RowIs

\* A batch of a round of a call that is served, before it.
RoundPlace ==
  /\ CallHeld /\ Served(in) /\ sel = in.sel /\ Fn \in OddEven
  /\ N \in Nat /\ N >= 2 /\ N <= MaxWord /\ Index = 0 .. N - 1
  /\ dist \in Nat /\ dist >= 1 /\ at \in Nat
  /\ End \in Nat /\ End > at /\ End + dist <= N /\ Pairs = at .. End - 1
  /\ \A r \in Index : RowIs(c[r], cnt[r], sum[r], r, Near(r), Far(r))

\* What it does to row r.
Dropping(r) ==
  r - dist \in Pairs /\ IF Fn \in MinMax THEN Dropped(r - dist) ELSE Same(r - dist, r)
Added(x, y) == IF Fn \in RoundSums THEN Plus(x, y) ELSE x + y
RoundStep(r) ==
  /\ c'[r].key = IF Dropping(r) THEN MaxWord ELSE c[r].key
  /\ Fn \notin MinMax => c'[r] = IF Dropping(r) THEN Masked ELSE c[r]
  /\ Fn \in MinMax =>
       /\ cnt'[r] = cnt[r]
       /\ r \in Pairs => c'[r].lo = NewLo(r) /\ c'[r].hi = NewHi(r)
       /\ r \notin Pairs => Dropping(r) \/ c'[r] = c[r]
  /\ Fn \in Counting =>
       /\ r \in Pairs => cnt'[r] = IF Same(r, r + dist) THEN Added(cnt[r], cnt[r + dist])
                                   ELSE cnt[r]
       /\ r \notin Pairs => cnt'[r] = cnt[r] \/ (Dropping(r) /\ cnt'[r] = 0)
  /\ Fn \in Summing =>
       /\ r \in Pairs => sum'[r] = IF Same(r, r + dist) THEN Plus(sum[r], sum[r + dist])
                                   ELSE sum[r]
       /\ r \notin Pairs => sum'[r] = sum[r] \/ (Dropping(r) /\ sum'[r] = 0)

\* The places of a row after the batch.
NearAfter(r) == IF r - dist \in 0 .. End - 1 THEN dist ELSE 2 * dist
FarAfter(r) == IF r < End THEN dist ELSE 2 * dist

LEMMA ServedMinMax ==
  ASSUME NEW x, x.fn = "group_by_min_max_sel_odd_even", Served(x), NEW S, DOMAIN x.rows = S
  PROVE  \A i \in {k \in S : x.rows[k].key # MaxWord} :
           \A j \in {k \in S : x.rows[k].key = x.rows[i].key} :
             i < j => x.sel[i] >= x.sel[j]
<1>1. \A i \in {k \in DOMAIN x.rows : x.rows[k].key # MaxWord} :
        \A j \in {k \in DOMAIN x.rows : x.rows[k].key = x.rows[i].key} :
          i < j => x.sel[i] >= x.sel[j]
  <2>1. x.fn # "group_by_count_sel_odd_even" /\ x.fn \notin Unselective
    BY DEF Unselective, Summing, Joins, RoundSums
  <2> QED
    BY <2>1, Zenon DEF Served
<1> QED
  BY <1>1

\* The selected rows of a group come first where minima and maxima are taken.
LEMMA SelectedFirst ==
  ASSUME CallHeld, Served(in), Fn \in OddEven, Fn \in MinMax, NEW i \in Index, NEW j \in Index,
         i <= j, Key(i) = Key(j), in.sel[j] = 1
  PROVE  in.sel[i] = 1
<1>1. in.fn = "group_by_min_max_sel_odd_even"
  BY DEF Fn, OddEven, MinMax, RoundSums
<1>2. DOMAIN in.rows = Index
  BY DEF CallHeld
<1>3. \A i1 \in {k \in Index : in.rows[k].key # MaxWord} :
        \A j1 \in {k \in Index : in.rows[k].key = in.rows[i1].key} :
          i1 < j1 => in.sel[i1] >= in.sel[j1]
  BY <1>1, <1>2, ServedMinMax
<1>4. Key(i) # MaxWord
  BY DEF CallHeld
<1>5. in.sel[i] \in {0, 1} /\ in.sel[j] \in {0, 1} /\ i \in Nat /\ j \in Nat
  BY RowTypes
<1>6. i < j => in.sel[i] >= in.sel[j]
  BY <1>3, <1>4 DEF Key
<1> QED
  BY <1>5, <1>6

\* Rows that are left after the batch are left before it, and it does not mask
\* them; it masks those that are no longer left.
LEMMA RoundLeft ==
  ASSUME RoundPlace, NEW r \in Index, Key(r) # MaxWord
  PROVE  /\ Left(r, NearAfter(r)) => Left(r, Near(r)) /\ ~ Dropping(r)
         /\ ~ Left(r, NearAfter(r)) => c[r].key = MaxWord \/ Dropping(r)
<1> DEFINE d == dist
<1>1. /\ CallHeld /\ Served(in) /\ sel = in.sel /\ Fn \in OddEven
      /\ N \in Nat /\ Index = 0 .. N - 1
      /\ d \in Nat /\ d >= 1 /\ at \in Nat
      /\ End \in Nat /\ End > at /\ End + d <= N /\ Pairs = at .. End - 1
  BY DEF RoundPlace
<1>2. \A i \in Index : RowIs(c[i], cnt[i], sum[i], i, Near(i), Far(i))
  BY DEF RoundPlace
<1>3. /\ FirstOf(r) \in Index /\ FirstOf(r) \in Nat /\ FirstOf(r) <= r
      /\ \A i \in Index : Key(i) = Key(r) => FirstOf(r) <= i /\ FirstOf(i) = FirstOf(r)
      /\ \A i \in Index : i <= r => (Key(i) = Key(r) <=> FirstOf(r) <= i)
  BY <1>1, FirstRow
<1>4. r \in Nat /\ in.sel[r] \in {0, 1} /\ (Selected(r) <=> in.sel[r] = 1)
  <2>1. r \in Nat /\ in.sel[r] \in {0, 1}
    BY <1>1, RowTypes
  <2> QED
    BY <2>1, <1>1 DEF Selected
<1>5. \A i \in Index : c[i].key = IF Left(i, Near(i)) THEN Key(i) ELSE MaxWord
  BY <1>2 DEF RowIs, Has
<1>6. CASE r - d \notin Pairs
  <2>1. ~ Dropping(r)
    BY <1>6 DEF Dropping
  <2>2. NearAfter(r) = Near(r)
    BY <1>1, <1>4, <1>6 DEF NearAfter, Near
  <2> QED
    BY <2>1, <2>2, <1>5
<1>7. CASE r - d \in Pairs
  <2>1. PICK i : i = r - d
    OBVIOUS
  <2>2. i \in Nat /\ i \in Index /\ i >= at /\ i < End /\ r = i + d /\ i < r /\ i <= r /\ r >= d
    BY <2>1, <1>1, <1>4, <1>7
  <2>3. NearAfter(r) = d /\ Near(r) = 2 * d
    BY <2>1, <2>2, <1>1 DEF NearAfter, Near
  <2>4. Near(i) = d \/ Near(i) = 2 * d
    BY DEF Near
  <2>5. Key(i) = Key(r) <=> FirstOf(r) <= i
    BY <2>2, <1>3
  <2>6. Key(i) = Key(r) => FirstOf(i) = FirstOf(r)
    BY <2>2, <1>3
  <2>7. r - FirstOf(r) < d <=> Key(i) # Key(r)
    BY <2>2, <2>5, <1>1, <1>3, <1>4
  <2>8. CASE Fn \notin MinMax
    <3>1. /\ Left(r, d) <=> Key(i) # Key(r)
          /\ Left(r, 2 * d) <=> r - FirstOf(r) < 2 * d
          /\ Left(i, Near(i)) <=> i - FirstOf(i) < Near(i)
      BY <2>7, <2>8 DEF Left
    <3>2. Dropping(r) <=> c[i].key = c[r].key
      BY <2>1, <2>2, <2>8, <1>7 DEF Dropping, Same
    <3>3. CASE Key(i) # Key(r)
      <4>1. Left(r, 2 * d)
        BY <3>1, <3>3, <2>7, <1>1, <1>3, <1>4
      <4>2. c[r].key = Key(r) /\ c[i].key \in {Key(i), MaxWord}
        BY <4>1, <2>2, <2>3, <1>5
      <4> QED
        BY <3>1, <3>2, <3>3, <4>1, <4>2, <2>3
    <3>4. CASE Key(i) = Key(r)
      <4>1. CASE Left(r, 2 * d)
        <5>1. i - FirstOf(i) < d
          BY <4>1, <3>1, <3>4, <2>2, <2>6, <1>1, <1>3
        <5>2. Left(i, Near(i))
          BY <5>1, <3>1, <2>2, <2>4, <2>6, <3>4, <1>1, <1>3
        <5>3. c[r].key = Key(r) /\ c[i].key = Key(i)
          BY <4>1, <5>2, <2>2, <2>3, <1>5
        <5> QED
          BY <5>3, <3>1, <3>2, <3>4, <2>3
      <4>2. CASE ~ Left(r, 2 * d)
        BY <4>2, <3>1, <3>4, <2>3, <1>5
      <4> QED
        BY <4>1, <4>2
    <3> QED
      BY <3>3, <3>4
  <2>9. CASE Fn \in MinMax
    <3>1. /\ Left(r, d) <=> Key(i) # Key(r) /\ in.sel[r] = 1
          /\ Left(r, 2 * d) <=> r - FirstOf(r) < 2 * d /\ (r >= 2 * d => in.sel[r] = 1)
          /\ Left(i, Near(i)) <=> i - FirstOf(i) < Near(i) /\ (i >= Near(i) => in.sel[i] = 1)
      BY <2>2, <2>7, <2>9 DEF Left
    <3>2. Dropping(r) <=> c[i].key = c[r].key \/ in.sel[r] # 1
      BY <2>1, <2>2, <2>9, <1>4, <1>7 DEF Dropping, Dropped, Same
    <3>3. CASE in.sel[r] # 1
      BY <3>1, <3>2, <3>3, <2>3
    <3>4. CASE in.sel[r] = 1 /\ Key(i) # Key(r)
      <4>1. Left(r, 2 * d)
        BY <3>1, <3>4, <2>7, <1>1, <1>3, <1>4
      <4>2. c[r].key = Key(r) /\ c[i].key \in {Key(i), MaxWord}
        BY <4>1, <2>2, <2>3, <1>5
      <4> QED
        BY <3>1, <3>2, <3>4, <4>1, <4>2, <2>3
    <3>5. CASE in.sel[r] = 1 /\ Key(i) = Key(r)
      <4>1. CASE Left(r, 2 * d)
        <5>1. i - FirstOf(i) < d
          BY <4>1, <3>1, <3>5, <2>2, <2>6, <1>1, <1>3
        <5>2. in.sel[i] = 1
          BY <3>5, <2>2, <2>9, <1>1, SelectedFirst
        <5>3. Left(i, Near(i))
          BY <5>1, <5>2, <3>1, <3>5, <2>2, <2>4, <2>6, <1>1, <1>3
        <5>4. c[r].key = Key(r) /\ c[i].key = Key(i)
          BY <4>1, <5>3, <2>2, <2>3, <1>5
        <5> QED
          BY <5>4, <3>1, <3>2, <3>5, <2>3
      <4>2. CASE ~ Left(r, 2 * d)
        BY <4>2, <3>1, <3>5, <2>3, <1>5
      <4> QED
        BY <4>1, <4>2
    <3> QED
      BY <3>3, <3>4, <3>5
  <2> QED
    BY <2>8, <2>9
<1> QED
  BY <1>6, <1>7

\* A masked row of the call stays masked and counts nothing.
LEMMA RoundMaskedRow ==
  ASSUME RoundPlace, NEW r \in Index, Key(r) = MaxWord, RoundStep(r), NEW near, NEW far
  PROVE  RowIs(c'[r], cnt'[r], sum'[r], r, near, far)
<1>1. /\ CallHeld /\ Fn \in OddEven /\ N \in Nat /\ Index = 0 .. N - 1
      /\ dist \in Nat /\ dist >= 1 /\ at \in Nat
      /\ End \in Nat /\ End + dist <= N /\ Pairs = at .. End - 1
      /\ \A i \in Index : RowIs(c[i], cnt[i], sum[i], i, Near(i), Far(i))
  BY DEF RoundPlace
<1>2. Fn \notin Unselective
  <2>1. in.sel[r] = 0
    BY <1>1 DEF CallHeld
  <2> QED
    BY <2>1, <1>1 DEF CallHeld
<1>3. Fn \notin Summing /\ Fn \notin RoundSums /\ (Fn \in Counting \/ Fn \in MinMax)
  BY <1>1, <1>2 DEF Unselective, Summing, Counting, MinMax, OddEven
<1>4. \A i \in Index : i >= r => c[i].key = MaxWord /\ cnt[i] = 0
  <2> SUFFICES ASSUME NEW i \in Index, i >= r PROVE c[i].key = MaxWord /\ cnt[i] = 0
    OBVIOUS
  <2>1. Key(i) <= MaxWord /\ Key(i) \in Nat /\ MaxWord \in Nat
    BY <1>1, RowTypes, Words
  <2>2. r <= i
    BY <1>1
  <2>3. Key(r) <= Key(i)
    BY <2>2, <1>1 DEF CallHeld
  <2>4. Key(i) = MaxWord
    BY <2>1, <2>3
  <2> QED
    BY <2>4, <1>1 DEF RowIs
<1>5. c[r].key = MaxWord /\ cnt[r] = 0
  BY <1>1, <1>4
<1>6. c'[r].key = MaxWord
  BY <1>5 DEF RoundStep
<1>7. Fn \notin MinMax => c'[r] = Masked
  BY <1>1, <1>5 DEF RoundStep, RowIs
<1>8. cnt'[r] = 0
  <2>1. CASE Fn \in MinMax
    BY <2>1, <1>5 DEF RoundStep
  <2>2. CASE Fn \in Counting /\ r \in Pairs
    <3>1. r + dist \in Index /\ r + dist >= r
      BY <2>2, <1>1
    <3>2. cnt[r + dist] = 0
      BY <3>1, <1>4
    <3>3. Added(cnt[r], cnt[r + dist]) = 0
      BY <3>2, <1>3, <1>5 DEF Added
    <3> QED
      BY <2>2, <3>3, <1>5 DEF RoundStep
  <2>3. CASE Fn \in Counting /\ r \notin Pairs
    BY <2>3, <1>5 DEF RoundStep
  <2> QED
    BY <2>1, <2>2, <2>3, <1>3
<1>9. Every(r, far) = {}
  <2>1. \A j \in Index : Key(j) = Key(r) => in.sel[j] = 0
    BY <1>1 DEF CallHeld
  <2>2. \A j : j \in Every(r, far) => j \in Index /\ Key(j) = Key(r) /\ in.sel[j] = 1
    BY DEF Every, Chosen, GroupOf, Key
  <2> QED
    BY <2>1, <2>2
<1>10. Cardinality({}) = 0
  BY FS_EmptySet
<1> QED
  BY <1>3, <1>6, <1>7, <1>8, <1>9, <1>10 DEF RowIs, Has

\* The first row of a pair that is left: it takes the second row of its group.
LEMMA RoundPairRow ==
  ASSUME RoundPlace, NEW r \in Index, Key(r) # MaxWord, RoundStep(r), r \in Pairs,
         Left(r, NearAfter(r))
  PROVE  Has(c'[r], cnt'[r], sum'[r], r, Every(r, dist))
<1> DEFINE d == dist
<1>1. /\ CallHeld /\ Served(in) /\ sel = in.sel /\ Fn \in OddEven
      /\ N \in Nat /\ N <= MaxWord /\ Index = 0 .. N - 1
      /\ d \in Nat /\ d >= 1 /\ at \in Nat
      /\ End \in Nat /\ End > at /\ End + d <= N /\ Pairs = at .. End - 1
  BY DEF RoundPlace
<1>2. \A i \in Index : RowIs(c[i], cnt[i], sum[i], i, Near(i), Far(i))
  BY DEF RoundPlace
<1>3. Left(r, Near(r)) /\ ~ Dropping(r)
  BY RoundLeft
<1>4. PICK s : s = r + d
  OBVIOUS
<1>5. r \in Nat /\ s \in Nat /\ s \in Index /\ r >= at /\ r < End /\ s = r + d /\ s >= at /\ s - d = r
      /\ r <= s
  BY <1>1, <1>4
<1>6. Far(r) = 2 * d /\ Far(s) = 2 * d /\ Near(s) = 2 * d
  BY <1>1, <1>5 DEF Far, Near
<1>7. Has(c[r], cnt[r], sum[r], r, Every(r, 2 * d)) /\ c[r].key = Key(r)
  BY <1>2, <1>3, <1>6 DEF RowIs, Has
<1>8. c'[r].key = Key(r)
  BY <1>3, <1>7 DEF RoundStep
<1>9. r - FirstOf(r) < d /\ FirstOf(r) \in Nat /\ FirstOf(r) <= r
  <2>1. FirstOf(r) \in Nat /\ FirstOf(r) <= r
    BY <1>1, FirstRow
  <2>2. CASE r - d \in 0 .. End - 1
    <3>1. NearAfter(r) = d
      BY <2>2 DEF NearAfter
    <3> QED
      BY <2>1, <3>1 DEF Left
  <2>3. CASE r - d \notin 0 .. End - 1
    <3>1. r < d /\ d \in Nat /\ r \in Nat
      BY <2>3, <1>1, <1>5
    <3>2. PICK f : f = FirstOf(r)
      OBVIOUS
    <3>3. f \in Nat /\ f <= r
      BY <2>1, <3>2
    <3>4. r - f < d
      BY <3>1, <3>3
    <3> QED
      BY <2>1, <3>2, <3>4
  <2> QED
    BY <2>2, <2>3
<1>10. /\ Every(r, d) \subseteq Index /\ IsFiniteSet(Every(r, d))
       /\ s \in Index /\ Key(s) = Key(r) =>
            /\ Every(r, d) = Every(r, 2 * d) \cup Every(s, 2 * d)
            /\ Every(r, 2 * d) \cap Every(s, 2 * d) = {}
       /\ s \notin Index \/ Key(s) # Key(r) => Every(r, d) = Own(r) /\ Every(r, 2 * d) = Own(r)
  BY <1>1, <1>4, EveryStep
<1>11. c[s].key = IF Left(s, 2 * d) THEN Key(s) ELSE MaxWord
  BY <1>2, <1>5, <1>6 DEF RowIs, Has
<1>12. Same(r, s) <=> c[s].key = Key(r)
  BY <1>7 DEF Same
<1>13. /\ Fn \in MinMax =>
            /\ c'[r].lo = NewLo(r) /\ c'[r].hi = NewHi(r)
       /\ Fn \in Counting => cnt'[r] = IF Same(r, s) THEN Added(cnt[r], cnt[s]) ELSE cnt[r]
       /\ Fn \in Summing => sum'[r] = IF Same(r, s) THEN Plus(sum[r], sum[s]) ELSE sum[r]
  BY <1>4 DEF RoundStep
<1>14. /\ NewLo(r) = IF Same(r, s) /\ Selected(r) /\ Selected(s) /\ c[r].lo > c[s].lo
                     THEN c[s].lo ELSE c[r].lo
       /\ NewHi(r) = IF Same(r, s) /\ Selected(r) /\ Selected(s) /\ ~ (c[r].hi > c[s].hi)
                     THEN c[s].hi ELSE c[r].hi
  BY <1>4 DEF NewLo, NewHi
<1>15. ASSUME ~ Same(r, s) PROVE Has(c'[r], cnt'[r], sum'[r], r, Every(r, 2 * d))
  <2>1. Fn \in MinMax => c'[r].lo = c[r].lo /\ c'[r].hi = c[r].hi
    BY <1>13, <1>14, <1>15
  <2>2. (Fn \in Counting => cnt'[r] = cnt[r]) /\ (Fn \in Summing => sum'[r] = sum[r])
    BY <1>13, <1>15
  <2> QED
    BY <2>1, <2>2, <1>7, <1>8 DEF Has
<1>16. CASE Key(s) # Key(r)
  <2>1. ~ Same(r, s)
    BY <1>11, <1>12, <1>16
  <2>2. Every(r, d) = Every(r, 2 * d)
    BY <1>10, <1>16
  <2> QED
    BY <2>1, <2>2, <1>15
<1>17. CASE Key(s) = Key(r)
  <2>1. /\ Every(r, d) = Every(r, 2 * d) \cup Every(s, 2 * d)
        /\ Every(r, 2 * d) \cap Every(s, 2 * d) = {}
    BY <1>5, <1>10, <1>17
  <2>2. FirstOf(s) = FirstOf(r) /\ s - FirstOf(s) < 2 * d
    <3>1. FirstOf(s) = FirstOf(r)
      BY <1>1, <1>5, <1>17, FirstRow
    <3> QED
      BY <3>1, <1>1, <1>5, <1>9
  <2>3. CASE Fn \in MinMax /\ in.sel[s] # 1
    <3>1. Every(s, 2 * d) = {}
      <4>1. ASSUME NEW j \in Every(s, 2 * d) PROVE FALSE
        <5>1. j \in Index /\ j >= s /\ Key(j) = Key(s) /\ in.sel[j] = 1
          BY DEF Every, Chosen, GroupOf, Key
        <5>2. s <= j
          BY <5>1, <1>1, <1>5
        <5>3. in.sel[s] = 1
          BY <5>1, <5>2, <2>3, <1>1, <1>5, SelectedFirst
        <5> QED
          BY <5>3, <2>3
      <4> QED
        BY <4>1
    <3>2. ~ Selected(s)
      <4>1. in.sel[s] \in {0, 1}
        BY <1>1, <1>5, RowTypes
      <4> QED
        BY <4>1, <2>3, <1>1 DEF Selected
    <3>3. c'[r].lo = c[r].lo /\ c'[r].hi = c[r].hi
      BY <3>2, <2>3, <1>13, <1>14
    <3>4. Fn \notin Counting /\ Fn \notin Summing
      BY <2>3 DEF MinMax, Counting, Summing, Joins, RoundSums
    <3>5. Has(c'[r], cnt'[r], sum'[r], r, Every(r, 2 * d))
      BY <3>3, <3>4, <1>7, <1>8 DEF Has
    <3>6. Every(r, d) = Every(r, 2 * d)
      BY <2>1, <3>1
    <3> QED
      BY <3>5, <3>6
  <2>4. CASE ~ (Fn \in MinMax /\ in.sel[s] # 1)
    <3>1. Left(s, 2 * d)
      BY <2>2, <2>4 DEF Left
    <3>2. Same(r, s)
      BY <3>1, <1>11, <1>12, <1>17
    <3>3. Has(c[s], cnt[s], sum[s], s, Every(s, 2 * d))
      BY <3>1, <1>2, <1>5, <1>6 DEF RowIs
    <3>4. Fn \in Counting => cnt'[r] = cnt[r] + cnt[s]
      <4> SUFFICES ASSUME Fn \in Counting PROVE cnt'[r] = cnt[r] + cnt[s]
        OBVIOUS
      <4>1. cnt[r] = Cardinality(Every(r, 2 * d)) /\ cnt[s] = Cardinality(Every(s, 2 * d))
        BY <3>3, <1>7 DEF Has
      <4>2. IsFiniteSet(Every(r, 2 * d)) /\ IsFiniteSet(Every(s, 2 * d))
        BY <2>1, <1>10, FS_Subset
      <4>3. Cardinality(Every(r, d)) =
              Cardinality(Every(r, 2 * d)) + Cardinality(Every(s, 2 * d))
                - Cardinality(Every(r, 2 * d) \cap Every(s, 2 * d))
        BY <2>1, <4>2, FS_Union
      <4>4. /\ Cardinality(Every(r, 2 * d)) \in Nat /\ Cardinality(Every(s, 2 * d)) \in Nat
            /\ Cardinality(Every(r, 2 * d) \cap Every(s, 2 * d)) = 0
        BY <2>1, <4>2, FS_CardinalityType, FS_EmptySet
      <4>5. Cardinality(Every(r, d)) <= N
        <5>1. IsFiniteSet(Index) /\ Cardinality(Index) = N
          BY <1>1, FS_Interval
        <5>2. Cardinality(Every(r, d)) <= Cardinality(Index)
          BY <5>1, <1>10, FS_Subset
        <5> QED
          BY <5>1, <5>2
      <4>6. cnt[r] \in Nat /\ cnt[s] \in Nat /\ cnt[r] + cnt[s] <= MaxWord
        <5>1. PICK x, y : x = cnt[r] /\ y = cnt[s]
          OBVIOUS
        <5>2. x \in Nat /\ y \in Nat /\ x + y <= N
          BY <5>1, <4>1, <4>3, <4>4, <4>5
        <5>3. x + y <= MaxWord
          BY <5>2, <1>1, Words
        <5> QED
          BY <5>1, <5>2, <5>3
      <4>7. Plus(cnt[r], cnt[s]) = cnt[r] + cnt[s]
        <5>1. PICK z : z = cnt[r] + cnt[s]
          OBVIOUS
        <5>2. z \in Nat /\ z <= MaxWord
          BY <4>6, <5>1
        <5>3. z % (MaxWord + 1) = z
          BY <5>2, PlusModulo
        <5> QED
          BY <5>1, <5>3 DEF Plus
      <4> QED
        BY <4>7, <3>2, <1>13 DEF Added
    <3>5. Fn \in Summing => sum'[r] = Plus(sum[r], sum[s])
      BY <3>2, <1>13
    <3>6. Fn \in MinMax =>
            /\ c'[r].lo = IF c[r].lo > c[s].lo THEN c[s].lo ELSE c[r].lo
            /\ c'[r].hi = IF c[r].hi > c[s].hi THEN c[r].hi ELSE c[s].hi
            /\ r \in Every(r, 2 * d) /\ s \in Every(s, 2 * d)
      <4> SUFFICES ASSUME Fn \in MinMax
            PROVE  /\ c'[r].lo = IF c[r].lo > c[s].lo THEN c[s].lo ELSE c[r].lo
                   /\ c'[r].hi = IF c[r].hi > c[s].hi THEN c[r].hi ELSE c[s].hi
                   /\ r \in Every(r, 2 * d) /\ s \in Every(s, 2 * d)
        OBVIOUS
      <4>1. in.sel[s] = 1
        BY <2>4
      <4>2. in.sel[r] = 1
        BY <4>1, <1>1, <1>5, <1>17, SelectedFirst
      <4>3. Selected(r) /\ Selected(s)
        BY <4>1, <4>2, <1>1 DEF Selected
      <4>4. r \in Every(r, 2 * d) /\ s \in Every(s, 2 * d)
        <5>1. PICK e : e = 2 * d
          OBVIOUS
        <5>2. e \in Nat /\ e >= 1
          BY <5>1, <1>1
        <5>3. r \in Every(r, e)
          BY <5>2, <4>2, <1>1, EveryStep
        <5>4. s \in Every(s, e)
          BY <5>2, <4>1, <1>1, <1>5, EveryStep
        <5> QED
          BY <5>1, <5>3, <5>4
      <4> QED
        BY <4>3, <4>4, <3>2, <1>13, <1>14
    <3>7. PICK x, n, t, y, m, u, z, k, v :
            /\ x = c[r] /\ n = cnt[r] /\ t = sum[r]
            /\ y = c[s] /\ m = cnt[s] /\ u = sum[s]
            /\ z = c'[r] /\ k = cnt'[r] /\ v = sum'[r]
      OBVIOUS
    <3>8. PICK S, T : S = Every(r, 2 * d) /\ T = Every(s, 2 * d)
      OBVIOUS
    <3>9. /\ Key(r) = Key(s) /\ S \in SUBSET Index /\ T \in SUBSET Index /\ S \cap T = {}
          /\ Has(x, n, t, r, S) /\ Has(y, m, u, s, T) /\ z.key = Key(s)
          /\ Fn \in Counting => k = n + m
          /\ Fn \in Summing => v = Plus(t, u)
      BY <2>1, <3>3, <3>4, <3>5, <3>7, <3>8, <1>7, <1>8, <1>10, <1>17
    <3>10. Fn \in MinMax =>
             /\ S = {} => z.lo = y.lo /\ z.hi = y.hi
             /\ T = {} => z.lo = x.lo /\ z.hi = x.hi
             /\ S # {} /\ T # {} =>
                  /\ z.lo = IF x.lo > y.lo THEN y.lo ELSE x.lo
                  /\ z.hi = IF x.hi > y.hi THEN x.hi ELSE y.hi
      BY <3>6, <3>7, <3>8
    <3>11. Has(z, k, v, r, S \cup T)
      BY <3>9, <3>10, <1>1, <1>5, HasMerged
    <3> QED
      BY <2>1, <3>7, <3>8, <3>11
  <2> QED
    BY <2>3, <2>4
<1> QED
  BY <1>16, <1>17

LEMMA RoundRow ==
  ASSUME RoundPlace, NEW r \in Index, RoundStep(r)
  PROVE  RowIs(c'[r], cnt'[r], sum'[r], r, NearAfter(r), FarAfter(r))
<1>1. CASE Key(r) = MaxWord
  BY <1>1, RoundMaskedRow
<1>2. CASE Key(r) # MaxWord
  <2>1. RowIs(c[r], cnt[r], sum[r], r, Near(r), Far(r))
    BY DEF RoundPlace
  <2>2. Fn \notin MinMax /\ c'[r].key = MaxWord => c'[r] = Masked
    BY <2>1, Words DEF RoundStep, RowIs
  <2>3. CASE ~ Left(r, NearAfter(r))
    <3>1. c[r].key = MaxWord \/ Dropping(r)
      BY <2>3, <1>2, RoundLeft
    <3>2. c'[r].key = MaxWord
      BY <3>1 DEF RoundStep
    <3> QED
      BY <2>2, <2>3, <3>2, <1>2 DEF RowIs
  <2>4. CASE Left(r, NearAfter(r))
    <3>1. Left(r, Near(r)) /\ ~ Dropping(r)
      BY <2>4, <1>2, RoundLeft
    <3>2. Has(c[r], cnt[r], sum[r], r, Every(r, Far(r)))
      BY <2>1, <3>1 DEF RowIs
    <3>3. Pairs = at .. End - 1 /\ at \in Nat /\ End \in Nat /\ End > at /\ r \in Nat
      BY DEF RoundPlace
    <3>4. CASE r \in Pairs
      <4>1. Has(c'[r], cnt'[r], sum'[r], r, Every(r, dist))
        BY <2>4, <3>4, <1>2, RoundPairRow
      <4>2. FarAfter(r) = dist
        BY <3>3, <3>4 DEF FarAfter
      <4> QED
        BY <4>1, <4>2, <2>2, <2>4, <1>2 DEF RowIs
    <3>5. CASE r \notin Pairs
      <4>1. FarAfter(r) = Far(r)
        BY <3>3, <3>5 DEF FarAfter, Far
      <4>2. /\ Fn \in Counting => cnt'[r] = cnt[r]
            /\ Fn \in Summing => sum'[r] = sum[r]
            /\ c'[r] = c[r]
        BY <3>1, <3>5 DEF RoundStep
      <4>3. Has(c'[r], cnt'[r], sum'[r], r, Every(r, Far(r)))
        BY <3>2, <4>2 DEF Has
      <4> QED
        BY <4>1, <4>3, <2>2, <2>4, <1>2 DEF RowIs
    <3> QED
      BY <3>4, <3>5
  <2> QED
    BY <2>3, <2>4
<1> QED
  BY <1>1, <1>2

\* Each of the three rounds treats a row in this way.
LEMMA RoundStepHolds ==
  ASSUME TypeInv, RoundCount \/ RoundSum \/ RoundMinMax, NEW r \in Index
  PROVE  RoundStep(r)
<1>1. CASE RoundCount
  <2>1. /\ Fn \notin MinMax /\ Fn \notin RoundSums /\ Fn \notin Summing
        /\ c' = [i \in Index |->
                   MaskedIf(i - dist \in Pairs /\ Same(i - dist, i), c[i], Masked)]
        /\ cnt' = [i \in Index |->
                     IF i \in Pairs /\ Same(i, i + dist) THEN cnt[i] + cnt[i + dist]
                     ELSE cnt[i]]
    BY <1>1 DEF RoundCount, Fn, MinMax, RoundSums, Summing, Joins
  <2>2. c'[r] = IF Dropping(r) THEN Masked ELSE c[r]
    BY <2>1 DEF Dropping, MaskedIf
  <2>3. c'[r].key = IF Dropping(r) THEN MaxWord ELSE c[r].key
    BY <2>2, Words
  <2>4. cnt'[r] = IF r \in Pairs /\ Same(r, r + dist) THEN Added(cnt[r], cnt[r + dist])
                  ELSE cnt[r]
    BY <2>1 DEF Added
  <2> QED
    BY <2>1, <2>2, <2>3, <2>4 DEF RoundStep
<1>2. CASE RoundSum
  <2>1. /\ Fn \notin MinMax /\ Fn \in RoundSums
        /\ c' = [i \in Index |->
                   MaskedIf(i - dist \in Pairs /\ Same(i - dist, i), c[i], Masked)]
        /\ sum' = [i \in Index |-> Accumulated(sum, i)]
        /\ cnt' = [i \in Index |-> IF Fn \in Counting THEN Accumulated(cnt, i)
                                   ELSE Cleared(cnt, i)]
    BY <1>2 DEF RoundSum, Fn, MinMax, RoundSums
  <2>2. c'[r] = IF Dropping(r) THEN Masked ELSE c[r]
    BY <2>1 DEF Dropping, MaskedIf
  <2>3. c'[r].key = IF Dropping(r) THEN MaxWord ELSE c[r].key
    BY <2>2, Words
  <2>4. ASSUME NEW col
        PROVE  /\ r \in Pairs => Accumulated(col, r) = IF Same(r, r + dist)
                                                       THEN Plus(col[r], col[r + dist])
                                                       ELSE col[r]
               /\ r \notin Pairs => \/ Accumulated(col, r) = col[r]
                                    \/ Dropping(r) /\ Accumulated(col, r) = 0
    BY <2>1 DEF Accumulated, Cleared, Dropping
  <2>5. sum'[r] = Accumulated(sum, r) /\ (Fn \in Counting => cnt'[r] = Accumulated(cnt, r))
    BY <2>1
  <2>6. Added(cnt[r], cnt[r + dist]) = Plus(cnt[r], cnt[r + dist])
    BY <2>1 DEF Added
  <2> QED
    BY <2>1, <2>2, <2>3, <2>4, <2>5, <2>6 DEF RoundStep
<1>3. CASE RoundMinMax
  <2> DEFINE masked == [i \in Index |->
                          MaskedIf(i - dist \in Pairs /\ Dropped(i - dist), c[i], Masked)]
  <2>1. /\ Fn \in MinMax /\ Fn \notin Counting /\ Fn \notin Summing /\ cnt' = cnt
        /\ c' = [i \in Index |->
                   IF i \in Pairs
                   THEN [masked[i] EXCEPT !.lo = NewLo(i), !.hi = NewHi(i)]
                   ELSE masked[i]]
    BY <1>3 DEF RoundMinMax, Fn, MinMax, Counting, Summing, Joins, RoundSums
  <2>2. masked[r] = IF Dropping(r) THEN Masked ELSE c[r]
    BY <2>1 DEF Dropping, MaskedIf
  <2>3. c[r] \in Row /\ Masked \in Row /\ Masked.key = MaxWord
    BY Words DEF TypeInv, TypeOK
  <2>4. /\ c'[r].key = masked[r].key
        /\ r \in Pairs => c'[r].lo = NewLo(r) /\ c'[r].hi = NewHi(r)
        /\ r \notin Pairs => c'[r] = masked[r]
    <3>1. PICK x : x = masked[r]
      OBVIOUS
    <3>2. x \in Row
      BY <3>1, <2>2, <2>3
    <3>3. c'[r] = IF r \in Pairs THEN [x EXCEPT !.lo = NewLo(r), !.hi = NewHi(r)] ELSE x
      BY <3>1, <2>1
    <3>4. PICK l, h : l = NewLo(r) /\ h = NewHi(r)
      OBVIOUS
    <3>5. /\ [x EXCEPT !.lo = l, !.hi = h].key = x.key
          /\ [x EXCEPT !.lo = l, !.hi = h].lo = l
          /\ [x EXCEPT !.lo = l, !.hi = h].hi = h
      BY <3>2 DEF Row
    <3> QED
      BY <3>1, <3>3, <3>4, <3>5
  <2> HIDE DEF masked
  <2>5. c'[r].key = IF Dropping(r) THEN MaxWord ELSE c[r].key
    BY <2>2, <2>3, <2>4
  <2>6. r \notin Pairs => Dropping(r) \/ c'[r] = c[r]
    BY <2>2, <2>4
  <2> QED
    BY <2>1, <2>4, <2>5, <2>6 DEF RoundStep
<1> QED
  BY <1>1, <1>2, <1>3

\* The invariant at a batch of a round.
LEMMA RoundPlaceHolds ==
  ASSUME TypeInv, RoundHeld, Served(in), pc = "rounds", Fn \in OddEven, NextBatch
  PROVE  RoundPlace
<1>1. CallHeld
  BY DEF TypeInv
<1>2. N \in Nat /\ N >= 2 /\ N <= MaxWord /\ Index = 0 .. N - 1
  BY <1>1, Sizes2
<1>3. /\ End \in Nat /\ End > at /\ End + dist <= N /\ Pairs = at .. End - 1
      /\ dist \in Nat /\ dist >= 1 /\ at \in Nat
  BY NextBatchTypes
<1>4. sel = in.sel /\ \A r \in Index : RowIs(c[r], cnt[r], sum[r], r, Near(r), Far(r))
  BY RowHeldIs DEF RoundHeld
<1> QED
  BY <1>1, <1>2, <1>3, <1>4 DEF RoundPlace

\* Between two rounds, what is left at distance d is what was left at 2d.
LEMMA RoundEnds ==
  ASSUME CallHeld, NEW r \in Index, NEW d \in Nat, d >= 1, d <= N, NEW row, NEW n, NEW s,
         RowIs(row, n, s, r, IF r - d \in 0 .. N - d - 1 THEN d ELSE 2 * d,
               IF r < N - d THEN d ELSE 2 * d)
  PROVE  RowIs(row, n, s, r, d, d)
<1>1. N \in Nat /\ Index = 0 .. N - 1
  BY Sizes2
<1>2. r \in Nat /\ r < N /\ FirstOf(r) \in Nat /\ FirstOf(r) <= r
  BY RowTypes, FirstRow
<1>3. PICK near, far : /\ near = IF r - d \in 0 .. N - d - 1 THEN d ELSE 2 * d
                       /\ far = IF r < N - d THEN d ELSE 2 * d
  OBVIOUS
<1>4. Left(r, near) <=> Left(r, d)
  <2>1. CASE r < d
    <3>1. near = 2 * d
      BY <2>1, <1>1, <1>2, <1>3
    <3>2. PICK f : f = FirstOf(r)
      OBVIOUS
    <3>3. r - f < d /\ r - f < 2 * d /\ ~ (r >= d) /\ ~ (r >= 2 * d)
      BY <3>2, <2>1, <1>2
    <3> QED
      BY <3>1, <3>2, <3>3 DEF Left
  <2>2. CASE ~ (r < d)
    <3>1. near = d
      BY <2>2, <1>1, <1>2, <1>3
    <3> QED
      BY <3>1
  <2> QED
    BY <2>1, <2>2
<1>5. Every(r, far) = Every(r, d)
  <2>1. CASE r < N - d
    BY <2>1, <1>3
  <2>2. CASE ~ (r < N - d)
    <3>1. r + d \notin Index
      BY <2>2, <1>1, <1>2
    <3>2. Every(r, d) = Own(r) /\ Every(r, 2 * d) = Own(r)
      BY <3>1, EveryStep
    <3>3. far = 2 * d
      BY <2>2, <1>3
    <3> QED
      BY <3>2, <3>3
  <2> QED
    BY <2>1, <2>2
<1>6. RowIs(row, n, s, r, near, far)
  BY <1>3
<1> QED
  BY <1>4, <1>5, <1>6 DEF RowIs

\* The first round compares rows at half the number of rows.
LEMMA HalfPower ==
  ASSUME CallHeld, Fn \in OddEven
  PROVE  /\ \E k \in 0 .. N : N \div 2 = 2^k
         /\ 2 * (N \div 2) = N /\ N \div 2 \in Nat /\ N \div 2 >= 1 /\ N \div 2 < N
<1>1. N \in Nat /\ N >= 2
  BY Sizes2
<1>2. PICK e \in 1 .. N : N = 2^e
  BY InputAssumption DEF CallHeld
<1>3. PICK k : k = e - 1
  OBVIOUS
<1>4. k \in Nat /\ e = k + 1 /\ k \in 0 .. N
  BY <1>1, <1>3
<1>5. 2^(k + 1) = 2 * 2^k
  BY <1>4, PowDouble
<1>6. PICK p : p = 2^k
  OBVIOUS
<1>7. p \in Nat /\ N = 2 * p
  BY <1>2, <1>4, <1>5, <1>6, PowPositive
<1>8. N \div 2 = p
  BY <1>7
<1> QED
  BY <1>1, <1>4, <1>6, <1>7, <1>8

\* A row before the rounds.
LEMMA RoundFirstRow ==
  ASSUME CallHeld, NEW r \in Index, NEW s, Fn \in Summing => s = Share(r)
  PROVE  RowIs(in.rows[r], in.sel[r], s, r, N, N)
<1>1. N \in Nat /\ N >= 2 /\ Index = 0 .. N - 1
  BY Sizes2
<1>2. r \in Nat /\ r < N /\ FirstOf(r) \in Nat
  BY RowTypes, FirstRow
<1>3. Left(r, N)
  <2>1. PICK f : f = FirstOf(r)
    OBVIOUS
  <2>2. r - f < N /\ ~ (r >= N)
    BY <2>1, <1>1, <1>2
  <2> QED
    BY <2>1, <2>2 DEF Left
<1>4. Every(r, N) = Own(r)
  <2>1. r + N \notin Index
    BY <1>1, <1>2
  <2>2. N >= 1
    BY <1>1
  <2> QED
    BY <2>1, <2>2, <1>1, EveryStep
<1>5. Has(in.rows[r], in.sel[r], s, r, Own(r))
  BY HasOwn
<1>6. /\ Key(r) = MaxWord => in.rows[r].key = MaxWord /\ in.sel[r] = 0
      /\ in.rows[r].key = MaxWord => in.rows[r] = Masked
  BY Words DEF CallHeld, Key
<1> QED
  BY <1>3, <1>4, <1>5, <1>6 DEF RowIs

LEMMA RoundInit == Init => RoundHeld
<1> SUFFICES ASSUME Init, Fn \in OddEven PROVE RoundHeld
  BY DEF RoundHeld
<1>1. CallHeld
  BY InitCall
<1>2. c = in.rows /\ sel = in.sel /\ cnt = in.sel /\ at = 0 /\ dist = N \div 2
      /\ sum = [i \in Index |-> IF Fn = "group_by_avg_odd_even" THEN in.rows[i].lo ELSE 0]
  BY DEF Init, Fn
<1>3. pc = IF Fn \in Joins THEN "first" ELSE "rounds"
  <2>1. pc = CASE Fn \in Joins -> "first"
              [] Fn = "distinct_batch" -> "pairs"
              [] Fn \in Scans \ Joins -> "scan"
              [] OTHER -> "rounds"
    BY DEF Init, Fn
  <2>2. Fn # "distinct_batch" /\ Fn \notin Scans
    BY DEF OddEven, RoundSums, Scans
  <2> QED
    BY <2>1, <2>2
<1>4. N \in Nat /\ N >= 2 /\ Index = 0 .. N - 1
  BY <1>1, Sizes2
<1>5. GivenFrom(0)
  BY <1>2 DEF GivenFrom
<1>6. CASE Fn \in Joins
  <2>1. pc = "first" /\ at \in 0 .. N - 1 /\ 0 .. at - 1 = {}
    BY <1>2, <1>3, <1>4, <1>6
  <2> QED
    BY <2>1, <1>2, <1>5, <1>6 DEF RoundHeld
<1>7. CASE Fn \notin Joins
  <2>1. /\ \E k \in 0 .. N : dist = 2^k
        /\ 2 * dist = N /\ dist \in Nat /\ dist >= 1 /\ dist < N
    BY <1>1, <1>2, HalfPower
  <2>2. ASSUME NEW r \in Index PROVE RowHeld(r, Near(r), Far(r))
    <3>1. Fn \in Summing => sum[r] = Share(r)
      BY <1>2, <1>7 DEF Share, Summing, RoundSums, Joins, Fn
    <3>2. RowIs(in.rows[r], in.sel[r], sum[r], r, N, N)
      BY <3>1, <1>1, RoundFirstRow
    <3>3. Near(r) = N /\ Far(r) = N
      <4>1. r \in Nat
        BY <1>1, RowTypes
      <4>2. ~ (r < at) /\ r - dist \notin 0 .. at - 1
        BY <4>1, <2>1, <1>2
      <4> QED
        BY <4>2, <2>1 DEF Near, Far
    <3>4. RowIs(c[r], cnt[r], sum[r], r, N, N)
      BY <3>2, <1>2
    <3> QED
      BY <3>3, <3>4, RowHeldIs
  <2>3. pc = "rounds" /\ at \in 0 .. N - dist - 1
    BY <2>1, <1>2, <1>3, <1>4, <1>7
  <2> QED
    BY <2>1, <2>2, <2>3, <1>2 DEF RoundHeld
<1> QED
  BY <1>6, <1>7

\* A batch keeps the invariant of the rounds, at the end of a round too.
LEMMA RoundKeepsHeld ==
  ASSUME TypeInv, PhaseHeld, RoundHeld, Served(in), RoundCount \/ RoundSum \/ RoundMinMax
  PROVE  RoundHeld'
<1>1. pc = "rounds" /\ NextBatch /\ sel' = sel
  BY DEF RoundCount, RoundSum, RoundMinMax
<1>2. Fn \in OddEven
  BY <1>1 DEF PhaseHeld
<1>3. /\ in' = in /\ N' = N /\ Index' = Index
      /\ End \in Nat /\ End > at /\ End + dist <= N /\ Pairs = at .. End - 1
      /\ dist \in Nat /\ dist >= 1 /\ at \in Nat
      /\ \/ End + dist < N /\ at' = End /\ dist' = dist /\ pc' = "rounds"
         \/ End + dist = N /\ at' = 0
  <2>1. /\ in' = in /\ N' = N /\ Index' = Index
        /\ End \in Nat /\ End > at /\ End + dist <= N /\ Pairs = at .. End - 1
        /\ dist \in Nat /\ dist >= 1 /\ at \in Nat
        /\ \/ End + dist < N /\ at' = End /\ dist' = dist /\ pc' = "rounds"
           \/ End + dist = N /\ at' = 0 /\ 2 * dist' <= dist /\ (dist' >= 1 \/ pc' = "final")
    BY <1>1, NextBatchTypes
  <2> QED
    BY <2>1
<1>4. CallHeld /\ N \in Nat /\ N >= 2 /\ Index = 0 .. N - 1
  BY Sizes2 DEF TypeInv
<1>5. RoundPlace
  BY <1>1, <1>2, RoundPlaceHolds
<1>6. \A r \in Index : RowIs(c'[r], cnt'[r], sum'[r], r, NearAfter(r), FarAfter(r))
  BY <1>5, RoundStepHolds, RoundRow
<1>7. sel = in.sel /\ sel' = in.sel /\ \E k \in 0 .. N : dist = 2^k
  BY <1>1, <1>2 DEF RoundHeld
<1>8. CASE End + dist < N /\ at' = End /\ dist' = dist /\ pc' = "rounds"
  <2>1. ASSUME NEW r \in Index PROVE RowHeld(r, Near(r), Far(r))'
    <3>1. PICK near, far : near = NearAfter(r) /\ far = FarAfter(r)
      OBVIOUS
    <3>2. Near(r)' = near /\ Far(r)' = far
      BY <3>1, <1>8 DEF Near, Far, NearAfter, FarAfter
    <3>3. RowIs(c'[r], cnt'[r], sum'[r], r, near, far)
      BY <3>1, <1>6
    <3>4. RowHeld(r, near, far)'
      BY <3>3, <1>3, RowHeldNext
    <3> QED
      BY <3>2, <3>4 DEF RowHeld, Left, Every, Holds
  <2>2. at' \in 0 .. N' - dist' - 1
    BY <1>3, <1>4, <1>8
  <2>3. \E k \in 0 .. N' : dist' = 2^k
    BY <1>3, <1>7, <1>8
  <2>4. \A r \in Index' : RowHeld(r, Near(r), Far(r))'
    BY <2>1, <1>3
  <2> QED
    BY <2>2, <2>3, <2>4, <1>3, <1>7, <1>8 DEF RoundHeld
<1>9. CASE End + dist = N /\ at' = 0
  <2>1. dist' = dist \div 2 /\ pc' = IF dist = 1 THEN "final" ELSE "rounds"
    <3>1. ~ (End < N - dist)
      BY <1>3, <1>4, <1>9
    <3> QED
      BY <3>1, <1>1 DEF NextBatch
  <2>2. ASSUME NEW r \in Index PROVE RowIs(c'[r], cnt'[r], sum'[r], r, dist, dist)
    <3>1. PICK d, e : d = dist /\ e = End
      OBVIOUS
    <3>2. d \in Nat /\ d >= 1 /\ d <= N /\ e = N - d
      BY <3>1, <1>3, <1>4, <1>9
    <3>3. RowIs(c'[r], cnt'[r], sum'[r], r, IF r - d \in 0 .. N - d - 1 THEN d ELSE 2 * d,
                IF r < N - d THEN d ELSE 2 * d)
      BY <3>1, <3>2, <1>6 DEF NearAfter, FarAfter
    <3> QED
      BY <3>1, <3>2, <3>3, <1>4, RoundEnds
  <2>3. CASE dist = 1
    <3>1. pc' = "final"
      BY <2>1, <2>3
    <3>2. ASSUME NEW r \in Index PROVE RowHeld(r, 1, 1)'
      <4>1. RowIs(c'[r], cnt'[r], sum'[r], r, 1, 1)
        BY <2>2, <2>3
      <4> QED
        BY <4>1, <1>3, RowHeldNext
    <3>3. at' \in 0 .. N' - 1 /\ 0 .. at' - 1 = {} /\ at' .. N' - 1 = Index
      BY <1>3, <1>4, <1>9
    <3>4. \A r \in at' .. N' - 1 : RowHeld(r, 1, 1)'
      BY <3>2, <3>3
    <3> QED
      BY <3>1, <3>3, <3>4, <1>3, <1>7 DEF RoundHeld
  <2>4. CASE dist # 1
    <3>1. pc' = "rounds"
      BY <2>1, <2>4
    <3>2. dist' \in Nat /\ dist' >= 1 /\ 2 * dist' = dist /\ dist' < N
          /\ \E k \in 0 .. N : dist' = 2^k
      <4>1. PICK k \in 0 .. N : dist = 2^k
        BY <1>7
      <4>2. k # 0
        <5>1. 2^0 = 1
          OBVIOUS
        <5> QED
          BY <5>1, <4>1, <2>4
      <4>3. PICK j : j = k - 1
        OBVIOUS
      <4>4. j \in Nat /\ k = j + 1 /\ j \in 0 .. N
        BY <4>2, <4>3, <1>4
      <4>5. PICK p : p = 2^j
        OBVIOUS
      <4>6. p \in Nat /\ p >= 1 /\ dist = 2 * p
        BY <4>1, <4>4, <4>5, PowDouble, PowPositive
      <4>7. dist' = p
        BY <4>6, <2>1
      <4>8. p < N
        BY <4>6, <1>3, <1>4
      <4> QED
        BY <4>4, <4>5, <4>6, <4>7, <4>8
    <3>3. ASSUME NEW r \in Index PROVE RowHeld(r, Near(r), Far(r))'
      <4>1. PICK d : d = dist
        OBVIOUS
      <4>2. Near(r)' = d /\ Far(r)' = d
        <5>1. r \in Nat
          BY <1>4, RowTypes
        <5>2. ~ (r < at') /\ 0 .. at' - 1 = {} /\ 2 * dist' = d
          BY <5>1, <4>1, <3>2, <1>9
        <5> QED
          BY <5>2 DEF Near, Far
      <4>3. RowIs(c'[r], cnt'[r], sum'[r], r, d, d)
        BY <4>1, <2>2
      <4>4. RowHeld(r, d, d)'
        BY <4>3, <1>3, RowHeldNext
      <4> QED
        BY <4>2, <4>4 DEF RowHeld, Left, Every, Holds
    <3>4. at' \in 0 .. N' - dist' - 1
      BY <3>2, <1>3, <1>4, <1>9
    <3>5. \A r \in Index' : RowHeld(r, Near(r), Far(r))'
      BY <3>3, <1>3
    <3>6. \E k \in 0 .. N' : dist' = 2^k
      BY <3>2, <1>3
    <3> QED
      BY <3>1, <3>4, <3>5, <3>6, <1>3, <1>7 DEF RoundHeld
  <2> QED
    BY <2>3, <2>4
<1> QED
  BY <1>3, <1>8, <1>9

LEMMA FinalEndType ==
  ASSUME CallHeld, at \in 0 .. N - 1
  PROVE  FinalEnd \in Nat /\ FinalEnd > at /\ FinalEnd <= N
<1>1. N \in Nat /\ Batch \in Nat /\ Batch >= 1
  BY Sizes2
<1> QED
  BY <1>1 DEF FinalEnd

\* group_by_join_first computes the share of every row before the rounds.
LEMMA RoundFirst ==
  ASSUME TypeInv, RoundHeld, JoinFirst
  PROVE  RoundHeld'
<1>1. /\ Fn = "group_by_sum_odd_even" /\ pc = "first"
      /\ sum' = [i \in Index |->
                   IF i \in at .. FinalEnd - 1 THEN Matching(c[i].lo) ELSE sum[i]]
      /\ IF FinalEnd < N THEN at' = FinalEnd /\ pc' = pc ELSE at' = 0 /\ pc' = "rounds"
      /\ in' = in /\ c' = c /\ sel' = sel /\ cnt' = cnt /\ dist' = dist
  BY DEF JoinFirst, Fn
<1>2. Fn \in OddEven /\ Fn \in Joins /\ Fn' = Fn
  BY <1>1 DEF OddEven, RoundSums, Joins, Fn
<1>3. /\ at \in 0 .. N - 1 /\ dist = N \div 2 /\ GivenFrom(0)
      /\ \A r \in 0 .. at - 1 : sum[r] = Matching(in.rows[r].lo)
  BY <1>1, <1>2 DEF RoundHeld
<1>4. CallHeld /\ N \in Nat /\ N >= 2 /\ Index = 0 .. N - 1 /\ N' = N /\ Index' = Index
  BY <1>1, Sizes2, SameCall DEF TypeInv
<1>5. FinalEnd \in Nat /\ FinalEnd > at /\ FinalEnd <= N
  BY <1>3, <1>4, FinalEndType
<1>6. \A r \in Index : c[r] = in.rows[r] /\ sel[r] = in.sel[r] /\ cnt[r] = in.sel[r]
  <2>1. \A r \in Index : r >= 0
    BY <1>4
  <2> QED
    BY <2>1, <1>3 DEF GivenFrom
<1>7. \A r \in 0 .. FinalEnd - 1 : sum'[r] = Matching(in.rows[r].lo)
  <2> SUFFICES ASSUME NEW r \in 0 .. FinalEnd - 1 PROVE sum'[r] = Matching(in.rows[r].lo)
    OBVIOUS
  <2>1. r \in Index /\ c[r] = in.rows[r]
    BY <1>4, <1>5, <1>6
  <2>2. CASE r \in at .. FinalEnd - 1
    BY <2>1, <2>2, <1>1
  <2>3. CASE r \notin at .. FinalEnd - 1
    <3>1. r \in 0 .. at - 1
      BY <2>3, <1>3, <1>4, <1>5
    <3> QED
      BY <3>1, <2>1, <2>3, <1>1, <1>3
  <2> QED
    BY <2>2, <2>3
<1>8. CASE FinalEnd < N
  <2>1. at' = FinalEnd /\ pc' = "first" /\ at' \in 0 .. N' - 1
    BY <1>1, <1>4, <1>5, <1>8
  <2>2. \A r \in 0 .. at' - 1 : sum'[r] = Matching(in.rows[r].lo)'
    <3>1. \A r : Matching(in.rows[r].lo)' = Matching(in.rows[r].lo)
      BY <1>1 DEF Matching, MapThenSumSet, MapThenFoldSet
    <3> QED
      BY <3>1, <2>1, <1>7
  <2>3. GivenFrom(0)'
    BY <1>1, <1>3, <1>4 DEF GivenFrom
  <2>4. dist' = N' \div 2
    BY <1>1, <1>3, <1>4
  <2> QED
    BY <2>1, <2>2, <2>3, <2>4, <1>2 DEF RoundHeld
<1>9. CASE ~ (FinalEnd < N)
  <2>1. FinalEnd = N /\ at' = 0 /\ pc' = "rounds"
    BY <1>1, <1>4, <1>5, <1>9
  <2>2. /\ \E k \in 0 .. N : dist = 2^k
        /\ 2 * dist = N /\ dist \in Nat /\ dist >= 1 /\ dist < N
    BY <1>2, <1>3, <1>4, HalfPower
  <2>3. ASSUME NEW r \in Index PROVE RowHeld(r, Near(r), Far(r))'
    <3>1. sum'[r] = Share(r)
      <4>1. r \in 0 .. FinalEnd - 1
        BY <2>1, <1>4
      <4> QED
        BY <4>1, <1>2, <1>7 DEF Share, Fn
    <3>2. RowIs(in.rows[r], in.sel[r], sum'[r], r, N, N)
      BY <3>1, <1>4, RoundFirstRow
    <3>3. RowIs(c'[r], cnt'[r], sum'[r], r, N, N)
      BY <3>2, <1>1, <1>6
    <3>4. PICK n : n = N
      OBVIOUS
    <3>5. RowHeld(r, n, n)'
      BY <3>3, <3>4, <1>1, RowHeldNext
    <3>6. Near(r)' = n /\ Far(r)' = n
      <4>1. r \in Nat
        BY <1>4, RowTypes
      <4>2. ~ (r < at') /\ 0 .. at' - 1 = {} /\ 2 * dist' = n
        BY <4>1, <3>4, <2>1, <2>2, <1>1
      <4> QED
        BY <4>2 DEF Near, Far
    <3> QED
      BY <3>5, <3>6 DEF RowHeld, Left, Every, Holds
  <2>4. at' \in 0 .. N' - dist' - 1 /\ \E k \in 0 .. N' : dist' = 2^k
    BY <2>1, <2>2, <1>1, <1>4
  <2>5. sel' = in'.sel
    <3>1. sel \in [Index -> {0, 1, MaxWord}] /\ in.sel \in [Index -> {0, 1}]
      BY <1>4 DEF TypeInv, TypeOK, CallHeld
    <3>2. sel = in.sel
      BY <3>1, <1>6
    <3> QED
      BY <3>2, <1>1
  <2>6. \A r \in Index' : RowHeld(r, Near(r), Far(r))'
    BY <2>3, <1>4
  <2> QED
    BY <2>1, <2>4, <2>5, <2>6, <1>2 DEF RoundHeld
<1> QED
  BY <1>8, <1>9

-----------------------------------------------------------------------------
(* The final pass. *)

EndedIs(row, n, s, r) ==
  IF Kept(r) THEN Has(row, n, s, r, Chosen(GroupOf(r)))
  ELSE /\ row = Masked
       /\ Fn \in Counting => n \in {0, MaskedCount}
       /\ Fn \in Summing => s = 0

LEMMA EndedHolds == \A r : Ended(r) <=> EndedIs(c[r], cnt[r], sum[r], r)
BY HoldsIs DEF Ended, EndedIs

LEMMA EndedNext ==
  ASSUME in' = in
  PROVE  \A r : Ended(r)' <=> EndedIs(c'[r], cnt'[r], sum'[r], r)
<1> SUFFICES ASSUME NEW r PROVE Ended(r)' <=> EndedIs(c'[r], cnt'[r], sum'[r], r)
  OBVIOUS
<1>1. PICK of : of = Chosen(GroupOf(r))
  OBVIOUS
<1>2. Chosen(GroupOf(r))' = of /\ (Kept(r)' <=> Kept(r)) /\ Fn' = Fn
  BY <1>1 DEF Kept, FirstOf, Chosen, GroupOf, Fn, Index, N
<1>3. Holds(r, of)' <=> Has(c'[r], cnt'[r], sum'[r], r, of)
  BY HoldsNext
<1>4. Holds(r, Chosen(GroupOf(r)))' <=> Holds(r, of)'
  BY <1>2 DEF Holds
<1> QED
  BY <1>1, <1>2, <1>3, <1>4 DEF Ended, EndedIs

LEMMA ServedCountSel ==
  ASSUME NEW x, x.fn = "group_by_count_sel_odd_even", Served(x), NEW S, DOMAIN x.rows = S
  PROVE  \A i \in {k \in S : x.rows[k].key # MaxWord} :
           IF 0 \in {k \in S : x.rows[k].key = x.rows[i].key}
           THEN x.sel[0] = 1 \/ {j \in {k \in S : x.rows[k].key = x.rows[0].key} : x.sel[j] = 1} = {}
           ELSE {j \in {k \in S : x.rows[k].key = x.rows[i].key} : x.sel[j] = 1} # {}
<1>1. \A i \in {k \in DOMAIN x.rows : x.rows[k].key # MaxWord} :
        IF 0 \in {k \in DOMAIN x.rows : x.rows[k].key = x.rows[i].key}
        THEN x.sel[0] = 1 \/ {j \in {k \in DOMAIN x.rows : x.rows[k].key = x.rows[0].key} : x.sel[j] = 1} = {}
        ELSE {j \in {k \in DOMAIN x.rows : x.rows[k].key = x.rows[i].key} : x.sel[j] = 1} # {}
  <2>1. x.fn # "group_by_min_max_sel_odd_even" /\ x.fn \notin Unselective
    BY DEF Unselective, Summing, Joins, RoundSums
  <2> QED
    BY <2>1, Zenon DEF Served
<1> QED
  BY <1>1

\* What is left at distance 1 is the first row of each group.
LEMMA LeftLast ==
  ASSUME CallHeld, NEW r \in Index
  PROVE  /\ Left(r, 1) <=> r = FirstOf(r) /\ (Fn \in MinMax /\ r >= 1 => in.sel[r] = 1)
         /\ r = FirstOf(r) => Every(r, 1) = Chosen(GroupOf(r))
         /\ Chosen(GroupOf(r)) # {} => Key(r) # MaxWord
         /\ in.sel[r] = 1 => r \in Chosen(GroupOf(r))
<1>1. FirstOf(r) \in Nat /\ FirstOf(r) <= r /\ r \in Nat
  BY FirstRow, RowTypes
<1>2. r - FirstOf(r) < 1 <=> r = FirstOf(r)
  <2>1. PICK f : f = FirstOf(r)
    OBVIOUS
  <2>2. r - f < 1 <=> r = f
    BY <2>1, <1>1
  <2> QED
    BY <2>1, <2>2
<1>3. ASSUME r = FirstOf(r) PROVE Every(r, 1) = Chosen(GroupOf(r))
  <2>1. ASSUME NEW j \in GroupOf(r) PROVE j >= r /\ (j - r) % 1 = 0
    <3>1. j \in Index /\ Key(j) = Key(r)
      BY DEF GroupOf, Key
    <3>2. FirstOf(r) <= j /\ j \in Nat
      BY <3>1, FirstRow, RowTypes
    <3>3. r <= j
      BY <3>2, <1>3
    <3>4. PICK x : x = j - r
      OBVIOUS
    <3>5. x \in Nat /\ j >= r
      BY <3>2, <3>3, <3>4, <1>1
    <3>6. x % 1 = 0
      BY <3>5
    <3> QED
      BY <3>4, <3>5, <3>6
  <2>2. {j \in GroupOf(r) : j >= r /\ (j - r) % 1 = 0} = GroupOf(r)
    BY <2>1
  <2> QED
    BY <2>2 DEF Every
<1>4. \A j \in Chosen(GroupOf(r)) : j \in Index /\ Key(j) = Key(r) /\ in.sel[j] = 1
  BY DEF Chosen, GroupOf, Key
<1>5. ASSUME Chosen(GroupOf(r)) # {} PROVE Key(r) # MaxWord
  <2>1. PICK j \in Chosen(GroupOf(r)) : TRUE
    BY <1>5
  <2>2. j \in Index /\ Key(j) = Key(r) /\ in.sel[j] = 1
    BY <1>4
  <2> QED
    BY <2>2 DEF CallHeld
<1>6. in.sel[r] = 1 => r \in Chosen(GroupOf(r))
  BY GroupRows DEF Chosen
<1> QED
  BY <1>2, <1>3, <1>5, <1>6 DEF Left

\* The final pass finds the rows that are not left in the end.
LEMMA FinalHit ==
  ASSUME CallHeld, Served(in), Fn \in OddEven, NEW r \in Index, r = 0 => sel = in.sel,
         NEW n, NEW s, RowIs(c[r], n, s, r, 1, 1)
  PROVE  /\ IsMasked(r) <=> ~ Kept(r)
         /\ Kept(r) => Left(r, 1)
<1>1. /\ Left(r, 1) <=> r = FirstOf(r) /\ (Fn \in MinMax /\ r >= 1 => in.sel[r] = 1)
      /\ Chosen(GroupOf(r)) # {} => Key(r) # MaxWord
      /\ in.sel[r] = 1 => r \in Chosen(GroupOf(r))
  BY LeftLast
<1>2. c[r].key = IF Left(r, 1) THEN Key(r) ELSE MaxWord
  BY DEF RowIs, Has
<1>3. r \in Nat /\ in.sel[r] \in {0, 1} /\ FirstOf(r) <= r /\ FirstOf(r) \in Nat
  BY RowTypes, FirstRow
<1>4. CASE Fn \in Unselective
  <2>1. in.sel[r] = 1 /\ Fn \notin MinMax
    BY <1>4 DEF CallHeld, MinMax, Unselective, Summing, Joins, RoundSums
  <2>2. Kept(r) <=> r = FirstOf(r)
    BY <2>1, <1>1 DEF Kept
  <2>3. IsMasked(r) <=> c[r].key = MaxWord
    BY <1>4 DEF IsMasked, Fn
  <2> QED
    BY <2>1, <2>2, <2>3, <1>1, <1>2
<1>5. CASE Fn \notin Unselective /\ Fn \in MinMax
  <2>1. Kept(r) <=> r = FirstOf(r) /\ in.sel[r] = 1
    <3>1. ASSUME Chosen(GroupOf(r)) # {}, r = FirstOf(r) PROVE in.sel[r] = 1
      <4>1. PICK j \in Chosen(GroupOf(r)) : TRUE
        BY <3>1
      <4>2. j \in Index /\ Key(j) = Key(r) /\ in.sel[j] = 1
        BY DEF Chosen, GroupOf, Key
      <4>3. r <= j
        BY <3>1, <4>2, FirstRow
      <4> QED
        BY <4>2, <4>3, <1>5, SelectedFirst
    <3> QED
      BY <3>1, <1>1 DEF Kept
  <2>2. CASE r = 0
    <3>1. r = FirstOf(r) /\ ~ (r >= 1)
      BY <2>2, <1>3
    <3>2. IsMasked(r) <=> in.sel[r] = 0
      BY <2>2, <1>5 DEF IsMasked, Fn
    <3> QED
      BY <3>1, <3>2, <2>1, <1>1, <1>3
  <2>3. CASE r # 0
    <3>1. r >= 1
      BY <2>3, <1>3
    <3>2. IsMasked(r) <=> c[r].key = MaxWord
      BY <2>3 DEF IsMasked
    <3> QED
      BY <3>1, <3>2, <2>1, <1>1, <1>2, <1>5
  <2> QED
    BY <2>2, <2>3
<1>6. CASE Fn \notin Unselective /\ Fn \notin MinMax
  <2>1. in.fn = "group_by_count_sel_odd_even" /\ DOMAIN in.rows = Index
    BY <1>6 DEF CallHeld, Fn, OddEven, MinMax, Unselective, Summing
  <2>2. Key(r) # MaxWord =>
          IF 0 \in GroupOf(r) THEN in.sel[0] = 1 \/ Chosen(GroupOf(0)) = {}
          ELSE Chosen(GroupOf(r)) # {}
    BY <2>1, ServedCountSel DEF Chosen, GroupOf, Key
  <2>3. Left(r, 1) <=> r = FirstOf(r)
    BY <1>1, <1>6
  <2>4. CASE r = 0
    <3>1. r = FirstOf(r)
      BY <2>4, <1>3
    <3>2. IsMasked(r) <=> in.sel[r] = 0
      BY <2>4, <1>6 DEF IsMasked, Fn
    <3>3. 0 \in GroupOf(r)
      BY <2>4, GroupRows
    <3>4. Kept(r) <=> in.sel[r] = 1
      BY <3>1, <3>3, <2>2, <2>4, <1>1 DEF Kept
    <3> QED
      BY <3>1, <3>2, <3>4, <2>3, <1>3
  <2>5. CASE r # 0
    <3>1. IsMasked(r) <=> c[r].key = MaxWord
      BY <2>5 DEF IsMasked
    <3>2. ASSUME r = FirstOf(r), 0 \in GroupOf(r) PROVE FALSE
      <4>1. 0 \in Index /\ Key(0) = Key(r)
        BY <3>2 DEF GroupOf, Key
      <4>2. FirstOf(r) <= 0
        BY <4>1, FirstRow
      <4> QED
        BY <4>2, <3>2, <2>5, <1>3
    <3>3. r = FirstOf(r) /\ Key(r) # MaxWord => Chosen(GroupOf(r)) # {}
      BY <3>2, <2>2
    <3> QED
      BY <3>1, <3>3, <2>3, <1>1, <1>2 DEF Kept
  <2> QED
    BY <2>4, <2>5
<1> QED
  BY <1>4, <1>5, <1>6

\* What the final pass makes of a row.
LEMMA FinalRow ==
  ASSUME CallHeld, Served(in), Fn \in OddEven, NEW r \in Index, r = 0 => sel = in.sel,
         RowIs(c[r], cnt[r], sum[r], r, 1, 1),
         NEW row, row = MaskedIf(IsMasked(r) /\ r \in FinalRows, c[r], Masked),
         NEW n, n = MaskedIf(IsMasked(r) /\ Fn \notin MinMax, cnt[r],
                             IF Fn \in RoundSums THEN 0 ELSE MaskedCount),
         NEW s, s = MaskedIf(IsMasked(r) /\ Fn \in RoundSums, sum[r], 0)
  PROVE  EndedIs(row, n, s, r)
<1>1. (IsMasked(r) <=> ~ Kept(r)) /\ (Kept(r) => Left(r, 1))
  BY FinalHit
<1>2. CASE Kept(r)
  <2>1. Every(r, 1) = Chosen(GroupOf(r))
    BY <1>2, LeftLast DEF Kept
  <2>2. Has(c[r], cnt[r], sum[r], r, Chosen(GroupOf(r)))
    BY <2>1, <1>1, <1>2 DEF RowIs
  <2>3. row = c[r] /\ n = cnt[r] /\ s = sum[r]
    BY <1>1, <1>2 DEF MaskedIf
  <2> QED
    BY <2>2, <2>3, <1>2 DEF EndedIs
<1>3. CASE ~ Kept(r)
  <2>1. row = Masked
    <3>1. CASE r \in FinalRows
      BY <3>1, <1>1, <1>3 DEF MaskedIf
    <3>2. CASE r \notin FinalRows
      <4>1. Fn \notin MinMax /\ (Fn = "group_by_count_sel_odd_even" => r # 0)
        <5>1. Fn \in MinMax => FinalRows = Index
          <6>1. Fn \in MinMax => /\ Fn \in MinMax \cup RoundSums
                                 /\ ~ (Fn = "group_by_count_sel_odd_even")
            BY DEF MinMax
          <6> QED
            BY <6>1, Zenon DEF FinalRows, Fn
        <5>2. Fn = "group_by_count_sel_odd_even" /\ Fn \notin MinMax \cup RoundSums
                => FinalRows = {0}
          BY Zenon DEF FinalRows, Fn
        <5>3. Fn = "group_by_count_sel_odd_even" => Fn \notin MinMax \cup RoundSums
          BY DEF MinMax, RoundSums
        <5> QED
          BY <5>1, <5>2, <5>3, <3>2
      <4>2. r # 0 \/ Fn \in Unselective
        BY <4>1 DEF OddEven, Unselective, Summing, MinMax
      <4>3. c[r].key = MaxWord
        BY <4>2, <1>1, <1>3 DEF IsMasked, Fn
      <4>4. c[r] = Masked
        BY <4>1, <4>3 DEF RowIs
      <4> QED
        BY <3>2, <4>4 DEF MaskedIf
    <3> QED
      BY <3>1, <3>2
  <2>2. Fn \in Counting => n \in {0, MaskedCount}
    <3>1. Fn \in Counting => Fn \notin MinMax
      BY DEF Counting, MinMax
    <3> QED
      BY <3>1, <1>1, <1>3 DEF MaskedIf
  <2>3. Fn \in Summing => s = 0
    <3>1. Fn \in Summing => Fn \in RoundSums
      BY DEF Summing, Joins, RoundSums, OddEven
    <3> QED
      BY <3>1, <1>1, <1>3 DEF MaskedIf
  <2> QED
    BY <2>1, <2>2, <2>3, <1>3 DEF EndedIs
<1> QED
  BY <1>2, <1>3

LEMMA FinalKeeps ==
  ASSUME TypeInv, PhaseHeld, RoundHeld, Served(in), Final
  PROVE  RoundHeld'
<1> DEFINE hit == {i \in at .. FinalEnd - 1 : IsMasked(i)}
<1>1. /\ pc = "final" /\ in' = in /\ at' = FinalEnd
      /\ pc' = IF FinalEnd = N THEN "done" ELSE "final"
      /\ c' = [i \in Index |-> MaskedIf(i \in hit \cap FinalRows, c[i], Masked)]
      /\ cnt' = [i \in Index |-> MaskedIf(i \in hit /\ Fn \notin MinMax, cnt[i],
                                          IF Fn \in RoundSums THEN 0 ELSE MaskedCount)]
      /\ sum' = [i \in Index |-> MaskedIf(i \in hit /\ Fn \in RoundSums, sum[i], 0)]
  BY DEF Final, Fn
<1>2. Fn \in OddEven /\ Fn' = Fn
  BY <1>1 DEF PhaseHeld, Fn
<1>3. /\ at \in 0 .. N - 1 /\ (at = 0 => sel = in.sel)
      /\ \A r \in at .. N - 1 : RowHeld(r, 1, 1)
      /\ \A r \in 0 .. at - 1 : Ended(r)
  BY <1>1, <1>2 DEF RoundHeld
<1>4. CallHeld /\ N \in Nat /\ N >= 2 /\ Index = 0 .. N - 1 /\ N' = N /\ Index' = Index
  BY <1>1, Sizes2, SameCall DEF TypeInv
<1>5. FinalEnd \in Nat /\ FinalEnd > at /\ FinalEnd <= N /\ at \in Nat
  BY <1>3, <1>4, FinalEndType
<1>6. ASSUME NEW r \in Index, r \notin at .. FinalEnd - 1
      PROVE  c'[r] = c[r] /\ cnt'[r] = cnt[r] /\ sum'[r] = sum[r]
  <2>1. r \notin hit
    BY <1>6
  <2> HIDE DEF hit
  <2> QED
    BY <2>1, <1>1 DEF MaskedIf
<1>7. ASSUME NEW r \in 0 .. FinalEnd - 1 PROVE Ended(r)'
  <2>1. r \in Index
    BY <1>4, <1>5
  <2>2. CASE r \in at .. FinalEnd - 1
    <3>1. r \in hit <=> IsMasked(r)
      BY <2>2
    <3>2. r \in at .. N - 1 /\ (r = 0 => at = 0)
      BY <2>2, <1>4, <1>5
    <3>3. RowIs(c[r], cnt[r], sum[r], r, 1, 1) /\ (r = 0 => sel = in.sel)
      BY <3>2, <1>3, RowHeldIs
    <3> HIDE DEF hit
    <3>4. /\ c'[r] = MaskedIf(IsMasked(r) /\ r \in FinalRows, c[r], Masked)
          /\ cnt'[r] = MaskedIf(IsMasked(r) /\ Fn \notin MinMax, cnt[r],
                                IF Fn \in RoundSums THEN 0 ELSE MaskedCount)
          /\ sum'[r] = MaskedIf(IsMasked(r) /\ Fn \in RoundSums, sum[r], 0)
      BY <3>1, <2>1, <1>1 DEF MaskedIf
    <3>5. EndedIs(c'[r], cnt'[r], sum'[r], r)
      BY <3>3, <3>4, <2>1, <1>2, <1>4, FinalRow
    <3> QED
      BY <3>5, <1>1, EndedNext
  <2>3. CASE r \notin at .. FinalEnd - 1
    <3>1. r \in 0 .. at - 1
      BY <2>3, <1>5
    <3>2. EndedIs(c[r], cnt[r], sum[r], r)
      BY <3>1, <1>3, EndedHolds
    <3>3. EndedIs(c'[r], cnt'[r], sum'[r], r)
      BY <3>2, <2>1, <2>3, <1>6
    <3> QED
      BY <3>3, <1>1, EndedNext
  <2> QED
    BY <2>2, <2>3
<1>8. CASE FinalEnd = N
  <2>1. pc' = "done"
    BY <1>1, <1>8
  <2>2. \A r \in Index' : Ended(r)'
    BY <1>4, <1>7, <1>8
  <2> QED
    BY <2>1, <2>2 DEF RoundHeld
<1>9. CASE FinalEnd # N
  <2>1. pc' = "final" /\ at' = FinalEnd /\ at' \in 0 .. N' - 1 /\ at' # 0
    BY <1>1, <1>4, <1>5, <1>9
  <2>2. ASSUME NEW r \in at' .. N' - 1 PROVE RowHeld(r, 1, 1)'
    <3>1. r \in at .. N - 1 /\ r \in Index /\ r \notin at .. FinalEnd - 1
      BY <2>1, <1>4, <1>5
    <3>2. RowIs(c[r], cnt[r], sum[r], r, 1, 1)
      BY <3>1, <1>3, RowHeldIs
    <3>3. RowIs(c'[r], cnt'[r], sum'[r], r, 1, 1)
      BY <3>1, <3>2, <1>6
    <3> QED
      BY <3>3, <1>1, RowHeldNext
  <2>3. \A r \in 0 .. at' - 1 : Ended(r)'
    BY <2>1, <1>7
  <2>4. \A r \in at' .. N' - 1 : RowHeld(r, 1, 1)'
    BY <2>2
  <2> QED
    BY <2>1, <2>3, <2>4 DEF RoundHeld
<1> QED
  BY <1>8, <1>9

LEMMA RoundStutter ==
  ASSUME TypeInv, RoundHeld, UNCHANGED vars
  PROVE  RoundHeld'
<1>1. /\ in' = in /\ c' = c /\ sel' = sel /\ cnt' = cnt /\ sum' = sum
      /\ pc' = pc /\ at' = at /\ dist' = dist
  BY DEF vars
<1>2. N' = N /\ Index' = Index /\ Fn' = Fn
  BY <1>1 DEF N, Index, Fn
<1>3. \A r : /\ RowHeld(r, Near(r), Far(r))' <=> RowHeld(r, Near(r), Far(r))
             /\ RowHeld(r, 1, 1)' <=> RowHeld(r, 1, 1)
  <2> SUFFICES ASSUME NEW r
        PROVE  /\ RowHeld(r, Near(r), Far(r))' <=> RowHeld(r, Near(r), Far(r))
               /\ RowHeld(r, 1, 1)' <=> RowHeld(r, 1, 1)
    OBVIOUS
  <2>1. PICK near, far : near = Near(r) /\ far = Far(r)
    OBVIOUS
  <2>2. Near(r)' = near /\ Far(r)' = far
    BY <2>1, <1>1 DEF Near, Far
  <2>3. \A x, y : RowHeld(r, x, y)' <=> RowHeld(r, x, y)
    <3> SUFFICES ASSUME NEW x, NEW y PROVE RowHeld(r, x, y)' <=> RowHeld(r, x, y)
      OBVIOUS
    <3>1. RowHeld(r, x, y)' <=> RowIs(c'[r], cnt'[r], sum'[r], r, x, y)
      BY <1>1, RowHeldNext
    <3>2. RowHeld(r, x, y) <=> RowIs(c[r], cnt[r], sum[r], r, x, y)
      BY RowHeldIs
    <3> QED
      BY <3>1, <3>2, <1>1
  <2>4. RowHeld(r, Near(r), Far(r))' <=> RowHeld(r, near, far)'
    BY <2>2 DEF RowHeld, Left, Every, Holds
  <2> QED
    BY <2>1, <2>3, <2>4
<1>4. \A r : Ended(r)' <=> Ended(r)
  BY <1>1, EndedNext, EndedHolds
<1>5. \A r : Matching(in.rows[r].lo)' = Matching(in.rows[r].lo)
  BY <1>1 DEF Matching, MapThenSumSet, MapThenFoldSet
<1>6. GivenFrom(0)' <=> GivenFrom(0)
  BY <1>1, <1>2 DEF GivenFrom
<1> QED
  BY <1>1, <1>2, <1>3, <1>4, <1>5, <1>6 DEF RoundHeld

LEMMA RoundNext ==
  ASSUME TypeInv, PhaseHeld, RoundHeld, Served(in), [Next]_vars
  PROVE  RoundHeld'
<1>1. CASE UNCHANGED vars
  BY <1>1, RoundStutter
<1>2. CASE ScanDistinct \/ ScanCount \/ ScanMinMax \/ ScanJoin
  <2>1. pc = "scan" /\ in' = in
    BY <1>2 DEF ScanDistinct, ScanCount, ScanMinMax, ScanJoin, MoveOn
  <2>2. Fn \in Scans /\ Fn' = Fn
    BY <2>1 DEF PhaseHeld, Fn
  <2> QED
    BY <2>2 DEF RoundHeld, Scans, OddEven, RoundSums
<1>3. CASE MaskLast
  <2>1. Fn \in Scans /\ Fn' = Fn
    BY <1>3 DEF MaskLast, PhaseHeld, Fn
  <2> QED
    BY <2>1 DEF RoundHeld, Scans, OddEven, RoundSums
<1>4. CASE JoinStart \/ DistinctBatch
  <2>1. Fn' \in {"group_by_join", "distinct_batch"}
    BY <1>4 DEF JoinStart, DistinctBatch, Fn
  <2> QED
    BY <2>1 DEF RoundHeld, OddEven, RoundSums
<1>5. CASE RoundCount \/ RoundSum \/ RoundMinMax
  BY <1>5, RoundKeepsHeld
<1>6. CASE JoinFirst
  BY <1>6, RoundFirst
<1>7. CASE Final
  BY <1>7, FinalKeeps
<1>8. CASE Return
  BY <1>1, <1>8 DEF Return
<1> QED
  BY <1>1, <1>2, <1>3, <1>4, <1>5, <1>6, <1>7, <1>8 DEF Next

LEMMA RoundMeaning ==
  ASSUME TypeInv, PhaseHeld, RoundHeld
  PROVE  RoundKeeps
<1> DEFINE gap == IF pc = "final" THEN 1 ELSE 2 * dist
<1> SUFFICES ASSUME pc = "rounds" \/ pc = "final", at = 0, NEW r \in Index
             PROVE  IF Left(r, gap) THEN Holds(r, Every(r, gap)) ELSE c[r].key = MaxWord
  BY DEF RoundKeeps, Left, Every, FirstOf, Fn
<1>1. Fn \in OddEven /\ CallHeld
  BY DEF PhaseHeld, TypeInv
<1>2. N \in Nat /\ Index = 0 .. N - 1 /\ r \in Nat
  BY <1>1, Sizes2, RowTypes
<1>3. CASE pc = "final"
  <2>1. RowHeld(r, 1, 1)
    BY <1>1, <1>2, <1>3 DEF RoundHeld
  <2> QED
    BY <2>1, <1>3 DEF RowHeld
<1>4. CASE pc = "rounds"
  <2>1. RowHeld(r, Near(r), Far(r))
    BY <1>1, <1>4 DEF RoundHeld
  <2>2. Near(r) = gap /\ Far(r) = gap
    <3>1. ~ (r < at) /\ 0 .. at - 1 = {}
      BY <1>2
    <3> QED
      BY <3>1, <1>4 DEF Near, Far
  <2> QED
    BY <2>1, <2>2 DEF RowHeld
<1> QED
  BY <1>3, <1>4

\* Between two rounds with distances 2d and d, the first 2d rows of each group
\* are left and each holds the rows at multiples of 2d after it, whatever the
\* sizes of the batches were; for tables of every size and all served calls.
THEOREM RoundsKeepGroups ==
  ASSUME \A x : Accepts(x) => Served(x)
  PROVE  Spec => []RoundKeeps
<1> DEFINE Inv == TypeInv /\ PhaseHeld /\ RoundHeld
<1>1. Init => Inv
  BY InitTypes, ScanInit, RoundInit
<1>2. Inv /\ [Next]_vars => Inv'
  <2>1. TypeInv => Served(in)
    BY DEF TypeInv, CallHeld
  <2> QED
    BY <2>1, TypeNext, PhaseNext, RoundNext
<1>3. Inv => RoundKeeps
  BY RoundMeaning
<1> HIDE DEF Inv
<1> QED
  BY <1>1, <1>2, <1>3, PTL DEF Spec

-----------------------------------------------------------------------------
(* distinct_batch. *)

LEMMA PairsInit == Init => PairsHeld
<1> SUFFICES ASSUME Init, Fn = "distinct_batch" PROVE PairsHeld
  BY DEF PairsHeld
<1>1. CallHeld
  BY InitCall
<1>2. N \in Nat /\ N >= 2 /\ Index = 0 .. N - 1
  BY <1>1, Sizes2
<1>3. c = in.rows /\ sel = in.sel /\ at = 0
  BY DEF Init
<1>4. pc = "pairs"
  <2>1. pc = CASE Fn \in Joins -> "first"
              [] Fn = "distinct_batch" -> "pairs"
              [] Fn \in Scans \ Joins -> "scan"
              [] OTHER -> "rounds"
    BY DEF Init, Fn
  <2>2. Fn \notin Joins /\ Fn \notin Scans
    BY DEF Joins, Scans
  <2> QED
    BY <2>1, <2>2
<1>5. sel[0] = 1
  BY <1>1, <1>2, <1>3 DEF CallHeld, Unselective
<1>6. at \in 0 .. N - 1 /\ at < N - 1 /\ 1 .. at = {}
  BY <1>2, <1>3
<1> QED
  BY <1>3, <1>4, <1>5, <1>6 DEF PairsHeld

LEMMA PairsNext ==
  ASSUME TypeInv, PhaseHeld, PairsHeld, [Next]_vars
  PROVE  PairsHeld'
<1>1. CASE UNCHANGED vars
  <2>1. in' = in /\ c' = c /\ sel' = sel /\ pc' = pc /\ at' = at
    BY <1>1 DEF vars
  <2>2. N' = N /\ Fn' = Fn /\ \A r : Key(r)' = Key(r)
    BY <2>1 DEF N, Fn, Key
  <2> QED
    BY <2>1, <2>2 DEF PairsHeld
<1>2. CASE ScanDistinct \/ ScanCount \/ ScanMinMax \/ ScanJoin
  <2>1. pc = "scan" /\ in' = in
    BY <1>2 DEF ScanDistinct, ScanCount, ScanMinMax, ScanJoin, MoveOn
  <2>2. Fn' # "distinct_batch"
    BY <2>1 DEF PhaseHeld, Fn, Scans
  <2> QED
    BY <2>2 DEF PairsHeld
<1>3. CASE MaskLast
  <2>1. Fn' # "distinct_batch"
    BY <1>3 DEF MaskLast, PhaseHeld, Fn, Scans
  <2> QED
    BY <2>1 DEF PairsHeld
<1>4. CASE RoundCount \/ RoundSum \/ RoundMinMax
  <2>1. pc = "rounds" /\ in' = in
    BY <1>4 DEF RoundCount, RoundSum, RoundMinMax, NextBatch
  <2>2. Fn' # "distinct_batch"
    BY <2>1 DEF PhaseHeld, Fn, OddEven, RoundSums
  <2> QED
    BY <2>2 DEF PairsHeld
<1>5. CASE JoinStart \/ JoinFirst
  <2>1. Fn' # "distinct_batch"
    BY <1>5 DEF JoinStart, JoinFirst, Fn
  <2> QED
    BY <2>1 DEF PairsHeld
<1>6. CASE Final
  <2>1. Fn' # "distinct_batch"
    BY <1>6 DEF Final, PhaseHeld, Fn, OddEven, RoundSums
  <2> QED
    BY <2>1 DEF PairsHeld
<1>7. CASE DistinctBatch
  <2> DEFINE batch == IF in.batch > N - 1 THEN N - 1 ELSE in.batch
             next == IF at + batch <= N - 1 THEN at + batch ELSE N - 1
  <2>1. /\ Fn = "distinct_batch" /\ pc = "pairs" /\ in' = in /\ c' = c
        /\ sel' = [i \in Index |-> CASE i = 0 -> 1
                                    [] i - 1 \in at .. next - 1 ->
                                         IF Same(i - 1, i) THEN 0 ELSE 1
                                    [] OTHER -> sel[i]]
        /\ at' = next /\ pc' = IF next < N - 1 THEN "pairs" ELSE "done"
    BY <1>7 DEF DistinctBatch, Fn
  <2>2. CallHeld /\ N \in Nat /\ N >= 2 /\ Index = 0 .. N - 1 /\ N' = N
    BY <2>1, Sizes2, SameCall DEF TypeInv
  <2>3. /\ c = in.rows /\ at \in 0 .. N - 1 /\ at < N - 1
        /\ sel[0] = 1 /\ \A r \in 1 .. at : sel[r] = IF Key(r - 1) = Key(r) THEN 0 ELSE 1
    BY <2>1 DEF PairsHeld
  <2>4. in.batch \in Nat /\ in.batch >= 1
    BY <2>2 DEF CallHeld
  <2>5. batch \in Nat /\ batch >= 1
    BY <2>2, <2>4
  <2>6. next \in Nat /\ next > at /\ next <= N - 1 /\ at \in Nat
    <3> HIDE DEF batch
    <3> QED
      BY <2>2, <2>3, <2>5
  <2> HIDE DEF next, batch
  <2>7. sel'[0] = 1
    <3>1. 0 \in Index /\ ~ (0 - 1 \in at .. next - 1)
      BY <2>2, <2>6
    <3> QED
      BY <2>1, <3>1
  <2>8. ASSUME NEW r \in 1 .. next PROVE sel'[r] = IF Key(r - 1) = Key(r) THEN 0 ELSE 1
    <3>1. r \in Index /\ r # 0 /\ r - 1 \in Index
      BY <2>2, <2>6
    <3>2. Same(r - 1, r) <=> Key(r - 1) = Key(r)
      BY <2>3 DEF Same, Key
    <3>3. sel'[r] = IF r - 1 \in at .. next - 1
                    THEN IF Same(r - 1, r) THEN 0 ELSE 1 ELSE sel[r]
      BY <2>1, <3>1
    <3>4. CASE r - 1 \in at .. next - 1
      BY <3>2, <3>3, <3>4
    <3>5. CASE r - 1 \notin at .. next - 1
      <4>1. r \in 1 .. at
        BY <3>5, <2>6
      <4> QED
        BY <4>1, <3>3, <3>5, <2>3
    <3> QED
      BY <3>4, <3>5
  <2>9. \A r : Key(r)' = Key(r)
    BY <2>1 DEF Key
  <2>10. /\ at' \in 0 .. N' - 1 /\ pc' \in {"pairs", "done"}
         /\ pc' = "done" => at' = N' - 1
         /\ pc' = "pairs" => at' < N' - 1
    BY <2>1, <2>2, <2>6
  <2>11. \A r \in 1 .. at' : sel'[r] = IF Key(r - 1)' = Key(r)' THEN 0 ELSE 1
    BY <2>1, <2>8, <2>9
  <2>12. c' = in'.rows
    BY <2>1, <2>3
  <2> QED
    BY <2>7, <2>9, <2>10, <2>11, <2>12 DEF PairsHeld
<1>8. CASE Return
  BY <1>1, <1>8 DEF Return
<1> QED
  BY <1>1, <1>2, <1>3, <1>4, <1>5, <1>6, <1>7, <1>8 DEF Next

\* It marks the first row of each group.
LEMMA PairsMeaning ==
  ASSUME CallHeld, PairsHeld, Fn = "distinct_batch", pc = "done", NEW i \in Index
  PROVE  c = in.rows /\ (sel[i] = 1 <=> i = FirstOf(i))
<1>1. N \in Nat /\ N >= 2 /\ Index = 0 .. N - 1
  BY Sizes2
<1>2. /\ c = in.rows /\ at = N - 1
      /\ sel[0] = 1 /\ \A r \in 1 .. at : sel[r] = IF Key(r - 1) = Key(r) THEN 0 ELSE 1
  BY DEF PairsHeld
<1>3. /\ FirstOf(i) \in Nat /\ FirstOf(i) <= i
      /\ \A j \in Index : j <= i => (Key(j) = Key(i) <=> FirstOf(i) <= j)
  BY FirstRow
<1>4. CASE i = 0
  BY <1>2, <1>3, <1>4
<1>5. CASE i # 0
  <2>1. i - 1 \in Index /\ i - 1 <= i /\ i \in 1 .. at /\ i \in Nat
    BY <1>1, <1>2, <1>5
  <2>2. sel[i] = IF Key(i - 1) = Key(i) THEN 0 ELSE 1
    BY <2>1, <1>2
  <2>3. Key(i - 1) = Key(i) <=> FirstOf(i) <= i - 1
    BY <2>1, <1>3
  <2>4. PICK f : f = FirstOf(i)
    OBVIOUS
  <2>5. f <= i - 1 <=> ~ (i = f)
    BY <2>1, <2>4, <1>3
  <2> QED
    BY <1>2, <2>2, <2>3, <2>4, <2>5
<1> QED
  BY <1>4, <1>5

-----------------------------------------------------------------------------
(* The results. *)

\* A set K of rows, one of each group with a selected row, holds the results,
\* and all other rows are masked.
LEMMA GroupsMeaning ==
  ASSUME CallHeld, NEW K \in SUBSET Index,
         \A i \in K : Chosen(GroupOf(i)) # {} /\ Holds(i, Chosen(GroupOf(i))),
         \A i, j \in K : Key(i) = Key(j) => i = j,
         \A r \in Index : Chosen(GroupOf(r)) # {} => \E i \in K : Key(i) = Key(r),
         \A i \in Index \ K : c[i] = Masked,
         NEW r \in Index, Key(r) # MaxWord, NEW left, left = {i \in Index : c[i].key = Key(r)}
  PROVE  IF Chosen(GroupOf(r)) = {} THEN left = {}
         ELSE \E i \in left : left = {i} /\ Holds(i, Chosen(GroupOf(r)))
<1>1. \A i \in Index : Key(i) = Key(r) => GroupOf(i) = GroupOf(r)
  BY GroupRows
<1>2. \A i \in Index : i \in left <=> i \in K /\ Key(i) = Key(r)
  <2> SUFFICES ASSUME NEW i \in Index PROVE i \in left <=> i \in K /\ Key(i) = Key(r)
    OBVIOUS
  <2>1. CASE i \in K
    <3>1. c[i].key = Key(i)
      BY <2>1 DEF Holds, Key
    <3> QED
      BY <3>1, <2>1
  <2>2. CASE i \notin K
    <3>1. c[i].key = MaxWord
      BY <2>2, Words
    <3> QED
      BY <3>1, <2>2
  <2> QED
    BY <2>1, <2>2
<1>3. left \subseteq Index
  OBVIOUS
<1>4. CASE Chosen(GroupOf(r)) = {}
  <2>1. ASSUME NEW i \in left PROVE FALSE
    <3>1. i \in K /\ Key(i) = Key(r) /\ i \in Index
      BY <1>2, <1>3
    <3>2. Chosen(GroupOf(i)) = {}
      BY <3>1, <1>1, <1>4
    <3> QED
      BY <3>1, <3>2
  <2> QED
    BY <2>1, <1>4
<1>5. CASE Chosen(GroupOf(r)) # {}
  <2>1. PICK i \in K : Key(i) = Key(r)
    BY <1>5
  <2>2. i \in left
    BY <2>1, <1>2
  <2>3. left = {i}
    <3>1. ASSUME NEW j \in left PROVE j = i
      <4>1. j \in K /\ Key(j) = Key(r)
        BY <1>2, <1>3
      <4> QED
        BY <4>1, <2>1
    <3> QED
      BY <3>1, <2>2
  <2>4. GroupOf(i) = GroupOf(r)
    BY <2>1, <1>1
  <2>5. Holds(i, Chosen(GroupOf(r)))
    <3>1. Holds(i, Chosen(GroupOf(i)))
      BY <2>1
    <3>2. PICK S : S = Chosen(GroupOf(i))
      OBVIOUS
    <3>3. Holds(i, S)
      BY <3>1, <3>2, HoldsIs
    <3>4. S = Chosen(GroupOf(r))
      BY <3>2, <2>4 DEF Chosen
    <3> QED
      BY <3>3, <3>4, HoldsIs
  <2> QED
    BY <2>2, <2>3, <2>5, <1>5
<1> QED
  BY <1>4, <1>5

LEMMA ServedScan ==
  ASSUME NEW x, Served(x), NEW S, DOMAIN x.rows = S, NEW n, n = Cardinality(S),
         x.fn # "group_by_min_max_sel_odd_even", x.fn # "group_by_count_sel_odd_even",
         x.fn \notin Unselective
  PROVE  \/ n - 1 \notin {k \in S : x.rows[k].key # MaxWord}
         \/ {k \in S : x.rows[k].key = x.rows[n - 1].key} = {n - 1}
         \/ {j \in {k \in S : x.rows[k].key = x.rows[n - 1].key} : x.sel[j] = 1} # {}
<1>1. \/ Cardinality(DOMAIN x.rows) - 1 \notin {k \in DOMAIN x.rows : x.rows[k].key # MaxWord}
      \/ {k \in DOMAIN x.rows : x.rows[k].key = x.rows[Cardinality(DOMAIN x.rows) - 1].key}
           = {Cardinality(DOMAIN x.rows) - 1}
      \/ {j \in {k \in DOMAIN x.rows :
                   x.rows[k].key = x.rows[Cardinality(DOMAIN x.rows) - 1].key} : x.sel[j] = 1} # {}
  BY Zenon DEF Served
<1> QED
  BY <1>1

IsLast(i) == i = N - 1 \/ Key(i) # Key(i + 1)

\* Every group has a last row, and a scan has its rows when it is there.
LEMMA LastRow ==
  ASSUME CallHeld, NEW i \in Index
  PROVE  /\ \E l \in Index : IsLast(l) /\ Key(l) = Key(i)
         /\ IsLast(i) => /\ \A j \in Index : Key(j) = Key(i) => j <= i
                         /\ UpTo(i) = Chosen(GroupOf(i))
<1>1. N \in Nat /\ N >= 2 /\ N <= MaxWord /\ Index = 0 .. N - 1 /\ MaxWord \in Nat
  BY Sizes2, Words
<1>2. /\ GroupOf(i) \subseteq Index /\ i \in GroupOf(i)
      /\ \A j \in Index : j \in GroupOf(i) <=> Key(j) = Key(i)
  BY GroupRows
<1>3. \E l \in Index : IsLast(l) /\ Key(l) = Key(i)
  <2>1. GroupOf(i) \subseteq 0 .. MaxWord /\ GroupOf(i) # {}
    BY <1>1, <1>2
  <2>2. PICK l \in GroupOf(i) : \A y \in GroupOf(i) : y <= l
    BY <2>1, MaxExists
  <2>3. l \in Index /\ Key(l) = Key(i)
    BY <2>2, <1>2
  <2>4. IsLast(l)
    <3> SUFFICES ASSUME l # N - 1, Key(l) = Key(l + 1) PROVE FALSE
      BY DEF IsLast
    <3>1. l + 1 \in Index /\ ~ (l + 1 <= l)
      BY <2>3, <1>1
    <3>2. l + 1 \in GroupOf(i)
      BY <3>1, <2>3, <1>2
    <3> QED
      BY <3>1, <3>2, <2>2
  <2> QED
    BY <2>3, <2>4
<1>4. ASSUME IsLast(i), NEW j \in Index, Key(j) = Key(i) PROVE j <= i
  <2> SUFFICES ASSUME ~ (j <= i) PROVE FALSE
    OBVIOUS
  <2>1. i # N - 1 /\ i + 1 \in Index /\ i <= i + 1 /\ i + 1 <= j
    BY <1>1
  <2>2. Key(i) # Key(i + 1)
    BY <2>1, <1>4 DEF IsLast
  <2>3. Key(i) <= Key(i + 1) /\ Key(i + 1) <= Key(j)
    BY <2>1 DEF CallHeld
  <2>4. Key(i) \in Nat /\ Key(i + 1) \in Nat
    BY <2>1, RowTypes
  <2> QED
    BY <2>2, <2>3, <2>4, <1>4
<1>5. ASSUME IsLast(i) PROVE UpTo(i) = Chosen(GroupOf(i))
  <2>1. \A j \in GroupOf(i) : j <= i
    BY <1>2, <1>4, <1>5
  <2>2. {j \in GroupOf(i) : j <= i} = GroupOf(i)
    BY <2>1
  <2> QED
    BY <2>2 DEF UpTo
<1> QED
  BY <1>3, <1>4, <1>5

\* A scan that has ended, row by row.
LEMMA ScanDone ==
  ASSUME TypeInv, ScanHeld, Served(in), Fn \in Scans, pc = "done", NEW i \in Index
  PROVE  IF IsLast(i) /\ UpTo(i) # {} THEN Gathered(i, UpTo(i))
         ELSE /\ c[i] = Masked
              /\ Fn \in Counting => cnt[i] \in {0, MaskedCount}
              /\ Fn \in Summing => sum[i] = MaskedCount
              /\ Fn = "distinct_linear" => ~ Selected(i)
<1>1. CallHeld
  BY DEF TypeInv
<1>2. N \in Nat /\ N >= 2 /\ Index = 0 .. N - 1
  BY <1>1, Sizes2
<1>3. /\ at = N - 1
      /\ bs <=> at > 0 /\ Key(at - 1) = Key(at)
      /\ Fn \in Unselective => Gathered(at, UpTo(at))
      /\ Fn \notin Unselective =>
           IF UpTo(at) # {} THEN Gathered(at, UpTo(at))
           ELSE /\ c[at].key \in {Key(at), MaxWord}
                /\ ~bs \/ Key(at) = MaxWord => c[at] = Masked
                /\ Fn \in Counting => cnt[at] = 0
                /\ ~Selected(at)
      /\ \A r \in 0 .. at - 1 : Passed(r)
  BY DEF ScanHeld
<1>4. CASE i # N - 1
  <2>1. Passed(i)
    BY <1>2, <1>3, <1>4
  <2>2. IsLast(i) <=> Key(i) # Key(i + 1)
    BY <1>4 DEF IsLast
  <2> QED
    BY <2>1, <2>2 DEF Passed, Discarded
<1>5. CASE i = N - 1
  <2>1. i = at /\ IsLast(i)
    BY <1>3, <1>5 DEF IsLast
  <2>2. UpTo(i) = Chosen(GroupOf(i))
    BY <2>1, <1>1, LastRow
  <2>3. CASE UpTo(i) # {}
    BY <2>1, <2>3, <1>3
  <2>4. CASE UpTo(i) = {}
    <3>1. Fn \notin Unselective
      <4> SUFFICES ASSUME Fn \in Unselective PROVE FALSE
        OBVIOUS
      <4>1. in.sel[i] = 1
        BY <1>1 DEF CallHeld
      <4>2. i \in Chosen(GroupOf(i))
        BY <4>1, <1>1, LeftLast
      <4> QED
        BY <4>2, <2>2, <2>4
    <3>2. Fn \notin Summing
      BY <3>1 DEF Unselective
    <3>3. c[i] = Masked
      <4>1. /\ in.fn # "group_by_min_max_sel_odd_even" /\ in.fn # "group_by_count_sel_odd_even"
            /\ in.fn \notin Unselective
        BY <3>1 DEF Fn, Scans
      <4>2. DOMAIN in.rows = Index /\ N = Cardinality(Index)
        BY <1>1 DEF CallHeld, N
      <4>3. \/ N - 1 \notin {k \in Index : in.rows[k].key # MaxWord}
            \/ {k \in Index : in.rows[k].key = in.rows[N - 1].key} = {N - 1}
            \/ {j \in {k \in Index : in.rows[k].key = in.rows[N - 1].key} : in.sel[j] = 1} # {}
        BY <4>1, <4>2, ServedScan
      <4>4. Key(i) = MaxWord \/ GroupOf(i) = {i} \/ Chosen(GroupOf(i)) # {}
        BY <4>3, <1>5 DEF Key, GroupOf, Chosen
      <4>5. GroupOf(i) = {i} => ~ bs
        <5> SUFFICES ASSUME GroupOf(i) = {i}, bs PROVE FALSE
          OBVIOUS
        <5>1. at - 1 \in Index /\ Key(at - 1) = Key(i) /\ at - 1 # i
          BY <2>1, <1>2, <1>3
        <5>2. at - 1 \in GroupOf(i)
          BY <5>1 DEF GroupOf, Key
        <5> QED
          BY <5>1, <5>2
      <4> QED
        BY <4>4, <4>5, <3>1, <2>1, <2>2, <2>4, <1>3
    <3> QED
      BY <3>1, <3>2, <3>3, <2>1, <2>4, <1>3
  <2> QED
    BY <2>3, <2>4
<1> QED
  BY <1>4, <1>5

LEMMA ScanResults ==
  ASSUME TypeInv, ScanHeld, Served(in), Fn \in Scans, pc = "done"
  PROVE  GroupsExact
<1>1. CallHeld
  BY DEF TypeInv
<1>2. N \in Nat /\ Index = 0 .. N - 1
  BY <1>1, Sizes2
<1> DEFINE K == {i \in Index : IsLast(i) /\ UpTo(i) # {}}
<1>3. \A i \in Index : i \in K => UpTo(i) = Chosen(GroupOf(i)) /\ IsLast(i) /\ UpTo(i) # {}
  BY <1>1, LastRow
<1>4. \A i \in Index : IF i \in K THEN Gathered(i, UpTo(i))
         ELSE /\ c[i] = Masked
              /\ Fn \in Counting => cnt[i] \in {0, MaskedCount}
              /\ Fn \in Summing => sum[i] = MaskedCount
              /\ Fn = "distinct_linear" => ~ Selected(i)
  BY ScanDone
<1>5. K \in SUBSET Index
  OBVIOUS
<1>6. \A i \in K : Chosen(GroupOf(i)) # {} /\ Holds(i, Chosen(GroupOf(i)))
  <2> SUFFICES ASSUME NEW i \in K PROVE Chosen(GroupOf(i)) # {} /\ Holds(i, Chosen(GroupOf(i)))
    OBVIOUS
  <2>1. UpTo(i) = Chosen(GroupOf(i)) /\ UpTo(i) # {} /\ Gathered(i, UpTo(i))
    BY <1>3, <1>4, <1>5
  <2>2. PICK S : S = UpTo(i)
    OBVIOUS
  <2>3. Has(c[i], cnt[i], sum[i], i, S)
    BY <2>1, <2>2, GatheredIs
  <2> QED
    BY <2>1, <2>2, <2>3, HoldsIs
<1>7. \A i, j \in K : Key(i) = Key(j) => i = j
  <2> SUFFICES ASSUME NEW i \in K, NEW j \in K, Key(i) = Key(j) PROVE i = j
    OBVIOUS
  <2>1. i \in Index /\ j \in Index /\ IsLast(i) /\ IsLast(j) /\ i \in Nat /\ j \in Nat
    BY <1>2
  <2>2. i <= j /\ j <= i
    BY <2>1, <1>1, LastRow
  <2> QED
    BY <2>1, <2>2
<1>8. \A r \in Index : Chosen(GroupOf(r)) # {} => \E i \in K : Key(i) = Key(r)
  <2> SUFFICES ASSUME NEW r \in Index, Chosen(GroupOf(r)) # {} PROVE \E i \in K : Key(i) = Key(r)
    OBVIOUS
  <2>1. PICK l \in Index : IsLast(l) /\ Key(l) = Key(r)
    BY <1>1, LastRow
  <2>2. GroupOf(l) = GroupOf(r)
    BY <2>1, <1>1, GroupRows
  <2>3. UpTo(l) # {}
    BY <2>1, <2>2, <1>1, LastRow DEF Chosen
  <2> QED
    BY <2>1, <2>3
<1>9. \A i \in Index \ K : c[i] = Masked
  BY <1>4
<1>10. \A i \in K : c[i].key # MaxWord /\ Selected(i)
  <2> SUFFICES ASSUME NEW i \in K PROVE c[i].key # MaxWord /\ Selected(i)
    OBVIOUS
  <2>1. i \in Index /\ UpTo(i) # {} /\ Chosen(GroupOf(i)) # {} /\ Gathered(i, UpTo(i))
    BY <1>3, <1>4, <1>5
  <2>2. Key(i) # MaxWord
    BY <2>1, <1>1, LeftLast
  <2> QED
    BY <2>1, <2>2, GatheredIs DEF Has
<1> HIDE DEF K
<1>11. \A r \in Index : in.rows[r].key # MaxWord =>
         LET left == {i \in Index : c[i].key = in.rows[r].key}
             of == Chosen(GroupOf(r))
         IN  IF of = {} THEN left = {}
             ELSE \E i \in left : left = {i} /\ Holds(i, of)
  <2> SUFFICES ASSUME NEW r \in Index, Key(r) # MaxWord,
                      NEW left, left = {i \in Index : c[i].key = Key(r)}
               PROVE  IF Chosen(GroupOf(r)) = {} THEN left = {}
                      ELSE \E i \in left : left = {i} /\ Holds(i, Chosen(GroupOf(r)))
    BY DEF Key
  <2> QED
    BY <1>1, <1>5, <1>6, <1>7, <1>8, <1>9, GroupsMeaning
<1>12. \A i \in Index : c[i].key = MaxWord =>
         /\ c[i] = Masked
         /\ in.fn \in Counting => cnt[i] \in {0, MaskedCount}
         /\ in.fn \in Summing => sum[i] = IF in.fn \in RoundSums THEN 0 ELSE MaskedCount
  <2>1. Fn \notin RoundSums
    BY DEF Scans, RoundSums
  <2> QED
    BY <2>1, <1>4, <1>10 DEF Fn
<1>13. in.fn = "distinct_linear" => \A i \in Index : Selected(i) <=> c[i].key # MaxWord
  BY <1>4, <1>10, Words DEF Fn
<1>14. in.fn # "distinct_batch"
  BY DEF Scans, Fn
<1> QED
  BY <1>11, <1>12, <1>13, <1>14 DEF GroupsExact

LEMMA RoundResults ==
  ASSUME TypeInv, RoundHeld, Fn \in OddEven, pc = "done"
  PROVE  GroupsExact
<1>1. CallHeld
  BY DEF TypeInv
<1> DEFINE K == {i \in Index : Kept(i)}
<1>2. \A i \in Index : EndedIs(c[i], cnt[i], sum[i], i)
  BY EndedHolds DEF RoundHeld
<1>3. K \in SUBSET Index
  OBVIOUS
<1>4. \A i \in K : Chosen(GroupOf(i)) # {} /\ Has(c[i], cnt[i], sum[i], i, Chosen(GroupOf(i)))
  BY <1>2 DEF EndedIs, Kept
<1>5. \A i \in K : Chosen(GroupOf(i)) # {} /\ Holds(i, Chosen(GroupOf(i)))
  BY <1>4, HoldsIs
<1>6. \A i, j \in K : Key(i) = Key(j) => i = j
  <2> SUFFICES ASSUME NEW i \in K, NEW j \in K, Key(i) = Key(j) PROVE i = j
    OBVIOUS
  <2>1. i \in Index /\ j \in Index /\ i = FirstOf(i) /\ j = FirstOf(j)
    BY DEF Kept
  <2>2. FirstOf(i) = FirstOf(j)
    BY <2>1, <1>1, FirstRow
  <2> QED
    BY <2>1, <2>2
<1>7. \A r \in Index : Chosen(GroupOf(r)) # {} => \E i \in K : Key(i) = Key(r)
  <2> SUFFICES ASSUME NEW r \in Index, Chosen(GroupOf(r)) # {} PROVE \E i \in K : Key(i) = Key(r)
    OBVIOUS
  <2>1. PICK f : f = FirstOf(r)
    OBVIOUS
  <2>2. f \in Index /\ Key(f) = Key(r) /\ FirstOf(f) = f
    <3>1. FirstOf(r) \in Index /\ Key(FirstOf(r)) = Key(r)
      BY <1>1, FirstRow
    <3>2. FirstOf(f) = FirstOf(r)
      BY <3>1, <2>1, <1>1, FirstRow
    <3> QED
      BY <3>1, <3>2, <2>1
  <2>3. GroupOf(f) = GroupOf(r)
    BY <2>2, <1>1, GroupRows
  <2>4. Kept(f)
    BY <2>2, <2>3 DEF Kept, Chosen
  <2> QED
    BY <2>2, <2>4
<1>8. \A i \in Index \ K :
        /\ c[i] = Masked
        /\ Fn \in Counting => cnt[i] \in {0, MaskedCount}
        /\ Fn \in Summing => sum[i] = 0
  BY <1>2 DEF EndedIs
<1>9. \A i \in K : c[i].key # MaxWord
  <2> SUFFICES ASSUME NEW i \in K PROVE c[i].key # MaxWord
    OBVIOUS
  <2>1. i \in Index /\ Key(i) # MaxWord
    BY <1>1, <1>4, LeftLast
  <2> QED
    BY <2>1, <1>4 DEF Has
<1> HIDE DEF K
<1>10. \A r \in Index : in.rows[r].key # MaxWord =>
         LET left == {i \in Index : c[i].key = in.rows[r].key}
             of == Chosen(GroupOf(r))
         IN  IF of = {} THEN left = {}
             ELSE \E i \in left : left = {i} /\ Holds(i, of)
  <2> SUFFICES ASSUME NEW r \in Index, Key(r) # MaxWord,
                      NEW left, left = {i \in Index : c[i].key = Key(r)}
               PROVE  IF Chosen(GroupOf(r)) = {} THEN left = {}
                      ELSE \E i \in left : left = {i} /\ Holds(i, Chosen(GroupOf(r)))
    BY DEF Key
  <2> QED
    BY <1>1, <1>3, <1>5, <1>6, <1>7, <1>8, GroupsMeaning
<1>11. \A i \in Index : c[i].key = MaxWord =>
         /\ c[i] = Masked
         /\ in.fn \in Counting => cnt[i] \in {0, MaskedCount}
         /\ in.fn \in Summing => sum[i] = IF in.fn \in RoundSums THEN 0 ELSE MaskedCount
  <2>1. Fn \in Summing => Fn \in RoundSums
    BY DEF OddEven, Summing, Joins, RoundSums
  <2> QED
    BY <2>1, <1>8, <1>9 DEF Fn
<1>12. in.fn # "distinct_batch" /\ in.fn # "distinct_linear"
  BY DEF OddEven, RoundSums, Fn
<1> QED
  BY <1>10, <1>11, <1>12 DEF GroupsExact

\* When a grouping function returns for a served call, one row of each group
\* with a selected row is left and holds what the function computes of the
\* group's selected rows, and all other rows and their counts and sums are
\* masked; distinct_batch marks the first row of each group.  For tables of
\* every size and batches of every size.
THEOREM GroupsCorrect ==
  ASSUME \A x : Accepts(x) => Served(x)
  PROVE  Spec => []GroupsExact
<1> DEFINE Inv == TypeInv /\ PhaseHeld /\ ScanHeld /\ RoundHeld /\ PairsHeld
<1>1. Init => Inv
  BY InitTypes, ScanInit, RoundInit, PairsInit
<1>2. TypeInv => Served(in) /\ CallHeld
  BY DEF TypeInv, CallHeld
<1>3. Inv /\ [Next]_vars => Inv'
  BY <1>2, TypeNext, PhaseNext, ScanNext, RoundNext, PairsNext
<1>4. Inv => GroupsExact
  <2> SUFFICES ASSUME Inv, pc = "done" PROVE GroupsExact
    BY DEF GroupsExact
  <2>1. CASE Fn = "distinct_batch"
    <3>1. \A i \in Index : c = in.rows /\ (sel[i] = 1 <=> i = Min(GroupOf(i)))
      BY <2>1, <1>2, PairsMeaning DEF FirstOf
    <3>2. 0 \in Index
      BY <1>2, UpToFirst
    <3> QED
      BY <3>1, <3>2, <2>1 DEF GroupsExact, Fn
  <2>2. CASE Fn \in Scans
    BY <2>2, <1>2, ScanResults
  <2>3. CASE Fn \in OddEven
    BY <2>3, RoundResults
  <2> QED
    BY <2>1, <2>2, <2>3, <1>2, Kinds
<1> HIDE DEF Inv
<1> QED
  BY <1>1, <1>3, <1>4, PTL DEF Spec

=============================================================================
