------------------------------ MODULE GroupBy ------------------------------
(***************************************************************************)
(* The grouping operators of relational.cpp on the values their shares     *)
(* stand for: distinct_linear, group_by_count, group_by_min_max_sel,       *)
(* group_by_count_micro and group_by_join, which scan a sorted table row   *)
(* by row, and group_by_count_odd_even, group_by_count_sel_odd_even,       *)
(* group_by_min_max_sel_odd_even, group_by_sum_odd_even (after             *)
(* group_by_join_first) and group_by_avg_odd_even, which compare rows at   *)
(* distance n/2, n/4, ..., 1 in batches; and distinct_batch, which only    *)
(* compares adjacent rows.  No branch depends on a value: a row that is    *)
(* merged into another one stays in its place and is "masked", all its     *)
(* boolean words set to MaxWord.  The group-by keys of a row are one       *)
(* value here, and its attributes are the one that a minimum is taken of,  *)
(* lo, and the one that a maximum is taken of, hi.  In the joins lo is the *)
(* join attribute, in group_by_avg_odd_even what is summed.                *)
(*                                                                         *)
(* A step is an iteration of a scan or a batch of a round, with all rounds *)
(* of communication in it: every party does the same steps in the same     *)
(* order (SecureEval), and eq_b, greater and eq_bulk are taken for what    *)
(* they decide (WordCircuits; for eq_b, of keys below half a word).        *)
(***************************************************************************)
EXTENDS Integers, FiniteSets, FiniteSetsExt

CONSTANTS
  MaxWord,      \* the word of all ones, as an unsigned number
  Functions,    \* the functions to call
  Sizes,        \* numbers of rows
  Keys,         \* group-by keys, MaxWord for a row masked before
  Values(_),    \* the columns of attributes for a number of rows
  Rights,       \* right tables of the joins: functions on 0 .. m-1
  Batches,      \* values of the argument batch_size
  Accepts(_)    \* the calls to look at

Joins == {"group_by_join", "group_by_sum_odd_even"}
RoundSums == {"group_by_sum_odd_even", "group_by_avg_odd_even"}
Summing == Joins \cup RoundSums
MinMax == {"group_by_min_max_sel", "group_by_min_max_sel_odd_even"}
Scans == {"distinct_linear", "group_by_count", "group_by_min_max_sel",
          "group_by_count_micro", "group_by_join"}
OddEven == RoundSums \cup {"group_by_count_odd_even",
            "group_by_count_sel_odd_even", "group_by_min_max_sel_odd_even"}
Counting == {"group_by_count", "group_by_count_micro", "group_by_avg_odd_even",
             "group_by_count_odd_even", "group_by_count_sel_odd_even"}
Unselective == {"group_by_count_micro", "group_by_count_odd_even",
                "distinct_batch"} \cup Summing

Row == [key : 0 .. MaxWord, lo : 0 .. MaxWord, hi : 0 .. MaxWord]
Masked == [key |-> MaxWord, lo |-> MaxWord, hi |-> MaxWord]

\* Arithmetic words wrap around, and mul(b1, b2, max, max, ...) multiplies by
\* the number of which max is each of the three shares.
Plus(x, y) == (x + y) % (MaxWord + 1)
MaskedCount == Plus(MaxWord, Plus(MaxWord, MaxWord))

\* A table has at least two rows (with one, a scan reads bs1 before it is set),
\* whose number is a word;
\* that of an odd-even function has a power of two of them, which it asserts.
ASSUME InputAssumption ==
  /\ MaxWord \in Nat /\ MaxWord % 2 = 1
  /\ Functions \subseteq Scans \cup OddEven \cup {"distinct_batch"}
  /\ Sizes \subseteq 2 .. MaxWord
  /\ Functions \cap OddEven # {} => \A n \in Sizes : \E e \in 1 .. n : n = 2^e
  /\ Keys \subseteq 0 .. MaxWord
  /\ \A n \in Sizes : Values(n) \subseteq [0 .. n - 1 -> 0 .. MaxWord - 1]
  /\ Batches \subseteq Nat \ {0}
  /\ \A t \in Rights :
       /\ IsFiniteSet(DOMAIN t)
       /\ \A k \in DOMAIN t : t[k].key \in 0 .. MaxWord - 1 /\ t[k].val \in 0 .. MaxWord

VARIABLES
  in,      \* the call: its arguments, before any step
  c,       \* table->content
  sel,     \* selected_b (selected in group_by_min_max_sel); distinct
  cnt,     \* the arithmetic counters (selected in group_by_count)
  sum,     \* the column at sum_res_index
  pc,      \* "scan", "last", "pairs", "first", "rounds", "final" or "done"
  at,      \* i of a scan; start, the first row or pair of the next batch
  bs,      \* of a scan: rows at-1 and at had the same key
  dist     \* distance of the pairs of a round

vars == <<in, c, sel, cnt, sum, pc, at, bs, dist>>

N == Cardinality(DOMAIN in.rows)
Index == 0 .. N - 1
Batch == IF in.batch > N THEN N ELSE in.batch

\* A call of a function on a sorted table.  The functions that take no
\* selection have a count of 1 for each row.
RowOf(key, value) ==
  IF key = MaxWord THEN Masked ELSE [key |-> key, lo |-> value, hi |-> value]
Selections(f, n) ==
  IF f \in Unselective THEN {[i \in 0 .. n - 1 |-> 1]} ELSE [0 .. n - 1 -> {0, 1}]
Sorted(key) == \A i, j \in DOMAIN key : i < j => key[i] <= key[j]
Call ==
  \E f \in Functions, n \in Sizes :
    \E key \in {k \in [0 .. n - 1 -> Keys] : Sorted(k)}, s \in Selections(f, n),
       value \in IF f \in MinMax \cup Summing THEN Values(n)
                ELSE {[i \in 0 .. n - 1 |-> 1]},
       b \in IF f \in Scans THEN {1} ELSE Batches,
       t \in IF f \in Joins THEN Rights ELSE {<<>>} :
      /\ \A i \in 0 .. n - 1 : key[i] = MaxWord => s[i] = 0
      /\ in = [fn |-> f, sel |-> s, batch |-> b, right |-> t,
               rows |-> [i \in 0 .. n - 1 |-> RowOf(key[i], value[i])]]

Init ==
  /\ Call
  /\ Accepts(in)
  /\ c = in.rows
  /\ sel = in.sel
  /\ cnt = in.sel
  /\ sum = [i \in Index |-> IF in.fn = "group_by_avg_odd_even"
                           THEN in.rows[i].lo ELSE 0]
  /\ pc = CASE in.fn \in Joins -> "first"
            [] in.fn = "distinct_batch" -> "pairs"
            [] in.fn \in Scans \ Joins -> "scan"
            [] OTHER -> "rounds"
  /\ at = 0
  /\ bs = FALSE
  /\ dist = N \div 2

-----------------------------------------------------------------------------
(* The scans. *)

Same(i, j) == c[i].key = c[j].key
Selected(i) == sel[i] % 2 = 1

\* bn: row i is masked when it is merged into the next one or not selected.
Merged(i) ==
  Same(i, i + 1) \/ (in.fn \notin Unselective /\ ~Selected(i))

\* The row i+1 after row i was merged into it: bu and bp.
Extremes(i) ==
  LET both == Same(i, i + 1) /\ Selected(i) /\ Selected(i + 1)
      first == Same(i, i + 1) /\ Selected(i) /\ ~Selected(i + 1)
      bu == first \/ (both /\ c[i].hi > c[i + 1].hi)
      bp == first \/ (both /\ c[i + 1].lo > c[i].lo)
  IN  [c[i + 1] EXCEPT !.hi = IF bu THEN c[i].hi ELSE @,
                       !.lo = IF bp THEN c[i].lo ELSE @]

\* The same without looking at the selection of row i, and adding the bits.
PropagatedAlways(i) == IF Same(i, i + 1) THEN sel[i] ELSE sel[i + 1]
PropagatedSum(i) ==
  IF Same(i, i + 1) /\ Selected(i) THEN sel[i] + sel[i + 1] ELSE sel[i + 1]

\* cond: the selection of row i passes to the next row of its group.
Propagated(i) == IF Same(i, i + 1) /\ Selected(i) THEN sel[i] ELSE sel[i + 1]

MaskedIf(b, x, mask) == IF b THEN mask ELSE x

MoveOn ==
  /\ at' = at + 1
  /\ bs' = Same(at, at + 1)
  /\ pc' = IF at + 1 < N - 1 THEN "scan"
           ELSE IF in.fn \in Unselective THEN "done" ELSE "last"
  /\ UNCHANGED <<in, dist>>

ScanDistinct ==
  /\ in.fn = "distinct_linear" /\ pc = "scan"
  /\ c' = [c EXCEPT ![at] = MaskedIf(Merged(at), @, Masked)]
  /\ sel' = [sel EXCEPT ![at + 1] = Propagated(at),
                        ![at] = IF Same(at, at + 1) THEN 0 ELSE @]
  /\ MoveOn
  /\ UNCHANGED <<cnt, sum>>

Counted(i) == IF Same(i, i + 1) THEN cnt[i] + cnt[i + 1] ELSE cnt[i + 1]

ScanCount ==
  /\ in.fn \in {"group_by_count", "group_by_count_micro"} /\ pc = "scan"
  /\ c' = [c EXCEPT ![at] = MaskedIf(Merged(at), @, Masked)]
  /\ cnt' = [cnt EXCEPT ![at + 1] = Counted(at),
                        ![at] = MaskedIf(Merged(at), @, MaskedCount)]
  /\ sel' = IF in.fn \in Unselective THEN sel
            ELSE [sel EXCEPT ![at + 1] = Propagated(at)]
  /\ MoveOn
  /\ UNCHANGED sum

ScanMinMax ==
  /\ in.fn = "group_by_min_max_sel" /\ pc = "scan"
  /\ c' = [c EXCEPT ![at] = MaskedIf(Merged(at), @, Masked),
                    ![at + 1] = Extremes(at)]
  /\ sel' = [sel EXCEPT ![at] = MaskedIf(Merged(at), @, MaxWord),
                        ![at + 1] = Propagated(at)]
  /\ MoveOn
  /\ UNCHANGED <<cnt, sum>>

\* "Make sure we mask the last row if it's not selected": bl uses the bs of the
\* last iteration.
LastUnselected == ~bs /\ ~Selected(N - 1)
MaskLast ==
  /\ pc = "last"
  /\ c' = [c EXCEPT ![N - 1] = MaskedIf(LastUnselected, @, Masked)]
  /\ pc' = "done"
  /\ UNCHANGED <<in, sel, cnt, sum, at, bs, dist>>

\* sum_right of a row with join attribute x: b2 * right attribute, added up.
Matching(x) ==
  MapThenSumSet(LAMBDA k : in.right[k].val,
                {k \in DOMAIN in.right : in.right[k].key = x}) % (MaxWord + 1)

\* group_by_join: the very first row gets its own sum, ...
JoinStart ==
  /\ in.fn = "group_by_join" /\ pc = "first"
  /\ sum' = [sum EXCEPT ![0] = Matching(c[0].lo)]
  /\ pc' = "scan"
  /\ UNCHANGED <<in, c, sel, cnt, at, bs, dist>>

\* ... each later one, in whichever batch, adds that of the row before unless
\* it begins a group (b1, which distinct_batch_incr computes for a batch and the
\* row before it), and then the row before is masked.
BeginsGroup(i) == ~Same(i - 1, i)
ScanJoin ==
  /\ in.fn = "group_by_join" /\ pc = "scan"
  /\ LET own == Matching(c[at + 1].lo)
         b1 == BeginsGroup(at + 1)
     IN  /\ sum' = [sum EXCEPT ![at + 1] = IF b1 THEN own ELSE Plus(sum[at], own),
                              ![at] = MaskedIf(~b1, @, MaskedCount)]
         /\ cnt' = [cnt EXCEPT ![at] = MaskedIf(~b1, @, MaskedCount)]
         /\ c' = [c EXCEPT ![at] = MaskedIf(~b1, @, Masked)]
  /\ MoveOn
  /\ UNCHANGED sel

\* distinct_batch: each row but the first is compared with the one before.
DistinctBatch ==
  /\ in.fn = "distinct_batch" /\ pc = "pairs"
  /\ LET batch == IF in.batch > N - 1 THEN N - 1 ELSE in.batch
         next == IF at + batch <= N - 1 THEN at + batch ELSE N - 1
     IN  /\ sel' = [i \in Index |-> CASE i = 0 -> 1
                                    [] i - 1 \in at .. next - 1 ->
                                         IF Same(i - 1, i) THEN 0 ELSE 1
                                    [] OTHER -> sel[i]]
         /\ at' = next
         /\ pc' = IF next < N - 1 THEN "pairs" ELSE "done"
  /\ UNCHANGED <<in, c, cnt, sum, bs, dist>>

-----------------------------------------------------------------------------
(* The rounds of odd-even aggregation: the pairs <<i, i + dist>>. *)

End == LET pairs == N - dist
       IN  IF at + Batch <= pairs THEN at + Batch ELSE pairs
Pairs == at .. End - 1

\* After the last batch of the round with distance 1 comes the final pass.
NextBatch ==
  /\ IF End < N - dist THEN at' = End /\ UNCHANGED <<dist, pc>>
     ELSE /\ at' = 0
          /\ dist' = dist \div 2
          /\ pc' = IF dist = 1 THEN "final" ELSE "rounds"
  /\ UNCHANGED <<in, bs>>

\* The values of all pairs of a batch are computed before any is stored.
RoundCount ==
  /\ in.fn \in {"group_by_count_odd_even", "group_by_count_sel_odd_even"}
  /\ pc = "rounds"
  /\ c' = [r \in Index |->
             MaskedIf(r - dist \in Pairs /\ Same(r - dist, r), c[r], Masked)]
  /\ cnt' = [r \in Index |->
               IF r \in Pairs /\ Same(r, r + dist) THEN cnt[r] + cnt[r + dist]
               ELSE cnt[r]]
  /\ NextBatch
  /\ UNCHANGED <<sel, sum>>

\* group_by_join_first, called batch by batch.
FinalEnd == IF at + Batch <= N THEN at + Batch ELSE N
JoinFirst ==
  /\ in.fn = "group_by_sum_odd_even" /\ pc = "first"
  /\ sum' = [i \in Index |->
               IF i \in at .. FinalEnd - 1 THEN Matching(c[i].lo) ELSE sum[i]]
  /\ IF FinalEnd < N THEN at' = FinalEnd /\ UNCHANGED pc
     ELSE at' = 0 /\ pc' = "rounds"
  /\ UNCHANGED <<in, c, sel, cnt, bs, dist>>

\* The second row of a pair of one group gets 0 in an arithmetic column, unless
\* it is the first of a later pair of the batch: then its own sum is stored.
Cleared(col, r) ==
  IF r - dist \in Pairs /\ Same(r - dist, r) THEN 0 ELSE col[r]
Accumulated(col, r) ==
  IF r \in Pairs
  THEN IF Same(r, r + dist) THEN Plus(col[r], col[r + dist]) ELSE col[r]
  ELSE Cleared(col, r)

RoundSum ==
  /\ in.fn \in RoundSums /\ pc = "rounds"
  /\ c' = [r \in Index |->
             MaskedIf(r - dist \in Pairs /\ Same(r - dist, r), c[r], Masked)]
  /\ sum' = [r \in Index |-> Accumulated(sum, r)]
  /\ cnt' = [r \in Index |-> IF in.fn \in Counting THEN Accumulated(cnt, r)
                             ELSE Cleared(cnt, r)]
  /\ NextBatch
  /\ UNCHANGED sel

\* Masking only rows that are merged.
DroppedIfSame(i) == Same(i, i + dist)

\* bn of a pair, and the new minimum and maximum of its first row.
Dropped(i) == Same(i, i + dist) \/ ~Selected(i + dist)
NewLo(i) ==
  LET bcn == /\ Same(i, i + dist) /\ Selected(i) /\ Selected(i + dist)
             /\ c[i].lo > c[i + dist].lo
  IN  IF bcn THEN c[i + dist].lo ELSE c[i].lo
NewHi(i) ==
  LET bcx == /\ Same(i, i + dist) /\ Selected(i) /\ Selected(i + dist)
             /\ ~(c[i].hi > c[i + dist].hi)
  IN  IF bcx THEN c[i + dist].hi ELSE c[i].hi

\* A row that is the second of one pair and the first of a later pair of the
\* batch is masked first and then gets its new lo and hi.
RoundMinMax ==
  /\ in.fn = "group_by_min_max_sel_odd_even" /\ pc = "rounds"
  /\ LET masked == [r \in Index |->
                      MaskedIf(r - dist \in Pairs /\ Dropped(r - dist), c[r], Masked)]
     IN  c' = [r \in Index |->
                 IF r \in Pairs
                 THEN [masked[r] EXCEPT !.lo = NewLo(r), !.hi = NewHi(r)]
                 ELSE masked[r]]
  /\ NextBatch
  /\ UNCHANGED <<sel, cnt, sum>>

\* The final pass looks for masked rows by their first attribute, and takes
\* the first row, which no round masks, for masked if it was not selected.
\* (Column 0 is not one of the aggregated attributes.)
IsMaskedKey(i) == c[i].key = MaxWord
IsMasked(i) ==
  IF i = 0 /\ in.fn \notin Unselective THEN sel[0] = 0 ELSE c[i].key = MaxWord

FinalRows == CASE in.fn \in MinMax \cup RoundSums -> Index
               [] in.fn = "group_by_count_sel_odd_even" -> {0}
               [] OTHER -> {}

Final ==
  /\ pc = "final"
  /\ LET hit == {i \in at .. FinalEnd - 1 : IsMasked(i)}
     IN  /\ c' = [i \in Index |-> MaskedIf(i \in hit \cap FinalRows, c[i], Masked)]
         /\ cnt' = [i \in Index |->
                      MaskedIf(i \in hit /\ in.fn \notin MinMax, cnt[i],
                               IF in.fn \in RoundSums THEN 0 ELSE MaskedCount)]
         /\ sum' = [i \in Index |->
                      MaskedIf(i \in hit /\ in.fn \in RoundSums, sum[i], 0)]
         /\ sel' = [i \in Index |->
                      MaskedIf(i \in hit /\ in.fn \in MinMax, sel[i], MaxWord)]
  /\ at' = FinalEnd
  /\ pc' = IF FinalEnd = N THEN "done" ELSE "final"
  /\ UNCHANGED <<in, bs, dist>>

Return == pc = "done" /\ UNCHANGED vars

Next == \/ ScanDistinct \/ ScanCount \/ ScanMinMax \/ MaskLast
        \/ JoinStart \/ ScanJoin \/ DistinctBatch
        \/ RoundCount \/ JoinFirst \/ RoundSum \/ RoundMinMax
        \/ Final \/ Return
Spec == Init /\ [][Next]_vars

-----------------------------------------------------------------------------
(* What the functions compute. *)

TypeOK ==
  /\ in.fn \in Functions
  /\ c \in [Index -> Row]
  /\ sel \in [Index -> {0, 1, MaxWord}]
  /\ cnt \in [Index -> 0 .. MaxWord]
  /\ sum \in [Index -> 0 .. MaxWord]
  /\ pc \in {"scan", "last", "pairs", "first", "rounds", "final", "done"}
  /\ at \in 0 .. N
  /\ bs \in BOOLEAN
  /\ dist \in 0 .. N \div 2

GroupOf(r) == {j \in Index : in.rows[j].key = in.rows[r].key}
Chosen(rows) == {j \in rows : in.sel[j] = 1}

\* Row r holds what its function computes of the rows "of" of its group.
Holds(r, of) ==
  /\ c[r].key = in.rows[r].key
  /\ in.fn \in Counting => cnt[r] = Cardinality(of)
  /\ in.fn \in Summing =>
       sum[r] = MapThenSumSet(LAMBDA j : IF in.fn \in Joins
                                         THEN Matching(in.rows[j].lo)
                                         ELSE in.rows[j].lo, of) % (MaxWord + 1)
  /\ in.fn \in MinMax /\ of # {} =>
       /\ c[r].lo = Min({in.rows[j].lo : j \in of})
       /\ c[r].hi = Max({in.rows[j].hi : j \in of})

\* In a scan, row "at" carries all selected rows of its group up to it, with a
\* selected bit if there are any; of the rows before it those are left which
\* are the last of a group with a selected row; the rows after it are
\* untouched.
ScanCarries ==
  pc \in {"scan", "last"} =>
    /\ Holds(at, Chosen({j \in GroupOf(at) : j <= at}))
    /\ Selected(at) <=> Chosen({j \in GroupOf(at) : j <= at}) # {}
    /\ \A r \in 0 .. at - 1 :
         IF in.rows[r].key # in.rows[r + 1].key /\ Chosen(GroupOf(r)) # {}
         THEN Holds(r, Chosen(GroupOf(r)))
         ELSE c[r] = Masked
    /\ \A r \in at + 1 .. N - 1 : c[r] = in.rows[r] /\ sel[r] = in.sel[r]

\* Before the round with distance d, the first 2d rows of each group are left,
\* and each holds what is 2d, 4d, ... rows after it in its group, whatever the
\* batches were.
RoundKeeps ==
  (pc = "rounds" \/ pc = "final") /\ at = 0 =>
    LET gap == IF pc = "final" THEN 1 ELSE 2 * dist
        first(r) == Min(GroupOf(r))
        left(r) == /\ r - first(r) < gap
                   /\ in.fn \in MinMax /\ r >= gap => in.sel[r] = 1
    IN  \A r \in Index :
          IF left(r)
          THEN Holds(r, Chosen({j \in GroupOf(r) : j >= r /\ (j - r) % gap = 0}))
          ELSE c[r].key = MaxWord

\* At the end, one row of each group with a selected row is left and holds what
\* the function computes of the selected rows of the group; all other rows are
\* masked, and so are their counts and sums (the count of a masked last row is
\* 0).  distinct_batch masks none and marks the first row of each group.
GroupsExact ==
  pc = "done" =>
   IF in.fn = "distinct_batch"
   THEN c = in.rows /\ \A i \in Index : sel[i] = 1 <=> i = Min(GroupOf(i))
   ELSE
    /\ \A r \in Index : in.rows[r].key # MaxWord =>
         LET left == {i \in Index : c[i].key = in.rows[r].key}
             of == Chosen(GroupOf(r))
         IN  IF of = {} THEN left = {}
             ELSE \E i \in left : left = {i} /\ Holds(i, of)
    /\ \A i \in Index : c[i].key = MaxWord =>
         /\ c[i] = Masked
         /\ in.fn \in Counting => cnt[i] \in {0, MaskedCount}
         /\ in.fn \in Summing => sum[i] = IF in.fn \in RoundSums THEN 0
                                         ELSE MaskedCount
    /\ in.fn = "distinct_linear" =>
         \A i \in Index : Selected(i) <=> c[i].key # MaxWord

\* "Make sure we mask the last row if it's not selected."
LastRowMasked ==
  pc = "done" /\ in.fn \in Scans \ Unselective /\ ~Selected(N - 1)
    => c[N - 1] = Masked

-----------------------------------------------------------------------------
(* The calls for which the result is exact. *)

\* group_by_min_max_sel_odd_even: the selected rows of a group come first.
\* group_by_count_sel_odd_even: a group without a selected row is masked or that
\* of the first row, which is selected if any row of its group is.
\* The scans: the last group is masked, or one row, or has a selected row.
Served(x) ==
  LET n == Cardinality(DOMAIN x.rows)
      group(i) == {j \in DOMAIN x.rows : x.rows[j].key = x.rows[i].key}
      chosen(i) == {j \in group(i) : x.sel[j] = 1}
      unmasked == {i \in DOMAIN x.rows : x.rows[i].key # MaxWord}
  IN  CASE x.fn = "group_by_min_max_sel_odd_even" ->
             \A i \in unmasked : \A j \in group(i) : i < j => x.sel[i] >= x.sel[j]
        [] x.fn = "group_by_count_sel_odd_even" ->
             \A i \in unmasked : IF 0 \in group(i)
                                 THEN x.sel[0] = 1 \/ chosen(0) = {}
                                 ELSE chosen(i) # {}
        [] x.fn \in Unselective -> unmasked = DOMAIN x.rows
        [] OTHER -> n - 1 \notin unmasked \/ group(n - 1) = {n - 1}
                      \/ chosen(n - 1) # {}

=============================================================================
