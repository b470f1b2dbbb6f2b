--------------------------- MODULE TableOperators ---------------------------
(***************************************************************************)
(* The physical operators a query is made of (planner/operators) on the    *)
(* values their shares stand for: SelectOperator, JoinOperator,            *)
(* SemiJoinOperator (in, in_sel_right), SortOperator and DistinctOperator  *)
(* (bitonic_sort_batch, distinct_array) and MaskOperator (mask).  They     *)
(* hand on one relation: a row that does not qualify stays in the table,   *)
(* only bit 0 of its column [SEL] is 0, until the mask writes all ones     *)
(* into its columns.  DistinctOperator sorts by [SEL] and compares it too.  *)
(*                                                                         *)
(* A step is an operator, or a batch of one that works in batches, with    *)
(* all its rounds of communication: all parties do the same steps in the   *)
(* same order (SecureEval), and eq_bulk, the comparisons of                *)
(* cmp_swap_batch and the multiplexer are taken for what they decide       *)
(* (WordCircuits); eq_b_array, which a filter calls, decides less.         *)
(***************************************************************************)
EXTENDS Integers, Sequences, FiniteSets, FiniteSetsExt

CONSTANTS
  Width,  \* bits of a word
  Calls   \* the plans to execute, with their input relations

MaxWord == 2^Width - 1
Word == 0 .. MaxWord
Columns == {"key", "val", "rkey", "sel"}  \* rkey: the key of a joined row
Row == [Columns -> Word]
Masked == [col \in Columns |-> MaxWord]
Size(t) == Cardinality(DOMAIN t)
PowersOfTwo == {2^e : e \in 0 .. Width}

Kinds == {"filter_const", "filter", "join", "semi_join", "order_by", "distinct",
          "adjacent_eq", "mask"}
Key == [col : Columns, asc : BOOLEAN]
Operation ==
  [kind : Kinds \ {"filter_const"}, by : Seq(Key)]
  \cup [kind : {"filter_const"}, by : {<<>>}, const : Word]
Has(x, kind) == \E i \in DOMAIN x.ops : x.ops[i].kind = kind

ASSUME WidthAssumption == Width \in Nat \ {0}

\* Tables are arrays of rows.  The asserts of in, bitonic_sort_batch and
\* distinct_array; a sort of more than three attributes looks at the first one
\* only (compute_composite_*), and a filter with a constant drops the selection
\* made before it.
ASSUME CallsAssumption ==
  \A x \in Calls :
    /\ x.left \in [0 .. Size(x.left) - 1 -> Row]
    /\ x.right \in [0 .. Size(x.right) - 1 -> Row]
    /\ Size(x.left) \in PowersOfTwo /\ Size(x.right) \in PowersOfTwo
    /\ \A r \in DOMAIN x.right : x.right[r].sel \in {0, 1}
    /\ x.batch \in PowersOfTwo \ {1} /\ x.batch <= Size(x.left)
    /\ x.lefts \in Nat \ {0} /\ x.rights \in PowersOfTwo
    /\ Has(x, "join") => /\ Size(x.left) % x.lefts = 0
                        /\ Size(x.right) % x.rights = 0
    /\ x.ops \in Seq(Operation)
    /\ \A i \in DOMAIN x.ops : /\ Len(x.ops[i].by) <= 3
                               /\ x.ops[i].kind \in {"order_by", "distinct"} =>
                                    x.ops[i].by # <<>>
                               /\ x.ops[i].kind # "order_by" => Len(x.ops[i].by) <= 2
                               /\ x.ops[i].kind = "filter_const" => i = 1
    /\ Has(x, "distinct") => Size(x.left) >= 4 \/ Has(x, "join")

VARIABLES
  in,      \* the plan and its input
  ops,     \* the operators not yet done, Head(ops) being the current one
  rows,    \* output.shareTable
  used,    \* output.bSelectionUsed
  pc,      \* "start" of an operator, or the loop of it that runs
  phase,   \* of a sort: i
  column,  \* of a sort: j; of a semi-join: l
  turn,    \* of a column of a sort: r
  at,      \* first row, comparison or left row of the next batch
  work     \* local: bits of the comparisons of a semi-join or of distinct

vars == <<in, ops, rows, used, pc, phase, column, turn, at, work>>
loop == <<phase, column, turn, at, work>>

N == Size(rows)
Index == 0 .. N - 1
NR == Size(in.right)
Op == Head(ops)
Bit(b) == IF b THEN 1 ELSE 0
Selected(row) == row.sel % 2 = 1

\* eq_b_array: the rounds compare the lower halves of two words (EqB of
\* WordCircuits), and the last keeps bit 0 only.
Half == 2^(Width \div 2)
EqWord(x, y) == Bit(x % Half = y % Half)

\* and_b_array on [SEL] and another column.
Unsigned(u) == MapThenSumSet(LAMBDA i : 2^i, u)
AndWord(x, y) ==
  Unsigned({i \in 0 .. Width - 1 : (x \div 2^i) % 2 = 1 /\ (y \div 2^i) % 2 = 1})

Init ==
  /\ in \in Calls
  /\ ops = in.ops
  /\ rows = in.left
  /\ used = FALSE
  /\ pc = "start"
  /\ phase = 0 /\ column = 0 /\ turn = 0 /\ at = 0
  /\ work = <<>>

Start(kind) == pc = "start" /\ ops # <<>> /\ Op.kind = kind

Finish ==
  /\ ops' = Tail(ops)
  /\ pc' = "start"
  /\ phase' = 0 /\ column' = 0 /\ turn' = 0 /\ at' = 0 /\ work' = <<>>

\* An operator that ends by writing [SEL] = word(i), or [SEL] & word(i).
Conjoined(i, word(_)) ==
  IF used THEN AndWord(rows[i].sel, word(i)) ELSE word(i)
SelectRows(word(_)) ==
  /\ rows' = [i \in Index |-> [rows[i] EXCEPT !.sel = Conjoined(i, word)]]
  /\ used' = TRUE

-----------------------------------------------------------------------------
(* Filters: eq of a column with a constant, and of two columns. *)

\* The difference columns of the input decide; [SEL] is replaced.
FilterConst ==
  /\ Start("filter_const")
  /\ rows' = [i \in Index |->
                [rows[i] EXCEPT !.sel = Bit(rows[i].val = Op.const)]]
  /\ used' = TRUE
  /\ Finish
  /\ UNCHANGED in

Filter ==
  /\ Start("filter")
  /\ LET word(i) == EqWord(rows[i].val, rows[i].key) IN SelectRows(word)
  /\ Finish
  /\ UNCHANGED in

-----------------------------------------------------------------------------
(* JoinOperator: a row for every pair of rows, laid out batch by batch. *)

LeftOf(r) ==
  ((r \div in.rights) % in.lefts) + (r \div (in.lefts * NR)) * in.lefts
RightOf(r) ==
  LET q == r % (in.lefts * NR)
  IN  (q % in.rights) + (q \div (in.lefts * in.rights)) * in.rights

\* Where join_eq_b_batch, called for the batch of a and b, leaves their bit.
PlaceOf(a, b) ==
  LET i == a - (a % in.lefts)
      j == b - (b % in.rights)
  IN  i * NR + j * in.lefts + (a - i) * in.rights + (b - j)

JoinWord(r) ==
  LET pair == CHOOSE p \in Index \X (0 .. NR - 1) : PlaceOf(p[1], p[2]) = r
      a == rows[pair[1]]
      b == in.right[pair[2]]
  IN  Bit(a.key = b.key)

Join ==
  /\ Start("join")
  /\ LET word(r) ==
           LET eq == JoinWord(r)
               l == IF used THEN AndWord(rows[LeftOf(r)].sel, eq) ELSE eq
           IN  IF in.rightSel THEN AndWord(in.right[RightOf(r)].sel, l) ELSE l
     IN  rows' = [r \in 0 .. N * NR - 1 |->
                    [rows[LeftOf(r)] EXCEPT !.rkey = in.right[RightOf(r)].key,
                                            !.sel = word(r)]]
  /\ used' = TRUE
  /\ Finish
  /\ UNCHANGED in

-----------------------------------------------------------------------------
(* SemiJoinOperator: NOT(AND(NOT(eq))) in a tree over the rows of the right *)
(* input, which in and in_sel_right work on in place.                       *)

LeftEnd == IF at + in.lefts <= N THEN at + in.lefts ELSE N
Rows(batch) == 0 .. batch * NR - 1

\* join_eq_b_batch, the selection of the right row and the negation.
Unequal(k) ==
  LET a == rows[at + k \div NR]
      b == in.right[k % NR]
  IN  Bit(~(a.key = b.key /\ (in.rightSel => Selected(b))))

SemiJoinEq ==
  /\ Start("semi_join")
  /\ at < N
  /\ work' = [k \in Rows(LeftEnd - at) |-> Unequal(k)]
  /\ column' = 0
  /\ pc' = "levels"
  /\ UNCHANGED <<in, ops, rows, used, phase, turn, at>>

\* The same with the bound of the level after this one.
InLevelShort(k) ==
  LET e == k % NR
      first == k - e
  IN  IF 2 * e < NR \div 2^(column + 1)
      THEN work[first + 2 * e] * work[first + 2 * e + 1]
      ELSE work[k]

\* in_level on NR / 2^column elements of each left row.
InLevel(k) ==
  LET e == k % NR
      first == k - e
  IN  IF 2 * e < NR \div 2^column
      THEN work[first + 2 * e] * work[first + 2 * e + 1]
      ELSE work[k]

SemiJoinLevel ==
  /\ pc = "levels" /\ 2^column < NR
  /\ work' = [k \in DOMAIN work |-> InLevel(k)]
  /\ column' = column + 1
  /\ UNCHANGED <<in, ops, rows, used, pc, phase, turn, at>>

\* The IN results of a batch of left rows; the operator conjoins them.
SemiJoinResult ==
  /\ pc = "levels" /\ 2^column = NR
  /\ LET word(i) == 1 - work[(i - at) * NR]
     IN  rows' = [i \in Index |-> IF i \in at .. LeftEnd - 1
                                  THEN [rows[i] EXCEPT !.sel = Conjoined(i, word)]
                                  ELSE rows[i]]
  /\ IF LeftEnd < N
     THEN /\ pc' = "start" /\ at' = LeftEnd
          /\ UNCHANGED <<ops, used, phase, column, turn, work>>
     ELSE used' = TRUE /\ Finish
  /\ UNCHANGED in

-----------------------------------------------------------------------------
(* bitonic_sort_batch. *)

Sorting == IF ops = <<>> THEN FALSE ELSE Op.kind \in {"order_by", "distinct"}

\* The same without the selection.
SortKeysGiven == Op.by

\* DistinctOperator sorts by [SEL] first if there is a selection.
SortKeys ==
  IF Op.kind # "order_by" /\ used
  THEN <<[col |-> "sel", asc |-> TRUE]>> \o Op.by ELSE Op.by

\* The operators that sort halve a batch of all rows.
BatchSize == IF Sorting /\ in.batch = N THEN N \div 2 ELSE in.batch

Greater(key, x, y) ==
  IF key.asc THEN x[key.col] > y[key.col] ELSE y[key.col] > x[key.col]
Equal(key, x, y) == x[key.col] = y[key.col]

\* The bit of bs1 after compute_composite_2 or compute_composite_3.
Composite(keys, x, y) ==
  LET g(i) == Greater(keys[i], x, y)
      e(i) == Equal(keys[i], x, y)
  IN  CASE Len(keys) = 2 -> g(1) \/ (e(1) /\ g(2))
        [] Len(keys) = 3 -> g(1) \/ (e(1) /\ g(2) /\ ~e(2))
                                \/ (e(1) /\ e(2) /\ g(3))
        [] OTHER -> g(1)

\* d, and the area of a box, of which the first half is compared with the rest.
Distance == 2^(phase - column)
NextIndexFar(pos) ==
  LET box == (pos \div (2 * Distance)) * 2 * Distance
  IN  IF pos + 1 >= box + Distance THEN pos + 2 * Distance ELSE pos + 1
NextIndex(pos) ==
  LET box == (pos \div (2 * Distance)) * 2 * Distance
  IN  IF pos + 1 >= box + Distance THEN box + 2 * Distance ELSE pos + 1

Partner(pos) == IF (pos \div Distance) % 2 = 0 THEN pos + Distance ELSE pos
UpOfHalf(pos) == (pos \div 2^phase) % 2 = 0
Up(pos) == (pos \div 2^(phase + 1)) % 2 = 0

\* The rows that replace row pos and its partner.
Swapped(pos) ==
  LET x == rows[pos]
      y == rows[Partner(pos)]
      b == Composite(SortKeys, x, y)
      least == IF b THEN y ELSE x
      greatest == IF b THEN x ELSE y
  IN  IF Up(pos) THEN <<least, greatest>> ELSE <<greatest, least>>

\* Position k of the loops over a batch that starts at row at.
Position[k \in Nat] == IF k = 0 THEN at ELSE NextIndex(Position[k - 1])

StartSort ==
  /\ pc = "start" /\ Sorting
  /\ pc' = "columns"
  /\ UNCHANGED <<in, ops, rows, used>> /\ UNCHANGED loop

\* cmp_swap_batch: the comparisons of a batch read the rows before it.
SortBatch ==
  /\ pc = "columns" /\ 2^phase < N
  /\ LET firsts == {Position[k] : k \in 0 .. BatchSize - 1} \cap Index
     IN  rows' = [i \in Index |->
                    IF \E f \in firsts : Partner(f) = i
                    THEN Swapped(CHOOSE f \in firsts : Partner(f) = i)[2]
                    ELSE IF i \in firsts THEN Swapped(i)[1] ELSE rows[i]]
  /\ IF turn + 1 < (N \div 2) \div BatchSize
     THEN /\ turn' = turn + 1
          /\ at' = Position[BatchSize]
          /\ UNCHANGED <<phase, column>>
     ELSE /\ turn' = 0
          /\ at' = 0
          /\ column' = IF column < phase THEN column + 1 ELSE 0
          /\ phase' = IF column < phase THEN phase ELSE phase + 1
  /\ UNCHANGED <<in, ops, used, pc, work>>

\* distinct[0] is 1.
FirstDistinct ==
  /\ pc' = "adjacent"
  /\ at' = 0
  /\ work' = [k \in Index |-> Bit(k = 0)]

EndSort ==
  /\ pc = "columns" /\ 2^phase = N
  /\ IF Op.kind = "distinct"
     THEN FirstDistinct /\ UNCHANGED <<ops, phase, column, turn>>
     ELSE Finish
  /\ UNCHANGED <<in, rows, used>>

-----------------------------------------------------------------------------
(* DistinctOperator: distinct_array compares adjacent rows. *)

\* An AdjacentEq of the plan: the input is sorted already.
StartAdjacent ==
  /\ Start("adjacent_eq")
  /\ FirstDistinct
  /\ UNCHANGED <<in, ops, rows, used, phase, column, turn>>

NewGroup(k) ==
  Bit(~\A i \in DOMAIN SortKeys : Equal(SortKeys[i], rows[k - 1], rows[k]))

DistinctBatch ==
  /\ pc = "adjacent"
  /\ LET next == at + BatchSize - 1
         end == IF next <= N - 1 THEN next ELSE N - 1
         bits == [k \in Index |-> IF k \in at + 1 .. end THEN NewGroup(k)
                                  ELSE work[k]]
         word(i) == bits[i]
     IN  IF next < N - 1
         THEN /\ at' = next
              /\ work' = bits
              /\ UNCHANGED <<ops, rows, used, pc, phase, column, turn>>
         ELSE SelectRows(word) /\ Finish
  /\ UNCHANGED in

-----------------------------------------------------------------------------
(* MaskOperator. *)

MaskBatch ==
  /\ Start("mask")
  /\ LET size == IF in.batch > N THEN N ELSE in.batch
         end == IF at + size <= N THEN at + size ELSE N
     IN  /\ rows' = [i \in Index |-> IF i \in at .. end - 1 /\ ~Selected(rows[i])
                                     THEN Masked ELSE rows[i]]
         /\ IF end < N
            THEN at' = end /\ UNCHANGED <<ops, pc, phase, column, turn, work>>
            ELSE Finish
  /\ UNCHANGED <<in, used>>

Done ==
  /\ pc = "start" /\ ops = <<>>
  /\ UNCHANGED vars

Next ==
  \/ FilterConst \/ Filter \/ Join
  \/ SemiJoinEq \/ SemiJoinLevel \/ SemiJoinResult
  \/ StartSort \/ SortBatch \/ EndSort
  \/ StartAdjacent \/ DistinctBatch
  \/ MaskBatch
  \/ Done

Spec == Init /\ [][Next]_vars

-----------------------------------------------------------------------------
(* What the operators must guarantee. *)

\* The type of the state; every index a loop uses is a row of the table.
TypeOK ==
  /\ \E k \in 0 .. Len(in.ops) : ops = SubSeq(in.ops, k + 1, Len(in.ops))
  /\ \A i \in Index : rows[i] \in Row
  /\ used \in BOOLEAN
  /\ pc \in {"start", "levels", "columns", "adjacent"}
  /\ pc = "columns" /\ 2^phase < N =>
       \A k \in 0 .. BatchSize - 1 : /\ Position[k] \in Index
                                     /\ Partner(Position[k]) \in Index
  /\ \A k \in DOMAIN work : work[k] \in {0, 1}

\* x comes before y in the order of the keys.
Before(keys, x, y) ==
  \E i \in DOMAIN keys : /\ \A j \in 1 .. i - 1 : Equal(keys[j], x, y)
                         /\ Greater(keys[i], y, x)
InOrder(keys, up, x, y) ==
  IF up THEN ~Before(keys, y, x) ELSE ~Before(keys, x, y)

\* At the start of a phase the blocks of 2^phase rows are sorted, in turn
\* ascending and descending; at the start of a column the boxes of a block have
\* been put in order, whatever the batches were.  After the last phase the one
\* block is the table.
SortKeeps ==
  pc = "columns" /\ turn = 0 =>
    LET box == 2^(phase + 1 - column)
        block == 2^(phase + 1)
        apart(i, j) == IF column = 0 THEN i \div 2^phase = j \div 2^phase
                       ELSE i \div box # j \div box /\ i \div block = j \div block
        up(i) == (IF column = 0 THEN i \div 2^phase ELSE i \div block) % 2 = 0
    IN  \A i, j \in Index :
          i < j /\ apart(i, j) => InOrder(SortKeys, up(i), rows[i], rows[j])

\* In a semi-join, the elements that are left for a left row still say whether
\* it has no partner, although the levels overwrite each other.
TreeKeeps ==
  pc = "levels" =>
    \A a \in 0 .. LeftEnd - at - 1 :
      (\A e \in 0 .. NR \div 2^column - 1 : work[a * NR + e] = 1)
        <=> \A e \in 0 .. NR - 1 : Unequal(a * NR + e) = 1

\* The query: the rows or pairs of rows of the input that qualify.
Tuples == IF Has(in, "join") THEN (DOMAIN in.left) \X (DOMAIN in.right)
          ELSE (DOMAIN in.left) \X {0}
TupleRow(t) ==
  IF Has(in, "join")
  THEN [in.left[t[1]] EXCEPT !.rkey = in.right[t[2]].key] ELSE in.left[t[1]]
Partners(a) ==
  {b \in DOMAIN in.right : /\ in.right[b].key = a.key
                           /\ in.rightSel => Selected(in.right[b])}
Qualifies(t) ==
  LET row == TupleRow(t)
  IN  \A i \in DOMAIN in.ops :
        CASE in.ops[i].kind = "filter_const" -> row.val = in.ops[i].const
          [] in.ops[i].kind = "filter" -> row.val = row.key
          [] in.ops[i].kind = "semi_join" -> Partners(row) # {}
          [] in.ops[i].kind = "join" -> t[2] \in Partners(row)
          [] OTHER -> TRUE

\* Data that a mask cannot be mistaken for and, under a filter of two columns,
\* whose words differ at most in the halves that eq_b_array compares: rows that
\* differ in the upper halves only would pass the filter.
Comparable(row) == row.val \div Half = row.key \div Half
DataFits(x) ==
  \A r \in DOMAIN x.left : /\ x.left[r].key # MaxWord
                           /\ Has(x, "filter") => Comparable(x.left[r])

\* The plans of which this is the query, on such data.  The planner applies DISTINCT when all filters and joins are done
\* (applyDistinct) and ORDER BY after everything else (applyOrderBy), and Rule1
\* and Rule3 put the sort of an AdjacentEq before it, by [SEL] and its columns.
Selections == {"filter_const", "filter", "join", "semi_join"}
Uniques == {"distinct", "adjacent_eq"}
SelKey == [col |-> "sel", asc |-> TRUE]
NoSel(by) == \A k \in DOMAIN by : by[k].col # "sel"
SortedFor(order, keys) ==
  Len(keys) <= Len(order) /\ \A k \in DOMAIN keys : order[k].col = keys[k].col
Follow(a, b) ==
  /\ b \in Selections => a \in Selections
  /\ a = "join" => b # "join"
  /\ a = "order_by" => b \notin {"order_by", "distinct"}
  /\ a \in Uniques => b \notin Uniques
Planned(x) ==
  LET kind(i) == x.ops[i].kind
      by(i) == x.ops[i].by
  IN  /\ DataFits(x)
      /\ x.ops # <<>>
      /\ \A i \in DOMAIN x.ops : kind(i) = "mask" <=> i = Len(x.ops)
      /\ \A i, j \in DOMAIN x.ops : i < j => Follow(kind(i), kind(j))
      /\ \E i \in DOMAIN x.ops : kind(i) \in Selections \cup Uniques
      /\ kind(1) = "order_by" => NoSel(by(1))
      /\ \A i \in DOMAIN x.ops : kind(i) \in Uniques => NoSel(by(i))
      /\ \A i \in DOMAIN x.ops : kind(i) = "adjacent_eq" =>
           /\ i > 1 /\ kind(i - 1) = "order_by"
           /\ SortedFor(by(i - 1), IF i > 2 THEN <<SelKey>> \o by(i) ELSE by(i))

Data(row) == [row EXCEPT !.sel = 0]
Answer == {t \in Tuples : Qualifies(t)}

\* When the plan is done, the rows that are not masked are the answer: the
\* tuples that qualify, each as often as it occurs or, with DISTINCT, one row
\* for each of their keys; and with ORDER BY in that order.
AnswerExact ==
  pc = "start" /\ ops = <<>> =>
    LET shown == {r \in Index : rows[r] # Masked}
        same(row) == {r \in shown : Data(rows[r]) = row}
        tuples(row) == {t \in Answer : Data(TupleRow(t)) = row}
        unique == {i \in DOMAIN in.ops :
                     in.ops[i].kind \in {"distinct", "adjacent_eq"}}
        by == in.ops[CHOOSE i \in unique : TRUE].by
        key(row) == [i \in DOMAIN by |-> row[by[i].col]]
    IN  /\ \A r \in shown : tuples(Data(rows[r])) # {}
        /\ IF unique = {}
           THEN \A t \in Answer :
                  LET row == Data(TupleRow(t))
                  IN  Cardinality(same(row)) = Cardinality(tuples(row))
           ELSE \A t \in Answer :
                  Cardinality({r \in shown : key(rows[r]) = key(TupleRow(t))}) = 1
        /\ \A i \in DOMAIN in.ops : in.ops[i].kind = "order_by" =>
             \A r, s \in shown : r < s => ~Before(in.ops[i].by, rows[s], rows[r])

=============================================================================
