-------------------------- MODULE MCTableOperators --------------------------
(***************************************************************************)
(* Plans for TLC, named after the queries of examples/queries and the      *)
(* tests that execute them.                                                *)
(***************************************************************************)
EXTENDS TableOperators

Asc(col) == [col |-> col, asc |-> TRUE]
Desc(col) == [col |-> col, asc |-> FALSE]
Operator(kind, by) == [kind |-> kind, by |-> by]
Equals(c) == [kind |-> "filter_const", by |-> <<>>, const |-> c]
FilterOp == Operator("filter", <<>>)
JoinOp == Operator("join", <<>>)
SemiJoinOp == Operator("semi_join", <<>>)
MaskOp == Operator("mask", <<>>)

\* Keys of which two or all have one and the same lower half.
Keys == {1, 2, 5}
Alike == {1, 5}

\* Tables of n rows, with [SEL] not yet written or, on the right, a selection.
Left(n, keys, vals, rkey(_)) ==
  {[i \in 0 .. n - 1 |->
      [key |-> k[i], val |-> v[i], rkey |-> rkey(i), sel |-> 0]] :
     k \in [0 .. n - 1 -> keys], v \in vals}
Right(n, keys, sels) ==
  {[i \in 0 .. n - 1 |-> [key |-> k[i], val |-> 0, rkey |-> 0, sel |-> s[i]]] :
     k \in [0 .. n - 1 -> keys], s \in [0 .. n - 1 -> sels]}
NoRight == [i \in {0} |-> [key |-> 0, val |-> 0, rkey |-> 0, sel |-> 0]]
None(i) == 0
Id(i) == (3 * i) % 4

Call(plan, lefts, rights, sel, batches, steps) ==
  {[ops |-> plan, left |-> l, right |-> r, rightSel |-> sel,
    batch |-> b, lefts |-> s[1], rights |-> s[2]] :
     l \in lefts, r \in rights, b \in batches, s \in steps}

\* What Rule1 and Rule3 put in the place of a DISTINCT.
Rewritten == <<Operator("order_by", <<Asc("sel"), Asc("key")>>),
               Operator("adjacent_eq", <<Asc("key")>>), MaskOp>>

\* SELECT DISTINCT key FROM R WHERE val = 1, as planned and rewritten
Q3 ==
  LET plan == <<Equals(1), Operator("distinct", <<Asc("key")>>), MaskOp>>
      vals == {[i \in 0 .. 7 |-> i % 2], [i \in 0 .. 7 |-> Bit(i < 5)]}
  IN  Call(plan, Left(4, Keys, [0 .. 3 -> {0, 1}], None), {NoRight}, FALSE,
           {2, 4}, {<<1, 1>>})
      \cup Call(<<Equals(1)>> \o Rewritten, Left(4, Alike, [0 .. 3 -> {0, 1}], None),
                {NoRight}, FALSE, {2, 4}, {<<1, 1>>})
      \cup Call(plan, Left(8, {1, 2}, vals, None), {NoRight}, FALSE, {2, 4, 8},
                {<<1, 1>>})

\* SELECT DISTINCT R.key FROM R, S WHERE R.key = S.key, S being filtered or not;
\* and with the semi-join that replaces the join and a filter val = key.
Q1 ==
  LET by == Operator("distinct", <<Asc("key"), Asc("rkey")>>)
      semi == <<FilterOp, SemiJoinOp, Operator("distinct", <<Asc("key")>>), MaskOp>>
      rewritten == <<FilterOp, SemiJoinOp>> \o Rewritten
      vals(n) == {[i \in 0 .. n - 1 |-> 0]}
  IN  Call(<<JoinOp, by, MaskOp>>, Left(2, Alike, vals(2), None),
           Right(4, Alike, {0, 1}), TRUE, {2}, {<<2, 2>>, <<1, 4>>})
      \cup Call(<<JoinOp, by, MaskOp>>, Left(4, Alike, vals(4), None),
                Right(2, Alike, {0}), FALSE, {2, 4}, {<<2, 2>>, <<2, 1>>})
      \cup Call(semi, Left(4, {5, 6}, [0 .. 3 -> {5, 6}], None),
                Right(2, Alike, {0, 1}), TRUE, {2}, {<<3, 1>>})
      \cup Call(semi, Left(4, {1, 2}, {[i \in 0 .. 3 |-> 2]}, None), Right(4, {1, 2}, {0}),
                FALSE, {4}, {<<1, 1>>, <<4, 1>>})
      \cup Call(rewritten, Left(4, {1, 2}, [0 .. 3 -> {1, 2}], None),
                Right(2, Alike, {0, 1}), TRUE, {4}, {<<2, 1>>})

\* A join after a filter, and the second predicate of the join as a filter.
JoinFilter ==
  Call(<<Equals(1), JoinOp, FilterOp, MaskOp>>,
       Left(2, {1, 2}, [0 .. 1 -> {0, 1}], None), Right(4, Alike, {0, 1}),
       TRUE, {2}, {<<1, 2>>, <<2, 4>>})

\* The sorted inputs of the aspirin query, whose first row per key is kept, and a
\* table in descending order of an attribute.
Aspirin ==
  Call(<<Equals(1), Operator("order_by", <<Asc("sel"), Asc("key"), Desc("rkey")>>),
         Operator("adjacent_eq", <<Asc("key")>>), MaskOp>>,
       Left(4, {1, 2}, [0 .. 3 -> {0, 1}], Id), {NoRight}, FALSE, {2, 4}, {<<1, 1>>})
  \cup Call(<<FilterOp, Operator("order_by", <<Desc("val"), Asc("rkey")>>), MaskOp>>,
            Left(4, {1, 2}, [0 .. 3 -> {1, 2, 3}], Id), {NoRight}, FALSE, {2, 4},
            {<<1, 1>>})

\* A DISTINCT in the order of an attribute.
Ordered ==
  Call(<<Equals(1), Operator("distinct", <<Asc("key")>>),
         Operator("order_by", <<Desc("key"), Asc("sel")>>), MaskOp>>,
       Left(4, {1, 2}, [0 .. 3 -> {0, 1}], None), {NoRight}, FALSE, {2}, {<<1, 1>>})

MCCalls == Q3 \cup Q1 \cup JoinFilter \cup Aspirin \cup Ordered

ASSUME PlansAssumption == \A x \in MCCalls : Planned(x)

=============================================================================
