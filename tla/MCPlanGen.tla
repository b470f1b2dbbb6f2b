------------------------------ MODULE MCPlanGen ------------------------------
(* Instances of PlanGen: queries over one, two and three relations with    *)
(* the clauses the planner plans, and a chain of joins.                    *)
EXTENDS PlanGen

QueryOf(lg, filters, joins, group, distinct, order, fns, keys) ==
    [lg |-> lg, filters |-> filters, joins |-> joins, group |-> group,
     distinct |-> distinct, order |-> order, fns |-> fns, keys |-> keys]

Fil(r, ineq) == [rel |-> r, ineq |-> ineq]
Join(l, r) == [l |-> l, r |-> r, semi |-> FALSE]

\* The clauses after WHERE, but for functions with an ORDER BY: no plan of such a
\* query reaches the last stage.
Clauses ==
    {c \in [group : BOOLEAN, distinct : BOOLEAN, order : BOOLEAN, fns : 0..2] :
        c.fns > 0 => ~c.group /\ ~c.order}

Single ==
    {QueryOf(<<3>>, fs, << >>, c.group, c.distinct, c.order, c.fns, {1}) :
        fs \in {<< >>, <<Fil(1, FALSE)>>, <<Fil(1, FALSE), Fil(1, TRUE)>>}, c \in Clauses}

Double ==
    {QueryOf(lg, fs, js, c.group, c.distinct, c.order, c.fns, keys) :
        lg \in {<<2, 2>>, <<1, 5>>, <<5, 1>>},
        fs \in {<< >>, <<Fil(1, TRUE)>>, <<Fil(2, FALSE), Fil(1, TRUE)>>},
        js \in {<<Join(1, 2)>>, <<Join(1, 2), Join(2, 1)>>},
        c \in Clauses, keys \in {{1}, {1, 2}}}

(* Two joins of R, S and T in a chain or a star, and three joins.  The     *)
(* problem of the pair that is found last drops those of the other pairs   *)
(* from the table; it is the one of the cheapest first join.               *)
Chain == <<Join(1, 2), Join(2, 3)>>
Star  == <<Join(1, 2), Join(1, 3)>>
Ring  == <<Join(1, 2), Join(2, 3), Join(1, 3)>>
FoundLast(js) == IF js = Star THEN Join(1, 3) ELSE Join(2, 3)
Triple ==
    {q \in {QueryOf(lg, fs, js, c.group, c.distinct, c.order, 0, keys) :
                lg \in [1..3 -> {1, 3}],
                fs \in {<< >>, <<Fil(1, TRUE)>>, <<Fil(2, FALSE)>>, <<Fil(3, FALSE)>>},
                js \in {Chain, Star, Ring},
                c \in {d \in Clauses : d.fns = 0 /\ (d.group => ~d.distinct)},
                keys \in {{1}, {1, 2, 3}}} :
        LET last == FoundLast(q.joins)
        IN  \A j \in Range(q.joins) :
                q.lg[last.l] + q.lg[last.r] <= q.lg[j.l] + q.lg[j.r]}

MCQueries == Single \cup Double \cup Triple

\* R joins S and S joins T
MCChain ==
    {QueryOf(lg, << >>, Chain, FALSE, FALSE, FALSE, 0, {1}) : lg \in [1..3 -> {1, 3}]}
=============================================================================
