------------------------------- MODULE PlanGen -------------------------------
(***************************************************************************)
(* The planner's search for the cheapest plan of a query: generatePlan of  *)
(* planGen.cpp with its table of problems (dpTable.cpp), the cost model    *)
(* (costs.h) and two of the rewriting rules (rule.cpp).                    *)
(*                                                                         *)
(* A problem is a set of relations with the plans known for it.  The table *)
(* has a slot for every number of operators (the stage) and of relations   *)
(* (the entry); a slot holds a chain of problems.  The search visits the   *)
(* chains stage by stage, applies every operator it may to every plan of   *)
(* the visited problem and joins the problem with every other one found so *)
(* far.  A step below visits one problem, or one pair of problems.         *)
(*                                                                         *)
(* Relations, filters and joins are numbered from 1; cardinalities are     *)
(* powers of two, given by their logarithm; expressions are reduced to the *)
(* relations they mention.                                                 *)
(***************************************************************************)
EXTENDS Integers, Sequences, SequencesExt, FiniteSets, FiniteSetsExt

CONSTANT Queries     \* the query graphs the planner may be given

(* A query has two filters and three joins at the most, and no relation of *)
(* more than 2^6 rows, which keeps the costs within TLC's integers.        *)
MaxLog == 6

ASSUME QueriesAssumption ==
    \A q \in Queries :
        LET rels == DOMAIN q.lg
        IN  /\ \A r \in rels : q.lg[r] \in 0..MaxLog
            /\ \A f \in Range(q.filters) : f.rel \in rels
            /\ \A j \in Range(q.joins) : {j.l, j.r} \subseteq rels /\ j.l # j.r
            /\ q.keys \subseteq rels
            \* with GROUP BY, functions are its aggregates
            /\ q.fns > 0 => ~q.group

VARIABLES
    query,    \* the query graph
    dp,       \* the problems found, and the chains of their numbers per slot
    stage,    \* the stage visited
    nth,      \* the problem visited, counting along the stage's chains
    mth,      \* the problem it is joined with next, along all chains so far
    pc,       \* "unary", "binary", "rules", "pick", "done" or "aborted"
    opt       \* the plan picked, in a sequence of one

vars == <<query, dp, stage, nth, mth, pc, opt>>

----------------------------------------------------------------------------
(* The cost model.  A cost is the operations, the rounds, and the part of  *)
(* each that composes selections.                                          *)

BatchSize == 4096
CeilDiv(n, d) == (n + d - 1) \div d
Batches(n) == CeilDiv(n, BatchSize)

NoCost == <<0, 0, 0, 0>>
Plus(c, d) == [i \in 1..4 |-> c[i] + d[i]]
AllLess(c, d) == \A i \in 1..4 : c[i] < d[i]

EqCost(n)   == <<127 * n, 6 * Batches(n), 0, 0>>
IneqCost(n) == <<253 * n, 7 * Batches(n), 0, 0>>

JoinCost(lgL, lgR) ==
    LET n == 2^(lgL + lgR) IN <<n * EqCost(1)[1], Batches(n) * EqCost(1)[2], 0, 0>>

SemiJoinCost(lgL, lgR) ==
    LET n == 2^(lgL + lgR)
    IN  <<n * EqCost(1)[1] + 2^lgL * (2^lgR - 1),
          Batches(n) * (EqCost(1)[2] + lgR), 0, 0>>

SortCost(lg) ==
    <<(2^lg * lg * (lg + 1) * (IneqCost(1)[1] + 6)) \div 4,
      2 * lg * (lg + 1) * IneqCost(1)[2] * CeilDiv(2^lg, 2 * BatchSize), 0, 0>>

\* the division of two unsigned numbers rounds down before it is rounded up
AdjacentEqCost(n) ==
    <<(n - 1) * EqCost(1)[1], EqCost(1)[2] * (n \div BatchSize), 0, 0>>

DistinctCost(lg, comp) ==
    LET n == 2^lg
    IN  Plus(Plus(Plus(SortCost(lg), AdjacentEqCost(n)), EqCost(n)),
             <<0, 0, n * comp, (n \div BatchSize) * comp>>)

SelectCost(n) == <<n * EqCost(1)[1], Batches(n) * EqCost(1)[2], 0, 0>>

AbsoluteCost(p) == p.cost[1] + p.cost[3] + 8 * (p.cost[2] + p.cost[4])

\* Mutant of Cheaper: the dearest plan is picked.
CheaperSwapped(p, o) == AbsoluteCost(o) < AbsoluteCost(p)
Cheaper(p, o) == AbsoluteCost(p) < AbsoluteCost(o)

----------------------------------------------------------------------------
(* Operator numbers of a query.                                            *)

One(b) == IF b THEN 1 ELSE 0
WhereOps(q) == Len(q.filters) + Len(q.joins)
NumOp(q) == WhereOps(q) + One(q.distinct) + One(q.group) + One(q.order) + q.fns

JoinId(q, j)     == Len(q.filters) + j
GroupId(q)       == WhereOps(q) + 1
OrderId(q)       == WhereOps(q) + One(q.group) + 1
FunctionId(q, f) == WhereOps(q) + One(q.group) + One(q.order) + f
DistinctId(q)    == WhereOps(q) + One(q.group) + q.fns + 1

----------------------------------------------------------------------------
(* Plans.  The tree keeps the operators; the rest is what the planner      *)
(* stores at the root.                                                     *)

Scan(q, r) ==
    [tree |-> [op |-> "Scan", id |-> r, in |-> << >>], lg |-> q.lg[r],
     cost |-> NoCost, nodes |-> 1, ops |-> 0, operators |-> {}]

Unary(op, id, p, c) ==
    [p EXCEPT !.tree = [op |-> op, id |-> id, in |-> <<p.tree>>],
              !.cost = Plus(p.cost, c), !.ops = p.ops + 1,
              !.operators = @ \cup {id}]

Binary(op, id, p, o, lg, c) ==
    [tree |-> [op |-> op, id |-> id, in |-> <<p.tree, o.tree>>], lg |-> lg,
     cost |-> Plus(Plus(p.cost, o.cost), c), nodes |-> p.nodes + o.nodes,
     ops |-> p.ops + o.ops + 1, operators |-> p.operators \cup o.operators \cup {id}]

ApplyFilter(q, f, p) ==
    Unary("Filter", f, p, IF q.filters[f].ineq THEN IneqCost(2^p.lg) ELSE EqCost(2^p.lg))

ApplyJoinFilter(q, j, p) == Unary("JoinFilter", JoinId(q, j), p, EqCost(2^p.lg))

ApplyJoin(q, j, p, o) ==
    IF q.joins[j].semi
    THEN Binary("SemiJoin", JoinId(q, j), p, o, p.lg, SemiJoinCost(p.lg, o.lg))
    ELSE Binary("Join", JoinId(q, j), p, o, p.lg + o.lg, JoinCost(p.lg, o.lg))

\* the cost of an empty aggregate leaves the cost of the sort
ApplyGroupBy(q, p) == Unary("GroupBy", GroupId(q), p, SortCost(p.lg))
ApplyOrderBy(q, p) == Unary("OrderBy", OrderId(q), p, SortCost(p.lg))
ApplyDistinct(q, p) ==
    Unary("Distinct", DistinctId(q), p,
          DistinctCost(p.lg, One(p.tree.op \notin {"Scan", "OrderBy"})))
ApplyFunction(q, f, p) == Unary("Function", FunctionId(q, f), p, NoCost)

Dominates(p, o) == p.operators = o.operators /\ AllLess(p.cost, o.cost)

(* A plan joins the plans known for a problem unless one of them dominates *)
(* it; the ones it dominates are dropped.                                  *)
AddPlan(plans, p) ==
    LET better == {i \in DOMAIN plans : Dominates(plans[i], p)}
        kept(s) == SelectSeq(s, LAMBDA o : ~Dominates(p, o))
    IN  IF better = {} THEN Append(kept(plans), p)
        ELSE LET i == Min(better)
             IN  kept(SubSeq(plans, 1, i - 1)) \o SubSeq(plans, i, Len(plans))

(* Mutant of Add: the problem in the slot is taken for that of the plan.    *)
AddToHead(d, p, rels) ==
    LET chain == d.slot[p.ops][p.nodes]
    IN  IF chain # << >>
        THEN [d EXCEPT !.probs[Head(chain)].plans = AddPlan(@, p)]
        ELSE [probs |-> Append(d.probs, [relations |-> rels, plans |-> <<p>>]),
              slot  |-> [d.slot EXCEPT ![p.ops][p.nodes] = <<Len(d.probs) + 1>>]]

(* The plan goes to the problem with its relations in the chain of its     *)
(* slot.  When there is none, a new problem becomes the head of the chain; *)
(* what follows it is the chain of the stage's first slot.                 *)
Add(d, p, rels) ==
    LET chain == d.slot[p.ops][p.nodes]
        same  == {i \in DOMAIN chain : d.probs[chain[i]].relations = rels}
    IN  IF same # {}
        THEN [d EXCEPT !.probs[chain[Min(same)]].plans = AddPlan(@, p)]
        ELSE [probs |-> Append(d.probs, [relations |-> rels, plans |-> <<p>>]),
              slot  |-> [d.slot EXCEPT ![p.ops][p.nodes] =
                            <<Len(d.probs) + 1>>
                              \o IF chain = << >> THEN << >> ELSE d.slot[p.ops][1]]]

AddAll(d, plans, rels) == FoldLeft(LAMBDA e, p : Add(e, p, rels), d, plans)

----------------------------------------------------------------------------
(* What the search adds when it visits a problem, and a pair of problems.  *)

Map(s, F(_)) == [i \in DOMAIN s |-> F(s[i])]
Without(plans, id) == SelectSeq(plans, LAMBDA p : id \notin p.operators)
WithOps(plans, S) == SelectSeq(plans, LAMBDA p : p.ops \in S)

FilterApplies(q, f, rels) == q.filters[f].rel \in rels

JoinApplies(q, j, rels1, rels2) ==
    \/ q.joins[j].l \in rels1 /\ q.joins[j].r \in rels2
    \/ q.joins[j].l \in rels2 /\ q.joins[j].r \in rels1

FilterPlans(q, pr) ==
    FlattenSeq([f \in DOMAIN q.filters |->
        IF FilterApplies(q, f, pr.relations)
        THEN Map(Without(pr.plans, f), LAMBDA p : ApplyFilter(q, f, p))
        ELSE << >>])

\* a join within the problem's relations is reduced to a filter
JoinFilterPlans(q, pr) ==
    FlattenSeq([j \in DOMAIN q.joins |->
        IF {q.joins[j].l, q.joins[j].r} \subseteq pr.relations
        THEN Map(Without(pr.plans, JoinId(q, j)), LAMBDA p : ApplyJoinFilter(q, j, p))
        ELSE << >>])

GroupByPlans(q, pr) ==
    IF q.group
    THEN Map(WithOps(pr.plans, {WhereOps(q)}), LAMBDA p : ApplyGroupBy(q, p))
    ELSE << >>

OrderByPlans(q, pr) ==
    IF q.order
    THEN Map(WithOps(pr.plans, {NumOp(q) - 1}), LAMBDA p : ApplyOrderBy(q, p))
    ELSE << >>

DistinctPlans(q, pr) ==
    IF q.distinct
    THEN Map(WithOps(pr.plans, {WhereOps(q) + One(q.group)}), LAMBDA p : ApplyDistinct(q, p))
    ELSE << >>

FunctionPlans(q, pr) ==
    LET ready == WithOps(pr.plans, (NumOp(q) - q.fns)..(NumOp(q) - 1))
    IN  FlattenSeq(Map(ready, LAMBDA p :
            Map(SelectSeq([f \in 1..q.fns |-> f],
                          LAMBDA f : FunctionId(q, f) \notin p.operators),
                LAMBDA f : ApplyFunction(q, f, p))))

UnaryPlans(q, pr) ==
    FilterPlans(q, pr) \o JoinFilterPlans(q, pr) \o GroupByPlans(q, pr)
        \o OrderByPlans(q, pr) \o DistinctPlans(q, pr) \o FunctionPlans(q, pr)

JoinPlans(q, pr1, pr2) ==
    FlattenSeq([j \in DOMAIN q.joins |->
        IF JoinApplies(q, j, pr1.relations, pr2.relations)
        THEN FlattenSeq(Map(pr1.plans, LAMBDA p :
                 Map(pr2.plans, LAMBDA o : ApplyJoin(q, j, p, o))))
        ELSE << >>])

----------------------------------------------------------------------------
(* The rules that rewrite a DISTINCT over a join whose keys come from one  *)
(* side, and over a filter.  The others match counts and self-joins.       *)

RECURSIVE ScansOf(_)
ScansOf(t) == IF t.op = "Scan" THEN <<t.id>> ELSE FlattenSeq(Map(t.in, ScansOf))

RECURSIVE LgOf(_, _)
LgOf(q, t) ==
    CASE t.op = "Scan" -> q.lg[t.id]
      [] t.op = "Join" -> LgOf(q, t.in[1]) + LgOf(q, t.in[2])
      [] OTHER         -> LgOf(q, t.in[1])

HasKeys(q, t) == q.keys \cap Range(ScansOf(t)) # {}

\* sort on the selection and the keys, compare adjacent rows, mask
SortedDistinct(q, p, t, lg, c) ==
    LET id     == DistinctId(q)
        sorted == [op |-> "OrderBy", id |-> id, in |-> <<t>>]
        eq     == [op |-> "AdjacentEq", id |-> id, in |-> <<sorted>>]
    IN  [p EXCEPT !.tree = [op |-> "Mask", id |-> id, in |-> <<eq>>], !.lg = lg,
                  !.operators = @ \ {id},
                  !.cost = Plus(Plus(Plus(c, SortCost(lg)), AdjacentEqCost(2^lg)),
                                SelectCost(2^lg))]

\* the semi-join's cost is counted without the costs of its inputs
Rule1(q, p) ==
    IF p.tree.op = "Distinct" /\ p.tree.in[1].op \in {"Join", "SemiJoin"}
    THEN LET join == p.tree.in[1]
             l    == IF HasKeys(q, join.in[1]) THEN join.in[1] ELSE join.in[2]
             r    == IF HasKeys(q, join.in[1]) THEN join.in[2] ELSE join.in[1]
         IN  IF HasKeys(q, join.in[1]) # HasKeys(q, join.in[2])
             THEN <<SortedDistinct(q, p,
                        [op |-> "SemiJoin", id |-> join.id, in |-> <<l, r>>], LgOf(q, l),
                        SemiJoinCost(LgOf(q, l), LgOf(q, r)))>>
             ELSE << >>
    ELSE << >>

Rule3(q, p) ==
    IF p.tree.op = "Distinct" /\ p.tree.in[1].op = "Filter"
    THEN LET own   == DistinctCost(p.lg, 1)
             below == [i \in 1..4 |-> p.cost[i] - own[i]]
         IN  <<SortedDistinct(q, p, p.tree.in[1], p.lg, below)>>
    ELSE << >>

RewrittenPlans(q, pr) ==
    FlattenSeq(Map(pr.plans, LAMBDA p : Rule1(q, p) \o Rule3(q, p)))

----------------------------------------------------------------------------
(* The search.                                                             *)

LastEntry(q, s) == Min({s + 1, Len(q.lg)})

EmptyTable(q) == [s \in 0..NumOp(q) |-> [e \in 1..LastEntry(q, s) |-> << >>]]

Init ==
    /\ query \in Queries
    /\ dp = [probs |-> [r \in DOMAIN query.lg |->
                           [relations |-> {r}, plans |-> <<Scan(query, r)>>]],
             slot  |-> [EmptyTable(query) EXCEPT ![0][1] = [r \in DOMAIN query.lg |-> r]]]
    /\ stage = 0 /\ nth = 1 /\ mth = 1
    /\ pc = "unary"
    /\ opt = << >>

\* the numbers of the problems met along the chains of a stage, in order
Met(s) == FlattenSeq(dp.slot[s])
MetSoFar == FlattenSeq([k \in 1..(stage + 1) |-> Met(k - 1)])
Visited == dp.probs[Met(stage)[nth]]
Other   == dp.probs[MetSoFar[mth]]

VisitProblem ==
    /\ pc = "unary" /\ nth <= Len(Met(stage))
    /\ dp' = AddAll(dp, UnaryPlans(query, Visited), Visited.relations)
    /\ pc' = "binary" /\ mth' = 1
    /\ UNCHANGED <<query, stage, nth, opt>>

VisitPair ==
    /\ pc = "binary" /\ mth <= Len(MetSoFar)
    /\ dp' = IF Visited.relations \cap Other.relations # {} THEN dp
             ELSE AddAll(dp, JoinPlans(query, Visited, Other),
                         Visited.relations \cup Other.relations)
    /\ mth' = mth + 1
    /\ UNCHANGED <<query, stage, nth, pc, opt>>

NextProblem ==
    /\ pc = "binary" /\ mth > Len(MetSoFar)
    /\ nth' = nth + 1 /\ pc' = "unary"
    /\ UNCHANGED <<query, dp, stage, mth, opt>>

NextStage ==
    /\ pc = "unary" /\ nth > Len(Met(stage))
    /\ IF stage < NumOp(query) THEN stage' = stage + 1 /\ nth' = 1 /\ pc' = "unary"
                               ELSE pc' = "rules" /\ UNCHANGED <<stage, nth>>
    /\ UNCHANGED <<query, dp, mth, opt>>

FinalChain == dp.slot[NumOp(query)][LastEntry(query, NumOp(query))]

\* the final problem is asserted to exist
ApplyRules ==
    /\ pc = "rules"
    /\ IF FinalChain = << >> THEN pc' = "aborted" /\ UNCHANGED dp
       ELSE LET id == Head(FinalChain)
            IN  /\ dp' = [dp EXCEPT !.probs[id].plans =
                              FoldLeft(AddPlan, @, RewrittenPlans(query, dp.probs[id]))]
                /\ pc' = "pick"
    /\ UNCHANGED <<query, stage, nth, mth, opt>>

\* the first of the cheapest plans of the problems that head the chains of the
\* last stage, the final problem's first
PickOptimalPlan ==
    LET chains == SelectSeq(dp.slot[NumOp(query)], LAMBDA chain : chain # << >>)
        candidates ==
            <<Head(dp.probs[Head(FinalChain)].plans)>>
              \o FlattenSeq(Map(chains, LAMBDA chain : dp.probs[Head(chain)].plans))
    IN  FoldLeft(LAMBDA o, p : IF Cheaper(p, o) THEN p ELSE o, Head(candidates), candidates)

Pick ==
    /\ pc = "pick"
    /\ opt' = <<PickOptimalPlan>> /\ pc' = "done"
    /\ UNCHANGED <<query, dp, stage, nth, mth>>

Done == pc \in {"done", "aborted"} /\ UNCHANGED vars

Next == VisitProblem \/ VisitPair \/ NextProblem \/ NextStage \/ ApplyRules \/ Pick \/ Done

Spec == Init /\ [][Next]_vars

----------------------------------------------------------------------------
(* Properties.                                                             *)

RECURSIVE NodesOf(_)
NodesOf(t) ==
    IF t.op = "Scan" THEN << >>
    ELSE <<[op |-> t.op, id |-> t.id]>> \o FlattenSeq(Map(t.in, NodesOf))

\* the filters and joins of a query, as sets of operator numbers
FilterIds(q) == DOMAIN q.filters
JoinIds(q)   == {JoinId(q, j) : j \in DOMAIN q.joins}

\* the numbers of the nodes of a tree that come from the WHERE clause
WhereNodes(t) ==
    {n.id : n \in {m \in Range(NodesOf(t)) :
                      m.op \in {"Filter", "Join", "SemiJoin", "JoinFilter"}}}

(* An operator finds below it what it needs: the relations its predicate   *)
(* mentions, one on each side of a join, and the operators that must come  *)
(* before it.  A semi-join keeps the rows of its left side: the outer      *)
(* relation of an IN, or in the place of a join the one with the keys of   *)
(* the DISTINCT.                                                           *)
RECURSIVE Sound(_, _)
Sound(q, t) ==
    LET below == IF t.op = "Scan" THEN {} ELSE UNION {Range(ScansOf(u)) : u \in Range(t.in)}
        join  == q.joins[t.id - Len(q.filters)]
        all   == FilterIds(q) \cup JoinIds(q)
    IN  /\ \A u \in Range(t.in) : Sound(q, u)
        /\ CASE t.op = "Filter"     -> q.filters[t.id].rel \in below
             [] t.op = "JoinFilter" -> {join.l, join.r} \subseteq below
             [] t.op \in {"Join", "SemiJoin"} ->
                    LET left  == Range(ScansOf(t.in[1]))
                        right == Range(ScansOf(t.in[2]))
                    IN  /\ left \cap right = {}
                        /\ \/ join.l \in left /\ join.r \in right
                           \/ join.l \in right /\ join.r \in left /\ ~join.semi
                        /\ t.op = "SemiJoin" /\ ~join.semi => q.keys \subseteq left
             [] t.op = "GroupBy"  -> WhereNodes(t) = all
             [] t.op = "Distinct" ->
                    /\ WhereNodes(t) = all
                    /\ q.group => \E n \in Range(NodesOf(t.in[1])) : n.op = "GroupBy"
             [] t.op = "Function" -> WhereNodes(t) = all
             [] OTHER -> TRUE

(* Every plan of the table computes a part of the query: it scans exactly  *)
(* the relations of its problem, applies as many operators as its stage    *)
(* says and none of them twice, and each where its inputs are there and    *)
(* what it depends on has been done.  Of three relations some problems are *)
(* dropped from their slots, and others are met again and again because    *)
(* the chain of a slot runs into that of another.                          *)
TableSound ==
    \A s \in DOMAIN dp.slot : \A e \in DOMAIN dp.slot[s] :
        \A id \in Range(dp.slot[s][e]) :
            LET pr == dp.probs[id]
            IN  \A p \in Range(pr.plans) :
                    LET scans == ScansOf(p.tree)
                        nodes == NodesOf(p.tree)
                    IN  /\ Range(scans) = pr.relations
                        /\ Len(scans) = Cardinality(pr.relations)
                        /\ p.tree.op # "Mask" => Len(nodes) = s
                        /\ IsInjective(nodes)
                        /\ Sound(query, p.tree)

(* The cardinality and cost of every way to compute the joins and filters  *)
(* os of the relations rs; a semi-join keeps the rows of its left side.    *)
RECURSIVE WaysTo(_, _, _)
WaysTo(q, rs, os) ==
    LET scan == IF os = {} /\ Cardinality(rs) = 1
                THEN {<<q.lg[r], NoCost>> : r \in rs} ELSE {}
        filtered ==
            UNION {{<<w[1], Plus(w[2], IF q.filters[f].ineq THEN IneqCost(2^w[1])
                                                            ELSE EqCost(2^w[1]))>> :
                       w \in WaysTo(q, rs, os \ {f})} :
                   f \in {g \in os \cap FilterIds(q) : q.filters[g].rel \in rs}}
        joinOf(o) == q.joins[o - Len(q.filters)]
        within == {o \in os \cap JoinIds(q) : {joinOf(o).l, joinOf(o).r} \subseteq rs}
        reduced ==
            UNION {{<<w[1], Plus(w[2], EqCost(2^w[1]))>> : w \in WaysTo(q, rs, os \ {o})} :
                   o \in within}
        joined ==
            UNION {UNION {UNION {
                IF joinOf(o).semi
                THEN {<<v[1], Plus(Plus(v[2], w[2]), SemiJoinCost(v[1], w[1]))>> :
                         v \in WaysTo(q, a, oa), w \in WaysTo(q, rs \ a, (os \ {o}) \ oa)}
                ELSE {<<v[1] + w[1], Plus(Plus(v[2], w[2]), JoinCost(v[1], w[1]))>> :
                         v \in WaysTo(q, a, oa), w \in WaysTo(q, rs \ a, (os \ {o}) \ oa)} :
                oa \in SUBSET (os \ {o})} :
                a \in {b \in SUBSET rs : joinOf(o).l \in b /\ joinOf(o).r \notin b}} :
                o \in within}
    IN  scan \cup filtered \cup reduced \cup joined

\* what a complete plan costs on top of its joins and filters
CompleteCost(q, w) ==
    LET bare == WhereOps(q) = 0 /\ ~q.group
        group    == IF q.group THEN SortCost(w[1]) ELSE NoCost
        distinct == IF q.distinct THEN DistinctCost(w[1], One(~bare)) ELSE NoCost
        order    == IF q.order THEN SortCost(w[1]) ELSE NoCost
    IN  Plus(Plus(Plus(w[2], group), distinct), order)

(* What a tree costs by the cost model, every operator of it counted.       *)
RECURSIVE CostOf(_, _)
CostOf(q, t) ==
    LET below == FoldLeft(LAMBDA c, u : Plus(c, CostOf(q, u)), NoCost, t.in)
        lg(i) == LgOf(q, t.in[i])
        comp  == One(t.in[1].op \notin {"Scan", "OrderBy"})
        own   ==
            CASE t.op = "Filter" -> IF q.filters[t.id].ineq THEN IneqCost(2^lg(1))
                                                            ELSE EqCost(2^lg(1))
              [] t.op = "JoinFilter" -> EqCost(2^lg(1))
              [] t.op = "Join"       -> JoinCost(lg(1), lg(2))
              [] t.op = "SemiJoin"   -> SemiJoinCost(lg(1), lg(2))
              [] t.op \in {"GroupBy", "OrderBy"} -> SortCost(lg(1))
              [] t.op = "Distinct"   -> DistinctCost(lg(1), comp)
              [] t.op = "AdjacentEq" -> AdjacentEqCost(2^lg(1))
              [] t.op = "Mask"       -> SelectCost(2^lg(1))
              [] OTHER               -> NoCost
    IN  Plus(below, own)

(* The search ends with a plan of the query: it applies every operator,    *)
(* or the rewritten form of a DISTINCT, each where its inputs are there,   *)
(* and no plan of the query is cheaper, the operators that the costs kept  *)
(* with the plan leave out included: "The optimal logical plan for the     *)
(* given query" (planGen.h).  Plans are lost when a problem is dropped     *)
(* from its slot or a plan is thought to be dominated.                     *)
PickedIsBest ==
    /\ pc # "aborted"
    /\ pc = "done" =>
           LET t    == opt[1].tree
               ops  == {n.op : n \in Range(NodesOf(t))}
               cost == AbsoluteCost([cost |-> CostOf(query, t)])
               ways == WaysTo(query, DOMAIN query.lg, FilterIds(query) \cup JoinIds(query))
           IN  /\ WhereNodes(t) = FilterIds(query) \cup JoinIds(query)
               /\ Sound(query, t)
               /\ query.group => "GroupBy" \in ops
               /\ query.distinct => ops \cap {"Distinct", "AdjacentEq"} # {}
               /\ query.order => t.op = "OrderBy"
               /\ \A w \in ways : AbsoluteCost([cost |-> CompleteCost(query, w)]) >= cost

=============================================================================
