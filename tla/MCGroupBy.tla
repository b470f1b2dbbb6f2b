----------------------------- MODULE MCGroupBy -----------------------------
(***************************************************************************)
(* Calls of the grouping functions for TLC.                                *)
(***************************************************************************)
EXTENDS GroupBy

\* Small numbers as attributes: in a table of up to 4 rows every pattern of two
\* values, in a larger one a single one.
MCValues(n) ==
  IF n <= 4 THEN [0 .. n - 1 -> {1, 2}]
  ELSE {[i \in 0 .. n - 1 |-> (3 * i + 1) % 5]}

\* Attribute 1 has two matches, whose values wrap around; 2 has one, 0 none.
MCRights == {[k \in 0 .. 2 |-> [key |-> IF k = 1 THEN 2 ELSE 1,
                               val |-> IF k = 1 THEN 3 ELSE 7]]}

AnyCall(x) == TRUE

=============================================================================
