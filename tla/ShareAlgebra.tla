---------------------------- MODULE ShareAlgebra ----------------------------
(***************************************************************************)
(* The data plane of Secrecy: values, replicated secret shares and the     *)
(* local computations the three parties do on them.                        *)
(*                                                                         *)
(* The code has two kinds of shares, both C long longs: boolean shares,    *)
(* combined with ^ and &, and arithmetic shares, combined with wrapping +  *)
(* and *.  Both are commutative rings -- (Z_2)^64 and Z_(2^64) -- and each *)
(* primitive on boolean shares is the primitive on arithmetic shares of    *)
(* the other ring (and_b is mul, xor_b is add, not_b adds the all-ones     *)
(* word, which is the unit).  The ring is therefore a parameter, and what  *)
(* is proved here holds for words of every width and for both kinds.       *)
(*                                                                         *)
(* Rank r of the code (P1 is rank 0) is party r.  Party r holds share r of *)
(* a value as its LOCAL share and share r+1 as its REMOTE share.           *)
(***************************************************************************)
EXTENDS Integers

CONSTANTS
  Elem,          \* the words of the ring
  Zero, One,     \* its constants (for boolean shares, One is ~0)
  Plus(_, _),    \* x ^ y for boolean shares, x + y for arithmetic ones
  Neg(_),        \* the additive inverse (the identity for boolean shares)
  Times(_, _),   \* x & y for boolean shares, x * y for arithmetic ones
  Seed,          \* non-zero seeds of random()
  Period,        \* the period of random()
  RandomTable    \* RandomTable[s][n] is the n-th random() after initstate(s)

ASSUME RingClosed ==
  /\ Zero \in Elem /\ One \in Elem
  /\ \A x \in Elem : Neg(x) \in Elem
  /\ \A x, y \in Elem : Plus(x, y) \in Elem /\ Times(x, y) \in Elem

ASSUME RingAdditive ==
  /\ \A x, y, z \in Elem : Plus(Plus(x, y), z) = Plus(x, Plus(y, z))
  /\ \A x, y \in Elem : Plus(x, y) = Plus(y, x)
  /\ \A x \in Elem : Plus(x, Zero) = x /\ Plus(x, Neg(x)) = Zero

ASSUME RingMultiplicative ==
  /\ \A x, y \in Elem : Times(x, y) = Times(y, x)
  /\ \A x, y, z \in Elem :
       Times(x, Plus(y, z)) = Plus(Times(x, y), Times(x, z))
  /\ \A x \in Elem : Times(One, x) = x

ASSUME PRNGAssumption ==
  /\ Period \in Nat \ {0}
  /\ RandomTable \in [Seed -> [0 .. Period - 1 -> Elem]]

-----------------------------------------------------------------------------
(* The ring of parties. *)

Party == 0 .. 2
Succ(p) == (p + 1) % 3
Pred(p) == (p + 2) % 3

-----------------------------------------------------------------------------
(* Sharing a value and putting it together again. *)

Minus(x, y) == Plus(x, Neg(y))

\* The value that three shares stand for: what open_b and open_a compute.
Reconstruct(s) == Plus(Plus(s[0], s[1]), s[2])

\* The three shares of x when the two random words drawn are r1 and r2.
GenerateShare(x, r1, r2) ==
  [p \in Party |-> IF p = 0 THEN r1
                   ELSE IF p = 1 THEN r2 ELSE Minus(x, Plus(r1, r2))]

\* The three shares each party's remote copy holds: those of its successor.
Remote(s) == [p \in Party |-> s[Succ(p)]]

-----------------------------------------------------------------------------
(* Local computations on shares. *)

\* Mutant of AndB: a cross term is missing.
AndBWithoutCross(x1, x2, y1, y2, rnum) ==
  Plus(Plus(Times(x1, y1), Times(x1, y2)), rnum)

\* One party's share of the product, from its two shares of each factor and
\* its share rnum of zero.
AndB(x1, x2, y1, y2, rnum) ==
  Plus(Plus(Plus(Times(x1, y1), Times(x1, y2)), Times(x2, y1)), rnum)

\* The complement of a share: ~x is x ^ ~0.  All three parties apply it.
NotB(x) == Plus(x, One)

-----------------------------------------------------------------------------
(* Pseudo-random shares of zero.  A stream is a generator state of         *)
(* random(): the seed it was initialised with and the words drawn so far.  *)

Stream(seed) == [seed |-> seed, drawn |-> 0]
Draw(st) == RandomTable[st.seed][st.drawn % Period]
Advance(st, n) == [st EXCEPT !.drawn = @ + n]

\* Mutant of NextR: the word of the remote generator is not taken off.
NextRLocal(loc, rem) == Draw(loc)

\* The share of zero a party makes of its two generator states.
NextR(loc, rem) == Minus(Draw(loc), Draw(rem))

=============================================================================
