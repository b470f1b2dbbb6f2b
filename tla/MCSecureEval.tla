---------------------------- MODULE MCSecureEval ----------------------------
(***************************************************************************)
(* Instances of SecureEval for TLC: two rings and the programs of some     *)
(* primitives.                                                             *)
(***************************************************************************)
EXTENDS SecureEval

CONSTANTS
  Width,     \* bits of a word
  Seeds      \* the seeds of the three parties

-----------------------------------------------------------------------------
(* Boolean words: a word is the set of its bits that are 1. *)

Bits == 0 .. Width - 1
BElem == SUBSET Bits
BZero == {}
BPlus(x, y) == (x \ y) \cup (y \ x)
BNeg(x) == x
BTimes(x, y) == x \cap y

BTable == [s \in Seeds |-> [n \in 0 .. 4 |->
             {i \in Bits : ((s + 1) * (n + 2 * i + 1) + n * i) % 3 = 0}]]

\* shift_greater at round r: in each part of 2^r bits, the lower half of the
\* bits becomes copies of the bit in the middle.  "lsb" is & 1, "fill" makes
\* all bits equal to the lowest (to_bshare and unary minus in cmp_swap).
BLinearMap == {"shift0", "shift1", "lsb", "fill"}
ShiftGreater(r, x) ==
  LET part == 2^r  half == part \div 2
  IN  {i \in Bits : IF i % part < half THEN ((i \div part) * part + half) \in x
                    ELSE i \in x}
BLinear(f, x) ==
  CASE f = "shift0" -> ShiftGreater(0, x)
    [] f = "shift1" -> ShiftGreater(1, x)
    [] f = "lsb" -> x \cap {0}
    [] OTHER -> IF 0 \in x THEN Bits ELSE {}

BWord == {{0}, {1, Width - 1}}

-----------------------------------------------------------------------------
(* Arithmetic words of Width bits. *)

Modulus == 2^Width
AElem == 0 .. Modulus - 1
APlus(x, y) == (x + y) % Modulus
ANeg(x) == (Modulus - x) % Modulus
ATimes(x, y) == (x * y) % Modulus
ATable == [s \in Seeds |-> [n \in 0 .. 4 |-> (5 * s + 3 * n + s * n) % Modulus]]
ALinearMap == {"none"}
ALinear(f, x) == x
AWord == {3, Modulus - 1}

-----------------------------------------------------------------------------
(* Programs. *)

Gate(op, a, b, f) == [op |-> op, a |-> a, b |-> b, f |-> f, ws |-> {}]
Input(f) == Gate("input", 1, 1, f)
Comm(op, ws, f) == [op |-> op, a |-> 1, b |-> 1, f |-> f, ws |-> ws]

\* Words of 4 bits: the bit (10) of eq_b_array on inputs 1 and 2 (2 rounds; the
\* array forms exchange with MPI_Isend and MPI_Irecv) is opened
\* and exchanged, and the multiplexer of cmp_swap is applied to the same inputs on
\* that bit.  The result is then revealed with reveal_b, the bit with the
\* asynchronous form.
EqSwapProgram ==
  << Input("lsb"), Input("lsb"),
     Gate("xor", 1, 2, "lsb"), Gate("not", 3, 3, "lsb"),
     Gate("linear", 4, 4, "shift0"), Gate("and", 4, 5, "lsb"),
     Comm("exchange_async", {6}, "lsb"),
     Gate("linear", 6, 6, "shift1"), Gate("and", 6, 8, "lsb"),
     Gate("linear", 9, 9, "lsb"), Comm("open", {10}, "lsb"),
     Comm("exchange_async", {10}, "lsb"),
     Gate("linear", 10, 10, "fill"), Gate("not", 13, 13, "lsb"),
     Gate("and", 13, 2, "lsb"), Gate("and", 14, 1, "lsb"),
     Gate("xor", 15, 16, "lsb"),
     Comm("exchange_async", {17}, "lsb"),
     Comm("reveal", {17}, "lsb"), Comm("reveal_async", {10}, "lsb") >>

\* Powers of x times y with arithmetic shares: blocking exchanges one after the
\* other, a linear gate between two of them, an opening and a reveal.
MulProgram ==
  << Input("none"), Input("none"),
     Gate("and", 1, 2, "none"), Comm("exchange", {3}, "none"),
     Gate("and", 3, 1, "none"), Comm("exchange", {5}, "none"),
     Gate("xor", 5, 2, "none"), Gate("and", 5, 1, "none"),
     Comm("exchange", {8}, "none"),
     Gate("and", 8, 1, "none"), Comm("exchange", {10}, "none"),
     Comm("open", {10}, "none"), Comm("reveal", {7}, "none") >>

\* What Replicated has to be for a program.
ReplicatedBy ==
  LET rep[k \in 1 .. Last + 1] ==
        IF k = 1 THEN {}
        ELSE LET before == rep[k - 1]
             IN  before \cup NewlyReplicated(k - 1, before)
  IN  rep

\* One assignment of seeds, and random words that differ: the protocol treats
\* all seeds alike.
MCInit ==
  /\ Init
  /\ \A p \in Party : prng[p].loc.seed = p + 1
  /\ \A w \in Inputs : /\ local[0][w] = CHOOSE word \in DealtWord : TRUE
                       /\ local[1][w] # local[0][w]
MCSpec == MCInit /\ [][Next]_vars
MCFairSpec == MCInit /\ [][Next]_vars /\ \A p \in Party : WF_vars(Step(p))

=============================================================================
