---------------------------- MODULE WordCircuits ----------------------------
(***************************************************************************)
(* The bit-level algorithms of primitives.cpp on the plaintext: what the   *)
(* words that the shares stand for go through.  (That the shares stand for *)
(* them, round by round, is SecureEval's business.)                        *)
(*                                                                         *)
(* Comparing or adding words takes several rounds, one exchange of shares  *)
(* each.  A step of this module is one round of the primitive's loop.      *)
(* A word is the set of its bits that are 1; bit 0 is the least            *)
(* significant one.                                                        *)
(***************************************************************************)
EXTENDS Integers, Sequences, FiniteSets, FiniteSetsExt

CONSTANTS
  LogWidth,   \* log2 of the bits of a word (6 in the code)
  XWord,      \* the values of the first argument
  YWord       \* the values of the second one

Width == 2^LogWidth
Bits == 0 .. Width - 1
Word == SUBSET Bits

ASSUME WordAssumption ==
  LogWidth \in Nat \ {0} /\ XWord \subseteq Word /\ YWord \subseteq Word

VARIABLES
  fn,      \* the primitive that runs
  x, y,    \* its arguments
  round,   \* the loop counter: the next round (for an adder, the next bit; for
           \* and_b_all and and_b_all_group, len and group_size)
  acc,     \* lbs, res1 or carry1: the word the rounds work on; x1, an array of bits
  diag,    \* l_diag of greater()
  result   \* what is returned: empty, one word, or two words for cmp_swap

vars == <<fn, x, y, round, acc, diag, result>>

AndAll == {"and_b_all", "and_b_all_group"}
Function == {"eq_b", "eq_b_sync", "greater", "cmp_swap", "boolean_addition"}
            \cup AndAll

-----------------------------------------------------------------------------
(* Words. *)

Xor(u, v) == (u \ v) \cup (v \ u)

\* Mutant of Not: the complement of a wider type.
NotWide(u) == (0 .. Width) \ u

Not(u) == Bits \ u

\* Mutant of ShiftRight and of ShiftLeft.
NoShift(u) == u

ShiftRight(u) == {i \in Bits : i + 1 \in u}
ShiftLeft(u) == {i \in Bits : i > 0 /\ i - 1 \in u}

\* Mutant of ShiftGreater: the bit copied is one too low.
ShiftGreaterLow(u, r) ==
  LET part == 2^r
      middle(i) == (i - (i % part)) + part \div 2
  IN  {i \in Bits : IF i < middle(i) THEN middle(i) - 1 \in u ELSE i \in u}

\* shift_greater: the word is cut into parts of 2^r bits, and the bits of the
\* lower half of a part become copies of the lowest bit of its upper half.
ShiftGreater(u, r) ==
  LET part == 2^r
      middle(i) == (i - (i % part)) + part \div 2
  IN  {i \in Bits : IF i < middle(i) THEN middle(i) \in u ELSE i \in u}

\* Mutant of Level2: the pairs overlap.
Level2Overlap(u, numbits) == {j \in 0 .. numbits \div 2 - 1 : {j, j + 1} \subseteq u}

\* eq_b_level2: bit j of the result is the conjunction of bits 2j and 2j + 1.
Level2(u, numbits) == {j \in 0 .. numbits \div 2 - 1 : {2 * j, 2 * j + 1} \subseteq u}

\* to_bshare: the word 0 or 1.  Unary minus makes it the word of all ones.
ToBShare(s) == s \cap {0}
Fill(b) == IF 0 \in b THEN Bits ELSE {}

\* Mutant of Mux: the arguments are swapped.
MuxSwapped(b, u, v) == Xor(Fill(b) \cap u, Not(Fill(b)) \cap v)

\* The multiplexer of cmp_swap: v if the selecting bit is 1, else u.
Mux(b, u, v) ==
  LET all == Fill(ToBShare(b))
  IN  Xor(all \cap v, Not(all) \cap u)

\* The bit that is the exclusive or of all bits of a word.
Parity(u) == IF Cardinality(u) % 2 = 1 THEN {0} ELSE {}

\* Mutant of CarryBit: the conjunction of the last two is left out.
CarryBitOfTwo(u, v, w) == Xor(u \cap v, u \cap w)

\* The carry of three bits at the same place.
CarryBit(u, v, w) == Xor(u \cap v, Xor(u \cap w, v \cap w))

Agree(u, v) == Not(Xor(u, v))

\* The arrays of bits given to and_b_all and and_b_all_group: one group, and two
\* groups, of an odd number of bits.
Groups == IF fn = "and_b_all" THEN 1 ELSE 2
GroupSize == Width \div Groups - 1

-----------------------------------------------------------------------------
Init ==
  /\ fn \in Function
  /\ x \in XWord /\ y \in YWord
  /\ round = IF fn \in AndAll THEN GroupSize ELSE 0
  /\ acc = IF fn = "boolean_addition" THEN {} ELSE Agree(x, y)
  /\ diag = {}
  /\ result = <<>>

Running(f) == fn = f /\ result = <<>>

\* The loop of eq_b and eq_b_array, and the final round after it.
EqRound ==
  /\ Running("eq_b")
  /\ acc' = acc \cap ShiftGreater(acc, round)
  /\ round' = round + 1
  /\ result' = IF round = LogWidth - 1 THEN << acc' \cap {0} >> ELSE <<>>
  /\ UNCHANGED <<fn, x, y, diag>>

\* The loop of eq_b_sync and eq_b_async: each round halves the word.
EqSyncRound ==
  /\ Running("eq_b_sync")
  /\ acc' = Level2(acc, Width \div 2^round)
  /\ round' = round + 1
  /\ result' = IF round = LogWidth - 1 THEN << acc' >> ELSE <<>>
  /\ UNCHANGED <<fn, x, y, diag>>

\* cmp_swap and cmp_swap_g call greater.
InGreater == Running("greater") \/ Running("cmp_swap")

\* The first round of greater; it also computes the diagonal, whose bit i is
\* x_i AND NOT y_i.
GreaterFirst ==
  /\ InGreater /\ round = 0
  /\ acc' = acc \cap ShiftGreater(acc, 1)
  /\ diag' = ((Xor(x, y) \ {0}) \cup ({0} \ y)) \cap x
  /\ round' = 2
  /\ UNCHANGED <<fn, x, y, result>>

GreaterRound ==
  /\ InGreater /\ round \in 2 .. LogWidth
  /\ acc' = acc \cap ShiftGreater(acc, round)
  /\ round' = round + 1
  /\ UNCHANGED <<fn, x, y, diag, result>>

\* The final conjunction with the diagonal, and what cmp_swap makes of it.
GreaterLast ==
  LET b == Parity((ShiftRight(acc) \cup {Width - 1}) \cap diag)
  IN  /\ InGreater /\ round > LogWidth
      /\ result' = IF fn = "greater" THEN << b >>
                   ELSE << Mux(b, x, y), Mux(b, y, x) >>
      /\ UNCHANGED <<fn, x, y, round, acc, diag>>

\* The carry out of bit i = round; the carry out of the last bit is not needed.
Carry ==
  LET i == round
      bit(u) == IF i \in u THEN {i} ELSE {}
      from == IF i > 0 /\ i - 1 \in acc THEN {i} ELSE {}
  IN  /\ Running("boolean_addition") /\ (i = 0 \/ i < Width - 1)
      /\ acc' = acc \cup CarryBit(bit(x), bit(y), from)
      /\ round' = round + 1
      /\ UNCHANGED <<fn, x, y, diag, result>>

AddCarries ==
  /\ Running("boolean_addition") /\ round > 0 /\ round >= Width - 1
  /\ result' = << Xor(Xor(x, y), ShiftLeft(acc)) >>
  /\ UNCHANGED <<fn, x, y, round, acc, diag>>

\* A round of and_b_all or and_b_all_group: the pairs of each group are multiplied,
\* an odd last bit is kept, and the groups move together to the front of the array.
AndRound ==
  LET size == (round + 1) \div 2
      left == {k * size + j : k \in 0 .. Groups - 1, j \in 0 .. size - 1}
      product(k, j) == {k * round + 2 * j, k * round + 2 * j + 1} \cap
                         k * round .. (k + 1) * round - 1
  IN  /\ fn \in AndAll /\ round > 1
      /\ acc' = (acc \ left) \cup
                {i \in left : product(i \div size, i % size) \subseteq acc}
      /\ round' = size
      /\ UNCHANGED <<fn, x, y, diag, result>>

AndLast ==
  /\ fn \in AndAll /\ round = 1 /\ result = <<>>
  /\ result' = << acc \cap 0 .. Groups - 1 >>
  /\ UNCHANGED <<fn, x, y, round, acc, diag>>

Returned == result # <<>> /\ UNCHANGED vars

Next ==
  \/ EqRound
  \/ EqSyncRound
  \/ GreaterFirst
  \/ GreaterRound
  \/ GreaterLast
  \/ Carry
  \/ AddCarries
  \/ AndRound
  \/ AndLast
  \/ Returned

Spec == Init /\ [][Next]_vars

-----------------------------------------------------------------------------
(* The numbers that words stand for. *)

Unsigned(u) == MapThenSumSet(LAMBDA i : 2^i, u)
Negative(u) == Width - 1 \in u
Signed(u) == Unsigned(u) - (IF Negative(u) THEN 2^Width ELSE 0)

Bool(b) == IF b THEN {0} ELSE {}
Returns(f) == fn = f /\ result # <<>>

-----------------------------------------------------------------------------
(* Properties. *)

TypeOK ==
  /\ fn \in Function /\ x \in Word /\ y \in Word
  /\ round \in Nat
  /\ acc \in Word /\ diag \in Word
  /\ Len(result) <= 2 /\ \A i \in 1 .. Len(result) : result[i] \in Word

\* "eq_b: Checks x == y using boolean shares" (primitives.h).
EqCorrect == Returns("eq_b") => result[1] = Bool(x = y)

\* What eq_b decides instead, its rounds being 0 to LogWidth - 1 rather than 1 to
\* LogWidth: whether the lower halves of the words are equal.
EqOfLowerHalf ==
  Returns("eq_b") =>
    result[1] = Bool(0 .. Width \div 2 - 1 \subseteq Agree(x, y))

\* The same of eq_b_sync and eq_b_async, the variants with halving rounds.
EqSyncCorrect == Returns("eq_b_sync") => result[1] = Bool(x = y)

\* "Checks x > y using boolean shares, where x,y have the same sign".
GreaterCorrect ==
  Returns("greater") /\ (Negative(x) <=> Negative(y))
    => result[1] = Bool(Signed(x) > Signed(y))

\* cmp_swap leaves the smaller number in x and the larger one in y, for numbers
\* of the same sign.
SwapCorrect ==
  Returns("cmp_swap") /\ (Negative(x) <=> Negative(y))
    => /\ {result[1], result[2]} = {x, y}
       /\ Signed(result[1]) <= Signed(result[2])

\* boolean_addition adds modulo 2^Width, whatever overflows.
AdditionCorrect ==
  Returns("boolean_addition") =>
    Unsigned(result[1]) = (Unsigned(x) + Unsigned(y)) % 2^Width

\* The loop invariants.  eq_b_sync: after l rounds, bit j of the word tells
\* whether the j-th parts of 2^l bits of x and y are equal.  greater: after round
\* r, bit i tells whether x and y are equal from bit i to the end of the part of
\* 2^r bits that i is in.  The adder: the carry out of bit i is 1 exactly when
\* the numbers in bits 0 to i of x and y overflow them.  and_b_all: the bits left
\* of a group are all 1 exactly when all it had at first are.
RoundsKeep ==
  /\ fn = "eq_b_sync" =>
       acc = {j \in 0 .. Width \div 2^round - 1 :
                \A i \in j * 2^round .. (j + 1) * 2^round - 1 : i \in Agree(x, y)}
  /\ InGreater /\ round > 0 =>
       LET part == 2^(round - 1)
       IN  acc = {i \in Bits :
                    \A j \in i .. (i - (i % part)) + part - 1 : j \in Agree(x, y)}
  /\ fn = "boolean_addition" =>
       \A i \in 0 .. round - 1 :
         i \in acc <=> Unsigned(x \cap 0 .. i) + Unsigned(y \cap 0 .. i) >= 2^(i + 1)
  /\ fn \in AndAll =>
       \A k \in 0 .. Groups - 1 :
         k * round .. (k + 1) * round - 1 \subseteq acc
           <=> k * GroupSize .. (k + 1) * GroupSize - 1 \subseteq Agree(x, y)

=============================================================================
