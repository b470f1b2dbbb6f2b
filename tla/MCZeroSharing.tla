--------------------------- MODULE MCZeroSharing ----------------------------
(***************************************************************************)
(* Instances of ZeroSharing for TLC, with arithmetic words of Width bits.  *)
(***************************************************************************)
EXTENDS ZeroSharing

CONSTANTS
  Width,   \* bits of a word
  Seeds    \* the non-zero seeds

Modulus == 2^Width
AElem == 0 .. Modulus - 1
APlus(x, y) == (x + y) % Modulus
ANeg(x) == (Modulus - x) % Modulus
ATimes(x, y) == (x * y) % Modulus
ATable == [s \in Seeds |-> [n \in 0 .. Period - 1 |-> (3 * s + 5 * n + s * n) % Modulus]]

AllParties(op, n) == [op |-> op, len |-> n, by |-> Party]

\* P1 makes test data, then seeds are exchanged twice with arrays, single words
\* and pairs drawn after each exchange; more words than the period in all.
TwoExchanges ==
  << [op |-> "random", len |-> 2, by |-> {0}], AllParties("exchange", 1),
     AllParties("pair", 2), AllParties("next", 3), AllParties("exchange", 1),
     AllParties("next", 1), AllParties("pair", 1) >>

=============================================================================
