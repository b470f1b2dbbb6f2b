--------------------------- MODULE MCConvertAToB ---------------------------
(* Instances of ConvertAToB: small inputs and a table of random words. *)
EXTENDS ConvertAToB

\* Sums with and without carries, and sums that wrap around.
MCInputs ==
  { s \in [Party -> {0, 3, 2^Width - 3}] : s[0] # 0 }

\* The random words are different for each seed and draw.
MCRandom ==
  [p \in Party |-> [n \in 0 .. 3 * Width |-> WordOf((5 * n + 3 * p + 1) % Size)]]

MCDealWords == {WordOf(5), WordOf(2)}
=============================================================================
