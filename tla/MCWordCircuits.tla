--------------------------- MODULE MCWordCircuits ---------------------------
(***************************************************************************)
(* Instances of WordCircuits for TLC.                                      *)
(***************************************************************************)
EXTENDS WordCircuits

AllWords == Word

\* Words of 8 bits that differ from each other in one bit, in all bits, in the
\* lower or in the upper half.
SomeWords == {{}, {0}, {3}, {4}, {7}, {0, 1, 2, 3}, {4, 5, 6, 7}, Bits,
              {0, 2, 4, 6}, {1, 3, 5, 7}, {0, 1, 7}, Bits \ {4}}

=============================================================================
