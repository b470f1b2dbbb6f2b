--------------------------- MODULE MCEqArrayInter ---------------------------
(* Instances of EqArrayInter for TLC. *)
EXTENDS EqArrayInter

BothLengths == [f \in {"inter", "inter_batch"} |-> IF f = "inter" THEN 5 ELSE 2]

=============================================================================
