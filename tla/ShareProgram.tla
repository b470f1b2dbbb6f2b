---------------------------- MODULE ShareProgram ----------------------------
(***************************************************************************)
(* The oblivious programs the three parties run.                           *)
(*                                                                         *)
(* Every protocol of the engine (eq_b, greater, boolean_addition, cmp_swap,*)
(* and the relational operators made of them) is straight-line code over   *)
(* share variables: the same calls with the same lengths on all parties,   *)
(* whatever the data.  A program is a sequence of those calls; call k, if  *)
(* it computes a share, leaves it in wire k.  A wire stands for one share  *)
(* variable, or for an array of them, the ring being then a product.       *)
(***************************************************************************)
EXTENDS ShareAlgebra, Sequences

CONSTANTS
  Prog,            \* the program: a sequence of Call records
  Replicated,      \* Replicated[k]: wires whose remote share is valid at call k
  LinearMap,       \* names of the maps used by "linear" gates
  Linear(_, _)     \* Linear(f, x): shifts, masks and get_bit on a word

Last == Len(Prog)
Wire == 1 .. Last

GateOp == {"input", "xor", "and", "not", "linear"}
ExchangeOp == {"exchange", "exchange_async"}
OpenOp == {"open", "reveal", "reveal_async"}
CommOp == ExchangeOp \cup OpenOp

\* a, b: the wires a gate reads; f: its linear map; ws: the wires a
\* communication call sends, in one message.
Call == [op : GateOp \cup CommOp, a : Wire, b : Wire,
         f : LinearMap, ws : SUBSET Wire]

Op(k) == Prog[k].op
Inputs == {k \in Wire : Op(k) = "input"}
Computed(k) == {j \in Wire : j < k /\ Op(j) \in GateOp}

\* The wires call k reads.
Reads(k) ==
  CASE Op(k) \in {"xor", "and"} -> {Prog[k].a, Prog[k].b}
    [] Op(k) \in {"not", "linear"} -> {Prog[k].a}
    [] Op(k) \in CommOp -> Prog[k].ws
    [] OTHER -> {}

\* The wires whose remote share becomes valid with call k: linear gates work
\* on the remote shares as on the local ones, and_b only makes a local share,
\* and an exchange fetches the remote shares of the wires it names.  R: the
\* wires valid before the call.
NewlyReplicated(k, R) ==
  CASE Op(k) = "input" -> {k}
    [] Op(k) \in {"xor", "not", "linear"} ->
         IF Reads(k) \subseteq R THEN {k} ELSE {}
    [] Op(k) \in ExchangeOp -> Prog[k].ws
    [] OTHER -> {}

\* The value of gate k in plaintext, from the values v of the wires.
GateValue(k, v) ==
  CASE Op(k) = "xor" -> Plus(v[Prog[k].a], v[Prog[k].b])
    [] Op(k) = "and" -> Times(v[Prog[k].a], v[Prog[k].b])
    [] Op(k) = "not" -> NotB(v[Prog[k].a])
    [] Op(k) = "linear" -> Linear(Prog[k].f, v[Prog[k].a])
    [] OTHER -> v[k]

\* The discipline the primitives ask of their callers: a share variable is
\* computed before it is used, and its remote share has been exchanged (again)
\* before it is a factor of and_b ("We need to call exchange again before
\* using it in a subsequent operation").  The array forms of reveal leave the
\* value in the place of the share, which no later call reads as a share.
ASSUME ProgramAssumption ==
  /\ Prog \in Seq(Call)
  /\ \A k \in Wire : Reads(k) \subseteq Computed(k)
  /\ Replicated \in [1 .. Last + 1 -> SUBSET Wire]
  /\ Replicated[1] = {}
  /\ \A k \in Wire :
       Replicated[k + 1] = Replicated[k] \cup NewlyReplicated(k, Replicated[k])
  /\ \A j, k \in Wire :
       Op(j) = "reveal_async" /\ j < k => Reads(j) \cap Reads(k) = {}
  /\ \A k \in Wire : Op(k) = "and" => Reads(k) \subseteq Replicated[k]
  /\ \A k \in Wire : Op(k) = "not" => Plus(One, One) = Zero

ASSUME LinearAssumption ==
  /\ \A f \in LinearMap, x \in Elem : Linear(f, x) \in Elem
  /\ \A f \in LinearMap, x, y \in Elem :
       Linear(f, Plus(x, y)) = Plus(Linear(f, x), Linear(f, y))

=============================================================================
