----------------------------- MODULE IdealEval ------------------------------
(***************************************************************************)
(* What the engine promises: the program evaluated once, on the plaintext, *)
(* by nobody in particular.  SecureEval implements this with three parties *)
(* that only ever hold shares.                                             *)
(***************************************************************************)
EXTENDS ShareProgram

CONSTANTS
  InputValue,  \* the words an input may have
  NotOpened    \* what is known of a wire that was not opened

VARIABLES
  next,    \* the call to be evaluated next
  value,   \* the value of each wire (Zero before it is computed)
  opened   \* the values made public

ivars == <<next, value, opened>>

IdealInit ==
  /\ next = 1
  /\ \E x \in [Inputs -> InputValue] :
       value = [w \in Wire |-> IF w \in Inputs THEN x[w] ELSE Zero]
  /\ opened = [w \in Wire |-> NotOpened]

EvalGate ==
  /\ next \in Wire
  /\ Op(next) \in GateOp
  /\ value' = [value EXCEPT ![next] = GateValue(next, value)]
  /\ UNCHANGED opened

\* Exchanging shares has no effect on the values they stand for.
EvalExchange ==
  /\ next \in Wire
  /\ Op(next) \in ExchangeOp
  /\ UNCHANGED <<value, opened>>

EvalOpen ==
  /\ next \in Wire
  /\ Op(next) \in OpenOp
  /\ opened' = [w \in Wire |-> IF w \in Prog[next].ws THEN value[w]
                               ELSE opened[w]]
  /\ UNCHANGED value

IdealNext ==
  /\ EvalGate \/ EvalExchange \/ EvalOpen
  /\ next' = next + 1

IdealSpec == IdealInit /\ [][IdealNext]_ivars

=============================================================================
