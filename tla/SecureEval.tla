----------------------------- MODULE SecureEval -----------------------------
(***************************************************************************)
(* Three parties run a share program, each at its own pace, over MPI.      *)
(*                                                                         *)
(* A party runs the calls of the program in order.  Gates are local        *)
(* (primitives.cpp); a communication call (comm.cpp) posts its sends,      *)
(* matches its receives and returns.  MPI messages of one tag from one     *)
(* party to another arrive in order and carry no call number: that a       *)
(* message is taken by the call it was sent for is a property, not a check *)
(* of the code.  A message's "at" field is the call that sent it; no       *)
(* action reads it.                                                        *)
(***************************************************************************)
EXTENDS ShareProgram

CONSTANTS
  InputValue,   \* the words an input may have
  DealtWord,    \* the random words an input may be shared with
  NotOpened,    \* what a party knows of a wire it has not opened
  Eager         \* messages MPI buffers on a channel before a send blocks

ASSUME EagerAssumption == Eager \in Nat
ASSUME InputAssumption == InputValue \subseteq Elem /\ DealtWord \subseteq Elem

VARIABLES
  pc,        \* pc[p]: the call party p is at
  local,     \* local[p][w]: p's local share of wire w
  remote,    \* remote[p][w]: p's copy of its successor's share of wire w
  prng,      \* prng[p]: the states of p's two generators
  sentTo,    \* sentTo[p]: parties p's current call has posted its message to
  gotFrom,   \* gotFrom[p]: parties p's current call has a message from
  buffer,    \* buffer[p]: the words p's current open or reveal has combined
             \* (for the array forms of reveal, the share array itself)
  opened,    \* opened[p]: the wires p has learnt the value of
  net        \* net[c]: messages posted on channel c and not yet received

vars == <<pc, local, remote, prng, sentTo, gotFrom, buffer, opened, net>>

-----------------------------------------------------------------------------
(* The communication calls: whom a party sends to and receives from.       *)

Message == UNION {[at : {k}, words : [Prog[k].ws -> Elem]] : k \in Wire}
Tag == {"xchange", "open"}      \* XCHANGE_MSG_TAG, OPEN_MSG_TAG
Channel == Party \X Party \X Tag
TagOf(op) == IF op \in ExchangeOp THEN "xchange" ELSE "open"

SendsTo(op, p) ==
  IF op \in ExchangeOp THEN {Pred(p)}
  ELSE IF p # 0 THEN {0}
  ELSE IF op = "open" THEN {} ELSE {1, 2}

\* Mutant of RecvsFrom: the successor of the last rank does not wrap around.
RecvsFromNoWrap(op, p) ==
  IF op \in ExchangeOp THEN {p + 1} \cap Party
  ELSE IF p = 0 THEN {1, 2}
  ELSE IF op = "open" THEN {} ELSE {0}

RecvsFrom(op, p) ==
  IF op \in ExchangeOp THEN {Succ(p)}
  ELSE IF p = 0 THEN {1, 2}
  ELSE IF op = "open" THEN {} ELSE {0}

\* A posted send is complete once MPI has buffered it or the receiver has it.
SendDone(p, q) == q \in sentTo[p] /\ Len(net[<<p, q, TagOf(Op(pc[p]))>>]) <= Eager

\* Mutants of MaySend: P1 sends the result before it has any share, or when it
\* has one.
MaySendAtOnce(op, p, q) == op = "reveal" /\ q = 2 => SendDone(p, 1)
MaySendAfterOne(op, p, q) ==
  /\ p = 0 => gotFrom[p] # {} \/ op \in ExchangeOp
  /\ op = "reveal" /\ q = 2 => SendDone(p, 1)

\* The order in which a call does its sends and receives.
MaySend(op, p, q) ==
  /\ p = 0 => gotFrom[p] = RecvsFrom(op, p) \/ op \in ExchangeOp
  /\ op = "reveal" /\ q = 2 => SendDone(p, 1)

MayRecv(op, p, q) ==
  /\ op = "exchange" => SendDone(p, Pred(p))
  /\ op = "reveal" /\ p # 0 => SendDone(p, 0)
  /\ op = "reveal_async" /\ p # 0 => 0 \in sentTo[p]
  /\ op \in {"open", "reveal"} /\ q = 2 => 1 \in gotFrom[p]

\* Mutant of Payload: the message holds the whole table.
PayloadOfAll(p, k) == local[p]

\* The words party p puts in the message of call k.
Payload(p, k) ==
  [w \in Prog[k].ws |->
     IF Op(k) \in OpenOp /\ p = 0 THEN buffer[p][w] ELSE local[p][w]]

\* Mutant of Combined: each message is added to the local shares.
CombinedLocal(p, w) == local[p][w]

\* The words combined so far: open and reveal start from the local shares.
Combined(p, w) == IF gotFrom[p] = {} THEN local[p][w] ELSE buffer[p][w]

\* Mutant of CallComplete: the call does not wait for its receives.
SendsComplete(p) == \A q \in SendsTo(Op(pc[p]), p) : SendDone(p, q)

\* All receives of p's call are matched and all its sends complete.
CallComplete(p) ==
  /\ gotFrom[p] = RecvsFrom(Op(pc[p]), p)
  /\ \A q \in SendsTo(Op(pc[p]), p) : SendDone(p, q)

\* Mutant of NextCall: a loop of exchanges does not count its rounds.
SameCall(p) == IF Op(pc[p]) \in ExchangeOp THEN pc[p] ELSE pc[p] + 1

NextCall(p) == pc[p] + 1

-----------------------------------------------------------------------------
Init ==
  /\ pc = [p \in Party |-> 1]
  /\ \E x \in [Inputs -> InputValue], r1, r2 \in [Inputs -> DealtWord] :
       LET dealt(w) == GenerateShare(x[w], r1[w], r2[w])
       IN  /\ local = [p \in Party |-> [w \in Wire |->
                         IF w \in Inputs THEN dealt(w)[p] ELSE Zero]]
           /\ remote = [p \in Party |-> [w \in Wire |->
                          IF w \in Inputs THEN dealt(w)[Succ(p)] ELSE Zero]]
  /\ \E seed \in [Party -> Seed] :
       prng = [p \in Party |-> [loc |-> Stream(seed[p]),
                                rem |-> Stream(seed[Pred(p)])]]
  /\ sentTo = [p \in Party |-> {}]
  /\ gotFrom = [p \in Party |-> {}]
  /\ buffer = [p \in Party |-> [w \in Wire |-> Zero]]
  /\ opened = [p \in Party |-> [w \in Wire |-> NotOpened]]
  /\ net = [c \in Channel |-> <<>>]

\* What and_b leaves in party p's local share.
AndShare(p, k) ==
  AndB(local[p][Prog[k].a], remote[p][Prog[k].a],
       local[p][Prog[k].b], remote[p][Prog[k].b],
       NextR(prng[p].loc, prng[p].rem))

\* Mutant of RemoteGate: not_b is applied to the local share only.
RemoteGateButNot(p, k) ==
  IF Op(k) = "not" THEN remote[p][Prog[k].a] ELSE GateValue(k, remote[p])

RemoteGate(p, k) == GateValue(k, remote[p])

\* A gate other than and_b does the same to the local and the remote shares.
LinearGate(p) ==
  /\ pc[p] \in Wire
  /\ Op(pc[p]) \in GateOp \ {"and"}
  /\ local' = [local EXCEPT ![p][pc[p]] = GateValue(pc[p], local[p])]
  /\ remote' = [remote EXCEPT ![p][pc[p]] = RemoteGate(p, pc[p])]
  /\ pc' = [pc EXCEPT ![p] = NextCall(p)]
  /\ UNCHANGED <<prng, sentTo, gotFrom, buffer, opened, net>>

\* and_b(..., get_next_rb()): one draw from each generator, and no remote share.
AndGate(p) ==
  /\ pc[p] \in Wire
  /\ Op(pc[p]) = "and"
  /\ local' = [local EXCEPT ![p][pc[p]] = AndShare(p, pc[p])]
  /\ prng' = [prng EXCEPT ![p] = [loc |-> Advance(@.loc, 1),
                                  rem |-> Advance(@.rem, 1)]]
  /\ pc' = [pc EXCEPT ![p] = NextCall(p)]
  /\ UNCHANGED <<remote, sentTo, gotFrom, buffer, opened, net>>

\* MPI_Send or MPI_Isend to q.
Send(p, q) ==
  LET k == pc[p]  c == <<p, q, TagOf(Op(k))>>
  IN  /\ k \in Wire /\ Op(k) \in CommOp
      /\ q \in SendsTo(Op(k), p) \ sentTo[p]
      /\ MaySend(Op(k), p, q)
      /\ net' = [net EXCEPT ![c] = Append(@, [at |-> k, words |-> Payload(p, k)])]
      /\ sentTo' = [sentTo EXCEPT ![p] = @ \cup {q}]
      /\ UNCHANGED <<pc, local, remote, prng, gotFrom, buffer, opened>>

\* MPI_Recv, or an MPI_Irecv that is matched: the oldest message of the channel.
Recv(p, q) ==
  LET k == pc[p]  c == <<q, p, TagOf(Op(k))>>  m == Head(net[c])
  IN  /\ k \in Wire /\ Op(k) \in CommOp
      /\ q \in RecvsFrom(Op(k), p) \ gotFrom[p]
      /\ MayRecv(Op(k), p, q)
      /\ net[c] # <<>>
      /\ net' = [net EXCEPT ![c] = Tail(@)]
      /\ gotFrom' = [gotFrom EXCEPT ![p] = @ \cup {q}]
      /\ IF Op(k) \in ExchangeOp
         THEN /\ remote' = [remote EXCEPT ![p] = [w \in Wire |->
                              IF w \in Prog[k].ws THEN m.words[w] ELSE @[w]]]
              /\ UNCHANGED buffer
         ELSE /\ buffer' = [buffer EXCEPT ![p] = [w \in Wire |->
                   IF w \notin Prog[k].ws THEN @[w]
                   ELSE IF p = 0 THEN Plus(Combined(p, w), m.words[w])
                   ELSE m.words[w]]]
              /\ UNCHANGED remote
      /\ UNCHANGED <<pc, local, prng, sentTo, opened>>

\* The call returns.
Return(p) ==
  LET k == pc[p]
  IN  /\ k \in Wire /\ Op(k) \in CommOp
      /\ CallComplete(p)
      /\ opened' = IF Op(k) \in OpenOp /\ gotFrom[p] # {}
                   THEN [opened EXCEPT ![p] = [w \in Wire |->
                           IF w \in Prog[k].ws THEN buffer[p][w] ELSE @[w]]]
                   ELSE opened
      /\ pc' = [pc EXCEPT ![p] = NextCall(p)]
      /\ sentTo' = [sentTo EXCEPT ![p] = {}]
      /\ gotFrom' = [gotFrom EXCEPT ![p] = {}]
      /\ UNCHANGED <<local, remote, prng, buffer, net>>

Step(p) ==
  \/ LinearGate(p)
  \/ AndGate(p)
  \/ \E q \in Party : Send(p, q) \/ Recv(p, q)
  \/ Return(p)

Finished == \A p \in Party : pc[p] = Last + 1

\* All parties have run the program to its end.
Terminated == Finished /\ UNCHANGED vars

Next == (\E p \in Party : Step(p)) \/ Terminated

Spec == Init /\ [][Next]_vars

\* Each party is an operating system process, and MPI delivers what was sent.
FairSpec == Spec /\ \A p \in Party : WF_vars(Step(p))

-----------------------------------------------------------------------------
(* Properties. *)

TypeOK ==
  /\ pc \in [Party -> 1 .. Last + 1]
  /\ local \in [Party -> [Wire -> Elem]]
  /\ remote \in [Party -> [Wire -> Elem]]
  /\ prng \in [Party -> [loc : [seed : Seed, drawn : Nat],
                         rem : [seed : Seed, drawn : Nat]]]
  /\ sentTo \in [Party -> SUBSET Party]
  /\ gotFrom \in [Party -> SUBSET Party]
  /\ buffer \in [Party -> [Wire -> Elem]]
  /\ opened \in [Party -> [Wire -> Elem \cup {NotOpened}]]
  /\ net \in [Channel -> Seq(Message)]

\* The shares of wire w: share p is with party p.
SharesOf(w) == [p \in Party |-> local[p][w]]

\* comm.cpp puts no call number or sequence number in a message and uses one
\* tag for every exchange and one for every open.  Still, whatever the parties'
\* relative speeds, a message is received by the call it was sent for.
MatchedCalls ==
  \A p, q \in Party :
    (/\ pc[p] \in Wire /\ Op(pc[p]) \in CommOp
     /\ q \in RecvsFrom(Op(pc[p]), p) \ gotFrom[p])
      => LET c == <<q, p, TagOf(Op(pc[p]))>>
         IN  net[c] # <<>> => Head(net[c]).at = pc[p]

\* Replication: a remote share the program may use as a factor is the share the
\* successor holds, although the two parties computed or fetched it at
\* different times and the owner may be many calls ahead.
ReplicasAgree ==
  \A p \in Party : \A w \in Replicated[pc[p]] :
    (w < pc[Succ(p)] \/ w \in Inputs) => remote[p][w] = local[Succ(p)][w]

\* Whatever open or reveal returns on any party is the value the three local
\* shares stand for.
OpenedIsReconstructed ==
  \A p \in Party, w \in Wire :
    opened[p][w] # NotOpened => opened[p][w] = Reconstruct(SharesOf(w))

\* reveal_b and reveal_b_array_async make all parties wait for each other: no
\* party is past one that another has not reached.
RevealIsBarrier ==
  \A p, q \in Party, k \in Wire :
    Op(k) \in {"reveal", "reveal_async"} /\ pc[p] > k => pc[q] >= k

\* The exchange calls alone keep the parties close enough: a party never gets
\* more than two exchanges ahead of what its predecessor has received, so a
\* channel never holds more than three exchange messages.
ExchangesInFlight ==
  \A c \in Channel : c[3] = "xchange" => Len(net[c]) <= 3

\* reveal_b_array_async sends from and receives into the same buffer, which MPI
\* forbids while the send is pending.  The result cannot arrive before the
\* share has been taken: P1 answers only when it has both.
RevealBufferFree ==
  \A p \in Party \ {0} :
    pc[p] \in Wire /\ Op(pc[p]) = "reveal_async" /\ 0 \in gotFrom[p]
      => \A i \in 1 .. Len(net[<<p, 0, "open">>]) :
           net[<<p, 0, "open">>][i].at # pc[p]

-----------------------------------------------------------------------------
(* SecureEval implements IdealEval: the ideal machine evaluates a call when *)
(* the last of the three parties completes it.                              *)

Slowest ==
  IF pc[0] <= pc[1] /\ pc[0] <= pc[2] THEN pc[0]
  ELSE IF pc[1] <= pc[2] THEN pc[1] ELSE pc[2]

\* The plaintext of the wires that all the parties have computed.
PlainValue ==
  [w \in Wire |-> IF w \in Inputs \/ w < Slowest
                  THEN Reconstruct(SharesOf(w)) ELSE Zero]

\* What P1 has learnt in the calls that all the parties have completed.
PublicValue ==
  [w \in Wire |->
     IF \E k \in Wire : k < Slowest /\ Op(k) \in OpenOp /\ w \in Prog[k].ws
     THEN opened[0][w] ELSE NotOpened]

Ideal == INSTANCE IdealEval
           WITH next <- Slowest, value <- PlainValue, opened <- PublicValue

\* Every run of the three parties is a run of the plaintext program: gate by
\* gate the shares stand for the plaintext values, and what is opened is the
\* plaintext value at that point of the program.
ImplementsIdeal == Ideal!IdealSpec

\* All parties reach the end of the program.
Termination == <>Finished

=============================================================================
