---------------------------- MODULE ConvertAToB ----------------------------
(***************************************************************************)
(* convert_a_to_b_array: three parties turn arithmetic shares of x (words  *)
(* that add up to x) into boolean ones (words whose exclusive or is x).    *)
(*                                                                         *)
(* Each party plays a role of its own.  P1 deals boolean shares of x1 + x2 *)
(* and P3 of x3; two masks are made of the generators' pairs of words, one *)
(* known to P1 and one to P2, as is their share of the result; all add the *)
(* two sharings with boolean_addition_batch, and P3 is told the masked sum.*)
(* All messages have the same tag, those of the roles and of the exchanges.*)
(*                                                                         *)
(* Party p is a sequence of calls Script[p]: what it sends, what it        *)
(* receives and what it computes when both are done.                       *)
(***************************************************************************)
EXTENDS Integers, Sequences, FiniteSets, FiniteSetsExt, Functions, SequencesExt

CONSTANTS
  Width,       \* bits of a word
  Inputs,      \* arithmetic shares dealt to the parties, as numbers
  DealWords,   \* the words that randombytes_buf() fills in
  Random,      \* Random[p][n]: the n-th word of the generator of p's seed
  Eagers       \* numbers of messages that MPI may buffer on a channel

Party == 0 .. 2
Succ(p) == (p + 1) % 3
Pred(p) == (p + 2) % 3

Bits == 0 .. Width - 1
Word == SUBSET Bits      \* a word is the set of its bits that are 1
Zero == {}
Size == 2^Width

ASSUME ConvertAssumption ==
  /\ Width \in Nat /\ Width > 2
  /\ \A in \in Inputs : in \in [Party -> 0 .. Size - 1]
  /\ DealWords \subseteq Word
  /\ \A p \in Party : \A n \in 0 .. 3 * Width : Random[p][n] \in Word
  /\ Eagers \subseteq Nat

VARIABLES
  eager,    \* messages that MPI buffers on a channel
  input,    \* the shares of x, for the properties
  pc,       \* pc[p]: the call that p is in
  got,      \* got[p]: parties whose message for this call has arrived
  mem,      \* mem[p]: p's arrays, by name
  drawn,    \* drawn[p]: words p has drawn from each of its two generators
  channel   \* channel[<<p, q>>]: messages from p to q, with the array's name

vars == <<eager, input, pc, got, mem, drawn, channel>>

Array == {"xa1", "xa2", "xb1", "xb2", "w1", "w2", "r_temp", "r_temp2",
          "z12", "z13", "w13", "carry1", "carry2", "c1", "c2"}

-----------------------------------------------------------------------------
(* Words. *)

Xor(u, v) == SymDiff(u, v)
Number(u) == MapThenSumSet(LAMBDA b : 2^b, u)

\* Numbers wrap around.
WordOf(n) == {b \in Bits : (n \div 2^b) % 2 = 1}

\* get_bit
GetBit(u, b) == IF b \in u THEN {0} ELSE {}
ShiftLeft(u, n) == {b \in Bits : b - n \in u}

\* and_b, masked to the lowest bit as the adder does.
AndBit(x1, x2, y1, y2, rnum) ==
  Xor(Xor(x1 \cap y1, x1 \cap y2), Xor(x2 \cap y1, rnum)) \cap {0}

\* get_next_rb after n draws: the words of p's seed and of its predecessor's,
\* the remote one.
NextRb(p, n) == Xor(Random[p][n], Random[Pred(p)][n])
-----------------------------------------------------------------------------
(* What a party does between two calls, to its arrays m after n draws. *)

AndOf(p, n, u1, u2, v1, v2, b, c) ==
  AndBit(GetBit(u1, b), GetBit(u2, b), GetBit(v1, c), GetBit(v2, c), NextRb(p, n))

\* Mutant of CarryShare: the carry from the bit below does not count.
CarryShareAlone(p, m, n, b) ==
  AndOf(p, n, m["xa1"], m["xa2"], m["w1"], m["w2"], b, b)

\* p's share of the carry out of bit b: of two bits and the carry below them.
\* (c1 stands for the three products that the code sends; only their exclusive
\* or is used.)
CarryShare(p, m, n, b) ==
  LET xy == AndOf(p, n, m["xa1"], m["xa2"], m["w1"], m["w2"], b, b)
      xc == AndOf(p, n + 1, m["xa1"], m["xa2"], m["carry1"], m["carry2"], b, b - 1)
      yc == AndOf(p, n + 2, m["w1"], m["w2"], m["carry1"], m["carry2"], b, b - 1)
  IN  IF b = 0 THEN xy ELSE Xor(xy, Xor(xc, yc))

StartCarry(p, m, n) ==
  [m EXCEPT !["c1"] = CarryShare(p, m, n, 0), !["carry1"] = Zero, !["carry2"] = Zero]

\* The exchange of the carries of bit b is done: they are stored, and the next
\* round of boolean_addition_batch begins.
NextCarry(p, m, n, b) ==
  LET stored == [m EXCEPT !["carry1"] = @ \cup ShiftLeft(m["c1"] \cap {0}, b),
                          !["carry2"] = @ \cup ShiftLeft(m["c2"] \cap {0}, b)]
  IN  [stored EXCEPT !["c1"] = CarryShare(p, stored, n, b + 1)]

\* The last round has no exchange: the carries are added, and the sum is masked.
MaskedSum(m) ==
  LET carries == m["carry1"] \cup ShiftLeft(m["c1"], Width - 2)
      sum     == Xor(Xor(m["xa1"], m["w1"]), ShiftLeft(carries, 1))
  IN  [m EXCEPT !["r_temp2"] = sum,
                !["w1"] = Xor(sum, Xor(m["xb2"], m["r_temp"]))]

\* generate_bool_share
Deal(m, x, r, first, second, third) ==
  [m EXCEPT ![first] = r[1], ![second] = r[2], ![third] = Xor(x, Xor(r[1], r[2]))]

DealSum(m, r) ==
  LET sum == WordOf(Number(m["xa1"]) + Number(m["xa2"]))
  IN  Deal([m EXCEPT !["xa2"] = sum], sum, r, "xa1", "z12", "z13")

\* get_next_rb_pair_array
DrawPair(p, m, n, local, remote) ==
  [m EXCEPT ![local] = Random[p][n], ![remote] = Random[Pred(p)][n]]

XorInto(m, a, b, c) == [m EXCEPT ![a] = Xor(@, Xor(m[b], m[c]))]

\* Mutant of DrawsFor: P1 does not draw its second pair.
DrawsForRole(then) ==
  CASE then.do = "pair_R1" -> 1 [] then.do = "pair_R2" -> 1 [] then.do = "pairs" -> 2
    [] then.do = "start"   -> 1 [] then.do = "carry"   -> 3 [] OTHER -> 0

DrawsPair == {"pair_R1", "mask_R1_pair_R2", "pair_R2"}
DrawsFor(then) ==
  CASE then.do \in DrawsPair -> 1
    [] then.do = "pairs"     -> 2
    [] then.do = "start"     -> 1
    [] then.do = "carry"     -> 3
    [] OTHER                 -> 0

\* What is computed once a call is done.
After(p, m, n, then, r) ==
  CASE then.do = "deal_sum"        -> DealSum(m, r)
    [] then.do = "deal_x3"         -> Deal(m, m["xa1"], r, "w13", "w2", "w1")
    [] then.do = "pair_R1"         -> DrawPair(p, m, n, "xb2", "xb1")
    [] then.do = "pair_R2"         -> DrawPair(p, m, n, "r_temp", "xb1")
    [] then.do = "pairs"           -> DrawPair(p, DrawPair(p, m, n, "xb2", "xb1"),
                                               n + 1, "r_temp", "xb1")
    [] then.do = "mask_R1_pair_R2" -> DrawPair(p, XorInto(m, "xb1", "r_temp", "xb2"),
                                               n, "r_temp", "r_temp2")
    [] then.do = "mask_R2"         -> XorInto(m, "xb1", "r_temp2", "r_temp")
    [] then.do = "start"           -> StartCarry(p, m, n)
    [] then.do = "carry"           ->
         LET next == NextCarry(p, m, n, then.bit)
         IN  IF then.bit = Width - 3 THEN MaskedSum(next) ELSE next
    [] then.do = "unmask"          -> XorInto(m, "xb1", "xa1", "w1")
    [] OTHER                       -> m

-----------------------------------------------------------------------------
(* The script of a party.  A receive is written <<from, theirs, mine>>. *)

Then(do) == [do |-> do, bit |-> 0]
Call(sends, recvs, then) == [sends |-> sends, recvs |-> recvs, then |-> then]

Exchange(p, local, remote, then) ==
  Call({<<Pred(p), local>>}, {<<Succ(p), local, remote>>}, then)

\* Mutant of RoleP3: the mask is sent before the share of x3.
RoleP3Early ==
  << Call({}, {}, Then("deal_x3")),
     Call({}, {<<0, "z13", "xa1">>}, Then("pairs")),
     Call({<<1, "r_temp">>}, {}, Then("none")),
     Call({<<0, "w13">>, <<1, "w2">>}, {}, Then("none")) >>

\* Mutant of RoleP1: its shares are sent after those of x3 come in.
RoleP1Waits ==
  << Call({}, {}, Then("deal_sum")),
     Call({}, {<<2, "w13", "w1">>}, Then("pair_R1")),
     Call({<<1, "z12">>, <<2, "z13">>}, {}, Then("none")),
     Call({}, {<<1, "xb2", "r_temp">>}, Then("mask_R1_pair_R2")) >>

RoleP1 ==
  << Call({}, {}, Then("deal_sum")),
     Call({<<1, "z12">>, <<2, "z13">>}, {}, Then("none")),
     Call({}, {<<2, "w13", "w1">>}, Then("pair_R1")),
     Call({}, {<<1, "xb2", "r_temp">>}, Then("mask_R1_pair_R2")) >>

RoleP2 ==
  << Call({}, {<<0, "z12", "xa1">>, <<2, "w2", "w1">>}, Then("pair_R1")),
     Call({<<0, "xb2">>}, {}, Then("pair_R2")),
     Call({}, {<<2, "r_temp", "r_temp2">>}, Then("mask_R2")) >>

RoleP3 ==
  << Call({}, {}, Then("deal_x3")),
     Call({}, {<<0, "z13", "xa1">>}, Then("none")),
     Call({<<0, "w13">>, <<1, "w2">>}, {}, Then("pairs")),
     Call({<<1, "r_temp">>}, {}, Then("none")) >>

\* boolean_addition_batch: all rounds but the last have an exchange.
Addition(p) ==
  [n \in 1 .. Width - 2 |-> Exchange(p, "c1", "c2", [do |-> "carry", bit |-> n - 1])]

\* "reveal y to P3"
RevealSum(p) ==
  IF p = 2 THEN Call({}, {<<0, "w1", "xb1">>, <<1, "w1", "xa1">>}, Then("unmask"))
  ELSE Call({<<2, "w1">>}, {}, Then("none"))

Script ==
  [p \in Party |->
     (CASE p = 0 -> RoleP1 [] p = 1 -> RoleP2 [] p = 2 -> RoleP3)
     \o << Exchange(p, "xa1", "xa2", Then("none")), Exchange(p, "w1", "w2", Then("start")) >>
     \o Addition(p)
     \o << RevealSum(p), Exchange(p, "xb1", "xb2", Then("none")) >>]

-----------------------------------------------------------------------------
Running(p) == pc[p] <= Len(Script[p])
Current(p) == Script[p][pc[p]]

Init ==
  /\ eager \in Eagers
  /\ input \in Inputs
  /\ pc = [p \in Party |-> 1]
  /\ got = [p \in Party |-> {}]
  /\ mem = [p \in Party |-> [a \in Array |->
              CASE a = "xa1" -> WordOf(input[p]) [] a = "xa2" -> WordOf(input[Succ(p)])
                [] OTHER     -> Zero]]
  /\ drawn = [p \in Party |-> 0]
  /\ channel = [c \in Party \X Party |-> <<>>]

\* The receives of p's call for which there is a message.
Awaited(p) == {r \in Current(p).recvs : r[1] \notin got[p] /\ channel[<<r[1], p>>] # <<>>}

\* A message arrives where the call wants it: by its sender, for all have one tag.
Recv(p) ==
  /\ Running(p)
  /\ \E r \in Awaited(p) :
       LET c == <<r[1], p>>
       IN  /\ mem' = [mem EXCEPT ![p][r[3]] = Head(channel[c]).word]
           /\ channel' = [channel EXCEPT ![c] = Tail(@)]
           /\ got' = [got EXCEPT ![p] = @ \cup {r[1]}]
  /\ UNCHANGED <<eager, input, pc, drawn>>

\* MPI_Wait of all requests of the call.
Waited(p) ==
  /\ \A r \in Current(p).recvs : r[1] \in got[p]
  /\ \A s \in Current(p).sends : Len(channel[<<p, s[1]>>]) <= eager

Dealt(then) ==
  IF then.do \in {"deal_sum", "deal_x3"} THEN DealWords \X DealWords ELSE {<<Zero, Zero>>}

\* The call is done: the party computes on its arrays, and posts the sends of
\* the next call.
Return(p) ==
  /\ Running(p) /\ Waited(p)
  /\ LET then == Current(p).then
         next == pc[p] + 1
         sends == IF next > Len(Script[p]) THEN {} ELSE Script[p][next].sends
     IN  /\ \E r \in Dealt(then) : \E m \in {After(p, mem[p], drawn[p], then, r)} :
              /\ mem' = [mem EXCEPT ![p] = m]
              /\ channel' = [c \in Party \X Party |->
                   IF c[1] = p /\ \E s \in sends : s[1] = c[2]
                   THEN Append(channel[c],
                               LET s == CHOOSE s \in sends : s[1] = c[2]
                               IN  [array |-> s[2], word |-> m[s[2]]])
                   ELSE channel[c]]
         /\ drawn' = [drawn EXCEPT ![p] = @ + DrawsFor(then)]
         /\ pc' = [pc EXCEPT ![p] = next]
  /\ got' = [got EXCEPT ![p] = {}]
  /\ UNCHANGED <<eager, input>>

Finished == \A p \in Party : ~Running(p)

\* All parties have returned.
Returned == Finished /\ UNCHANGED vars

Step(p) == Recv(p) \/ Return(p)

Next == (\E p \in Party : Step(p)) \/ Returned

Spec == Init /\ [][Next]_vars

-----------------------------------------------------------------------------
(* Properties. *)

\* Although the messages of the roles and of the exchanges have one tag, and a
\* party may still be in its role when its neighbour is in the adder, each
\* message is taken as what it was sent for.
Matched ==
  \A p \in Party : Running(p) =>
    \A r \in Awaited(p) : Head(channel[<<r[1], p>>]).array = r[2]

\* The result is a boolean sharing of the number that the arithmetic shares
\* stand for, each share being held by two parties.
Converted ==
  Finished =>
    /\ Number(Xor(mem[0]["xb1"], Xor(mem[1]["xb1"], mem[2]["xb1"])))
         = (input[0] + input[1] + input[2]) % Size
    /\ \A p \in Party : mem[p]["xb2"] = mem[Succ(p)]["xb1"]

\* Whatever their roles, the parties leave the generators in step: each has
\* drawn equally often, or the shares of zero made from now on would not cancel.
StillInStep == Finished => \A p \in Party : drawn[p] = drawn[Succ(p)]

\* No role waits for another in a circle, even if MPI buffers nothing: until all
\* have returned, some party can take a message or return from its call.
SomeoneMoves ==
  Finished \/ \E p \in Party : Running(p) /\ (Awaited(p) # {} \/ Waited(p))

=============================================================================
