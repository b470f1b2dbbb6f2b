-------------------------- MODULE SecureEvalProofs --------------------------
(***************************************************************************)
(* Proofs about SecureEval, for every program, every ring, every number of *)
(* messages MPI buffers and all relative speeds of the parties.  First     *)
(* what is computed on shares.  Then, in part one: a message is taken by   *)
(* the call it was sent for, and what is in flight.                        *)
(* Part two: a remote share is the share of the successor, an opened value *)
(* is the one the shares stand for, and the steps of the parties are those *)
(* of the plaintext program.                                               *)
(***************************************************************************)
EXTENDS SecureEval, FiniteSetTheorems, TLAPS

-----------------------------------------------------------------------------
(* Shares: the local computations of primitives.cpp, sharing.cpp and       *)
(* party.cpp, over every commutative ring.                                 *)

\* Neighbours on the ring of three parties, spelled out.
LEMMA RingOfParties ==
  /\ Party = {0, 1, 2}
  /\ Succ(0) = 1 /\ Succ(1) = 2 /\ Succ(2) = 0
  /\ Pred(0) = 2 /\ Pred(1) = 0 /\ Pred(2) = 1
  /\ \A p \in Party : Succ(p) \in Party /\ Pred(p) \in Party
  /\ \A p \in Party : Pred(Succ(p)) = p /\ Succ(Pred(p)) = p
  /\ \A p \in Party : p # Succ(p) /\ p # Pred(p) /\ Succ(p) # Pred(p)
BY DEF Succ, Pred, Party

-----------------------------------------------------------------------------
(* Share vectors, one share per party, and their sums. *)

Shares == [Party -> Elem]
PlusS(s, t) == [p \in Party |-> Plus(s[p], t[p])]

LEMMA ReconstructType ==
  ASSUME NEW s \in Shares
  PROVE  /\ Reconstruct(s) \in Elem
         /\ s[0] \in Elem /\ s[1] \in Elem /\ s[2] \in Elem
BY RingClosed DEF Reconstruct, Party, Shares

LEMMA PlusSType ==
  ASSUME NEW s \in Shares, NEW t \in Shares
  PROVE  PlusS(s, t) \in Shares
BY RingClosed DEF PlusS, Shares

\* (a + b) + (c + d) = (a + c) + (b + d)
LEMMA Interchange ==
  ASSUME NEW a \in Elem, NEW b \in Elem, NEW c \in Elem, NEW d \in Elem
  PROVE  Plus(Plus(a, b), Plus(c, d)) = Plus(Plus(a, c), Plus(b, d))
<1>1. Plus(Plus(a, b), Plus(c, d)) = Plus(a, Plus(b, Plus(c, d)))
  BY RingClosed, RingAdditive
<1>2. Plus(b, Plus(c, d)) = Plus(c, Plus(b, d))
  BY RingClosed, RingAdditive
<1>3. Plus(a, Plus(c, Plus(b, d))) = Plus(Plus(a, c), Plus(b, d))
  BY RingClosed, RingAdditive
<1>4. QED  BY <1>1, <1>2, <1>3

\* xor_b and add: adding shares adds the values they stand for.
LEMMA ReconstructPlus ==
  ASSUME NEW s \in Shares, NEW t \in Shares
  PROVE  Reconstruct(PlusS(s, t)) = Plus(Reconstruct(s), Reconstruct(t))
<1>1. /\ s[0] \in Elem /\ s[1] \in Elem /\ s[2] \in Elem
      /\ t[0] \in Elem /\ t[1] \in Elem /\ t[2] \in Elem
      /\ Plus(s[0], s[1]) \in Elem /\ Plus(t[0], t[1]) \in Elem
  BY RingClosed, ReconstructType
<1>2. Plus(Plus(s[0], t[0]), Plus(s[1], t[1]))
        = Plus(Plus(s[0], s[1]), Plus(t[0], t[1]))
  BY <1>1, Interchange
<1>3. Plus(Plus(Plus(s[0], s[1]), Plus(t[0], t[1])), Plus(s[2], t[2]))
        = Plus(Plus(Plus(s[0], s[1]), s[2]), Plus(Plus(t[0], t[1]), t[2]))
  BY <1>1, Interchange
<1>4. /\ PlusS(s, t)[0] = Plus(s[0], t[0])
      /\ PlusS(s, t)[1] = Plus(s[1], t[1])
      /\ PlusS(s, t)[2] = Plus(s[2], t[2])
  BY DEF PlusS, Party
<1>5. QED  BY <1>2, <1>3, <1>4 DEF Reconstruct

\* Whose shares are read does not matter for the sum of all three.
LEMMA ReconstructRotate ==
  ASSUME NEW s \in Shares
  PROVE  Reconstruct([p \in Party |-> s[Pred(p)]]) = Reconstruct(s)
<1>1. /\ [p \in Party |-> s[Pred(p)]][0] = s[2]
      /\ [p \in Party |-> s[Pred(p)]][1] = s[0]
      /\ [p \in Party |-> s[Pred(p)]][2] = s[1]
  BY RingOfParties
<1>2. Plus(Plus(s[2], s[0]), s[1]) = Plus(Plus(s[0], s[1]), s[2])
  <2>1. /\ s[0] \in Elem /\ s[1] \in Elem /\ s[2] \in Elem
        /\ Plus(s[0], s[1]) \in Elem
    BY ReconstructType, RingClosed
  <2>2. Plus(Plus(s[2], s[0]), s[1]) = Plus(s[2], Plus(s[0], s[1]))
    BY <2>1, RingAdditive
  <2>3. QED  BY <2>1, <2>2, RingAdditive
<1>3. QED  BY <1>1, <1>2 DEF Reconstruct

LEMMA TimesReconstruct ==
  ASSUME NEW s \in Shares, NEW y \in Elem
  PROVE  /\ Times(y, Reconstruct(s))
              = Plus(Plus(Times(y, s[0]), Times(y, s[1])), Times(y, s[2]))
         /\ Times(Reconstruct(s), y) = Times(y, Reconstruct(s))
<1>1. /\ s[0] \in Elem /\ s[1] \in Elem /\ s[2] \in Elem
      /\ Reconstruct(s) \in Elem /\ Plus(s[0], s[1]) \in Elem
  BY RingClosed, ReconstructType
<1>2. Times(y, Reconstruct(s)) = Plus(Times(y, Plus(s[0], s[1])), Times(y, s[2]))
  BY <1>1, RingMultiplicative DEF Reconstruct
<1>3. Times(y, Plus(s[0], s[1])) = Plus(Times(y, s[0]), Times(y, s[1]))
  BY <1>1, RingMultiplicative
<1>4. Times(Reconstruct(s), y) = Times(y, Reconstruct(s))
  BY <1>1, RingMultiplicative
<1>5. QED  BY <1>2, <1>3, <1>4

-----------------------------------------------------------------------------
(* Sharing a value. *)

\* generate_bool_share and generate_int_share: whatever the two random words
\* are, the three shares stand for the value that was shared.
THEOREM GenerateShareCorrect ==
  ASSUME NEW x \in Elem, NEW r1 \in Elem, NEW r2 \in Elem
  PROVE  /\ GenerateShare(x, r1, r2) \in [Party -> Elem]
         /\ Reconstruct(GenerateShare(x, r1, r2)) = x
<1> DEFINE r == Plus(r1, r2)
<1>1. r \in Elem /\ Neg(r) \in Elem /\ Minus(x, r) \in Elem
  BY RingClosed DEF Minus
<1>2. GenerateShare(x, r1, r2) \in [Party -> Elem]
  BY <1>1 DEF GenerateShare
<1>3. Reconstruct(GenerateShare(x, r1, r2)) = Plus(r, Plus(x, Neg(r)))
  BY DEF GenerateShare, Reconstruct, Minus, Party
<1> HIDE DEF r
<1>4. Plus(r, Plus(x, Neg(r))) = Plus(x, Plus(r, Neg(r)))
  <2>1. Plus(x, Neg(r)) \in Elem /\ Plus(r, x) \in Elem
    BY <1>1, RingClosed
  <2>2. Plus(r, Plus(x, Neg(r))) = Plus(Plus(r, x), Neg(r))
    BY <1>1, RingAdditive
  <2>3. Plus(r, x) = Plus(x, r)
    BY <1>1, RingAdditive
  <2>4. Plus(Plus(x, r), Neg(r)) = Plus(x, Plus(r, Neg(r)))
    BY <1>1, RingAdditive
  <2>5. QED  BY <2>2, <2>3, <2>4
<1>5. Plus(x, Plus(r, Neg(r))) = x
  BY <1>1, RingAdditive
<1>6. QED  BY <1>2, <1>3, <1>4, <1>5

-----------------------------------------------------------------------------
(* Shares of zero. *)

\* get_next_r, get_next_rb and the array forms: when party p's remote
\* generator is the local generator of its predecessor, the three shares the
\* parties draw add up to zero.
THEOREM ZeroShares ==
  ASSUME NEW loc, NEW rem,
         \A p \in Party : Draw(loc[p]) \in Elem,
         \A p \in Party : Draw(rem[p]) = Draw(loc[Pred(p)])
  PROVE  /\ [p \in Party |-> NextR(loc[p], rem[p])] \in Shares
         /\ Reconstruct([p \in Party |-> NextR(loc[p], rem[p])]) = Zero
<1> DEFINE d == [p \in Party |-> Draw(loc[p])]
           e == [p \in Party |-> Neg(d[Pred(p)])]
           n == [p \in Party |-> Neg(d[p])]
<1>1. d \in Shares /\ e \in Shares /\ n \in Shares
  BY RingClosed, RingOfParties DEF Shares
<1>2. [p \in Party |-> NextR(loc[p], rem[p])] = PlusS(d, e)
  BY RingOfParties DEF NextR, Minus, PlusS
<1>3. Reconstruct(e) = Reconstruct(n)
  <2>1. e = [p \in Party |-> n[Pred(p)]]
    BY RingOfParties
  <2>2. QED  BY <1>1, <2>1, ReconstructRotate
<1>4. Plus(Reconstruct(d), Reconstruct(n)) = Zero
  <2>1. Plus(Reconstruct(d), Reconstruct(n)) = Reconstruct(PlusS(d, n))
    BY <1>1, ReconstructPlus
  <2>2. /\ PlusS(d, n)[0] = Plus(d[0], Neg(d[0]))
        /\ PlusS(d, n)[1] = Plus(d[1], Neg(d[1]))
        /\ PlusS(d, n)[2] = Plus(d[2], Neg(d[2]))
    BY DEF PlusS, Party
  <2> HIDE DEF d, n
  <2>3. /\ PlusS(d, n)[0] = Zero /\ PlusS(d, n)[1] = Zero
        /\ PlusS(d, n)[2] = Zero
    BY <1>1, <2>2, ReconstructType, RingAdditive
  <2>4. Plus(Plus(Zero, Zero), Zero) = Zero
    BY RingClosed, RingAdditive
  <2>5. QED  BY <2>1, <2>3, <2>4 DEF Reconstruct
<1> HIDE DEF d, e, n
<1>5. QED  BY <1>1, <1>2, <1>3, <1>4, ReconstructPlus, PlusSType

-----------------------------------------------------------------------------
(* Multiplying shared values. *)

\* (a + b) + c = (a + c) + b
LEMMA SwapLast ==
  ASSUME NEW a \in Elem, NEW b \in Elem, NEW c \in Elem
  PROVE  Plus(Plus(a, b), c) = Plus(Plus(a, c), b)
<1>1. Plus(Plus(a, b), c) = Plus(a, Plus(b, c))
  BY RingAdditive
<1>2. Plus(b, c) = Plus(c, b)
  BY RingAdditive
<1>3. Plus(a, Plus(c, b)) = Plus(Plus(a, c), b)
  BY RingAdditive
<1>4. QED  BY <1>1, <1>2, <1>3

\* and_b, and_bit and mul: each party multiplies its local share by both its
\* shares of the other factor, and its remote share by the local one.  The
\* nine cross products are each counted once, so with shares of zero added the
\* results are shares of the product.
THEOREM AndBCorrect ==
  ASSUME NEW x \in Shares, NEW y \in Shares, NEW r \in Shares,
         Reconstruct(r) = Zero
  PROVE  LET z == [p \in Party |->
                     AndB(x[p], Remote(x)[p], y[p], Remote(y)[p], r[p])]
         IN  /\ z \in Shares
             /\ Reconstruct(z) = Times(Reconstruct(x), Reconstruct(y))
<1> DEFINE z == [p \in Party |->
                   AndB(x[p], Remote(x)[p], y[p], Remote(y)[p], r[p])]
           a == [p \in Party |-> Times(x[p], y[p])]
           b == [p \in Party |-> Times(x[p], y[Succ(p)])]
           c == [p \in Party |-> Times(x[Succ(p)], y[p])]
           bb == [p \in Party |-> b[Pred(p)]]
           X == Reconstruct(x)
           col == [q \in Party |-> Times(X, y[q])]
<1>1. a \in Shares /\ b \in Shares /\ c \in Shares /\ bb \in Shares
  BY RingClosed, RingOfParties DEF Shares
<1>2. X \in Elem /\ col \in Shares
  BY RingClosed, ReconstructType DEF Shares
<1>3. z = PlusS(PlusS(PlusS(a, b), c), r)
  BY DEF PlusS, AndB, Remote
<1>4. \A q \in Party : col[q] = Plus(Plus(a[q], bb[q]), c[q])
  <2> SUFFICES ASSUME NEW q \in Party
               PROVE  Times(X, y[q]) = Plus(Plus(a[q], bb[q]), c[q])
    OBVIOUS
  <2> DEFINE t(i) == Times(x[i], y[q])
  <2>1. Times(X, y[q]) = Plus(Plus(t(0), t(1)), t(2))
    <3>1. x[0] \in Elem /\ x[1] \in Elem /\ x[2] \in Elem /\ y[q] \in Elem
      BY ReconstructType DEF Shares
    <3>2. Times(X, y[q]) = Plus(Plus(Times(y[q], x[0]), Times(y[q], x[1])),
                                Times(y[q], x[2]))
      BY <3>1, TimesReconstruct
    <3>3. \A i \in Party : Times(y[q], x[i]) = Times(x[i], y[q])
      BY <3>1, RingMultiplicative DEF Party, Shares
    <3>4. QED  BY <3>2, <3>3 DEF Party
  <2>2. /\ a[q] = t(q) /\ c[q] = t(Succ(q)) /\ bb[q] = t(Pred(q))
    BY RingOfParties
  <2>3. t(0) \in Elem /\ t(1) \in Elem /\ t(2) \in Elem
    BY RingClosed, ReconstructType DEF Shares
  <2> HIDE DEF t, X, a, bb, c
  <2>4. CASE q = 0
    <3>1. Plus(Plus(t(0), t(1)), t(2)) = Plus(Plus(t(0), t(2)), t(1))
      BY <2>3, SwapLast
    <3>2. QED  BY <2>1, <2>2, <2>4, <3>1, RingOfParties
  <2>5. CASE q = 1
    <3>1. Plus(t(0), t(1)) = Plus(t(1), t(0))
      BY <2>3, RingAdditive
    <3>2. QED  BY <2>1, <2>2, <2>5, <3>1, RingOfParties
  <2>6. CASE q = 2
    <3>1. Plus(t(0), t(1)) = Plus(t(1), t(0))
      BY <2>3, RingAdditive
    <3>2. Plus(Plus(t(1), t(0)), t(2)) = Plus(Plus(t(1), t(2)), t(0))
      BY <2>3, SwapLast
    <3>3. Plus(t(1), t(2)) = Plus(t(2), t(1))
      BY <2>3, RingAdditive
    <3>4. QED  BY <2>1, <2>2, <2>6, <3>1, <3>2, <3>3, RingOfParties
  <2>7. QED  BY <2>4, <2>5, <2>6, RingOfParties
<1>5. Times(X, Reconstruct(y)) = Reconstruct(col)
  BY <1>2, TimesReconstruct DEF Reconstruct, Party
<1>6. col = PlusS(PlusS(a, bb), c)
  BY <1>2, <1>4 DEF PlusS, Shares
<1> HIDE DEF a, b, c, bb, X, col, z
<1>7. Reconstruct(bb) = Reconstruct(b)
  BY <1>1, ReconstructRotate DEF bb
<1>8. Reconstruct(PlusS(PlusS(a, bb), c))
        = Plus(Plus(Reconstruct(a), Reconstruct(bb)), Reconstruct(c))
  BY <1>1, PlusSType, ReconstructPlus
<1>9. Reconstruct(PlusS(PlusS(PlusS(a, b), c), r))
        = Plus(Plus(Plus(Reconstruct(a), Reconstruct(b)), Reconstruct(c)), Zero)
  <2>1. PlusS(a, b) \in Shares /\ PlusS(PlusS(a, b), c) \in Shares
    BY <1>1, PlusSType
  <2>2. QED  BY <1>1, <2>1, ReconstructPlus
<1>10. Plus(Plus(Reconstruct(a), Reconstruct(b)), Reconstruct(c)) \in Elem
  BY <1>1, RingClosed, ReconstructType
<1>11. z \in Shares
  BY <1>1, <1>3, PlusSType
<1>12. Reconstruct(z) = Times(X, Reconstruct(y))
  BY <1>3, <1>5, <1>6, <1>7, <1>8, <1>9, <1>10, RingAdditive
<1>13. QED  BY <1>11, <1>12 DEF z, X

\* not_b: all three parties complement their share; as there is an odd number
\* of them the value is complemented, when two complements cancel (boolean).
THEOREM NotBCorrect ==
  ASSUME NEW s \in Shares, Plus(One, One) = Zero
  PROVE  /\ [p \in Party |-> NotB(s[p])] \in Shares
         /\ Reconstruct([p \in Party |-> NotB(s[p])]) = NotB(Reconstruct(s))
<1> DEFINE u == [p \in Party |-> One]
<1>1. u \in Shares
  BY RingClosed DEF Shares
<1>2. [p \in Party |-> NotB(s[p])] = PlusS(s, u)
  BY DEF PlusS, NotB
<1>3. Reconstruct(u) = One
  <2>1. Reconstruct(u) = Plus(Plus(One, One), One)
    BY DEF Reconstruct, Party
  <2>2. Plus(Zero, One) = Plus(One, Zero) /\ Plus(One, Zero) = One
    BY RingClosed, RingAdditive
  <2>3. QED  BY <2>1, <2>2
<1> HIDE DEF u
<1>4. QED  BY <1>1, <1>2, <1>3, ReconstructPlus, PlusSType DEF NotB

-----------------------------------------------------------------------------
(* The calls whose messages are on a channel from q to p.                  *)

CallsOn(q, p, t) ==
  {k \in Wire : Op(k) \in CommOp /\ p \in SendsTo(Op(k), q) /\ TagOf(Op(k)) = t}

Sent(q, p, t) ==
  {k \in CallsOn(q, p, t) : k < pc[q] \/ (k = pc[q] /\ p \in sentTo[q])}

Received(q, p, t) ==
  {k \in CallsOn(q, p, t) : k < pc[p] \/ (k = pc[p] /\ q \in gotFrom[p])}

\* The sequence s holds one message of each call in S, in the calls' order.
Fifo(s, S) ==
  /\ \A i \in 1 .. Len(s) : s[i].at \in S
  /\ \A i, j \in 1 .. Len(s) : i < j => s[i].at < s[j].at
  /\ \A k \in S : \E i \in 1 .. Len(s) : s[i].at = k

ChannelOK(q, p, t) ==
  /\ Received(q, p, t) \subseteq Sent(q, p, t)
  /\ Fifo(net[<<q, p, t>>], Sent(q, p, t) \ Received(q, p, t))

ChannelInv == \A q, p \in Party, t \in Tag : ChannelOK(q, p, t)

\* What a party has done of its current call is part of that call, and P1
\* answers in a reveal once it has both shares.
PhaseOK(p) ==
  /\ pc[p] \notin Wire \/ Op(pc[p]) \notin CommOp
       => sentTo[p] = {} /\ gotFrom[p] = {}
  /\ pc[p] \in Wire /\ Op(pc[p]) \in CommOp
       => /\ sentTo[p] \subseteq SendsTo(Op(pc[p]), p)
          /\ gotFrom[p] \subseteq RecvsFrom(Op(pc[p]), p)
          /\ p = 0 /\ Op(pc[p]) \in OpenOp /\ sentTo[p] # {}
               => gotFrom[p] = {1, 2}

PhaseInv == \A p \in Party : PhaseOK(p)

IInv == TypeOK /\ PhaseInv /\ ChannelInv

-----------------------------------------------------------------------------
(* Lemmas about messages in a channel. *)

LEMMA MessageAt ==
  ASSUME NEW m \in Message
  PROVE  /\ m.at \in Wire
         /\ m.words \in [Prog[m.at].ws -> Elem]
         /\ m = [at |-> m.at, words |-> m.words]
BY DEF Message

LEMMA FifoAppend ==
  ASSUME NEW s \in Seq(Message), NEW S, NEW m \in Message,
         Fifo(s, S), \A k \in S : k < m.at
  PROVE  Fifo(Append(s, m), S \cup {m.at})
<1> DEFINE n == Len(s)  r == Append(s, m)
<1>1. /\ n \in Nat /\ Len(r) = n + 1
      /\ \A i \in 1 .. n : r[i] = s[i]
      /\ r[n + 1] = m
  OBVIOUS
<1>2. ASSUME NEW i \in 1 .. n + 1 PROVE r[i].at \in S \cup {m.at}
  BY <1>1 DEF Fifo
<1>3. ASSUME NEW i \in 1 .. n + 1, NEW j \in 1 .. n + 1, i < j
      PROVE  r[i].at < r[j].at
  <2>1. CASE j = n + 1
    BY <1>1, <1>3, <2>1 DEF Fifo
  <2>2. CASE j # n + 1
    <3>1. i \in 1 .. n /\ j \in 1 .. n
      BY <1>1, <1>3, <2>2
    <3> QED BY <1>1, <1>3, <3>1 DEF Fifo
  <2> QED BY <2>1, <2>2
<1>4. ASSUME NEW k \in S \cup {m.at} PROVE \E i \in 1 .. n + 1 : r[i].at = k
  <2>1. CASE k = m.at
    BY <1>1, <2>1
  <2>2. CASE k \in S
    <3>1. PICK i \in 1 .. n : s[i].at = k
      BY <2>2 DEF Fifo
    <3> QED BY <1>1, <3>1
  <2> QED BY <2>1, <2>2
<1> HIDE DEF n, r
<1> QED BY <1>1, <1>2, <1>3, <1>4 DEF Fifo, r

LEMMA FifoHead ==
  ASSUME NEW s \in Seq(Message), NEW S, Fifo(s, S), s # <<>>
  PROVE  /\ Head(s) \in Message
         /\ Head(s).at \in S
         /\ \A k \in S : Head(s).at <= k
         /\ Fifo(Tail(s), S \ {Head(s).at})
<1> DEFINE n == Len(s)  r == Tail(s)
<1>1. /\ n \in Nat /\ n > 0 /\ Len(r) = n - 1
      /\ Head(s) = s[1] /\ s[1] \in Message
      /\ \A i \in 1 .. n - 1 : r[i] = s[i + 1]
  OBVIOUS
<1>2. \A i \in 1 .. n : s[i].at \in Wire
  BY MessageAt
<1>3. Head(s).at \in S
  BY <1>1 DEF Fifo
<1>4. ASSUME NEW k \in S PROVE Head(s).at <= k
  <2>1. PICK i \in 1 .. n : s[i].at = k
    BY DEF Fifo
  <2>2. CASE i = 1
    BY <1>1, <1>2, <2>1, <2>2 DEF Wire
  <2>3. CASE i # 1
    BY <1>1, <1>2, <2>1, <2>3 DEF Fifo, Wire
  <2> QED BY <2>2, <2>3
<1>5. ASSUME NEW i \in 1 .. n - 1 PROVE r[i].at \in S \ {Head(s).at}
  <2>1. 1 \in 1 .. n /\ i + 1 \in 1 .. n /\ 1 < i + 1
    BY <1>1
  <2>2. s[1].at < s[i + 1].at /\ s[i + 1].at \in S
    BY <2>1 DEF Fifo
  <2> QED BY <1>1, <1>2, <2>1, <2>2 DEF Wire
<1>6. ASSUME NEW i \in 1 .. n - 1, NEW j \in 1 .. n - 1, i < j
      PROVE  r[i].at < r[j].at
  <2>1. i + 1 \in 1 .. n /\ j + 1 \in 1 .. n /\ i + 1 < j + 1
    BY <1>1, <1>6
  <2>2. s[i + 1].at < s[j + 1].at
    BY <2>1 DEF Fifo
  <2> QED BY <1>1, <2>2
<1>7. ASSUME NEW k \in S \ {Head(s).at} PROVE \E i \in 1 .. n - 1 : r[i].at = k
  <2>1. PICK j \in 1 .. n : s[j].at = k
    BY DEF Fifo
  <2>2. j # 1 /\ j - 1 \in 1 .. n - 1
    BY <1>1, <2>1
  <2>3. r[j - 1] = s[j]
    BY <1>1, <2>2
  <2> QED BY <2>1, <2>2, <2>3
<1>8. Fifo(r, S \ {Head(s).at})
  <2> HIDE DEF n, r
  <2> QED BY <1>1, <1>5, <1>6, <1>7 DEF Fifo
<1> QED BY <1>1, <1>3, <1>4, <1>8

-----------------------------------------------------------------------------
(* Lemmas about programs and parties. *)

LEMMA ProgramFacts ==
  /\ Last \in Nat
  /\ \A k \in Wire : k \in Nat /\ k + 1 \in 1 .. Last + 1 /\ Prog[k] \in Call
  /\ \A k \in Wire : /\ Op(k) \in GateOp \cup CommOp
                     /\ Prog[k].ws \subseteq Wire
                     /\ Prog[k].a \in Wire /\ Prog[k].b \in Wire
                     /\ Prog[k].f \in LinearMap
<1>1. Prog \in Seq(Call)
  BY ProgramAssumption
<1>2. Last \in Nat /\ \A k \in Wire : Prog[k] \in Call
  BY <1>1 DEF Last, Wire
<1>3. \A k \in Wire : k \in Nat /\ k + 1 \in 1 .. Last + 1
  BY <1>2 DEF Wire
<1> QED BY <1>2, <1>3 DEF Call, Op

LEMMA PartyFacts ==
  /\ Party = {0, 1, 2}
  /\ \A p \in Party : Succ(p) \in Party /\ Pred(p) \in Party
  /\ \A p \in Party : Succ(Pred(p)) = p /\ Pred(Succ(p)) = p
  /\ Pred(0) = 2 /\ Pred(1) = 0 /\ Pred(2) = 1
  /\ Succ(0) = 1 /\ Succ(1) = 2 /\ Succ(2) = 0
BY DEF Party, Succ, Pred

\* A party receives from exactly the parties that send to it.
LEMMA Directions ==
  /\ \A op \in CommOp, p, q \in Party : q \in SendsTo(op, p) <=> p \in RecvsFrom(op, q)
  /\ \A op \in CommOp, p \in Party : SendsTo(op, p) \subseteq Party \ {p}
  /\ \A op \in CommOp : TagOf(op) \in Tag
BY PartyFacts DEF SendsTo, RecvsFrom, CommOp, ExchangeOp, OpenOp, TagOf, Tag

LEMMA RingOps ==
  /\ Zero \in Elem /\ One \in Elem
  /\ \A x, y \in Elem : Plus(x, y) \in Elem /\ Times(x, y) \in Elem
  /\ \A x, y \in Elem : Minus(x, y) \in Elem
BY RingClosed DEF Minus

LEMMA GateType ==
  ASSUME NEW k \in Wire, NEW v \in [Wire -> Elem]
  PROVE  GateValue(k, v) \in Elem
<1>1. v[Prog[k].a] \in Elem /\ v[Prog[k].b] \in Elem /\ v[k] \in Elem
  BY ProgramFacts
<1>2. Linear(Prog[k].f, v[Prog[k].a]) \in Elem
  BY <1>1, ProgramFacts, LinearAssumption
<1>3. NotB(v[Prog[k].a]) \in Elem
  BY <1>1, RingOps DEF NotB
<1>4. /\ Plus(v[Prog[k].a], v[Prog[k].b]) \in Elem
      /\ Times(v[Prog[k].a], v[Prog[k].b]) \in Elem
  BY <1>1, RingOps
<1> QED BY <1>1, <1>2, <1>3, <1>4 DEF GateValue

GenState == [seed : Seed, drawn : Nat]

LEMMA DrawType ==
  ASSUME NEW st \in GenState
  PROVE  Draw(st) \in Elem /\ Advance(st, 1) \in GenState
<1>1. st.seed \in Seed /\ st.drawn \in Nat
  BY DEF GenState
<1>2. st.drawn % Period \in 0 .. Period - 1
  BY <1>1, PRNGAssumption
<1>3. Draw(st) \in Elem
  BY <1>1, <1>2, PRNGAssumption DEF Draw
<1> QED BY <1>1, <1>3 DEF GenState, Advance

LEMMA AndType ==
  ASSUME TypeOK, NEW p \in Party, NEW k \in Wire
  PROVE  AndShare(p, k) \in Elem
<1>1. /\ local[p][Prog[k].a] \in Elem /\ remote[p][Prog[k].a] \in Elem
      /\ local[p][Prog[k].b] \in Elem /\ remote[p][Prog[k].b] \in Elem
  BY ProgramFacts, SMTT(30) DEF TypeOK
<1>2. prng[p].loc \in GenState /\ prng[p].rem \in GenState
  BY DEF TypeOK, GenState
<1>3. NextR(prng[p].loc, prng[p].rem) \in Elem
  BY <1>2, DrawType, RingOps DEF NextR
<1> QED BY <1>1, <1>3, RingOps DEF AndShare, AndB

-----------------------------------------------------------------------------
(* The message a party takes is the one its call waits for. *)

LEMMA HeadMatches ==
  ASSUME IInv, NEW p \in Party, NEW q \in Party,
         pc[p] \in Wire, Op(pc[p]) \in CommOp,
         q \in RecvsFrom(Op(pc[p]), p) \ gotFrom[p],
         net[<<q, p, TagOf(Op(pc[p]))>>] # <<>>
  PROVE  LET k == pc[p]
             t == TagOf(Op(k))
             c == <<q, p, t>>
             S == Sent(q, p, t) \ Received(q, p, t)
         IN  /\ Head(net[c]) \in Message
             /\ Head(net[c]).at = k
             /\ Fifo(Tail(net[c]), S \ {k})
             /\ k \in S
<1> DEFINE k == pc[p]  t == TagOf(Op(k))  c == <<q, p, t>>
           S == Sent(q, p, t) \ Received(q, p, t)
           m == Head(net[c])
<1>1. t \in Tag
  BY Directions
<1>2. net[c] \in Seq(Message)
  BY <1>1 DEF IInv, TypeOK, Channel
<1>3. Fifo(net[c], S)
  BY <1>1 DEF IInv, ChannelInv, ChannelOK
<1>4. m \in Message /\ m.at \in S /\ Fifo(Tail(net[c]), S \ {m.at})
  BY <1>2, <1>3, FifoHead
<1>5. \A j \in S : m.at <= j
  BY <1>2, <1>3, FifoHead
<1>6. k \in CallsOn(q, p, t)
  BY Directions DEF CallsOn
<1>7. m.at \in CallsOn(q, p, t) /\ m.at \in Wire /\ ~(m.at < k)
  BY <1>4 DEF Received, Sent, CallsOn
<1>8. k <= m.at
  BY <1>7, ProgramFacts
<1>9. k \in S
  <2>1. CASE m.at = k
    BY <1>4, <2>1
  <2>2. CASE m.at # k
    <3>1. pc[q] \in Nat
      BY DEF IInv, TypeOK
    <3>2. m.at <= pc[q]
      BY <1>4, <1>7, <3>1, ProgramFacts, SMTT(30) DEF Sent
    <3>3. k < pc[q]
      BY <1>7, <1>8, <2>2, <3>1, <3>2, ProgramFacts
    <3> QED BY <1>6, <3>3, ProgramFacts DEF Sent, Received
  <2> QED BY <2>1, <2>2
<1>10. m.at = k
  <2>1. m.at <= k
    BY <1>5, <1>9, Zenon
  <2>2. m.at \in Nat /\ k \in Nat
    BY <1>7, ProgramFacts
  <2> HIDE DEF k, t, c, S, m
  <2> QED BY <1>8, <2>1, <2>2
<1> QED BY <1>4, <1>9, <1>10

-----------------------------------------------------------------------------
(* The invariant holds initially. *)

LEMMA ShareType ==
  ASSUME NEW x \in Elem, NEW r1 \in Elem, NEW r2 \in Elem
  PROVE  \A p \in Party : GenerateShare(x, r1, r2)[p] \in Elem
BY RingOps DEF GenerateShare

LEMMA InitIInv == Init => IInv
<1> SUFFICES ASSUME Init PROVE IInv
  OBVIOUS
<1>0. pc = [p \in Party |-> 1] /\ sentTo = [p \in Party |-> {}]
      /\ gotFrom = [p \in Party |-> {}] /\ net = [c \in Channel |-> <<>>]
  BY DEF Init
<1>1. TypeOK
  <2>1. PICK x \in [Inputs -> InputValue], r1 \in [Inputs -> DealtWord],
             r2 \in [Inputs -> DealtWord] :
          /\ local = [p \in Party |-> [w \in Wire |->
                IF w \in Inputs THEN GenerateShare(x[w], r1[w], r2[w])[p] ELSE Zero]]
          /\ remote = [p \in Party |-> [w \in Wire |->
                IF w \in Inputs THEN GenerateShare(x[w], r1[w], r2[w])[Succ(p)]
                ELSE Zero]]
    BY DEF Init
  <2>2. \A w \in Inputs, p \in Party : GenerateShare(x[w], r1[w], r2[w])[p] \in Elem
    <3> TAKE w \in Inputs, p \in Party
    <3>1. x[w] \in Elem /\ r1[w] \in Elem /\ r2[w] \in Elem
      BY InputAssumption
    <3> QED BY <3>1, ShareType
  <2>3. local \in [Party -> [Wire -> Elem]] /\ remote \in [Party -> [Wire -> Elem]]
    <3>1. \A w \in Wire, p \in Party :
            (IF w \in Inputs THEN GenerateShare(x[w], r1[w], r2[w])[p] ELSE Zero) \in Elem
      BY <2>2, RingOps
    <3>2. \A w \in Wire, p \in Party :
            (IF w \in Inputs THEN GenerateShare(x[w], r1[w], r2[w])[Succ(p)]
             ELSE Zero) \in Elem
      BY <3>1, PartyFacts
    <3> QED BY <2>1, <3>1, <3>2
  <2>4. pc \in [Party -> 1 .. Last + 1]
    BY <1>0, ProgramFacts
  <2>5. prng \in [Party -> [loc : [seed : Seed, drawn : Nat],
                           rem : [seed : Seed, drawn : Nat]]]
    <3>1. PICK seed \in [Party -> Seed] :
            prng = [p \in Party |-> [loc |-> Stream(seed[p]), rem |-> Stream(seed[Pred(p)])]]
      BY DEF Init
    <3>2. \A p \in Party : seed[p] \in Seed /\ seed[Pred(p)] \in Seed
      BY PartyFacts
    <3>3. \A z \in Seed : Stream(z) \in [seed : Seed, drawn : Nat]
      BY DEF Stream
    <3> QED BY <3>1, <3>2, <3>3
  <2>6. /\ buffer \in [Party -> [Wire -> Elem]]
        /\ opened \in [Party -> [Wire -> Elem \cup {NotOpened}]]
    BY RingOps DEF Init
  <2>7. net \in [Channel -> Seq(Message)]
    BY <1>0
  <2> QED BY <1>0, <2>3, <2>4, <2>5, <2>6, <2>7 DEF TypeOK
<1>2. PhaseInv
  BY <1>0 DEF PhaseInv, PhaseOK
<1>3. ChannelInv
  <2>1. \A q, p \in Party, t \in Tag :
          Sent(q, p, t) = {} /\ Received(q, p, t) = {} /\ net[<<q, p, t>>] = <<>>
    BY <1>0, ProgramFacts DEF Sent, Received, CallsOn, Channel, Wire
  <2>2. Fifo(<<>>, {})
    BY DEF Fifo
  <2> QED BY <2>1, <2>2 DEF ChannelInv, ChannelOK
<1> QED BY <1>1, <1>2, <1>3 DEF IInv

-----------------------------------------------------------------------------
(* Steps. *)

\* A party goes on to the next call when it has done all of the current one.
LEMMA NextCallInv ==
  ASSUME IInv, NEW p \in Party, NEW k, k = pc[p], k \in Wire,
         pc' = [pc EXCEPT ![p] = k + 1],
         sentTo' = [sentTo EXCEPT ![p] = {}],
         gotFrom' = [gotFrom EXCEPT ![p] = {}],
         net' = net,
         Op(k) \in CommOp => /\ SendsTo(Op(k), p) \subseteq sentTo[p]
                             /\ gotFrom[p] = RecvsFrom(Op(k), p)
  PROVE  PhaseInv' /\ ChannelInv'
<1>1. /\ pc \in [Party -> 1 .. Last + 1]
      /\ sentTo \in [Party -> SUBSET Party] /\ gotFrom \in [Party -> SUBSET Party]
  BY DEF IInv, TypeOK
<1>2. PhaseInv'
  BY <1>1 DEF IInv, PhaseInv, PhaseOK
<1>3. ASSUME NEW q \in Party, NEW r \in Party, NEW t \in Tag
      PROVE  Sent(q, r, t)' = Sent(q, r, t)
  <2>1. CASE q # p
    BY <1>1, <2>1 DEF Sent, CallsOn
  <2>2. CASE q = p
    <3>1. pc'[q] = k + 1 /\ sentTo'[q] = {} /\ pc[q] = k /\ k \in Nat
      BY <1>1, <2>2, ProgramFacts
    <3>2. \A j \in CallsOn(q, r, t) : j \in Nat /\ (j = k => r \in sentTo[q])
      BY <2>2, ProgramFacts DEF CallsOn
    <3>3. \A j \in CallsOn(q, r, t) :
            (j < pc[q] \/ (j = pc[q] /\ r \in sentTo[q]))
              <=> (j < pc'[q] \/ (j = pc'[q] /\ r \in sentTo'[q]))
      BY <3>1, <3>2
    <3> QED BY <3>3 DEF Sent, CallsOn
  <2> QED BY <2>1, <2>2
<1>4. ASSUME NEW q \in Party, NEW r \in Party, NEW t \in Tag
      PROVE  Received(q, r, t)' = Received(q, r, t)
  <2>1. CASE r # p
    BY <1>1, <2>1 DEF Received, CallsOn
  <2>2. CASE r = p
    <3>1. pc'[r] = k + 1 /\ gotFrom'[r] = {} /\ pc[r] = k /\ k \in Nat
      BY <1>1, <2>2, ProgramFacts
    <3>2. \A j \in CallsOn(q, r, t) : j \in Nat /\ (j = k => q \in gotFrom[r])
      BY <2>2, ProgramFacts, Directions DEF CallsOn
    <3>3. \A j \in CallsOn(q, r, t) :
            (j < pc[r] \/ (j = pc[r] /\ q \in gotFrom[r]))
              <=> (j < pc'[r] \/ (j = pc'[r] /\ q \in gotFrom'[r]))
      BY <3>1, <3>2
    <3> QED BY <3>3 DEF Received, CallsOn
  <2> QED BY <2>1, <2>2
<1>5. ChannelInv'
  <2>1. ASSUME NEW q \in Party, NEW r \in Party, NEW t \in Tag
        PROVE  ChannelOK(q, r, t)'
    <3>1. ChannelOK(q, r, t)
      BY DEF IInv, ChannelInv
    <3> QED BY <1>3, <1>4, <3>1 DEF ChannelOK
  <2> QED BY <2>1 DEF ChannelInv
<1> QED BY <1>2, <1>5

LEMMA GateChannels ==
  ASSUME IInv, NEW p \in Party, pc[p] \in Wire, Op(pc[p]) \in GateOp,
         pc' = [pc EXCEPT ![p] = pc[p] + 1],
         UNCHANGED <<sentTo, gotFrom, net>>
  PROVE  PhaseInv' /\ ChannelInv'
<1>1. Op(pc[p]) \notin CommOp
  BY DEF GateOp, CommOp, ExchangeOp, OpenOp
<1>2. sentTo[p] = {} /\ gotFrom[p] = {}
  BY <1>1 DEF IInv, PhaseInv, PhaseOK
<1>3. /\ sentTo' = [sentTo EXCEPT ![p] = {}]
      /\ gotFrom' = [gotFrom EXCEPT ![p] = {}]
  BY <1>2 DEF IInv, TypeOK
<1> QED BY <1>1, <1>3, NextCallInv

\* A message that is sent is the youngest of its channel.
LEMMA SendInv ==
  ASSUME IInv, NEW p \in Party, NEW q \in Party, Send(p, q)
  PROVE  IInv'
<1> DEFINE k == pc[p]  t == TagOf(Op(k))  c == <<p, q, t>>
           m == [at |-> k, words |-> Payload(p, k)]
<1>1. /\ pc \in [Party -> 1 .. Last + 1] /\ sentTo \in [Party -> SUBSET Party]
      /\ gotFrom \in [Party -> SUBSET Party] /\ net \in [Channel -> Seq(Message)]
  BY DEF IInv, TypeOK
<1>2. /\ k \in Wire /\ Op(k) \in CommOp /\ q \in SendsTo(Op(k), p) \ sentTo[p]
      /\ MaySend(Op(k), p, q)
      /\ net' = [net EXCEPT ![c] = Append(@, m)]
      /\ sentTo' = [sentTo EXCEPT ![p] = @ \cup {q}]
      /\ UNCHANGED <<pc, local, remote, prng, gotFrom, buffer, opened>>
  BY DEF Send
<1>3. t \in Tag /\ c \in Channel
  BY <1>2, Directions DEF Channel
<1>4. m \in Message
  <2>1. Payload(p, k) \in [Prog[k].ws -> Elem]
    BY <1>2, ProgramFacts DEF Payload, IInv, TypeOK
  <2> QED BY <1>2, <2>1 DEF Message
<1>5. TypeOK'
  <2>1. net' \in [Channel -> Seq(Message)]
    BY <1>1, <1>2, <1>3, <1>4
  <2>2. sentTo' \in [Party -> SUBSET Party]
    BY <1>1, <1>2
  <2> QED BY <1>2, <2>1, <2>2 DEF IInv, TypeOK
<1>6. PhaseInv'
  <2>1. p = 0 /\ Op(k) \in OpenOp => gotFrom[p] = {1, 2}
    BY <1>2 DEF MaySend, RecvsFrom, OpenOp, ExchangeOp, SendsTo
  <2> QED BY <1>1, <1>2, <2>1 DEF IInv, PhaseInv, PhaseOK
<1>7. ASSUME NEW r \in Party, NEW s \in Party, NEW u \in Tag
      PROVE  ChannelOK(r, s, u)'
  <2>1. ChannelOK(r, s, u)
    BY DEF IInv, ChannelInv
  <2>2. Received(r, s, u)' = Received(r, s, u)
    BY <1>2 DEF Received, CallsOn
  <2>3. CASE <<r, s, u>> # c
    <3>1. Sent(r, s, u)' = Sent(r, s, u)
      BY <1>1, <1>2, <2>3 DEF Sent, CallsOn
    <3>2. net'[<<r, s, u>>] = net[<<r, s, u>>]
      BY <1>1, <1>2, <2>3 DEF Channel
    <3> QED BY <2>1, <2>2, <3>1, <3>2 DEF ChannelOK
  <2>4. CASE <<r, s, u>> = c
    <3>1. r = p /\ s = q /\ u = t
      BY <2>4
    <3>2. k \in CallsOn(p, q, t) /\ k \notin Sent(p, q, t)
      BY <1>2, ProgramFacts DEF Sent, CallsOn
    <3>3. Sent(r, s, u)' = Sent(r, s, u) \cup {k}
      BY <1>1, <1>2, <3>1, <3>2 DEF Sent, CallsOn
    <3>4. k \notin Received(p, q, t)
      BY <2>1, <3>1, <3>2 DEF ChannelOK
    <3>5. \A j \in Sent(p, q, t) : j < k
      BY <1>2, ProgramFacts DEF Sent, CallsOn
    <3>6. net'[c] = Append(net[c], m) /\ net[c] \in Seq(Message)
      BY <1>1, <1>2, <1>3
    <3>7. Fifo(net[c], Sent(p, q, t) \ Received(p, q, t))
      BY <2>1, <3>1 DEF ChannelOK
    <3>8. Fifo(Append(net[c], m), (Sent(p, q, t) \ Received(p, q, t)) \cup {k})
      <4>1. m.at = k
        OBVIOUS
      <4> HIDE DEF m, c, k
      <4>2. \A j \in Sent(p, q, t) \ Received(p, q, t) : j < m.at
        BY <3>5, <4>1
      <4>3. Fifo(Append(net[c], m), (Sent(p, q, t) \ Received(p, q, t)) \cup {m.at})
        BY <1>4, <3>6, <3>7, <4>2, FifoAppend
      <4> QED BY <4>1, <4>3
    <3>9. Sent(r, s, u)' \ Received(r, s, u)'
            = (Sent(r, s, u) \ Received(r, s, u)) \cup {k}
      BY <2>2, <3>1, <3>3, <3>4
    <3>10. Received(r, s, u)' \subseteq Sent(r, s, u)'
      BY <2>1, <2>2, <3>1, <3>3 DEF ChannelOK
    <3> QED BY <3>1, <3>6, <3>8, <3>9, <3>10 DEF ChannelOK
  <2> QED BY <2>3, <2>4
<1>8. ChannelInv'
  BY <1>7 DEF ChannelInv
<1> QED BY <1>5, <1>6, <1>8 DEF IInv

\* A message that is received is the oldest of its channel.
LEMMA RecvInv ==
  ASSUME IInv, NEW p \in Party, NEW q \in Party, Recv(p, q)
  PROVE  IInv'
<1> DEFINE k == pc[p]  t == TagOf(Op(k))  c == <<q, p, t>>  m == Head(net[c])
<1>1. /\ pc \in [Party -> 1 .. Last + 1] /\ sentTo \in [Party -> SUBSET Party]
      /\ gotFrom \in [Party -> SUBSET Party] /\ net \in [Channel -> Seq(Message)]
      /\ local \in [Party -> [Wire -> Elem]] /\ remote \in [Party -> [Wire -> Elem]]
      /\ buffer \in [Party -> [Wire -> Elem]]
  BY DEF IInv, TypeOK
<1>2. /\ k \in Wire /\ Op(k) \in CommOp /\ q \in RecvsFrom(Op(k), p) \ gotFrom[p]
      /\ net[c] # <<>>
      /\ net' = [net EXCEPT ![c] = Tail(@)]
      /\ gotFrom' = [gotFrom EXCEPT ![p] = @ \cup {q}]
      /\ UNCHANGED <<pc, local, prng, sentTo, opened>>
  BY DEF Recv
<1>3. t \in Tag /\ c \in Channel
  BY <1>2, Directions DEF Channel
<1>4. /\ m \in Message /\ m.at = k
      /\ Fifo(Tail(net[c]), (Sent(q, p, t) \ Received(q, p, t)) \ {k})
      /\ k \in Sent(q, p, t) \ Received(q, p, t)
  BY <1>2, HeadMatches
<1>5. m.words \in [Prog[k].ws -> Elem]
  BY <1>4, MessageAt
<1>6. TypeOK'
  <2>1. net' \in [Channel -> Seq(Message)]
    <3>1. Tail(net[c]) \in Seq(Message)
      BY <1>1, <1>2, <1>3
    <3> QED BY <1>1, <1>2, <3>1
  <2>2. gotFrom' \in [Party -> SUBSET Party]
    BY <1>1, <1>2
  <2>3. remote' \in [Party -> [Wire -> Elem]] /\ buffer' \in [Party -> [Wire -> Elem]]
    <3> HIDE DEF m
    <3>1. \A w \in Prog[k].ws : m.words[w] \in Elem
      BY <1>5
    <3>2. CASE Op(k) \in ExchangeOp
      <4>1. /\ remote' = [remote EXCEPT ![p] = [w \in Wire |->
                   IF w \in Prog[k].ws THEN m.words[w] ELSE @[w]]]
            /\ buffer' = buffer
        BY <3>2 DEF Recv, m
      <4> QED BY <1>1, <3>1, <4>1
    <3>3. CASE Op(k) \notin ExchangeOp
      <4>1. /\ buffer' = [buffer EXCEPT ![p] = [w \in Wire |->
                   IF w \notin Prog[k].ws THEN @[w]
                   ELSE IF p = 0 THEN Plus(Combined(p, w), m.words[w])
                   ELSE m.words[w]]]
            /\ remote' = remote
        BY <3>3 DEF Recv, m
      <4>2. \A w \in Wire : Combined(p, w) \in Elem
        BY <1>1 DEF Combined
      <4>3. \A w \in Prog[k].ws : Plus(Combined(p, w), m.words[w]) \in Elem
        BY <1>2, <3>1, <4>2, RingOps, ProgramFacts
      <4> QED BY <1>1, <3>1, <4>1, <4>3
    <3> QED BY <3>2, <3>3
  <2> QED BY <1>2, <2>1, <2>2, <2>3 DEF IInv, TypeOK
<1>7. PhaseInv'
  <2>1. PhaseOK(p) /\ gotFrom'[p] = gotFrom[p] \cup {q} /\ pc' = pc /\ sentTo' = sentTo
    BY <1>1, <1>2 DEF IInv, PhaseInv
  <2>2. p = 0 /\ Op(k) \in OpenOp => sentTo[p] = {}
    BY <1>2, <2>1 DEF PhaseOK, RecvsFrom, OpenOp, ExchangeOp
  <2>3. ASSUME NEW r \in Party PROVE PhaseOK(r)'
    <3>1. CASE r = p
      BY <1>2, <2>1, <2>2, <3>1 DEF PhaseOK
    <3>2. CASE r # p
      <4>1. gotFrom'[r] = gotFrom[r] /\ PhaseOK(r)
        BY <1>1, <1>2, <3>2 DEF IInv, PhaseInv
      <4> QED BY <2>1, <4>1 DEF PhaseOK
    <3> QED BY <3>1, <3>2
  <2> QED BY <2>3 DEF PhaseInv
<1>8. ASSUME NEW r \in Party, NEW s \in Party, NEW u \in Tag
      PROVE  ChannelOK(r, s, u)'
  <2>1. ChannelOK(r, s, u)
    BY DEF IInv, ChannelInv
  <2>2. Sent(r, s, u)' = Sent(r, s, u)
    BY <1>2 DEF Sent, CallsOn
  <2>3. CASE <<r, s, u>> # c
    <3>1. Received(r, s, u)' = Received(r, s, u)
      BY <1>1, <1>2, <2>3, Directions DEF Received, CallsOn
    <3>2. net'[<<r, s, u>>] = net[<<r, s, u>>]
      BY <1>1, <1>2, <2>3 DEF Channel
    <3> QED BY <2>1, <2>2, <3>1, <3>2 DEF ChannelOK
  <2>4. CASE <<r, s, u>> = c
    <3>1. r = q /\ s = p /\ u = t
      BY <2>4
    <3>2. Received(r, s, u)' = Received(r, s, u) \cup {k}
      BY <1>1, <1>2, <1>4, <3>1 DEF Received, Sent, CallsOn
    <3>3. Sent(r, s, u)' \ Received(r, s, u)'
            = (Sent(r, s, u) \ Received(r, s, u)) \ {k}
      BY <2>2, <3>1, <3>2
    <3>4. net'[c] = Tail(net[c])
      BY <1>1, <1>2, <1>3
    <3>5. Received(r, s, u)' \subseteq Sent(r, s, u)'
      BY <1>4, <2>1, <2>2, <3>1, <3>2 DEF ChannelOK
    <3> QED BY <1>4, <3>1, <3>3, <3>4, <3>5 DEF ChannelOK
  <2> QED BY <2>3, <2>4
<1>9. ChannelInv'
  BY <1>8 DEF ChannelInv
<1> QED BY <1>6, <1>7, <1>9 DEF IInv

LEMMA LinearGateInv ==
  ASSUME IInv, NEW p \in Party, LinearGate(p)
  PROVE  IInv'
<1> DEFINE k == pc[p]
<1>1. /\ k \in Wire /\ Op(k) \in GateOp
      /\ local' = [local EXCEPT ![p][k] = GateValue(k, local[p])]
      /\ remote' = [remote EXCEPT ![p][k] = GateValue(k, remote[p])]
      /\ pc' = [pc EXCEPT ![p] = k + 1]
      /\ UNCHANGED <<prng, sentTo, gotFrom, buffer, opened, net>>
  BY DEF LinearGate, RemoteGate, NextCall
<1>2. TypeOK'
  <2>1. /\ local[p] \in [Wire -> Elem] /\ remote[p] \in [Wire -> Elem]
        /\ local \in [Party -> [Wire -> Elem]] /\ remote \in [Party -> [Wire -> Elem]]
        /\ pc \in [Party -> 1 .. Last + 1]
    BY DEF IInv, TypeOK
  <2>2. GateValue(k, local[p]) \in Elem /\ GateValue(k, remote[p]) \in Elem
    BY <1>1, <2>1, GateType
  <2>3. local' \in [Party -> [Wire -> Elem]] /\ remote' \in [Party -> [Wire -> Elem]]
    <3> HIDE DEF k
    <3> QED BY <1>1, <2>1, <2>2
  <2>4. pc' \in [Party -> 1 .. Last + 1]
    BY <1>1, <2>1, ProgramFacts
  <2> QED BY <1>1, <2>3, <2>4 DEF IInv, TypeOK
<1>3. PhaseInv' /\ ChannelInv'
  BY <1>1, GateChannels
<1> QED BY <1>2, <1>3 DEF IInv

LEMMA AndGateInv ==
  ASSUME IInv, NEW p \in Party, AndGate(p)
  PROVE  IInv'
<1> DEFINE k == pc[p]
<1>1. /\ k \in Wire /\ Op(k) \in GateOp
      /\ local' = [local EXCEPT ![p][k] = AndShare(p, k)]
      /\ prng' = [prng EXCEPT ![p] = [loc |-> Advance(prng[p].loc, 1),
                                      rem |-> Advance(prng[p].rem, 1)]]
      /\ pc' = [pc EXCEPT ![p] = k + 1]
      /\ UNCHANGED <<remote, sentTo, gotFrom, buffer, opened, net>>
  BY DEF AndGate, NextCall, GateOp
<1>2. TypeOK'
  <2>1. /\ local \in [Party -> [Wire -> Elem]]
        /\ prng \in [Party -> [loc : GenState, rem : GenState]]
        /\ pc \in [Party -> 1 .. Last + 1]
    BY DEF IInv, TypeOK, GenState
  <2>2. AndShare(p, k) \in Elem
    BY <1>1, AndType DEF IInv
  <2>3. local' \in [Party -> [Wire -> Elem]]
    <3> HIDE DEF k
    <3> QED BY <1>1, <2>1, <2>2
  <2>4. prng' \in [Party -> [loc : GenState, rem : GenState]]
    <3>1. /\ Advance(prng[p].loc, 1) \in GenState
          /\ Advance(prng[p].rem, 1) \in GenState
      BY <2>1, DrawType
    <3> QED BY <1>1, <2>1, <3>1
  <2>5. pc' \in [Party -> 1 .. Last + 1]
    BY <1>1, <2>1, ProgramFacts
  <2> QED BY <1>1, <2>3, <2>4, <2>5 DEF IInv, TypeOK, GenState
<1>3. PhaseInv' /\ ChannelInv'
  BY <1>1, GateChannels
<1> QED BY <1>2, <1>3 DEF IInv

LEMMA ReturnInv ==
  ASSUME IInv, NEW p \in Party, Return(p)
  PROVE  IInv'
<1> DEFINE k == pc[p]
<1>1. /\ k \in Wire /\ Op(k) \in CommOp
      /\ gotFrom[p] = RecvsFrom(Op(k), p)
      /\ SendsTo(Op(k), p) \subseteq sentTo[p]
      /\ pc' = [pc EXCEPT ![p] = k + 1]
      /\ sentTo' = [sentTo EXCEPT ![p] = {}]
      /\ gotFrom' = [gotFrom EXCEPT ![p] = {}]
      /\ UNCHANGED <<local, remote, prng, buffer, net>>
  BY DEF Return, CallComplete, SendDone, NextCall
<1>2. PhaseInv' /\ ChannelInv'
  <2> HIDE DEF k
  <2>1. k = pc[p]
    BY DEF k
  <2> QED BY <1>1, <2>1, NextCallInv
<1>3. TypeOK'
  <2>1. /\ pc \in [Party -> 1 .. Last + 1]
        /\ sentTo \in [Party -> SUBSET Party] /\ gotFrom \in [Party -> SUBSET Party]
        /\ buffer \in [Party -> [Wire -> Elem]]
        /\ opened \in [Party -> [Wire -> Elem \cup {NotOpened}]]
    BY DEF IInv, TypeOK
  <2>2. opened' \in [Party -> [Wire -> Elem \cup {NotOpened}]]
    <3>1. CASE opened' = opened
      BY <2>1, <3>1
    <3>2. CASE opened' = [opened EXCEPT ![p] = [w \in Wire |->
                            IF w \in Prog[k].ws THEN buffer[p][w] ELSE @[w]]]
      <4> HIDE DEF k
      <4> QED BY <2>1, <3>2
    <3> QED BY <3>1, <3>2 DEF Return
  <2>3. pc' \in [Party -> 1 .. Last + 1]
    BY <1>1, <2>1, ProgramFacts
  <2>4. sentTo' \in [Party -> SUBSET Party] /\ gotFrom' \in [Party -> SUBSET Party]
    BY <1>1, <2>1
  <2> QED BY <1>1, <2>2, <2>3, <2>4 DEF IInv, TypeOK
<1> QED BY <1>2, <1>3 DEF IInv

LEMMA StepIInv == IInv /\ [Next]_vars => IInv'
<1> SUFFICES ASSUME IInv, [Next]_vars PROVE IInv'
  OBVIOUS
<1>1. ASSUME NEW p \in Party, LinearGate(p) PROVE IInv'
  BY <1>1, LinearGateInv
<1>2. ASSUME NEW p \in Party, AndGate(p) PROVE IInv'
  BY <1>2, AndGateInv
<1>3. ASSUME NEW p \in Party, NEW q \in Party, Send(p, q) PROVE IInv'
  BY <1>3, SendInv
<1>4. ASSUME NEW p \in Party, NEW q \in Party, Recv(p, q) PROVE IInv'
  BY <1>4, RecvInv
<1>5. ASSUME NEW p \in Party, Return(p) PROVE IInv'
  BY <1>5, ReturnInv
<1>6. CASE UNCHANGED vars
  <2>1. TypeOK'
    BY <1>6 DEF IInv, TypeOK, vars
  <2>2. PhaseInv'
    BY <1>6 DEF IInv, PhaseInv, PhaseOK, vars
  <2>3. ASSUME NEW q \in Party, NEW r \in Party, NEW t \in Tag
        PROVE  ChannelOK(q, r, t)'
    <3>1. ChannelOK(q, r, t)
      BY DEF IInv, ChannelInv
    <3>2. Sent(q, r, t)' = Sent(q, r, t) /\ Received(q, r, t)' = Received(q, r, t)
      BY <1>6 DEF Sent, Received, CallsOn, vars
    <3> QED BY <1>6, <3>1, <3>2 DEF ChannelOK, vars
  <2> QED BY <2>1, <2>2, <2>3 DEF IInv, ChannelInv
<1> QED BY <1>1, <1>2, <1>3, <1>4, <1>5, <1>6 DEF Next, Step, Terminated

-----------------------------------------------------------------------------
(* Theorems. *)

\* The inductive invariant: each channel holds, in order, exactly one message
\* of each call that its sender has reached and its receiver has not.
THEOREM Invariance == Spec => []IInv
<1>1. Init => IInv
  BY InitIInv
<1>2. IInv /\ [Next]_vars => IInv'
  BY StepIInv
<1> QED BY <1>1, <1>2, PTL DEF Spec

\* Type correctness of every variable and every message in transit.
THEOREM TypeCorrect == Spec => []TypeOK
<1>1. IInv => TypeOK
  BY DEF IInv
<1> QED BY <1>1, Invariance, PTL

\* The untagged messages of comm.cpp never reach a wrong call, for any program,
\* any relative speed of the parties and any amount of buffering in MPI.
THEOREM CallsMatched == Spec => []MatchedCalls
<1>1. IInv => MatchedCalls
  <2> SUFFICES ASSUME IInv, NEW p \in Party, NEW q \in Party,
                      pc[p] \in Wire, Op(pc[p]) \in CommOp,
                      q \in RecvsFrom(Op(pc[p]), p) \ gotFrom[p],
                      net[<<q, p, TagOf(Op(pc[p]))>>] # <<>>
               PROVE  Head(net[<<q, p, TagOf(Op(pc[p]))>>]).at = pc[p]
    BY DEF MatchedCalls
  <2> QED BY HeadMatches
<1> QED BY <1>1, Invariance, PTL

-----------------------------------------------------------------------------
(* How far the parties can drift apart. *)

\* What has been received has been sent.
LEMMA ReceivedSent ==
  ASSUME IInv, NEW p \in Party, NEW q \in Party, NEW k \in Wire,
         Op(k) \in CommOp, q \in RecvsFrom(Op(k), p),
         k < pc[p] \/ (k = pc[p] /\ q \in gotFrom[p])
  PROVE  /\ k <= pc[q]
         /\ k = pc[q] => p \in sentTo[q]
         /\ k \in Received(q, p, TagOf(Op(k)))
<1> DEFINE t == TagOf(Op(k))
<1>1. k \in CallsOn(q, p, t) /\ t \in Tag
  BY Directions DEF CallsOn
<1>2. k \in Received(q, p, t)
  BY <1>1 DEF Received
<1>3. k \in Sent(q, p, t)
  BY <1>1, <1>2 DEF IInv, ChannelInv, ChannelOK
<1> QED BY <1>2, <1>3, ProgramFacts DEF Sent, IInv, TypeOK

\* P1's answer in a reveal is on its way only when both shares are with P1.
LEMMA AnswerAfterShares ==
  ASSUME IInv, NEW k \in Wire, Op(k) \in {"reveal", "reveal_async"},
         NEW p \in Party, p # 0,
         k < pc[p] \/ (k = pc[p] /\ 0 \in gotFrom[p]),
         NEW q \in Party, q # 0
  PROVE  k <= pc[q] /\ k \in Received(q, 0, "open")
<1>1. /\ Op(k) \in CommOp /\ Op(k) \in OpenOp /\ TagOf(Op(k)) = "open"
      /\ 0 \in RecvsFrom(Op(k), p) /\ RecvsFrom(Op(k), 0) = {1, 2} /\ 0 \in Party
      /\ q \in {1, 2}
  BY PartyFacts DEF CommOp, OpenOp, ExchangeOp, TagOf, RecvsFrom
<1>2. k <= pc[0] /\ (k = pc[0] => p \in sentTo[0])
  BY <1>1, ReceivedSent
<1>3. k = pc[0] => gotFrom[0] = {1, 2}
  BY <1>1, <1>2 DEF IInv, PhaseInv, PhaseOK
<1>4. k < pc[0] \/ (k = pc[0] /\ q \in gotFrom[0])
  BY <1>1, <1>2, <1>3, ProgramFacts, SMTT(30) DEF IInv, TypeOK
<1> QED BY <1>1, <1>4, ReceivedSent

\* reveal_b and its array forms are barriers.
THEOREM RevealsAreBarriers == Spec => []RevealIsBarrier
<1>1. IInv => RevealIsBarrier
  <2> SUFFICES ASSUME IInv, NEW p \in Party, NEW q \in Party, NEW k \in Wire,
                      Op(k) \in {"reveal", "reveal_async"}, pc[p] > k
               PROVE  pc[q] >= k
    BY DEF RevealIsBarrier
  <2>1. pc[p] \in Nat /\ pc[q] \in Nat /\ k \in Nat /\ k < pc[p]
    BY ProgramFacts DEF IInv, TypeOK
  <2>2. Op(k) \in CommOp
    BY DEF CommOp, OpenOp
  <2>3. CASE p = q
    BY <2>1, <2>3
  <2>4. CASE p # q /\ (p = 0 \/ q = 0)
    <3>1. q \in RecvsFrom(Op(k), p)
      BY <2>4, PartyFacts DEF RecvsFrom, ExchangeOp
    <3> QED BY <2>1, <2>2, <3>1, ReceivedSent
  <2>5. CASE p # 0 /\ q # 0
    BY <2>1, <2>5, AnswerAfterShares
  <2> QED BY <2>3, <2>4, <2>5
<1> QED BY <1>1, Invariance, PTL

\* reveal_b_array_async never receives into a buffer that MPI is still reading.
THEOREM RevealBuffersFree == Spec => []RevealBufferFree
<1>1. IInv => RevealBufferFree
  <2> SUFFICES ASSUME IInv, NEW p \in Party \ {0}, pc[p] \in Wire,
                      Op(pc[p]) = "reveal_async", 0 \in gotFrom[p],
                      NEW i \in 1 .. Len(net[<<p, 0, "open">>]),
                      net[<<p, 0, "open">>][i].at = pc[p]
               PROVE  FALSE
    BY DEF RevealBufferFree
  <2>1. pc[p] \in Received(p, 0, "open")
    BY AnswerAfterShares
  <2>2. 0 \in Party /\ "open" \in Tag
    BY PartyFacts DEF Tag
  <2>3. ChannelOK(p, 0, "open")
    BY <2>2 DEF IInv, ChannelInv
  <2> QED BY <2>1, <2>3 DEF ChannelOK, Fifo
<1> QED BY <1>1, Invariance, PTL

\* A channel never holds more than three messages of exchange calls.
THEOREM ExchangesBounded == Spec => []ExchangesInFlight
<1>1. IInv => ExchangesInFlight
  <2> SUFFICES ASSUME IInv, NEW q \in Party, NEW p \in Party,
                      Len(net[<<q, p, "xchange">>]) > 3
               PROVE  FALSE
    <3>1. \A c \in Channel : c[3] = "xchange" =>
            \E q, p \in Party : c = <<q, p, "xchange">> /\ Len(net[c]) \in Nat
      BY DEF Channel, IInv, TypeOK
    <3> QED BY <3>1 DEF ExchangesInFlight
  <2> DEFINE s == net[<<q, p, "xchange">>]
  <2>0. "xchange" \in Tag /\ <<q, p, "xchange">> \in Channel
    BY DEF Tag, Channel
  <2>1. Len(s) \in Nat
    BY <2>0 DEF IInv, TypeOK
  <2>2. 1 \in 1 .. Len(s) /\ 2 \in 1 .. Len(s) /\ 3 \in 1 .. Len(s) /\ 4 \in 1 .. Len(s)
    BY <2>1
  <2>3. ChannelOK(q, p, "xchange")
    BY <2>0 DEF IInv, ChannelInv
  <2>4. /\ s[1].at < s[2].at /\ s[2].at < s[3].at /\ s[3].at < s[4].at
        /\ \A i \in 1 .. 4 : s[i].at \in Sent(q, p, "xchange") \ Received(q, p, "xchange")
    <3> HIDE DEF s
    <3>1. Fifo(s, Sent(q, p, "xchange") \ Received(q, p, "xchange"))
      BY <2>3 DEF ChannelOK, s
    <3>2. \A i \in 1 .. 4 : i \in 1 .. Len(s)
      BY <2>1, <2>2
    <3> QED BY <2>2, <3>1, <3>2 DEF Fifo
  <2>5. ASSUME NEW i \in 1 .. 4
        PROVE  /\ s[i].at \in Wire /\ Op(s[i].at) \in ExchangeOp /\ p = Pred(q)
               /\ s[i].at <= pc[q] /\ ~(s[i].at < pc[p])
    <3> DEFINE k == s[i].at
    <3>1. k \in Sent(q, p, "xchange") /\ k \notin Received(q, p, "xchange")
      BY <2>4
    <3> HIDE DEF k
    <3>2. k \in CallsOn(q, p, "xchange") /\ k <= pc[q] /\ ~(k < pc[p])
      BY <3>1, ProgramFacts DEF Sent, Received, CallsOn, IInv, TypeOK
    <3>3. k \in Wire /\ Op(k) \in ExchangeOp /\ p \in SendsTo(Op(k), q)
      BY <3>2 DEF CallsOn, TagOf
    <3> QED BY <3>2, <3>3 DEF SendsTo, k
  <2> DEFINE r == Succ(q)
  <2>6. r \in Party /\ Succ(r) = p /\ p = Pred(q)
    BY <2>5, PartyFacts
  <2>7. \A k \in Wire, x \in Party : Op(k) \in ExchangeOp /\ k < pc[x] => k <= pc[Succ(x)]
    BY ReceivedSent, PartyFacts DEF RecvsFrom, CommOp
  <2>8. pc[q] \in Nat /\ pc[p] \in Nat /\ pc[r] \in Nat /\ \A i \in 1 .. 4 : s[i].at \in Nat
    <3>1. \A i \in 1 .. 4 : s[i].at \in Nat
      BY <2>5, ProgramFacts
    <3> HIDE DEF s
    <3> QED BY <2>6, <3>1, SMTT(30) DEF IInv, TypeOK
  <2> DEFINE a(i) == s[i].at
  <2>9. /\ a(1) < a(2) /\ a(2) < a(3) /\ a(3) < a(4)
        /\ a(1) \in Nat /\ a(2) \in Nat /\ a(3) \in Nat /\ a(4) \in Nat
        /\ a(4) <= pc[q] /\ ~(a(1) < pc[p])
    BY <2>4, <2>5, <2>8
  <2>10. \A i \in 1 .. 4 : \A x \in Party : a(i) < pc[x] => a(i) <= pc[Succ(x)]
    BY <2>5, <2>7
  <2> HIDE DEF a, r, s
  <2>11. a(3) <= pc[r]
    <3>1. a(3) < pc[q]
      BY <2>8, <2>9
    <3> QED BY <2>10, <3>1 DEF r
  <2>12. a(2) <= pc[p]
    <3>1. a(2) < pc[r]
      BY <2>8, <2>9, <2>11
    <3> QED BY <2>6, <2>10, <3>1
  <2> QED BY <2>8, <2>9, <2>12
<1> QED BY <1>1, Invariance, PTL


-----------------------------------------------------------------------------
(* The inductive invariant. *)

\* The gates a party does on its remote shares as on its local ones.
LocalOp == {"xor", "not", "linear"}

\* What a message of party q with tag t holds for wire w: P1's messages in a
\* reveal are results, all others are local shares.
Said(q, t, w) ==
  IF q = 0 /\ t = "open" THEN Reconstruct(SharesOf(w)) ELSE local[q][w]

TrueOn(q, p, t) ==
  \A i \in 1 .. Len(net[<<q, p, t>>]) :
    \A w \in Prog[net[<<q, p, t>>][i].at].ws :
      net[<<q, p, t>>][i].words[w] = Said(q, t, w)

MessagesTrue == \A q, p \in Party, t \in Tag : TrueOn(q, p, t)

\* The remote shares that p's current exchange has received.
FetchedBy(p) ==
  pc[p] \in Wire /\ Op(pc[p]) \in ExchangeOp /\ Succ(p) \in gotFrom[p]
    => \A w \in Prog[pc[p]].ws : remote[p][w] = local[Succ(p)][w]

Fetched == \A p \in Party : FetchedBy(p)

\* What P1 has of wire w with the shares of the parties in S, or all have.
SumOf(S, w) ==
  IF S = {1} THEN Plus(local[0][w], local[1][w])
  ELSE IF S = {2} THEN Plus(local[0][w], local[2][w])
  ELSE Reconstruct(SharesOf(w))

SummedBy(p) ==
  pc[p] \in Wire /\ Op(pc[p]) \in OpenOp /\ gotFrom[p] # {}
    => \A w \in Prog[pc[p]].ws : buffer[p][w] = SumOf(gotFrom[p], w)

Summed == \A p \in Party : SummedBy(p)

InputsAgree == \A p \in Party, w \in Inputs : remote[p][w] = local[Succ(p)][w]

GateDone(p, k) ==
  Op(k) \in LocalOp /\ k < pc[p] => local[p][k] = GateValue(k, local[p])

GatesDone == \A p \in Party, k \in Wire : GateDone(p, k)

\* A replicated wire of p that its successor has not computed yet is one that
\* p could compute alone, from replicated wires.
MirrorOf(p, w) ==
  /\ w \in Wire /\ w < pc[p]
  /\ w < pc[Succ(p)] \/ w \in Inputs => remote[p][w] = local[Succ(p)][w]
  /\ ~(w < pc[Succ(p)]) /\ w \notin Inputs
       => /\ Op(w) \in LocalOp /\ Reads(w) \subseteq Replicated[pc[p]]
          /\ remote[p][w] = GateValue(w, remote[p])

Mirrors == \A p \in Party : \A w \in Replicated[pc[p]] : MirrorOf(p, w)

KnownBy(p, w) ==
  opened[p][w] # NotOpened
    => opened[p][w] = Reconstruct(SharesOf(w)) /\ \A q \in Party : w < pc[q]

OpenedKnown == \A p \in Party, w \in Wire : KnownBy(p, w)

RInv == /\ IInv /\ MessagesTrue /\ Fetched /\ Summed
        /\ InputsAgree /\ GatesDone /\ Mirrors /\ OpenedKnown

-----------------------------------------------------------------------------
(* Lemmas about programs. *)

\* Calls read only what earlier gates computed.
LEMMA ReadsBefore ==
  ASSUME NEW k \in Wire
  PROVE  /\ k \in Nat
         /\ \A w \in Reads(k) : w \in Wire /\ w \in Nat /\ w < k /\ Op(w) \in GateOp
         /\ Op(k) \in CommOp => Prog[k].ws = Reads(k)
<1>1. Reads(k) \subseteq Computed(k)
  BY ProgramAssumption
<1>2. Op(k) \in CommOp => Prog[k].ws = Reads(k)
  BY DEF Reads, CommOp, ExchangeOp, OpenOp
<1> QED BY <1>1, <1>2, ProgramFacts DEF Computed

LEMMA OpKinds ==
  ASSUME NEW k \in Wire
  PROVE  /\ Op(k) \in LocalOp => Op(k) \in GateOp \ {"and", "input"}
         /\ Op(k) \in CommOp => Op(k) \notin GateOp
         /\ Op(k) \in GateOp \ {"and"} => Op(k) \in LocalOp \/ Op(k) = "input"
         /\ k \in Inputs <=> Op(k) = "input"
         /\ Op(k) \in OpenOp => Op(k) \notin ExchangeOp /\ Op(k) \in CommOp
         /\ Op(k) \in ExchangeOp => Op(k) \in CommOp
BY DEF LocalOp, GateOp, CommOp, ExchangeOp, OpenOp, Inputs

\* A gate looks at nothing but the wires it reads.
LEMMA GateReads ==
  ASSUME NEW k \in Wire, Op(k) \in LocalOp, NEW u, NEW v,
         \A w \in Reads(k) : u[w] = v[w]
  PROVE  GateValue(k, u) = GateValue(k, v)
<1>1. Op(k) = "xor" => u[Prog[k].a] = v[Prog[k].a] /\ u[Prog[k].b] = v[Prog[k].b]
  BY DEF Reads, CommOp, ExchangeOp, OpenOp
<1>2. Op(k) \in {"not", "linear"} => u[Prog[k].a] = v[Prog[k].a]
  BY DEF Reads, CommOp, ExchangeOp, OpenOp
<1> QED BY <1>1, <1>2 DEF GateValue, LocalOp

\* What becomes replicated with a call.
LEMMA ReplicatedNext ==
  ASSUME NEW k \in Wire
  PROVE  /\ Replicated[k] \subseteq Replicated[k + 1]
         /\ Op(k) = "input" => Replicated[k + 1] = Replicated[k] \cup {k}
         /\ Op(k) \in LocalOp /\ Reads(k) \subseteq Replicated[k]
              => Replicated[k + 1] = Replicated[k] \cup {k}
         /\ Op(k) \in LocalOp /\ ~(Reads(k) \subseteq Replicated[k])
              => Replicated[k + 1] = Replicated[k]
         /\ Op(k) \in ExchangeOp => Replicated[k + 1] = Replicated[k] \cup Reads(k)
         /\ Op(k) = "and" \/ Op(k) \in OpenOp => Replicated[k + 1] = Replicated[k]
<1>1. Replicated[k + 1] = Replicated[k] \cup NewlyReplicated(k, Replicated[k])
  BY ProgramAssumption
<1>2. Op(k) \in ExchangeOp => Reads(k) = Prog[k].ws
  BY ReadsBefore, OpKinds
<1> QED BY <1>1, <1>2 DEF NewlyReplicated, LocalOp, ExchangeOp, OpenOp

-----------------------------------------------------------------------------
(* Lemmas about steps. *)

LEMMA Types ==
  ASSUME IInv
  PROVE  /\ pc \in [Party -> 1 .. Last + 1]
         /\ \A p \in Party : pc[p] \in Nat
         /\ local \in [Party -> [Wire -> Elem]]
         /\ remote \in [Party -> [Wire -> Elem]]
         /\ sentTo \in [Party -> SUBSET Party]
         /\ gotFrom \in [Party -> SUBSET Party]
         /\ buffer \in [Party -> [Wire -> Elem]]
         /\ opened \in [Party -> [Wire -> Elem \cup {NotOpened}]]
         /\ net \in [Channel -> Seq(Message)]
BY ProgramFacts DEF IInv, TypeOK

\* A step of party r: only r moves, and only by one call; r writes no share but
\* the one of the call it is at.
LEMMA StepShape ==
  ASSUME IInv, NEW r \in Party, Step(r)
  PROVE  /\ \A p \in Party \ {r} : /\ pc'[p] = pc[p] /\ local'[p] = local[p]
                                   /\ remote'[p] = remote[p]
                                   /\ gotFrom'[p] = gotFrom[p]
                                   /\ buffer'[p] = buffer[p]
                                   /\ opened'[p] = opened[p]
         /\ pc'[r] \in {pc[r], pc[r] + 1}
         /\ pc[r] \in Wire
         /\ \A w \in Wire \ {pc[r]} : local'[r][w] = local[r][w]
<1>1. CASE LinearGate(r)
  BY <1>1, Types DEF LinearGate, NextCall
<1>2. CASE AndGate(r)
  BY <1>2, Types DEF AndGate, NextCall
<1>3. CASE Return(r)
  <2>1. \A p \in Party \ {r} : opened'[p] = opened[p]
    BY <1>3, Types DEF Return
  <2> QED BY <1>3, <2>1, Types DEF Return, NextCall
<1>4. CASE \E q \in Party : Send(r, q)
  BY <1>4, Types DEF Send
<1>5. CASE \E q \in Party : Recv(r, q)
  <2>1. \A p \in Party \ {r} : remote'[p] = remote[p] /\ buffer'[p] = buffer[p]
    BY <1>5, Types DEF Recv
  <2> QED BY <1>5, <2>1, Types DEF Recv
<1> QED BY <1>1, <1>2, <1>3, <1>4, <1>5 DEF Step

\* A share that has been computed is not written again.
LEMMA SharesStay ==
  ASSUME IInv, NEW r \in Party, Step(r), NEW w \in Wire
  PROVE  /\ \A p \in Party : w < pc[p] => local'[p][w] = local[p][w] /\ w < pc'[p]
         /\ (\A p \in Party : w < pc[p])
              => Reconstruct(SharesOf(w))' = Reconstruct(SharesOf(w))
<1>1. w \in Nat /\ \A p \in Party : pc[p] \in Nat
  BY ProgramFacts, Types
<1>2. ASSUME NEW p \in Party, w < pc[p]
      PROVE  local'[p][w] = local[p][w] /\ w < pc'[p]
  <2>1. CASE p = r
    <3>1. w # pc[r] /\ pc'[r] \in {pc[r], pc[r] + 1}
      BY <1>1, <1>2, <2>1, StepShape
    <3> QED BY <1>1, <1>2, <2>1, <3>1, StepShape
  <2>2. CASE p # r
    BY <1>2, <2>2, StepShape
  <2> QED BY <2>1, <2>2
<1>3. (\A p \in Party : w < pc[p])
        => Reconstruct(SharesOf(w))' = Reconstruct(SharesOf(w))
  BY <1>2, RingOfParties DEF Reconstruct, SharesOf
<1> QED BY <1>2, <1>3

-----------------------------------------------------------------------------
(* What a message, or a call that has received one, speaks of is settled. *)

\* What P1 has from a party in an open or a reveal has been sent by it.
LEMMA SharesArrived ==
  ASSUME IInv, NEW k \in Wire, Op(k) \in OpenOp,
         k < pc[0] \/ (k = pc[0] /\ gotFrom[0] = {1, 2})
  PROVE  \A q \in Party : k <= pc[q]
<1>1. Op(k) \in CommOp /\ RecvsFrom(Op(k), 0) = {1, 2} /\ 0 \in Party
  BY OpKinds, PartyFacts DEF RecvsFrom
<1>2. \A q \in {1, 2} : k <= pc[q]
  BY <1>1, ReceivedSent, PartyFacts
<1>3. k <= pc[0]
  BY <1>1, Types, ProgramFacts
<1> QED BY <1>2, <1>3, PartyFacts

LEMMA SentSettled ==
  ASSUME IInv, NEW q \in Party, NEW p \in Party, NEW t \in Tag,
         NEW i \in 1 .. Len(net[<<q, p, t>>]),
         NEW w \in Prog[net[<<q, p, t>>][i].at].ws
  PROVE  /\ w \in Wire /\ w < pc[q]
         /\ q = 0 /\ t = "open" => \A x \in Party : w < pc[x]
<1> DEFINE k == net[<<q, p, t>>][i].at
<1>1. k \in Sent(q, p, t)
  BY DEF IInv, ChannelInv, ChannelOK, Fifo
<1> HIDE DEF k
<1>2. /\ k \in Wire /\ Op(k) \in CommOp /\ p \in SendsTo(Op(k), q) /\ TagOf(Op(k)) = t
      /\ k < pc[q] \/ (k = pc[q] /\ p \in sentTo[q])
  BY <1>1 DEF Sent, CallsOn
<1>3. w \in Wire /\ w \in Nat /\ k \in Nat /\ w < k /\ \A x \in Party : pc[x] \in Nat
  BY <1>2, ReadsBefore, Types DEF k
<1>4. w < pc[q]
  BY <1>2, <1>3
<1>5. ASSUME q = 0, t = "open", NEW x \in Party PROVE w < pc[x]
  <2>1. Op(k) \in OpenOp
    BY <1>2, <1>5 DEF TagOf, CommOp
  <2>2. k = pc[0] => gotFrom[0] = {1, 2}
    BY <1>2, <1>3, <1>5, <2>1 DEF IInv, PhaseInv, PhaseOK
  <2>3. k <= pc[x]
    BY <1>2, <1>5, <2>1, <2>2, SharesArrived
  <2> QED BY <1>3, <2>3
<1> QED BY <1>3, <1>4, <1>5

LEMMA GotSettled ==
  ASSUME IInv, NEW p \in Party, NEW q \in gotFrom[p],
         pc[p] \in Wire, Op(pc[p]) \in CommOp, NEW w \in Prog[pc[p]].ws
  PROVE  /\ q \in Party /\ w \in Wire /\ w < pc[p] /\ w < pc[q]
         /\ Op(pc[p]) \in OpenOp /\ (p = 0 => gotFrom[p] = {1, 2})
              => \A x \in Party : w < pc[x]
<1> DEFINE k == pc[p]
<1>1. q \in Party /\ q \in RecvsFrom(Op(k), p)
  BY Types DEF IInv, PhaseInv, PhaseOK
<1>2. w \in Wire /\ w \in Nat /\ k \in Nat /\ w < k /\ \A x \in Party : pc[x] \in Nat
  BY ReadsBefore, Types
<1>3. k <= pc[q]
  BY <1>1, ReceivedSent
<1>4. ASSUME Op(k) \in OpenOp, p = 0 => gotFrom[p] = {1, 2}, NEW x \in Party
      PROVE  k <= pc[x]
  <2>1. CASE p = 0
    BY <1>4, <2>1, SharesArrived
  <2>2. CASE p # 0
    <3>1. Op(k) \in {"reveal", "reveal_async"} /\ 0 \in gotFrom[p]
      BY <1>1, <1>4, <2>2, OpKinds DEF RecvsFrom, OpenOp
    <3>2. CASE x # 0
      BY <2>2, <3>1, <3>2, AnswerAfterShares
    <3>3. CASE x = 0
      BY <1>1, <1>3, <3>3, <3>1, <2>2, OpKinds, <1>4 DEF RecvsFrom
    <3> QED BY <3>2, <3>3
  <2> QED BY <2>1, <2>2
<1> QED BY <1>1, <1>2, <1>3, <1>4

LEMMA GatesReceiveNothing ==
  ASSUME IInv, NEW p \in Party, pc[p] \in Wire, Op(pc[p]) \in GateOp
  PROVE  gotFrom[p] = {}
BY OpKinds DEF IInv, PhaseInv, PhaseOK

-----------------------------------------------------------------------------
(* Each part of the invariant is preserved by a step of a party r. *)

LEMMA SaidStays ==
  ASSUME IInv, NEW r \in Party, Step(r),
         NEW q \in Party, NEW p \in Party, NEW t \in Tag,
         NEW i \in 1 .. Len(net[<<q, p, t>>]),
         NEW w \in Prog[net[<<q, p, t>>][i].at].ws
  PROVE  Said(q, t, w)' = Said(q, t, w)
BY SentSettled, SharesStay DEF Said

\* What r sends is its share, or the value it has put together.
LEMMA SendsTruth ==
  ASSUME RInv, NEW r \in Party, NEW x \in Party, Send(r, x),
         NEW t, t = TagOf(Op(pc[r])), NEW w \in Prog[pc[r]].ws
  PROVE  Payload(r, pc[r])[w] = Said(r, t, w)'
<1> DEFINE k == pc[r]
<1>1. /\ k \in Wire /\ Op(k) \in CommOp /\ local' = local
      /\ MaySend(Op(k), r, x) /\ x \in SendsTo(Op(k), r)
  BY DEF Send
<1>2. Said(r, t, w)' = Said(r, t, w)
  BY <1>1 DEF Said, SharesOf, Reconstruct
<1>3. CASE Op(k) \in OpenOp /\ r = 0
  <2>1. gotFrom[0] = {1, 2}
    BY <1>1, <1>3, OpKinds DEF MaySend, RecvsFrom
  <2>2. buffer[0][w] = Reconstruct(SharesOf(w))
    BY <1>1, <1>3, <2>1, PartyFacts DEF RInv, Summed, SummedBy, SumOf
  <2>3. t = "open"
    BY <1>1, <1>3, OpKinds DEF TagOf
  <2>4. Payload(r, k)[w] = buffer[0][w]
    BY <1>3 DEF Payload
  <2> QED BY <1>2, <1>3, <2>2, <2>3, <2>4 DEF Said
<1>4. CASE ~(Op(k) \in OpenOp /\ r = 0)
  <2>1. r = 0 => t # "open"
    BY <1>1, <1>4 DEF TagOf, CommOp
  <2>2. Payload(r, k)[w] = local[r][w]
    BY <1>4 DEF Payload
  <2> QED BY <1>2, <2>1, <2>2 DEF Said
<1> QED BY <1>3, <1>4

LEMMA MessagesStep ==
  ASSUME RInv, NEW r \in Party, Step(r)
  PROVE  MessagesTrue'
<1> SUFFICES ASSUME NEW q \in Party, NEW p \in Party, NEW t \in Tag
             PROVE  TrueOn(q, p, t)'
  BY DEF MessagesTrue
<1> DEFINE c == <<q, p, t>>
<1>1. /\ c \in Channel /\ net \in [Channel -> Seq(Message)] /\ net[c] \in Seq(Message)
      /\ Len(net[c]) \in Nat
  BY Types DEF RInv, Channel
<1>2. ASSUME NEW i \in 1 .. Len(net[c]), NEW w \in Prog[net[c][i].at].ws
      PROVE  net[c][i].words[w] = Said(q, t, w)'
  BY SaidStays DEF RInv, MessagesTrue, TrueOn
<1>3. CASE net'[c] = net[c]
  BY <1>2, <1>3 DEF TrueOn
<1>4. ASSUME NEW x \in Party, Send(r, x), net'[c] # net[c]
      PROVE  TrueOn(q, p, t)'
  <2> DEFINE k == pc[r]  m == [at |-> k, words |-> Payload(r, k)]
  <2>1. c = <<r, x, TagOf(Op(k))>> /\ net'[c] = Append(net[c], m)
    BY <1>1, <1>4 DEF Send
  <2>2. q = r /\ p = x /\ t = TagOf(Op(k))
    BY <2>1
  <2>3. \A w \in Prog[m.at].ws : m.words[w] = Said(q, t, w)'
    BY <1>4, <2>2, SendsTruth
  <2> HIDE DEF m
  <2>4. /\ Len(net'[c]) = Len(net[c]) + 1 /\ net'[c][Len(net[c]) + 1] = m
        /\ \A i \in 1 .. Len(net[c]) : net'[c][i] = net[c][i]
    BY <1>1, <2>1
  <2>5. ASSUME NEW i \in 1 .. Len(net'[c]), NEW w \in Prog[net'[c][i].at].ws
        PROVE  net'[c][i].words[w] = Said(q, t, w)'
    <3>1. CASE i \in 1 .. Len(net[c])
      BY <1>2, <2>4, <3>1
    <3>2. CASE i = Len(net[c]) + 1
      BY <2>3, <2>4, <3>2
    <3> QED BY <1>1, <2>4, <3>1, <3>2
  <2> QED BY <2>5 DEF TrueOn
<1>5. ASSUME NEW x \in Party, Recv(r, x), net'[c] # net[c]
      PROVE  TrueOn(q, p, t)'
  <2>1. net'[c] = Tail(net[c]) /\ net[c] # <<>>
    BY <1>1, <1>5 DEF Recv
  <2>2. /\ Len(net'[c]) = Len(net[c]) - 1
        /\ \A i \in 1 .. Len(net'[c]) : net'[c][i] = net[c][i + 1]
                                        /\ i + 1 \in 1 .. Len(net[c])
    BY <1>1, <2>1
  <2>3. ASSUME NEW i \in 1 .. Len(net'[c]), NEW w \in Prog[net'[c][i].at].ws
        PROVE  net'[c][i].words[w] = Said(q, t, w)'
    BY <1>2, <2>2
  <2> QED BY <2>3 DEF TrueOn
<1>6. LinearGate(r) \/ AndGate(r) \/ Return(r) => net' = net
  BY DEF LinearGate, AndGate, Return
<1> QED BY <1>3, <1>4, <1>5, <1>6 DEF Step

\* A call that r makes or leaves at the step has received nothing.
LEMMA NewCallEmpty ==
  ASSUME IInv, NEW r \in Party, LinearGate(r) \/ AndGate(r) \/ Return(r)
  PROVE  gotFrom'[r] = {} /\ pc'[r] = pc[r] + 1
<1>1. LinearGate(r) \/ AndGate(r) => pc[r] \in Wire /\ Op(pc[r]) \in GateOp
  BY DEF LinearGate, AndGate, GateOp
<1>2. LinearGate(r) \/ AndGate(r) => gotFrom[r] = {} /\ gotFrom' = gotFrom
  BY <1>1, GatesReceiveNothing DEF LinearGate, AndGate
<1> QED BY <1>2, Types DEF LinearGate, AndGate, Return, NextCall

\* The message r receives is of its own call and true.
LEMMA ReceivesTruth ==
  ASSUME RInv, NEW r \in Party, NEW x \in Party, Recv(r, x)
  PROVE  LET k == pc[r]
             m == Head(net[<<x, r, TagOf(Op(k))>>])
         IN  /\ \A w \in Prog[k].ws : m.words[w] = Said(x, TagOf(Op(k)), w)
             /\ k \in Sent(x, r, TagOf(Op(k)))
<1> DEFINE k == pc[r]  t == TagOf(Op(k))  c == <<x, r, t>>  m == Head(net[c])
<1>1. /\ k \in Wire /\ Op(k) \in CommOp /\ x \in RecvsFrom(Op(k), r) \ gotFrom[r]
      /\ net[c] # <<>>
  BY DEF Recv
<1>2. t \in Tag /\ net[c] \in Seq(Message)
  BY <1>1, Directions, Types DEF RInv, Channel
<1>3. m.at = k /\ k \in Sent(x, r, t)
  BY <1>1, HeadMatches DEF RInv
<1>4. 1 \in 1 .. Len(net[c]) /\ m = net[c][1]
  BY <1>1, <1>2
<1>5. TrueOn(x, r, t)
  BY <1>2 DEF RInv, MessagesTrue
<1> HIDE DEF m, k, t
<1>6. \A w \in Prog[m.at].ws : m.words[w] = Said(x, t, w)
  BY <1>4, <1>5 DEF TrueOn, m
<1> QED BY <1>3, <1>6 DEF m, k, t

LEMMA FetchedStep ==
  ASSUME RInv, NEW r \in Party, Step(r)
  PROVE  Fetched'
<1> SUFFICES ASSUME NEW p \in Party, pc'[p] \in Wire, Op(pc'[p]) \in ExchangeOp,
                    Succ(p) \in gotFrom'[p], NEW w \in Prog[pc'[p]].ws
             PROVE  remote'[p][w] = local'[Succ(p)][w]
  BY DEF Fetched, FetchedBy
<1> DEFINE q == Succ(p)
<1>0. q \in Party /\ IInv /\ Op(pc'[p]) \in CommOp
  BY PartyFacts, OpKinds DEF RInv
<1>1. CASE pc'[p] = pc[p] /\ gotFrom'[p] = gotFrom[p] /\ remote'[p] = remote[p]
  <2>1. remote[p][w] = local[q][w]
    BY <1>1 DEF RInv, Fetched, FetchedBy
  <2>2. w \in Wire /\ w < pc[q]
    BY <1>0, <1>1, GotSettled
  <2> QED BY <1>0, <1>1, <2>1, <2>2, SharesStay
<1>2. CASE LinearGate(r) \/ AndGate(r) \/ Return(r)
  <2>1. p # r
    BY <1>0, <1>2, NewCallEmpty
  <2> QED BY <1>0, <1>1, <2>1, StepShape
<1>3. ASSUME NEW x \in Party, Send(r, x)
      PROVE  remote'[p][w] = local'[q][w]
  BY <1>1, <1>3 DEF Send
<1>4. ASSUME NEW x \in Party, Recv(r, x)
      PROVE  remote'[p][w] = local'[q][w]
  <2>1. CASE p # r
    BY <1>0, <1>1, <2>1, StepShape
  <2>2. CASE p = r
    <3> DEFINE k == pc[r]  m == Head(net[<<x, r, TagOf(Op(k))>>])
    <3>1. /\ pc' = pc /\ local' = local /\ k \in Wire /\ Op(k) \in ExchangeOp
          /\ x \in RecvsFrom(Op(k), r) /\ w \in Wire
      BY <1>4, <2>2, ProgramFacts DEF Recv
    <3>2. x = q /\ TagOf(Op(k)) = "xchange"
      BY <2>2, <3>1 DEF RecvsFrom, TagOf
    <3>3. remote' = [remote EXCEPT ![r] = [y \in Wire |->
                       IF y \in Prog[k].ws THEN m.words[y] ELSE @[y]]]
      BY <1>4, <3>1 DEF Recv
    <3>4. m.words[w] = local[q][w]
      BY <1>4, <2>2, <3>1, <3>2, ReceivesTruth DEF Said
    <3> HIDE DEF m
    <3>5. remote'[p][w] = m.words[w]
      BY <1>0, <2>2, <3>1, <3>3, Types
    <3> QED BY <3>1, <3>4, <3>5
  <2> QED BY <2>1, <2>2
<1> QED BY <1>2, <1>3, <1>4 DEF Step

\* The order in which P1 adds the shares of P2 and P3 does not matter.
LEMMA SumOrder ==
  ASSUME IInv, NEW w \in Wire
  PROVE  /\ Plus(Plus(local[0][w], local[1][w]), local[2][w]) = Reconstruct(SharesOf(w))
         /\ Plus(Plus(local[0][w], local[2][w]), local[1][w]) = Reconstruct(SharesOf(w))
<1>1. local[0][w] \in Elem /\ local[1][w] \in Elem /\ local[2][w] \in Elem
  BY Types, PartyFacts
<1>2. Reconstruct(SharesOf(w)) = Plus(Plus(local[0][w], local[1][w]), local[2][w])
  BY PartyFacts DEF Reconstruct, SharesOf
<1> QED BY <1>1, <1>2, SwapLast

LEMMA SumStays ==
  ASSUME IInv, NEW r \in Party, Step(r), NEW p \in Party, pc[p] \in Wire,
         Op(pc[p]) \in OpenOp, gotFrom[p] # {}, NEW w \in Prog[pc[p]].ws,
         NEW S, S = gotFrom[p]
  PROVE  SumOf(S, w)' = SumOf(S, w)
<1>1. Op(pc[p]) \in CommOp /\ gotFrom[p] \subseteq RecvsFrom(Op(pc[p]), p)
  BY OpKinds DEF IInv, PhaseInv, PhaseOK
<1>2. \A q \in gotFrom[p] : q \in Party /\ w \in Wire /\ w < pc[p] /\ w < pc[q]
  BY <1>1, GotSettled
<1>3. p = 0 => gotFrom[p] \subseteq {1, 2}
  BY <1>1, OpKinds DEF RecvsFrom
<1>4. p # 0 => gotFrom[p] = {0}
  BY <1>1, OpKinds DEF RecvsFrom
<1>5. CASE S = {1} \/ S = {2}
  BY <1>2, <1>3, <1>4, <1>5, SharesStay, PartyFacts DEF SumOf
<1>6. CASE S # {1} /\ S # {2}
  <2>1. p = 0 => gotFrom[p] = {1, 2}
    BY <1>3, <1>6
  <2>2. w \in Wire /\ \A x \in Party : w < pc[x]
    BY <1>1, <1>2, <2>1, GotSettled
  <2> QED BY <1>6, <2>2, SharesStay DEF SumOf
<1> QED BY <1>5, <1>6

LEMMA SummedStep ==
  ASSUME RInv, NEW r \in Party, Step(r)
  PROVE  Summed'
<1> SUFFICES ASSUME NEW p \in Party, pc'[p] \in Wire, Op(pc'[p]) \in OpenOp,
                    gotFrom'[p] # {}, NEW w \in Prog[pc'[p]].ws
             PROVE  buffer'[p][w] = SumOf(gotFrom[p], w)'
  BY DEF Summed, SummedBy
<1>0. IInv /\ Op(pc'[p]) \in CommOp
  BY OpKinds DEF RInv
<1>1. CASE pc'[p] = pc[p] /\ gotFrom'[p] = gotFrom[p] /\ buffer'[p] = buffer[p]
  <2>1. buffer[p][w] = SumOf(gotFrom[p], w)
    BY <1>1 DEF RInv, Summed, SummedBy
  <2>2. SumOf(gotFrom[p], w)' = SumOf(gotFrom[p], w)
    BY <1>0, <1>1, SumStays DEF SumOf
  <2> QED BY <1>1, <2>1, <2>2
<1>2. CASE LinearGate(r) \/ AndGate(r) \/ Return(r)
  <2>1. p # r
    BY <1>0, <1>2, NewCallEmpty
  <2> QED BY <1>0, <1>1, <2>1, StepShape
<1>3. ASSUME NEW x \in Party, Send(r, x)
      PROVE  buffer'[p][w] = SumOf(gotFrom[p], w)'
  BY <1>1, <1>3 DEF Send
<1>4. ASSUME NEW x \in Party, Recv(r, x)
      PROVE  buffer'[p][w] = SumOf(gotFrom[p], w)'
  <2>1. CASE p # r
    BY <1>0, <1>1, <2>1, StepShape
  <2>2. CASE p = r
    <3> DEFINE k == pc[r]  m == Head(net[<<x, r, TagOf(Op(k))>>])
    <3>1. /\ pc' = pc /\ local' = local /\ k \in Wire /\ Op(k) \in OpenOp
          /\ Op(k) \notin ExchangeOp /\ Op(k) \in CommOp
          /\ x \in RecvsFrom(Op(k), r) \ gotFrom[r] /\ w \in Wire /\ w \in Prog[k].ws
          /\ gotFrom'[r] = gotFrom[r] \cup {x}
      BY <1>0, <1>4, <2>2, ProgramFacts, Types, OpKinds DEF Recv
    <3>2. TagOf(Op(k)) = "open"
      BY <3>1 DEF TagOf
    <3>3. buffer' = [buffer EXCEPT ![r] = [y \in Wire |->
                       IF y \notin Prog[k].ws THEN @[y]
                       ELSE IF r = 0 THEN Plus(Combined(r, y), m.words[y])
                       ELSE m.words[y]]]
      BY <1>4, <3>1 DEF Recv
    <3>4. m.words[w] = Said(x, "open", w)
      BY <1>4, <3>1, <3>2, ReceivesTruth
    <3> HIDE DEF m
    <3>5. buffer'[p][w] = IF r = 0 THEN Plus(Combined(r, w), m.words[w]) ELSE m.words[w]
      BY <1>0, <2>2, <3>1, <3>3, Types
    <3>6. SumOf(gotFrom[p], w)' = SumOf(gotFrom'[p], w)
      BY <3>1 DEF SumOf, SharesOf, Reconstruct
    <3>7. CASE r # 0
      <4>1. x = 0 /\ gotFrom'[p] = {0}
        BY <1>0, <2>2, <3>1, <3>7 DEF RecvsFrom, IInv, PhaseInv, PhaseOK
      <4> QED BY <3>4, <3>5, <3>6, <3>7, <4>1 DEF Said, SumOf
    <3>8. CASE r = 0
      <4>1. x \in {1, 2} /\ gotFrom[r] \subseteq {1, 2}
        BY <1>0, <3>1, <3>8 DEF RecvsFrom, IInv, PhaseInv, PhaseOK
      <4>2. m.words[w] = local[x][w]
        BY <3>4, <4>1 DEF Said
      <4>3. CASE gotFrom[r] = {}
        <5>1. Combined(r, w) = local[0][w] /\ gotFrom'[p] = {x}
          BY <2>2, <3>1, <3>8, <4>3 DEF Combined
        <5> QED BY <3>5, <3>6, <3>8, <4>1, <4>2, <5>1 DEF SumOf
      <4>4. CASE gotFrom[r] # {}
        <5>1. Combined(r, w) = SumOf(gotFrom[r], w)
          BY <3>1, <4>4 DEF Combined, RInv, Summed, SummedBy
        <5>2. gotFrom[r] = {3 - x} /\ gotFrom'[p] = {1, 2}
          BY <2>2, <3>1, <4>1, <4>4
        <5>3. Plus(SumOf(gotFrom[r], w), local[x][w]) = Reconstruct(SharesOf(w))
          BY <1>0, <3>1, <4>1, <5>2, SumOrder DEF SumOf
        <5>4. SumOf(gotFrom'[p], w) = Reconstruct(SharesOf(w))
          BY <5>2 DEF SumOf
        <5> QED BY <3>5, <3>6, <3>8, <4>2, <5>1, <5>3, <5>4
      <4> QED BY <4>3, <4>4
    <3> QED BY <3>7, <3>8
  <2> QED BY <2>1, <2>2
<1> QED BY <1>2, <1>3, <1>4 DEF Step

\* A step writes r's remote shares only in a linear gate and when it receives.
LEMMA RemoteSteps ==
  ASSUME RInv, NEW r \in Party, Step(r)
  PROVE  \/ remote' = remote
         \/ LinearGate(r)
         \/ /\ pc' = pc /\ local' = local
            /\ pc[r] \in Wire /\ Op(pc[r]) \in ExchangeOp
            /\ \A w \in Wire : remote'[r][w] =
                 IF w \in Prog[pc[r]].ws THEN local[Succ(r)][w] ELSE remote[r][w]
            /\ \A w \in Prog[pc[r]].ws : w < pc[Succ(r)]
<1>1. AndGate(r) \/ Return(r) \/ (\E x \in Party : Send(r, x)) => remote' = remote
  BY DEF AndGate, Return, Send
<1>2. ASSUME NEW x \in Party, Recv(r, x), remote' # remote
      PROVE  /\ pc' = pc /\ local' = local
             /\ pc[r] \in Wire /\ Op(pc[r]) \in ExchangeOp
             /\ \A w \in Wire : remote'[r][w] =
                  IF w \in Prog[pc[r]].ws THEN local[Succ(r)][w] ELSE remote[r][w]
             /\ \A w \in Prog[pc[r]].ws : w < pc[Succ(r)]
  <2> DEFINE k == pc[r]  m == Head(net[<<x, r, TagOf(Op(k))>>])
  <2>1. /\ pc' = pc /\ local' = local /\ k \in Wire /\ Op(k) \in ExchangeOp
        /\ x \in RecvsFrom(Op(k), r)
    BY <1>2 DEF Recv
  <2>2. x = Succ(r) /\ TagOf(Op(k)) = "xchange"
    BY <2>1 DEF RecvsFrom, TagOf
  <2>3. remote' = [remote EXCEPT ![r] = [y \in Wire |->
                     IF y \in Prog[k].ws THEN m.words[y] ELSE @[y]]]
    BY <1>2, <2>1 DEF Recv
  <2>4. \A w \in Prog[k].ws : m.words[w] = local[x][w]
    BY <1>2, <2>2, ReceivesTruth DEF Said
  <2> HIDE DEF m
  <2>5. \A w \in Wire : remote'[r][w] =
          IF w \in Prog[pc[r]].ws THEN local[Succ(r)][w] ELSE remote[r][w]
    BY <2>2, <2>3, <2>4, Types DEF RInv
  <2>6. k \in Sent(x, r, "xchange")
    BY <1>2, <2>2, ReceivesTruth
  <2>7. \A w \in Prog[k].ws : w < pc[Succ(r)]
    BY <2>1, <2>2, <2>6, ReadsBefore, OpKinds, Types DEF RInv, Sent
  <2> QED BY <2>1, <2>5, <2>7
<1> QED BY <1>1, <1>2 DEF Step

\* The gate r is at, when it is one of those that are local.
LEMMA LinearGateShape ==
  ASSUME IInv, NEW r \in Party, LinearGate(r)
  PROVE  /\ pc[r] \in Wire /\ Op(pc[r]) \in GateOp \ {"and"}
         /\ \A w \in Wire : /\ local'[r][w] = IF w = pc[r] THEN GateValue(w, local[r])
                                              ELSE local[r][w]
                            /\ remote'[r][w] = IF w = pc[r] THEN GateValue(w, remote[r])
                                               ELSE remote[r][w]
         /\ \A p \in Party \ {r} : local'[p] = local[p] /\ remote'[p] = remote[p]
         /\ pc' = [pc EXCEPT ![r] = pc[r] + 1]
BY Types DEF LinearGate, RemoteGate, NextCall

LEMMA InputGate ==
  ASSUME NEW k \in Wire, Op(k) = "input", NEW v
  PROVE  GateValue(k, v) = v[k]
BY DEF GateValue

\* The shares of the inputs are never written.
LEMMA InputsStay ==
  ASSUME RInv, NEW r \in Party, Step(r), NEW p \in Party, NEW w \in Inputs
  PROVE  local'[p][w] = local[p][w] /\ remote'[p][w] = remote[p][w]
<1>0. /\ w \in Wire /\ Op(w) = "input" /\ IInv
      /\ remote[p][w] = local[Succ(p)][w]
  BY DEF Inputs, RInv, InputsAgree
<1>1. local'[p][w] = local[p][w]
  <2>1. CASE LinearGate(r)
    BY <1>0, <2>1, LinearGateShape, InputGate
  <2>2. CASE AndGate(r)
    <3>1. w # pc[r]
      BY <1>0, <2>2 DEF AndGate
    <3> QED BY <1>0, <3>1, StepShape
  <2>3. Return(r) \/ (\E x \in Party : Send(r, x) \/ Recv(r, x)) => local' = local
    BY DEF Return, Send, Recv
  <2> QED BY <2>1, <2>2, <2>3 DEF Step
<1>2. remote'[p][w] = remote[p][w]
  <2>1. CASE LinearGate(r)
    BY <1>0, <2>1, LinearGateShape, InputGate
  <2>2. CASE p # r
    BY <1>0, <2>2, StepShape
  <2> QED BY <1>0, <2>1, <2>2, RemoteSteps
<1> QED BY <1>1, <1>2

LEMMA InputsStep ==
  ASSUME RInv, NEW r \in Party, Step(r)
  PROVE  InputsAgree'
<1>1. ASSUME NEW p \in Party, NEW w \in Inputs
      PROVE  remote'[p][w] = local'[Succ(p)][w]
  BY InputsStay, PartyFacts DEF RInv, InputsAgree
<1> QED BY <1>1 DEF InputsAgree

LEMMA GatesStep ==
  ASSUME RInv, NEW r \in Party, Step(r)
  PROVE  GatesDone'
<1> SUFFICES ASSUME NEW p \in Party, NEW k \in Wire, Op(k) \in LocalOp, k < pc'[p]
             PROVE  local'[p][k] = GateValue(k, local'[p])
  BY DEF GatesDone, GateDone
<1>0. IInv /\ k \in Nat /\ pc[p] \in Nat /\ pc[r] \in Nat
  BY ProgramFacts, Types DEF RInv
<1>1. CASE k < pc[p]
  <2>1. local[p][k] = GateValue(k, local[p])
    BY <1>1 DEF RInv, GatesDone, GateDone
  <2>2. \A w \in Reads(k) : w \in Wire /\ w < pc[p]
    BY <1>0, <1>1, ReadsBefore
  <2>3. \A w \in Reads(k) : local'[p][w] = local[p][w]
    BY <1>0, <2>2, SharesStay
  <2>4. local'[p][k] = local[p][k]
    BY <1>0, <1>1, SharesStay
  <2>5. GateValue(k, local[p]) = GateValue(k, local'[p])
    BY <2>3, GateReads
  <2> QED BY <2>1, <2>4, <2>5
<1>2. CASE ~(k < pc[p])
  <2>1. p = r /\ k = pc[r]
    BY <1>0, <1>2, StepShape
  <2>2. pc'[r] # pc[r]
    BY <1>0, <1>2, <2>1
  <2>3. LinearGate(r)
    <3>1. Op(k) \in GateOp \ {"and"} /\ Op(k) \notin CommOp
      BY OpKinds
    <3>2. ~AndGate(r) /\ ~Return(r)
      BY <2>1, <3>1 DEF AndGate, Return
    <3>3. (\E x \in Party : Send(r, x) \/ Recv(r, x)) => pc' = pc
      BY DEF Send, Recv
    <3> QED BY <2>2, <3>2, <3>3 DEF Step
  <2>4. local'[p][k] = GateValue(k, local[p])
    BY <1>0, <2>1, <2>3, LinearGateShape
  <2>5. \A w \in Reads(k) : local[p][w] = local'[p][w]
    BY <1>0, <2>1, <2>3, LinearGateShape, ReadsBefore
  <2> QED BY <2>4, <2>5, GateReads
<1> QED BY <1>1, <1>2

\* A party that goes past a gate that is local has done it.
LEMMA PassesGate ==
  ASSUME IInv, NEW r \in Party, Step(r), pc'[r] # pc[r], Op(pc[r]) \in GateOp \ {"and"}
  PROVE  LinearGate(r)
<1>1. pc[r] \in Wire /\ Op(pc[r]) \notin CommOp
  BY StepShape, OpKinds
<1>2. ~AndGate(r) /\ ~Return(r)
  BY <1>1 DEF AndGate, Return
<1>3. (\E x \in Party : Send(r, x) \/ Recv(r, x)) => pc' = pc
  BY DEF Send, Recv
<1> QED BY <1>2, <1>3 DEF Step

\* A remote share that may be used is not written again, though it may be
\* received again.
LEMMA RemoteStays ==
  ASSUME RInv, NEW r \in Party, Step(r), NEW p \in Party, NEW w \in Replicated[pc[p]]
  PROVE  w \in Replicated[pc'[p]] /\ remote'[p][w] = remote[p][w]
<1>0. /\ IInv /\ MirrorOf(p, w) /\ w \in Wire /\ w < pc[p] /\ w \in Nat
      /\ pc[r] \in Wire /\ pc[r] \in Nat
      /\ pc'[r] \in {pc[r], pc[r] + 1}
  BY StepShape, ProgramFacts DEF RInv, Mirrors, MirrorOf
<1>1. CASE p # r
  BY <1>0, <1>1, StepShape
<1>2. CASE p = r
  <2>1. w \in Replicated[pc'[p]]
    BY <1>0, <1>2, ReplicatedNext
  <2>2. LinearGate(r) => remote'[p][w] = remote[p][w]
    BY <1>0, <1>2, LinearGateShape
  <2>3. w \in Prog[pc[r]].ws /\ w < pc[Succ(r)] => remote[p][w] = local[Succ(r)][w]
    BY <1>0, <1>2 DEF MirrorOf
  <2>4. remote'[p][w] = remote[p][w]
    BY <1>0, <1>2, <2>2, <2>3, RemoteSteps
  <2> QED BY <2>1, <2>4
<1> QED BY <1>1, <1>2

\* A replicated wire stays replicated when the party itself moves.
LEMMA MirrorOwnStep ==
  ASSUME RInv, NEW r \in Party, Step(r), NEW w \in Replicated[pc[r]]
  PROVE  MirrorOf(r, w)'
<1> DEFINE q == Succ(r)
<1>0. /\ IInv /\ q \in Party /\ q # r /\ pc[r] \in Wire /\ w \in Nat
      /\ \A p \in Party : pc[p] \in Nat
      /\ pc'[r] \in {pc[r], pc[r] + 1} /\ pc'[q] = pc[q] /\ local'[q] = local[q]
  BY StepShape, RingOfParties, ProgramFacts, Types DEF RInv, Mirrors, MirrorOf
<1>1. MirrorOf(r, w)
  BY DEF RInv, Mirrors
<1>2. Replicated[pc[r]] \subseteq Replicated[pc'[r]]
  BY <1>0, ReplicatedNext
<1>3. \A v \in Replicated[pc[r]] : remote'[r][v] = remote[r][v]
  BY RemoteStays
<1>4. Op(w) \in LocalOp /\ Reads(w) \subseteq Replicated[pc[r]]
        => GateValue(w, remote'[r]) = GateValue(w, remote[r])
  BY <1>1, <1>3, GateReads DEF MirrorOf
<1> QED BY <1>0, <1>1, <1>2, <1>3, <1>4 DEF MirrorOf

\* It stays so when the successor moves: what the successor computes at last is
\* what the party has computed before.
LEMMA MirrorSuccStep ==
  ASSUME RInv, NEW p \in Party, Step(Succ(p)), NEW w \in Replicated[pc[p]]
  PROVE  MirrorOf(p, w)'
<1> DEFINE q == Succ(p)
<1>0. /\ IInv /\ q \in Party /\ q # p
      /\ \A r \in Party : pc[r] \in Nat
      /\ pc'[p] = pc[p] /\ remote'[p] = remote[p]
      /\ pc'[q] \in {pc[q], pc[q] + 1} /\ pc[q] \in Wire
  BY StepShape, RingOfParties, Types DEF RInv
<1>1. MirrorOf(p, w) /\ w \in Wire /\ w \in Nat
  BY ProgramFacts DEF RInv, Mirrors, MirrorOf
<1>2. CASE w \in Inputs
  <2>1. remote'[p][w] = local'[q][w]
    BY <1>0, <1>2, InputsStep DEF InputsAgree
  <2> QED BY <1>0, <1>1, <1>2, <2>1 DEF MirrorOf
<1>3. CASE w < pc[q]
  <2>1. local'[q][w] = local[q][w] /\ w < pc'[q]
    BY <1>0, <1>1, <1>3, SharesStay
  <2> QED BY <1>0, <1>1, <1>3, <2>1 DEF MirrorOf
<1>4. CASE ~(w < pc[q]) /\ w \notin Inputs
  <2>1. /\ Op(w) \in LocalOp /\ Reads(w) \subseteq Replicated[pc[p]]
        /\ remote[p][w] = GateValue(w, remote[p])
    BY <1>1, <1>4 DEF MirrorOf
  <2>2. CASE w < pc'[q]
    <3>1. w = pc[q]
      BY <1>0, <1>1, <1>4, <2>2
    <3>2. local'[q][w] = GateValue(w, local'[q])
      BY <1>0, <1>1, <2>1, <2>2, GatesStep DEF GatesDone, GateDone
    <3>3. ASSUME NEW v \in Reads(w) PROVE remote'[p][v] = local'[q][v]
      <4>1. v \in Replicated[pc[p]] /\ v < pc[q] /\ v \in Wire
        BY <1>1, <2>1, <3>1, ReadsBefore
      <4>2. remote[p][v] = local[q][v]
        BY <4>1 DEF RInv, Mirrors, MirrorOf
      <4> QED BY <1>0, <4>1, <4>2, SharesStay
    <3>4. GateValue(w, remote'[p]) = GateValue(w, local'[q])
      BY <1>1, <2>1, <3>3, GateReads
    <3> QED BY <1>0, <1>1, <2>1, <2>2, <3>2, <3>4 DEF MirrorOf
  <2>3. CASE ~(w < pc'[q])
    BY <1>0, <1>1, <1>4, <2>1, <2>3 DEF MirrorOf
  <2> QED BY <2>2, <2>3
<1> QED BY <1>2, <1>3, <1>4

\* A wire that becomes replicated is a mirror of the successor's.
LEMMA MirrorNew ==
  ASSUME RInv, NEW r \in Party, Step(r), pc'[r] # pc[r],
         NEW w \in Replicated[pc'[r]] \ Replicated[pc[r]]
  PROVE  MirrorOf(r, w)'
<1> DEFINE q == Succ(r)  k == pc[r]  R == Replicated[k]
<1>0. /\ IInv /\ q \in Party /\ q # r /\ k \in Wire
      /\ \A p \in Party : pc[p] \in Nat
      /\ pc'[r] = k + 1 /\ pc'[q] = pc[q] /\ local'[q] = local[q]
  BY StepShape, RingOfParties, Types DEF RInv
<1>1. w \in Replicated[k + 1] \ Replicated[k]
  BY <1>0
<1>2. CASE Op(k) \in ExchangeOp
  <2>1. w \in Prog[k].ws /\ w \in Wire
    BY <1>0, <1>1, <1>2, ReplicatedNext, ReadsBefore, OpKinds
  <2>2. Return(r)
    <3>1. Op(k) \notin GateOp
      BY <1>0, <1>2, OpKinds
    <3> QED BY <1>0, <3>1 DEF Step, LinearGate, AndGate, GateOp, Send, Recv
  <2>3. q \in gotFrom[r]
    BY <1>2, <2>2 DEF Return, CallComplete, RecvsFrom
  <2>4. w < pc[r] /\ w < pc[q]
    BY <1>0, <1>2, <2>1, <2>3, GotSettled, OpKinds
  <2>5. remote[r][w] = local[q][w]
    BY <1>0, <1>2, <2>1, <2>3 DEF RInv, Fetched, FetchedBy
  <2>6. remote' = remote
    BY <2>2 DEF Return
  <2>7. w < pc'[r]
    BY <1>0, <2>1, <2>4, ProgramFacts
  <2> QED BY <1>0, <2>1, <2>4, <2>5, <2>6, <2>7 DEF MirrorOf
<1>3. CASE Op(k) \in GateOp \ {"and"}
  <2>1. w = k
    BY <1>0, <1>1, <1>3, ReplicatedNext, OpKinds
  <2>2. LinearGate(r) /\ k \in Nat
    BY <1>0, <1>3, PassesGate
  <2>3. CASE Op(k) = "input"
    <3>1. w \in Inputs
      BY <1>0, <2>1, <2>3, OpKinds
    <3>2. remote'[r][w] = local'[q][w]
      BY <3>1, InputsStep DEF InputsAgree
    <3> QED BY <1>0, <2>1, <3>1, <3>2 DEF MirrorOf
  <2>4. CASE Op(k) \in LocalOp
    <3>1. Reads(k) \subseteq R
      BY <1>0, <1>1, <2>4, ReplicatedNext
    <3>2. remote'[r][k] = GateValue(k, remote[r])
      BY <1>0, <2>2, LinearGateShape
    <3>3. \A v \in Reads(k) : v \in Wire /\ v \in Nat /\ v < k
      BY <1>0, ReadsBefore
    <3>4. CASE k < pc[q]
      <4>1. \A v \in Reads(k) : remote[r][v] = local[q][v]
        BY <1>0, <2>2, <3>1, <3>3, <3>4 DEF RInv, Mirrors, MirrorOf
      <4>2. GateValue(k, remote[r]) = GateValue(k, local[q])
        BY <1>0, <2>4, <4>1, GateReads
      <4>3. local[q][k] = GateValue(k, local[q])
        BY <1>0, <2>4, <3>4 DEF RInv, GatesDone, GateDone
      <4> QED BY <1>0, <2>1, <2>2, <3>2, <3>4, <4>2, <4>3 DEF MirrorOf
    <3>5. CASE ~(k < pc[q])
      <4>1. \A v \in Reads(k) : remote'[r][v] = remote[r][v]
        BY <1>0, <2>2, <3>3, LinearGateShape
      <4>2. GateValue(k, remote'[r]) = GateValue(k, remote[r])
        BY <1>0, <2>4, <4>1, GateReads
      <4>3. Reads(k) \subseteq Replicated[pc'[r]] /\ k \notin Inputs
        BY <1>0, <2>4, <3>1, ReplicatedNext, OpKinds
      <4> QED BY <1>0, <2>1, <2>2, <2>4, <3>2, <3>5, <4>2, <4>3 DEF MirrorOf
    <3> QED BY <3>4, <3>5
  <2> QED BY <1>0, <1>3, <2>3, <2>4, OpKinds
<1>4. Op(k) \in ExchangeOp \/ Op(k) \in GateOp \ {"and"}
  BY <1>0, <1>1, ReplicatedNext, ProgramFacts DEF CommOp
<1> QED BY <1>2, <1>3, <1>4

LEMMA MirrorsStep ==
  ASSUME RInv, NEW r \in Party, Step(r)
  PROVE  Mirrors'
<1> SUFFICES ASSUME NEW p \in Party, NEW w \in Replicated[pc'[p]]
             PROVE  MirrorOf(p, w)'
  BY DEF Mirrors
<1>0. IInv
  BY DEF RInv
<1>1. CASE r = p
  BY <1>1, MirrorOwnStep, MirrorNew
<1>2. CASE r = Succ(p)
  <2>1. pc'[p] = pc[p]
    BY <1>0, <1>2, StepShape, RingOfParties
  <2> QED BY <1>2, <2>1, MirrorSuccStep
<1>3. CASE r # p /\ r # Succ(p)
  <2>1. /\ pc'[p] = pc[p] /\ remote'[p] = remote[p]
        /\ pc'[Succ(p)] = pc[Succ(p)] /\ local'[Succ(p)] = local[Succ(p)]
    BY <1>0, <1>3, StepShape, RingOfParties
  <2>2. MirrorOf(p, w)
    BY <2>1 DEF RInv, Mirrors
  <2> QED BY <2>1, <2>2 DEF MirrorOf
<1> QED BY <1>1, <1>2, <1>3

LEMMA OpenedStep ==
  ASSUME RInv, NEW r \in Party, Step(r)
  PROVE  OpenedKnown'
<1> SUFFICES ASSUME NEW p \in Party, NEW w \in Wire, opened'[p][w] # NotOpened
             PROVE  /\ opened'[p][w] = Reconstruct(SharesOf(w))'
                    /\ \A q \in Party : w < pc'[q]
  BY DEF OpenedKnown, KnownBy
<1>0. IInv
  BY DEF RInv
<1>1. CASE opened'[p][w] = opened[p][w]
  <2>1. opened[p][w] = Reconstruct(SharesOf(w)) /\ \A q \in Party : w < pc[q]
    BY <1>1 DEF RInv, OpenedKnown, KnownBy
  <2> QED BY <1>0, <1>1, <2>1, SharesStay
<1>2. CASE opened'[p][w] # opened[p][w]
  <2>1. r = p /\ Return(r)
    BY <1>0, <1>2, StepShape DEF Step, LinearGate, AndGate, Send, Recv
  <2> DEFINE k == pc[r]
  <2>2. /\ k \in Wire /\ Op(k) \in OpenOp /\ Op(k) \in CommOp /\ gotFrom[r] # {}
        /\ gotFrom[r] = RecvsFrom(Op(k), r) /\ Op(k) \notin ExchangeOp
        /\ opened' = [opened EXCEPT ![r] = [y \in Wire |->
                        IF y \in Prog[k].ws THEN buffer[r][y] ELSE @[y]]]
    BY <1>2, <2>1, OpKinds DEF Return, CallComplete
  <2>3. w \in Prog[k].ws /\ opened'[p][w] = buffer[r][w]
    BY <1>0, <1>2, <2>1, <2>2, Types
  <2>4. gotFrom[r] # {1} /\ gotFrom[r] # {2} /\ (r = 0 => gotFrom[r] = {1, 2})
    BY <2>2 DEF RecvsFrom
  <2>5. buffer[r][w] = Reconstruct(SharesOf(w))
    BY <2>2, <2>3, <2>4 DEF RInv, Summed, SummedBy, SumOf
  <2>6. \A x \in Party : w < pc[x]
    BY <1>0, <2>2, <2>3, <2>4, GotSettled
  <2> QED BY <1>0, <2>3, <2>5, <2>6, SharesStay
<1> QED BY <1>1, <1>2

-----------------------------------------------------------------------------
(* Theorems. *)

LEMMA InitRInv == Init => RInv
<1> SUFFICES ASSUME Init PROVE RInv
  OBVIOUS
<1>1. IInv
  BY InitIInv
<1>2. /\ pc = [p \in Party |-> 1] /\ gotFrom = [p \in Party |-> {}]
      /\ net = [c \in Channel |-> <<>>]
      /\ opened = [p \in Party |-> [w \in Wire |-> NotOpened]]
  BY DEF Init
<1>3. MessagesTrue
  BY <1>2 DEF MessagesTrue, TrueOn, Channel
<1>4. Fetched /\ Summed
  BY <1>2 DEF Fetched, FetchedBy, Summed, SummedBy
<1>5. InputsAgree
  <2>1. PICK x \in [Inputs -> InputValue], r1 \in [Inputs -> DealtWord],
             r2 \in [Inputs -> DealtWord] :
          /\ local = [p \in Party |-> [w \in Wire |->
                IF w \in Inputs THEN GenerateShare(x[w], r1[w], r2[w])[p] ELSE Zero]]
          /\ remote = [p \in Party |-> [w \in Wire |->
                IF w \in Inputs THEN GenerateShare(x[w], r1[w], r2[w])[Succ(p)]
                ELSE Zero]]
    BY DEF Init
  <2> QED BY <2>1, PartyFacts DEF InputsAgree, Inputs
<1>6. GatesDone
  <2>1. \A k \in Wire : k \in Nat /\ k >= 1
    BY ProgramFacts DEF Wire
  <2> QED BY <1>2, <2>1 DEF GatesDone, GateDone
<1>7. Mirrors
  BY <1>2, ProgramAssumption DEF Mirrors
<1>8. OpenedKnown
  BY <1>2 DEF OpenedKnown, KnownBy
<1> QED BY <1>1, <1>3, <1>4, <1>5, <1>6, <1>7, <1>8 DEF RInv

LEMMA StepRInv == RInv /\ [Next]_vars => RInv'
<1> SUFFICES ASSUME RInv, [Next]_vars PROVE RInv'
  OBVIOUS
<1>1. IInv'
  BY StepIInv DEF RInv
<1>2. ASSUME NEW r \in Party, Step(r) PROVE RInv'
  BY <1>1, <1>2, MessagesStep, FetchedStep, SummedStep, InputsStep, GatesStep,
     MirrorsStep, OpenedStep DEF RInv
<1>3. CASE UNCHANGED vars
  <2>1. MessagesTrue' /\ Fetched'
    BY <1>3 DEF RInv, MessagesTrue, TrueOn, Said, SharesOf, Reconstruct, Fetched,
       FetchedBy, vars
  <2>2. Summed'
    BY <1>3 DEF RInv, Summed, SummedBy, SumOf, SharesOf, Reconstruct, vars
  <2>3. InputsAgree' /\ GatesDone'
    BY <1>3 DEF RInv, InputsAgree, GatesDone, GateDone, vars
  <2>4. Mirrors'
    BY <1>3 DEF RInv, Mirrors, MirrorOf, vars
  <2>5. OpenedKnown'
    BY <1>3 DEF RInv, OpenedKnown, KnownBy, SharesOf, Reconstruct, vars
  <2> QED BY <1>1, <2>1, <2>2, <2>3, <2>4, <2>5 DEF RInv
<1> QED BY <1>2, <1>3 DEF Next, Terminated

\* The inductive invariant: what is in transit or has been received is what the
\* sender holds, and remote shares mirror the successor's local shares.
THEOREM Replication == Spec => []RInv
<1>1. Init => RInv
  BY InitRInv
<1>2. RInv /\ [Next]_vars => RInv'
  BY StepRInv
<1> QED BY <1>1, <1>2, PTL DEF Spec

\* A remote share that the program may use as a factor is the share its owner
\* holds, for every program that exchanges before it multiplies.
THEOREM ReplicasCorrect == Spec => []ReplicasAgree
<1>1. RInv => ReplicasAgree
  BY DEF RInv, Mirrors, MirrorOf, ReplicasAgree
<1> QED BY <1>1, Replication, PTL

\* What an open or a reveal returns, on any party and at any relative speed, is
\* the value of the shares.
THEOREM OpensCorrect == Spec => []OpenedIsReconstructed
<1>1. RInv => OpenedIsReconstructed
  BY DEF RInv, OpenedKnown, KnownBy, OpenedIsReconstructed
<1> QED BY <1>1, Replication, PTL

-----------------------------------------------------------------------------
(***************************************************************************)
(* SecureEval implements IdealEval: whatever the program, the ring, the    *)
(* buffering and the relative speeds, three parties that hold shares do    *)
(* what the plaintext program does.                                        *)
(***************************************************************************)

(* The inductive invariant. *)

\* The and_b calls before call k: each draws once from both generators.
Ands(k) == {j \in Wire : j < k /\ Op(j) = "and"}

\* The state that a generator seeded with s has at call k.
StreamAt(s, k) == [seed |-> s, drawn |-> Cardinality(Ands(k))]

\* No party carries a counter, but all are at the same place of their streams
\* when they are at the same call.
InStep ==
  \A p \in Party : /\ prng[p].loc = StreamAt(prng[p].loc.seed, pc[p])
                   /\ prng[p].rem = StreamAt(prng[p].rem.seed, pc[p])
                   /\ prng[p].rem.seed = prng[Pred(p)].loc.seed

MaskOf(p, k) == NextR(StreamAt(prng[p].loc.seed, k), StreamAt(prng[p].rem.seed, k))

AndDone(p, k) ==
  Op(k) = "and" /\ k < pc[p]
    => /\ Reads(k) \subseteq Replicated[pc[p]]
       /\ local[p][k] = AndB(local[p][Prog[k].a], remote[p][Prog[k].a],
                             local[p][Prog[k].b], remote[p][Prog[k].b], MaskOf(p, k))

AndsDone == \A p \in Party, k \in Wire : AndDone(p, k)

\* A communication call leaves no share in the wire that bears its number.
NotWritten ==
  \A p \in Party, w \in Wire : Op(w) \in CommOp => local[p][w] = Zero

OpensDone ==
  \A k \in Wire : k < pc[0] /\ Op(k) \in OpenOp
    => \A w \in Prog[k].ws : /\ opened[0][w] = Reconstruct(SharesOf(w))
                             /\ \A q \in Party : w < pc[q]

FInv == RInv /\ InStep /\ AndsDone /\ NotWritten /\ OpensDone

-----------------------------------------------------------------------------
(* Steps. *)

LEMMA AndsNext ==
  ASSUME NEW k \in Wire
  PROVE  /\ Cardinality(Ands(k)) \in Nat
         /\ Op(k) = "and" => Cardinality(Ands(k + 1)) = Cardinality(Ands(k)) + 1
         /\ Op(k) # "and" => Ands(k + 1) = Ands(k)
<1>1. IsFiniteSet(Wire)
  BY ProgramFacts, FS_Interval DEF Wire
<1>2. IsFiniteSet(Ands(k))
  BY <1>1, FS_Subset DEF Ands
<1>3. k \in Nat /\ \A j \in Wire : j \in Nat
  BY ProgramFacts
<1>4. k \notin Ands(k)
  BY <1>3 DEF Ands
<1>10. \A j \in Wire : j < k + 1 <=> j < k \/ j = k
  BY <1>3
<1>5. Op(k) = "and" => Ands(k + 1) = Ands(k) \cup {k}
  BY <1>10 DEF Ands
<1>6. Op(k) # "and" => Ands(k + 1) = Ands(k)
  BY <1>10 DEF Ands
<1>7. Op(k) = "and" => Cardinality(Ands(k + 1)) = Cardinality(Ands(k)) + 1
  BY <1>2, <1>4, <1>5, FS_AddElement
<1>8. Cardinality(Ands(k)) \in Nat
  BY <1>2, FS_CardinalityType
<1> QED BY <1>6, <1>7, <1>8

LEMMA GenTypes ==
  ASSUME IInv
  PROVE  /\ prng \in [Party -> [loc : GenState, rem : GenState]]
         /\ \A p \in Party : /\ prng[p].loc \in GenState /\ prng[p].rem \in GenState
                             /\ prng[p].loc.seed \in Seed /\ prng[p].rem.seed \in Seed
<1>1. prng \in [Party -> [loc : GenState, rem : GenState]]
  BY DEF IInv, TypeOK, GenState
<1>2. \A st \in GenState : st.seed \in Seed
  BY DEF GenState
<1> QED BY <1>1, <1>2

\* The generators of a party move only in an and_b, and keep their seeds.
LEMMA SeedsStay ==
  ASSUME IInv, NEW r \in Party, Step(r), NEW p \in Party
  PROVE  /\ prng'[p].loc.seed = prng[p].loc.seed
         /\ prng'[p].rem.seed = prng[p].rem.seed
         /\ ~(p = r /\ AndGate(r)) => prng'[p] = prng[p]
         /\ p = r /\ AndGate(r) => /\ prng'[p].loc = Advance(prng[p].loc, 1)
                                   /\ prng'[p].rem = Advance(prng[p].rem, 1)
<1>1. ASSUME AndGate(r), p = r
      PROVE  /\ prng'[p].loc = Advance(prng[p].loc, 1)
             /\ prng'[p].rem = Advance(prng[p].rem, 1)
  BY <1>1, GenTypes DEF AndGate
<1>2. \A st \in GenState : Advance(st, 1).seed = st.seed
  BY DEF GenState, Advance
<1>3. AndGate(r) /\ p # r => prng'[p] = prng[p]
  BY GenTypes DEF AndGate
<1>4. ~AndGate(r) => prng' = prng
  BY DEF Step, LinearGate, Send, Recv, Return
<1> QED BY <1>1, <1>2, <1>3, <1>4, GenTypes

LEMMA InStepStep ==
  ASSUME FInv, NEW r \in Party, Step(r)
  PROVE  InStep'
<1> SUFFICES ASSUME NEW p \in Party
             PROVE  /\ prng'[p].loc = StreamAt(prng'[p].loc.seed, pc'[p])
                    /\ prng'[p].rem = StreamAt(prng'[p].rem.seed, pc'[p])
                    /\ prng'[p].rem.seed = prng'[Pred(p)].loc.seed
  BY DEF InStep
<1>0. /\ IInv /\ Pred(p) \in Party
      /\ prng[p].loc = StreamAt(prng[p].loc.seed, pc[p])
      /\ prng[p].rem = StreamAt(prng[p].rem.seed, pc[p])
      /\ prng[p].rem.seed = prng[Pred(p)].loc.seed
  BY PartyFacts DEF FInv, RInv, InStep
<1>1. prng'[p].rem.seed = prng'[Pred(p)].loc.seed
  BY <1>0, SeedsStay
<1>2. CASE p = r /\ AndGate(r)
  <2>1. pc[r] \in Wire /\ Op(pc[r]) = "and" /\ pc'[r] = pc[r] + 1
    BY <1>0, <1>2, NewCallEmpty DEF AndGate
  <2>2. /\ prng'[p].loc = Advance(prng[p].loc, 1)
        /\ prng'[p].rem = Advance(prng[p].rem, 1)
        /\ prng'[p].loc.seed = prng[p].loc.seed /\ prng'[p].rem.seed = prng[p].rem.seed
    BY <1>0, <1>2, SeedsStay
  <2>3. \A s \in Seed : Advance(StreamAt(s, pc[p]), 1) = StreamAt(s, pc'[p])
    BY <1>2, <2>1, AndsNext DEF Advance, StreamAt
  <2> QED BY <1>0, <1>1, <2>2, <2>3, GenTypes
<1>3. CASE ~(p = r /\ AndGate(r))
  <2>1. prng'[p] = prng[p]
    BY <1>0, <1>3, SeedsStay
  <2>2. Ands(pc'[p]) = Ands(pc[p])
    <3>1. CASE pc'[p] = pc[p]
      BY <3>1
    <3>2. CASE pc'[p] # pc[p]
      <4>1. p = r /\ pc[r] \in Wire /\ pc'[r] = pc[r] + 1
        BY <1>0, <3>2, StepShape
      <4>2. Op(pc[r]) # "and"
        BY <1>3, <3>2, <4>1 DEF Step, LinearGate, Send, Recv, Return, CommOp,
                                ExchangeOp, OpenOp
      <4> QED BY <4>1, <4>2, AndsNext
    <3> QED BY <3>1, <3>2
  <2> QED BY <1>0, <1>1, <2>1, <2>2 DEF StreamAt
<1> QED BY <1>2, <1>3

LEMMA AndsStep ==
  ASSUME FInv, NEW r \in Party, Step(r)
  PROVE  AndsDone'
<1> SUFFICES ASSUME NEW p \in Party, NEW k \in Wire, Op(k) = "and", k < pc'[p]
             PROVE  AndDone(p, k)'
  BY DEF AndsDone, AndDone
<1> DEFINE a == Prog[k].a  b == Prog[k].b
<1>0. /\ RInv /\ IInv /\ k \in Nat /\ pc[p] \in Nat /\ pc[r] \in Nat
      /\ Reads(k) = {a, b}
  BY ProgramFacts, Types DEF FInv, RInv, Reads, CommOp, ExchangeOp, OpenOp
<1>1. a \in Wire /\ b \in Wire /\ a < k /\ b < k /\ a \in Nat /\ b \in Nat
  BY <1>0, ReadsBefore
<1>2. MaskOf(p, k)' = MaskOf(p, k)
  BY <1>0, SeedsStay DEF MaskOf
<1>3. CASE k < pc[p]
  <2>1. AndDone(p, k)
    BY DEF FInv, AndsDone
  <2>2. /\ local'[p][k] = local[p][k] /\ local'[p][a] = local[p][a]
        /\ local'[p][b] = local[p][b]
    <3>1. a < pc[p] /\ b < pc[p]
      BY <1>0, <1>1, <1>3
    <3> HIDE DEF a, b
    <3> QED BY <1>0, <1>1, <1>3, <3>1, SharesStay
  <2>3. /\ remote'[p][a] = remote[p][a] /\ remote'[p][b] = remote[p][b]
        /\ Reads(k) \subseteq Replicated[pc'[p]]
    BY <1>0, <1>3, <2>1, RemoteStays DEF AndDone
  <2> QED BY <1>2, <1>3, <2>1, <2>2, <2>3 DEF AndDone
<1>4. CASE ~(k < pc[p])
  <2>1. p = r /\ k = pc[r] /\ pc'[r] # pc[r]
    BY <1>0, <1>4, StepShape
  <2>2. AndGate(r)
    BY <1>0, <2>1 DEF Step, LinearGate, Send, Recv, Return, CommOp, ExchangeOp, OpenOp
  <2>3. Reads(k) \subseteq Replicated[k]
    BY ProgramAssumption
  <2>4. /\ remote'[p][a] = remote[p][a] /\ remote'[p][b] = remote[p][b]
        /\ Reads(k) \subseteq Replicated[pc'[p]]
    BY <1>0, <2>1, <2>3, RemoteStays
  <2>5. local'[p][k] = AndShare(p, k)
    BY <1>0, <2>1, <2>2, Types DEF AndGate
  <2>6. local'[p][a] = local[p][a] /\ local'[p][b] = local[p][b]
    BY <1>0, <1>1, <2>1, SharesStay
  <2>7. NextR(prng[p].loc, prng[p].rem) = MaskOf(p, k)
    BY <2>1 DEF FInv, InStep, MaskOf
  <2> QED BY <1>2, <2>4, <2>5, <2>6, <2>7 DEF AndDone, AndShare
<1> QED BY <1>3, <1>4

LEMMA NotWrittenStep ==
  ASSUME FInv, NEW r \in Party, Step(r)
  PROVE  NotWritten'
<1> SUFFICES ASSUME NEW p \in Party, NEW w \in Wire, Op(w) \in CommOp
             PROVE  local'[p][w] = local[p][w]
  BY DEF FInv, NotWritten
<1>1. IInv /\ Op(w) \notin GateOp
  BY OpKinds DEF FInv, RInv
<1>2. LinearGate(r) \/ AndGate(r) => w # pc[r]
  BY <1>1 DEF LinearGate, AndGate, GateOp
<1>3. Return(r) \/ (\E x \in Party : Send(r, x) \/ Recv(r, x)) => local' = local
  BY DEF Return, Send, Recv
<1> QED BY <1>1, <1>2, <1>3, StepShape DEF Step

LEMMA OpensStep ==
  ASSUME FInv, NEW r \in Party, Step(r)
  PROVE  OpensDone'
<1> SUFFICES ASSUME NEW k \in Wire, k < pc'[0], Op(k) \in OpenOp, NEW w \in Prog[k].ws
             PROVE  /\ opened'[0][w] = Reconstruct(SharesOf(w))'
                    /\ \A q \in Party : w < pc'[q]
  BY DEF OpensDone
<1>0. /\ IInv /\ 0 \in Party /\ k \in Nat /\ \A q \in Party : pc[q] \in Nat
      /\ w \in Wire /\ Op(k) \in CommOp
  BY ProgramFacts, PartyFacts, Types, OpKinds DEF FInv, RInv
<1>1. \A q \in Party : w < pc[q]
  <2>1. CASE k < pc[0]
    BY <2>1 DEF FInv, OpensDone
  <2>2. CASE ~(k < pc[0])
    <3>1. r = 0 /\ k = pc[0] /\ pc'[r] # pc[r]
      BY <1>0, <2>2, StepShape
    <3>2. Return(r)
      BY <1>0, <3>1, OpKinds DEF Step, LinearGate, AndGate, Send, Recv, GateOp
    <3>3. gotFrom[0] = {1, 2}
      BY <1>0, <3>1, <3>2, OpKinds DEF Return, CallComplete, RecvsFrom
    <3> QED BY <1>0, <3>1, <3>3, GotSettled
  <2> QED BY <2>1, <2>2
<1>2. \A q \in Party : w < pc'[q]
  BY <1>0, <1>1, SharesStay
<1>3. Reconstruct(SharesOf(w))' = Reconstruct(SharesOf(w))
  BY <1>0, <1>1, SharesStay
<1>4. CASE Return(r) /\ r = 0 /\ Op(pc[0]) \in OpenOp /\ w \in Prog[pc[0]].ws
  <2>1. /\ gotFrom[0] = {1, 2} /\ pc[0] \in Wire
    BY <1>4, OpKinds DEF Return, CallComplete, RecvsFrom
  <2>2. buffer[0][w] = Reconstruct(SharesOf(w))
    BY <1>0, <1>4, <2>1 DEF FInv, RInv, Summed, SummedBy, SumOf
  <2>3. opened'[0][w] = buffer[0][w]
    BY <1>0, <1>4, <2>1, Types DEF Return
  <2> QED BY <1>2, <1>3, <2>2, <2>3
<1>5. CASE ~(Return(r) /\ r = 0 /\ Op(pc[0]) \in OpenOp /\ w \in Prog[pc[0]].ws)
  <2>1. opened'[0][w] = opened[0][w]
    <3>1. CASE r # 0
      BY <1>0, <3>1, StepShape
    <3>2. CASE r = 0 /\ Return(r)
      BY <1>0, <1>5, <3>2, Types DEF Return
    <3>3. CASE ~Return(r)
      BY <3>3 DEF Step, LinearGate, AndGate, Send, Recv
    <3> QED BY <3>1, <3>2, <3>3
  <2>2. k < pc[0]
    <3>1. CASE pc'[0] = pc[0]
      BY <3>1
    <3>2. CASE pc'[0] # pc[0]
      <4>1. r = 0 /\ pc'[0] = pc[0] + 1
        BY <1>0, <3>2, StepShape
      <4>2. Op(pc[0]) \in OpenOp => Return(r)
        BY <3>2, <4>1, OpKinds DEF Step, LinearGate, AndGate, Send, Recv, GateOp
      <4>3. k # pc[0]
        BY <1>5, <4>1, <4>2
      <4> QED BY <1>0, <4>1, <4>3
    <3> QED BY <3>1, <3>2
  <2>3. opened[0][w] = Reconstruct(SharesOf(w))
    BY <2>2 DEF FInv, OpensDone
  <2> QED BY <1>2, <1>3, <2>1, <2>3
<1> QED BY <1>4, <1>5

-----------------------------------------------------------------------------
(* The three shares of a gate that all parties have done stand for what the *)
(* gate computes.                                                           *)

Plaintext == [w \in Wire |-> Reconstruct(SharesOf(w))]

GatesCorrect ==
  \A k \in Wire : Op(k) \in GateOp \ {"input"} /\ (\A p \in Party : k < pc[p])
    => Reconstruct(SharesOf(k)) = GateValue(k, Plaintext)

LEMMA ShareVector ==
  ASSUME IInv, NEW w \in Wire
  PROVE  SharesOf(w) \in Shares /\ \A p \in Party : SharesOf(w)[p] = local[p][w]
BY Types DEF SharesOf, Shares

LEMMA LinearSum ==
  ASSUME NEW f \in LinearMap, NEW s \in Shares
  PROVE  Reconstruct([p \in Party |-> Linear(f, s[p])]) = Linear(f, Reconstruct(s))
<1>1. s[0] \in Elem /\ s[1] \in Elem /\ s[2] \in Elem /\ Plus(s[0], s[1]) \in Elem
  BY ReconstructType, RingClosed
<1>2. Linear(f, Plus(Plus(s[0], s[1]), s[2]))
        = Plus(Linear(f, Plus(s[0], s[1])), Linear(f, s[2]))
  BY <1>1, LinearAssumption
<1>3. Linear(f, Plus(s[0], s[1])) = Plus(Linear(f, s[0]), Linear(f, s[1]))
  BY <1>1, LinearAssumption
<1> QED BY <1>2, <1>3, RingOfParties DEF Reconstruct

\* The parties' masks of one and_b add up to zero, since all are at the same
\* place of the streams.
LEMMA MasksCancel ==
  ASSUME FInv, NEW k \in Wire
  PROVE  /\ [p \in Party |-> MaskOf(p, k)] \in Shares
         /\ Reconstruct([p \in Party |-> MaskOf(p, k)]) = Zero
<1> DEFINE loc == [p \in Party |-> StreamAt(prng[p].loc.seed, k)]
           rem == [p \in Party |-> StreamAt(prng[p].rem.seed, k)]
<1>1. ASSUME NEW p \in Party
      PROVE  Draw(loc[p]) \in Elem /\ rem[p] = loc[Pred(p)]
  <2>1. prng[p].loc.seed \in Seed /\ prng[p].rem.seed = prng[Pred(p)].loc.seed
    BY GenTypes DEF FInv, RInv, InStep
  <2>2. StreamAt(prng[p].loc.seed, k) \in GenState
    BY <2>1, AndsNext DEF StreamAt, GenState
  <2> QED BY <2>1, <2>2, DrawType, PartyFacts
<1>2. [p \in Party |-> MaskOf(p, k)] = [p \in Party |-> NextR(loc[p], rem[p])]
  BY DEF MaskOf
<1> HIDE DEF loc, rem
<1> QED BY <1>1, <1>2, ZeroShares

LEMMA GatesAreCorrect == FInv => GatesCorrect
<1> SUFFICES ASSUME FInv, NEW k \in Wire, Op(k) \in GateOp \ {"input"},
                    \A p \in Party : k < pc[p]
             PROVE  Reconstruct(SharesOf(k)) = GateValue(k, Plaintext)
  BY DEF GatesCorrect
<1> DEFINE a == Prog[k].a  b == Prog[k].b  x == SharesOf(a)  y == SharesOf(b)
<1>0. IInv /\ RInv /\ a \in Wire /\ b \in Wire
  BY ProgramFacts DEF FInv, RInv
<1>1. /\ x \in Shares /\ \A p \in Party : x[p] = local[p][a]
      /\ y \in Shares /\ \A p \in Party : y[p] = local[p][b]
      /\ Plaintext[a] = Reconstruct(x) /\ Plaintext[b] = Reconstruct(y)
  BY <1>0, ShareVector DEF Plaintext
<1>2. SharesOf(k) = [p \in Party |-> local[p][k]]
  BY DEF SharesOf
<1>3. \A p \in Party : Op(k) \in LocalOp => local[p][k] = GateValue(k, local[p])
  BY <1>0 DEF RInv, GatesDone, GateDone
<1> HIDE DEF x, y
<1>4. CASE Op(k) = "xor"
  <2>1. SharesOf(k) = PlusS(x, y)
    BY <1>1, <1>2, <1>3, <1>4 DEF GateValue, LocalOp, PlusS
  <2> QED BY <1>1, <1>4, <2>1, ReconstructPlus DEF GateValue
<1>5. CASE Op(k) = "not"
  <2>1. SharesOf(k) = [p \in Party |-> NotB(x[p])]
    BY <1>1, <1>2, <1>3, <1>5 DEF GateValue, LocalOp
  <2>2. Plus(One, One) = Zero
    BY <1>5, ProgramAssumption
  <2> QED BY <1>1, <1>5, <2>1, <2>2, NotBCorrect DEF GateValue
<1>6. CASE Op(k) = "linear"
  <2>1. SharesOf(k) = [p \in Party |-> Linear(Prog[k].f, x[p])]
    BY <1>1, <1>2, <1>3, <1>6 DEF GateValue, LocalOp
  <2> QED BY <1>1, <1>6, <2>1, LinearSum, ProgramFacts DEF GateValue
<1>7. CASE Op(k) = "and"
  <2> DEFINE m == [p \in Party |-> MaskOf(p, k)]
  <2>1. m \in Shares /\ Reconstruct(m) = Zero
    BY MasksCancel
  <2>2. ASSUME NEW p \in Party
        PROVE  local[p][k] = AndB(x[p], Remote(x)[p], y[p], Remote(y)[p], m[p])
    <3>1. AndDone(p, k)
      BY DEF FInv, AndsDone
    <3>2. Reads(k) = {a, b}
      BY <1>7 DEF Reads, CommOp, ExchangeOp, OpenOp
    <3>3. a < pc[Succ(p)] /\ b < pc[Succ(p)]
      <4>1. a \in Nat /\ b \in Nat /\ k \in Nat /\ a < k /\ b < k
        BY <3>2, ReadsBefore
      <4>2. Succ(p) \in Party /\ pc[Succ(p)] \in Nat /\ k < pc[Succ(p)]
        BY <1>0, PartyFacts, Types
      <4> HIDE DEF a, b
      <4> QED BY <4>1, <4>2
    <3>4. a \in Replicated[pc[p]] /\ b \in Replicated[pc[p]]
      BY <1>7, <3>1, <3>2 DEF AndDone
    <3>5. remote[p][a] = local[Succ(p)][a] /\ remote[p][b] = local[Succ(p)][b]
      BY <1>0, <3>3, <3>4 DEF RInv, Mirrors, MirrorOf
    <3>6. Remote(x)[p] = remote[p][a] /\ Remote(y)[p] = remote[p][b]
      BY <1>1, <3>5, PartyFacts DEF Remote
    <3>7. local[p][k] = AndB(local[p][a], remote[p][a], local[p][b], remote[p][b],
                             MaskOf(p, k))
      BY <1>7, <3>1 DEF AndDone
    <3> QED BY <1>1, <3>6, <3>7
  <2>3. SharesOf(k) = [p \in Party |->
                         AndB(x[p], Remote(x)[p], y[p], Remote(y)[p], m[p])]
    BY <1>2, <2>2
  <2> HIDE DEF m
  <2> QED BY <1>1, <1>7, <2>1, <2>3, AndBCorrect DEF GateValue
<1> QED BY <1>4, <1>5, <1>6, <1>7 DEF GateOp

-----------------------------------------------------------------------------
(* The invariant holds in every reachable state. *)

LEMMA Dealing ==
  ASSUME Init
  PROVE  \E x \in [Inputs -> InputValue], r1, r2 \in [Inputs -> DealtWord] :
           local = [p \in Party |-> [w \in Wire |->
                      IF w \in Inputs THEN GenerateShare(x[w], r1[w], r2[w])[p] ELSE Zero]]
<1>1. PICK x \in [Inputs -> InputValue], r1 \in [Inputs -> DealtWord],
           r2 \in [Inputs -> DealtWord] :
        /\ local = [p \in Party |-> [w \in Wire |->
              IF w \in Inputs THEN GenerateShare(x[w], r1[w], r2[w])[p] ELSE Zero]]
        /\ remote = [p \in Party |-> [w \in Wire |->
              IF w \in Inputs THEN GenerateShare(x[w], r1[w], r2[w])[Succ(p)] ELSE Zero]]
  BY DEF Init
<1> QED BY <1>1

LEMMA InitFInv == Init => FInv
<1> SUFFICES ASSUME Init PROVE FInv
  OBVIOUS
<1>1. RInv
  BY InitRInv
<1>2. pc = [p \in Party |-> 1] /\ \A k \in Wire : k \in Nat /\ k >= 1
  BY ProgramFacts DEF Init, Wire
<1>3. InStep
  <2>1. Ands(1) = {}
    BY <1>2 DEF Ands
  <2>2. Cardinality(Ands(1)) = 0
    BY <2>1, FS_EmptySet
  <2>3. PICK seed \in [Party -> Seed] :
          prng = [p \in Party |-> [loc |-> Stream(seed[p]), rem |-> Stream(seed[Pred(p)])]]
    BY DEF Init
  <2>4. ASSUME NEW p \in Party
        PROVE  /\ prng[p].loc = Stream(seed[p]) /\ prng[p].rem = Stream(seed[Pred(p)])
               /\ prng[Pred(p)].loc = Stream(seed[Pred(p)]) /\ pc[p] = 1
    BY <1>2, <2>3, PartyFacts
  <2>5. \A z \in Seed : Stream(z) = StreamAt(z, 1) /\ Stream(z).seed = z
    BY <2>2 DEF StreamAt, Stream
  <2>6. \A p \in Party : seed[p] \in Seed /\ seed[Pred(p)] \in Seed
    BY PartyFacts
  <2> QED BY <2>4, <2>5, <2>6 DEF InStep
<1>4. AndsDone
  BY <1>2 DEF AndsDone, AndDone
<1>5. NotWritten
  <2>1. PICK x \in [Inputs -> InputValue], r1 \in [Inputs -> DealtWord],
             r2 \in [Inputs -> DealtWord] :
          local = [p \in Party |-> [w \in Wire |->
                     IF w \in Inputs THEN GenerateShare(x[w], r1[w], r2[w])[p] ELSE Zero]]
    BY Dealing
  <2>2. \A w \in Wire : Op(w) \in CommOp => w \notin Inputs
    BY OpKinds DEF GateOp
  <2> QED BY <2>1, <2>2 DEF NotWritten
<1>6. OpensDone
  BY <1>2, PartyFacts DEF OpensDone
<1> QED BY <1>1, <1>3, <1>4, <1>5, <1>6 DEF FInv

LEMMA StepFInv == FInv /\ [Next]_vars => FInv'
<1> SUFFICES ASSUME FInv, [Next]_vars PROVE FInv'
  OBVIOUS
<1>1. RInv'
  BY StepRInv DEF FInv
<1>2. ASSUME NEW r \in Party, Step(r) PROVE FInv'
  BY <1>1, <1>2, InStepStep, AndsStep, NotWrittenStep, OpensStep DEF FInv
<1>3. CASE UNCHANGED vars
  <2>1. InStep' /\ NotWritten'
    BY <1>3 DEF FInv, InStep, NotWritten, vars
  <2>2. AndsDone'
    BY <1>3 DEF FInv, AndsDone, AndDone, MaskOf, vars
  <2>3. OpensDone'
    BY <1>3 DEF FInv, OpensDone, SharesOf, Reconstruct, vars
  <2> QED BY <1>1, <2>1, <2>2, <2>3 DEF FInv
<1> QED BY <1>2, <1>3 DEF Next, Terminated

LEMMA FInvAlways == Spec => [](FInv /\ GatesCorrect)
<1>1. Init => FInv
  BY InitFInv
<1>2. FInv /\ [Next]_vars => FInv'
  BY StepFInv
<1>3. FInv => GatesCorrect
  BY GatesAreCorrect
<1> QED BY <1>1, <1>2, <1>3, PTL DEF Spec

-----------------------------------------------------------------------------
(* The refinement mapping. *)

\* The names the instance of IdealEval has for the parts of the program.
LEMMA SameProgram ==
  /\ Ideal!Wire = Wire /\ Ideal!Inputs = Inputs
  /\ Ideal!GateOp = GateOp /\ Ideal!ExchangeOp = ExchangeOp /\ Ideal!OpenOp = OpenOp
  /\ \A k : Ideal!Op(k) = Op(k)
  /\ \A k, v : Ideal!GateValue(k, v) = GateValue(k, v)
BY DEF Ideal!Wire, Ideal!Last, Ideal!Inputs, Ideal!Op, Ideal!GateOp, Ideal!ExchangeOp,
       Ideal!OpenOp, Ideal!GateValue, Ideal!NotB, Wire, Last, Inputs, Op, GateOp,
       ExchangeOp, OpenOp, GateValue, NotB

LEMMA SlowestIsLast ==
  ASSUME IInv
  PROVE  /\ Slowest \in Nat
         /\ \A p \in Party : Slowest <= pc[p]
         /\ \E p \in Party : Slowest = pc[p]
BY Types, PartyFacts DEF Slowest

LEMMA InitRefines == Init => Ideal!IdealInit
<1> SUFFICES ASSUME Init PROVE Ideal!IdealInit
  OBVIOUS
<1>1. pc = [p \in Party |-> 1] /\ \A k \in Wire : k \in Nat /\ k >= 1
  BY ProgramFacts DEF Init, Wire
<1>2. Slowest = 1
  BY <1>1, PartyFacts DEF Slowest
<1>3. PICK x \in [Inputs -> InputValue], r1 \in [Inputs -> DealtWord],
           r2 \in [Inputs -> DealtWord] :
        local = [p \in Party |-> [w \in Wire |->
                   IF w \in Inputs THEN GenerateShare(x[w], r1[w], r2[w])[p] ELSE Zero]]
  BY Dealing
<1>4. ASSUME NEW w \in Inputs PROVE Reconstruct(SharesOf(w)) = x[w]
  <2>1. x[w] \in Elem /\ r1[w] \in Elem /\ r2[w] \in Elem /\ w \in Wire
    BY InputAssumption DEF Inputs
  <2>2. /\ GenerateShare(x[w], r1[w], r2[w]) \in [Party -> Elem]
        /\ Reconstruct(GenerateShare(x[w], r1[w], r2[w])) = x[w]
    BY <2>1, GenerateShareCorrect
  <2>3. SharesOf(w) = GenerateShare(x[w], r1[w], r2[w])
    BY <1>3, <2>1, <2>2 DEF SharesOf
  <2> QED BY <2>2, <2>3
<1>5. PlainValue = [w \in Wire |-> IF w \in Inputs THEN x[w] ELSE Zero]
  BY <1>1, <1>2, <1>4 DEF PlainValue
<1>6. PublicValue = [w \in Wire |-> NotOpened]
  BY <1>1, <1>2 DEF PublicValue
<1> QED BY <1>2, <1>5, <1>6, SameProgram DEF Ideal!IdealInit

\* After a step that leaves no party at a call, all are past it.
LEMMA SlowestAfter ==
  ASSUME IInv, NEW r \in Party, Step(r), Slowest' = Slowest + 1, Slowest = pc[r]
  PROVE  \A p \in Party : pc[r] < pc'[p]
<1>1. /\ pc[0] \in Nat /\ pc[1] \in Nat /\ pc[2] \in Nat
      /\ pc'[r] = pc[r] \/ pc'[r] = pc[r] + 1
      /\ \A p \in Party \ {r} : pc'[p] = pc[p]
  BY Types, StepShape, PartyFacts
<1>2. pc'[0] \in Nat /\ pc'[1] \in Nat /\ pc'[2] \in Nat /\ pc[r] \in Nat
  BY <1>1, PartyFacts
<1>3. Slowest' <= pc'[0] /\ Slowest' <= pc'[1] /\ Slowest' <= pc'[2]
  BY <1>2 DEF Slowest
<1> QED BY <1>2, <1>3, PartyFacts

LEMMA AnyGateReads ==
  ASSUME NEW k \in Wire, Op(k) \in GateOp \ {"input"}, NEW u, NEW v,
         \A w \in Reads(k) : u[w] = v[w]
  PROVE  GateValue(k, u) = GateValue(k, v)
<1>1. CASE Op(k) = "and"
  <2>1. Reads(k) = {Prog[k].a, Prog[k].b}
    BY <1>1 DEF Reads, CommOp, ExchangeOp, OpenOp
  <2> QED BY <1>1, <2>1 DEF GateValue
<1>2. CASE Op(k) # "and"
  BY <1>2, GateReads, OpKinds
<1> QED BY <1>1, <1>2

\* What the mapping shows of a wire that all parties are past does not change.
LEMMA MappedStays ==
  ASSUME FInv, NEW r \in Party, Step(r), NEW w \in Wire,
         w \in Inputs \/ w < Slowest
  PROVE  Reconstruct(SharesOf(w))' = Reconstruct(SharesOf(w))
<1>1. IInv /\ RInv /\ w \in Nat
  BY ProgramFacts DEF FInv, RInv
<1>2. CASE w \in Inputs
  BY <1>1, <1>2, InputsStay, PartyFacts DEF Reconstruct, SharesOf
<1>3. CASE w < Slowest
  <2>1. \A p \in Party : w < pc[p]
    BY <1>1, <1>3, SlowestIsLast, Types
  <2> QED BY <1>1, <2>1, SharesStay
<1> QED BY <1>2, <1>3

LEMMA SlowestMoves ==
  ASSUME IInv, NEW r \in Party, Step(r)
  PROVE  \/ Slowest' = Slowest
         \/ Slowest' = Slowest + 1 /\ Slowest = pc[r] /\ pc'[r] = pc[r] + 1
<1>1. /\ pc[0] \in Nat /\ pc[1] \in Nat /\ pc[2] \in Nat
      /\ pc'[r] = pc[r] \/ pc'[r] = pc[r] + 1
      /\ \A p \in Party \ {r} : pc'[p] = pc[p]
  BY Types, StepShape, PartyFacts
<1>2. CASE r = 0
  BY <1>1, <1>2, PartyFacts DEF Slowest
<1>3. CASE r = 1
  BY <1>1, <1>3, PartyFacts DEF Slowest
<1>4. CASE r = 2
  BY <1>1, <1>4, PartyFacts DEF Slowest
<1> QED BY <1>2, <1>3, <1>4, PartyFacts

\* What P1 has learnt in a call that all parties are past is there to stay.
LEMMA PublicStays ==
  ASSUME FInv, FInv', NEW r \in Party, Step(r),
         NEW k \in Wire, Op(k) \in OpenOp, k < Slowest, NEW w \in Prog[k].ws
  PROVE  opened'[0][w] = opened[0][w] /\ opened[0][w] = Reconstruct(SharesOf(w))
<1>1. IInv /\ k \in Nat /\ 0 \in Party /\ w \in Wire
  BY ProgramFacts, PartyFacts DEF FInv, RInv
<1>2. k < pc[0] /\ k < pc'[0]
  <2>1. k < pc[0]
    BY <1>1, SlowestIsLast, Types
  <2> QED BY <1>1, <2>1, SharesStay
<1>3. opened[0][w] = Reconstruct(SharesOf(w)) /\ \A q \in Party : w < pc[q]
  BY <1>2 DEF FInv, OpensDone
<1>4. opened'[0][w] = Reconstruct(SharesOf(w))'
  BY <1>2 DEF FInv, OpensDone
<1> QED BY <1>1, <1>3, <1>4, SharesStay

\* A step after which the same call is the slowest party's changes nothing.
LEMMA StepStutters ==
  ASSUME FInv, FInv', NEW r \in Party, Step(r), Slowest' = Slowest
  PROVE  PlainValue' = PlainValue /\ PublicValue' = PublicValue
<1>1. PlainValue' = PlainValue
  BY MappedStays DEF PlainValue
<1>2. PublicValue' = PublicValue
  BY PublicStays DEF PublicValue
<1> QED BY <1>1, <1>2

\* The step with which the last party completes a call evaluates the call.
LEMMA StepEvaluates ==
  ASSUME FInv, FInv', GatesCorrect', NEW r \in Party, Step(r),
         Slowest' = Slowest + 1, Slowest = pc[r]
  PROVE  Ideal!IdealNext
<1>0. PICK k \in Wire : k = pc[r]
  BY StepShape DEF FInv, RInv
<1>1. /\ IInv /\ k \in Nat /\ Slowest = k /\ Slowest' = k + 1
      /\ \A w \in Wire : w \in Nat /\ (w < k + 1 <=> w < k \/ w = k)
  BY <1>0, ProgramFacts DEF FInv, RInv
<1>2. \A w \in Wire \ {k} : PlainValue'[w] = PlainValue[w]
  BY <1>1, MappedStays DEF PlainValue
<1>3. PlainValue' = [PlainValue EXCEPT ![k] = PlainValue'[k]]
  BY <1>1, <1>2 DEF PlainValue
<1>4. PlainValue'[k] = Reconstruct(SharesOf(k))'
  BY <1>1 DEF PlainValue
<1>5. ASSUME Op(k) \in GateOp PROVE PlainValue'[k] = GateValue(k, PlainValue)
  <2>1. CASE k \in Inputs
    <3>1. Reconstruct(SharesOf(k))' = Reconstruct(SharesOf(k))
      BY <2>1, <1>1, MappedStays
    <3> QED BY <1>1, <1>4, <2>1, <3>1, InputGate, OpKinds DEF PlainValue
  <2>2. CASE k \notin Inputs
    <3>1. Op(k) \in GateOp \ {"input"}
      BY <1>1, <1>5, <2>2, OpKinds
    <3>2. \A p \in Party : k < pc'[p]
      BY <1>0, <1>1, SlowestAfter
    <3>3. Reconstruct(SharesOf(k))' = GateValue(k, Plaintext')
      BY <1>1, <3>1, <3>2 DEF GatesCorrect
    <3>4. ASSUME NEW w \in Reads(k) PROVE Plaintext'[w] = PlainValue[w]
      <4>1. w \in Wire /\ w < Slowest
        BY <1>1, ReadsBefore
      <4> QED BY <4>1, MappedStays DEF Plaintext, PlainValue
    <3>5. GateValue(k, Plaintext') = GateValue(k, PlainValue)
      BY <1>1, <3>1, <3>4, AnyGateReads
    <3> QED BY <1>4, <3>3, <3>5
  <2> QED BY <2>1, <2>2
<1>6. ASSUME Op(k) \notin GateOp PROVE PlainValue' = PlainValue
  <2>1. Op(k) \in CommOp /\ k \notin Inputs
    BY <1>1, <1>6, ProgramFacts, OpKinds DEF GateOp
  <2>2. Plus(Plus(Zero, Zero), Zero) = Zero
    BY RingClosed, RingAdditive
  <2>3. \A p \in Party : local'[p][k] = Zero
    BY <1>1, <2>1 DEF FInv, NotWritten
  <2>4. Reconstruct(SharesOf(k))' = Zero
    BY <2>2, <2>3, PartyFacts DEF Reconstruct, SharesOf
  <2>5. PlainValue[k] = Zero
    BY <1>1, <2>1 DEF PlainValue
  <2> QED BY <1>1, <1>3, <1>4, <2>4, <2>5 DEF PlainValue
<1>7. ASSUME Op(k) \notin OpenOp PROVE PublicValue' = PublicValue
  BY <1>1, <1>7, PublicStays DEF PublicValue
<1>8. ASSUME Op(k) \in OpenOp
      PROVE  PublicValue' = [w \in Wire |-> IF w \in Prog[k].ws THEN PlainValue[w]
                                            ELSE PublicValue[w]]
  <2>1. ASSUME NEW w \in Prog[k].ws
        PROVE  PublicValue'[w] = PlainValue[w]
    <3>1. w \in Wire /\ w < Slowest
      BY <1>1, <1>8, ReadsBefore, OpKinds
    <3>2. k < pc'[0]
      BY <1>0, <1>1, SlowestAfter, PartyFacts
    <3>3. opened'[0][w] = Reconstruct(SharesOf(w))'
      BY <1>1, <1>8, <3>2 DEF FInv, OpensDone
    <3>4. PublicValue'[w] = opened'[0][w]
      BY <1>1, <1>8, <3>1 DEF PublicValue
    <3> QED BY <3>1, <3>3, <3>4, MappedStays DEF PlainValue
  <2>2. ASSUME NEW w \in Wire, w \notin Prog[k].ws
        PROVE  PublicValue'[w] = PublicValue[w]
    BY <1>1, <2>2, PublicStays DEF PublicValue
  <2>3. PublicValue' = [w \in Wire |-> PublicValue'[w]]
    BY DEF PublicValue
  <2> QED BY <2>1, <2>2, <2>3
<1>9. CASE Op(k) \in GateOp
  BY <1>1, <1>3, <1>5, <1>7, <1>9, SameProgram, OpKinds
     DEF Ideal!IdealNext, Ideal!EvalGate
<1>10. CASE Op(k) \in ExchangeOp
  BY <1>1, <1>6, <1>7, <1>10, SameProgram, OpKinds
     DEF Ideal!IdealNext, Ideal!EvalExchange
<1>11. CASE Op(k) \in OpenOp
  BY <1>1, <1>6, <1>8, <1>11, SameProgram, OpKinds
     DEF Ideal!IdealNext, Ideal!EvalOpen
<1> QED BY <1>1, <1>9, <1>10, <1>11, ProgramFacts DEF CommOp

-----------------------------------------------------------------------------
(* Theorem. *)

\* Every run of the three parties is a run of the plaintext program: a call is
\* evaluated when the last party completes it, and what P1 has learnt is what
\* the plaintext program opens.
THEOREM Refinement == Spec => ImplementsIdeal
<1>1. Init => Ideal!IdealInit
  BY InitRefines
<1>2. FInv /\ FInv' /\ GatesCorrect' /\ [Next]_vars
        => [Ideal!IdealNext]_(Ideal!ivars)
  <2> SUFFICES ASSUME FInv, FInv', GatesCorrect', [Next]_vars
               PROVE  [Ideal!IdealNext]_(Ideal!ivars)
    OBVIOUS
  <2>1. ASSUME NEW r \in Party, Step(r)
        PROVE  [Ideal!IdealNext]_(Ideal!ivars)
    <3>1. CASE Slowest' = Slowest
      BY <2>1, <3>1, StepStutters DEF Ideal!ivars
    <3>2. CASE Slowest' # Slowest
      <4>1. Slowest' = Slowest + 1 /\ Slowest = pc[r]
        BY <2>1, <3>2, SlowestMoves DEF FInv, RInv
      <4> QED BY <2>1, <4>1, StepEvaluates
    <3> QED BY <3>1, <3>2
  <2>2. CASE UNCHANGED vars
    <3>1. UNCHANGED <<Slowest, PlainValue, PublicValue>>
      BY <2>2 DEF Slowest, PlainValue, PublicValue, SharesOf, Reconstruct, vars
    <3> QED BY <3>1 DEF Ideal!ivars
  <2> QED BY <2>1, <2>2 DEF Next, Terminated
<1> QED BY <1>1, <1>2, FInvAlways, PTL DEF Spec, ImplementsIdeal, Ideal!IdealSpec

=============================================================================
