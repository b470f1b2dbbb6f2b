------------------------- MODULE EqArrayInterProofs -------------------------
(***************************************************************************)
(* Proofs about EqArrayInter, for arrays of any length, any number of      *)
(* levels and all relative speeds of the parties.  The theorems are about  *)
(* eq_b_array_inter_batch, whose transfers may complete in any order; the  *)
(* invariant they rest on also covers eq_b_array_inter, for any number of  *)
(* batches, if its transfers complete in order.                            *)
(***************************************************************************)
EXTENDS EqArrayInter, FiniteSetTheorems, SequenceTheorems, TLAPS

-----------------------------------------------------------------------------
(* Which exchanges a party has posted.  All parties post the same ones in  *)
(* the same order: <<l, e>> is posted in level l after element e, the last *)
(* exchange of a level after element Length.                               *)

Keys ==
  {k \in (0 .. Levels - 2) \X (0 .. Length) :
     IF k[2] = Length THEN ~WaitForAll ELSE BatchEnd(k[2])}

First(k) == IF k[2] = Length THEN Length - BatchSize ELSE k[2] - (BatchSize - 1)
Final(k) == IF k[2] = Length THEN Length - 1 ELSE k[2]

Earlier(j, k) == j[1] < k[1] \/ (j[1] = k[1] /\ j[2] < k[2])

\* Exchanges that are posted before k.
Rank(k) == Cardinality({j \in Keys : Earlier(j, k)})

\* Where a party is in its level.
Place(p) == IF resent[p] THEN Length + 1 ELSE i[p]

Posted(p) == {k \in Keys : Earlier(k, <<level[p], Place(p)>>)}

\* The sequence s holds one request for each exchange of P, in their order.
RequestsOf(s, P) ==
  /\ Len(s) = Cardinality(P)
  /\ \A n \in 1 .. Len(s) : \E k \in P :
       /\ n = Rank(k) + 1
       /\ s[n].first = First(k) /\ s[n].last = Final(k) /\ s[n].at = k[1] + 1
  /\ \A k \in P : Rank(k) + 1 \in 1 .. Len(s)

-----------------------------------------------------------------------------
(* The inductive invariant. *)

Request ==
  [first : Int, last : Int, at : Nat, done : BOOLEAN,
   kept : {<<>>} \cup [Element -> Nat]]

Types ==
  /\ fn \in DOMAIN Lengths
  /\ level \in [Party -> 0 .. Levels] /\ i \in [Party -> 0 .. Length]
  /\ resent \in [Party -> BOOLEAN]
  /\ res \in [Party -> [Element -> Nat]] /\ res2 \in [Party -> [Element -> Nat]]
  /\ sends \in [Party -> Seq(Request)] /\ recvs \in [Party -> Seq(Request)]

Places ==
  \A p \in Party :
    /\ resent[p] => i[p] = Length /\ ~WaitForAll /\ level[p] < Levels - 1
    /\ level[p] = Levels => i[p] = 0

PostsHeld ==
  \A p \in Party : RequestsOf(sends[p], Posted(p)) /\ RequestsOf(recvs[p], Posted(p))

ResultsHeld ==
  \A p \in Party, e \in Element : res[p][e] = level[p] + IF e < i[p] THEN 1 ELSE 0

\* A request that may be pending: of this level, or of the one before if the
\* party has yet to wait for it.
MayPend(p, r) ==
  \/ r.at = level[p] + 1 /\ r.last < i[p]
  \/ WaitForAll /\ i[p] = 0 /\ r.at = level[p]

PendingHeld ==
  \A p \in Party :
    /\ \A n \in 1 .. Len(sends[p]) : sends[p][n].done \/ MayPend(p, sends[p][n])
    /\ \A n \in 1 .. Len(recvs[p]) : recvs[p][n].done \/ MayPend(p, recvs[p][n])

InSequence(s) == \A n \in 1 .. Len(s) : s[n].done => \A m \in 1 .. n - 1 : s[m].done

OrderHeld ==
  ~WaitForAll => \A p \in Party : InSequence(sends[p]) /\ InSequence(recvs[p])

\* What has been received was sent.
ReceivedHeld ==
  \A p \in Party : \A n \in 1 .. Len(recvs[Pred(p)]) :
    recvs[Pred(p)][n].done => n \in 1 .. Len(sends[p]) /\ sends[p][n].done

\* MPI's copy of a message that is still to be received is of the right level.
KeptHeld ==
  \A p \in Party : \A n \in 1 .. Len(sends[p]) :
    sends[p][n].done /\ (n \in 1 .. Len(recvs[Pred(p)]) => ~recvs[Pred(p)][n].done)
      => /\ sends[p][n].kept \in [Element -> Nat]
         /\ \A e \in Covered(sends[p][n]) : sends[p][n].kept[e] = sends[p][n].at

\* A remote share has the latest level that was received for it.
RemoteHeld ==
  \A p \in Party, e \in Element :
    /\ \A n \in 1 .. Len(recvs[p]) :
         recvs[p][n].done /\ e \in Covered(recvs[p][n]) => recvs[p][n].at <= res2[p][e]
    /\ res2[p][e] = 0 \/ \E n \in 1 .. Len(recvs[p]) :
         e \in Covered(recvs[p][n]) /\ recvs[p][n].at = res2[p][e]

\* The invariant needs no order of completion from a function that waits for all
\* its requests.
OrderSuffices == WaitForAll \/ fn \in InOrder

Inv ==
  /\ Types /\ Places /\ PostsHeld /\ ResultsHeld /\ PendingHeld /\ OrderHeld
  /\ ReceivedHeld /\ KeptHeld /\ RemoteHeld

-----------------------------------------------------------------------------
(* Arithmetic of batches. *)

LEMMA Division ==
  ASSUME NEW a \in Nat, NEW b \in Nat \ {0}
  PROVE  a = b * (a \div b) + (a % b) /\ a % b \in 0 .. b - 1 /\ a \div b \in Nat
OBVIOUS

LEMMA Multiple ==
  ASSUME NEW a \in Nat, NEW b \in Nat \ {0}
  PROVE  (b * a) % b = 0
OBVIOUS

LEMMA Sizes ==
  ASSUME fn \in DOMAIN Lengths
  PROVE  /\ Length \in Nat /\ Length >= 1 /\ Levels \in Nat /\ Levels >= 2
         /\ BatchSize \in 1 .. Length /\ (WaitForAll => BatchSize = 1)
         /\ WaitForAll \in BOOLEAN /\ Element = 0 .. Length - 1
<1>1. Length \in Nat /\ Length >= 1 /\ Levels \in Nat /\ Levels >= 2
  BY SizeAssumption DEF Length
<1>2. CASE WaitForAll
  BY <1>1, <1>2 DEF BatchSize, WaitForAll, Element
<1>3. CASE ~WaitForAll
  <2>1. Exchanges \in Nat /\ Exchanges >= 1 /\ Length >= Exchanges
    BY <1>3, SizeAssumption DEF WaitForAll, Length
  <2>2. Length \div Exchanges \in 1 .. Length
    BY <1>1, <2>1
  <2> QED
    BY <1>1, <1>3, <2>2 DEF BatchSize, WaitForAll, Element
<1> QED
  BY <1>2, <1>3

\* Every element is followed by the end of its batch, less than a batch later.
LEMMA BatchEnds ==
  ASSUME NEW e \in Nat, fn \in DOMAIN Lengths
  PROVE  \E d \in e .. e + BatchSize - 1 : BatchEnd(d)
<1> DEFINE b == BatchSize
           q == e \div b
           d == b * (q + 1) - 1
<1>1. b \in Nat \ {0}
  BY Sizes
<1> HIDE DEF b
<1>2. e = b * q + (e % b) /\ e % b \in 0 .. b - 1 /\ q \in Nat
  BY <1>1, Division
<1> HIDE DEF q
<1>3. b * (q + 1) = b * q + b /\ b * q \in Nat /\ q + 1 \in Nat
  BY <1>1, <1>2
<1>4. d \in e .. e + b - 1 /\ d + 1 = b * (q + 1)
  BY <1>1, <1>2, <1>3
<1> HIDE DEF d
<1>5. (d + 1) % b = 0
  BY <1>1, <1>3, <1>4, Multiple
<1> QED
  BY <1>4, <1>5 DEF b, BatchEnd

LEMMA KeyFacts ==
  ASSUME fn \in DOMAIN Lengths, NEW k \in Keys
  PROVE  /\ k[1] \in 0 .. Levels - 2 /\ k[2] \in 0 .. Length /\ k = <<k[1], k[2]>>
         /\ First(k) \in Element /\ Final(k) \in Element
         /\ Final(k) <= k[2] /\ First(k) <= Final(k)
         /\ k[2] = Length => Final(k) < Length
<1>1. /\ k[1] \in 0 .. Levels - 2 /\ k[2] \in 0 .. Length /\ k = <<k[1], k[2]>>
      /\ IF k[2] = Length THEN ~WaitForAll ELSE BatchEnd(k[2])
  BY DEF Keys
<1>2. /\ Length \in Nat /\ Length >= 1 /\ BatchSize \in 1 .. Length
      /\ Element = 0 .. Length - 1
  BY Sizes
<1>3. CASE k[2] = Length
  BY <1>1, <1>2, <1>3 DEF First, Final
<1>4. CASE k[2] # Length
  <2> DEFINE e == k[2] + 1
             q == e \div BatchSize
  <2>1. e \in Nat /\ e >= 1 /\ BatchSize \in Nat \ {0}
    BY <1>1, <1>2
  <2>2. e = BatchSize * q + (e % BatchSize) /\ q \in Nat
    BY <2>1, Division
  <2>3. e % BatchSize = 0
    BY <1>1, <1>4 DEF BatchEnd
  <2> HIDE DEF q, e
  <2>4. q >= 1
    BY <2>1, <2>2, <2>3
  <2>5. BatchSize * q >= BatchSize
    BY <2>1, <2>2, <2>4
  <2>6. e >= BatchSize
    BY <2>1, <2>2, <2>3, <2>5
  <2>7. k[2] - (BatchSize - 1) >= 0
    BY <2>6, <1>1, <1>2 DEF e
  <2> QED
    BY <1>1, <1>2, <1>4, <2>7 DEF First, Final
<1> QED
  BY <1>1, <1>3, <1>4

LEMMA KeysFinite ==
  ASSUME fn \in DOMAIN Lengths
  PROVE  IsFiniteSet(Keys)
<1>1. IsFiniteSet(0 .. Levels - 2) /\ IsFiniteSet(0 .. Length)
  BY Sizes, FS_Interval
<1>2. IsFiniteSet((0 .. Levels - 2) \X (0 .. Length))
  BY <1>1, FS_Product
<1> QED
  BY <1>2, FS_Subset DEF Keys

LEMMA Ranks ==
  ASSUME fn \in DOMAIN Lengths, NEW j \in Keys, NEW k \in Keys
  PROVE  /\ Rank(j) \in Nat
         /\ Rank(j) = Rank(k) => j = k
<1>1. /\ j[1] \in Int /\ j[2] \in Int /\ k[1] \in Int /\ k[2] \in Int
      /\ j = <<j[1], j[2]>> /\ k = <<k[1], k[2]>>
  BY KeyFacts
<1> DEFINE Before(x) == {y \in Keys : Earlier(y, x)}
<1>2. \A x \in Keys : Before(x) \subseteq Keys /\ IsFiniteSet(Before(x))
  BY KeysFinite, FS_Subset
<1>3. \A x \in Keys : Rank(x) \in Nat
  BY <1>2, FS_CardinalityType DEF Rank
<1>4. ASSUME NEW x \in Keys, NEW y \in Keys, Earlier(x, y)
      PROVE  Rank(x) < Rank(y)
  <2>1. Before(x) \subseteq Before(y)
    <3>1. \A z \in Keys : Earlier(z, x) => Earlier(z, y)
      BY <1>4, KeyFacts DEF Earlier
    <3> QED
      BY <3>1
  <2>2. x \in Before(y) /\ x \notin Before(x)
    BY <1>4, KeyFacts DEF Earlier
  <2>3. Before(x) # Before(y)
    BY <2>2
  <2>4. Cardinality(Before(x)) < Cardinality(Before(y))
    BY <1>2, <2>1, <2>3, FS_Subset, FS_CardinalityType
  <2> QED
    BY <2>4 DEF Rank
<1>5. Earlier(j, k) \/ Earlier(k, j) \/ j = k
  BY <1>1 DEF Earlier
<1> QED
  BY <1>3, <1>4, <1>5

-----------------------------------------------------------------------------
(* What the requests of a party are. *)

\* Requests are for elements of the array and for a level that is done or is
\* being computed, then for elements that have been computed.
LEMMA RequestFacts ==
  ASSUME Inv, NEW p \in Party, NEW s, RequestsOf(s, Posted(p)), NEW n \in 1 .. Len(s)
  PROVE  /\ s[n].first \in Element /\ s[n].last \in Element
         /\ s[n].first <= s[n].last
         /\ s[n].at \in 1 .. Levels - 1 /\ s[n].at <= level[p] + 1
         /\ s[n].at = level[p] + 1 => s[n].last < i[p]
         /\ s[n].at = level[p] + 1 => level[p] < Levels - 1
<1>1. PICK k \in Posted(p) :
        s[n].first = First(k) /\ s[n].last = Final(k) /\ s[n].at = k[1] + 1
  BY DEF RequestsOf
<1>2. fn \in DOMAIN Lengths /\ level[p] \in 0 .. Levels /\ i[p] \in 0 .. Length
      /\ (resent[p] => i[p] = Length)
  BY DEF Inv, Types, Places
<1>3. k \in Keys /\ Earlier(k, <<level[p], Place(p)>>)
  BY <1>1 DEF Posted
<1>4. /\ k[1] \in 0 .. Levels - 2 /\ k[2] \in 0 .. Length
      /\ First(k) \in Element /\ Final(k) \in Element
      /\ Final(k) <= k[2] /\ First(k) <= Final(k) /\ (k[2] = Length => Final(k) < Length)
  BY <1>2, <1>3, KeyFacts
<1>5. k[1] < level[p] \/ (k[1] = level[p] /\ k[2] < Place(p))
  BY <1>3 DEF Earlier
<1>6. k[1] = level[p] => Final(k) < i[p]
  BY <1>2, <1>4, <1>5, Sizes DEF Place
<1>7. s[n].first \in Element /\ s[n].last \in Element /\ s[n].first <= s[n].last
  BY <1>1, <1>4
<1>8. Levels \in Nat /\ Levels >= 2
  BY <1>2, Sizes
<1>9. k[1] + 1 \in 1 .. Levels - 1 /\ k[1] + 1 <= level[p] + 1
  BY <1>2, <1>4, <1>5, <1>8
<1>10. k[1] + 1 = level[p] + 1 => k[1] = level[p] /\ level[p] < Levels - 1
  BY <1>2, <1>4, <1>8
<1> QED
  BY <1>1, <1>6, <1>7, <1>9, <1>10

\* The n-th requests of two parties are for the same exchange.
LEMMA SameRequest ==
  ASSUME Inv, NEW p \in Party, NEW q \in Party, NEW s, NEW t, NEW n,
         RequestsOf(s, Posted(p)), RequestsOf(t, Posted(q)),
         n \in 1 .. Len(s), n \in 1 .. Len(t)
  PROVE  s[n].first = t[n].first /\ s[n].last = t[n].last /\ s[n].at = t[n].at
<1>1. PICK k \in Posted(p) : n = Rank(k) + 1
        /\ s[n].first = First(k) /\ s[n].last = Final(k) /\ s[n].at = k[1] + 1
  BY DEF RequestsOf
<1>2. PICK j \in Posted(q) : n = Rank(j) + 1
        /\ t[n].first = First(j) /\ t[n].last = Final(j) /\ t[n].at = j[1] + 1
  BY DEF RequestsOf
<1>3. k \in Keys /\ j \in Keys /\ fn \in DOMAIN Lengths
  BY <1>1, <1>2 DEF Posted, Inv, Types
<1>4. Rank(k) \in Nat /\ Rank(j) \in Nat /\ (Rank(j) = Rank(k) => j = k)
  BY <1>3, Ranks
<1> QED
  BY <1>1, <1>2, <1>4

\* In a level, a party has posted the exchange of every element at the level before.
LEMMA Covers ==
  ASSUME Inv, NEW p \in Party, level[p] \in 1 .. Levels - 1, NEW e \in Element
  PROVE  \E n \in 1 .. Len(recvs[p]) :
           e \in Covered(recvs[p][n]) /\ recvs[p][n].at = level[p]
<1>1. /\ fn \in DOMAIN Lengths /\ Length \in Nat /\ Length >= 1 /\ BatchSize \in 1 .. Length
      /\ (WaitForAll => BatchSize = 1) /\ e \in 0 .. Length - 1 /\ Levels \in Nat
  BY Sizes DEF Inv, Types
<1>2. \E k \in Keys : k[1] = level[p] - 1 /\ e \in First(k) .. Final(k)
  <2>1. PICK d \in e .. e + BatchSize - 1 : BatchEnd(d)
    BY <1>1, BatchEnds
  <2>2. CASE d < Length
    <3> DEFINE k == <<level[p] - 1, d>>
    <3>1. k \in Keys
      BY <1>1, <2>1, <2>2 DEF Keys
    <3>2. First(k) = d - (BatchSize - 1) /\ Final(k) = d
      BY <2>2, <1>1, <2>1 DEF First, Final
    <3>3. e \in First(k) .. Final(k) /\ k[1] = level[p] - 1
      BY <3>2, <1>1, <2>1
    <3> QED
      BY <3>1, <3>3
  <2>3. CASE d >= Length
    <3> DEFINE k == <<level[p] - 1, Length>>
    <3>1. k \in Keys
      BY <1>1, <2>1, <2>3 DEF Keys
    <3>2. First(k) = Length - BatchSize /\ Final(k) = Length - 1
      BY DEF First, Final
    <3>3. e \in First(k) .. Final(k) /\ k[1] = level[p] - 1
      BY <3>2, <1>1, <2>1, <2>3
    <3> QED
      BY <3>1, <3>3
  <2> QED
    BY <1>1, <2>1, <2>2, <2>3
<1>3. PICK k \in Keys : k[1] = level[p] - 1 /\ e \in First(k) .. Final(k)
  BY <1>2
<1>4. k \in Posted(p)
  BY <1>1, <1>3 DEF Posted, Earlier
<1>5. Rank(k) + 1 \in 1 .. Len(recvs[p]) /\ RequestsOf(recvs[p], Posted(p))
  BY <1>4 DEF Inv, PostsHeld, RequestsOf
<1>6. PICK j \in Posted(p) : Rank(k) + 1 = Rank(j) + 1
        /\ recvs[p][Rank(k) + 1].first = First(j) /\ recvs[p][Rank(k) + 1].last = Final(j)
        /\ recvs[p][Rank(k) + 1].at = j[1] + 1
  BY <1>5 DEF RequestsOf
<1>7. j \in Keys
  BY DEF Posted
<1>8. j = k
  <2>1. Rank(j) \in Nat /\ Rank(k) \in Nat
    BY <1>1, <1>3, <1>7, Ranks
  <2>2. Rank(j) = Rank(k)
    BY <1>6, <2>1
  <2> QED
    BY <1>1, <1>3, <1>7, <2>2, Ranks
<1>9. level[p] - 1 + 1 = level[p]
  BY <1>1
<1> QED
  BY <1>3, <1>5, <1>6, <1>8, <1>9 DEF Covered

\* The remote share of an element that is still to be computed is of the level
\* that the local share is of.
LEMMA Current ==
  ASSUME Inv, NEW p \in Party, level[p] \in 0 .. Levels - 1, NEW e \in i[p] .. Length - 1,
         WaitForAll /\ i[p] = 0 => Done(recvs[p])
  PROVE  res2[p][e] = level[p]
<1>1. /\ i[p] \in 0 .. Length /\ Length \in Nat /\ Element = 0 .. Length - 1 /\ Levels \in Nat
      /\ RequestsOf(recvs[p], Posted(p))
  BY Sizes DEF Inv, Types, PostsHeld
<1>2. e \in Element /\ e >= i[p]
  BY <1>1
<1>3. res2[p][e] \in Nat
  BY <1>2 DEF Inv, Types
<1>4. res2[p][e] <= level[p]
  <2>1. CASE res2[p][e] = 0
    BY <2>1
  <2>2. CASE res2[p][e] # 0
    <3>1. PICK n \in 1 .. Len(recvs[p]) :
            e \in Covered(recvs[p][n]) /\ recvs[p][n].at = res2[p][e]
      BY <2>2, <1>2 DEF Inv, RemoteHeld
    <3>2. /\ recvs[p][n].at \in 1 .. Levels - 1 /\ recvs[p][n].at <= level[p] + 1
          /\ recvs[p][n].at = level[p] + 1 => recvs[p][n].last < i[p]
          /\ recvs[p][n].first \in Element /\ recvs[p][n].last \in Element
      BY <1>1, RequestFacts
    <3>3. e <= recvs[p][n].last
      BY <3>1, <3>2, <1>1, <1>2 DEF Covered
    <3> QED
      BY <3>1, <3>2, <3>3, <1>1, <1>2
  <2> QED
    BY <2>1, <2>2
<1>5. CASE level[p] = 0
  BY <1>3, <1>4, <1>5
<1>6. CASE level[p] # 0
  <2>1. PICK n \in 1 .. Len(recvs[p]) :
          e \in Covered(recvs[p][n]) /\ recvs[p][n].at = level[p]
    BY <1>1, <1>2, <1>6, Covers
  <2>2. recvs[p][n].done
    <3>1. recvs[p][n].done \/ MayPend(p, recvs[p][n])
      BY DEF Inv, PendingHeld
    <3> QED
      BY <2>1, <3>1, <1>1 DEF MayPend, Done
  <2>3. recvs[p][n].at <= res2[p][e]
    BY <1>2, <2>1, <2>2 DEF Inv, RemoteHeld
  <2> QED
    BY <1>3, <1>4, <2>1, <2>3
<1> QED
  BY <1>5, <1>6

\* The words of a request that is pending have the level it was posted for.
LEMMA PendingWords ==
  ASSUME Inv, NEW p \in Party, NEW n \in 1 .. Len(sends[p]), ~sends[p][n].done,
         NEW e \in Covered(sends[p][n])
  PROVE  e \in Element /\ res[p][e] = sends[p][n].at
<1>1. /\ i[p] \in 0 .. Length /\ Length \in Nat /\ Element = 0 .. Length - 1
      /\ level[p] \in 0 .. Levels /\ Levels \in Nat
      /\ RequestsOf(sends[p], Posted(p))
  BY Sizes DEF Inv, Types, PostsHeld
<1>2. sends[p][n].first \in Element /\ sends[p][n].last \in Element
  BY <1>1, RequestFacts
<1>3. e \in Element /\ e <= sends[p][n].last
  BY <1>1, <1>2 DEF Covered
<1>4. res[p][e] = level[p] + IF e < i[p] THEN 1 ELSE 0
  BY <1>3 DEF Inv, ResultsHeld
<1>5. MayPend(p, sends[p][n])
  BY DEF Inv, PendingHeld
<1>6. CASE sends[p][n].at = level[p] + 1 /\ sends[p][n].last < i[p]
  BY <1>1, <1>2, <1>3, <1>4, <1>6
<1>7. CASE i[p] = 0 /\ sends[p][n].at = level[p]
  BY <1>1, <1>3, <1>4, <1>7
<1> QED
  BY <1>5, <1>6, <1>7 DEF MayPend

LEMMA InvImplies == Inv => NoMixedLevels /\ PendingSendsIntact /\ LevelsApart
<1> SUFFICES ASSUME Inv PROVE NoMixedLevels /\ PendingSendsIntact /\ LevelsApart
  OBVIOUS
<1>1. NoMixedLevels
  BY SizeAssumption DEF Inv, Types, NoMixedLevels
<1>2. PendingSendsIntact
  BY PendingWords DEF PendingSendsIntact
<1>3. LevelsApart
  <2> SUFFICES ASSUME NEW p \in Party, level[p] \in 1 .. Levels - 1, i[p] > 0,
                      NEW e \in i[p] .. Length - 1
               PROVE  res2[p][e] = level[p]
    BY DEF LevelsApart
  <2>1. level[p] \in 0 .. Levels - 1 /\ i[p] # 0
    BY DEF Inv, Types
  <2> QED
    BY <2>1, Current
<1> QED
  BY <1>1, <1>2, <1>3

-----------------------------------------------------------------------------
(* Posting requests. *)

LEMMA Fixed ==
  ASSUME fn' = fn
  PROVE  /\ Length' = Length /\ WaitForAll' = WaitForAll /\ Element' = Element
         /\ BatchSize' = BatchSize /\ Keys' = Keys /\ Request' = Request
         /\ \A k : First(k)' = First(k) /\ Final(k)' = Final(k) /\ Rank(k)' = Rank(k)
<1>1. Length' = Length /\ WaitForAll' = WaitForAll
  BY DEF Length, WaitForAll
<1>2. Element' = Element /\ BatchSize' = BatchSize
  BY <1>1 DEF Element, BatchSize
<1>3. \A e : BatchEnd(e)' <=> BatchEnd(e)
  BY <1>2 DEF BatchEnd
<1>4. Keys' = Keys
  BY <1>1, <1>2 DEF Keys, BatchEnd
<1>5. Request' = Request
  BY <1>2 DEF Request
<1>6. ASSUME NEW k
      PROVE  First(k)' = First(k) /\ Final(k)' = Final(k) /\ Rank(k)' = Rank(k)
  BY <1>1, <1>2, <1>4 DEF First, Final, Rank, Earlier
<1> QED
  BY <1>1, <1>2, <1>4, <1>5, <1>6

LEMMA PostsPrimed ==
  ASSUME fn' = fn,
         \A p \in Party : RequestsOf(sends'[p], Posted(p)') /\ RequestsOf(recvs'[p], Posted(p)')
  PROVE  PostsHeld'
<1> SUFFICES ASSUME NEW p \in Party
             PROVE  RequestsOf(sends[p], Posted(p))' /\ RequestsOf(recvs[p], Posted(p))'
  BY DEF PostsHeld
<1>1. RequestsOf(sends[p], Posted(p))'
  BY Fixed DEF RequestsOf
<1>2. RequestsOf(recvs[p], Posted(p))'
  BY Fixed DEF RequestsOf
<1> QED
  BY <1>1, <1>2

LEMMA Appended ==
  ASSUME fn \in DOMAIN Lengths, NEW k \in Keys, NEW P, P = {j \in Keys : Earlier(j, k)},
         NEW s \in Seq(Request), RequestsOf(s, P), NEW r \in Request,
         r.first = First(k), r.last = Final(k), r.at = k[1] + 1
  PROVE  RequestsOf(Append(s, r), P \cup {k})
<1>1. k \notin P
  BY KeyFacts DEF Earlier
<1>2. IsFiniteSet(P) /\ Cardinality(P) \in Nat
  BY KeysFinite, FS_Subset, FS_CardinalityType
<1>3. Cardinality(P \cup {k}) = Cardinality(P) + 1
  BY <1>1, <1>2, FS_AddElement
<1>4. Rank(k) = Cardinality(P)
  BY DEF Rank
<1>5. Len(s) = Cardinality(P) /\ Len(Append(s, r)) = Len(s) + 1 /\ Len(s) \in Nat
  BY DEF RequestsOf
<1>6. /\ \A n \in 1 .. Len(s) : Append(s, r)[n] = s[n]
      /\ Append(s, r)[Len(s) + 1] = r
  OBVIOUS
<1>7. ASSUME NEW n \in 1 .. Len(Append(s, r))
      PROVE  \E j \in P \cup {k} :
               /\ n = Rank(j) + 1
               /\ Append(s, r)[n].first = First(j) /\ Append(s, r)[n].last = Final(j)
               /\ Append(s, r)[n].at = j[1] + 1
  <2>1. CASE n \in 1 .. Len(s)
    BY <2>1, <1>6 DEF RequestsOf
  <2>2. CASE n = Len(s) + 1
    BY <2>2, <1>4, <1>5, <1>6
  <2> QED
    BY <2>1, <2>2, <1>5
<1>8. \A j \in P \cup {k} : Rank(j) + 1 \in 1 .. Len(Append(s, r))
  BY <1>4, <1>5 DEF RequestsOf
<1> QED
  BY <1>3, <1>5, <1>7, <1>8 DEF RequestsOf

\* t is s with requests added that are pending.
Grown(s, t) ==
  /\ Len(s) \in Nat /\ Len(t) \in Nat /\ Len(s) <= Len(t)
  /\ \A n \in 1 .. Len(t) : IF n <= Len(s) THEN t[n] = s[n] ELSE ~t[n].done

LEMMA Growing ==
  ASSUME Inv, fn' = fn, res2' = res2,
         \A p \in Party : Grown(sends[p], sends'[p]) /\ Grown(recvs[p], recvs'[p])
  PROVE  OrderHeld' /\ ReceivedHeld' /\ KeptHeld' /\ RemoteHeld'
<1>0. Element' = Element /\ WaitForAll' = WaitForAll /\ \A p \in Party : Pred(p) \in Party
  BY Fixed DEF Party, Pred
<1>1. OrderHeld'
  <2> SUFFICES ASSUME ~WaitForAll, NEW p \in Party
               PROVE  InSequence(sends[p])' /\ InSequence(recvs[p])'
    BY <1>0 DEF OrderHeld
  <2>1. InSequence(sends[p]) /\ InSequence(recvs[p])
    BY DEF Inv, OrderHeld
  <2>2. InSequence(sends[p])'
    BY <2>1 DEF Grown, InSequence
  <2>3. InSequence(recvs[p])'
    BY <2>1 DEF Grown, InSequence
  <2> QED
    BY <2>2, <2>3
<1>2. ReceivedHeld'
  <2> SUFFICES ASSUME NEW p \in Party, NEW n \in 1 .. Len(recvs'[Pred(p)]),
                      recvs'[Pred(p)][n].done
               PROVE  n \in 1 .. Len(sends'[p]) /\ sends'[p][n].done
    BY DEF ReceivedHeld, Pred
  <2>1. n \in 1 .. Len(recvs[Pred(p)]) /\ recvs[Pred(p)][n].done
    BY <1>0 DEF Grown
  <2>2. n \in 1 .. Len(sends[p]) /\ sends[p][n].done
    BY <2>1 DEF Inv, ReceivedHeld
  <2> QED
    BY <2>2 DEF Grown
<1>3. KeptHeld'
  <2> SUFFICES ASSUME NEW p \in Party, NEW n \in 1 .. Len(sends'[p]), sends'[p][n].done,
                      n \in 1 .. Len(recvs'[Pred(p)]) => ~recvs'[Pred(p)][n].done
               PROVE  /\ sends'[p][n].kept \in [Element -> Nat]
                      /\ \A e \in Covered(sends'[p][n]) : sends'[p][n].kept[e] = sends'[p][n].at
    BY <1>0 DEF KeptHeld, Pred, Covered
  <2>1. n \in 1 .. Len(sends[p]) /\ sends'[p][n] = sends[p][n]
    BY DEF Grown
  <2>2. n \in 1 .. Len(recvs[Pred(p)]) => ~recvs[Pred(p)][n].done
    BY <1>0 DEF Grown
  <2> QED
    BY <2>1, <2>2 DEF Inv, KeptHeld
<1>4. RemoteHeld'
  <2> SUFFICES ASSUME NEW p \in Party, NEW e \in Element
               PROVE  /\ \A n \in 1 .. Len(recvs'[p]) :
                           recvs'[p][n].done /\ e \in Covered(recvs'[p][n])
                             => recvs'[p][n].at <= res2[p][e]
                      /\ res2[p][e] = 0 \/ \E n \in 1 .. Len(recvs'[p]) :
                           e \in Covered(recvs'[p][n]) /\ recvs'[p][n].at = res2[p][e]
    BY <1>0 DEF RemoteHeld, Covered
  <2>1. Grown(recvs[p], recvs'[p])
    OBVIOUS
  <2>2. \A n \in 1 .. Len(recvs[p]) : n \in 1 .. Len(recvs'[p]) /\ recvs'[p][n] = recvs[p][n]
    BY <2>1 DEF Grown
  <2>3. \A n \in 1 .. Len(recvs'[p]) : recvs'[p][n].done => n \in 1 .. Len(recvs[p])
    BY <2>1 DEF Grown
  <2> QED
    BY <2>2, <2>3 DEF Inv, RemoteHeld
<1> QED
  BY <1>1, <1>2, <1>3, <1>4

\* After its waits a party has no request pending.
LEMMA Settled ==
  ASSUME Inv, NEW p \in Party, Waited(p)
  PROVE  Done(sends[p]) /\ Done(recvs[p])
<1>1. ASSUME NEW s \in Seq(Request), WaitedFor(s), ~WaitForAll => InSequence(s)
      PROVE  Done(s)
  <2>1. CASE WaitForAll
    BY <1>1, <2>1 DEF WaitedFor
  <2>2. CASE ~WaitForAll
    <3> SUFFICES ASSUME NEW n \in 1 .. Len(s) PROVE s[n].done
      BY DEF Done
    <3>1. Len(s) \in Nat /\ s # <<>>
      OBVIOUS
    <3>2. s[Len(s)].done
      BY <1>1, <2>2, <3>1 DEF WaitedFor, LastDone
    <3>3. n = Len(s) \/ n \in 1 .. Len(s) - 1
      BY <3>1
    <3> QED
      BY <1>1, <2>2, <3>1, <3>2, <3>3 DEF InSequence
  <2> QED
    BY <2>1, <2>2
<1>2. sends[p] \in Seq(Request) /\ recvs[p] \in Seq(Request)
  BY DEF Inv, Types
<1>3. ~WaitForAll => InSequence(sends[p]) /\ InSequence(recvs[p])
  BY DEF Inv, OrderHeld
<1> QED
  BY <1>1, <1>2, <1>3 DEF Waited

LEMMA Posting ==
  ASSUME Inv, NEW p \in Party, NEW k \in Keys, k[1] = level[p],
         Posted(p) = {j \in Keys : Earlier(j, k)}, Post(p, First(k), Final(k)),
         fn' = fn, Posted(p)' = Posted(p) \cup {k},
         \A q \in Party \ {p} : Posted(q)' = Posted(q)
  PROVE  /\ sends' \in [Party -> Seq(Request)] /\ recvs' \in [Party -> Seq(Request)]
         /\ PostsHeld'
         /\ \A q \in Party : Grown(sends[q], sends'[q]) /\ Grown(recvs[q], recvs'[q])
         /\ \A q \in Party \ {p} : sends'[q] = sends[q] /\ recvs'[q] = recvs[q]
         /\ \A n \in 1 .. Len(sends'[p]) :
              \/ n \in 1 .. Len(sends[p]) /\ sends'[p][n] = sends[p][n]
              \/ sends'[p][n].at = level[p] + 1 /\ sends'[p][n].last = Final(k)
         /\ \A n \in 1 .. Len(recvs'[p]) :
              \/ n \in 1 .. Len(recvs[p]) /\ recvs'[p][n] = recvs[p][n]
              \/ recvs'[p][n].at = level[p] + 1 /\ recvs'[p][n].last = Final(k)
<1> DEFINE r == Slice(level[p] + 1, First(k), Final(k))
<1>1. /\ fn \in DOMAIN Lengths /\ level[p] \in Nat
      /\ sends \in [Party -> Seq(Request)] /\ recvs \in [Party -> Seq(Request)]
  BY SizeAssumption DEF Inv, Types
<1>2. /\ r \in Request /\ r.first = First(k) /\ r.last = Final(k) /\ r.at = k[1] + 1
      /\ r.at = level[p] + 1 /\ ~r.done
  <2>1. First(k) \in Int /\ Final(k) \in Int
    BY <1>1, KeyFacts, Sizes
  <2> QED
    BY <1>1, <2>1 DEF Slice, Request
<1>3. /\ sends' = [sends EXCEPT ![p] = Append(@, r)]
      /\ recvs' = [recvs EXCEPT ![p] = Append(@, r)]
  BY DEF Post
<1> HIDE DEF r
<1>4. sends' \in [Party -> Seq(Request)] /\ recvs' \in [Party -> Seq(Request)]
  BY <1>1, <1>2, <1>3
<1>5. /\ sends'[p] = Append(sends[p], r) /\ recvs'[p] = Append(recvs[p], r)
      /\ \A q \in Party \ {p} : sends'[q] = sends[q] /\ recvs'[q] = recvs[q]
  BY <1>1, <1>3
<1>6. PostsHeld'
  <2>1. RequestsOf(sends[p], Posted(p)) /\ RequestsOf(recvs[p], Posted(p))
    BY DEF Inv, PostsHeld
  <2>2. ASSUME NEW s \in Seq(Request), RequestsOf(s, Posted(p))
        PROVE  RequestsOf(Append(s, r), Posted(p) \cup {k})
    <3> DEFINE P == Posted(p)
    <3>1. P = {j \in Keys : Earlier(j, k)} /\ RequestsOf(s, P)
      BY <2>2
    <3> HIDE DEF P
    <3>2. RequestsOf(Append(s, r), P \cup {k})
      BY <1>1, <1>2, <3>1, Appended
    <3> QED
      BY <3>2 DEF P
  <2>4. RequestsOf(sends'[p], Posted(p)') /\ RequestsOf(recvs'[p], Posted(p)')
    BY <1>1, <1>5, <2>1, <2>2
  <2>3. ASSUME NEW q \in Party \ {p}
        PROVE  RequestsOf(sends'[q], Posted(q)') /\ RequestsOf(recvs'[q], Posted(q)')
    BY <1>5 DEF Inv, PostsHeld
  <2> QED
    BY <2>3, <2>4, PostsPrimed
<1>7. ASSUME NEW s \in Seq(Request)
      PROVE  /\ Grown(s, s) /\ Grown(s, Append(s, r))
             /\ \A n \in 1 .. Len(Append(s, r)) :
                  \/ n \in 1 .. Len(s) /\ Append(s, r)[n] = s[n]
                  \/ Append(s, r)[n] = r
  BY <1>2 DEF Grown
<1>8. ASSUME NEW q \in Party
      PROVE  Grown(sends[q], sends'[q]) /\ Grown(recvs[q], recvs'[q])
  BY <1>1, <1>5, <1>7
<1>9. /\ \A n \in 1 .. Len(sends'[p]) :
              \/ n \in 1 .. Len(sends[p]) /\ sends'[p][n] = sends[p][n]
              \/ sends'[p][n] = r
      /\ \A n \in 1 .. Len(recvs'[p]) :
              \/ n \in 1 .. Len(recvs[p]) /\ recvs'[p][n] = recvs[p][n]
              \/ recvs'[p][n] = r
  BY <1>1, <1>5, <1>7
<1> QED
  BY <1>2, <1>4, <1>5, <1>6, <1>8, <1>9

\* A step that posts nothing.
LEMMA Quiet ==
  ASSUME Inv, fn' = fn, res2' = res2, sends' = sends, recvs' = recvs,
         \A p \in Party : Posted(p)' = Posted(p)
  PROVE  PostsHeld' /\ OrderHeld' /\ ReceivedHeld' /\ KeptHeld' /\ RemoteHeld'
<1>1. PostsHeld'
  BY PostsPrimed DEF Inv, PostsHeld
<1>2. \A p \in Party : sends[p] \in Seq(Request) /\ recvs[p] \in Seq(Request)
  BY DEF Inv, Types
<1>3. \A p \in Party : Grown(sends[p], sends'[p]) /\ Grown(recvs[p], recvs'[p])
  BY <1>2 DEF Grown
<1> QED
  BY <1>1, <1>3, Growing

-----------------------------------------------------------------------------
(* The invariant is kept by every step. *)

\* What Compute does if the invariant holds: the element gets one more level.
LEMMA ComputeFacts ==
  ASSUME Inv, NEW p \in Party, Compute(p)
  PROVE  /\ i[p] \in Element /\ level[p] \in 0 .. Levels - 1 /\ ~resent[p]
         /\ WaitForAll /\ i[p] = 0 => Done(sends[p]) /\ Done(recvs[p])
         /\ res' = [res EXCEPT ![p] = [@ EXCEPT ![i[p]] = level[p] + 1]]
         /\ res[p][i[p]] = level[p]
<1>1. /\ i[p] \in 0 .. Length /\ level[p] \in 0 .. Levels /\ Levels \in Nat /\ Length \in Nat
      /\ level[p] < Levels /\ i[p] < Length /\ Element = 0 .. Length - 1
      /\ resent[p] => i[p] = Length
  BY Sizes DEF Inv, Types, Places, Compute
<1>2. i[p] \in Element /\ level[p] \in 0 .. Levels - 1 /\ ~resent[p] /\ i[p] \in i[p] .. Length - 1
  BY <1>1
<1>3. WaitForAll /\ i[p] = 0 => Done(sends[p]) /\ Done(recvs[p])
  BY Settled DEF Compute
<1>4. res2[p][i[p]] = level[p]
  BY <1>2, <1>3, Current
<1>5. res[p][i[p]] = level[p]
  BY <1>1, <1>2 DEF Inv, ResultsHeld
<1>6. res' = [res EXCEPT ![p][i[p]] = Level2(res[p][i[p]], res2[p][i[p]])]
  BY DEF Compute
<1>7. Level2(res[p][i[p]], res2[p][i[p]]) = level[p] + 1
  BY <1>1, <1>4, <1>5, SizeAssumption DEF Level2
<1> QED
  BY <1>2, <1>3, <1>5, <1>6, <1>7

LEMMA ComputeKeeps ==
  ASSUME Inv, NEW p \in Party, Compute(p)
  PROVE  Inv'
<1>1. /\ i[p] \in Element /\ level[p] \in 0 .. Levels - 1 /\ ~resent[p]
      /\ WaitForAll /\ i[p] = 0 => Done(sends[p]) /\ Done(recvs[p])
      /\ res' = [res EXCEPT ![p] = [@ EXCEPT ![i[p]] = level[p] + 1]]
  BY ComputeFacts
<1>2. /\ fn' = fn /\ level' = level /\ resent' = resent /\ res2' = res2
      /\ i' = [i EXCEPT ![p] = @ + 1]
  BY DEF Compute
<1>3. /\ fn \in DOMAIN Lengths /\ level \in [Party -> 0 .. Levels] /\ i \in [Party -> 0 .. Length]
      /\ resent \in [Party -> BOOLEAN]
      /\ res \in [Party -> [Element -> Nat]] /\ res2 \in [Party -> [Element -> Nat]]
      /\ Length \in Nat /\ Levels \in Nat /\ Element = 0 .. Length - 1
  BY Sizes DEF Inv, Types
<1>4. /\ Length' = Length /\ WaitForAll' = WaitForAll /\ Element' = Element
      /\ Keys' = Keys /\ Request' = Request
  BY <1>2, Fixed
<1>5. i[p] + 1 \in 0 .. Length /\ i' \in [Party -> 0 .. Length]
  BY <1>1, <1>2, <1>3
<1>6. res' \in [Party -> [Element -> Nat]]
  <2>1. [res[p] EXCEPT ![i[p]] = level[p] + 1] \in [Element -> Nat]
    BY <1>1, <1>3
  <2> QED
    BY <1>1, <1>3, <2>1
<1>7. Places'
  <2> SUFFICES ASSUME NEW q \in Party
               PROVE  /\ resent[q] => i'[q] = Length /\ ~WaitForAll /\ level[q] < Levels - 1
                      /\ level[q] = Levels => i'[q] = 0
    BY <1>2, <1>4 DEF Places
  <2>1. CASE q = p
    BY <1>1, <1>3, <2>1
  <2>2. CASE q # p
    BY <1>2, <1>3, <2>2 DEF Inv, Places
  <2> QED
    BY <2>1, <2>2
<1>8. ResultsHeld'
  <2> SUFFICES ASSUME NEW q \in Party, NEW e \in Element
               PROVE  res'[q][e] = level[q] + IF e < i'[q] THEN 1 ELSE 0
    BY <1>2, <1>4 DEF ResultsHeld
  <2>1. res[q][e] = level[q] + IF e < i[q] THEN 1 ELSE 0
    BY DEF Inv, ResultsHeld
  <2>2. CASE q = p /\ e = i[p]
    BY <2>2, <1>1, <1>2, <1>3
  <2>3. CASE q = p /\ e # i[p]
    <3>1. res'[q][e] = res[q][e] /\ i'[q] = i[p] + 1
      BY <2>3, <1>1, <1>2, <1>3
    <3>2. e < i[p] + 1 <=> e < i[p]
      BY <2>3, <1>1, <1>3
    <3> QED
      BY <2>1, <2>3, <3>1, <3>2
  <2>4. CASE q # p
    BY <2>1, <2>4, <1>1, <1>2, <1>3
  <2> QED
    BY <2>2, <2>3, <2>4
<1>9. /\ \A q \in Party \ {p} : Posted(q)' = Posted(q)
      /\ Place(p) = i[p] /\ Place(p)' = i[p] + 1
  BY <1>1, <1>2, <1>3, <1>4 DEF Posted, Place, Earlier
<1>10. /\ sends' \in [Party -> Seq(Request)] /\ recvs' \in [Party -> Seq(Request)]
       /\ PostsHeld' /\ PendingHeld'
       /\ OrderHeld' /\ ReceivedHeld' /\ KeptHeld' /\ RemoteHeld'
  <2>0. ASSUME NEW q \in Party \ {p}
        PROVE  i'[q] = i[q]
    BY <1>2, <1>3
  <2>a. /\ \A n \in 1 .. Len(sends[p]) : ~sends[p][n].done =>
              sends[p][n].at = level[p] + 1 /\ sends[p][n].last < i[p] + 1
        /\ \A n \in 1 .. Len(recvs[p]) : ~recvs[p][n].done =>
              recvs[p][n].at = level[p] + 1 /\ recvs[p][n].last < i[p] + 1
    <3>1. ASSUME NEW s, s = sends[p] \/ s = recvs[p], NEW n \in 1 .. Len(s), ~s[n].done
          PROVE  s[n].at = level[p] + 1 /\ s[n].last < i[p] + 1
      <4>1. MayPend(p, s[n])
        BY <3>1 DEF Inv, PendingHeld
      <4>2. ~(WaitForAll /\ i[p] = 0)
        BY <1>1, <3>1 DEF Done
      <4>3. s[n].last \in Element
        BY <3>1, RequestFacts DEF Inv, PostsHeld
      <4>4. s[n].at = level[p] + 1 /\ s[n].last < i[p]
        BY <4>1, <4>2 DEF MayPend
      <4> QED
        BY <1>1, <1>3, <4>3, <4>4
    <3> QED
      BY <3>1
  <2>b. i'[p] = i[p] + 1
    BY <1>2, <1>3
  <2>1. CASE BatchEnd(i[p]) /\ ~LastLevel(p)
    <3> DEFINE k == <<level[p], i[p]>>
    <3>1. k \in Keys /\ k[1] = level[p]
      BY <1>1, <1>3, <2>1 DEF Keys, LastLevel
    <3>2. First(k) = i[p] - (BatchSize - 1) /\ Final(k) = i[p]
      BY <1>1, <1>3 DEF First, Final
    <3>3. Post(p, First(k), Final(k))
      BY <2>1, <3>2 DEF Compute
    <3>4. Posted(p) = {j \in Keys : Earlier(j, k)}
      BY <1>9 DEF Posted
    <3>5. Posted(p)' = Posted(p) \cup {k}
      <4>1. \A j \in Keys : Earlier(j, <<level[p], i[p] + 1>>) <=> Earlier(j, k) \/ j = k
        <5> SUFFICES ASSUME NEW j \in Keys
                     PROVE  Earlier(j, <<level[p], i[p] + 1>>) <=> Earlier(j, k) \/ j = k
          OBVIOUS
        <5>1. j[1] \in Int /\ j[2] \in Int /\ j = <<j[1], j[2]>>
          BY <1>3, KeyFacts
        <5>2. level[p] \in Int /\ i[p] \in Int /\ k[1] = level[p] /\ k[2] = i[p]
          BY <1>1, <1>3
        <5>3. j[2] < i[p] + 1 <=> j[2] < i[p] \/ j[2] = i[p]
          BY <5>1, <5>2
        <5>4. j = k <=> j[1] = level[p] /\ j[2] = i[p]
          BY <5>1
        <5> QED
          BY <5>2, <5>3, <5>4 DEF Earlier
      <4>2. Posted(p)' = {j \in Keys : Earlier(j, <<level[p], i[p] + 1>>)}
        BY <1>2, <1>4, <1>9 DEF Posted, Earlier
      <4> QED
        BY <3>1, <3>4, <4>1, <4>2
    <3> HIDE DEF k
    <3>6. /\ sends' \in [Party -> Seq(Request)] /\ recvs' \in [Party -> Seq(Request)]
          /\ PostsHeld'
          /\ \A q \in Party : Grown(sends[q], sends'[q]) /\ Grown(recvs[q], recvs'[q])
          /\ \A q \in Party \ {p} : sends'[q] = sends[q] /\ recvs'[q] = recvs[q]
          /\ \A n \in 1 .. Len(sends'[p]) :
               \/ n \in 1 .. Len(sends[p]) /\ sends'[p][n] = sends[p][n]
               \/ sends'[p][n].at = level[p] + 1 /\ sends'[p][n].last = Final(k)
          /\ \A n \in 1 .. Len(recvs'[p]) :
               \/ n \in 1 .. Len(recvs[p]) /\ recvs'[p][n] = recvs[p][n]
               \/ recvs'[p][n].at = level[p] + 1 /\ recvs'[p][n].last = Final(k)
      BY <1>2, <1>9, <3>1, <3>3, <3>4, <3>5, Posting
    <3>7. OrderHeld' /\ ReceivedHeld' /\ KeptHeld' /\ RemoteHeld'
      BY <1>2, <3>6, Growing
    <3>8. PendingHeld'
      <4> SUFFICES ASSUME NEW q \in Party
                   PROVE  /\ \A n \in 1 .. Len(sends'[q]) :
                               sends'[q][n].done \/ MayPend(q, sends[q][n])'
                          /\ \A n \in 1 .. Len(recvs'[q]) :
                               recvs'[q][n].done \/ MayPend(q, recvs[q][n])'
        BY DEF PendingHeld
      <4>1. CASE q # p
        <5>1. /\ sends'[q] = sends[q] /\ recvs'[q] = recvs[q] /\ i'[q] = i[q]
              /\ level' = level /\ WaitForAll' = WaitForAll
          BY <1>2, <1>4, <2>0, <3>6, <4>1
        <5>2. /\ \A n \in 1 .. Len(sends[q]) : sends[q][n].done \/ MayPend(q, sends[q][n])
              /\ \A n \in 1 .. Len(recvs[q]) : recvs[q][n].done \/ MayPend(q, recvs[q][n])
          BY DEF Inv, PendingHeld
        <5> QED
          BY <5>1, <5>2 DEF MayPend
      <4>2. CASE q = p
        <5>1. Final(k) < i[p] + 1
          BY <1>1, <1>3, <3>2
        <5>2. ASSUME NEW n \in 1 .. Len(sends'[p]), ~sends'[p][n].done
              PROVE  sends'[p][n].at = level[p] + 1 /\ sends'[p][n].last < i[p] + 1
          BY <2>a, <3>6, <5>1, <5>2
        <5>3. ASSUME NEW n \in 1 .. Len(recvs'[p]), ~recvs'[p][n].done
              PROVE  recvs'[p][n].at = level[p] + 1 /\ recvs'[p][n].last < i[p] + 1
          BY <2>a, <3>6, <5>1, <5>3
        <5> QED
          BY <1>2, <2>b, <4>2, <5>2, <5>3 DEF MayPend
      <4> QED
        BY <4>1, <4>2
    <3> QED
      BY <3>6, <3>7, <3>8
  <2>2. CASE ~(BatchEnd(i[p]) /\ ~LastLevel(p))
    <3>1. sends' = sends /\ recvs' = recvs
      BY <2>2 DEF Compute
    <3>2. Posted(p)' = Posted(p)
      <4>1. \A j \in Keys : Earlier(j, <<level[p], i[p] + 1>>) <=> Earlier(j, <<level[p], i[p]>>)
        <5> SUFFICES ASSUME NEW j \in Keys
                     PROVE  Earlier(j, <<level[p], i[p] + 1>>) <=> Earlier(j, <<level[p], i[p]>>)
          OBVIOUS
        <5>1. j[1] \in Int /\ j[2] \in Int /\ level[p] \in Int /\ i[p] \in Int
          BY <1>1, <1>3, KeyFacts
        <5>2. j[2] < i[p] + 1 <=> j[2] < i[p] \/ j[2] = i[p]
          BY <5>1
        <5>3. j[1] <= Levels - 2 /\ (j[2] = i[p] => BatchEnd(i[p]))
          BY <1>1, <1>3 DEF Keys
        <5>4. ~(j[1] = level[p] /\ j[2] = i[p])
          BY <1>3, <2>2, <5>3 DEF LastLevel
        <5> QED
          BY <5>2, <5>4 DEF Earlier
      <4>2. Posted(p)' = {j \in Keys : Earlier(j, <<level[p], i[p] + 1>>)}
        BY <1>2, <1>4, <1>9 DEF Posted, Earlier
      <4>3. Posted(p) = {j \in Keys : Earlier(j, <<level[p], i[p]>>)}
        BY <1>9 DEF Posted
      <4> QED
        BY <4>1, <4>2, <4>3
    <3>3. \A q \in Party : Posted(q)' = Posted(q)
      BY <1>9, <3>2
    <3>4. PostsHeld' /\ OrderHeld' /\ ReceivedHeld' /\ KeptHeld' /\ RemoteHeld'
      BY <1>2, <3>1, <3>3, Quiet
    <3>5. PendingHeld'
      <4> SUFFICES ASSUME NEW q \in Party
                   PROVE  /\ \A n \in 1 .. Len(sends[q]) :
                               sends[q][n].done \/ MayPend(q, sends[q][n])'
                          /\ \A n \in 1 .. Len(recvs[q]) :
                               recvs[q][n].done \/ MayPend(q, recvs[q][n])'
        BY <3>1 DEF PendingHeld
      <4>1. CASE q # p
        <5>1. i'[q] = i[q] /\ level' = level /\ WaitForAll' = WaitForAll
          BY <1>2, <1>4, <2>0, <4>1
        <5>2. /\ \A n \in 1 .. Len(sends[q]) : sends[q][n].done \/ MayPend(q, sends[q][n])
              /\ \A n \in 1 .. Len(recvs[q]) : recvs[q][n].done \/ MayPend(q, recvs[q][n])
          BY DEF Inv, PendingHeld
        <5> QED
          BY <3>1, <5>1, <5>2 DEF MayPend
      <4>2. CASE q = p
        BY <1>2, <2>a, <2>b, <3>1, <4>2 DEF MayPend
      <4> QED
        BY <4>1, <4>2
    <3>6. sends' \in [Party -> Seq(Request)] /\ recvs' \in [Party -> Seq(Request)]
      BY <3>1 DEF Inv, Types
    <3> QED
      BY <3>4, <3>5, <3>6
  <2> QED
    BY <2>1, <2>2
<1>11. Types'
  BY <1>2, <1>3, <1>4, <1>5, <1>6, <1>10 DEF Types
<1> QED
  BY <1>7, <1>8, <1>10, <1>11 DEF Inv

LEMMA PostLastKeeps ==
  ASSUME Inv, NEW p \in Party, PostLast(p)
  PROVE  Inv'
<1>1. /\ fn' = fn /\ level' = level /\ i' = i /\ res' = res /\ res2' = res2
      /\ resent' = [resent EXCEPT ![p] = TRUE]
      /\ ~WaitForAll /\ level[p] < Levels - 1 /\ i[p] = Length /\ ~resent[p]
  BY DEF PostLast
<1>2. /\ fn \in DOMAIN Lengths /\ level \in [Party -> 0 .. Levels] /\ i \in [Party -> 0 .. Length]
      /\ resent \in [Party -> BOOLEAN] /\ Length \in Nat /\ Length >= 1 /\ Levels \in Nat
  BY Sizes DEF Inv, Types
<1>3. /\ Length' = Length /\ WaitForAll' = WaitForAll /\ Element' = Element
      /\ Keys' = Keys /\ Request' = Request
  BY <1>1, Fixed
<1>4. /\ resent' \in [Party -> BOOLEAN] /\ resent'[p]
      /\ \A q \in Party \ {p} : resent'[q] = resent[q]
  BY <1>1, <1>2
<1>5. Done(sends[p]) /\ Done(recvs[p])
  BY Settled DEF PostLast
<1>6. Places'
  <2> SUFFICES ASSUME NEW q \in Party
               PROVE  /\ resent'[q] => i[q] = Length /\ ~WaitForAll /\ level[q] < Levels - 1
                      /\ level[q] = Levels => i[q] = 0
    BY <1>1, <1>3 DEF Places
  <2>1. CASE q = p
    BY <1>1, <1>2, <2>1
  <2>2. CASE q # p
    BY <1>4, <2>2 DEF Inv, Places
  <2> QED
    BY <2>1, <2>2
<1>7. ResultsHeld'
  BY <1>1, <1>3 DEF Inv, ResultsHeld
<1> DEFINE k == <<level[p], Length>>
<1>8. k \in Keys /\ k[1] = level[p] /\ Final(k) = Length - 1
  BY <1>1, <1>2 DEF Keys, Final
<1>9. Post(p, First(k), Final(k))
  BY <1>8 DEF PostLast, First
<1>10. /\ \A q \in Party \ {p} : Posted(q)' = Posted(q)
       /\ Place(p) = Length /\ Place(p)' = Length + 1
  BY <1>1, <1>2, <1>3, <1>4 DEF Posted, Place, Earlier
<1>11. Posted(p) = {j \in Keys : Earlier(j, k)}
  BY <1>10 DEF Posted
<1>12. Posted(p)' = Posted(p) \cup {k}
  <2>1. ASSUME NEW j \in Keys
        PROVE  Earlier(j, <<level[p], Length + 1>>) <=> Earlier(j, k) \/ j = k
    <3>1. j[1] \in Int /\ j[2] \in Int /\ j = <<j[1], j[2]>>
      BY <1>2, KeyFacts
    <3>2. j[2] < Length + 1 <=> j[2] < Length \/ j[2] = Length
      BY <1>2, <3>1
    <3>3. j = k <=> j[1] = level[p] /\ j[2] = Length
      BY <3>1
    <3>4. k[1] = level[p] /\ k[2] = Length
      OBVIOUS
    <3> QED
      BY <3>2, <3>3, <3>4 DEF Earlier
  <2>2. Posted(p)' = {j \in Keys : Earlier(j, <<level[p], Length + 1>>)}
    BY <1>1, <1>3, <1>10 DEF Posted, Earlier
  <2> QED
    BY <1>8, <1>11, <2>1, <2>2
<1> HIDE DEF k
<1>13. /\ sends' \in [Party -> Seq(Request)] /\ recvs' \in [Party -> Seq(Request)]
       /\ PostsHeld'
       /\ \A q \in Party : Grown(sends[q], sends'[q]) /\ Grown(recvs[q], recvs'[q])
       /\ \A q \in Party \ {p} : sends'[q] = sends[q] /\ recvs'[q] = recvs[q]
       /\ \A n \in 1 .. Len(sends'[p]) :
            \/ n \in 1 .. Len(sends[p]) /\ sends'[p][n] = sends[p][n]
            \/ sends'[p][n].at = level[p] + 1 /\ sends'[p][n].last = Final(k)
       /\ \A n \in 1 .. Len(recvs'[p]) :
            \/ n \in 1 .. Len(recvs[p]) /\ recvs'[p][n] = recvs[p][n]
            \/ recvs'[p][n].at = level[p] + 1 /\ recvs'[p][n].last = Final(k)
  BY <1>1, <1>8, <1>9, <1>10, <1>11, <1>12, Posting
<1>14. OrderHeld' /\ ReceivedHeld' /\ KeptHeld' /\ RemoteHeld'
  BY <1>1, <1>13, Growing
<1>15. PendingHeld'
  <2> SUFFICES ASSUME NEW q \in Party
               PROVE  /\ \A n \in 1 .. Len(sends'[q]) :
                           sends'[q][n].done \/ MayPend(q, sends[q][n])'
                      /\ \A n \in 1 .. Len(recvs'[q]) :
                           recvs'[q][n].done \/ MayPend(q, recvs[q][n])'
    BY DEF PendingHeld
  <2>1. CASE q # p
    <3>1. sends'[q] = sends[q] /\ recvs'[q] = recvs[q]
      BY <1>13, <2>1
    <3>2. /\ \A n \in 1 .. Len(sends[q]) : sends[q][n].done \/ MayPend(q, sends[q][n])
          /\ \A n \in 1 .. Len(recvs[q]) : recvs[q][n].done \/ MayPend(q, recvs[q][n])
      BY DEF Inv, PendingHeld
    <3> QED
      BY <1>1, <1>3, <3>1, <3>2 DEF MayPend
  <2>2. CASE q = p
    <3>1. Final(k) < i[p]
      BY <1>1, <1>2, <1>8
    <3>2. ASSUME NEW n \in 1 .. Len(sends'[p]), ~sends'[p][n].done
          PROVE  sends'[p][n].at = level[p] + 1 /\ sends'[p][n].last < i[p]
      BY <1>5, <1>13, <3>1, <3>2 DEF Done
    <3>3. ASSUME NEW n \in 1 .. Len(recvs'[p]), ~recvs'[p][n].done
          PROVE  recvs'[p][n].at = level[p] + 1 /\ recvs'[p][n].last < i[p]
      BY <1>5, <1>13, <3>1, <3>3 DEF Done
    <3> QED
      BY <1>1, <2>2, <3>2, <3>3 DEF MayPend
  <2> QED
    BY <2>1, <2>2
<1>16. Types'
  BY <1>1, <1>3, <1>4, <1>13 DEF Inv, Types
<1> QED
  BY <1>6, <1>7, <1>13, <1>14, <1>15, <1>16 DEF Inv

LEMMA NextLevelKeeps ==
  ASSUME Inv, NEW p \in Party, NextLevel(p)
  PROVE  Inv'
<1>1. /\ fn' = fn /\ res' = res /\ res2' = res2 /\ sends' = sends /\ recvs' = recvs
      /\ level' = [level EXCEPT ![p] = @ + 1] /\ i' = [i EXCEPT ![p] = 0]
      /\ resent' = [resent EXCEPT ![p] = FALSE]
      /\ level[p] < Levels /\ i[p] = Length
      /\ WaitForAll \/ LastLevel(p) \/ (resent[p] /\ Waited(p))
  BY DEF NextLevel
<1>2. /\ fn \in DOMAIN Lengths /\ level \in [Party -> 0 .. Levels] /\ i \in [Party -> 0 .. Length]
      /\ resent \in [Party -> BOOLEAN] /\ Length \in Nat /\ Length >= 1 /\ Levels \in Nat
      /\ Element = 0 .. Length - 1
  BY Sizes DEF Inv, Types
<1>3. /\ Length' = Length /\ WaitForAll' = WaitForAll /\ Element' = Element
      /\ Keys' = Keys /\ Request' = Request
  BY <1>1, Fixed
<1>4. /\ level'[p] = level[p] + 1 /\ i'[p] = 0 /\ resent'[p] = FALSE
      /\ \A q \in Party \ {p} :
           level'[q] = level[q] /\ i'[q] = i[q] /\ resent'[q] = resent[q]
  BY <1>1, <1>2
<1>5. Types'
  <2>1. level' \in [Party -> 0 .. Levels] /\ i' \in [Party -> 0 .. Length]
        /\ resent' \in [Party -> BOOLEAN]
    BY <1>1, <1>2
  <2> QED
    BY <1>1, <1>3, <2>1 DEF Inv, Types
<1>6. Places'
  <2> SUFFICES ASSUME NEW q \in Party
               PROVE  /\ resent'[q] => i'[q] = Length /\ ~WaitForAll /\ level'[q] < Levels - 1
                      /\ level'[q] = Levels => i'[q] = 0
    BY <1>3 DEF Places
  <2>1. CASE q = p
    BY <1>4, <2>1
  <2>2. CASE q # p
    BY <1>4, <2>2 DEF Inv, Places
  <2> QED
    BY <2>1, <2>2
<1>7. ResultsHeld'
  <2> SUFFICES ASSUME NEW q \in Party, NEW e \in Element
               PROVE  res[q][e] = level'[q] + IF e < i'[q] THEN 1 ELSE 0
    BY <1>1, <1>3 DEF ResultsHeld
  <2>1. res[q][e] = level[q] + IF e < i[q] THEN 1 ELSE 0
    BY DEF Inv, ResultsHeld
  <2>2. CASE q = p
    BY <1>1, <1>2, <1>4, <2>1, <2>2
  <2>3. CASE q # p
    BY <1>4, <2>1, <2>3
  <2> QED
    BY <2>2, <2>3
<1>8. \A q \in Party : Posted(q)' = Posted(q)
  <2>1. \A q \in Party \ {p} : Posted(q)' = Posted(q)
    BY <1>3, <1>4 DEF Posted, Place, Earlier
  <2>2. Posted(p)' = Posted(p)
    <3>1. Posted(p)' = {j \in Keys : Earlier(j, <<level[p] + 1, 0>>)}
      BY <1>3, <1>4 DEF Posted, Place, Earlier
    <3>2. Posted(p) = {j \in Keys : Earlier(j, <<level[p], Place(p)>>)}
      BY DEF Posted
    <3>3. ASSUME NEW j \in Keys
          PROVE  Earlier(j, <<level[p] + 1, 0>>) <=> Earlier(j, <<level[p], Place(p)>>)
      <4>1. j[1] \in 0 .. Levels - 2 /\ j[2] \in 0 .. Length
        BY <1>2, KeyFacts
      <4>2. level[p] \in Nat
        BY <1>2
      <4>3. j[1] < level[p] + 1 <=> j[1] < level[p] \/ j[1] = level[p]
        BY <4>1, <4>2
      <4>4. ~(j[2] < 0)
        BY <1>2, <4>1
      <4>5. j[1] = level[p] => j[2] < Place(p)
        <5>1. CASE WaitForAll
          <6>1. j[2] # Length
            BY <5>1 DEF Keys
          <6>2. Place(p) = Length
            BY <1>1, <5>1 DEF Inv, Places, Place
          <6> QED
            BY <1>2, <4>1, <6>1, <6>2
        <5>2. CASE LastLevel(p)
          BY <1>2, <4>1, <5>2 DEF LastLevel
        <5>3. CASE resent[p]
          BY <1>2, <4>1, <5>3 DEF Place
        <5> QED
          BY <1>1, <5>1, <5>2, <5>3
      <4> QED
        BY <4>3, <4>4, <4>5 DEF Earlier
    <3> QED
      BY <3>1, <3>2, <3>3
  <2> QED
    BY <2>1, <2>2
<1>9. PostsHeld' /\ OrderHeld' /\ ReceivedHeld' /\ KeptHeld' /\ RemoteHeld'
  BY <1>1, <1>8, Quiet
<1>10. PendingHeld'
  <2> SUFFICES ASSUME NEW q \in Party, NEW s, s = sends[q] \/ s = recvs[q],
                      NEW n \in 1 .. Len(s), ~s[n].done
               PROVE  \/ s[n].at = level'[q] + 1 /\ s[n].last < i'[q]
                      \/ WaitForAll /\ i'[q] = 0 /\ s[n].at = level'[q]
    BY <1>1, <1>3 DEF PendingHeld, MayPend
  <2>1. MayPend(q, s[n])
    BY DEF Inv, PendingHeld
  <2>2. CASE q # p
    BY <1>4, <2>1, <2>2 DEF MayPend
  <2>3. CASE q = p
    <3>1. s[n].at = level[p] + 1
      BY <1>1, <1>2, <2>1, <2>3 DEF MayPend
    <3>2. level[p] < Levels - 1
      BY <2>3, <3>1, RequestFacts DEF Inv, PostsHeld
    <3>3. ~LastLevel(p)
      BY <1>2, <3>2 DEF LastLevel
    <3>4. ~Waited(p)
      BY <2>3, Settled DEF Done
    <3> QED
      BY <1>1, <1>4, <2>3, <3>1, <3>3, <3>4
  <2> QED
    BY <2>2, <2>3
<1> QED
  BY <1>5, <1>6, <1>7, <1>9, <1>10 DEF Inv

-----------------------------------------------------------------------------
(* Completion of requests. *)

\* The requests of t are those of s but for their completion: those of s that
\* are complete are so in t.
Marked(s, t) ==
  /\ Len(t) = Len(s)
  /\ \A n \in 1 .. Len(s) :
       /\ t[n].first = s[n].first /\ t[n].last = s[n].last /\ t[n].at = s[n].at
       /\ s[n].done => t[n].done

LEMMA MarkedRequests ==
  ASSUME NEW P, NEW s, NEW t, RequestsOf(s, P), Marked(s, t)
  PROVE  RequestsOf(t, P)
BY DEF RequestsOf, Marked

\* S with p's n-th request complete and a copy of its words kept, and without a copy.
Kept(S, p, n, w) ==
  [S EXCEPT ![p] = [S[p] EXCEPT ![n] = [[S[p][n] EXCEPT !.done = TRUE] EXCEPT !.kept = w]]]
Received(S, p, n) == [S EXCEPT ![p] = [S[p] EXCEPT ![n] = [S[p][n] EXCEPT !.done = TRUE]]]

\* What is known of T then.
Completed(S, T, p, n) ==
  /\ T \in [Party -> Seq(Request)]
  /\ \A q \in Party : Marked(S[q], T[q])
  /\ \A q \in Party \ {p} : T[q] = S[q]
  /\ \A m \in 1 .. Len(S[p]) : m # n => T[p][m] = S[p][m]
  /\ T[p][n].done

LEMMA Complete ==
  ASSUME NEW p \in Party, NEW S \in [Party -> Seq(Request)], NEW n \in 1 .. Len(S[p]),
         NEW w \in {<<>>} \cup [Element -> Nat], NEW T, T = Kept(S, p, n, w)
  PROVE  Completed(S, T, p, n) /\ T[p][n].kept = w
<1> DEFINE r == [[S[p][n] EXCEPT !.done = TRUE] EXCEPT !.kept = w]
           t == [S[p] EXCEPT ![n] = r]
<1>1. S[p] \in Seq(Request) /\ S[p][n] \in Request
  OBVIOUS
<1>2. /\ r \in Request /\ r.done /\ r.kept = w
      /\ r.first = S[p][n].first /\ r.last = S[p][n].last /\ r.at = S[p][n].at
  BY <1>1 DEF Request
<1>3. T = [S EXCEPT ![p] = t]
  BY DEF Kept
<1> HIDE DEF r
<1>4. /\ t \in Seq(Request) /\ Len(t) = Len(S[p])
      /\ \A m \in 1 .. Len(S[p]) : t[m] = IF m = n THEN r ELSE S[p][m]
  BY <1>1, <1>2, ExceptSeq
<1> HIDE DEF t
<1>5. T \in [Party -> Seq(Request)] /\ T[p] = t /\ \A q \in Party \ {p} : T[q] = S[q]
  BY <1>3, <1>4
<1>6. Marked(S[p], t)
  BY <1>2, <1>4 DEF Marked
<1>7. \A q \in Party \ {p} : Marked(S[q], S[q])
  BY DEF Marked
<1>8. \A q \in Party : Marked(S[q], T[q])
  BY <1>5, <1>6, <1>7
<1> QED
  BY <1>2, <1>4, <1>5, <1>8 DEF Completed

LEMMA Receive ==
  ASSUME NEW p \in Party, NEW S \in [Party -> Seq(Request)], NEW n \in 1 .. Len(S[p]),
         NEW T, T = Received(S, p, n)
  PROVE  Completed(S, T, p, n)
<1> DEFINE r == [S[p][n] EXCEPT !.done = TRUE]
           t == [S[p] EXCEPT ![n] = r]
<1>1. S[p] \in Seq(Request) /\ S[p][n] \in Request
  OBVIOUS
<1>2. /\ r \in Request /\ r.done
      /\ r.first = S[p][n].first /\ r.last = S[p][n].last /\ r.at = S[p][n].at
  BY <1>1 DEF Request
<1>3. T = [S EXCEPT ![p] = t]
  BY DEF Received
<1> HIDE DEF r
<1>4. /\ t \in Seq(Request) /\ Len(t) = Len(S[p])
      /\ \A m \in 1 .. Len(S[p]) : t[m] = IF m = n THEN r ELSE S[p][m]
  BY <1>1, <1>2, ExceptSeq
<1> HIDE DEF t
<1>5. T \in [Party -> Seq(Request)] /\ T[p] = t /\ \A q \in Party \ {p} : T[q] = S[q]
  BY <1>3, <1>4
<1>6. Marked(S[p], t)
  BY <1>2, <1>4 DEF Marked
<1>7. \A q \in Party \ {p} : Marked(S[q], S[q])
  BY DEF Marked
<1>8. \A q \in Party : Marked(S[q], T[q])
  BY <1>5, <1>6, <1>7
<1> QED
  BY <1>2, <1>4, <1>5, <1>8 DEF Completed

\* What completing requests cannot disturb.
LEMMA Completing ==
  ASSUME Inv, fn' = fn, level' = level, i' = i, resent' = resent, res' = res,
         sends' \in [Party -> Seq(Request)], recvs' \in [Party -> Seq(Request)],
         res2' \in [Party -> [Element -> Nat]],
         \A p \in Party : Marked(sends[p], sends'[p]) /\ Marked(recvs[p], recvs'[p])
  PROVE  Types' /\ Places' /\ PostsHeld' /\ ResultsHeld' /\ PendingHeld'
<1>1. /\ Length' = Length /\ WaitForAll' = WaitForAll /\ Element' = Element
      /\ Keys' = Keys /\ Request' = Request
  BY Fixed
<1>2. Types'
  BY <1>1 DEF Inv, Types
<1>3. Places' /\ ResultsHeld'
  BY <1>1 DEF Inv, Places, ResultsHeld
<1>4. PostsHeld'
  <2>1. \A p \in Party : Posted(p)' = Posted(p)
    BY <1>1 DEF Posted, Place, Earlier
  <2>2. \A p \in Party :
          RequestsOf(sends'[p], Posted(p)) /\ RequestsOf(recvs'[p], Posted(p))
    BY MarkedRequests DEF Inv, PostsHeld
  <2> QED
    BY <2>1, <2>2, PostsPrimed
<1>5. PendingHeld'
  <2> SUFFICES ASSUME NEW p \in Party
               PROVE  /\ \A n \in 1 .. Len(sends'[p]) :
                           sends'[p][n].done \/ MayPend(p, sends[p][n])'
                      /\ \A n \in 1 .. Len(recvs'[p]) :
                           recvs'[p][n].done \/ MayPend(p, recvs[p][n])'
    BY DEF PendingHeld
  <2>1. /\ \A n \in 1 .. Len(sends[p]) : sends[p][n].done \/ MayPend(p, sends[p][n])
        /\ \A n \in 1 .. Len(recvs[p]) : recvs[p][n].done \/ MayPend(p, recvs[p][n])
    BY DEF Inv, PendingHeld
  <2>2. ASSUME NEW r, NEW t, MayPend(p, r), t.at = r.at, t.last = r.last
        PROVE  \/ t.at = level[p] + 1 /\ t.last < i[p]
               \/ WaitForAll /\ i[p] = 0 /\ t.at = level[p]
    BY <2>2 DEF MayPend
  <2>3. Marked(sends[p], sends'[p]) /\ Marked(recvs[p], recvs'[p])
    OBVIOUS
  <2>4. ASSUME NEW n \in 1 .. Len(sends'[p]), ~sends'[p][n].done
        PROVE  MayPend(p, sends[p][n])'
    <3>1. /\ MayPend(p, sends[p][n])
          /\ sends'[p][n].at = sends[p][n].at /\ sends'[p][n].last = sends[p][n].last
      BY <2>1, <2>3, <2>4 DEF Marked
    <3> QED
      BY <1>1, <2>2, <3>1 DEF MayPend
  <2>5. ASSUME NEW n \in 1 .. Len(recvs'[p]), ~recvs'[p][n].done
        PROVE  MayPend(p, recvs[p][n])'
    <3>1. /\ MayPend(p, recvs[p][n])
          /\ recvs'[p][n].at = recvs[p][n].at /\ recvs'[p][n].last = recvs[p][n].last
      BY <2>1, <2>3, <2>5 DEF Marked
    <3> QED
      BY <1>1, <2>2, <3>1 DEF MayPend
  <2> QED
    BY <2>4, <2>5
<1> QED
  BY <1>2, <1>3, <1>4, <1>5

LEMMA InOrderFacts ==
  ASSUME Inv, OrderSuffices, ~WaitForAll
  PROVE  fn \in InOrder
BY DEF OrderSuffices

LEMMA KeepKeeps ==
  ASSUME Inv, OrderSuffices, NEW p \in Party, NEW n, Keep(p, n)
  PROVE  Inv'
<1>1. /\ fn' = fn /\ level' = level /\ i' = i /\ resent' = resent /\ res' = res
      /\ res2' = res2 /\ recvs' = recvs
      /\ n \in 1 .. Len(sends[p]) /\ ~sends[p][n].done
      /\ fn \in InOrder => \A m \in 1 .. n - 1 : sends[p][m].done
      /\ sends' = [sends EXCEPT ![p][n].done = TRUE, ![p][n].kept = res[p]]
  BY DEF Keep
<1>2. /\ sends \in [Party -> Seq(Request)] /\ recvs \in [Party -> Seq(Request)]
      /\ res2 \in [Party -> [Element -> Nat]] /\ res[p] \in {<<>>} \cup [Element -> Nat]
      /\ res[p] \in [Element -> Nat]
  BY DEF Inv, Types
<1>3. /\ sends' \in [Party -> Seq(Request)]
      /\ \A q \in Party : Marked(sends[q], sends'[q])
      /\ \A q \in Party \ {p} : sends'[q] = sends[q]
      /\ \A m \in 1 .. Len(sends[p]) : m # n => sends'[p][m] = sends[p][m]
      /\ sends'[p][n].done /\ sends'[p][n].kept = res[p]
  <2>1. [sends[p] EXCEPT ![n].done = TRUE, ![n].kept = res[p]]
          = [sends[p] EXCEPT ![n] = [[sends[p][n] EXCEPT !.done = TRUE] EXCEPT !.kept = res[p]]]
    BY <1>1, <1>2
  <2>2. sends' = Kept(sends, p, n, res[p])
    BY <1>1, <1>2, <2>1 DEF Kept
  <2>3. n \in 1 .. Len(sends[p])
    BY <1>1
  <2>4. res[p] \in {<<>>} \cup [Element -> Nat]
    BY <1>2
  <2>5. sends \in [Party -> Seq(Request)]
    BY <1>2
  <2>6. Completed(sends, sends', p, n) /\ sends'[p][n].kept = res[p]
    BY <2>2, <2>3, <2>4, <2>5, Complete
  <2> QED
    BY <2>6 DEF Completed
<1>4. \A q \in Party : Marked(recvs[q], recvs'[q])
  BY <1>1 DEF Marked
<1>5. Types' /\ Places' /\ PostsHeld' /\ ResultsHeld' /\ PendingHeld'
  BY <1>1, <1>2, <1>3, <1>4, Completing
<1>6. WaitForAll' = WaitForAll /\ Element' = Element
  BY <1>1, Fixed
<1>7. Len(sends'[p]) = Len(sends[p]) /\ Len(sends[p]) \in Nat
  BY <1>2, <1>3 DEF Marked
<1>8. OrderHeld'
  <2> SUFFICES ASSUME ~WaitForAll, NEW q \in Party
               PROVE  InSequence(sends[q])' /\ InSequence(recvs[q])'
    BY <1>6 DEF OrderHeld
  <2>1. InSequence(sends[q]) /\ InSequence(recvs[q])
    BY DEF Inv, OrderHeld
  <2>2. InSequence(recvs[q])'
    BY <1>1, <2>1 DEF InSequence
  <2>3. CASE q # p
    BY <1>3, <2>1, <2>2, <2>3 DEF InSequence
  <2>4. CASE q = p
    <3>1. \A m \in 1 .. n - 1 : sends[p][m].done
      BY <1>1, InOrderFacts
    <3>2. ASSUME NEW l \in 1 .. Len(sends[p]), sends'[p][l].done, NEW m \in 1 .. l - 1
          PROVE  sends'[p][m].done
      <4>1. m \in 1 .. Len(sends[p])
        BY <1>7
      <4>2. sends[p][m].done
        BY <1>3, <2>1, <2>4, <3>1, <3>2 DEF InSequence
      <4> QED
        BY <1>3, <4>1, <4>2
    <3> QED
      BY <1>7, <2>2, <2>4, <3>2 DEF InSequence
  <2> QED
    BY <2>3, <2>4
<1>9. ReceivedHeld'
  <2> SUFFICES ASSUME NEW q \in Party, NEW m \in 1 .. Len(recvs[Pred(q)]),
                      recvs[Pred(q)][m].done
               PROVE  m \in 1 .. Len(sends'[q]) /\ sends'[q][m].done
    BY <1>1 DEF ReceivedHeld, Pred
  <2>1. m \in 1 .. Len(sends[q]) /\ sends[q][m].done
    BY DEF Inv, ReceivedHeld
  <2> QED
    BY <1>3, <2>1 DEF Marked
<1>10. KeptHeld'
  <2> SUFFICES ASSUME NEW q \in Party, NEW m \in 1 .. Len(sends'[q]), sends'[q][m].done,
                      m \in 1 .. Len(recvs'[Pred(q)]) => ~recvs'[Pred(q)][m].done
               PROVE  /\ sends'[q][m].kept \in [Element -> Nat]
                      /\ \A e \in Covered(sends'[q][m]) : sends'[q][m].kept[e] = sends'[q][m].at
    BY <1>6 DEF KeptHeld, Pred, Covered
  <2>1. CASE q = p /\ m = n
    <3>1. /\ sends'[p][n].first = sends[p][n].first /\ sends'[p][n].last = sends[p][n].last
          /\ sends'[p][n].at = sends[p][n].at
      BY <1>1, <1>3 DEF Marked
    <3>2. \A e \in Covered(sends[p][n]) : res[p][e] = sends[p][n].at
      BY <1>1, PendingWords
    <3> QED
      BY <1>2, <1>3, <2>1, <3>1, <3>2 DEF Covered
  <2>2. CASE ~(q = p /\ m = n)
    <3>1. m \in 1 .. Len(sends[q]) /\ sends'[q][m] = sends[q][m]
      BY <1>3, <1>7, <2>2
    <3>2. m \in 1 .. Len(recvs[Pred(q)]) => ~recvs[Pred(q)][m].done
      BY <1>1
    <3> QED
      BY <3>1, <3>2 DEF Inv, KeptHeld
  <2> QED
    BY <2>1, <2>2
<1>11. RemoteHeld'
  BY <1>1, <1>6 DEF Inv, RemoteHeld, Covered
<1> QED
  BY <1>5, <1>8, <1>9, <1>10, <1>11 DEF Inv

\* The receive that is pending is of the latest level that its party has posted.
LEMMA PendingIsLatest ==
  ASSUME Inv, NEW q \in Party, NEW n \in 1 .. Len(recvs[q]), ~recvs[q][n].done,
         NEW m \in 1 .. Len(recvs[q])
  PROVE  recvs[q][m].at <= recvs[q][n].at
<1>1. /\ i[q] \in 0 .. Length /\ Length \in Nat /\ Element = 0 .. Length - 1
      /\ level[q] \in 0 .. Levels /\ Levels \in Nat
      /\ RequestsOf(recvs[q], Posted(q))
  BY Sizes DEF Inv, Types, PostsHeld
<1>2. /\ recvs[q][m].at \in 1 .. Levels - 1 /\ recvs[q][m].at <= level[q] + 1
      /\ recvs[q][m].last \in Element
      /\ recvs[q][m].at = level[q] + 1 => recvs[q][m].last < i[q]
  BY <1>1, RequestFacts
<1>3. MayPend(q, recvs[q][n])
  BY DEF Inv, PendingHeld
<1> QED
  BY <1>1, <1>2, <1>3 DEF MayPend

LEMMA TransferKeeps ==
  ASSUME Inv, OrderSuffices, NEW p \in Party, NEW n, Transfer(p, n)
  PROVE  Inv'
<1> DEFINE q == Pred(p)
           words == IF sends[p][n].done THEN sends[p][n].kept ELSE res[p]
           Part == Covered(recvs[q][n])
<1>1. /\ fn' = fn /\ level' = level /\ i' = i /\ resent' = resent /\ res' = res
      /\ n \in 1 .. Len(sends[p]) /\ n \in 1 .. Len(recvs[q]) /\ ~recvs[q][n].done
      /\ fn \in InOrder => \A m \in 1 .. n - 1 : recvs[q][m].done
      /\ res2' = [res2 EXCEPT ![q] = [e \in Element |->
                    IF e \in Part THEN words[e] ELSE res2[q][e]]]
      /\ sends' = [sends EXCEPT ![p][n].done = TRUE, ![p][n].kept = <<>>]
      /\ recvs' = [recvs EXCEPT ![q][n].done = TRUE]
  BY DEF Transfer
<1>2. /\ sends \in [Party -> Seq(Request)] /\ recvs \in [Party -> Seq(Request)]
      /\ res2 \in [Party -> [Element -> Nat]] /\ res[p] \in [Element -> Nat]
  BY DEF Inv, Types
<1>3. q \in Party /\ \A r \in Party : Pred(r) = q => r = p
  BY DEF Party, Pred
<1>4. WaitForAll' = WaitForAll /\ Element' = Element
  BY <1>1, Fixed
<1>5. /\ recvs[q][n].at = sends[p][n].at /\ Part = Covered(sends[p][n])
  BY <1>1, <1>3, SameRequest DEF Inv, PostsHeld, Covered
<1>6. words \in [Element -> Nat] /\ \A e \in Part : words[e] = recvs[q][n].at
  <2>1. CASE sends[p][n].done
    BY <1>1, <1>5, <2>1 DEF Inv, KeptHeld
  <2>2. CASE ~sends[p][n].done
    BY <1>1, <1>2, <1>5, <2>2, PendingWords
  <2> QED
    BY <2>1, <2>2
<1>7. Part \subseteq Int
  BY DEF Covered
<1> HIDE DEF q, words, Part
<1>8. /\ res2' \in [Party -> [Element -> Nat]]
      /\ \A r \in Party \ {q} : res2'[r] = res2[r]
      /\ \A e \in Element : res2'[q][e] = IF e \in Part THEN recvs[q][n].at ELSE res2[q][e]
  <2> DEFINE row == [e \in Element |-> IF e \in Part THEN words[e] ELSE res2[q][e]]
  <2>1. row \in [Element -> Nat]
    BY <1>2, <1>3, <1>6
  <2>2. \A e \in Element : row[e] = IF e \in Part THEN recvs[q][n].at ELSE res2[q][e]
    BY <1>6
  <2>3. res2' = [res2 EXCEPT ![q] = row]
    BY <1>1
  <2> HIDE DEF row
  <2> QED
    BY <1>2, <1>3, <2>1, <2>2, <2>3
<1>9. /\ sends' \in [Party -> Seq(Request)]
      /\ \A r \in Party : Marked(sends[r], sends'[r])
      /\ \A r \in Party \ {p} : sends'[r] = sends[r]
      /\ \A m \in 1 .. Len(sends[p]) : m # n => sends'[p][m] = sends[p][m]
      /\ sends'[p][n].done
  <2>1. [sends[p] EXCEPT ![n].done = TRUE, ![n].kept = <<>>]
          = [sends[p] EXCEPT ![n] = [[sends[p][n] EXCEPT !.done = TRUE] EXCEPT !.kept = <<>>]]
    BY <1>1, <1>2
  <2>2. sends' = Kept(sends, p, n, <<>>)
    BY <1>1, <1>2, <2>1 DEF Kept
  <2>3. n \in 1 .. Len(sends[p]) /\ <<>> \in {<<>>} \cup [Element -> Nat]
    BY <1>1
  <2>4. sends \in [Party -> Seq(Request)]
    BY <1>2
  <2>5. Completed(sends, sends', p, n)
    BY <2>2, <2>3, <2>4, Complete
  <2> QED
    BY <2>5 DEF Completed
<1>10. /\ recvs' \in [Party -> Seq(Request)]
       /\ \A r \in Party : Marked(recvs[r], recvs'[r])
       /\ \A r \in Party \ {q} : recvs'[r] = recvs[r]
       /\ \A m \in 1 .. Len(recvs[q]) : m # n => recvs'[q][m] = recvs[q][m]
       /\ recvs'[q][n].done
  <2>1. recvs' = Received(recvs, q, n)
    BY <1>1, <1>2, <1>3 DEF Received
  <2>2. n \in 1 .. Len(recvs[q]) /\ recvs \in [Party -> Seq(Request)]
    BY <1>1, <1>2
  <2>3. Completed(recvs, recvs', q, n)
    BY <1>3, <2>1, <2>2, Receive
  <2> QED
    BY <2>3 DEF Completed
<1>11. Types' /\ Places' /\ PostsHeld' /\ ResultsHeld' /\ PendingHeld'
  BY <1>1, <1>8, <1>9, <1>10, Completing
<1>12. /\ Len(sends'[p]) = Len(sends[p]) /\ Len(sends[p]) \in Nat
       /\ Len(recvs'[q]) = Len(recvs[q]) /\ Len(recvs[q]) \in Nat
  BY <1>2, <1>3, <1>9, <1>10 DEF Marked
<1>13. OrderHeld'
  <2> SUFFICES ASSUME ~WaitForAll, NEW r \in Party
               PROVE  InSequence(sends[r])' /\ InSequence(recvs[r])'
    BY <1>4 DEF OrderHeld
  <2>1. InSequence(sends[r]) /\ InSequence(recvs[r])
    BY DEF Inv, OrderHeld
  <2>2. \A m \in 1 .. n - 1 : recvs[q][m].done
    BY <1>1, InOrderFacts
  <2>3. \A m \in 1 .. n - 1 : sends[p][m].done
    <3>1. ASSUME NEW m \in 1 .. n - 1
          PROVE  sends[p][m].done
      <4>1. m \in 1 .. Len(recvs[q]) /\ recvs[q][m].done
        BY <1>1, <1>12, <2>2
      <4> QED
        BY <4>1 DEF Inv, ReceivedHeld, q
    <3> QED
      BY <3>1
  <2>4. InSequence(sends[r])'
    <3>1. CASE r # p
      BY <1>9, <2>1, <3>1 DEF InSequence
    <3>2. CASE r = p
      <4>1. ASSUME NEW l \in 1 .. Len(sends[p]), sends'[p][l].done, NEW m \in 1 .. l - 1
            PROVE  sends'[p][m].done
        <5>1. m \in 1 .. Len(sends[p])
          BY <1>12
        <5>2. sends[p][m].done
          BY <1>9, <2>1, <2>3, <3>2, <4>1 DEF InSequence
        <5> QED
          BY <1>9, <5>1, <5>2
      <4> QED
        BY <1>12, <3>2, <4>1 DEF InSequence
    <3> QED
      BY <3>1, <3>2
  <2>5. InSequence(recvs[r])'
    <3>1. CASE r # q
      BY <1>10, <2>1, <3>1 DEF InSequence
    <3>2. CASE r = q
      <4>1. ASSUME NEW l \in 1 .. Len(recvs[q]), recvs'[q][l].done, NEW m \in 1 .. l - 1
            PROVE  recvs'[q][m].done
        <5>1. m \in 1 .. Len(recvs[q])
          BY <1>12
        <5>2. recvs[q][m].done
          BY <1>10, <2>1, <2>2, <3>2, <4>1 DEF InSequence
        <5> QED
          BY <1>10, <5>1, <5>2
      <4> QED
        BY <1>12, <3>2, <4>1 DEF InSequence
    <3> QED
      BY <3>1, <3>2
  <2> QED
    BY <2>4, <2>5
<1>14. ReceivedHeld'
  <2> SUFFICES ASSUME NEW r \in Party, NEW m \in 1 .. Len(recvs'[Pred(r)]),
                      recvs'[Pred(r)][m].done
               PROVE  m \in 1 .. Len(sends'[r]) /\ sends'[r][m].done
    BY DEF ReceivedHeld, Pred
  <2>1. CASE r = p /\ m = n
    BY <1>1, <1>9, <1>12, <2>1
  <2>2. CASE ~(r = p /\ m = n)
    <3>1. m \in 1 .. Len(recvs[Pred(r)]) /\ recvs[Pred(r)][m].done
      <4>1. Pred(r) \in Party
        BY DEF Party, Pred
      <4>2. Pred(r) = q <=> r = p
        BY <1>3 DEF q
      <4> QED
        BY <1>10, <1>12, <2>2, <4>1, <4>2
    <3>2. m \in 1 .. Len(sends[r]) /\ sends[r][m].done
      BY <3>1 DEF Inv, ReceivedHeld
    <3> QED
      BY <1>9, <3>2 DEF Marked
  <2> QED
    BY <2>1, <2>2
<1>15. KeptHeld'
  <2> SUFFICES ASSUME NEW r \in Party, NEW m \in 1 .. Len(sends'[r]), sends'[r][m].done,
                      m \in 1 .. Len(recvs'[Pred(r)]) => ~recvs'[Pred(r)][m].done
               PROVE  /\ sends'[r][m].kept \in [Element -> Nat]
                      /\ \A e \in Covered(sends'[r][m]) : sends'[r][m].kept[e] = sends'[r][m].at
    BY <1>4 DEF KeptHeld, Pred, Covered
  <2>1. ~(r = p /\ m = n)
    BY <1>1, <1>10, <1>12 DEF q
  <2>2. m \in 1 .. Len(sends[r]) /\ sends'[r][m] = sends[r][m]
    BY <1>9, <1>12, <2>1
  <2>3. m \in 1 .. Len(recvs[Pred(r)]) => ~recvs[Pred(r)][m].done
    <3>1. Pred(r) \in Party
      BY DEF Party, Pred
    <3> QED
      BY <1>10, <3>1 DEF Marked
  <2> QED
    BY <2>2, <2>3 DEF Inv, KeptHeld
<1>16. RemoteHeld'
  <2> SUFFICES ASSUME NEW r \in Party, NEW e \in Element
               PROVE  /\ \A m \in 1 .. Len(recvs'[r]) :
                           recvs'[r][m].done /\ e \in Covered(recvs'[r][m])
                             => recvs'[r][m].at <= res2'[r][e]
                      /\ res2'[r][e] = 0 \/ \E m \in 1 .. Len(recvs'[r]) :
                           e \in Covered(recvs'[r][m]) /\ recvs'[r][m].at = res2'[r][e]
    BY <1>4 DEF RemoteHeld, Covered
  <2>1. /\ \A m \in 1 .. Len(recvs[r]) :
             recvs[r][m].done /\ e \in Covered(recvs[r][m]) => recvs[r][m].at <= res2[r][e]
        /\ res2[r][e] = 0 \/ \E m \in 1 .. Len(recvs[r]) :
             e \in Covered(recvs[r][m]) /\ recvs[r][m].at = res2[r][e]
    BY DEF Inv, RemoteHeld
  <2>2. /\ Len(recvs'[r]) = Len(recvs[r])
        /\ \A m \in 1 .. Len(recvs[r]) :
             recvs'[r][m].at = recvs[r][m].at /\ Covered(recvs'[r][m]) = Covered(recvs[r][m])
    BY <1>10 DEF Marked, Covered
  <2>3. CASE r # q
    BY <1>8, <1>10, <2>1, <2>3
  <2>4. CASE r = q /\ e \in Part
    <3>1. res2'[q][e] = recvs[q][n].at
      BY <1>8, <2>4
    <3>2. \A m \in 1 .. Len(recvs[q]) : recvs[q][m].at <= recvs[q][n].at
      BY <1>1, <1>3, PendingIsLatest
    <3> QED
      BY <1>1, <2>2, <2>4, <3>1, <3>2 DEF Part
  <2>5. CASE r = q /\ e \notin Part
    <3>1. res2'[q][e] = res2[q][e]
      BY <1>8, <2>5
    <3>2. \A m \in 1 .. Len(recvs[q]) :
            recvs'[q][m].done /\ e \in Covered(recvs[q][m]) => recvs[q][m].done
      BY <1>10, <2>5 DEF Part
    <3> QED
      BY <2>1, <2>2, <2>5, <3>1, <3>2
  <2> QED
    BY <2>3, <2>4, <2>5
<1> QED
  BY <1>11, <1>13, <1>14, <1>15, <1>16 DEF Inv

-----------------------------------------------------------------------------
(* Theorems. *)

LEMMA InitInv == Init => Inv
<1> SUFFICES ASSUME Init PROVE Inv
  OBVIOUS
<1>1. fn \in DOMAIN Lengths /\ Length \in Nat /\ Length >= 1 /\ Levels \in Nat /\ Levels >= 2
  BY Sizes DEF Init
<1>2. Types /\ Places
  BY <1>1 DEF Init, Types, Places
<1>3. PostsHeld
  <2>1. ASSUME NEW p \in Party
        PROVE  Posted(p) = {}
    <3>1. level[p] = 0 /\ Place(p) = 0
      BY DEF Init, Place
    <3>2. \A k \in Keys : ~(k[1] < 0) /\ ~(k[2] < 0)
      BY <1>1, KeyFacts
    <3> QED
      BY <3>1, <3>2 DEF Posted, Earlier
  <2>2. RequestsOf(<<>>, {})
    BY FS_EmptySet DEF RequestsOf
  <2> QED
    BY <2>1, <2>2 DEF Init, PostsHeld
<1>4. ResultsHeld /\ RemoteHeld
  BY <1>1 DEF Init, ResultsHeld, RemoteHeld, Element
<1>5. PendingHeld /\ OrderHeld /\ ReceivedHeld /\ KeptHeld
  <2>1. \A p \in Party : sends[p] = <<>> /\ recvs[p] = <<>> /\ recvs[Pred(p)] = <<>>
    BY DEF Init, Party, Pred
  <2> QED
    BY <2>1 DEF PendingHeld, OrderHeld, InSequence, ReceivedHeld, KeptHeld
<1> QED
  BY <1>2, <1>3, <1>4, <1>5 DEF Inv

LEMMA StutterInv == Inv /\ UNCHANGED vars => Inv'
<1> SUFFICES ASSUME Inv, UNCHANGED vars PROVE Inv'
  OBVIOUS
<1>1. /\ fn' = fn /\ level' = level /\ i' = i /\ resent' = resent /\ res' = res
      /\ res2' = res2 /\ sends' = sends /\ recvs' = recvs
  BY DEF vars
<1>2. /\ Length' = Length /\ WaitForAll' = WaitForAll /\ Element' = Element
      /\ Keys' = Keys /\ Request' = Request
  BY <1>1, Fixed
<1>3. \A p \in Party : Posted(p)' = Posted(p)
  BY <1>1, <1>2 DEF Posted, Place, Earlier
<1>4. PostsHeld' /\ OrderHeld' /\ ReceivedHeld' /\ KeptHeld' /\ RemoteHeld'
  BY <1>1, <1>3, Quiet
<1>5. Types' /\ Places' /\ ResultsHeld'
  BY <1>1, <1>2 DEF Inv, Types, Places, ResultsHeld
<1>6. PendingHeld'
  BY <1>1, <1>2 DEF Inv, PendingHeld, MayPend
<1> QED
  BY <1>4, <1>5, <1>6 DEF Inv

LEMMA NextInv == Inv /\ OrderSuffices /\ [Next]_vars => Inv'
<1> SUFFICES ASSUME Inv, OrderSuffices, [Next]_vars PROVE Inv'
  OBVIOUS
<1>1. CASE \E p \in Party : Step(p)
  BY <1>1, ComputeKeeps, PostLastKeeps, NextLevelKeeps DEF Step
<1>2. CASE Deliver
  BY <1>2, TransferKeeps DEF Deliver
<1>3. CASE Copy
  BY <1>3, KeepKeeps DEF Copy
<1>4. CASE UNCHANGED vars
  BY <1>4, StutterInv
<1> QED
  BY <1>1, <1>2, <1>3, <1>4 DEF Next, Returned

\* The function that runs stays the same, and with it what it waits for.
LEMMA SameFunction == [Next]_vars => OrderSuffices' = OrderSuffices
<1> SUFFICES ASSUME [Next]_vars PROVE fn' = fn
  BY DEF OrderSuffices, WaitForAll
<1> QED
  BY DEF Next, Step, Compute, PostLast, NextLevel, Deliver, Transfer, Copy, Keep,
         Returned, vars

\* The invariant of both functions.
LEMMA Invariant == Spec => [](OrderSuffices => Inv)
<1>1. Init => (OrderSuffices => Inv)
  BY InitInv
<1>2. (OrderSuffices => Inv) /\ [Next]_vars => (OrderSuffices => Inv)'
  BY NextInv, SameFunction
<1> QED
  BY <1>1, <1>2, PTL DEF Spec

\* eq_b_array_inter_batch combines only local and remote shares of the same level,
\* whatever the length of the arrays and the number of levels, however far one
\* party runs ahead of another, and in whichever order its transfers complete.
THEOREM SharesOfOneLevel == Spec => [](WaitForAll => NoMixedLevels)
<1>1. (OrderSuffices => Inv) => (WaitForAll => NoMixedLevels)
  BY InvImplies DEF OrderSuffices
<1> QED
  BY <1>1, Invariant, PTL

\* No party in eq_b_array_inter_batch changes words that MPI has yet to send: in a
\* level it computes after the waits for all sends of the level before.
THEOREM BuffersIntact == Spec => [](WaitForAll => PendingSendsIntact)
<1>1. (OrderSuffices => Inv) => (WaitForAll => PendingSendsIntact)
  BY InvImplies DEF OrderSuffices
<1> QED
  BY <1>1, Invariant, PTL

\* A party in a level of eq_b_array_inter_batch has the remote shares of the level
\* before of all that it has yet to compute.
THEOREM LevelBefore == Spec => [](WaitForAll => LevelsApart)
<1>1. (OrderSuffices => Inv) => (WaitForAll => LevelsApart)
  BY InvImplies DEF OrderSuffices
<1> QED
  BY <1>1, Invariant, PTL

=============================================================================
