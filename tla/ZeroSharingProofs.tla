-------------------------- MODULE ZeroSharingProofs --------------------------
(***************************************************************************)
(* The shares of zero of party.cpp are shares of zero, for every sequence  *)
(* of calls, every table of the generators and every seeds drawn, at       *)
(* whatever pace the parties run and however often they exchange seeds.    *)
(***************************************************************************)
EXTENDS ZeroSharing, SequenceTheorems, TLAPS

-----------------------------------------------------------------------------
(* The ring of the parties, and what their words add up to.                *)

\* Neighbours on the ring of three parties, spelled out.
LEMMA RingOfParties ==
  /\ Party = {0, 1, 2}
  /\ Succ(0) = 1 /\ Succ(1) = 2 /\ Succ(2) = 0
  /\ Pred(0) = 2 /\ Pred(1) = 0 /\ Pred(2) = 1
  /\ \A p \in Party : Succ(p) \in Party /\ Pred(p) \in Party
  /\ \A p \in Party : Pred(Succ(p)) = p /\ Succ(Pred(p)) = p
  /\ \A p \in Party : p # Succ(p) /\ p # Pred(p) /\ Succ(p) # Pred(p)
BY DEF Succ, Pred, Party

\* What a party adds its successor takes off, so that the three differences
\* are shares of zero.
LEMMA DifferencesCancel ==
  ASSUME NEW a \in Elem, NEW b \in Elem, NEW c \in Elem
  PROVE  Plus(Plus(Minus(a, c), Minus(b, a)), Minus(c, b)) = Zero
<1> DEFINE x == Neg(a)
           y == Neg(b)
           z == Neg(c)
<1>1. /\ x \in Elem /\ y \in Elem /\ z \in Elem /\ Zero \in Elem
      /\ Plus(a, x) = Zero /\ Plus(b, y) = Zero /\ Plus(c, z) = Zero
  BY RingClosed, RingAdditive
<1> HIDE DEF x, y, z
<1>2. \A u, v, w \in Elem : Plus(Plus(u, v), w) = Plus(u, Plus(v, w))
  BY RingAdditive
<1>3. \A u, v \in Elem : Plus(u, v) = Plus(v, u) /\ Plus(u, v) \in Elem
  BY RingAdditive, RingClosed
<1>4. Plus(Plus(a, z), Plus(b, x)) = Plus(b, z)
  <2>1. Plus(Plus(a, z), Plus(b, x)) = Plus(Plus(z, a), Plus(x, b))
    BY <1>1, <1>3
  <2>2. Plus(Plus(z, a), Plus(x, b)) = Plus(z, Plus(a, Plus(x, b)))
    BY <1>1, <1>2, <1>3
  <2>3. Plus(a, Plus(x, b)) = Plus(Zero, b)
    BY <1>1, <1>2
  <2>4. Plus(Zero, b) = b
    BY <1>1, <1>3, RingAdditive
  <2> QED
    BY <2>1, <2>2, <2>3, <2>4, <1>1, <1>3
<1>5. Plus(Plus(b, z), Plus(c, y)) = Zero
  <2>1. Plus(Plus(b, z), Plus(c, y)) = Plus(b, Plus(z, Plus(c, y)))
    BY <1>1, <1>2, <1>3
  <2>2. Plus(z, Plus(c, y)) = Plus(Plus(z, c), y)
    BY <1>1, <1>2
  <2>3. Plus(Plus(z, c), y) = y
    BY <1>1, <1>3, RingAdditive
  <2> QED
    BY <2>1, <2>2, <2>3, <1>1
<1> QED
  BY <1>4, <1>5 DEF Minus, x, y, z

-----------------------------------------------------------------------------
(* A history of the run: what a party that gets to call k has done.        *)

AnySeed == Seed \cup {ZeroSeed}

\* Before a call: the exchanges done, the words drawn since the last of them,
\* and the zeros and pairs handed out.
Place == [x : Nat, off : Nat, z : Nat, y : Nat]

\* Where a word comes from: the number of the seed and the place in its stream.
Origin == [x : Nat, off : Nat]

\* at[k] is the place of call k, zero[n] and pair[n] the origins of the n-th
\* zero and pair -- the same for all parties -- and seed[p][x] the x-th seed p
\* generates.
History == [at : [Nat -> Place], zero : [Nat -> Origin], pair : [Nat -> Origin],
            seed : [Party -> [Nat -> AnySeed]]]

\* Call k leads from place at[k] to place at[k + 1].
Follows(H, k) ==
  LET a == H.at[k]
      b == H.at[k + 1]
      n == Calls[k].len
  IN  /\ Calls[k].op = "exchange" =>
           b = [x |-> a.x + 1, off |-> 0, z |-> a.z, y |-> a.y]
      /\ Calls[k].op = "next" =>
           /\ b = [x |-> a.x, off |-> a.off + n, z |-> a.z + n, y |-> a.y]
           /\ \A i \in 1 .. n :
                H.zero[a.z + i] = [x |-> a.x, off |-> a.off + (i - 1)]
      /\ Calls[k].op = "pair" =>
           /\ b = [x |-> a.x, off |-> a.off + n, z |-> a.z, y |-> a.y + n]
           /\ \A i \in 1 .. n :
                H.pair[a.y + i] = [x |-> a.x, off |-> a.off + (i - 1)]
      /\ Calls[k].op = "random" => b = a

-----------------------------------------------------------------------------
(* The invariant, given a history. *)

Here(H, p) == H.at[pc[p]]
Ahead(p) == IF sent[p] THEN 1 ELSE 0

Start(H) ==
  /\ H \in History
  /\ \A p \in Party : H.seed[p][0] = ZeroSeed

\* The history is settled for the calls that some party has made.
Settled(H) ==
  \A p \in Party :
    /\ \A k \in 1 .. pc[p] - 1 : Follows(H, k)
    /\ \A k \in 1 .. pc[p] : /\ H.at[k].x <= Here(H, p).x
                             /\ H.at[k].z <= Here(H, p).z
                             /\ H.at[k].y <= Here(H, p).y

SeedsHeld(H) ==
  \A p \in Party :
    /\ sent[p] => pc[p] \in 1 .. Last /\ Calls[pc[p]].op = "exchange"
    /\ seed_local[p] = H.seed[p][Here(H, p).x + Ahead(p)]
    /\ seed_remote[p] = H.seed[Pred(p)][Here(H, p).x]

GensHeld(H) ==
  \A p \in Party :
    LET a == Here(H, p)
    IN  gen[p] = [loc |-> [seed |-> H.seed[p][a.x], drawn |-> a.off],
                  rem |-> [seed |-> H.seed[Pred(p)][a.x], drawn |-> a.off]]

\* A test of random words is made before anything else.
OthersLater ==
  \A p \in Party :
    current[p] = "remote" => \E k \in 1 .. pc[p] - 1 : Calls[k].op # "random"

\* A seed in the mail is one that its sender has and its receiver has not.
MailHeld(H) ==
  \A p \in Party :
    LET q == Pred(p)
    IN  /\ Len(mail[p]) = (Here(H, q).x + Ahead(q)) - Here(H, p).x
        /\ \A i \in 1 .. Len(mail[p]) : mail[p][i] = H.seed[q][Here(H, p).x + i]

\* The word that party p has of an origin, in its own stream and in that of its
\* predecessor.
StreamOf(H, p, o) == [seed |-> H.seed[p][o.x], drawn |-> o.off]
Known(H, p, o) ==
  /\ o.x <= Here(H, p).x
  /\ H.seed[p][o.x] \in Seed /\ H.seed[Pred(p)][o.x] \in Seed

ZerosHeld(H) ==
  \A p \in Party :
    /\ Len(zeros[p]) = Here(H, p).z
    /\ \A n \in 1 .. Len(zeros[p]) :
         /\ Known(H, p, H.zero[n])
         /\ zeros[p][n] = NextR(StreamOf(H, p, H.zero[n]),
                                StreamOf(H, Pred(p), H.zero[n]))

PairsHeld(H) ==
  \A p \in Party :
    /\ Len(pairs[p]) = Here(H, p).y
    /\ \A n \in 1 .. Len(pairs[p]) :
         /\ Known(H, p, H.pair[n])
         /\ pairs[p][n] = [loc |-> Draw(StreamOf(H, p, H.pair[n])),
                           rem |-> Draw(StreamOf(H, Pred(p), H.pair[n]))]

HInv(H) ==
  /\ TypeOK /\ OthersLater
  /\ Start(H) /\ Settled(H) /\ SeedsHeld(H) /\ GensHeld(H) /\ MailHeld(H)
  /\ ZerosHeld(H) /\ PairsHeld(H)

Inv == \E H : HInv(H)

-----------------------------------------------------------------------------
(* Facts used in many places. *)

LEMMA CallFacts ==
  /\ Last \in Nat
  /\ \A k \in 1 .. Last : /\ Calls[k].op \in {"exchange", "next", "pair", "random"}
                          /\ Calls[k].len \in Nat \ {0}
                          /\ Calls[k].by \in SUBSET Party
<1>1. Last \in Nat
  BY CallsAssumption, LenProperties DEF Last
<1>2. \A k \in 1 .. Last : Calls[k] \in Call
  BY CallsAssumption, ElementOfSeq DEF Last
<1> QED BY <1>1, <1>2 DEF Call

LEMMA PlaceFacts ==
  ASSUME NEW H \in History
  PROVE  /\ \A k \in Nat : /\ H.at[k] \in Place
                           /\ H.at[k].x \in Nat /\ H.at[k].off \in Nat
                           /\ H.at[k].z \in Nat /\ H.at[k].y \in Nat
         /\ \A n \in Nat : /\ H.zero[n] \in Origin /\ H.pair[n] \in Origin
                           /\ H.zero[n].x \in Nat /\ H.zero[n].off \in Nat
                           /\ H.pair[n].x \in Nat /\ H.pair[n].off \in Nat
         /\ \A p \in Party : H.seed[p] \in [Nat -> AnySeed]
         /\ \A p \in Party : \A n \in Nat : H.seed[p][n] \in AnySeed
<1>1. /\ H.at \in [Nat -> Place]
      /\ H.zero \in [Nat -> Origin] /\ H.pair \in [Nat -> Origin]
      /\ H.seed \in [Party -> [Nat -> AnySeed]]
  BY DEF History
<1>2. /\ \A a \in Place : a.x \in Nat /\ a.off \in Nat /\ a.z \in Nat /\ a.y \in Nat
      /\ \A o \in Origin : o.x \in Nat /\ o.off \in Nat
  BY DEF Place, Origin
<1>3. \A p \in Party : H.seed[p] \in [Nat -> AnySeed]
  BY <1>1
<1>4. \A p \in Party : \A n \in Nat : H.seed[p][n] \in AnySeed
  BY <1>3
<1> QED BY <1>1, <1>2, <1>3, <1>4

LEMMA DrawType ==
  ASSUME NEW s \in Seed, NEW n \in Nat
  PROVE  Draw([seed |-> s, drawn |-> n]) \in Elem
<1>1. n % Period \in 0 .. Period - 1
  BY PRNGAssumption
<1>2. RandomTable[s][n % Period] \in Elem
  BY <1>1, PRNGAssumption
<1> QED BY <1>2 DEF Draw
-----------------------------------------------------------------------------
(* The parts of the invariant that every return keeps. *)

LEMMA InitHInv == Init => Inv
<1> SUFFICES ASSUME Init PROVE Inv
  OBVIOUS
<1> DEFINE a0 == [x |-> 0, off |-> 0, z |-> 0, y |-> 0]
           o0 == [x |-> 0, off |-> 0]
           H == [at |-> [k \in Nat |-> a0], zero |-> [n \in Nat |-> o0],
                 pair |-> [n \in Nat |-> o0],
                 seed |-> [p \in Party |-> [n \in Nat |-> ZeroSeed]]]
<1>1. Last + 1 \in Nat /\ 1 \in 1 .. Last + 1
  BY CallFacts
<1>2. TypeOK
  <2>1. [seed |-> ZeroSeed, drawn |-> 0] \in GenState
    BY DEF GenState
  <2>2. gen \in [Party -> [loc : GenState, rem : GenState]]
    BY <2>1 DEF Init, Stream
  <2> QED BY <1>1, <2>2 DEF Init, TypeOK
<1>3. H \in History
  BY DEF History, Place, Origin, AnySeed
<1>4. \A k \in Nat : H.at[k] = a0
  OBVIOUS
<1>5. \A p \in Party : \A n \in Nat : H.seed[p][n] = ZeroSeed
  OBVIOUS
<1> HIDE DEF H
<1>6. \A p \in Party : Pred(p) \in Party /\ pc[p] = 1 /\ Here(H, p) = a0 /\ Ahead(p) = 0
  BY <1>4, RingOfParties DEF Init, Here, Ahead
<1>7. Start(H) /\ OthersLater
  BY <1>3, <1>5 DEF Start, OthersLater, Init
<1>8. Settled(H)
  BY <1>4, <1>6 DEF Settled
<1>9. SeedsHeld(H)
  BY <1>5, <1>6 DEF SeedsHeld, Init
<1>10. GensHeld(H)
  BY <1>5, <1>6 DEF GensHeld, Init, Stream
<1>11. MailHeld(H)
  BY <1>6 DEF MailHeld, Init
<1>12. ZerosHeld(H) /\ PairsHeld(H)
  BY <1>6 DEF ZerosHeld, PairsHeld, Init
<1> QED BY <1>2, <1>3, <1>7, <1>8, <1>9, <1>10, <1>11, <1>12 DEF HInv, Inv

LEMMA StateFacts ==
  ASSUME NEW H, HInv(H), NEW p \in Party
  PROVE  /\ H \in History /\ Pred(p) \in Party /\ Succ(p) \in Party
         /\ pc[p] \in Nat /\ pc[p] >= 1 /\ pc[p] <= Last + 1
         /\ Here(H, p) \in Place
         /\ Here(H, p).x \in Nat /\ Here(H, p).off \in Nat
         /\ Here(H, p).z \in Nat /\ Here(H, p).y \in Nat
         /\ Ahead(p) \in 0 .. 1
<1>1. pc[p] \in 1 .. Last + 1 /\ Last \in Nat /\ H \in History
  BY CallFacts DEF HInv, TypeOK, Start
<1> QED BY <1>1, PlaceFacts, RingOfParties DEF Here, Ahead

\* Where a party is after it returns.
LEMMA Returned ==
  ASSUME NEW H, HInv(H), NEW p \in Party, pc[p] \in 1 .. Last, Return(p),
         Follows(H, pc[p])
  PROVE  /\ pc' \in [Party -> 1 .. Last + 1]
         /\ \A q \in Party \ {p} : pc'[q] = pc[q] /\ Here(H, q)' = Here(H, q)
         /\ pc'[p] = pc[p] + 1 /\ Here(H, p)' = H.at[pc[p] + 1]
         /\ Here(H, p).x <= H.at[pc[p] + 1].x
         /\ Here(H, p).z <= H.at[pc[p] + 1].z
         /\ Here(H, p).y <= H.at[pc[p] + 1].y
<1>1. /\ pc \in [Party -> 1 .. Last + 1] /\ Last \in Nat
      /\ H \in History /\ pc[p] \in Nat /\ pc[p] + 1 \in Nat
  BY CallFacts DEF HInv, TypeOK, Start
<1>2. /\ pc' \in [Party -> 1 .. Last + 1]
      /\ \A q \in Party \ {p} : pc'[q] = pc[q]
      /\ pc'[p] = pc[p] + 1
  BY <1>1 DEF Return
<1>3. /\ \A q \in Party \ {p} : Here(H, q)' = Here(H, q)
      /\ Here(H, p)' = H.at[pc[p] + 1]
  BY <1>2 DEF Here
<1>4. \A a, b \in Place, n \in Nat :
        \/ b = [x |-> a.x + 1, off |-> 0, z |-> a.z, y |-> a.y]
        \/ b = [x |-> a.x, off |-> a.off + n, z |-> a.z + n, y |-> a.y]
        \/ b = [x |-> a.x, off |-> a.off + n, z |-> a.z, y |-> a.y + n]
        \/ b = a
        => a.x <= b.x /\ a.z <= b.z /\ a.y <= b.y
  BY DEF Place
<1>5. H.at[pc[p]] \in Place /\ H.at[pc[p] + 1] \in Place /\ Calls[pc[p]].len \in Nat
  BY <1>1, PlaceFacts, CallFacts
<1>6. /\ Here(H, p).x <= H.at[pc[p] + 1].x
      /\ Here(H, p).z <= H.at[pc[p] + 1].z
      /\ Here(H, p).y <= H.at[pc[p] + 1].y
  BY <1>4, <1>5, CallFacts DEF Follows, Here
<1> QED BY <1>2, <1>3, <1>6

LEMMA SettledKept ==
  ASSUME NEW H, HInv(H), NEW p \in Party, pc[p] \in 1 .. Last, Return(p),
         Follows(H, pc[p])
  PROVE  Settled(H)'
<1> SUFFICES ASSUME NEW q \in Party
             PROVE  /\ \A k \in 1 .. pc'[q] - 1 : Follows(H, k)
                    /\ \A k \in 1 .. pc'[q] : /\ H.at[k].x <= Here(H, q)'.x
                                              /\ H.at[k].z <= Here(H, q)'.z
                                              /\ H.at[k].y <= Here(H, q)'.y
  BY DEF Settled, Follows
<1>1. /\ \A k \in 1 .. pc[q] - 1 : Follows(H, k)
      /\ \A k \in 1 .. pc[q] : /\ H.at[k].x <= Here(H, q).x
                               /\ H.at[k].z <= Here(H, q).z
                               /\ H.at[k].y <= Here(H, q).y
  BY DEF HInv, Settled
<1>2. CASE q # p
  BY <1>1, <1>2, Returned
<1>3. CASE q = p
  <2>1. /\ pc'[p] = pc[p] + 1 /\ Here(H, p)' = H.at[pc[p] + 1]
        /\ pc[p] \in Nat /\ H \in History
        /\ Here(H, p).x <= H.at[pc[p] + 1].x
        /\ Here(H, p).z <= H.at[pc[p] + 1].z
        /\ Here(H, p).y <= H.at[pc[p] + 1].y
    BY Returned, StateFacts
  <2>2. \A k \in 1 .. pc'[p] - 1 : k \in 1 .. pc[p] - 1 \/ k = pc[p]
    BY <2>1
  <2>3. \A k \in 1 .. pc'[p] : k \in Nat /\ (k \in 1 .. pc[p] \/ k = pc[p] + 1)
    BY <2>1
  <2>4. /\ \A k \in Nat : H.at[k].x \in Nat /\ H.at[k].z \in Nat /\ H.at[k].y \in Nat
        /\ Here(H, p).x \in Nat /\ Here(H, p).z \in Nat /\ Here(H, p).y \in Nat
    BY <2>1, PlaceFacts, StateFacts
  <2>5. \A k \in 1 .. pc'[p] - 1 : Follows(H, k)
    BY <1>1, <1>3, <2>2
  <2>6. ASSUME NEW k \in 1 .. pc'[p]
        PROVE  /\ H.at[k].x <= Here(H, p)'.x
               /\ H.at[k].z <= Here(H, p)'.z
               /\ H.at[k].y <= Here(H, p)'.y
    <3>1. CASE k = pc[p] + 1
      BY <3>1, <2>1, <2>4
    <3>2. CASE k \in 1 .. pc[p]
      BY <3>2, <1>1, <1>3, <2>1, <2>4, <2>3
    <3> QED BY <3>1, <3>2, <2>3
  <2> QED BY <1>3, <2>5, <2>6
<1> QED BY <1>2, <1>3

\* Calls that do not concern the seeds.
LEMMA SeedsKept ==
  ASSUME NEW H, HInv(H), NEW p \in Party, pc[p] \in 1 .. Last, Return(p),
         Follows(H, pc[p]), Calls[pc[p]].op # "exchange",
         UNCHANGED <<sent, seed_local, seed_remote, mail>>
  PROVE  SeedsHeld(H)' /\ MailHeld(H)'
<1>1. \A q \in Party : Here(H, q)'.x = Here(H, q).x /\ Ahead(q)' = Ahead(q)
  <2>1. Calls[pc[p]].op \in {"next", "pair", "random"}
    BY CallFacts
  <2>2. H.at[pc[p] + 1].x = Here(H, p).x
    BY <2>1 DEF Follows, Here
  <2> QED BY <2>2, Returned DEF Ahead
<1>2. ~sent[p]
  BY DEF HInv, SeedsHeld
<1>3. \A q \in Party : Pred(q) \in Party
  BY RingOfParties
<1>4. \A q \in Party : q # p => pc'[q] = pc[q]
  BY Returned
<1>5. SeedsHeld(H)
  BY DEF HInv
<1>6. SeedsHeld(H)'
  BY <1>1, <1>2, <1>3, <1>4, <1>5 DEF SeedsHeld
<1>7. MailHeld(H)
  BY DEF HInv
<1>8. MailHeld(H)'
  BY <1>1, <1>3, <1>7 DEF MailHeld
<1> QED BY <1>6, <1>8

LEMMA ZerosKept ==
  ASSUME NEW H, HInv(H), NEW p \in Party, pc[p] \in 1 .. Last, Return(p),
         Follows(H, pc[p]), zeros' = zeros, Calls[pc[p]].op # "next"
  PROVE  ZerosHeld(H)'
<1> SUFFICES ASSUME NEW q \in Party
             PROVE  /\ Len(zeros[q]) = Here(H, q)'.z
                    /\ \A n \in 1 .. Len(zeros[q]) :
                         /\ Known(H, q, H.zero[n])'
                         /\ zeros[q][n] = NextR(StreamOf(H, q, H.zero[n]),
                                                StreamOf(H, Pred(q), H.zero[n]))
  BY DEF ZerosHeld, StreamOf
<1>1. /\ Len(zeros[q]) = Here(H, q).z
      /\ \A n \in 1 .. Len(zeros[q]) :
           /\ Known(H, q, H.zero[n])
           /\ zeros[q][n] = NextR(StreamOf(H, q, H.zero[n]),
                                  StreamOf(H, Pred(q), H.zero[n]))
  BY DEF HInv, ZerosHeld
<1>2. Here(H, q)'.z = Here(H, q).z /\ Here(H, q).x <= Here(H, q)'.x
  <2>1. CASE q # p
    BY <2>1, Returned, StateFacts
  <2>2. CASE q = p
    <3>1. Calls[pc[p]].op \in {"exchange", "next", "pair", "random"} \ {"next"}
      BY CallFacts
    <3>2. H.at[pc[p] + 1].z = Here(H, p).z
      BY <3>1 DEF Follows, Here
    <3> QED BY <2>2, <3>2, Returned
  <2> QED BY <2>1, <2>2
<1>3. ASSUME NEW n \in 1 .. Len(zeros[q]) PROVE Known(H, q, H.zero[n])'
  <2>1. n \in Nat /\ H.zero[n].x \in Nat /\ Here(H, q).x \in Nat
        /\ H \in History /\ Here(H, q)'.x \in Nat
    <3>1. /\ Here(H, q).z \in Nat /\ H \in History /\ Here(H, q).x \in Nat
          /\ pc'[q] \in Nat
      BY StateFacts, Returned, CallFacts
    <3> QED BY <3>1, <1>1, PlaceFacts DEF Here
  <2>2. Known(H, q, H.zero[n])
    BY <1>1
  <2>3. H.zero[n].x <= Here(H, q)'.x
    BY <1>2, <2>1, <2>2 DEF Known
  <2> QED BY <2>2, <2>3 DEF Known
<1> QED BY <1>1, <1>2, <1>3

LEMMA PairsKept ==
  ASSUME NEW H, HInv(H), NEW p \in Party, pc[p] \in 1 .. Last, Return(p),
         Follows(H, pc[p]), pairs' = pairs, Calls[pc[p]].op # "pair"
  PROVE  PairsHeld(H)'
<1> SUFFICES ASSUME NEW q \in Party
             PROVE  /\ Len(pairs[q]) = Here(H, q)'.y
                    /\ \A n \in 1 .. Len(pairs[q]) :
                         /\ Known(H, q, H.pair[n])'
                         /\ pairs[q][n] = [loc |-> Draw(StreamOf(H, q, H.pair[n])),
                                 rem |-> Draw(StreamOf(H, Pred(q), H.pair[n]))]
  BY DEF PairsHeld, StreamOf
<1>1. /\ Len(pairs[q]) = Here(H, q).y
      /\ \A n \in 1 .. Len(pairs[q]) :
           /\ Known(H, q, H.pair[n])
           /\ pairs[q][n] = [loc |-> Draw(StreamOf(H, q, H.pair[n])),
                                 rem |-> Draw(StreamOf(H, Pred(q), H.pair[n]))]
  BY DEF HInv, PairsHeld
<1>2. Here(H, q)'.y = Here(H, q).y /\ Here(H, q).x <= Here(H, q)'.x
  <2>1. CASE q # p
    BY <2>1, Returned, StateFacts
  <2>2. CASE q = p
    <3>1. Calls[pc[p]].op \in {"exchange", "next", "pair", "random"} \ {"pair"}
      BY CallFacts
    <3>2. H.at[pc[p] + 1].y = Here(H, p).y
      BY <3>1 DEF Follows, Here
    <3> QED BY <2>2, <3>2, Returned
  <2> QED BY <2>1, <2>2
<1>3. ASSUME NEW n \in 1 .. Len(pairs[q]) PROVE Known(H, q, H.pair[n])'
  <2>1. n \in Nat /\ H.pair[n].x \in Nat /\ Here(H, q).x \in Nat
        /\ H \in History /\ Here(H, q)'.x \in Nat
    <3>1. /\ Here(H, q).y \in Nat /\ H \in History /\ Here(H, q).x \in Nat
          /\ pc'[q] \in Nat
      BY StateFacts, Returned, CallFacts
    <3> QED BY <3>1, <1>1, PlaceFacts DEF Here
  <2>2. Known(H, q, H.pair[n])
    BY <1>1
  <2>3. H.pair[n].x <= Here(H, q)'.x
    BY <1>2, <2>1, <2>2 DEF Known
  <2> QED BY <2>2, <2>3 DEF Known
<1> QED BY <1>1, <1>2, <1>3

\* The generator of others: a party draws after its first exchange only.
LEMMA OthersKept ==
  ASSUME NEW H, HInv(H), NEW p \in Party, pc[p] \in 1 .. Last, Return(p),
         Follows(H, pc[p]),
         current' = current \/ Calls[pc[p]].op # "random",
         \A q \in Party \ {p} : current'[q] = current[q]
  PROVE  OthersLater'
<1> SUFFICES ASSUME NEW q \in Party, current'[q] = "remote"
             PROVE  \E k \in 1 .. pc'[q] - 1 : Calls[k].op # "random"
  BY DEF OthersLater
<1>1. current[q] = "remote" => \E k \in 1 .. pc[q] - 1 : Calls[k].op # "random"
  BY DEF HInv, OthersLater
<1>2. CASE q # p
  BY <1>1, <1>2, Returned
<1>3. CASE q = p
  <2>1. pc'[p] = pc[p] + 1 /\ pc[p] \in Nat /\ pc[p] >= 1
    BY Returned, StateFacts
  <2>2. pc[p] \in 1 .. pc'[p] - 1 /\ \A k \in 1 .. pc[p] - 1 : k \in 1 .. pc'[p] - 1
    BY <2>1
  <2> QED BY <1>1, <1>3, <2>2
<1> QED BY <1>2, <1>3

-----------------------------------------------------------------------------
(* The history grows when the first party makes a call. *)

\* The place after call k when the place before it is a.
After(k, a) ==
  [x |-> IF Calls[k].op = "exchange" THEN a.x + 1 ELSE a.x,
   off |-> IF Calls[k].op = "exchange" THEN 0
           ELSE IF Calls[k].op = "random" THEN a.off ELSE a.off + Calls[k].len,
   z |-> IF Calls[k].op = "next" THEN a.z + Calls[k].len ELSE a.z,
   y |-> IF Calls[k].op = "pair" THEN a.y + Calls[k].len ELSE a.y]

\* The history with call k, and the words it draws, added.
WithCall(H, k) ==
  LET a == H.at[k]
      word(n) == [x |-> a.x, off |-> a.off + (n - 1)]
  IN  [at   |-> [j \in Nat |-> IF j = k + 1 THEN After(k, a) ELSE H.at[j]],
       zero |-> [n \in Nat |-> IF n > a.z THEN word(n - a.z) ELSE H.zero[n]],
       pair |-> [n \in Nat |-> IF n > a.y THEN word(n - a.y) ELSE H.pair[n]],
       seed |-> H.seed]

LEMMA WithCallFacts ==
  ASSUME NEW H \in History, NEW k \in 1 .. Last
  PROVE  /\ WithCall(H, k) \in History
         /\ WithCall(H, k).seed = H.seed
         /\ \A j \in 1 .. k : WithCall(H, k).at[j] = H.at[j]
         /\ \A n \in 0 .. H.at[k].z : WithCall(H, k).zero[n] = H.zero[n]
         /\ \A n \in 0 .. H.at[k].y : WithCall(H, k).pair[n] = H.pair[n]
         /\ Follows(WithCall(H, k), k)
<1> DEFINE a == H.at[k]
           G == WithCall(H, k)
<1>1. /\ a \in Place /\ a.x \in Nat /\ a.off \in Nat /\ a.z \in Nat /\ a.y \in Nat
      /\ k \in Nat /\ k + 1 \in Nat /\ k # k + 1
      /\ Calls[k].len \in Nat
      /\ Calls[k].op \in {"exchange", "next", "pair", "random"}
  BY CallFacts, PlaceFacts
<1>2. After(k, a) \in Place
  BY <1>1 DEF After, Place
<1>3. G.at = [j \in Nat |-> IF j = k + 1 THEN After(k, a) ELSE H.at[j]]
  BY DEF WithCall
<1>4. G.zero = [n \in Nat |-> IF n > a.z THEN [x |-> a.x, off |-> a.off + (n - a.z - 1)]
                             ELSE H.zero[n]]
  BY DEF WithCall
<1>5. G.pair = [n \in Nat |-> IF n > a.y THEN [x |-> a.x, off |-> a.off + (n - a.y - 1)]
                             ELSE H.pair[n]]
  BY DEF WithCall
<1>6. G.seed = H.seed /\ G = [at |-> G.at, zero |-> G.zero, pair |-> G.pair, seed |-> G.seed]
  BY DEF WithCall
<1> HIDE DEF a, G
<1>7. G.at \in [Nat -> Place]
  BY <1>2, <1>3, PlaceFacts
<1>8. G.zero \in [Nat -> Origin]
  BY <1>1, <1>4, PlaceFacts DEF Origin
<1>9. G.pair \in [Nat -> Origin]
  BY <1>1, <1>5, PlaceFacts DEF Origin
<1>10. G \in History
  BY <1>6, <1>7, <1>8, <1>9 DEF History
<1>11. \A j \in 1 .. k : G.at[j] = H.at[j]
  BY <1>1, <1>3
<1>12. \A n \in 0 .. a.z : G.zero[n] = H.zero[n]
  BY <1>1, <1>4
<1>13. \A n \in 0 .. a.y : G.pair[n] = H.pair[n]
  BY <1>1, <1>5
<1>14. G.at[k] = a /\ G.at[k + 1] = After(k, a)
  BY <1>1, <1>3, <1>11 DEF a
<1>15. \A i \in 1 .. Calls[k].len :
         /\ G.zero[a.z + i] = [x |-> a.x, off |-> a.off + (i - 1)]
         /\ G.pair[a.y + i] = [x |-> a.x, off |-> a.off + (i - 1)]
  <2> TAKE i \in 1 .. Calls[k].len
  <2>1. /\ a.z + i \in Nat /\ a.z + i > a.z /\ a.z + i - a.z - 1 = i - 1
        /\ a.y + i \in Nat /\ a.y + i > a.y /\ a.y + i - a.y - 1 = i - 1
    BY <1>1
  <2>2. /\ \A n \in Nat : n > a.z =>
             G.zero[n] = [x |-> a.x, off |-> a.off + (n - a.z - 1)]
        /\ \A n \in Nat : n > a.y =>
             G.pair[n] = [x |-> a.x, off |-> a.off + (n - a.y - 1)]
    BY <1>4, <1>5
  <2>3. PICK m \in Nat, n \in Nat : m = a.z + i /\ n = a.y + i
    BY <2>1
  <2>4. m > a.z /\ m - a.z - 1 = i - 1 /\ n > a.y /\ n - a.y - 1 = i - 1
    BY <1>1, <2>1, <2>3
  <2>5. /\ G.zero[m] = [x |-> a.x, off |-> a.off + (m - a.z - 1)]
        /\ G.pair[n] = [x |-> a.x, off |-> a.off + (n - a.y - 1)]
    BY <2>2, <2>4
  <2> QED BY <2>3, <2>4, <2>5
<1>16. Follows(G, k)
  <2>1. Calls[k].op = "random" => After(k, a) = a
    BY <1>1 DEF After, Place
  <2> QED BY <1>1, <1>14, <1>15, <2>1 DEF Follows, After
<1> QED BY <1>6, <1>10, <1>11, <1>12, <1>13, <1>16 DEF a, G

\* What a party at call j holds does not depend on what comes after it.
LEMMA HistoryGrows ==
  ASSUME NEW H, HInv(H), NEW p \in Party, pc[p] \in 1 .. Last
  PROVE  \E G : HInv(G) /\ Follows(G, pc[p])
<1>1. CASE \E q \in Party : pc[q] > pc[p]
  <2>1. PICK q \in Party : pc[q] > pc[p]
    BY <1>1
  <2>2. pc[p] \in 1 .. pc[q] - 1
    BY <2>1, StateFacts
  <2> QED BY <2>2 DEF HInv, Settled
<1>2. CASE \A q \in Party : ~(pc[q] > pc[p])
  <2> DEFINE G == WithCall(H, pc[p])
  <2>0. H \in History /\ \A q \in Party : Pred(q) \in Party
    BY StateFacts, RingOfParties
  <2>1. /\ G \in History /\ G.seed = H.seed
        /\ \A j \in 1 .. pc[p] : G.at[j] = H.at[j]
        /\ \A n \in 0 .. Here(H, p).z : G.zero[n] = H.zero[n]
        /\ \A n \in 0 .. Here(H, p).y : G.pair[n] = H.pair[n]
        /\ Follows(G, pc[p])
    BY <2>0, WithCallFacts DEF Here
  <2> HIDE DEF G
  <2>2. ASSUME NEW q \in Party
        PROVE  /\ pc[q] \in 1 .. pc[p] /\ pc[q] \in Nat
               /\ Here(G, q) = Here(H, q)
               /\ Here(H, q).z <= Here(H, p).z /\ Here(H, q).y <= Here(H, p).y
    <3>1. pc[q] \in 1 .. pc[p] /\ pc[q] \in Nat
      BY <1>2, StateFacts
    <3>2. Here(G, q) = Here(H, q)
      BY <2>1, <3>1 DEF Here
    <3>3. Here(H, q).z <= Here(H, p).z /\ Here(H, q).y <= Here(H, p).y
      BY <3>1 DEF HInv, Settled, Here
    <3> QED BY <3>1, <3>2, <3>3
  <2>3. Start(G)
    BY <2>1 DEF HInv, Start
  <2>4. Settled(G)
    <3> SUFFICES ASSUME NEW q \in Party
                 PROVE  /\ \A k \in 1 .. pc[q] - 1 : Follows(G, k)
                        /\ \A k \in 1 .. pc[q] : /\ G.at[k].x <= Here(G, q).x
                                                 /\ G.at[k].z <= Here(G, q).z
                                                 /\ G.at[k].y <= Here(G, q).y
      BY DEF Settled
    <3>1. \A k \in 1 .. pc[q] : /\ H.at[k].x <= Here(H, q).x
                                /\ H.at[k].z <= Here(H, q).z
                                /\ H.at[k].y <= Here(H, q).y
      BY DEF HInv, Settled
    <3>2. \A k \in 1 .. pc[q] : k \in 1 .. pc[p]
      BY <2>2, StateFacts
    <3>3. ASSUME NEW k \in 1 .. pc[q] - 1 PROVE Follows(G, k)
      <4>1. Follows(H, k)
        BY DEF HInv, Settled
      <4>2. /\ k \in 1 .. Last /\ k \in 1 .. pc[p] /\ k + 1 \in 1 .. pc[q]
            /\ k + 1 \in 1 .. pc[p] /\ k \in Nat /\ k + 1 \in Nat
        BY <2>2, StateFacts, CallFacts
      <4>3. G.at[k] = H.at[k] /\ G.at[k + 1] = H.at[k + 1]
        BY <4>2, <2>1
      <4>4. H.at[k + 1].z <= Here(H, p).z /\ H.at[k + 1].y <= Here(H, p).y
        BY <4>2 DEF HInv, Settled
      <4>5. /\ H.at[k].z \in Nat /\ H.at[k].y \in Nat
            /\ Here(H, p).z \in Nat /\ Here(H, p).y \in Nat
            /\ Calls[k].len \in Nat
        BY <2>0, <4>2, PlaceFacts, StateFacts, CallFacts
      <4>6. ASSUME Calls[k].op = "next", NEW i \in 1 .. Calls[k].len
            PROVE  G.zero[H.at[k].z + i] = H.zero[H.at[k].z + i]
        <5>1. H.at[k + 1].z = H.at[k].z + Calls[k].len
          BY <4>1, <4>6 DEF Follows
        <5>2. H.at[k].z + i \in 0 .. Here(H, p).z
          BY <5>1, <4>4, <4>5
        <5> QED BY <5>2, <2>1
      <4>7. ASSUME Calls[k].op = "pair", NEW i \in 1 .. Calls[k].len
            PROVE  G.pair[H.at[k].y + i] = H.pair[H.at[k].y + i]
        <5>1. H.at[k + 1].y = H.at[k].y + Calls[k].len
          BY <4>1, <4>7 DEF Follows
        <5>2. H.at[k].y + i \in 0 .. Here(H, p).y
          BY <5>1, <4>4, <4>5
        <5> QED BY <5>2, <2>1
      <4> QED BY <4>1, <4>3, <4>6, <4>7 DEF Follows
    <3> QED BY <2>1, <2>2, <3>1, <3>2, <3>3
  <2>5. SeedsHeld(G) /\ GensHeld(G) /\ MailHeld(G)
    BY <2>0, <2>1, <2>2 DEF HInv, SeedsHeld, GensHeld, MailHeld
  <2>6. ZerosHeld(G)
    <3> SUFFICES ASSUME NEW q \in Party
                 PROVE  /\ Len(zeros[q]) = Here(G, q).z
                        /\ \A n \in 1 .. Len(zeros[q]) :
                             /\ Known(G, q, G.zero[n])
                             /\ zeros[q][n] = NextR(StreamOf(G, q, G.zero[n]),
                                                    StreamOf(G, Pred(q), G.zero[n]))
      BY DEF ZerosHeld
    <3>1. /\ Len(zeros[q]) = Here(H, q).z
          /\ \A n \in 1 .. Len(zeros[q]) :
               /\ Known(H, q, H.zero[n])
               /\ zeros[q][n] = NextR(StreamOf(H, q, H.zero[n]),
                                      StreamOf(H, Pred(q), H.zero[n]))
      BY DEF HInv, ZerosHeld
    <3>2. \A n \in 1 .. Len(zeros[q]) : G.zero[n] = H.zero[n]
      <4>1. \A n \in 1 .. Len(zeros[q]) : n \in 0 .. Here(H, p).z
        BY <2>2, <3>1, StateFacts
      <4> QED BY <4>1, <2>1
    <3> QED BY <2>1, <2>2, <3>1, <3>2 DEF Known, StreamOf
  <2>7. PairsHeld(G)
    <3> SUFFICES ASSUME NEW q \in Party
                 PROVE  /\ Len(pairs[q]) = Here(G, q).y
                        /\ \A n \in 1 .. Len(pairs[q]) :
                             /\ Known(G, q, G.pair[n])
                             /\ pairs[q][n] = [loc |-> Draw(StreamOf(G, q, G.pair[n])),
                                               rem |-> Draw(StreamOf(G, Pred(q), G.pair[n]))]
      BY DEF PairsHeld
    <3>1. /\ Len(pairs[q]) = Here(H, q).y
          /\ \A n \in 1 .. Len(pairs[q]) :
               /\ Known(H, q, H.pair[n])
               /\ pairs[q][n] = [loc |-> Draw(StreamOf(H, q, H.pair[n])),
                                 rem |-> Draw(StreamOf(H, Pred(q), H.pair[n]))]
      BY DEF HInv, PairsHeld
    <3>2. \A n \in 1 .. Len(pairs[q]) : G.pair[n] = H.pair[n]
      <4>1. \A n \in 1 .. Len(pairs[q]) : n \in 0 .. Here(H, p).y
        BY <2>2, <3>1, StateFacts
      <4> QED BY <4>1, <2>1
    <3> QED BY <2>1, <2>2, <3>1, <3>2 DEF Known, StreamOf
  <2>8. TypeOK /\ OthersLater
    BY DEF HInv
  <2> QED BY <2>1, <2>3, <2>4, <2>5, <2>6, <2>7, <2>8 DEF HInv
<1> QED BY <1>1, <1>2

-----------------------------------------------------------------------------
(* One lemma per action. *)

LEMMA SendSeedStep ==
  ASSUME NEW H, HInv(H), NEW p \in Party, SendSeed(p)
  PROVE  Inv'
<1>1. PICK s \in AnySeed :
        /\ seed_local' = [seed_local EXCEPT ![p] = s]
        /\ mail' = [mail EXCEPT ![Succ(p)] = Append(@, s)]
  BY DEF SendSeed, AnySeed
<1>2. /\ H \in History /\ Here(H, p).x \in Nat
      /\ \A q \in Party : /\ Pred(q) \in Party /\ Succ(q) \in Party
                           /\ Succ(Pred(q)) = q /\ Pred(Succ(q)) = q
      /\ ~sent[p] /\ pc[p] \in 1 .. Last /\ Calls[pc[p]].op = "exchange"
      /\ sent' = [sent EXCEPT ![p] = TRUE]
      /\ UNCHANGED <<pc, seed_remote, gen, current, zeros, pairs, exited>>
  BY StateFacts, RingOfParties DEF SendSeed, At
<1>3. PICK x, G :
        /\ x \in Nat /\ x = Here(H, p).x
        /\ G = [at |-> H.at, zero |-> H.zero, pair |-> H.pair,
                seed |-> [q \in Party |-> [n \in Nat |->
                            IF q = p /\ n = x + 1 THEN s ELSE H.seed[q][n]]]]
  BY <1>2
<1>4. /\ G.at = H.at /\ G.zero = H.zero /\ G.pair = H.pair
      /\ G.seed = [q \in Party |-> [n \in Nat |->
                     IF q = p /\ n = x + 1 THEN s ELSE H.seed[q][n]]]
      /\ G = [at |-> H.at, zero |-> H.zero, pair |-> H.pair, seed |-> G.seed]
      /\ x + 1 \in Nat /\ x = Here(H, p).x
  BY <1>3
<1>5. G \in History
  <2>1. G.seed \in [Party -> [Nat -> AnySeed]]
    BY <1>2, <1>4, PlaceFacts
  <2>2. H.at \in [Nat -> Place] /\ H.zero \in [Nat -> Origin] /\ H.pair \in [Nat -> Origin]
    BY <1>2 DEF History
  <2> QED BY <1>4, <2>1, <2>2 DEF History
<1>6. \A q \in Party : /\ pc'[q] = pc[q] /\ Here(G, q)' = Here(H, q)
                       /\ Here(H, q)' = Here(H, q) /\ Here(G, q) = Here(H, q)
                       /\ Ahead(q)' = IF q = p THEN 1 ELSE Ahead(q)
  BY <1>2, <1>4 DEF Here, Ahead, HInv, TypeOK
<1>7. Ahead(p) = 0
  BY <1>2 DEF Ahead
\* Nobody else has got as far as the new seed.
<1>8. ASSUME NEW q \in Party, Pred(q) = p
      PROVE  Here(H, q).x <= x /\ Here(H, q).x \in Nat
  <2>1. Len(mail[q]) = (x + Ahead(p)) - Here(H, q).x
    BY <1>4, <1>8 DEF HInv, MailHeld
  <2>2. Len(mail[q]) \in Nat
    BY LenProperties DEF HInv, TypeOK
  <2> QED BY <1>2, <1>4, <1>7, <2>1, <2>2, StateFacts
<1>9. ASSUME NEW q \in Party, NEW n \in Nat, q = p => n <= x
      PROVE  G.seed[q][n] = H.seed[q][n]
  BY <1>2, <1>4, <1>9
<1>10. Start(G)'
  BY <1>2, <1>4, <1>5, <1>9 DEF HInv, Start
<1>11. Settled(G)'
  <2>1. \A k : Follows(G, k) <=> Follows(H, k)
    BY <1>4 DEF Follows
  <2>2. \A q \in Party :
          /\ \A k \in 1 .. pc[q] - 1 : Follows(G, k)
          /\ \A k \in 1 .. pc[q] : /\ G.at[k].x <= Here(H, q).x
                                   /\ G.at[k].z <= Here(H, q).z
                                   /\ G.at[k].y <= Here(H, q).y
    BY <1>4, <2>1 DEF HInv, Settled
  <2> QED BY <1>6, <2>2 DEF Settled, Follows
<1>12. SeedsHeld(G)'
  <2> SUFFICES ASSUME NEW q \in Party
               PROVE  /\ sent'[q] => pc[q] \in 1 .. Last /\ Calls[pc[q]].op = "exchange"
                      /\ seed_local'[q] = G.seed[q][Here(H, q).x + Ahead(q)']
                      /\ seed_remote[q] = G.seed[Pred(q)][Here(H, q).x]
    BY <1>2, <1>6 DEF SeedsHeld
  <2>1. /\ sent[q] => pc[q] \in 1 .. Last /\ Calls[pc[q]].op = "exchange"
        /\ seed_local[q] = H.seed[q][Here(H, q).x + Ahead(q)]
        /\ seed_remote[q] = H.seed[Pred(q)][Here(H, q).x]
    BY DEF HInv, SeedsHeld
  <2>2. sent'[q] => pc[q] \in 1 .. Last /\ Calls[pc[q]].op = "exchange"
    BY <1>2, <2>1 DEF HInv, TypeOK
  <2>3. seed_local'[q] = G.seed[q][Here(H, q).x + Ahead(q)']
    <3>1. CASE q = p
      BY <1>1, <1>2, <1>4, <1>6, <1>7, <3>1 DEF HInv, TypeOK
    <3>2. CASE q # p
      <4>1. seed_local'[q] = seed_local[q]
        BY <1>1, <3>2 DEF HInv, TypeOK
      <4>2. Here(H, q).x + Ahead(q) \in Nat
        BY StateFacts
      <4> QED BY <2>1, <4>1, <4>2, <3>2, <1>6, <1>9
    <3> QED BY <3>1, <3>2
  <2>4. seed_remote[q] = G.seed[Pred(q)][Here(H, q).x]
    BY <1>2, <1>4, <1>8, <1>9, <2>1, StateFacts
  <2> QED BY <2>2, <2>3, <2>4
<1>13. ASSUME NEW q \in Party
       PROVE  /\ G.seed[q][Here(H, q).x] = H.seed[q][Here(H, q).x]
              /\ G.seed[Pred(q)][Here(H, q).x] = H.seed[Pred(q)][Here(H, q).x]
  BY <1>2, <1>4, <1>8, <1>9, StateFacts
<1>14. GensHeld(G)'
  BY <1>2, <1>6, <1>13 DEF HInv, GensHeld
<1>15. MailHeld(G)'
  <2> SUFFICES ASSUME NEW q \in Party
               PROVE  /\ Len(mail'[q]) = (Here(H, Pred(q)).x + Ahead(Pred(q))') - Here(H, q).x
                      /\ \A i \in 1 .. Len(mail'[q]) :
                           mail'[q][i] = G.seed[Pred(q)][Here(H, q).x + i]
    BY <1>2, <1>6 DEF MailHeld
  <2>1. /\ Len(mail[q]) = (Here(H, Pred(q)).x + Ahead(Pred(q))) - Here(H, q).x
        /\ \A i \in 1 .. Len(mail[q]) : mail[q][i] = H.seed[Pred(q)][Here(H, q).x + i]
    BY DEF HInv, MailHeld
  <2>2. mail[q] \in Seq(AnySeed) /\ Len(mail[q]) \in Nat
    BY LenProperties DEF HInv, TypeOK, AnySeed
  <2>3. Here(H, q).x \in Nat /\ Here(H, Pred(q)).x \in Nat
    BY <1>2, StateFacts
  <2>4. CASE Pred(q) # p
    <3>1. q # Succ(p)
      BY <1>2, <2>4
    <3>2. mail'[q] = mail[q]
      BY <1>1, <3>1 DEF HInv, TypeOK
    <3>3. \A i \in 1 .. Len(mail[q]) : Here(H, q).x + i \in Nat
      BY <2>3
    <3>4. Ahead(Pred(q))' = Ahead(Pred(q))
      BY <1>2, <2>4 DEF Ahead, HInv, TypeOK
    <3> QED BY <1>2, <1>9, <2>1, <2>4, <3>2, <3>3, <3>4
  <2>5. CASE Pred(q) = p
    <3>1. q = Succ(p)
      BY <1>2, <2>5
    <3>2. mail'[q] = Append(mail[q], s)
      BY <1>1, <3>1 DEF HInv, TypeOK
    <3>3. /\ Len(mail'[q]) = Len(mail[q]) + 1
          /\ \A i \in 1 .. Len(mail[q]) : mail'[q][i] = mail[q][i]
          /\ mail'[q][Len(mail[q]) + 1] = s
      BY <2>2, <3>2
    <3>4. Len(mail[q]) = x - Here(H, q).x /\ Len(mail'[q]) = (x + 1) - Here(H, q).x
      BY <1>2, <1>4, <1>7, <2>1, <2>3, <2>5, <3>3
    <3>5. ASSUME NEW i \in 1 .. Len(mail[q])
          PROVE  mail'[q][i] = G.seed[p][Here(H, q).x + i]
      <4>1. Here(H, q).x + i \in Nat /\ Here(H, q).x + i <= x
        BY <1>2, <1>4, <2>3, <3>4
      <4> QED BY <1>9, <2>1, <2>5, <3>3, <4>1
    <3>6. mail'[q][Len(mail'[q])] = G.seed[p][Here(H, q).x + Len(mail'[q])]
      <4>1. Here(H, q).x + Len(mail'[q]) = x + 1
        BY <1>2, <1>4, <2>3, <3>4
      <4> QED BY <1>2, <1>4, <3>3, <4>1
    <3>7. \A i \in 1 .. Len(mail'[q]) : i \in 1 .. Len(mail[q]) \/ i = Len(mail'[q])
      BY <2>2, <3>3
    <3>8. Ahead(Pred(q))' = 1
      BY <1>2, <2>5 DEF Ahead, HInv, TypeOK
    <3> QED BY <1>4, <2>5, <3>4, <3>5, <3>6, <3>7, <3>8
  <2> QED BY <2>4, <2>5
<1>16. ASSUME NEW q \in Party, NEW o \in Origin, Known(H, q, o)
       PROVE  /\ Known(G, q, o)'
              /\ StreamOf(G, q, o) = StreamOf(H, q, o)
              /\ StreamOf(G, Pred(q), o) = StreamOf(H, Pred(q), o)
  <2>1. o.x \in Nat /\ o.x <= Here(H, q).x /\ Here(H, q).x \in Nat
    BY <1>16, StateFacts DEF Known, Origin
  <2>2. G.seed[q][o.x] = H.seed[q][o.x] /\ G.seed[Pred(q)][o.x] = H.seed[Pred(q)][o.x]
    BY <1>2, <1>4, <1>8, <1>9, <2>1
  <2> QED BY <1>6, <1>16, <2>2 DEF Known, StreamOf
<1>17. \A n \in Nat : H.zero[n] \in Origin /\ H.pair[n] \in Origin
  BY <1>2, PlaceFacts
<1>18. \A q \in Party : /\ \A n \in 1 .. Len(zeros[q]) : n \in Nat
                        /\ \A n \in 1 .. Len(pairs[q]) : n \in Nat
  BY LenProperties DEF HInv, TypeOK
<1>19. ZerosHeld(G)'
  <2> SUFFICES ASSUME NEW q \in Party
               PROVE  /\ Len(zeros[q]) = Here(H, q).z
                      /\ \A n \in 1 .. Len(zeros[q]) :
                           /\ Known(G, q, G.zero[n])'
                           /\ zeros[q][n] = NextR(StreamOf(G, q, G.zero[n]),
                                                  StreamOf(G, Pred(q), G.zero[n]))
    BY <1>2, <1>4, <1>6 DEF ZerosHeld, StreamOf
  <2> QED BY <1>4, <1>16, <1>17, <1>18 DEF HInv, ZerosHeld
<1>20. PairsHeld(G)'
  <2> SUFFICES ASSUME NEW q \in Party
               PROVE  /\ Len(pairs[q]) = Here(H, q).y
                      /\ \A n \in 1 .. Len(pairs[q]) :
                           /\ Known(G, q, G.pair[n])'
                           /\ pairs[q][n] = [loc |-> Draw(StreamOf(G, q, G.pair[n])),
                                             rem |-> Draw(StreamOf(G, Pred(q), G.pair[n]))]
    BY <1>2, <1>4, <1>6 DEF PairsHeld, StreamOf
  <2>1. /\ Len(pairs[q]) = Here(H, q).y
        /\ \A n \in 1 .. Len(pairs[q]) :
             /\ G.pair[n] \in Origin /\ Known(H, q, G.pair[n])
             /\ pairs[q][n] = [loc |-> Draw(StreamOf(H, q, G.pair[n])),
                               rem |-> Draw(StreamOf(H, Pred(q), G.pair[n]))]
    BY <1>4, <1>17, <1>18 DEF HInv, PairsHeld
  <2> QED BY <1>16, <2>1
<1>21. TypeOK'
  <2>1. seed_local' \in [Party -> Seed \cup {ZeroSeed}]
    BY <1>1 DEF HInv, TypeOK, AnySeed
  <2>2. mail' \in [Party -> Seq(Seed \cup {ZeroSeed})]
    <3>1. Append(mail[Succ(p)], s) \in Seq(Seed \cup {ZeroSeed})
      BY <1>2 DEF HInv, TypeOK, AnySeed
    <3> QED BY <1>1, <3>1 DEF HInv, TypeOK
  <2> QED BY <1>2, <2>1, <2>2 DEF HInv, TypeOK
<1>22. OthersLater'
  BY <1>2 DEF HInv, OthersLater
<1> QED BY <1>10, <1>11, <1>12, <1>14, <1>15, <1>19, <1>20, <1>21, <1>22 DEF HInv, Inv

LEMMA RecvSeedStep ==
  ASSUME NEW H, HInv(H), NEW p \in Party, RecvSeed(p), Follows(H, pc[p])
  PROVE  HInv(H)'
<1>1. /\ pc[p] \in 1 .. Last /\ Calls[pc[p]].op = "exchange" /\ sent[p]
      /\ mail[p] # <<>> /\ Return(p)
      /\ seed_remote' = [seed_remote EXCEPT ![p] = Head(mail[p])]
      /\ mail' = [mail EXCEPT ![p] = Tail(@)]
      /\ gen' = [gen EXCEPT ![p] = [loc |-> Stream(seed_local[p]),
                                    rem |-> Stream(Head(mail[p]))]]
      /\ current' = [current EXCEPT ![p] = "remote"]
      /\ sent' = [sent EXCEPT ![p] = FALSE]
      /\ UNCHANGED <<seed_local, zeros, pairs, exited>>
  BY DEF RecvSeed, At
<1>2. TypeOK /\ SeedsHeld(H) /\ GensHeld(H) /\ MailHeld(H) /\ Start(H) /\ OthersLater
  BY DEF HInv
<1>3. /\ H \in History
      /\ \A q \in Party : /\ Pred(q) \in Party /\ Succ(q) \in Party /\ Pred(q) # q
                           /\ Here(H, q).x \in Nat /\ Here(H, q).off \in Nat
                           /\ Ahead(q) \in 0 .. 1
  BY StateFacts, RingOfParties
<1>4. /\ \A q \in Party \ {p} : /\ pc'[q] = pc[q] /\ Here(H, q)' = Here(H, q)
                                /\ Ahead(q)' = Ahead(q) /\ sent'[q] = sent[q]
      /\ Here(H, p)'.x = Here(H, p).x + 1 /\ Here(H, p)'.off = 0
      /\ Ahead(p) = 1 /\ Ahead(p)' = 0 /\ ~sent'[p]
  <2>1. H.at[pc[p] + 1].x = Here(H, p).x + 1 /\ H.at[pc[p] + 1].off = 0
    BY <1>1 DEF Follows, Here
  <2>2. \A q \in Party : sent'[q] = IF q = p THEN FALSE ELSE sent[q]
    BY <1>1, <1>2 DEF TypeOK
  <2>3. \A q \in Party \ {p} : Ahead(q)' = Ahead(q) /\ sent'[q] = sent[q]
    BY <2>2 DEF Ahead
  <2>4. Ahead(p) = 1 /\ Ahead(p)' = 0 /\ ~sent'[p]
    BY <1>1, <2>2 DEF Ahead
  <2>5. /\ \A q \in Party \ {p} : pc'[q] = pc[q] /\ Here(H, q)' = Here(H, q)
        /\ Here(H, p)' = H.at[pc[p] + 1]
    BY <1>1, Returned
  <2> QED BY <2>1, <2>3, <2>4, <2>5
\* The mail that arrives is the predecessor's seed of this exchange.
<1>5. /\ mail[p] \in Seq(AnySeed) /\ Len(mail[p]) \in Nat /\ Len(mail[p]) > 0
      /\ Head(mail[p]) = H.seed[Pred(p)][Here(H, p).x + 1]
      /\ Head(mail[p]) \in AnySeed /\ Tail(mail[p]) \in Seq(AnySeed)
      /\ Len(Tail(mail[p])) = Len(mail[p]) - 1
      /\ \A i \in 1 .. Len(mail[p]) - 1 : Tail(mail[p])[i] = mail[p][i + 1]
  <2>1. mail[p] \in Seq(AnySeed)
    BY <1>2 DEF TypeOK, AnySeed
  <2>2. /\ Len(mail[p]) \in Nat /\ Len(mail[p]) > 0 /\ Head(mail[p]) = mail[p][1]
        /\ Head(mail[p]) \in AnySeed /\ Tail(mail[p]) \in Seq(AnySeed)
        /\ Len(Tail(mail[p])) = Len(mail[p]) - 1
        /\ \A i \in 1 .. Len(mail[p]) - 1 : Tail(mail[p])[i] = mail[p][i + 1]
    BY <1>1, <2>1
  <2>3. 1 \in 1 .. Len(mail[p])
    BY <2>2
  <2>4. mail[p][1] = H.seed[Pred(p)][Here(H, p).x + 1]
    BY <1>2, <2>3 DEF MailHeld
  <2> QED BY <2>1, <2>2, <2>4
<1>6. seed_local[p] = H.seed[p][Here(H, p).x + 1]
  BY <1>2, <1>4 DEF SeedsHeld
<1>7. SeedsHeld(H)'
  <2> SUFFICES ASSUME NEW q \in Party
               PROVE  /\ sent'[q] => pc'[q] \in 1 .. Last /\ Calls[pc'[q]].op = "exchange"
                      /\ seed_local'[q] = H.seed[q][Here(H, q)'.x + Ahead(q)']
                      /\ seed_remote'[q] = H.seed[Pred(q)][Here(H, q)'.x]
    BY DEF SeedsHeld
  <2>1. CASE q # p
    <3>1. seed_remote'[q] = seed_remote[q] /\ seed_local'[q] = seed_local[q]
      BY <1>1, <1>2, <2>1 DEF TypeOK
    <3> QED BY <1>2, <1>4, <2>1, <3>1 DEF SeedsHeld
  <2>2. CASE q = p
    <3>1. seed_remote'[p] = Head(mail[p]) /\ seed_local'[p] = seed_local[p]
      BY <1>1, <1>2 DEF TypeOK
    <3>2. Here(H, p).x + 1 + 0 = Here(H, p).x + 1
      BY <1>3
    <3> QED BY <1>4, <1>5, <1>6, <2>2, <3>1, <3>2
  <2> QED BY <2>1, <2>2
<1>8. GensHeld(H)'
  <2> SUFFICES ASSUME NEW q \in Party
               PROVE  gen'[q] = [loc |-> [seed |-> H.seed[q][Here(H, q)'.x],
                                          drawn |-> Here(H, q)'.off],
                                 rem |-> [seed |-> H.seed[Pred(q)][Here(H, q)'.x],
                                          drawn |-> Here(H, q)'.off]]
    BY DEF GensHeld
  <2>1. CASE q # p
    <3>1. gen'[q] = gen[q]
      BY <1>1, <1>2, <2>1 DEF TypeOK
    <3> QED BY <1>2, <1>4, <2>1, <3>1 DEF GensHeld
  <2>2. CASE q = p
    <3>1. gen'[p] = [loc |-> [seed |-> seed_local[p], drawn |-> 0],
                     rem |-> [seed |-> Head(mail[p]), drawn |-> 0]]
      BY <1>1, <1>2 DEF TypeOK, Stream
    <3> QED BY <1>4, <1>5, <1>6, <2>2, <3>1
  <2> QED BY <2>1, <2>2
<1>9. MailHeld(H)'
  <2> SUFFICES ASSUME NEW q \in Party
               PROVE  /\ Len(mail'[q]) = (Here(H, Pred(q))'.x + Ahead(Pred(q))') - Here(H, q)'.x
                      /\ \A i \in 1 .. Len(mail'[q]) :
                           mail'[q][i] = H.seed[Pred(q)][Here(H, q)'.x + i]
    BY DEF MailHeld
  <2>1. /\ Len(mail[q]) = (Here(H, Pred(q)).x + Ahead(Pred(q))) - Here(H, q).x
        /\ \A i \in 1 .. Len(mail[q]) : mail[q][i] = H.seed[Pred(q)][Here(H, q).x + i]
    BY <1>2 DEF MailHeld
\* What p has sent of its own accord and what it has got is the same number.
  <2>2. Here(H, Pred(q))'.x + Ahead(Pred(q))' = Here(H, Pred(q)).x + Ahead(Pred(q))
    <3>1. Pred(q) \in Party
      BY <1>3
    <3>2. CASE Pred(q) # p
      <4>1. Pred(q) \in Party \ {p}
        BY <3>1, <3>2
      <4>2. Here(H, Pred(q))' = H.at[pc'[Pred(q)]] /\ pc'[Pred(q)] = pc[Pred(q)]
        BY <1>4, <4>1 DEF Here
      <4>3. Ahead(Pred(q))' = Ahead(Pred(q))
        BY <1>4, <4>1 DEF Ahead
      <4> QED BY <4>2, <4>3 DEF Here
    <3>3. CASE Pred(q) = p
      <4>1. Here(H, Pred(q))' = Here(H, p)' /\ Ahead(Pred(q))' = Ahead(p)'
        BY <3>3 DEF Here, Ahead
      <4> QED BY <1>3, <1>4, <3>3, <4>1
    <3> QED BY <3>2, <3>3
  <2>3. CASE q # p
    <3>1. mail'[q] = mail[q]
      BY <1>1, <1>2, <2>3 DEF TypeOK
    <3> QED BY <1>4, <2>1, <2>2, <2>3, <3>1
  <2>4. CASE q = p
    <3>1. mail'[p] = Tail(mail[p])
      BY <1>1, <1>2 DEF TypeOK
    <3>2. ASSUME NEW i \in 1 .. Len(mail[p]) - 1
          PROVE  mail[p][i + 1] = H.seed[Pred(p)][(Here(H, p).x + 1) + i]
      <4>1. i + 1 \in 1 .. Len(mail[p]) /\ Here(H, p).x + (i + 1) = (Here(H, p).x + 1) + i
        BY <1>5, StateFacts
      <4> QED BY <2>1, <2>4, <4>1
    <3>3. Len(Tail(mail[p])) = (Here(H, Pred(p)).x + Ahead(Pred(p))) - (Here(H, p).x + 1)
      <4>1. /\ Here(H, p).x \in Nat /\ Here(H, Pred(p)).x \in Nat
            /\ Ahead(Pred(p)) \in Int
        BY <1>3
      <4> QED BY <1>5, <2>1, <2>4, <4>1
    <3> QED BY <1>4, <1>5, <2>2, <2>4, <3>1, <3>2, <3>3
  <2> QED BY <2>3, <2>4
<1>10. Settled(H)' /\ ZerosHeld(H)' /\ PairsHeld(H)'
  BY <1>1, SettledKept, ZerosKept, PairsKept
<1>11. OthersLater'
  <2>1. \A q \in Party \ {p} : current'[q] = current[q]
    BY <1>1, <1>2 DEF TypeOK
  <2> QED BY <1>1, <2>1, OthersKept
<1>12. TypeOK'
  <2>1. pc' \in [Party -> 1 .. Last + 1]
    BY <1>1, Returned
  <2>2. [loc |-> Stream(seed_local[p]), rem |-> Stream(Head(mail[p]))]
          \in [loc : GenState, rem : GenState]
    BY <1>2, <1>5 DEF TypeOK, GenState, Stream, AnySeed
  <2>3. gen' \in [Party -> [loc : GenState, rem : GenState]]
    BY <1>1, <1>2, <2>2 DEF TypeOK
  <2>4. seed_remote' \in [Party -> Seed \cup {ZeroSeed}]
    BY <1>1, <1>2, <1>5 DEF TypeOK, AnySeed
  <2>5. mail' \in [Party -> Seq(Seed \cup {ZeroSeed})]
    BY <1>1, <1>2, <1>5 DEF TypeOK, AnySeed
  <2> QED BY <1>1, <1>2, <2>1, <2>3, <2>4, <2>5 DEF TypeOK
<1>13. Start(H)'
  BY <1>2 DEF Start
<1> QED BY <1>7, <1>8, <1>9, <1>10, <1>11, <1>12, <1>13 DEF HInv

Pair == [loc : Elem, rem : Elem]

\* The words that get_next_r* and get_next_rb_pair_array take off.
LEMMA WordsDrawn ==
  ASSUME NEW H, HInv(H), NEW p \in Party, pc[p] \in 1 .. Last,
         Calls[pc[p]].op # "exchange", ~Uninitialised(p), NEW i \in Nat \ {0},
         NEW o, o = [x |-> Here(H, p).x, off |-> Here(H, p).off + (i - 1)]
  PROVE  /\ H.seed[p][o.x] \in Seed /\ H.seed[Pred(p)][o.x] \in Seed
         /\ NthPair(p, i) = [loc |-> Draw(StreamOf(H, p, o)),
                             rem |-> Draw(StreamOf(H, Pred(p), o))]
         /\ NthPair(p, i).loc \in Elem /\ NthPair(p, i).rem \in Elem
<1>1. /\ H \in History /\ Pred(p) \in Party
      /\ Here(H, p).x \in Nat /\ Here(H, p).off \in Nat
      /\ SeedsHeld(H) /\ GensHeld(H)
  BY StateFacts DEF HInv
<1>2. Ahead(p) = 0
  BY <1>1 DEF SeedsHeld, Ahead
<1>3. /\ seed_local[p] = H.seed[p][Here(H, p).x]
      /\ seed_remote[p] = H.seed[Pred(p)][Here(H, p).x]
  BY <1>1, <1>2 DEF SeedsHeld
<1>4. H.seed[p][Here(H, p).x] \in AnySeed /\ H.seed[Pred(p)][Here(H, p).x] \in AnySeed
  BY <1>1, PlaceFacts
<1>5. H.seed[p][o.x] \in Seed /\ H.seed[Pred(p)][o.x] \in Seed
  BY <1>3, <1>4 DEF Uninitialised, AnySeed
<1>6. i - 1 \in Nat /\ o.off \in Nat
  BY <1>1
<1>7. /\ Advance(gen[p].loc, i - 1) = StreamOf(H, p, o)
      /\ Advance(gen[p].rem, i - 1) = StreamOf(H, Pred(p), o)
  <2>1. gen[p] = [loc |-> [seed |-> H.seed[p][Here(H, p).x], drawn |-> Here(H, p).off],
                  rem |-> [seed |-> H.seed[Pred(p)][Here(H, p).x],
                           drawn |-> Here(H, p).off]]
    BY <1>1 DEF GensHeld
  <2>2. \A s, d : Advance([seed |-> s, drawn |-> d], i - 1)
                    = [seed |-> s, drawn |-> d + (i - 1)]
    BY DEF Advance
  <2> QED BY <2>1, <2>2 DEF StreamOf
<1>8. Draw(StreamOf(H, p, o)) \in Elem /\ Draw(StreamOf(H, Pred(p), o)) \in Elem
  BY <1>5, <1>6, DrawType DEF StreamOf
<1> QED BY <1>5, <1>7, <1>8 DEF NthPair

\* The generators after an array of n words, and what does not change.
LEMMA DrawAllStep ==
  ASSUME NEW H, HInv(H), NEW p \in Party, pc[p] \in 1 .. Last,
         Calls[pc[p]].op \in {"next", "pair"}, Follows(H, pc[p]),
         DrawAll(p, Calls[pc[p]].len)
  PROVE  /\ GensHeld(H)' /\ SeedsHeld(H)' /\ MailHeld(H)' /\ Settled(H)'
         /\ OthersLater' /\ Start(H)'
         /\ pc' \in [Party -> 1 .. Last + 1]
         /\ gen' \in [Party -> [loc : GenState, rem : GenState]]
         /\ current' \in [Party -> {"default", "remote"}]
<1> DEFINE n == Calls[pc[p]].len
<1>1. /\ gen' = [gen EXCEPT ![p] = [loc |-> Advance(@.loc, n), rem |-> Advance(@.rem, n)]]
      /\ current' = [current EXCEPT ![p] = "remote"]
      /\ Return(p)
      /\ UNCHANGED <<sent, seed_local, seed_remote, mail, exited>>
  BY DEF DrawAll
<1>2. TypeOK /\ GensHeld(H) /\ Start(H) /\ n \in Nat
  BY CallFacts DEF HInv
<1>3. Here(H, p)'.x = Here(H, p).x /\ Here(H, p)'.off = Here(H, p).off + n
  <2>1. H.at[pc[p] + 1].x = Here(H, p).x /\ H.at[pc[p] + 1].off = Here(H, p).off + n
    BY DEF Follows, Here
  <2> QED BY <1>1, <2>1, Returned
<1>4. GensHeld(H)'
  <2> SUFFICES ASSUME NEW q \in Party
               PROVE  gen'[q] = [loc |-> [seed |-> H.seed[q][Here(H, q)'.x],
                                          drawn |-> Here(H, q)'.off],
                                 rem |-> [seed |-> H.seed[Pred(q)][Here(H, q)'.x],
                                          drawn |-> Here(H, q)'.off]]
    BY DEF GensHeld
  <2>1. gen[q] = [loc |-> [seed |-> H.seed[q][Here(H, q).x], drawn |-> Here(H, q).off],
                  rem |-> [seed |-> H.seed[Pred(q)][Here(H, q).x], drawn |-> Here(H, q).off]]
    BY <1>2 DEF GensHeld
  <2>2. CASE q # p
    <3>1. gen'[q] = gen[q] /\ Here(H, q)' = Here(H, q)
      BY <1>1, <1>2, <2>2, Returned DEF TypeOK
    <3> QED BY <2>1, <3>1
  <2>3. CASE q = p
    <3>1. gen'[p] = [loc |-> Advance(gen[p].loc, n), rem |-> Advance(gen[p].rem, n)]
      BY <1>1, <1>2 DEF TypeOK
    <3>2. \A s, d : Advance([seed |-> s, drawn |-> d], n) = [seed |-> s, drawn |-> d + n]
      BY DEF Advance
    <3> QED BY <1>3, <2>1, <2>3, <3>1, <3>2
  <2> QED BY <2>2, <2>3
<1>5. gen' \in [Party -> [loc : GenState, rem : GenState]]
  <2>1. \A g \in GenState : Advance(g, n) \in GenState
    BY <1>2 DEF GenState, Advance
  <2> QED BY <1>1, <1>2, <2>1 DEF TypeOK
<1>6. current' \in [Party -> {"default", "remote"}] /\ pc' \in [Party -> 1 .. Last + 1]
  BY <1>1, <1>2, Returned DEF TypeOK
<1>7. OthersLater'
  <2>1. \A q \in Party \ {p} : current'[q] = current[q]
    BY <1>1, <1>2 DEF TypeOK
  <2> QED BY <1>1, <2>1, OthersKept
<1>8. SeedsHeld(H)' /\ MailHeld(H)' /\ Settled(H)'
  BY <1>1, SeedsKept, SettledKept
<1>9. Start(H)'
  BY <1>2 DEF Start
<1> QED BY <1>4, <1>5, <1>6, <1>7, <1>8, <1>9

LEMMA NextZerosStep ==
  ASSUME NEW H, HInv(H), NEW p \in Party, NextZeros(p), Follows(H, pc[p])
  PROVE  HInv(H)'
<1> DEFINE n == Calls[pc[p]].len
           word(i) == [x |-> Here(H, p).x, off |-> Here(H, p).off + (i - 1)]
           w == [i \in 1 .. n |-> Minus(NthPair(p, i).loc, NthPair(p, i).rem)]
<1>1. /\ pc[p] \in 1 .. Last /\ Calls[pc[p]].op = "next" /\ ~Uninitialised(p)
      /\ DrawAll(p, n)
      /\ zeros' = [zeros EXCEPT ![p] = @ \o w]
      /\ UNCHANGED pairs
  BY DEF NextZeros, At
<1>2. /\ TypeOK /\ ZerosHeld(H) /\ H \in History /\ n \in Nat
      /\ Here(H, p).x \in Nat /\ Here(H, p).z \in Nat /\ Return(p)
      /\ UNCHANGED <<sent, seed_local, seed_remote, mail, exited>>
  BY <1>1, StateFacts, CallFacts DEF HInv, DrawAll
<1>3. /\ GensHeld(H)' /\ SeedsHeld(H)' /\ MailHeld(H)' /\ Settled(H)'
      /\ OthersLater' /\ Start(H)'
      /\ pc' \in [Party -> 1 .. Last + 1]
      /\ gen' \in [Party -> [loc : GenState, rem : GenState]]
      /\ current' \in [Party -> {"default", "remote"}]
  BY <1>1, DrawAllStep
<1>4. PairsHeld(H)'
  BY <1>1, <1>2, PairsKept
<1>5. ASSUME NEW i \in 1 .. n
      PROVE  /\ H.zero[Here(H, p).z + i] = word(i)
             /\ H.seed[p][word(i).x] \in Seed /\ H.seed[Pred(p)][word(i).x] \in Seed
             /\ w[i] = NextR(StreamOf(H, p, word(i)), StreamOf(H, Pred(p), word(i)))
             /\ w[i] \in Elem
  <2>1. i \in Nat \ {0}
    BY <1>2
  <2>2. H.zero[Here(H, p).z + i] = word(i)
    BY <1>1 DEF Follows, Here
  <2>3. /\ H.seed[p][word(i).x] \in Seed /\ H.seed[Pred(p)][word(i).x] \in Seed
        /\ NthPair(p, i) = [loc |-> Draw(StreamOf(H, p, word(i))),
                            rem |-> Draw(StreamOf(H, Pred(p), word(i)))]
        /\ NthPair(p, i).loc \in Elem /\ NthPair(p, i).rem \in Elem
    BY <1>1, <2>1, WordsDrawn
  <2>4. w[i] = Minus(NthPair(p, i).loc, NthPair(p, i).rem)
    OBVIOUS
  <2> HIDE DEF word, w
  <2> QED BY <2>2, <2>3, <2>4, RingClosed DEF NextR, Minus
<1>6. w \in Seq(Elem) /\ Len(w) = n
  <2>1. w \in [1 .. n -> Elem]
    BY <1>5
  <2> HIDE DEF w
  <2> QED BY <1>2, <2>1
<1> HIDE DEF w
<1>7. /\ zeros' \in [Party -> Seq(Elem)]
      /\ \A q \in Party \ {p} : zeros'[q] = zeros[q]
      /\ zeros'[p] = zeros[p] \o w /\ zeros[p] \in Seq(Elem)
      /\ Len(zeros[p]) \in Nat
  <2>1. zeros \in [Party -> Seq(Elem)]
    BY <1>2 DEF TypeOK
  <2>2. zeros[p] \in Seq(Elem) /\ Len(zeros[p]) \in Nat /\ zeros[p] \o w \in Seq(Elem)
    BY <1>6, <2>1, ConcatProperties, LenProperties
  <2> QED BY <1>1, <2>1, <2>2
<1>8. /\ Len(zeros'[p]) = Len(zeros[p]) + n
      /\ \A k \in 1 .. Len(zeros[p]) + n :
           zeros'[p][k] = IF k <= Len(zeros[p]) THEN zeros[p][k] ELSE w[k - Len(zeros[p])]
  BY <1>6, <1>7, ConcatProperties
<1>9. /\ Here(H, p)'.x = Here(H, p).x /\ Here(H, p)'.z = Here(H, p).z + n
      /\ \A q \in Party \ {p} : Here(H, q)' = Here(H, q)
  <2>1. H.at[pc[p] + 1].x = Here(H, p).x /\ H.at[pc[p] + 1].z = Here(H, p).z + n
    BY <1>1 DEF Follows, Here
  <2> QED BY <1>1, <1>2, <2>1, Returned
<1>10. ZerosHeld(H)'
  <2> SUFFICES ASSUME NEW q \in Party
               PROVE  /\ Len(zeros'[q]) = Here(H, q)'.z
                      /\ \A k \in 1 .. Len(zeros'[q]) :
                           /\ Known(H, q, H.zero[k])'
                           /\ zeros'[q][k] = NextR(StreamOf(H, q, H.zero[k]),
                                                   StreamOf(H, Pred(q), H.zero[k]))
    BY DEF ZerosHeld, StreamOf
  <2>1. /\ Len(zeros[q]) = Here(H, q).z
        /\ \A k \in 1 .. Len(zeros[q]) :
             /\ Known(H, q, H.zero[k])
             /\ zeros[q][k] = NextR(StreamOf(H, q, H.zero[k]),
                                    StreamOf(H, Pred(q), H.zero[k]))
    BY <1>2 DEF ZerosHeld
  <2>2. CASE q # p
    BY <1>7, <1>9, <2>1, <2>2 DEF Known
  <2>3. CASE q = p
    <3>0. Len(zeros[p]) \in Nat /\ n \in Nat
      BY <1>2, <1>7
    <3>1. Len(zeros'[p]) = Here(H, p)'.z
      BY <1>8, <1>9, <2>1, <2>3
    <3>2. ASSUME NEW k \in 1 .. Len(zeros'[p])
          PROVE  /\ Known(H, p, H.zero[k])'
                 /\ zeros'[p][k] = NextR(StreamOf(H, p, H.zero[k]), StreamOf(H, Pred(p), H.zero[k]))
      <4>1. CASE k \in 1 .. Len(zeros[p])
        <5>1. zeros'[p][k] = zeros[p][k]
          BY <1>2, <1>7, <1>8, <4>1
        <5> QED BY <1>9, <2>1, <2>3, <4>1, <5>1 DEF Known
      <4>2. CASE k \notin 1 .. Len(zeros[p])
        <5>1. PICK i \in 1 .. n : k = Len(zeros[p]) + i
          <6>1. k \in 1 .. Len(zeros[p]) + n
            BY <1>8
          <6>2. k - Len(zeros[p]) \in 1 .. n
            BY <3>0, <4>2, <6>1
          <6> QED BY <3>0, <6>1, <6>2
        <5>2. zeros'[p][k] = w[i]
          <6>1. /\ k \in 1 .. Len(zeros[p]) + n /\ ~(k <= Len(zeros[p]))
                /\ k - Len(zeros[p]) = i
            BY <3>0, <5>1
          <6> QED BY <1>8, <6>1
        <5>3. H.zero[k] = word(i)
          BY <1>5, <2>1, <2>3, <5>1
        <5>4. /\ H.zero[k].x = Here(H, p).x
              /\ H.seed[p][H.zero[k].x] \in Seed /\ H.seed[Pred(p)][H.zero[k].x] \in Seed
          <6>1. word(i).x = Here(H, p).x
            OBVIOUS
          <6> HIDE DEF word
          <6> QED BY <1>5, <5>3, <6>1
        <5>5. Known(H, p, H.zero[k])'
          BY <1>2, <1>9, <5>4 DEF Known
        <5> HIDE DEF word
        <5> QED BY <1>5, <5>2, <5>3, <5>5
      <4> QED BY <4>1, <4>2
    <3> QED BY <2>3, <3>1, <3>2
  <2> QED BY <2>2, <2>3
<1>11. TypeOK'
  BY <1>1, <1>2, <1>3, <1>7 DEF TypeOK
<1> QED BY <1>2, <1>3, <1>4, <1>10, <1>11 DEF HInv

LEMMA NextPairsStep ==
  ASSUME NEW H, HInv(H), NEW p \in Party, NextPairs(p), Follows(H, pc[p])
  PROVE  HInv(H)'
<1> DEFINE n == Calls[pc[p]].len
           word(i) == [x |-> Here(H, p).x, off |-> Here(H, p).off + (i - 1)]
           w == [i \in 1 .. n |-> NthPair(p, i)]
<1>1. /\ pc[p] \in 1 .. Last /\ Calls[pc[p]].op = "pair" /\ ~Uninitialised(p)
      /\ DrawAll(p, n)
      /\ pairs' = [pairs EXCEPT ![p] = @ \o w]
      /\ UNCHANGED zeros
  BY DEF NextPairs, At
<1>2. /\ TypeOK /\ PairsHeld(H) /\ H \in History /\ n \in Nat
      /\ Here(H, p).x \in Nat /\ Here(H, p).y \in Nat /\ Return(p)
      /\ UNCHANGED <<sent, seed_local, seed_remote, mail, exited>>
  BY <1>1, StateFacts, CallFacts DEF HInv, DrawAll
<1>3. /\ GensHeld(H)' /\ SeedsHeld(H)' /\ MailHeld(H)' /\ Settled(H)'
      /\ OthersLater' /\ Start(H)'
      /\ pc' \in [Party -> 1 .. Last + 1]
      /\ gen' \in [Party -> [loc : GenState, rem : GenState]]
      /\ current' \in [Party -> {"default", "remote"}]
  BY <1>1, DrawAllStep
<1>4. ZerosHeld(H)'
  BY <1>1, <1>2, ZerosKept
<1>5. ASSUME NEW i \in 1 .. n
      PROVE  /\ H.pair[Here(H, p).y + i] = word(i)
             /\ H.seed[p][word(i).x] \in Seed /\ H.seed[Pred(p)][word(i).x] \in Seed
             /\ w[i] = [loc |-> Draw(StreamOf(H, p, word(i))),
                        rem |-> Draw(StreamOf(H, Pred(p), word(i)))]
             /\ w[i] \in Pair
  <2>1. i \in Nat \ {0}
    BY <1>2
  <2>2. H.pair[Here(H, p).y + i] = word(i)
    BY <1>1 DEF Follows, Here
  <2>3. /\ H.seed[p][word(i).x] \in Seed /\ H.seed[Pred(p)][word(i).x] \in Seed
        /\ NthPair(p, i) = [loc |-> Draw(StreamOf(H, p, word(i))),
                            rem |-> Draw(StreamOf(H, Pred(p), word(i)))]
        /\ NthPair(p, i).loc \in Elem /\ NthPair(p, i).rem \in Elem
    BY <1>1, <2>1, WordsDrawn
  <2>4. w[i] = NthPair(p, i)
    OBVIOUS
  <2> HIDE DEF word, w
  <2> QED BY <2>2, <2>3, <2>4 DEF Pair
<1>6. w \in Seq(Pair) /\ Len(w) = n
  <2>1. w \in [1 .. n -> Pair]
    BY <1>5
  <2> HIDE DEF w
  <2> QED BY <1>2, <2>1
<1> HIDE DEF w
<1>7. /\ pairs' \in [Party -> Seq(Pair)]
      /\ \A q \in Party \ {p} : pairs'[q] = pairs[q]
      /\ pairs'[p] = pairs[p] \o w /\ pairs[p] \in Seq(Pair)
      /\ Len(pairs[p]) \in Nat
  <2>1. pairs \in [Party -> Seq(Pair)]
    BY <1>2 DEF TypeOK, Pair
  <2>2. pairs[p] \in Seq(Pair) /\ Len(pairs[p]) \in Nat
        /\ pairs[p] \o w \in Seq(Pair)
    BY <1>6, <2>1, ConcatProperties, LenProperties
  <2> QED BY <1>1, <2>1, <2>2
<1>8. /\ Len(pairs'[p]) = Len(pairs[p]) + n
      /\ \A k \in 1 .. Len(pairs[p]) + n :
           pairs'[p][k] = IF k <= Len(pairs[p]) THEN pairs[p][k] ELSE w[k - Len(pairs[p])]
  BY <1>6, <1>7, ConcatProperties
<1>9. /\ Here(H, p)'.x = Here(H, p).x /\ Here(H, p)'.y = Here(H, p).y + n
      /\ \A q \in Party \ {p} : Here(H, q)' = Here(H, q)
  <2>1. H.at[pc[p] + 1].x = Here(H, p).x /\ H.at[pc[p] + 1].y = Here(H, p).y + n
    BY <1>1 DEF Follows, Here
  <2> QED BY <1>1, <1>2, <2>1, Returned
<1>10. PairsHeld(H)'
  <2> SUFFICES ASSUME NEW q \in Party
               PROVE  /\ Len(pairs'[q]) = Here(H, q)'.y
                      /\ \A k \in 1 .. Len(pairs'[q]) :
                           /\ Known(H, q, H.pair[k])'
                           /\ pairs'[q][k] = [loc |-> Draw(StreamOf(H, q, H.pair[k])),
                                              rem |-> Draw(StreamOf(H, Pred(q), H.pair[k]))]
    BY DEF PairsHeld, StreamOf
  <2>1. /\ Len(pairs[q]) = Here(H, q).y
        /\ \A k \in 1 .. Len(pairs[q]) :
             /\ Known(H, q, H.pair[k])
             /\ pairs[q][k] = [loc |-> Draw(StreamOf(H, q, H.pair[k])),
                               rem |-> Draw(StreamOf(H, Pred(q), H.pair[k]))]
    BY <1>2 DEF PairsHeld
  <2>2. CASE q # p
    BY <1>7, <1>9, <2>1, <2>2 DEF Known
  <2>3. CASE q = p
    <3>0. Len(pairs[p]) \in Nat /\ n \in Nat
      BY <1>2, <1>7
    <3>1. Len(pairs'[p]) = Here(H, p)'.y
      BY <1>8, <1>9, <2>1, <2>3
    <3>2. ASSUME NEW k \in 1 .. Len(pairs'[p])
          PROVE  /\ Known(H, p, H.pair[k])'
                 /\ pairs'[p][k] = [loc |-> Draw(StreamOf(H, p, H.pair[k])),
                                    rem |-> Draw(StreamOf(H, Pred(p), H.pair[k]))]
      <4>1. CASE k \in 1 .. Len(pairs[p])
        <5>1. pairs'[p][k] = pairs[p][k]
          BY <1>2, <1>7, <1>8, <4>1
        <5> QED BY <1>9, <2>1, <2>3, <4>1, <5>1 DEF Known
      <4>2. CASE k \notin 1 .. Len(pairs[p])
        <5>1. PICK i \in 1 .. n : k = Len(pairs[p]) + i
          <6>1. k \in 1 .. Len(pairs[p]) + n
            BY <1>8
          <6>2. k - Len(pairs[p]) \in 1 .. n
            BY <3>0, <4>2, <6>1
          <6> QED BY <3>0, <6>1, <6>2
        <5>2. pairs'[p][k] = w[i]
          <6>1. /\ k \in 1 .. Len(pairs[p]) + n /\ ~(k <= Len(pairs[p]))
                /\ k - Len(pairs[p]) = i
            BY <3>0, <5>1
          <6> QED BY <1>8, <6>1
        <5>3. H.pair[k] = word(i)
          BY <1>5, <2>1, <2>3, <5>1
        <5>4. /\ H.pair[k].x = Here(H, p).x
              /\ H.seed[p][H.pair[k].x] \in Seed /\ H.seed[Pred(p)][H.pair[k].x] \in Seed
          <6>1. word(i).x = Here(H, p).x
            OBVIOUS
          <6> HIDE DEF word
          <6> QED BY <1>5, <5>3, <6>1
        <5>5. Known(H, p, H.pair[k])'
          BY <1>2, <1>9, <5>4 DEF Known
        <5> HIDE DEF word
        <5> QED BY <1>5, <5>2, <5>3, <5>5
      <4> QED BY <4>1, <4>2
    <3> QED BY <2>3, <3>1, <3>2
  <2> QED BY <2>2, <2>3
<1>11. TypeOK'
  BY <1>1, <1>2, <1>3, <1>7 DEF TypeOK, Pair
<1> QED BY <1>2, <1>3, <1>4, <1>10, <1>11 DEF HInv

LEMMA ExitStep ==
  ASSUME NEW H, HInv(H), NEW p \in Party, Exit(p)
  PROVE  HInv(H)'
<1>1. /\ UNCHANGED <<pc, sent, seed_local, seed_remote, gen, current, mail, zeros, pairs>>
      /\ exited' = [exited EXCEPT ![p] = TRUE]
  BY DEF Exit
<1>2. TypeOK'
  BY <1>1 DEF HInv, TypeOK
<1>3. OthersLater' /\ Start(H)' /\ Settled(H)' /\ SeedsHeld(H)' /\ GensHeld(H)'
  BY <1>1 DEF HInv, OthersLater, Start, Settled, SeedsHeld, GensHeld, Here, Ahead, Follows
<1>4. MailHeld(H)' /\ ZerosHeld(H)' /\ PairsHeld(H)'
  BY <1>1 DEF HInv, MailHeld, ZerosHeld, PairsHeld, Here, Ahead, Known, StreamOf
<1> QED BY <1>2, <1>3, <1>4 DEF HInv

\* Test data are made before the first exchange, so that the generator drawn
\* from is nobody's local or remote one.
LEMMA RawRandomStep ==
  ASSUME NEW H, HInv(H), NEW p \in Party, RawRandom(p), Follows(H, pc[p])
  PROVE  HInv(H)'
<1>1. /\ pc[p] \in 1 .. Last /\ Calls[pc[p]].op = "random" /\ Return(p)
      /\ UNCHANGED <<sent, seed_local, seed_remote, current, mail, zeros, pairs, exited>>
  BY DEF RawRandom, At
<1>2. TypeOK /\ OthersLater /\ GensHeld(H) /\ Start(H)
  BY DEF HInv
<1>3. gen' = gen
  <2>1. current[p] # "remote"
    <3>1. \A k \in 1 .. pc[p] - 1 : k \in 1 .. Last /\ k < pc[p]
      BY <1>1, CallFacts
    <3>2. \A k \in 1 .. pc[p] - 1 : Calls[k].op = "random"
      BY <1>1, <3>1, CallsAssumption
    <3> QED BY <1>2, <3>2 DEF OthersLater
  <2> QED BY <2>1 DEF RawRandom
<1>4. \A q \in Party : Here(H, q)' = Here(H, q)
  <2>1. H.at[pc[p] + 1] = Here(H, p)
    BY <1>1 DEF Follows, Here
  <2> QED BY <1>1, <2>1, Returned
<1>5. GensHeld(H)'
  BY <1>2, <1>3, <1>4 DEF GensHeld
<1>6. TypeOK'
  <2>1. pc' \in [Party -> 1 .. Last + 1]
    BY <1>1, Returned
  <2> QED BY <1>1, <1>2, <1>3, <2>1 DEF TypeOK
<1>7. OthersLater'
  BY <1>1, OthersKept
<1>8. SeedsHeld(H)' /\ MailHeld(H)' /\ Settled(H)'
  BY <1>1, SeedsKept, SettledKept
<1>9. ZerosHeld(H)' /\ PairsHeld(H)' /\ Start(H)'
  BY <1>1, <1>2, ZerosKept, PairsKept DEF Start
<1> QED BY <1>5, <1>6, <1>7, <1>8, <1>9 DEF HInv

LEMMA StepInv == Inv /\ [Next]_vars => Inv'
<1> SUFFICES ASSUME Inv, [Next]_vars PROVE Inv'
  OBVIOUS
<1>1. PICK H : HInv(H)
  BY DEF Inv
<1>2. CASE UNCHANGED vars
  <2>1. /\ UNCHANGED <<pc, sent, seed_local, seed_remote, gen, current, mail, zeros>>
        /\ UNCHANGED <<pairs, exited>>
    BY <1>2 DEF vars
  <2>2. TypeOK'
    BY <1>1, <2>1 DEF HInv, TypeOK
  <2>3. OthersLater' /\ Start(H)' /\ Settled(H)' /\ SeedsHeld(H)' /\ GensHeld(H)'
    BY <1>1, <2>1 DEF HInv, OthersLater, Start, Settled, SeedsHeld, GensHeld, Here, Ahead,
                      Follows
  <2>4. MailHeld(H)' /\ ZerosHeld(H)' /\ PairsHeld(H)'
    BY <1>1, <2>1 DEF HInv, MailHeld, ZerosHeld, PairsHeld, Here, Ahead, Known, StreamOf
  <2> QED BY <2>2, <2>3, <2>4 DEF HInv, Inv
<1>3. ASSUME NEW p \in Party, Step(p) PROVE Inv'
  <2>1. pc[p] \in 1 .. Last
    BY <1>3 DEF Step, SendSeed, RecvSeed, NextZeros, NextPairs, Exit, RawRandom, At
  <2>2. PICK G : HInv(G) /\ Follows(G, pc[p])
    BY <1>1, <2>1, HistoryGrows
  <2>3. CASE SendSeed(p)
    BY <1>1, <2>3, SendSeedStep
  <2>4. CASE RecvSeed(p)
    BY <2>2, <2>4, RecvSeedStep DEF Inv
  <2>5. CASE NextZeros(p)
    BY <2>2, <2>5, NextZerosStep DEF Inv
  <2>6. CASE NextPairs(p)
    BY <2>2, <2>6, NextPairsStep DEF Inv
  <2>7. CASE Exit(p)
    BY <2>2, <2>7, ExitStep DEF Inv
  <2>8. CASE RawRandom(p)
    BY <2>2, <2>8, RawRandomStep DEF Inv
  <2> QED BY <1>3, <2>3, <2>4, <2>5, <2>6, <2>7, <2>8 DEF Step
<1> QED BY <1>2, <1>3 DEF Next, Stopped

LEMMA InvAlways == Spec => []Inv
<1> QED BY InitHInv, StepInv, PTL DEF Spec

-----------------------------------------------------------------------------
(* Theorems. *)

\* Every variable of party.cpp keeps its type: in particular no word is ever
\* taken from a generator whose seed is 0.
THEOREM TypeCorrect == Spec => []TypeOK
<1>1. Inv => TypeOK
  BY DEF Inv, HInv
<1> QED BY <1>1, InvAlways, PTL

\* Two neighbours at the same call hold the same state of the generator they
\* share.
THEOREM InLockstep == Spec => []Lockstep
<1>1. Inv => Lockstep
  <2> SUFFICES ASSUME Inv, NEW p \in Party, pc[p] = pc[Pred(p)]
               PROVE  gen[p].rem = gen[Pred(p)].loc
    BY DEF Lockstep
  <2>1. PICK H : HInv(H)
    BY DEF Inv
  <2>2. Pred(p) \in Party
    BY RingOfParties
  <2>3. Here(H, p) = Here(H, Pred(p))
    BY DEF Here
  <2>4. ASSUME NEW q \in Party
        PROVE  /\ gen[q].loc = [seed |-> H.seed[q][Here(H, q).x], drawn |-> Here(H, q).off]
               /\ gen[q].rem = [seed |-> H.seed[Pred(q)][Here(H, q).x],
                                drawn |-> Here(H, q).off]
    <3>1. gen[q] = [loc |-> [seed |-> H.seed[q][Here(H, q).x], drawn |-> Here(H, q).off],
                    rem |-> [seed |-> H.seed[Pred(q)][Here(H, q).x],
                             drawn |-> Here(H, q).off]]
      BY <2>1 DEF HInv, GensHeld
    <3> QED BY <3>1
  <2> QED BY <2>2, <2>3, <2>4
<1> QED BY <1>1, InvAlways, PTL

\* The n-th shares that get_next_r, get_next_rb and their array forms hand out
\* on the three parties are shares of zero.
THEOREM ZerosAreZero == Spec => []ZeroSum
<1>1. Inv => ZeroSum
  <2> SUFFICES ASSUME Inv, NEW n \in 1 .. Len(zeros[0]),
                      n <= Len(zeros[1]), n <= Len(zeros[2])
               PROVE  Reconstruct([p \in Party |-> zeros[p][n]]) = Zero
    BY DEF ZeroSum
  <2>1. PICK H : HInv(H)
    BY DEF Inv
  <2> DEFINE o == H.zero[n]
             loc == [p \in Party |-> StreamOf(H, p, o)]
             rem == [p \in Party |-> StreamOf(H, Pred(p), o)]
  <2>2. /\ n \in Nat /\ o \in Origin /\ o.off \in Nat
        /\ \A p \in Party : n \in 1 .. Len(zeros[p]) /\ Pred(p) \in Party
    <3>1. zeros \in [Party -> Seq(Elem)] /\ H \in History
      BY <2>1 DEF HInv, TypeOK, Start
    <3>2. Len(zeros[0]) \in Nat /\ Len(zeros[1]) \in Nat /\ Len(zeros[2]) \in Nat
      BY <3>1, RingOfParties
    <3>3. n \in Nat /\ n \in 1 .. Len(zeros[0]) /\ n \in 1 .. Len(zeros[1])
          /\ n \in 1 .. Len(zeros[2])
      BY <3>2
    <3> QED BY <3>1, <3>3, PlaceFacts, RingOfParties
  <2>3. ASSUME NEW p \in Party
        PROVE  /\ zeros[p][n] = NextR(loc[p], rem[p])
               /\ Draw(loc[p]) \in Elem /\ rem[p] = loc[Pred(p)]
    <3>1. /\ Known(H, p, o)
          /\ zeros[p][n] = NextR(StreamOf(H, p, o), StreamOf(H, Pred(p), o))
      BY <2>1, <2>2 DEF HInv, ZerosHeld
    <3>2. Draw(StreamOf(H, p, o)) \in Elem
      BY <2>2, <3>1, DrawType DEF Known, StreamOf
    <3> QED BY <2>2, <3>1, <3>2
  <2> HIDE DEF loc, rem
  <2>4. Reconstruct([p \in Party |-> NextR(loc[p], rem[p])]) = Zero
    <3> DEFINE d(p) == Draw(loc[p])
    <3>1. d(0) \in Elem /\ d(1) \in Elem /\ d(2) \in Elem
      BY <2>3, RingOfParties
    <3>2. /\ NextR(loc[0], rem[0]) = Minus(d(0), d(2))
          /\ NextR(loc[1], rem[1]) = Minus(d(1), d(0))
          /\ NextR(loc[2], rem[2]) = Minus(d(2), d(1))
      BY <2>3, RingOfParties DEF NextR
    <3>3. Plus(Plus(Minus(d(0), d(2)), Minus(d(1), d(0))), Minus(d(2), d(1))) = Zero
      BY <3>1, DifferencesCancel
    <3> QED
      BY <3>2, <3>3, RingOfParties DEF Reconstruct
  <2>5. [p \in Party |-> zeros[p][n]] = [p \in Party |-> NextR(loc[p], rem[p])]
    BY <2>3
  <2> QED BY <2>4, <2>5
<1> QED BY <1>1, InvAlways, PTL

\* The remote word of the n-th pair of get_next_rb_pair_array is the local word
\* of the predecessor's n-th pair.
THEOREM PairsAreReplicated == Spec => []PairsReplicated
<1>1. Inv => PairsReplicated
  <2> SUFFICES ASSUME Inv, NEW p \in Party, NEW n \in 1 .. Len(pairs[p]),
                      n <= Len(pairs[Pred(p)])
               PROVE  pairs[p][n].rem = pairs[Pred(p)][n].loc
    BY DEF PairsReplicated
  <2>1. PICK H : HInv(H)
    BY DEF Inv
  <2>2. Pred(p) \in Party /\ n \in 1 .. Len(pairs[Pred(p)])
    <3>1. Pred(p) \in Party /\ pairs \in [Party -> Seq([loc : Elem, rem : Elem])]
      BY <2>1, RingOfParties DEF HInv, TypeOK
    <3>2. Len(pairs[Pred(p)]) \in Nat /\ Len(pairs[p]) \in Nat
      BY <3>1
    <3> QED BY <3>1, <3>2
  <2>3. ASSUME NEW q \in Party, n \in 1 .. Len(pairs[q])
        PROVE  /\ pairs[q][n].loc = Draw(StreamOf(H, q, H.pair[n]))
               /\ pairs[q][n].rem = Draw(StreamOf(H, Pred(q), H.pair[n]))
    <3>1. pairs[q][n] = [loc |-> Draw(StreamOf(H, q, H.pair[n])),
                         rem |-> Draw(StreamOf(H, Pred(q), H.pair[n]))]
      BY <2>1, <2>3 DEF HInv, PairsHeld
    <3> QED BY <3>1
  <2> QED BY <2>2, <2>3
<1> QED BY <1>1, InvAlways, PTL

=============================================================================
