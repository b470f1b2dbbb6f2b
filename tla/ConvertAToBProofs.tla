------------------------- MODULE ConvertAToBProofs -------------------------
(***************************************************************************)
(* Proofs about ConvertAToB for words of every width, any words and any    *)
(* number of messages that MPI buffers: the parties' different roles fit   *)
(* together.                                                               *)
(***************************************************************************)
EXTENDS ConvertAToB, FiniteSums

-----------------------------------------------------------------------------
(* Counting messages.  What a channel carries depends on the two calls its *)
(* parties are in only.                                                    *)

\* The calls of a party's role.
Roles(p) == IF p = 1 THEN 3 ELSE 4

LastCall(p) == Roles(p) + Width + 2

Reached(n, k) == IF k >= n THEN 1 ELSE 0

\* The exchanges of the two sharings and of the carries, until call x after the role.
Exchanged(x) == IF x <= 0 THEN 0 ELSE IF x <= Width THEN x ELSE Width

\* Messages that q sends to p in its calls 1 .. k.
Sent(q, p, k) ==
  IF q = 0 /\ p = 1 THEN Reached(2, k)
  ELSE IF q = 2 /\ p = 0 THEN Reached(3, k)
  ELSE IF q = 1 /\ p = 2 THEN Reached(Width + 4, k)
  ELSE IF q = 0 /\ p = 2
       THEN Reached(2, k) + Exchanged(k - 4) + Reached(Width + 5, k) + Reached(Width + 6, k)
  ELSE IF q = 1 /\ p = 0
       THEN Reached(2, k) + Exchanged(k - 3) + Reached(Width + 5, k)
  ELSE IF q = 2 /\ p = 1
       THEN Reached(3, k) + Reached(4, k) + Exchanged(k - 4) + Reached(Width + 6, k)
  ELSE 0

\* Messages from q that p receives in its calls 1 .. k.
Taken(q, p, k) ==
  IF q = 0 /\ p = 1 THEN Reached(1, k)
  ELSE IF q = 2 /\ p = 0 THEN Reached(3, k)
  ELSE IF q = 1 /\ p = 2 THEN Reached(Width + 5, k)
  ELSE IF q = 0 /\ p = 2
       THEN Reached(2, k) + Exchanged(k - 4) + Reached(Width + 5, k) + Reached(Width + 6, k)
  ELSE IF q = 1 /\ p = 0
       THEN Reached(4, k) + Exchanged(k - 4) + Reached(Width + 6, k)
  ELSE IF q = 2 /\ p = 1
       THEN Reached(1, k) + Reached(3, k) + Exchanged(k - 3) + Reached(Width + 5, k)
  ELSE 0

\* The array that the n-th message of an exchange carries; the last is the result's.
ExchangeName(n) ==
  IF n = 1 THEN "xa1" ELSE IF n = 2 THEN "w1" ELSE IF n <= Width THEN "c1" ELSE "xb1"

\* The array that the n-th message from q to p carries.
Name(q, p, n) ==
  IF q = 0 /\ p = 1 THEN "z12"
  ELSE IF q = 2 /\ p = 0 THEN "w13"
  ELSE IF q = 1 /\ p = 2 THEN "w1"
  ELSE IF q = 0 /\ p = 2
       THEN IF n = 1 THEN "z13" ELSE IF n = Width + 2 THEN "w1" ELSE ExchangeName(n - 1)
  ELSE IF q = 1 /\ p = 0
       THEN IF n = 1 THEN "xb2" ELSE ExchangeName(n - 1)
  ELSE IF n = 1 THEN "w2" ELSE IF n = 2 THEN "r_temp" ELSE ExchangeName(n - 2)

\* Words that p draws from each generator in its calls before k.
Draws(p, k) ==
  (IF p = 0 THEN Reached(4, k) + Reached(5, k)
   ELSE IF p = 1 THEN Reached(2, k) + Reached(3, k)
   ELSE 2 * Reached(4, k))
  + (LET x == k - Roles(p)
     IN  IF x <= 2 THEN 0 ELSE IF x <= Width + 1 THEN 1 + 3 * (x - 3) ELSE 3 * Width - 5)

-----------------------------------------------------------------------------
(* The inductive invariant. *)

\* Messages from q that p has taken.
TakenNow(q, p) == Taken(q, p, pc[p] - 1) + IF q \in got[p] THEN 1 ELSE 0

Senders(p) == {r[1] : r \in Current(p).recvs}

CallsHeld ==
  /\ eager \in Nat
  /\ pc \in [Party -> Nat] /\ got \in [Party -> SUBSET Party] /\ drawn \in [Party -> Nat]
  /\ \A p \in Party :
       /\ pc[p] \in 1 .. LastCall(p) + 1
       /\ got[p] \subseteq IF Running(p) THEN Senders(p) ELSE {}
       /\ drawn[p] = Draws(p, pc[p])

\* A channel holds the messages that are sent and not taken, in the order of sending.
ChannelHeld(q, p) ==
  LET s == channel[<<q, p>>]
  IN  /\ \E S : s \in Seq(S)
      /\ Len(s) = Sent(q, p, pc[q]) - TakenNow(q, p)
      /\ \A n \in 1 .. Len(s) : s[n].array = Name(q, p, TakenNow(q, p) + n)

ChannelsHeld ==
  /\ channel = [c \in Party \X Party |-> channel[c]]
  /\ \A q, p \in Party : ChannelHeld(q, p)

Inv == CallsHeld /\ ChannelsHeld

-----------------------------------------------------------------------------
(* Lemmas about the scripts. *)

LEMMA Parties == Party = {0, 1, 2} /\ Width \in Nat /\ Width > 2
BY ConvertAssumption DEF Party

\* A script is a role followed by the calls that all parties make.
Common(p, x) ==
  IF x = 1 THEN Exchange(p, "xa1", "xa2", Then("none"))
  ELSE IF x = 2 THEN Exchange(p, "w1", "w2", Then("start"))
  ELSE IF x <= Width THEN Exchange(p, "c1", "c2", [do |-> "carry", bit |-> x - 3])
  ELSE IF x = Width + 1 THEN RevealSum(p)
  ELSE Exchange(p, "xb1", "xb2", Then("none"))

Role(p) == IF p = 0 THEN RoleP1 ELSE IF p = 1 THEN RoleP2 ELSE RoleP3

LEMMA TwoParts ==
  ASSUME NEW S, NEW a \in Seq(S), NEW b \in Seq(S)
  PROVE  /\ a \o b \in Seq(S) /\ Len(a \o b) = Len(a) + Len(b)
         /\ \A n \in 1 .. Len(a) : (a \o b)[n] = a[n]
         /\ \A n \in 1 .. Len(b) : (a \o b)[Len(a) + n] = b[n]
OBVIOUS

\* A script has four parts: the role, two exchanges, the carries, the end.
LEMMA FourParts ==
  ASSUME NEW S, NEW a \in Seq(S), NEW b \in Seq(S), NEW c \in Seq(S), NEW d \in Seq(S),
         NEW s, s = a \o b \o c \o d
  PROVE  /\ Len(s) = Len(a) + Len(b) + Len(c) + Len(d)
         /\ \A n \in 1 .. Len(a) : s[n] = a[n]
         /\ \A n \in 1 .. Len(b) : s[Len(a) + n] = b[n]
         /\ \A n \in 1 .. Len(c) : s[Len(a) + Len(b) + n] = c[n]
         /\ \A n \in 1 .. Len(d) : s[Len(a) + Len(b) + Len(c) + n] = d[n]
<1>1. PICK ab \in Seq(S) : ab = a \o b
  BY TwoParts
<1>2. PICK abc \in Seq(S) : abc = ab \o c
  BY TwoParts
<1>3. s = abc \o d
  BY <1>1, <1>2
<1>4. Len(a) \in Nat /\ Len(b) \in Nat /\ Len(c) \in Nat /\ Len(d) \in Nat
  OBVIOUS
<1>5. /\ Len(ab) = Len(a) + Len(b)
      /\ \A n \in 1 .. Len(a) : ab[n] = a[n]
      /\ \A n \in 1 .. Len(b) : ab[Len(a) + n] = b[n]
  BY <1>1, TwoParts
<1>6. /\ Len(abc) = Len(ab) + Len(c)
      /\ \A n \in 1 .. Len(ab) : abc[n] = ab[n]
      /\ \A n \in 1 .. Len(c) : abc[Len(ab) + n] = c[n]
  BY <1>2, TwoParts
<1>7. /\ Len(s) = Len(abc) + Len(d)
      /\ \A n \in 1 .. Len(abc) : s[n] = abc[n]
      /\ \A n \in 1 .. Len(d) : s[Len(abc) + n] = d[n]
  BY <1>3, TwoParts
<1> HIDE <1>1, <1>2, <1>3
<1> QED
  BY <1>4, <1>5, <1>6, <1>7

LEMMA ScriptLength ==
  ASSUME NEW p \in Party
  PROVE  /\ Len(Script[p]) = LastCall(p)
         /\ \A k \in 1 .. Roles(p) : Script[p][k] = Role(p)[k]
         /\ \A x \in 1 .. Width + 2 : Script[p][Roles(p) + x] = Common(p, x)
<1> DEFINE role == CASE p = 0 -> RoleP1 [] p = 1 -> RoleP2 [] p = 2 -> RoleP3
           two == << Exchange(p, "xa1", "xa2", Then("none")),
                     Exchange(p, "w1", "w2", Then("start")) >>
           add == Addition(p)
           end == << RevealSum(p), Exchange(p, "xb1", "xb2", Then("none")) >>
           C == {role[n] : n \in 1 .. 4} \cup {two[n] : n \in 1 .. 2}
                \cup {add[n] : n \in 1 .. Width - 2} \cup {end[n] : n \in 1 .. 2}
<1>1. Script[p] = role \o two \o add \o end
  BY DEF Script
<1>2. role = Role(p)
  BY Parties DEF Role
<1>3. role \in Seq(C) /\ Len(role) = Roles(p)
  <2>1. CASE p = 1
    <3>1. role = RoleP2 /\ Len(role) = 3
      BY <2>1, <1>2 DEF Role, RoleP2
    <3> QED
      BY <2>1, <3>1 DEF RoleP2, Roles
  <2>2. CASE p = 0
    <3>1. role = RoleP1 /\ Len(role) = 4
      BY <2>2, <1>2 DEF Role, RoleP1
    <3> QED
      BY <2>2, <3>1 DEF RoleP1, Roles
  <2>3. CASE p = 2
    <3>1. role = RoleP3 /\ Len(role) = 4
      BY <2>3, <1>2 DEF Role, RoleP3
    <3> QED
      BY <2>3, <3>1 DEF RoleP3, Roles
  <2> QED
    BY <2>1, <2>2, <2>3, Parties
<1>4. two \in Seq(C) /\ Len(two) = 2
  OBVIOUS
<1>5. add \in Seq(C) /\ Len(add) = Width - 2
  <2>1. \A n \in 1 .. Width - 2 : add[n] \in C
    OBVIOUS
  <2>2. Width - 2 \in Nat /\ add = [n \in 1 .. Width - 2 |-> add[n]]
    BY Parties DEF Addition
  <2> HIDE DEF add, C
  <2> QED
    BY <2>1, <2>2
<1>6. end \in Seq(C) /\ Len(end) = 2
  OBVIOUS
<1>7. /\ \A x \in 1 .. Width - 2 : add[x] = Common(p, x + 2)
      /\ two[1] = Common(p, 1) /\ two[2] = Common(p, 2)
      /\ end[1] = Common(p, Width + 1) /\ end[2] = Common(p, Width + 2)
  BY Parties DEF Addition, Common
<1> HIDE DEF role, two, add, end, C
<1>8. Roles(p) \in {3, 4}
  BY DEF Roles
<1>9. /\ role \in Seq(C) /\ two \in Seq(C) /\ add \in Seq(C) /\ end \in Seq(C)
      /\ Script[p] = role \o two \o add \o end
  BY <1>1, <1>3, <1>4, <1>5, <1>6
<1>10. /\ Len(Script[p]) = LastCall(p)
      /\ \A k \in 1 .. Roles(p) : Script[p][k] = Role(p)[k]
  <2>1. /\ Len(Script[p]) = Len(role) + Len(two) + Len(add) + Len(end)
        /\ \A n \in 1 .. Len(role) : Script[p][n] = role[n]
    BY <1>9, FourParts
  <2> QED
    BY <2>1, <1>2, <1>3, <1>4, <1>5, <1>6, <1>8, Parties DEF LastCall
<1>11. /\ \A n \in 1 .. 2 : Script[p][Roles(p) + n] = two[n]
       /\ \A n \in 1 .. Width - 2 : Script[p][Roles(p) + 2 + n] = add[n]
       /\ \A n \in 1 .. 2 : Script[p][Roles(p) + Width + n] = end[n]
  <2>1. Roles(p) + 2 + (Width - 2) = Roles(p) + Width
    BY <1>8, Parties
  <2>2. /\ \A n \in 1 .. Len(two) : Script[p][Len(role) + n] = two[n]
        /\ \A n \in 1 .. Len(add) : Script[p][Len(role) + Len(two) + n] = add[n]
        /\ \A n \in 1 .. Len(end) : Script[p][Len(role) + Len(two) + Len(add) + n] = end[n]
    BY <1>9, FourParts
  <2> QED
    BY <2>1, <2>2, <1>3, <1>4, <1>5, <1>6
<1>12. ASSUME NEW x \in 1 .. Width + 2
       PROVE  Script[p][Roles(p) + x] = Common(p, x)
  <2>1. CASE x \in 1 .. 2
    BY <2>1, <1>7, <1>11
  <2>2. CASE x \in 3 .. Width
    <3>1. x - 2 \in 1 .. Width - 2 /\ Roles(p) + 2 + (x - 2) = Roles(p) + x /\ x - 2 + 2 = x
      BY <2>2, <1>8, Parties
    <3> QED
      BY <3>1, <1>7, <1>11
  <2>3. CASE x \in Width + 1 .. Width + 2
    <3>1. x - Width \in 1 .. 2 /\ Roles(p) + Width + (x - Width) = Roles(p) + x
      BY <2>3, <1>8, Parties
    <3>2. end[x - Width] = Common(p, x)
      BY <2>3, <1>7, Parties
    <3> QED
      BY <3>1, <3>2, <1>11
  <2> QED
    BY <2>1, <2>2, <2>3, Parties
<1> QED
  BY <1>10, <1>12

LEMMA RoleSends ==
  /\ RoleP1[1].sends = {} /\ RoleP1[2].sends = {<<1, "z12">>, <<2, "z13">>}
  /\ RoleP1[3].sends = {} /\ RoleP1[4].sends = {}
  /\ RoleP2[1].sends = {} /\ RoleP2[2].sends = {<<0, "xb2">>} /\ RoleP2[3].sends = {}
  /\ RoleP3[1].sends = {} /\ RoleP3[2].sends = {}
  /\ RoleP3[3].sends = {<<0, "w13">>, <<1, "w2">>} /\ RoleP3[4].sends = {<<1, "r_temp">>}
BY DEF RoleP1, RoleP2, RoleP3, Call

LEMMA RoleRecvs ==
  /\ RoleP1[1].recvs = {} /\ RoleP1[2].recvs = {}
  /\ RoleP1[3].recvs = {<<2, "w13", "w1">>} /\ RoleP1[4].recvs = {<<1, "xb2", "r_temp">>}
  /\ RoleP2[1].recvs = {<<0, "z12", "xa1">>, <<2, "w2", "w1">>}
  /\ RoleP2[2].recvs = {} /\ RoleP2[3].recvs = {<<2, "r_temp", "r_temp2">>}
  /\ RoleP3[1].recvs = {} /\ RoleP3[2].recvs = {<<0, "z13", "xa1">>}
  /\ RoleP3[3].recvs = {} /\ RoleP3[4].recvs = {}
BY DEF RoleP1, RoleP2, RoleP3, Call

\* A call sends a party at most one message, the next of the channel.
SendsNext(p, k, q) ==
  LET sends == Script[p][k].sends
  IN  /\ (\E s \in sends : s[1] = q) => Sent(p, q, k) = Sent(p, q, k - 1) + 1
      /\ ~(\E s \in sends : s[1] = q) => Sent(p, q, k) = Sent(p, q, k - 1)
      /\ \A s \in sends : s[1] = q => s[2] = Name(p, q, Sent(p, q, k))

\* A call receives at most one message from a party, the next of the channel.
RecvsNext(p, k, q) ==
  LET recvs == Script[p][k].recvs
  IN  /\ (\E r \in recvs : r[1] = q) => Taken(q, p, k) = Taken(q, p, k - 1) + 1
      /\ ~(\E r \in recvs : r[1] = q) => Taken(q, p, k) = Taken(q, p, k - 1)
      /\ \A r \in recvs : r[1] = q => r[2] = Name(q, p, Taken(q, p, k))

\* A call is one of the role or one of those that all parties make.
LEMMA CallsCases ==
  ASSUME NEW p \in Party, NEW k \in 1 .. LastCall(p)
  PROVE  \/ k \in 1 .. Roles(p) /\ Script[p][k] = Role(p)[k]
         \/ \E x \in 1 .. Width + 2 : k = Roles(p) + x /\ Script[p][k] = Common(p, x)
<1>1. CASE k <= Roles(p)
  <2>1. k \in 1 .. Roles(p)
    BY <1>1, Parties DEF LastCall, Roles
  <2> QED
    BY <2>1, ScriptLength
<1>2. CASE k > Roles(p)
  <2>1. k - Roles(p) \in 1 .. Width + 2 /\ k = Roles(p) + (k - Roles(p))
    BY <1>2, Parties DEF LastCall, Roles
  <2> QED
    BY <2>1, ScriptLength
<1>3. k \in Nat /\ Roles(p) \in Nat
  BY Parties DEF LastCall, Roles
<1> QED
  BY <1>1, <1>2, <1>3

LEMMA CommonSends ==
  ASSUME NEW p \in Party, NEW x \in 1 .. Width + 2
  PROVE  /\ x # Width + 1 => Common(p, x).sends = {<<Pred(p), ExchangeName(x)>>}
         /\ x = Width + 1 => Common(p, x).sends = IF p = 2 THEN {} ELSE {<<2, "w1">>}
<1>1. x = 1 => Common(p, x).sends = {<<Pred(p), "xa1">>}
  BY DEF Common, Exchange, Call
<1>2. x = 2 => Common(p, x).sends = {<<Pred(p), "w1">>}
  BY DEF Common, Exchange, Call
<1>3. x \in 3 .. Width => Common(p, x).sends = {<<Pred(p), "c1">>}
  BY Parties DEF Common, Exchange, Call
<1>4. x = Width + 2 => Common(p, x).sends = {<<Pred(p), "xb1">>}
  BY Parties DEF Common, Exchange, Call
<1>5. x = Width + 1 => Common(p, x).sends = IF p = 2 THEN {} ELSE {<<2, "w1">>}
  BY Parties DEF Common, RevealSum, Call
<1>6. x = 1 \/ x = 2 \/ x \in 3 .. Width \/ x = Width + 1 \/ x = Width + 2
  BY Parties
<1>7. /\ x = 1 => ExchangeName(x) = "xa1"
      /\ x = 2 => ExchangeName(x) = "w1"
      /\ x \in 3 .. Width => ExchangeName(x) = "c1"
      /\ x = Width + 2 => ExchangeName(x) = "xb1"
  BY Parties DEF ExchangeName
<1> QED
  BY <1>1, <1>2, <1>3, <1>4, <1>5, <1>6, <1>7

LEMMA CommonRecvs ==
  ASSUME NEW p \in Party, NEW x \in 1 .. Width + 2
  PROVE  /\ x # Width + 1 =>
              \E mine : Common(p, x).recvs =
                {<<Succ(p), ExchangeName(x), mine>>}
         /\ x = Width + 1 =>
              Common(p, x).recvs =
                IF p = 2 THEN {<<0, "w1", "xb1">>, <<1, "w1", "xa1">>} ELSE {}
<1>1. x = 1 => Common(p, x).recvs = {<<Succ(p), "xa1", "xa2">>}
  BY DEF Common, Exchange, Call
<1>2. x = 2 => Common(p, x).recvs = {<<Succ(p), "w1", "w2">>}
  BY DEF Common, Exchange, Call
<1>3. x \in 3 .. Width => Common(p, x).recvs = {<<Succ(p), "c1", "c2">>}
  BY Parties DEF Common, Exchange, Call
<1>4. x = Width + 2 => Common(p, x).recvs = {<<Succ(p), "xb1", "xb2">>}
  BY Parties DEF Common, Exchange, Call
<1>5. x = Width + 1 => Common(p, x).recvs =
        IF p = 2 THEN {<<0, "w1", "xb1">>, <<1, "w1", "xa1">>} ELSE {}
  BY Parties DEF Common, RevealSum, Call
<1>6. x = 1 \/ x = 2 \/ x \in 3 .. Width \/ x = Width + 1 \/ x = Width + 2
  BY Parties
<1>7. /\ x = 1 => ExchangeName(x) = "xa1"
      /\ x = 2 => ExchangeName(x) = "w1"
      /\ x \in 3 .. Width => ExchangeName(x) = "c1"
      /\ x = Width + 2 => ExchangeName(x) = "xb1"
  BY Parties DEF ExchangeName
<1>8. x # Width + 1 => \E mine : Common(p, x).recvs = {<<Succ(p), ExchangeName(x), mine>>}
  BY <1>1, <1>2, <1>3, <1>4, <1>6, <1>7
<1> QED
  BY <1>5, <1>8

-----------------------------------------------------------------------------
(* The counts, call by call. *)

LEMMA Counts ==
  ASSUME NEW p \in Party, NEW q \in Party, NEW k \in Nat
  PROVE  Sent(p, q, k) \in Nat /\ Taken(q, p, k) \in Nat
<1>1. \A n \in Nat : Reached(n, k) \in Nat
  BY DEF Reached
<1>2. \A n \in Int : Exchanged(n) \in Nat
  BY Parties DEF Exchanged
<1> QED
  BY <1>1, <1>2, Parties DEF Sent, Taken

One(b) == IF b THEN 1 ELSE 0

LEMMA RoleSent ==
  ASSUME NEW q \in Party
  PROVE  /\ Sent(0, q, 0) = 0 /\ Sent(0, q, 1) = 0 /\ Sent(0, q, 2) = One(q \in {1, 2})
         /\ Sent(0, q, 3) = One(q \in {1, 2}) /\ Sent(0, q, 4) = One(q \in {1, 2})
         /\ Sent(1, q, 0) = 0 /\ Sent(1, q, 1) = 0 /\ Sent(1, q, 2) = One(q = 0)
         /\ Sent(1, q, 3) = One(q = 0)
         /\ Sent(2, q, 0) = 0 /\ Sent(2, q, 1) = 0 /\ Sent(2, q, 2) = 0
         /\ Sent(2, q, 3) = One(q \in {0, 1})
         /\ Sent(2, q, 4) = One(q \in {0, 1}) + One(q = 1)
BY Parties DEF Sent, Reached, Exchanged, One

LEMMA RoleTaken ==
  ASSUME NEW q \in Party
  PROVE  /\ Taken(q, 0, 0) = 0 /\ Taken(q, 0, 1) = 0 /\ Taken(q, 0, 2) = 0
         /\ Taken(q, 0, 3) = One(q = 2) /\ Taken(q, 0, 4) = One(q \in {1, 2})
         /\ Taken(q, 1, 0) = 0 /\ Taken(q, 1, 1) = One(q \in {0, 2})
         /\ Taken(q, 1, 2) = One(q \in {0, 2})
         /\ Taken(q, 1, 3) = One(q \in {0, 2}) + One(q = 2)
         /\ Taken(q, 2, 0) = 0 /\ Taken(q, 2, 1) = 0 /\ Taken(q, 2, 2) = One(q = 0)
         /\ Taken(q, 2, 3) = One(q = 0) /\ Taken(q, 2, 4) = One(q = 0)
BY Parties DEF Taken, Reached, Exchanged, One

LEMMA CommonSent ==
  ASSUME NEW p \in Party, NEW q \in Party, NEW x \in 0 .. Width + 2
  PROVE  Sent(p, q, Roles(p) + x) =
           Sent(p, q, Roles(p)) + One(p # 2 /\ q = 2 /\ x > Width)
           + IF q # Pred(p) THEN 0
             ELSE IF x <= Width THEN x ELSE Width + One(x = Width + 2)
<1>1. CASE p = 0
  BY <1>1, Parties DEF Sent, Roles, Pred, Reached, Exchanged, One
<1>2. CASE p = 1
  BY <1>2, Parties DEF Sent, Roles, Pred, Reached, Exchanged, One
<1>3. CASE p = 2
  BY <1>3, Parties DEF Sent, Roles, Pred, Reached, Exchanged, One
<1> QED
  BY <1>1, <1>2, <1>3, Parties

LEMMA CommonTaken ==
  ASSUME NEW p \in Party, NEW q \in Party, NEW x \in 0 .. Width + 2
  PROVE  Taken(q, p, Roles(p) + x) =
           Taken(q, p, Roles(p)) + One(q # 2 /\ p = 2 /\ x > Width)
           + IF q # Succ(p) THEN 0
             ELSE IF x <= Width THEN x ELSE Width + One(x = Width + 2)
<1>1. CASE p = 0
  BY <1>1, Parties DEF Taken, Roles, Succ, Reached, Exchanged, One
<1>2. CASE p = 1
  BY <1>2, Parties DEF Taken, Roles, Succ, Reached, Exchanged, One
<1>3. CASE p = 2
  BY <1>3, Parties DEF Taken, Roles, Succ, Reached, Exchanged, One
<1> QED
  BY <1>1, <1>2, <1>3, Parties

\* What call k sends is the next message of its channel, for each receiver.
LEMMA SendsAt ==
  ASSUME NEW p \in Party, NEW k \in 1 .. LastCall(p), NEW q \in Party
  PROVE  SendsNext(p, k, q)
<1>1. CASE k \in 1 .. Roles(p) /\ Script[p][k] = Role(p)[k]
  <2>1. CASE p = 0
    <3>1. CASE k = 1
      BY <3>1, <2>1, <1>1, RoleSends, RoleSent DEF SendsNext, Role
    <3>2. CASE k = 2
      <4>1. Script[p][k].sends = {<<1, "z12">>, <<2, "z13">>}
        BY <3>2, <2>1, <1>1, RoleSends DEF Role
      <4>2. Sent(p, q, k - 1) = 0
        BY <3>2, <2>1, RoleSent DEF One
      <4>3. Sent(p, q, k) = IF q \in {1, 2} THEN 1 ELSE 0
        BY <3>2, <2>1, RoleSent, Parties DEF One
      <4> QED
        BY <4>1, <4>2, <4>3, <3>2, <2>1, Parties DEF SendsNext, Name
    <3>3. CASE k = 3
      BY <3>3, <2>1, <1>1, RoleSends, RoleSent DEF SendsNext, Role
    <3>4. CASE k = 4
      BY <3>4, <2>1, <1>1, RoleSends, RoleSent DEF SendsNext, Role
    <3> QED
      BY <2>1, <1>1, <3>1, <3>2, <3>3, <3>4 DEF Roles
  <2>2. CASE p = 1
    <3>1. CASE k = 1
      BY <3>1, <2>2, <1>1, RoleSends, RoleSent DEF SendsNext, Role
    <3>2. CASE k = 2
      <4>1. Script[p][k].sends = {<<0, "xb2">>}
        BY <3>2, <2>2, <1>1, RoleSends DEF Role
      <4>2. Sent(p, q, k - 1) = 0
        BY <3>2, <2>2, RoleSent DEF One
      <4>3. Sent(p, q, k) = IF q \in {0} THEN 1 ELSE 0
        BY <3>2, <2>2, RoleSent, Parties DEF One
      <4> QED
        BY <4>1, <4>2, <4>3, <3>2, <2>2, Parties DEF SendsNext, Name
    <3>3. CASE k = 3
      BY <3>3, <2>2, <1>1, RoleSends, RoleSent DEF SendsNext, Role
    <3> QED
      BY <2>2, <1>1, <3>1, <3>2, <3>3 DEF Roles
  <2>3. CASE p = 2
    <3>1. CASE k = 1
      BY <3>1, <2>3, <1>1, RoleSends, RoleSent DEF SendsNext, Role
    <3>2. CASE k = 2
      BY <3>2, <2>3, <1>1, RoleSends, RoleSent DEF SendsNext, Role
    <3>3. CASE k = 3
      <4>1. Script[p][k].sends = {<<0, "w13">>, <<1, "w2">>}
        BY <3>3, <2>3, <1>1, RoleSends DEF Role
      <4>2. Sent(p, q, k - 1) = 0
        BY <3>3, <2>3, RoleSent DEF One
      <4>3. Sent(p, q, k) = IF q \in {0, 1} THEN 1 ELSE 0
        BY <3>3, <2>3, RoleSent, Parties DEF One
      <4> QED
        BY <4>1, <4>2, <4>3, <3>3, <2>3, Parties DEF SendsNext, Name
    <3>4. CASE k = 4
      <4>1. Script[p][k].sends = {<<1, "r_temp">>}
        BY <3>4, <2>3, <1>1, RoleSends DEF Role
      <4>2. Sent(p, q, k - 1) = IF q \in {0, 1} THEN 1 ELSE 0
        BY <3>4, <2>3, RoleSent DEF One
      <4>3. Sent(p, q, k) = (IF q \in {0, 1} THEN 1 ELSE 0) + IF q \in {1} THEN 1 ELSE 0
        BY <3>4, <2>3, RoleSent, Parties DEF One
      <4> QED
        BY <4>1, <4>2, <4>3, <3>4, <2>3, Parties DEF SendsNext, Name
    <3> QED
      BY <2>3, <1>1, <3>1, <3>2, <3>3, <3>4 DEF Roles
  <2> QED
    BY <2>1, <2>2, <2>3, Parties
<1>2. ASSUME NEW x \in 1 .. Width + 2, k = Roles(p) + x, Script[p][k] = Common(p, x)
      PROVE  SendsNext(p, k, q)
  <2>1. x - 1 \in 0 .. Width + 2 /\ x \in 0 .. Width + 2 /\ k - 1 = Roles(p) + (x - 1)
    BY <1>2, Parties DEF Roles
  <2>2. Sent(p, q, Roles(p)) \in Nat
    BY RoleSent, Parties DEF Roles, One
  <2>3. k - 1 \in Nat /\ Sent(p, q, k - 1) \in Nat
    <3>1. k - 1 \in Nat
      BY <1>2, Parties DEF Roles
    <3> QED
      BY <3>1, Counts
  <2>4. CASE x = Width + 1
    <3>1. Sent(p, q, k) = Sent(p, q, k - 1) + IF p # 2 /\ q = 2 THEN 1 ELSE 0
      <4>1. Sent(p, q, k) = Sent(p, q, Roles(p)) + (IF p # 2 /\ q = 2 THEN 1 ELSE 0) + IF q = Pred(p) THEN Width ELSE 0
        BY <1>2, <2>1, <2>2, <2>4, CommonSent, Parties DEF One
      <4>2. Sent(p, q, k - 1) = Sent(p, q, Roles(p)) + IF q = Pred(p) THEN Width ELSE 0
        BY <1>2, <2>1, <2>2, <2>4, CommonSent, Parties DEF One
      <4> QED
        BY <4>1, <4>2, <2>2, Parties
    <3>2. CASE p = 2
      <4>1. Script[p][k].sends = {}
        BY <1>2, <2>4, <3>2, CommonSends
      <4> QED
        BY <4>1, <3>1, <3>2, <2>3 DEF SendsNext
    <3>3. CASE p # 2
      <4>1. Script[p][k].sends = {<<2, "w1">>}
        BY <1>2, <2>4, <3>3, CommonSends
      <4>2. q = 2 => Name(p, q, Sent(p, q, k)) = "w1"
        BY <1>2, <2>1, <2>4, <3>3, RoleSent, CommonSent, Parties DEF Roles, Name, ExchangeName, One, Pred, Succ
      <4> QED
        BY <4>1, <4>2, <3>1, <3>3, <2>3, Parties DEF SendsNext
    <3> QED
      BY <3>2, <3>3
  <2>5. CASE x # Width + 1
    <3>1. Sent(p, q, k) = Sent(p, q, k - 1) + IF q = Pred(p) THEN 1 ELSE 0
      <4>1. Sent(p, q, k) = Sent(p, q, Roles(p)) + (IF p # 2 /\ q = 2 /\ x > Width THEN 1 ELSE 0)
                    + IF q = Pred(p) THEN IF x <= Width THEN x ELSE Width + 1 ELSE 0
        BY <1>2, <2>1, <2>2, <2>5, CommonSent, Parties DEF One
      <4>2. Sent(p, q, k - 1) = Sent(p, q, Roles(p)) + (IF p # 2 /\ q = 2 /\ x > Width THEN 1 ELSE 0)
                    + IF q = Pred(p) THEN IF x <= Width THEN x - 1 ELSE Width ELSE 0
        BY <1>2, <2>1, <2>2, <2>5, CommonSent, Parties DEF One
      <4> QED
        BY <4>1, <4>2, <2>2, Parties
    <3>2. q = Pred(p) => Name(p, q, Sent(p, q, k)) = ExchangeName(x)
      BY <1>2, <2>1, <2>5, RoleSent, CommonSent, Parties DEF Roles, Name, ExchangeName, One, Pred, Succ
    <3>3. Script[p][k].sends = {<<Pred(p), ExchangeName(x)>>}
      <4>1. Script[p][k].sends = Common(p, x).sends
        BY <1>2
      <4>2. Common(p, x).sends = {<<Pred(p), ExchangeName(x)>>}
        BY <2>5, CommonSends, Zenon
      <4> QED
        BY <4>1, <4>2, Zenon
    <3> QED
      BY <3>1, <3>2, <3>3, <2>3 DEF SendsNext
  <2> QED
    BY <2>4, <2>5
<1> QED
  BY <1>1, <1>2, CallsCases


\* What call k receives is the next message of its channel, for each sender.
LEMMA RecvsAt ==
  ASSUME NEW p \in Party, NEW k \in 1 .. LastCall(p), NEW q \in Party
  PROVE  RecvsNext(p, k, q)
<1>1. CASE k \in 1 .. Roles(p) /\ Script[p][k] = Role(p)[k]
  <2>1. CASE p = 0
    <3>1. CASE k = 1
      BY <3>1, <2>1, <1>1, RoleRecvs, RoleTaken DEF RecvsNext, Role
    <3>2. CASE k = 2
      BY <3>2, <2>1, <1>1, RoleRecvs, RoleTaken DEF RecvsNext, Role
    <3>3. CASE k = 3
      <4>1. Script[p][k].recvs = {<<2, "w13", "w1">>}
        BY <3>3, <2>1, <1>1, RoleRecvs DEF Role
      <4>2. Taken(q, p, k - 1) = 0
        BY <3>3, <2>1, RoleTaken DEF One
      <4>3. Taken(q, p, k) = IF q \in {2} THEN 1 ELSE 0
        BY <3>3, <2>1, RoleTaken, Parties DEF One
      <4> QED
        BY <4>1, <4>2, <4>3, <3>3, <2>1, Parties DEF RecvsNext, Name
    <3>4. CASE k = 4
      <4>1. Script[p][k].recvs = {<<1, "xb2", "r_temp">>}
        BY <3>4, <2>1, <1>1, RoleRecvs DEF Role
      <4>2. Taken(q, p, k - 1) = IF q = 2 THEN 1 ELSE 0
        BY <3>4, <2>1, RoleTaken DEF One
      <4>3. Taken(q, p, k) = (IF q = 2 THEN 1 ELSE 0) + IF q \in {1} THEN 1 ELSE 0
        BY <3>4, <2>1, RoleTaken, Parties DEF One
      <4> QED
        BY <4>1, <4>2, <4>3, <3>4, <2>1, Parties DEF RecvsNext, Name
    <3> QED
      BY <2>1, <1>1, <3>1, <3>2, <3>3, <3>4 DEF Roles
  <2>2. CASE p = 1
    <3>1. CASE k = 1
      <4>1. Script[p][k].recvs = {<<0, "z12", "xa1">>, <<2, "w2", "w1">>}
        BY <3>1, <2>2, <1>1, RoleRecvs DEF Role
      <4>2. Taken(q, p, k - 1) = 0
        BY <3>1, <2>2, RoleTaken DEF One
      <4>3. Taken(q, p, k) = IF q \in {0, 2} THEN 1 ELSE 0
        BY <3>1, <2>2, RoleTaken, Parties DEF One
      <4> QED
        BY <4>1, <4>2, <4>3, <3>1, <2>2, Parties DEF RecvsNext, Name
    <3>2. CASE k = 2
      BY <3>2, <2>2, <1>1, RoleRecvs, RoleTaken DEF RecvsNext, Role
    <3>3. CASE k = 3
      <4>1. Script[p][k].recvs = {<<2, "r_temp", "r_temp2">>}
        BY <3>3, <2>2, <1>1, RoleRecvs DEF Role
      <4>2. Taken(q, p, k - 1) = IF q \in {0, 2} THEN 1 ELSE 0
        BY <3>3, <2>2, RoleTaken DEF One
      <4>3. Taken(q, p, k) = (IF q \in {0, 2} THEN 1 ELSE 0) + IF q \in {2} THEN 1 ELSE 0
        BY <3>3, <2>2, RoleTaken, Parties DEF One
      <4> QED
        BY <4>1, <4>2, <4>3, <3>3, <2>2, Parties DEF RecvsNext, Name
    <3> QED
      BY <2>2, <1>1, <3>1, <3>2, <3>3 DEF Roles
  <2>3. CASE p = 2
    <3>1. CASE k = 1
      BY <3>1, <2>3, <1>1, RoleRecvs, RoleTaken DEF RecvsNext, Role
    <3>2. CASE k = 2
      <4>1. Script[p][k].recvs = {<<0, "z13", "xa1">>}
        BY <3>2, <2>3, <1>1, RoleRecvs DEF Role
      <4>2. Taken(q, p, k - 1) = 0
        BY <3>2, <2>3, RoleTaken DEF One
      <4>3. Taken(q, p, k) = IF q \in {0} THEN 1 ELSE 0
        BY <3>2, <2>3, RoleTaken, Parties DEF One
      <4> QED
        BY <4>1, <4>2, <4>3, <3>2, <2>3, Parties DEF RecvsNext, Name
    <3>3. CASE k = 3
      BY <3>3, <2>3, <1>1, RoleRecvs, RoleTaken DEF RecvsNext, Role
    <3>4. CASE k = 4
      BY <3>4, <2>3, <1>1, RoleRecvs, RoleTaken DEF RecvsNext, Role
    <3> QED
      BY <2>3, <1>1, <3>1, <3>2, <3>3, <3>4 DEF Roles
  <2> QED
    BY <2>1, <2>2, <2>3, Parties
<1>2. ASSUME NEW x \in 1 .. Width + 2, k = Roles(p) + x, Script[p][k] = Common(p, x)
      PROVE  RecvsNext(p, k, q)
  <2>1. x - 1 \in 0 .. Width + 2 /\ x \in 0 .. Width + 2 /\ k - 1 = Roles(p) + (x - 1)
    BY <1>2, Parties DEF Roles
  <2>2. Taken(q, p, Roles(p)) \in Nat
    BY RoleTaken, Parties DEF Roles, One
  <2>3. k - 1 \in Nat /\ Taken(q, p, k - 1) \in Nat
    <3>1. k - 1 \in Nat
      BY <1>2, Parties DEF Roles
    <3> QED
      BY <3>1, Counts
  <2>4. CASE x = Width + 1
    <3>1. Taken(q, p, k) = Taken(q, p, k - 1) + IF p = 2 /\ q # 2 THEN 1 ELSE 0
      <4>1. Taken(q, p, k) = Taken(q, p, Roles(p)) + (IF p = 2 /\ q # 2 THEN 1 ELSE 0) + IF q = Succ(p) THEN Width ELSE 0
        BY <1>2, <2>1, <2>2, <2>4, CommonTaken, Parties DEF One
      <4>2. Taken(q, p, k - 1) = Taken(q, p, Roles(p)) + IF q = Succ(p) THEN Width ELSE 0
        BY <1>2, <2>1, <2>2, <2>4, CommonTaken, Parties DEF One
      <4> QED
        BY <4>1, <4>2, <2>2, Parties
    <3>2. CASE p # 2
      <4>1. Script[p][k].recvs = {}
        BY <1>2, <2>4, <3>2, CommonRecvs
      <4> QED
        BY <4>1, <3>1, <3>2, <2>3 DEF RecvsNext
    <3>3. CASE p = 2
      <4>1. Script[p][k].recvs = {<<0, "w1", "xb1">>, <<1, "w1", "xa1">>}
        BY <1>2, <2>4, <3>3, CommonRecvs
      <4>2. q # 2 => Name(q, p, Taken(q, p, k)) = "w1"
        BY <1>2, <2>1, <2>4, <3>3, RoleTaken, CommonTaken, Parties DEF Roles, Name, ExchangeName, One, Pred, Succ
      <4> QED
        BY <4>1, <4>2, <3>1, <3>3, <2>3, Parties DEF RecvsNext
    <3> QED
      BY <3>2, <3>3
  <2>5. CASE x # Width + 1
    <3>1. Taken(q, p, k) = Taken(q, p, k - 1) + IF q = Succ(p) THEN 1 ELSE 0
      <4>1. Taken(q, p, k) = Taken(q, p, Roles(p)) + (IF p = 2 /\ q # 2 /\ x > Width THEN 1 ELSE 0)
                    + IF q = Succ(p) THEN IF x <= Width THEN x ELSE Width + 1 ELSE 0
        BY <1>2, <2>1, <2>2, <2>5, CommonTaken, Parties DEF One
      <4>2. Taken(q, p, k - 1) = Taken(q, p, Roles(p)) + (IF p = 2 /\ q # 2 /\ x > Width THEN 1 ELSE 0)
                    + IF q = Succ(p) THEN IF x <= Width THEN x - 1 ELSE Width ELSE 0
        BY <1>2, <2>1, <2>2, <2>5, CommonTaken, Parties DEF One
      <4> QED
        BY <4>1, <4>2, <2>2, Parties
    <3>2. q = Succ(p) => Name(q, p, Taken(q, p, k)) = ExchangeName(x)
      BY <1>2, <2>1, <2>5, RoleTaken, CommonTaken, Parties DEF Roles, Name, ExchangeName, One, Pred, Succ
    <3>3. \E mine : Script[p][k].recvs = {<<Succ(p), ExchangeName(x), mine>>}
      <4>1. Script[p][k].recvs = Common(p, x).recvs
        BY <1>2
      <4>2. \E mine : Common(p, x).recvs = {<<Succ(p), ExchangeName(x), mine>>}
        BY <2>5, CommonRecvs, Zenon
      <4> QED
        BY <4>1, <4>2, Zenon
    <3> QED
      BY <3>1, <3>2, <3>3, <2>3 DEF RecvsNext
  <2> QED
    BY <2>4, <2>5
<1> QED
  BY <1>1, <1>2, CallsCases

\* The words drawn between two calls.
LEMMA DrawsAt ==
  ASSUME NEW p \in Party, NEW k \in 1 .. LastCall(p)
  PROVE  /\ DrawsFor(Script[p][k].then) \in Nat
         /\ Draws(p, k + 1) = Draws(p, k) + DrawsFor(Script[p][k].then)
<1>1. CASE k \in 1 .. Roles(p) /\ Script[p][k] = Role(p)[k]
  <2>1. CASE p = 0
    <3>1. /\ DrawsFor(RoleP1[1].then) = 0 /\ DrawsFor(RoleP1[2].then) = 0
          /\ DrawsFor(RoleP1[3].then) = 1 /\ DrawsFor(RoleP1[4].then) = 1
      BY DEF RoleP1, Call, Then, DrawsFor, DrawsPair
    <3> QED
      BY <2>1, <1>1, <3>1 DEF Role, Roles, Draws, Reached
  <2>2. CASE p = 1
    <3>1. /\ DrawsFor(RoleP2[1].then) = 1 /\ DrawsFor(RoleP2[2].then) = 1
          /\ DrawsFor(RoleP2[3].then) = 0
      BY DEF RoleP2, Call, Then, DrawsFor, DrawsPair
    <3> QED
      BY <2>2, <1>1, <3>1 DEF Role, Roles, Draws, Reached
  <2>3. CASE p = 2
    <3>1. /\ DrawsFor(RoleP3[1].then) = 0 /\ DrawsFor(RoleP3[2].then) = 0
          /\ DrawsFor(RoleP3[3].then) = 2 /\ DrawsFor(RoleP3[4].then) = 0
      BY DEF RoleP3, Call, Then, DrawsFor, DrawsPair
    <3> QED
      BY <2>3, <1>1, <3>1 DEF Role, Roles, Draws, Reached
  <2> QED
    BY <2>1, <2>2, <2>3, Parties
<1>2. ASSUME NEW x \in 1 .. Width + 2, k = Roles(p) + x, Script[p][k] = Common(p, x)
      PROVE  /\ DrawsFor(Script[p][k].then) \in Nat
             /\ Draws(p, k + 1) = Draws(p, k) + DrawsFor(Script[p][k].then)
  <2>1. DrawsFor(Common(p, x).then) = IF x = 2 THEN 1 ELSE IF x \in 3 .. Width THEN 3 ELSE 0
    <3>1. x = 1 => DrawsFor(Common(p, x).then) = 0
      BY DEF Common, Exchange, Call, Then, DrawsFor, DrawsPair
    <3>2. x = 2 => DrawsFor(Common(p, x).then) = 1
      BY DEF Common, Exchange, Call, Then, DrawsFor, DrawsPair
    <3>3. x \in 3 .. Width => DrawsFor(Common(p, x).then) = 3
      BY Parties DEF Common, Exchange, Call, Then, DrawsFor, DrawsPair
    <3>4. x = Width + 1 => DrawsFor(Common(p, x).then) = 0
      BY Parties DEF Common, RevealSum, Call, Then, DrawsFor, DrawsPair
    <3>5. x = Width + 2 => DrawsFor(Common(p, x).then) = 0
      BY Parties DEF Common, Exchange, Call, Then, DrawsFor, DrawsPair
    <3> QED
      BY <3>1, <3>2, <3>3, <3>4, <3>5, Parties
  <2>2. CASE p = 0
    BY <2>1, <2>2, <1>2, Parties DEF Draws, Reached, Roles
  <2>3. CASE p = 1
    BY <2>1, <2>3, <1>2, Parties DEF Draws, Reached, Roles
  <2>4. CASE p = 2
    BY <2>1, <2>4, <1>2, Parties DEF Draws, Reached, Roles
  <2> QED
    BY <2>2, <2>3, <2>4, Parties
<1> QED
  BY <1>1, <1>2, CallsCases

-----------------------------------------------------------------------------
(* The invariant holds. *)

LEMMA InvInit == Init => Inv
<1> SUFFICES ASSUME Init PROVE Inv
  OBVIOUS
<1>1. ASSUME NEW p \in Party
      PROVE  /\ pc[p] = 1 /\ got[p] = {} /\ drawn[p] = 0
             /\ pc[p] \in 1 .. LastCall(p) + 1 /\ Draws(p, 1) = 0
  BY Parties DEF Init, LastCall, Roles, Draws, Reached
<1>2. CallsHeld
  BY <1>1, Parties, ConvertAssumption DEF CallsHeld, Init
<1>3. ASSUME NEW q \in Party, NEW p \in Party
      PROVE  ChannelHeld(q, p)
  <2>1. channel[<<q, p>>] = <<>> /\ channel[<<q, p>>] \in Seq({})
    BY DEF Init
  <2>2. Sent(q, p, 1) = 0 /\ Taken(q, p, 0) = 0
    BY RoleSent, RoleTaken, Parties
  <2>3. pc[q] = 1 /\ TakenNow(q, p) = 0
    BY <2>2, <1>1 DEF TakenNow
  <2>4. \E S : channel[<<q, p>>] \in Seq(S)
    BY <2>1
  <2> QED
    BY <2>1, <2>2, <2>3, <2>4 DEF ChannelHeld
<1> QED
  BY <1>2, <1>3 DEF Inv, ChannelsHeld, Init

\* What a party's call is in its script.
LEMMA CurrentAt ==
  ASSUME CallsHeld, NEW p \in Party
  PROVE  /\ Running(p) <=> pc[p] \in 1 .. LastCall(p)
         /\ pc[p] \in Nat /\ pc[p] >= 1 /\ LastCall(p) \in Nat
<1>1. LastCall(p) \in Nat
  BY Parties DEF LastCall, Roles
<1> QED
  BY <1>1, ScriptLength DEF CallsHeld, Running

LEMMA Partners ==
  ASSUME NEW p \in Party, NEW k \in 1 .. LastCall(p)
  PROVE  /\ \A r \in Script[p][k].recvs : r[1] \in Party
         /\ \A s \in Script[p][k].sends : s[1] \in Party
<1>1. CASE k \in 1 .. Roles(p) /\ Script[p][k] = Role(p)[k]
  <2>1. CASE p = 0
    BY <2>1, <1>1, RoleRecvs, RoleSends, Parties DEF Role, Roles
  <2>2. CASE p = 1
    BY <2>2, <1>1, RoleRecvs, RoleSends, Parties DEF Role, Roles
  <2>3. CASE p = 2
    BY <2>3, <1>1, RoleRecvs, RoleSends, Parties DEF Role, Roles
  <2> QED
    BY <2>1, <2>2, <2>3, Parties
<1>2. ASSUME NEW x \in 1 .. Width + 2, k = Roles(p) + x, Script[p][k] = Common(p, x)
      PROVE  /\ \A r \in Script[p][k].recvs : r[1] \in Party
             /\ \A s \in Script[p][k].sends : s[1] \in Party
  <2>1. CASE x = Width + 1
    <3>1. Script[p][k].recvs \subseteq {<<0, "w1", "xb1">>, <<1, "w1", "xa1">>}
      BY <1>2, <2>1, CommonRecvs
    <3>2. Script[p][k].sends \subseteq {<<2, "w1">>}
      BY <1>2, <2>1, CommonSends
    <3> QED
      BY <3>1, <3>2, Parties
  <2>2. CASE x # Width + 1
    <3>1. PICK mine : Common(p, x).recvs = {<<Succ(p), ExchangeName(x), mine>>}
      BY <2>2, CommonRecvs, Zenon
    <3>2. Common(p, x).sends = {<<Pred(p), ExchangeName(x)>>}
      BY <2>2, CommonSends
    <3>3. Succ(p) \in Party /\ Pred(p) \in Party
      BY Parties DEF Succ, Pred
    <3> QED
      BY <3>1, <3>2, <3>3, <1>2
  <2> QED
    BY <2>1, <2>2
<1> QED
  BY <1>1, <1>2, CallsCases

\* A message that a party can take is the next of its channel.
LEMMA AwaitedIsNext ==
  ASSUME Inv, NEW p \in Party, Running(p), NEW r \in Awaited(p)
  PROVE  /\ r[1] \in Party /\ r[1] \in Senders(p) /\ r[1] \notin got[p]
         /\ TakenNow(r[1], p) + 1 = Taken(r[1], p, pc[p])
         /\ r[2] = Name(r[1], p, TakenNow(r[1], p) + 1)
         /\ channel[<<r[1], p>>] # <<>>
<1>1. pc[p] \in 1 .. LastCall(p)
  BY CurrentAt DEF Inv
<1>2. r \in Script[p][pc[p]].recvs /\ r[1] \notin got[p] /\ channel[<<r[1], p>>] # <<>>
  BY DEF Awaited, Current
<1>3. r[1] \in Party /\ r[1] \in Senders(p)
  BY <1>1, <1>2, Partners DEF Senders, Current
<1>4. /\ Taken(r[1], p, pc[p]) = Taken(r[1], p, pc[p] - 1) + 1
      /\ r[2] = Name(r[1], p, Taken(r[1], p, pc[p]))
  BY <1>1, <1>2, <1>3, RecvsAt DEF RecvsNext
<1>5. pc[p] - 1 \in Nat
  BY CurrentAt DEF Inv
<1>6. Taken(r[1], p, pc[p] - 1) \in Nat
  BY <1>3, <1>5, Counts
<1>7. TakenNow(r[1], p) = Taken(r[1], p, pc[p] - 1)
  BY <1>2, <1>6 DEF TakenNow
<1> QED
  BY <1>2, <1>3, <1>4, <1>7

LEMMA InvMatched == Inv => Matched
<1> SUFFICES ASSUME Inv, NEW p \in Party, Running(p), NEW r \in Awaited(p)
             PROVE  Head(channel[<<r[1], p>>]).array = r[2]
  BY DEF Matched
<1>1. /\ r[1] \in Party /\ channel[<<r[1], p>>] # <<>>
      /\ r[2] = Name(r[1], p, TakenNow(r[1], p) + 1)
  BY AwaitedIsNext
<1>2. ChannelHeld(r[1], p)
  BY <1>1 DEF Inv, ChannelsHeld
<1> DEFINE s == channel[<<r[1], p>>]
<1>3. PICK S : s \in Seq(S)
  BY <1>2 DEF ChannelHeld
<1>4. Head(s) = s[1] /\ 1 \in 1 .. Len(s)
  BY <1>1, <1>3
<1> QED
  BY <1>1, <1>2, <1>4 DEF ChannelHeld

LEMMA RecvKeeps ==
  ASSUME Inv, NEW p \in Party, Recv(p)
  PROVE  Inv'
<1>1. PICK r \in Awaited(p) :
        /\ channel' = [channel EXCEPT ![<<r[1], p>>] = Tail(@)]
        /\ got' = [got EXCEPT ![p] = @ \cup {r[1]}]
  BY DEF Recv
<1>2. Running(p) /\ pc' = pc /\ drawn' = drawn /\ eager' = eager
  BY DEF Recv
<1>3. /\ r[1] \in Party /\ r[1] \in Senders(p) /\ r[1] \notin got[p]
      /\ channel[<<r[1], p>>] # <<>>
  BY <1>2, AwaitedIsNext
<1>4. got \in [Party -> SUBSET Party] /\ got[p] \subseteq Senders(p)
  BY <1>2 DEF Inv, CallsHeld
<1>5. \A o \in Party : Senders(o)' = Senders(o) /\ Running(o)' = Running(o)
  BY <1>2 DEF Senders, Current, Running
<1>6. CallsHeld'
  <2>1. \A o \in Party : got'[o] = IF o = p THEN got[p] \cup {r[1]} ELSE got[o]
    BY <1>1, <1>4
  <2>2. got' \in [Party -> SUBSET Party]
    BY <1>1, <1>3, <1>4
  <2> QED
    BY <2>1, <2>2, <1>2, <1>3, <1>4, <1>5 DEF Inv, CallsHeld
<1>7. channel' = [c \in Party \X Party |-> channel'[c]]
  BY <1>1 DEF Inv, ChannelsHeld
<1>8. ASSUME NEW q \in Party, NEW o \in Party
      PROVE  ChannelHeld(q, o)'
  <2> DEFINE s == channel[<<q, o>>]
  <2>1. ChannelHeld(q, o)
    BY DEF Inv, ChannelsHeld
  <2>2. CASE q = r[1] /\ o = p
    <3>1. channel'[<<q, o>>] = Tail(s) /\ s # <<>>
      BY <2>2, <1>1, <1>3 DEF Inv, ChannelsHeld
    <3>2. Taken(q, o, pc[o] - 1) \in Nat
      <4>1. pc[o] - 1 \in Nat
        BY CurrentAt DEF Inv
      <4> QED
        BY <4>1, Counts
    <3>3. TakenNow(q, o)' = TakenNow(q, o) + 1 /\ TakenNow(q, o) \in Nat
      BY <2>2, <3>2, <1>1, <1>2, <1>3, <1>4 DEF TakenNow
    <3>4. PICK S : s \in Seq(S)
      BY <2>1 DEF ChannelHeld
    <3>5. /\ Tail(s) \in Seq(S) /\ Len(Tail(s)) = Len(s) - 1 /\ Len(s) \in Nat
          /\ \A n \in 1 .. Len(Tail(s)) : Tail(s)[n] = s[n + 1] /\ n + 1 \in 1 .. Len(s)
      BY <3>1, <3>4
    <3>6. Len(s) = Sent(q, o, pc[q]) - TakenNow(q, o) /\ Sent(q, o, pc[q]) \in Nat
      BY <2>1, CurrentAt, Counts DEF ChannelHeld, Inv
    <3>7. \A n \in 1 .. Len(Tail(s)) :
            Tail(s)[n].array = Name(q, o, TakenNow(q, o) + 1 + n)
      <4> TAKE n \in 1 .. Len(Tail(s))
      <4>1. s[n + 1].array = Name(q, o, TakenNow(q, o) + (n + 1))
        BY <3>5, <2>1 DEF ChannelHeld
      <4>2. TakenNow(q, o) + (n + 1) = TakenNow(q, o) + 1 + n
        BY <3>3
      <4> QED
        BY <4>1, <4>2, <3>5
    <3> HIDE DEF s
    <3>8. Len(Tail(s)) = Sent(q, o, pc[q]) - (TakenNow(q, o) + 1)
      BY <3>3, <3>5, <3>6
    <3> QED
      BY <3>1, <3>3, <3>5, <3>7, <3>8, <1>2 DEF ChannelHeld
  <2>3. CASE ~(q = r[1] /\ o = p)
    <3>1. channel'[<<q, o>>] = channel[<<q, o>>]
      BY <2>3, <1>1 DEF Inv, ChannelsHeld
    <3>2. q \in got'[o] <=> q \in got[o]
      BY <2>3, <1>1, <1>4
    <3>3. TakenNow(q, o)' = TakenNow(q, o)
      BY <3>2, <1>2 DEF TakenNow
    <3> QED
      BY <3>1, <3>3, <2>1, <1>2 DEF ChannelHeld
  <2> QED
    BY <2>2, <2>3
<1> QED
  BY <1>6, <1>7, <1>8 DEF Inv, ChannelsHeld

-----------------------------------------------------------------------------
(* A party returns from its call. *)

LEMMA SentLast ==
  ASSUME NEW p \in Party, NEW q \in Party
  PROVE  Sent(p, q, LastCall(p) + 1) = Sent(p, q, LastCall(p))
BY Parties DEF Sent, LastCall, Roles, Reached, Exchanged

\* Its messages for the next call.
Posts(p) == IF pc[p] = LastCall(p) THEN {} ELSE Script[p][pc[p] + 1].sends

LEMMA ReturnPosts ==
  ASSUME Inv, NEW p \in Party, Return(p)
  PROVE  \E m : channel' = [c \in Party \X Party |->
                 IF c[1] = p /\ \E s \in Posts(p) : s[1] = c[2]
                 THEN Append(channel[c],
                             LET s == CHOOSE s \in Posts(p) : s[1] = c[2]
                             IN  [array |-> s[2], word |-> m[s[2]]])
                 ELSE channel[c]]
<1> DEFINE sends == IF pc[p] + 1 > Len(Script[p]) THEN {} ELSE Script[p][pc[p] + 1].sends
           Posted(m) == channel' = [c \in Party \X Party |->
                          IF c[1] = p /\ \E s \in sends : s[1] = c[2]
                          THEN Append(channel[c],
                                      LET s == CHOOSE s \in sends : s[1] = c[2]
                                      IN  [array |-> s[2], word |-> m[s[2]]])
                          ELSE channel[c]]
<1>1. pc[p] \in 1 .. LastCall(p) /\ Len(Script[p]) = LastCall(p) /\ LastCall(p) \in Nat
  BY CurrentAt, ScriptLength DEF Inv, Return
<1>2. PICK r \in Dealt(Current(p).then) :
        \E m \in {After(p, mem[p], drawn[p], Current(p).then, r)} : Posted(m)
  BY Zenon DEF Return
<1>3. PICK m \in {After(p, mem[p], drawn[p], Current(p).then, r)} : Posted(m)
  BY <1>2
<1>4. Posts(p) = sends
  BY <1>1 DEF Posts
<1> HIDE DEF sends
<1> QED
  BY <1>3, <1>4

LEMMA ReturnSends ==
  ASSUME Inv, NEW p \in Party, Return(p), NEW q \in Party
  PROVE  \/ /\ channel'[<<p, q>>] = channel[<<p, q>>]
            /\ Sent(p, q, pc[p] + 1) = Sent(p, q, pc[p])
         \/ \E msg : /\ channel'[<<p, q>>] = Append(channel[<<p, q>>], msg)
                     /\ msg.array = Name(p, q, Sent(p, q, pc[p] + 1))
                     /\ Sent(p, q, pc[p] + 1) = Sent(p, q, pc[p]) + 1
<1>1. pc[p] \in 1 .. LastCall(p) /\ LastCall(p) \in Nat
  BY CurrentAt DEF Inv, Return
<1>2. PICK m : channel' = [c \in Party \X Party |->
                 IF c[1] = p /\ \E s \in Posts(p) : s[1] = c[2]
                 THEN Append(channel[c],
                             LET s == CHOOSE s \in Posts(p) : s[1] = c[2]
                             IN  [array |-> s[2], word |-> m[s[2]]])
                 ELSE channel[c]]
  BY ReturnPosts
<1>4. CASE \E s \in Posts(p) : s[1] = q
  <2> DEFINE s0 == CHOOSE s \in Posts(p) : s[1] = q
             msg == [array |-> s0[2], word |-> m[s0[2]]]
  <2>1. s0 \in Posts(p) /\ s0[1] = q
    BY <1>4
  <2>2. channel'[<<p, q>>] = Append(channel[<<p, q>>], msg)
    BY <1>2, <1>4
  <2>3. PICK k \in 1 .. LastCall(p) :
          k = pc[p] + 1 /\ k - 1 = pc[p] /\ Posts(p) = Script[p][k].sends
    BY <1>1, <1>4 DEF Posts
  <2>4. msg.array = s0[2]
    OBVIOUS
  <2> HIDE DEF s0, msg
  <2>5. SendsNext(p, k, q)
    BY SendsAt
  <2>6. Sent(p, q, k) = Sent(p, q, k - 1) + 1 /\ s0[2] = Name(p, q, Sent(p, q, k))
    BY <2>1, <2>3, <2>5 DEF SendsNext
  <2> QED
    BY <2>2, <2>3, <2>4, <2>6
<1>5. CASE ~\E s \in Posts(p) : s[1] = q
  <2>1. channel'[<<p, q>>] = channel[<<p, q>>]
    BY <1>2, <1>5
  <2>2. CASE pc[p] = LastCall(p)
    BY <2>1, <2>2, SentLast
  <2>3. CASE pc[p] # LastCall(p)
    <3>1. PICK k \in 1 .. LastCall(p) :
            k = pc[p] + 1 /\ k - 1 = pc[p] /\ Posts(p) = Script[p][k].sends
      BY <2>3, <1>1 DEF Posts
    <3>2. SendsNext(p, k, q)
      BY SendsAt
    <3>3. Sent(p, q, k) = Sent(p, q, k - 1)
      BY <3>1, <3>2, <1>5 DEF SendsNext
    <3> QED
      BY <2>1, <3>1, <3>3
  <2> QED
    BY <2>2, <2>3
<1> QED
  BY <1>4, <1>5

LEMMA ReturnMoves ==
  ASSUME Inv, NEW p \in Party, Return(p)
  PROVE  /\ pc[p] \in 1 .. LastCall(p) /\ pc[p] - 1 \in Nat
         /\ pc' = [pc EXCEPT ![p] = @ + 1] /\ got' = [got EXCEPT ![p] = {}]
         /\ drawn' = [drawn EXCEPT ![p] = @ + DrawsFor(Script[p][pc[p]].then)]
         /\ \A r \in Script[p][pc[p]].recvs : r[1] \in got[p]
         /\ \A q, o \in Party : q # p =>
              channel'[<<q, o>>] = channel[<<q, o>>]
         /\ channel' = [c \in Party \X Party |-> channel'[c]]
<1>1. Running(p)
  BY DEF Return
<1>2. pc[p] \in 1 .. LastCall(p) /\ pc[p] - 1 \in Nat
  BY <1>1, CurrentAt DEF Inv
<1>3. pc' = [pc EXCEPT ![p] = @ + 1] /\ got' = [got EXCEPT ![p] = {}]
  BY DEF Return
<1>4. drawn' = [drawn EXCEPT ![p] = @ + DrawsFor(Script[p][pc[p]].then)]
  BY DEF Return, Current
<1>5. \A r \in Script[p][pc[p]].recvs : r[1] \in got[p]
  BY DEF Return, Waited, Current
<1>6. \E f : channel' = [c \in Party \X Party |-> IF c[1] = p THEN f[c] ELSE channel[c]]
  <2>1. PICK m : channel' = [c \in Party \X Party |->
                 IF c[1] = p /\ \E s \in Posts(p) : s[1] = c[2]
                 THEN Append(channel[c],
                             LET s == CHOOSE s \in Posts(p) : s[1] = c[2]
                             IN  [array |-> s[2], word |-> m[s[2]]])
                 ELSE channel[c]]
    BY ReturnPosts
  <2> DEFINE f == channel'
  <2>2. channel' = [c \in Party \X Party |-> IF c[1] = p THEN f[c] ELSE channel[c]]
    BY <2>1
  <2> QED
    BY <2>2
<1>7. /\ \A q, o \in Party : q # p =>
           channel'[<<q, o>>] = channel[<<q, o>>]
      /\ channel' = [c \in Party \X Party |-> channel'[c]]
  BY <1>6
<1> QED
  BY <1>2, <1>3, <1>4, <1>5, <1>7

LEMMA ReturnTakes ==
  ASSUME Inv, NEW p \in Party, Return(p), NEW q \in Party, NEW o \in Party
  PROVE  TakenNow(q, o)' = TakenNow(q, o)
<1>1. pc \in [Party -> Nat] /\ got \in [Party -> SUBSET Party]
  BY DEF Inv, CallsHeld
<1>2. CASE o # p
  <2>1. pc'[o] = pc[o] /\ got'[o] = got[o]
    BY <1>1, <1>2, ReturnMoves
  <2> QED
    BY <2>1 DEF TakenNow
<1>3. CASE o = p
  <2>1. pc'[p] - 1 = pc[p] /\ q \notin got'[p]
    BY <1>1, ReturnMoves
  <2>2. got[p] \subseteq Senders(p)
    BY DEF Inv, CallsHeld, Return
  <2>3. q \in got[p] <=> \E r \in Script[p][pc[p]].recvs : r[1] = q
    BY <2>2, ReturnMoves DEF Senders, Current
  <2>4. pc[p] \in 1 .. LastCall(p) /\ pc[p] - 1 \in Nat /\ pc[p] \in Nat
    BY <1>1, ReturnMoves
  <2>5. Taken(q, p, pc[p] - 1) \in Nat /\ Taken(q, p, pc[p]) \in Nat
    BY <2>4, Counts
  <2>6. RecvsNext(p, pc[p], q)
    BY <2>4, RecvsAt
  <2>7. Taken(q, p, pc[p]) = Taken(q, p, pc[p] - 1) + IF q \in got[p] THEN 1 ELSE 0
    BY <2>3, <2>5, <2>6 DEF RecvsNext
  <2>8. TakenNow(q, p)' = Taken(q, p, pc[p])
    BY <2>1, <2>5 DEF TakenNow
  <2> QED
    BY <1>3, <2>7, <2>8 DEF TakenNow
<1> QED
  BY <1>2, <1>3

LEMMA ReturnKeeps ==
  ASSUME Inv, NEW p \in Party, Return(p)
  PROVE  Inv'
<1>1. /\ pc \in [Party -> Nat] /\ got \in [Party -> SUBSET Party]
      /\ drawn \in [Party -> Nat]
  BY DEF Inv, CallsHeld
<1>2. pc[p] \in 1 .. LastCall(p) /\ LastCall(p) \in Nat
  BY ReturnMoves, CurrentAt DEF Inv
<1>3. CallsHeld'
  <2>1. /\ DrawsFor(Script[p][pc[p]].then) \in Nat
        /\ Draws(p, pc[p] + 1) = Draws(p, pc[p]) + DrawsFor(Script[p][pc[p]].then)
    BY <1>2, DrawsAt
  <2>2. /\ pc' \in [Party -> Nat] /\ got' \in [Party -> SUBSET Party]
        /\ drawn' \in [Party -> Nat]
    BY <1>1, <2>1, ReturnMoves
  <2>3. ASSUME NEW o \in Party
        PROVE  /\ pc'[o] \in 1 .. LastCall(o) + 1
               /\ got'[o] \subseteq IF Running(o)' THEN Senders(o)' ELSE {}
               /\ drawn'[o] = Draws(o, pc'[o])
    <3>1. CASE o = p
      <4>1. pc'[p] = pc[p] + 1 /\ got'[p] = {}
            /\ drawn'[p] = drawn[p] + DrawsFor(Script[p][pc[p]].then)
        BY <1>1, ReturnMoves
      <4>2. drawn[p] = Draws(p, pc[p])
        BY DEF Inv, CallsHeld
      <4> QED
        BY <3>1, <4>1, <4>2, <1>2, <2>1
    <3>2. CASE o # p
      <4>1. pc'[o] = pc[o] /\ got'[o] = got[o] /\ drawn'[o] = drawn[o]
        BY <3>2, <1>1, ReturnMoves
      <4>2. (Running(o)' <=> Running(o)) /\ Senders(o)' = Senders(o)
        BY <4>1 DEF Running, Senders, Current
      <4> QED
        BY <4>1, <4>2 DEF Inv, CallsHeld
    <3> QED
      BY <3>1, <3>2
  <2> QED
    BY <2>2, <2>3 DEF CallsHeld, Inv, Return
<1>4. ASSUME NEW q \in Party, NEW o \in Party
      PROVE  ChannelHeld(q, o)'
  <2> DEFINE s == channel[<<q, o>>]
             taken == TakenNow(q, o)
  <2>1. ChannelHeld(q, o)
    BY DEF Inv, ChannelsHeld
  <2>2. TakenNow(q, o)' = taken
    BY ReturnTakes
  <2>3. taken \in Nat
    <3>1. pc[o] - 1 \in Nat
      BY CurrentAt DEF Inv
    <3>2. Taken(q, o, pc[o] - 1) \in Nat
      BY <3>1, Counts
    <3> QED
      BY <3>2 DEF TakenNow
  <2>4. CASE q # p
    <3>1. channel'[<<q, o>>] = s /\ pc'[q] = pc[q]
      BY <2>4, <1>1, ReturnMoves
    <3> QED
      BY <3>1, <2>1, <2>2 DEF ChannelHeld
  <2>5. CASE q = p /\ channel'[<<q, o>>] = s /\ Sent(q, o, pc[q] + 1) = Sent(q, o, pc[q])
    <3>1. pc'[q] = pc[q] + 1
      BY <2>5, <1>1, ReturnMoves
    <3> QED
      BY <3>1, <2>1, <2>2, <2>5 DEF ChannelHeld
  <2>6. ASSUME q = p, NEW msg, channel'[<<q, o>>] = Append(s, msg),
               msg.array = Name(q, o, Sent(q, o, pc[q] + 1)),
               Sent(q, o, pc[q] + 1) = Sent(q, o, pc[q]) + 1
        PROVE  ChannelHeld(q, o)'
    <3>1. pc'[q] = pc[q] + 1 /\ pc[q] \in Nat
      BY <2>6, <1>1, ReturnMoves
    <3>2. PICK S : s \in Seq(S)
      BY <2>1 DEF ChannelHeld
    <3>3. s \in Seq(S \cup {msg}) /\ msg \in S \cup {msg}
      BY <3>2
    <3> DEFINE t == Append(s, msg)
    <3>4. /\ t \in Seq(S \cup {msg}) /\ Len(t) = Len(s) + 1 /\ Len(s) \in Nat
          /\ \A n \in 1 .. Len(t) : t[n] = IF n = Len(s) + 1 THEN msg ELSE s[n]
      BY <3>3
    <3>5. Sent(q, o, pc[q]) \in Nat /\ Len(s) = Sent(q, o, pc[q]) - taken
      BY <3>1, <2>1, Counts DEF ChannelHeld
    <3>6. /\ \A n \in 1 .. Len(s) : s[n].array = Name(q, o, taken + n)
      BY <2>1 DEF ChannelHeld
    <3> HIDE DEF s, taken, t
    <3>7. Len(t) = Sent(q, o, pc[q] + 1) - taken /\ taken + Len(t) = Sent(q, o, pc[q] + 1)
      BY <2>3, <2>6, <3>4, <3>5
    <3>8. \A n \in 1 .. Len(t) : t[n].array = Name(q, o, taken + n)
      <4> TAKE n \in 1 .. Len(t)
      <4>1. CASE n = Len(s) + 1
        BY <4>1, <2>6, <3>4, <3>7
      <4>2. CASE n # Len(s) + 1
        <5>1. n \in 1 .. Len(s)
          BY <4>2, <3>4
        <5> QED
          BY <4>2, <5>1, <3>4, <3>6
      <4> QED
        BY <4>1, <4>2
    <3>9. channel'[<<q, o>>] = t
      BY <2>6 DEF t
    <3> QED
      BY <3>1, <3>4, <3>7, <3>8, <3>9, <2>2 DEF ChannelHeld
  <2> QED
    BY <2>4, <2>5, <2>6, ReturnSends
<1> QED
  BY <1>3, <1>4, ReturnMoves DEF Inv, ChannelsHeld

LEMMA InvNext == Inv /\ [Next]_vars => Inv'
<1> SUFFICES ASSUME Inv, [Next]_vars PROVE Inv'
  OBVIOUS
<1>1. ASSUME NEW p \in Party, Step(p) PROVE Inv'
  BY <1>1, RecvKeeps, ReturnKeeps DEF Step
<1>2. CASE UNCHANGED vars
  BY <1>2 DEF vars, Inv, CallsHeld, ChannelsHeld, ChannelHeld, TakenNow, Running, Senders, Current
<1> QED
  BY <1>1, <1>2 DEF Next, Returned

-----------------------------------------------------------------------------
(* Nobody waits in a circle. *)

\* Party p, in its call k, waits for q, in its call l: for a message that q has
\* not sent, or for q to take one that p has sent in this call.
WaitsFor(p, k, q, l) ==
  \/ Sent(q, p, l) < Taken(q, p, k)
  \/ Taken(p, q, l) < Sent(p, q, k) /\ Sent(p, q, k) > Sent(p, q, k - 1)

WaitsAt(p, k, q, l, r, m) ==
  k > LastCall(p) \/ WaitsFor(p, k, q, l) \/ WaitsFor(p, k, r, m)

\* Nothing is taken that is not sent.
Causal(p, k, q, l) == Taken(q, p, k - 1) <= Sent(q, p, l) /\ Taken(p, q, l - 1) <= Sent(p, q, k)

\* Three parties that wait for each other, each for another one, have all returned:
\* the numbers of messages of the roles do not fit into a circle.
LEMMA NoCircle ==
  ASSUME NEW k0 \in 1 .. Width + 7, NEW k1 \in 1 .. Width + 6, NEW k2 \in 1 .. Width + 7,
         Causal(0, k0, 1, k1), Causal(0, k0, 2, k2), Causal(1, k1, 2, k2),
         WaitsAt(0, k0, 1, k1, 2, k2), WaitsAt(1, k1, 0, k0, 2, k2), WaitsAt(2, k2, 0, k0, 1, k1)
  PROVE  k0 = Width + 7 /\ k1 = Width + 6 /\ k2 = Width + 7
BY Parties, SMTT(100) DEF Causal, WaitsAt, WaitsFor, Sent, Taken, Reached, Exchanged, LastCall, Roles

LEMMA TakenLast ==
  ASSUME NEW p \in Party, NEW q \in Party
  PROVE  Taken(q, p, LastCall(p) + 1) = Taken(q, p, LastCall(p))
BY Parties DEF Taken, LastCall, Roles, Reached, Exchanged

\* What is taken is sent, and is at least what the calls before have received.
LEMMA InvCausal ==
  ASSUME Inv, NEW p \in Party, NEW q \in Party
  PROVE  /\ Taken(q, p, pc[p] - 1) \in Nat /\ Sent(q, p, pc[q]) \in Nat
         /\ TakenNow(q, p) \in Taken(q, p, pc[p] - 1) .. Sent(q, p, pc[q])
         /\ Len(channel[<<q, p>>]) = Sent(q, p, pc[q]) - TakenNow(q, p)
         /\ channel[<<q, p>>] = <<>> => Sent(q, p, pc[q]) = TakenNow(q, p)
<1>1. pc[p] - 1 \in Nat /\ pc[q] \in Nat
  BY CurrentAt DEF Inv
<1>2. Taken(q, p, pc[p] - 1) \in Nat /\ Sent(q, p, pc[q]) \in Nat
  BY <1>1, Counts
<1>3. ChannelHeld(q, p)
  BY DEF Inv, ChannelsHeld
<1>4. PICK S : channel[<<q, p>>] \in Seq(S)
  BY <1>3 DEF ChannelHeld
<1>5. Len(channel[<<q, p>>]) \in Nat /\ (channel[<<q, p>>] = <<>> => Len(channel[<<q, p>>]) = 0)
  BY <1>4
<1>6. Len(channel[<<q, p>>]) = Sent(q, p, pc[q]) - TakenNow(q, p)
  BY <1>3 DEF ChannelHeld
<1>7. TakenNow(q, p) \in Nat /\ TakenNow(q, p) >= Taken(q, p, pc[p] - 1)
  BY <1>2 DEF TakenNow
<1> QED
  BY <1>2, <1>5, <1>6, <1>7

\* A party with nothing to take has taken all that its call receives and that is sent.
LEMMA NothingAwaited ==
  ASSUME Inv, NEW q \in Party, NEW p \in Party, Running(p) => Awaited(p) = {}
  PROVE  \/ TakenNow(q, p) = Taken(q, p, pc[p])
         \/ TakenNow(q, p) = Sent(q, p, pc[q]) /\ TakenNow(q, p) < Taken(q, p, pc[p])
<1>1. CASE ~Running(p)
  <2>1. pc[p] = LastCall(p) + 1 /\ got[p] = {}
    BY <1>1, CurrentAt DEF Inv, CallsHeld
  <2>2. pc[p] - 1 = LastCall(p)
    BY <2>1, CurrentAt DEF Inv
  <2>3. Taken(q, p, pc[p] - 1) \in Nat
    BY InvCausal
  <2>4. TakenNow(q, p) = Taken(q, p, LastCall(p))
    BY <2>1, <2>2, <2>3 DEF TakenNow
  <2> QED
    BY <2>1, <2>4, TakenLast
<1>2. CASE Running(p)
  <2>1. pc[p] \in 1 .. LastCall(p)
    BY <1>2, CurrentAt DEF Inv
  <2>2. RecvsNext(p, pc[p], q)
    BY <2>1, RecvsAt
  <2>3. Taken(q, p, pc[p] - 1) \in Nat
    BY InvCausal
  <2>4. CASE q \in got[p]
    <3>1. \E r \in Script[p][pc[p]].recvs : r[1] = q
      BY <1>2, <2>4 DEF Inv, CallsHeld, Senders, Current
    <3> QED
      BY <3>1, <2>2, <2>3, <2>4 DEF RecvsNext, TakenNow
  <2>5. CASE q \notin got[p] /\ \E r \in Script[p][pc[p]].recvs : r[1] = q
    <3>1. channel[<<q, p>>] = <<>>
      BY <1>2, <2>5 DEF Awaited, Current
    <3>2. TakenNow(q, p) = Taken(q, p, pc[p] - 1)
      BY <2>3, <2>5 DEF TakenNow
    <3>3. Taken(q, p, pc[p]) = Taken(q, p, pc[p] - 1) + 1
      BY <2>2, <2>5 DEF RecvsNext
    <3> QED
      BY <3>1, <3>2, <3>3, <2>3, InvCausal
  <2>6. CASE q \notin got[p] /\ ~\E r \in Script[p][pc[p]].recvs : r[1] = q
    BY <2>2, <2>3, <2>6 DEF RecvsNext, TakenNow
  <2> QED
    BY <2>4, <2>5, <2>6
<1> QED
  BY <1>1, <1>2

\* A party that cannot move waits for another.
LEMMA StuckWaits ==
  ASSUME Inv, \A o \in Party : Running(o) => Awaited(o) = {} /\ ~Waited(o),
         NEW p \in Party, Running(p)
  PROVE  \E q \in Party : WaitsFor(p, pc[p], q, pc[q])
<1>1. pc[p] \in 1 .. LastCall(p)
  BY CurrentAt DEF Inv
<1>2. CASE \E r \in Current(p).recvs : r[1] \notin got[p]
  <2>1. PICK r \in Script[p][pc[p]].recvs : r[1] \notin got[p]
    BY <1>2 DEF Current
  <2>2. r[1] \in Party
    BY <1>1, Partners
  <2>3. channel[<<r[1], p>>] = <<>>
    BY <2>1 DEF Awaited, Current
  <2>4. Taken(r[1], p, pc[p]) = Taken(r[1], p, pc[p] - 1) + 1
    BY <1>1, <2>2, RecvsAt DEF RecvsNext
  <2>5. Taken(r[1], p, pc[p] - 1) \in Nat
    BY <2>2, InvCausal
  <2>6. TakenNow(r[1], p) = Taken(r[1], p, pc[p] - 1)
    BY <2>1, <2>5 DEF TakenNow
  <2>7. Sent(r[1], p, pc[r[1]]) = TakenNow(r[1], p)
    BY <2>2, <2>3, InvCausal
  <2>8. Sent(r[1], p, pc[r[1]]) < Taken(r[1], p, pc[p])
    BY <2>4, <2>5, <2>6, <2>7
  <2> QED
    BY <2>2, <2>8 DEF WaitsFor
<1>3. CASE \E s \in Current(p).sends : ~(Len(channel[<<p, s[1]>>]) <= eager)
  <2>1. PICK s \in Script[p][pc[p]].sends : ~(Len(channel[<<p, s[1]>>]) <= eager)
    BY <1>3 DEF Current
  <2> DEFINE q == s[1]
  <2>2. q \in Party
    BY <1>1, Partners
  <2>3. SendsNext(p, pc[p], q)
    BY <1>1, <2>2, SendsAt
  <2>4. Sent(p, q, pc[p]) = Sent(p, q, pc[p] - 1) + 1
    BY <2>3 DEF SendsNext
  <2>5. pc[p] - 1 \in Nat
    BY CurrentAt DEF Inv
  <2>6. Sent(p, q, pc[p] - 1) \in Nat
    BY <2>2, <2>5, Counts
  <2>7. Len(channel[<<p, q>>]) = Sent(p, q, pc[p]) - TakenNow(p, q)
        /\ TakenNow(p, q) \in Int /\ eager \in Nat
    BY <2>2, InvCausal DEF Inv, CallsHeld
  <2>8. ~(Len(channel[<<p, q>>]) <= eager)
    BY <2>1
  <2> HIDE DEF q
  <2>9. TakenNow(p, q) < Sent(p, q, pc[p])
    BY <2>4, <2>6, <2>7, <2>8
  <2>10. Taken(p, q, pc[q]) < Sent(p, q, pc[p])
    BY <2>2, <2>4, <2>6, <2>7, <2>9, NothingAwaited
  <2> QED
    BY <2>2, <2>4, <2>6, <2>10 DEF WaitsFor
<1> QED
  BY <1>2, <1>3 DEF Waited

LEMMA InvMoves == Inv => SomeoneMoves
<1> SUFFICES ASSUME Inv, \A o \in Party : Running(o) => Awaited(o) = {} /\ ~Waited(o)
             PROVE  Finished
  BY DEF SomeoneMoves
<1>1. ASSUME NEW p \in Party
      PROVE  /\ pc[p] \in 1 .. LastCall(p) + 1
             /\ pc[p] > LastCall(p) \/ \E q \in Party : WaitsFor(p, pc[p], q, pc[q])
  BY CurrentAt, StuckWaits DEF Inv, CallsHeld
<1>2. ASSUME NEW p \in Party, NEW q \in Party
      PROVE  Causal(p, pc[p], q, pc[q])
  <2>1. Taken(q, p, pc[p] - 1) <= Sent(q, p, pc[q])
    <3>1. /\ Taken(q, p, pc[p] - 1) \in Nat /\ Sent(q, p, pc[q]) \in Nat
          /\ TakenNow(q, p) \in Taken(q, p, pc[p] - 1) .. Sent(q, p, pc[q])
      BY InvCausal
    <3> QED
      BY <3>1
  <2>2. Taken(p, q, pc[q] - 1) <= Sent(p, q, pc[p])
    <3>1. /\ Taken(p, q, pc[q] - 1) \in Nat /\ Sent(p, q, pc[p]) \in Nat
          /\ TakenNow(p, q) \in Taken(p, q, pc[q] - 1) .. Sent(p, q, pc[p])
      BY InvCausal
    <3> QED
      BY <3>1
  <2> QED
    BY <2>1, <2>2 DEF Causal
<1>3. \A p \in Party : ~WaitsFor(p, pc[p], p, pc[p])
  BY <1>1, Parties DEF WaitsFor, Sent, Taken
<1>4. LastCall(0) = Width + 6 /\ LastCall(1) = Width + 5 /\ LastCall(2) = Width + 6
  BY Parties DEF LastCall, Roles
<1>5. /\ WaitsAt(0, pc[0], 1, pc[1], 2, pc[2]) /\ WaitsAt(1, pc[1], 0, pc[0], 2, pc[2])
      /\ WaitsAt(2, pc[2], 0, pc[0], 1, pc[1])
  BY <1>1, <1>3, Parties DEF WaitsAt
<1>6. pc[0] \in 1 .. Width + 7 /\ pc[1] \in 1 .. Width + 6 /\ pc[2] \in 1 .. Width + 7
  BY <1>1, <1>4, Parties
<1>7. pc[0] = Width + 7 /\ pc[1] = Width + 6 /\ pc[2] = Width + 7
  BY <1>2, <1>5, <1>6, NoCircle, Parties
<1>8. \A p \in Party : pc[p] = LastCall(p) + 1
  BY <1>4, <1>7, Parties
<1> QED
  BY <1>8, CurrentAt DEF Finished, Inv

-----------------------------------------------------------------------------
(* Theorems. *)

\* Messages of all roles and exchanges have one tag; each is taken as the array
\* that it was sent as (convert_a_to_b_array, boolean_addition_batch).
THEOREM MessagesMatched == Spec => []Matched
<1>1. Inv /\ [Next]_vars => Inv'
  BY InvNext
<1> QED
  BY InvInit, <1>1, InvMatched, PTL DEF Spec

\* P1, P2 and P3 draw different pairs of words at different calls of their roles,
\* but leave convert_a_to_b_array with equally many drawn from each generator.
THEOREM GeneratorsInStep == Spec => []StillInStep
<1>1. Inv => StillInStep
  <2> SUFFICES ASSUME Inv, Finished, NEW p \in Party
               PROVE  drawn[p] = 3 * Width - 3
    BY Parties DEF StillInStep, Succ
  <2>1. pc[p] = LastCall(p) + 1 /\ drawn[p] = Draws(p, pc[p])
    BY CurrentAt DEF Inv, CallsHeld, Finished
  <2> QED
    BY <2>1, Parties DEF Draws, LastCall, Roles, Reached
<1>2. Inv /\ [Next]_vars => Inv'
  BY InvNext
<1> QED
  BY InvInit, <1>1, <1>2, PTL DEF Spec

\* The three roles and the exchanges never wait for each other in a circle, even if
\* MPI buffers no message (convert_a_to_b_array).
THEOREM NeverStuck == Spec => []SomeoneMoves
<1>1. Inv /\ [Next]_vars => Inv'
  BY InvNext
<1> QED
  BY InvInit, <1>1, InvMoves, PTL DEF Spec

-----------------------------------------------------------------------------
(* Words and numbers. *)

LEMMA BitsNumber ==
  ASSUME NEW u \in Word
  PROVE  Number(u) = LowSum(u, Width) /\ Number(u) \in Nat /\ Number(u) < Size
<1>1. u \cap (0 .. Width - 1) = u
  BY DEF Word, Bits
<1>2. Number(u) = LowSum(u, Width)
  BY <1>1 DEF Number, LowSum, PowSum
<1> QED
  BY <1>2, LowBound, Parties DEF Size

\* The lowest bits of a number are its rest.
LEMMA NumberBits ==
  ASSUME NEW n \in Nat, NEW k \in Nat, k <= Width
  PROVE  LowSum(WordOf(n), k) = n % 2^k
<1> DEFINE S == {i \in Nat : i <= Width => LowSum(WordOf(n), i) = n % 2^i}
<1>1. 0 \in S
  <2>1. 2^0 = 1 /\ n % 1 = 0
    OBVIOUS
  <2> QED
    BY <2>1, LowZero
<1>2. ASSUME NEW i \in Nat, i \in S PROVE i + 1 \in S
  <2> SUFFICES ASSUME i + 1 <= Width PROVE LowSum(WordOf(n), i + 1) = n % 2^(i + 1)
    OBVIOUS
  <2> DEFINE w == 2^i
             r == n % w
             q == n \div w
             b == q % 2
             h == q \div 2
  <2>1. w \in Nat /\ w >= 1 /\ 2^(i + 1) = 2 * w
    BY PowPositive, PowDouble
  <2>2. r \in Nat /\ r < w /\ q \in Nat /\ n = w * q + r
    <3> HIDE DEF w
    <3> QED
      BY <2>1, DivMod
  <2>3. b \in Nat /\ b < 2 /\ h \in Nat /\ q = 2 * h + b
    <3> HIDE DEF q
    <3> QED
      BY <2>2
  <2>4. i \in WordOf(n) <=> b = 1
    BY Parties DEF WordOf, Bits
  <2>5. LowSum(WordOf(n), i + 1) = r + (IF b = 1 THEN w ELSE 0)
    <3>1. LowSum(WordOf(n), i) = r
      BY <1>2, Parties
    <3> QED
      BY <3>1, <2>4, LowStep
  <2> DEFINE rest == r + (IF b = 1 THEN w ELSE 0)
  <2>6. rest \in Nat /\ rest < 2 * w /\ n = (2 * w) * h + rest
    <3> HIDE DEF w, r, q, b, h
    <3>1. CASE b = 0
      <4>1. q = 2 * h
        BY <2>3, <3>1
      <4>2. w * q = (2 * w) * h
        BY <4>1, <2>1, <2>3
      <4> QED
        BY <4>2, <3>1, <2>1, <2>2
    <3>2. CASE b = 1
      <4>1. q = 2 * h + 1
        BY <2>3, <3>2
      <4>2. w * q = (2 * w) * h + w
        BY <4>1, <2>1, <2>3
      <4> QED
        BY <4>2, <3>2, <2>1, <2>2, <2>3
    <3> QED
      BY <3>1, <3>2, <2>3
  <2>7. n % (2 * w) = rest
    <3> DEFINE v == 2 * w
    <3>1. v \in Nat /\ v >= 1 /\ rest < v /\ n = v * h + rest
      BY <2>1, <2>6
    <3> HIDE DEF v, rest, h
    <3>2. n % v = rest
      BY <2>3, <2>6, <3>1, DivModUnique
    <3> QED
      BY <3>2 DEF v
  <2> QED
    BY <2>1, <2>5, <2>7
<1>3. Nat \subseteq S
  <2> HIDE DEF S
  <2> QED
    BY <1>1, <1>2, InductionSet
<1> QED
  BY <1>3

LEMMA NumberOfWord ==
  ASSUME NEW n \in Nat
  PROVE  WordOf(n) \in Word /\ Number(WordOf(n)) = n % Size
<1>1. WordOf(n) \in Word
  BY DEF WordOf, Word
<1> QED
  BY <1>1, BitsNumber, NumberBits, Parties DEF Size

-----------------------------------------------------------------------------
(* Products of shared bits, and the carries that are made of them. *)

Odd(a, b, c) == ~ (a <=> ~ (b <=> c))

Together(f) == Xor(f[0], Xor(f[1], f[2]))

LEMMA XorMember == \A u, v, i : i \in Xor(u, v) <=> ~ (i \in u <=> i \in v)
  BY DEF Xor, SymDiff

LEMMA TogetherMember ==
  \A f, i : i \in Together(f) <=> Odd(i \in f[0], i \in f[1], i \in f[2])
  BY XorMember DEF Together, Odd

\* and_b on one bit of each word.
AndShare(p, n, u, v, b, c) == AndOf(p, n, u[p], u[Succ(p)], v[p], v[Succ(p)], b, c)

LEMMA AndOfBit ==
  ASSUME NEW p, NEW n, NEW u1, NEW u2, NEW v1, NEW v2, NEW b, NEW c
  PROVE  /\ AndOf(p, n, u1, u2, v1, v2, b, c) \subseteq {0}
         /\ 0 \in AndOf(p, n, u1, u2, v1, v2, b, c) <=>
              ~ (~ (b \in u1 /\ c \in v1 <=> b \in u1 /\ c \in v2)
                  <=> ~ (b \in u2 /\ c \in v1 <=> 0 \in NextRb(p, n)))
<1>1. \A w, i : 0 \in GetBit(w, i) <=> i \in w
  BY DEF GetBit
<1> HIDE DEF GetBit
<1> QED
  BY <1>1, XorMember DEF AndOf, AndBit

LEMMA RandomCancels ==
  ASSUME NEW n
  PROVE  ~ Odd(0 \in NextRb(0, n), 0 \in NextRb(1, n), 0 \in NextRb(2, n))
<1>1. Pred(0) = 2 /\ Pred(1) = 0 /\ Pred(2) = 1
  BY DEF Pred
<1> QED
  BY <1>1, XorMember DEF NextRb, Odd

\* The three shares stand for the product of the bits.
LEMMA AndIsShared ==
  ASSUME NEW n, NEW u, NEW v, NEW b, NEW c
  PROVE  Odd(0 \in AndShare(0, n, u, v, b, c), 0 \in AndShare(1, n, u, v, b, c),
             0 \in AndShare(2, n, u, v, b, c))
           <=> b \in Together(u) /\ c \in Together(v)
<1>1. Succ(0) = 1 /\ Succ(1) = 2 /\ Succ(2) = 0
  BY DEF Succ
<1> DEFINE x0 == b \in u[0]
           x1 == b \in u[1]
           x2 == b \in u[2]
           y0 == c \in v[0]
           y1 == c \in v[1]
           y2 == c \in v[2]
           r0 == 0 \in NextRb(0, n)
           r1 == 0 \in NextRb(1, n)
           r2 == 0 \in NextRb(2, n)
           z0 == 0 \in AndShare(0, n, u, v, b, c)
           z1 == 0 \in AndShare(1, n, u, v, b, c)
           z2 == 0 \in AndShare(2, n, u, v, b, c)
<1>2. /\ z0 <=> ~ (~ (x0 /\ y0 <=> x0 /\ y1) <=> ~ (x1 /\ y0 <=> r0))
      /\ z1 <=> ~ (~ (x1 /\ y1 <=> x1 /\ y2) <=> ~ (x2 /\ y1 <=> r1))
      /\ z2 <=> ~ (~ (x2 /\ y2 <=> x2 /\ y0) <=> ~ (x0 /\ y2 <=> r2))
  BY <1>1, AndOfBit DEF AndShare
<1>3. ~ Odd(r0, r1, r2)
  BY RandomCancels
<1>4. (b \in Together(u) <=> Odd(x0, x1, x2)) /\ (c \in Together(v) <=> Odd(y0, y1, y2))
  BY TogetherMember
<1>5. /\ x0 \in BOOLEAN /\ x1 \in BOOLEAN /\ x2 \in BOOLEAN /\ y0 \in BOOLEAN /\ y1 \in BOOLEAN
      /\ y2 \in BOOLEAN /\ r0 \in BOOLEAN /\ r1 \in BOOLEAN /\ r2 \in BOOLEAN
      /\ z0 \in BOOLEAN /\ z1 \in BOOLEAN /\ z2 \in BOOLEAN
  OBVIOUS
<1>6. SUFFICES Odd(z0, z1, z2) <=> Odd(x0, x1, x2) /\ Odd(y0, y1, y2)
  BY <1>4
<1> HIDE DEF x0, x1, x2, y0, y1, y2, r0, r1, r2, z0, z1, z2
<1> QED
  BY <1>2, <1>3, <1>5 DEF Odd

\* What the parties have in the end: shares a and w of the two numbers, shares c
\* of the carries.  A party makes its share of a carry of words it drew before.
DrawnAt(b) == IF b = 0 THEN 2 ELSE 3 * b

CarryOf(h, p, b) ==
  LET n == DrawnAt(b)
  IN  IF b = 0 THEN AndShare(p, n, h.a, h.w, b, b)
      ELSE Xor(AndShare(p, n, h.a, h.w, b, b),
               Xor(AndShare(p, n + 1, h.a, h.c, b, b - 1),
                   AndShare(p, n + 2, h.w, h.c, b, b - 1)))

CarriesHeld(h, n) ==
  \A p \in Party : \A b \in Nat : b < n => GetBit(h.c[p], b) = CarryOf(h, p, b)

LEMMA CarryOfBit ==
  ASSUME NEW h, NEW p, NEW b
  PROVE  CarryOf(h, p, b) \subseteq {0}
<1> DEFINE n == DrawnAt(b)
           xy == AndShare(p, n, h.a, h.w, b, b)
           xc == AndShare(p, n + 1, h.a, h.c, b, b - 1)
           yc == AndShare(p, n + 2, h.w, h.c, b, b - 1)
<1>1. xy \subseteq {0} /\ xc \subseteq {0} /\ yc \subseteq {0}
  BY AndOfBit DEF AndShare
<1>2. CarryOf(h, p, b) = IF b = 0 THEN xy ELSE Xor(xy, Xor(xc, yc))
  BY DEF CarryOf
<1> HIDE DEF xy, xc, yc
<1> QED
  BY <1>1, <1>2 DEF Xor, SymDiff

\* The carries that the shares stand for are those of the sum.
LEMMA CarriesShared ==
  ASSUME NEW h, NEW m \in Nat, CarriesHeld(h, m)
  PROVE  \A b \in Nat : b < m =>
           (b \in Together(h.c) <=> Overflows(Together(h.a), Together(h.w), b))
<1> DEFINE x == Together(h.a)
           y == Together(h.w)
           z == Together(h.c)
           S == {b \in Nat : b < m => (b \in z <=> Overflows(x, y, b))}
<1>1. ASSUME NEW b \in Nat, b < m
      PROVE  b \in z <=> Odd(0 \in CarryOf(h, 0, b), 0 \in CarryOf(h, 1, b),
                             0 \in CarryOf(h, 2, b))
  <2>1. \A p \in Party : b \in h.c[p] <=> 0 \in CarryOf(h, p, b)
    BY <1>1 DEF CarriesHeld, GetBit
  <2>2. 0 \in Party /\ 1 \in Party /\ 2 \in Party
    BY DEF Party
  <2>3. b \in z <=> Odd(b \in h.c[0], b \in h.c[1], b \in h.c[2])
    BY TogetherMember
  <2> HIDE DEF z
  <2> QED
    BY <2>1, <2>2, <2>3 DEF Odd
<1>2. 0 \in S
  <2> SUFFICES ASSUME 0 < m PROVE 0 \in z <=> Overflows(x, y, 0)
    OBVIOUS
  <2>1. \A p : CarryOf(h, p, 0) = AndShare(p, 2, h.a, h.w, 0, 0)
    BY DEF CarryOf, DrawnAt
  <2>2. 0 \in z <=> 0 \in x /\ 0 \in y
    BY <1>1, <2>1, AndIsShared
  <2>3. Overflows(x, y, 0) <=> 0 \in x /\ 0 \in y
    <3> HIDE DEF x, y
    <3> QED
      BY OverflowsStep
  <2> QED
    BY <2>2, <2>3
<1>3. ASSUME NEW k \in Nat, k \in S PROVE k + 1 \in S
  <2> DEFINE b == k + 1
  <2> SUFFICES ASSUME b < m PROVE b \in z <=> Overflows(x, y, b)
    OBVIOUS
  <2>1. b \in Nat /\ b # 0 /\ b > 0 /\ b - 1 = k /\ k < m
    OBVIOUS
  <2> DEFINE n == DrawnAt(b)
             P(p) == 0 \in AndShare(p, n, h.a, h.w, b, b)
             Q(p) == 0 \in AndShare(p, n + 1, h.a, h.c, b, k)
             R(p) == 0 \in AndShare(p, n + 2, h.w, h.c, b, k)
  <2> HIDE DEF b, n
  <2>2. \A p : 0 \in CarryOf(h, p, b) <=> ~ (P(p) <=> ~ (Q(p) <=> R(p)))
    BY <2>1, XorMember DEF CarryOf, n
  <2>3. /\ Odd(P(0), P(1), P(2)) <=> b \in x /\ b \in y
        /\ Odd(Q(0), Q(1), Q(2)) <=> b \in x /\ k \in z
        /\ Odd(R(0), R(1), R(2)) <=> b \in y /\ k \in z
    BY AndIsShared
  <2>4. k \in z <=> Overflows(x, y, k)
    BY <1>3, <2>1
  <2>5. b \in z <=> Odd(0 \in CarryOf(h, 0, b), 0 \in CarryOf(h, 1, b), 0 \in CarryOf(h, 2, b))
    BY <1>1, <2>1, b < m
  <2> HIDE DEF x, y, z, P, Q, R
  <2>6. b \in z <=> Odd(~ (P(0) <=> ~ (Q(0) <=> R(0))), ~ (P(1) <=> ~ (Q(1) <=> R(1))),
                        ~ (P(2) <=> ~ (Q(2) <=> R(2))))
    BY <2>2, <2>5 DEF Odd
  <2>7. b \in z <=> (b \in x /\ b \in y) \/ (Overflows(x, y, k) /\ (b \in x \/ b \in y))
    BY <2>3, <2>4, <2>6 DEF Odd
  <2>8. Overflows(x, y, b)
          <=> (b \in x /\ b \in y) \/ (b > 0 /\ Overflows(x, y, b - 1) /\ (b \in x \/ b \in y))
    BY <2>1, OverflowsStep
  <2> QED
    BY <2>1, <2>7, <2>8
<1>4. Nat \subseteq S
  <2> HIDE DEF S
  <2> QED
    BY <1>2, <1>3, InductionSet
<1> QED
  BY <1>4

\* Such carries exist, whatever the shares of the numbers.
LEMMA CarriesExist ==
  ASSUME NEW a, NEW w, NEW m \in Nat
  PROVE  \E c \in [Party -> SUBSET (0 .. m - 1)] : CarriesHeld([a |-> a, w |-> w, c |-> c], m)
<1> DEFINE H(c) == [a |-> a, w |-> w, c |-> c]
           S == {n \in Nat : \E c \in [Party -> SUBSET (0 .. n - 1)] : CarriesHeld(H(c), n)}
<1>1. 0 \in S
  <2> DEFINE c == [p \in Party |-> {}]
  <2>1. c \in [Party -> SUBSET (0 .. 0 - 1)]
    OBVIOUS
  <2>2. CarriesHeld(H(c), 0)
    BY DEF CarriesHeld
  <2> QED
    BY <2>1, <2>2
<1>2. ASSUME NEW n \in Nat, n \in S PROVE n + 1 \in S
  <2>1. PICK c \in [Party -> SUBSET (0 .. n - 1)] : CarriesHeld(H(c), n)
    BY <1>2
  <2> DEFINE d == [p \in Party |-> c[p] \cup (IF 0 \in CarryOf(H(c), p, n) THEN {n} ELSE {})]
  <2>2. d \in [Party -> SUBSET (0 .. (n + 1) - 1)]
    OBVIOUS
  <2>3. ASSUME NEW p \in Party, NEW b \in Nat
        PROVE  /\ b < n => GetBit(d[p], b) = GetBit(c[p], b)
               /\ b = n => GetBit(d[p], b) = CarryOf(H(c), p, n)
    <3>1. b < n => (b \in d[p] <=> b \in c[p])
      OBVIOUS
    <3>2. b = n => (b \in d[p] <=> 0 \in CarryOf(H(c), p, n))
      OBVIOUS
    <3>3. CarryOf(H(c), p, n) \subseteq {0}
      BY CarryOfBit
    <3> HIDE DEF d, H
    <3> QED
      BY <3>1, <3>2, <3>3 DEF GetBit
  <2>4. ASSUME NEW p \in Party, NEW b \in Nat, b <= n
        PROVE  CarryOf(H(d), p, b) = CarryOf(H(c), p, b)
    <3>1. CASE b = 0
      BY <3>1 DEF CarryOf
    <3>2. CASE b # 0
      <4>1. b - 1 \in Nat /\ b - 1 < n /\ Succ(p) \in Party
        BY <2>4, <3>2, Parties DEF Succ
      <4>2. GetBit(d[p], b - 1) = GetBit(c[p], b - 1)
            /\ GetBit(d[Succ(p)], b - 1) = GetBit(c[Succ(p)], b - 1)
        BY <2>3, <4>1
      <4>3. \A k, u : AndShare(p, k, u, d, b, b - 1) = AndShare(p, k, u, c, b, b - 1)
        <5> HIDE DEF d
        <5> QED
          BY <4>2 DEF AndShare, AndOf
      <4>4. H(d).a = H(c).a /\ H(d).w = H(c).w /\ H(d).c = d /\ H(c).c = c
        OBVIOUS
      <4> HIDE DEF d, H
      <4> QED
        BY <4>3, <4>4, <3>2 DEF CarryOf
    <3> QED
      BY <3>1, <3>2
  <2>5. ASSUME NEW p \in Party, NEW b \in Nat, b < n + 1
        PROVE  GetBit(d[p], b) = CarryOf(H(d), p, b)
    <3>1. b < n \/ b = n
      BY <2>5
    <3>2. b < n => GetBit(c[p], b) = CarryOf(H(c), p, b)
      BY <2>1 DEF CarriesHeld
    <3>3. CarryOf(H(d), p, b) = CarryOf(H(c), p, b)
      BY <2>4, <3>1
    <3> HIDE DEF d, H
    <3> QED
      BY <2>3, <3>1, <3>2, <3>3
  <2>6. CarriesHeld(H(d), n + 1)
    <3>1. H(d).c = d
      OBVIOUS
    <3> HIDE DEF d, H
    <3> QED
      BY <2>5, <3>1 DEF CarriesHeld
  <2> HIDE DEF d
  <2> QED
    BY <2>2, <2>6
<1>3. Nat \subseteq S
  <2> HIDE DEF S
  <2> QED
    BY <1>1, <1>2, InductionSet
<1> QED
  BY <1>3

\* The share of the sum that a party has when the carries are done.
SumShare(h, p) == Xor(Xor(h.a[p], h.w[p]), ShiftLeft(h.c[p], 1))

LEMMA SumIsShared ==
  ASSUME NEW h, h.a \in [Party -> Word], h.w \in [Party -> Word],
         h.c \in [Party -> SUBSET (0 .. Width - 2)], CarriesHeld(h, Width - 1)
  PROVE  LET s == Xor(SumShare(h, 0), Xor(SumShare(h, 1), SumShare(h, 2)))
         IN  /\ s \in Word
             /\ Number(s) = (Number(Together(h.a)) + Number(Together(h.w))) % Size
<1> DEFINE s == Xor(SumShare(h, 0), Xor(SumShare(h, 1), SumShare(h, 2)))
           x == Together(h.a)
           y == Together(h.w)
           z == Together(h.c)
<1>1. \A c : ShiftLeft(c, 1) \in Word /\ \A n \in Bits : n \in ShiftLeft(c, 1) <=> n - 1 \in c
  BY DEF ShiftLeft, Word
<1>2. x \in Word /\ y \in Word /\ s \in Word
  <2>1. \A u, v : u \in Word /\ v \in Word => Xor(u, v) \in Word
    BY DEF Xor, SymDiff, Word
  <2>2. 0 \in Party /\ 1 \in Party /\ 2 \in Party
    BY DEF Party
  <2>3. \A p \in Party : SumShare(h, p) \in Word
    BY <1>1, <2>1 DEF SumShare
  <2> QED
    BY <2>1, <2>2, <2>3 DEF Together
<1>3. ASSUME NEW n \in Nat, n < Width
      PROVE  n \in s <=> IF n > 0 /\ Overflows(x, y, n - 1)
                         THEN n \in x <=> n \in y ELSE ~ (n \in x <=> n \in y)
  <2>1. n \in Bits
    BY <1>3, Parties DEF Bits
  <2> DEFINE A(p) == n \in h.a[p]
             W(p) == n \in h.w[p]
             C(p) == n - 1 \in h.c[p]
  <2>2. \A p : n \in SumShare(h, p) <=> ~ (~ (A(p) <=> W(p)) <=> C(p))
    BY <1>1, <2>1, XorMember DEF SumShare
  <2>3. /\ n \in x <=> Odd(A(0), A(1), A(2))
        /\ n \in y <=> Odd(W(0), W(1), W(2))
        /\ n - 1 \in z <=> Odd(C(0), C(1), C(2))
    BY TogetherMember
  <2>4. n \in s <=> Odd(n \in SumShare(h, 0), n \in SumShare(h, 1), n \in SumShare(h, 2))
    BY XorMember DEF Odd
  <2> HIDE DEF A, W, C, s, x, y, z
  <2>5. n \in s <=> ~ (~ (n \in x <=> n \in y) <=> n - 1 \in z)
    BY <2>2, <2>3, <2>4 DEF Odd
  <2>6. n - 1 \in z <=> n > 0 /\ Overflows(x, y, n - 1)
    <3>1. CASE n = 0
      <4>1. \A p \in Party : n - 1 \notin h.c[p]
        BY <3>1, Parties
      <4>2. ~ C(0) /\ ~ C(1) /\ ~ C(2)
        BY <4>1, Parties DEF C
      <4> QED
        BY <3>1, <4>2, <2>3 DEF Odd
    <3>2. CASE n # 0
      <4>1. n - 1 \in Nat /\ n - 1 < Width - 1 /\ Width - 1 \in Nat
        BY <1>3, <3>2, Parties
      <4> QED
        BY <4>1, <3>2, CarriesShared DEF x, y, z
    <3> QED
      BY <3>1, <3>2
  <2> QED
    BY <2>5, <2>6
<1> HIDE DEF s, x, y, z
<1>4. SumBits(s, x, y, Width)
  BY <1>3 DEF SumBits
<1>5. LowSum(s, Width) = (LowSum(x, Width) + LowSum(y, Width)) % 2^Width
  BY <1>4, SumModulo, Parties
<1>6. Number(s) = LowSum(s, Width) /\ Number(x) = LowSum(x, Width) /\ Number(y) = LowSum(y, Width)
  BY <1>2, BitsNumber
<1>7. s \in Word /\ Number(s) = (Number(x) + Number(y)) % Size
  BY <1>2, <1>5, <1>6 DEF Size
<1> QED
  BY <1>7 DEF s, x, y

-----------------------------------------------------------------------------
(* What the arrays of a party hold, call by call. *)

\* The masks made of the generators' words: P1 knows one and P2 the other.
Mask(p) == IF p = 0 THEN Xor(Random[2][0], Xor(Random[1][0], Random[0][0]))
           ELSE Xor(Random[0][1], Xor(Random[2][1], Random[1][1]))

\* A party's share of the masked sum.
Masked(h, p) == Xor(SumShare(h, p), Xor(Random[p][0], Random[p][1]))

\* Its share of the result: for P3, the masked sum.
Result(h, p) ==
  IF p = 2 THEN Xor(Masked(h, 0), Xor(Masked(h, 1), Masked(h, 2))) ELSE Mask(p)

\* The word in q's x-th message of an exchange.
ExchangeWord(h, q, x) ==
  IF x = 1 THEN h.a[q] ELSE IF x = 2 THEN h.w[q]
  ELSE IF x <= Width THEN GetBit(h.c[q], x - 3) ELSE Result(h, q)

\* The word in the n-th message from q to p.
Said(h, q, p, n) ==
  IF q = 0 /\ p = 1 THEN h.a[1]
  ELSE IF q = 2 /\ p = 0 THEN h.w[0]
  ELSE IF q = 1 /\ p = 2 THEN Masked(h, 1)
  ELSE IF q = 0 /\ p = 2
       THEN IF n = 1 THEN h.a[2] ELSE IF n = Width + 2 THEN Masked(h, 0)
            ELSE ExchangeWord(h, 0, n - 1)
  ELSE IF q = 1 /\ p = 0
       THEN IF n = 1 THEN Random[1][0] ELSE ExchangeWord(h, 1, n - 1)
  ELSE IF n = 1 THEN h.w[1] ELSE IF n = 2 THEN Random[2][1] ELSE ExchangeWord(h, 2, n - 2)

\* The arrays m in call k of each role, when the messages of the parties in g are in.
Holds1(h, m, k, g) ==
  /\ k = 1 => m["xa1"] = WordOf(input[0]) /\ m["xa2"] = WordOf(input[1])
  /\ k > 1 => m["xa1"] = h.a[0]
  /\ k = 2 => m["z12"] = h.a[1] /\ m["z13"] = h.a[2]
  /\ (k = 3 /\ 2 \in g) \/ k = 4 => m["w1"] = h.w[0]
  /\ k = 4 => m["xb2"] = Random[0][0] /\ m["xb1"] = Random[2][0]
  /\ k = 4 /\ 1 \in g => m["r_temp"] = Random[1][0]

Holds2(h, m, k, g) ==
  /\ 0 \in g \/ k > 1 => m["xa1"] = h.a[1]
  /\ (2 \in g /\ k = 1) \/ k > 1 => m["w1"] = h.w[1]
  /\ k > 1 => m["xb2"] = Random[1][0]
  /\ k = 3 => m["r_temp"] = Random[1][1] /\ m["xb1"] = Random[0][1]
  /\ k = 3 /\ 2 \in g => m["r_temp2"] = Random[2][1]

Holds3(h, m, k, g) ==
  /\ k = 1 => m["xa1"] = WordOf(input[2])
  /\ k > 1 => m["w1"] = h.w[2]
  /\ k \in {2, 3} => m["w13"] = h.w[0] /\ m["w2"] = h.w[1]
  /\ (k = 2 /\ 0 \in g) \/ k > 2 => m["xa1"] = h.a[2]
  /\ k = 4 => m["xb2"] = Random[2][0] /\ m["r_temp"] = Random[2][1]

\* The shares that the addition is made of, and what is made of them.
SharesHeld(h, p, m, x, g) ==
  /\ m["xa1"] = h.a[p] /\ m["w1"] = h.w[p]
  /\ Succ(p) \in g \/ x > 1 => m["xa2"] = h.a[Succ(p)]
  /\ (Succ(p) \in g /\ x = 2) \/ x > 2 => m["w2"] = h.w[Succ(p)]
  /\ m["xb2"] = Random[p][0] /\ m["r_temp"] = Random[p][1]

RoundHeld(h, p, m, b, g) ==
  /\ m["carry1"] = h.c[p] \cap (0 .. b - 1) /\ m["carry2"] = h.c[Succ(p)] \cap (0 .. b - 1)
  /\ m["c1"] = GetBit(h.c[p], b)
  /\ Succ(p) \in g => m["c2"] = GetBit(h.c[Succ(p)], b)

ResultHeld(h, p, m, x, g) ==
  /\ x = Width + 1 => m["w1"] = Masked(h, p)
  /\ x = Width + 1 /\ p = 2 /\ 0 \in g => m["xb1"] = Masked(h, 0)
  /\ x = Width + 1 /\ p = 2 /\ 1 \in g => m["xa1"] = Masked(h, 1)
  /\ p # 2 \/ x > Width + 1 => m["xb1"] = Result(h, p)
  /\ (x = Width + 2 /\ Succ(p) \in g) \/ x > Width + 2 => m["xb2"] = Result(h, Succ(p))

\* The arrays m in the x-th call after the role.
CommonHolds(h, p, m, x, g) ==
  /\ x <= Width => SharesHeld(h, p, m, x, g)
  /\ x \in 3 .. Width => RoundHeld(h, p, m, x - 3, g)
  /\ ResultHeld(h, p, m, x, g)

RoleHolds(h, p, m, k, g) ==
  IF p = 0 THEN Holds1(h, m, k, g) ELSE IF p = 1 THEN Holds2(h, m, k, g)
  ELSE Holds3(h, m, k, g)

Holds(h, p, m, k, g) ==
  IF k <= Roles(p) THEN RoleHolds(h, p, m, k, g) ELSE CommonHolds(h, p, m, k - Roles(p), g)

IsMemory(m) == m = [a \in Array |-> m[a]]

LEMMA StoredIs ==
  ASSUME NEW m, IsMemory(m), NEW a, a \in Array, NEW w
  PROVE  /\ [m EXCEPT ![a] = w][a] = w
         /\ \A b \in Array : b # a => [m EXCEPT ![a] = w][b] = m[b]
         /\ IsMemory([m EXCEPT ![a] = w])
BY DEF IsMemory

\* What arrives in a role is what the call wants.
LEMMA RoleTakes ==
  ASSUME NEW h, NEW p \in Party, NEW k \in 1 .. Roles(p), NEW g, NEW m, IsMemory(m),
         RoleHolds(h, p, m, k, g), NEW r \in Role(p)[k].recvs
  PROVE  /\ r[3] \in Array
         /\ RoleHolds(h, p, [m EXCEPT ![r[3]] = Said(h, r[1], p, Taken(r[1], p, k))],
                      k, g \cup {r[1]})
<1> DEFINE o == [m EXCEPT ![r[3]] = Said(h, r[1], p, Taken(r[1], p, k))]
<1>1. CASE p = 0 /\ k = 3
  <2>1. r = <<2, "w13", "w1">>
    BY <1>1, RoleRecvs DEF Role
  <2>2. o = [m EXCEPT !["w1"] = h.w[0]]
    BY <1>1, <2>1 DEF Said
  <2> HIDE DEF o
  <2>3. \A b \in Array : o[b] = IF b = "w1" THEN h.w[0] ELSE m[b]
    BY <2>2 DEF IsMemory
  <2> QED
    BY <1>1, <2>1, <2>3 DEF RoleHolds, Holds1, Array, o
<1>2. CASE p = 0 /\ k = 4
  <2>1. r = <<1, "xb2", "r_temp">>
    BY <1>2, RoleRecvs DEF Role
  <2>2. Taken(1, 0, 4) = 1
    BY RoleTaken, Parties DEF One
  <2>3. o = [m EXCEPT !["r_temp"] = Random[1][0]]
    BY <1>2, <2>1, <2>2 DEF Said
  <2> HIDE DEF o
  <2>4. \A b \in Array : o[b] = IF b = "r_temp" THEN Random[1][0] ELSE m[b]
    BY <2>3 DEF IsMemory
  <2> QED
    BY <1>2, <2>1, <2>4 DEF RoleHolds, Holds1, Array, o
<1>3. CASE p = 1 /\ k = 1
  <2>1. r = <<0, "z12", "xa1">> \/ r = <<2, "w2", "w1">>
    BY <1>3, RoleRecvs DEF Role
  <2>2. Taken(2, 1, 1) = 1
    BY RoleTaken, Parties DEF One
  <2>3. CASE r = <<0, "z12", "xa1">>
    <3>1. o = [m EXCEPT !["xa1"] = h.a[1]]
      BY <1>3, <2>3 DEF Said
    <3> HIDE DEF o
    <3>2. \A b \in Array : o[b] = IF b = "xa1" THEN h.a[1] ELSE m[b]
      BY <3>1 DEF IsMemory
    <3> QED
      BY <1>3, <2>3, <3>2 DEF RoleHolds, Holds2, Array, o
  <2>4. CASE r = <<2, "w2", "w1">>
    <3>1. o = [m EXCEPT !["w1"] = h.w[1]]
      BY <1>3, <2>2, <2>4 DEF Said
    <3> HIDE DEF o
    <3>2. \A b \in Array : o[b] = IF b = "w1" THEN h.w[1] ELSE m[b]
      BY <3>1 DEF IsMemory
    <3> QED
      BY <1>3, <2>4, <3>2 DEF RoleHolds, Holds2, Array, o
  <2> QED
    BY <2>1, <2>3, <2>4
<1>4. CASE p = 1 /\ k = 3
  <2>1. r = <<2, "r_temp", "r_temp2">>
    BY <1>4, RoleRecvs DEF Role
  <2>2. Taken(2, 1, 3) = 2
    BY RoleTaken, Parties DEF One
  <2>3. o = [m EXCEPT !["r_temp2"] = Random[2][1]]
    <3>1. Said(h, 2, 1, 2) = Random[2][1]
      BY DEF Said
    <3> QED
      BY <1>4, <2>1, <2>2, <3>1
  <2> HIDE DEF o
  <2>4. \A b \in Array : o[b] = IF b = "r_temp2" THEN Random[2][1] ELSE m[b]
    BY <2>3 DEF IsMemory
  <2> QED
    BY <1>4, <2>1, <2>4 DEF RoleHolds, Holds2, Array, o
<1>5. CASE p = 2 /\ k = 2
  <2>1. r = <<0, "z13", "xa1">>
    BY <1>5, RoleRecvs DEF Role
  <2>2. Taken(0, 2, 2) = 1
    BY RoleTaken, Parties DEF One
  <2>3. o = [m EXCEPT !["xa1"] = h.a[2]]
    BY <1>5, <2>1, <2>2 DEF Said
  <2> HIDE DEF o
  <2>4. \A b \in Array : o[b] = IF b = "xa1" THEN h.a[2] ELSE m[b]
    BY <2>3 DEF IsMemory
  <2> QED
    BY <1>5, <2>1, <2>4 DEF RoleHolds, Holds3, Array, o
<1> QED
  BY <1>1, <1>2, <1>3, <1>4, <1>5, RoleRecvs, Parties DEF Role, Roles

\* The place in its channel of the message of call x after the role.
Place(q, x) ==
  (IF q = 2 THEN 2 ELSE 1) + (IF x <= Width THEN x ELSE IF q = 0 THEN Width + 2 ELSE Width + 1)

LEMMA SaidInExchange ==
  ASSUME NEW h, NEW p \in Party, NEW x \in 1 .. Width + 2, x # Width + 1
  PROVE  /\ Taken(Succ(p), p, Roles(p) + x) = Place(Succ(p), x)
         /\ Sent(p, Pred(p), Roles(p) + x) = Place(p, x)
         /\ Said(h, Succ(p), p, Place(Succ(p), x)) = ExchangeWord(h, Succ(p), x)
         /\ Said(h, p, Pred(p), Place(p, x)) = ExchangeWord(h, p, x)
<1> DEFINE E(q) == ExchangeWord(h, q, x)
<1>1. ASSUME NEW o \in Party
      PROVE  /\ Said(h, o, Pred(o), Place(o, x)) = E(o)
             /\ Taken(o, Pred(o), Roles(Pred(o)) + x) = Place(o, x)
             /\ Sent(o, Pred(o), Roles(o) + x) = Place(o, x)
  <2>1. x \in 0 .. Width + 2 /\ (x <= Width \/ x = Width + 2)
    BY Parties
  <2>2. ASSUME NEW n \in Int, n > Width
        PROVE  ExchangeWord(h, o, n) = Result(h, o)
    BY <2>2, Parties DEF ExchangeWord
  <2>3. x > Width => E(o) = Result(h, o)
    BY <2>2
  <2> HIDE DEF E
  <2>4. Place(o, x) = (IF o = 2 THEN 2 ELSE 1)
                      + (IF x <= Width THEN x ELSE IF o = 0 THEN Width + 2 ELSE Width + 1)
    BY DEF Place
  <2>5. x <= Width => ExchangeWord(h, o, x) = E(o)
    BY DEF E
  <2>6. CASE o = 0
    <3>1. Place(0, x) = 1 + (IF x <= Width THEN x ELSE Width + 2)
      BY <2>4, <2>6
    <3>2. Said(h, 0, 2, Place(0, x)) = ExchangeWord(h, 0, Place(0, x) - 1)
      BY <3>1, <2>1, Parties DEF Said
    <3>3. Place(0, x) - 1 = IF x <= Width THEN x ELSE Width + 2
      BY <3>1, Parties
    <3>4. ExchangeWord(h, 0, Place(0, x) - 1) = E(0)
      BY <3>3, <2>2, <2>3, <2>5, <2>6, <2>1, Parties
    <3>5. Pred(0) = 2 /\ Succ(2) = 0 /\ Roles(2) = 4 /\ Roles(0) = 4
      BY DEF Pred, Succ, Roles
    <3>6. Taken(0, 2, 4) = 1 /\ Sent(0, 2, 4) = 1
      BY RoleTaken, RoleSent, Parties DEF One
    <3>7. Taken(0, 2, 4 + x) = Place(0, x)
      BY <3>1, <3>5, <3>6, <2>1, CommonTaken, Parties DEF One
    <3>8. Sent(0, 2, 4 + x) = Place(0, x)
      BY <3>1, <3>5, <3>6, <2>1, CommonSent, Parties DEF One
    <3> QED
      BY <3>2, <3>4, <3>5, <3>7, <3>8, <2>6
  <2>7. CASE o = 1
    <3>1. Place(1, x) = 1 + (IF x <= Width THEN x ELSE Width + 1)
      BY <2>4, <2>7
    <3>2. Said(h, 1, 0, Place(1, x)) = ExchangeWord(h, 1, Place(1, x) - 1)
      BY <3>1, <2>1, Parties DEF Said
    <3>3. Place(1, x) - 1 = IF x <= Width THEN x ELSE Width + 1
      BY <3>1, Parties
    <3>4. ExchangeWord(h, 1, Place(1, x) - 1) = E(1)
      BY <3>3, <2>2, <2>3, <2>5, <2>7, <2>1, Parties
    <3>5. Pred(1) = 0 /\ Succ(0) = 1 /\ Roles(0) = 4 /\ Roles(1) = 3
      BY DEF Pred, Succ, Roles
    <3>6. Taken(1, 0, 4) = 1 /\ Sent(1, 0, 3) = 1
      BY RoleTaken, RoleSent, Parties DEF One
    <3>7. Taken(1, 0, 4 + x) = Place(1, x)
      BY <3>1, <3>5, <3>6, <2>1, CommonTaken, Parties DEF One
    <3>8. Sent(1, 0, 3 + x) = Place(1, x)
      BY <3>1, <3>5, <3>6, <2>1, CommonSent, Parties DEF One
    <3> QED
      BY <3>2, <3>4, <3>5, <3>7, <3>8, <2>7
  <2>8. CASE o = 2
    <3>1. Place(2, x) = 2 + (IF x <= Width THEN x ELSE Width + 1)
      BY <2>4, <2>8
    <3>2. Said(h, 2, 1, Place(2, x)) = ExchangeWord(h, 2, Place(2, x) - 2)
      BY <3>1, <2>1, Parties DEF Said
    <3>3. Place(2, x) - 2 = IF x <= Width THEN x ELSE Width + 1
      BY <3>1, Parties
    <3>4. ExchangeWord(h, 2, Place(2, x) - 2) = E(2)
      BY <3>3, <2>2, <2>3, <2>5, <2>8, <2>1, Parties
    <3>5. Pred(2) = 1 /\ Succ(1) = 2 /\ Roles(1) = 3 /\ Roles(2) = 4
      BY DEF Pred, Succ, Roles
    <3>6. Taken(2, 1, 3) = 2 /\ Sent(2, 1, 4) = 2
      BY RoleTaken, RoleSent, Parties DEF One
    <3>7. Taken(2, 1, 3 + x) = Place(2, x)
      BY <3>1, <3>5, <3>6, <2>1, CommonTaken, Parties DEF One
    <3>8. Sent(2, 1, 4 + x) = Place(2, x)
      BY <3>1, <3>5, <3>6, <2>1, CommonSent, Parties DEF One
    <3> QED
      BY <3>2, <3>4, <3>5, <3>7, <3>8, <2>8
  <2> QED
    BY <2>6, <2>7, <2>8, Parties
<1>2. Succ(p) \in Party /\ Pred(Succ(p)) = p
  BY Parties DEF Succ, Pred
<1> QED
  BY <1>1, <1>2 DEF E

\* The masked sum's shares, on their way to P3.
LEMMA SaidToP3 ==
  ASSUME NEW h, NEW q \in {0, 1}
  PROVE  /\ Taken(q, 2, 4 + (Width + 1)) = Sent(q, 2, Roles(q) + (Width + 1))
         /\ Said(h, q, 2, Sent(q, 2, Roles(q) + (Width + 1))) = Masked(h, q)
<1>1. Width + 1 \in 0 .. Width + 2
  BY Parties
<1>2. CASE q = 0
  <2>1. Taken(0, 2, 4) = 1 /\ Sent(0, 2, 4) = 1 /\ Roles(0) = 4 /\ Roles(2) = 4
    BY RoleTaken, RoleSent, Parties DEF One, Roles
  <2>2. Taken(0, 2, 4 + (Width + 1)) = Width + 2
    BY <1>1, <2>1, CommonTaken, Parties DEF One, Succ
  <2>3. Sent(0, 2, 4 + (Width + 1)) = Width + 2
    BY <1>1, <2>1, CommonSent, Parties DEF One, Pred
  <2> QED
    BY <1>2, <2>1, <2>2, <2>3, Parties DEF Said
<1>3. CASE q = 1
  <2>1. Taken(1, 2, 4) = 0 /\ Sent(1, 2, 3) = 0 /\ Roles(1) = 3 /\ Roles(2) = 4
    BY RoleTaken, RoleSent, Parties DEF One, Roles
  <2>2. Taken(1, 2, 4 + (Width + 1)) = 1
    BY <1>1, <2>1, CommonTaken, Parties DEF One, Succ
  <2>3. Sent(1, 2, 3 + (Width + 1)) = 1
    BY <1>1, <2>1, CommonSent, Parties DEF One, Pred
  <2> QED
    BY <1>3, <2>1, <2>2, <2>3, Parties DEF Said
<1> QED
  BY <1>2, <1>3

\* What arrives in the calls after the role is what the call wants.
LEMMA CommonTakes ==
  ASSUME NEW h, NEW p \in Party, NEW x \in 1 .. Width + 2, NEW g, NEW m, IsMemory(m),
         CommonHolds(h, p, m, x, g), NEW r \in Common(p, x).recvs
  PROVE  /\ r[3] \in Array
         /\ CommonHolds(h, p, [m EXCEPT ![r[3]] = Said(h, r[1], p, Taken(r[1], p, Roles(p) + x))],
                        x, g \cup {r[1]})
<1> DEFINE w == Said(h, r[1], p, Taken(r[1], p, Roles(p) + x))
           o == [m EXCEPT ![r[3]] = w]
           f == g \cup {r[1]}
<1>1. CASE x = Width + 1
  <2>1. p = 2 /\ (r = <<0, "w1", "xb1">> \/ r = <<1, "w1", "xa1">>)
    BY <1>1, CommonRecvs, Parties
  <2>2. Succ(2) = 0 /\ Roles(2) = 4
    BY DEF Succ, Roles
  <2>3. w = Masked(h, r[1])
    BY <1>1, <2>1, <2>2, SaidToP3
  <2>4. r[3] \in Array /\ \A b \in Array : o[b] = IF b = r[3] THEN w ELSE m[b]
    <3>1. r[3] \in Array
      BY <2>1 DEF Array
    <3> HIDE DEF w
    <3> QED
      BY <3>1 DEF IsMemory
  <2>5. ResultHeld(h, p, m, x, g)
    BY DEF CommonHolds
  <2> HIDE DEF w, o
  <2>6. ResultHeld(h, p, o, x, f)
    <3>1. "w1" \in Array /\ "xa1" \in Array /\ "xb1" \in Array
      BY DEF Array
    <3>2. CASE r = <<0, "w1", "xb1">>
      BY <3>1, <3>2, <1>1, <2>1, <2>3, <2>4, <2>5, Parties DEF ResultHeld
    <3>3. CASE r = <<1, "w1", "xa1">>
      BY <3>1, <3>3, <1>1, <2>1, <2>3, <2>4, <2>5, Parties DEF ResultHeld
    <3> QED
      BY <2>1, <3>2, <3>3
  <2>7. ~ (x <= Width) /\ ~ (x \in 3 .. Width)
    BY <1>1, Parties
  <2>8. CommonHolds(h, p, o, x, f)
    BY <2>6, <2>7 DEF CommonHolds
  <2> QED
    BY <2>4, <2>8 DEF o, w
<1>2. CASE x # Width + 1
  <2> DEFINE mine == IF x = 1 THEN "xa2" ELSE IF x = 2 THEN "w2"
                     ELSE IF x <= Width THEN "c2" ELSE "xb2"
             q == Succ(p)
  <2>1. r[1] = q /\ r[3] = mine
    <3>1. x = 1 => Common(p, x).recvs = {<<Succ(p), "xa1", "xa2">>}
      BY DEF Common, Exchange, Call
    <3>2. x = 2 => Common(p, x).recvs = {<<Succ(p), "w1", "w2">>}
      BY DEF Common, Exchange, Call
    <3>3. x \in 3 .. Width => Common(p, x).recvs = {<<Succ(p), "c1", "c2">>}
      BY Parties DEF Common, Exchange, Call
    <3>4. x = Width + 2 => Common(p, x).recvs = {<<Succ(p), "xb1", "xb2">>}
      BY Parties DEF Common, Exchange, Call
    <3> QED
      BY <3>1, <3>2, <3>3, <3>4, <1>2, Parties
  <2>2. w = ExchangeWord(h, q, x)
    BY <1>2, <2>1, SaidInExchange
  <2>3. mine \in Array /\ \A b \in Array : o[b] = IF b = mine THEN w ELSE m[b]
    <3>1. mine \in Array
      BY DEF Array
    <3> HIDE DEF w, mine
    <3> QED
      BY <3>1, <2>1 DEF IsMemory
  <2> HIDE DEF w, o
  <2>4. q \in f /\ (q \in g => q \in f)
    BY <2>1
  <2>5. \A b \in {"xa1", "xa2", "w1", "w2", "xb1", "xb2", "r_temp", "carry1", "carry2", "c1", "c2"} :
          b # mine => o[b] = m[b]
    BY <2>3 DEF Array
  <2>6. o[mine] = ExchangeWord(h, q, x)
    BY <2>2, <2>3
  <2>7. x = 1 \/ x = 2 \/ x \in 3 .. Width \/ x = Width + 2
    BY <1>2, Parties
  <2>8. CommonHolds(h, p, o, x, f)
    <3> HIDE DEF mine, f
    <3>1. CASE x = 1
      <4>1. mine = "xa2" /\ ExchangeWord(h, q, x) = h.a[q]
        BY <3>1 DEF mine, ExchangeWord
      <4> HIDE DEF mine
      <4>2. x <= Width /\ ~ (x \in 3 .. Width) /\ x < Width + 1
        BY <3>1, Parties
      <4>3. SharesHeld(h, p, o, x, f)
        BY <4>1, <4>2, <3>1, <2>4, <2>5, <2>6 DEF CommonHolds, SharesHeld
      <4>4. ResultHeld(h, p, o, x, f)
        BY <4>1, <4>2, <3>1, <2>5, Parties DEF CommonHolds, ResultHeld
      <4> QED
        BY <4>2, <4>3, <4>4 DEF CommonHolds
    <3>2. CASE x = 2
      <4>1. mine = "w2" /\ ExchangeWord(h, q, x) = h.w[q]
        BY <3>2 DEF mine, ExchangeWord
      <4>2. x <= Width /\ ~ (x \in 3 .. Width) /\ x < Width + 1
        BY <3>2, Parties
      <4>3. SharesHeld(h, p, o, x, f)
        BY <4>1, <4>2, <3>2, <2>4, <2>5, <2>6 DEF CommonHolds, SharesHeld
      <4>4. ResultHeld(h, p, o, x, f)
        BY <4>1, <4>2, <3>2, <2>5, Parties DEF CommonHolds, ResultHeld
      <4> QED
        BY <4>2, <4>3, <4>4 DEF CommonHolds
    <3>3. CASE x \in 3 .. Width
      <4>1. mine = "c2" /\ ExchangeWord(h, q, x) = GetBit(h.c[q], x - 3)
        BY <3>3, Parties DEF mine, ExchangeWord
      <4>2. x <= Width /\ x < Width + 1 /\ x > 2
        BY <3>3, Parties
      <4>3. SharesHeld(h, p, o, x, f)
        BY <4>1, <4>2, <2>5 DEF CommonHolds, SharesHeld
      <4>4. ResultHeld(h, p, o, x, f)
        BY <4>1, <4>2, <2>5, Parties DEF CommonHolds, ResultHeld
      <4>5. RoundHeld(h, p, o, x - 3, f)
        BY <4>1, <3>3, <2>5, <2>6 DEF CommonHolds, RoundHeld
      <4> QED
        BY <4>3, <4>4, <4>5 DEF CommonHolds
    <3>4. CASE x = Width + 2
      <4>1. mine = "xb2" /\ ExchangeWord(h, q, x) = Result(h, q)
        BY <3>4, Parties DEF mine, ExchangeWord
      <4>2. ~ (x <= Width) /\ ~ (x \in 3 .. Width) /\ x # Width + 1
        BY <3>4, Parties
      <4>3. ResultHeld(h, p, o, x, f)
        BY <4>1, <4>2, <3>4, <2>5, <2>6, Parties DEF CommonHolds, ResultHeld
      <4> QED
        BY <4>2, <4>3 DEF CommonHolds
    <3> QED
      BY <2>7, <3>1, <3>2, <3>3, <3>4
  <2> QED
    BY <2>1, <2>3, <2>8 DEF o, w
<1> QED
  BY <1>1, <1>2

LEMMA HoldsInRole ==
  ASSUME NEW h, NEW p \in Party, NEW m, NEW k \in Nat, NEW g, k <= Roles(p)
  PROVE  Holds(h, p, m, k, g) <=> RoleHolds(h, p, m, k, g)
BY DEF Holds

LEMMA HoldsAfterRole ==
  ASSUME NEW h, NEW p \in Party, NEW m, NEW x \in Nat, NEW g, x >= 1
  PROVE  Holds(h, p, m, Roles(p) + x, g) <=> CommonHolds(h, p, m, x, g)
<1>1. Roles(p) \in Nat
  BY DEF Roles
<1>2. PICK n : n = Roles(p) + x /\ ~ (n <= Roles(p)) /\ x = n - Roles(p)
  BY <1>1
<1>3. Holds(h, p, m, n, g) <=> CommonHolds(h, p, m, x, g)
  BY <1>2, Zenon DEF Holds
<1> QED
  BY <1>2, <1>3, Zenon

LEMMA CallTakes ==
  ASSUME NEW h, NEW p \in Party, NEW k \in 1 .. LastCall(p), NEW g, NEW m, IsMemory(m),
         Holds(h, p, m, k, g), NEW r \in Script[p][k].recvs
  PROVE  /\ r[3] \in Array
         /\ Holds(h, p, [m EXCEPT ![r[3]] = Said(h, r[1], p, Taken(r[1], p, k))],
                  k, g \cup {r[1]})
<1>1. CASE k \in 1 .. Roles(p) /\ Script[p][k] = Role(p)[k]
  <2>1. k \in Nat /\ k <= Roles(p) /\ Roles(p) \in Nat
    BY <1>1 DEF Roles
  <2>2. RoleHolds(h, p, m, k, g)
    BY <2>1, HoldsInRole
  <2>3. /\ r[3] \in Array
        /\ RoleHolds(h, p, [m EXCEPT ![r[3]] = Said(h, r[1], p, Taken(r[1], p, k))],
                     k, g \cup {r[1]})
    BY <1>1, <2>2, RoleTakes
  <2> QED
    BY <2>1, <2>3, HoldsInRole
<1>2. ASSUME NEW x \in 1 .. Width + 2, k = Roles(p) + x, Script[p][k] = Common(p, x)
      PROVE  /\ r[3] \in Array
             /\ Holds(h, p, [m EXCEPT ![r[3]] = Said(h, r[1], p, Taken(r[1], p, k))],
                      k, g \cup {r[1]})
  <2>1. x \in Nat /\ x >= 1
    BY Parties
  <2>2. CommonHolds(h, p, m, x, g)
    BY <1>2, <2>1, HoldsAfterRole
  <2>3. r \in Common(p, x).recvs
    BY <1>2
  <2>4. /\ r[3] \in Array
        /\ CommonHolds(h, p, [m EXCEPT ![r[3]] = Said(h, r[1], p, Taken(r[1], p, Roles(p) + x))],
                       x, g \cup {r[1]})
    BY <2>2, <2>3, CommonTakes
  <2> QED
    BY <1>2, <2>1, <2>4, HoldsAfterRole
<1> QED
  BY <1>1, <1>2, CallsCases

\* The arrays m when u is stored in i and v in j.
Stored(o, m, i, u, j, v) ==
  /\ IsMemory(o)
  /\ \A b \in Array : o[b] = IF b = i THEN u ELSE IF b = j THEN v ELSE m[b]

LEMMA DrawsInto ==
  ASSUME NEW p, NEW n, NEW m, IsMemory(m), NEW i \in Array, NEW j \in Array, i # j
  PROVE  Stored(DrawPair(p, m, n, i, j), m, i, Random[p][n], j, Random[Pred(p)][n])
<1> DEFINE u == Random[p][n]
           v == Random[Pred(p)][n]
           o == DrawPair(p, m, n, i, j)
<1>1. o = [m EXCEPT ![i] = u, ![j] = v]
  BY DEF DrawPair
<1> HIDE DEF o, u, v
<1>2. Stored(o, m, i, u, j, v)
  BY <1>1 DEF IsMemory, Stored
<1> QED
  BY <1>2 DEF o, u, v

LEMMA XorsInto ==
  ASSUME NEW m, IsMemory(m), NEW a \in Array, NEW b \in Array, NEW c \in Array
  PROVE  LET u == Xor(m[a], Xor(m[b], m[c])) IN Stored(XorInto(m, a, b, c), m, a, u, a, u)
<1> DEFINE u == Xor(m[a], Xor(m[b], m[c]))
           o == XorInto(m, a, b, c)
<1>1. o = [m EXCEPT ![a] = u]
  BY DEF XorInto
<1> HIDE DEF o, u
<1>2. Stored(o, m, a, u, a, u)
  BY <1>1 DEF IsMemory, Stored
<1> QED
  BY <1>2 DEF o, u

LEMMA RoleThens ==
  /\ RoleP1[1].then = Then("deal_sum") /\ RoleP1[2].then = Then("none")
  /\ RoleP1[3].then = Then("pair_R1") /\ RoleP1[4].then = Then("mask_R1_pair_R2")
  /\ RoleP2[1].then = Then("pair_R1") /\ RoleP2[2].then = Then("pair_R2")
  /\ RoleP2[3].then = Then("mask_R2")
  /\ RoleP3[1].then = Then("deal_x3") /\ RoleP3[2].then = Then("none")
  /\ RoleP3[3].then = Then("pairs") /\ RoleP3[4].then = Then("none")
BY DEF RoleP1, RoleP2, RoleP3, Call

LEMMA AfterThen ==
  ASSUME NEW p, NEW m, NEW n, NEW r
  PROVE  /\ After(p, m, n, Then("deal_sum"), r) = DealSum(m, r)
         /\ After(p, m, n, Then("deal_x3"), r) = Deal(m, m["xa1"], r, "w13", "w2", "w1")
         /\ After(p, m, n, Then("pair_R1"), r) = DrawPair(p, m, n, "xb2", "xb1")
         /\ After(p, m, n, Then("pair_R2"), r) = DrawPair(p, m, n, "r_temp", "xb1")
         /\ After(p, m, n, Then("pairs"), r) =
              DrawPair(p, DrawPair(p, m, n, "xb2", "xb1"), n + 1, "r_temp", "xb1")
         /\ After(p, m, n, Then("mask_R1_pair_R2"), r) =
              DrawPair(p, XorInto(m, "xb1", "r_temp", "xb2"), n, "r_temp", "r_temp2")
         /\ After(p, m, n, Then("mask_R2"), r) = XorInto(m, "xb1", "r_temp2", "r_temp")
         /\ After(p, m, n, Then("start"), r) = StartCarry(p, m, n)
         /\ After(p, m, n, Then("unmask"), r) = XorInto(m, "xb1", "xa1", "w1")
         /\ After(p, m, n, Then("none"), r) = m
<1>1. \A do : Then(do).do = do
  BY DEF Then
<1> HIDE DEF Then
<1> QED
  BY <1>1 DEF After

LEMMA RoleDraws ==
  /\ Draws(0, 3) = 0 /\ Draws(0, 4) = 1
  /\ Draws(1, 1) = 0 /\ Draws(1, 2) = 1
  /\ Draws(2, 3) = 0
  /\ \A p \in Party : Draws(p, Roles(p) + 2) = 2
  /\ \A p \in Party : \A x \in 3 .. Width : Draws(p, Roles(p) + x) = 3 * (x - 2)
BY Parties DEF Draws, Roles, Reached

\* What a call of a role leaves is what the next call wants.
LEMMA RoleReturns ==
  ASSUME NEW h, NEW p \in Party, NEW k \in 1 .. Roles(p), k > 1 \/ p = 1, NEW g,
         NEW m, IsMemory(m), RoleHolds(h, p, m, k, g),
         \A q \in Role(p)[k].recvs : q[1] \in g, NEW r
  PROVE  LET o == After(p, m, Draws(p, k), Role(p)[k].then, r)
         IN  IsMemory(o) /\ Holds(h, p, o, k + 1, {})
<1> DEFINE o == After(p, m, Draws(p, k), Role(p)[k].then, r)
<1>1. /\ Pred(0) = 2 /\ Pred(1) = 0 /\ Pred(2) = 1
      /\ Roles(0) = 4 /\ Roles(1) = 3 /\ Roles(2) = 4
  BY DEF Pred, Roles
<1>2. /\ "xa1" \in Array /\ "xb1" \in Array /\ "xb2" \in Array /\ "w1" \in Array /\ "r_temp" \in Array
      /\ "r_temp2" \in Array /\ "w13" \in Array /\ "w2" \in Array
  BY DEF Array
\* The shares are in the arrays that the addition wants.
<1>3. ASSUME k = Roles(p), o["xa1"] = h.a[p], o["w1"] = h.w[p], o["xb2"] = Random[p][0],
             o["r_temp"] = Random[p][1], p # 2 => o["xb1"] = Mask(p)
      PROVE  Holds(h, p, o, k + 1, {})
  <2>1. 1 <= Width /\ ~ (1 \in 3 .. Width) /\ 1 # Width + 1 /\ ~ (1 > Width + 1)
        /\ 1 # Width + 2 /\ ~ (1 > Width + 2)
    BY Parties
  <2>2. p # 2 => Result(h, p) = Mask(p)
    BY DEF Result
  <2> HIDE DEF o
  <2>3. SharesHeld(h, p, o, 1, {})
    BY <1>3 DEF SharesHeld
  <2>4. ResultHeld(h, p, o, 1, {})
    BY <1>3, <2>1, <2>2 DEF ResultHeld
  <2>5. CommonHolds(h, p, o, 1, {})
    BY <2>1, <2>3, <2>4 DEF CommonHolds
  <2> QED
    BY <1>3, <2>5, HoldsAfterRole
<1>4. CASE p = 0 /\ k = 2
  <2>1. o = m
    BY <1>4, RoleThens, AfterThen DEF Role
  <2> HIDE DEF o
  <2>2. RoleHolds(h, p, o, 3, {})
    BY <1>4, <2>1 DEF Stored, RoleHolds, Holds1
  <2> QED
    BY <1>1, <1>4, <2>1, <2>2, HoldsInRole DEF o, Stored
<1>5. CASE p = 0 /\ k = 3
  <2>1. o = DrawPair(0, m, 0, "xb2", "xb1")
    BY <1>5, RoleThens, AfterThen, RoleDraws DEF Role
  <2>2. 2 \in g
    <3>1. <<2, "w13", "w1">> \in Role(p)[k].recvs
      BY <1>5, RoleRecvs DEF Role
    <3> QED
      BY <3>1
  <2> HIDE DEF o
  <2>3. Stored(o, m, "xb2", Random[0][0], "xb1", Random[2][0])
    BY <1>1, <1>2, <2>1, DrawsInto
  <2>4. RoleHolds(h, p, o, 4, {})
    BY <1>2, <1>5, <2>2, <2>3 DEF Stored, RoleHolds, Holds1
  <2> QED
    BY <1>1, <1>5, <2>3, <2>4, HoldsInRole DEF o, Stored
<1>6. CASE p = 0 /\ k = 4
  <2> DEFINE i == XorInto(m, "xb1", "r_temp", "xb2")
  <2>1. o = DrawPair(0, i, 1, "r_temp", "r_temp2")
    BY <1>6, RoleThens, AfterThen, RoleDraws DEF Role
  <2>2. 1 \in g
    <3>1. <<1, "xb2", "r_temp">> \in Role(p)[k].recvs
      BY <1>6, RoleRecvs DEF Role
    <3> QED
      BY <3>1
  <2>3. Stored(i, m, "xb1", Xor(m["xb1"], Xor(m["r_temp"], m["xb2"])), "xb1",
             Xor(m["xb1"], Xor(m["r_temp"], m["xb2"])))
    BY <1>2, XorsInto
  <2> HIDE DEF o, i
  <2>4. Stored(o, i, "r_temp", Random[0][1], "r_temp2", Random[2][1])
    <3>1. IsMemory(i)
      BY <2>3 DEF Stored
    <3> QED
      BY <1>1, <1>2, <2>1, <3>1, DrawsInto
  <2>5. i["xb1"] = Mask(0)
    BY <1>2, <1>6, <2>2, <2>3 DEF Stored, RoleHolds, Holds1, Mask
  <2>6. o["xa1"] = h.a[0] /\ o["w1"] = h.w[0] /\ o["xb2"] = Random[0][0]
    BY <1>2, <1>6, <2>3, <2>4 DEF Stored, RoleHolds, Holds1
  <2>7. o["r_temp"] = Random[0][1] /\ o["xb1"] = Mask(0)
    BY <1>2, <2>4, <2>5 DEF Stored
  <2> QED
    BY <1>1, <1>3, <1>6, <2>4, <2>6, <2>7 DEF o, Stored
<1>7. CASE p = 1 /\ k = 1
  <2>1. o = DrawPair(1, m, 0, "xb2", "xb1")
    BY <1>7, RoleThens, AfterThen, RoleDraws DEF Role
  <2>2. 0 \in g /\ 2 \in g
    <3>1. <<0, "z12", "xa1">> \in Role(p)[k].recvs /\ <<2, "w2", "w1">> \in Role(p)[k].recvs
      BY <1>7, RoleRecvs DEF Role
    <3> QED
      BY <3>1
  <2> HIDE DEF o
  <2>3. Stored(o, m, "xb2", Random[1][0], "xb1", Random[0][0])
    BY <1>1, <1>2, <2>1, DrawsInto
  <2>4. RoleHolds(h, p, o, 2, {})
    BY <1>2, <1>7, <2>2, <2>3 DEF Stored, RoleHolds, Holds2
  <2> QED
    BY <1>1, <1>7, <2>3, <2>4, HoldsInRole DEF o, Stored
<1>8. CASE p = 1 /\ k = 2
  <2>1. o = DrawPair(1, m, 1, "r_temp", "xb1")
    BY <1>8, RoleThens, AfterThen, RoleDraws DEF Role
  <2> HIDE DEF o
  <2>2. Stored(o, m, "r_temp", Random[1][1], "xb1", Random[0][1])
    BY <1>1, <1>2, <2>1, DrawsInto
  <2>3. RoleHolds(h, p, o, 3, {})
    BY <1>2, <1>8, <2>2 DEF Stored, RoleHolds, Holds2
  <2> QED
    BY <1>1, <1>8, <2>2, <2>3, HoldsInRole DEF o, Stored
<1>9. CASE p = 1 /\ k = 3
  <2>1. o = XorInto(m, "xb1", "r_temp2", "r_temp")
    BY <1>9, RoleThens, AfterThen DEF Role
  <2>2. 2 \in g
    <3>1. <<2, "r_temp", "r_temp2">> \in Role(p)[k].recvs
      BY <1>9, RoleRecvs DEF Role
    <3> QED
      BY <3>1
  <2> HIDE DEF o
  <2>3. Stored(o, m, "xb1", Xor(m["xb1"], Xor(m["r_temp2"], m["r_temp"])), "xb1",
             Xor(m["xb1"], Xor(m["r_temp2"], m["r_temp"])))
    BY <1>2, <2>1, XorsInto
  <2>4. /\ m["xa1"] = h.a[1] /\ m["w1"] = h.w[1] /\ m["xb2"] = Random[1][0]
        /\ m["r_temp"] = Random[1][1] /\ m["xb1"] = Random[0][1] /\ m["r_temp2"] = Random[2][1]
    BY <1>9, <2>2 DEF Stored, RoleHolds, Holds2
  <2>5. o["xb1"] = Mask(1)
    BY <1>2, <2>3, <2>4 DEF Mask, Stored
  <2>6. o["xa1"] = h.a[1] /\ o["w1"] = h.w[1] /\ o["xb2"] = Random[1][0] /\ o["r_temp"] = Random[1][1]
    BY <1>2, <2>3, <2>4 DEF Stored
  <2> QED
    BY <1>1, <1>3, <1>9, <2>3, <2>5, <2>6 DEF o, Stored
<1>10. CASE p = 2 /\ k = 2
  <2>1. o = m
    BY <1>10, RoleThens, AfterThen DEF Role
  <2>2. 0 \in g
    <3>1. <<0, "z13", "xa1">> \in Role(p)[k].recvs
      BY <1>10, RoleRecvs DEF Role
    <3> QED
      BY <3>1
  <2> HIDE DEF o
  <2>3. RoleHolds(h, p, o, 3, {})
    BY <1>10, <2>1, <2>2 DEF Stored, RoleHolds, Holds3
  <2> QED
    BY <1>1, <1>10, <2>1, <2>3, HoldsInRole DEF o, Stored
<1>11. CASE p = 2 /\ k = 3
  <2> DEFINE i == DrawPair(2, m, 0, "xb2", "xb1")
  <2>1. o = DrawPair(2, i, 1, "r_temp", "xb1")
    BY <1>11, RoleThens, AfterThen, RoleDraws DEF Role
  <2>2. Stored(i, m, "xb2", Random[2][0], "xb1", Random[1][0])
    BY <1>1, <1>2, DrawsInto
  <2> HIDE DEF o, i
  <2>3. Stored(o, i, "r_temp", Random[2][1], "xb1", Random[1][1])
    <3>1. IsMemory(i)
      BY <2>2 DEF Stored
    <3> QED
      BY <1>1, <1>2, <2>1, <3>1, DrawsInto
  <2>4. RoleHolds(h, p, o, 4, {})
    BY <1>2, <1>11, <2>2, <2>3 DEF Stored, RoleHolds, Holds3
  <2> QED
    BY <1>1, <1>11, <2>3, <2>4, HoldsInRole DEF o, Stored
<1>12. CASE p = 2 /\ k = 4
  <2>1. o = m
    BY <1>12, RoleThens, AfterThen DEF Role
  <2> HIDE DEF o
  <2>2. /\ o["xa1"] = h.a[2] /\ o["w1"] = h.w[2] /\ o["xb2"] = Random[2][0]
        /\ o["r_temp"] = Random[2][1]
    BY <1>12, <2>1 DEF Stored, RoleHolds, Holds3
  <2> QED
    BY <1>1, <1>3, <1>12, <2>1, <2>2 DEF o
<1> QED
  BY <1>1, <1>4, <1>5, <1>6, <1>7, <1>8, <1>9, <1>10, <1>11, <1>12, Parties

Carried(h) == CarriesHeld(h, Width - 1) /\ h.c \in [Party -> SUBSET (0 .. Width - 2)]

\* A party makes its share of a carry.
LEMMA CarryMade ==
  ASSUME NEW h, Carried(h), NEW p \in Party, NEW b \in Nat, b < Width - 1, NEW m,
         SharesHeld(h, p, m, 3, {}),
         b > 0 => /\ m["carry1"] = h.c[p] \cap (0 .. b - 1)
                  /\ m["carry2"] = h.c[Succ(p)] \cap (0 .. b - 1)
  PROVE  CarryShare(p, m, DrawnAt(b), b) = GetBit(h.c[p], b)
<1> DEFINE n == DrawnAt(b)
<1>1. /\ m["xa1"] = h.a[p] /\ m["xa2"] = h.a[Succ(p)]
      /\ m["w1"] = h.w[p] /\ m["w2"] = h.w[Succ(p)]
  BY DEF SharesHeld
<1>2. AndOf(p, n, m["xa1"], m["xa2"], m["w1"], m["w2"], b, b) = AndShare(p, n, h.a, h.w, b, b)
  BY <1>1 DEF AndShare
<1>3. CASE b = 0
  <2>1. CarryShare(p, m, n, b) = AndShare(p, n, h.a, h.w, b, b)
    BY <1>2, <1>3 DEF CarryShare
  <2>2. CarryOf(h, p, b) = AndShare(p, n, h.a, h.w, b, b)
    BY <1>3 DEF CarryOf
  <2> QED
    BY <2>1, <2>2 DEF Carried, CarriesHeld
<1>4. CASE b # 0
  <2>1. b - 1 \in 0 .. b - 1 /\ b > 0
    BY <1>4
  <2>2. GetBit(m["carry1"], b - 1) = GetBit(h.c[p], b - 1)
    BY <2>1 DEF GetBit
  <2>3. GetBit(m["carry2"], b - 1) = GetBit(h.c[Succ(p)], b - 1)
    BY <2>1 DEF GetBit
  <2>4. ASSUME NEW i, NEW u
        PROVE  AndOf(p, i, u[p], u[Succ(p)], m["carry1"], m["carry2"], b, b - 1)
                 = AndShare(p, i, u, h.c, b, b - 1)
    BY <2>2, <2>3 DEF AndOf, AndShare
  <2>5. CarryShare(p, m, n, b) =
          Xor(AndShare(p, n, h.a, h.w, b, b),
              Xor(AndShare(p, n + 1, h.a, h.c, b, b - 1), AndShare(p, n + 2, h.w, h.c, b, b - 1)))
    BY <1>1, <1>2, <1>4, <2>4 DEF CarryShare
  <2>6. CarryOf(h, p, b) = CarryShare(p, m, n, b)
    BY <1>4, <2>5 DEF CarryOf
  <2> QED
    BY <2>6 DEF Carried, CarriesHeld
<1> QED
  BY <1>3, <1>4

\* A word whose bits below b and bit b are given.
LEMMA BitAdded ==
  ASSUME NEW c \in SUBSET Nat, NEW b \in Bits
  PROVE  (c \cap (0 .. b - 1)) \cup ShiftLeft(GetBit(c, b), b) = c \cap (0 .. b)
<1>1. \A i \in Bits : i - b \in GetBit(c, b) <=> i = b /\ b \in c
  BY Parties DEF GetBit, Bits
<1>2. \A i : i \in ShiftLeft(GetBit(c, b), b) <=> i = b /\ b \in c
  BY <1>1 DEF ShiftLeft
<1>3. \A i : i \in 0 .. b <=> i \in 0 .. b - 1 \/ i = b
  BY Parties DEF Bits
<1> HIDE DEF ShiftLeft, GetBit
<1> QED
  BY <1>2, <1>3

\* The exchange of a carry is done, and the next one is made.
LEMMA CarryNext ==
  ASSUME NEW h, Carried(h), NEW p \in Party, NEW b \in Nat, b + 1 < Width - 1, NEW g,
         Succ(p) \in g, NEW m, IsMemory(m), SharesHeld(h, p, m, 3, {}), RoundHeld(h, p, m, b, g)
  PROVE  LET o == NextCarry(p, m, DrawnAt(b + 1), b)
         IN  /\ IsMemory(o)
             /\ \A i \in Array \ {"carry1", "carry2", "c1"} : o[i] = m[i]
             /\ RoundHeld(h, p, o, b + 1, {})
<1> DEFINE q == Succ(p)
           n == DrawnAt(b + 1)
           s1 == h.c[p] \cap (0 .. (b + 1) - 1)
           s2 == h.c[q] \cap (0 .. (b + 1) - 1)
           s == [m EXCEPT !["carry1"] = s1, !["carry2"] = s2]
           c == CarryShare(p, s, n, b + 1)
           o == NextCarry(p, m, n, b)
<1>1. "carry1" \in Array /\ "carry2" \in Array /\ "c1" \in Array
  BY DEF Array
<1>2. q \in Party /\ b \in Bits /\ (b + 1) - 1 = b
  BY Parties DEF Succ, Bits
<1>3. h.c[p] \in SUBSET Nat /\ h.c[q] \in SUBSET Nat
  BY <1>2 DEF Carried
<1>4. /\ m["carry1"] \cup ShiftLeft(m["c1"] \cap {0}, b) = s1
      /\ m["carry2"] \cup ShiftLeft(m["c2"] \cap {0}, b) = s2
  <2>1. \A u : GetBit(u, b) \cap {0} = GetBit(u, b)
    BY DEF GetBit
  <2>2. /\ m["carry1"] = h.c[p] \cap (0 .. b - 1) /\ m["carry2"] = h.c[q] \cap (0 .. b - 1)
        /\ m["c1"] = GetBit(h.c[p], b) /\ m["c2"] = GetBit(h.c[q], b)
    BY DEF RoundHeld
  <2>3. m["c1"] \cap {0} = m["c1"] /\ m["c2"] \cap {0} = m["c2"]
    BY <2>1, <2>2
  <2>4. (h.c[p] \cap (0 .. b - 1)) \cup ShiftLeft(GetBit(h.c[p], b), b) = s1
    BY <1>2, <1>3, BitAdded
  <2>5. (h.c[q] \cap (0 .. b - 1)) \cup ShiftLeft(GetBit(h.c[q], b), b) = s2
    BY <1>2, <1>3, BitAdded
  <2> HIDE DEF s1, s2, q
  <2> QED
    BY <2>2, <2>3, <2>4, <2>5
<1>5. o = [s EXCEPT !["c1"] = c]
  BY <1>1, <1>4 DEF NextCarry, IsMemory
<1> HIDE DEF o, c, s1, s2
<1>6. /\ IsMemory(s) /\ s["carry1"] = s1 /\ s["carry2"] = s2
      /\ \A i \in Array \ {"carry1", "carry2"} : s[i] = m[i]
  BY <1>1 DEF IsMemory
<1> HIDE DEF s
<1>7. /\ IsMemory(o) /\ o["c1"] = c
      /\ \A i \in Array \ {"c1"} : o[i] = s[i]
  BY <1>1, <1>5, <1>6 DEF IsMemory
<1>8. SharesHeld(h, p, s, 3, {})
  BY <1>6 DEF SharesHeld, Array
<1>9. c = GetBit(h.c[p], b + 1)
  BY <1>6, <1>8, CarryMade DEF c, s1, s2
<1>10. RoundHeld(h, p, o, b + 1, {})
  BY <1>1, <1>6, <1>7, <1>9 DEF RoundHeld, s1, s2
<1>11. \A i \in Array \ {"carry1", "carry2", "c1"} : o[i] = m[i]
  BY <1>6, <1>7
<1> QED
  BY <1>7, <1>10, <1>11 DEF o

\* The first carry is made of the lowest bits only.
LEMMA CarryStarts ==
  ASSUME NEW h, Carried(h), NEW p \in Party, NEW m, IsMemory(m), SharesHeld(h, p, m, 3, {})
  PROVE  LET o == StartCarry(p, m, 2)
         IN  /\ IsMemory(o)
             /\ \A i \in Array \ {"carry1", "carry2", "c1"} : o[i] = m[i]
             /\ RoundHeld(h, p, o, 0, {})
<1> DEFINE c == CarryShare(p, m, 2, 0)
           o == StartCarry(p, m, 2)
<1>1. "carry1" \in Array /\ "carry2" \in Array /\ "c1" \in Array
  BY DEF Array
<1>2. o = [m EXCEPT !["c1"] = c, !["carry1"] = Zero, !["carry2"] = Zero]
  BY DEF StartCarry
<1>3. c = GetBit(h.c[p], 0)
  <2>1. DrawnAt(0) = 2
    BY DEF DrawnAt
  <2>2. CarryShare(p, m, DrawnAt(0), 0) = GetBit(h.c[p], 0)
    BY Parties, CarryMade
  <2> QED
    BY <2>1, <2>2
<1> HIDE DEF o, c
<1>4. /\ IsMemory(o) /\ o["c1"] = c /\ o["carry1"] = Zero /\ o["carry2"] = Zero
      /\ \A i \in Array \ {"carry1", "carry2", "c1"} : o[i] = m[i]
  BY <1>1, <1>2 DEF IsMemory
<1>5. \A u : u \cap (0 .. 0 - 1) = Zero
  BY DEF Zero
<1>6. RoundHeld(h, p, o, 0, {})
  BY <1>3, <1>4, <1>5 DEF RoundHeld
<1> QED
  BY <1>4, <1>6 DEF o

\* The carries are done: the party has its share of the masked sum.
LEMMA SumMasked ==
  ASSUME NEW h, Carried(h), NEW p \in Party, NEW m, IsMemory(m), SharesHeld(h, p, m, 3, {}),
         RoundHeld(h, p, m, Width - 2, {})
  PROVE  LET o == MaskedSum(m)
         IN  /\ IsMemory(o) /\ o["w1"] = Masked(h, p)
             /\ \A i \in Array \ {"w1", "r_temp2"} : o[i] = m[i]
<1> DEFINE carries == m["carry1"] \cup ShiftLeft(m["c1"], Width - 2)
           sum == Xor(Xor(m["xa1"], m["w1"]), ShiftLeft(carries, 1))
           w == Xor(sum, Xor(m["xb2"], m["r_temp"]))
           o == MaskedSum(m)
<1>1. "w1" \in Array /\ "r_temp2" \in Array
  BY DEF Array
<1>2. carries = h.c[p]
  <2>1. h.c[p] \in SUBSET (0 .. Width - 2) /\ h.c[p] \in SUBSET Nat
    BY DEF Carried
  <2>2. h.c[p] \cap (0 .. Width - 2) = h.c[p]
    BY <2>1
  <2>3. Width - 2 \in Bits
    BY Parties DEF Bits
  <2>4. (h.c[p] \cap (0 .. (Width - 2) - 1)) \cup ShiftLeft(GetBit(h.c[p], Width - 2), Width - 2)
          = h.c[p] \cap (0 .. Width - 2)
    BY <2>1, <2>3, BitAdded
  <2>5. m["carry1"] = h.c[p] \cap (0 .. (Width - 2) - 1) /\ m["c1"] = GetBit(h.c[p], Width - 2)
    BY DEF RoundHeld
  <2> QED
    BY <2>2, <2>4, <2>5
<1>3. /\ m["xa1"] = h.a[p] /\ m["w1"] = h.w[p]
      /\ m["xb2"] = Random[p][0] /\ m["r_temp"] = Random[p][1]
  BY DEF SharesHeld
<1>4. w = Masked(h, p)
  <2> HIDE DEF carries
  <2> QED
    BY <1>2, <1>3 DEF Masked, SumShare
<1>5. o = [m EXCEPT !["r_temp2"] = sum, !["w1"] = w]
  BY DEF MaskedSum
<1> HIDE DEF o, w, sum
<1>6. IsMemory(o) /\ o["w1"] = w /\ \A i \in Array \ {"w1", "r_temp2"} : o[i] = m[i]
  BY <1>1, <1>5 DEF IsMemory
<1> QED
  BY <1>4, <1>6 DEF o

\* Once the exchanges of the shares are over, a party keeps them.
LEMMA SharesKept ==
  ASSUME NEW h, NEW p \in Party, NEW m, NEW o,
         \A i \in {"xa1", "xa2", "w1", "w2", "xb2", "r_temp"} : o[i] = m[i],
         SharesHeld(h, p, m, 3, {}), NEW x, x \in Nat, x > 2
  PROVE  SharesHeld(h, p, o, x, {})
<1>1. 3 > 1 /\ 3 > 2 /\ x > 1
  OBVIOUS
<1> QED
  BY <1>1 DEF SharesHeld

\* What a call after the role leaves is what the next call wants.
LEMMA CommonReturns ==
  ASSUME NEW h, Carried(h), NEW p \in Party, NEW x \in 1 .. Width + 2, NEW g, NEW m, IsMemory(m),
         CommonHolds(h, p, m, x, g), \A q \in Common(p, x).recvs : q[1] \in g, NEW r
  PROVE  LET o == After(p, m, Draws(p, Roles(p) + x), Common(p, x).then, r)
         IN  IsMemory(o) /\ CommonHolds(h, p, o, x + 1, {})
<1> DEFINE o == After(p, m, Draws(p, Roles(p) + x), Common(p, x).then, r)
           d == Draws(p, Roles(p) + x)
<1>1. /\ "xa1" \in Array /\ "xa2" \in Array /\ "xb1" \in Array /\ "xb2" \in Array /\ "w1" \in Array
      /\ "w2" \in Array /\ "r_temp" \in Array /\ "r_temp2" \in Array
  BY DEF Array
<1>2. /\ x <= Width => SharesHeld(h, p, m, x, g)
      /\ x \in 3 .. Width => RoundHeld(h, p, m, x - 3, g)
      /\ ResultHeld(h, p, m, x, g)
  BY DEF CommonHolds
<1>3. x # Width + 1 => Succ(p) \in g
  <2> SUFFICES ASSUME x # Width + 1 PROVE Succ(p) \in g
    OBVIOUS
  <2>1. PICK mine : Common(p, x).recvs = {<<Succ(p), ExchangeName(x), mine>>}
    BY CommonRecvs, Zenon
  <2>2. <<Succ(p), ExchangeName(x), mine>> \in Common(p, x).recvs
    BY <2>1
  <2> QED
    BY <2>2
<1>4. CASE x = 1
  <2>1. Common(p, x).then = Then("none")
    BY <1>4 DEF Common, Exchange, Call
  <2>2. o = m
    BY <2>1, AfterThen
  <2> HIDE DEF o
  <2>3. 2 <= Width /\ ~ (2 \in 3 .. Width) /\ 1 <= Width /\ 2 # Width + 1 /\ ~ (2 > Width + 1)
        /\ 1 # Width + 1 /\ ~ (1 > Width + 1) /\ 2 # Width + 2 /\ ~ (2 > Width + 2)
    BY Parties
  <2>4. SharesHeld(h, p, o, 2, {})
    BY <1>2, <1>3, <1>4, <2>2, <2>3 DEF SharesHeld
  <2>5. ResultHeld(h, p, o, 2, {})
    BY <1>2, <1>4, <2>2, <2>3 DEF ResultHeld
  <2>6. CommonHolds(h, p, o, 2, {})
    BY <2>3, <2>4, <2>5 DEF CommonHolds
  <2> QED
    BY <1>4, <2>2, <2>6 DEF o
<1>5. CASE x = 2
  <2>1. Common(p, x).then = Then("start") /\ d = 2
    BY <1>5, RoleDraws DEF Common, Exchange, Call
  <2>2. o = StartCarry(p, m, 2)
    BY <2>1, AfterThen
  <2>3. SharesHeld(h, p, m, 3, {})
    BY <1>2, <1>3, <1>5, Parties DEF SharesHeld
  <2>4. /\ IsMemory(StartCarry(p, m, 2))
        /\ \A i \in Array \ {"carry1", "carry2", "c1"} : StartCarry(p, m, 2)[i] = m[i]
        /\ RoundHeld(h, p, StartCarry(p, m, 2), 0, {})
    BY <2>3, CarryStarts
  <2> HIDE DEF o
  <2>5. /\ IsMemory(o) /\ RoundHeld(h, p, o, 0, {})
        /\ \A i \in {"xa1", "xa2", "w1", "w2", "xb1", "xb2", "r_temp"} : o[i] = m[i]
    BY <1>1, <2>2, <2>4
  <2>6. SharesHeld(h, p, o, 3, {})
    BY <2>3, <2>5, SharesKept
  <2>7. /\ 3 \in 3 .. Width /\ 3 <= Width /\ 3 - 3 = 0 /\ 3 # Width + 1 /\ ~ (3 > Width + 1)
        /\ 2 # Width + 1 /\ ~ (2 > Width + 1) /\ 3 # Width + 2 /\ ~ (3 > Width + 2)
    BY Parties
  <2>8. ResultHeld(h, p, o, 3, {})
    BY <1>2, <1>5, <2>5, <2>7 DEF ResultHeld
  <2>9. CommonHolds(h, p, o, 3, {})
    BY <2>5, <2>6, <2>7, <2>8 DEF CommonHolds
  <2> QED
    BY <1>5, <2>5, <2>9 DEF o
<1>6. CASE x \in 3 .. Width
  <2> DEFINE b == x - 3
             s == NextCarry(p, m, d, b)
  <2>1. /\ b \in Nat /\ b + 1 < Width - 1 /\ b + 1 = x - 2 /\ d = DrawnAt(b + 1) /\ x > 2
        /\ x \in Nat
    BY <1>6, RoleDraws, Parties DEF DrawnAt
  <2>2. Common(p, x).then = [do |-> "carry", bit |-> b]
    BY <1>6, Parties DEF Common, Exchange, Call
  <2>3. o = IF b = Width - 3 THEN MaskedSum(s) ELSE s
    BY <2>2 DEF After
  <2>4. SharesHeld(h, p, m, 3, {})
    BY <1>2, <1>6, <2>1 DEF SharesHeld
  <2>5. Succ(p) \in g /\ RoundHeld(h, p, m, b, g)
    BY <1>2, <1>3, <1>6, Parties
  <2> HIDE DEF b
  <2>6. /\ IsMemory(s) /\ RoundHeld(h, p, s, b + 1, {})
        /\ \A i \in Array \ {"carry1", "carry2", "c1"} : s[i] = m[i]
    BY <2>1, <2>4, <2>5, CarryNext
  <2> HIDE DEF o, s, d
  <2>7. SharesHeld(h, p, s, 3, {})
    <3>1. \A i \in {"xa1", "xa2", "w1", "w2", "xb2", "r_temp"} : s[i] = m[i]
      BY <1>1, <2>6
    <3> QED
      BY <2>4, <3>1, SharesKept
  <2>8. s["xb1"] = m["xb1"]
    BY <1>1, <2>6
  <2>9. p # 2 => m["xb1"] = Result(h, p)
    BY <1>2 DEF ResultHeld
  <2>10. CASE x = Width
    <3>1. b = Width - 3 /\ b + 1 = Width - 2
      BY <2>10, Parties DEF b
    <3>2. o = MaskedSum(s)
      BY <2>3, <3>1
    <3>3. /\ IsMemory(MaskedSum(s)) /\ MaskedSum(s)["w1"] = Masked(h, p)
          /\ \A i \in Array \ {"w1", "r_temp2"} : MaskedSum(s)[i] = s[i]
      BY <2>6, <2>7, <3>1, SumMasked
    <3>4. IsMemory(o) /\ o["w1"] = Masked(h, p) /\ o["xb1"] = s["xb1"]
      BY <1>1, <3>2, <3>3
    <3>5. /\ ~ (x + 1 <= Width) /\ ~ (x + 1 \in 3 .. Width) /\ x + 1 = Width + 1
          /\ ~ (x + 1 > Width + 1) /\ x + 1 # Width + 2 /\ ~ (x + 1 > Width + 2)
      BY <2>10, Parties
    <3>6. ResultHeld(h, p, o, x + 1, {})
      BY <2>8, <2>9, <3>4, <3>5 DEF ResultHeld
    <3>7. CommonHolds(h, p, o, x + 1, {})
      BY <3>5, <3>6 DEF CommonHolds
    <3> QED
      BY <3>4, <3>7 DEF o, d
  <2>11. CASE x # Width
    <3>1. b # Width - 3 /\ b + 1 = (x + 1) - 3 /\ x + 1 \in 3 .. Width /\ x + 1 <= Width
          /\ x + 1 > 2 /\ x + 1 \in Nat
      BY <1>6, <2>11, Parties DEF b
    <3>2. o = s
      BY <2>3, <3>1
    <3>3. SharesHeld(h, p, o, x + 1, {})
      BY <2>7, <3>1, <3>2, SharesKept
    <3>4. x + 1 # Width + 1 /\ ~ (x + 1 > Width + 1) /\ x + 1 # Width + 2 /\ ~ (x + 1 > Width + 2)
      BY <3>1, Parties
    <3>5. ResultHeld(h, p, o, x + 1, {})
      BY <2>8, <2>9, <3>2, <3>4 DEF ResultHeld
    <3>6. RoundHeld(h, p, o, (x + 1) - 3, {})
      BY <2>6, <3>1, <3>2
    <3>7. CommonHolds(h, p, o, x + 1, {})
      BY <3>1, <3>3, <3>5, <3>6 DEF CommonHolds
    <3> QED
      BY <2>6, <3>2, <3>7 DEF o, d
  <2> QED
    BY <2>10, <2>11
<1>7. CASE x = Width + 1
  <2>1. /\ ~ (x + 1 <= Width) /\ ~ (x + 1 \in 3 .. Width) /\ x + 1 # Width + 1
        /\ x + 1 > Width + 1 /\ x + 1 = Width + 2 /\ ~ (x + 1 > Width + 2)
    BY <1>7, Parties
  <2>2. CASE p # 2
    <3>1. Common(p, x).then = Then("none")
      BY <1>7, <2>2, Parties DEF Common, RevealSum, Call
    <3>2. o = m
      BY <3>1, AfterThen
    <3> HIDE DEF o
    <3>3. ResultHeld(h, p, o, x + 1, {})
      BY <1>2, <2>1, <2>2, <3>2 DEF ResultHeld
    <3>4. CommonHolds(h, p, o, x + 1, {})
      BY <2>1, <3>3 DEF CommonHolds
    <3> QED
      BY <3>2, <3>4 DEF o
  <2>3. CASE p = 2
    <3>1. Common(p, x).then = Then("unmask")
      BY <1>7, <2>3, Parties DEF Common, RevealSum, Call
    <3>2. o = XorInto(m, "xb1", "xa1", "w1")
      BY <3>1, AfterThen
    <3>3. 0 \in g /\ 1 \in g
      <4>1. <<0, "w1", "xb1">> \in Common(p, x).recvs /\ <<1, "w1", "xa1">> \in Common(p, x).recvs
        BY <1>7, <2>3, CommonRecvs
      <4> QED
        BY <4>1
    <3>4. m["xb1"] = Masked(h, 0) /\ m["xa1"] = Masked(h, 1) /\ m["w1"] = Masked(h, 2)
      BY <1>2, <1>7, <2>3, <3>3 DEF ResultHeld
    <3>5. Stored(XorInto(m, "xb1", "xa1", "w1"), m,
                 "xb1", Xor(m["xb1"], Xor(m["xa1"], m["w1"])),
                 "xb1", Xor(m["xb1"], Xor(m["xa1"], m["w1"])))
      BY <1>1, XorsInto
    <3> HIDE DEF o
    <3>6. IsMemory(o) /\ o["xb1"] = Result(h, p)
      BY <1>1, <2>3, <3>2, <3>4, <3>5 DEF Stored, Result
    <3>7. ResultHeld(h, p, o, x + 1, {})
      BY <2>1, <3>6 DEF ResultHeld
    <3>8. CommonHolds(h, p, o, x + 1, {})
      BY <2>1, <3>7 DEF CommonHolds
    <3> QED
      BY <3>6, <3>8 DEF o
  <2> QED
    BY <2>2, <2>3
<1>8. CASE x = Width + 2
  <2>1. Common(p, x).then = Then("none")
    BY <1>8, Parties DEF Common, Exchange, Call
  <2>2. o = m
    BY <2>1, AfterThen
  <2> HIDE DEF o
  <2>3. /\ ~ (x + 1 <= Width) /\ ~ (x + 1 \in 3 .. Width) /\ x + 1 # Width + 1
        /\ x + 1 > Width + 2 /\ x > Width + 1 /\ x # Width + 1
    BY <1>8, Parties
  <2>4. ResultHeld(h, p, o, x + 1, {})
    BY <1>2, <1>3, <1>8, <2>2, <2>3 DEF ResultHeld
  <2>5. CommonHolds(h, p, o, x + 1, {})
    BY <2>3, <2>4 DEF CommonHolds
  <2> QED
    BY <2>2, <2>5 DEF o
<1> QED
  BY <1>4, <1>5, <1>6, <1>7, <1>8, Parties

LEMMA CallReturns ==
  ASSUME NEW h, Carried(h), NEW p \in Party, NEW k \in 1 .. LastCall(p), k > 1 \/ p = 1, NEW g,
         NEW m, IsMemory(m), Holds(h, p, m, k, g),
         \A q \in Script[p][k].recvs : q[1] \in g, NEW r
  PROVE  LET o == After(p, m, Draws(p, k), Script[p][k].then, r)
         IN  IsMemory(o) /\ Holds(h, p, o, k + 1, {})
<1>1. CASE k \in 1 .. Roles(p) /\ Script[p][k] = Role(p)[k]
  <2>1. k \in Nat /\ k <= Roles(p)
    BY <1>1 DEF Roles
  <2>2. RoleHolds(h, p, m, k, g)
    BY <2>1, HoldsInRole
  <2>3. \A q \in Role(p)[k].recvs : q[1] \in g
    BY <1>1
  <2>4. LET o == After(p, m, Draws(p, k), Role(p)[k].then, r)
        IN  IsMemory(o) /\ Holds(h, p, o, k + 1, {})
    BY <1>1, <2>2, <2>3, RoleReturns
  <2> QED
    BY <1>1, <2>4
<1>2. ASSUME NEW x \in 1 .. Width + 2, k = Roles(p) + x, Script[p][k] = Common(p, x)
      PROVE  LET o == After(p, m, Draws(p, k), Script[p][k].then, r)
             IN  IsMemory(o) /\ Holds(h, p, o, k + 1, {})
  <2>1. x \in Nat /\ x >= 1 /\ x + 1 \in Nat /\ x + 1 >= 1 /\ Roles(p) + (x + 1) = k + 1
    BY <1>2, Parties DEF Roles
  <2>2. CommonHolds(h, p, m, x, g)
    BY <1>2, <2>1, HoldsAfterRole
  <2>3. \A q \in Common(p, x).recvs : q[1] \in g
    BY <1>2
  <2> DEFINE o == After(p, m, Draws(p, Roles(p) + x), Common(p, x).then, r)
  <2>4. IsMemory(o) /\ CommonHolds(h, p, o, x + 1, {})
    BY <2>2, <2>3, CommonReturns
  <2>5. Holds(h, p, o, k + 1, {})
    <3> HIDE DEF o
    <3>1. Holds(h, p, o, Roles(p) + (x + 1), {})
      BY <2>1, <2>4, HoldsAfterRole
    <3> QED
      BY <2>1, <3>1
  <2> QED
    BY <1>2, <2>4, <2>5
<1> QED
  BY <1>1, <1>2, CallsCases

\* What a call sends is what its receiver takes it for.
LEMMA SaidIsHeld ==
  ASSUME NEW h, NEW p \in Party, NEW k \in 1 .. LastCall(p), NEW m,
         Holds(h, p, m, k, {}), NEW s \in Script[p][k].sends
  PROVE  m[s[2]] = Said(h, p, s[1], Sent(p, s[1], k))
<1>1. CASE k \in 1 .. Roles(p) /\ Script[p][k] = Role(p)[k]
  <2>1. RoleHolds(h, p, m, k, {})
    BY <1>1, HoldsInRole DEF Roles
  <2>2. CASE p = 0
    <3>1. k = 2 /\ (s = <<1, "z12">> \/ s = <<2, "z13">>)
      BY <1>1, <2>2, RoleSends DEF Role, Roles
    <3>2. m["z12"] = h.a[1] /\ m["z13"] = h.a[2]
      BY <2>1, <2>2, <3>1 DEF RoleHolds, Holds1
    <3>3. Sent(0, 2, 2) = 1
      BY RoleSent, Parties DEF One
    <3>4. \A n : Said(h, 0, 1, n) = h.a[1]
      BY DEF Said
    <3>5. Said(h, 0, 2, 1) = h.a[2]
      BY DEF Said
    <3> QED
      BY <2>2, <3>1, <3>2, <3>3, <3>4, <3>5
  <2>3. CASE p = 1
    <3>1. k = 2 /\ s = <<0, "xb2">>
      BY <1>1, <2>3, RoleSends DEF Role, Roles
    <3>2. m["xb2"] = Random[1][0]
      BY <2>1, <2>3, <3>1 DEF RoleHolds, Holds2
    <3>3. Sent(1, 0, 2) = 1
      BY RoleSent, Parties DEF One
    <3>4. Said(h, 1, 0, 1) = Random[1][0]
      BY DEF Said
    <3> QED
      BY <2>3, <3>1, <3>2, <3>3, <3>4
  <2>4. CASE p = 2
    <3>1. \/ k = 3 /\ (s = <<0, "w13">> \/ s = <<1, "w2">>)
          \/ k = 4 /\ s = <<1, "r_temp">>
      BY <1>1, <2>4, RoleSends DEF Role, Roles
    <3>2. Sent(2, 1, 3) = 1 /\ Sent(2, 1, 4) = 2
      BY RoleSent, Parties DEF One
    <3>3. \A n : Said(h, 2, 0, n) = h.w[0]
      BY DEF Said
    <3>4. Said(h, 2, 1, 1) = h.w[1] /\ Said(h, 2, 1, 2) = Random[2][1]
      BY DEF Said
    <3>5. CASE k = 3
      <4>1. m["w13"] = h.w[0] /\ m["w2"] = h.w[1]
        BY <2>1, <2>4, <3>5 DEF RoleHolds, Holds3
      <4> QED
        BY <2>4, <3>1, <3>2, <3>3, <3>4, <3>5, <4>1
    <3>6. CASE k = 4
      <4>1. m["r_temp"] = Random[2][1]
        BY <2>1, <2>4, <3>6 DEF RoleHolds, Holds3
      <4> QED
        BY <2>4, <3>1, <3>2, <3>4, <3>6, <4>1
    <3> QED
      BY <3>1, <3>5, <3>6
  <2> QED
    BY <2>2, <2>3, <2>4, Parties
<1>2. ASSUME NEW x \in 1 .. Width + 2, k = Roles(p) + x, Script[p][k] = Common(p, x)
      PROVE  m[s[2]] = Said(h, p, s[1], Sent(p, s[1], k))
  <2>1. x \in Nat /\ x >= 1
    BY Parties
  <2>2. CommonHolds(h, p, m, x, {})
    BY <1>2, <2>1, HoldsAfterRole
  <2>3. CASE x = Width + 1
    <3>1. p \in {0, 1} /\ s = <<2, "w1">>
      BY <1>2, <2>3, CommonSends, Parties
    <3>2. m["w1"] = Masked(h, p)
      BY <2>2, <2>3 DEF CommonHolds, ResultHeld
    <3>3. Said(h, p, 2, Sent(p, 2, k)) = Masked(h, p)
      BY <1>2, <2>3, <3>1, SaidToP3
    <3> QED
      BY <3>1, <3>2, <3>3
  <2>4. CASE x # Width + 1
    <3>1. s = <<Pred(p), ExchangeName(x)>>
      <4>1. Common(p, x).sends = {<<Pred(p), ExchangeName(x)>>}
        BY <2>4, CommonSends
      <4> QED
        BY <1>2, <4>1
    <3>2. Said(h, p, Pred(p), Sent(p, Pred(p), k)) = ExchangeWord(h, p, x)
      BY <1>2, <2>4, SaidInExchange
    <3>3. m[ExchangeName(x)] = ExchangeWord(h, p, x)
      <4>1. CASE x = 1
        BY <2>2, <4>1, Parties DEF CommonHolds, SharesHeld, ExchangeName, ExchangeWord
      <4>2. CASE x = 2
        BY <2>2, <4>2, Parties DEF CommonHolds, SharesHeld, ExchangeName, ExchangeWord
      <4>3. CASE x \in 3 .. Width
        BY <2>2, <4>3, Parties DEF CommonHolds, RoundHeld, ExchangeName, ExchangeWord
      <4>4. CASE x = Width + 2
        BY <2>2, <4>4, Parties DEF CommonHolds, ResultHeld, ExchangeName, ExchangeWord
      <4> QED
        BY <2>4, <4>1, <4>2, <4>3, <4>4, Parties
    <3> QED
      BY <3>1, <3>2, <3>3
  <2> QED
    BY <2>3, <2>4
<1> QED
  BY <1>1, <1>2, CallsCases

-----------------------------------------------------------------------------
(* The shares that are dealt. *)

\* Shares of the sum of two of the three numbers and of the third, with their carries.
Shared(h) ==
  /\ h.a \in [Party -> Word] /\ h.w \in [Party -> Word] /\ Carried(h)
  /\ Together(h.a) = WordOf(Number(WordOf(input[0])) + Number(WordOf(input[1])))
  /\ Together(h.w) = WordOf(input[2])

\* Two random words and what is left make shares.
Shares(x, r) ==
  [p \in Party |-> IF p = 0 THEN r[1] ELSE IF p = 1 THEN r[2] ELSE Xor(x, Xor(r[1], r[2]))]

LEMMA SharesMake ==
  ASSUME NEW x \in Word, NEW r \in DealWords \X DealWords
  PROVE  Shares(x, r) \in [Party -> Word] /\ Together(Shares(x, r)) = x
<1>1. r[1] \in Word /\ r[2] \in Word
  BY ConvertAssumption
<1>2. \A u, v : u \in Word /\ v \in Word => Xor(u, v) \in Word
  BY DEF Xor, SymDiff, Word
<1>3. Shares(x, r) \in [Party -> Word]
  BY <1>1, <1>2 DEF Shares
<1>4. Together(Shares(x, r)) = Xor(r[1], Xor(r[2], Xor(x, Xor(r[1], r[2]))))
  BY Parties DEF Shares, Together
<1>5. \A u, v : Xor(u, Xor(v, Xor(x, Xor(u, v)))) = x
  BY DEF Xor, SymDiff
<1> QED
  BY <1>3, <1>4, <1>5

\* Any shares of the two words have their carries.
LEMMA SharedExists ==
  ASSUME NEW a \in [Party -> Word], NEW w \in [Party -> Word],
         Together(a) = WordOf(Number(WordOf(input[0])) + Number(WordOf(input[1]))),
         Together(w) = WordOf(input[2])
  PROVE  \E h : Shared(h) /\ h.a = a /\ h.w = w
<1>1. Width - 1 \in Nat /\ (Width - 1) - 1 = Width - 2
  BY Parties
<1>2. PICK c \in [Party -> SUBSET (0 .. (Width - 1) - 1)] :
        CarriesHeld([a |-> a, w |-> w, c |-> c], Width - 1)
  BY <1>1, CarriesExist
<1> DEFINE h == [a |-> a, w |-> w, c |-> c]
<1>3. h.a = a /\ h.w = w /\ h.c = c
  OBVIOUS
<1>4. h.c \in [Party -> SUBSET (0 .. Width - 2)]
  BY <1>1, <1>2
<1> HIDE DEF h
<1>5. CarriesHeld(h, Width - 1)
  BY <1>2 DEF h
<1>6. Shared(h)
  BY <1>3, <1>4, <1>5 DEF Shared, Carried
<1> QED
  BY <1>3, <1>6

\* P1 deals shares of the sum, and P3 of the third number.
LEMMA SumIsDealt ==
  ASSUME NEW h, Shared(h), NEW m, IsMemory(m), NEW g, Holds(h, 0, m, 1, g),
         NEW r \in DealWords \X DealWords
  PROVE  /\ IsMemory(DealSum(m, r))
         /\ \E i : Shared(i) /\ i.w = h.w /\ Holds(i, 0, DealSum(m, r), 2, {})
<1> DEFINE x == WordOf(Number(m["xa1"]) + Number(m["xa2"]))
           z == Xor(x, Xor(r[1], r[2]))
           o == DealSum(m, r)
<1>1. Roles(0) = 4 /\ 1 <= 4 /\ 2 <= 4 /\ 0 \in Party
  BY Parties DEF Roles
<1>2. m["xa1"] = WordOf(input[0]) /\ m["xa2"] = WordOf(input[1])
  BY <1>1, HoldsInRole DEF RoleHolds, Holds1
<1>3. x \in Word
  BY DEF WordOf, Word
<1>4. Shares(x, r) \in [Party -> Word] /\ Together(Shares(x, r)) = x
  BY <1>3, SharesMake
<1>5. PICK i : Shared(i) /\ i.a = Shares(x, r) /\ i.w = h.w
  BY <1>2, <1>4, SharedExists DEF Shared
<1>6. i.a[0] = r[1] /\ i.a[1] = r[2] /\ i.a[2] = z
  BY <1>5, Parties DEF Shares
<1>7. o = [[m EXCEPT !["xa2"] = x] EXCEPT !["xa1"] = r[1], !["z12"] = r[2], !["z13"] = z]
  BY DEF DealSum, Deal
<1> HIDE DEF o, x, z
<1>8. IsMemory(o) /\ o["xa1"] = r[1] /\ o["z12"] = r[2] /\ o["z13"] = z
  BY <1>7 DEF IsMemory, Array
<1>9. RoleHolds(i, 0, o, 2, {})
  BY <1>6, <1>8 DEF RoleHolds, Holds1
<1>10. Holds(i, 0, o, 2, {})
  BY <1>1, <1>9, HoldsInRole
<1> QED
  BY <1>5, <1>8, <1>10 DEF o

LEMMA X3IsDealt ==
  ASSUME NEW h, Shared(h), NEW m, IsMemory(m), NEW g, Holds(h, 2, m, 1, g),
         NEW r \in DealWords \X DealWords
  PROVE  LET o == Deal(m, m["xa1"], r, "w13", "w2", "w1")
         IN  /\ IsMemory(o)
             /\ \E i : Shared(i) /\ i.a = h.a /\ Holds(i, 2, o, 2, {})
<1> DEFINE x == m["xa1"]
           z == Xor(x, Xor(r[1], r[2]))
           o == Deal(m, x, r, "w13", "w2", "w1")
<1>1. Roles(2) = 4 /\ 1 <= 4 /\ 2 <= 4 /\ 2 \in Party
  BY Parties DEF Roles
<1>2. x = WordOf(input[2])
  <2>1. RoleHolds(h, 2, m, 1, g)
    BY <1>1, HoldsInRole
  <2> QED
    BY <2>1 DEF RoleHolds, Holds3
<1>3. x \in Word
  BY <1>2 DEF WordOf, Word
<1>4. Shares(x, r) \in [Party -> Word] /\ Together(Shares(x, r)) = x
  <2> HIDE DEF x
  <2> QED
    BY <1>3, SharesMake
<1>5. PICK i : Shared(i) /\ i.w = Shares(x, r) /\ i.a = h.a
  BY <1>2, <1>4, SharedExists DEF Shared
<1>6. i.w[0] = r[1] /\ i.w[1] = r[2] /\ i.w[2] = z
  BY <1>5, Parties DEF Shares
<1>7. o = [m EXCEPT !["w13"] = r[1], !["w2"] = r[2], !["w1"] = z]
  BY DEF Deal
<1> HIDE DEF o, x, z
<1>8. IsMemory(o) /\ o["w13"] = r[1] /\ o["w2"] = r[2] /\ o["w1"] = z
  BY <1>7 DEF IsMemory, Array
<1>9. RoleHolds(i, 2, o, 2, {})
  BY <1>6, <1>8 DEF RoleHolds, Holds3
<1>10. Holds(i, 2, o, 2, {})
  BY <1>1, <1>9, HoldsInRole
<1> QED
  BY <1>5, <1>8, <1>10 DEF o, x

-----------------------------------------------------------------------------
(* The invariant of the words. *)

MemoryHeld == mem = [p \in Party |-> mem[p]] /\ \A p \in Party : IsMemory(mem[p])

\* A channel's words are those that its receiver wants next.
SaidHeld(h, q, p) ==
  \A n \in 1 .. Len(channel[<<q, p>>]) :
    channel[<<q, p>>][n].word = Said(h, q, p, TakenNow(q, p) + n)

DataHeld(h) ==
  /\ Shared(h)
  /\ \A p \in Party : Holds(h, p, mem[p], pc[p], got[p])
  /\ \A q, p \in Party : SaidHeld(h, q, p)

WordsInv ==
  /\ Inv
  /\ input \in [Party -> 0 .. Size - 1]
  /\ MemoryHeld
  /\ \E h : DataHeld(h)

LEMMA WordsInit == Init => WordsInv
<1> SUFFICES ASSUME Init PROVE WordsInv
  OBVIOUS
<1>1. input \in [Party -> 0 .. Size - 1]
  BY ConvertAssumption DEF Init
<1>2. /\ mem = [p \in Party |-> mem[p]] /\ \A p \in Party : IsMemory(mem[p])
      /\ mem[0]["xa1"] = WordOf(input[0]) /\ mem[0]["xa2"] = WordOf(input[1])
      /\ mem[2]["xa1"] = WordOf(input[2])
  <2>1. Succ(0) = 1 /\ "xa1" \in Array /\ "xa2" \in Array
    BY DEF Succ, Array
  <2>2. ASSUME NEW p \in Party
        PROVE  /\ mem[p] = [a \in Array |-> CASE a = "xa1" -> WordOf(input[p])
                              [] a = "xa2" -> WordOf(input[Succ(p)]) [] OTHER -> Zero]
    BY DEF Init
  <2>3. \A p \in Party : IsMemory(mem[p])
    <3> SUFFICES ASSUME NEW p \in Party PROVE IsMemory(mem[p])
      OBVIOUS
    <3>1. PICK f : mem[p] = [a \in Array |-> f[a]]
      BY <2>2
    <3> QED
      BY <3>1 DEF IsMemory
  <2>4. mem = [p \in Party |-> mem[p]]
    BY DEF Init
  <2> QED
    BY <2>1, <2>2, <2>3, <2>4, Parties
<1>3. \E h : Shared(h)
  <2> DEFINE One3(x) == [p \in Party |-> IF p = 0 THEN x ELSE {}]
             x == WordOf(Number(WordOf(input[0])) + Number(WordOf(input[1])))
  <2>1. ASSUME NEW u \in Word
        PROVE  One3(u) \in [Party -> Word] /\ Together(One3(u)) = u
    <3>1. Together(One3(u)) = Xor(u, Xor({}, {}))
      BY Parties DEF Together
    <3>2. Xor(u, Xor({}, {})) = u
      BY DEF Xor, SymDiff
    <3>3. {} \in Word
      BY DEF Word
    <3> QED
      BY <3>1, <3>2, <3>3
  <2>2. x \in Word /\ WordOf(input[2]) \in Word
    BY DEF WordOf, Word
  <2> HIDE DEF One3, x
  <2>3. \E h : Shared(h) /\ h.a = One3(x) /\ h.w = One3(WordOf(input[2]))
    BY <2>1, <2>2, SharedExists DEF x
  <2> QED
    BY <2>3
<1>4. PICK h : Shared(h)
  BY <1>3
<1>5. \A p \in Party : pc[p] = 1 /\ got[p] = {}
  BY DEF Init
<1>6. ASSUME NEW p \in Party
      PROVE  Holds(h, p, mem[p], pc[p], got[p])
  <2>1. 1 <= Roles(p)
    BY DEF Roles
  <2>2. RoleHolds(h, p, mem[p], 1, {})
    BY <1>2, Parties DEF RoleHolds, Holds1, Holds2, Holds3
  <2>3. Holds(h, p, mem[p], 1, {})
    BY <2>1, <2>2, HoldsInRole
  <2> QED
    BY <1>5, <2>3
<1>7. ASSUME NEW q \in Party, NEW p \in Party
      PROVE  SaidHeld(h, q, p)
  <2>1. channel[<<q, p>>] = <<>>
    BY DEF Init
  <2> QED
    BY <2>1 DEF SaidHeld
<1>8. DataHeld(h)
  BY <1>4, <1>6, <1>7 DEF DataHeld
<1> QED
  BY <1>1, <1>2, <1>8, InvInit DEF WordsInv, MemoryHeld

\* What is dealt and what the arrays hold does not depend on the step.
LEMMA SameInput ==
  ASSUME input' = input, NEW h
  PROVE  /\ Shared(h)' <=> Shared(h)
         /\ \A p, m, k, g : Holds(h, p, m, k, g)' <=> Holds(h, p, m, k, g)
<1>1. Shared(h)' <=> Shared(h)
  BY DEF Shared
<1>2. ASSUME NEW p, NEW m, NEW k, NEW g
      PROVE  Holds(h, p, m, k, g)' <=> Holds(h, p, m, k, g)
  <2>1. Holds1(h, m, k, g)' <=> Holds1(h, m, k, g)
    BY DEF Holds1
  <2>2. Holds3(h, m, k, g)' <=> Holds3(h, m, k, g)
    BY DEF Holds3
  <2>3. RoleHolds(h, p, m, k, g)' <=> RoleHolds(h, p, m, k, g)
    BY <2>1, <2>2 DEF RoleHolds
  <2> QED
    BY <2>3 DEF Holds
<1> QED
  BY <1>1, <1>2

\* A message that arrives is the word that its receiver wants.
LEMMA RecvWords ==
  ASSUME WordsInv, NEW p \in Party, Recv(p)
  PROVE  WordsInv'
<1>1. PICK r \in Awaited(p) :
        /\ mem' = [mem EXCEPT ![p][r[3]] = Head(channel[<<r[1], p>>]).word]
        /\ channel' = [channel EXCEPT ![<<r[1], p>>] = Tail(@)]
        /\ got' = [got EXCEPT ![p] = @ \cup {r[1]}]
  BY DEF Recv
<1>2. Running(p) /\ pc' = pc /\ input' = input
  BY DEF Recv
<1>3. PICK h : DataHeld(h)
  BY DEF WordsInv
<1>4. Inv /\ Inv'
  BY RecvKeeps DEF WordsInv
<1>5. pc[p] \in 1 .. LastCall(p) /\ r \in Script[p][pc[p]].recvs
  BY <1>2, <1>4, CurrentAt DEF Awaited, Current, Inv
<1>6. /\ r[1] \in Party /\ TakenNow(r[1], p) + 1 = Taken(r[1], p, pc[p])
      /\ channel[<<r[1], p>>] # <<>> /\ r[1] \notin got[p]
  BY <1>2, <1>4, AwaitedIsNext
<1> DEFINE w == Said(h, r[1], p, Taken(r[1], p, pc[p]))
           o == [mem[p] EXCEPT ![r[3]] = w]
<1>7. Head(channel[<<r[1], p>>]).word = w
  <2> DEFINE s == channel[<<r[1], p>>]
  <2>1. PICK S : s \in Seq(S)
    BY <1>4, <1>6 DEF Inv, ChannelsHeld, ChannelHeld
  <2>2. Head(s) = s[1] /\ 1 \in 1 .. Len(s)
    BY <1>6, <2>1
  <2>3. SaidHeld(h, r[1], p)
    BY <1>3, <1>6 DEF DataHeld
  <2> QED
    BY <1>6, <2>2, <2>3 DEF SaidHeld
<1>8. IsMemory(mem[p]) /\ Holds(h, p, mem[p], pc[p], got[p])
  BY <1>3 DEF WordsInv, MemoryHeld, DataHeld
<1>9. r[3] \in Array /\ Holds(h, p, o, pc[p], got[p] \cup {r[1]})
  BY <1>5, <1>8, CallTakes
<1> HIDE DEF w
<1>10. IsMemory(o)
  BY <1>8, <1>9, StoredIs
<1>11. mem' = [mem EXCEPT ![p] = o]
  BY <1>1, <1>7
<1> HIDE DEF o
<1>12. got \in [Party -> SUBSET Party]
  BY <1>4 DEF Inv, CallsHeld
<1>13. MemoryHeld'
  BY <1>10, <1>11 DEF WordsInv, MemoryHeld
<1>14. ASSUME NEW q \in Party
       PROVE  Holds(h, q, mem'[q], pc'[q], got'[q])
  <2>1. CASE q = p
    <3>1. mem'[q] = o /\ got'[q] = got[p] \cup {r[1]}
      BY <1>1, <1>11, <1>12, <2>1 DEF WordsInv, MemoryHeld
    <3> QED
      BY <1>2, <1>9, <2>1, <3>1
  <2>2. CASE q # p
    <3>1. mem'[q] = mem[q] /\ got'[q] = got[q]
      BY <1>1, <1>11, <1>12, <2>2 DEF WordsInv, MemoryHeld
    <3> QED
      BY <1>2, <1>3, <3>1 DEF DataHeld
  <2> QED
    BY <2>1, <2>2
<1>15. ASSUME NEW q \in Party, NEW t \in Party
       PROVE  SaidHeld(h, q, t)'
  <2> DEFINE s == channel[<<q, t>>]
             taken == TakenNow(q, t)
  <2>1. SaidHeld(h, q, t)
    BY <1>3 DEF DataHeld
  <2>2. taken \in Nat
    <3>1. pc[t] - 1 \in Nat
      BY <1>4, CurrentAt DEF Inv
    <3>2. Taken(q, t, pc[t] - 1) \in Nat
      BY <3>1, Counts
    <3> QED
      BY <3>2 DEF TakenNow
  <2>3. CASE q = r[1] /\ t = p
    <3>1. channel'[<<q, t>>] = Tail(s) /\ s # <<>>
      BY <1>1, <1>4, <1>6, <2>3 DEF Inv, ChannelsHeld
    <3>2. PICK S : s \in Seq(S)
      BY <1>4 DEF Inv, ChannelsHeld, ChannelHeld
    <3>3. /\ Len(Tail(s)) \in Nat
          /\ \A n \in 1 .. Len(Tail(s)) : Tail(s)[n] = s[n + 1] /\ n + 1 \in 1 .. Len(s)
      BY <3>1, <3>2
    <3>4. Taken(q, t, pc[t] - 1) \in Nat
      BY <1>4, InvCausal
    <3>5. TakenNow(q, t)' = taken + 1
      BY <1>1, <1>2, <1>6, <1>12, <2>3, <3>4 DEF TakenNow
    <3> SUFFICES ASSUME NEW n \in 1 .. Len(Tail(s))
                 PROVE  Tail(s)[n].word = Said(h, q, t, (taken + 1) + n)
      BY <3>1, <3>5 DEF SaidHeld
    <3>6. s[n + 1].word = Said(h, q, t, taken + (n + 1))
      BY <2>1, <3>3 DEF SaidHeld
    <3> HIDE DEF s, taken
    <3>7. taken + (n + 1) = (taken + 1) + n
      BY <2>2, <3>3
    <3> QED
      BY <3>3, <3>6, <3>7
  <2>4. CASE ~ (q = r[1] /\ t = p)
    <3>1. channel'[<<q, t>>] = channel[<<q, t>>]
      BY <1>1, <1>4, <2>4 DEF Inv, ChannelsHeld
    <3>2. q \in got'[t] <=> q \in got[t]
      BY <1>1, <1>12, <2>4
    <3>3. TakenNow(q, t)' = TakenNow(q, t)
      BY <1>2, <3>2 DEF TakenNow
    <3> QED
      BY <2>1, <3>1, <3>3 DEF SaidHeld
  <2> QED
    BY <2>3, <2>4
<1>16. Shared(h)' /\ \A q \in Party : Holds(h, q, mem[q], pc[q], got[q])'
  <2>1. Shared(h)
    BY <1>3 DEF DataHeld
  <2> QED
    BY <1>2, <1>14, <2>1, SameInput
<1>17. DataHeld(h)'
  BY <1>15, <1>16 DEF DataHeld
<1> QED
  BY <1>2, <1>4, <1>13, <1>17 DEF WordsInv

\* What is dealt by P1 is not used before it is sent.
LEMMA SumNotUsed ==
  ASSUME Inv, pc[0] = 1, NEW h, DataHeld(h), NEW i, i.w = h.w
  PROVE  /\ \A p \in Party \ {0} : Holds(i, p, mem[p], pc[p], got[p])
         /\ \A q, p \in Party : Len(channel[<<q, p>>]) = 0
<1>1. ASSUME NEW q \in Party, NEW p \in Party
      PROVE  /\ Taken(q, p, pc[p] - 1) \in Nat /\ Sent(q, p, pc[q]) \in Nat
             /\ TakenNow(q, p) \in Taken(q, p, pc[p] - 1) .. Sent(q, p, pc[q])
             /\ Len(channel[<<q, p>>]) = Sent(q, p, pc[q]) - TakenNow(q, p)
  BY InvCausal
<1>2. \A p \in Party : Sent(0, p, pc[0]) = 0
  BY RoleSent
<1>3. pc[1] \in Nat /\ pc[1] >= 1 /\ pc[2] \in Nat /\ pc[2] >= 1
  BY CurrentAt, Parties DEF Inv
<1>4. \A p \in Party : TakenNow(0, p) = 0 /\ Taken(0, p, pc[p] - 1) = 0
  <2> SUFFICES ASSUME NEW p \in Party
               PROVE  TakenNow(0, p) = 0 /\ Taken(0, p, pc[p] - 1) = 0
    OBVIOUS
  <2>1. 0 \in Party
    BY Parties
  <2>2. /\ Taken(0, p, pc[p] - 1) \in Nat /\ Sent(0, p, pc[0]) \in Nat
        /\ TakenNow(0, p) \in Taken(0, p, pc[p] - 1) .. Sent(0, p, pc[0])
    BY <1>1, <2>1
  <2>3. Sent(0, p, pc[0]) = 0
    BY <1>2
  <2> QED
    BY <2>2, <2>3
<1>5. pc[1] = 1 /\ pc[2] \in {1, 2}
  <2>1. Taken(0, 1, pc[1] - 1) = Reached(1, pc[1] - 1)
    BY DEF Taken
  <2>2. pc[1] = 1
    BY <1>3, <1>4, <2>1, Parties DEF Reached
  <2>3. /\ Taken(0, 2, pc[2] - 1) = Reached(2, pc[2] - 1) + Exchanged((pc[2] - 1) - 4)
                                   + Reached(Width + 5, pc[2] - 1) + Reached(Width + 6, pc[2] - 1)
    BY DEF Taken
  <2>4. \A n, k : Reached(n, k) \in {0, 1}
    BY DEF Reached
  <2>5. Exchanged((pc[2] - 1) - 4) \in Nat
    BY <1>3, Parties DEF Exchanged
  <2>6. Taken(0, 2, pc[2] - 1) = 0
    BY <1>4, Parties
  <2>7. Reached(2, pc[2] - 1) = 0
    BY <2>3, <2>4, <2>5, <2>6
  <2>8. pc[2] \in {1, 2}
    BY <1>3, <2>7 DEF Reached
  <2> QED
    BY <2>2, <2>8
<1>6. 0 \notin got[1] /\ 0 \notin got[2]
  BY <1>4, Parties DEF TakenNow
<1>7. Holds(h, 1, mem[1], pc[1], got[1]) /\ Holds(h, 2, mem[2], pc[2], got[2])
  BY Parties DEF DataHeld
<1>8. 1 \in Party /\ 2 \in Party /\ pc[1] <= Roles(1) /\ pc[2] <= Roles(2)
  BY <1>5, Parties DEF Roles
<1>9. Holds(i, 1, mem[1], pc[1], got[1])
  <2>1. Holds2(h, mem[1], pc[1], got[1])
    BY <1>3, <1>7, <1>8, HoldsInRole DEF RoleHolds
  <2>2. Holds2(i, mem[1], pc[1], got[1])
    BY <1>5, <1>6, <2>1 DEF Holds2
  <2> QED
    BY <1>3, <1>8, <2>2, HoldsInRole DEF RoleHolds
<1>10. Holds(i, 2, mem[2], pc[2], got[2])
  <2>1. Holds3(h, mem[2], pc[2], got[2])
    BY <1>3, <1>7, <1>8, HoldsInRole DEF RoleHolds
  <2>2. Holds3(i, mem[2], pc[2], got[2])
    BY <1>5, <1>6, <2>1 DEF Holds3
  <2> QED
    BY <1>3, <1>8, <2>2, HoldsInRole DEF RoleHolds
<1>11. \A q, p \in Party : Sent(q, p, pc[q]) = 0
  <2> SUFFICES ASSUME NEW q \in Party, NEW p \in Party PROVE Sent(q, p, pc[q]) = 0
    OBVIOUS
  <2>1. CASE q = 0
    BY <2>1, <1>2
  <2>2. CASE q = 1
    BY <2>2, <1>5, RoleSent
  <2>3. CASE q = 2
    BY <2>3, <1>5, RoleSent
  <2> QED
    BY <2>1, <2>2, <2>3, Parties
<1>12. \A q, p \in Party : Len(channel[<<q, p>>]) = 0
  <2> SUFFICES ASSUME NEW q \in Party, NEW p \in Party PROVE Len(channel[<<q, p>>]) = 0
    OBVIOUS
  <2> QED
    BY <1>1, <1>11
<1> QED
  BY <1>9, <1>10, <1>12, Parties

\* What is dealt by P3 is not used before it is sent; what is on its way is P1's.
LEMMA X3NotUsed ==
  ASSUME Inv, pc[2] = 1, NEW h, DataHeld(h), NEW i, i.a = h.a
  PROVE  /\ \A p \in Party \ {2} : Holds(i, p, mem[p], pc[p], got[p])
         /\ \A q, p \in Party : SaidHeld(i, q, p)
<1>1. ASSUME NEW q \in Party, NEW p \in Party
      PROVE  /\ Taken(q, p, pc[p] - 1) \in Nat /\ Sent(q, p, pc[q]) \in Nat
             /\ TakenNow(q, p) \in Taken(q, p, pc[p] - 1) .. Sent(q, p, pc[q])
             /\ Len(channel[<<q, p>>]) = Sent(q, p, pc[q]) - TakenNow(q, p)
  BY InvCausal
<1>2. \A p \in Party : Sent(2, p, pc[2]) = 0
  BY RoleSent
<1>3. pc[0] \in Nat /\ pc[0] >= 1 /\ pc[1] \in Nat /\ pc[1] >= 1
  BY CurrentAt, Parties DEF Inv
<1>4. \A p \in Party : TakenNow(2, p) = 0 /\ Taken(2, p, pc[p] - 1) = 0
  <2> SUFFICES ASSUME NEW p \in Party
               PROVE  TakenNow(2, p) = 0 /\ Taken(2, p, pc[p] - 1) = 0
    OBVIOUS
  <2>1. 2 \in Party
    BY Parties
  <2>2. /\ Taken(2, p, pc[p] - 1) \in Nat /\ Sent(2, p, pc[2]) \in Nat
        /\ TakenNow(2, p) \in Taken(2, p, pc[p] - 1) .. Sent(2, p, pc[2])
    BY <1>1, <2>1
  <2>3. Sent(2, p, pc[2]) = 0
    BY <1>2
  <2> QED
    BY <2>2, <2>3
<1>5. pc[1] = 1 /\ pc[0] \in {1, 2, 3}
  <2>1. /\ Taken(2, 1, pc[1] - 1) = Reached(1, pc[1] - 1) + Reached(3, pc[1] - 1)
                                   + Exchanged((pc[1] - 1) - 3) + Reached(Width + 5, pc[1] - 1)
    BY DEF Taken
  <2>2. pc[1] = 1
    BY <1>3, <1>4, <2>1, Parties DEF Reached, Exchanged
  <2>3. Taken(2, 0, pc[0] - 1) = Reached(3, pc[0] - 1)
    BY DEF Taken
  <2>4. pc[0] \in {1, 2, 3}
    BY <1>3, <1>4, <2>3, Parties DEF Reached
  <2> QED
    BY <2>2, <2>4
<1>6. 2 \notin got[0] /\ 2 \notin got[1]
  BY <1>4, Parties DEF TakenNow
<1>7. Holds(h, 0, mem[0], pc[0], got[0]) /\ Holds(h, 1, mem[1], pc[1], got[1])
  BY Parties DEF DataHeld
<1>8. 0 \in Party /\ 1 \in Party /\ pc[0] <= Roles(0) /\ pc[1] <= Roles(1)
  BY <1>5, Parties DEF Roles
<1>9. Holds(i, 0, mem[0], pc[0], got[0])
  <2>1. Holds1(h, mem[0], pc[0], got[0])
    BY <1>3, <1>7, <1>8, HoldsInRole DEF RoleHolds
  <2>2. Holds1(i, mem[0], pc[0], got[0])
    BY <1>5, <1>6, <2>1 DEF Holds1
  <2> QED
    BY <1>3, <1>8, <2>2, HoldsInRole DEF RoleHolds
<1>10. Holds(i, 1, mem[1], pc[1], got[1])
  <2>1. Holds2(h, mem[1], pc[1], got[1])
    BY <1>3, <1>7, <1>8, HoldsInRole DEF RoleHolds
  <2>2. Holds2(i, mem[1], pc[1], got[1])
    BY <1>5, <1>6, <2>1 DEF Holds2
  <2> QED
    BY <1>3, <1>8, <2>2, HoldsInRole DEF RoleHolds
<1>11. ASSUME NEW q \in Party, NEW p \in Party
       PROVE  SaidHeld(i, q, p)
  <2>1. SaidHeld(h, q, p)
    BY DEF DataHeld
  <2>2. CASE Sent(q, p, pc[q]) = 0
    <3>1. 1 .. Len(channel[<<q, p>>]) = {}
      BY <2>2, <1>1
    <3> QED
      BY <3>1 DEF SaidHeld
  <2>3. CASE Sent(q, p, pc[q]) # 0
    <3>1. q = 0 /\ p \in {1, 2} /\ Sent(q, p, pc[q]) = 1
      <4>1. q = 0
        BY <2>3, <1>2, <1>5, RoleSent, Parties
      <4> QED
        BY <2>3, <4>1, <1>5, RoleSent DEF One
    <3>2. \A n \in 1 .. Len(channel[<<q, p>>]) : TakenNow(q, p) + n = 1
      BY <3>1, <1>1
    <3>3. Said(i, q, p, 1) = Said(h, q, p, 1)
      BY <3>1 DEF Said
    <3> QED
      BY <2>1, <3>2, <3>3 DEF SaidHeld
  <2> QED
    BY <2>2, <2>3
<1> QED
  BY <1>9, <1>10, <1>11, Parties

\* The word that a party with arrays o posts for q when it returns, if any.
PostedFor(p, q, o) ==
  \/ channel'[<<p, q>>] = channel[<<p, q>>]
  \/ /\ pc[p] + 1 \in 1 .. LastCall(p)
     /\ \E s, msg :
          /\ s \in Script[p][pc[p] + 1].sends /\ s[1] = q /\ msg.word = o[s[2]]
          /\ channel'[<<p, q>>] = Append(channel[<<p, q>>], msg)
          /\ Sent(p, q, pc[p] + 1) = Sent(p, q, pc[p]) + 1

\* What a party computes when it returns, and the words that it posts.
LEMMA ReturnWords ==
  ASSUME Inv, MemoryHeld, NEW p \in Party, Return(p)
  PROVE  \E r, o :
           /\ r \in Dealt(Script[p][pc[p]].then)
           /\ o = After(p, mem[p], Draws(p, pc[p]), Script[p][pc[p]].then, r)
           /\ mem' = [mem EXCEPT ![p] = o]
           /\ \A q \in Party : PostedFor(p, q, o)
<1> DEFINE sends == IF pc[p] + 1 > Len(Script[p]) THEN {} ELSE Script[p][pc[p] + 1].sends
           Posted(m) == channel' = [c \in Party \X Party |->
                          IF c[1] = p /\ \E s \in sends : s[1] = c[2]
                          THEN Append(channel[c],
                                      LET s == CHOOSE s \in sends : s[1] = c[2]
                                      IN  [array |-> s[2], word |-> m[s[2]]])
                          ELSE channel[c]]
<1>1. pc[p] \in 1 .. LastCall(p) /\ Len(Script[p]) = LastCall(p) /\ LastCall(p) \in Nat
  BY CurrentAt, ScriptLength DEF Inv, Return
<1>2. PICK r \in Dealt(Current(p).then) :
        \E m \in {After(p, mem[p], drawn[p], Current(p).then, r)} :
          mem' = [mem EXCEPT ![p] = m] /\ Posted(m)
  BY Zenon DEF Return
<1>3. PICK o \in {After(p, mem[p], drawn[p], Current(p).then, r)} :
        mem' = [mem EXCEPT ![p] = o] /\ Posted(o)
  BY <1>2
<1>4. drawn[p] = Draws(p, pc[p])
  BY DEF Inv, CallsHeld
<1>5. o = After(p, mem[p], Draws(p, pc[p]), Script[p][pc[p]].then, r)
  BY <1>3, <1>4 DEF Current
<1>6. sends = Posts(p)
  BY <1>1 DEF Posts
<1> HIDE DEF sends
<1>7. ASSUME NEW q \in Party
      PROVE  PostedFor(p, q, o)
  <2>1. CASE ~\E s \in sends : s[1] = q
    BY <1>3, <2>1 DEF PostedFor
  <2>2. CASE \E s \in sends : s[1] = q
    <3> DEFINE s == CHOOSE s \in sends : s[1] = q
               msg == [array |-> s[2], word |-> o[s[2]]]
    <3>1. s \in sends /\ s[1] = q
      BY <2>2
    <3>2. channel'[<<p, q>>] = Append(channel[<<p, q>>], msg)
      BY <1>3, <2>2
    <3>3. msg.word = o[s[2]]
      OBVIOUS
    <3> HIDE DEF s, msg
    <3>4. pc[p] # LastCall(p) /\ s \in Script[p][pc[p] + 1].sends
      BY <1>6, <3>1 DEF Posts
    <3>5. PICK k \in 1 .. LastCall(p) : k = pc[p] + 1 /\ k - 1 = pc[p]
      BY <1>1, <3>4
    <3>6. SendsNext(p, k, q)
      BY SendsAt
    <3>7. Sent(p, q, pc[p] + 1) = Sent(p, q, pc[p]) + 1
      BY <3>1, <3>4, <3>5, <3>6 DEF SendsNext
    <3> QED
      BY <3>1, <3>2, <3>3, <3>4, <3>5, <3>7 DEF PostedFor
  <2> QED
    BY <2>1, <2>2
<1>8. r \in Dealt(Script[p][pc[p]].then) /\ mem' = [mem EXCEPT ![p] = o]
  BY <1>2, <1>3 DEF Current
<1> QED
  BY <1>5, <1>7, <1>8

\* The shares that a party's return leaves: others when it deals, else the same.
LEMMA ReturnHolds ==
  ASSUME WordsInv, NEW p \in Party, Return(p), NEW r \in Dealt(Script[p][pc[p]].then),
         NEW o, o = After(p, mem[p], Draws(p, pc[p]), Script[p][pc[p]].then, r)
  PROVE  /\ IsMemory(o)
         /\ \E i : /\ Shared(i) /\ Holds(i, p, o, pc[p] + 1, {})
                   /\ \A q \in Party \ {p} : Holds(i, q, mem[q], pc[q], got[q])
                   /\ \A q, t \in Party : SaidHeld(i, q, t)
<1>1. PICK h : DataHeld(h)
  BY DEF WordsInv
<1>2. Inv /\ IsMemory(mem[p])
  BY DEF WordsInv, MemoryHeld
<1>3. pc[p] \in 1 .. LastCall(p)
  BY <1>2, ReturnMoves
<1>4. /\ Shared(h) /\ \A q \in Party : Holds(h, q, mem[q], pc[q], got[q])
      /\ \A q, t \in Party : SaidHeld(h, q, t)
  BY <1>1 DEF DataHeld
<1>5. CASE pc[p] > 1 \/ p = 1
  <2>1. \A q \in Script[p][pc[p]].recvs : q[1] \in got[p]
    BY <1>2, ReturnMoves
  <2>2. Carried(h)
    BY <1>4 DEF Shared
  <2>3. Holds(h, p, mem[p], pc[p], got[p])
    BY <1>4
  <2>4. IsMemory(o) /\ Holds(h, p, o, pc[p] + 1, {})
    BY <1>2, <1>3, <1>5, <2>1, <2>2, <2>3, CallReturns
  <2> QED
    BY <1>4, <2>4
<1>6. CASE p = 0 /\ pc[p] = 1
  <2>1. Script[0][1].then = Then("deal_sum")
    <3>1. 1 \in 1 .. Roles(0) /\ 0 \in Party
      BY Parties DEF Roles
    <3> QED
      BY <3>1, ScriptLength, RoleThens DEF Role
  <2>2. r \in DealWords \X DealWords
    BY <1>6, <2>1 DEF Dealt, Then
  <2>3. o = DealSum(mem[0], r)
    BY <1>6, <2>1, AfterThen
  <2>4. Holds(h, 0, mem[0], 1, got[0])
    BY <1>4, <1>6
  <2>5. IsMemory(o) /\ \E i : Shared(i) /\ i.w = h.w /\ Holds(i, 0, o, 2, {})
    BY <1>2, <1>4, <1>6, <2>2, <2>3, <2>4, SumIsDealt
  <2>6. PICK i : Shared(i) /\ i.w = h.w /\ Holds(i, 0, o, 2, {})
    BY <2>5
  <2>7. /\ \A q \in Party \ {0} : Holds(i, q, mem[q], pc[q], got[q])
        /\ \A q, t \in Party : Len(channel[<<q, t>>]) = 0
    BY <1>1, <1>2, <1>6, <2>6, SumNotUsed
  <2>8. \A q, t \in Party : SaidHeld(i, q, t)
    BY <2>7 DEF SaidHeld
  <2>9. IsMemory(o) /\ Holds(i, p, o, pc[p] + 1, {})
    BY <1>6, <2>5, <2>6
  <2> QED
    BY <1>6, <2>6, <2>7, <2>8, <2>9
<1>7. CASE p = 2 /\ pc[p] = 1
  <2>1. Script[2][1].then = Then("deal_x3")
    <3>1. 1 \in 1 .. Roles(2) /\ 2 \in Party
      BY Parties DEF Roles
    <3> QED
      BY <3>1, ScriptLength, RoleThens DEF Role
  <2>2. r \in DealWords \X DealWords
    BY <1>7, <2>1 DEF Dealt, Then
  <2>3. o = Deal(mem[2], mem[2]["xa1"], r, "w13", "w2", "w1")
    BY <1>7, <2>1, AfterThen
  <2>4. Holds(h, 2, mem[2], 1, got[2])
    BY <1>4, <1>7
  <2>5. IsMemory(o) /\ \E i : Shared(i) /\ i.a = h.a /\ Holds(i, 2, o, 2, {})
    BY <1>2, <1>4, <1>7, <2>2, <2>3, <2>4, X3IsDealt
  <2>6. PICK i : Shared(i) /\ i.a = h.a /\ Holds(i, 2, o, 2, {})
    BY <2>5
  <2>7. /\ \A q \in Party \ {2} : Holds(i, q, mem[q], pc[q], got[q])
        /\ \A q, t \in Party : SaidHeld(i, q, t)
    BY <1>1, <1>2, <1>7, <2>6, X3NotUsed
  <2>9. IsMemory(o) /\ Holds(i, p, o, pc[p] + 1, {})
    BY <1>7, <2>5, <2>6
  <2> QED
    BY <1>7, <2>6, <2>7, <2>9
<1> QED
  BY <1>3, <1>5, <1>6, <1>7, Parties

LEMMA ReturnKeepsWords ==
  ASSUME WordsInv, NEW p \in Party, Return(p)
  PROVE  WordsInv'
<1>1. Inv /\ MemoryHeld /\ Inv'
  BY ReturnKeeps DEF WordsInv
<1>2. PICK r, o :
        /\ r \in Dealt(Script[p][pc[p]].then)
        /\ o = After(p, mem[p], Draws(p, pc[p]), Script[p][pc[p]].then, r)
        /\ mem' = [mem EXCEPT ![p] = o]
        /\ \A q \in Party : PostedFor(p, q, o)
  BY <1>1, ReturnWords
<1>3. IsMemory(o)
  BY <1>2, ReturnHolds
<1>4. PICK i : /\ Shared(i) /\ Holds(i, p, o, pc[p] + 1, {})
               /\ \A q \in Party \ {p} : Holds(i, q, mem[q], pc[q], got[q])
               /\ \A q, t \in Party : SaidHeld(i, q, t)
  BY <1>2, ReturnHolds
<1>5. /\ input' = input
      /\ pc' = [pc EXCEPT ![p] = @ + 1] /\ got' = [got EXCEPT ![p] = {}]
      /\ \A q, t \in Party : q # p => channel'[<<q, t>>] = channel[<<q, t>>]
  BY <1>1, ReturnMoves DEF Return
<1>6. pc \in [Party -> Nat] /\ got \in [Party -> SUBSET Party]
  BY <1>1 DEF Inv, CallsHeld
<1>7. MemoryHeld'
  BY <1>1, <1>2, <1>3 DEF MemoryHeld
<1>8. ASSUME NEW q \in Party
      PROVE  Holds(i, q, mem'[q], pc'[q], got'[q])
  <2>1. CASE q = p
    <3>1. mem'[q] = o /\ pc'[q] = pc[p] + 1 /\ got'[q] = {}
      BY <1>1, <1>2, <1>5, <1>6, <2>1 DEF MemoryHeld
    <3> QED
      BY <1>4, <2>1, <3>1
  <2>2. CASE q # p
    <3>1. mem'[q] = mem[q] /\ pc'[q] = pc[q] /\ got'[q] = got[q]
      BY <1>1, <1>2, <1>5, <1>6, <2>2 DEF MemoryHeld
    <3> QED
      BY <1>4, <2>2, <3>1
  <2> QED
    BY <2>1, <2>2
<1>9. ASSUME NEW q \in Party, NEW t \in Party
      PROVE  SaidHeld(i, q, t)'
  <2> DEFINE s == channel[<<q, t>>]
             taken == TakenNow(q, t)
  <2>1. SaidHeld(i, q, t)
    BY <1>4
  <2>2. TakenNow(q, t)' = taken
    BY <1>1, ReturnTakes
  <2>3. CASE channel'[<<q, t>>] = s
    BY <2>1, <2>2, <2>3 DEF SaidHeld
  <2>4. CASE channel'[<<q, t>>] # s
    <3>1. q = p
      BY <1>5, <2>4
    <3>2. PICK k \in 1 .. LastCall(p) : k = pc[p] + 1
      BY <1>2, <2>4, <3>1 DEF PostedFor
    <3>3. PICK snd, msg :
            /\ snd \in Script[p][pc[p] + 1].sends /\ snd[1] = t /\ msg.word = o[snd[2]]
            /\ channel'[<<q, t>>] = Append(s, msg)
            /\ Sent(p, t, pc[p] + 1) = Sent(p, t, pc[p]) + 1
      <4>1. PostedFor(p, t, o) /\ channel'[<<p, t>>] # channel[<<p, t>>]
        BY <1>2, <2>4, <3>1
      <4>2. PICK snd, msg :
              /\ snd \in Script[p][pc[p] + 1].sends /\ snd[1] = t /\ msg.word = o[snd[2]]
              /\ channel'[<<p, t>>] = Append(channel[<<p, t>>], msg)
              /\ Sent(p, t, pc[p] + 1) = Sent(p, t, pc[p]) + 1
        BY <4>1 DEF PostedFor
      <4>3. channel'[<<q, t>>] = Append(s, msg)
        BY <3>1, <4>2
      <4> QED
        BY <4>2, <4>3
    <3>4. msg.word = Said(i, p, t, Sent(p, t, pc[p] + 1))
      <4>1. Holds(i, p, o, k, {}) /\ snd \in Script[p][k].sends
        BY <1>4, <3>2, <3>3
      <4>2. o[snd[2]] = Said(i, p, snd[1], Sent(p, snd[1], k))
        BY <4>1, SaidIsHeld
      <4> QED
        BY <3>2, <3>3, <4>2
    <3>5. PICK S : s \in Seq(S)
      BY <1>1 DEF Inv, ChannelsHeld, ChannelHeld
    <3>6. s \in Seq(S \cup {msg}) /\ msg \in S \cup {msg}
      BY <3>5
    <3> DEFINE u == Append(s, msg)
    <3>7. /\ Len(u) = Len(s) + 1 /\ Len(s) \in Nat
          /\ \A n \in 1 .. Len(u) : u[n] = IF n = Len(s) + 1 THEN msg ELSE s[n]
      BY <3>6
    <3>8. Sent(p, t, pc[p]) \in Nat /\ Len(s) = Sent(p, t, pc[p]) - taken /\ taken \in Nat
      <4>1. /\ Taken(p, t, pc[t] - 1) \in Nat /\ Sent(p, t, pc[p]) \in Nat
            /\ TakenNow(p, t) \in Taken(p, t, pc[t] - 1) .. Sent(p, t, pc[p])
            /\ Len(channel[<<p, t>>]) = Sent(p, t, pc[p]) - TakenNow(p, t)
        BY <1>1, InvCausal
      <4> QED
        BY <3>1, <4>1
    <3> SUFFICES ASSUME NEW n \in 1 .. Len(u)
                 PROVE  u[n].word = Said(i, q, t, taken + n)
      BY <2>2, <3>3 DEF SaidHeld
    <3> HIDE DEF s, taken, u
    <3>9. CASE n = Len(s) + 1
      <4>1. taken + n = Sent(p, t, pc[p] + 1)
        BY <3>3, <3>7, <3>8, <3>9
      <4> QED
        BY <3>1, <3>4, <3>7, <3>9, <4>1
    <3>10. CASE n # Len(s) + 1
      <4>1. n \in 1 .. Len(s)
        BY <3>7, <3>10
      <4>2. s[n].word = Said(i, q, t, taken + n)
        BY <2>1, <4>1 DEF SaidHeld, s, taken
      <4> QED
        BY <3>7, <3>10, <4>2
    <3> QED
      BY <3>9, <3>10
  <2> QED
    BY <2>3, <2>4
<1>10. Shared(i)' /\ \A q \in Party : Holds(i, q, mem[q], pc[q], got[q])'
  BY <1>4, <1>5, <1>8, SameInput
<1>11. DataHeld(i)'
  BY <1>9, <1>10 DEF DataHeld
<1> QED
  BY <1>1, <1>5, <1>7, <1>11 DEF WordsInv

LEMMA WordsNext == WordsInv /\ [Next]_vars => WordsInv'
<1> SUFFICES ASSUME WordsInv, [Next]_vars PROVE WordsInv'
  OBVIOUS
<1>1. ASSUME NEW p \in Party, Step(p) PROVE WordsInv'
  BY <1>1, RecvWords, ReturnKeepsWords DEF Step
<1>2. CASE UNCHANGED vars
  <2>1. Inv'
    BY <1>2, InvNext DEF WordsInv
  <2>2. /\ mem' = mem /\ input' = input /\ pc' = pc /\ got' = got /\ channel' = channel
    BY <1>2 DEF vars
  <2>3. MemoryHeld'
    BY <2>2 DEF WordsInv, MemoryHeld
  <2>4. PICK h : DataHeld(h)
    BY DEF WordsInv
  <2>5. Shared(h)' /\ \A q \in Party : Holds(h, q, mem[q], pc[q], got[q])'
    BY <2>2, <2>4, SameInput DEF DataHeld
  <2>6. \A q, p \in Party : SaidHeld(h, q, p)'
    BY <2>2, <2>4 DEF DataHeld, SaidHeld, TakenNow
  <2>7. DataHeld(h)'
    BY <2>5, <2>6 DEF DataHeld
  <2> QED
    BY <2>1, <2>2, <2>3, <2>7 DEF WordsInv
<1> QED
  BY <1>1, <1>2 DEF Next, Returned

-----------------------------------------------------------------------------
(* The result. *)

\* The masks take the generators' words off the masked sum.
LEMMA MasksCancel ==
  ASSUME NEW s0, NEW s1, NEW s2, NEW a0, NEW a1, NEW a2, NEW b0, NEW b1, NEW b2
  PROVE  Xor(Xor(a2, Xor(a1, a0)), Xor(Xor(b0, Xor(b2, b1)),
             Xor(Xor(s0, Xor(a0, b0)), Xor(Xor(s1, Xor(a1, b1)), Xor(s2, Xor(a2, b2))))))
           = Xor(s0, Xor(s1, s2))
<1> DEFINE l == Xor(Xor(a2, Xor(a1, a0)), Xor(Xor(b0, Xor(b2, b1)),
             Xor(Xor(s0, Xor(a0, b0)), Xor(Xor(s1, Xor(a1, b1)), Xor(s2, Xor(a2, b2))))))
           r == Xor(s0, Xor(s1, s2))
<1>1. ASSUME NEW i PROVE i \in l <=> i \in r
  BY XorMember
<1>2. \A u, v : Xor(u, v) = (u \ v) \cup (v \ u)
  BY DEF Xor, SymDiff
<1> QED
  <2> HIDE DEF l, r
  <2>1. l \subseteq r /\ r \subseteq l
    BY <1>1
  <2> QED
    BY <2>1 DEF l, r

\* Numbers below Size that are added two at a time wrap around as their sum does.
LEMMA SumWraps ==
  ASSUME NEW x \in Nat, NEW y \in Nat, NEW z \in Nat
  PROVE  (((x + y) % Size) + z) % Size = (x + y + z) % Size
<1>1. Size \in Nat /\ Size >= 1
  BY PowPositive, Parties DEF Size
<1>2. PICK s : s = Size
  OBVIOUS
<1> DEFINE q == (x + y) \div s
           t == (x + y) % s
           u == (t + z) \div s
           v == (t + z) % s
<1>3. q \in Nat /\ t \in Nat /\ t < s /\ x + y = s * q + t
  BY <1>1, <1>2, DivMod
<1>4. u \in Nat /\ v \in Nat /\ v < s /\ t + z = s * u + v
  BY <1>1, <1>2, <1>3, DivMod
<1> HIDE DEF q, t, u, v
<1>5. x + y + z = s * (q + u) + v
  <2>1. s * (q + u) = s * q + s * u /\ s * q \in Nat /\ s * u \in Nat
    BY <1>1, <1>2, <1>3, <1>4
  <2>2. x + y + z = s * q + (s * u + v)
    BY <2>1, <1>3, <1>4
  <2> QED
    BY <2>1, <2>2, <1>4
<1>6. (x + y + z) % s = v
  <2>1. x + y + z \in Nat /\ q + u \in Nat /\ s \in Nat /\ s >= 1
    BY <1>1, <1>2, <1>3, <1>4
  <2> QED
    BY <2>1, <1>4, <1>5, DivModUnique
<1> QED
  BY <1>2, <1>6 DEF v, t

LEMMA WordsConverted == WordsInv => Converted
<1> SUFFICES ASSUME WordsInv, Finished PROVE
      /\ Number(Xor(mem[0]["xb1"], Xor(mem[1]["xb1"], mem[2]["xb1"])))
           = (input[0] + input[1] + input[2]) % Size
      /\ \A p \in Party : mem[p]["xb2"] = mem[Succ(p)]["xb1"]
  BY DEF Converted
<1>1. PICK h : DataHeld(h)
  BY DEF WordsInv
<1>2. ASSUME NEW p \in Party
      PROVE  mem[p]["xb1"] = Result(h, p) /\ mem[p]["xb2"] = Result(h, Succ(p))
  <2>1. pc[p] = LastCall(p) + 1
    BY CurrentAt DEF WordsInv, Inv, CallsHeld, Finished
  <2>2. pc[p] = Roles(p) + (Width + 3) /\ Width + 3 \in Nat /\ Width + 3 >= 1
    BY <2>1, Parties DEF LastCall, Roles
  <2>3. Holds(h, p, mem[p], Roles(p) + (Width + 3), got[p])
    BY <1>1, <2>2 DEF DataHeld
  <2>4. CommonHolds(h, p, mem[p], Width + 3, got[p])
    BY <2>2, <2>3, HoldsAfterRole
  <2>5. ResultHeld(h, p, mem[p], Width + 3, got[p])
    BY <2>4 DEF CommonHolds
  <2> QED
    BY <2>5, Parties DEF ResultHeld
<1>3. 0 \in Party /\ 1 \in Party /\ 2 \in Party
  BY Parties
<1>4. \A p \in Party : Succ(p) \in Party
  BY Parties DEF Succ
<1>5. \A p \in Party : mem[p]["xb2"] = mem[Succ(p)]["xb1"]
  BY <1>2, <1>4
<1> DEFINE s == Xor(SumShare(h, 0), Xor(SumShare(h, 1), SumShare(h, 2)))
           x == input[0]
           y == input[1]
           z == input[2]
<1>6. Xor(Result(h, 0), Xor(Result(h, 1), Result(h, 2))) = s
  <2>1. Result(h, 0) = Xor(Random[2][0], Xor(Random[1][0], Random[0][0]))
    BY DEF Result, Mask
  <2>2. Result(h, 1) = Xor(Random[0][1], Xor(Random[2][1], Random[1][1]))
    BY DEF Result, Mask
  <2>3. Result(h, 2) = Xor(Xor(SumShare(h, 0), Xor(Random[0][0], Random[0][1])),
                       Xor(Xor(SumShare(h, 1), Xor(Random[1][0], Random[1][1])),
                           Xor(SumShare(h, 2), Xor(Random[2][0], Random[2][1]))))
    BY DEF Result, Masked
  <2>4. PICK s0, s1, s2, a0, a1, a2, b0, b1, b2 :
          /\ s0 = SumShare(h, 0) /\ s1 = SumShare(h, 1) /\ s2 = SumShare(h, 2)
          /\ a0 = Random[0][0] /\ a1 = Random[1][0] /\ a2 = Random[2][0]
          /\ b0 = Random[0][1] /\ b1 = Random[1][1] /\ b2 = Random[2][1]
    OBVIOUS
  <2>5. s = Xor(s0, Xor(s1, s2))
    BY <2>4
  <2> HIDE DEF s
  <2>6. Xor(Result(h, 0), Xor(Result(h, 1), Result(h, 2)))
          = Xor(Xor(a2, Xor(a1, a0)), Xor(Xor(b0, Xor(b2, b1)),
                Xor(Xor(s0, Xor(a0, b0)), Xor(Xor(s1, Xor(a1, b1)), Xor(s2, Xor(a2, b2))))))
    BY <2>1, <2>2, <2>3, <2>4
  <2>7. Xor(Xor(a2, Xor(a1, a0)), Xor(Xor(b0, Xor(b2, b1)),
            Xor(Xor(s0, Xor(a0, b0)), Xor(Xor(s1, Xor(a1, b1)), Xor(s2, Xor(a2, b2))))))
          = Xor(s0, Xor(s1, s2))
    BY MasksCancel, SMTT(60)
  <2> QED
    BY <2>5, <2>6, <2>7, Zenon
<1>7. Number(s) = (Number(Together(h.a)) + Number(Together(h.w))) % Size
  BY <1>1, SumIsShared DEF DataHeld, Shared, Carried
<1>8. x \in 0 .. Size - 1 /\ y \in 0 .. Size - 1 /\ z \in 0 .. Size - 1
  BY <1>3 DEF WordsInv
<1>9. ASSUME NEW n \in 0 .. Size - 1
      PROVE  n \in Nat /\ Number(WordOf(n)) = n
  <2>1. Size \in Nat /\ Size >= 1 /\ n \in Nat /\ n < Size
    BY PowPositive, Parties DEF Size
  <2>2. n = Size * 0 + n /\ 0 \in Nat
    BY <2>1
  <2>3. n % Size = n
    BY <2>1, <2>2, DivModUnique
  <2> QED
    BY <2>1, <2>3, NumberOfWord
<1> HIDE DEF s, x, y, z
<1>10. Number(Together(h.a)) = (x + y) % Size
  <2>1. Together(h.a) = WordOf(Number(WordOf(x)) + Number(WordOf(y)))
    BY <1>1 DEF DataHeld, Shared, x, y
  <2>2. Number(WordOf(x)) = x /\ Number(WordOf(y)) = y /\ x + y \in Nat
    BY <1>8, <1>9
  <2> QED
    BY <2>1, <2>2, NumberOfWord
<1>11. Number(Together(h.w)) = z
  <2>1. Together(h.w) = WordOf(z)
    BY <1>1 DEF DataHeld, Shared, z
  <2> QED
    BY <2>1, <1>8, <1>9
<1>12. Number(s) = (x + y + z) % Size
  BY <1>7, <1>8, <1>9, <1>10, <1>11, SumWraps
<1>13. Xor(mem[0]["xb1"], Xor(mem[1]["xb1"], mem[2]["xb1"])) = s
  BY <1>2, <1>3, <1>6
<1> QED
  BY <1>5, <1>12, <1>13 DEF x, y, z

\* Once all parties have returned from convert_a_to_b_array, their words are a
\* replicated boolean sharing of the number that the arithmetic shares add up to.
THEOREM ConversionCorrect == Spec => []Converted
BY WordsInit, WordsNext, WordsConverted, PTL DEF Spec

=============================================================================
