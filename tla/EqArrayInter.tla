---------------------------- MODULE EqArrayInter ----------------------------
(***************************************************************************)
(* eq_b_array_inter and eq_b_array_inter_batch: equality of two arrays     *)
(* with the exchange of one part of a level overlapping the computation of *)
(* the next part.                                                          *)
(*                                                                         *)
(* These two functions call MPI_Isend and MPI_Irecv themselves and leave   *)
(* requests pending while they compute.  MPI matches the n-th send from a  *)
(* party to another with the n-th receive posted for it, but transfers may *)
(* complete in any order, and until one has completed its buffers belong   *)
(* to MPI.  Values are abstracted to the number of levels applied to them. *)
(***************************************************************************)
EXTENDS Integers, Sequences, FiniteSets

CONSTANTS
  Lengths,    \* for each function, the elements of the arrays (len)
  Exchanges,  \* batches an array is cut into (10 in the code)
  Levels,     \* numlevels
  InOrder,    \* functions whose transfers complete in the order of posting
  Garbage     \* a word computed from shares of different levels

ASSUME SizeAssumption ==
  /\ Exchanges \in Nat \ {0} /\ Levels \in Nat \ {0, 1}
  /\ DOMAIN Lengths \subseteq {"inter", "inter_batch"}
  /\ \A f \in DOMAIN Lengths : Lengths[f] \in Nat \ {0}
  /\ "inter" \in DOMAIN Lengths =>
       Lengths["inter"] >= Exchanges  \* or batch_size is 0 and % fails
  /\ Garbage \notin Nat

Party == 0 .. 2
Succ(p) == (p + 1) % 3
Pred(p) == (p + 2) % 3

VARIABLES
  fn,       \* the function that runs: eq_b_array_inter or eq_b_array_inter_batch
  level,    \* level[p]: l
  i,        \* i[p]: the element p computes next
  resent,   \* resent[p]: p has posted the last exchange of the level
  res,      \* res[p][e]: levels applied to p's share of element e
  res2,     \* res2[p][e]: levels applied to p's copy of its successor's share
  sends,    \* sends[p]: what p has sent to its predecessor, in order
  recvs     \* recvs[p]: the receives p has posted for its successor, in order

vars == <<fn, level, i, resent, res, res2, sends, recvs>>

\* eq_b_array_inter_batch has one request for each element, and waits for all.
WaitForAll == fn = "inter_batch"
Length == Lengths[fn]
Element == 0 .. Length - 1
Word == 0 .. Levels
BatchSize == IF WaitForAll THEN 1 ELSE Length \div Exchanges

\* A pending or completed request for the elements first .. last of res (a send)
\* or of res2 (a receive).
\* "kept" is MPI's copy of the words of a send, if it made one; "at", the levels
\* applied to them, is for the properties: no action reads it.
Slice(l, first, last) ==
  [first |-> first, last |-> last, at |-> l, done |-> FALSE, kept |-> <<>>]
Covered(r) == r.first .. r.last
Done(requests) == \A n \in 1 .. Len(requests) : requests[n].done

-----------------------------------------------------------------------------
Init ==
  /\ fn \in DOMAIN Lengths
  /\ level = [p \in Party |-> 0]
  /\ i = [p \in Party |-> 0]
  /\ resent = [p \in Party |-> FALSE]
  /\ res = [p \in Party |-> [e \in Element |-> 0]]
  /\ res2 = [p \in Party |-> [e \in Element |-> 0]]
  /\ sends = [p \in Party |-> <<>>]
  /\ recvs = [p \in Party |-> <<>>]

LastLevel(p) == level[p] = Levels - 1

LastDone(requests) == requests # <<>> => requests[Len(requests)].done
WaitedFor(requests) == IF WaitForAll THEN Done(requests) ELSE LastDone(requests)

\* Mutants of Waited: one of the two waits is missing.
WaitedRecv(p) == WaitedFor(recvs[p])
WaitedSend(p) == WaitedFor(sends[p])

\* The two request variables of eq_b_array_inter hold the last requests only;
\* eq_b_array_inter_batch keeps one for each element and waits for all.
Waited(p) == WaitedFor(sends[p]) /\ WaitedFor(recvs[p])

\* eq_b_level2 on the local and the remote share of an element.
Level2(mine, theirs) == IF mine = theirs /\ mine # Garbage THEN mine + 1 ELSE Garbage

Post(p, first, last) ==
  /\ sends' = [sends EXCEPT ![p] = Append(@, Slice(level[p] + 1, first, last))]
  /\ recvs' = [recvs EXCEPT ![p] = Append(@, Slice(level[p] + 1, first, last))]

\* Mutant of BatchEnd: only the first batch is posted.
BatchEndFirst(e) == e + 1 = BatchSize

\* (i+1) % batch_size == 0
BatchEnd(e) == (e + 1) % BatchSize = 0

\* One element of the loop; the first element of a level of the batch form
\* follows the waits for the level before.
Compute(p) ==
  LET e == i[p]
  IN  /\ level[p] < Levels /\ e < Length
      /\ WaitForAll /\ e = 0 => Waited(p)
      /\ res' = [res EXCEPT ![p][e] = Level2(@, res2[p][e])]
      /\ IF BatchEnd(e) /\ ~LastLevel(p)
         THEN Post(p, e - (BatchSize - 1), e)
         ELSE UNCHANGED <<sends, recvs>>
      /\ i' = [i EXCEPT ![p] = @ + 1]
      /\ UNCHANGED <<fn, level, resent, res2>>

\* i == len-1: eq_b_array_inter waits, then exchanges the last batch_size
\* elements (again).
PostLast(p) ==
  /\ ~WaitForAll /\ level[p] < Levels - 1 /\ i[p] = Length /\ ~resent[p]
  /\ Waited(p)
  /\ Post(p, Length - BatchSize, Length - 1)
  /\ resent' = [resent EXCEPT ![p] = TRUE]
  /\ UNCHANGED <<fn, level, i, res, res2>>

\* "wait for last exchange before moving on the next level"
NextLevel(p) ==
  /\ level[p] < Levels /\ i[p] = Length
  /\ WaitForAll \/ LastLevel(p) \/ (resent[p] /\ Waited(p))
  /\ level' = [level EXCEPT ![p] = @ + 1]
  /\ i' = [i EXCEPT ![p] = 0]
  /\ resent' = [resent EXCEPT ![p] = FALSE]
  /\ UNCHANGED <<fn, res, res2, sends, recvs>>

\* MPI copies the words of p's n-th send, which is complete thereby.
Keep(p, n) ==
  /\ n \in 1 .. Len(sends[p])
  /\ ~sends[p][n].done
  /\ fn \in InOrder => \A m \in 1 .. n - 1 : sends[p][m].done
  /\ sends' = [sends EXCEPT ![p][n].done = TRUE, ![p][n].kept = res[p]]
  /\ UNCHANGED <<fn, level, i, resent, res, res2, recvs>>

\* The words of p's n-th send arrive where the n-th receive of p's predecessor
\* wants them.
Transfer(p, n) ==
  LET q == Pred(p)
      words == IF sends[p][n].done THEN sends[p][n].kept ELSE res[p]
  IN  /\ n \in 1 .. Len(sends[p]) /\ n \in 1 .. Len(recvs[q])
      /\ ~recvs[q][n].done
      /\ fn \in InOrder => \A m \in 1 .. n - 1 : recvs[q][m].done
      /\ res2' = [res2 EXCEPT ![q] = [e \in Element |->
                    IF e \in Covered(recvs[q][n]) THEN words[e] ELSE @[e]]]
      /\ sends' = [sends EXCEPT ![p][n].done = TRUE, ![p][n].kept = <<>>]
      /\ recvs' = [recvs EXCEPT ![q][n].done = TRUE]
      /\ UNCHANGED <<fn, level, i, resent, res>>

Step(p) == Compute(p) \/ PostLast(p) \/ NextLevel(p)
Deliver == \E p \in Party : \E n \in 1 .. Len(sends[p]) : Transfer(p, n)
Copy == \E p \in Party : \E n \in 1 .. Len(sends[p]) : Keep(p, n)

Finished == \A p \in Party : level[p] = Levels

\* All parties have returned.
Returned == Finished /\ UNCHANGED vars

Next == (\E p \in Party : Step(p)) \/ Deliver \/ Copy \/ Returned

Spec == Init /\ [][Next]_vars

\* Each party is an operating system process, and MPI makes progress.
FairSpec == Spec /\ (\A p \in Party : WF_vars(Step(p))) /\ WF_vars(Deliver)

-----------------------------------------------------------------------------
(* Properties. *)

\* and_b is right only on a local and a remote share of the same level: each
\* element's exchange has arrived when the element is used again, although the
\* parties may be at different levels and most requests are never waited for.
NoMixedLevels == \A p \in Party, e \in Element : res[p][e] # Garbage

\* No party changes words that MPI still has to send, although a party may be in
\* the next level while sends of this one are pending.
PendingSendsIntact ==
  \A p \in Party : \A n \in 1 .. Len(sends[p]) :
    ~sends[p][n].done =>
      \A e \in Covered(sends[p][n]) : res[p][e] = sends[p][n].at

\* "wait for last exchange before moving on the next level" (primitives.cpp): a
\* party that is in a level has the remote shares of the level before of all the
\* elements it has yet to compute.
LevelsApart ==
  \A p \in Party : level[p] \in 1 .. Levels - 1 /\ i[p] > 0 =>
    \A e \in i[p] .. Length - 1 : res2[p][e] = level[p]

\* All elements get all levels on all parties.
AllCompared == <>(\A p \in Party, e \in Element : res[p][e] = Levels)

=============================================================================
