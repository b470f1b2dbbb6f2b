---------------------------- MODULE ZeroSharing -----------------------------
(***************************************************************************)
(* Shares of zero without communication (party.cpp).                       *)
(*                                                                         *)
(* Each party draws a seed and sends it to its successor; from then on a   *)
(* party and its successor hold the same generator state and the parties'  *)
(* differences of two words sum to zero, as long as everybody draws the    *)
(* same number of words between the same exchanges.  Nothing checks that   *)
(* they do: the generators are global state of libc, switched with         *)
(* setstate(), and every other user of random() draws from the one that    *)
(* was used last.                                                          *)
(***************************************************************************)
EXTENDS ShareAlgebra, Sequences

CONSTANTS
  Calls,      \* the calls the parties make, the same on all of them
  ZeroSeed    \* the seed 0, which party.cpp takes for "not exchanged yet"

\* "exchange": exchange_rsz_seeds; "next": get_next_r, get_next_rb and their
\* array forms; "pair": get_next_rb_pair_array; "random": words a caller draws
\* with random() to make test data, on the parties "by" only.
Call == [op : {"exchange", "next", "pair", "random"},
         len : Nat \ {0}, by : SUBSET Party]

Last == Len(Calls)

\* Callers make their random data before they exchange the seeds, and exchange
\* seeds before they draw.
ASSUME CallsAssumption ==
  /\ Calls \in Seq(Call)
  /\ Last > 0 => Calls[1].op \in {"exchange", "random"}
  /\ \A i, j \in 1 .. Last :
       i < j /\ Calls[j].op = "random" => Calls[i].op = "random"
  /\ \A i \in 1 .. Last : Calls[i].op \in {"next", "pair"} =>
       \E j \in 1 .. i - 1 : Calls[j].op = "exchange"
ASSUME ZeroSeedAssumption == ZeroSeed \notin Seed

VARIABLES
  pc,           \* pc[p]: the call party p is at
  sent,         \* sent[p]: p has sent its seed in the exchange it is at
  seed_local,   \* the last seed p generated
  seed_remote,  \* the last seed p received from its predecessor
  gen,          \* gen[p]: local_state and remote_state
  current,      \* the generator random() draws from
  mail,         \* mail[p]: seeds sent to p and not yet received
  zeros,        \* zeros[p]: the shares of zero handed out to p's callers
  pairs,        \* pairs[p]: the pairs handed out to p's callers
  exited        \* exited[p]: p has called exit()

vars == <<pc, sent, seed_local, seed_remote, gen, current, mail, zeros, pairs,
          exited>>

-----------------------------------------------------------------------------
Init ==
  /\ pc = [p \in Party |-> 1]
  /\ sent = [p \in Party |-> FALSE]
  /\ seed_local = [p \in Party |-> ZeroSeed]
  /\ seed_remote = [p \in Party |-> ZeroSeed]
  /\ gen = [p \in Party |-> [loc |-> Stream(ZeroSeed), rem |-> Stream(ZeroSeed)]]
  /\ current = [p \in Party |-> "default"]
  /\ mail = [p \in Party |-> <<>>]
  /\ zeros = [p \in Party |-> <<>>]
  /\ pairs = [p \in Party |-> <<>>]
  /\ exited = [p \in Party |-> FALSE]

At(p, op) == ~exited[p] /\ pc[p] \in 1 .. Last /\ Calls[pc[p]].op = op

\* Mutants of Return: the pair form falls through to the next call, and a loop
\* that exchanges forever.
ReturnFallThrough(p) ==
  pc' = [pc EXCEPT ![p] = IF Calls[@].op = "pair" THEN @ + 2 ELSE @ + 1]
ReturnAgain(p) ==
  pc' = [pc EXCEPT ![p] = IF Calls[@].op = "exchange" THEN @ ELSE @ + 1]

Return(p) == pc' = [pc EXCEPT ![p] = @ + 1]

\* exchange_rsz_seeds, first half: a new local seed goes to the successor.  The
\* generators still run on the old seeds.
SendSeed(p) ==
  /\ At(p, "exchange") /\ ~sent[p]
  /\ \E s \in Seed \cup {ZeroSeed} :
       /\ seed_local' = [seed_local EXCEPT ![p] = s]
       /\ mail' = [mail EXCEPT ![Succ(p)] = Append(@, s)]
  /\ sent' = [sent EXCEPT ![p] = TRUE]
  /\ UNCHANGED <<pc, seed_remote, gen, current, zeros, pairs, exited>>

\* Second half: the predecessor's seed arrives and both generators start anew;
\* the remote one is initialised last and stays current.
RecvSeed(p) ==
  /\ At(p, "exchange") /\ sent[p]
  /\ mail[p] # <<>>
  /\ seed_remote' = [seed_remote EXCEPT ![p] = Head(mail[p])]
  /\ mail' = [mail EXCEPT ![p] = Tail(@)]
  /\ gen' = [gen EXCEPT ![p] = [loc |-> Stream(seed_local[p]),
                                rem |-> Stream(Head(mail[p]))]]
  /\ current' = [current EXCEPT ![p] = "remote"]
  /\ sent' = [sent EXCEPT ![p] = FALSE]
  /\ Return(p)
  /\ UNCHANGED <<seed_local, zeros, pairs, exited>>

Uninitialised(p) == ZeroSeed \in {seed_local[p], seed_remote[p]}

\* Mutant of DrawAll: of the remote words of an array one only is drawn.
DrawAllButRemote(p, n) ==
  /\ gen' = [gen EXCEPT ![p] = [loc |-> Advance(@.loc, n),
                                rem |-> Advance(@.rem, 1)]]
  /\ current' = [current EXCEPT ![p] = "remote"]
  /\ Return(p)
  /\ UNCHANGED <<sent, seed_local, seed_remote, mail, exited>>

\* All local words of an array are drawn first, then all remote ones.
DrawAll(p, n) ==
  /\ gen' = [gen EXCEPT ![p] = [loc |-> Advance(@.loc, n),
                                rem |-> Advance(@.rem, n)]]
  /\ current' = [current EXCEPT ![p] = "remote"]
  /\ Return(p)
  /\ UNCHANGED <<sent, seed_local, seed_remote, mail, exited>>

\* Mutant of NthPair: setstate(remote_state) is forgotten.
NthPairLocal(p, i) == [loc |-> Draw(Advance(gen[p].loc, i - 1)),
                       rem |-> Draw(Advance(gen[p].loc, i))]

NthPair(p, i) == [loc |-> Draw(Advance(gen[p].loc, i - 1)),
                  rem |-> Draw(Advance(gen[p].rem, i - 1))]

\* get_next_r, get_next_rb, get_next_array, get_next_rb_array.
NextZeros(p) ==
  LET n == Calls[pc[p]].len
  IN  /\ At(p, "next") /\ ~Uninitialised(p)
      /\ DrawAll(p, n)
      /\ zeros' = [zeros EXCEPT ![p] = @ \o
                     [i \in 1 .. n |-> Minus(NthPair(p, i).loc, NthPair(p, i).rem)]]
      /\ UNCHANGED pairs

\* get_next_rb_pair_array.
NextPairs(p) ==
  LET n == Calls[pc[p]].len
  IN  /\ At(p, "pair") /\ ~Uninitialised(p)
      /\ DrawAll(p, n)
      /\ pairs' = [pairs EXCEPT ![p] = @ \o [i \in 1 .. n |-> NthPair(p, i)]]
      /\ UNCHANGED zeros

\* check_init_seeds: a seed that is 0, drawn so or never exchanged, ends the
\* process.
Exit(p) ==
  /\ At(p, "next") \/ At(p, "pair")
  /\ Uninitialised(p)
  /\ exited' = [exited EXCEPT ![p] = TRUE]
  /\ UNCHANGED <<pc, sent, seed_local, seed_remote, gen, current, mail, zeros,
                 pairs>>

\* A caller draws words of its own, from whatever generator is current.
RawRandom(p) ==
  /\ At(p, "random")
  /\ gen' = IF p \in Calls[pc[p]].by /\ current[p] = "remote"
            THEN [gen EXCEPT ![p].rem = Advance(@, Calls[pc[p]].len)]
            ELSE gen
  /\ Return(p)
  /\ UNCHANGED <<sent, seed_local, seed_remote, current, mail, zeros, pairs,
                 exited>>

Step(p) ==
  \/ SendSeed(p)
  \/ RecvSeed(p)
  \/ NextZeros(p)
  \/ NextPairs(p)
  \/ Exit(p)
  \/ RawRandom(p)

Done(p) == pc[p] = Last + 1

\* Nothing happens when each party is done, has exited, or waits for a seed
\* that an exited party will not send.
Stopped ==
  /\ \A p \in Party :
       \/ Done(p) \/ exited[p]
       \/ At(p, "exchange") /\ sent[p] /\ mail[p] = <<>>
  /\ UNCHANGED vars

Next == (\E p \in Party : Step(p)) \/ Stopped

Spec == Init /\ [][Next]_vars

\* Each party is an operating system process.
FairSpec == Spec /\ \A p \in Party : WF_vars(Step(p))

-----------------------------------------------------------------------------
(* Properties. *)

GenState == [seed : Seed \cup {ZeroSeed}, drawn : Nat]

TypeOK ==
  /\ pc \in [Party -> 1 .. Last + 1]
  /\ sent \in [Party -> BOOLEAN]
  /\ seed_local \in [Party -> Seed \cup {ZeroSeed}]
  /\ seed_remote \in [Party -> Seed \cup {ZeroSeed}]
  /\ gen \in [Party -> [loc : GenState, rem : GenState]]
  /\ current \in [Party -> {"default", "remote"}]
  /\ mail \in [Party -> Seq(Seed \cup {ZeroSeed})]
  /\ zeros \in [Party -> Seq(Elem)]
  /\ pairs \in [Party -> Seq([loc : Elem, rem : Elem])]
  /\ exited \in [Party -> BOOLEAN]

\* get_next_r and get_next_rb promise "zero-shared" values: the n-th shares the
\* three parties hand out sum to zero, although each party draws them at its
\* own pace and seeds may be exchanged again in between.
ZeroSum ==
  \A n \in 1 .. Len(zeros[0]) :
    n <= Len(zeros[1]) /\ n <= Len(zeros[2])
      => Reconstruct([p \in Party |-> zeros[p][n]]) = Zero

\* get_next_rb_pair_array: the remote word of a pair is the local word of the
\* predecessor's pair, so that a party knows what its predecessor masks with.
PairsReplicated ==
  \A p \in Party : \A n \in 1 .. Len(pairs[p]) :
    n <= Len(pairs[Pred(p)]) => pairs[p][n].rem = pairs[Pred(p)][n].loc

\* Two neighbours at the same call of the program hold the same state of the
\* generator they share: whatever was drawn before -- single words, arrays,
\* pairs, or test data -- left no offset between them.
Lockstep ==
  \A p \in Party :
    pc[p] = pc[Pred(p)] => gen[p].rem = gen[Pred(p)].loc

\* A party that has to exit because of a zero seed may leave the others waiting
\* for a seed, but if no party draws 0 all of them get to the end.
AllDone == \A p \in Party : Done(p)
NoZeroSeed == \A p \in Party : sent[p] => seed_local[p] # ZeroSeed
Completion == []NoZeroSeed => <>AllDone

=============================================================================
