# A verification project for Secrecy

Secrecy runs relational queries on secret-shared data. Three parties (MPI ranks 0, 1 and 2; the
code calls them P1, P2 and P3) hold *replicated* shares: every value is the sum of three random
words in a ring, and party `r` holds share `r` (its *local* share) and share `r+1` (its *remote*
share, the local share of its successor). All parties run the same C++ program; a multiplication
makes a new local share only, and an `exchange` with the neighbours restores the remote one.
Values are made public by `open` (to P1) or `reveal` (to everybody).

This directory holds TLA+ modules of that system, TLC configurations that check them on small
instances and TLAPS proofs about all instances.

## 1. Inventory

| Component (source) | State | Operations | What makes it correct | Hard behaviour |
|---|---|---|---|---|
| Secret sharing (`core/sharing.cpp`) | none | `generate_bool_share`, `generate_int_share`, table forms | the shares dealt add up to the value; party `r`'s remote share is `r+1`'s local one | none (pure) |
| Communication (`core/comm.cpp`) | MPI rank; messages in flight | `exchange_*`, `open_*`, `reveal_b*`, blocking and asynchronous | a message is taken by the call it was sent for; `open` returns the value the shares stand for; nobody blocks for ever | no call numbers in messages, one tag for all exchanges; parties run at different speeds; send-before-receive ring; aliased buffers |
| Zero sharing (`core/party.cpp`) | two seeds, two generator states, libc's current generator | `exchange_rsz_seeds`, `get_next_*`, `check_init_seeds` | the words the three parties draw add up to zero | generators in global state, drawn at different speeds; seeds exchanged again; a zero seed ends one process |
| Primitives (`core/primitives.cpp`) | none between calls | `and_b`, `not_b`, `eq_b*`, `greater*`, `cmp_swap*`, `boolean_addition*`, `convert_*`, `and_b_all*` | shares of the result of the plaintext function | bit tricks over several rounds, each needing an exchange; stale remote shares |
| Relational operators (`core/relational.cpp`) | tables | bitonic sort, joins, group-by, distinct, `in`, masks | the plaintext operator | oblivious algorithms over indices, in-place updates, batches |
| Baselines (`core/baseline.cpp`) | tables | unoptimised joins, group-by | as above | as above |
| Dealing and helpers (`core/utils.cpp`) | tables | `init_tables`, `generate_and_share_random_data`, shifts, `to_bshare` | every party gets its two shares | uses `random()` of the current generator |
| Wrappers (`core/wrappers`) | columns | batch `select`, `distinct` on columns | as the primitives | buffer sizes |
| Table transfer (`common/`) | data tables | deal and open columns | as `utils.cpp` | message order |
| Planner: enumeration and rules (`src/planner`) | query graph, table of problems with chains of plans | `generatePlan`, `apply*`, `addPlan`, `add`, `applyRules`, `pickOptimalPlan` | every plan of the table computes a part of the query; the one picked is complete and the cheapest | chains edited while they are walked; plans filed by counts; domination |
| Planner: operators (`planner/operators`) | the relation handed on, its `[SEL]` column, `bSelectionUsed` | `internalExecute` of each operator | the rows left by the last mask are the answer | sorts and comparisons include `[SEL]`; filters compare half words, joins whole ones; batches of different operators |
| Planner: parser, preprocessor, code generation | text, query graph, trees | parse, normalise, generate | sequential | none |
| Benchmarks, tests, experiments, examples | — | callers | — | — |
| Deployment, results, vendored jsoncons | — | — | — | not modelled |

How they interact: the planner's generated operators and the hand-written programs call the
relational operators and primitives; these call `comm.cpp` for messages and `party.cpp` for
shares of zero. There are no threads: all concurrency is between the three processes and MPI, and
all of it goes through `comm.cpp`, `party.cpp` and the few primitives that call MPI themselves.

What is hard to test here is listed with its lines in `PROJECT.json` ("hazards").

## 2. Modules

| Module | Models | Composes |
|---|---|---|
| `ShareAlgebra` | words as a commutative ring given by CONSTANTS; sharing, reconstruction, `and_b`/`mul`, `not_b`, generator states and `get_next_r*` | — |
| `ShareProgram` | the straight-line programs the parties run, and the exchange-before-multiply discipline their callers follow | `ShareAlgebra` |
| `IdealEval` | the abstract specification: the program evaluated on plaintext | `ShareProgram` |
| `SecureEval` | three parties running a program over MPI | `ShareProgram`; refines `IdealEval` |
| `ZeroSharing` | `party.cpp`: seeds, the two generators, zero shares and pairs | `ShareAlgebra` |
| `WordCircuits` | the bit-level algorithms of `primitives.cpp`, one round of a loop per step | — |
| `EqArrayInter` | `eq_b_array_inter` and `eq_b_array_inter_batch`: overlapping `MPI_Isend`/`MPI_Irecv` on a shared array | — |
| `ConvertAToB` | `convert_a_to_b_array`: three roles, one ripple-carry adder on shares, one tag for all messages | — |
| `GroupBy` | the scans and odd-even rounds of grouping, on values, a row or a batch per step | — |
| `TableOperators` | the planner's physical operators and the batch algorithms below them: `bitonic_sort_batch`, `in`, `in_sel_right`, `join_eq_b_batch`, `distinct_array`, `mask` | — |
| `PlanGen` | `generatePlan`: the table of problems, the cost model, Rules 1 and 3, the choice | — |
| `MC*` | finite instances: rings, programs, calls, words, tables | |
| `SecureEvalProofs` | theorems about sharing and the local computations on shares, the types, messages and shares of `SecureEval` and its refinement of `IdealEval` | |
| `ZeroSharingProofs` | theorems about `ZeroSharing` | |
| `ConvertAToBProofs` | theorems about the messages, generators, progress and result of `ConvertAToB` | `FiniteSums` |
| `EqArrayInterProofs` | theorems about the overlapping exchanges of `EqArrayInter` | |
| `FiniteSums` | lemmas on powers of two, quotients and sums over finite sets | |
| `WordCircuitsProofs` | theorems about what the circuits of `WordCircuits` compute | `FiniteSums` |
| `TableOperatorsProofs` | theorems about the sort network, the semi-join and the answers of plans of `TableOperators` | `FiniteSums` |
| `GroupByProofs` | theorems about the scans, rounds and results of `GroupBy` | `FiniteSums` |

### ShareAlgebra and ShareProgram

Boolean shares (`^`, `&`) and arithmetic shares (wrapping `+`, `*`) are both commutative rings, and
each primitive on one kind is the primitive on the other kind in the other ring: `and_b` is `mul`,
`not_b` adds the unit (which needs `One + One = 0`, an assumption on programs that use it). The ring is a
parameter with its axioms as assumptions (`RingClosed`, `RingAdditive`, `RingMultiplicative`). An
array of words is an element of the product ring, so that one wire stands for a share variable or
an array of them.

A program is a sequence of calls. A gate leaves its result in the wire with its own number;
`exchange`, `exchange_async`, `open`, `reveal` and `reveal_async` send the wires `ws` in one
message. `Replicated[k]` is the set of wires whose remote share is valid at call `k`.
`ProgramAssumption` says what callers of the primitives must do (compute before use, exchange
before multiplying); TLC evaluates it for each program it runs, and `ReplicasAgree` says that the
discipline is enough.

### SecureEval

One party is a sequential process; `pc[p]` is its call. A communication call is a sequence of `Send`
and `Recv` steps and a `Return`, in the order the code has them: `MaySend` and `MayRecv` say when
each may happen (a blocking exchange sends before it receives, P1 answers a reveal when it has both
shares, the blocking forms receive from P2 first, ...). MPI is modelled as MPI promises it: one FIFO
channel per pair of parties and tag, and a send that is complete when the receiver has the message
or when MPI has buffered it. How much MPI buffers (`Eager`) is a parameter: 0 is a
synchronous MPI, a large value one that never blocks a sender. Two tags are used, as in the code.

The `at` field of a message is history: no action reads it. `MatchedCalls` is stated with it.

The refinement to `IdealEval` maps the ideal program counter to the slowest party's, the value of a
wire to the reconstruction of the three local shares, and the public values to what P1 has opened.

Abstractions: data-independent control (the engine has no branch on shares), lengths of arrays, and
`init()`.

### ZeroSharing

`exchange_rsz_seeds` is two steps (send, then receive and initialise). Drawing is split as in the
code: all local words, then all remote ones. `current` is libc's current generator, which
`random()` in `generate_and_share_random_data` draws from. A seed may be 0, drawn so by
`randombytes_buf`; `check_init_seeds` then ends that process, which never sends again.

### WordCircuits

A step is a round of the loop of the primitive; a word is the set of its bits that are 1. `eq_b`, `eq_b_sync`,
`greater`, `cmp_swap`, `boolean_addition` and, on arrays of bits, `and_b_all` and `and_b_all_group` run on plaintext words; that every round on shares is
the round on the values is what `SecureEval` shows. The batch and array forms do the same rounds
element by element.

`to_bshare` returns 0 or 1 here, as in the code; the comment on it in `utils.h:95-98` promises a word of
all ones, and its callers negate the result to get that word (`SwapCorrect`).

### EqArrayInter

Both functions keep `MPI_Request` variables for sends and receives of several transfers at a time; `eq_b_array_inter`
overwrites the variables and waits for the last request only. `res` and `res2` are real buffers: a
send that MPI has not copied yet (`Keep`) delivers what is in `res` when it is transferred, and a
receive that has not completed leaves old words in `res2`. A word is represented by the level it
has reached, `Garbage` by what `eq_b_level2` makes of words of two levels. `InOrder` names the
functions for which transfers of a channel are assumed to complete in order. MPI does not promise that, and without the
assumption `LevelsApart` fails for `eq_b_array_inter`: "wait for last exchange before moving on the next level"
(`primitives.cpp:315`) does not include the exchanges before the last.

### ConvertAToB

`Script[p]` is the sequence of calls of party `p`: the two sends and two receives of its role, or
an `exchange` of the adder, and what is computed when both are done. The words are real words (sets
of bits) and the shares real shares, so that `Converted` is about the number the three
results stand for, with sums that wrap around. `eager` is chosen in `Init` (0: nothing is buffered).

### GroupBy

One variable per array of the code: `c` (the table), `sel`, `cnt` and `sum` (arithmetic columns); `in` is the call, kept for the
properties. A step is one iteration of a scan or one batch of a round. Rows are not moved and not
deleted: a masked row has all boolean words `MaxWord`. Its arithmetic words are 0 or `MaskedCount`: where a comment says that a count becomes
`max`, the code multiplies the bit by `max` on all three shares (`mul(b1, b2, max, max, ...)`, `relational.cpp:1218`), that is by
`3 * max = -3`. A call of `group_by_sum_odd_even` starts with the batches of `group_by_join_first`, as in all its callers, and has
a count column of its own, as in the tests: the planner passes column 0 (`group_by_operator.h:111`), which the
function then treats as arithmetic, and its loop over batches (`semi_join_operator.h:75`) stops too early; both are
listed as hazards and not modelled.

`Served` says for which calls the result is
exact; it is what the functions need, found by the runs below, and weaker than what their comments promise:

* the scans with a selection need a selected row in the last group, if that has several rows (`group_last_row`);
* `group_by_min_max_sel_odd_even` needs the selected rows of a group to come first: with the selection `<<0, 1>>` on a group of two
  rows, row 1 is masked as a duplicate and row 0 as not selected, and the group is lost (`relational.cpp:1447` says "Same as group_by_min_max_sel()", which keeps it; `test_qcredit.cpp`
  calls it after a selection on another attribute than the key);
* `group_by_count_sel_odd_even` needs a selected row in each group except that of the first row of the table, and there the first row. The
  assertions of `test_group_by_count_odd_even.cpp` on groups without one are commented out.

### TableOperators

A call is a plan (a sequence of operators, as code generation strings them together) with its input relations. `rows` and `used` are
the relation handed from one operator to the next (`shareTable` and `bSelectionUsed`), `ops` the operators still to do.
Operators that work in batches take a step per batch: a column of the sort network (`phase`, `column`, `turn`, `at`), a batch of left
rows and then a level of the tree in a semi-join, a batch of adjacent comparisons, a batch of masking. Comparisons and multiplexers
are taken for what they decide, which `WordCircuits` checks. A filter of two columns calls `eq_b_array` (`select.cpp:150`), which compares the lower
halves of the words only (`EqWord`; the same rounds as `eq_b`, run `eq_b` below); joins, semi-joins and the comparisons of adjacent rows call `eq_b_level2` in a loop over all bits and compare
whole words, as does a filter with a constant, which looks at the signs of two differences.
`CallsAssumption` collects what the asserts of the code ask of a call. `Planned` says of a plan what makes `Answer` its query: operators in the order in which
`applyDistinct`, `applyOrderBy` and the rules of the planner leave them, and data that fit (`DataFits`): no key of all ones and, if the plan has a filter of two columns, rows whose
two words differ at most in their lower halves. On other data such a filter selects rows that do not qualify, and the answer is wrong. TLC evaluates it for every plan of the run (`PlansAssumption`).

### PlanGen

`dp` is `DPTable`: the problems with their lists of plans, and per slot (number of operators, number of relations) the chain of
problem numbers that `next` links. A step visits a problem (unary operators) or a pair of problems (joins), in the order of the
nested loops of `generatePlan`. A plan is a tree and the fields of `Plan` that decisions read: cardinality, cost, `nodes`, `ops`,
`operators`. `ordering` is never set in the code and is left out. Costs are `double` in the code; cardinalities are
powers of two of at most 64 rows here, so that all costs are integers and no batch is exceeded (`MaxLog`). Rule 1 leaves the inputs of its semi-join out of the cost it
keeps with the plan; `PickedIsBest` counts every operator of the picked tree again (`CostOf`).

`TableSound` and `PickedIsBest` ask that a semi-join keeps the rows of the relation that the query selects from. The planner does not see to that for an `IN`: `JoinExpr::applies` accepts
its relations in either order, so that the table of every such query holds a plan that keeps the rows of the sub-query, and the reversed plan is the one picked when it is cheaper (sizes 2 and 32: 8216 against 8278). And with both
functions and an `ORDER BY` no plan reaches the last stage, and `finalProblem` asserts. Both properties hold only without such queries, which are therefore not in the run; both
defects are listed as hazards.

## 3. Runs

| Run | Instance | Shows |
|---|---|---|
| `eq_swap` | `eq_b_array`, an opening, the multiplexer of `cmp_swap`, both reveals, boolean words of 4 bits; nothing buffered by MPI | type, replication, opened values, barrier and aliased buffer of the reveal, refinement of the plaintext program, termination |
| `mul` | products on arithmetic words of 3 bits, four blocking exchanges, opening, reveal; three messages buffered | refinement in the other ring; messages taken by the right call; drift is bounded by the exchanges themselves |
| `zero_sharing` | two seed exchanges, arrays, pairs and single words; a zero seed possible | lockstep, zero sums, pairs, completion unless a seed is 0 |
| `words` | selected x all words of 8 bits | equality circuits, `greater`, `cmp_swap`, addition, conjunctions and their loop invariants (`RoundsKeep`) |
| `inter` | arrays of both functions, three levels; batches that do not divide the array | levels do not mix, buffers are not overwritten, everything is compared |
| `convert` | words of 4 bits, shares whose sum wraps; nothing or two messages buffered | the number is kept, messages are taken by the right call, generators stay in step, no deadlock |
| `group_by` | eleven functions (`group_by_join_first` and `group_by_sum_odd_even` as one call), 2, 4 and 8 rows, two keys and masked rows, batches of 1, 3 and 8; a right table with two, one and no match | loop invariants of scans and rounds, exact groups, sums that wrap around |
| `tables` | plans of the example queries, as planned and as rewritten by Rules 1 and 3, and a `DISTINCT` with an `ORDER BY`, tables of 2, 4 and 8 rows, several batch sizes | the sort network (`SortKeeps`), the tree of the semi-join (`TreeKeeps`), indices in range, the answer (`AnswerExact`), with keys that differ in the upper half only |
| `plans` | one relation with up to two filters, two relations with one or two joins, each with all clauses; three relations in a chain, a star or a ring of joins, where the pair found last has the cheapest first join; no `IN`, no functions with `ORDER BY` | every plan of the table is sound, the plan picked is complete and no plan is cheaper |
| `eq_b` (violation) | words of 4 bits | `eq_b` never compares the upper halves |
| `group_last_row` (violation) | the three scans with a selection | the last row is not masked although its group has no selected row |
| `plan_chain` (violation) | three relations R-S-T | a problem is lost from the table and a plan is picked that is not the cheapest |

Bounds. The programs have at most 20 calls: what matters for interleaving is that a party can be
several exchanges ahead of its neighbour, and four exchanges in a row let it be (`mul` reaches the
bound of three messages on a channel). The values of inputs and the random words are two each, and the generator tables are
chosen so that words differ between seeds and draws; the theorems
cover the rest. Words of 8 bits have three rounds: round 3 is the first whose parts consist of parts. The
period of the generators in `zero_sharing` is smaller than the number of words drawn, so that it
wraps. In `inter`, `Exchanges` stands for the ten batches of the code; two are enough for a request to be overwritten, and three levels for words to be two
levels apart. Sorts of 8 rows have three phases, so that a box of 4 is merged from boxes that batches of 2 and 4 cut differently; tables of 2, 4 and 8 rows on either side of a join
have batches that are smaller than, equal to and, where the code allows it, not a divisor of the table. Words of 4 bits have halves in which two keys can be alike. With three
relations problems are dropped from the planner's table and chains run into each other's slots: of the problems of two relations the one found last stays, so that the pick is the cheapest when that
is the cheapest first join (`Triple` of run `plans`), and otherwise it need not be (`plan_chain`);
up to two filters, two joins and two functions are enough for every operator to be planned before and after every other. Tables of 8 rows have three odd-even rounds, so that rows are masked by a round, compared by
the next and counted by a third; batches of 3 end within a group and do not divide a round.

Fairness. `FairSpec` has weak fairness of each party's next step: a party is an operating system process, and
MPI delivers a message that was sent. Nothing else is assumed. Deadlock is checked in all runs: `Terminated`, `Stopped` and
`Returned` are explicit steps that are enabled only at the end, as is `Return` in `GroupBy`. In `EqArrayInter`, MPI's
`Deliver` is fair as well: a transfer that both sides have posted takes place.

`Eager >= 1` in `mul` is an assumption about MPI that the blocking forms make and do not state:
with `Eager = 0` the ring of `MPI_Send` in `exchange_shares` deadlocks at once (the MPI standard
calls such a program unsafe).

## 4. Proofs

`SecureEvalProofs` begins with the functions of `ShareAlgebra`: dealt shares reconstruct (`GenerateShareCorrect`); generators seeded around the
ring give shares of zero (`ZeroShares`); `and_b` and `mul` give shares of the product
(`AndBCorrect`), `not_b` of the complement (`NotBCorrect`). The proofs are from the ring axioms only,
hence for both kinds of shares and every width.

The rest of the module: for every program that satisfies `ProgramAssumption`, every ring and every `Eager`:

* `TypeCorrect`, `CallsMatched`, `RevealsAreBarriers`, `RevealBuffersFree`, `ExchangesBounded`.

None of these is inductive. The invariant (`IInv`) adds two parts to the types:

* `PhaseInv`: what `sentTo` and `gotFrom` can be at each kind of call and in what order;
* `ChannelInv`: a channel holds exactly the messages of the calls its sender has posted and its receiver has
  not taken, one per call, in the order of the calls. The position of every message in a channel is determined by the
  two program counters and the phases of the two parties, whence the matching of calls; the bound on
  exchanges follows around the ring of three.

Part two: `ReplicasAgree` and `OpenedIsReconstructed`, for the same parameters. The strengthening (`RInv`) adds to `IInv`:

* `MessagesTrue`: a message in a channel carries the shares its sender has of the wires of its call, or, if P1 sends it in a
  reveal, the values they reconstruct to;
* `Fetched`, `Summed`: what a party has received in its current call agrees with those shares;
* `InputsAgree`, `GatesDone`: inputs are dealt replicated, and a local share that a linear gate has left is the function of
  the operands' local shares;
* `Mirrors`: the remote share of a wire of `Replicated[k]` is the local share of the successor, if that has computed it. A
  party may be ahead of its successor: then the wire is a linear gate whose operands are replicated, so that the
  successor will compute the same word;
* `OpenedKnown`: an opened value is the sum of three local shares, and no party computes them again.

`Refinement`: every step of `SecureEval` maps to a step of `IdealEval` or to a stutter. The mapping sends the plaintext program
counter to the slowest party's (`Slowest`), the wires it has passed to their reconstructions (`PlainValue`) and what P1 has opened to
the public values (`PublicValue`). Added to `RInv` (`FInv`): `InStep` (how often a party has drawn is the number of products before its program
counter, `Cardinality(Ands(k))`, so that the three shares of zero of a product belong together), `AndsDone` (the local share of a
product is `and_b` of the operands' shares with that share of zero), `NotWritten` (a communication call computes no share) and `OpensDone` (P1
has opened what it has passed). The step in which the last party leaves a product is the step of `IdealEval` that
multiplies; `AndBCorrect` shows that the three shares then stand for the product.

`ZeroSharingProofs`: `TypeOK`, `Lockstep`, `ZeroSum` and `PairsReplicated` for any sequence of calls, any seeds (0 included), any period and any
generator table. The words of `zeros` and `pairs` carry no call numbers, and a
party may have drawn many words from a seed its neighbour has not received yet. The invariant (`Inv`) therefore says that there *is* a
history `H` that all three parties follow: at which place each call was made (seed exchanges so far, words drawn since, words and pairs
delivered), from which place the `n`-th word and the `n`-th pair come, and the seeds each party drew (`HInv(H)`). A step of the party
that is ahead extends the history (`HistoryGrows`); a step of another one follows it. A message in a mailbox is the seed of the
exchange at its position. `OthersLater` turns the rule of `CallsAssumption` for test data (callers make it before they exchange seeds) into a fact about the
state: when libc's current generator is the remote one, no more test data is drawn, so that `random()` never advances
a generator that is shared with a neighbour.

`ConvertAToBProofs`: `Matched`, `StillInStep` and `SomeoneMoves` for words of every width, any words and any number of messages that MPI
buffers, none included. What a script says is first put into numbers: `Sent(q, p, k)` and `Taken(q, p, k)` count the messages of the calls `1 .. k`, and
`Name(q, p, n)` is the array of the `n`-th message of a channel (`SendsAt`, `RecvsAt`: call `k` sends and takes the next one). The invariant (`Inv`) is that a
channel holds the messages that are sent and not taken, in order, and that `drawn` is what the calls before have drawn. For `SomeoneMoves`, a party that cannot move
waits for another to send or to take a message (`StuckWaits`), and three numbers of calls at which each waits for another one do not exist (`NoCircle`, linear
arithmetic in the calls and the width).

`EqArrayInterProofs`: `NoMixedLevels`, `PendingSendsIntact` and `LevelsApart` for arrays of any length, any number of batches and levels and
all relative speeds. The theorems are about `eq_b_array_inter_batch` (`WaitForAll`) and assume nothing about the order in which MPI completes transfers. For
`eq_b_array_inter` the properties do not hold without an order (section 2); lemma `Invariant` shows that they would in order of posting (`OrderSuffices`). All parties post the same exchanges, `Keys`: pairs of a level and
the element after which the exchange is posted. The `n`-th request of a party is the key of rank `n - 1` (`PostsHeld`), whence matching by position is matching of
exchanges (`SameRequest`), and the batches of a level cover the array, the rest that does not fill a batch included (`Covers`, `BatchEnds`). Added to this (`Inv`):
what a pending request can be (`PendingHeld`: of this level and for computed elements, or of the level before if the batch form has yet to wait), that waiting for the last request
is waiting for all when they complete in order (`OrderHeld`, `Settled`), and that a remote share has the latest level received for it (`RemoteHeld`, `KeptHeld`).

The fourth theorem, `ConversionCorrect`, is about the words (`Converted`): the result is a replicated sharing of the sum modulo `2^Width`. Its invariant (`WordsInv`)
adds to `Inv` that one record `h` explains all words of the state (`DataHeld`): the shares `h.a` of the sum of two numbers, `h.w` of the third, and the
shares `h.c` of the carries of their sum, bit by bit with the words that the generators give (`CarriesHeld`). `Holds(h, p, m, k, g)` says what the arrays of `p` are in its
call `k` when the messages of the parties in `g` are in, and `Said(h, q, p, n)` what the `n`-th message from `q` to `p` carries, both as functions of `h`. Most steps keep `h` as it is.
When P1 or P3 deals shares of its number, `h` is replaced by a record with these shares and their carries (`SharedExists`): up to then no party has an array or a message of the
old ones (`SumNotUsed`, `X3NotUsed`). At the end the words of the generators cancel (`MasksCancel`), and the sum of shares with their carries is the sum of the
numbers (`SumIsShared`), which needs sums of powers of two over the bits of a word.

`FiniteSums` holds the inductions over data that `ConvertAToBProofs` and the next three modules need. The library's induction theorems take the induction hypothesis
as an operator, which none of the provers can instantiate. The same inductions go through with sets in place of operators: a nonempty set of
naturals has a least element (`InductionSet`), a nonempty set of subsets of a finite set a minimal one. Thereby `2^(n+1) = 2 * 2^n`, the laws of quotients, and
that `MapThenSumSet` of the community modules is additive, for every finite set.

`WordCircuitsProofs`: `TypeOK`, `EqSyncCorrect`, `EqOfLowerHalf`, `GreaterCorrect`, `SwapCorrect`, `AdditionCorrect` and `RoundsKeep` for words of every width
`2^LogWidth` and all arguments. The invariant (`WordInv`) gives, for the primitive that runs, `acc` and `diag` as a function of the arguments and the round: bits of `acc` say whether parts
of `2^round` bits agree (`EqInv`, `SyncInv`), bits of `diag` mark the highest difference of a prefix (`GreaterInv`), `acc` holds the carries so far (`AddInv`), the conjunctions of groups of bits (`AndInv`).
That two sets of bits are ordered as the numbers they stand for are, and that the carries are those of the sum of the numbers, are facts about sums of powers of two over
sets.

`TableOperatorsProofs`: `TypeOK`, `SortKeeps` and `TreeKeeps` for tables, batches and words of every size and every plan that `CallsAssumption` allows, and `AnswerExact` for every such plan
that is `Planned`. The invariant of the first three (`TableInv`) has four parts:

* `DataInv`: what the rows, the operators left and the local bits are;
* `PlaceInv`: where the loops are: a batch begins at a multiple of its size, the distance of a column divides the blocks of its phase;
* `SortInv`: the network. Before column `j` of phase `i`, each box of the column is *bitonic*, and the boxes before it are in order with each other (`Blocked`, `HalfDone`
  while the batches of a column are under way). A batch exchanges the pairs whose lower place is given in closed form (`Position`, `Low`), and each pair of a column belongs to one turn of one batch;
* `TreeInv`: after `l` levels for a left row, element `e` of its work array is 1 exactly if all the rows of the right table that are combined in it differ from the left row.

A sequence is bitonic here if for every row `z` the places that are at least `z` form one interval around the circle (`AtLeast`, `Cyclic`): the 0-1 principle, stated with thresholds, so that no
induction over data is needed. `HalfCleaner` shows that comparing the two halves of such a sequence place by place leaves two of that kind, the places of one not above those of the other.
After the last column of a phase the boxes are the rows, hence `SortKeeps`; after the last phase the table is one block, and sorted.

`AnswerExact` relates the last table to the input of the plan. Its invariant (`AnswerInv`, with `TableInv`) says after every batch what the `Past` operators that are done have made of the input:

* `TableIs`: a bijection `f` sends the rows to the tuples (rows of the left table, or pairs once a join is done), and a row agrees with its tuple in every column but `[SEL]`. A batch of the sort
  permutes the rows (`BatchPermutes`), so `f` is composed with a permutation; a join replaces it by the pairs of `LeftOf` and `RightOf`, which are inverse to `PlaceOf` (`JoinPairs`);
* `Stamped`: a row is selected exactly if its tuple passes the conditions of these operators, and all selected rows have one and the same word in `[SEL]`. The second half is what
  `DISTINCT` and `ORDER BY` need, which sort by it and compare it: rows that do not qualify form runs of their own, those that do form one run per key. For a filter of two columns
  this is where `DataFits` is used (`HalvesDecide`): words that agree above the half are equal if the lower halves are;
* `OnePerKey`, after a `DISTINCT`: of the rows of a key that passes, exactly one is selected. The first of them is marked and no other one (`FirstOfGroup`) because equal rows are adjacent (`HalfMarked`);
* `InSequence`: rows that may be selected are in the order of the `ORDER BY` done before. The operators that follow it may change `[SEL]` although it is a key, but only to a word that all rows that stay selected
  share (`UnitedInSequence`), and take no other row in;
* `HalfJoined`, `HalfMarked`, `HalfMasked`: the same in the middle of a semi-join, of the comparisons of adjacent rows and of the mask.

At the end the rows that are not all ones are those that are selected, since no key of the data is all ones, and `f` restricted to them is a bijection onto the answer, whence the cardinalities.
The theorem `PlannedExact` has no hypothesis about the constants: it says `Planned(in) => AnswerExact` of every state, where `Planned` includes `DataFits`. `AnswersExact` is the invariant of the run, if all plans are `Planned`.

`GroupByProofs`: `TypeOK`, `ScanCarries`, `RoundKeeps` and `GroupsExact`, that is all properties of the passing run, for tables, batches and words of every size, any keys and attributes and any
right tables of the joins. `TypeOK` and `ScanCarries` hold for all calls; `RoundKeeps` and `GroupsExact` under the hypothesis `\A x : Accepts(x) => Served(x)`
(only calls that the functions serve are made), without which the result is not exact (`group_last_row`). The invariant has five parts:

* `TypeInv`: the types and what bounds the counts, which the code adds up without a modulus in `group_by_count*`: in a scan, `cnt[at] <= at + 1`; before a round with
  distance `d`, a count is at most some `k` with `k * 2d <= N`, so that doubling it stays within the number of rows (`ScanCounts`, `RoundCounts`). For the last round this is sharp: that
  a count is a word is where `Sizes \subseteq 2 .. MaxWord` is used;
* `PhaseHeld`: which kind of function is in which phase;
* `ScanHeld`: row `at` has *gathered* the selected rows of its group up to it (`UpTo`), each row before it has if it is the last of its group and any is selected, and is `Discarded` otherwise, the rows after it
  are as given. `Has(row, count, sum, r, of)` is `Holds` as a function of words instead of the state; `HasMerged` says that what two disjoint sets of rows of a group give, merged, is what their union gives: counts add,
  sums add modulo the word, extremes are compared;
* `RoundHeld`: in the middle of a round with distance `d`, a row before `at` already holds the rows at multiples of `d` after it and another one those at multiples of `2d` (`Far`), and a row that
  was the second of a pair has already been dropped if it is not among the first `d` of its group (`Near`). A batch reads rows both before and after it: `RoundRow` shows that the first row of a pair
  gets `Every(r, 2d)` and `Every(r + d, 2d)`, whose union is `Every(r, d)` (`EveryStep`), because the second row is masked exactly if it is not in the group or has been counted;
  at the end of a round `Near` and `Far` have become `d` everywhere (`RoundEnds`). That `dist` is a power of two, so that halving loses nothing, is in the invariant. The final pass masks the rows that are not `Kept`;
* `PairsHeld`: the rows that `distinct_batch` has marked.

`Served` is used in three places: that the selected rows of a group come first is what makes dropping an unselected row in a round right (`SelectedFirst`), that groups have a selected
row is what makes the test of the final pass right (`FinalHit`), and that the last group has one is what makes that of the scans right (`ScanDone`).

Assumptions used: `ProgramAssumption`, the ring axioms, `PRNGAssumption`, `EagerAssumption`,
`InputAssumption`, `ConvertAssumption`, `SizeAssumption`, `WordAssumption`, `WidthAssumption`, `CallsAssumption` and those `ZeroSharing` names.

Only model-checked: all liveness (`Termination`, `Completion`, `AllCompared`), because liveness under fairness is out of the prover's reach, and `TableSound` and `PickedIsBest` of `PlanGen`, whose
operators are declared RECURSIVE: the prover loses its SMT solver in modules that reach such a declaration. `PickedIsBest` does not hold for all queries (`plan_chain`).

## 5. Plan

Done: algebra, communication, zero sharing, the circuits, conversion, grouping with counts, extremes, sums and joins, the physical
operators of the planner's queries, plan enumeration with Rules 1 and 3, and the proofs above.

Next, in this order:

1. `BitonicSort` as recursion (`bitonic_sort`, `bitonic_merge`), the inequality selections and joins (`select_greater_batch`,
   `join_geq_b_batch`, `adjacent_geq`), `group_by_sum_rca*`, the remaining wrappers.
2. Rules 2, 5 and 6, and the planner's group-by and aggregation decomposition in `TableOperators`, with the two hazards of section 2.
3. Baselines, against the same plaintext definitions.
4. Proofs about `PlanGen`, with its recursion written as recursive functions.

## 6. Not modelled

* `src/include/external-lib` (jsoncons) is a vendored library, 86,000 of the repository's 112,600 lines, used to read one schema file.
* SQL parser, preprocessor, code generation, schema database: sequential text processing that sends no messages.
* Benchmarks, experiments, tests, examples: callers; the models' calls and programs are taken from them.
* Table transfer (`common/`): the same dealing as in `utils.cpp`, which `SecureEval`'s `Init` models.
* Baselines: unoptimised duplicates of the relational operators, kept for comparison.
* Deployment scripts and results.
