# A verification of the Random Probing Security Checker

The program reads the description of a masked gadget (a small circuit over
shares and random bits) and bounds the probability that random probes of its
wires reveal its inputs. The numbers it prints are only as good as a chain of
tables and enumerations that nobody sees: every set of wires ("row") has to be
visited once, interned under a handle that stays valid while its table grows,
turned into a transform by decision diagrams, summarised by several threads,
and classified, so that the expensive calculations are done once per class; the
values of the classes are then added up, row by row, to the coefficients that are
printed. If something fails on the way, in a thread or not, the program has to
end without a result. This directory models that chain in TLA+, checks it with TLC on small
instances, and proves with TLAPS, for all sizes, what holds of the tables at its base, of the threads and
of the enumerations.

Paths below are relative to `src/src/`.

## The system

| part | state | operations | what uses it |
| --- | --- | --- | --- |
| hash map, hash set (`hashMap.c`, `hashSet.h`) | slots, the used ones, full hashes | set, lookup by key, lookup by handle, doubling | every table below |
| hash cache (`hashCache.c`) | rings of entries, locks | get, set | diagram operations, sums over random inputs |
| decision diagrams (`addCore.c`, `addOp.h`, `bdd.c`) | hash set of nodes | node, and, xor, not, flatten, transform | transform generator |
| numbers (`number.h`) | – | wide integers | transform |
| transform generator (`transformGenerator.c`) | functions of wires and rows | build, transform of a row | row infos |
| rows (`row.c`, `bitArray.h`) | – | next row of the enumeration | passes of the wrapper |
| hashed rows (`rowHashed.c`) | hash set of rows | fill, iterate (by threads) | everything that is indexed by row |
| row-indexed set (`rowIndexedSet.c`) | hash set of values, handle per row | add, look up | row infos, subrow classes |
| row infos (`rowInfo.c`) | row-indexed set, arrays of infos | parallel build, look up | subrow classes, calculations |
| subrow classes (`subrowHashed.c`) | row-indexed set of classes, maps | build, look up | calculations |
| combinations of probes (`probeComb.c`, `calcUtils.c`) | a combination and its count | two iterators, multiplicities, maximum of two polynomials | calculations |
| wrapper (`wrapper.c`) | the tables, the values of each class | the passes, in order; value of a row | calculations |
| calculations (`calc_*.c`) | coefficients | info of a transform, value of a class, coefficients; one per security notion | `main.c` |
| gadget, parser (`gadget.c`, `parserSage.c`) | the circuit | build from text | all |
| threads, errors (`multithread.*`, `types.*`) | locks, exit flag | parallel run, fail, exit | all |
| memory accounting (`mem.c`) | a table of blocks, their sum, a lock | allocate, free, balance at exit | all |

The main thread runs the passes of `wrapper_new` one after another: hash all
rows; build the functions of wires and rows; compute the infos (threads); classify;
calculate one value per class (threads); add up coefficients. Threads exist only
inside a parallel run, which joins them before it returns. They share the
row-indexed set (one lock), the caches (one lock per part of the table) and
read-only tables.

What is hard to test in it:

- **Sequences of calls.** A key's handle is its full hash at some probe. What the
  probe finds depends on all earlier keys and doublings; a wrong stop or a wrong
  slot shows only with several colliding keys and after a doubling.
- **Interleavings.** A cache entry is evicted or calculated by another thread
  between a miss and a store; threads add equal values to one set.
- **Boundaries.** Ranges of indexes per thread, carries between the words of a
  row, limits on wires and probes, signs of halved numbers, limits on values that
  are applied in the middle of a sum.
- **Shortcuts.** One row stands for all of its class; a combination of outputs is
  skipped because a greater one leaks more; sums over subrows run over
  packed numbers instead; a set of wires is told to be independent from sums of wires.
- **Order.** A class is made of the classes of smaller rows, which must exist;
  the second round of threads reads what the first one wrote.
- **Ending.** Doubling loops, enumerations, locks on early returns.
- **Failing.** Several threads fail at once, with locks held, while the main
  thread joins them; destructors run afterwards.

## Modules

| module | models | state and actions |
| --- | --- | --- |
| `Intern` | what a table of permanent handles promises | `dict`; insert, overwrite |
| `HashMap` | `hashMap.c`, both storages | the arrays of the C structure; `hashMap_set` is one step if it finds room at once, else a step per doubling and retry; `issued` holds what callers were told |
| `Fifo` | what a bucket of the cache promises | add a new key, forget the oldest |
| `HashCache` | `hashCache.c` and the calculations of `addOp.h` | a program counter, stack and result per thread; a step for each lock, scan, part of a write, unlock, call and return |
| `RowInfo` | `rowInfo.c`, `rowIndexedSet.c`, `multithread_thr_parallel`, `TYPES_ITERATE_TH` | a program counter and index per thread, the set and its handles, the arrays of infos; creating and joining are steps |
| `Threads` | the ids and shares of the threads, `TYPES_ITERATE_TH` | operators |
| `Row` | increments of `bitArray.h`, `row.c`, `tryNext`, subrows | operators on rows as numbers, words of any width |
| `SubrowHashed` | `rowHashed_alloc` and `subrowHashed_new` | a step per row and pass |
| `CalcUtils` | `calcUtils.c`, the `getInfo` of each calculation | operators on sets of shares, transforms and polynomials |
| `Wrapper` | `wrapper.c`, the calculations | on top of `SubrowHashed`: a step of a thread per slot of the classes, of the main thread per row looked up, per combination of outputs or value of the inputs, and for the coefficients above the limit |
| `Leakage` | what the infos are for | no state of its own: `TransformGenerator` and `CalcUtils` together |
| `ProbeComb` | `probeComb.c`, `calcUtils_addTotProbeMulteplicity` | a step per visit and increment; both iterators |
| `Bdd` | `addCore.c`, `addOp.h`, `bdd.c`, `number.h` | recursive operators over a storage of nodes |
| `TransformGenerator` | `transformGenerator.c` | a step per input, operation of the gadget and row; the gadget is any |
| `Gadget` | `gadget.c` | the two builders as functions of their state, and the gadget made of what they collect |
| `ParserSage` | `parser_fn` of `parserSage.c`, `gadget_fromRaw` | a step per name of the header, assignment and output, in each of the two passes; the file is any, written by the first pass as it reads |
| `Exit` | `types_exit`, `FAIL`, `multithread_thr_parallel`, `mem.c`, the destructors | a program counter per thread and for the main thread, the owners of three locks, the heap and the table of blocks; a step for each lock, part of an allocation, unlock, print and exit |
| `HashMap_proofs`, `HashCache_proofs`, `RowInfo_proofs`, `Wrapper_proofs`, `ProbeComb_proofs`, `Exit_proofs`, `ParserSage_proofs` | – | the theorems about the module of that name |
| `NumberLemmas` | – | lemmas: quotients and remainders; powers of two; sums over finite sets; the places of numbers in a set of them |
| `MC*` | – | constants of the runs |

How they fit: `HashMap` implements `Intern`, and the modules above it use the
dictionary instead of the table (the set of values in `RowInfo`, the classes in
`SubrowHashed`, the nodes in `Bdd`). `ParserSage` calls the builders of
`Gadget`; what it makes, operations that only read earlier ones, is the gadget `TransformGenerator` starts from. `HashCache` shows that a cached result is
the calculated one, so `Bdd` leaves the caches out. `RowInfo` is the step
between the transform of a row and the handle of its info, which `SubrowHashed`
takes as given: a row may have any info that `CalcUtils` makes of a transform. `Wrapper` extends
`SubrowHashed`, its main thread goes on where the passes end. `ProbeComb` shows that the loops over
combinations add up the number of sets of wires, which `Wrapper` adds in one step. `Exit` leaves out what
the threads calculate: they allocate, free, lock and fail, as any of the parallel runs does.

Definitions carry the names of the C functions, macros and fields they
translate. A definition whose comment begins with "Mutant of" is a plausible bug
in that function, used to see that a property notices it.

Data is reduced to what can be told apart: keys, values and infos are model
values or small numbers, a transform in `RowInfo` is one of three, a row is the
number its words make up. Memory, deletion, debug statistics and printing are
left out everywhere but in `Exit`. Real numbers are exact fractions of a power of two in `Wrapper`, where all
of them are multiples of 2 to the minus (`numTotIns` + 1 + number of wires in a row). A hash function is a constant function, over all of which the runs range.

## Runs

| run | instance | shows |
| --- | --- | --- |
| `hashmap` | 3 keys, 2 values, 2 attempts of 2 contiguous slots, 2 to 8 slots, all hash functions of 8 hashes; full hashes saved, or one bit per slot, where a doubling probes for each key's hash | handles stay valid, nothing is lost or stored twice, the program gives up only if it must, every set returns, the dictionary is implemented |
| `hashcache` | 2 threads, 4 keys sharing sub-diagrams, 2 buckets of 2 entries, 2 calculations each | results are right, rings forget the oldest first, no thread waits for ever |
| `rowinfo` | 2 threads and none, infos hashed directly and in two rounds, 4 row indexes, 4 slots of values, all sets of rows and transforms | every row leads to its own info; equal handles are equal values; no late add; the build ends |
| `rowinfo_tail` | 3 threads, 4 indexes | a row is missing (below) |
| `rows` | words of 4 bits. For the enumeration: rows of 3, 4 and 8 wires, limits 0 to 4, one and two outputs. For the calculations: all seven, with 1 or 2 inputs, shares, outputs, up to 4 probes of 1 or 2 wires, limits of 1 to 3 wires, no threads and 2; infos from transforms with one element or all, on up to two rows, or all rows | the enumeration is exactly the allowed rows and ends; rows of one class have subrows with the same infos, at any depth; every lookup hits; the coefficients bound the leakage by its definition |
| `row_partly_used` | 5 and 6 wires in words of 4 | an overflow is reported that is none (below) |
| `probe_combinations` | up to 4 probes of up to 3 wires, limits 1 to 5, all images | the loop goes through the combinations in their order, each once; its count is their sum; the coefficients count the sets of wires |
| `transform` | all gadgets of 2 shares, 1 random input and 2 operations of 9 kinds, the random only added; all rows | diagrams are the functions; one pointer per function; the transform, with inputs that are skipped |
| `transform_randoms` | 2 shares, 2 random inputs, only shares multiplied; all rows | the transform; what the Vraps calculations take from the transforms of a row's subrows is exactly whether, and of which shares, the joint distribution of its wires depends on the inputs, for one input of two shares and for two of one |
| `gadget` | files of up to 3 assignments over an input of one share, 2 over inputs of two shares; outputs, inputs and locals assigned again; one gadget with more inputs than supported | the gadget computes the file's outputs for all inputs; its probes are the wires of the circuit with copies; the second pass fits what the first counted |
| `exits` | 2 threads, accounts of 2 blocks, 3 addresses, 2 calls each | `exit` is called once; no result is printed that lacks a thread's part; the status is right; the accounts are the heap whenever the lock is free, and the checks of the accounts are true; the program ends |
| `transform_multiplied` | 1 share, 2 random inputs | the transform is wrong (below) |

**Bounds.** The table doubles twice, so a key is moved after a move; three keys are
the fewest where one hides another's slot while a third doubles the table; with two
attempts of two slots, probes cross runs. Two ways and four keys make the ring wrap
and evict what a running calculation stored. Two threads are enough for a conflict on
each lock, and all schedules are explored. Words of four bits give rows of one word, two
full words and a word used in part. Three inputs are the fewest where an input is skipped
both above and below a used one. Three assignments are enough for a wire that is assigned
again, read before and after, and for one that nobody reads while its operands are read. Two blocks
in the accounts and three addresses let the accounts, and the heap, be full first. Two wires equal to one probe are the fewest where a sum of
two cancels; with two rows that have correlation, values of one row's subrows add, cancel and reach the limit.
Polynomials are sampled at 0, 1/4, .. 1 (`SAMPLES` = 4), which stands for the 10000 steps of `FN_CMP_STEP`. Each name in capitals that says "bound" in a
module (`MAX_ELEM`, `CALLS`, `MAX_OPS`, `MAX_ROWS`) limits only what is explored;
a table of `MAX_ELEM` slots stands for memory being exhausted.

**Deadlock.** `HashCache`, `SubrowHashed`, `Wrapper`, `ProbeComb`, `ParserSage` and `TransformGenerator` stop when
all calculations or loops are done, and `Exit` when the program has ended; their runs do not report that, and
`CalculationEnds` (of `HashCache` and of `Wrapper`), `ProgramEnds` and `LoopEnds` say that they get there (`ParserSage` has no
loop but over the file; it also stops where an error ends the program).

**Fairness.** Only weak fairness of what is running: the loop of a call (`HashMap`), each
thread's next step (`HashCache`, `RowInfo`, `Wrapper`, `Exit`), the loop of the main thread. It says
that the operating system goes on scheduling a thread that can run, no more. A lock may be given to any waiting
thread; each thread takes it finitely often, so none is overtaken for ever.

### Disagreements between code and what is said of it

1. `types.h:92` (`rowinfo_tail`). The last thread is given the end of the range at line 89,
   and line 92 overwrites it. If `NUM_THREADS` does not divide the size, the last
   indexes are given to no thread, and their rows are missing. The size of a table is a power
   of two, so two or four threads are right.
2. `bitArray.h:134` (`row_partly_used`). With more than one word, the last one used in part, an
   increment that sets all its used bits is taken for an overflow: the enumeration
   ends before that row. With one word the zero bits of the outputs keep the value below the mask.
3. `number.h:69` (`transform_multiplied`). Halving sets the highest bit for numbers that are *not*
   negative, so it always adds half the range. Gadgets that only add their random
   inputs sum an even number of such offsets, which then vanish (`transform_randoms`); a random
   input multiplied by a share leaves one in the transform.

The three lines are reached by these runs only: in `rowinfo` the number of threads divides the table, in `rows`
the last word is used fully or is the only one, and in `transform` and `transform_randoms` what a halving adds is
always 0 in the end. What holds in those runs, `TransformIsWalsh` among it, says nothing of the remainder, the
mask and the sign.

## Proofs

Each theorem holds for every value of the constants that the module's assumptions allow. A run
checks most of the same properties on a small instance. The types of `RowInfo` and `Exit` are
theorems only (`TypeCorrect`).

**`HashMap_proofs`**, for all keys, values, sizes, widths, attempts and
hash functions, and for both storages: types; `HandlesResolve` (a handle leads to
its key for ever); `ExactlyTheStoredKeys`; `FailsOnlyWhenBlocked`; and that `HashMap`
implements `Intern`, by a refinement that reads the dictionary through probes.

*Assumptions* are those of the module: sizes are positive, hashes are of one width
and runs of contiguous slots do not cross its end, an entry just allocated differs from
a stored one. `HashFns` is any set of functions. The number of keys is finite because
the number of stored ones is, which is part of the proof of the counter.

*Argument.* `HandlesResolve` is not inductive: that a probe finds a key says nothing about the
slot the key will have after a doubling. The invariant `IInv` says where each stored key
is: its slot is its handle reduced, and holds it (`SlotsIssued`, `HandlesPlaced`), and no
earlier probe of the key reduces to that slot (`FirstReach`). The last is what lets a table without
hashes find the *same* full hash again: the first probe that reduces to the key's
slot is the one it was stored by. It survives a doubling since two hashes that differ in the low bits
of a size differ in those of its double, the one fact on numbers needed (`NumberLemmas`). `PendingNew`
and `PendingBlocked` say what is known of a call between its steps. Each action
preserves `IInv` (`StoreInv`, `SetPresentInv`, `ResizeInv`); the counter has an invariant of its own
on top of it, and the refinement follows from the dictionary told by handles (`DictOfHandles`).

**`HashCache_proofs`**, for any number of threads, buckets, ways, diagrams and calculations: types;
`EntriesRight` (an entry that can be read holds the result of its key); `ReturnsResult`; and that each
bucket implements `Fifo`. *Argument.* That entries are right depends on the threads that are
writing them, whose values depend on results they got from entries. `IInv` closes
the circle: a stack is a chain of nested calls with the results collected so far (`StackRight`), the holder of a
lock is the thread between its lock and unlock (`HolderHasMutex`), a ring has each key once and fills up before it
wraps (`KeysRight`), and values are right but for the place that its holder is
writing (`ValuesRight`, `WriterRight`).

**`RowInfo_proofs`**, for any number of threads, rows and values: `SameHandleSameValue` and `NoLateAdd`;
and `EveryRowHasItsInfo`, with `NoRowIsMissing`, if the shares of the threads cover the
indexes (`SharesCoverAll`: the number of threads divides the sizes). Without that hypothesis the last two are
false, which `rowinfo_tail` shows. *Argument.* `IInv` says of each thread and round which indexes are done
(`PlaceRight`, `RoundsRight`), what the arrays and the set hold for those (`HandlesRight`, `WorkDone`), and that the main
thread is past a join only when the thread is past its share.

**`ProbeComb_proofs`**, for all probes, limits and images: `CountIsSum`; `VisitsInOrder` (a step goes to
the next allowed combination, the last probe that differs deciding, and the loop ends only at the greatest); and that the loop
starts at the least (`StartsFirst`). Together: each allowed combination is visited, and once. *Argument.* The
invariant is `CountIsSum` with its types. At the limit, the carry starts behind the first probe that can be lowered.
Everything before that probe is as low as it may be, so a combination that skips less
would have more wires than the limit (`HighestRaised`): the one place where order and
sums meet. It needs that sums over sets are additive and monotone (`NumberLemmas`).

Also what the loops are for: `CoeffsCountTheSets` and `EachRowComesAsOften`. *Argument.* `AddsUp`: `coeffs` counts the
sets of wires whose profile (how many of each probe) was visited, and no other; a step adds one combination to
those visited (`SeenGrows`, from the order above) and as many sets as have it as profile, which is the product of the code
(`MulteplicityIs`). That product is taken apart probe by probe, as the probes choose their wires independently
(`FamilyStep`), and a binomial, which the code and the model divide out of factorials, is a number of subsets
and leaves no remainder (`ChooseCounts`, after Pascal). With the parities of the subsets instead of their
sizes, the same step gives the powers of two (`SubsetsOfParity`).

**`Wrapper_proofs`**, for words of any width, rows of any number of wires and any limits, and for the program with its
threads and calculations: `SubrowsFirst`. *Argument.* A row's subrow is a smaller number, and both passes
take the same way up (`RowsInv`: from 0, each visited row is followed by its next, with no
visited row between). That the way goes up (`TryNextIncreases`) rests on the increments:
an increment that is not said to overflow did not (`LocalIncRight`, in whatever part of the last word),
and the carry into an output's shares stops at one that is not set (`CarryStops`, `OutIncreases`).

`EveryRowHashed`, `LookupsHit` and `ClassesAgree` are proved for gadgets whose wires fill their last word or fit in
one (`FullOrOneWord`, the theorems' hypothesis): with more words and the last one used in part the first is false, which
`row_partly_used` shows. `EveryRowHashed` speaks of the moment when the first pass ends. What is proved of each step before
(`AllSoFar`) is that every allowed row below the current one is hashed, which needs that an increment reaches the
*next* allowed row: a row above it is first greater in some bit, and if it kept to the limits there would be more
ones below that bit than the increment leaves (`Fits`). `LookupsHit` needs that every class has
a row that stands for it (`ClassesHaveRows`), and which rows the loops after the passes can reach: rows of outputs
with the probes that a combination puts back (`OutAndProbes`). `ClassesAgree` compares rows at any depth: a class
keeps the value it was entered with, made of the infos of the row and of the classes of its direct subrows
(`ClassesHaveValues`), so two rows of a class have the same places, and the same infos one step down; any other
subrow is reached by direct ones.

**`ParserSage_proofs`**, for any file, number of names and shares: `SecondPassFits`; `CircuitIsProgram`;
`CopiesAreProbes`. The assumption is on the headers: a masking has shares, the names of one line differ, and random
inputs have no names of shares. *Argument.* `wires_n` and `wires_v` forget what a name stood for when it is
assigned again; `Stands` says it for any line. The invariant (`IInv`) relates them: in the body the wires are the
known names, once each (`WiresRight`), in the second pass each with the number of the definition its name stands for
(`ValuesRight`); both builders have counted and collected what was read so far (`InfoRight`, `GenRight`,
`OperationsRight`), and `mult` is twice the reading operands plus the outputs, minus one (`CountsRight`). A name is
found exactly if it is known, so the second pass finds what the first did. For the end, `ComputedSteps` takes the library's fold apart into
one function per operation, and `SaidExists` shows that the recursive definition of the file's values has a
solution, as lines look back only. Then, operation by operation, a wire has the value of its
definition (`AgreeAll`): what is read has probes, so it is kept and has its new number before
(`WireIs`). The probes are the kept wires in their order (`ProbedIs`).

**`Exit_proofs`**, for any number of threads, blocks, accounts and addresses: `ExitsOnce`, `NoPartialResult`,
`StatusIsRight`, `AccountsMatch`, `NoFalseAlarm` (when `mem.c` checks its own table, it finds it right), and that
nothing is allocated any more when the result was printed (`NoLeak`). *Argument.*
`ExitsRight`: the flag is set exactly from the first exchange on, whose caller is the only one in the places that follow.
`JoinsRight`: what the main thread has joined is done, which a thread that failed never is. `OwnersRight`: each block has one owner, so a
block that is freed is in the table. `AccountsRight`: the table is the heap but for what the holder of the lock has
changed in one and not yet in the other; the total is a sum over the entries, which changes with one of them.

`NumberLemmas` derives what it needs of sums and of powers of two by hand: the induction theorems of the library take
an operator as a parameter, which the provers here cannot instantiate, so a smallest set, or a least
number, for which the claim fails is led to a contradiction. Powers of two are known to the provers as numbers of subsets only.

**Only model-checked.** Liveness (`SetReturns`, `CalculationEnds`, `BuildEnds`, `LoopEnds`, `ProgramEnds`), since the
prover has no rules for fairness. Everything in `Bdd`, `TransformGenerator` and `Leakage`, which are
recursive over data. `CoeffsBoundTheLeakage`, of which the parts are proved (the lookups, the classes, the
numbers of sets), but not what they add up to.

## Not modelled

The reading of the text (spaces, comments, numbers), the words of the command line and printing are sequential and
reached by tests. A file with more names than the parser's arrays have places is undefined behaviour and
not among the model's files; so is a limit of no wires with `rpsCor2`, which reads behind the combination
(`probeComb.c:54`); nothing in the repository makes a gadget with negations. The
mixing of the hash function is irrelevant to the properties, which hold for any function.

Rounding of floating point is outside TLA+: the fractions are exact. The source takes an element of a
transform by its first limb, with a note that the conversion is still to do (`calc_rpsCor1.c:28`, `calc_rpcCor1.c:43`,
`calc_rpsCor2.c:35`); the model takes the element as a number, and for the two Cor1 calculations, which
read it without a sign, its instances have no negative elements.

The memory orders of the atomic types are not modelled: a value is written by one thread and read after
it was joined, the exit flag is exchanged. In `Exit`, locking a mutex that was destroyed returns an error, as it
does in glibc. The accounts are those of a build with `--check`; a build that prints more also prints the maximum in
`mem_deinit` whatever the balance, which needs the lock of `types.c` not to be destroyed before: that
build is not modelled. The constructors run before `main`, alone.

## Plan

1. done: the table (`Intern`, `HashMap`, proofs); the cache (`Fifo`, `HashCache`);
   the parallel build (`RowInfo`); the enumeration and classes (`Row`, `SubrowHashed`); the combinations (`ProbeComb`);
   the diagrams and the transform (`Bdd`, `TransformGenerator`); the circuit (`Gadget`, `ParserSage`);
   the calculations (`CalcUtils`, `Wrapper`, `Leakage`); the exits and the memory (`Exit`).
2. done: the proofs about `HashMap`, `HashCache`, `RowInfo`, `Exit`, `ProbeComb`, the passes and lookups of
   `Wrapper`, and `ParserSage`.
3. Proofs that are left: `CoeffsBoundTheLeakage`, which needs all of the above together.
