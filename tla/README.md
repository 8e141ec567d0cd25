# FlexFringe in TLA+

FlexFringe learns automata from traces by *state merging*: it builds a prefix tree (apta) of the
traces, then merges states of the tree under a consistency test and a heuristic score until no
merge is left. This directory specifies that program in TLA+, model-checks small instances with
TLC, and proves some of the results for every instance with TLAPS.

Paths below are relative to `src/source/`.

## 1. The system

| component | state it keeps | operations | hard behaviour | correct when |
|---|---|---|---|---|
| apta (`apta.h`, `apta.cpp`) | nodes, guards (transitions), union/find pointers, lists of merged nodes, counts, colours, sinks | `merge_with`, `undo_merge_with`, `find`, `find_until`, `set_child`, iterators over red, blue and all states | pointers are changed while they are walked; iterators skip merged nodes | lists, counts and iterators agree with the partition they stand for |
| merging (`state_merger.cpp`) | the refinement in progress on the C++ stack | `merge`, `undo_merge`, `test_merge`, `extend`, `perform_merge` | recursion over an automaton that becomes cyclic under it, early stops, undo of partial merges | merging is the least determinization, undo is exact, everything ends |
| splits (`state_merger.cpp`) | tails per node, performed splits | `split`, `undo_split`, `pre_split` | moves subtrees between merged nodes | split and undo are inverse |
| refinements (`refinement.cpp`) | access traces, score, size, reference count | `doref`, `undo`, `testref`, `erase` | replayed on an automaton that changed; pooled and reference counted | acts on the states it was made for; never used after it is recycled |
| evaluation (`evaluation/`) | counts per node, score of the running test | `consistent`, `update_score`, `update`, `undo` | called in the middle of merge and undo | counts are those of the merged nodes |
| mem_store | free lists of nodes, guards, tails, traces, refinements | create, delete | an object on a free list that is still used | nothing in use is on a free list |
| input (`input/`) | traces, tails, alphabet | `add_traces_to_apta`, readers, sliding windows | streaming thresholds, windows at the end of input | the tree counts every trace once |
| running modes (`running_modes/`) | lists of refinements, queue, best solution | greedy, search, stream, interactive, SAT, predict, ... | undo/redo across lists, retries, replays | every refinement is applied where it is applicable; results are the best explored |
| active learning (`active_learning/`) | observation tables, prefix trees, oracles | L\*, L#, ldot, paul, W-method | termination, closedness, counterexample processing | the hypothesis agrees with the answers |

Everything runs in one thread. Components interact by calls and shared pointers: a running mode
asks `state_merger` for refinements; `state_merger` performs merges on the apta and consults the
evaluation function at each pair of nodes; a refinement keeps access traces and finds its nodes
again through `state_merger::get_state_from_trace`. What makes the code hard to test is therefore
not interleaving but long sequences of legal calls: merges that fold cycles, tests that stop half
way, undo of nested merges, and replay of refinements made on an earlier automaton.

## 2. Modules

| module | models | |
|---|---|---|
| `PrefixTree` | the input phase | pure operators: the prefix tree of a sample |
| `Apta` | `apta_node`, `count_data` and the iterators | state and operators |
| `StateMerger` | `state_merger.cpp` merge, undo, test, extend; merge and extend refinements | extends `Apta`; one action per stretch of code between two calls |
| `RedBlue` | nothing in the code: the abstract specification | red-blue merging on partitions |
| `StateMergerCorrect` | nothing: the properties and the refinement mapping | extends `StateMerger` |
| `MergingAgrees` | nothing: what relates the engine to `Merging` | extends `StateMergerCorrect` |
| `MCStateMerger` | nothing: instances for TLC | alphabet, samples |
| `MergeRuns` | nothing: what the proofs reason about, heaps between operations and runs of one merge | extends `StateMerger` |
| `StateMergerProofs` | nothing: the types and pointers of the engine; lemmas about runs, heaps and the stack of calls | extends `MergeRuns` |
| `CorrectProofs` | nothing: theorems and proofs, lemmas about sums over sets | extends `StateMergerProofs` and `StateMergerCorrect` |
| `RedBlueProofs` | nothing: the refinement of `RedBlue`, the exactness of tests, fixed transitions | extends `CorrectProofs` |
| `Sorting`, `RefinementSet` | `refinement_set` and its order | pure operators |
| `Merging` | the same routines of `state_merger.cpp`, and `get_possible_refinements` | operators on automata: an operation is one application |
| `Refining` | what search and interactive mode need of `state_merger` | constants with assumptions; lists of refinements performed and undone |
| `MCEngine` | nothing: gives the constants of `Refining` the operators of `Merging` | options are arguments |
| `RefiningProofs` | nothing: lemmas both modes rest on | extends `Refining` |
| `GreedyMode`, `MCGreedyMode` | `greedy_mode.cpp` | instantiates `Merging` |
| `SearchQueue` | the lists of refinements of `search_mode.cpp` and their reference counts | state, operations, and the specification of what the lists may go through |
| `SearchMode`, `MCSearchMode` | `search_mode.cpp` | extends `SearchQueue` and `Refining`; instances through `MCEngine` |
| `SearchModeProofs` | nothing: theorems and proofs about the queue and the search | extends `SearchMode` and `RefiningProofs` |
| `InteractiveMode`, `MCInteractiveMode` | `interactive_mode.cpp` | extends `Refining`; instances through `MCEngine` |
| `InteractiveModeProofs` | nothing: theorems and proofs | extends `InteractiveMode` and `RefiningProofs` |
| `ReaderStrategy`, `MCReaderStrategy` | `reader_strategy.cpp` and the parts of `inputdata` and `trace` it drives | stands alone; one action per iteration of a `read` loop |
| `ReaderStrategyProofs` | nothing: theorems and their proofs | extends `ReaderStrategy` |
| `AppendTrace` | `add_trace_to_apta` on a tree that is there already | operators on the automata of `Merging` |
| `Oracle` | `dfa_sul`, `base_oracle`, breadth-first search, linear conflict search, type conflicts | operators; extends `AppendTrace` |
| `ObservationTable` | `observation_table.cpp` | state, operations, and the specification of what a table may go through |
| `LStar`, `MCLStar` | `lstar.cpp` | composes `ObservationTable` and `Oracle`; what it needs of `state_merger` are constants, in the instances those of `Merging` |
| `LStarProofs` | nothing: theorems and proofs about the table and the learner | extends `LStar` |
| `LSharp`, `MCLSharp` | `lsharp.cpp`, `find_closed_automaton` | composes `Oracle` and `Merging` |

### The engine: `Apta`, `StateMerger`

**State.** A pointer field of `apta_node` is a function from `Node`: `child` (guards), `rep`
(`representative`), `repOf` (`representative_of`), `nextMerged`, `size`, `final`, `red`, `sink`;
`finals` is `count_data::final_counts`. `heap` is the tuple of all of them. `tree` is the prefix tree the input left behind; its `source`
pointers never change without splits. Since guards carry no attribute bounds, a guard is named by
its symbol, and `guard_map`'s order is the order of the symbols.

**Control.** `merge` and `undo_merge` are recursive. A call is a frame on `stack` with the local
variables that matter (`left`, `right`, `depth`, the guards still to do, the two children found), and
`at` says where in the function it is. Every round of the loop in `find()` is a step of its own, so
that its termination is checked and not assumed.

| action | code |
|---|---|
| `TestMerge`, `TestMergeDone`, `TestMergeUndone` | `state_merger::test_merge` around its calls of `merge` and `undo_merge` |
| `MergeStop`, `MergeNodes` | the head of `merge`: early stop, inconsistency, `merge_with`, `update` |
| `MergeAdopt`, `MergeChildren`, `MergeFind`, `MergeRecurse`, `MergeReturn` | the loop of `merge` |
| `UndoSkip` ... `UndoNodes` | `undo_merge` |
| `DoMerge`, `DoMergeDone`, `UndoMerge`, `UndoMergeDone` | `merge_refinement::doref` and `undo` |
| `DoExtend`, `UndoExtend` | `extend_refinement::doref` and `undo` |

**Client.** The running modes are left open: the client tests any pair the iterators of
`get_possible_refinements` yield, performs what the last test offered, extends any blue state and undoes the last refinement in
effect. Greedy, search and interactive mode are such clients. A
test that `pre_consistent` refuses changes nothing and is no step. The guard `Applicable` in
`TestMerge` and `DoMerge` restricts nothing: `TracesResolve` checks that it always holds there.

**Abstractions.** Traces are words with a type. The data are those of `count_driven`, the
evaluation function most others extend; `inconsistency_found` and `num_merges` are `eval`. The options
not modelled keep their defaults (no attributes, hence no splits; no Markovian, k-tail-identity,
local or star-free filter; no lower bound; no depth or symbol check; `STORE_ACCESS_STRINGS` on).
`before` is a history variable: the heap when the operation in progress started.

**Abstract specification.** `RedBlue` knows a partition of the tree's nodes, a core of red classes and a history of both.
`Merge` replaces the partition by the least deterministic one that joins two classes, all at once, if
it mixes no types; `Extend` adds a blue class to the core; `Undo` goes back one step. The mapping in `StateMergerCorrect`
reads the partition off the representatives of the heap as it was when the
operation in progress started, so an operation takes effect when it finishes, except that undoing a merge does so when it starts.

### The running modes: `Merging`, `Refining`, `GreedyMode`, `SearchMode`, `InteractiveMode`

`Merging` has the engine's routines again, as recursive operators from automata to automata: what
`StateMerger` does in many steps is one application here. The property `AgreesWithMerging` of run
`core` checks that they agree on every test, merge, extension and undo the engine does, which
is what allows the modes to be modelled with them. `Merging` declares the options as CONSTANTS;
`GreedyMode` and `MCEngine` instantiate it with the fields of a record, so that one run covers several sets of options and
`set` can change them in interactive mode. A refinement is a record of two tree nodes, which stand for their access traces, a score and
a size, and a `refinement_set` loses what its comparison cannot tell apart (`Insert`).

| action | code |
|---|---|
| `GreedyMode`: `Refine`, `Finish` | the loop of `greedy_mode::run` |
| `SearchMode`: `Prune`, `Solution`, `Expand`, `Enqueue`, `Queued` | `add_to_q`; `Crash` is the null pointer of `get_best_refinement_score` |
| `StartGreedy`, `GreedyStep`, `GreedyEnd` | `greedy`, called by `compute_score` in deep search |
| `ChangeRefinementList`, `Finish` | `change_refinement_list` and the loop of `search_mode::run` |
| `InteractiveMode`: `Undo`, `Restart`, `Set`, `Other`, `Number`, `Leap` | the commands, each with the rest of the loop's body (`Perform`); `Crash` is undo with nothing in effect and `leap` without a number |

`SearchMode` and `InteractiveMode` see the engine as `Refining` declares it: finding, testing, performing and undoing
refinements are constant operators, of which `Refining` assumes what the modes rely on. The three assumptions are
that a refinement set is finite, ordered, and holds only refinements that pass their test (`PossibleAssumption`); that a
refinement that passes its test is undone exactly (`UndoAssumption`), for the engine the theorem `UndoIsExact`; and, for the search, that a
refinement leaves fewer states undecided and no fewer red, and that all states are red where nothing is possible
(`SizesAssumption`). `MCEngine` gives the constants the operators of `Merging`, and explores all automata and refinements that
can come up from each sample of the run; TLC evaluates the assumptions on all of them before it explores the mode.

`SearchQueue` keeps the list in use, the queue, what `add_to_q` still has to queue, and the reference counts. Besides the operations
of the code (`Create`, `Share`, `Push`, `Release`) it has `QueueSpec`: whatever new refinements are possible, whatever
score a list gets, and whether or not a list is pruned or a score crashes. `SearchMode` implements it (`UsesQueue`), so what is proved of `QueueSpec`
holds of the search.

Abstractions. Sinks are off and types are consistent, the default. A refinement object made by `add_to_q` is
named by the list it ends, since it is made once, when the list is; objects of tests and greedy runs are not counted, and `testref`'s update of
the score of a refinement is left out, since nothing reads it afterwards. Which of
several lists with the least score is on top of the heap is left open. `--searchsinks`, output
and the dead variables of interactive mode are not modelled.

### Reading: `ReaderStrategy`

A parser is the sequence of its symbols, each with the id of its trace. Traces are shared by reference between the map of a
strategy and `inputdata`, so they live in a heap; a trace is all tails ever put on it and the position of its head, because
`pop_front` only moves the head. `read_all` returns its traces in the order of an unordered map, so in any; `inputdata::read`
sorts them afterwards (`Sorted`, from the set of its traces, none of which is there twice). A null head that `finalize` would dereference, and a `map::at` that throws, are the state "crashed".

| action | code |
|---|---|
| `ConsumeSymbol`, `ListTraces`, `ReadListed`, `AllListed` | `read_all` in `inputdata::read` |
| `InOrderSymbol`, `InOrderLast`, `InOrderEnd` | `in_order` |
| `SentinelSymbol`, `SentinelEnd` | `sentinel_symbol` |
| `WindowSymbol`, `WindowEnd` | `slidingwindow` in `inputdata::read_slidingwindow` |

Types of traces and windows, attributes and tail indexes are left out.

### Active learning: `ObservationTable`, `Oracle`, `LStar`, `LSharp`

A system under learning is a record of a transition function, in which transitions may be missing, and the types of its states.
`Oracle!Answer` is what `dfa_sul` says, -1 where the word leaves the system. The hypothesis is the merged apta; it is an
automaton of `Merging` whose functions are defined on the nodes there are, so that `AppendTrace` can add some. The search for
test words is the state `searched`, the last word that was tried: its `reset` changes nothing.

`ObservationTable` keeps both tables as functions from rows to entries. Besides the operations, one step each, it has
`TableSpec`: any order of filling, checking, splitting by any word and extending, where the table is asked whether it is closed
only when it is complete. `LStar` implements it (`UsesTable`), so what is proved of `TableSpec` holds of the learner.

| action | code |
|---|---|
| `Fill` | the loop over incomplete rows, with `has_record`, `insert_record`, `mark_row_complete` |
| `NotClosed`, `Closed` | `is_closed`, which also moves rows; `construct_automaton_from_table` up to `minimize_apta` |
| `Extend` | `extend_lower_table` |
| `Minimize`, `Minimized` | `minimize_apta` |
| `Query`, `FoundConsistent` | one word of `equivalence_query`; the counterexample it finds undoes the refinements and extends the columns |
| `Redo` | the last round: the refinements of the last hypothesis are performed again |

In `LSharp` the blue states of an iteration are taken in any order, since their set is hashed by address.

| action | code |
|---|---|
| `Iterate`, `MergeBest`, `Identify`, `Complete` | `find_complete_base`; `Identify` undoes everything, grows the tree and performs everything again |
| `Close`, `MergeBest`, `CloseExtend`, `CloseForced` | `find_closed_automaton` |
| `Pose` | the bound on states |
| `Query`, `FoundConsistent` | one word of `equivalence_query`, and `proc_counterex` |

A node keeps a guard whose target a test has taken back, and then counts as one with children: `MergeBest` is possible for
every blue state in `find_closed_automaton`, `CloseForced` only for those without a transition.

## 3. Runs

| run | options | checks |
|---|---|---|
| `core` | defaults and `--blueblue 1`, fairness | `TypeOK`, `MergedListsExact`, `CountsConserved`, `AssertionsHold`, `TransitionsCoverClass`, `IteratorsComplete`, `NonRedAreTrees`, `TracesResolve`, `TestExact`, `ImplementsRedBlue`, `AgreesWithMerging`, `OperationsEnd` |
| `fixed_sinks` | `--redfixed 1 --sinkson 1 --sinkcount 2 --mergesinks 1 --mergeroot 0` | `FixedTransitions`, `SinksInherited`, `RootKept` |
| `ktails` | `--ktail 0 --kstate 2` | `UndoExact` |
| `notest` | `--testmerge 0`, fairness | `OperationsEnd` |
| `search` | every score, deep search with and without `--blueblue 1`; one run with `--searchpartial --extend 1 --largestblue 1 --shallowfirst 1 --mergeroot 0`; fairness | `AutomatonIsReplay`, `ReferencesExact`, `PerformedWhereApplicable`, `SearchOptimal`, `SearchEnds`, `UsesQueue` |
| `greedy` | defaults; `--extend 1 --shallowfirst 1`; `--blueblue 1 --largestblue 1 --mergeroot 0`; `--blueblue 1 --dfabound 2` | `SampleAccepted`, `SampleCounted`, `ExtensionPolicy` |
| `interactive` | defaults, `--blueblue` set and reset by the user | `AutomatonIsReplay` |
| `numbers` | as `interactive` | `MergesByNumber`, violated: see findings |
| `reader` | every strategy, every window of at most three symbols | `ReadExact`, `NeverCrashes` |
| `lstar` | with and without `AL_TEST_EMTPY_STRING`, 2 and 20 rounds, `--extend 1` | `ClosedHypothesis`, `HypothesisAgrees`, `CounterexamplesUsed`, `UsesTable`, `AnswersExactly`, `EveryStepAdvances` |
| `consistent` | as `lstar` | `ConsistentFound`, violated: see findings |
| `lsharp` | no bound on states, and a bound of 2; `--extend 1`; fairness | `UndoneIsObservationTree`, `RedoneIsApplicable`, `HypothesisComplete`, `Ends` |

**Bounds.** The alphabet has two symbols and there are two types.
- `core` has `--blueblue 1` because this offers every merge the defaults offer, and merges of two blue states besides (`MergeTargets`).
- Engine runs: at most six samples per run, of two or three traces of length at most four. Nothing else is bounded: every sequence of tests,
  merges, extensions and undos is explored. The samples are chosen for their shapes: a chain (a merge folds a loop onto itself), a
  comb with equal suffixes (folding merges and takes over children), a balanced tree, a longer chain
  (loops folded into loops), three branches with different suffixes. Every action fires, including the
  inconsistent test half way through a fold, and merged nodes are merged again.
- `greedy`: every sample of at most three labelled words of length at most three (`MAX_TRACES`, `MAX_LENGTH`), under each of the options.
- Search runs: samples on which the first solution is not the smallest, on which lists tie, and one on which
  a greedy run is replayed where its targets are still blue. Scores other than `global` and `deep` get the smaller samples, because ties are explored in every order.
- `interactive`: three samples, every command at every prompt, numbers 0 to 2, leaps of 1 and 2. Step and countdown
  stay finite by themselves, since at most as many refinements are in effect as the tree has states.
- `reader`: every input of at most `MAX_SYMBOLS` = 5 symbols of two traces: two windows of size three with stride one, an
  interrupted trace that is taken up again, and sentinels before, between and after.
- `lstar`: every system of at most two states, complete or not, with words of length at most 4 (`AL_MAX_SEARCH_DEPTH`). The
  table needs up to three counterexamples for these; 20 rounds are more than any of them takes, two end in the middle.
- `lsharp`: every system of at most two states, with states numbered in breadth-first order, and six larger ones of three and four
  states, chosen because merges are made there that a later answer refutes. Search depth 5. The four properties also held on random
  samples of systems with three and four states (1.6 million states), too slow to be kept as a run.

**Fairness.** The program is one thread: what was called runs on. `StateMerger!FairSpec` assumes weak fairness of `Engine`
only and nothing of the client. `SearchMode!FairSpec` assumes it of `Next` while the program runs; it is
written with `[]<><<Next>>_vars`, which is the same, because `Next` is enabled until the program stops and each of its steps
changes the state, and which does not make TLC evaluate ENABLED. `LSharp!FairSpec` says the same of its own thread. `LStar` needs
none: `EveryStepAdvances` names a measure that every step improves.

## 4. Theorems

`StateMergerProofs` proves, for all values of the constants that satisfy `AptaAssumption`, `TreesAssumption` and `ParametersAssumption`:

- `TypeCorrect`: `Spec => []TypeOK`. Inductive by itself together with the shape of `Call`, since the
  snapshots in `done` and `before` are heaps.
- `RootIsKept`: `Spec => []RootKept`. `RootKept` alone is not inductive: a fold could reach the root. The
  strengthening `RootInv` says that no guard and no frame's child is the root and that a merge in progress does not
  have the root on its left; it needs that guards of the prefix tree never lead to the root (`IsPrefixTree`).
- `RepresentativesAcyclic`: `Spec => []Acyclic`. The strengthening relates the frames of calls in progress
  to the representatives: the left node of a merge is unmerged and different from the right one when `merge_with` is called, so a
  new pointer leads out of any set that could have closed a cycle.

`CorrectProofs` proves, under the same assumptions, that the engine is correct between operations and in the middle of them:

| theorem | states |
|---|---|
| `UndoIsExact` | `Spec => UndoExact` |
| `AssertionsNeverFail` | `Spec => []AssertionsHold` |
| `TransitionsAlwaysCover` | `Spec => []TransitionsCoverClass` |
| `IteratorsAlwaysComplete` | `Spec => []IteratorsComplete` |
| `NonRedAlwaysTrees` | `Spec => []NonRedAreTrees` |
| `TracesAlwaysResolve` | `Spec => []TracesResolve` |
| `CountsAlwaysConserved` | `Spec => []CountsConserved` |
| `ListsAlwaysExact` | `Spec => []MergedListsExact` |
| `SinksStayInherited` | `~MERGE_BLUE_BLUE => (Spec => []SinksInherited)` |

All but the last three follow from `EngineCorrect`, `Spec => [](TypeOK /\ Inv)`, alone. The argument has four parts.

1. *The heap between operations* (`IdleHeap` in `MergeRuns`). Representatives are well founded; a guard of a state leads to a node of the
   right symbol whose source is in that state, and to a merged node only from red to red (`GuardsLead`); every node is found
   where the guards say it is (`NodesFound`); a red state has a red parent; states hang below the root (`StatesHang`:
   no recursion over a path is needed, every set of states has one whose parent is outside). It also shows
   that colouring blue states and merging two states leave such a heap.
2. *A merge as a run.* A run is a heap, two states and whether the merge may stop early, which only a test does. Its configurations
   (`Reach`) are what any engine that joins and adopts in the order of `merge` comes through, without the `find()` loops
   in between. `Sound` is the invariant of a run: what is merged away is, all the time, the upper part of the tree of states below the right
   state; it was merged into states outside; the guards of what is still to come are as they were. It is needed
   because guards of the left side change while the recursion is under way, and with a loop folded the left node of an inner call may be
   that of an outer one. That a run comes to its end with nothing left out (`fresh` empty) gives the heap after the merge.
3. *The stack as a position in a run* (`Merging`, `Undoing`). A stack of calls of `merge` stands at a configuration if each frame is one of
   its calls and its remaining symbols are those the configuration has to do; `undo_merge` stands at one if its symbols are those the
   configuration is past. Each step of `merge` leads to the same or a later configuration, each step of `undo_merge` to the same
   or an earlier one. Since every configuration but the first comes from exactly one, and undoing a join or an adoption gives
   back the heap before it, undo retraces the run: exactness is not proved by comparing the heap with the old one field by field, but because
   both are the start of the same run. A test that stopped half way is one more configuration.
4. *The refinements in effect* (`Effects`). Each heap in `done` is idle, and the next one, or the heap of now, is what the
   refinement makes of it. So the heap under an undo is the end of a run that starts on the heap the refinement was done on.

`SinksStayInherited` needs one invariant more, `SinksOK`: the property holds of the heap as it is between operations and of every heap in `done`, and what is
tested, offered or performed is merged into a red state. A run into a red state colours nothing, and red states hang below red ones, outside what is
merged away, so the configurations of the run have it because the heap it started on does (`RunSinks`); an undone refinement leaves a heap
that is in `done`. It is the one theorem of these with a condition on the options: with `--blueblue` and sinks, a merge of two blue states first colours both, and the right one has no sink
until it is merged away, so the property does not hold in the middle of the operation. Run `fixed_sinks` checks it without `--blueblue`.

`CountsAlwaysConserved` and `ListsAlwaysExact` add `LawsOK`: what the two properties say of the heap (`CountsLaw`, `ListsLaw`) holds of the heap between operations and of
every heap in `done`. A join makes one class of two that are disjoint, so the counts of its left node are the sums over both (`JoinBelow`, `JoinSums`, `JoinKeepsCounts`), and puts
the right node in front of the left one's list (`JoinLists`); adoptions and colours change neither. So every configuration of a run has both laws
(`RunLaw`). Subtraction and the removal of a list's head are never reasoned about: where undo has come to is a configuration of the
run, which an earlier merge came through. What `SumOver` and `MergedList` compute is got from their recursive equations: a sum over a finite set
does not depend on the order of its elements (`SumTakes`) and adds up over a union (`SumOfUnion`), and as many steps as there are nodes come to the end of
a list that visits no node twice (`MergedListWhole`).

The other theorems hold for every setting of the options, tests that only look (`--testmerge 0`) and sinks included. `TreesAssumption` is what the
input phase guarantees: finitely many nodes, `child` and `source` inverse to each other, `source` well founded. TLC evaluates it in every
run of the engine. The library's induction theorems cannot be used; where a proof would recurse over trees, lists or sets, well-foundedness is "every nonempty set has a
member whose pointer leaves it", and what holds of all follows from the set of those of which it does not.

`RedBlueProofs` proves what the merges mean, that the engine implements the abstract specification, that a test answers what it should, and that it protects what is fixed:

- `EngineImplementsRedBlue`: `Exhaustive => (Spec => ImplementsRedBlue)`. `Exhaustive` are the options under which the engine is meant to implement
  `RedBlue`: tests merge (`--testmerge 1`), to the end and not only to a depth or a count (`KTAIL`, `KSTATE` -1), with the data and
  consistent types, on traces that give no node of the tree two types. A test that stops earlier lets merges through that mix types, and
  `RedBlue` forbids those. Runs `core` and `fixed_sinks` are of this kind.
- `TestsExact`: `Exact => (Spec => []TestExact)`, where `Exact` adds to this that no transitions are fixed (`RED_FIXED` and `ALL_FIXED` off): a fixed
  transition makes a test fail although no types conflict. Run `core` is of this kind.
- `FixedTransitionsStay`: `Complete => (Spec => FixedTransitions)`, where `Complete` asks only that tests merge, and to the end; data, types and all other
  options are arbitrary. A test that stops early has not seen all adoptions of the merge it lets through. Run `fixed_sinks`, which checks
  `FixedTransitions`, is of this kind.

The first rests on a characterisation of runs. A *congruence* is an equivalence on the nodes that is closed under the transitions of
the tree. A run joins two nodes only when every congruence that is coarser than the heap and joins the two states it started
with joins them (`AgreesRun`); and what it ends with is such a congruence (`RunPartition`). So the partition at the end of a run is the least one (`RunLeast`),
and so is `RedBlue!MergedPartition` (`MergedIsLeast`): the order of the recursion, the `find()` loops, cycles folded and
the colours do not matter. That the merge may be made at all is known since the test: the invariant `OffersOK` carries from the test, by the refinement it offers, to the merge
that a congruence without two types in a class exists that joins the two (`Known`). A passed test has found one, its own partition at its end (`TestedFound`).
An operation takes effect in the abstract history when it finishes, the undo of a merge when it starts, and the history is that of `done` (`Recorded`).

The second needs the converse: if the test fails, none exists. The invariant `TestOK` says it from the moment the test stops (`Broken`)
until it has returned from all its calls. The two nodes whose types conflict are joined by every congruence
that joins the two states (`PairForced`), hence none can be free of conflicts (`ConflictRefutes`); a consistent `MergedPartition` would be one (`ConsistentKnown`).
For the score, `num_merges` and the states left add up to the states there were, at every moment of the test.

The third compares two runs from the same heap, that of the test and that of the merge it lets through. The test fails where a state whose transitions are
fixed would adopt one, so in a test that has passed the fixed states are as they were, and every call behind the first has on its left already what the right
state has (`Follows`, `AllServed`); the invariant `FixedOK` keeps that an offer has such a run behind it (`Passed`). Both runs end in the same, least
partition (`EndPartition`). So where the merge makes a fixed state adopt a guard, the node the guard leads to has its source in the class of that state at the end of the test as well,
and the state has the guard there (`NodesFound`): it must have had it before (`NoneAdded`). This needs that the state has not itself been merged away
in the test. Only a state of the right-hand tree could be, and of those only fixed ones matter: they are not red, so all transitions
are fixed, and then the test leaves none of that tree (`BlockMerged`), and the merge, which has the same classes, could not have kept one.

`LStarProofs` proves of the table `IsClosedIsExact`: `TableSpec => AnswersExactly`, for every alphabet and whatever is answered
and found. The danger is the set of hashed rows, from which nothing is ever removed. The invariant `TableInv` says that a hashed
entry is what some row that is in the upper table today was once, that is, today's entries restricted to fewer columns, and that every complete row has all columns but
that of the empty word in the empty row. A lower row that equals a hashed entry therefore has the columns of today, and the row
it was hashed from has them too, so it has not changed since and equals it. The empty row is the only complete row
without an entry for the empty column, so what was hashed for it equals no other one.

Of the learner it proves, for every alphabet of consecutive symbols (`AlphabetAssumption`), every set of systems and *any* merging routines:

| theorem | states |
|---|---|
| `LStarUsesTable` | `Spec => UsesTable`: L\* implements `TableSpec` |
| `LStarAnswersExactly` | `Spec => AnswersExactly`, from `LStarUsesTable` and `IsClosedIsExact` |
| `HypothesesFromClosed` | `Spec => []ClosedHypothesis` |
| `LStarAdvances` | `Spec /\ RefinementsDecide => EveryStepAdvances` |

The invariant is `LearnerInv`: `TableInv`, no entry missing while the table is checked and until it changes again, every extension of an upper row a row except between moving
rows and extending them, and fewer rounds than may be run while it goes on. Each step is a step of the table or leaves it alone (`StepUsesTable`): the answers fill it
as any answers do (`FillIsFilling`), and a counterexample is a word whose prefixes, itself among them, are columns afterwards (`ExtentIsSplitting`). That it is one needs that the
search comes up with a non-empty word every time (`NextWordGrows`), and that a word with a conflict has a shortest prefix with one (`ConflictFound`). A table that is
found closed has no row that was hashed away in an earlier round (`FoundClosed`), which is what `TableInv` is for. `RefinementsDecide`, the hypothesis of the last theorem, is all it needs of the merging
routines: that a refinement leaves fewer states undecided. The run `lstar` checks it as a part of `EveryStepAdvances`.

`ReaderStrategyProofs` proves `NoCrash`: `Spec => []NeverCrashes`, and `ReadsExactly`: `Spec => []ReadExact`, for every set of ids and symbols and every set of inputs that satisfies
`InputsAssumption` (the constructor's bounds on the stride; an empty line is the only symbol of its trace). `SymbolsAssumption` says that empty lines,
final tails and sentinels are no ordinary symbols.

What is not inductive of `NeverCrashes` is that a window finds its tails: the lengths and heads
of traces change for other reasons too. The invariant `ReaderInv` says that, while the stride is smaller than the window, every trace has a
head and at least as many tails behind it as it counts (`AllWhole`), so that taking a stride off a trace as long as the window
leaves it one; that a sentinel strategy has a trace for every id it has read a symbol of, where the input read so far is
recovered from what is left of it (`InputIsRest`); and that `last_id` has a trace. A sentinel without one is the first
symbol of its id, and `SentinelsDelimit` says that another one comes before it.

`ReadExact` compares what was handed out with what the input promises. The positions at which a strategy promises a trace (`Ends`) in their order give
each a number (`Rank`); `Handed(traces, heap, x)` says that the traces promised for the first `x` symbols, and only those, have been handed out, each as
promised and closed with one final tail. Since the traces are shared, this has to survive what is done to the heap afterwards: the map of a strategy
leads every id to a trace of its own (`MapIs`), and no trace that is still appended to is among those handed out. The invariant is `ExactInv`, one part per strategy on top of `ReaderInv`:
- `ReadAllExact`: the trace of every id holds the symbols of the id so far (`OpenWith`), and the heap has them in the order of their first symbols (`FirstsIn`).
  The list `read_all` returns is in any order; sorted by sequence number it is the order of the heap (`SortedByKey`, `SortedIs`).
- `InOrderExact`: there is one trace that is being read (`BeingRead`), with the symbols since another id was read (`Block`); all earlier blocks are handed out.
- `SentinelExact`: the trace of every id without a sentinel so far waits with all its symbols (`Waiting`); nothing of an id follows its sentinel.
- `WindowExact`: the number of symbols read of a trace is as many strides as windows were taken from it, plus its length, which from the second window
  on is at least size less stride (`Slides`); so its length reaches the size exactly where a window is promised (`WindowEnds`), and its open
  part holds the last symbols. A window that is taken is a trace of its own, which nothing changes later.

`SearchModeProofs` proves of the queue `ReferencesAlwaysExact`: `QueueSpec => []ReferencesExact`, and `HeldIsAlive`: `QueueSpec => []NothingRecycled`, for every
set of refinements. Lists share what they start with, each by a count of its own, so the counts are right
only if no list is queued twice and what is new is new. The invariant `QueueInv` says that a list that is known is known with all the lists it continues
(`PrefixesMade`), and that what is queued, or still to be queued, is there once and was not expanded yet (`ExpandedOnce`): nothing known
continues it. So when a list is expanded its continuations are new, and expanding it once uses it up, since it leaves the queue
for that. The counts follow step by step: a list that is queued is one record more for what it shares with the current one, and takes over
the reference of the refinement it ends with; a list that is taken is one record less, and becomes the current one. A
refinement in a list that may still be performed or undone then has at least one reference (`NothingRecycled`).

Of the search itself it proves, for all inputs and every engine that satisfies `InputsAssumption`, `PossibleAssumption`, `UndoAssumption`,
`ScoreAssumption` and `SizesAssumption`:

| theorem | states |
|---|---|
| `SearchIsReplay` | `Spec => []AutomatonIsReplay` |
| `SearchPerformsWhatPasses` | `Spec => []PerformedWhereApplicable` |
| `SearchFindsSmallest` | `Spec => []SearchOptimal` |
| `SearchUsesQueue` | `Spec => UsesQueue` |
| `SearchCountsReferences` | `Spec => []ReferencesExact`, from `SearchUsesQueue` and `ReferencesAlwaysExact` |

The invariant is `SearchInv`. What is in effect (`Trail`: the current list, the refinement being scored, the greedy run from it)
is `Performable`: each refinement passes its test in the automaton the ones before it make; and the automaton is what they make (`TrailPerformed`).
So whatever is undone was performed where it passed, and `UndoneExactly` leads back, one list at a time. The queued lists are `Attempted`:
each refinement was *possible* where it was performed. That is why a list taken from the queue, long after it was made, can be performed without
a test. For `SearchOptimal` every sequence that can be completed is *pending* (`NothingLost`): it begins with a list that is queued, to be queued, or about to be
expanded; or the best solution is as good. Expanding a list keeps its sequences pending, since each goes on with one of the possible refinements
(`CompletedFromHere`); pruning gives up those that begin with the current list, none of which ends with fewer red states than that list has (`AttemptedSizes`). When the queue is
empty nothing is pending; and some sequence can be completed (`SomeCompleted`), since states that are not decided run out. `Sequences`, which the property
quantifies over, is shown to hold exactly the attempted lists: none is longer than there are states to decide (`SequencesAreAttempted`).

`InteractiveModeProofs` proves `InteractiveIsReplay`: `Spec => []AutomatonIsReplay`, and `InteractivePerformsWhatPasses`: `Spec => []InEffect`, under `LinesAssumption` and the assumptions of
`Refining`. The options may change between a refinement and its undo, so the invariant `InEffect` says of every refinement that it passed its
test under *some* options the run may come to (`Performable`); that is enough for `UndoAssumption`, since `undo` does not read the options.

`RefiningProofs` has what both rest on: `DoAll` and `UndoAll` are what their equations say (`DoAllStep`, `UndoAllStep`), a list is undone exactly from its end (`UndoneExactly`), and
`InOrder` lists a refinement set without loss or repetition (`InOrderIsOrder`). Induction over lists goes by the least length at which a property fails (`SequencesByFront`).

These theorems are conditional on the engine: that `Merging` satisfies the assumptions is checked by TLC on the instances of the runs, and not
proved, because `Merging` is written with RECURSIVE operators. With it greedy mode and L# stay with TLC.

Only model-checked:
- Liveness: `OperationsEnd`, `SearchEnds`, `Ends`.
- That the hypotheses of L\* agree with what was answered (`HypothesisAgrees`, `CounterexamplesUsed`): this is about what merging does to predictions. Greedy mode and L#.
- That the engine of the modes is as `Refining` assumes, on every automaton and refinement that can come up in the instances.

## 5. Findings

- `consistent`: L\* with `AL_TEST_EMTPY_STRING` prints "Found consistent automaton" (`lstar.cpp:134`) for one that is wrong on a word
  its search has tried. `equivalence_query` (`base_oracle.cpp:82`) promises a "Counterexample if not equivalent, else nullopt"
  (79). A word conflicts; the shortest prefix that conflicts is the empty word, so that is the counterexample. L\* never asks for
  the empty word (`lstar.cpp:108`) and adds no column for it, so the next hypothesis is the same; and the search goes on behind the word that
  conflicted (`cex_search_strategy->reset()` at 86 leaves the breadth-first search where it is). That word is never tried again.
- `numbers`: the help text of interactive mode says "<int> merges the <int>th merge from the proposed list" (`interactive_mode.cpp:149`).
  Counting through the list starts at 0 at the first prompt (45) and at 1 from then on (179), so the first number typed merges the refinement behind the one it
  names, or the best one if it names the last; the same number typed at a later prompt merges the one it names.

Seen while modelling, not the subject of a run:
- `--redfixed` (`main.cpp:106`) promises "Merges with red states will also not modify any of the counts
  used in evaluation functions". `merge` updates the data of the left state whatever its colour (`state_merger.cpp:225`).
- `get_best_refinement` "returns 0 if none exists" (`state_merger.cpp:1024`); `get_best_refinement_score` reads the
  score of what it returned (1042). `--searchlocal` calls it in the automaton each new refinement makes, hence also when that was the last one: `SearchMode!Crash`.
- Deep search replays the merges of the last greedy run if they pass `testref`, and the structural test accepts a left
  state that is blue (`refinement.cpp:211`). So blue states are merged with each other although `--blueblue` is off (`main.cpp:105`).
- `get_possible_refinements` "returns all refinements" (`state_merger.cpp:909`), into a set whose order compares score and size
  only (`refinement.h:171`): of two refinements equal in both, the second is dropped.
- `find_closed_automaton` forces the last merges "with the red node that introduces minimal error" (`common_functions.cpp:258`), and L#
  passes it `evidence_driven::get_score` (`edsm.cpp:37`), which counts agreements: the merge that agrees least is made. In a system
  with missing transitions the hypothesis may then be wrong on words already answered.
- L# performs its refinements again on the tree that has grown since they were tested (`lsharp.cpp:164`), without testing them
  again. They always apply (`RedoneIsApplicable`), but from four states on a hypothesis may contradict an answer in the tree, and
  the states of the basis can outnumber those of the system.
- A sliding window whose stride equals its size, which the constructor accepts, loses its whole trace with the first window; when the trace has grown
  to the size again `finalize` reads a null pointer (`trace.cpp:142`). `--swaddshorter` is read from the command line and used nowhere.
- A `sentinel_symbol` strategy keeps the traces it has handed out (`reader_strategy.cpp:53`): what follows the sentinel is appended to the same trace, behind its final tail.
- `lstar_algorithm::run` never calls `oracle->initialize`, which `lsharp_algorithm::run` does.
- `size_compare` puts the deepest state first (`apta.h:434`); the help of `--shallowfirst` says "most shallow (smallest depth) first".
- In interactive mode `leap n`, "automatically do the next n steps" (`interactive_mode.cpp:94`), does one step and asks again.
- `stream_mode::initialize` is empty (`stream_mode.cpp:43`), so `eval` and `merger` are null when `run` uses them. A model
  of the mode starts where `greedy_mode::initialize` ends.
- `is_tree_identical` (`dfa_properties.cpp:41`) looks at the right node's transitions twice and never at the left one's alone.

## 6. Plan

Done: the engine with its abstract specification, three of the running modes, reading, and the two learners. What could follow, in this order:

1. `MemStore`: free lists of refinements, traces and tails; nothing on a free list is reachable.
2. `Splits`: split and undo_split over tails with one ordered attribute; undo is exact also across merges.
3. `SATEncoding`: the clauses as a predicate over small automata; every model of them is a consistent automaton that extends the red core, and every such automaton is a model.
4. `StreamMode`, once the mode starts: batches, retries, queues of refinements; over `Merging` and `AppendTrace`.
5. `DfaProperties`, the selection strategies, prediction: operators checked against definitions.

Proofs: every safety property of the engine, the observation table, search mode, interactive mode and the readers is proved, and those of L\* that do not depend on merging. What could follow is the rest for greedy mode and the learners, over
an engine given by its assumptions as in `Refining`: that the observation tree of L# is what was asked for (`UndoneIsObservationTree`), that a greedy run ends with an automaton that accepts its sample (`SampleAccepted`).

## 7. Not modelled, and why

- Stream mode: `stream_mode::initialize` is empty (`stream_mode.cpp:43`), so `run` uses the null pointers `eval` and `merger` in its first
  statements. No state behind that is reachable, and a model of what was meant would not be one of this code.
- Splits on attribute values: they need tails and real-valued attributes in every node, which nothing else modelled uses.
- Free lists (`mem_store`): reference counts are modelled where objects are shared (`SearchQueue`); the lists need every pointer of the program.
- SAT mode: the solver is an external process. The ensemble, predict, differencing, regex and subgraph modes: sequential
  traversals of a finished automaton and output. `dfa_properties`, the conflict graph, the regex builder: used by those only.
- The selection strategies: they read the node-to-refinement map, into which extensions are never put.
- The variants of L# (weighted, probabilistic), ldot, paul, L\* imat, distinguishing sequences, overlap fill: they decide on real-valued
  outputs of neural networks or databases. The W-method and random search for test words: the learners see only a sequence of words, of
  which breadth-first search is the one that is complete.
- Parsers, output, parameters and the command line (text and I/O); statistical evaluation functions (real-valued scores over the interface
  `count_driven` stands for); databases, neural networks and Python interfaces (external); vendored and deprecated code; the Markovian, k-tail-identity, local and
  star-free filters, the lower bound and the depth and symbol checks of `test_merge` (off by default; they only make a test refuse more).

`PROJECT.json` lists every component with its status and the hazards with the properties that cover them.
