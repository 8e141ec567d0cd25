----------------------------- MODULE SearchMode -----------------------------
(***************************************************************************)
(* search_mode.cpp: best-first search over sequences of refinements.  The  *)
(* queue holds lists of refinements with a score; the program takes the    *)
(* list with the least score, changes the automaton to what the list makes *)
(* of the prefix tree, and queues one longer list per possible refinement. *)
(* In deep search the score of a list is what a greedy run from it ends    *)
(* with; the run is undone and tried again, tested anew, from the next one.*)
(*                                                                         *)
(* The lists and the references to their refinements are in SearchQueue.   *)
(* The objects of tests and greedy runs, which no list shares, are not     *)
(* counted.                                                                *)
(***************************************************************************)
EXTENDS SearchQueue, Refining

CONSTANTS
    NumRedStates(_),     \* compute_partial_score
    FinalAptaSize(_),    \* compute_global_score
    UndecidedStates(_)   \* the number of states that are not red

Scores == {"deep", "local", "global", "partial", "size"}   \* "size": none is set

\* The options are those of Merging by their names, and SCORE; they do not change.
ASSUME ScoreAssumption ==
    \A i \in Inputs : /\ i.options.SCORE \in Scores /\ Settings(i) = {i.options}
                      /\ Refinements[i] \subseteq Refinement

\* Every refinement decides a state, and no red state is lost by it; where none is
\* possible all states are red.
ASSUME SizesAssumption ==
    \A i \in Inputs :
       /\ \A k \in Automata[i] :
             /\ NumRedStates(k) \in Nat /\ FinalAptaSize(k) \in Nat /\ UndecidedStates(k) \in Nat
             /\ GetPossibleRefinements(i.options, k) = {} => FinalAptaSize(k) = NumRedStates(k)
       /\ \A k \in Automata[i], x \in Refinements[i] :
             TestRef(i.options, k, x) =>
                /\ NumRedStates(DoRef(k, x)) >= NumRedStates(k)
                /\ UndecidedStates(DoRef(k, x)) < UndecidedStates(k)

VARIABLES
    options,   \* the options
    tree,      \* the prefix tree
    m,         \* the automaton
    best,      \* best_solution
    run,       \* current_run: what is left of the last greedy run
    performed  \* greedy's refs, which hold the last one first, the other way round

vars == <<options, tree, m, current, todo, Q, refs, best, run, performed, pc>>

Score == options.SCORE

Unsolved == -1   \* best_solution before there is one

Init ==
    /\ \E i \in Inputs : options = i.options /\ tree = i.tree
    /\ m = NewApta(tree)
    /\ QueueInit
    /\ best = Unsolved /\ run = <<>> /\ performed = <<>>

-----------------------------------------------------------------------------
(* add_to_q                                                                *)

Improved(result) == IF best = Unsolved \/ result < best THEN result ELSE best

\* Mutant: the bound compares with one more than the best solution.
PruneTooMuch ==
    /\ pc = "add" /\ best # Unsolved /\ NumRedStates(m) + 1 >= best
    /\ pc' = "pop"
    /\ UNCHANGED <<options, tree, m, current, todo, Q, refs, best, run, performed>>

\* No more red states than the best solution can be of use.
Prune ==
    /\ pc = "add" /\ best # Unsolved /\ NumRedStates(m) >= best
    /\ pc' = "pop"
    /\ UNCHANGED <<options, tree, m, current, todo, Q, refs, best, run, performed>>

Hopeful == pc = "add" /\ (best = Unsolved \/ NumRedStates(m) < best)

Solution ==
    /\ Hopeful /\ GetPossibleRefinements(options, m) = {}
    /\ best' = Improved(NumRedStates(m)) /\ pc' = "pop"
    /\ UNCHANGED <<options, tree, m, current, todo, Q, refs, run, performed>>

Expand ==
    /\ Hopeful /\ GetPossibleRefinements(options, m) # {}
    /\ todo' = InOrder(GetPossibleRefinements(options, m))
    /\ Create({Append(current, x) : x \in ToSet(todo')})
    /\ pc' = "loop"
    /\ UNCHANGED <<options, tree, m, current, Q, best, run, performed>>

\* compute_score, all but deep search, in the automaton the refinement makes.
ScoreOf(k) ==
    CASE Score = "local"   -> BestRefinement(options, k).score
      [] Score = "global"  -> FinalAptaSize(k)
      [] Score = "partial" -> NumRedStates(k)
      [] OTHER             -> Len(current)

\* get_best_refinement_score uses what get_best_refinement returns, also when
\* that is the null pointer.
NullDereference == Score = "local" /\ BestRefinement(options, DoRef(m, Head(todo))) = None

Enqueue ==
    /\ pc = "loop" /\ todo # <<>> /\ Score # "deep" /\ ~NullDereference
    /\ Push(ScoreOf(DoRef(m, Head(todo))))
    /\ m' = UndoRef(DoRef(m, Head(todo)), Head(todo))
    /\ UNCHANGED <<options, tree, current, best, run, performed, pc>>

Crash ==
    /\ pc = "loop" /\ todo # <<>> /\ NullDereference
    /\ m' = DoRef(m, Head(todo)) /\ pc' = "crashed"
    /\ UNCHANGED <<options, tree, current, todo, Q, refs, best, run, performed>>

Queued ==
    /\ pc = "loop" /\ todo = <<>> /\ pc' = "pop"
    /\ UNCHANGED <<options, tree, m, current, todo, Q, refs, best, run, performed>>

-----------------------------------------------------------------------------
(* greedy(merger, depth, true), called by compute_score in deep search.    *)

StartGreedy ==
    /\ pc = "loop" /\ todo # <<>> /\ Score = "deep"
    /\ m' = DoRef(m, Head(todo)) /\ pc' = "greedy"
    /\ UNCHANGED <<options, tree, current, todo, Q, refs, best, run, performed>>

\* Mutant: the refinements of the last run are not tested again.
TopRefUntested == IF run # <<>> THEN Head(run) ELSE BestRefinement(options, m)

\* top_ref: the next refinement of the last run if it passes its test, else
\* the best one.
TopRef == IF run # <<>> /\ TestRef(options, m, Head(run)) THEN Head(run)
          ELSE BestRefinement(options, m)

GreedyStep ==
    /\ pc = "greedy" /\ TopRef # None
    /\ m' = DoRef(m, TopRef)
    /\ performed' = Append(performed, TopRef)
    /\ run' = IF run = <<>> THEN run ELSE Tail(run)
    /\ UNCHANGED <<options, tree, current, todo, Q, refs, best, pc>>

\* Mutant: greedy's refinements are undone in the order they were performed.
GreedyUndoneForward == UndoAll(m, Reverse(performed))
GreedyUndone == UndoAll(m, performed)

\* The rest of the old run is forgotten; the new run is kept for the next.
GreedyEnd ==
    /\ pc = "greedy" /\ TopRef = None
    /\ best' = Improved(FinalAptaSize(m))
    /\ m' = UndoRef(GreedyUndone, Head(todo))
    /\ run' = performed /\ performed' = <<>>
    /\ Push(FinalAptaSize(m))
    /\ pc' = "loop"
    /\ UNCHANGED <<options, tree, current>>

-----------------------------------------------------------------------------
(* run and change_refinement_list                                          *)

\* Undo the current list, last first; perform the new one.
Changed(list) == DoAll(UndoAll(m, current), list)

\* Mutant: the list that is taken stays in the queue.
ChangeRefinementListKeeps ==
    /\ pc = "pop" /\ Q # {}
    /\ \E q \in Q :
       /\ \A o \in Q : q.score <= o.score
       /\ m' = Changed(q.list)
       /\ Release(current)
       /\ current' = q.list /\ Q' = Q
    /\ pc' = "add"
    /\ UNCHANGED <<options, tree, todo, best, run, performed>>

\* Mutant: the refinements of the list that is left are not erased.
ChangeRefinementListLeaks ==
    /\ pc = "pop" /\ Q # {}
    /\ \E q \in Q :
       /\ \A o \in Q : q.score <= o.score
       /\ m' = Changed(q.list)
       /\ current' = q.list /\ Q' = Q \ {q}
    /\ pc' = "add"
    /\ UNCHANGED <<options, tree, todo, refs, best, run, performed>>

\* Which of several lists with the least score is on top of the heap is left
\* open.
ChangeRefinementList ==
    /\ pc = "pop" /\ Q # {}
    /\ \E q \in Q :
       /\ \A o \in Q : q.score <= o.score
       /\ m' = Changed(q.list)
       /\ Release(current)
       /\ current' = q.list /\ Q' = Q \ {q}
    /\ pc' = "add"
    /\ UNCHANGED <<options, tree, todo, best, run, performed>>

Finish ==
    /\ pc = "pop" /\ Q = {} /\ pc' = "done"
    /\ UNCHANGED <<options, tree, m, current, todo, Q, refs, best, run, performed>>

\* The program has ended.
Stopped == pc \in {"done", "crashed"} /\ UNCHANGED vars

Next ==
    \/ Prune \/ Solution \/ Expand
    \/ Enqueue \/ Crash \/ Queued
    \/ StartGreedy \/ GreedyStep \/ GreedyEnd
    \/ ChangeRefinementList \/ Finish \/ Stopped

Spec == Init /\ [][Next]_vars

\* The program is one thread that goes on as long as it has a next statement:
\* weak fairness of Next, which is enabled until the program stops.
Running == pc \notin {"done", "crashed"}
FairSpec == Spec /\ ([]<>~Running \/ []<><<Next>>_vars)

-----------------------------------------------------------------------------
(* Properties.                                                             *)

\* What the automaton should be made of: the current list, the refinement that
\* is being scored, and the greedy run from it.
Trail ==
    (IF pc \in {"greedy", "crashed"} THEN Append(current, Head(todo)) ELSE current) \o performed

Replay(list) == DoAll(NewApta(tree), list)
Before(list, i) == Replay(SubSeq(list, 1, i - 1))

\* After any number of switches between lists, scorings and greedy runs the
\* automaton is what the current list makes of the prefix tree: nothing that was
\* undone left a trace (change_refinement_list, add_to_q, greedy with undo).
AutomatonIsReplay == m = Replay(Trail)

\* A refinement is performed only where it passes its test, also one that a
\* greedy run made in another automaton (greedy tests it anew for that).
PerformedWhereApplicable ==
    \A i \in 1 .. Len(Trail) : TestRef(options, Before(Trail, i), Trail[i])

\* Lists are queued and dropped as SearchQueue says, where a list is expanded once
\* and a count is raised and lowered for every list that holds the refinement
\* (add_to_q, change_refinement_list).
UsesQueue == QueueSpec

\* The sequences of n refinements each of which is possible where it is performed,
\* and those that end where none is possible any more.
Sequences ==
    LET long[n \in Nat] ==
          IF n = 0 THEN {<<>>}
          ELSE UNION {{Append(w, x) : x \in GetPossibleRefinements(options, Replay(w))} :
                        w \in long[n - 1]}
    IN UNION {long[n] : n \in 0 .. UndecidedStates(NewApta(tree))}
Complete == {w \in Sequences : GetPossibleRefinements(options, Replay(w)) = {}}

\* Pruning loses nothing: when the queue is empty the best solution is as small as
\* what any sequence of possible refinements ends with, and is what one of them
\* ends with.  (A deep search, which replays old runs, may find a smaller one.)
SearchOptimal ==
    pc = "done" =>
       /\ best # Unsolved
       /\ \A w \in Complete : best <= FinalAptaSize(Replay(w))
       /\ Score # "deep" => \E w \in Complete : best = FinalAptaSize(Replay(w))

\* The search ends: every list that is queued is longer than the one it came
\* from, and a refinement is never possible again once it is performed.
SearchEnds == <>(pc \in {"done", "crashed"})
=============================================================================
