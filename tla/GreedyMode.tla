----------------------------- MODULE GreedyMode -----------------------------
(***************************************************************************)
(* greedy_mode.cpp: perform the best refinement until there is none.  The  *)
(* sample the prefix tree was built from is kept, to say of the result     *)
(* what the user of the program wants of it.                               *)
(***************************************************************************)
EXTENDS Integers, SequencesExt

CONSTANTS
    Symbol, Type, None, Root,
    Inputs,    \* what a run may start from: [options, sample], the options
               \* being those of Merging by their names
    TreeOf(_)  \* the prefix tree of a sample

VARIABLES
    options,   \* the options, which do not change
    sample, m,
    best_ref,      \* the refinement that is next; None for the null pointer
    pc

vars == <<options, sample, m, best_ref, pc>>

INSTANCE Merging WITH
    EXTEND_ANY_RED     <- options.EXTEND_ANY_RED,
    MERGE_MOST_VISITED <- options.MERGE_MOST_VISITED,
    MERGE_BLUE_BLUE    <- options.MERGE_BLUE_BLUE,
    MERGE_ROOT         <- options.MERGE_ROOT,
    DEPTH_FIRST        <- options.DEPTH_FIRST,
    DFA_SIZE_BOUND     <- options.DFA_SIZE_BOUND

\* Mutant: the first refinement found.
AnyRefinement(k) ==
    LET S == PossibleRefinements(k) IN IF S = {} THEN None ELSE CHOOSE x \in S : TRUE

\* get_best_refinement
BestRefinement(k) ==
    LET S == PossibleRefinements(k) IN IF S = {} THEN None ELSE InOrder(S)[1]

Init ==
    /\ \E i \in Inputs : options = i.options /\ sample = i.sample
    /\ m = Unmerged(TreeOf(sample))
    /\ best_ref = BestRefinement(m)
    /\ pc = "loop"

Refine ==
    /\ pc = "loop" /\ best_ref # None
    /\ m' = Do(m, best_ref)
    /\ best_ref' = BestRefinement(m')
    /\ UNCHANGED <<options, sample, pc>>

Finish ==
    /\ pc = "loop" /\ best_ref = None
    /\ pc' = "done"
    /\ UNCHANGED <<options, sample, m, best_ref>>

\* The program has ended.
Stopped == pc = "done" /\ UNCHANGED vars

Next == Refine \/ Finish \/ Stopped
Spec == Init /\ [][Next]_vars

-----------------------------------------------------------------------------
(* Properties.                                                             *)

\* Where a word leads in the learned automaton.
StateAfter(w) == Find(m, StateOf(m, w))

\* The automaton classifies every trace it was learned from: the state a trace
\* leads to, however it was merged and folded, has seen final traces of that
\* type only (typeconsistent, "not merge positive states with negative ones").
SampleAccepted ==
    \A i \in 1 .. Len(sample) :
       {t \in Type : m.finals[StateAfter(sample[i].word)][t] > 0} = {sample[i].type}

\* The traces of the sample and nothing else end in the states of the automaton:
\* no count is lost or doubled by folding.
SampleCounted ==
    \A n \in m.nodes : m.rep[n] = None =>
       \A t \in Type :
          m.finals[n][t] =
             Cardinality({i \in 1 .. Len(sample) :
                            sample[i].type = t /\ StateAfter(sample[i].word) = n})

\* --extend 1: a blue state "that cannot be merged with any target (red) is
\* immediately changed into a (red) target", and with 0 "only when no more merges
\* are possible" (main.cpp:102); with --largestblue among the one that is tried.
ExtensionPolicy ==
    best_ref # None =>
       LET blues == IF options.MERGE_MOST_VISITED
                    THEN {Head(BlueSeq(m))} ELSE ToSet(BlueSeq(m))
           stuck == {b \in blues : MergeRefs(m, b) = <<>>}
       IN IF options.EXTEND_ANY_RED /\ stuck # {}
          THEN best_ref.kind = "extend" /\ best_ref.blue \in stuck
          ELSE best_ref.kind = "extend" => stuck = blues
=============================================================================
