------------------------------ MODULE Refining ------------------------------
(***************************************************************************)
(* What the running modes need of state_merger: refinements are found in   *)
(* an automaton, performed and undone.  These are constants here, so that  *)
(* what is proved of a mode holds with every engine that satisfies the     *)
(* assumptions; the instances for TLC take those of Merging.               *)
(***************************************************************************)
EXTENDS Integers, SequencesExt, RefinementSet

CONSTANTS
    None,        \* the null pointer
    Inputs,      \* what a run may start from: [options, tree]
    Settings(_), \* for every input, what the options may become
    Automata,    \* for every input, the automata a run may make
    Refinements, \* for every input, the refinements it may find
    NewApta(_),  \* the automaton before anything is merged
    GetPossibleRefinements(_, _), \* under options
    TestRef(_, _, _),             \* under options
    DoRef(_, _),
    UndoRef(_, _)

ASSUME InputsAssumption ==
    \A i \in Inputs :
       /\ i = [options |-> i.options, tree |-> i.tree] /\ i.options \in Settings(i)
       /\ NewApta(i.tree) \in Automata[i]
       /\ \A x \in Refinements[i] : x # None /\ x.score \in Int /\ x.size \in Int

\* A refinement_set is finite and has no two refinements its order cannot tell
\* apart; what is in it has passed its test.
ASSUME PossibleAssumption ==
    \A i \in Inputs :
       LET found == Refinements[i] IN
       \A k \in Automata[i], o \in Settings(i) :
          LET S == GetPossibleRefinements(o, k) IN
          /\ IsFiniteSet(S) /\ S \subseteq found
          /\ \A x \in S : TestRef(o, k, x)
          /\ \A x, y \in S : x = y \/ Better(x, y) \/ Better(y, x)

\* A refinement that passes its test is undone exactly.
ASSUME UndoAssumption ==
    \A i \in Inputs :
       LET made == Automata[i] IN
       \A k \in made, x \in Refinements[i], o \in Settings(i) :
          TestRef(o, k, x) => DoRef(k, x) \in made /\ UndoRef(DoRef(k, x), x) = k

\* get_best_refinement
BestRefinement(o, k) ==
    LET S == GetPossibleRefinements(o, k) IN IF S = {} THEN None ELSE InOrder(S)[1]

\* The refinements of a list performed one after the other,
DoAll(k, list) ==
    LET after[i \in 0 .. Len(list)] ==
          IF i = 0 THEN k ELSE DoRef(after[i - 1], list[i])
    IN after[Len(list)]

\* and undone, the last one first.
UndoAll(k, list) ==
    LET after[i \in 0 .. Len(list)] ==
          IF i = 0 THEN k ELSE UndoRef(after[i - 1], list[Len(list) + 1 - i])
    IN after[Len(list)]
=============================================================================
