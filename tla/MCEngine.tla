------------------------------ MODULE MCEngine ------------------------------
(***************************************************************************)
(* Merging as the engine of a running mode, with the options as arguments: *)
(* what the instances for TLC give the constants of Refining.              *)
(***************************************************************************)
EXTENDS Integers, SequencesExt

CONSTANTS Symbol, Type, None, Root

Default ==
    [EXTEND_ANY_RED |-> FALSE, MERGE_MOST_VISITED |-> FALSE, MERGE_BLUE_BLUE |-> FALSE,
     MERGE_ROOT |-> TRUE, DEPTH_FIRST |-> FALSE, DFA_SIZE_BOUND |-> -1]

With(o) == INSTANCE Merging WITH
    EXTEND_ANY_RED     <- o.EXTEND_ANY_RED,
    MERGE_MOST_VISITED <- o.MERGE_MOST_VISITED,
    MERGE_BLUE_BLUE    <- o.MERGE_BLUE_BLUE,
    MERGE_ROOT         <- o.MERGE_ROOT,
    DEPTH_FIRST        <- o.DEPTH_FIRST,
    DFA_SIZE_BOUND     <- o.DFA_SIZE_BOUND

Unmerged(t) == With(Default)!Unmerged(t)
PossibleRefinements(o, k) == With(o)!PossibleRefinements(k)
Passes(o, k, x) == With(o)!Passes(k, x)
Do(k, x) == With(Default)!Do(k, x)
UndoOf(k, x) == With(Default)!UndoOf(k, x)
NumRed(k) == With(Default)!NumRed(k)
FinalSize(k) == With(Default)!FinalSize(k)
Undecided(k) == Cardinality({n \in k.nodes : k.rep[n] = None /\ ~k.red[n]})

\* All that can be made and found under the options O, from the automata A (F of
\* them new) and the refinements R that were found.
RECURSIVE Explored(_, _, _, _)
Explored(O, A, F, R) ==
    LET found == UNION {PossibleRefinements(o, k) : o \in O, k \in F}
        from(S, K) ==
          UNION {{Do(k, x) : x \in {y \in S : \E o \in O : Passes(o, k, y)}} : k \in K}
        new == (from(R, F) \cup from(found \ R, A) \cup from(found, F)) \ A
    IN IF new = {} /\ found \subseteq R THEN [automata |-> A, refinements |-> R]
       ELSE Explored(O, A \cup new, new, R \cup found)

FromUnmerged(t, O) == LET k == Unmerged(t) IN Explored(O, {k}, {k}, {})
=============================================================================
