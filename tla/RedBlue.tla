------------------------------ MODULE RedBlue ------------------------------
(***************************************************************************)
(* What the merging engine promises, without pointers: red-blue state      *)
(* merging on a partition of the prefix tree's nodes.  A state of the      *)
(* automaton is a class of the partition; the core is the set of red       *)
(* states.  Merging two states takes the least coarser partition that is   *)
(* deterministic, all at once; a merge that would put traces of different  *)
(* types in one state is not made; and refinements are undone last first,  *)
(* each restoring exactly the automaton it was made on.                    *)
(***************************************************************************)
EXTENDS Naturals, Sequences, FiniteSets

CONSTANTS Root, None, Symbol, Type, Trees, MERGE_BLUE_BLUE, MERGE_ROOT

VARIABLES
    tree,    \* the prefix tree
    part,    \* the states: disjoint non-empty sets covering tree.nodes
    core,    \* the red states
    history  \* the automata the refinements in effect were made on

abstractVars == <<tree, part, core, history>>

Successors(C, a) == {tree.child[n][a] : n \in C} \ {None}

\* The states that C reaches on a.
Reached(P, C, a) == {D \in P : D \cap Successors(C, a) # {}}

\* Two states that the same state reaches on the same symbol.
Clashes(P) ==
    UNION {{pair \in Reached(P, C, a) \X Reached(P, C, a) : pair[1] # pair[2]} :
             C \in P, a \in Symbol}

Deterministic(P) == Clashes(P) = {}

Join(P, C, D) == (P \ {C, D}) \cup {C \cup D}

\* The least deterministic partition in which C and D are one state.
MergedPartition(P, C, D) ==
    LET close[k \in 0 .. Cardinality(P)] ==
          IF k = 0 THEN Join(P, C, D)
          ELSE LET Q == close[k-1] IN
               IF Deterministic(Q) THEN Q
               ELSE LET pair == CHOOSE p \in Clashes(Q) : TRUE
                    IN Join(Q, pair[1], pair[2])
    IN close[Cardinality(P)]

TypesOf(C) == {t \in Type : \E n \in C : tree.finals[n][t] # 0}
Consistent(P) == \A C \in P : Cardinality(TypesOf(C)) <= 1

\* Blue: not red, and reached from a red state.
BlueStates ==
    {C \in part \ core : \E D \in core, a \in Symbol : Successors(D, a) \cap C # {}}

\* What blue state D may be merged with.
Targets(D) ==
    {C \in core \cup (IF MERGE_BLUE_BLUE THEN BlueStates \ {D} ELSE {}) :
       MERGE_ROOT \/ Root \notin C}

Init ==
    /\ tree \in Trees
    /\ part = {{n} : n \in tree.nodes}
    /\ core = {{Root}}
    /\ history = <<>>

Automaton == [part |-> part, core |-> core]

Merge(C, D) ==
    LET P == MergedPartition(part, C, D) IN
    /\ Consistent(P)
    /\ part' = P
    /\ core' = {E \in P : \E F \in core \cup {C} : F \subseteq E}

Extend(D) ==
    /\ core' = core \cup {D}
    /\ UNCHANGED part

Undo ==
    /\ history # <<>>
    /\ history' = SubSeq(history, 1, Len(history) - 1)
    /\ part' = history[Len(history)].part
    /\ core' = history[Len(history)].core

Refine ==
    /\ history' = Append(history, Automaton)
    /\ \E D \in BlueStates : Extend(D) \/ \E C \in Targets(D) : Merge(C, D)

Next == (Refine \/ Undo) /\ UNCHANGED tree

Spec == Init /\ [][Next]_abstractVars
=============================================================================
