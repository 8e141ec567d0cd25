------------------------------ MODULE Merging ------------------------------
(***************************************************************************)
(* The merging routines of state_merger.cpp as functions of the automaton, *)
(* for the modes and learners that are built on them: what StateMerger     *)
(* does in many steps is one operator application here (the run "core"     *)
(* checks that they agree).  On top of them, get_possible_refinements and  *)
(* get_best_refinement.                                                    *)
(*                                                                         *)
(* An automaton m is a prefix tree (PrefixTree.tla) with two more fields,  *)
(* rep (representative) and red; its fields child, size and finals are     *)
(* those of the merged states.  Sinks are off and types are consistent, as *)
(* by default.                                                             *)
(***************************************************************************)
EXTENDS Integers, SequencesExt, RefinementSet

CONSTANTS
    Symbol, Type, None, Root,
    EXTEND_ANY_RED,     \* --extend
    MERGE_MOST_VISITED, \* --largestblue
    MERGE_BLUE_BLUE,    \* --blueblue
    MERGE_ROOT,         \* --mergeroot
    DEPTH_FIRST,        \* --shallowfirst
    DFA_SIZE_BOUND      \* --dfabound; -1 when off

\* An automaton before anything is merged: the root alone is red.
Unmerged(tree) ==
    tree @@ [rep |-> [n \in DOMAIN tree.child |-> None],
             red |-> [n \in DOMAIN tree.child |-> n = Root]]

RECURSIVE Find(_, _)
Find(m, n) == IF m.rep[n] = None THEN n ELSE Find(m, m.rep[n])

Ascending == SortedSeq(Symbol, <)
Descending == Reverse(Ascending)

-----------------------------------------------------------------------------
(* merge and undo_merge.                                                   *)

\* Mutant: the data of the right node are not added.
MergeNodesOnly(m, l, r) ==
    [m EXCEPT !.rep[r] = l, !.size[l] = @ + m.size[r]]

MergeNodes(m, l, r) ==
    [m EXCEPT !.rep[r] = l, !.size[l] = @ + m.size[r],
              !.finals[l] = [t \in Type |-> m.finals[l][t] + m.finals[r][t]]]

UndoMergeNodes(m, l, r) ==
    [m EXCEPT !.rep[r] = None, !.size[l] = @ - m.size[r],
              !.finals[l] = [t \in Type |-> m.finals[l][t] - m.finals[r][t]]]

\* Mutant: a type that was seen once does not count.
TypesConflictOften(m, l, r) ==
    \E t, u \in Type : t # u /\ m.finals[l][t] > 0 /\ m.finals[r][u] > 1

TypesConflict(m, l, r) ==
    \E t, u \in Type : t # u /\ m.finals[l][t] # 0 /\ m.finals[r][u] # 0

\* merge with evaluate, perform and test as given.  A test in progress is a
\* record [m, ok, score]: the automaton so far, whether it is consistent so
\* far, and the pairs merged so far; a merge that is forced never stops.
RECURSIVE Merge(_, _, _, _)
Merge(k, l, r, test) ==
    LET visit(j, a) ==
          LET rc == j.m.child[r][a]
              lc == j.m.child[l][a]
          IN IF rc = None \/ ~j.ok THEN j
             ELSE IF lc = None THEN [j EXCEPT !.m.child[l][a] = rc]
             ELSE IF Find(j.m, lc) = Find(j.m, rc) THEN j
             ELSE Merge(j, Find(j.m, lc), Find(j.m, rc), test)
    IN IF test /\ TypesConflict(k.m, l, r) THEN [k EXCEPT !.ok = FALSE]
       ELSE FoldLeft(visit, [k EXCEPT !.m = MergeNodes(k.m, l, r), !.score = @ + 1],
                     Ascending)

TestMerge(m, l, r) == Merge([m |-> m, ok |-> TRUE, score |-> 0], l, r, TRUE)
ForceMerge(m, l, r) == Merge([m |-> m, ok |-> TRUE, score |-> 0], l, r, FALSE).m

\* find_until(stop)
RECURSIVE FindUntil(_, _, _)
FindUntil(m, n, stop) ==
    IF m.rep[n] \in {None, stop} THEN n ELSE FindUntil(m, m.rep[n], stop)

RECURSIVE UndoMerge(_, _, _)
\* Mutant: a child that left took over stays with it.
UndoMergeKeepsChild(m, l, r) ==
    LET visit(k, a) ==
          LET rc == k.child[r][a]
              lc == k.child[l][a]
          IN IF rc = None \/ lc = None \/ lc = rc THEN k
             ELSE UndoMerge(k, Find(k, lc), FindUntil(k, rc, Find(k, lc)))
    IN IF m.rep[r] = None THEN m
       ELSE UndoMergeNodes(FoldLeft(visit, m, Descending), l, r)

UndoMerge(m, l, r) ==
    LET visit(k, a) ==
          LET rc == k.child[r][a]
              lc == k.child[l][a]
          IN IF rc = None \/ lc = None THEN k
             ELSE IF lc = rc THEN [k EXCEPT !.child[l][a] = None]
             ELSE UndoMerge(k, Find(k, lc), FindUntil(k, rc, Find(k, lc)))
    IN IF m.rep[r] = None THEN m
       ELSE UndoMergeNodes(FoldLeft(visit, m, Descending), l, r)

-----------------------------------------------------------------------------
(* The state sets, in the order the iterators yield them.                  *)

TargetsOf(m, n) ==
    SelectSeq([i \in 1 .. Len(Ascending) |-> m.child[n][Ascending[i]]],
              LAMBDA t : t # None /\ m.rep[t] = None /\ Find(m, m.source[t]) = n)

\* Breadth first from the queue, over the states in S.
RECURSIVE Walk(_, _, _)
Walk(m, S, queue) ==
    IF queue = <<>> THEN <<>>
    ELSE LET next == SelectSeq(TargetsOf(m, Head(queue)), LAMBDA t : t \in S)
         IN <<Head(queue)>> \o Walk(m, S, Tail(queue) \o next)

RedSeq(m) == Walk(m, {n \in m.nodes : m.red[n]}, <<Root>>)
StateSeq(m) == Walk(m, m.nodes, <<Root>>)

\* size_compare: --shallowfirst looks at the depth first.
Before(m, n, o) ==
    IF DEPTH_FIRST /\ Len(n) # Len(o) THEN Len(n) > Len(o)
    ELSE IF m.size[n] # m.size[o] THEN m.size[n] > m.size[o]
    ELSE m.number[n] < m.number[o]

BlueSeq(m) ==
    LET reds == RedSeq(m)
        blue == {t \in UNION {ToSet(TargetsOf(m, reds[i])) : i \in 1 .. Len(reds)} :
                   ~m.red[t]}
    IN SortedSeq(blue, LAMBDA n, o : Before(m, n, o))

\* get_final_apta_size, the global score; get_num_red_states, the partial score.
FinalSize(m) == Len(StateSeq(m))
NumRed(m) == Len(RedSeq(m))

-----------------------------------------------------------------------------
(* Refinements: [kind, red, blue, score, size], states by access trace.    *)

\* get_state_from_trace: find at every step, the raw target of the last.
RECURSIVE StateOf(_, _)
StateOf(m, trace) ==
    IF trace = Root THEN Root
    ELSE m.child[Find(m, StateOf(m, m.source[trace]))][m.symbol[trace]]

\* doref of merge and extend refinements; a blue-blue merge colours both.
Do(m, ref) ==
    LET l == StateOf(m, ref.red)
        r == StateOf(m, ref.blue)
    IN IF ref.kind = "extend" THEN [m EXCEPT !.red[l] = TRUE]
       ELSE IF m.red[l] THEN ForceMerge(m, l, r)
       ELSE ForceMerge([m EXCEPT !.red[l] = TRUE, !.red[r] = TRUE], l, r)

\* undo
UndoOf(m, ref) ==
    LET l == StateOf(m, ref.red)
        r == StateOf(m, ref.blue)
        k == UndoMerge(m, l, r)
    IN IF ref.kind = "extend" THEN [m EXCEPT !.red[l] = FALSE]
       ELSE IF k.red[r] THEN [k EXCEPT !.red[l] = FALSE, !.red[r] = FALSE]
       ELSE k

IsBlue(m, n) == n # Root /\ ~m.red[n] /\ m.red[Find(m, m.source[n])]

\* test_ref_structural
Applicable(m, ref) ==
    LET l == StateOf(m, ref.red)
        r == StateOf(m, ref.blue)
    IN /\ IsBlue(m, r) /\ m.rep[r] = None
       /\ ref.kind = "merge" => /\ l # r /\ m.rep[l] = None
                                /\ m.red[l] \/ IsBlue(m, l)

\* testref
Passes(m, ref) ==
    /\ Applicable(m, ref)
    /\ ref.kind = "merge" =>
         /\ MERGE_ROOT \/ StateOf(m, ref.red) # Root
         /\ TestMerge(m, StateOf(m, ref.red), StateOf(m, ref.blue)).ok

ExtendRef(m, b) ==
    [kind |-> "extend", red |-> b, blue |-> b, score |-> 0, size |-> m.size[b]]

\* The merges of blue state b that pass their test, in the order tried.
MergeRefs(m, b) ==
    LET lefts == RedSeq(m) \o
                 (IF MERGE_BLUE_BLUE
                  THEN SelectSeq(BlueSeq(m), LAMBDA c : c # b /\ m.size[c] # 0) ELSE <<>>)
        ref(l) == [kind |-> "merge", red |-> l, blue |-> b,
                   score |-> TestMerge(m, l, b).score, size |-> m.size[b]]
        passing == SelectSeq(lefts, LAMBDA l : (MERGE_ROOT \/ l # Root)
                                                 /\ TestMerge(m, l, b).ok)
    IN [i \in 1 .. Len(passing) |-> ref(passing[i])]

\* The loop of get_possible_refinements over the blue states that are left.
RECURSIVE Collect(_, _, _)
Collect(m, blues, S) ==
    IF blues = <<>> THEN S
    ELSE LET b == Head(blues)
             merges == MergeRefs(m, b)
             found == FoldLeft(Insert, S, merges)
         IN IF EXTEND_ANY_RED /\ merges = <<>> THEN {ExtendRef(m, b)}
            ELSE LET T == Insert(found, ExtendRef(m, b))
                 IN IF MERGE_MOST_VISITED THEN T ELSE Collect(m, Tail(blues), T)

PossibleRefinements(m) ==
    IF DFA_SIZE_BOUND # -1 /\ NumRed(m) >= DFA_SIZE_BOUND THEN {}
    ELSE Collect(m, SelectSeq(BlueSeq(m), LAMBDA b : m.size[b] # 0), {})
=============================================================================
