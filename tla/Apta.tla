-------------------------------- MODULE Apta --------------------------------
(***************************************************************************)
(* The augmented prefix tree acceptor of apta.h/apta.cpp: a prefix tree    *)
(* whose nodes are merged by a union/find structure.  This module holds    *)
(* the pointer structure and the operations of apta_node and of the apta   *)
(* iterators on it; StateMerger adds the merging routines.                 *)
(*                                                                         *)
(* Splitting nodes on attribute values is not part of this module: every   *)
(* guard is unbounded, so a guard is named by its symbol, and a node keeps *)
(* the source it was created with.                                         *)
(***************************************************************************)
EXTENDS Integers, Sequences, FiniteSets

CONSTANTS
    Node,       \* apta_node objects; those outside tree.nodes are unused
    Root,       \* the root of the apta
    None,       \* the null pointer
    Symbol,     \* alphabet; guard_map is ordered by symbol number
    Type,       \* trace types ("0", "1")
    Trees,      \* the prefix trees the input phase may build (see PrefixTree)
    USE_SINKS,  \* --sinkson
    SINK_COUNT  \* --sinkcount

ASSUME AptaAssumption ==
    /\ Root \in Node
    /\ None \notin Node
    /\ Symbol \subseteq Nat
    /\ USE_SINKS \in BOOLEAN
    /\ SINK_COUNT \in Nat

\* What add_trace_to_apta leaves behind: child and source pointers that agree,
\* and no node above itself.
IsPrefixTree(t) ==
    /\ t.nodes \subseteq Node /\ Root \in t.nodes /\ IsFiniteSet(t.nodes)
    /\ t.source \in [Node -> Node \cup {None}]
    /\ t.symbol \in [Node -> Symbol \cup {None}]
    /\ t.child \in [Node -> [Symbol -> Node \cup {None}]]
    /\ t.size \in [Node -> Nat]
    /\ t.final \in [Node -> Nat]
    /\ t.finals \in [Node -> [Type -> Nat]]
    /\ \A n \in Node :
          IF n \in t.nodes \ {Root}
          THEN /\ t.source[n] \in t.nodes /\ t.symbol[n] \in Symbol
               /\ t.child[t.source[n]][t.symbol[n]] = n
          ELSE t.source[n] = None
    /\ \A m \in Node, a \in Symbol : t.child[m][a] # None =>
          /\ t.child[m][a] \in t.nodes \ {Root}
          /\ t.source[t.child[m][a]] = m /\ t.symbol[t.child[m][a]] = a
    /\ \A S \in SUBSET t.nodes : S # {} => \E n \in S : t.source[n] \notin S

ASSUME TreesAssumption == \A t \in Trees : IsPrefixTree(t)

VARIABLES
    tree,        \* the prefix tree read from the input; never changes
    child,       \* guards: child[n][a] is the target of n's guard on a, or None
    rep,         \* representative
    repOf,       \* representative_of: head of the list of nodes merged into n
    nextMerged,  \* next_merged_node
    size, final, \* occurrences, ending occurrences
    finals,      \* count_data::final_counts
    red, sink

\* Everything merging mutates.
heap == <<child, rep, repOf, nextMerged, size, final, finals, red, sink>>

NoSink == -1

AptaTypeOK ==
    /\ tree \in Trees
    /\ child \in [Node -> [Symbol -> Node \cup {None}]]
    /\ rep \in [Node -> Node \cup {None}]
    /\ repOf \in [Node -> Node \cup {None}]
    /\ nextMerged \in [Node -> Node \cup {None}]
    /\ size \in [Node -> Int] /\ final \in [Node -> Int]
    /\ finals \in [Node -> [Type -> Int]]
    /\ red \in [Node -> BOOLEAN]
    /\ sink \in [Node -> Int]

\* The apta constructor colours the root red; the nodes come from the input.
AptaInit ==
    /\ tree \in Trees
    /\ child = tree.child
    /\ rep = [n \in Node |-> None]
    /\ repOf = [n \in Node |-> None]
    /\ nextMerged = [n \in Node |-> None]
    /\ size = tree.size /\ final = tree.final /\ finals = tree.finals
    /\ red = [n \in Node |-> n = Root]
    /\ sink = [n \in Node |-> NoSink]

-----------------------------------------------------------------------------
(* find() over the representative pointers of a given heap.                *)

findIn(r) == LET f[n \in Node] == IF r[n] = None THEN n ELSE f[r[n]] IN f
find == findIn(rep)

\* merge_with: r becomes the head of l's list of merged nodes.
MergeWith(l, r) ==
    /\ rep' = [rep EXCEPT ![r] = l]
    /\ nextMerged' = [nextMerged EXCEPT ![r] = repOf[l]]
    /\ repOf' = [repOf EXCEPT ![l] = r]
    /\ size' = [size EXCEPT ![l] = @ + size[r]]
    /\ final' = [final EXCEPT ![l] = @ + final[r]]

\* Mutant: the rest of l's list is lost.
UndoMergeWithDropsList(l, r) ==
    /\ rep' = [rep EXCEPT ![r] = None]
    /\ repOf' = [repOf EXCEPT ![l] = None]
    /\ nextMerged' = [nextMerged EXCEPT ![r] = None]
    /\ size' = [size EXCEPT ![l] = @ - size[r]]
    /\ final' = [final EXCEPT ![l] = @ - final[r]]

\* undo_merge_with: r leaves the head of l's list.
UndoMergeWith(l, r) ==
    /\ rep' = [rep EXCEPT ![r] = None]
    /\ repOf' = [repOf EXCEPT ![l] = nextMerged[r]]
    /\ nextMerged' = [nextMerged EXCEPT ![r] = None]
    /\ size' = [size EXCEPT ![l] = @ - size[r]]
    /\ final' = [final EXCEPT ![l] = @ - final[r]]

\* Mutant: the counts are taken out of the wrong node.
DataUndoFromRight(l, r) ==
    finals' = [finals EXCEPT ![r] = [t \in Type |-> finals[l][t] - finals[r][t]]]

\* count_data::update and count_data::undo.
DataUpdate(l, r) ==
    finals' = [finals EXCEPT ![l] = [t \in Type |-> finals[l][t] + finals[r][t]]]
DataUndo(l, r) ==
    finals' = [finals EXCEPT ![l] = [t \in Type |-> finals[l][t] - finals[r][t]]]

\* count_data::sink_type for low-count sinks: paths plus finals is the size.
DataSinkType(n) == IF USE_SINKS /\ size[n] < SINK_COUNT THEN 0 ELSE NoSink
SinkType(n) == IF sink[n] # NoSink THEN sink[n] ELSE DataSinkType(n)
IsSink(n) == SinkType(n) # NoSink

-----------------------------------------------------------------------------
(* The state sets of the red-blue framework, as the iterators compute them *)
(* from the root: they follow raw guard targets and skip a target that is  *)
(* merged or whose source now belongs to another state.                    *)

\* Mutant: the source is not looked up.
TargetsOfSource(n) ==
    {t \in {child[n][a] : a \in Symbol} \ {None} :
        tree.source[t] = n /\ rep[t] = None}

Targets(n) ==
    {t \in {child[n][a] : a \in Symbol} \ {None} :
        find[tree.source[t]] = n /\ rep[t] = None}

MaxDepth == Cardinality(tree.nodes)

RedStates ==
    LET layer[k \in 0 .. MaxDepth] ==
          IF k = 0 THEN {Root}
          ELSE LET prev == layer[k-1] IN
               prev \cup {t \in UNION {Targets(n) : n \in prev} : red[t]}
    IN layer[MaxDepth]

BlueStates == {t \in UNION {Targets(n) : n \in RedStates} : ~red[t]}

AllStates ==
    LET layer[k \in 0 .. MaxDepth] ==
          IF k = 0 THEN {Root}
          ELSE LET prev == layer[k-1] IN
               prev \cup UNION {Targets(n) : n \in prev}
    IN layer[MaxDepth]

\* get_state_from_trace on the access trace of n, its path in the prefix tree:
\* find at every step, the raw guard target at the end.  The set of the one
\* node it returns, empty for nullptr.
reach ==
    LET walk[n \in Node] ==
          IF tree.source[n] = None THEN Root
          ELSE LET p == walk[tree.source[n]] IN
               IF p = None THEN None ELSE child[find[p]][tree.symbol[n]]
    IN walk

LastStep(n) ==
    {child[q][tree.symbol[n]] : q \in Node \cap {find[reach[tree.source[n]]]}}

\* Mutant: find at the end as well.
StateFromTraceFound(n) ==
    IF tree.source[n] = None THEN {Root}
    ELSE {find[t] : t \in LastStep(n) \ {None}}

StateFromTrace(n) ==
    IF tree.source[n] = None THEN {Root} ELSE LastStep(n) \ {None}
=============================================================================
