------------------------------- MODULE LSharp -------------------------------
(***************************************************************************)
(* lsharp.cpp: grow a prefix tree with queries, identify states by merging *)
(* in it, and ask the oracle for a word on which the automaton and the     *)
(* system differ.  The tree is only extended while nothing is merged: the  *)
(* refinements performed so far are undone, and done again afterwards.     *)
(***************************************************************************)
EXTENDS Integers, SequencesExt

CONSTANTS
    Symbol, Type, None, Root,
    EXTEND_ANY_RED, MERGE_MOST_VISITED, MERGE_BLUE_BLUE, MERGE_ROOT,
    DEPTH_FIRST, DFA_SIZE_BOUND,
    Inputs,                 \* what a run may start from: [sut, test_empty, max_states]
    AL_MAX_SEARCH_DEPTH

VARIABLES
    sut,            \* the automaton to be learned: [delta, type]
    test_empty,     \* AL_TEST_EMTPY_STRING
    max_states,     \* AL_MAX_N_STATES
    m,              \* the apta
    extended_nodes, \* the nodes extend_fringe has been called for
    performed_refs,
    blue_nodes,     \* the blue states of this iteration that are left
    identified_red_node,
    searched,       \* bfs_strategy: the last word of the search
    cexs,           \* the counterexamples processed so far
    pc

system == <<sut, test_empty, max_states>>
vars == <<m, extended_nodes, performed_refs, blue_nodes, identified_red_node,
          searched, cexs, pc, system>>

INSTANCE Oracle
INSTANCE Merging

AskSul(w) == Answer(sut, w)
Exhausted == Len(searched) = AL_MAX_SEARCH_DEPTH
BlueSet(k) == ToSet(BlueSeq(k))

-----------------------------------------------------------------------------
(* Growing the tree.                                                       *)

\* add_trace_to_apta with the answer of the system, if it has one.
AddAnswer(k, w) ==
    IF AskSul(w) = Unparsed THEN k
    ELSE AddTrace(k, [word |-> w, type |-> AskSul(w)])

\* extend_fringe, for a node that was not extended before.
ExtendFringe(k, n) ==
    IF n \in extended_nodes THEN k
    ELSE FoldLeft(LAMBDA j, a : AddAnswer(j, Append(n, a)), k, Ascending)

\* reset_apta and do_operations
ResetApta(k, refs) == FoldRight(LAMBDA ref, j : UndoOf(j, ref), refs, k)
\* Mutant: in the order in which they are undone.
DoOperationsReversed(k, refs) == FoldRight(LAMBDA ref, j : Do(j, ref), refs, k)
DoOperations(k, refs) == FoldLeft(Do, k, refs)

\* Mutant: only the node on the way of the counterexample is added.
ProcCounterexOnly(k, cex) ==
    LET step(j, i) ==
          LET n == SubSeq(cex, 1, i - 1)
          IN IF j.m.child[n][cex[i]] # None THEN j
             ELSE [m |-> AddAnswer(j.m, Append(n, cex[i])), extended |-> j.extended \cup {n}]
    IN FoldLeft(step, [m |-> k, extended |-> extended_nodes],
                [i \in 1 .. Len(cex) |-> i])

\* proc_counterex on the unmerged tree: follow the counterexample, and extend the
\* nodes where it leaves the tree.
ProcCounterex(k, cex) ==
    LET step(j, i) ==
          LET n == SubSeq(cex, 1, i - 1)
          IN IF j.m.child[n][cex[i]] # None THEN j
             ELSE [m |-> ExtendFringe(j.m, n), extended |-> j.extended \cup {n}]
    IN FoldLeft(step, [m |-> k, extended |-> extended_nodes],
                [i \in 1 .. Len(cex) |-> i])

-----------------------------------------------------------------------------
(* The algorithm.                                                          *)

Init ==
    /\ \E i \in Inputs : sut = i.sut /\ test_empty = i.test_empty /\ max_states = i.max_states
    /\ m = FoldLeft(LAMBDA j, a : AddAnswer(j, <<a>>),
                    IF MERGE_ROOT THEN AddAnswer(RootOnly, <<>>) ELSE RootOnly, Ascending)
    /\ extended_nodes = {Root}
    /\ performed_refs = <<>>
    /\ blue_nodes = {}
    /\ identified_red_node = TRUE
    /\ searched = <<>>
    /\ cexs = {}
    /\ pc = "base"

\* find_complete_base, the head of an iteration that follows one which identified
\* a state, and of the first.
Iterate ==
    /\ pc = "base" /\ blue_nodes = {} /\ identified_red_node
    /\ blue_nodes' = BlueSet(m)
    /\ identified_red_node' = FALSE
    /\ UNCHANGED <<m, extended_nodes, performed_refs, searched, cexs, pc, system>>

\* The merges of b with red states that pass their test, as a refinement_set.
PossibleMerges(b) == FoldLeft(Insert, {}, MergeRefs(m, b))

Perform(ref) == m' = Do(m, ref) /\ performed_refs' = Append(performed_refs, ref)

\* A blue state of this iteration, in no particular order: the set is hashed by
\* address.
MergeBest ==
    /\ pc \in {"base", "close"}
    /\ \E b \in blue_nodes :
         /\ PossibleMerges(b) # {}
         /\ Perform(InOrder(PossibleMerges(b))[1])
         /\ blue_nodes' = blue_nodes \ {b}
    /\ UNCHANGED <<extended_nodes, identified_red_node, searched, cexs, pc, system>>

\* Mutant: its children are created in the merged tree.
IdentifyMerged ==
    /\ pc = "base"
    /\ \E b \in blue_nodes :
         /\ PossibleMerges(b) = {}
         /\ m' = ExtendFringe(Do(m, ExtendRef(m, b)), b)
         /\ performed_refs' = Append(performed_refs, ExtendRef(m, b))
         /\ extended_nodes' = extended_nodes \cup {b}
         /\ blue_nodes' = blue_nodes \ {b}
    /\ identified_red_node' = TRUE
    /\ UNCHANGED <<searched, cexs, pc, system>>

\* No red state can be merged with it: it becomes one, and gets its children.
Identify ==
    /\ pc = "base"
    /\ \E b \in blue_nodes :
         LET refs == Append(performed_refs, ExtendRef(m, b))
             tree == ResetApta(Do(m, ExtendRef(m, b)), refs)
         IN /\ PossibleMerges(b) = {}
            /\ m' = DoOperations(ExtendFringe(tree, b), refs)
            /\ performed_refs' = refs
            /\ extended_nodes' = extended_nodes \cup {b}
            /\ blue_nodes' = blue_nodes \ {b}
    /\ identified_red_node' = TRUE
    /\ UNCHANGED <<searched, cexs, pc, system>>

\* "Complete basis found"
Complete ==
    /\ pc = "base" /\ blue_nodes = {} /\ ~identified_red_node
    /\ pc' = "close"
    /\ UNCHANGED <<m, extended_nodes, performed_refs, blue_nodes, identified_red_node,
                   searched, cexs, system>>

\* find_closed_automaton, the head of an iteration.
Close ==
    /\ pc = "close" /\ blue_nodes = {} /\ BlueSet(m) # {}
    /\ blue_nodes' = BlueSet(m)
    /\ UNCHANGED <<m, extended_nodes, performed_refs, identified_red_node, searched, cexs,
                   pc, system>>

CloseExtend ==
    /\ pc = "close"
    /\ \E b \in blue_nodes :
         /\ PossibleMerges(b) = {}
         /\ Perform(ExtendRef(m, b))
         /\ blue_nodes' = blue_nodes \ {b}
    /\ UNCHANGED <<extended_nodes, identified_red_node, searched, cexs, pc, system>>

\* evidence_driven::get_score, taken for a distance.
Distance(l, r) == Cardinality({t \in {0, 1} : m.finals[l][t] > 0 /\ m.finals[r][t] > 0})

\* A state without guards is merged with the first of the red states at the least
\* distance, without a test.  (It may have guards left from tests that lead
\* nowhere now; then it is treated as one that has children.)
CloseForced ==
    /\ pc = "close"
    /\ \E b \in blue_nodes :
         LET reds == RedSeq(m)
             least == CHOOSE i \in DOMAIN reds : \A j \in DOMAIN reds :
                         \/ Distance(reds[i], b) < Distance(reds[j], b)
                         \/ Distance(reds[i], b) = Distance(reds[j], b) /\ i <= j
         IN /\ m.child[b] = NoChildren
            /\ Perform([kind |-> "merge", red |-> reds[least], blue |-> b,
                        score |-> Distance(reds[least], b), size |-> m.size[b]])
            /\ blue_nodes' = blue_nodes \ {b}
    /\ UNCHANGED <<extended_nodes, identified_red_node, searched, cexs, pc, system>>

\* The hypothesis is posed, unless it has too many states.
Pose ==
    /\ pc = "close" /\ blue_nodes = {} /\ BlueSet(m) = {}
    /\ pc' = IF max_states > -1 /\ NumRed(m) >= max_states THEN "stopped" ELSE "query"
    /\ UNCHANGED <<m, extended_nodes, performed_refs, blue_nodes, identified_red_node,
                   searched, cexs, system>>

\* One word of the equivalence query.  A conflict the system does not answer
\* starts the query again, with the search where it was.
Query ==
    /\ pc = "query" /\ ~Exhausted
    /\ LET w == NextWord(searched)
           cex == ConflictString(sut, m, w, test_empty)
           grown == ProcCounterex(ResetApta(m, performed_refs), cex)
       IN /\ searched' = w
          /\ IF Conflicts(sut, m, w) /\ AskSul(cex) # Unparsed
             THEN /\ m' = grown.m /\ extended_nodes' = grown.extended
                  /\ performed_refs' = <<>>
                  /\ identified_red_node' = TRUE
                  /\ cexs' = cexs \cup {cex}
                  /\ pc' = "base"
             ELSE UNCHANGED <<m, extended_nodes, performed_refs, identified_red_node, cexs, pc>>
    /\ UNCHANGED <<blue_nodes, system>>

\* "Found consistent automaton"
FoundConsistent ==
    /\ pc = "query" /\ Exhausted
    /\ pc' = "consistent"
    /\ UNCHANGED <<m, extended_nodes, performed_refs, blue_nodes, identified_red_node,
                   searched, cexs, system>>

Ended == pc \in {"consistent", "stopped"} /\ UNCHANGED vars

Next ==
    \/ Iterate \/ MergeBest \/ Identify \/ Complete
    \/ Close \/ CloseExtend \/ CloseForced \/ Pose
    \/ Query \/ FoundConsistent \/ Ended

Spec == Init /\ [][Next]_vars

\* The program is one thread that goes on until it has ended: it has a next step
\* in every other state, and each of its steps changes the state.
FairSpec == Spec /\ ([]<>(pc \in {"consistent", "stopped"}) \/ []<><<TRUE>>_vars)

-----------------------------------------------------------------------------
(* Properties.                                                             *)

\* What is left when all that was performed is undone is a prefix tree again, and
\* every node of it holds the answer to its word once: queries are asked once, and
\* the tree never grew while it was merged (lsharp.cpp:161, common_functions.cpp:286).
UndoneIsObservationTree ==
    LET tree == ResetApta(m, performed_refs)
    IN /\ \A n \in tree.nodes : tree.rep[n] = None /\ (tree.red[n] <=> n = Root)
       /\ \A n \in tree.nodes \ {Root}, t \in Type :
             tree.finals[n][t] = IF t = AskSul(n) THEN 1 ELSE 0

\* The refinements performed, done again one by one on the tree as it is now, find
\* their states as they left them, although the tree has grown since, and result
\* in the automaton there is (lsharp.cpp:164).
RedoneIsApplicable ==
    LET redo(j, ref) == [m |-> Do(j.m, ref), ok |-> j.ok /\ Applicable(j.m, ref)]
        end == FoldLeft(redo, [m |-> ResetApta(m, performed_refs), ok |-> TRUE],
                        performed_refs)
    IN end.ok /\ end.m = m

\* The hypothesis for a system that answers every word has every transition, in
\* every state reached by forced merges and folding too.
Total == \A q \in DOMAIN sut.delta, a \in Symbol : sut.delta[q][a] # None
HypothesisComplete ==
    pc = "query" /\ Total => \A n \in ToSet(RedSeq(m)), a \in Symbol : m.child[n][a] # None

\* Learning ends: with a hypothesis in which no conflict is found, or at the
\* greatest number of states.
Ends == <>(pc \in {"consistent", "stopped"})
=============================================================================
