------------------------- MODULE StateMergerCorrect -------------------------
(***************************************************************************)
(* What is checked of StateMerger: the structure of the merged apta, the   *)
(* exactness of undo, and the implementation of RedBlue.                   *)
(***************************************************************************)
EXTENDS StateMerger, FiniteSetsExt

nodes == tree.nodes

\* The tree nodes that were merged, directly or not, into n; n included.
Below(n) ==
    {m \in nodes : LET up[x \in Node] == x = n \/ (rep[x] # None /\ up[rep[x]])
                   IN up[m]}

SumOver(S, f) == MapThenSumSet(LAMBDA n : f[n], S)

\* The list that starts at representative_of(n), as a sequence.
MergedList(n) ==
    LET list[k \in 0 .. Cardinality(nodes)] ==
          IF k = 0 THEN IF repOf[n] = None THEN <<>> ELSE <<repOf[n]>>
          ELSE LET s == list[k-1] IN
               IF s = <<>> \/ nextMerged[s[Len(s)]] = None THEN s
               ELSE Append(s, nextMerged[s[Len(s)]])
    IN list[Cardinality(nodes)]

-----------------------------------------------------------------------------
(* Safety.                                                                 *)

\* The list of merged nodes of every node (apta.h: "storing all states merged
\* with this state to get access to all tails") holds exactly the nodes whose
\* representative it is, each once: undo_merge_with always takes the head.
MergedListsExact ==
    \A n \in nodes :
       LET list == MergedList(n) IN
       /\ {list[i] : i \in 1 .. Len(list)} = {m \in nodes : rep[m] = n}
       /\ Len(list) = Cardinality({m \in nodes : rep[m] = n})

\* The counts of a node are those of the tree nodes merged into it, at every
\* step of every merge and undo: no occurrence is lost or counted twice.
CountsConserved ==
    \A n \in nodes :
       LET below == Below(n) IN
       /\ size[n] = SumOver(below, tree.size)
       /\ final[n] = SumOver(below, tree.final)
       /\ MERGE_DATA => \A t \in Type :
             finals[n][t] = SumOver(below, [m \in below |-> tree.finals[m][t]])

\* On the way back from a merge that was performed, undo_merge meets only pairs
\* that merge joined: its assertions hold (state_merger.cpp:277-278) and its
\* early return for a node nobody merged (276) is never taken.  What is merged away
\* is a tree of nodes nobody merged, whatever was merged and undone before: find()
\* on a right child has nothing to follow, and merge_with's assertion (apta.h:287)
\* holds.
AssertionsHold ==
    /\ op = "undo" /\ At("undo", "entry") =>
          top.left # top.right /\ rep[top.right] = top.left
    /\ At("merge", "find") => rep[top.rc] = None /\ top.lc # top.rc
    /\ At("merge", "entry") /\ Performing => rep[top.right] = None

Unmerged == {n \in nodes : rep[n] = None}

\* Between operations the iterators find every state: following raw guard
\* targets and skipping merged ones loses no representative, no red state
\* and no blue state.
IteratorsComplete ==
    op = "idle" =>
       /\ AllStates = Unmerged
       /\ RedStates = {n \in Unmerged : red[n]}
       /\ BlueStates = {n \in Unmerged \ {Root} :
                          ~red[n] /\ red[find[tree.source[n]]]}

\* Between operations the guards of a state are those of all nodes merged
\* into it: it has a transition on a symbol exactly if one of them has, and
\* all their children on it have become its one child.
TransitionsCoverClass ==
    op = "idle" =>
       \A n \in Unmerged, a \in Symbol :
          LET kids == {tree.child[m][a] : m \in Below(n)} \ {None} IN
          IF kids = {} THEN child[n][a] = None
          ELSE child[n][a] # None /\ \A k \in kids : find[k] = find[child[n][a]]

\* apta.h:92-93, "every blue state is the root of a tree": a state that is not
\* red has exactly one transition into it, from the state that holds its source.
NonRedAreTrees ==
    op = "idle" =>
       \A n \in Unmerged : ~red[n] =>
          {e \in Unmerged \X Symbol :
              LET t == child[e[1]][e[2]] IN t # None /\ find[t] = n}
          = {<<find[tree.source[n]], tree.symbol[n]>>}

\* A red or blue state is found again by its access trace, so a refinement
\* that stores traces acts on the states it was made for; and so is, when it
\* is undone, every refinement in effect whose later ones are undone.  So every
\* pair the iterators yield can be merged, and an offered refinement still applies
\* although the test that produced it merged and unmerged the two states.
TracesResolve ==
    op = "idle" =>
       /\ \A n \in RedStates \cup BlueStates : StateFromTrace(n) = {n}
       /\ done # <<>> => LET last == done[Len(done)].ref IN
             StateFromTrace(last.red) = {last.red} /\ StateFromTrace(last.blue) = {last.blue}
       /\ \A r \in CandidateStates : \A l \in MergeTargets(r) : Applicable(l, r)
       /\ offer # None => Applicable(offer.red, offer.blue)

\* A state under a red sink is coloured red as a sink of the same type.
SinksInherited ==
    \A n \in nodes \ {Root} :
       red[n] /\ rep[n] = None /\ sink[find[tree.source[n]]] # NoSink =>
          sink[n] = sink[find[tree.source[n]]]

-----------------------------------------------------------------------------
(* Implementation of RedBlue.  An operation takes effect when it finishes, *)
(* undoing a merge when it starts; until then the automaton is that of the *)
(* heap saved in "before".                                                 *)

ClassesOf(h, S) ==
    LET f == findIn(h[2]) IN
    {{n \in nodes : f[n] = m} : m \in {n \in S : h[2][n] = None}}
PartOf(h) == ClassesOf(h, nodes)
CoreOf(h) == ClassesOf(h, {n \in nodes : h[8][n]})

settled == IF op = "idle" THEN heap ELSE before
undone == IF op = "undo" THEN 1 ELSE 0

RB == INSTANCE RedBlue WITH
        part <- PartOf(settled),
        core <- CoreOf(settled),
        history <- [i \in 1 .. Len(done) - undone |->
                      [part |-> PartOf(done[i].before),
                       core |-> CoreOf(done[i].before)]]

\* The pointer-level engine implements red-blue merging on partitions: each
\* performed merge is one least deterministic, consistent merge of two
\* states, each undo goes back exactly one refinement.  This is RB!Spec; a
\* step that leaves what the mapping depends on alone is a stutter, which
\* TLC need not find out by evaluating the mapping.
mapped == <<tree, settled, done, undone>>
ImplementsRedBlue ==
    RB!Init /\ [][mapped' # mapped => [RB!Next]_(RB!abstractVars)]_vars

\* test_merge is exact: it offers a merge if and only if the least
\* deterministic partition that joins the two states mixes no types, with the
\* number of states that disappear as the score.
TestExact ==
    op = "test" /\ stack = <<>> =>
       LET P == PartOf(before)
           C == CHOOSE X \in P : ref.red \in X
           D == CHOOSE X \in P : ref.blue \in X
           Q == RB!MergedPartition(P, C, D)
           ok == result /\ ~eval.inconsistent
       IN /\ ok <=> RB!Consistent(Q)
          /\ ok => eval.merges = Cardinality(P) - Cardinality(Q)

-----------------------------------------------------------------------------
(* Action properties.                                                      *)

\* Undoing a refinement, or a tested merge, restores the heap it was made on:
\* guards, union/find, merged lists, counts, colours and sinks.
UndoExact ==
    [][/\ op = "untest" /\ op' = "idle" => heap' = before
       /\ Len(done') < Len(done) => heap' = done[Len(done)].before]_vars

\* --redfixed ("merges that add new transitions to red states are considered
\* inconsistent", main.cpp:106) and --allfixed ("to any state", main.cpp:107):
\* performing a merge, with all its folding, adds none.
FixedTransitions ==
    [][op = "do" /\ op' = "idle" =>
         \A n \in nodes :
            (RED_FIXED /\ before[8][n]) \/ ALL_FIXED => child[n] = before[1][n]]_vars

-----------------------------------------------------------------------------
(* Liveness.                                                               *)

\* Every operation ends: the recursion of merge and undo_merge and the loops of
\* find() terminate although merging creates cycles in the automaton.
OperationsEnd == op # "idle" ~> op = "idle"
=============================================================================
