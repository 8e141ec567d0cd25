---------------------------- MODULE StateMerger ----------------------------
(***************************************************************************)
(* state_merger.cpp: the merge, undo_merge, extend and test_merge routines *)
(* and the merge and extend refinements (refinement.cpp) that perform and  *)
(* undo them.  merge and undo_merge recurse over the guards of the node    *)
(* being merged while they change the structure they walk on; a call is a  *)
(* frame on "stack" and every action is one stretch of code between two    *)
(* calls, loop tests or find() steps.                                      *)
(*                                                                         *)
(* The client (greedy, search, stream, interactive mode) is any program    *)
(* that tests a merge in the current state, performs what the test offers, *)
(* extends blue states, and undoes the last refinement it performed.       *)
(***************************************************************************)
EXTENDS Apta

CONSTANTS
    MERGE_WHEN_TESTING,   \* --testmerge
    MERGE_DATA,           \* --mergedata
    MERGE_BLUE_BLUE,      \* --blueblue
    MERGE_ROOT,           \* --mergeroot
    MERGE_SINKS,          \* --mergesinks
    MERGE_SINKS_WITH_CORE,\* --mergesinkscore
    TYPE_CONSISTENT,      \* --typeconsistent
    RED_FIXED, ALL_FIXED, \* --redfixed, --allfixed
    KTAIL, KSTATE         \* --ktail, --kstate; -1 when off

ASSUME ParametersAssumption ==
    /\ {MERGE_WHEN_TESTING, MERGE_DATA, MERGE_BLUE_BLUE, MERGE_ROOT,
        MERGE_SINKS, MERGE_SINKS_WITH_CORE, TYPE_CONSISTENT,
        RED_FIXED, ALL_FIXED} \subseteq BOOLEAN
    /\ KTAIL \in Int /\ KSTATE \in Int

VARIABLES
    op,        \* the operation in progress, "idle" between operations
    ref,       \* the refinement it tests, performs or undoes
    stack,     \* its recursive calls, innermost last
    result,    \* return value of the last merge call
    eval,      \* evaluation function: inconsistency_found and num_merges
    offer,     \* the refinement the last successful test_merge returned
    done,      \* refinements in effect, oldest first
    numMerges, \* state_merger::num_merges
    before     \* history: the heap when the operation in progress started

control == <<op, ref, stack, result, eval, offer, done, numMerges, before>>
vars == <<tree, heap, control>>

Op == {"idle", "test", "untest", "do", "undo"}
Refinement ==
    [kind : {"merge", "extend"}, red : Node, blue : Node, score : Nat]
Frame ==
    [kind : {"merge", "undo"}, at : {"entry", "loop", "find"},
     left : Node, right : Node, todo : SUBSET Symbol, depth : Nat,
     lc : Node, rc : Node]

Snapshot ==
    [Node -> [Symbol -> Node \cup {None}]]
    \X [Node -> Node \cup {None}] \X [Node -> Node \cup {None}]
    \X [Node -> Node \cup {None}]
    \X [Node -> Int] \X [Node -> Int] \X [Node -> [Type -> Int]]
    \X [Node -> BOOLEAN] \X [Node -> Int]

\* TYPE INVARIANT of the merging engine: every variable, frame and saved
\* refinement has the shape the code gives it.
TypeOK ==
    /\ AptaTypeOK
    /\ op \in Op
    /\ ref \in Refinement \cup {None}
    /\ stack \in Seq(Frame)
    /\ result \in BOOLEAN
    /\ eval \in [inconsistent : BOOLEAN, merges : Nat]
    /\ offer \in Refinement \cup {None}
    /\ done \in Seq([ref : Refinement, before : Snapshot])
    /\ numMerges \in Int
    /\ before \in Snapshot \cup {None}
    /\ op # "idle" => ref \in Refinement /\ before \in Snapshot

\* --mergeroot 0: no state is ever merged into the root, also not by folding.
RootKept == ~MERGE_ROOT => \A n \in tree.nodes : rep[n] # Root

\* Following representatives never comes back: in every set of nodes one has
\* its representative outside the set.  find() and find_until() end.
Acyclic ==
    \A S \in SUBSET tree.nodes : S # {} => \E n \in S : rep[n] \notin S

Init ==
    /\ AptaInit
    /\ op = "idle" /\ ref = None /\ stack = <<>> /\ result = TRUE
    /\ eval = [inconsistent |-> FALSE, merges |-> 0]
    /\ offer = None /\ done = <<>> /\ numMerges = 0 /\ before = None

-----------------------------------------------------------------------------
(* Calls, frames and returns.                                              *)

\* Mutant: the depth counted from one less.
CallAtDepthMinusOne(kind, l, r, d) ==
    [kind |-> kind, at |-> "entry", left |-> l, right |-> r,
     todo |-> {}, depth |-> d - 1, lc |-> l, rc |-> r]

Call(kind, l, r, d) ==
    [kind |-> kind, at |-> "entry", left |-> l, right |-> r,
     todo |-> {}, depth |-> d, lc |-> l, rc |-> r]

top == stack[Len(stack)]
Replace(f) == stack' = [stack EXCEPT ![Len(stack)] = f]
Pop == stack' = SubSeq(stack, 1, Len(stack) - 1)
At(kind, place) == stack # <<>> /\ top.kind = kind /\ top.at = place

Testing == op = "test"
Performing == op = "do" \/ MERGE_WHEN_TESTING

\* The loops run over the guards of right that have a target; todo are the
\* symbols the iterator has not passed.
Guarded(n) == {a \in Symbol : child[n][a] # None}
pending == top.todo \cap Guarded(top.right)
IsFirst(a) == a \in pending /\ \A b \in pending : a <= b
IsLast(a) == a \in pending /\ \A b \in pending : b <= a
After(a) == {b \in top.todo : a < b}
Before(a) == {b \in top.todo : b < a}

-----------------------------------------------------------------------------
(* merge(left, right, depth, evaluate, perform, test).                     *)

\* early_stop_merge, first half: the test does not look any deeper.
DeepEnough(f) ==
    \/ KTAIL # -1 /\ f.depth > KTAIL
    \/ KSTATE # -1 /\ (size[f.left] < KSTATE \/ size[f.right] < KSTATE)

\* Mutant: only the two states themselves are looked at, not the folded ones.
AddsFixedTransitionAtTop(f) ==
    /\ f.depth = 0 /\ ((red[f.left] /\ RED_FIXED) \/ ALL_FIXED)
    /\ \E a \in Guarded(f.right) : child[f.left][a] = None

\* early_stop_merge, second half: the merge would add a transition to a
\* state that may not get one.
AddsFixedTransition(f) ==
    /\ (red[f.left] /\ RED_FIXED) \/ ALL_FIXED
    /\ \E a \in Guarded(f.right) : child[f.left][a] = None

\* Mutant: the counts of the prefix tree instead of the merged ones.
TypesConflictInTree(l, r) ==
    /\ TYPE_CONSISTENT
    /\ \E t, u \in Type : t # u /\ tree.finals[l][t] # 0 /\ tree.finals[r][u] # 0

\* count_driven::consistent
TypesConflict(l, r) ==
    /\ TYPE_CONSISTENT
    /\ \E t, u \in Type : t # u /\ finals[l][t] # 0 /\ finals[r][u] # 0
Inconsistent(f) == eval.inconsistent \/ TypesConflict(f.left, f.right)

\* The test returns before it merges this pair.
MergeStop ==
    /\ At("merge", "entry") /\ Testing
    /\ \/ /\ DeepEnough(top)
          /\ result' = TRUE /\ UNCHANGED eval
       \/ /\ ~DeepEnough(top) /\ AddsFixedTransition(top)
          /\ result' = FALSE /\ UNCHANGED eval
       \/ /\ ~DeepEnough(top) /\ ~AddsFixedTransition(top) /\ Inconsistent(top)
          /\ result' = FALSE /\ eval' = [eval EXCEPT !.inconsistent = TRUE]
    /\ Pop
    /\ UNCHANGED <<tree, heap, op, ref, offer, done, numMerges, before>>

\* Merge the two nodes and their data, and start on the guards of right.
MergeNodes ==
    /\ At("merge", "entry")
    /\ Testing => ~DeepEnough(top) /\ ~AddsFixedTransition(top) /\ ~Inconsistent(top)
    /\ eval' = IF Testing THEN [eval EXCEPT !.merges = @ + 1] ELSE eval
    /\ IF Performing
       THEN /\ MergeWith(top.left, top.right)
            /\ IF MERGE_DATA THEN DataUpdate(top.left, top.right) ELSE UNCHANGED finals
       ELSE UNCHANGED <<rep, repOf, nextMerged, size, final, finals>>
    /\ Replace([top EXCEPT !.at = "loop", !.todo = Symbol])
    /\ result' = TRUE
    /\ UNCHANGED <<tree, child, red, sink, op, ref, offer, done, numMerges, before>>

\* left has no transition on the next symbol: it takes over right's child.
MergeAdopt ==
    /\ At("merge", "loop") /\ (Testing => result)
    /\ \E a \in Symbol :
       /\ IsFirst(a) /\ child[top.left][a] = None
       /\ child' = IF Performing
                   THEN [child EXCEPT ![top.left][a] = child[top.right][a]]
                   ELSE child
       /\ Replace([top EXCEPT !.todo = After(a)])
    /\ UNCHANGED <<tree, rep, repOf, nextMerged, size, final, finals, red, sink,
                   op, ref, result, eval, offer, done, numMerges, before>>

\* Mutant: the iterator is not advanced.
MergeChildrenAgain ==
    /\ At("merge", "loop") /\ (Testing => result)
    /\ \E a \in Symbol :
       /\ IsFirst(a) /\ child[top.left][a] # None
       /\ Replace([top EXCEPT !.at = "find",
                              !.lc = child[top.left][a], !.rc = child[top.right][a]])
    /\ UNCHANGED <<tree, heap, op, ref, result, eval, offer, done, numMerges, before>>

\* Both have one: find() the representatives of the two children.
MergeChildren ==
    /\ At("merge", "loop") /\ (Testing => result)
    /\ \E a \in Symbol :
       /\ IsFirst(a) /\ child[top.left][a] # None
       /\ Replace([top EXCEPT !.at = "find", !.todo = After(a),
                              !.lc = child[top.left][a], !.rc = child[top.right][a]])
    /\ UNCHANGED <<tree, heap, op, ref, result, eval, offer, done, numMerges, before>>

\* Mutant: the representative of left_child is put in the wrong variable.
MergeFindMixedUp ==
    /\ At("merge", "find")
    /\ \/ rep[top.lc] # None /\ Replace([top EXCEPT !.rc = rep[top.lc]])
       \/ /\ rep[top.lc] = None /\ rep[top.rc] # None
          /\ Replace([top EXCEPT !.rc = rep[top.rc]])
    /\ UNCHANGED <<tree, heap, op, ref, result, eval, offer, done, numMerges, before>>

\* One round of the while loop of find(): first left_child, then right_child.
MergeFind ==
    /\ At("merge", "find")
    /\ \/ rep[top.lc] # None /\ Replace([top EXCEPT !.lc = rep[top.lc]])
       \/ /\ rep[top.lc] = None /\ rep[top.rc] # None
          /\ Replace([top EXCEPT !.rc = rep[top.rc]])
    /\ UNCHANGED <<tree, heap, op, ref, result, eval, offer, done, numMerges, before>>

\* Recurse when the children are not one state already.
MergeRecurse ==
    /\ At("merge", "find") /\ rep[top.lc] = None /\ rep[top.rc] = None
    /\ LET back == [stack EXCEPT ![Len(stack)] = [top EXCEPT !.at = "loop"]] IN
       stack' = IF top.lc # top.rc
                THEN Append(back, Call("merge", top.lc, top.rc, top.depth + 1))
                ELSE back
    /\ UNCHANGED <<tree, heap, op, ref, result, eval, offer, done, numMerges, before>>

\* The loop ends, or a failed test breaks out of it.
MergeReturn ==
    /\ At("merge", "loop")
    /\ (Testing => result) => pending = {}
    /\ Pop
    /\ UNCHANGED <<tree, heap, op, ref, result, eval, offer, done, numMerges, before>>

MergeStep == \/ MergeStop \/ MergeNodes \/ MergeAdopt \/ MergeChildren
             \/ MergeFind \/ MergeRecurse \/ MergeReturn

-----------------------------------------------------------------------------
(* undo_merge(left, right): the guards in reverse, then the nodes.         *)

\* right is not merged: the merge stopped before it got here.
UndoSkip ==
    /\ At("undo", "entry") /\ rep[top.right] = None
    /\ Pop
    /\ UNCHANGED <<tree, heap, op, ref, result, eval, offer, done, numMerges, before>>

\* Mutant: undo_merge without its first return.
UndoEnterUnmerged ==
    /\ At("undo", "entry")
    /\ Replace([top EXCEPT !.at = "loop", !.todo = Symbol])
    /\ UNCHANGED <<tree, heap, op, ref, result, eval, offer, done, numMerges, before>>

UndoEnter ==
    /\ At("undo", "entry") /\ rep[top.right] # None
    /\ Replace([top EXCEPT !.at = "loop", !.todo = Symbol])
    /\ UNCHANGED <<tree, heap, op, ref, result, eval, offer, done, numMerges, before>>

\* Mutant: the child left took over stays with it.
UndoAdoptKeepsChild ==
    /\ At("undo", "loop")
    /\ \E a \in Symbol :
       /\ IsLast(a) /\ child[top.left][a] \in {None, child[top.right][a]}
       /\ Replace([top EXCEPT !.todo = Before(a)])
    /\ UNCHANGED <<tree, heap, op, ref, result, eval, offer, done, numMerges, before>>

\* A child left took over goes back to right; one it never had is skipped.
UndoAdopt ==
    /\ At("undo", "loop")
    /\ \E a \in Symbol :
       /\ IsLast(a) /\ child[top.left][a] \in {None, child[top.right][a]}
       /\ child' = [child EXCEPT ![top.left][a] = None]
       /\ Replace([top EXCEPT !.todo = Before(a)])
    /\ UNCHANGED <<tree, rep, repOf, nextMerged, size, final, finals, red, sink,
                   op, ref, result, eval, offer, done, numMerges, before>>

UndoChildren ==
    /\ At("undo", "loop")
    /\ \E a \in Symbol :
       /\ IsLast(a) /\ child[top.left][a] \notin {None, child[top.right][a]}
       /\ Replace([top EXCEPT !.at = "find", !.todo = Before(a),
                              !.lc = child[top.left][a], !.rc = child[top.right][a]])
    /\ UNCHANGED <<tree, heap, op, ref, result, eval, offer, done, numMerges, before>>

\* Mutant: find() on right_child as well.
UndoFindBoth ==
    /\ At("undo", "find")
    /\ \/ rep[top.lc] # None /\ Replace([top EXCEPT !.lc = rep[top.lc]])
       \/ /\ rep[top.lc] = None /\ rep[top.rc] # None
          /\ Replace([top EXCEPT !.rc = rep[top.rc]])
    /\ UNCHANGED <<tree, heap, op, ref, result, eval, offer, done, numMerges, before>>

\* find() on left_child, then find_until(left_child) on right_child.
UndoFind ==
    /\ At("undo", "find")
    /\ \/ rep[top.lc] # None /\ Replace([top EXCEPT !.lc = rep[top.lc]])
       \/ /\ rep[top.lc] = None /\ rep[top.rc] \notin {None, top.lc}
          /\ Replace([top EXCEPT !.rc = rep[top.rc]])
    /\ UNCHANGED <<tree, heap, op, ref, result, eval, offer, done, numMerges, before>>

UndoRecurse ==
    /\ At("undo", "find") /\ rep[top.lc] = None /\ rep[top.rc] \in {None, top.lc}
    /\ stack' = Append([stack EXCEPT ![Len(stack)] = [top EXCEPT !.at = "loop"]],
                       Call("undo", top.lc, top.rc, top.depth + 1))
    /\ UNCHANGED <<tree, heap, op, ref, result, eval, offer, done, numMerges, before>>

UndoNodes ==
    /\ At("undo", "loop") /\ pending = {}
    /\ UndoMergeWith(top.left, top.right)
    /\ IF MERGE_DATA THEN DataUndo(top.left, top.right) ELSE UNCHANGED finals
    /\ Pop
    /\ UNCHANGED <<tree, child, red, sink, op, ref, result, eval, offer, done,
                   numMerges, before>>

UndoStep == \/ UndoSkip \/ UndoEnter \/ UndoAdopt \/ UndoChildren
            \/ UndoFind \/ UndoRecurse \/ UndoNodes

-----------------------------------------------------------------------------
(* Refinements.                                                            *)

\* The blue states get_possible_refinements looks at.
CandidateStates ==
    LET nonSinks == {b \in BlueStates : DataSinkType(b) = NoSink} IN
    IF nonSinks = {} /\ ~MERGE_SINKS THEN {}
    ELSE {b \in BlueStates : size[b] # 0 /\ (nonSinks # {} => ~IsSink(b))}

\* The states a blue state is tested against.
MergeTargets(b) ==
    RedStates \cup
    IF MERGE_BLUE_BLUE
    THEN {c \in BlueStates \ {b} : size[c] # 0 /\ ~IsSink(c)}
    ELSE {}

\* test_ref_structural: what makes a merge refinement applicable.  The retry
\* loops check it; the iterators of get_possible_refinements are to yield
\* nothing else.
Applicable(l, r) ==
    /\ l # r
    /\ ~red[l] => red[find[tree.source[l]]]
    /\ ~red[r] /\ red[find[tree.source[r]]]
    /\ rep[l] = None /\ rep[r] = None

\* Mutant: --mergeroot is not looked at.
PreConsistentAnyRoot(l, r) ==
    /\ MERGE_SINKS \/ (~IsSink(l) /\ ~IsSink(r))
    /\ MERGE_SINKS_WITH_CORE \/ ~(red[l] /\ ~IsSink(l) /\ IsSink(r))

PreConsistent(l, r) ==
    /\ MERGE_ROOT \/ tree.source[l] # None
    /\ MERGE_SINKS \/ (~IsSink(l) /\ ~IsSink(r))
    /\ MERGE_SINKS_WITH_CORE \/ ~(red[l] /\ ~IsSink(l) /\ IsSink(r))

\* test_merge: evaluate a merge by performing it.  Tests that pre_consistent
\* refuses change nothing.
TestMerge(l, r) ==
    /\ op = "idle"
    /\ Applicable(l, r) /\ PreConsistent(l, r)
    /\ op' = "test"
    /\ ref' = [kind |-> "merge", red |-> l, blue |-> r, score |-> 0]
    /\ stack' = <<Call("merge", l, r, 0)>>
    /\ eval' = [inconsistent |-> FALSE, merges |-> 0]
    /\ offer' = None
    /\ before' = heap
    /\ UNCHANGED <<tree, heap, result, done, numMerges>>

\* The merge returned: create the refinement if it was consistent, undo the
\* merge if it was performed.
TestMergeDone ==
    /\ op = "test" /\ stack = <<>>
    /\ offer' = IF result /\ ~eval.inconsistent
                THEN [ref EXCEPT !.score = eval.merges] ELSE None
    /\ IF MERGE_WHEN_TESTING
       THEN /\ op' = "untest" /\ stack' = <<Call("undo", ref.red, ref.blue, 0)>>
            /\ UNCHANGED <<ref, before>>
       ELSE /\ op' = "idle" /\ ref' = None /\ before' = None
            /\ UNCHANGED stack
    /\ UNCHANGED <<tree, heap, result, eval, done, numMerges>>

TestMergeUndone ==
    /\ op = "untest" /\ stack = <<>>
    /\ op' = "idle" /\ ref' = None /\ before' = None
    /\ UNCHANGED <<tree, heap, stack, result, eval, offer, done, numMerges>>

\* Mutant: the sink of the parent is not looked at.
ExtendedSinkOwn(n) == SinkType(n)

\* extend: a state coloured red stays the sink it is, or its parent was.
ExtendedSink(n) ==
    LET parent == IF tree.source[n] = None THEN {}
                  ELSE Node \cap {find[tree.source[n]]}
        inherited == {sink[p] : p \in parent} \ {NoSink}
    IN IF inherited # {} THEN CHOOSE k \in inherited : TRUE ELSE SinkType(n)

\* Mutant: of two blue states only the left one is coloured red.
DoMergeLeftRed ==
    /\ op = "idle" /\ offer # None
    /\ \E l \in StateFromTrace(offer.red), r \in StateFromTrace(offer.blue) :
          /\ Applicable(l, r)
          /\ red' = [red EXCEPT ![l] = TRUE]
          /\ sink' = IF red[l] THEN sink ELSE [sink EXCEPT ![l] = ExtendedSink(l)]
          /\ stack' = <<Call("merge", l, r, 0)>>
    /\ op' = "do" /\ ref' = offer /\ offer' = None
    /\ numMerges' = numMerges + 1
    /\ before' = heap
    /\ UNCHANGED <<tree, child, rep, repOf, nextMerged, size, final, finals,
                   result, eval, done>>

\* Mutant: two blue states are merged as they are.
DoMergeUncoloured ==
    /\ op = "idle" /\ offer # None
    /\ \E l \in StateFromTrace(offer.red), r \in StateFromTrace(offer.blue) :
          /\ Applicable(l, r)
          /\ stack' = <<Call("merge", l, r, 0)>>
    /\ op' = "do" /\ ref' = offer /\ offer' = None
    /\ numMerges' = numMerges + 1
    /\ before' = heap
    /\ UNCHANGED <<tree, heap, result, eval, done>>

\* merge_refinement::doref on the nodes the access traces lead to; merging
\* two blue states makes both red first.
DoMerge ==
    /\ op = "idle" /\ offer # None
    /\ \E l \in StateFromTrace(offer.red), r \in StateFromTrace(offer.blue) :
          /\ Applicable(l, r)
          /\ IF red[l]
             THEN UNCHANGED <<red, sink>>
             ELSE /\ red' = [red EXCEPT ![l] = TRUE, ![r] = TRUE]
                  /\ sink' = [sink EXCEPT ![l] = ExtendedSink(l)]
          /\ stack' = <<Call("merge", l, r, 0)>>
    /\ op' = "do" /\ ref' = offer /\ offer' = None
    /\ numMerges' = numMerges + 1
    /\ before' = heap
    /\ UNCHANGED <<tree, child, rep, repOf, nextMerged, size, final, finals,
                   result, eval, done>>

DoMergeDone ==
    /\ op = "do" /\ stack = <<>>
    /\ done' = Append(done, [ref |-> ref, before |-> before])
    /\ op' = "idle" /\ ref' = None /\ before' = None
    /\ UNCHANGED <<tree, heap, stack, result, eval, offer, numMerges>>

\* extend_refinement::doref.  Which candidates the search lists an extend
\* refinement for depends on its other tests; here it may be any of them.
DoExtend(b) ==
    /\ op = "idle"
    /\ red' = [red EXCEPT ![b] = TRUE]
    /\ sink' = [sink EXCEPT ![b] = ExtendedSink(b)]
    /\ done' = Append(done,
                 [ref |-> [kind |-> "extend", red |-> b, blue |-> b, score |-> 0],
                  before |-> heap])
    /\ offer' = None
    /\ UNCHANGED <<tree, child, rep, repOf, nextMerged, size, final, finals,
                   op, ref, stack, result, eval, numMerges, before>>

\* extend_refinement::undo
UndoExtend ==
    /\ op = "idle" /\ done # <<>> /\ done[Len(done)].ref.kind = "extend"
    /\ \E n \in StateFromTrace(done[Len(done)].ref.red) :
          /\ red' = [red EXCEPT ![n] = FALSE]
          /\ sink' = [sink EXCEPT ![n] = NoSink]
    /\ done' = SubSeq(done, 1, Len(done) - 1)
    /\ offer' = None
    /\ UNCHANGED <<tree, child, rep, repOf, nextMerged, size, final, finals,
                   op, ref, stack, result, eval, numMerges, before>>

\* merge_refinement::undo
UndoMerge ==
    /\ op = "idle" /\ done # <<>> /\ done[Len(done)].ref.kind = "merge"
    /\ LET last == done[Len(done)] IN
       /\ \E l \in StateFromTrace(last.ref.red), r \in StateFromTrace(last.ref.blue) :
             /\ stack' = <<Call("undo", l, r, 0)>>
             /\ ref' = [last.ref EXCEPT !.red = l, !.blue = r]
       /\ before' = last.before
    /\ op' = "undo" /\ offer' = None
    /\ UNCHANGED <<tree, heap, result, eval, done, numMerges>>

UndoMergeDone ==
    /\ op = "undo" /\ stack = <<>>
    /\ numMerges' = numMerges - 1
    /\ IF red[ref.blue]
       THEN /\ red' = [red EXCEPT ![ref.blue] = FALSE, ![ref.red] = FALSE]
            /\ sink' = [sink EXCEPT ![ref.red] = NoSink]
       ELSE UNCHANGED <<red, sink>>
    /\ done' = SubSeq(done, 1, Len(done) - 1)
    /\ op' = "idle" /\ ref' = None /\ before' = None
    /\ UNCHANGED <<tree, child, rep, repOf, nextMerged, size, final, finals,
                   stack, result, eval, offer>>

-----------------------------------------------------------------------------

Finish == TestMergeDone \/ TestMergeUndone \/ DoMergeDone \/ UndoMergeDone
\* What runs to its end once it is called, and what the client calls.
Engine == MergeStep \/ UndoStep \/ Finish
Client ==
    /\ op = "idle"
    /\ \/ \E r \in Node \cap CandidateStates :
             \/ DoExtend(r)
             \/ \E l \in Node \cap MergeTargets(r) : TestMerge(l, r)
       \/ DoMerge \/ UndoMerge \/ UndoExtend

Next == Engine \/ Client

Spec == Init /\ [][Next]_vars
FairSpec == Spec /\ WF_vars(Engine)
=============================================================================
