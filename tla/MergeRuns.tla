------------------------------ MODULE MergeRuns ------------------------------
(***************************************************************************)
(* What the proofs of UndoExact and AssertionsHold reason about: heaps     *)
(* between two operations, and the run of one merge as a sequence of       *)
(* configurations.  A configuration is the heap, the calls of merge that   *)
(* are past their entry, and the nodes the merge has not come to yet; its  *)
(* steps are the joins and adoptions of the engine, without the find()     *)
(* loops between them.  undo_merge goes through the configurations of the  *)
(* run it takes back, last first.                                          *)
(***************************************************************************)
EXTENDS StateMerger

Guards(h) == h[1]
Reps(h) == h[2]
NextsMerged(h) == h[4]
Reds(h) == h[8]
Sinks(h) == h[9]

\* Every set of nodes has one whose pointer leaves the set.
WellFounded(ptr) == \A S \in SUBSET Node : S # {} => \E n \in S : ptr[n] \notin S

Finds(h) == findIn(Reps(h))

\* The state that holds the source of n.
Parent(h, n) == Finds(h)[tree.source[n]]

-----------------------------------------------------------------------------
(* The heap between two operations.                                        *)

\* A guard of a state leads to a tree node of that state's symbol whose source
\* is in the state; to a merged node only from red to red.
GuardsLead(h) ==
    \A x \in Node, a \in Symbol :
       LET t == Guards(h)[x][a] IN
       Reps(h)[x] = None /\ t # None =>
          /\ t \in tree.nodes \ {Root} /\ tree.symbol[t] = a /\ Parent(h, t) = x
          /\ Reps(h)[t] = None \/ (Reds(h)[x] /\ Reds(h)[Finds(h)[t]])

\* Every node is where the state that holds its source leads on its symbol, and
\* a state is the very target of that guard.
NodesFound(h) ==
    \A n \in tree.nodes \ {Root} :
       LET t == Guards(h)[Parent(h, n)][tree.symbol[n]] IN
       t # None /\ Finds(h)[t] = Finds(h)[n] /\ (Reps(h)[n] = None => t = n)

RedsBelowRed(h) ==
    \A n \in tree.nodes \ {Root} :
       Reds(h)[n] /\ Reps(h)[n] = None => Reds(h)[Parent(h, n)]

\* Going from states to the states that hold their sources comes to the root.
StatesHang(h) ==
    \A S \in SUBSET (tree.nodes \ {Root}) :
       S # {} /\ (\A n \in S : Reps(h)[n] = None) => \E n \in S : Parent(h, n) \notin S

\* What is set on colouring and on merging only.
Clean(h) ==
    \A n \in Node : /\ ~Reds(h)[n] => Sinks(h)[n] = NoSink
                    /\ Reps(h)[n] = None => NextsMerged(h)[n] = None

IdleHeap(h) ==
    /\ h \in Snapshot
    /\ WellFounded(Reps(h))
    /\ \A n \in Node : Reps(h)[n] # None => n \in tree.nodes /\ Reps(h)[n] \in tree.nodes
    /\ Reps(h)[Root] = None /\ Reds(h)[Root]
    /\ GuardsLead(h) /\ NodesFound(h) /\ RedsBelowRed(h) /\ StatesHang(h) /\ Clean(h)

\* Applicable(l, r) in the heap h.
MergeableIn(h, l, r) ==
    /\ l \in tree.nodes /\ r \in tree.nodes /\ l # r
    /\ Reds(h)[l] \/ Reds(h)[Parent(h, l)]
    /\ ~Reds(h)[r] /\ Reds(h)[Parent(h, r)]
    /\ Reps(h)[l] = None /\ Reps(h)[r] = None

\* The blue states, which may be coloured red.
Blues(h) ==
    {n \in tree.nodes \ {Root} :
        Reps(h)[n] = None /\ ~Reds(h)[n] /\ Reds(h)[Parent(h, n)]}

\* g is h with the states C coloured red, as whatever sinks.
Coloured(h, C, g) ==
    /\ C \subseteq Blues(h) /\ g \in Snapshot
    /\ g[1] = h[1] /\ g[2] = h[2] /\ g[3] = h[3] /\ g[4] = h[4]
    /\ g[5] = h[5] /\ g[6] = h[6] /\ g[7] = h[7]
    /\ \A n \in Node : Reds(g)[n] <=> Reds(h)[n] \/ n \in C
    /\ \A n \in Node \ C : Sinks(g)[n] = Sinks(h)[n]

-----------------------------------------------------------------------------
(* Runs.                                                                   *)

\* The nodes below r in the automaton with the guards g.
ClosedUnder(g, S) == \A x \in S, a \in Symbol : g[x][a] # None => g[x][a] \in S
Subtree(g, r) ==
    {x \in Node : \A S \in SUBSET Node : r \in S /\ ClosedUnder(g, S) => x \in S}

\* One merge: the heap it starts on, its two states, and whether it may stop
\* before it has merged everything (only a test may).
Run == [start : Snapshot, left : Node, right : Node, stops : BOOLEAN]

\* What may be merged away: the states below the right state.
Block(u) == Subtree(Guards(u.start), u.right)

Configuration ==
    [heap : Snapshot, depth : Nat, left : [Nat -> Node], right : [Nat -> Node],
     todo : [Nat -> SUBSET Symbol], fresh : SUBSET Node]

\* find(n): what is merged during the run is merged into a state at once.
Found(u, h, n) ==
    LET m == Finds(u.start)[n] IN IF Reps(h)[m] = None THEN m ELSE Reps(h)[m]

JoinHeap(h, l, r) ==
    <<h[1], [h[2] EXCEPT ![r] = l], [h[3] EXCEPT ![l] = r], [h[4] EXCEPT ![r] = h[3][l]],
      [h[5] EXCEPT ![l] = h[5][l] + h[5][r]], [h[6] EXCEPT ![l] = h[6][l] + h[6][r]],
      IF MERGE_DATA
      THEN [h[7] EXCEPT ![l] = [t \in Type |-> h[7][l][t] + h[7][r][t]]] ELSE h[7],
      h[8], h[9]>>

SeparateHeap(h, l, r) ==
    <<h[1], [h[2] EXCEPT ![r] = None], [h[3] EXCEPT ![l] = h[4][r]], [h[4] EXCEPT ![r] = None],
      [h[5] EXCEPT ![l] = h[5][l] - h[5][r]], [h[6] EXCEPT ![l] = h[6][l] - h[6][r]],
      IF MERGE_DATA
      THEN [h[7] EXCEPT ![l] = [t \in Type |-> h[7][l][t] - h[7][r][t]]] ELSE h[7],
      h[8], h[9]>>

GuardHeap(h, l, a, t) ==
    <<[h[1] EXCEPT ![l][a] = t], h[2], h[3], h[4], h[5], h[6], h[7], h[8], h[9]>>

Above(a) == {b \in Symbol : a < b}
Beneath(a) == {b \in Symbol : b < a}

\* Symbol a of the innermost call may be next.
Due(u, c, a) ==
    /\ c.depth > 0 /\ a \in c.todo[c.depth]
    /\ Guards(c.heap)[c.right[c.depth]][a] # None
    /\ u.stops \/ \A b \in c.todo[c.depth] :
                     Guards(c.heap)[c.right[c.depth]][b] # None => a <= b

FirstJoin(u, c, d) ==
    /\ c.depth = 0 /\ Reps(c.heap)[u.right] = None
    /\ d.heap = JoinHeap(c.heap, u.left, u.right)
    /\ d.depth = 1
    /\ d.left = [c.left EXCEPT ![1] = u.left]
    /\ d.right = [c.right EXCEPT ![1] = u.right]
    /\ d.todo = [c.todo EXCEPT ![1] = Symbol]
    /\ d.fresh = c.fresh \ {u.right}

Adoption(u, c, d, a) ==
    LET l == c.left[c.depth]
        t == Guards(c.heap)[c.right[c.depth]][a]
    IN /\ Due(u, c, a) /\ Guards(c.heap)[l][a] = None
       /\ d.heap = GuardHeap(c.heap, l, a, t)
       /\ d.depth = c.depth /\ d.left = c.left /\ d.right = c.right
       /\ d.todo = [c.todo EXCEPT ![c.depth] = Above(a)]
       /\ d.fresh = c.fresh \ Subtree(Guards(u.start), t)

FoldedJoin(u, c, d, a) ==
    LET t == Guards(c.heap)[c.left[c.depth]][a]
        l == Found(u, c.heap, t)
        r == Guards(c.heap)[c.right[c.depth]][a]
    IN /\ Due(u, c, a) /\ t # None
       /\ d.heap = JoinHeap(c.heap, l, r)
       /\ d.depth = c.depth + 1
       /\ d.left = [c.left EXCEPT ![c.depth + 1] = l]
       /\ d.right = [c.right EXCEPT ![c.depth + 1] = r]
       /\ d.todo = [c.todo EXCEPT ![c.depth] = Above(a), ![c.depth + 1] = Symbol]
       /\ d.fresh = c.fresh \ {r}

Return(u, c, d) ==
    /\ c.depth > 0
    /\ u.stops \/ \A b \in c.todo[c.depth] : Guards(c.heap)[c.right[c.depth]][b] = None
    /\ d.heap = c.heap /\ d.depth = c.depth - 1
    /\ d.left = c.left /\ d.right = c.right /\ d.todo = c.todo /\ d.fresh = c.fresh

RunStep(u, c, d) ==
    \/ FirstJoin(u, c, d)
    \/ \E a \in Symbol : Adoption(u, c, d, a) \/ FoldedJoin(u, c, d, a)
    \/ Return(u, c, d)

StartsRun(u, c) ==
    c \in Configuration /\ c.heap = u.start /\ c.depth = 0 /\ c.fresh = Block(u)

Inductive(u, S) ==
    /\ \A c \in Configuration : StartsRun(u, c) => c \in S
    /\ \A c \in S, d \in Configuration : RunStep(u, c, d) => d \in S

\* The configurations of the run.
Reach(u) ==
    {c \in Configuration : \A S \in SUBSET Configuration : Inductive(u, S) => c \in S}

-----------------------------------------------------------------------------
(* What holds where a run starts, and in each of its configurations.       *)

\* The block is a tree of states below the right state, which hangs outside of
\* it, and no guard of a state leads into it by way of a merged node.
BlockIsTree(u) ==
    /\ u \in Run /\ tree \in Trees
    /\ WellFounded(Reps(u.start))
    /\ Reps(u.start)[u.left] = None /\ u.left \notin Block(u)
    /\ \A x \in Node : Reps(u.start)[x] = None => NextsMerged(u.start)[x] = None
    /\ \A x \in Block(u) :
          /\ x \in tree.nodes \ {Root} /\ Reps(u.start)[x] = None
          /\ Parent(u.start, x) \in Node
          /\ Guards(u.start)[Parent(u.start, x)][tree.symbol[x]] = x
          /\ x = u.right <=> Parent(u.start, x) \notin Block(u)
    /\ \A x \in Node, a \in Symbol :
          LET t == Guards(u.start)[x][a] IN
          Reps(u.start)[x] = None /\ t # None =>
             /\ tree.symbol[t] = a /\ Parent(u.start, t) = x
             /\ Reps(u.start)[t] = None \/ Finds(u.start)[t] \notin Block(u)

\* Whether the run has begun, and what it has not come to is as it was.
FreshOK(u, c) ==
    /\ c.fresh \subseteq Block(u)
    /\ u.right \in c.fresh <=> Reps(c.heap)[u.right] = None
    /\ Reps(c.heap)[u.right] = None =>
          c.heap = u.start /\ c.depth = 0 /\ c.fresh = Block(u)
    /\ Reps(c.heap)[u.right] # None => Reps(c.heap)[u.right] = u.left
    /\ \A x \in c.fresh :
          /\ Reps(c.heap)[x] = None
          /\ \/ x = u.right
             \/ Parent(u.start, x) \in c.fresh
             \/ Reps(c.heap)[Parent(u.start, x)] # None
    /\ ClosedUnder(Guards(u.start), c.fresh)

\* What is merged is in the block and goes into a state.
RepsOK(u, c) ==
    /\ \A x \in Node \ Block(u) : Reps(c.heap)[x] = Reps(u.start)[x]
    /\ \A x \in Block(u) : Reps(c.heap)[x] # None =>
          /\ Reps(c.heap)[x] \in Node \ c.fresh
          /\ Reps(c.heap)[Reps(c.heap)[x]] = None
    /\ \A x \in Node : Reps(c.heap)[x] = None => NextsMerged(c.heap)[x] = None

Adopted(u, c, x, a) ==
    LET t == Guards(c.heap)[x][a] IN
    /\ Guards(u.start)[x][a] = None
    /\ x \notin c.fresh /\ Reps(c.heap)[x] = None
    /\ t \in Block(u) \ c.fresh /\ Reps(c.heap)[t] = None
    /\ tree.symbol[t] = a /\ Found(u, c.heap, tree.source[t]) = x

\* Guards change by adoption only, and never those of what is or will be merged.
GuardsOK(u, c) ==
    /\ \A x \in Block(u) :
          x \in c.fresh \/ Reps(c.heap)[x] # None => Guards(c.heap)[x] = Guards(u.start)[x]
    /\ \A x \in Node, a \in Symbol :
          Guards(c.heap)[x][a] = Guards(u.start)[x][a] \/ Adopted(u, c, x, a)

\* A child of a merged node is untouched, adopted by the state the node went to,
\* or merged with that state's child.
FoldedOK(u, c) ==
    \A x \in Block(u), a \in Symbol :
       LET t == Guards(u.start)[x][a]
           d == Guards(c.heap)[Reps(c.heap)[x]][a]
       IN Reps(c.heap)[x] # None /\ t # None =>
             \/ t \in c.fresh
             \/ d = t
             \/ Reps(c.heap)[t] # None /\ d # None /\ Found(u, c.heap, d) = Reps(c.heap)[t]

FrameOK(u, c, i) ==
    /\ c.left[i] \notin c.fresh /\ Reps(c.heap)[c.left[i]] = None
    /\ c.right[i] \in Block(u) /\ Reps(c.heap)[c.right[i]] = c.left[i]
    /\ \A j \in 1 .. c.depth : c.right[i] = c.right[j] => i = j
    /\ \A a \in c.todo[i] :
          /\ Guards(u.start)[c.right[i]][a] # None => Guards(u.start)[c.right[i]][a] \in c.fresh
          /\ Above(a) \subseteq c.todo[i]

FramesOK(u, c) ==
    /\ c.depth > 0 => c.left[1] = u.left /\ c.right[1] = u.right
    /\ \A i \in 1 .. c.depth : FrameOK(u, c, i)

\* Call i makes call i + 1 for the children on b.
Link(u, c, i, b) ==
    LET t == Guards(c.heap)[c.left[i]][b] IN
    /\ c.todo[i] = Above(b)
    /\ t # None /\ t # c.right[i + 1] /\ Found(u, c.heap, t) = c.left[i + 1]
    /\ Guards(u.start)[c.right[i]][b] = c.right[i + 1]

LinksOK(u, c) ==
    \A i \in 1 .. c.depth : i < c.depth => \E b \in Symbol : Link(u, c, i, b)

\* A merge that does not stop leaves a child alone only while it is pending.
PendingOK(u, c) ==
    \A x \in Block(u) \ c.fresh, a \in Symbol :
       Guards(u.start)[x][a] \in c.fresh =>
          u.stops \/ \E i \in 1 .. c.depth : c.right[i] = x /\ a \in c.todo[i]

Sound(u, c) ==
    /\ c \in Configuration
    /\ Reds(c.heap) = Reds(u.start) /\ Sinks(c.heap) = Sinks(u.start)
    /\ FreshOK(u, c) /\ RepsOK(u, c) /\ GuardsOK(u, c) /\ FoldedOK(u, c)
    /\ FramesOK(u, c) /\ LinksOK(u, c) /\ PendingOK(u, c)

\* What is merged hangs below what is merged, up to the right state, and stays
\* within the tree.
Gathered(u, c) ==
    \A x \in Block(u) : Reps(c.heap)[x] # None =>
       /\ x = u.right \/ Reps(c.heap)[Parent(u.start, x)] # None
       /\ Reps(c.heap)[x] \in tree.nodes

\* The states hang below the root all the time.
Hanging(u, c) ==
    \A S \in SUBSET (tree.nodes \ {Root}) :
       S # {} /\ (\A n \in S : Reps(c.heap)[n] = None) =>
          \E n \in S : Found(u, c.heap, tree.source[n]) \notin S

-----------------------------------------------------------------------------
(* Operations between idle heaps.                                          *)

\* u is a merge made on the heap b: a test does not colour, merge_refinement
\* colours two blue states before it merges them.
RunsOn(u, b) ==
    /\ tree \in Trees /\ u \in Run
    /\ IdleHeap(b) /\ MergeableIn(b, u.left, u.right)
    /\ Coloured(b, IF u.stops \/ Reds(b)[u.left] THEN {} ELSE {u.left, u.right}, u.start)
    /\ Sinks(u.start)[u.right] = Sinks(b)[u.right]

\* The end of a run.
Ends(u, c) ==
    c \in Reach(u) /\ c.depth = 0 /\ (u.stops \/ Reps(c.heap)[u.right] # None)

-----------------------------------------------------------------------------
(* The recursive calls on the stack s, and the configuration c they are in: *)
(* call i is call i of c, and a call that is not past its entry comes on   *)
(* top of them.                                                            *)

Stacked(c, s, k, n) ==
    /\ c.depth > 0 /\ Len(s) = n
    /\ \A i \in 1 .. c.depth :
          s[i].kind = k /\ s[i].left = c.left[i] /\ s[i].right = c.right[i]

Called(u, s, k) ==
    /\ Len(s) = 1
    /\ s[1].kind = k /\ s[1].at = "entry" /\ s[1].left = u.left /\ s[1].right = u.right

\* The children on a of the two nodes of the innermost call.
LeftChild(c, a) == Guards(c.heap)[c.left[c.depth]][a]
RightChild(c, a) == Guards(c.heap)[c.right[c.depth]][a]

\* Call n + 1 is for those children.
Calls(u, c, s, k, a) ==
    LET f == s[c.depth + 1] IN
    /\ f.kind = k /\ f.at = "entry"
    /\ f.left = Found(u, c.heap, LeftChild(c, a)) /\ f.right = RightChild(c, a)

\* Call n is looking for them.
Looks(u, c, s, a) ==
    LET f == s[c.depth] IN
    /\ f.at = "find" /\ f.lc \in Node
    /\ Found(u, c.heap, f.lc) = Found(u, c.heap, LeftChild(c, a))
    /\ f.rc = RightChild(c, a)

\* merge has no more symbols to do than the configuration; fewer when a test
\* did not merge the children on some.
Rests(u, c, s, i) ==
    /\ s[i].at = "loop" /\ s[i].todo \subseteq c.todo[i]
    /\ u.stops \/ s[i].todo = c.todo[i]
Resting(u, c, s) == \A i \in 1 .. c.depth : i < c.depth => Rests(u, c, s, i)

Takes(u, c, T, a) ==
    /\ Due(u, c, a) /\ LeftChild(c, a) # None
    /\ T \subseteq Above(a) /\ (u.stops \/ T = Above(a))

MergeCalled(u, c, s) ==
    c.depth = 0 /\ Reps(c.heap)[u.right] = None /\ Called(u, s, "merge")
MergeEnded(u, c, s) ==
    c.depth = 0 /\ Len(s) = 0 /\ (u.stops \/ Reps(c.heap)[u.right] # None)
MergeLoops(u, c, s) ==
    Stacked(c, s, "merge", c.depth) /\ Resting(u, c, s) /\ Rests(u, c, s, c.depth)
MergeFinds(u, c, s, a) ==
    /\ Stacked(c, s, "merge", c.depth) /\ Resting(u, c, s)
    /\ Takes(u, c, s[c.depth].todo, a) /\ Looks(u, c, s, a)
MergeEnters(u, c, s, a) ==
    /\ Stacked(c, s, "merge", c.depth + 1) /\ Resting(u, c, s)
    /\ s[c.depth].at = "loop" /\ Takes(u, c, s[c.depth].todo, a)
    /\ Calls(u, c, s, "merge", a)

Merging(u, c, s) ==
    \/ MergeCalled(u, c, s) \/ MergeEnded(u, c, s) \/ MergeLoops(u, c, s)
    \/ \E a \in Symbol : MergeFinds(u, c, s, a) \/ MergeEnters(u, c, s, a)

\* undo_merge has the symbols to do that the configuration is past.
Waits(c, s, i) ==
    /\ s[i].at = "loop"
    /\ \E b \in Symbol : c.todo[i] = Above(b) /\ s[i].todo = Beneath(b)
Waiting(c, s) == \A i \in 1 .. c.depth : i < c.depth => Waits(c, s, i)

Turns(u, c, T, a) ==
    /\ RightChild(c, a) # None /\ LeftChild(c, a) \notin {None, RightChild(c, a)}
    /\ T = Beneath(a)
    /\ \A b \in Symbol : RightChild(c, b) # None /\ b \notin c.todo[c.depth] => b <= a
    /\ u.stops \/ a \notin c.todo[c.depth]

UndoCalled(u, c, s) ==
    c.depth = 0 /\ Called(u, s, "undo") /\ (u.stops \/ Reps(c.heap)[u.right] # None)
UndoEnded(u, c, s) ==
    c.depth = 0 /\ Len(s) = 0 /\ Reps(c.heap)[u.right] = None
UndoLoops(u, c, s) ==
    LET T == s[c.depth].todo IN
    /\ Stacked(c, s, "undo", c.depth) /\ Waiting(c, s)
    /\ s[c.depth].at = "loop"
    /\ \A a \in T : Beneath(a) \subseteq T
    /\ \A a \in Symbol : RightChild(c, a) # None =>
          IF a \in c.todo[c.depth] THEN u.stops \/ a \notin T ELSE a \in T
UndoFinds(u, c, s, a) ==
    /\ Stacked(c, s, "undo", c.depth) /\ Waiting(c, s)
    /\ Turns(u, c, s[c.depth].todo, a) /\ Looks(u, c, s, a)
UndoEnters(u, c, s, a) ==
    /\ Stacked(c, s, "undo", c.depth + 1) /\ Waiting(c, s)
    /\ s[c.depth].at = "loop" /\ Turns(u, c, s[c.depth].todo, a)
    /\ Calls(u, c, s, "undo", a)

Undoing(u, c, s) ==
    \/ UndoCalled(u, c, s) \/ UndoEnded(u, c, s) \/ UndoLoops(u, c, s)
    \/ \E a \in Symbol : UndoFinds(u, c, s, a) \/ UndoEnters(u, c, s, a)

\* A test that is not performed only looks: its calls are for two states.
LookFrames(u) ==
    {f \in Frame :
        /\ f.kind = "merge" /\ f.left # f.right
        /\ Reps(u.start)[f.left] = None /\ f.right \in Block(u)
        /\ f.at = "find" => f.rc \in Block(u) /\ Finds(u.start)[f.lc] # f.rc}
Looking(u, s) == s \in Seq(LookFrames(u))
=============================================================================
