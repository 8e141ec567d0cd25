--------------------------- MODULE CorrectProofs ---------------------------
(***************************************************************************)
(* Undo is exact, the assertions of merge and undo_merge hold, refinements *)
(* find their states again, and the states that are not red are the roots  *)
(* of trees: by one invariant that says of the operation in progress which *)
(* run it is and where in it, and of every refinement in effect what it    *)
(* did to the heap it was performed on.  At the end, sinks stay inherited, *)
(* counts are conserved and the lists of merged nodes are exact.           *)
(***************************************************************************)
EXTENDS StateMergerCorrect, StateMergerProofs

\* The heap g that a merge or an extension r leaves behind of b.
Merged(r, b, g) ==
    \E u \in Run : /\ ~u.stops /\ u.left = r.red /\ u.right = r.blue /\ RunsOn(u, b)
                   /\ \E c \in Reach(u) : Ends(u, c) /\ c.heap = g
Extended(r, b, g) == r.blue = r.red /\ IdleHeap(b) /\ Coloured(b, {r.red}, g)
Effect(r, b, g) == IF r.kind = "merge" THEN Merged(r, b, g) ELSE Extended(r, b, g)

\* The refinements in effect, each on the heap the one before it left behind.
LeftBehind(i) == IF i < Len(done) THEN done[i + 1].before ELSE settled
HistoryOK ==
    \A i \in 1 .. Len(done) : i <= Len(done) - undone =>
       Effect(done[i].ref, done[i].before, LeftBehind(i))

SettledOK ==
    /\ IdleHeap(settled)
    /\ offer # None => offer.kind = "merge" /\ MergeableIn(settled, offer.red, offer.blue)
    /\ HistoryOK

\* The run u an operation makes, and where in it the operation is.
Performs(u) == \E c \in Reach(u) : c.heap = heap /\ Merging(u, c, stack)
Reverts(u) == \E c \in Reach(u) : c.heap = heap /\ Undoing(u, c, stack)
LooksAt(u) == u.start = heap /\ Looking(u, stack)

Operates(u) ==
    /\ u.left = ref.red /\ u.right = ref.blue /\ RunsOn(u, before)
    /\ u.stops <=> op \in {"test", "untest"}
    /\ op \in {"test", "do"} => IF Performing THEN Performs(u) ELSE LooksAt(u)
    /\ op \in {"untest", "undo"} => Reverts(u)

ControlOK ==
    /\ op = "idle" => before = None /\ stack = <<>>
    /\ op # "idle" => ref.kind = "merge" /\ \E u \in Run : Operates(u)
    /\ op \in {"test", "do", "undo"} => offer = None
    /\ op = "undo" => done # <<>> /\ before = done[Len(done)].before

Inv == SettledOK /\ ControlOK

-----------------------------------------------------------------------------
(* What does not depend on anything but the tree.                          *)

\* The tree never changes.
LEMMA TreeFixed ==
    ASSUME tree' = tree, NEW x, NEW y, NEW z
    PROVE  /\ IdleHeap(x)' <=> IdleHeap(x)
           /\ MergeableIn(x, y, z)' <=> MergeableIn(x, y, z)
           /\ Coloured(x, y, z)' <=> Coloured(x, y, z)
           /\ RunsOn(x, y)' <=> RunsOn(x, y)
  <1>1. IdleHeap(x)' <=> IdleHeap(x)
    BY DEF IdleHeap, GuardsLead, NodesFound, RedsBelowRed, StatesHang, Clean, Parent
  <1>2. MergeableIn(x, y, z)' <=> MergeableIn(x, y, z)
    BY DEF MergeableIn, Parent
  <1>3. Coloured(x, y, z)' <=> Coloured(x, y, z)
    BY DEF Coloured, Blues, Parent
  <1>4. RunsOn(x, y)' <=> RunsOn(x, y)
    <2>1. IdleHeap(y)' <=> IdleHeap(y)
      BY DEF IdleHeap, GuardsLead, NodesFound, RedsBelowRed, StatesHang, Clean, Parent
    <2>2. MergeableIn(y, x.left, x.right)' <=> MergeableIn(y, x.left, x.right)
      BY DEF MergeableIn, Parent
    <2>3. ASSUME NEW s
          PROVE  Coloured(y, s, x.start)' <=> Coloured(y, s, x.start)
      BY DEF Coloured, Blues, Parent
    <2>4. QED
      BY <2>1, <2>2, <2>3 DEF RunsOn
  <1>5. QED
    BY <1>1, <1>2, <1>3, <1>4

\* So what a refinement did to the heap stays what it did.
LEMMA EffectFixed ==
    ASSUME tree' = tree, NEW r, NEW b, NEW g
    PROVE  Effect(r, b, g)' <=> Effect(r, b, g)
  <1>1. Merged(r, b, g)' <=> Merged(r, b, g)
    BY TreeFixed DEF Merged
  <1>2. Extended(r, b, g)' <=> Extended(r, b, g)
    BY TreeFixed DEF Extended
  <1>3. QED
    BY <1>1, <1>2 DEF Effect

\* Nor do the refinements in effect change on their own.
LEMMA HistoryKept ==
    ASSUME TypeOK, HistoryOK, tree' = tree, settled' = settled, undone' = undone, done' = done
    PROVE  HistoryOK'
  <1> SUFFICES ASSUME NEW i \in 1 .. Len(done), i <= Len(done) - undone
               PROVE  Effect(done[i].ref, done[i].before, LeftBehind(i))'
    BY DEF HistoryOK
  <1>1. Effect(done[i].ref, done[i].before, LeftBehind(i))
    BY DEF HistoryOK
  <1>2. LeftBehind(i)' = LeftBehind(i)
    BY DEF LeftBehind
  <1>3. QED
    BY <1>1, <1>2, EffectFixed

\* What a step settles.
LEMMA SettledBy ==
    ASSUME tree' = tree, NEW g, g = settled', IdleHeap(g), NEW o, o = offer',
           o # None => o.kind = "merge" /\ MergeableIn(g, o.red, o.blue), HistoryOK'
    PROVE  SettledOK'
  <1>1. IdleHeap(settled)'
    BY TreeFixed
  <1>2. offer' # None =>
           offer'.kind = "merge" /\ MergeableIn(settled, offer.red, offer.blue)'
    BY TreeFixed
  <1>3. QED
    BY <1>1, <1>2 DEF SettledOK

\* Nothing is settled by a step within an operation.
LEMMA SettledKept ==
    ASSUME TypeOK, SettledOK, tree' = tree, settled' = settled, undone' = undone,
           done' = done, offer' = offer
    PROVE  SettledOK'
  <1>1. HistoryOK'
    BY HistoryKept DEF SettledOK
  <1>2. IdleHeap(settled) /\ offer # None =>
           offer.kind = "merge" /\ MergeableIn(settled, offer.red, offer.blue)
    BY DEF SettledOK
  <1>3. QED
    BY <1>1, <1>2, SettledBy DEF SettledOK

-----------------------------------------------------------------------------
(* The start.                                                              *)

\* The prefix tree is a heap between two operations.
LEMMA InitIdle ==
    ASSUME Init
    PROVE  IdleHeap(heap)
  <1>1. /\ tree \in Trees /\ child = tree.child
        /\ rep = [n \in Node |-> None] /\ nextMerged = [n \in Node |-> None]
        /\ red = [n \in Node |-> n = Root] /\ sink = [n \in Node |-> NoSink]
    BY DEF Init, AptaInit
  <1>2. heap \in Snapshot
    BY InitTypeOK, HeapSnapshot DEF TypeOK
  <1>3. /\ Guards(heap) = child /\ Reps(heap) = rep /\ NextsMerged(heap) = nextMerged
        /\ Reds(heap) = red /\ Sinks(heap) = sink
        /\ \A n : Parent(heap, n) = find[tree.source[n]]
        /\ Finds(heap) = find
    BY HeapParts
  <1>4. WellFounded(rep)
    BY <1>1, AptaAssumption DEF WellFounded
  <1>5. rep \in [Node -> Node \cup {None}]
    BY <1>1
  <1>6. find \in [Node -> Node] /\ \A n \in Node : find[n] = n
    BY <1>1, <1>4, <1>5, FindEquation DEF find
  <1>7. /\ tree.nodes \subseteq Node /\ Root \in tree.nodes
        /\ \A n \in tree.nodes \ {Root} :
              /\ tree.source[n] \in tree.nodes /\ tree.symbol[n] \in Symbol
              /\ child[tree.source[n]][tree.symbol[n]] = n
        /\ \A m \in Node, a \in Symbol : child[m][a] # None =>
              /\ child[m][a] \in tree.nodes \ {Root}
              /\ tree.source[child[m][a]] = m /\ tree.symbol[child[m][a]] = a
    BY <1>1, TreeFacts
  <1>8. GuardsLead(heap)
    BY <1>1, <1>3, <1>6, <1>7 DEF GuardsLead
  <1>9. NodesFound(heap)
    BY <1>1, <1>3, <1>6, <1>7, AptaAssumption DEF NodesFound
  <1>10. RedsBelowRed(heap) /\ red[Root] /\ rep[Root] = None
    <2>1. \A n \in Node : red[n] <=> n = Root
      BY <1>1
    <2>2. QED
      BY <1>1, <1>3, <1>7, <2>1, AptaAssumption DEF RedsBelowRed
  <1>11. Clean(heap)
    BY <1>1, <1>3 DEF Clean
  <1>12. \A n \in Node : rep[n] = None
    BY <1>1
  <1>13. StatesHang(heap)
    <2> SUFFICES ASSUME NEW S \in SUBSET (tree.nodes \ {Root}), S # {}
                 PROVE  \E n \in S : Parent(heap, n) \notin S
      BY DEF StatesHang
    <2>1. PICK n \in S : tree.source[n] \notin S
      BY <1>1, TreeFacts
    <2>2. Parent(heap, n) = tree.source[n]
      BY <1>3, <1>6, <1>7, <2>1
    <2>3. QED
      BY <2>1, <2>2
  <1>14. QED
    BY <1>2, <1>3, <1>4, <1>8, <1>9, <1>10, <1>11, <1>12, <1>13 DEF IdleHeap

\* No operation is in progress and none was performed.
LEMMA InitInv ==
    ASSUME Init
    PROVE  Inv
  <1>1. op = "idle" /\ stack = <<>> /\ offer = None /\ done = <<>> /\ before = None
    BY DEF Init
  <1>2. IdleHeap(settled)
    BY <1>1, InitIdle DEF settled
  <1>3. HistoryOK
    BY <1>1, EmptySeq DEF HistoryOK
  <1>4. QED
    BY <1>1, <1>2, <1>3 DEF Inv, SettledOK, ControlOK

-----------------------------------------------------------------------------
(* Steps within an operation.                                              *)

\* An operation in progress is a run on an idle heap.
LEMMA OperatesFacts ==
    ASSUME TypeOK, Inv, op # "idle"
    PROVE  \E u \in Run : Operates(u) /\ BlockIsTree(u) /\ RunsOn(u, before)
  BY RunStarts DEF Inv, ControlOK, Operates

\* merge and undo_merge go on with the run.
LEMMA CallInv ==
    ASSUME TypeOK, Inv, MergeStep \/ UndoStep
    PROVE  Inv'
  <1>1. /\ tree' = tree /\ op' = op /\ ref' = ref /\ offer' = offer /\ done' = done
        /\ before' = before
    BY DEF MergeStep, UndoStep, MergeStop, MergeNodes, MergeAdopt, MergeChildren, MergeFind,
       MergeRecurse, MergeReturn, UndoSkip, UndoEnter, UndoAdopt, UndoChildren, UndoFind,
       UndoRecurse, UndoNodes, heap
  <1>2. op # "idle"
    BY DEF Inv, ControlOK, MergeStep, UndoStep, MergeStop, MergeNodes, MergeAdopt,
       MergeChildren, MergeFind, MergeRecurse, MergeReturn, UndoSkip, UndoEnter, UndoAdopt,
       UndoChildren, UndoFind, UndoRecurse, UndoNodes, At
  <1>3. settled' = settled /\ undone' = undone
    BY <1>1, <1>2 DEF settled, undone
  <1>4. SettledOK'
    BY <1>1, <1>3, SettledKept DEF Inv
  <1>5. PICK u \in Run : Operates(u) /\ BlockIsTree(u) /\ RunsOn(u, before)
    BY <1>2, OperatesFacts
  <1>6. op \in {"test", "do"} \/ op \in {"untest", "undo"}
    BY <1>2 DEF TypeOK, Op
  <1>7. Performing' <=> Performing
    BY <1>1 DEF Performing
  <1>8. ASSUME op \in {"test", "do"}
        PROVE  IF Performing THEN Performs(u)' ELSE LooksAt(u)'
    <2>1. CASE Performing
      <3>1. PICK c \in Reach(u) : c.heap = heap /\ Merging(u, c, stack)
        BY <1>5, <1>8, <2>1 DEF Operates, Performs
      <3>2. MergeStep
        BY <3>1, MergingOnly
      <3>3. Testing => u.stops
        BY <1>5 DEF Operates, Testing
      <3>4. \E d \in Reach(u) : d.heap = heap' /\ Merging(u, d, stack')
        BY <1>5, <2>1, <3>1, <3>2, <3>3, MergeStepRun
      <3>5. QED
        BY <2>1, <3>4 DEF Performs
    <2>2. CASE ~Performing
      <3>1. u.start = heap /\ Looking(u, stack)
        BY <1>5, <1>8, <2>2 DEF Operates, LooksAt
      <3>2. MergeStep
        BY <1>5, <3>1, LookingFacts
      <3>3. heap' = heap /\ Looking(u, stack')
        BY <1>5, <2>2, <3>1, <3>2, LookingStep
      <3>4. QED
        BY <2>2, <3>1, <3>3 DEF LooksAt
    <2>3. QED
      BY <2>1, <2>2
  <1>9. ASSUME op \in {"untest", "undo"}
         PROVE  Reverts(u)'
    <2>1. PICK c \in Reach(u) : c.heap = heap /\ Undoing(u, c, stack)
      BY <1>5, <1>9 DEF Operates, Reverts
    <2>2. UndoStep
      BY <2>1, UndoingOnly
    <2>3. \E d \in Reach(u) : d.heap = heap' /\ Undoing(u, d, stack')
      BY <1>5, <2>1, <2>2, UndoStepRun
    <2>4. QED
      BY <2>3 DEF Reverts
  <1>10. Operates(u)'
    <2>1. RunsOn(u, before)'
      BY <1>1, <1>5, TreeFixed
    <2>2. QED
      BY <1>1, <1>5, <1>7, <1>8, <1>9, <2>1 DEF Operates
  <1>11. ControlOK'
    BY <1>1, <1>2, <1>10 DEF Inv, ControlOK
  <1>12. QED
    BY <1>4, <1>11 DEF Inv

\* Nothing happens.
LEMMA StutterInv ==
    ASSUME TypeOK, Inv, UNCHANGED vars
    PROVE  Inv'
  <1>1. /\ tree' = tree /\ heap' = heap /\ op' = op /\ ref' = ref /\ offer' = offer
        /\ done' = done /\ before' = before /\ stack' = stack
    BY DEF vars, control
  <1>2. settled' = settled /\ undone' = undone
    BY <1>1 DEF settled, undone
  <1>3. SettledOK'
    BY <1>1, <1>2, SettledKept DEF Inv
  <1>4. ASSUME NEW u \in Run, Operates(u)
        PROVE  Operates(u)'
    <2>1. RunsOn(u, before)'
      BY <1>1, <1>4, TreeFixed DEF Operates
    <2>2. QED
      BY <1>1, <1>4, <2>1 DEF Operates, Performs, LooksAt, Reverts, Performing
  <1>5. ControlOK'
    BY <1>1, <1>4 DEF Inv, ControlOK
  <1>6. QED
    BY <1>3, <1>5 DEF Inv

-----------------------------------------------------------------------------
(* The refinements in effect.                                              *)

\* One more.
LEMMA HistoryGrown ==
    ASSUME TypeOK, HistoryOK, tree' = tree, undone = 0, undone' = 0,
           NEW e \in [ref : Refinement, before : Snapshot], done' = Append(done, e),
           e.before = settled, NEW g, g = settled', Effect(e.ref, e.before, g)
    PROVE  HistoryOK'
  <1>0. PICK n \in Nat : n = Len(done)
    BY LenProperties DEF TypeOK
  <1>1. /\ done \in Seq([ref : Refinement, before : Snapshot]) /\ n \in Nat
        /\ Len(done') = n + 1 /\ done'[n + 1] = e
        /\ \A i \in 1 .. n : done'[i] = done[i]
    BY <1>0, AppendProperties, LenProperties DEF TypeOK
  <1>2. \A i \in 1 .. n : Effect(done[i].ref, done[i].before, LeftBehind(i))
    BY <1>0, <1>1 DEF HistoryOK
  <1>3. ASSUME NEW i \in 1 .. n
        PROVE  LeftBehind(i)' = LeftBehind(i)
    <2>1. CASE i < n
      <3>1. i < n + 1 /\ i + 1 \in 1 .. n
        BY <1>1, <2>1
      <3>2. QED
        BY <1>0, <1>1, <2>1, <3>1 DEF LeftBehind
    <2>2. CASE i = n
      <3>1. i < n + 1 /\ ~ i < n
        BY <1>1, <2>2
      <3>2. QED
        BY <1>0, <1>1, <2>2, <3>1 DEF LeftBehind
    <2>3. QED
      BY <1>1, <2>1, <2>2
  <1>4. ASSUME NEW i \in 1 .. n
        PROVE  Effect(done[i].ref, done[i].before, LeftBehind(i))'
    <2>1. done'[i] = done[i]
      BY <1>1
    <2>2. QED
      BY <1>2, <1>3, <2>1, EffectFixed
  <1>5. Effect(done[n + 1].ref, done[n + 1].before, LeftBehind(n + 1))'
    <2>1. /\ LeftBehind(n + 1)' = g /\ (done[n + 1])' = e
      BY <1>1 DEF LeftBehind
    <2>2. QED
      BY <2>1, EffectFixed
  <1>6. QED
    <2> SUFFICES ASSUME NEW i \in 1 .. n + 1
                 PROVE  Effect(done[i].ref, done[i].before, LeftBehind(i))'
      BY <1>1 DEF HistoryOK
    <2>1. i \in 1 .. n \/ i = n + 1
      BY <1>0
    <2>2. QED
      BY <1>4, <1>5, <2>1

\* One less.
LEMMA HistoryShrunk ==
    ASSUME TypeOK, HistoryOK, tree' = tree, done # <<>>, undone \in {0, 1}, undone' = 0,
           done' = SubSeq(done, 1, Len(done) - 1), settled' = done[Len(done)].before
    PROVE  HistoryOK'
  <1> DEFINE n == Len(done) - 1
  <1>1. /\ done \in Seq([ref : Refinement, before : Snapshot]) /\ n \in Nat
        /\ Len(done) = n + 1
    BY LastElement DEF TypeOK
  <1> HIDE DEF n
  <1>2. Len(done') = n /\ \A i \in 1 .. n : done'[i] = done[i]
    <2>1. done' = SubSeq(done, 1, n)
      BY DEF n
    <2>2. QED
      BY <1>1, <2>1, WithoutLast
  <1>3. \A i \in 1 .. n : Effect(done[i].ref, done[i].before, LeftBehind(i))
    BY <1>1 DEF HistoryOK
  <1>4. ASSUME NEW i \in 1 .. n
        PROVE  LeftBehind(i)' = LeftBehind(i)
    <2>1. i < n + 1
      BY <1>1
    <2>2. CASE i < n
      <3>1. i + 1 \in 1 .. n
        BY <1>1, <2>2
      <3>2. QED
        BY <1>1, <1>2, <2>1, <2>2, <3>1 DEF LeftBehind
    <2>3. CASE i = n
      <3>1. ~ i < n
        BY <1>1, <2>3
      <3>2. QED
        BY <1>1, <1>2, <2>1, <2>3, <3>1 DEF LeftBehind
    <2>4. QED
      BY <1>1, <2>2, <2>3
  <1>5. ASSUME NEW i \in 1 .. n
        PROVE  Effect(done[i].ref, done[i].before, LeftBehind(i))'
    <2>1. done'[i] = done[i]
      BY <1>2
    <2>2. QED
      BY <1>3, <1>4, <2>1, EffectFixed
  <1>6. QED
    BY <1>2, <1>5 DEF HistoryOK

\* The last one is being undone.
LEMMA HistoryUndone ==
    ASSUME TypeOK, HistoryOK, tree' = tree, done # <<>>, undone = 0, undone' = 1,
           done' = done
    PROVE  HistoryOK'
  <1>1. Len(done) \in Nat
    BY LenProperties DEF TypeOK
  <1> SUFFICES ASSUME NEW i \in 1 .. Len(done), i <= Len(done) - 1
               PROVE  Effect(done[i].ref, done[i].before, LeftBehind(i))'
    BY DEF HistoryOK
  <1>2. i < Len(done) /\ i <= Len(done) - undone
    BY <1>1
  <1>3. LeftBehind(i)' = LeftBehind(i)
    BY <1>2 DEF LeftBehind
  <1>4. Effect(done[i].ref, done[i].before, LeftBehind(i))
    BY <1>2 DEF HistoryOK
  <1>5. QED
    BY <1>3, <1>4, EffectFixed

\* What the last one did is there to see.
LEMMA LastEffect ==
    ASSUME TypeOK, HistoryOK, op = "idle", done # <<>>
    PROVE  /\ done[Len(done)] \in [ref : Refinement, before : Snapshot]
           /\ Effect(done[Len(done)].ref, done[Len(done)].before, heap)
  <1>1. done[Len(done)] \in [ref : Refinement, before : Snapshot] /\ Len(done) \in Nat \ {0}
    BY LastElement, LenProperties, EmptySeq DEF TypeOK
  <1>2. Len(done) \in 1 .. Len(done) /\ Len(done) <= Len(done) - undone
    BY <1>1 DEF undone
  <1>3. LeftBehind(Len(done)) = heap
    BY <1>1 DEF LeftBehind, settled
  <1>4. QED
    BY <1>1, <1>2, <1>3 DEF HistoryOK

-----------------------------------------------------------------------------
(* The end of an operation.                                                *)

\* No call is left when merge has ended.
LEMMA MergingEnds ==
    ASSUME NEW u, NEW c \in Configuration, Merging(u, c, stack), stack = <<>>
    PROVE  MergeEnded(u, c, stack)
  <1>1. Len(stack) = 0 /\ c.depth \in Nat
    BY ConfigurationTyped, EmptySeq
  <1>2. QED
    BY <1>1 DEF Merging, MergeCalled, MergeLoops, MergeFinds, MergeEnters, Called, Stacked

\* No call is left when undo_merge has ended.
LEMMA UndoingEnds ==
    ASSUME NEW u, NEW c \in Configuration, Undoing(u, c, stack), stack = <<>>
    PROVE  UndoEnded(u, c, stack)
  <1>1. Len(stack) = 0 /\ c.depth \in Nat
    BY ConfigurationTyped, EmptySeq
  <1>2. QED
    BY <1>1 DEF Undoing, UndoCalled, UndoLoops, UndoFinds, UndoEnters, Called, Stacked

\* undo_merge ends where its run started.
LEMMA RevertsEnds ==
    ASSUME NEW u, BlockIsTree(u), Reverts(u), stack = <<>>
    PROVE  u.start = heap
  <1>1. PICK c \in Reach(u) : c.heap = heap /\ Undoing(u, c, stack)
    BY DEF Reverts
  <1>2. c \in Configuration /\ Sound(u, c)
    BY ReachSound DEF Reach
  <1>3. UndoEnded(u, c, stack)
    BY <1>1, <1>2, UndoingEnds
  <1>4. QED
    BY <1>1, <1>2, <1>3 DEF UndoEnded, Sound, FreshOK

\* A test starts on the heap as it is.
LEMMA TestStarts ==
    ASSUME NEW u, NEW b, RunsOn(u, b), u.stops
    PROVE  u.start = b
  <1>1. b \in Snapshot /\ Coloured(b, {}, u.start)
    BY DEF RunsOn, IdleHeap
  <1>2. QED
    BY <1>1, ColouredNone

\* The one call an operation starts with.
LEMMA CalledOnce ==
    ASSUME NEW u, NEW k, stack' = <<Call(k, u.left, u.right, 0)>>
    PROVE  Called(u, stack', k)
  BY DEF Called, Call

\* The test of a merge has been made: the merge is taken back, if it was performed.
LEMMA TestMergeDoneInv ==
    ASSUME TypeOK, Inv, TestMergeDone
    PROVE  Inv'
  <1>1. /\ op = "test" /\ stack = <<>> /\ tree' = tree /\ heap' = heap /\ done' = done
        /\ ref \in Refinement /\ ref.kind = "merge"
    BY DEF TestMergeDone, TypeOK, Inv, ControlOK
  <1>2. PICK u \in Run : Operates(u) /\ BlockIsTree(u) /\ RunsOn(u, before)
    BY <1>1, OperatesFacts
  <1>3. /\ u.left = ref.red /\ u.right = ref.blue /\ u.stops
        /\ IF Performing THEN Performs(u) ELSE LooksAt(u)
    BY <1>1, <1>2 DEF Operates
  <1>4. Performing <=> MERGE_WHEN_TESTING
    BY <1>1 DEF Performing
  <1>5. settled = before /\ IdleHeap(before) /\ MergeableIn(before, ref.red, ref.blue)
    BY <1>1, <1>2, <1>3 DEF settled, RunsOn
  <1>6. offer' # None => /\ offer'.kind = "merge"
                         /\ offer'.red = ref.red /\ offer'.blue = ref.blue
    BY <1>1 DEF TestMergeDone, Refinement
  <1>7. u.start = before
    BY <1>2, <1>3, TestStarts
  <1>8. CASE MERGE_WHEN_TESTING
    <2>1. /\ op' = "untest" /\ ref' = ref /\ before' = before
          /\ stack' = <<Call("undo", ref.red, ref.blue, 0)>>
      BY <1>8 DEF TestMergeDone
    <2>2. PICK c \in Reach(u) : c.heap = heap /\ Merging(u, c, stack)
      BY <1>3, <1>4, <1>8 DEF Performs
    <2>3. c.depth = 0
      BY <1>1, <2>2, MergingEnds DEF MergeEnded, Reach
    <2>4. Undoing(u, c, stack')
      BY <1>3, <2>1, <2>3, CalledOnce DEF UndoCalled, Undoing
    <2>5. Reverts(u)'
      BY <1>1, <2>2, <2>4 DEF Reverts
    <2>6. RunsOn(u, before)'
      BY <1>1, <1>2, <2>1, TreeFixed
    <2>7. Operates(u)'
      BY <1>3, <2>1, <2>5, <2>6 DEF Operates
    <2>8. ControlOK'
      BY <1>1, <2>1, <2>7 DEF ControlOK
    <2>9. settled' = before /\ undone' = undone
      BY <1>1, <2>1 DEF settled, undone
    <2>10. HistoryOK'
      BY <1>1, <1>5, <2>9, HistoryKept DEF Inv, SettledOK
    <2>11. SettledOK'
      BY <1>1, <1>5, <1>6, <2>9, <2>10, SettledBy
    <2>12. QED
      BY <2>8, <2>11 DEF Inv
  <1>9. CASE ~MERGE_WHEN_TESTING
    <2>1. op' = "idle" /\ before' = None /\ stack' = <<>>
      BY <1>1, <1>9 DEF TestMergeDone
    <2>2. heap = before
      BY <1>3, <1>4, <1>7, <1>9 DEF LooksAt
    <2>3. settled' = before /\ undone' = undone
      BY <1>1, <2>1, <2>2 DEF settled, undone
    <2>4. HistoryOK'
      BY <1>1, <1>5, <2>3, HistoryKept DEF Inv, SettledOK
    <2>5. SettledOK'
      BY <1>1, <1>5, <1>6, <2>3, <2>4, SettledBy
    <2>6. ControlOK'
      BY <2>1 DEF ControlOK
    <2>7. QED
      BY <2>5, <2>6 DEF Inv
  <1>10. QED
    BY <1>8, <1>9

\* The tested merge has been taken back.
LEMMA TestMergeUndoneInv ==
    ASSUME TypeOK, Inv, TestMergeUndone
    PROVE  Inv' /\ heap' = before
  <1>1. /\ op = "untest" /\ stack = <<>> /\ tree' = tree /\ heap' = heap /\ done' = done
        /\ op' = "idle" /\ before' = None /\ stack' = stack /\ offer' = offer
    BY DEF TestMergeUndone
  <1>2. PICK u \in Run : Operates(u) /\ BlockIsTree(u) /\ RunsOn(u, before)
    BY <1>1, OperatesFacts
  <1>3. u.stops /\ Reverts(u)
    BY <1>1, <1>2 DEF Operates
  <1>4. heap = before
    BY <1>1, <1>2, <1>3, RevertsEnds, TestStarts
  <1>5. settled' = settled /\ undone' = undone
    BY <1>1, <1>4 DEF settled, undone
  <1>6. SettledOK'
    BY <1>1, <1>5, SettledKept DEF Inv
  <1>7. ControlOK'
    BY <1>1 DEF ControlOK
  <1>8. QED
    BY <1>1, <1>4, <1>6, <1>7 DEF Inv

\* A merge has been performed.
LEMMA DoMergeDoneInv ==
    ASSUME TypeOK, Inv, DoMergeDone
    PROVE  Inv'
  <1>1. /\ op = "do" /\ stack = <<>> /\ tree' = tree /\ heap' = heap
        /\ done' = Append(done, [ref |-> ref, before |-> before])
        /\ op' = "idle" /\ before' = None /\ stack' = stack /\ offer' = offer
        /\ ref \in Refinement /\ ref.kind = "merge" /\ before \in Snapshot
    BY DEF DoMergeDone, TypeOK, Inv, ControlOK
  <1>2. offer' = None
    BY <1>1 DEF Inv, ControlOK
  <1>3. PICK u \in Run : Operates(u) /\ BlockIsTree(u) /\ RunsOn(u, before)
    BY <1>1, OperatesFacts
  <1>4. u.left = ref.red /\ u.right = ref.blue /\ ~u.stops /\ Performs(u)
    BY <1>1, <1>3 DEF Operates, Performing
  <1>5. PICK c \in Reach(u) : c.heap = heap /\ Merging(u, c, stack)
    BY <1>4 DEF Performs
  <1>6. MergeEnded(u, c, stack)
    BY <1>1, <1>5, MergingEnds DEF Reach
  <1>7. Ends(u, c)
    BY <1>6 DEF MergeEnded, Ends
  <1>8. IdleHeap(heap)
    BY <1>3, <1>4, <1>5, <1>7, RunEnds
  <1>9. Effect(ref, before, heap)
    BY <1>1, <1>3, <1>4, <1>5, <1>7 DEF Effect, Merged
  <1>10. settled = before /\ settled' = heap /\ undone = 0 /\ undone' = 0
    BY <1>1 DEF settled, undone
  <1> DEFINE e == [ref |-> ref, before |-> before]
  <1>11. /\ e \in [ref : Refinement, before : Snapshot] /\ done' = Append(done, e)
         /\ e.before = settled /\ Effect(e.ref, e.before, heap)
    BY <1>1, <1>9, <1>10
  <1> HIDE DEF e
  <1>12. HistoryOK'
    BY <1>1, <1>10, <1>11, HistoryGrown DEF Inv, SettledOK
  <1>13. SettledOK'
    BY <1>1, <1>2, <1>8, <1>10, <1>12, SettledBy
  <1>14. ControlOK'
    BY <1>1 DEF ControlOK
  <1>15. QED
    BY <1>13, <1>14 DEF Inv

\* The heap a merge was performed on is the one before its run without the
\* colours its states were given.
LEMMA ColoursBack ==
    ASSUME TypeOK, NEW u, ~u.stops, RunsOn(u, before), u.start = heap,
           UndoMergeDone, u.left = ref.red, u.right = ref.blue
    PROVE  heap' = before
  <1> DEFINE C == IF Reds(before)[u.left] THEN {} ELSE {u.left, u.right}
  <1>1. /\ IdleHeap(before) /\ before \in Snapshot /\ heap \in Snapshot /\ Clean(before)
        /\ MergeableIn(before, u.left, u.right) /\ Coloured(before, C, heap)
        /\ Sinks(heap)[u.right] = Sinks(before)[u.right]
        /\ u.left \in Node /\ u.right \in Node /\ u.left # u.right
    BY DEF RunsOn, IdleHeap, Coloured, Run, MergeableIn
  <1>2. /\ Reds(heap) = red /\ Sinks(heap) = sink
        /\ red \in [Node -> BOOLEAN] /\ sink \in [Node -> Int]
        /\ Reds(before) \in [Node -> BOOLEAN] /\ Sinks(before) \in [Node -> Int]
    BY <1>1, HeapParts, SnapshotParts DEF TypeOK, AptaTypeOK
  <1>3. /\ \A n \in Node : red[n] <=> Reds(before)[n] \/ n \in C
        /\ \A n \in Node \ C : sink[n] = Sinks(before)[n]
    BY <1>1, <1>2 DEF Coloured
  <1>4. ~Reds(before)[u.right] /\ C \subseteq {u.left, u.right}
    BY <1>1 DEF MergeableIn
  <1>5. CASE Reds(before)[u.left]
    <2>1. C = {}
      BY <1>5
    <2>2. ~red[u.right]
      BY <1>1, <1>3, <1>4, <2>1
    <2>3. heap' = heap
      BY <2>2 DEF UndoMergeDone, heap
    <2>4. QED
      BY <1>1, <2>1, <2>3, ColouredNone
  <1>6. CASE ~Reds(before)[u.left]
    <2>1. C = {u.left, u.right}
      BY <1>6
    <2> HIDE DEF C
    <2>2. red[u.right]
      BY <1>1, <1>3, <2>1
    <2>3. /\ red' = [red EXCEPT ![u.right] = FALSE, ![u.left] = FALSE]
          /\ sink' = [sink EXCEPT ![u.left] = NoSink]
          /\ UNCHANGED <<child, rep, repOf, nextMerged, size, final, finals>>
      BY <2>2 DEF UndoMergeDone
    <2>4. red' \in [Node -> BOOLEAN] /\ sink' \in [Node -> Int]
      <3>1. NoSink \in Int /\ FALSE \in BOOLEAN
        BY DEF NoSink
      <3>2. QED
        BY <1>1, <1>2, <2>3, <3>1, ColourTyped
    <2>5. \A n \in Node : red'[n] <=> Reds(before)[n]
      <3> SUFFICES ASSUME NEW n \in Node PROVE red'[n] <=> Reds(before)[n]
        OBVIOUS
      <3>1. CASE n \in C
        <4>1. red'[n] = FALSE
          BY <1>1, <1>2, <2>1, <2>3, <3>1
        <4>2. QED
          BY <1>4, <1>6, <2>1, <3>1, <4>1
      <3>2. CASE n \notin C
        <4>1. red'[n] = red[n]
          BY <1>1, <1>2, <2>1, <2>3, <3>2
        <4>2. QED
          BY <1>3, <3>2, <4>1
      <3>3. QED
        BY <3>1, <3>2
    <2>6. red' = Reds(before)
      BY <1>2, <2>4, <2>5
    <2>7. sink' = Sinks(before)
      <3>1. Sinks(before)[u.left] = NoSink
        BY <1>1, <1>6 DEF Clean
      <3>2. sink[u.right] = Sinks(before)[u.right]
        BY <1>1, <1>2
      <3>3. \A n \in Node : n # u.left => sink[n] = Sinks(before)[n]
        BY <1>3, <2>1, <3>2
      <3>4. \A n \in Node : sink'[n] = Sinks(before)[n]
        BY <1>1, <1>2, <2>3, <3>1, <3>3
      <3>5. QED
        BY <1>2, <2>4, <3>4
    <2>8. before = <<child, rep, repOf, nextMerged, size, final, finals, before[8], before[9]>>
      <3>1. before = <<before[1], before[2], before[3], before[4], before[5], before[6],
                       before[7], before[8], before[9]>>
        BY <1>1, SnapshotParts
      <3>2. /\ heap[1] = before[1] /\ heap[2] = before[2] /\ heap[3] = before[3]
            /\ heap[4] = before[4] /\ heap[5] = before[5] /\ heap[6] = before[6]
            /\ heap[7] = before[7]
        BY <1>1 DEF Coloured
      <3>3. /\ heap[1] = child /\ heap[2] = rep /\ heap[3] = repOf /\ heap[4] = nextMerged
            /\ heap[5] = size /\ heap[6] = final /\ heap[7] = finals
        BY DEF heap
      <3>4. QED
        BY ONLY <3>1, <3>2, <3>3
    <2>9. QED
      BY <2>3, <2>6, <2>7, <2>8 DEF heap, Reds, Sinks
  <1>7. QED
    BY <1>5, <1>6

\* A performed merge has been taken back.
LEMMA UndoMergeDoneInv ==
    ASSUME TypeOK, Inv, UndoMergeDone
    PROVE  Inv' /\ heap' = done[Len(done)].before
  <1>1. /\ op = "undo" /\ stack = <<>> /\ tree' = tree
        /\ done' = SubSeq(done, 1, Len(done) - 1)
        /\ op' = "idle" /\ before' = None /\ stack' = stack /\ offer' = offer
    BY DEF UndoMergeDone
  <1>2. offer' = None /\ done # <<>> /\ before = done[Len(done)].before
    BY <1>1 DEF Inv, ControlOK
  <1>3. PICK u \in Run : Operates(u) /\ BlockIsTree(u) /\ RunsOn(u, before)
    BY <1>1, OperatesFacts
  <1>4. u.left = ref.red /\ u.right = ref.blue /\ ~u.stops /\ Reverts(u)
    BY <1>1, <1>3 DEF Operates
  <1>5. u.start = heap
    BY <1>1, <1>3, <1>4, RevertsEnds
  <1>6. heap' = before
    BY <1>3, <1>4, <1>5, ColoursBack
  <1>7. settled = before /\ settled' = before /\ undone = 1 /\ undone' = 0
    BY <1>1, <1>6 DEF settled, undone
  <1>8. IdleHeap(before)
    BY <1>3 DEF RunsOn
  <1>9. HistoryOK'
    BY <1>1, <1>2, <1>7, HistoryShrunk DEF Inv, SettledOK
  <1>10. SettledOK'
    BY <1>1, <1>2, <1>7, <1>8, <1>9, SettledBy
  <1>11. ControlOK'
    BY <1>1 DEF ControlOK
  <1>12. QED
    BY <1>2, <1>6, <1>10, <1>11 DEF Inv

-----------------------------------------------------------------------------
(* The client.                                                             *)

\* A pair the iterators yield can be merged.
LEMMA CandidatesMerge ==
    ASSUME TypeOK, IdleHeap(heap), NEW r \in CandidateStates
    PROVE  /\ r \in Blues(heap)
           /\ \A l \in MergeTargets(r) : MergeableIn(heap, l, r)
  <1>1. CandidateStates \subseteq BlueStates
    BY DEF CandidateStates
  <1>2. tree \in Trees /\ BlueStates \subseteq Blues(heap)
    BY BlueStatesBlue DEF TypeOK, AptaTypeOK
  <1>3. RedStates \subseteq {n \in tree.nodes : rep[n] = None /\ red[n]}
    BY <1>2, RedStatesRed
  <1>4. Reds(heap) = red /\ Reps(heap) = rep
    BY HeapParts
  <1>5. /\ r \in tree.nodes /\ rep[r] = None /\ ~red[r] /\ red[Parent(heap, r)]
    BY <1>1, <1>2, <1>4 DEF Blues
  <1>6. ASSUME NEW l \in MergeTargets(r)
        PROVE  MergeableIn(heap, l, r)
    <2>1. l \in RedStates \/ l \in BlueStates \ {r}
      BY <1>6 DEF MergeTargets
    <2>2. CASE l \in RedStates
      BY <1>3, <1>4, <1>5, <2>2 DEF MergeableIn
    <2>3. CASE l \in BlueStates \ {r}
      <3>1. l \in tree.nodes /\ rep[l] = None /\ red[Parent(heap, l)] /\ l # r
        BY <1>2, <1>4, <2>3 DEF Blues
      <3>2. QED
        BY <1>4, <1>5, <3>1 DEF MergeableIn
    <2>4. QED
      BY <2>1, <2>2, <2>3
  <1>7. QED
    BY <1>1, <1>2, <1>6

\* A run that has been called stands at its start.
LEMMA PerformsStarts ==
    ASSUME NEW u, NEW b, RunsOn(u, b), u.start = heap',
           stack' = <<Call("merge", u.left, u.right, 0)>>
    PROVE  \E c \in Reach(u) : c.heap = heap' /\ Merging(u, c, stack')
  <1>1. BlockIsTree(u)
    BY RunStarts
  <1>2. PICK c \in Reach(u) : c.heap = u.start /\ c.depth = 0
    BY <1>1, StartExists
  <1>3. Reps(u.start)[u.right] = None
    BY <1>1, BlockFacts
  <1>4. MergeCalled(u, c, stack')
    BY <1>2, <1>3, CalledOnce DEF MergeCalled
  <1>5. QED
    BY <1>2, <1>4 DEF Merging

\* A heap is coloured as it is.
LEMMA ColouredSame ==
    ASSUME NEW h \in Snapshot
    PROVE  Coloured(h, {}, h)
  BY SnapshotParts DEF Coloured

\* The client tests a merge.
LEMMA TestMergeInv ==
    ASSUME TypeOK, Inv, NEW r \in CandidateStates, NEW l \in MergeTargets(r),
           TestMerge(l, r)
    PROVE  Inv'
  <1>1. /\ op = "idle" /\ tree' = tree /\ heap' = heap /\ done' = done
        /\ op' = "test" /\ ref' = [kind |-> "merge", red |-> l, blue |-> r, score |-> 0]
        /\ stack' = <<Call("merge", l, r, 0)>> /\ offer' = None /\ before' = heap
    BY DEF TestMerge
  <1>2. settled = heap /\ settled' = heap /\ undone' = undone
    BY <1>1 DEF settled, undone
  <1>3. IdleHeap(heap) /\ heap \in Snapshot /\ tree \in Trees
    BY <1>2 DEF Inv, SettledOK, IdleHeap, TypeOK, AptaTypeOK
  <1>4. MergeableIn(heap, l, r)
    BY <1>3, CandidatesMerge
  <1>5. l \in Node /\ r \in Node
    BY <1>3, <1>4, TreeFacts DEF MergeableIn
  <1>6. PICK u \in Run : u.start = heap /\ u.left = l /\ u.right = r /\ u.stops = TRUE
    <2>1. [start |-> heap, left |-> l, right |-> r, stops |-> TRUE] \in Run
      BY <1>3, <1>5 DEF Run
    <2>2. QED
      BY <2>1
  <1>7. RunsOn(u, heap)
    BY <1>3, <1>4, <1>6, ColouredSame DEF RunsOn
  <1>8. BlockIsTree(u)
    BY <1>7, RunStarts
  <1>9. Performs(u)'
    BY <1>1, <1>6, <1>7, PerformsStarts DEF Performs
  <1>10. LooksAt(u)'
    BY <1>1, <1>6, <1>8, LookingStarts DEF LooksAt
  <1>11. RunsOn(u, before)'
    BY <1>1, <1>7, TreeFixed
  <1>12. Operates(u)'
    BY <1>1, <1>6, <1>9, <1>10, <1>11 DEF Operates
  <1>13. ControlOK'
    BY <1>1, <1>6, <1>12 DEF ControlOK
  <1>14. HistoryOK'
    BY <1>1, <1>2, HistoryKept DEF Inv, SettledOK
  <1>15. SettledOK'
    BY <1>1, <1>2, <1>3, <1>14, SettledBy
  <1>16. QED
    BY <1>13, <1>15 DEF Inv

\* The traces of an offer lead to its two states.
LEMMA OfferLeads ==
    ASSUME TypeOK, Inv, op = "idle", offer # None
    PROVE  /\ IdleHeap(heap) /\ offer.kind = "merge"
           /\ MergeableIn(heap, offer.red, offer.blue)
           /\ StateFromTrace(offer.red) = {offer.red}
           /\ StateFromTrace(offer.blue) = {offer.blue}
  <1>1. settled = heap
    BY DEF settled
  <1>2. /\ IdleHeap(heap) /\ offer.kind = "merge"
        /\ MergeableIn(heap, offer.red, offer.blue)
    BY <1>1 DEF Inv, SettledOK
  <1>3. /\ offer.red \in tree.nodes /\ offer.blue \in tree.nodes
        /\ rep[offer.red] = None /\ rep[offer.blue] = None
    BY <1>2, HeapParts DEF MergeableIn
  <1>4. tree \in Trees
    BY DEF TypeOK, AptaTypeOK
  <1>5. QED
    BY <1>2, <1>3, <1>4, TraceLeads

\* The client performs the merge it was offered.
LEMMA DoMergeInv ==
    ASSUME TypeOK, Inv, DoMerge
    PROVE  Inv'
  <1>1. /\ op = "idle" /\ offer # None /\ tree' = tree /\ done' = done
        /\ op' = "do" /\ ref' = offer /\ offer' = None /\ before' = heap
    BY DEF DoMerge
  <1> PICK l, r : l = offer.red /\ r = offer.blue
    OBVIOUS
  <1>2. /\ IdleHeap(heap) /\ offer.kind = "merge" /\ MergeableIn(heap, l, r)
        /\ StateFromTrace(l) = {l} /\ StateFromTrace(r) = {r}
    BY <1>1, OfferLeads
  <1>3. /\ IF red[l]
           THEN UNCHANGED <<red, sink>>
           ELSE /\ red' = [red EXCEPT ![l] = TRUE, ![r] = TRUE]
                /\ sink' = [sink EXCEPT ![l] = ExtendedSink(l)]
        /\ stack' = <<Call("merge", l, r, 0)>>
    BY <1>2 DEF DoMerge
  <1>4. settled = heap /\ settled' = heap /\ undone' = undone
    BY <1>1 DEF settled, undone
  <1>5. heap \in Snapshot /\ heap' \in Snapshot /\ tree \in Trees
    <2>1. AptaTypeOK'
      <3>1. Next
        BY <1>1 DEF Next, Client
      <3>2. QED
        BY <3>1, NextTypeOK DEF TypeOK
    <2>2. heap' \in Snapshot
      BY <2>1 DEF AptaTypeOK, heap, Snapshot
    <2>3. QED
      BY <2>2, <1>2 DEF IdleHeap, TypeOK, AptaTypeOK
  <1>6. l \in tree.nodes /\ r \in tree.nodes /\ l # r /\ l \in Node /\ r \in Node
    BY <1>2, <1>5, TreeFacts DEF MergeableIn
  <1>7. /\ Reds(heap) = red /\ Sinks(heap) = sink /\ Reps(heap) = rep
        /\ red \in [Node -> BOOLEAN] /\ sink \in [Node -> Int]
    BY HeapParts DEF TypeOK, AptaTypeOK
  <1>8. PICK u \in Run : u.start = heap' /\ u.left = l /\ u.right = r /\ u.stops = FALSE
    <2>1. [start |-> heap', left |-> l, right |-> r, stops |-> FALSE] \in Run
      BY <1>5, <1>6 DEF Run
    <2>2. QED
      BY <2>1
  <1> DEFINE C == IF red[l] THEN {} ELSE {l, r}
  <1>9. Coloured(heap, C, heap') /\ Sinks(heap')[r] = Sinks(heap)[r]
    <2>1. C \subseteq Blues(heap)
      <3>1. red[Root]
        BY <1>2, <1>7 DEF IdleHeap
      <3>2. QED
        BY <1>2, <1>7, <3>1 DEF MergeableIn, Blues
    <2>2. /\ heap'[1] = heap[1] /\ heap'[2] = heap[2] /\ heap'[3] = heap[3]
          /\ heap'[4] = heap[4] /\ heap'[5] = heap[5] /\ heap'[6] = heap[6]
          /\ heap'[7] = heap[7] /\ Reds(heap') = red' /\ Sinks(heap') = sink'
      BY DEF DoMerge, heap, Reds, Sinks
    <2>3. CASE red[l]
      <3>1. C = {} /\ red' = red /\ sink' = sink
        BY <1>3, <2>3
      <3>2. QED
        BY <1>5, <1>7, <2>1, <2>2, <3>1 DEF Coloured
    <2>4. CASE ~red[l]
      <3>1. /\ C = {l, r} /\ red' = [red EXCEPT ![l] = TRUE, ![r] = TRUE]
            /\ sink' = [sink EXCEPT ![l] = ExtendedSink(l)]
        BY <1>3, <2>4
      <3> HIDE DEF C
      <3>2. \A n \in Node : red'[n] <=> red[n] \/ n \in C
        <4> SUFFICES ASSUME NEW n \in Node PROVE red'[n] <=> red[n] \/ n \in C
          OBVIOUS
        <4>1. CASE n \in C
          <5>1. red'[n] = TRUE
            BY <1>6, <1>7, <3>1, <4>1
          <5>2. QED
            BY <4>1, <5>1
        <4>2. CASE n \notin C
          <5>1. red'[n] = red[n]
            BY <1>6, <1>7, <3>1, <4>2
          <5>2. QED
            BY <4>2, <5>1
        <4>3. QED
          BY <4>1, <4>2
      <3>3. \A n \in Node : n # l => sink'[n] = sink[n]
        BY <1>6, <1>7, <3>1
      <3>4. QED
        BY <1>5, <1>6, <1>7, <2>1, <2>2, <3>1, <3>2, <3>3 DEF Coloured
    <2>5. QED
      BY <2>3, <2>4
  <1>10. RunsOn(u, heap)
    BY <1>2, <1>5, <1>7, <1>8, <1>9 DEF RunsOn
  <1>11. Performs(u)' /\ Performing'
    BY <1>1, <1>3, <1>8, <1>10, PerformsStarts DEF Performs, Performing
  <1>12. RunsOn(u, before)'
    BY <1>1, <1>10, TreeFixed
  <1>13. Operates(u)'
    BY <1>1, <1>8, <1>11, <1>12 DEF Operates
  <1>14. ControlOK'
    BY <1>1, <1>2, <1>8, <1>13 DEF ControlOK
  <1>15. HistoryOK'
    BY <1>1, <1>4, HistoryKept DEF Inv, SettledOK
  <1>16. SettledOK'
    BY <1>1, <1>2, <1>4, <1>15, SettledBy
  <1>17. QED
    BY <1>14, <1>16 DEF Inv

\* A step that leaves an operation out changes no more than the colours.
LEMMA HeapColoured ==
    ASSUME AptaTypeOK, AptaTypeOK',
           UNCHANGED <<tree, child, rep, repOf, nextMerged, size, final, finals>>
    PROVE  /\ heap' \in Snapshot /\ heap \in Snapshot
           /\ heap'[1] = heap[1] /\ heap'[2] = heap[2] /\ heap'[3] = heap[3]
           /\ heap'[4] = heap[4] /\ heap'[5] = heap[5] /\ heap'[6] = heap[6]
           /\ heap'[7] = heap[7] /\ Reds(heap') = red' /\ Sinks(heap') = sink'
           /\ Reds(heap) = red /\ Sinks(heap) = sink
           /\ red \in [Node -> BOOLEAN] /\ sink \in [Node -> Int]
           /\ red' \in [Node -> BOOLEAN] /\ sink' \in [Node -> Int]
  <1>1. heap' \in Snapshot /\ heap \in Snapshot
    BY DEF AptaTypeOK, heap, Snapshot
  <1>2. QED
    BY <1>1 DEF AptaTypeOK, heap, Reds, Sinks

\* What an extension colours.
LEMMA ExtendColours ==
    ASSUME TypeOK, TypeOK', Inv, NEW b \in CandidateStates, DoExtend(b)
    PROVE  /\ IdleHeap(heap) /\ tree \in Trees /\ b \in Blues(heap) /\ b \in Node
           /\ Coloured(heap, {b}, heap') /\ Sinks(heap')[b] = ExtendedSink(b)
  <1>1. /\ op = "idle"
        /\ UNCHANGED <<tree, child, rep, repOf, nextMerged, size, final, finals>>
        /\ red' = [red EXCEPT ![b] = TRUE]
        /\ sink' = [sink EXCEPT ![b] = ExtendedSink(b)]
    BY DEF DoExtend
  <1>2. IdleHeap(heap) /\ tree \in Trees
    BY <1>1 DEF settled, Inv, SettledOK, TypeOK, AptaTypeOK
  <1>3. b \in Blues(heap) /\ b \in Node
    BY <1>2, CandidatesMerge, TreeFacts DEF Blues
  <1>4. /\ heap' \in Snapshot /\ heap \in Snapshot
        /\ heap'[1] = heap[1] /\ heap'[2] = heap[2] /\ heap'[3] = heap[3]
        /\ heap'[4] = heap[4] /\ heap'[5] = heap[5] /\ heap'[6] = heap[6]
        /\ heap'[7] = heap[7] /\ Reds(heap') = red' /\ Sinks(heap') = sink'
        /\ Reds(heap) = red /\ Sinks(heap) = sink
        /\ red \in [Node -> BOOLEAN] /\ sink \in [Node -> Int]
    BY <1>1, HeapColoured DEF TypeOK
  <1>5. \A n \in Node : red'[n] <=> red[n] \/ n = b
    <2> SUFFICES ASSUME NEW n \in Node PROVE red'[n] <=> red[n] \/ n = b
      OBVIOUS
    <2>1. CASE n = b
      <3>1. red'[n] = TRUE
        BY <1>1, <1>3, <1>4, <2>1
      <3>2. QED
        BY <2>1, <3>1
    <2>2. CASE n # b
      <3>1. red'[n] = red[n]
        BY <1>1, <1>3, <1>4, <2>2
      <3>2. QED
        BY <2>2, <3>1
    <2>3. QED
      BY <2>1, <2>2
  <1>6. sink'[b] = ExtendedSink(b) /\ \A n \in Node : n # b => sink'[n] = sink[n]
    BY <1>1, <1>3, <1>4
  <1>7. QED
    BY <1>2, <1>3, <1>4, <1>5, <1>6 DEF Coloured

\* The client extends a blue state.
LEMMA DoExtendInv ==
    ASSUME TypeOK, TypeOK', Inv, NEW b \in CandidateStates, DoExtend(b)
    PROVE  Inv'
  <1>1. /\ op = "idle" /\ op' = "idle" /\ offer' = None /\ stack' = stack
        /\ before' = before
        /\ UNCHANGED tree
        /\ done' = Append(done,
                     [ref |-> [kind |-> "extend", red |-> b, blue |-> b, score |-> 0],
                      before |-> heap])
    BY DEF DoExtend
  <1>2. settled = heap /\ settled' = heap' /\ undone = 0 /\ undone' = 0
    BY <1>1 DEF settled, undone
  <1>3. /\ IdleHeap(heap) /\ tree \in Trees /\ b \in Blues(heap) /\ b \in Node
        /\ Coloured(heap, {b}, heap')
    BY ExtendColours
  <1>4. IdleHeap(heap')
    BY <1>3, ColouredIdle
  <1>5. PICK e : e = [ref |-> [kind |-> "extend", red |-> b, blue |-> b, score |-> 0],
                      before |-> heap]
    OBVIOUS
  <1>6. /\ e \in [ref : Refinement, before : Snapshot] /\ done' = Append(done, e)
        /\ e.before = settled /\ e.ref.kind = "extend" /\ e.ref.blue = b /\ e.ref.red = b
    BY <1>1, <1>2, <1>3, <1>5 DEF Refinement, IdleHeap
  <1>7. Effect(e.ref, e.before, heap')
    <2>1. Extended(e.ref, e.before, heap')
      BY <1>2, <1>3, <1>6 DEF Extended
    <2>2. QED
      BY <1>6, <2>1 DEF Effect
  <1>8. HistoryOK'
    BY <1>1, <1>2, <1>6, <1>7, HistoryGrown DEF Inv, SettledOK
  <1>9. SettledOK'
    BY <1>1, <1>2, <1>4, <1>8, SettledBy
  <1>10. ControlOK'
    BY <1>1 DEF Inv, ControlOK
  <1>11. QED
    BY <1>9, <1>10 DEF Inv

\* The client takes back the extension it did last.
LEMMA UndoExtendInv ==
    ASSUME TypeOK, TypeOK', Inv, UndoExtend
    PROVE  Inv' /\ heap' = done[Len(done)].before
  <1>1. /\ op = "idle" /\ op' = "idle" /\ offer' = None /\ stack' = stack
        /\ before' = before /\ done # <<>> /\ done[Len(done)].ref.kind = "extend"
        /\ UNCHANGED <<tree, child, rep, repOf, nextMerged, size, final, finals>>
        /\ done' = SubSeq(done, 1, Len(done) - 1)
    BY DEF UndoExtend
  <1>2. settled = heap /\ settled' = heap' /\ undone = 0 /\ undone' = 0
    BY <1>1 DEF settled, undone
  <1>3. IdleHeap(heap) /\ HistoryOK /\ tree \in Trees
    BY <1>2 DEF Inv, SettledOK, TypeOK, AptaTypeOK
  <1>4. PICK b, n : b = done[Len(done)].before /\ n = done[Len(done)].ref.red
    OBVIOUS
  <1>5. Extended(done[Len(done)].ref, b, heap)
    BY <1>1, <1>3, <1>4, LastEffect DEF Effect
  <1>6. IdleHeap(b) /\ Coloured(b, {n}, heap) /\ n \in Blues(b)
    BY <1>4, <1>5 DEF Extended, Coloured
  <1>7. n \in tree.nodes /\ rep[n] = None /\ n \in Node
    <2>1. Reps(heap) = Reps(b)
      BY <1>3, <1>6, ColouredIdle
    <2>2. QED
      BY <1>3, <1>6, <2>1, HeapParts, TreeFacts DEF Blues
  <1>8. StateFromTrace(n) = {n}
    BY <1>3, <1>7, TraceLeads
  <1>9. red' = [red EXCEPT ![n] = FALSE] /\ sink' = [sink EXCEPT ![n] = NoSink]
    BY <1>4, <1>8 DEF UndoExtend
  <1>10. /\ heap' \in Snapshot /\ heap \in Snapshot
         /\ heap'[1] = heap[1] /\ heap'[2] = heap[2] /\ heap'[3] = heap[3]
         /\ heap'[4] = heap[4] /\ heap'[5] = heap[5] /\ heap'[6] = heap[6]
         /\ heap'[7] = heap[7] /\ Reds(heap') = red' /\ Sinks(heap') = sink'
         /\ Reds(heap) = red /\ Sinks(heap) = sink
         /\ red \in [Node -> BOOLEAN] /\ sink \in [Node -> Int]
         /\ red' \in [Node -> BOOLEAN] /\ sink' \in [Node -> Int]
    BY <1>1, HeapColoured DEF TypeOK
  <1>11. /\ b \in Snapshot /\ Clean(b)
         /\ Reds(b) \in [Node -> BOOLEAN] /\ Sinks(b) \in [Node -> Int]
    BY <1>6, SnapshotParts DEF IdleHeap
  <1>12. ~Reds(b)[n] /\ Sinks(b)[n] = NoSink
    BY <1>6, <1>7, <1>11 DEF Blues, Clean
  <1>13. /\ \A m \in Node : red[m] <=> Reds(b)[m] \/ m = n
         /\ \A m \in Node \ {n} : sink[m] = Sinks(b)[m]
    BY <1>6, <1>10 DEF Coloured
  <1>14. red' = Reds(b)
    <2>1. \A m \in Node : red'[m] <=> Reds(b)[m]
      <3> SUFFICES ASSUME NEW m \in Node PROVE red'[m] <=> Reds(b)[m]
        OBVIOUS
      <3>1. CASE m = n
        <4>1. red'[m] = FALSE
          BY <1>7, <1>9, <1>10, <3>1
        <4>2. QED
          BY <1>12, <3>1, <4>1
      <3>2. CASE m # n
        <4>1. red'[m] = red[m]
          BY <1>7, <1>9, <1>10, <3>2
        <4>2. QED
          BY <1>13, <3>2, <4>1
      <3>3. QED
        BY <3>1, <3>2
    <2>2. QED
      BY <1>10, <1>11, <2>1
  <1>15. sink' = Sinks(b)
    <2>1. \A m \in Node : sink'[m] = Sinks(b)[m]
      BY <1>7, <1>9, <1>10, <1>12, <1>13
    <2>2. QED
      BY <1>10, <1>11, <2>1
  <1>16. heap' = b
    <2>1. b = <<b[1], b[2], b[3], b[4], b[5], b[6], b[7], b[8], b[9]>>
      BY <1>11, SnapshotParts
    <2>2. /\ heap[1] = b[1] /\ heap[2] = b[2] /\ heap[3] = b[3] /\ heap[4] = b[4]
          /\ heap[5] = b[5] /\ heap[6] = b[6] /\ heap[7] = b[7]
      BY <1>6 DEF Coloured
    <2>3. heap' = <<heap'[1], heap'[2], heap'[3], heap'[4], heap'[5], heap'[6],
                    heap'[7], heap'[8], heap'[9]>>
      BY <1>10, SnapshotParts
    <2>4. heap'[8] = b[8] /\ heap'[9] = b[9]
      BY <1>10, <1>14, <1>15 DEF Reds, Sinks
    <2>5. QED
      BY ONLY <1>10, <2>1, <2>2, <2>3, <2>4
  <1>17. HistoryOK'
    BY <1>1, <1>2, <1>3, <1>4, <1>16, HistoryShrunk
  <1>18. SettledOK'
    BY <1>1, <1>2, <1>6, <1>16, <1>17, SettledBy
  <1>19. ControlOK'
    BY <1>1 DEF Inv, ControlOK
  <1>20. QED
    BY <1>4, <1>16, <1>18, <1>19 DEF Inv

\* The last merge in effect ended its run, and its traces still lead to its
\* two states.
LEMMA LastMerge ==
    ASSUME TypeOK, Inv, op = "idle", done # <<>>, done[Len(done)].ref.kind = "merge"
    PROVE  LET last == done[Len(done)] IN
           /\ StateFromTrace(last.ref.red) = {last.ref.red}
           /\ StateFromTrace(last.ref.blue) = {last.ref.blue}
           /\ Merged(last.ref, last.before, heap)
  <1>1. PICK l, r, b : l = done[Len(done)].ref.red /\ r = done[Len(done)].ref.blue
                       /\ b = done[Len(done)].before
    OBVIOUS
  <1>2. settled = heap /\ HistoryOK /\ tree \in Trees
    BY DEF settled, Inv, SettledOK, TypeOK, AptaTypeOK
  <1>3. IdleHeap(heap)
    BY <1>2 DEF Inv, SettledOK
  <1>4. Merged(done[Len(done)].ref, b, heap)
    BY <1>1, <1>2, LastEffect DEF Effect
  <1>5. PICK u \in Run :
           /\ ~u.stops /\ u.left = l /\ u.right = r /\ RunsOn(u, b)
           /\ \E c \in Reach(u) : Ends(u, c) /\ c.heap = heap
    BY <1>1, <1>4 DEF Merged
  <1> PICK c \in Reach(u) : Ends(u, c) /\ c.heap = heap
    BY <1>5
  <1>6. /\ rep[l] = None /\ child[find[tree.source[r]]][tree.symbol[r]] = r
    BY <1>5, RunEnds, HeapParts
  <1>7. l \in tree.nodes /\ r \in tree.nodes \ {Root}
    BY <1>5, RunStarts
  <1>8. StateFromTrace(l) = {l} /\ StateFromTrace(r) = {r}
    BY <1>2, <1>3, <1>6, <1>7, TraceLeads
  <1>9. QED
    BY <1>1, <1>4, <1>8

\* The client takes back the merge it did last.
LEMMA UndoMergeInv ==
    ASSUME TypeOK, Inv, UndoMerge
    PROVE  Inv'
  <1>1. /\ op = "idle" /\ op' = "undo" /\ offer' = None /\ done # <<>>
        /\ done[Len(done)].ref.kind = "merge" /\ tree' = tree /\ heap' = heap
        /\ done' = done /\ before' = done[Len(done)].before
    BY DEF UndoMerge
  <1>2. /\ done[Len(done)].ref \in Refinement /\ done[Len(done)].before \in Snapshot
        /\ Len(done) \in Nat
    <2>1. done[Len(done)] \in [ref : Refinement, before : Snapshot] /\ Len(done) \in Nat
      BY <1>1, LastElement, LenProperties, EmptySeq DEF TypeOK
    <2>2. QED
      BY <2>1
  <1>3. PICK l, r, b : l = done[Len(done)].ref.red /\ r = done[Len(done)].ref.blue
                       /\ b = done[Len(done)].before
    OBVIOUS
  <1>4. /\ StateFromTrace(l) = {l} /\ StateFromTrace(r) = {r}
        /\ Merged(done[Len(done)].ref, b, heap)
    BY <1>1, <1>3, LastMerge
  <1>5. PICK u \in Run :
           /\ ~u.stops /\ u.left = l /\ u.right = r /\ RunsOn(u, b)
           /\ \E c \in Reach(u) : Ends(u, c) /\ c.heap = heap
    BY <1>3, <1>4 DEF Merged
  <1> PICK c \in Reach(u) : Ends(u, c) /\ c.heap = heap
    BY <1>5
  <1>6. /\ stack' = <<Call("undo", l, r, 0)>>
        /\ ref' = [done[Len(done)].ref EXCEPT !.red = l, !.blue = r]
    BY <1>3, <1>4 DEF UndoMerge
  <1>7. ref'.kind = "merge" /\ ref'.red = l /\ ref'.blue = r
    BY <1>1, <1>2, <1>6 DEF Refinement
  <1>8. Undoing(u, c, stack')
    <2>1. c.depth = 0 /\ Reps(c.heap)[u.right] # None
      BY <1>5 DEF Ends
    <2>2. Called(u, stack', "undo")
      BY <1>5, <1>6, CalledOnce
    <2>3. QED
      BY <2>1, <2>2 DEF Undoing, UndoCalled
  <1>9. Reverts(u)'
    BY <1>1, <1>5, <1>8 DEF Reverts
  <1>10. RunsOn(u, before)'
    BY <1>1, <1>3, <1>5, TreeFixed
  <1>11. Operates(u)'
    BY <1>1, <1>5, <1>7, <1>9, <1>10 DEF Operates
  <1>12. ControlOK'
    BY <1>1, <1>7, <1>11 DEF ControlOK
  <1>13. undone = 0 /\ undone' = 1 /\ settled' = b
    BY <1>1, <1>3 DEF undone, settled
  <1>14. HistoryOK'
    BY <1>1, <1>13, HistoryUndone DEF Inv, SettledOK
  <1>15. IdleHeap(b)
    BY <1>5 DEF RunsOn
  <1>16. SettledOK'
    BY <1>1, <1>13, <1>14, <1>15, SettledBy
  <1>17. QED
    BY <1>12, <1>16 DEF Inv

-----------------------------------------------------------------------------
(* The invariant, and what follows from it.                                *)

\* Every step keeps the invariant.
LEMMA NextInv ==
    ASSUME TypeOK, Inv, [Next]_vars
    PROVE  Inv'
  <1>1. TypeOK'
    BY NextTypeOK
  <1>2. CASE UNCHANGED vars
    BY <1>2, StutterInv
  <1>3. CASE MergeStep \/ UndoStep
    BY <1>3, CallInv
  <1>4. CASE Finish
    BY <1>4, TestMergeDoneInv, TestMergeUndoneInv, DoMergeDoneInv, UndoMergeDoneInv
       DEF Finish
  <1>5. CASE Client
    <2>1. CASE \E r \in Node \cap CandidateStates : DoExtend(r)
      BY <1>1, <2>1, DoExtendInv
    <2>2. CASE \E r \in Node \cap CandidateStates :
                 \E l \in Node \cap MergeTargets(r) : TestMerge(l, r)
      BY <2>2, TestMergeInv
    <2>3. CASE DoMerge
      BY <2>3, DoMergeInv
    <2>4. CASE UndoMerge
      BY <2>4, UndoMergeInv
    <2>5. CASE UndoExtend
      BY <1>1, <2>5, UndoExtendInv
    <2>6. QED
      BY <1>5, <2>1, <2>2, <2>3, <2>4, <2>5 DEF Client
  <1>6. QED
    BY <1>2, <1>3, <1>4, <1>5 DEF Next, Engine

\* INVARIANT of the merging engine: what is in progress is where its run is on
\* the heap it was called on, and every refinement in effect did to the heap it
\* was performed on what the next one, or the present, found.
THEOREM EngineCorrect == Spec => [](TypeOK /\ Inv)
  <1>1. Init => TypeOK /\ Inv
    BY InitTypeOK, InitInv
  <1>2. TypeOK /\ Inv /\ [Next]_vars => (TypeOK /\ Inv)'
    BY NextTypeOK, NextInv
  <1>3. QED
    BY <1>1, <1>2, PTL DEF Spec

\* What the two kinds of steps that end an undo restore.
LEMMA UndoStepExact ==
    ASSUME TypeOK, Inv, [Next]_vars
    PROVE  /\ op = "untest" /\ op' = "idle" => heap' = before
           /\ Len(done') < Len(done) => heap' = done[Len(done)].before
  <1>1. TypeOK'
    BY NextTypeOK
  <1>2. CASE UNCHANGED vars \/ MergeStep \/ UndoStep
    <2>1. op' = op /\ done' = done
      BY <1>2 DEF vars, control, MergeStep, MergeStop, MergeNodes, MergeAdopt, MergeChildren,
         MergeFind, MergeRecurse, MergeReturn, UndoStep, UndoSkip, UndoEnter, UndoAdopt,
         UndoChildren, UndoFind, UndoRecurse, UndoNodes
    <2>2. Len(done) \in Nat
      BY DEF TypeOK
    <2>3. QED
      BY <2>1, <2>2
  <1>3. CASE TestMergeUndone
    <2>1. heap' = before /\ done' = done
      BY <1>3, TestMergeUndoneInv DEF TestMergeUndone
    <2>2. Len(done) \in Nat
      BY DEF TypeOK
    <2>3. QED
      BY <2>1, <2>2
  <1>4. CASE UndoMergeDone
    BY <1>4, UndoMergeDoneInv DEF UndoMergeDone
  <1>5. CASE UndoExtend
    BY <1>1, <1>5, UndoExtendInv DEF UndoExtend
  <1>6. CASE TestMergeDone \/ DoMerge \/ UndoMerge
             \/ \E l, r \in Node : TestMerge(l, r)
    <2>1. op # "untest" /\ done' = done
      BY <1>6 DEF TestMergeDone, DoMerge, UndoMerge, TestMerge
    <2>2. Len(done) \in Nat
      BY DEF TypeOK
    <2>3. QED
      BY <2>1, <2>2
  <1>7. CASE DoMergeDone \/ \E r \in Node : DoExtend(r)
    <2>1. op # "untest" /\ \E e : done' = Append(done, e)
      BY <1>7 DEF DoMergeDone, DoExtend
    <2>2. Len(done') = Len(done) + 1 /\ Len(done) \in Nat
      BY <2>1 DEF TypeOK
    <2>3. QED
      BY <2>1, <2>2
  <1>8. QED
    BY <1>2, <1>3, <1>4, <1>5, <1>6, <1>7 DEF Next, Engine, Finish, Client

\* Undoing a merge, a folded test or an extension restores the heap it was made
\* on exactly: undo_merge walks guards that merging changed, in reverse, and
\* needs no record of what merge did.
THEOREM UndoIsExact == Spec => UndoExact
  <1>1. TypeOK /\ Inv /\ [Next]_vars =>
           [/\ op = "untest" /\ op' = "idle" => heap' = before
            /\ Len(done') < Len(done) => heap' = done[Len(done)].before]_vars
    BY UndoStepExact
  <1>2. QED
    BY <1>1, EngineCorrect, PTL DEF Spec, UndoExact

\* The assertions follow from where the operation is.
LEMMA AssertionsFollow ==
    ASSUME TypeOK, Inv
    PROVE  AssertionsHold
  <1>1. CASE op = "idle"
    BY <1>1 DEF Inv, ControlOK, AssertionsHold, At
  <1>2. CASE op # "idle"
    <2>1. PICK u \in Run : Operates(u) /\ BlockIsTree(u)
      BY <1>2, OperatesFacts
    <2>2. op \in {"test", "untest", "do", "undo"}
      BY <1>2 DEF TypeOK, Op
    <2>3. CASE op \in {"test", "do"} /\ Performing
      <3>1. PICK c \in Reach(u) : c.heap = heap /\ Merging(u, c, stack)
        BY <2>1, <2>3 DEF Operates, Performs
      <3>2. QED
        BY <2>1, <2>3, <3>1, MergingAsserts DEF AssertionsHold
    <2>4. CASE op \in {"test", "do"} /\ ~Performing
      <3>1. u.start = heap /\ Looking(u, stack)
        BY <2>1, <2>4 DEF Operates, LooksAt
      <3>2. QED
        BY <2>1, <2>4, <3>1, LookingFacts DEF AssertionsHold
    <2>5. CASE op \in {"untest", "undo"}
      <3>1. PICK c \in Reach(u) : c.heap = heap /\ Undoing(u, c, stack)
        BY <2>1, <2>5 DEF Operates, Reverts
      <3>2. c \in Configuration /\ stack \in Seq(Frame)
        BY <3>1 DEF Reach, TypeOK
      <3>3. stack # <<>> => top.kind = "undo"
        BY <3>1, <3>2, UndoingPlace
      <3>4. ~At("merge", "find") /\ ~At("merge", "entry")
        BY <3>3 DEF At
      <3>5. op = "undo" => ~u.stops
        BY <2>1 DEF Operates
      <3>6. op = "undo" /\ At("undo", "entry") =>
               top.left # top.right /\ rep[top.right] = top.left
        BY <2>1, <3>1, <3>5, UndoingAsserts
      <3>7. QED
        BY <3>4, <3>6 DEF AssertionsHold
    <2>6. QED
      BY <2>2, <2>3, <2>4, <2>5
  <1>3. QED
    BY <1>1, <1>2

\* merge_with and undo_merge never meet a pair their assertions refuse, however
\* merging has bent the automaton they walk on.
THEOREM AssertionsNeverFail == Spec => []AssertionsHold
  BY EngineCorrect, AssertionsFollow, PTL

\* What the invariant says between two operations.
LEMMA IdleInv ==
    ASSUME TypeOK, Inv, op = "idle"
    PROVE  IdleHeap(heap) /\ tree \in Trees
  BY DEF Inv, SettledOK, settled, TypeOK, AptaTypeOK

\* A pair that can be merged is applicable.
LEMMA MergeableApplies ==
    ASSUME NEW l, NEW r, MergeableIn(heap, l, r)
    PROVE  Applicable(l, r)
  BY HeapParts DEF MergeableIn, Applicable

\* The traces of an extension in effect lead to its state.
LEMMA LastExtension ==
    ASSUME TypeOK, Inv, op = "idle", done # <<>>, done[Len(done)].ref.kind # "merge"
    PROVE  LET last == done[Len(done)].ref IN
           last.blue = last.red /\ StateFromTrace(last.red) = {last.red}
  <1>1. PICK n, b : n = done[Len(done)].ref.red /\ b = done[Len(done)].before
    OBVIOUS
  <1>2. IdleHeap(heap) /\ tree \in Trees /\ HistoryOK
    BY IdleInv DEF Inv, SettledOK
  <1>3. Extended(done[Len(done)].ref, b, heap)
    BY <1>1, <1>2, LastEffect DEF Effect
  <1>4. IdleHeap(b) /\ Coloured(b, {n}, heap) /\ done[Len(done)].ref.blue = n
    BY <1>1, <1>3 DEF Extended
  <1>5. n \in Blues(b) /\ Reps(heap) = rep /\ Reps(heap) = Reps(b)
    <2>1. n \in Blues(b)
      BY <1>4 DEF Coloured
    <2>2. Reps(heap) = Reps(b)
      BY <1>2, <1>4, ColouredIdle
    <2>3. QED
      BY <2>1, <2>2, HeapParts
  <1>6. n \in tree.nodes /\ rep[n] = None
    BY <1>5 DEF Blues
  <1>7. StateFromTrace(n) = {n}
    BY <1>2, <1>6, TraceLeads
  <1>8. QED
    BY <1>1, <1>4, <1>7

\* Between two operations traces lead to what they were taken from.
LEMMA TracesFollow ==
    ASSUME TypeOK, Inv
    PROVE  TracesResolve
  <1> SUFFICES ASSUME op = "idle"
               PROVE  /\ \A n \in RedStates \cup BlueStates : StateFromTrace(n) = {n}
                      /\ done # <<>> => LET last == done[Len(done)].ref IN
                            /\ StateFromTrace(last.red) = {last.red}
                            /\ StateFromTrace(last.blue) = {last.blue}
                      /\ \A r \in CandidateStates :
                            \A l \in MergeTargets(r) : Applicable(l, r)
                      /\ offer # None => Applicable(offer.red, offer.blue)
    BY DEF TracesResolve
  <1>1. IdleHeap(heap) /\ tree \in Trees
    BY IdleInv
  <1>2. \A n \in RedStates \cup BlueStates : StateFromTrace(n) = {n}
    <2>1. \A n \in RedStates \cup BlueStates : n \in tree.nodes /\ rep[n] = None
      BY <1>1, RedStatesRed, BlueStatesBlue, HeapParts DEF Blues
    <2>2. QED
      BY <1>1, <2>1, TraceLeads
  <1>3. done # <<>> => LET last == done[Len(done)].ref IN
           /\ StateFromTrace(last.red) = {last.red}
           /\ StateFromTrace(last.blue) = {last.blue}
    BY LastMerge, LastExtension
  <1>4. \A r \in CandidateStates : \A l \in MergeTargets(r) : Applicable(l, r)
    BY <1>1, CandidatesMerge, MergeableApplies
  <1>5. offer # None => Applicable(offer.red, offer.blue)
    BY OfferLeads, MergeableApplies
  <1>6. QED
    BY <1>2, <1>3, <1>4, <1>5

\* A refinement that stores access traces acts on the states it was made for,
\* whether it is performed or undone.
THEOREM TracesAlwaysResolve == Spec => []TracesResolve
  BY EngineCorrect, TracesFollow, PTL

\* In an idle heap the one transition into a state that is not red comes from
\* the state that holds its source.
LEMMA TreesFollow ==
    ASSUME TypeOK, Inv
    PROVE  NonRedAreTrees
  <1> SUFFICES ASSUME op = "idle", NEW n \in Unmerged, ~red[n]
               PROVE  {e \in Unmerged \X Symbol :
                          LET t == child[e[1]][e[2]] IN t # None /\ find[t] = n}
                      = {<<find[tree.source[n]], tree.symbol[n]>>}
    BY DEF NonRedAreTrees
  <1>1. IdleHeap(heap) /\ tree \in Trees
    BY IdleInv
  <1>2. /\ Guards(heap) = child /\ Reps(heap) = rep /\ Reds(heap) = red
        /\ Finds(heap) = find /\ \A m : Parent(heap, m) = find[tree.source[m]]
    BY HeapParts
  <1>3. /\ n \in tree.nodes \ {Root} /\ rep[n] = None /\ n \in Node
        /\ tree.nodes \subseteq Node /\ tree.symbol[n] \in Symbol
    BY <1>1, <1>2, TreeFacts DEF IdleHeap, Unmerged, nodes
  <1>4. \A m \in Node : find[m] = IF rep[m] = None THEN m ELSE find[rep[m]]
    BY <1>1, <1>2, IdleFinds
  <1>5. /\ find[tree.source[n]] \in Unmerged
        /\ child[find[tree.source[n]]][tree.symbol[n]] = n
        /\ n # None /\ find[n] = n
    BY <1>1, <1>2, <1>3, <1>4, IdleParents, AptaAssumption
       DEF IdleHeap, NodesFound, Unmerged, nodes
  <1>6. ASSUME NEW x \in Unmerged, NEW a \in Symbol, child[x][a] # None,
               find[child[x][a]] = n
        PROVE  x = find[tree.source[n]] /\ a = tree.symbol[n]
    <2>1. x \in Node /\ rep[x] = None
      BY <1>3 DEF Unmerged, nodes
    <2>2. /\ child[x][a] \in tree.nodes /\ tree.symbol[child[x][a]] = a
          /\ find[tree.source[child[x][a]]] = x
          /\ rep[child[x][a]] = None \/ red[find[child[x][a]]]
      BY <1>1, <1>2, <1>6, <2>1 DEF IdleHeap, GuardsLead
    <2>3. child[x][a] = n
      BY <1>3, <1>4, <1>6, <2>2
    <2>4. QED
      BY <2>2, <2>3
  <1>7. QED
    BY <1>3, <1>5, <1>6

\* Every blue state is the root of a tree.
THEOREM NonRedAlwaysTrees == Spec => []NonRedAreTrees
  BY EngineCorrect, TreesFollow, PTL

\* What was merged into a state, directly or not, is what find() leads to it.
LEMMA BelowFound ==
    ASSUME tree \in Trees, IdleHeap(heap), NEW n \in Node, rep[n] = None
    PROVE  Below(n) = {m \in nodes : find[m] = n}
  <1> DEFINE f == CHOOSE f : f = [x \in Node |-> x = n \/ (rep[x] # None /\ f[rep[x]])]
             g == [x \in Node |-> find[x] = n]
  <1>1. /\ rep \in [Node -> Node \cup {None}]
        /\ \A x \in Node : find[x] = IF rep[x] = None THEN x ELSE find[rep[x]]
    BY IdleFinds, HeapParts
  <1>2. g = [x \in Node |-> x = n \/ (rep[x] # None /\ g[rep[x]])]
    <2>1. \A x \in Node : (find[x] = n) <=> (x = n \/ (rep[x] # None /\ find[rep[x]] = n))
      BY <1>1
    <2>2. \A x \in Node : rep[x] # None => rep[x] \in Node
      BY <1>1
    <2>3. \A x \in Node : rep[x] # None => (g[rep[x]] <=> find[rep[x]] = n)
      BY <2>2
    <2>4. \A x \in Node : (find[x] = n) <=> (x = n \/ (rep[x] # None /\ g[rep[x]]))
      BY <2>1, <2>3
    <2>5. QED
      BY <2>4, Zenon
  <1>3. f = [x \in Node |-> x = n \/ (rep[x] # None /\ f[rep[x]])]
    <2> HIDE DEF g
    <2>1. \E k : k = [x \in Node |-> x = n \/ (rep[x] # None /\ k[rep[x]])]
      BY <1>2
    <2>2. QED
      BY <2>1
  <1>4. Below(n) = {m \in nodes : f[m]}
    BY DEF Below
  <1> HIDE DEF f, g
  <1>5. \A x \in Node : f[x] <=> (x = n \/ (rep[x] # None /\ f[rep[x]]))
    BY <1>3
  <1>6. \A x \in Node : f[x] <=> find[x] = n
    <2> DEFINE D == {x \in Node : ~(f[x] <=> find[x] = n)}
    <2> SUFFICES ASSUME D # {} PROVE FALSE
      OBVIOUS
    <2>1. WellFounded(rep)
      BY HeapParts DEF IdleHeap
    <2>2. PICK x \in D : rep[x] \notin D
      BY <2>1 DEF WellFounded
    <2>3. CASE rep[x] = None
      BY <1>1, <1>5, <2>2, <2>3
    <2>4. CASE rep[x] # None
      <3>1. rep[x] \in Node /\ x # n
        BY <1>1, <2>2, <2>4
      <3>2. f[rep[x]] <=> find[rep[x]] = n
        BY <2>2, <3>1
      <3>3. QED
        BY <1>1, <1>5, <2>2, <2>4, <3>1, <3>2
    <2>5. QED
      BY <2>3, <2>4
  <1>7. nodes \subseteq Node
    BY TreeFacts DEF nodes
  <1>8. QED
    BY <1>4, <1>6, <1>7

\* Between two operations the guards of a state are those of what was merged
\* into it.
LEMMA ClassesFollow ==
    ASSUME TypeOK, Inv
    PROVE  TransitionsCoverClass
  <1> SUFFICES ASSUME op = "idle", NEW n \in Unmerged, NEW a \in Symbol
               PROVE  LET kids == {tree.child[m][a] : m \in Below(n)} \ {None} IN
                      IF kids = {} THEN child[n][a] = None
                      ELSE child[n][a] # None
                           /\ \A k \in kids : find[k] = find[child[n][a]]
    BY DEF TransitionsCoverClass
  <1> DEFINE kids == {tree.child[m][a] : m \in Below(n)} \ {None}
  <1>1. IdleHeap(heap) /\ tree \in Trees
    BY IdleInv
  <1>2. /\ Guards(heap) = child /\ Reps(heap) = rep /\ Finds(heap) = find
        /\ \A m : Parent(heap, m) = find[tree.source[m]]
    BY HeapParts
  <1>3. n \in tree.nodes /\ n \in Node /\ rep[n] = None /\ tree.nodes \subseteq Node
    BY <1>1, TreeFacts DEF Unmerged, nodes
  <1>4. Below(n) = {m \in tree.nodes : find[m] = n}
    BY <1>1, <1>3, BelowFound DEF nodes
  <1>5. ASSUME NEW k \in kids
        PROVE  child[n][a] # None /\ find[k] = find[child[n][a]]
    <2>1. PICK m \in tree.nodes : find[m] = n /\ k = tree.child[m][a] /\ k # None
      BY <1>4, <1>5
    <2>2. /\ k \in tree.nodes \ {Root} /\ tree.source[k] = m /\ tree.symbol[k] = a
      BY <1>1, <1>3, <2>1, TreeFacts
    <2>3. QED
      BY <1>1, <1>2, <2>1, <2>2 DEF IdleHeap, NodesFound
  <1>6. ASSUME child[n][a] # None
        PROVE  kids # {}
    <2>1. /\ child[n][a] \in tree.nodes \ {Root} /\ tree.symbol[child[n][a]] = a
          /\ find[tree.source[child[n][a]]] = n
      BY <1>1, <1>2, <1>3, <1>6 DEF IdleHeap, GuardsLead
    <2>2. /\ tree.source[child[n][a]] \in tree.nodes
          /\ tree.child[tree.source[child[n][a]]][a] = child[n][a]
      BY <1>1, <2>1, TreeFacts
    <2>3. child[n][a] \in kids
      BY <1>4, <1>6, <2>1, <2>2
    <2>4. QED
      BY <2>3
  <1>7. QED
    BY <1>5, <1>6

\* Merging is the same as building the automaton of the merged classes: the
\* transitions of a state are those of all nodes in its class.
THEOREM TransitionsAlwaysCover == Spec => []TransitionsCoverClass
  BY EngineCorrect, ClassesFollow, PTL

\* Between two operations the state iterators find every state.
LEMMA IteratorsFollow ==
    ASSUME TypeOK, Inv
    PROVE  IteratorsComplete
  <1> SUFFICES ASSUME op = "idle"
               PROVE  /\ AllStates = Unmerged
                      /\ RedStates = {n \in Unmerged : red[n]}
                      /\ BlueStates = {n \in Unmerged \ {Root} :
                                         ~red[n] /\ red[find[tree.source[n]]]}
    BY DEF IteratorsComplete
  <1> DEFINE reds == {n \in tree.nodes : rep[n] = None /\ red[n]}
  <1>1. IdleHeap(heap) /\ tree \in Trees
    BY IdleInv
  <1>2. /\ Reps(heap) = rep /\ Reds(heap) = red
        /\ \A m : Parent(heap, m) = find[tree.source[m]]
    BY HeapParts
  <1>3. Unmerged = {n \in tree.nodes : rep[n] = None}
    BY DEF Unmerged, nodes
  <1>4. \A n \in tree.nodes \ {Root} :
           find[tree.source[n]] \in tree.nodes /\ rep[find[tree.source[n]]] = None
    BY <1>1, <1>2, IdleParents
  <1>5. AllStates = Unmerged
    <2>1. \A n \in Unmerged \ {Root} : find[tree.source[n]] \in Unmerged
      BY <1>3, <1>4
    <2>2. Root \in AllStates /\ \A n \in AllStates : \A t \in Targets(n) : t \in AllStates
      BY <1>1, StateLayers
    <2>3. Unmerged \subseteq AllStates
      BY <1>1, <1>3, <2>1, <2>2, StatesLed
    <2>4. QED
      BY <1>1, <1>3, <2>3, StateLayers
  <1>6. RedStates = reds
    <2>1. \A n \in reds \ {Root} : find[tree.source[n]] \in reds
      BY <1>1, <1>2, <1>4 DEF IdleHeap, RedsBelowRed
    <2>2. /\ Root \in RedStates
          /\ \A n \in RedStates : \A t \in Targets(n) : t \in reds => t \in RedStates
      BY <1>1, RedLayers
    <2>3. reds \in SUBSET {n \in tree.nodes : rep[n] = None}
      OBVIOUS
    <2> HIDE DEF reds
    <2>4. reds \subseteq RedStates
      BY <1>1, <2>1, <2>2, <2>3, StatesLed
    <2>5. QED
      BY <1>1, <2>4, RedLayers DEF reds
  <1>7. \A n \in Blues(heap) : n \in BlueStates
    <2> SUFFICES ASSUME NEW n \in Blues(heap) PROVE n \in BlueStates
      OBVIOUS
    <2>1. /\ n \in tree.nodes \ {Root} /\ rep[n] = None /\ ~red[n]
          /\ red[find[tree.source[n]]]
      BY <1>2 DEF Blues
    <2>2. find[tree.source[n]] \in RedStates
      BY <1>4, <1>6, <2>1
    <2>3. tree.symbol[n] \in Symbol /\ n # None
      BY <1>1, <2>1, TreeFacts, AptaAssumption
    <2>4. child[find[tree.source[n]]][tree.symbol[n]] = n
      BY <1>1, <1>2, <2>1, HeapParts DEF IdleHeap, NodesFound
    <2>5. n \in Targets(find[tree.source[n]])
      BY <2>1, <2>3, <2>4 DEF Targets
    <2>6. QED
      BY <2>1, <2>2, <2>5 DEF BlueStates
  <1>8. BlueStates = {n \in Unmerged \ {Root} : ~red[n] /\ red[find[tree.source[n]]]}
    <2>1. Blues(heap) = {n \in Unmerged \ {Root} : ~red[n] /\ red[find[tree.source[n]]]}
      BY <1>2, <1>3 DEF Blues
    <2>2. QED
      BY <1>1, <1>7, <2>1, BlueStatesBlue
  <1>9. QED
    BY <1>3, <1>5, <1>6, <1>8

\* The iterators that search, undo and print the automaton by skip what is
\* merged and follow the guards as they are, and still miss no state.
THEOREM IteratorsAlwaysComplete == Spec => []IteratorsComplete
  BY EngineCorrect, IteratorsFollow, PTL

-----------------------------------------------------------------------------
(* Sinks.                                                                  *)

\* SinksInherited, in the heap h.
SinkLaw(h) ==
    \A n \in nodes \ {Root} :
       Reds(h)[n] /\ Reps(h)[n] = None /\ Sinks(h)[Parent(h, n)] # NoSink =>
          Sinks(h)[n] = Sinks(h)[Parent(h, n)]

\* A refinement in effect was made on a heap where this held, and a merge into
\* a red state.
IntoRed(o, h) == o.kind = "merge" => Reds(h)[o.red]

SinksOK ==
    /\ SinkLaw(settled)
    /\ offer # None => IntoRed(offer, settled)
    /\ op \in {"test", "do", "undo"} => IntoRed(ref, before)
    /\ \A i \in 1 .. Len(done) : SinkLaw(done[i].before) /\ IntoRed(done[i].ref, done[i].before)

\* It depends on nothing but the tree.
LEMMA SinkLawFixed ==
    ASSUME tree' = tree, NEW h
    PROVE  SinkLaw(h)' <=> SinkLaw(h)
  BY DEF SinkLaw, Parent, nodes

\* For the heap of now, it is SinksInherited.
LEMMA SinkLawNow ==
    SinksInherited <=> SinkLaw(heap)
  BY HeapParts DEF SinksInherited, SinkLaw

\* A run that colours nothing leaves red states, and what they hang below, alone.
LEMMA RunSinks ==
    ASSUME NEW u, NEW b, RunsOn(u, b), u.stops \/ Reds(b)[u.left],
           NEW c \in Reach(u), SinkLaw(b)
    PROVE  SinkLaw(c.heap)
  <1>1. /\ BlockIsTree(u) /\ IdleHeap(b) /\ tree \in Trees
        /\ \A x \in Block(u) : ~Reds(b)[x]
    BY RunStarts DEF RunsOn
  <1>2. u.start = b
    <2>1. Coloured(b, {}, u.start) /\ b \in Snapshot
      BY <1>1 DEF RunsOn, IdleHeap
    <2>2. QED
      BY <2>1, ColouredNone
  <1>3. Sound(u, c)
    BY <1>1, ReachSound
  <1>4. /\ Reds(c.heap) = Reds(b) /\ Sinks(c.heap) = Sinks(b)
        /\ \A x \in Node \ Block(u) : Reps(c.heap)[x] = Reps(b)[x]
        /\ \A x \in Node : Finds(c.heap)[x] = Found(u, c.heap, x)
    BY <1>1, <1>2, <1>3, RunFinds DEF Sound, RepsOK
  <1> SUFFICES ASSUME NEW n \in nodes \ {Root}, Reds(c.heap)[n], Reps(c.heap)[n] = None,
                      Sinks(c.heap)[Parent(c.heap, n)] # NoSink
               PROVE  Sinks(c.heap)[n] = Sinks(c.heap)[Parent(c.heap, n)]
    BY DEF SinkLaw
  <1>5. n \in Node /\ n \in tree.nodes \ {Root} /\ tree.source[n] \in Node
    BY <1>1, TreeFacts DEF nodes
  <1>6. Reds(b)[n] /\ Reps(b)[n] = None
    BY <1>1, <1>4, <1>5
  <1>7. PICK p : p = Parent(b, n)
    OBVIOUS
  <1>8. p \in Node /\ Reds(b)[p] /\ Reps(b)[p] = None
    BY <1>1, <1>5, <1>6, <1>7, IdleFinds DEF IdleHeap, RedsBelowRed, Parent
  <1>9. Parent(c.heap, n) = p
    BY <1>1, <1>2, <1>4, <1>5, <1>7, <1>8 DEF Parent, Found
  <1>10. QED
    BY <1>4, <1>6, <1>7, <1>9 DEF SinkLaw

\* So does a colouring that makes a sink of what hangs below one.
LEMMA ColourSinks ==
    ASSUME tree \in Trees, NEW h, IdleHeap(h), SinkLaw(h), NEW b, NEW g,
           Coloured(h, {b}, g),
           Sinks(h)[Parent(h, b)] # NoSink => Sinks(g)[b] = Sinks(h)[Parent(h, b)]
    PROVE  SinkLaw(g)
  <1>1. /\ b \in Blues(h) /\ Reps(g) = Reps(h) /\ Finds(g) = Finds(h)
        /\ \A n \in Node : Reds(g)[n] <=> Reds(h)[n] \/ n = b
        /\ \A n \in Node : n # b => Sinks(g)[n] = Sinks(h)[n]
    BY DEF Coloured, Reps, Finds
  <1>2. ~Reds(h)[b]
    BY <1>1 DEF Blues
  <1> SUFFICES ASSUME NEW n \in nodes \ {Root}, Reds(g)[n], Reps(g)[n] = None,
                      Sinks(g)[Parent(g, n)] # NoSink
               PROVE  Sinks(g)[n] = Sinks(g)[Parent(g, n)]
    BY DEF SinkLaw
  <1>3. n \in Node /\ n \in tree.nodes \ {Root} /\ tree.source[n] \in Node
    BY TreeFacts DEF nodes
  <1>4. PICK p : p = Parent(h, n)
    OBVIOUS
  <1>5. Parent(g, n) = p /\ p \in Node
    BY <1>1, <1>3, <1>4, IdleFinds DEF Parent
  <1>6. Reds(h)[p]
    <2>1. Reds(h)[n] => Reds(h)[p]
      BY <1>1, <1>3, <1>4 DEF IdleHeap, RedsBelowRed
    <2>2. n = b => Reds(h)[p]
      BY <1>1, <1>4 DEF Blues
    <2>3. QED
      BY <1>1, <1>3, <2>1, <2>2
  <1>7. p # b /\ Sinks(g)[p] = Sinks(h)[p]
    BY <1>1, <1>2, <1>5, <1>6
  <1>8. CASE n = b
    BY <1>4, <1>5, <1>7, <1>8
  <1>9. CASE n # b
    BY <1>1, <1>3, <1>4, <1>5, <1>7, <1>9 DEF SinkLaw
  <1>10. QED
    BY <1>8, <1>9

\* So it holds in the middle of an operation, too.
LEMMA SinksFollow ==
    ASSUME TypeOK, Inv, SinksOK
    PROVE  SinksInherited
  <1>1. CASE op = "idle"
    BY <1>1, SinkLawNow DEF SinksOK, settled
  <1>2. CASE op # "idle"
    <2>1. PICK u \in Run : Operates(u) /\ BlockIsTree(u) /\ RunsOn(u, before)
      BY <1>2, OperatesFacts
    <2>2. SinkLaw(before)
      BY <1>2 DEF SinksOK, settled
    <2>3. u.stops \/ Reds(before)[u.left]
      <3>1. op \in {"test", "untest", "do", "undo"} /\ ref.kind = "merge"
        BY <1>2 DEF TypeOK, Op, Inv, ControlOK
      <3>2. QED
        BY <2>1, <3>1 DEF Operates, SinksOK, IntoRed
    <2>4. CASE \E c \in Reach(u) : c.heap = heap
      BY <2>1, <2>2, <2>3, <2>4, RunSinks, SinkLawNow
    <2>5. CASE u.start = heap
      <3>1. \A c \in Reach(u) : SinkLaw(c.heap)
        BY <2>1, <2>2, <2>3, RunSinks
      <3>2. Coloured(before, {}, u.start) /\ before \in Snapshot
        BY <2>1, <2>3 DEF RunsOn, IdleHeap
      <3>3. u.start = before
        BY <3>2, ColouredNone
      <3>4. QED
        BY <2>2, <2>5, <3>3, SinkLawNow
    <2>6. QED
      <3>1. op \in {"test", "untest", "do", "undo"}
        BY <1>2 DEF TypeOK, Op
      <3>2. QED
        BY <2>1, <2>4, <2>5, <3>1 DEF Operates, Performs, Reverts, LooksAt
  <1>3. QED
    BY <1>1, <1>2

\* What a step leaves behind.
LEMMA SinksBy ==
    ASSUME tree' = tree, NEW g, g = settled', SinkLaw(g),
           NEW o, o = offer', o # None => IntoRed(o, g),
           NEW q, q = op', NEW r, r = ref', NEW b, b = before',
           q \in {"test", "do", "undo"} => IntoRed(r, b),
           NEW s, s = done',
           \A i \in 1 .. Len(s) : SinkLaw(s[i].before) /\ IntoRed(s[i].ref, s[i].before)
    PROVE  SinksOK'
  <1>1. SinkLaw(settled)'
    BY SinkLawFixed
  <1>2. (offer # None => IntoRed(offer, settled))'
    BY DEF IntoRed, Reds
  <1>3. (op \in {"test", "do", "undo"} => IntoRed(ref, before))'
    BY DEF IntoRed, Reds
  <1>4. ASSUME NEW i \in 1 .. Len(done')
        PROVE  (SinkLaw(done[i].before) /\ IntoRed(done[i].ref, done[i].before))'
    <2>1. SinkLaw(s[i].before) /\ IntoRed(s[i].ref, s[i].before)
      BY <1>4
    <2>2. PICK e : e = s[i]
      OBVIOUS
    <2>3. SinkLaw(e.before)' /\ IntoRed(e.ref, e.before)'
      BY <2>1, <2>2, SinkLawFixed DEF IntoRed, Reds
    <2>4. e = done'[i]
      BY <2>2
    <2>5. QED
      BY <2>3, <2>4 DEF IntoRed, Reds
  <1>5. QED
    BY <1>1, <1>2, <1>3, <1>4 DEF SinksOK

\* One refinement more is in effect.
LEMMA SinksGrown ==
    ASSUME TypeOK, SinksOK, tree' = tree, op' = "idle", offer' = None,
           NEW r, NEW b, done' = Append(done, [ref |-> r, before |-> b]),
           SinkLaw(b), IntoRed(r, b), NEW g, g = settled', SinkLaw(g)
    PROVE  SinksOK'
  <1> PICK s, t : s = done /\ t = done'
    OBVIOUS
  <1>1. s \in Seq([ref : Refinement, before : Snapshot])
    BY DEF TypeOK
  <1>2. t = Append(s, [ref |-> r, before |-> b])
    OBVIOUS
  <1>3. \A i \in 1 .. Len(t) : t[i] = IF i <= Len(s) THEN s[i] ELSE [ref |-> r, before |-> b]
    BY <1>1, <1>2
  <1>4. \A i \in 1 .. Len(s) : SinkLaw(s[i].before) /\ IntoRed(s[i].ref, s[i].before)
    BY DEF SinksOK
  <1>5. \A i \in 1 .. Len(t) : SinkLaw(t[i].before) /\ IntoRed(t[i].ref, t[i].before)
    <2> SUFFICES ASSUME NEW i \in 1 .. Len(t)
                 PROVE  SinkLaw(t[i].before) /\ IntoRed(t[i].ref, t[i].before)
      OBVIOUS
    <2>1. i <= Len(s) => i \in 1 .. Len(s)
      BY <1>1
    <2>2. QED
      BY <1>3, <1>4, <2>1
  <1>6. PICK o, q, x, y : o = offer' /\ q = op' /\ x = ref' /\ y = before'
    OBVIOUS
  <1>7. o = None /\ q \notin {"test", "do", "undo"}
    BY <1>6
  <1>8. QED
    BY <1>5, <1>6, <1>7, SinksBy

\* One less.
LEMMA SinksShrunk ==
    ASSUME TypeOK, SinksOK, tree' = tree, op' = "idle", offer' = None, done # <<>>,
           done' = SubSeq(done, 1, Len(done) - 1), settled' = done[Len(done)].before
    PROVE  SinksOK'
  <1> PICK s, t, g : s = done /\ t = done' /\ g = settled'
    OBVIOUS
  <1>1. s \in Seq([ref : Refinement, before : Snapshot]) /\ s # <<>>
    BY DEF TypeOK
  <1>2. Len(s) \in 1 .. Len(s)
    BY <1>1
  <1>3. t = SubSeq(s, 1, Len(s) - 1) /\ g = s[Len(s)].before
    OBVIOUS
  <1>4. \A i \in 1 .. Len(t) : i \in 1 .. Len(s) /\ t[i] = s[i]
    BY <1>1, <1>3
  <1>5. \A i \in 1 .. Len(s) : SinkLaw(s[i].before) /\ IntoRed(s[i].ref, s[i].before)
    BY DEF SinksOK
  <1>6. SinkLaw(g) /\ \A i \in 1 .. Len(t) : SinkLaw(t[i].before) /\ IntoRed(t[i].ref, t[i].before)
    BY <1>2, <1>3, <1>4, <1>5
  <1>7. PICK o, q, x, y : o = offer' /\ q = op' /\ x = ref' /\ y = before'
    OBVIOUS
  <1>8. o = None /\ q \notin {"test", "do", "undo"}
    BY <1>7
  <1>9. QED
    BY <1>6, <1>7, <1>8, SinksBy

\* None.
LEMMA SinksSame ==
    ASSUME SinksOK, tree' = tree, done' = done, NEW g, g = settled', SinkLaw(g),
           NEW o, o = offer', o # None => IntoRed(o, g),
           NEW q, q = op', NEW r, r = ref', NEW b, b = before',
           q \in {"test", "do", "undo"} => IntoRed(r, b)
    PROVE  SinksOK'
  <1> PICK s : s = done
    OBVIOUS
  <1>1. \A i \in 1 .. Len(s) : SinkLaw(s[i].before) /\ IntoRed(s[i].ref, s[i].before)
    BY DEF SinksOK
  <1>2. QED
    BY <1>1, SinksBy

\* Calls, and steps of nothing.
LEMMA CallSinks ==
    ASSUME TypeOK, Inv, SinksOK, MergeStep \/ UndoStep \/ UNCHANGED vars
    PROVE  SinksOK'
  <1>1. UNCHANGED <<tree, op, ref, offer, done, before>>
    BY DEF MergeStep, MergeStop, MergeNodes, MergeAdopt, MergeChildren, MergeFind,
       MergeRecurse, MergeReturn, UndoStep, UndoSkip, UndoEnter, UndoAdopt,
       UndoChildren, UndoFind, UndoRecurse, UndoNodes, vars, control
  <1>2. settled' = settled
    <2>1. op = "idle" => heap' = heap
      <3>1. op = "idle" => stack = <<>>
        BY DEF Inv, ControlOK
      <3>2. MergeStep \/ UndoStep => stack # <<>>
        BY DEF MergeStep, MergeStop, MergeNodes, MergeAdopt, MergeChildren, MergeFind,
           MergeRecurse, MergeReturn, UndoStep, UndoSkip, UndoEnter, UndoAdopt,
           UndoChildren, UndoFind, UndoRecurse, UndoNodes, At
      <3>3. QED
        BY <3>1, <3>2 DEF vars
    <2>2. QED
      BY <1>1, <2>1 DEF settled
  <1>3. PICK g, o, q, r, b : g = settled /\ o = offer /\ q = op /\ r = ref /\ b = before
    OBVIOUS
  <1>4. /\ SinkLaw(g) /\ (o # None => IntoRed(o, g))
        /\ q \in {"test", "do", "undo"} => IntoRed(r, b)
    BY <1>3 DEF SinksOK
  <1>5. QED
    BY <1>1, <1>2, <1>3, <1>4, SinksSame

\* The ends of operations.
LEMMA TestMergeDoneSinks ==
    ASSUME TypeOK, Inv, SinksOK, TestMergeDone
    PROVE  SinksOK'
  <1>1. /\ op = "test" /\ tree' = tree /\ heap' = heap /\ done' = done
        /\ ref \in Refinement
        /\ op' \in {"untest", "idle"} /\ (op' = "untest" => before' = before)
        /\ offer' # None => offer' = [ref EXCEPT !.score = eval.merges]
    BY DEF TestMergeDone, TypeOK
  <1>2. op' = "idle" => heap = before
    <2>1. PICK u \in Run : Operates(u) /\ RunsOn(u, before)
      BY <1>1, OperatesFacts
    <2>2. op' = "idle" => u.start = heap
      BY <1>1, <2>1 DEF TestMergeDone, Operates, Performing, LooksAt
    <2>3. u.start = before
      BY <1>1, <2>1, TestStarts DEF Operates
    <2>4. QED
      BY <2>2, <2>3
  <1>3. PICK g, o, q, r, b : g = before /\ o = offer' /\ q = op' /\ r = ref' /\ b = before'
    OBVIOUS
  <1>4. settled' = g /\ SinkLaw(g)
    BY <1>1, <1>2, <1>3 DEF settled, SinksOK
  <1>5. o # None => IntoRed(o, g)
    <2>1. IntoRed(ref, before)
      BY <1>1 DEF SinksOK
    <2>2. o # None => o.kind = ref.kind /\ o.red = ref.red
      BY <1>1, <1>3 DEF Refinement
    <2>3. QED
      BY <1>3, <2>1, <2>2 DEF IntoRed
  <1>6. QED
    BY <1>1, <1>3, <1>4, <1>5, SinksSame

\* The undo of a test.
LEMMA TestMergeUndoneSinks ==
    ASSUME TypeOK, Inv, SinksOK, TestMergeUndone
    PROVE  SinksOK'
  <1>1. /\ op = "untest" /\ op' = "idle" /\ tree' = tree /\ done' = done /\ offer' = offer
        /\ heap' = before
    BY TestMergeUndoneInv DEF TestMergeUndone
  <1>2. PICK g, o, q, r, b : g = before /\ o = offer /\ q = "idle" /\ r = ref' /\ b = before'
    OBVIOUS
  <1>3. settled' = g /\ SinkLaw(g) /\ (o # None => IntoRed(o, g))
    BY <1>1, <1>2 DEF settled, SinksOK
  <1>4. QED
    BY <1>1, <1>2, <1>3, SinksSame

\* A merge.
LEMMA DoMergeDoneSinks ==
    ASSUME TypeOK, Inv, SinksOK, DoMergeDone
    PROVE  SinksOK'
  <1>1. /\ op = "do" /\ op' = "idle" /\ tree' = tree /\ heap' = heap /\ offer' = offer
        /\ done' = Append(done, [ref |-> ref, before |-> before])
    BY DEF DoMergeDone
  <1>2. offer = None /\ settled = before /\ settled' = heap
    BY <1>1 DEF Inv, ControlOK, settled
  <1>3. PICK u \in Run : Operates(u) /\ RunsOn(u, before)
    BY <1>1, OperatesFacts
  <1>4. PICK r, b, g : r = ref /\ b = before /\ g = heap
    OBVIOUS
  <1>5. SinkLaw(b) /\ IntoRed(r, b) /\ r.kind = "merge"
    BY <1>1, <1>2, <1>4 DEF SinksOK, Inv, ControlOK
  <1>6. RunsOn(u, b) /\ Reds(b)[u.left]
    BY <1>3, <1>4, <1>5 DEF Operates, IntoRed
  <1>7. PICK c \in Reach(u) : c.heap = g
    BY <1>1, <1>3, <1>4 DEF Operates, Performing, Performs
  <1>8. SinkLaw(g)
    BY <1>5, <1>6, <1>7, RunSinks
  <1>9. QED
    BY <1>1, <1>2, <1>4, <1>5, <1>8, SinksGrown

\* The undo of a merge.
LEMMA UndoMergeDoneSinks ==
    ASSUME TypeOK, Inv, SinksOK, UndoMergeDone
    PROVE  SinksOK'
  <1>1. /\ op = "undo" /\ op' = "idle" /\ tree' = tree /\ offer' = offer
        /\ done' = SubSeq(done, 1, Len(done) - 1) /\ heap' = done[Len(done)].before
    BY UndoMergeDoneInv DEF UndoMergeDone
  <1>2. offer = None /\ done # <<>> /\ settled' = heap'
    BY <1>1 DEF Inv, ControlOK, settled
  <1>3. QED
    BY <1>1, <1>2, SinksShrunk

\* The client extends a blue state.
LEMMA DoExtendSinks ==
    ASSUME TypeOK, TypeOK', Inv, SinksOK, NEW b \in CandidateStates, DoExtend(b)
    PROVE  SinksOK'
  <1>1. /\ op = "idle" /\ op' = "idle" /\ offer' = None /\ tree' = tree
        /\ done' = Append(done,
                     [ref |-> [kind |-> "extend", red |-> b, blue |-> b, score |-> 0],
                      before |-> heap])
    BY DEF DoExtend
  <1>2. PICK r, h, g : /\ r = [kind |-> "extend", red |-> b, blue |-> b, score |-> 0]
                       /\ h = heap /\ g = heap'
    OBVIOUS
  <1>3. settled' = g /\ SinkLaw(h) /\ IntoRed(r, h)
    BY <1>1, <1>2 DEF settled, SinksOK, IntoRed
  <1>4. /\ IdleHeap(h) /\ tree \in Trees /\ b \in Blues(h) /\ b \in Node
        /\ Coloured(h, {b}, g) /\ Sinks(g)[b] = ExtendedSink(b)
    BY <1>2, ExtendColours
  <1>5. Sinks(h)[Parent(h, b)] # NoSink => Sinks(g)[b] = Sinks(h)[Parent(h, b)]
    <2>1. PICK p : p = Parent(h, b)
      OBVIOUS
    <2>2. b \in tree.nodes \ {Root} /\ tree.source[b] \in Node
      BY <1>4, TreeFacts DEF Blues
    <2>3. tree.source[b] # None
      BY <2>2, AptaAssumption
    <2>4. p \in Node /\ p = find[tree.source[b]] /\ Sinks(h) = sink
      BY <1>2, <1>4, <2>1, <2>2, IdleFinds, HeapParts DEF Parent
    <2>5. Node \cap {find[tree.source[b]]} = {p}
      BY <2>4
    <2>6. sink[p] # NoSink => ExtendedSink(b) = sink[p]
      <3>1. {sink[q] : q \in {p}} = {sink[p]}
        OBVIOUS
      <3>2. sink[p] # NoSink => {sink[q] : q \in {p}} \ {NoSink} = {sink[p]}
        BY <3>1
      <3>3. QED
        BY <2>3, <2>5, <3>2 DEF ExtendedSink
    <2>7. QED
      BY <1>4, <2>1, <2>4, <2>6
  <1>6. SinkLaw(g)
    BY <1>3, <1>4, <1>5, ColourSinks
  <1>7. QED
    BY <1>1, <1>2, <1>3, <1>6, SinksGrown

\* The undo of an extension.
LEMMA UndoExtendSinks ==
    ASSUME TypeOK, TypeOK', Inv, SinksOK, UndoExtend
    PROVE  SinksOK'
  <1>1. /\ op' = "idle" /\ offer' = None /\ done # <<>> /\ tree' = tree
        /\ done' = SubSeq(done, 1, Len(done) - 1)
    BY DEF UndoExtend
  <1>2. settled' = done[Len(done)].before
    BY <1>1, UndoExtendInv DEF settled, UndoExtend
  <1>3. QED
    BY <1>1, <1>2, SinksShrunk

\* Without --blueblue the left state of a merge is red.
LEMMA TestMergeSinks ==
    ASSUME TypeOK, Inv, SinksOK, ~MERGE_BLUE_BLUE,
           NEW r \in CandidateStates, NEW l \in MergeTargets(r), TestMerge(l, r)
    PROVE  SinksOK'
  <1>1. /\ op = "idle" /\ op' = "test" /\ offer' = None /\ tree' = tree /\ done' = done
        /\ before' = heap /\ ref' = [kind |-> "merge", red |-> l, blue |-> r, score |-> 0]
    BY DEF TestMerge
  <1>2. IdleHeap(heap) /\ tree \in Trees
    BY <1>1 DEF settled, Inv, SettledOK, TypeOK, AptaTypeOK
  <1>3. red[l]
    BY <1>2, RedStatesRed DEF MergeTargets
  <1>4. PICK g, o, q, x : g = heap /\ o = None /\ q = op' /\ x = ref'
    OBVIOUS
  <1>5. SinkLaw(g) /\ IntoRed(x, g)
    BY <1>1, <1>3, <1>4, HeapParts DEF SinksOK, settled, IntoRed
  <1>6. settled' = g
    BY <1>1, <1>4 DEF settled
  <1>7. QED
    BY <1>1, <1>4, <1>5, <1>6, SinksSame

\* What was offered is performed.
LEMMA DoMergeSinks ==
    ASSUME TypeOK, Inv, SinksOK, DoMerge
    PROVE  SinksOK'
  <1>1. /\ op = "idle" /\ op' = "do" /\ offer # None /\ offer' = None /\ tree' = tree
        /\ done' = done /\ before' = heap /\ ref' = offer
    BY DEF DoMerge
  <1>2. PICK g, o, q, x : g = heap /\ o = None /\ q = op' /\ x = offer
    OBVIOUS
  <1>3. SinkLaw(g) /\ IntoRed(x, g) /\ settled' = g
    BY <1>1, <1>2 DEF SinksOK, settled
  <1>4. QED
    BY <1>1, <1>2, <1>3, SinksSame

\* The last merge is taken back.
LEMMA UndoMergeSinks ==
    ASSUME TypeOK, Inv, SinksOK, UndoMerge
    PROVE  SinksOK'
  <1>1. /\ op = "idle" /\ op' = "undo" /\ offer' = None /\ tree' = tree /\ done' = done
        /\ done # <<>> /\ done[Len(done)].ref.kind = "merge"
        /\ before' = done[Len(done)].before
    BY DEF UndoMerge
  <1>2. PICK e : e = done[Len(done)]
    OBVIOUS
  <1>3. e \in [ref : Refinement, before : Snapshot]
    BY <1>1, <1>2, LastElement DEF TypeOK
  <1>4. SinkLaw(e.before) /\ IntoRed(e.ref, e.before)
    <2>1. PICK n \in Nat : n = Len(done)
      BY LenProperties DEF TypeOK
    <2>2. n \in 1 .. Len(done)
      BY <1>1, <2>1, EmptySeq, LenProperties DEF TypeOK
    <2>3. QED
      BY <1>2, <2>1, <2>2 DEF SinksOK
  <1>5. ref'.kind = "merge" /\ ref'.red = e.ref.red
    <2>1. StateFromTrace(e.ref.red) = {e.ref.red}
      BY <1>1, <1>2, LastMerge
    <2>2. \E r \in StateFromTrace(e.ref.blue) :
             ref' = [e.ref EXCEPT !.red = e.ref.red, !.blue = r]
      BY <1>2, <2>1 DEF UndoMerge
    <2>3. QED
      BY <1>1, <1>2, <1>3, <2>2 DEF Refinement
  <1>6. PICK g, o, q, x : g = e.before /\ o = None /\ q = op' /\ x = ref'
    OBVIOUS
  <1>7. SinkLaw(g) /\ IntoRed(x, g) /\ settled' = g /\ before' = g
    BY <1>1, <1>2, <1>4, <1>5, <1>6 DEF settled, IntoRed
  <1>8. QED
    BY <1>1, <1>6, <1>7, SinksSame

\* Every step.
LEMMA NextSinks ==
    ASSUME TypeOK, Inv, SinksOK, ~MERGE_BLUE_BLUE, [Next]_vars
    PROVE  SinksOK'
  <1>1. TypeOK'
    BY NextTypeOK
  <1>2. CASE UNCHANGED vars \/ MergeStep \/ UndoStep
    BY <1>2, CallSinks
  <1>3. CASE Finish
    BY <1>3, TestMergeDoneSinks, TestMergeUndoneSinks, DoMergeDoneSinks, UndoMergeDoneSinks
       DEF Finish
  <1>4. CASE Client
    <2>1. CASE \E r \in Node \cap CandidateStates : DoExtend(r)
      BY <1>1, <2>1, DoExtendSinks
    <2>2. CASE \E r \in Node \cap CandidateStates :
                 \E l \in Node \cap MergeTargets(r) : TestMerge(l, r)
      BY <2>2, TestMergeSinks
    <2>3. CASE DoMerge
      BY <2>3, DoMergeSinks
    <2>4. CASE UndoMerge
      BY <2>4, UndoMergeSinks
    <2>5. CASE UndoExtend
      BY <1>1, <2>5, UndoExtendSinks
    <2>6. QED
      BY <1>4, <2>1, <2>2, <2>3, <2>4, <2>5 DEF Client
  <1>5. QED
    BY <1>2, <1>3, <1>4 DEF Next, Engine

\* Where no sink is.
LEMMA InitSinks ==
    ASSUME Init
    PROVE  SinksOK
  <1>1. /\ op = "idle" /\ offer = None /\ done = <<>>
        /\ \A n \in Node : sink[n] = NoSink
    BY DEF Init, AptaInit
  <1>2. IdleHeap(heap) /\ tree \in Trees
    BY InitIdle DEF Init, AptaInit
  <1>3. SinkLaw(heap)
    <2> SUFFICES ASSUME NEW n \in nodes \ {Root}
                 PROVE  Sinks(heap)[Parent(heap, n)] = NoSink
      BY DEF SinkLaw
    <2>1. tree.source[n] \in Node
      BY <1>2, TreeFacts DEF nodes
    <2>2. Parent(heap, n) \in Node
      BY <1>2, <2>1, IdleFinds DEF Parent
    <2>3. QED
      BY <1>1, <2>2, HeapParts
  <1>4. Len(done) = 0
    BY <1>1
  <1>5. QED
    BY <1>1, <1>3, <1>4 DEF SinksOK, settled

\* A red state under a red sink is a sink of the same type (SinksInherited), in
\* the middle of merging, undoing and testing too: nothing that merges away what
\* hangs below a sink, or brings it back, makes a core state of it.  With
\* --blueblue it does not hold: a merge of two blue states colours both, and the
\* right one has no sink until it is merged away.
THEOREM SinksStayInherited == ~MERGE_BLUE_BLUE => (Spec => []SinksInherited)
  <1> SUFFICES ASSUME ~MERGE_BLUE_BLUE
               PROVE  Spec => []SinksInherited
    OBVIOUS
  <1>1. Init => SinksOK
    BY InitSinks
  <1>2. TypeOK /\ Inv /\ SinksOK /\ [Next]_vars => SinksOK'
    BY NextSinks
  <1>3. TypeOK /\ Inv /\ SinksOK => SinksInherited
    BY SinksFollow
  <1>4. QED
    BY <1>1, <1>2, <1>3, EngineCorrect, PTL DEF Spec

-----------------------------------------------------------------------------
(* Sums over finite sets.                                                  *)

Some(s) == CHOOSE x \in s : TRUE

\* g is SumOver for f on the subsets of U.
SumsUp(g, U, f) ==
    /\ g \in [SUBSET U -> Int]
    /\ \A s \in SUBSET U : g[s] = IF s = {} THEN 0 ELSE f[Some(s)] + g[s \ {Some(s)}]

\* Among subsets of a finite set there is one that contains no other.
LEMMA SmallestSubset ==
    ASSUME NEW U, IsFiniteSet(U), NEW D \in SUBSET SUBSET U, D # {}
    PROVE  \E s \in D : \A t \in D : t \subseteq s => t = s
  <1>1. D \subseteq FiniteSubsetsOf(U)
    BY FS_Subset DEF FiniteSubsetsOf
  <1>2. IsWellFoundedOn(StrictSubsetOrdering(U), FiniteSubsetsOf(U))
    BY FS_StrictSubsetOrderingWellFounded
  <1>3. \E s \in D : \A t \in D : <<t, s>> \notin StrictSubsetOrdering(U)
    BY <1>1, <1>2, WFMin
  <1>4. PICK s \in D : \A t \in D : <<t, s>> \notin StrictSubsetOrdering(U)
    BY <1>3
  <1>5. ASSUME NEW t \in D, t \subseteq s
        PROVE  t = s
    BY <1>4, <1>5 DEF StrictSubsetOrdering
  <1>6. QED
    BY <1>5

\* Some member.
LEMMA SomeMember ==
    ASSUME NEW s, s # {}
    PROVE  Some(s) \in s
  BY DEF Some

\* There is such a function.
LEMMA SumExists ==
    ASSUME NEW U, IsFiniteSet(U), NEW f, \A x \in U : f[x] \in Int
    PROVE  \E g : SumsUp(g, U, f)
  <1> DEFINE X == (SUBSET U) \ {{}}
             ptr == [s \in X |-> s \ {Some(s)}]
             base == [s \in X |-> f[Some(s)]]
             step == [s \in X |-> [v \in Int |-> f[Some(s)] + v]]
  <1>0. \A s : s \in X <=> s \in SUBSET U /\ s # {}
    OBVIOUS
  <1>1. \A s \in X : Some(s) \in s /\ f[Some(s)] \in Int
    <2> SUFFICES ASSUME NEW s \in X PROVE Some(s) \in s /\ f[Some(s)] \in Int
      OBVIOUS
    <2>1. Some(s) \in s /\ s \subseteq U
      BY SomeMember
    <2>2. QED
      BY <2>1
  <1>2. Recursion(X, Int, ptr, base, step)
    <2>1. ASSUME NEW D \in SUBSET X, D # {}
          PROVE  \E s \in D : ptr[s] \notin D
      <3>1. D \in SUBSET SUBSET U
        OBVIOUS
      <3>2. PICK s \in D : \A t \in D : t \subseteq s => t = s
        BY <2>1, <3>1, SmallestSubset
      <3>3. ptr[s] \subseteq s /\ ptr[s] # s
        BY <1>1
      <3>4. QED
        BY <3>2, <3>3
    <2>2. \A s \in X : base[s] \in Int
      BY <1>1
    <2>3. \A s \in X, v \in Int : step[s][v] \in Int
      BY <1>1
    <2> HIDE DEF X, ptr, base, step
    <2>4. QED
      BY <2>1, <2>2, <2>3 DEF Recursion
  <1>3. PICK k \in [X -> Int] :
           \A s \in X : k[s] = IF ptr[s] \in X THEN step[s][k[ptr[s]]] ELSE base[s]
    <2> HIDE DEF X, ptr, base, step
    <2>1. QED
      BY <1>2, RecursiveGraph DEF HasSolution
  <1> DEFINE g == [s \in SUBSET U |-> IF s = {} THEN 0 ELSE k[s]]
  <1>4. g \in [SUBSET U -> Int]
    <2> HIDE DEF X
    <2>1. \A s \in SUBSET U : s # {} => k[s] \in Int
      BY <1>0, <1>3
    <2>2. QED
      BY <2>1
  <1>5. ASSUME NEW s \in SUBSET U
        PROVE  g[s] = IF s = {} THEN 0 ELSE f[Some(s)] + g[s \ {Some(s)}]
    <2>1. CASE s = {}
      BY <2>1
    <2>2. CASE s # {}
      <3>1. PICK x : x = Some(s)
        OBVIOUS
      <3>2. s \in X /\ x \in s /\ f[x] \in Int /\ ptr[s] = s \ {x} /\ g[s] = k[s]
        BY <1>1, <2>2, <3>1
      <3>3. CASE s \ {x} = {}
        <4>1. k[s] = f[x] /\ g[s \ {x}] = 0
          <5>1. ptr[s] \notin X
            BY <3>2, <3>3
          <5>2. k[s] = base[s]
            BY <1>3, <3>2, <5>1
          <5>3. base[s] = f[x]
            BY <3>1, <3>2
          <5>4. g[{}] = 0
            OBVIOUS
          <5>5. QED
            BY <3>3, <5>2, <5>3, <5>4
        <4>2. QED
          BY <2>2, <3>1, <3>2, <4>1
      <3>4. CASE s \ {x} # {}
        <4>1. s \ {x} \in X /\ k[s \ {x}] \in Int /\ g[s \ {x}] = k[s \ {x}]
          <5>1. PICK t : t = s \ {x}
            OBVIOUS
          <5>2. t \in SUBSET U /\ t # {}
            BY <3>4, <5>1
          <5>3. t \in X /\ g[t] = k[t]
            BY <5>2
          <5> HIDE DEF X, g
          <5>4. k[t] \in Int
            BY <1>3, <5>3
          <5>5. QED
            BY <5>1, <5>3, <5>4
        <4>2. k[s] = step[s][k[s \ {x}]]
          <5> HIDE DEF X, ptr, base, step, g
          <5>1. ptr[s] = s \ {x} /\ ptr[s] \in X
            BY <3>2, <4>1
          <5>2. QED
            BY <1>3, <3>2, <5>1
        <4>3. k[s] = f[x] + k[s \ {x}]
          BY <3>1, <3>2, <4>1, <4>2
        <4>4. QED
          BY <2>2, <3>1, <3>2, <4>1, <4>3
      <3>5. QED
        BY <3>3, <3>4
    <2>3. QED
      BY <2>1, <2>2
  <1>6. QED
    BY <1>4, <1>5 DEF SumsUp

\* It is SumOver, and only what f is on the set matters.
LEMMA SumIs ==
    ASSUME NEW U, IsFiniteSet(U), NEW f, NEW g, SumsUp(g, U, f),
           NEW s \in SUBSET U, NEW e, \A x \in s : e[x] = f[x]
    PROVE  SumOver(s, e) = g[s]
  <1> DEFINE P(w) == w = [t \in SUBSET s |->
                    IF t = {} THEN 0
                    ELSE e[CHOOSE x \in t : TRUE] + w[t \ {CHOOSE x \in t : TRUE}]]
             h == CHOOSE w : P(w)
  <1>1. SumOver(s, e) = h[s]
    BY DEF SumOver, MapThenSumSet, MapThenFoldSet
  <1>2. \A t \in SUBSET s : t # {} => Some(t) \in t /\ e[Some(t)] = f[Some(t)]
    BY DEF Some
  <1>3. \A t \in SUBSET s : g[t] = IF t = {} THEN 0 ELSE e[Some(t)] + g[t \ {Some(t)}]
    BY <1>2 DEF SumsUp
  <1> DEFINE k == [t \in SUBSET s |-> g[t]]
  <1>4. k = [t \in SUBSET s |-> IF t = {} THEN 0 ELSE e[Some(t)] + k[t \ {Some(t)}]]
    <2>1. \A t \in SUBSET s : t \ {Some(t)} \in SUBSET s
      OBVIOUS
    <2>2. QED
      BY <1>3, <2>1
  <1>5. h = [t \in SUBSET s |-> IF t = {} THEN 0 ELSE e[Some(t)] + h[t \ {Some(t)}]]
    <2> HIDE DEF k
    <2>1. P(k)
      BY <1>4 DEF Some
    <2>2. P(h)
      <3> HIDE DEF P
      <3>1. QED
        BY <2>1, Zenon
    <2> HIDE DEF h
    <2>3. QED
      BY <2>2 DEF Some
  <1> HIDE DEF h, k
  <1>6. \A t \in SUBSET s : h[t] = IF t = {} THEN 0 ELSE e[Some(t)] + h[t \ {Some(t)}]
    BY <1>5
  <1>7. \A t \in SUBSET s : h[t] = g[t]
    <2> DEFINE D == {t \in SUBSET s : h[t] # g[t]}
    <2> SUFFICES ASSUME D # {} PROVE FALSE
      OBVIOUS
    <2>1. IsFiniteSet(s) /\ D \in SUBSET SUBSET s
      BY FS_Subset
    <2>0. \E t \in D : \A q \in D : q \subseteq t => q = t
      <3> HIDE DEF D
      <3>1. QED
        BY <2>1, SmallestSubset
    <2>2. PICK t \in D : \A q \in D : q \subseteq t => q = t
      BY <2>0
    <2>3. t # {}
      BY <1>3, <1>6, <2>2
    <2>4. t \ {Some(t)} \in SUBSET s /\ t \ {Some(t)} \notin D
      BY <1>2, <2>2, <2>3
    <2>5. QED
      BY <1>3, <1>6, <2>2, <2>3, <2>4
  <1>8. QED
    BY <1>1, <1>7

\* So for the function itself.
LEMMA SumHere ==
    ASSUME NEW U, IsFiniteSet(U), NEW f, NEW g, SumsUp(g, U, f), NEW s \in SUBSET U
    PROVE  SumOver(s, f) = g[s]
  <1>1. PICK e : e = f
    OBVIOUS
  <1>2. \A x \in s : e[x] = f[x]
    BY <1>1
  <1>3. SumOver(s, e) = g[s]
    BY <1>2, SumIs
  <1>4. QED
    BY <1>1, <1>3

\* Any element may be taken first.
LEMMA SumTakes ==
    ASSUME NEW U, IsFiniteSet(U), NEW f, \A x \in U : f[x] \in Int,
           NEW g, SumsUp(g, U, f), NEW s \in SUBSET U, NEW x \in s
    PROVE  g[s] = f[x] + g[s \ {x}]
  <1> DEFINE D == {t \in SUBSET U : \E y \in t : g[t] # f[y] + g[t \ {y}]}
  <1> SUFFICES ASSUME D # {} PROVE FALSE
    OBVIOUS
  <1>1. D \in SUBSET SUBSET U
    OBVIOUS
  <1>0. \E t \in D : \A q \in D : q \subseteq t => q = t
    <2> HIDE DEF D
    <2>1. QED
      BY <1>1, SmallestSubset
  <1>2. PICK t \in D : \A q \in D : q \subseteq t => q = t
    BY <1>0
  <1>3. PICK y \in t : g[t] # f[y] + g[t \ {y}]
    BY <1>2
  <1>4. PICK c : c = Some(t)
    OBVIOUS
  <1>5. t \in SUBSET U /\ c \in t /\ g[t] = f[c] + g[t \ {c}]
    BY <1>2, <1>4 DEF SumsUp, Some
  <1>6. c # y
    BY <1>3, <1>5
  <1>7. t \ {c} \notin D /\ t \ {y} \notin D
    BY <1>2, <1>5
  <1>8. g[t \ {c}] = f[y] + g[(t \ {c}) \ {y}] /\ g[t \ {y}] = f[c] + g[(t \ {y}) \ {c}]
    BY <1>5, <1>6, <1>7
  <1>9. (t \ {c}) \ {y} = (t \ {y}) \ {c}
    OBVIOUS
  <1>10. PICK m : m = g[(t \ {y}) \ {c}]
    OBVIOUS
  <1>11. m \in Int /\ f[c] \in Int /\ f[y] \in Int
    BY <1>5, <1>10 DEF SumsUp
  <1>12. g[t] = f[c] + (f[y] + m) /\ g[t \ {y}] = f[c] + m
    BY <1>5, <1>8, <1>9, <1>10
  <1>13. f[c] + (f[y] + m) = f[y] + (f[c] + m)
    BY ONLY <1>11
  <1>14. QED
    BY <1>3, <1>12, <1>13

\* Two sets that have nothing in common.
LEMMA SumOfUnion ==
    ASSUME NEW U, IsFiniteSet(U), NEW f, \A x \in U : f[x] \in Int,
           NEW A \in SUBSET U, NEW B \in SUBSET U, A \cap B = {}
    PROVE  /\ SumOver(A \cup B, f) = SumOver(A, f) + SumOver(B, f)
           /\ SumOver(A, f) \in Int /\ SumOver(B, f) \in Int
  <1>1. PICK g : SumsUp(g, U, f)
    BY SumExists
  <1> DEFINE D == {t \in SUBSET U : A \cap t = {} /\ g[A \cup t] # g[A] + g[t]}
  <1>2. D = {}
    <2> SUFFICES ASSUME D # {} PROVE FALSE
      OBVIOUS
    <2>1. D \in SUBSET SUBSET U
      OBVIOUS
    <2>0. \E t \in D : \A q \in D : q \subseteq t => q = t
      <3> HIDE DEF D
      <3>1. QED
        BY <2>1, SmallestSubset
    <2>2. PICK t \in D : \A q \in D : q \subseteq t => q = t
      BY <2>0
    <2>3. t \in SUBSET U /\ A \cap t = {} /\ g[A \cup t] # g[A] + g[t]
      BY <2>2
    <2>4. g[A] \in Int
      BY <1>1 DEF SumsUp
    <2>5. t # {}
      <3>1. g[{}] = 0
        BY <1>1 DEF SumsUp
      <3>2. A \cup {} = A /\ g[A] = g[A] + 0
        BY <2>4
      <3>3. QED
        BY <2>3, <3>1, <3>2
    <2>6. PICK x \in t : TRUE
      BY <2>5
    <2>7. t \ {x} \notin D
      BY <2>2, <2>6
    <2>8. g[A \cup (t \ {x})] = g[A] + g[t \ {x}]
      BY <2>3, <2>7
    <2>9. g[A \cup t] = f[x] + g[A \cup (t \ {x})]
      <3>1. (A \cup t) \ {x} = A \cup (t \ {x})
        BY <2>3, <2>6
      <3>2. A \cup t \in SUBSET U /\ x \in A \cup t
        BY <2>3, <2>6
      <3>3. QED
        BY <1>1, <3>1, <3>2, SumTakes
    <2>10. g[t] = f[x] + g[t \ {x}]
      BY <1>1, <2>3, <2>6, SumTakes
    <2>11. PICK m, a, y : m = g[t \ {x}] /\ a = g[A] /\ y = f[x]
      OBVIOUS
    <2>12. m \in Int /\ a \in Int /\ y \in Int
      BY <1>1, <2>3, <2>6, <2>11 DEF SumsUp
    <2>13. y + (a + m) = a + (y + m)
      BY ONLY <2>12
    <2>14. QED
      BY <2>3, <2>8, <2>9, <2>10, <2>11, <2>13
  <1>3. g[A \cup B] = g[A] + g[B]
    BY <1>2
  <1>4. /\ SumOver(A \cup B, f) = g[A \cup B] /\ SumOver(A, f) = g[A] /\ SumOver(B, f) = g[B]
        /\ g[A] \in Int /\ g[B] \in Int
    <2>1. \A t \in SUBSET U : SumOver(t, f) = g[t] /\ g[t] \in Int
      <3> SUFFICES ASSUME NEW t \in SUBSET U
                   PROVE  SumOver(t, f) = g[t] /\ g[t] \in Int
        OBVIOUS
      <3>1. SumOver(t, f) = g[t]
        BY <1>1, SumHere
      <3>2. g[t] \in Int
        BY <1>1 DEF SumsUp
      <3>3. QED
        BY <3>1, <3>2
    <2>2. A \cup B \in SUBSET U
      OBVIOUS
    <2>3. QED
      BY <2>1, <2>2
  <1>5. QED
    BY <1>3, <1>4

\* One element.
LEMMA SumOfOne ==
    ASSUME NEW f, NEW x, f[x] \in Int
    PROVE  SumOver({x}, f) = f[x]
  <1>1. IsFiniteSet({x})
    BY FS_Singleton
  <1>2. PICK g : SumsUp(g, {x}, f)
    BY <1>1, SumExists
  <1>3. {x} \in SUBSET {x} /\ x \in {x}
    OBVIOUS
  <1>4. g[{x}] = f[x] + g[{x} \ {x}]
    BY <1>1, <1>2, <1>3, SumTakes
  <1>5. g[{}] = 0
    BY <1>2 DEF SumsUp
  <1>6. {x} \ {x} = {} /\ f[x] + 0 = f[x]
    OBVIOUS
  <1>7. SumOver({x}, f) = g[{x}]
    BY <1>1, <1>2, <1>3, SumHere
  <1>8. QED
    BY <1>4, <1>5, <1>6, <1>7

\* Functions that are the same on the set.
LEMMA SumSame ==
    ASSUME NEW U, IsFiniteSet(U), NEW f, \A x \in U : f[x] \in Int,
           NEW A \in SUBSET U, NEW e, \A x \in A : e[x] = f[x]
    PROVE  SumOver(A, e) = SumOver(A, f)
  <1>1. PICK g : SumsUp(g, U, f)
    BY SumExists
  <1>2. QED
    BY <1>1, SumIs

-----------------------------------------------------------------------------
(* Counts.                                                                 *)

\* Whether a node is merged into n, as a function.
Reaches(r, n, f) ==
    /\ f \in [Node -> BOOLEAN]
    /\ \A x \in Node : f[x] <=> (x = n \/ (r[x] # None /\ f[r[x]]))

\* Below(n) with the representatives r, and in the heap h.
BelowBy(r, n) ==
    {m \in nodes : LET up[x \in Node] == x = n \/ (r[x] # None /\ up[r[x]])
                   IN up[m]}
BelowIn(h, n) == BelowBy(Reps(h), n)

OfType(t) == [m \in Node |-> tree.finals[m][t]]

\* CountsConserved in the heap h.
CountsLaw(h) ==
    \A n \in nodes :
       /\ h[5][n] = SumOver(BelowIn(h, n), tree.size)
       /\ h[6][n] = SumOver(BelowIn(h, n), tree.final)
       /\ MERGE_DATA => \A t \in Type : h[7][n][t] = SumOver(BelowIn(h, n), OfType(t))

\* Representatives that are well founded define the function.
LEMMA ReachesExists ==
    ASSUME NEW r \in [Node -> Node \cup {None}], WellFounded(r), NEW n \in Node
    PROVE  \E f : Reaches(r, n, f)
  <1> DEFINE base == [x \in Node |-> x = n]
             step == [x \in Node |-> [v \in BOOLEAN |-> x = n \/ v]]
  <1>1. Recursion(Node, BOOLEAN, r, base, step)
    <2>1. \A x \in Node : base[x] \in BOOLEAN
      OBVIOUS
    <2>2. \A x \in Node, v \in BOOLEAN : step[x][v] \in BOOLEAN
      OBVIOUS
    <2>3. \A S \in SUBSET Node : S # {} => \E x \in S : r[x] \notin S
      BY DEF WellFounded
    <2> HIDE DEF base, step
    <2>4. QED
      BY <2>1, <2>2, <2>3 DEF Recursion
  <1>2. PICK f \in [Node -> BOOLEAN] :
           \A x \in Node : f[x] = IF r[x] \in Node THEN step[x][f[r[x]]] ELSE base[x]
    <2> HIDE DEF base, step
    <2>1. QED
      BY <1>1, RecursiveGraph DEF HasSolution
  <1>3. ASSUME NEW x \in Node
        PROVE  f[x] <=> (x = n \/ (r[x] # None /\ f[r[x]]))
    <2>1. r[x] \in Node <=> r[x] # None
      BY AptaAssumption
    <2>2. CASE r[x] \in Node
      <3>1. PICK v \in BOOLEAN : v = f[r[x]]
        BY <2>2
      <3>2. f[x] = step[x][v]
        BY <1>2, <2>2, <3>1
      <3>3. step[x][v] <=> (x = n \/ v)
        OBVIOUS
      <3>4. QED
        BY <2>1, <2>2, <3>1, <3>2, <3>3
    <2>3. CASE r[x] \notin Node
      <3>1. f[x] = base[x] /\ (base[x] <=> x = n)
        BY <1>2, <2>3
      <3>2. QED
        BY <2>1, <2>3, <3>1
    <2>4. QED
      BY <2>2, <2>3
  <1>4. QED
    BY <1>2, <1>3 DEF Reaches

\* Below is what it says.
LEMMA BelowIs ==
    ASSUME NEW h \in Snapshot, WellFounded(Reps(h)), NEW n \in Node,
           NEW f, Reaches(Reps(h), n, f)
    PROVE  \A m \in nodes : m \in Node => (m \in BelowIn(h, n) <=> f[m])
  <1> DEFINE k == CHOOSE k : k = [x \in Node |-> x = n \/ (Reps(h)[x] # None /\ k[Reps(h)[x]])]
  <1>1. f = [x \in Node |-> x = n \/ (Reps(h)[x] # None /\ f[Reps(h)[x]])]
    <2>1. f \in [Node -> BOOLEAN]
      BY DEF Reaches
    <2>2. \A x \in Node : f[x] = (x = n \/ (Reps(h)[x] # None /\ f[Reps(h)[x]]))
      <3> SUFFICES ASSUME NEW x \in Node
                   PROVE  f[x] = (x = n \/ (Reps(h)[x] # None /\ f[Reps(h)[x]]))
        OBVIOUS
      <3>1. f[x] \in BOOLEAN
        BY <2>1
      <3>2. f[x] <=> (x = n \/ (Reps(h)[x] # None /\ f[Reps(h)[x]]))
        BY DEF Reaches
      <3>3. QED
        BY <3>1, <3>2, Zenon
    <2>3. QED
      BY <2>1, <2>2, Zenon
  <1>2. k = [x \in Node |-> x = n \/ (Reps(h)[x] # None /\ k[Reps(h)[x]])]
    BY <1>1
  <1>3. BelowIn(h, n) = {m \in nodes : k[m]}
    BY DEF BelowIn, BelowBy
  <1> HIDE DEF k
  <1>4. \A x \in Node : k[x] <=> (x = n \/ (Reps(h)[x] # None /\ k[Reps(h)[x]]))
    BY <1>2
  <1>5. \A x \in Node : k[x] <=> f[x]
    <2> DEFINE D == {x \in Node : ~(k[x] <=> f[x])}
    <2> SUFFICES ASSUME D # {} PROVE FALSE
      OBVIOUS
    <2>1. PICK x \in D : Reps(h)[x] \notin D
      BY DEF WellFounded
    <2>2. Reps(h)[x] # None => Reps(h)[x] \in Node
      BY SnapshotParts
    <2>3. QED
      BY <1>4, <2>1, <2>2 DEF Reaches
  <1>6. QED
    BY <1>3, <1>5

\* A join puts what is below one node below the other, and no more.
LEMMA JoinBelow ==
    ASSUME tree \in Trees, NEW h \in Snapshot, WellFounded(Reps(h)),
           NEW g \in Snapshot, WellFounded(Reps(g)),
           NEW l \in Node, NEW r \in Node, l # r,
           Reps(h)[l] = None, Reps(h)[r] = None,
           Reps(g)[r] = l, \A x \in Node \ {r} : Reps(g)[x] = Reps(h)[x]
    PROVE  /\ BelowIn(g, l) = BelowIn(h, l) \cup BelowIn(h, r)
           /\ BelowIn(h, l) \cap BelowIn(h, r) = {}
           /\ \A n \in Node : n # l => BelowIn(g, n) = BelowIn(h, n)
  <1>1. nodes \subseteq Node
    BY TreeFacts DEF nodes
  <1>2. \A x \in Node : Reps(h)[x] # None => Reps(h)[x] \in Node
    BY SnapshotParts
  <1>3. \A e, n : BelowIn(e, n) \subseteq nodes
    BY DEF BelowIn, BelowBy
  <1>4. PICK p : Reaches(Reps(h), l, p)
    BY SnapshotParts, ReachesExists
  <1>5. PICK q : Reaches(Reps(h), r, q)
    BY SnapshotParts, ReachesExists
  <1>6. \A x \in Node : ~(p[x] /\ q[x])
    <2> DEFINE D == {x \in Node : p[x] /\ q[x]}
    <2> SUFFICES ASSUME D # {} PROVE FALSE
      OBVIOUS
    <2>1. PICK x \in D : Reps(h)[x] \notin D
      BY DEF WellFounded
    <2>2. QED
      BY <1>2, <1>4, <1>5, <2>1 DEF Reaches
  <1>7. PICK f : f = [x \in Node |-> p[x] \/ q[x]]
    OBVIOUS
  <1>71. Reaches(Reps(g), l, f)
    <2>1. f \in [Node -> BOOLEAN]
      <3>1. p \in [Node -> BOOLEAN] /\ q \in [Node -> BOOLEAN]
        BY <1>4, <1>5 DEF Reaches
      <3>2. QED
        BY <1>7, <3>1
    <2>2. ASSUME NEW x \in Node
          PROVE  f[x] <=> (x = l \/ (Reps(g)[x] # None /\ f[Reps(g)[x]]))
      <3>0. \A y \in Node : f[y] <=> p[y] \/ q[y]
        BY <1>7
      <3>1. CASE x = r
        <4>1. q[r] /\ p[l] /\ Reps(g)[r] # None
          BY <1>4, <1>5, AptaAssumption DEF Reaches
        <4>2. QED
          BY <3>0, <3>1, <4>1
      <3>2. CASE x # r
        <4>1. Reps(g)[x] = Reps(h)[x]
          BY <3>2
        <4>2. /\ p[x] <=> (x = l \/ (Reps(h)[x] # None /\ p[Reps(h)[x]]))
              /\ q[x] <=> (Reps(h)[x] # None /\ q[Reps(h)[x]])
          BY <1>4, <1>5, <3>2 DEF Reaches
        <4>3. QED
          BY <1>2, <3>0, <4>1, <4>2
      <3>3. QED
        BY <3>1, <3>2
    <2>3. QED
      BY <2>1, <2>2 DEF Reaches
  <1>8. ASSUME NEW n \in Node, n # l
        PROVE  BelowIn(g, n) = BelowIn(h, n)
    <2>1. PICK e : Reaches(Reps(h), n, e)
      BY SnapshotParts, ReachesExists
    <2>2. ~e[l] /\ (e[r] <=> r = n)
      BY <1>8, <2>1 DEF Reaches
    <2>3. Reaches(Reps(g), n, e)
      BY <1>2, <2>1, <2>2 DEF Reaches
    <2>4. \A m \in nodes : m \in BelowIn(g, n) <=> m \in BelowIn(h, n)
      BY <1>1, <2>1, <2>3, BelowIs
    <2>5. QED
      BY <1>3, <2>4
  <1>9. \A m \in nodes : m \in BelowIn(g, l) <=> (m \in BelowIn(h, l) \/ m \in BelowIn(h, r))
    <2>2. Reaches(Reps(g), l, f) /\ \A x \in Node : f[x] <=> p[x] \/ q[x]
      BY <1>7, <1>71
    <2>3. /\ \A m \in nodes : m \in BelowIn(g, l) <=> f[m]
          /\ \A m \in nodes : m \in BelowIn(h, l) <=> p[m]
          /\ \A m \in nodes : m \in BelowIn(h, r) <=> q[m]
      BY <1>1, <1>4, <1>5, <2>2, BelowIs
    <2>4. QED
      BY <1>1, <2>2, <2>3
  <1>10. BelowIn(h, l) \cap BelowIn(h, r) = {}
    <2>1. /\ \A m \in nodes : m \in BelowIn(h, l) <=> p[m]
          /\ \A m \in nodes : m \in BelowIn(h, r) <=> q[m]
      BY <1>1, <1>4, <1>5, BelowIs
    <2>2. QED
      BY <1>1, <1>3, <1>6, <2>1
  <1>11. BelowIn(g, l) = BelowIn(h, l) \cup BelowIn(h, r)
    BY <1>3, <1>9
  <1>12. QED
    BY <1>8, <1>10, <1>11

\* So its sums are theirs together.
LEMMA JoinSums ==
    ASSUME tree \in Trees, NEW h \in Snapshot, WellFounded(Reps(h)),
           NEW g \in Snapshot, WellFounded(Reps(g)),
           NEW l \in Node, NEW r \in Node, l # r,
           Reps(h)[l] = None, Reps(h)[r] = None,
           Reps(g)[r] = l, \A x \in Node \ {r} : Reps(g)[x] = Reps(h)[x],
           NEW f, \A x \in nodes : f[x] \in Int
    PROVE  SumOver(BelowIn(g, l), f)
              = SumOver(BelowIn(h, l), f) + SumOver(BelowIn(h, r), f)
  <1>1. /\ BelowIn(g, l) = BelowIn(h, l) \cup BelowIn(h, r)
        /\ BelowIn(h, l) \cap BelowIn(h, r) = {}
    BY JoinBelow
  <1>2. IsFiniteSet(nodes)
    BY TreeFacts DEF nodes
  <1>3. PICK A : A = BelowIn(h, l)
    OBVIOUS
  <1>4. PICK B : B = BelowIn(h, r)
    OBVIOUS
  <1>5. A \in SUBSET nodes /\ B \in SUBSET nodes
    BY <1>3, <1>4 DEF BelowIn, BelowBy
  <1>6. A \cap B = {}
    BY <1>1, <1>3, <1>4
  <1>7. PICK U : U = nodes
    OBVIOUS
  <1>8. SumOver(A \cup B, f) = SumOver(A, f) + SumOver(B, f)
    <2>1. IsFiniteSet(U) /\ (\A x \in U : f[x] \in Int) /\ A \in SUBSET U /\ B \in SUBSET U
      BY <1>2, <1>5, <1>7
    <2>2. QED
      BY ONLY <2>1, <1>6, SumOfUnion
  <1>9. QED
    BY <1>1, <1>3, <1>4, <1>8

\* What merge_with and update() do to the counts.
LEMMA JoinedCounts ==
    ASSUME NEW h \in Snapshot, NEW l \in Node, NEW r \in Node, NEW g, g = JoinHeap(h, l, r)
    PROVE  /\ g[5][l] = h[5][l] + h[5][r] /\ g[6][l] = h[6][l] + h[6][r]
           /\ MERGE_DATA => \A t \in Type : g[7][l][t] = h[7][l][t] + h[7][r][t]
           /\ \A n \in Node : n # l =>
                 g[5][n] = h[5][n] /\ g[6][n] = h[6][n] /\ g[7][n] = h[7][n]
  <1>1. /\ h[5] \in [Node -> Int] /\ h[6] \in [Node -> Int] /\ h[7] \in [Node -> [Type -> Int]]
    BY SnapshotParts
  <1>2. /\ g[5] = [h[5] EXCEPT ![l] = h[5][l] + h[5][r]]
        /\ g[6] = [h[6] EXCEPT ![l] = h[6][l] + h[6][r]]
        /\ MERGE_DATA => g[7] = [h[7] EXCEPT ![l] = [t \in Type |-> h[7][l][t] + h[7][r][t]]]
        /\ ~MERGE_DATA => g[7] = h[7]
    BY DEF JoinHeap
  <1>3. QED
    BY <1>1, <1>2

\* The counts the prefix tree starts with.
LEMMA TreeCounts ==
    ASSUME tree \in Trees
    PROVE  /\ nodes \subseteq Node /\ IsFiniteSet(nodes)
           /\ \A x \in Node : tree.size[x] \in Int /\ tree.final[x] \in Int
           /\ \A t \in Type, x \in Node : OfType(t)[x] \in Int /\ OfType(t)[x] = tree.finals[x][t]
  <1>1. nodes \subseteq Node /\ IsFiniteSet(nodes)
    BY TreeFacts DEF nodes
  <1>2. /\ tree.size \in [Node -> Nat] /\ tree.final \in [Node -> Nat]
        /\ tree.finals \in [Node -> [Type -> Nat]]
    BY TreesAssumption DEF IsPrefixTree
  <1>3. \A x \in Node : tree.size[x] \in Int /\ tree.final[x] \in Int
    BY <1>2
  <1>4. ASSUME NEW t \in Type, NEW x \in Node
        PROVE  OfType(t)[x] \in Int /\ OfType(t)[x] = tree.finals[x][t]
    BY <1>2 DEF OfType
  <1>5. QED
    BY <1>1, <1>3, <1>4

\* A join keeps the law.
LEMMA JoinKeepsCounts ==
    ASSUME tree \in Trees, NEW h \in Snapshot, WellFounded(Reps(h)),
           NEW l \in Node, NEW r \in nodes, l # r,
           Reps(h)[l] = None, Reps(h)[r] = None, CountsLaw(h),
           NEW g, g = JoinHeap(h, l, r), WellFounded(Reps(g))
    PROVE  CountsLaw(g)
  <1>1. r \in Node /\ nodes \subseteq Node
    BY TreeCounts
  <1>2. g \in Snapshot /\ Reps(g)[r] = l /\ \A x \in Node \ {r} : Reps(g)[x] = Reps(h)[x]
    BY <1>1, JoinedHeap, SnapshotParts
  <1>3. \A n \in Node : n # l => BelowIn(g, n) = BelowIn(h, n)
    BY <1>1, <1>2, JoinBelow
  <1>4. ASSUME NEW f, \A x \in nodes : f[x] \in Int
        PROVE  SumOver(BelowIn(g, l), f)
                  = SumOver(BelowIn(h, l), f) + SumOver(BelowIn(h, r), f)
    BY <1>1, <1>2, <1>4, JoinSums
  <1>5. /\ g[5][l] = h[5][l] + h[5][r] /\ g[6][l] = h[6][l] + h[6][r]
        /\ MERGE_DATA => \A t \in Type : g[7][l][t] = h[7][l][t] + h[7][r][t]
        /\ \A n \in Node : n # l =>
              g[5][n] = h[5][n] /\ g[6][n] = h[6][n] /\ g[7][n] = h[7][n]
    BY <1>1, JoinedCounts
  <1>6. /\ h[5][r] = SumOver(BelowIn(h, r), tree.size)
        /\ h[6][r] = SumOver(BelowIn(h, r), tree.final)
        /\ MERGE_DATA => \A t \in Type : h[7][r][t] = SumOver(BelowIn(h, r), OfType(t))
    BY DEF CountsLaw
  <1>7. ASSUME NEW n \in nodes, n # l
        PROVE  /\ g[5][n] = SumOver(BelowIn(g, n), tree.size)
               /\ g[6][n] = SumOver(BelowIn(g, n), tree.final)
               /\ MERGE_DATA => \A t \in Type : g[7][n][t] = SumOver(BelowIn(g, n), OfType(t))
    BY <1>1, <1>3, <1>5, <1>7 DEF CountsLaw
  <1>8. ASSUME l \in nodes
        PROVE  /\ g[5][l] = SumOver(BelowIn(g, l), tree.size)
               /\ g[6][l] = SumOver(BelowIn(g, l), tree.final)
               /\ MERGE_DATA => \A t \in Type : g[7][l][t] = SumOver(BelowIn(g, l), OfType(t))
    <2>1. /\ h[5][l] = SumOver(BelowIn(h, l), tree.size)
          /\ h[6][l] = SumOver(BelowIn(h, l), tree.final)
          /\ MERGE_DATA => \A t \in Type : h[7][l][t] = SumOver(BelowIn(h, l), OfType(t))
      BY <1>8 DEF CountsLaw
    <2>2. g[5][l] = SumOver(BelowIn(g, l), tree.size)
      BY <1>1, <1>4, <1>5, <1>6, <2>1, TreeCounts
    <2>3. g[6][l] = SumOver(BelowIn(g, l), tree.final)
      BY <1>1, <1>4, <1>5, <1>6, <2>1, TreeCounts
    <2>4. ASSUME MERGE_DATA, NEW t \in Type
          PROVE  g[7][l][t] = SumOver(BelowIn(g, l), OfType(t))
      <3>1. \A x \in nodes : OfType(t)[x] \in Int
        BY <1>1, TreeCounts
      <3>2. PICK f : f = OfType(t)
        OBVIOUS
      <3>3. SumOver(BelowIn(g, l), f)
               = SumOver(BelowIn(h, l), f) + SumOver(BelowIn(h, r), f)
        BY <1>4, <3>1, <3>2
      <3>4. QED
        BY <1>5, <1>6, <2>1, <2>4, <3>2, <3>3
    <2>5. QED
      BY <2>2, <2>3, <2>4
  <1>9. QED
    BY <1>7, <1>8 DEF CountsLaw

-----------------------------------------------------------------------------
(* Lists.                                                                  *)

\* The list of the nodes merged into n is the k elements of s, which are those
\* nodes, each once.
Lists(h, n, k, s) ==
    /\ k \in Nat /\ s \in [1 .. k -> nodes]
    /\ k = 0 => h[3][n] = None
    /\ k # 0 => h[3][n] = s[1] /\ h[4][s[k]] = None
    /\ \A i \in 1 .. k : i < k => h[4][s[i]] = s[i + 1]
    /\ \A i, j \in 1 .. k : s[i] = s[j] => i = j
    /\ \A m \in nodes : Reps(h)[m] = n <=> \E i \in 1 .. k : s[i] = m

ListsLaw(h) == \A n \in nodes : \E k, s : Lists(h, n, k, s)

\* What merge_with does to the lists.
LEMMA JoinedLists ==
    ASSUME NEW h \in Snapshot, NEW l \in Node, NEW r \in Node, NEW g, g = JoinHeap(h, l, r)
    PROVE  /\ g[3][l] = r /\ g[4][r] = h[3][l]
           /\ \A n \in Node : n # l => g[3][n] = h[3][n]
           /\ \A n \in Node : n # r => g[4][n] = h[4][n]
  <1>1. h[3] \in [Node -> Node \cup {None}] /\ h[4] \in [Node -> Node \cup {None}]
    BY SnapshotParts DEF NextsMerged
  <1>2. g[3] = [h[3] EXCEPT ![l] = r] /\ g[4] = [h[4] EXCEPT ![r] = h[3][l]]
    BY DEF JoinHeap
  <1>3. QED
    BY <1>1, <1>2

\* A join puts the right node in front of the left one's list.
LEMMA JoinLists ==
    ASSUME tree \in Trees, NEW h \in Snapshot,
           NEW l \in Node, NEW r \in nodes, l # r,
           Reps(h)[r] = None, ListsLaw(h), NEW g, g = JoinHeap(h, l, r)
    PROVE  ListsLaw(g)
  <1>1. r \in Node /\ nodes \subseteq Node /\ None \notin Node
    BY TreeCounts, AptaAssumption
  <1>2. /\ Reps(g)[r] = l /\ \A x \in Node \ {r} : Reps(g)[x] = Reps(h)[x]
    BY <1>1, JoinedHeap, SnapshotParts
  <1>3. /\ g[3][l] = r /\ g[4][r] = h[3][l]
        /\ \A n \in Node : n # l => g[3][n] = h[3][n]
        /\ \A n \in Node : n # r => g[4][n] = h[4][n]
    BY <1>1, JoinedLists
  <1> SUFFICES ASSUME NEW n \in nodes PROVE \E k, s : Lists(g, n, k, s)
    BY DEF ListsLaw
  <1>4. PICK k, s : Lists(h, n, k, s)
    BY DEF ListsLaw
  <1>5. /\ k \in Nat /\ s \in [1 .. k -> nodes]
        /\ k = 0 => h[3][n] = None
        /\ k # 0 => h[3][n] = s[1] /\ h[4][s[k]] = None
        /\ \A i \in 1 .. k : i < k => h[4][s[i]] = s[i + 1]
        /\ \A i, j \in 1 .. k : s[i] = s[j] => i = j
        /\ \A m \in nodes : Reps(h)[m] = n <=> \E i \in 1 .. k : s[i] = m
    BY <1>4 DEF Lists
  <1>6. \A i \in 1 .. k : s[i] \in nodes /\ s[i] # r
    BY <1>1, <1>5
  <1>7. \A i \in 1 .. k : g[4][s[i]] = h[4][s[i]]
    BY <1>1, <1>3, <1>6
  <1>8. CASE n # l
    <2>1. g[3][n] = h[3][n]
      BY <1>1, <1>3, <1>8
    <2>2. \A m \in nodes : Reps(g)[m] = n <=> Reps(h)[m] = n
      BY <1>1, <1>2, <1>8
    <2>3. k # 0 => g[4][s[k]] = None
      BY <1>5, <1>7
    <2>4. \A i \in 1 .. k : i < k => g[4][s[i]] = s[i + 1]
      BY <1>5, <1>7
    <2>5. Lists(g, n, k, s)
      BY <1>5, <2>1, <2>2, <2>3, <2>4 DEF Lists
    <2>6. QED
      BY <2>5
  <1>9. CASE n = l
    <2>1. PICK t \in [1 .. k + 1 -> nodes] :
             t[1] = r /\ \A i \in 1 .. k : t[i + 1] = s[i]
      <3>1. PICK t : t = [i \in 1 .. k + 1 |-> IF i = 1 THEN r ELSE s[i - 1]]
        OBVIOUS
      <3>2. \A i \in 1 .. k + 1 : i # 1 => i - 1 \in 1 .. k
        BY <1>5
      <3>3. t \in [1 .. k + 1 -> nodes] /\ 1 \in 1 .. k + 1
        BY <1>5, <3>1, <3>2
      <3>4. ASSUME NEW i \in 1 .. k
            PROVE  t[i + 1] = s[i]
        <4>1. i + 1 \in 1 .. k + 1 /\ i + 1 # 1 /\ (i + 1) - 1 = i
          BY <1>5
        <4>2. QED
          BY <3>1, <4>1
      <3>5. QED
        BY <3>1, <3>3, <3>4
    <2>2. PICK p \in Nat : p = k + 1
      BY <1>5
    <2>3. /\ t \in [1 .. p -> nodes] /\ p # 0
          /\ \A j \in 1 .. p : j = 1 \/ \E i \in 1 .. k : j = i + 1
          /\ \A i \in 1 .. k : i + 1 \in 1 .. p
          /\ 1 \in 1 .. p
      <3>1. ASSUME NEW j \in 1 .. p PROVE j = 1 \/ \E i \in 1 .. k : j = i + 1
        <4>1. j # 1 => j - 1 \in 1 .. k /\ j = (j - 1) + 1
          BY <1>5, <2>2
        <4>2. QED
          BY <4>1
      <3>2. QED
        BY <1>5, <2>1, <2>2, <3>1
    <2>4. g[3][n] = t[1]
      BY <1>3, <1>9, <2>1
    <2>5. g[4][t[p]] = None
      <3>1. CASE k = 0
        BY <1>3, <1>5, <1>9, <2>1, <2>2, <3>1
      <3>2. CASE k # 0
        <4>1. k \in 1 .. k /\ t[p] = s[k]
          BY <1>5, <2>1, <2>2, <3>2
        <4>2. QED
          BY <1>5, <1>7, <3>2, <4>1
      <3>3. QED
        BY <3>1, <3>2
    <2>6. ASSUME NEW j \in 1 .. p, j < p
          PROVE  g[4][t[j]] = t[j + 1]
      <3>1. CASE j = 1
        <4>1. k # 0 /\ 1 \in 1 .. k
          BY <1>5, <2>2, <2>6, <3>1
        <4>2. t[1 + 1] = s[1]
          BY <2>1, <4>1
        <4>3. QED
          BY <1>3, <1>5, <1>9, <2>1, <3>1, <4>1, <4>2
      <3>2. CASE j # 1
        <4>1. PICK i \in 1 .. k : j = i + 1
          BY <2>3, <3>2
        <4>2. i < k /\ i + 1 \in 1 .. k
          BY <1>5, <2>2, <2>6, <4>1
        <4>3. t[j] = s[i] /\ t[j + 1] = s[i + 1]
          BY <2>1, <4>1, <4>2
        <4>4. QED
          BY <1>5, <1>7, <4>2, <4>3
      <3>3. QED
        BY <3>1, <3>2
    <2>7. ASSUME NEW i \in 1 .. p, NEW j \in 1 .. p, t[i] = t[j]
          PROVE  i = j
      <3>1. \A x \in 1 .. k : t[x + 1] = s[x] /\ t[x + 1] # r
        BY <1>6, <2>1
      <3>2. t[1] = r
        BY <2>1
      <3>3. i = 1 <=> j = 1
        BY <2>3, <2>7, <3>1, <3>2
      <3>4. ASSUME i # 1, j # 1
            PROVE  i = j
        <4>1. PICK x \in 1 .. k : i = x + 1
          BY <2>3, <3>4
        <4>2. PICK y \in 1 .. k : j = y + 1
          BY <2>3, <3>4
        <4>3. s[x] = s[y]
          BY <2>7, <3>1, <4>1, <4>2
        <4>4. QED
          BY <1>5, <4>1, <4>2, <4>3
      <3>5. QED
        BY <3>3, <3>4
    <2>8. ASSUME NEW m \in nodes
          PROVE  Reps(g)[m] = n <=> \E i \in 1 .. p : t[i] = m
      <3>1. CASE m = r
        BY <1>2, <1>9, <2>1, <2>3, <3>1
      <3>2. CASE m # r
        <4>1. Reps(g)[m] = n <=> \E i \in 1 .. k : s[i] = m
          BY <1>1, <1>2, <1>5, <3>2
        <4>2. QED
          BY <2>1, <2>3, <3>2, <4>1
      <3>3. QED
        BY <3>1, <3>2
    <2>9. Lists(g, n, p, t)
      BY <2>3, <2>4, <2>5, <2>6, <2>7, <2>8 DEF Lists
    <2>10. QED
      BY <2>9
  <1>10. QED
    BY <1>8, <1>9

-----------------------------------------------------------------------------
(* Both, from the first merge on.                                          *)

HeapLaw(h) == CountsLaw(h) /\ ListsLaw(h)

\* They look at neither guards nor colours.
LEMMA LawSame ==
    ASSUME NEW h, NEW g, HeapLaw(h), Reps(g) = Reps(h), g[3] = h[3], g[4] = h[4],
           g[5] = h[5], g[6] = h[6], g[7] = h[7]
    PROVE  HeapLaw(g)
  <1>1. \A n : BelowIn(g, n) = BelowIn(h, n)
    BY DEF BelowIn
  <1>2. CountsLaw(g)
    BY <1>1 DEF HeapLaw, CountsLaw
  <1>3. ASSUME NEW n \in nodes
        PROVE  \E k, s : Lists(g, n, k, s)
    <2>1. PICK k, s : Lists(h, n, k, s)
      BY DEF HeapLaw, ListsLaw
    <2>2. Lists(g, n, k, s)
      BY <2>1 DEF Lists
    <2>3. QED
      BY <2>2
  <1>4. QED
    BY <1>2, <1>3 DEF HeapLaw, ListsLaw

\* They depend on nothing but the tree.
LEMMA LawFixed ==
    ASSUME tree' = tree, NEW h, HeapLaw(h)
    PROVE  HeapLaw(h)'
  <1>1. nodes' = nodes
    BY DEF nodes
  <1>2. ASSUME NEW n
        PROVE  BelowIn(h, n)' = BelowIn(h, n)
    BY <1>1 DEF BelowIn, BelowBy, Reps
  <1>3. ASSUME NEW n \in nodes
        PROVE  /\ (h[5][n] = SumOver(BelowIn(h, n), tree.size))'
               /\ (h[6][n] = SumOver(BelowIn(h, n), tree.final))'
    <2>1. PICK A, e, f : A = BelowIn(h, n) /\ e = tree.size /\ f = tree.final
      OBVIOUS
    <2>2. h[5][n] = SumOver(A, e) /\ h[6][n] = SumOver(A, f)
      BY <2>1 DEF HeapLaw, CountsLaw
    <2>3. A = BelowIn(h, n)' /\ e = tree'.size /\ f = tree'.final
      BY <1>2, <2>1
    <2>4. QED
      BY <2>2, <2>3 DEF SumOver, MapThenSumSet, MapThenFoldSet
  <1>4. ASSUME MERGE_DATA, NEW n \in nodes, NEW t \in Type
        PROVE  (h[7][n][t] = SumOver(BelowIn(h, n), OfType(t)))'
    <2>1. PICK A, f : A = BelowIn(h, n) /\ f = OfType(t)
      OBVIOUS
    <2>2. h[7][n][t] = SumOver(A, f)
      BY <1>4, <2>1 DEF HeapLaw, CountsLaw
    <2>3. A = BelowIn(h, n)' /\ f = OfType(t)'
      BY <1>2, <2>1 DEF OfType
    <2>4. QED
      BY <2>2, <2>3 DEF SumOver, MapThenSumSet, MapThenFoldSet
  <1>5. CountsLaw(h)'
    BY <1>1, <1>3, <1>4 DEF CountsLaw
  <1>6. ListsLaw(h)'
    <2>1. ASSUME NEW n \in nodes
          PROVE  \E k, s : Lists(h, n, k, s)'
      <3>1. PICK k, s : Lists(h, n, k, s)
        BY DEF HeapLaw, ListsLaw
      <3>2. Lists(h, n, k, s)'
        BY <1>1, <3>1 DEF Lists, Reps
      <3>3. QED
        BY <3>2
    <2>2. QED
      BY <1>1, <2>1 DEF ListsLaw
  <1>7. QED
    BY <1>5, <1>6 DEF HeapLaw

\* A join of a run.
LEMMA RunJoinLaw ==
    ASSUME NEW u, BlockIsTree(u), NEW c, Sound(u, c), HeapLaw(c.heap),
           NEW d, Sound(u, d), NEW l, NEW r, Joins(u, c, d, l, r)
    PROVE  HeapLaw(d.heap)
  <1>1. /\ c \in Configuration /\ l \in Node /\ r \in Node /\ l # r
        /\ r \in Block(u) /\ Reps(c.heap)[r] = None
    BY JoinFacts
  <1>2. PICK h, g : h = c.heap /\ g = d.heap
    OBVIOUS
  <1>3. h \in Snapshot
    BY <1>1, <1>2 DEF Configuration
  <1>4. r \in nodes /\ tree \in Trees
    BY <1>1, BlockParents DEF nodes, BlockIsTree
  <1>5. WellFounded(Reps(h)) /\ WellFounded(Reps(g))
    BY <1>2, RunFinds
  <1>6. Reps(h)[l] = None /\ Reps(h)[r] = None /\ g = JoinHeap(h, l, r)
    BY <1>1, <1>2 DEF Joins
  <1>7. CountsLaw(h) /\ ListsLaw(h)
    BY <1>2 DEF HeapLaw
  <1>8. CountsLaw(g)
    BY <1>1, <1>3, <1>4, <1>5, <1>6, <1>7, JoinKeepsCounts
  <1>9. ListsLaw(g)
    BY <1>1, <1>3, <1>4, <1>6, <1>7, JoinLists
  <1>10. QED
    BY <1>2, <1>8, <1>9 DEF HeapLaw

\* Every step of a run.
LEMMA RunStepLaw ==
    ASSUME NEW u, BlockIsTree(u), NEW c, Sound(u, c), HeapLaw(c.heap),
           NEW d \in Configuration, RunStep(u, c, d)
    PROVE  HeapLaw(d.heap)
  <1>1. Sound(u, d)
    BY StepSound
  <1>2. CASE FirstJoin(u, c, d)
    BY <1>1, <1>2, FirstJoinJoins, RunJoinLaw
  <1>3. ASSUME NEW a \in Symbol, FoldedJoin(u, c, d, a)
        PROVE  HeapLaw(d.heap)
    <2>1. \E l, r : Joins(u, c, d, l, r)
      BY <1>3, FoldedJoinJoins
    <2>2. QED
      BY <1>1, <2>1, RunJoinLaw
  <1>4. ASSUME NEW a \in Symbol, Adoption(u, c, d, a)
        PROVE  HeapLaw(d.heap)
    <2>1. PICK h, g : h = c.heap /\ g = d.heap
      OBVIOUS
    <2>2. PICK l, t : g = GuardHeap(h, l, a, t)
      BY <1>4, <2>1 DEF Adoption
    <2>3. /\ Reps(g) = Reps(h) /\ g[3] = h[3] /\ g[4] = h[4]
          /\ g[5] = h[5] /\ g[6] = h[6] /\ g[7] = h[7]
      BY <2>2 DEF GuardHeap, Reps
    <2>4. QED
      BY <2>1, <2>3, LawSame
  <1>5. CASE Return(u, c, d)
    BY <1>5 DEF Return
  <1>6. QED
    BY <1>2, <1>3, <1>4, <1>5 DEF RunStep

\* Every configuration of a run on a heap they hold in.
LEMMA RunLaw ==
    ASSUME NEW u, NEW b, RunsOn(u, b), HeapLaw(b)
    PROVE  HeapLaw(u.start) /\ \A c \in Reach(u) : HeapLaw(c.heap)
  <1>1. BlockIsTree(u)
    BY RunStarts
  <1>2. PICK h : h = u.start
    OBVIOUS
  <1>3. /\ Reps(h) = Reps(b) /\ h[3] = b[3] /\ h[4] = b[4]
        /\ h[5] = b[5] /\ h[6] = b[6] /\ h[7] = b[7]
    BY <1>2 DEF RunsOn, Coloured, Reps
  <1>4. HeapLaw(h)
    BY <1>3, LawSame
  <1> DEFINE S == {d \in Configuration : Sound(u, d) /\ HeapLaw(d.heap)}
  <1>5. \A d \in Configuration : StartsRun(u, d) => d \in S
    BY <1>1, <1>2, <1>4, StartSound DEF StartsRun
  <1>6. \A p \in S, d \in Configuration : RunStep(u, p, d) => d \in S
    BY <1>1, StepSound, RunStepLaw
  <1>7. Inductive(u, S)
    BY <1>5, <1>6 DEF Inductive
  <1>8. ASSUME NEW c \in Reach(u)
        PROVE  HeapLaw(c.heap)
    <2>1. c \in S
      BY <1>7 DEF Reach
    <2>2. QED
      BY <2>1
  <1>9. QED
    BY <1>2, <1>4, <1>8

-----------------------------------------------------------------------------
(* What the two properties compute.                                        *)

\* t is the first m elements of s.
IsPiece(S, s, m, t) ==
    t \in Seq(S) /\ Len(t) = m /\ \A i \in 1 .. m : t[i] = s[i]

FirstPiece(x) == IF x = None THEN <<>> ELSE <<x>>
NextPiece(next, t) ==
    IF t = <<>> \/ next[t[Len(t)]] = None THEN t ELSE Append(t, next[t[Len(t)]])

\* There is one such piece.
LEMMA PieceUnique ==
    ASSUME NEW S, NEW s, NEW m, NEW t, IsPiece(S, s, m, t), NEW w, IsPiece(S, s, m, w)
    PROVE  t = w
  <1>1. t \in Seq(S) /\ w \in Seq(S) /\ Len(t) = Len(w) /\ \A i \in 1 .. Len(t) : t[i] = w[i]
    BY DEF IsPiece
  <1>2. QED
    BY ONLY <1>1, SeqEqual

\* And there is one.
LEMMA PieceExists ==
    ASSUME NEW S, NEW k \in Nat, NEW s \in [1 .. k -> S], NEW m \in 0 .. k
    PROVE  IsPiece(S, s, m, [i \in 1 .. m |-> s[i]])
  <1>1. PICK t : t = [i \in 1 .. m |-> s[i]]
    OBVIOUS
  <1>2. m \in Nat /\ t \in [1 .. m -> S] /\ \A i \in 1 .. m : t[i] = s[i]
    BY <1>1
  <1>3. t \in Seq(S)
    BY <1>2, SeqDef
  <1>4. Len(t) = m
    BY <1>2
  <1>5. QED
    BY <1>1, <1>2, <1>3, <1>4 DEF IsPiece

\* The head of a list, as the piece it is.
LEMMA FirstIsPiece ==
    ASSUME NEW S, None \notin S, NEW k \in Nat, NEW s \in [1 .. k -> S],
           NEW x, x = IF k = 0 THEN None ELSE s[1]
    PROVE  IsPiece(S, s, IF k = 0 THEN 0 ELSE 1, FirstPiece(x))
  <1>1. CASE k = 0
    BY <1>1 DEF IsPiece, FirstPiece
  <1>2. CASE k # 0
    <2>1. 1 \in 1 .. k /\ s[1] \in S
      BY <1>2
    <2>2. x = s[1] /\ x # None
      BY <1>2, <2>1
    <2>3. <<x>> \in Seq(S) /\ Len(<<x>>) = 1 /\ <<x>>[1] = x
      BY <2>1, <2>2
    <2>4. \A i \in 1 .. 1 : i = 1
      OBVIOUS
    <2>5. QED
      BY <1>2, <2>2, <2>3, <2>4 DEF IsPiece, FirstPiece
  <1>3. QED
    BY <1>1, <1>2

\* Following the list once gives the piece that is one longer, if there is one.
LEMMA NextIsPiece ==
    ASSUME NEW S, None \notin S, NEW k \in Nat, NEW s \in [1 .. k -> S], NEW next,
           \A i \in 1 .. k : i < k => next[s[i]] = s[i + 1],
           k # 0 => next[s[k]] = None,
           NEW m \in 0 .. k, m = 0 => k = 0, NEW t, IsPiece(S, s, m, t)
    PROVE  IsPiece(S, s, IF m < k THEN m + 1 ELSE k, NextPiece(next, t))
  <1>1. t \in Seq(S) /\ Len(t) = m /\ \A i \in 1 .. m : t[i] = s[i]
    BY DEF IsPiece
  <1>2. CASE m = 0
    <2>1. t = <<>>
      BY <1>1, <1>2, EmptySeq
    <2>2. NextPiece(next, t) = t
      BY <2>1 DEF NextPiece
    <2>3. QED
      BY <1>2, <2>2
  <1>3. CASE m # 0
    <2>1. m \in 1 .. k /\ t # <<>> /\ t[Len(t)] = s[m]
      BY <1>1, <1>3
    <2>2. CASE m = k
      <3>1. NextPiece(next, t) = t
        BY <1>3, <2>1, <2>2 DEF NextPiece
      <3>2. QED
        BY <2>2, <3>1
    <2>3. CASE m # k
      <3>1. m < k /\ m + 1 \in 1 .. k /\ s[m + 1] \in S
        BY <2>1, <2>3
      <3>2. PICK e : e = s[m + 1]
        OBVIOUS
      <3>3. e \in S /\ e # None /\ next[t[Len(t)]] = e
        BY <2>1, <3>1, <3>2
      <3>4. NextPiece(next, t) = Append(t, e)
        BY <2>1, <3>3 DEF NextPiece
      <3>5. /\ Append(t, e) \in Seq(S) /\ Len(Append(t, e)) = m + 1
            /\ \A i \in 1 .. m + 1 : Append(t, e)[i] = IF i = m + 1 THEN e ELSE t[i]
        BY <1>1, <3>3
      <3>6. \A i \in 1 .. m + 1 : Append(t, e)[i] = s[i]
        <4> SUFFICES ASSUME NEW i \in 1 .. m + 1 PROVE Append(t, e)[i] = s[i]
          OBVIOUS
        <4>1. i # m + 1 => i \in 1 .. m
          OBVIOUS
        <4>2. QED
          BY <1>1, <3>2, <3>5, <4>1
      <3>7. QED
        BY <3>1, <3>4, <3>5, <3>6 DEF IsPiece
    <2>4. QED
      BY <2>2, <2>3
  <1>4. QED
    BY <1>2, <1>3

\* MergedList follows the list to its end.
LEMMA MergedListWhole ==
    ASSUME tree \in Trees, NEW n \in nodes, NEW k, NEW s, Lists(heap, n, k, s)
    PROVE  IsPiece(nodes, s, k, MergedList(n))
  <1> DEFINE f == CHOOSE f : f = [j \in 0 .. Cardinality(nodes) |->
                                    IF j = 0 THEN FirstPiece(repOf[n])
                                    ELSE NextPiece(nextMerged, f[j - 1])]
  <1>1. PICK S, C : S = nodes /\ C = Cardinality(nodes)
    OBVIOUS
  <1>2. IsFiniteSet(S) /\ C \in Nat /\ None \notin S
    BY <1>1, TreeCounts, FS_CardinalityType, AptaAssumption
  <1>3. /\ k \in Nat /\ s \in [1 .. k -> S]
        /\ repOf[n] = IF k = 0 THEN None ELSE s[1]
        /\ \A i \in 1 .. k : i < k => nextMerged[s[i]] = s[i + 1]
        /\ k # 0 => nextMerged[s[k]] = None
        /\ \A i, j \in 1 .. k : s[i] = s[j] => i = j
    BY <1>1 DEF Lists, heap
  <1>4. k <= C
    <2>1. s \in Injection(1 .. k, S)
      BY <1>3 DEF Injection, IsInjective
    <2>2. Cardinality(1 .. k) <= Cardinality(S)
      BY <1>2, <2>1, FS_Injection
    <2>3. Cardinality(1 .. k) = k
      <3>1. Cardinality(1 .. k) = IF 1 > k THEN 0 ELSE k - 1 + 1
        BY <1>3, FS_Interval
      <3>2. QED
        BY <1>3, <3>1
    <2>4. QED
      BY <1>1, <2>2, <2>3
  <1>5. PICK m : m = [j \in 0 .. C |-> IF j + 1 <= k THEN j + 1 ELSE k]
    OBVIOUS
  <1>6. /\ \A j \in 0 .. C : m[j] \in 0 .. k /\ (m[j] = 0 => k = 0)
        /\ m[0] = IF k = 0 THEN 0 ELSE 1
        /\ \A j \in 0 .. C : j # 0 =>
              j - 1 \in 0 .. C /\ m[j] = IF m[j - 1] < k THEN m[j - 1] + 1 ELSE k
        /\ m[C] = k
    <2>1. \A j \in 0 .. C : m[j] = IF j + 1 <= k THEN j + 1 ELSE k
      BY <1>5
    <2>2. 0 \in 0 .. C /\ C \in 0 .. C
      BY <1>2
    <2>3. \A j \in 0 .. C : j # 0 => j - 1 \in 0 .. C /\ (j - 1) + 1 = j
      BY <1>2
    <2>4. QED
      BY <1>2, <1>3, <1>4, <2>1, <2>2, <2>3
  <1>7. PICK g : g = [j \in 0 .. C |-> [i \in 1 .. m[j] |-> s[i]]]
    OBVIOUS
  <1>8. \A j \in 0 .. C : IsPiece(S, s, m[j], g[j])
    <2> SUFFICES ASSUME NEW j \in 0 .. C PROVE IsPiece(S, s, m[j], g[j])
      OBVIOUS
    <2>1. PICK p : p = m[j]
      OBVIOUS
    <2>2. p \in 0 .. k
      BY <1>6, <2>1
    <2>3. IsPiece(S, s, p, [i \in 1 .. p |-> s[i]])
      BY <1>3, <2>2, PieceExists
    <2>4. QED
      BY <1>7, <2>1, <2>3
  <1>9. IsPiece(S, s, m[0], FirstPiece(repOf[n]))
    <2>1. PICK x : x = repOf[n]
      OBVIOUS
    <2>2. IsPiece(S, s, IF k = 0 THEN 0 ELSE 1, FirstPiece(x))
      BY <1>2, <1>3, <2>1, FirstIsPiece
    <2>3. QED
      BY <1>6, <2>1, <2>2
  <1>10. ASSUME NEW j \in 0 .. C, j # 0, NEW t, IsPiece(S, s, m[j - 1], t)
         PROVE  IsPiece(S, s, m[j], NextPiece(nextMerged, t))
    <2>1. PICK p, next : p = m[j - 1] /\ next = nextMerged
      OBVIOUS
    <2>2. /\ p \in 0 .. k /\ (p = 0 => k = 0)
          /\ m[j] = IF p < k THEN p + 1 ELSE k
      BY <1>6, <1>10, <2>1
    <2>3. IsPiece(S, s, IF p < k THEN p + 1 ELSE k, NextPiece(next, t))
      BY <1>2, <1>3, <1>10, <2>1, <2>2, NextIsPiece
    <2>4. QED
      BY <2>1, <2>2, <2>3
  <1>11. g = [j \in 0 .. C |-> IF j = 0 THEN FirstPiece(repOf[n])
                               ELSE NextPiece(nextMerged, g[j - 1])]
    <2>1. ASSUME NEW j \in 0 .. C
          PROVE  g[j] = IF j = 0 THEN FirstPiece(repOf[n])
                        ELSE NextPiece(nextMerged, g[j - 1])
      <3>1. CASE j = 0
        BY <1>8, <1>9, <3>1, PieceUnique
      <3>2. CASE j # 0
        <4>1. IsPiece(S, s, m[j - 1], g[j - 1])
          BY <1>6, <1>8, <3>2
        <4>2. IsPiece(S, s, m[j], NextPiece(nextMerged, g[j - 1]))
          BY <1>10, <3>2, <4>1
        <4>3. g[j] = NextPiece(nextMerged, g[j - 1])
          BY <1>8, <4>2, PieceUnique
        <4>4. QED
          BY <3>2, <4>3
      <3>3. QED
        BY <3>1, <3>2
    <2>2. g = [j \in 0 .. C |-> g[j]]
      BY <1>7
    <2>3. QED
      BY <2>1, <2>2
  <1>12. f = [j \in 0 .. C |-> IF j = 0 THEN FirstPiece(repOf[n])
                               ELSE NextPiece(nextMerged, f[j - 1])]
    BY <1>1, <1>11
  <1>13. MergedList(n) = f[C]
    BY <1>1 DEF MergedList, FirstPiece, NextPiece
  <1> HIDE DEF f
  <1>14. \A j \in 0 .. C : f[j] = IF j = 0 THEN FirstPiece(repOf[n])
                                  ELSE NextPiece(nextMerged, f[j - 1])
    BY <1>12
  <1>15. \A j \in 0 .. C : IsPiece(S, s, m[j], f[j])
    <2> DEFINE D == {j \in 0 .. C : ~IsPiece(S, s, m[j], f[j])}
    <2> SUFFICES ASSUME D # {} PROVE FALSE
      OBVIOUS
    <2>1. D \in SUBSET Nat
      BY <1>2
    <2>2. \E j \in D : j - 1 \notin D
      <3> HIDE DEF D
      <3>1. QED
        BY <2>1, LeastNatural
    <2>3. PICK j \in D : j - 1 \notin D
      BY <2>2
    <2>4. CASE j = 0
      BY <1>9, <1>14, <2>3, <2>4
    <2>5. CASE j # 0
      <3>1. j \in 0 .. C /\ IsPiece(S, s, m[j - 1], f[j - 1])
        BY <1>6, <2>3, <2>5
      <3>2. IsPiece(S, s, m[j], NextPiece(nextMerged, f[j - 1]))
        BY <1>10, <2>5, <3>1
      <3>3. f[j] = NextPiece(nextMerged, f[j - 1])
        BY <1>14, <2>5, <3>1
      <3>4. QED
        BY <2>3, <3>2, <3>3
    <2>6. QED
      BY <2>4, <2>5
  <1>16. C \in 0 .. C
    BY <1>2
  <1>17. QED
    BY <1>1, <1>6, <1>13, <1>15, <1>16

\* The law for lists is the property.
LEMMA ListsFollow ==
    ASSUME tree \in Trees, ListsLaw(heap)
    PROVE  MergedListsExact
  <1> SUFFICES ASSUME NEW n \in nodes
               PROVE  LET list == MergedList(n) IN
                      /\ {list[i] : i \in 1 .. Len(list)} = {m \in nodes : rep[m] = n}
                      /\ Len(list) = Cardinality({m \in nodes : rep[m] = n})
    BY DEF MergedListsExact
  <1>1. PICK k, s : Lists(heap, n, k, s)
    BY DEF ListsLaw
  <1>2. PICK list, M : list = MergedList(n) /\ M = {m \in nodes : rep[m] = n}
    OBVIOUS
  <1>3. /\ k \in Nat /\ s \in [1 .. k -> nodes]
        /\ \A i, j \in 1 .. k : s[i] = s[j] => i = j
        /\ \A m \in nodes : rep[m] = n <=> \E i \in 1 .. k : s[i] = m
    BY <1>1, HeapParts DEF Lists
  <1>4. Len(list) = k /\ \A i \in 1 .. k : list[i] = s[i]
    BY <1>1, <1>2, MergedListWhole DEF IsPiece
  <1>5. {list[i] : i \in 1 .. Len(list)} = M
    BY <1>2, <1>3, <1>4
  <1>6. Cardinality(M) = k
    <2>1. s \in [1 .. k -> M]
      BY <1>2, <1>3
    <2>2. s \in Injection(1 .. k, M)
      BY <1>3, <2>1 DEF Injection, IsInjective
    <2>3. \A m \in M : \E i \in 1 .. k : s[i] = m
      BY <1>2, <1>3
    <2>4. s \in Surjection(1 .. k, M)
      BY <2>1, <2>3 DEF Surjection
    <2>5. ExistsBijection(1 .. k, M)
      BY <2>2, <2>4 DEF ExistsBijection, Bijection
    <2>6. QED
      BY <1>3, <2>5, FS_CountingElements
  <1>7. QED
    BY <1>2, <1>4, <1>5, <1>6

\* The law for counts is the property.
LEMMA CountsFollow ==
    ASSUME tree \in Trees, CountsLaw(heap)
    PROVE  CountsConserved
  <1> SUFFICES ASSUME NEW n \in nodes
               PROVE  LET below == Below(n) IN
                      /\ size[n] = SumOver(below, tree.size)
                      /\ final[n] = SumOver(below, tree.final)
                      /\ MERGE_DATA => \A t \in Type :
                            finals[n][t] = SumOver(below, [m \in below |-> tree.finals[m][t]])
    BY DEF CountsConserved
  <1>1. PICK below : below = Below(n)
    OBVIOUS
  <1>2. below = BelowIn(heap, n)
    <2>1. BelowIn(heap, n) = BelowBy(rep, n)
      BY HeapParts DEF BelowIn
    <2>2. QED
      BY <1>1, <2>1 DEF Below, BelowBy
  <1>3. /\ size[n] = SumOver(below, tree.size)
        /\ final[n] = SumOver(below, tree.final)
        /\ MERGE_DATA => \A t \in Type : finals[n][t] = SumOver(below, OfType(t))
    BY <1>2 DEF CountsLaw, heap
  <1>4. ASSUME MERGE_DATA, NEW t \in Type
        PROVE  finals[n][t] = SumOver(below, [m \in below |-> tree.finals[m][t]])
    <2>1. PICK U, e, f : /\ U = nodes /\ f = OfType(t)
                         /\ e = [m \in below |-> tree.finals[m][t]]
      OBVIOUS
    <2>2. below \in SUBSET U /\ IsFiniteSet(U)
      BY <1>1, <2>1, TreeCounts DEF Below
    <2>3. (\A x \in U : f[x] \in Int) /\ \A x \in below : e[x] = f[x]
      BY <2>1, <2>2, TreeCounts
    <2>4. SumOver(below, e) = SumOver(below, f)
      BY <2>2, <2>3, SumSame
    <2>5. QED
      BY <1>3, <1>4, <2>1, <2>4
  <1>5. QED
    BY <1>1, <1>3, <1>4

\* In the heap between operations, and in each that is to come back.
LawsOK ==
    /\ HeapLaw(settled)
    /\ \A i \in 1 .. Len(done) : HeapLaw(done[i].before)

\* In the middle of an operation, too.
LEMMA LawsFollow ==
    ASSUME TypeOK, Inv, LawsOK
    PROVE  HeapLaw(heap)
  <1>1. CASE op = "idle"
    BY <1>1 DEF LawsOK, settled
  <1>2. CASE op # "idle"
    <2>1. PICK u \in Run : Operates(u) /\ RunsOn(u, before)
      BY <1>2, OperatesFacts
    <2>2. HeapLaw(before)
      BY <1>2 DEF LawsOK, settled
    <2>3. HeapLaw(u.start) /\ \A c \in Reach(u) : HeapLaw(c.heap)
      BY <2>1, <2>2, RunLaw
    <2>4. op \in {"test", "untest", "do", "undo"}
      BY <1>2 DEF TypeOK, Op
    <2>5. QED
      BY <2>1, <2>3, <2>4 DEF Operates, Performs, Reverts, LooksAt
  <1>3. QED
    BY <1>1, <1>2

\* Nothing becomes of what is in effect.
LEMMA LawsSame ==
    ASSUME LawsOK, tree' = tree, done' = done, NEW g, g = settled', HeapLaw(g)
    PROVE  LawsOK'
  <1>1. HeapLaw(settled)'
    BY LawFixed
  <1>2. ASSUME NEW i \in 1 .. Len(done')
        PROVE  HeapLaw(done[i].before)'
    <2>1. PICK h : h = done[i].before
      OBVIOUS
    <2>2. HeapLaw(h) /\ h = done'[i].before
      BY <1>2, <2>1 DEF LawsOK
    <2>3. HeapLaw(h)'
      BY <2>2, LawFixed
    <2>4. QED
      BY <2>2, <2>3
  <1>3. QED
    BY <1>1, <1>2 DEF LawsOK

\* One refinement more is in effect.
LEMMA LawsGrown ==
    ASSUME TypeOK, LawsOK, tree' = tree,
           NEW r, NEW b, done' = Append(done, [ref |-> r, before |-> b]), HeapLaw(b),
           NEW g, g = settled', HeapLaw(g)
    PROVE  LawsOK'
  <1>1. HeapLaw(settled)'
    BY LawFixed
  <1>2. PICK s, t : s = done /\ t = done'
    OBVIOUS
  <1>3. s \in Seq([ref : Refinement, before : Snapshot])
    BY <1>2 DEF TypeOK
  <1>4. t = Append(s, [ref |-> r, before |-> b])
    BY <1>2
  <1>5. \A i \in 1 .. Len(t) : t[i] = IF i <= Len(s) THEN s[i] ELSE [ref |-> r, before |-> b]
    BY <1>3, <1>4
  <1>6. ASSUME NEW i \in 1 .. Len(t)
        PROVE  HeapLaw(done[i].before)'
    <2>1. i <= Len(s) => i \in 1 .. Len(s)
      BY <1>3
    <2>2. PICK h : h = t[i].before
      OBVIOUS
    <2>3. HeapLaw(h)
      BY <1>2, <1>5, <2>1, <2>2 DEF LawsOK
    <2>4. HeapLaw(h)' /\ h = done'[i].before
      BY <1>2, <2>2, <2>3, LawFixed
    <2>5. QED
      BY <2>4
  <1>7. QED
    BY <1>1, <1>2, <1>6 DEF LawsOK

\* One less.
LEMMA LawsShrunk ==
    ASSUME TypeOK, LawsOK, tree' = tree, done # <<>>,
           done' = SubSeq(done, 1, Len(done) - 1), settled' = done[Len(done)].before
    PROVE  LawsOK'
  <1>1. PICK s, t, g : s = done /\ t = done' /\ g = settled'
    OBVIOUS
  <1>2. s \in Seq([ref : Refinement, before : Snapshot]) /\ s # <<>>
    BY <1>1 DEF TypeOK
  <1>3. Len(s) \in 1 .. Len(s)
    BY <1>2
  <1>4. t = SubSeq(s, 1, Len(s) - 1) /\ g = s[Len(s)].before
    BY <1>1
  <1>5. \A i \in 1 .. Len(t) : i \in 1 .. Len(s) /\ t[i] = s[i]
    BY <1>2, <1>4
  <1>6. \A i \in 1 .. Len(s) : HeapLaw(s[i].before)
    BY <1>1 DEF LawsOK
  <1>7. HeapLaw(g)
    BY <1>3, <1>4, <1>6
  <1>8. HeapLaw(settled)'
    BY <1>1, <1>7, LawFixed
  <1>9. ASSUME NEW i \in 1 .. Len(t)
        PROVE  HeapLaw(done[i].before)'
    <2>1. PICK h : h = t[i].before
      OBVIOUS
    <2>2. HeapLaw(h)
      BY <1>5, <1>6, <2>1
    <2>3. HeapLaw(h)' /\ h = done'[i].before
      BY <1>1, <2>1, <2>2, LawFixed
    <2>4. QED
      BY <2>3
  <1>10. QED
    BY <1>1, <1>8, <1>9 DEF LawsOK

\* What only goes on with an operation, or starts one, keeps the settled heap.
LEMMA StayLaws ==
    ASSUME TypeOK, Inv, LawsOK,
           \/ MergeStep \/ UndoStep \/ UNCHANGED vars
           \/ TestMergeDone \/ TestMergeUndone \/ DoMerge
           \/ \E l, r : TestMerge(l, r)
    PROVE  LawsOK'
  <1>1. tree' = tree /\ done' = done
    BY DEF MergeStep, MergeStop, MergeNodes, MergeAdopt, MergeChildren, MergeFind,
       MergeRecurse, MergeReturn, UndoStep, UndoSkip, UndoEnter, UndoAdopt,
       UndoChildren, UndoFind, UndoRecurse, UndoNodes, vars, control,
       TestMergeDone, TestMergeUndone, DoMerge, TestMerge
  <1>2. settled' = settled
    <2>1. CASE MergeStep \/ UndoStep \/ UNCHANGED vars
      <3>1. UNCHANGED <<op, before>>
        BY <2>1 DEF MergeStep, MergeStop, MergeNodes, MergeAdopt, MergeChildren, MergeFind,
           MergeRecurse, MergeReturn, UndoStep, UndoSkip, UndoEnter, UndoAdopt,
           UndoChildren, UndoFind, UndoRecurse, UndoNodes, vars, control
      <3>2. op = "idle" => stack = <<>>
        BY DEF Inv, ControlOK
      <3>3. MergeStep \/ UndoStep => stack # <<>>
        BY DEF MergeStep, MergeStop, MergeNodes, MergeAdopt, MergeChildren, MergeFind,
           MergeRecurse, MergeReturn, UndoStep, UndoSkip, UndoEnter, UndoAdopt,
           UndoChildren, UndoFind, UndoRecurse, UndoNodes, At
      <3>4. QED
        BY <2>1, <3>1, <3>2, <3>3 DEF settled, vars
    <2>2. CASE TestMergeDone
      <3>1. /\ op = "test" /\ heap' = heap
            /\ op' \in {"untest", "idle"} /\ (op' = "untest" => before' = before)
        BY <2>2 DEF TestMergeDone
      <3>2. PICK u \in Run : Operates(u) /\ RunsOn(u, before)
        BY <3>1, OperatesFacts
      <3>3. op' = "idle" => u.start = heap
        BY <2>2, <3>1, <3>2 DEF TestMergeDone, Operates, Performing, LooksAt
      <3>4. u.start = before
        BY <3>1, <3>2, TestStarts DEF Operates
      <3>5. QED
        BY <3>1, <3>3, <3>4 DEF settled
    <2>3. CASE TestMergeUndone
      <3>1. op = "untest" /\ op' = "idle" /\ heap' = before
        BY <2>3, TestMergeUndoneInv DEF TestMergeUndone
      <3>2. QED
        BY <3>1 DEF settled
    <2>4. CASE DoMerge \/ \E l, r : TestMerge(l, r)
      <3>1. op = "idle" /\ op' \in {"test", "do"} /\ before' = heap
        BY <2>4 DEF DoMerge, TestMerge
      <3>2. QED
        BY <3>1 DEF settled
    <2>5. QED
      BY <2>1, <2>2, <2>3, <2>4
  <1>3. PICK g : g = settled
    OBVIOUS
  <1>4. HeapLaw(g) /\ g = settled'
    BY <1>2, <1>3 DEF LawsOK
  <1>5. QED
    BY <1>1, <1>4, LawsSame

\* The last merge is taken back, to the heap it was performed on.
LEMMA UndoMergeLaws ==
    ASSUME TypeOK, Inv, LawsOK, UndoMerge
    PROVE  LawsOK'
  <1>1. /\ op' = "undo" /\ tree' = tree /\ done' = done /\ done # <<>>
        /\ before' = done[Len(done)].before
    BY DEF UndoMerge
  <1>2. PICK n \in Nat : n = Len(done)
    BY LenProperties DEF TypeOK
  <1>3. n \in 1 .. Len(done)
    BY <1>1, <1>2, EmptySeq, LenProperties DEF TypeOK
  <1>4. PICK g : g = done[n].before
    OBVIOUS
  <1>5. HeapLaw(g) /\ g = settled'
    BY <1>1, <1>2, <1>3, <1>4 DEF LawsOK, settled
  <1>6. QED
    BY <1>1, <1>5, LawsSame

\* A merge is performed.
LEMMA DoMergeDoneLaws ==
    ASSUME TypeOK, Inv, LawsOK, DoMergeDone
    PROVE  LawsOK'
  <1>1. /\ op = "do" /\ op' = "idle" /\ tree' = tree /\ heap' = heap
        /\ done' = Append(done, [ref |-> ref, before |-> before])
    BY DEF DoMergeDone
  <1>2. PICK r, b, g : r = ref /\ b = before /\ g = heap
    OBVIOUS
  <1>3. HeapLaw(b) /\ HeapLaw(g) /\ g = settled'
    BY <1>1, <1>2, LawsFollow DEF LawsOK, settled
  <1>4. QED
    BY <1>1, <1>2, <1>3, LawsGrown

\* A state is coloured.
LEMMA DoExtendLaws ==
    ASSUME TypeOK, TypeOK', Inv, LawsOK, NEW b \in CandidateStates, DoExtend(b)
    PROVE  LawsOK'
  <1>1. /\ op = "idle" /\ op' = "idle" /\ tree' = tree
        /\ done' = Append(done,
                     [ref |-> [kind |-> "extend", red |-> b, blue |-> b, score |-> 0],
                      before |-> heap])
    BY DEF DoExtend
  <1>2. PICK r, h, g : /\ r = [kind |-> "extend", red |-> b, blue |-> b, score |-> 0]
                       /\ h = heap /\ g = heap'
    OBVIOUS
  <1>3. HeapLaw(h) /\ g = settled'
    BY <1>1, <1>2 DEF LawsOK, settled
  <1>4. /\ Reps(g) = Reps(h) /\ g[3] = h[3] /\ g[4] = h[4]
        /\ g[5] = h[5] /\ g[6] = h[6] /\ g[7] = h[7]
    BY <1>2, ExtendColours DEF Coloured, Reps
  <1>5. HeapLaw(g)
    BY <1>3, <1>4, LawSame
  <1>6. QED
    BY <1>1, <1>2, <1>3, <1>5, LawsGrown

\* A refinement is undone.
LEMMA UndoneLaws ==
    ASSUME TypeOK, TypeOK', Inv, LawsOK, UndoExtend \/ UndoMergeDone
    PROVE  LawsOK'
  <1>1. /\ op' = "idle" /\ done # <<>> /\ tree' = tree
        /\ done' = SubSeq(done, 1, Len(done) - 1)
    BY DEF UndoExtend, UndoMergeDone, Inv, ControlOK
  <1>2. settled' = done[Len(done)].before
    BY <1>1, UndoExtendInv, UndoMergeDoneInv DEF settled
  <1>3. QED
    BY <1>1, <1>2, LawsShrunk

\* Every step.
LEMMA NextLaws ==
    ASSUME TypeOK, Inv, LawsOK, [Next]_vars
    PROVE  LawsOK'
  <1>1. TypeOK'
    BY NextTypeOK
  <1>2. CASE UNCHANGED vars \/ MergeStep \/ UndoStep
    BY <1>2, StayLaws
  <1>3. CASE Finish
    BY <1>1, <1>3, StayLaws, DoMergeDoneLaws, UndoneLaws DEF Finish
  <1>4. CASE Client
    <2>1. CASE \E r \in Node \cap CandidateStates : DoExtend(r)
      BY <1>1, <2>1, DoExtendLaws
    <2>2. CASE \E r \in Node \cap CandidateStates :
                 \E l \in Node \cap MergeTargets(r) : TestMerge(l, r)
      BY <2>2, StayLaws
    <2>3. CASE DoMerge
      BY <2>3, StayLaws
    <2>4. CASE UndoMerge
      BY <2>4, UndoMergeLaws
    <2>5. CASE UndoExtend
      BY <1>1, <2>5, UndoneLaws
    <2>6. QED
      BY <1>4, <2>1, <2>2, <2>3, <2>4, <2>5 DEF Client
  <1>5. QED
    BY <1>2, <1>3, <1>4 DEF Next, Engine

\* Nothing is merged at first.
LEMMA InitLaws ==
    ASSUME Init
    PROVE  LawsOK
  <1>1. /\ tree \in Trees /\ op = "idle" /\ done = <<>> /\ None \notin Node
        /\ rep = [n \in Node |-> None] /\ repOf = [n \in Node |-> None]
        /\ size = tree.size /\ final = tree.final /\ finals = tree.finals
    BY AptaAssumption DEF Init, AptaInit
  <1>2. IdleHeap(heap) /\ nodes \subseteq Node
    BY <1>1, InitIdle, TreeCounts
  <1>3. PICK h : h = heap
    OBVIOUS
  <1>4. /\ h \in Snapshot /\ WellFounded(Reps(h)) /\ Reps(h) = rep
        /\ h[3] = repOf /\ h[5] = size /\ h[6] = final /\ h[7] = finals
    BY <1>2, <1>3, HeapParts DEF IdleHeap, heap
  <1>5. CountsLaw(h)
    <2> SUFFICES ASSUME NEW n \in nodes
                 PROVE  /\ h[5][n] = SumOver(BelowIn(h, n), tree.size)
                        /\ h[6][n] = SumOver(BelowIn(h, n), tree.final)
                        /\ MERGE_DATA => \A t \in Type :
                              h[7][n][t] = SumOver(BelowIn(h, n), OfType(t))
      BY DEF CountsLaw
    <2>1. n \in Node
      BY <1>2
    <2>2. PICK f : f = [x \in Node |-> x = n]
      OBVIOUS
    <2>3. Reaches(Reps(h), n, f)
      <3>1. f \in [Node -> BOOLEAN] /\ \A x \in Node : f[x] <=> x = n
        BY <2>2
      <3>2. \A x \in Node : Reps(h)[x] = None
        BY <1>1, <1>4
      <3>3. QED
        BY <3>1, <3>2 DEF Reaches
    <2>4. \A m \in nodes : m \in BelowIn(h, n) <=> m = n
      <3>1. \A m \in nodes : m \in Node => (m \in BelowIn(h, n) <=> f[m])
        BY <1>4, <2>1, <2>3, BelowIs
      <3>2. QED
        BY <1>2, <2>2, <3>1
    <2>5. BelowIn(h, n) = {n}
      BY <2>4 DEF BelowIn, BelowBy
    <2>6. \A t \in Type : OfType(t)[n] \in Int /\ OfType(t)[n] = h[7][n][t]
      BY <1>1, <1>4, <2>1, TreeCounts
    <2>7. tree.size[n] \in Int /\ tree.final[n] \in Int
      BY <1>1, <2>1, TreeCounts
    <2>8. /\ SumOver({n}, tree.size) = tree.size[n]
          /\ SumOver({n}, tree.final) = tree.final[n]
          /\ \A t \in Type : SumOver({n}, OfType(t)) = OfType(t)[n]
      <3>1. \A e : e[n] \in Int => SumOver({n}, e) = e[n]
        BY SumOfOne
      <3>2. QED
        BY <2>6, <2>7, <3>1
    <2>9. QED
      BY <1>1, <1>4, <2>5, <2>6, <2>8
  <1>6. ListsLaw(h)
    <2> SUFFICES ASSUME NEW n \in nodes PROVE \E k, s : Lists(h, n, k, s)
      BY DEF ListsLaw
    <2>1. PICK s : s = [i \in 1 .. 0 |-> n]
      OBVIOUS
    <2>2. s \in [1 .. 0 -> nodes] /\ \A i \in 1 .. 0 : FALSE
      BY <2>1
    <2>3. h[3][n] = None /\ \A m \in nodes : Reps(h)[m] # n
      BY <1>1, <1>2, <1>4
    <2>4. Lists(h, n, 0, s)
      BY <2>2, <2>3 DEF Lists
    <2>5. QED
      BY <2>4
  <1>7. HeapLaw(settled)
    BY <1>1, <1>3, <1>5, <1>6 DEF HeapLaw, settled
  <1>8. Len(done) = 0
    BY <1>1
  <1>9. QED
    BY <1>7, <1>8 DEF LawsOK

\* CountsConserved: in every state, also in the middle of a merge, a test or an
\* undo, the occurrences of a node, and with --mergedata its counts of every
\* type, are those of the prefix tree nodes merged into it, directly or not.
\* No occurrence is lost or counted twice, whatever was merged and undone before.
THEOREM CountsAlwaysConserved == Spec => []CountsConserved
  <1>1. Init => LawsOK
    BY InitLaws
  <1>2. TypeOK /\ Inv /\ LawsOK /\ [Next]_vars => LawsOK'
    BY NextLaws
  <1>3. TypeOK /\ Inv /\ LawsOK => CountsConserved
    BY LawsFollow, CountsFollow DEF HeapLaw, TypeOK, AptaTypeOK
  <1>4. QED
    BY <1>1, <1>2, <1>3, EngineCorrect, PTL DEF Spec

\* MergedListsExact: in every state the list that starts at representative_of of
\* a node goes through the nodes merged into it, each once, and through no other.
THEOREM ListsAlwaysExact == Spec => []MergedListsExact
  <1>1. Init => LawsOK
    BY InitLaws
  <1>2. TypeOK /\ Inv /\ LawsOK /\ [Next]_vars => LawsOK'
    BY NextLaws
  <1>3. TypeOK /\ Inv /\ LawsOK => MergedListsExact
    BY LawsFollow, ListsFollow DEF HeapLaw, TypeOK, AptaTypeOK
  <1>4. QED
    BY <1>1, <1>2, <1>3, EngineCorrect, PTL DEF Spec
=============================================================================
