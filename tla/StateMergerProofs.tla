------------------------- MODULE StateMergerProofs -------------------------
(***************************************************************************)
(* Proofs about StateMerger, for every alphabet, set of prefix trees and   *)
(* setting of the parameters, in three parts.                              *)
(*                                                                         *)
(* The types: what the variables hold, and that the stack is one of calls. *)
(*                                                                         *)
(* Heaps and runs of merges: find() and the other recursive functions over *)
(* pointers are what their equations say, every step of a run keeps its    *)
(* configurations sound, a run that ends leaves a heap fit for the next    *)
(* operation, and a join is undone exactly.                                *)
(*                                                                         *)
(* Heaps between two operations, and the stack: colouring states red and   *)
(* merging two states leave a heap that is fit for the next operation, the *)
(* iterators yield states that may be merged or extended, and an access    *)
(* trace leads to its state; every step of merge and undo_merge that       *)
(* changes the heap is a step of the run, forwards or backwards, and the   *)
(* recursive calls on the stack are those of the configuration the run is  *)
(* in.                                                                     *)
(***************************************************************************)
EXTENDS MergeRuns, FiniteSetTheorems, SequenceTheorems, TLAPS

-----------------------------------------------------------------------------
(* The call stack.                                                         *)

\* Replacing the innermost call keeps the stack a stack of frames and leaves
\* the outer calls alone.
LEMMA ReplacedTop ==
    ASSUME stack \in Seq(Frame), stack # <<>>, NEW f \in Frame
    PROVE  /\ [stack EXCEPT ![Len(stack)] = f] \in Seq(Frame)
           /\ Len([stack EXCEPT ![Len(stack)] = f]) = Len(stack)
           /\ [stack EXCEPT ![Len(stack)] = f][Len(stack)] = f
           /\ \A i \in 1 .. Len(stack) - 1 :
                 [stack EXCEPT ![Len(stack)] = f][i] = stack[i]
  <1>1. Len(stack) \in 1 .. Len(stack)
    BY EmptySeq, LenProperties
  <1>2. QED
    BY <1>1, ExceptSeq, LenProperties

\* The same of a step that replaces it.
LEMMA ReplaceTop ==
    ASSUME stack \in Seq(Frame), stack # <<>>, NEW f \in Frame, Replace(f)
    PROVE  /\ stack' \in Seq(Frame)
           /\ Len(stack') = Len(stack)
           /\ stack'[Len(stack)] = f
           /\ \A i \in 1 .. Len(stack) - 1 : stack'[i] = stack[i]
  BY ReplacedTop DEF Replace

\* The innermost call is a frame.
LEMMA TopFrame ==
    ASSUME stack \in Seq(Frame), stack # <<>>
    PROVE  top \in Frame /\ Len(stack) \in Nat \ {0}
  BY EmptySeq, LenProperties, ElementOfSeq DEF top

\* A sequence without its last element.
LEMMA WithoutLast ==
    ASSUME NEW S, NEW s \in Seq(S), NEW n \in Nat, Len(s) = n + 1
    PROVE  /\ SubSeq(s, 1, n) \in Seq(S)
           /\ Len(SubSeq(s, 1, n)) = n
           /\ \A i \in 1 .. n : SubSeq(s, 1, n)[i] = s[i]
  OBVIOUS

\* The last element of a sequence.
LEMMA LastElement ==
    ASSUME NEW S, NEW s \in Seq(S), s # <<>>
    PROVE  /\ s[Len(s)] \in S
           /\ Len(s) - 1 \in Nat /\ Len(s) = (Len(s) - 1) + 1
  BY EmptySeq, LenProperties, ElementOfSeq

\* Returning from a call uncovers the stack below it.
LEMMA PopTop ==
    ASSUME stack \in Seq(Frame), stack # <<>>, Pop
    PROVE  /\ stack' \in Seq(Frame)
           /\ Len(stack') = Len(stack) - 1
           /\ \A i \in 1 .. Len(stack) - 1 : stack'[i] = stack[i]
  <1>1. Len(stack) - 1 \in Nat /\ Len(stack) = (Len(stack) - 1) + 1
    BY TopFrame
  <1>2. stack' = SubSeq(stack, 1, Len(stack) - 1)
    BY DEF Pop
  <1>3. QED
    BY <1>1, <1>2, WithoutLast

\* Appending a call to a stack.
LEMMA PushCall ==
    ASSUME NEW s \in Seq(Frame), NEW f \in Frame
    PROVE  /\ Append(s, f) \in Seq(Frame)
           /\ Append(s, f) # <<>>
           /\ Len(Append(s, f)) = Len(s) + 1
           /\ \A i \in 1 .. Len(s) : Append(s, f)[i] = s[i]
           /\ Append(s, f)[Len(s) + 1] = f
  BY AppendProperties

\* A fresh call is a frame.
LEMMA CallFrame ==
    ASSUME NEW k \in {"merge", "undo"}, NEW l \in Node, NEW r \in Node, NEW d \in Nat
    PROVE  Call(k, l, r, d) \in Frame
  BY DEF Call, Frame

\* A saved heap is a snapshot.
LEMMA HeapSnapshot ==
    ASSUME AptaTypeOK
    PROVE  heap \in Snapshot
  BY DEF AptaTypeOK, heap, Snapshot

-----------------------------------------------------------------------------
(* Type correctness.                                                       *)

\* The prefix tree the engine starts from is typed.
LEMMA InitTypeOK ==
    ASSUME Init
    PROVE  TypeOK
  <1>1. IsPrefixTree(tree)
    BY TreesAssumption DEF Init, AptaInit
  <1>2. AptaTypeOK
    BY <1>1, AptaAssumption DEF Init, AptaInit, AptaTypeOK, IsPrefixTree, NoSink
  <1>3. stack \in Seq(Frame) /\ done \in Seq([ref : Refinement, before : Snapshot])
    BY EmptySeq DEF Init
  <1>4. QED
    BY <1>2, <1>3 DEF Init, TypeOK, Op

\* merge_with and count_data::update keep the heap typed.
LEMMA MergeWithTyped ==
    ASSUME AptaTypeOK, NEW l \in Node, NEW r \in Node, MergeWith(l, r)
    PROVE  /\ rep' \in [Node -> Node \cup {None}]
           /\ repOf' \in [Node -> Node \cup {None}]
           /\ nextMerged' \in [Node -> Node \cup {None}]
           /\ size' \in [Node -> Int] /\ final' \in [Node -> Int]
  BY DEF AptaTypeOK, MergeWith

LEMMA UndoMergeWithTyped ==
    ASSUME AptaTypeOK, NEW l \in Node, NEW r \in Node, UndoMergeWith(l, r)
    PROVE  /\ rep' \in [Node -> Node \cup {None}]
           /\ repOf' \in [Node -> Node \cup {None}]
           /\ nextMerged' \in [Node -> Node \cup {None}]
           /\ size' \in [Node -> Int] /\ final' \in [Node -> Int]
  BY DEF AptaTypeOK, UndoMergeWith

LEMMA DataTyped ==
    ASSUME AptaTypeOK, NEW l \in Node, NEW r \in Node,
           DataUpdate(l, r) \/ DataUndo(l, r) \/ UNCHANGED finals
    PROVE  finals' \in [Node -> [Type -> Int]]
  <1>1. finals \in [Node -> [Type -> Int]]
    BY DEF AptaTypeOK
  <1>2. \A t \in Type : finals[l][t] \in Int /\ finals[r][t] \in Int
    BY <1>1
  <1>3. /\ [t \in Type |-> finals[l][t] + finals[r][t]] \in [Type -> Int]
        /\ [t \in Type |-> finals[l][t] - finals[r][t]] \in [Type -> Int]
    BY <1>2
  <1>4. QED
    BY <1>1, <1>3 DEF DataUpdate, DataUndo

\* set_child keeps the guards typed.
LEMMA ChildTyped ==
    ASSUME AptaTypeOK, NEW n \in Node, NEW a \in Symbol, NEW c \in Node \cup {None}
    PROVE  [child EXCEPT ![n][a] = c] \in [Node -> [Symbol -> Node \cup {None}]]
  <1>1. child \in [Node -> [Symbol -> Node \cup {None}]]
    BY DEF AptaTypeOK
  <1>2. [child[n] EXCEPT ![a] = c] \in [Symbol -> Node \cup {None}]
    BY <1>1
  <1>3. QED
    BY <1>1, <1>2

\* What a frame that walks the guards may change of itself: its place, the
\* symbols to do, the two children.
LEMMA FrameUpdates ==
    ASSUME NEW f \in Frame, NEW at \in {"entry", "loop", "find"},
           NEW T \in SUBSET Symbol, NEW l \in Node, NEW r \in Node
    PROVE  /\ [f EXCEPT !.at = at] \in Frame
           /\ [f EXCEPT !.todo = T] \in Frame
           /\ [f EXCEPT !.at = at, !.todo = T] \in Frame
           /\ [f EXCEPT !.at = at, !.todo = T, !.lc = l, !.rc = r] \in Frame
           /\ [f EXCEPT !.lc = l] \in Frame
           /\ [f EXCEPT !.rc = r] \in Frame
  BY DEF Frame

\* A step of merge leaves everything typed.
LEMMA MergeStepTypeOK ==
    ASSUME TypeOK, MergeStep
    PROVE  TypeOK'
  <1> USE DEF TypeOK
  <1>1. stack \in Seq(Frame) /\ stack # <<>>
    BY DEF MergeStep, MergeStop, MergeNodes, MergeAdopt, MergeChildren,
           MergeFind, MergeRecurse, MergeReturn, At
  <1>2. /\ top \in Frame
        /\ top.left \in Node /\ top.right \in Node /\ top.todo \in SUBSET Symbol
        /\ top.lc \in Node /\ top.rc \in Node /\ top.depth \in Nat
    BY <1>1, TopFrame DEF Frame
  <1>3. CASE MergeStop
    <2>1. stack' \in Seq(Frame)
      BY <1>1, <1>3, PopTop DEF MergeStop
    <2>2. result' \in BOOLEAN /\ eval' \in [inconsistent : BOOLEAN, merges : Nat]
      BY <1>3 DEF MergeStop
    <2>3. QED
      BY <1>3, <2>1, <2>2 DEF MergeStop, heap, AptaTypeOK
  <1>4. CASE MergeNodes
    <2>1. stack' \in Seq(Frame)
      BY <1>1, <1>2, <1>4, FrameUpdates, ReplaceTop DEF MergeNodes
    <2>2. result' \in BOOLEAN /\ eval' \in [inconsistent : BOOLEAN, merges : Nat]
      BY <1>4 DEF MergeNodes
    <2>3. /\ rep' \in [Node -> Node \cup {None}]
          /\ repOf' \in [Node -> Node \cup {None}]
          /\ nextMerged' \in [Node -> Node \cup {None}]
          /\ size' \in [Node -> Int] /\ final' \in [Node -> Int]
      BY <1>2, <1>4, MergeWithTyped DEF MergeNodes, AptaTypeOK
    <2>4. finals' \in [Node -> [Type -> Int]]
      BY <1>2, <1>4, DataTyped DEF MergeNodes
    <2>5. QED
      BY <1>4, <2>1, <2>2, <2>3, <2>4 DEF MergeNodes, AptaTypeOK
  <1>5. CASE MergeAdopt
    <2>1. PICK a \in Symbol :
             /\ child' = IF Performing
                         THEN [child EXCEPT ![top.left][a] = child[top.right][a]]
                         ELSE child
             /\ Replace([top EXCEPT !.todo = After(a)])
      BY <1>5 DEF MergeAdopt
    <2>2. After(a) \in SUBSET Symbol
      BY <1>2 DEF After
    <2>3. stack' \in Seq(Frame)
      BY <1>1, <1>2, <2>1, <2>2, FrameUpdates, ReplaceTop
    <2>4. child' \in [Node -> [Symbol -> Node \cup {None}]]
      <3>1. child[top.right][a] \in Node \cup {None}
        BY <1>2 DEF AptaTypeOK
      <3>2. QED
        BY <1>2, <2>1, <3>1, ChildTyped DEF AptaTypeOK
    <2>5. QED
      BY <1>5, <2>3, <2>4 DEF MergeAdopt, AptaTypeOK
  <1>6. CASE MergeChildren
    <2>1. PICK a \in Symbol :
             /\ child[top.left][a] # None
             /\ a \in pending
             /\ Replace([top EXCEPT !.at = "find", !.todo = After(a),
                          !.lc = child[top.left][a], !.rc = child[top.right][a]])
      BY <1>6 DEF MergeChildren, IsFirst
    <2>2. After(a) \in SUBSET Symbol
      BY <1>2 DEF After
    <2>3. child[top.left][a] \in Node /\ child[top.right][a] \in Node
      BY SMTT(30), <1>2, <2>1 DEF AptaTypeOK, pending, Guarded
    <2>4. stack' \in Seq(Frame)
      BY <1>1, <1>2, <2>1, <2>2, <2>3, FrameUpdates, ReplaceTop
    <2>5. QED
      BY <1>6, <2>4 DEF MergeChildren, heap, AptaTypeOK
  <1>7. CASE MergeFind
    <2>1. rep[top.lc] # None => rep[top.lc] \in Node
      BY <1>2 DEF AptaTypeOK
    <2>2. rep[top.rc] # None => rep[top.rc] \in Node
      BY <1>2 DEF AptaTypeOK
    <2>3. PICK f \in Frame : Replace(f)
      <3>1. CASE rep[top.lc] # None /\ Replace([top EXCEPT !.lc = rep[top.lc]])
        BY <1>2, <2>1, <3>1, FrameUpdates
      <3>2. CASE rep[top.rc] # None /\ Replace([top EXCEPT !.rc = rep[top.rc]])
        BY <1>2, <2>2, <3>2, FrameUpdates
      <3>3. QED
        BY <1>7, <3>1, <3>2 DEF MergeFind
    <2>4. stack' \in Seq(Frame)
      BY <1>1, <2>3, ReplaceTop
    <2>5. QED
      BY <1>7, <2>4 DEF MergeFind, heap, AptaTypeOK
  <1>8. CASE MergeRecurse
    <2> DEFINE back == [stack EXCEPT ![Len(stack)] = [top EXCEPT !.at = "loop"]]
    <2>1. back \in Seq(Frame)
      <3>1. [top EXCEPT !.at = "loop"] \in Frame
        BY <1>2, FrameUpdates
      <3>2. QED
        BY <1>1, <3>1, ReplacedTop
    <2>2. Call("merge", top.lc, top.rc, top.depth + 1) \in Frame
      BY <1>2, CallFrame
    <2>3. stack' \in Seq(Frame)
      BY <1>8, <2>1, <2>2, PushCall DEF MergeRecurse
    <2>4. QED
      BY <1>8, <2>3 DEF MergeRecurse, heap, AptaTypeOK
  <1>9. CASE MergeReturn
    <2>1. stack' \in Seq(Frame)
      BY <1>1, <1>9, PopTop DEF MergeReturn
    <2>2. QED
      BY <1>9, <2>1 DEF MergeReturn, heap, AptaTypeOK
  <1>10. QED
    BY <1>3, <1>4, <1>5, <1>6, <1>7, <1>8, <1>9 DEF MergeStep
\* A step of undo_merge leaves everything typed.
LEMMA UndoStepTypeOK ==
    ASSUME TypeOK, UndoStep
    PROVE  TypeOK'
  <1> USE DEF TypeOK
  <1>1. stack \in Seq(Frame) /\ stack # <<>>
    BY DEF UndoStep, UndoSkip, UndoEnter, UndoAdopt, UndoChildren, UndoFind,
           UndoRecurse, UndoNodes, At
  <1>2. /\ top \in Frame
        /\ top.left \in Node /\ top.right \in Node /\ top.todo \in SUBSET Symbol
        /\ top.lc \in Node /\ top.rc \in Node /\ top.depth \in Nat
    BY <1>1, TopFrame DEF Frame
  <1>3. CASE UndoSkip
    <2>1. stack' \in Seq(Frame)
      BY <1>1, <1>3, PopTop DEF UndoSkip
    <2>2. QED
      BY <1>3, <2>1 DEF UndoSkip, heap, AptaTypeOK
  <1>4. CASE UndoEnter
    <2>1. stack' \in Seq(Frame)
      BY <1>1, <1>2, <1>4, FrameUpdates, ReplaceTop DEF UndoEnter
    <2>2. QED
      BY <1>4, <2>1 DEF UndoEnter, heap, AptaTypeOK
  <1>5. CASE UndoAdopt
    <2>1. PICK a \in Symbol :
             /\ child' = [child EXCEPT ![top.left][a] = None]
             /\ Replace([top EXCEPT !.todo = Before(a)])
      BY <1>5 DEF UndoAdopt
    <2>2. Before(a) \in SUBSET Symbol
      BY <1>2 DEF Before
    <2>3. stack' \in Seq(Frame)
      BY <1>1, <1>2, <2>1, <2>2, FrameUpdates, ReplaceTop
    <2>4. child' \in [Node -> [Symbol -> Node \cup {None}]]
      BY <1>2, <2>1, ChildTyped
    <2>5. QED
      BY <1>5, <2>3, <2>4 DEF UndoAdopt, AptaTypeOK
  <1>6. CASE UndoChildren
    <2>1. PICK a \in Symbol :
             /\ child[top.left][a] # None
             /\ a \in pending
             /\ Replace([top EXCEPT !.at = "find", !.todo = Before(a),
                          !.lc = child[top.left][a], !.rc = child[top.right][a]])
      BY <1>6 DEF UndoChildren, IsLast
    <2>2. Before(a) \in SUBSET Symbol
      BY <1>2 DEF Before
    <2>3. child[top.left][a] \in Node /\ child[top.right][a] \in Node
      BY SMTT(30), <1>2, <2>1 DEF AptaTypeOK, pending, Guarded
    <2>4. stack' \in Seq(Frame)
      BY <1>1, <1>2, <2>1, <2>2, <2>3, FrameUpdates, ReplaceTop
    <2>5. QED
      BY <1>6, <2>4 DEF UndoChildren, heap, AptaTypeOK
  <1>7. CASE UndoFind
    <2>1. rep[top.lc] # None => rep[top.lc] \in Node
      BY <1>2 DEF AptaTypeOK
    <2>2. rep[top.rc] # None => rep[top.rc] \in Node
      BY <1>2 DEF AptaTypeOK
    <2>3. PICK f \in Frame : Replace(f)
      <3>1. CASE rep[top.lc] # None /\ Replace([top EXCEPT !.lc = rep[top.lc]])
        BY <1>2, <2>1, <3>1, FrameUpdates
      <3>2. CASE rep[top.rc] # None /\ Replace([top EXCEPT !.rc = rep[top.rc]])
        BY <1>2, <2>2, <3>2, FrameUpdates
      <3>3. QED
        BY <1>7, <3>1, <3>2 DEF UndoFind
    <2>4. stack' \in Seq(Frame)
      BY <1>1, <2>3, ReplaceTop
    <2>5. QED
      BY <1>7, <2>4 DEF UndoFind, heap, AptaTypeOK
  <1>8. CASE UndoRecurse
    <2> DEFINE back == [stack EXCEPT ![Len(stack)] = [top EXCEPT !.at = "loop"]]
    <2>1. back \in Seq(Frame)
      <3>1. [top EXCEPT !.at = "loop"] \in Frame
        BY <1>2, FrameUpdates
      <3>2. QED
        BY <1>1, <3>1, ReplacedTop
    <2>2. Call("undo", top.lc, top.rc, top.depth + 1) \in Frame
      BY <1>2, CallFrame
    <2>3. stack' \in Seq(Frame)
      BY <1>8, <2>1, <2>2, PushCall DEF UndoRecurse
    <2>4. QED
      BY <1>8, <2>3 DEF UndoRecurse, heap, AptaTypeOK
  <1>9. CASE UndoNodes
    <2>1. stack' \in Seq(Frame)
      BY <1>1, <1>9, PopTop DEF UndoNodes
    <2>2. /\ rep' \in [Node -> Node \cup {None}]
          /\ repOf' \in [Node -> Node \cup {None}]
          /\ nextMerged' \in [Node -> Node \cup {None}]
          /\ size' \in [Node -> Int] /\ final' \in [Node -> Int]
      BY <1>2, <1>9, UndoMergeWithTyped DEF UndoNodes
    <2>3. finals' \in [Node -> [Type -> Int]]
      BY <1>2, <1>9, DataTyped DEF UndoNodes
    <2>4. QED
      BY <1>9, <2>1, <2>2, <2>3 DEF UndoNodes, AptaTypeOK
  <1>10. QED
    BY <1>3, <1>4, <1>5, <1>6, <1>7, <1>8, <1>9 DEF UndoStep

\* An access trace leads to a node, if anywhere.
LEMMA TraceToNode ==
    ASSUME AptaTypeOK, NEW n \in Node
    PROVE  StateFromTrace(n) \subseteq Node
  <1>1. CASE tree.source[n] = None
    BY <1>1, AptaAssumption DEF StateFromTrace
  <1>2. CASE tree.source[n] # None
    <2>1. tree.symbol[n] \in Symbol
      BY <1>2, TreesAssumption DEF AptaTypeOK, IsPrefixTree
    <2>2. \A q \in Node : child[q][tree.symbol[n]] \in Node \cup {None}
      BY <2>1 DEF AptaTypeOK
    <2>3. QED
      BY <1>2, <2>2 DEF StateFromTrace, LastStep
  <1>3. QED
    BY <1>1, <1>2

\* A state coloured red gets a sink number.
LEMMA ExtendedSinkTyped ==
    ASSUME AptaTypeOK, NEW n \in Node
    PROVE  ExtendedSink(n) \in Int
  <1>1. \A p \in Node : sink[p] \in Int
    BY DEF AptaTypeOK
  <1>2. SinkType(n) \in Int
    BY <1>1 DEF SinkType, DataSinkType, NoSink
  <1>3. QED
    BY <1>1, <1>2 DEF ExtendedSink

\* Colouring a node, or giving it a sink number, keeps both typed.
LEMMA ColourTyped ==
    ASSUME NEW c \in [Node -> BOOLEAN], NEW k \in [Node -> Int],
           NEW m \in Node, NEW n \in Node, NEW b \in BOOLEAN, NEW i \in Int
    PROVE  /\ [c EXCEPT ![m] = b] \in [Node -> BOOLEAN]
           /\ [c EXCEPT ![m] = b, ![n] = b] \in [Node -> BOOLEAN]
           /\ [k EXCEPT ![m] = i] \in [Node -> Int]
  OBVIOUS

\* A client call or the end of an operation leaves everything typed.
LEMMA OperationTypeOK ==
    ASSUME TypeOK, Finish \/ Client
    PROVE  TypeOK'
  <1> USE DEF TypeOK
  <1> DEFINE Entry == [ref : Refinement, before : Snapshot]
  <1>1. ASSUME NEW l \in Node, NEW r \in Node, TestMerge(l, r)
        PROVE  TypeOK'
    <2>1. stack' \in Seq(Frame)
      <3>1. Call("merge", l, r, 0) \in Frame
        BY CallFrame
      <3>2. QED
        BY <1>1, <3>1 DEF TestMerge
    <2>2. ref' \in Refinement /\ before' \in Snapshot
      BY <1>1, HeapSnapshot DEF TestMerge, Refinement
    <2>3. eval' \in [inconsistent : BOOLEAN, merges : Nat] /\ offer' = None /\ op' \in Op
      BY <1>1 DEF TestMerge, Op
    <2>4. QED
      BY <1>1, <2>1, <2>2, <2>3 DEF TestMerge, heap, AptaTypeOK
  <1>2. CASE TestMergeDone
    <2>1. ref \in Refinement /\ before \in Snapshot
      BY <1>2 DEF TestMergeDone
    <2>2. offer' \in Refinement \cup {None}
      BY <1>2, <2>1 DEF TestMergeDone, Refinement
    <2>3. CASE MERGE_WHEN_TESTING
      <3>1. Call("undo", ref.red, ref.blue, 0) \in Frame
        BY <2>1, CallFrame DEF Refinement
      <3>2. stack' = <<Call("undo", ref.red, ref.blue, 0)>>
        BY <1>2, <2>3 DEF TestMergeDone
      <3>3. stack' \in Seq(Frame)
        BY <3>1, <3>2
      <3>4. QED
        BY <1>2, <2>1, <2>2, <2>3, <3>3 DEF TestMergeDone, heap, AptaTypeOK, Op
    <2>4. CASE ~MERGE_WHEN_TESTING
      BY <1>2, <2>2, <2>4 DEF TestMergeDone, heap, AptaTypeOK, Op
    <2>5. QED
      BY <2>3, <2>4
  <1>3. CASE TestMergeUndone
    BY <1>3 DEF TestMergeUndone, heap, AptaTypeOK, Op
  <1>4. CASE DoMerge
    <2>1. offer \in Refinement
      BY <1>4 DEF DoMerge
    <2>2. PICK l \in Node, r \in Node :
             /\ IF red[l]
                THEN UNCHANGED <<red, sink>>
                ELSE /\ red' = [red EXCEPT ![l] = TRUE, ![r] = TRUE]
                     /\ sink' = [sink EXCEPT ![l] = ExtendedSink(l)]
             /\ stack' = <<Call("merge", l, r, 0)>>
      <3>1. /\ StateFromTrace(offer.red) \subseteq Node
            /\ StateFromTrace(offer.blue) \subseteq Node
        BY <2>1, TraceToNode DEF Refinement
      <3>2. QED
        BY <1>4, <3>1 DEF DoMerge
    <2>3. stack' \in Seq(Frame)
      <3>1. Call("merge", l, r, 0) \in Frame
        BY CallFrame
      <3>2. QED
        BY <2>2, <3>1
    <2>4. red' \in [Node -> BOOLEAN] /\ sink' \in [Node -> Int]
      BY <2>2, ExtendedSinkTyped DEF AptaTypeOK
    <2>5. before' \in Snapshot
      BY <1>4, HeapSnapshot DEF DoMerge
    <2>6. QED
      BY SMTT(30), <1>4, <2>1, <2>3, <2>4, <2>5 DEF DoMerge, AptaTypeOK, Op
  <1>5. CASE DoMergeDone
    <2>1. [ref |-> ref, before |-> before] \in Entry
      BY <1>5 DEF DoMergeDone
    <2>2. done' \in Seq(Entry)
      BY <1>5, <2>1, AppendProperties DEF DoMergeDone
    <2>3. QED
      BY <1>5, <2>2 DEF DoMergeDone, heap, AptaTypeOK, Op
  <1>6. ASSUME NEW b \in Node, DoExtend(b)
        PROVE  TypeOK'
    <2>1. red' \in [Node -> BOOLEAN] /\ sink' \in [Node -> Int]
      BY <1>6, ExtendedSinkTyped DEF DoExtend, AptaTypeOK
    <2>2. [ref |-> [kind |-> "extend", red |-> b, blue |-> b, score |-> 0],
           before |-> heap] \in Entry
      BY HeapSnapshot DEF Refinement
    <2>3. done' \in Seq(Entry)
      BY <1>6, <2>2, AppendProperties DEF DoExtend
    <2>4. QED
      BY <1>6, <2>1, <2>3 DEF DoExtend, AptaTypeOK
  <1>7. ASSUME done # <<>>
        PROVE  /\ done[Len(done)] \in Entry
               /\ SubSeq(done, 1, Len(done) - 1) \in Seq(Entry)
    <2>1. done \in Seq(Entry)
      OBVIOUS
    <2> HIDE DEF Entry
    <2>2. /\ done[Len(done)] \in Entry
          /\ Len(done) - 1 \in Nat /\ Len(done) = (Len(done) - 1) + 1
      BY <1>7, <2>1, LastElement
    <2>3. QED
      BY <2>1, <2>2, WithoutLast
  <1>8. CASE UndoExtend
    <2>1. done[Len(done)].ref.red \in Node /\ done' \in Seq(Entry)
      BY <1>7, <1>8 DEF UndoExtend, Refinement
    <2>2. PICK n \in Node : /\ red' = [red EXCEPT ![n] = FALSE]
                            /\ sink' = [sink EXCEPT ![n] = NoSink]
      BY <1>8, <2>1, TraceToNode DEF UndoExtend
    <2>3. red' \in [Node -> BOOLEAN] /\ sink' \in [Node -> Int]
      <3>1. /\ red \in [Node -> BOOLEAN]
            /\ sink \in [Node -> Int] /\ NoSink \in Int
        BY DEF AptaTypeOK, NoSink
      <3>2. QED
        BY <2>2, <3>1, ColourTyped
    <2>4. QED
      BY <1>8, <2>1, <2>3 DEF UndoExtend, AptaTypeOK
  <1>9. CASE UndoMerge
    <2> DEFINE last == done[Len(done)]
    <2>1. last \in Entry
      BY <1>7, <1>9 DEF UndoMerge
    <2>2. PICK l \in Node, r \in Node :
             /\ stack' = <<Call("undo", l, r, 0)>>
             /\ ref' = [last.ref EXCEPT !.red = l, !.blue = r]
      <3>1. /\ StateFromTrace(last.ref.red) \subseteq Node
            /\ StateFromTrace(last.ref.blue) \subseteq Node
        BY <2>1, TraceToNode DEF Refinement
      <3>2. QED
        BY <1>9, <3>1 DEF UndoMerge
    <2>3. stack' \in Seq(Frame)
      <3>1. Call("undo", l, r, 0) \in Frame
        BY CallFrame
      <3>2. QED
        BY <2>2, <3>1
    <2>4. ref' \in Refinement /\ before' \in Snapshot
      BY <1>9, <2>1, <2>2 DEF UndoMerge, Refinement
    <2>5. QED
      BY <1>9, <2>3, <2>4 DEF UndoMerge, heap, AptaTypeOK, Op
  <1>10. CASE UndoMergeDone
    <2>1. ref.red \in Node /\ ref.blue \in Node
      BY <1>10 DEF UndoMergeDone, Refinement
    <2>2. red' \in [Node -> BOOLEAN] /\ sink' \in [Node -> Int]
      <3>1. /\ red \in [Node -> BOOLEAN]
            /\ sink \in [Node -> Int] /\ NoSink \in Int
        BY DEF AptaTypeOK, NoSink
      <3>2. CASE red[ref.blue]
        <4>1. /\ red' = [red EXCEPT ![ref.blue] = FALSE, ![ref.red] = FALSE]
              /\ sink' = [sink EXCEPT ![ref.red] = NoSink]
          BY <1>10, <3>2 DEF UndoMergeDone
        <4>2. [red EXCEPT ![ref.blue] = FALSE, ![ref.red] = FALSE] \in [Node -> BOOLEAN]
          BY <2>1, <3>1, ColourTyped
        <4>3. [sink EXCEPT ![ref.red] = NoSink] \in [Node -> Int]
          BY <2>1, <3>1
        <4>4. QED
          BY <4>1, <4>2, <4>3
      <3>3. CASE ~red[ref.blue]
        BY <1>10, <3>1, <3>3 DEF UndoMergeDone
      <3>4. QED
        BY <3>2, <3>3
    <2>3. done' \in Seq(Entry)
      <3>1. CASE done # <<>>
        BY <1>7, <1>10, <3>1 DEF UndoMergeDone
      <3>2. CASE done = <<>>
        BY <1>10, <3>2 DEF UndoMergeDone
      <3>3. QED
        BY <3>1, <3>2
    <2>4. QED
      BY SMTT(30), <1>10, <2>2, <2>3 DEF UndoMergeDone, AptaTypeOK, Op
  <1>11. QED
    BY <1>1, <1>2, <1>3, <1>4, <1>5, <1>6, <1>8, <1>9, <1>10 DEF Finish, Client

\* Every step leaves everything typed.
LEMMA NextTypeOK ==
    ASSUME TypeOK, [Next]_vars
    PROVE  TypeOK'
  <1>1. CASE MergeStep
    BY <1>1, MergeStepTypeOK
  <1>2. CASE UndoStep
    BY <1>2, UndoStepTypeOK
  <1>3. CASE Finish \/ Client
    BY <1>3, OperationTypeOK
  <1>4. CASE UNCHANGED vars
    BY <1>4 DEF vars, heap, control, TypeOK, AptaTypeOK
  <1>5. QED
    BY <1>1, <1>2, <1>3, <1>4 DEF Next, Engine

\* The type invariant, for every alphabet, set of prefix trees and setting of
\* the parameters.
THEOREM TypeCorrect == Spec => []TypeOK
  <1>1. Init => TypeOK
    BY InitTypeOK
  <1>2. TypeOK /\ [Next]_vars => TypeOK'
    BY NextTypeOK
  <1>3. QED
    BY <1>1, <1>2, PTL DEF Spec

-----------------------------------------------------------------------------
(* The two states a call merges are distinct and the left one is not       *)
(* merged: what makes every merge a step of a union/find structure.  The   *)
(* heap does not change between a call and its first step, and the calls   *)
(* below the innermost one are all past theirs.                            *)

CallsOK ==
    /\ \A i \in 1 .. Len(stack) - 1 : stack[i].at # "entry"
    /\ At("merge", "entry") => rep[top.left] = None /\ top.left # top.right

\* A call that returns uncovers one that is past its first step.
LEMMA CallsAfterPop ==
    ASSUME stack \in Seq(Frame), stack # <<>>, CallsOK, Pop
    PROVE  CallsOK'
  <1>1. /\ stack' \in Seq(Frame)
        /\ Len(stack') = Len(stack) - 1
        /\ \A i \in 1 .. Len(stack) - 1 : stack'[i] = stack[i]
    BY PopTop
  <1>2. \A i \in 1 .. Len(stack') : stack'[i].at # "entry"
    BY <1>1 DEF CallsOK
  <1>3. stack' # <<>> => top' = stack'[Len(stack')] /\ Len(stack') \in 1 .. Len(stack')
    BY <1>1, EmptySeq, LenProperties DEF top
  <1>4. Len(stack') - 1 \in Int /\ Len(stack') \in Nat
    BY <1>1, LenProperties
  <1>5. QED
    BY <1>2, <1>3, <1>4 DEF CallsOK, At

\* A call that moves on is past its first step.
LEMMA CallsAfterReplace ==
    ASSUME stack \in Seq(Frame), stack # <<>>, CallsOK,
           NEW f \in Frame, Replace(f), f.at # "entry"
    PROVE  CallsOK'
  <1>1. /\ Len(stack') = Len(stack)
        /\ stack'[Len(stack)] = f
        /\ \A i \in 1 .. Len(stack) - 1 : stack'[i] = stack[i]
    BY ReplaceTop
  <1>2. top'.at # "entry"
    BY <1>1 DEF top
  <1>3. QED
    BY <1>1, <1>2 DEF CallsOK, At

\* A recursive call is made by one that is past its first step.
LEMMA CallsAfterPush ==
    ASSUME stack \in Seq(Frame), stack # <<>>, CallsOK,
           NEW f \in Frame, f.at # "entry", NEW c \in Frame,
           stack' = Append([stack EXCEPT ![Len(stack)] = f], c),
           c.kind = "merge" => rep'[c.left] = None /\ c.left # c.right
    PROVE  CallsOK'
  <1> DEFINE back == [stack EXCEPT ![Len(stack)] = f]
  <1>1. /\ back \in Seq(Frame)
        /\ Len(back) = Len(stack)
        /\ back[Len(stack)] = f
        /\ \A i \in 1 .. Len(stack) - 1 : back[i] = stack[i]
    BY ReplacedTop
  <1>2. stack' = Append(back, c)
    OBVIOUS
  <1> HIDE DEF back
  <1>3. Len(stack) \in Nat \ {0}
    BY TopFrame
  <1>4. /\ Len(stack') = Len(stack) + 1
        /\ \A i \in 1 .. Len(stack) : stack'[i] = back[i]
        /\ stack'[Len(stack) + 1] = c
    BY <1>1, <1>2, PushCall
  <1>5. \A i \in 1 .. Len(stack) : stack'[i].at # "entry"
    BY <1>1, <1>3, <1>4 DEF CallsOK
  <1>6. top' = c
    BY <1>4 DEF top
  <1>7. QED
    BY <1>3, <1>4, <1>5, <1>6 DEF CallsOK, At

\* The outermost call.
LEMMA CallsAfterFirst ==
    ASSUME NEW c \in Frame, stack' = <<c>>,
           c.kind = "merge" => rep'[c.left] = None /\ c.left # c.right
    PROVE  CallsOK'
  <1>1. Len(stack') = 1 /\ top' = c
    BY DEF top
  <1>2. QED
    BY <1>1 DEF CallsOK, At

\* Every step keeps the calls in order.
LEMMA CallsStep ==
    ASSUME TypeOK, CallsOK, [Next]_vars
    PROVE  CallsOK'
  <1> DEFINE loop == [top EXCEPT !.at = "loop"]
  <1>1. stack \in Seq(Frame) /\ AptaTypeOK
    BY DEF TypeOK
  <1>2. ASSUME stack # <<>>
        PROVE  /\ top \in Frame
               /\ top.lc \in Node /\ top.rc \in Node /\ top.depth \in Nat
               /\ top.todo \in SUBSET Symbol
               /\ loop \in Frame /\ loop.at # "entry"
    BY <1>1, <1>2, TopFrame DEF Frame
  <1>3. CASE MergeStop \/ MergeReturn \/ UndoSkip \/ UndoNodes
    BY <1>1, <1>3, CallsAfterPop DEF MergeStop, MergeReturn, UndoSkip, UndoNodes, At
  <1>4. CASE MergeNodes \/ UndoEnter
    <2>1. stack # <<>> /\ Replace([top EXCEPT !.at = "loop", !.todo = Symbol])
      BY <1>4 DEF MergeNodes, UndoEnter, At
    <2>2. /\ [top EXCEPT !.at = "loop", !.todo = Symbol] \in Frame
          /\ [top EXCEPT !.at = "loop", !.todo = Symbol].at # "entry"
      BY <1>2, <2>1 DEF Frame
    <2>3. QED
      BY <1>1, <2>1, <2>2, CallsAfterReplace
  <1>5. CASE MergeAdopt \/ UndoAdopt
    <2>1. PICK T : /\ stack # <<>> /\ top.at = "loop" /\ T \in SUBSET Symbol
                   /\ Replace([top EXCEPT !.todo = T])
      <3>1. stack # <<>> /\ top.at = "loop"
        BY <1>5 DEF MergeAdopt, UndoAdopt, At
      <3>2. PICK a \in Symbol : \/ Replace([top EXCEPT !.todo = After(a)])
                                \/ Replace([top EXCEPT !.todo = Before(a)])
        BY <1>5 DEF MergeAdopt, UndoAdopt
      <3>3. After(a) \in SUBSET Symbol /\ Before(a) \in SUBSET Symbol
        BY <1>2, <3>1 DEF After, Before
      <3>4. QED
        BY <3>1, <3>2, <3>3
    <2>2. [top EXCEPT !.todo = T] \in Frame /\ [top EXCEPT !.todo = T].at # "entry"
      BY <1>2, <2>1 DEF Frame
    <2>3. QED
      BY <1>1, <2>1, <2>2, CallsAfterReplace
  <1>6. CASE MergeChildren \/ UndoChildren
    <2>1. stack # <<>>
      BY <1>6 DEF MergeChildren, UndoChildren, At
    <2>2. PICK a \in Symbol, T \in SUBSET Symbol :
             /\ child[top.left][a] # None
             /\ a \in pending
             /\ Replace([top EXCEPT !.at = "find", !.todo = T,
                          !.lc = child[top.left][a], !.rc = child[top.right][a]])
      <3>1. \A b \in Symbol : After(b) \in SUBSET Symbol /\ Before(b) \in SUBSET Symbol
        BY <1>2, <2>1 DEF After, Before
      <3>2. QED
        BY <1>6, <3>1 DEF MergeChildren, UndoChildren, IsFirst, IsLast
    <2>3. child[top.left][a] \in Node /\ child[top.right][a] \in Node
      BY <1>1, <1>2, <2>1, <2>2 DEF pending, Guarded, AptaTypeOK, Frame
    <2> DEFINE f == [top EXCEPT !.at = "find", !.todo = T,
                       !.lc = child[top.left][a], !.rc = child[top.right][a]]
    <2>4. f \in Frame /\ f.at # "entry"
      BY <1>2, <2>1, <2>3 DEF Frame
    <2>5. QED
      BY <1>1, <2>1, <2>2, <2>4, CallsAfterReplace
  <1>7. CASE MergeFind \/ UndoFind
    <2>1. stack # <<>> /\ top.at = "find"
      BY <1>7 DEF MergeFind, UndoFind, At
    <2>2. CASE rep[top.lc] # None /\ Replace([top EXCEPT !.lc = rep[top.lc]])
      <3>1. /\ [top EXCEPT !.lc = rep[top.lc]] \in Frame
            /\ [top EXCEPT !.lc = rep[top.lc]].at # "entry"
        BY <1>1, <1>2, <2>1, <2>2 DEF Frame, AptaTypeOK
      <3>2. QED
        BY <1>1, <2>1, <2>2, <3>1, CallsAfterReplace
    <2>3. CASE rep[top.rc] # None /\ Replace([top EXCEPT !.rc = rep[top.rc]])
      <3>1. /\ [top EXCEPT !.rc = rep[top.rc]] \in Frame
            /\ [top EXCEPT !.rc = rep[top.rc]].at # "entry"
        BY <1>1, <1>2, <2>1, <2>3 DEF Frame, AptaTypeOK
      <3>2. QED
        BY <1>1, <2>1, <2>3, <3>1, CallsAfterReplace
    <2>4. QED
      BY <1>7, <2>2, <2>3 DEF MergeFind, UndoFind
  <1>8. CASE MergeRecurse
    <2>1. stack # <<>> /\ rep[top.lc] = None /\ rep' = rep
      BY <1>8 DEF MergeRecurse, At, heap
    <2> DEFINE c == Call("merge", top.lc, top.rc, top.depth + 1)
    <2>2. CASE top.lc # top.rc
      <3>1. stack' = Append([stack EXCEPT ![Len(stack)] = loop], c)
        BY <1>8, <2>2 DEF MergeRecurse
      <3>2. c \in Frame
        BY <1>2, <2>1, CallFrame
      <3>3. c.kind = "merge" => rep'[c.left] = None /\ c.left # c.right
        BY <2>1, <2>2 DEF Call
      <3> HIDE DEF loop, c
      <3>4. QED
        BY <1>1, <1>2, <2>1, <3>1, <3>2, <3>3, CallsAfterPush
    <2>3. CASE top.lc = top.rc
      <3>1. Replace(loop)
        BY <1>8, <2>3 DEF MergeRecurse, Replace
      <3> HIDE DEF loop
      <3>2. QED
        BY <1>1, <1>2, <2>1, <3>1, CallsAfterReplace
    <2>4. QED
      BY <2>2, <2>3
  <1>9. CASE UndoRecurse
    <2> DEFINE c == Call("undo", top.lc, top.rc, top.depth + 1)
    <2>1. stack # <<>> /\ stack' = Append([stack EXCEPT ![Len(stack)] = loop], c)
      BY <1>9 DEF UndoRecurse, At
    <2>2. c \in Frame /\ c.kind # "merge"
      <3>1. c \in Frame
        BY <1>2, <2>1, CallFrame
      <3>2. QED
        BY <3>1 DEF Call
    <2> HIDE DEF loop, c
    <2>3. QED
      BY <1>1, <1>2, <2>1, <2>2, CallsAfterPush
  <1>10. ASSUME NEW l \in Node, NEW r \in Node, Applicable(l, r), rep' = rep,
                stack' = <<Call("merge", l, r, 0)>>
         PROVE  CallsOK'
    <2>1. Call("merge", l, r, 0) \in Frame
      BY CallFrame
    <2>2. /\ Call("merge", l, r, 0).left = l /\ Call("merge", l, r, 0).right = r
          /\ rep'[l] = None /\ l # r
      BY <1>10 DEF Call, Applicable
    <2>3. QED
      BY <1>10, <2>1, <2>2, CallsAfterFirst
  <1>11. ASSUME NEW l \in Node, NEW r \in Node, stack' = <<Call("undo", l, r, 0)>>
         PROVE  CallsOK'
    <2>1. Call("undo", l, r, 0) \in Frame /\ Call("undo", l, r, 0).kind # "merge"
      <3>1. Call("undo", l, r, 0) \in Frame
        BY CallFrame
      <3>2. QED
        BY <3>1 DEF Call
    <2>2. QED
      BY <1>11, <2>1, CallsAfterFirst
  <1>12. ASSUME stack' = stack, rep' = rep
         PROVE  CallsOK'
    BY <1>12 DEF CallsOK, At, top
  <1>13. ASSUME NEW l \in Node, NEW r \in Node, TestMerge(l, r)
         PROVE  CallsOK'
    BY <1>10, <1>13 DEF TestMerge, heap
  <1>14. CASE TestMergeDone
    <2>1. CASE MERGE_WHEN_TESTING
      <3>1. ref.red \in Node /\ ref.blue \in Node
        BY <1>14 DEF TestMergeDone, TypeOK, Refinement
      <3>2. stack' = <<Call("undo", ref.red, ref.blue, 0)>>
        BY <1>14, <2>1 DEF TestMergeDone
      <3>3. QED
        BY <1>11, <3>1, <3>2
    <2>2. CASE ~MERGE_WHEN_TESTING
      BY <1>12, <1>14, <2>2 DEF TestMergeDone, heap
    <2>3. QED
      BY <2>1, <2>2
  <1>15. CASE DoMerge
    <2>1. /\ StateFromTrace(offer.red) \subseteq Node
          /\ StateFromTrace(offer.blue) \subseteq Node
      BY <1>1, <1>15, TraceToNode DEF DoMerge, TypeOK, Refinement
    <2>2. PICK l \in Node, r \in Node :
             Applicable(l, r) /\ stack' = <<Call("merge", l, r, 0)>>
      BY <1>15, <2>1 DEF DoMerge
    <2>3. rep' = rep
      BY <1>15 DEF DoMerge
    <2>4. QED
      BY <1>10, <2>2, <2>3
  <1>16. CASE UndoMerge
    <2>1. done[Len(done)].ref \in Refinement
      <3>1. done \in Seq([ref : Refinement, before : Snapshot]) /\ done # <<>>
        BY <1>16 DEF UndoMerge, TypeOK
      <3>2. done[Len(done)] \in [ref : Refinement, before : Snapshot]
        BY <3>1, LastElement
      <3>3. QED
        BY <3>2
    <2>2. /\ StateFromTrace(done[Len(done)].ref.red) \subseteq Node
          /\ StateFromTrace(done[Len(done)].ref.blue) \subseteq Node
      BY <1>1, <2>1, TraceToNode DEF Refinement
    <2>3. PICK l \in Node, r \in Node : stack' = <<Call("undo", l, r, 0)>>
      BY <1>16, <2>2 DEF UndoMerge
    <2>4. QED
      BY <1>11, <2>3
  <1>17. CASE \/ TestMergeUndone \/ DoMergeDone \/ UndoMergeDone \/ UndoExtend
              \/ \E b \in Node : DoExtend(b)
    BY <1>12, <1>17
       DEF TestMergeUndone, DoMergeDone, UndoMergeDone, UndoExtend, DoExtend, heap
  <1>18. CASE UNCHANGED vars
    BY <1>12, <1>18 DEF vars, heap, control
  <1>19. QED
    BY <1>3, <1>4, <1>5, <1>6, <1>7, <1>8, <1>9, <1>13, <1>14, <1>15, <1>16,
       <1>17, <1>18
       DEF Next, Engine, MergeStep, UndoStep, Finish, Client

-----------------------------------------------------------------------------
(* find() and find_until() end.                                            *)

\* merge_with of two distinct nodes, the left one not merged, closes no cycle.
LEMMA MergeWithAcyclic ==
    ASSUME AptaTypeOK, tree.nodes \subseteq Node, Acyclic, tree' = tree,
           NEW l \in Node, NEW r \in Node, rep[l] = None, l # r,
           rep' = [rep EXCEPT ![r] = l]
    PROVE  Acyclic'
  <1> SUFFICES ASSUME NEW S \in SUBSET tree.nodes, S # {}
               PROVE  \E n \in S : rep'[n] \notin S
    BY DEF Acyclic
  <1>1. None \notin S
    BY AptaAssumption
  <1>2. CASE l \in S
    <2>1. rep'[l] = None
      BY DEF AptaTypeOK
    <2>2. QED
      BY <1>1, <1>2, <2>1
  <1>3. CASE l \notin S
    <2>1. PICK n \in S : rep[n] \notin S
      BY DEF Acyclic
    <2>2. rep'[n] \in {l, rep[n]}
      BY DEF AptaTypeOK
    <2>3. QED
      BY <1>3, <2>1, <2>2
  <1>4. QED
    BY <1>2, <1>3

\* Neither does taking a node out.
LEMMA UndoMergeWithAcyclic ==
    ASSUME AptaTypeOK, tree.nodes \subseteq Node, Acyclic, tree' = tree,
           NEW r \in Node, rep' = [rep EXCEPT ![r] = None]
    PROVE  Acyclic'
  <1> SUFFICES ASSUME NEW S \in SUBSET tree.nodes, S # {}
               PROVE  \E n \in S : rep'[n] \notin S
    BY DEF Acyclic
  <1>1. PICK n \in S : rep[n] \notin S
    BY DEF Acyclic
  <1>2. rep'[n] \in {None, rep[n]}
    BY DEF AptaTypeOK
  <1>3. QED
    BY <1>1, <1>2, AptaAssumption

\* Only two actions change representatives.
LEMMA RepChanges ==
    ASSUME [Next]_vars
    PROVE  /\ tree' = tree
           /\ rep' = rep \/ MergeNodes \/ UndoNodes
  BY DEF Next, Engine, Client, MergeStep, UndoStep, Finish, MergeStop, MergeNodes,
         MergeAdopt, MergeChildren, MergeFind, MergeRecurse, MergeReturn, UndoSkip,
         UndoEnter, UndoAdopt, UndoChildren, UndoFind, UndoRecurse, UndoNodes,
         TestMerge, TestMergeDone, TestMergeUndone, DoMerge, DoMergeDone, DoExtend,
         UndoExtend, UndoMerge, UndoMergeDone, vars, heap

\* The nodes of the prefix tree are nodes.
LEMMA TreeNodes ==
    ASSUME AptaTypeOK
    PROVE  tree.nodes \subseteq Node
  BY TreesAssumption DEF AptaTypeOK, IsPrefixTree

\* Following representatives never comes back, whatever is merged and undone.
THEOREM RepresentativesAcyclic == Spec => []Acyclic
  <1> DEFINE IInv == TypeOK /\ CallsOK /\ Acyclic
  <1>1. Init => IInv
    <2> SUFFICES ASSUME Init PROVE CallsOK /\ Acyclic
      BY InitTypeOK
    <2>1. CallsOK
      BY EmptySeq DEF Init, CallsOK, At
    <2>2. tree.nodes \subseteq Node
      BY InitTypeOK, TreeNodes DEF TypeOK
    <2>3. \A n \in Node : rep[n] = None
      BY DEF Init, AptaInit
    <2>4. Acyclic
      BY <2>2, <2>3, AptaAssumption DEF Acyclic
    <2>5. QED
      BY <2>1, <2>4
  <1>2. IInv /\ [Next]_vars => IInv'
    <2> SUFFICES ASSUME IInv, [Next]_vars PROVE Acyclic'
      BY NextTypeOK, CallsStep
    <2>1. AptaTypeOK /\ tree.nodes \subseteq Node /\ stack \in Seq(Frame)
      BY TreeNodes DEF TypeOK
    <2>2. CASE rep' = rep
      BY <2>2, RepChanges DEF Acyclic
    <2>3. CASE MergeNodes
      <3>1. stack # <<>> /\ At("merge", "entry")
        BY <2>3 DEF MergeNodes, At
      <3>2. top.left \in Node /\ top.right \in Node
        BY <2>1, <3>1, TopFrame DEF Frame
      <3>3. rep[top.left] = None /\ top.left # top.right
        BY <3>1 DEF CallsOK
      <3>4. rep' = rep \/ rep' = [rep EXCEPT ![top.right] = top.left]
        BY <2>3 DEF MergeNodes, MergeWith
      <3>5. QED
        BY <2>1, <2>2, <3>2, <3>3, <3>4, RepChanges, MergeWithAcyclic
    <2>4. CASE UndoNodes
      <3>1. top.right \in Node
        BY <2>1, <2>4, TopFrame DEF UndoNodes, At, Frame
      <3>2. rep' = [rep EXCEPT ![top.right] = None]
        BY <2>4 DEF UndoNodes, UndoMergeWith
      <3>3. QED
        BY <2>1, <3>1, <3>2, RepChanges, UndoMergeWithAcyclic
    <2>5. QED
      BY <2>2, <2>3, <2>4, RepChanges
  <1>3. QED
    BY <1>1, <1>2, PTL DEF Spec

-----------------------------------------------------------------------------
(* --mergeroot 0: pre_consistent refuses a merge into the root, and no      *)
(* merge it lets through comes to the root by folding, because no guard     *)
(* leads to the root as long as nothing is merged into it.                  *)

\* The calls of merge stay away from the root.
OffRoot(f) == f.kind = "merge" => f.left # Root /\ f.lc # Root

RootInv ==
    /\ \A n \in Node : rep[n] # Root
    /\ \A n \in Node, a \in Symbol : child[n][a] # Root
    /\ \A i \in 1 .. Len(stack) : OffRoot(stack[i])
    /\ offer # None => tree.source[offer.red] # None
    /\ op = "test" => tree.source[ref.red] # None

\* Nothing but the calls differs: they stay off the root when the innermost
\* one returns, moves on or makes a call that is off the root.
LEMMA OffRootStack ==
    ASSUME stack \in Seq(Frame), stack # <<>>, \A i \in 1 .. Len(stack) : OffRoot(stack[i]),
           \/ Pop
           \/ \E f \in Frame : OffRoot(f) /\ Replace(f)
           \/ \E f, c \in Frame :
                 /\ OffRoot(f) /\ OffRoot(c)
                 /\ stack' = Append([stack EXCEPT ![Len(stack)] = f], c)
    PROVE  \A i \in 1 .. Len(stack') : OffRoot(stack'[i])
  <1>1. Len(stack) \in Nat \ {0}
    BY TopFrame
  <1>2. CASE Pop
    BY <1>1, <1>2, PopTop
  <1>3. ASSUME NEW f \in Frame, OffRoot(f), Replace(f)
        PROVE  \A i \in 1 .. Len(stack') : OffRoot(stack'[i])
    BY <1>1, <1>3, ReplaceTop
  <1>4. ASSUME NEW f \in Frame, NEW c \in Frame, OffRoot(f), OffRoot(c),
               stack' = Append([stack EXCEPT ![Len(stack)] = f], c)
        PROVE  \A i \in 1 .. Len(stack') : OffRoot(stack'[i])
    <2> DEFINE back == [stack EXCEPT ![Len(stack)] = f]
    <2>1. /\ back \in Seq(Frame)
          /\ Len(back) = Len(stack)
          /\ back[Len(stack)] = f
          /\ \A i \in 1 .. Len(stack) - 1 : back[i] = stack[i]
      BY <1>4, ReplacedTop
    <2>2. stack' = Append(back, c)
      BY <1>4
    <2> HIDE DEF back
    <2>3. /\ Len(stack') = Len(stack) + 1
          /\ \A i \in 1 .. Len(stack) : stack'[i] = back[i]
          /\ stack'[Len(stack) + 1] = c
      BY <1>4, <2>1, <2>2, PushCall
    <2>4. \A i \in 1 .. Len(stack) : OffRoot(back[i])
      BY SMTT(30), <1>1, <1>4, <2>1
    <2>5. QED
      BY <1>1, <1>4, <2>3, <2>4
  <1>5. QED
    BY <1>2, <1>3, <1>4

\* A step of merge stays off the root.
LEMMA RootMergeStep ==
    ASSUME TypeOK, RootInv, MergeStep
    PROVE  RootInv'
  <1>1. stack \in Seq(Frame) /\ stack # <<>> /\ AptaTypeOK
    BY DEF TypeOK, MergeStep, MergeStop, MergeNodes, MergeAdopt, MergeChildren,
           MergeFind, MergeRecurse, MergeReturn, At
  <1>2. /\ top \in Frame /\ top.kind = "merge"
        /\ top.left \in Node /\ top.right \in Node /\ top.todo \in SUBSET Symbol
        /\ top.lc \in Node /\ top.rc \in Node /\ top.depth \in Nat
    BY <1>1, TopFrame DEF Frame, MergeStep, MergeStop, MergeNodes, MergeAdopt,
       MergeChildren, MergeFind, MergeRecurse, MergeReturn, At
  <1>3. top.left # Root /\ top.lc # Root
    BY <1>1, <1>2, TopFrame DEF RootInv, OffRoot, top
  <1>4. ASSUME \A i \in 1 .. Len(stack') : OffRoot(stack'[i]),
               UNCHANGED <<tree, offer, op, ref>>,
               \A n \in Node : rep'[n] \in {rep[n], top.left},
               \A n \in Node, a \in Symbol :
                  child'[n][a] = child[n][a] \/ \E m \in Node : child'[n][a] = child[m][a]
        PROVE  RootInv'
    BY <1>3, <1>4 DEF RootInv
  <1>5. CASE MergeStop \/ MergeReturn
    <2>1. Pop /\ UNCHANGED <<tree, offer, op, ref, rep, child>>
      BY <1>5 DEF MergeStop, MergeReturn, heap
    <2>2. QED
      BY <1>1, <1>4, <2>1, OffRootStack DEF RootInv
  <1>6. CASE MergeNodes
    <2> DEFINE f == [top EXCEPT !.at = "loop", !.todo = Symbol]
    <2>1. f \in Frame /\ OffRoot(f)
      BY <1>2, <1>3 DEF Frame, OffRoot
    <2>2. Replace(f) /\ UNCHANGED <<tree, offer, op, ref, child>>
      BY <1>6 DEF MergeNodes
    <2> HIDE DEF f
    <2>3. \A n \in Node : rep'[n] \in {rep[n], top.left}
      <3>1. rep' = rep \/ rep' = [rep EXCEPT ![top.right] = top.left]
        BY <1>6 DEF MergeNodes, MergeWith
      <3>2. QED
        BY <1>1, <1>2, <3>1 DEF AptaTypeOK
    <2>4. QED
      BY <1>1, <1>4, <2>1, <2>2, <2>3, OffRootStack DEF RootInv
  <1>7. CASE MergeAdopt
    <2>1. PICK a \in Symbol :
             /\ child' = IF Performing
                         THEN [child EXCEPT ![top.left][a] = child[top.right][a]]
                         ELSE child
             /\ Replace([top EXCEPT !.todo = After(a)])
      BY <1>7 DEF MergeAdopt
    <2> DEFINE f == [top EXCEPT !.todo = After(a)]
    <2>2. f \in Frame /\ OffRoot(f) /\ Replace(f)
      BY <1>2, <1>3, <2>1 DEF Frame, OffRoot, After
    <2> HIDE DEF f
    <2>3. UNCHANGED <<tree, offer, op, ref, rep>>
      BY <1>7 DEF MergeAdopt
    <2>4. \A n \in Node, b \in Symbol :
             child'[n][b] = child[n][b] \/ \E m \in Node : child'[n][b] = child[m][b]
      BY <1>1, <1>2, <2>1 DEF AptaTypeOK
    <2>5. QED
      BY <1>1, <1>4, <2>2, <2>3, <2>4, OffRootStack DEF RootInv
  <1>8. CASE MergeChildren
    <2>1. PICK a \in Symbol :
             /\ child[top.left][a] # None
             /\ a \in pending
             /\ Replace([top EXCEPT !.at = "find", !.todo = After(a),
                          !.lc = child[top.left][a], !.rc = child[top.right][a]])
      BY <1>8 DEF MergeChildren, IsFirst
    <2> DEFINE f == [top EXCEPT !.at = "find", !.todo = After(a),
                       !.lc = child[top.left][a], !.rc = child[top.right][a]]
    <2>2. child[top.left][a] \in Node \ {Root} /\ child[top.right][a] \in Node
      BY SMTT(30), <1>1, <1>2, <2>1 DEF pending, Guarded, AptaTypeOK, RootInv
    <2>3. f \in Frame /\ OffRoot(f) /\ Replace(f)
      BY <1>2, <1>3, <2>1, <2>2 DEF Frame, OffRoot, After
    <2> HIDE DEF f
    <2>4. UNCHANGED <<tree, offer, op, ref, rep, child>>
      BY <1>8 DEF MergeChildren, heap
    <2>5. QED
      BY <1>1, <1>4, <2>3, <2>4, OffRootStack DEF RootInv
  <1>9. CASE MergeFind
    <2>1. PICK f \in Frame : OffRoot(f) /\ Replace(f)
      <3>1. CASE rep[top.lc] # None /\ Replace([top EXCEPT !.lc = rep[top.lc]])
        <4>1. rep[top.lc] \in Node \ {Root}
          BY <1>1, <1>2, <3>1 DEF AptaTypeOK, RootInv
        <4>2. QED
          BY <1>2, <1>3, <3>1, <4>1 DEF Frame, OffRoot
      <3>2. CASE rep[top.rc] # None /\ Replace([top EXCEPT !.rc = rep[top.rc]])
        <4>1. rep[top.rc] \in Node
          BY <1>1, <1>2, <3>2 DEF AptaTypeOK
        <4>2. QED
          BY <1>2, <1>3, <3>2, <4>1 DEF Frame, OffRoot
      <3>3. QED
        BY <1>9, <3>1, <3>2 DEF MergeFind
    <2>2. UNCHANGED <<tree, offer, op, ref, rep, child>>
      BY <1>9 DEF MergeFind, heap
    <2>3. QED
      BY <1>1, <1>4, <2>1, <2>2, OffRootStack DEF RootInv
  <1>10. CASE MergeRecurse
    <2> DEFINE f == [top EXCEPT !.at = "loop"]
               c == Call("merge", top.lc, top.rc, top.depth + 1)
    <2>1. f \in Frame /\ OffRoot(f)
      BY <1>2, <1>3 DEF Frame, OffRoot
    <2>2. c \in Frame /\ OffRoot(c)
      <3>1. c \in Frame
        BY <1>2, CallFrame
      <3>2. QED
        BY <1>3, <3>1 DEF Call, OffRoot
    <2>3. \/ Replace(f)
          \/ stack' = Append([stack EXCEPT ![Len(stack)] = f], c)
      BY <1>10 DEF MergeRecurse, Replace
    <2>4. UNCHANGED <<tree, offer, op, ref, rep, child>>
      BY <1>10 DEF MergeRecurse, heap
    <2> HIDE DEF f, c
    <2>5. \A i \in 1 .. Len(stack') : OffRoot(stack'[i])
      BY <1>1, <2>1, <2>2, <2>3, OffRootStack DEF RootInv
    <2>6. QED
      BY <1>4, <2>4, <2>5
  <1>11. QED
    BY <1>5, <1>6, <1>7, <1>8, <1>9, <1>10 DEF MergeStep

\* A step of undo_merge only clears pointers; its calls do not count.
LEMMA RootUndoStep ==
    ASSUME TypeOK, RootInv, UndoStep
    PROVE  RootInv'
  <1>1. stack \in Seq(Frame) /\ stack # <<>> /\ AptaTypeOK
    BY DEF TypeOK, UndoStep, UndoSkip, UndoEnter, UndoAdopt, UndoChildren,
           UndoFind, UndoRecurse, UndoNodes, At
  <1>2. /\ top \in Frame /\ top.kind = "undo"
        /\ top.left \in Node /\ top.right \in Node
        /\ top.lc \in Node /\ top.rc \in Node /\ top.depth \in Nat
    BY <1>1, TopFrame DEF Frame, UndoStep, UndoSkip, UndoEnter, UndoAdopt,
       UndoChildren, UndoFind, UndoRecurse, UndoNodes, At
  <1>3. stack' \in Seq(Frame)
    BY UndoStepTypeOK DEF TypeOK
  <1>4. \A i \in 1 .. Len(stack') : OffRoot(stack'[i])
    <2>1. CASE UndoSkip \/ UndoNodes
      BY <1>1, <2>1, OffRootStack DEF UndoSkip, UndoNodes, RootInv
    <2>2. CASE UndoEnter \/ UndoAdopt \/ UndoChildren \/ UndoFind
      <3>1. PICK f : Replace(f) /\ f.kind = "undo"
        <4>1. CASE UndoEnter
          <5> DEFINE g == [top EXCEPT !.at = "loop", !.todo = Symbol]
          <5>1. Replace(g) /\ g.kind = "undo"
            BY <1>2, <4>1 DEF UndoEnter, Frame
          <5> HIDE DEF g
          <5>2. QED
            BY <5>1
        <4>2. CASE UndoAdopt
          <5>1. PICK T : Replace([top EXCEPT !.todo = T])
            BY <4>2 DEF UndoAdopt
          <5> DEFINE g == [top EXCEPT !.todo = T]
          <5>2. Replace(g) /\ g.kind = "undo"
            BY <1>2, <5>1 DEF Frame
          <5> HIDE DEF g
          <5>3. QED
            BY <5>2
        <4>3. CASE UndoChildren
          <5>1. PICK a :
                   Replace([top EXCEPT !.at = "find", !.todo = Before(a),
                              !.lc = child[top.left][a], !.rc = child[top.right][a]])
            BY <4>3 DEF UndoChildren
          <5> DEFINE g == [top EXCEPT !.at = "find", !.todo = Before(a),
                             !.lc = child[top.left][a], !.rc = child[top.right][a]]
          <5>2. Replace(g) /\ g.kind = "undo"
            BY <1>2, <5>1 DEF Frame
          <5> HIDE DEF g
          <5>3. QED
            BY <5>2
        <4>4. CASE UndoFind
          <5> DEFINE g == [top EXCEPT !.lc = rep[top.lc]]
                     h == [top EXCEPT !.rc = rep[top.rc]]
          <5>1. Replace(g) \/ Replace(h)
            BY <4>4 DEF UndoFind
          <5>2. g.kind = "undo" /\ h.kind = "undo"
            BY <1>2 DEF Frame
          <5> HIDE DEF g, h
          <5>3. QED
            BY <5>1, <5>2
        <4>5. QED
          BY <2>2, <4>1, <4>2, <4>3, <4>4
      <3>2. Len(stack) \in 1 .. Len(stack)
        BY <1>1, TopFrame
      <3>3. f = stack'[Len(stack)] /\ Len(stack') = Len(stack)
        BY <1>1, <3>1, <3>2, LenProperties DEF Replace
      <3>4. f \in Frame
        BY <1>3, <3>2, <3>3, ElementOfSeq
      <3>5. QED
        BY <1>1, <3>1, <3>4, OffRootStack DEF RootInv, OffRoot
    <2>3. CASE UndoRecurse
      <3> DEFINE f == [top EXCEPT !.at = "loop"]
                 c == Call("undo", top.lc, top.rc, top.depth + 1)
      <3>1. f \in Frame /\ OffRoot(f)
        BY <1>2 DEF Frame, OffRoot
      <3>2. c \in Frame /\ OffRoot(c)
        <4>1. c \in Frame
          BY <1>2, CallFrame
        <4>2. QED
          BY <4>1 DEF Call, OffRoot
      <3>3. stack' = Append([stack EXCEPT ![Len(stack)] = f], c)
        BY <2>3 DEF UndoRecurse
      <3> HIDE DEF f, c
      <3>4. QED
        BY <1>1, <3>1, <3>2, <3>3, OffRootStack DEF RootInv
    <2>4. QED
      BY <2>1, <2>2, <2>3 DEF UndoStep
  <1>5. UNCHANGED <<tree, offer, op, ref>>
    BY DEF UndoStep, UndoSkip, UndoEnter, UndoAdopt, UndoChildren, UndoFind,
           UndoRecurse, UndoNodes
  <1>6. \A n \in Node : rep'[n] \in {rep[n], None}
    <2>1. rep' = rep \/ rep' = [rep EXCEPT ![top.right] = None]
      BY DEF UndoStep, UndoSkip, UndoEnter, UndoAdopt, UndoChildren, UndoFind,
             UndoRecurse, UndoNodes, UndoMergeWith, heap
    <2>2. QED
      BY <1>1, <1>2, <2>1 DEF AptaTypeOK
  <1>7. \A n \in Node, a \in Symbol : child'[n][a] \in {child[n][a], None}
    <2>1. \/ child' = child
          \/ \E b \in Symbol : child' = [child EXCEPT ![top.left][b] = None]
      BY DEF UndoStep, UndoSkip, UndoEnter, UndoAdopt, UndoChildren, UndoFind,
             UndoRecurse, UndoNodes, heap
    <2>2. ASSUME NEW b \in Symbol, child' = [child EXCEPT ![top.left][b] = None]
          PROVE  \A n \in Node, a \in Symbol : child'[n][a] \in {child[n][a], None}
      BY <1>1, <1>2, <2>2 DEF AptaTypeOK
    <2>3. QED
      BY <2>1, <2>2
  <1>8. QED
    BY <1>4, <1>5, <1>6, <1>7, AptaAssumption DEF RootInv

\* An operation starts off the root: a test because of pre_consistent, a merge
\* because it was tested.
LEMMA RootOperation ==
    ASSUME TypeOK, RootInv, ~MERGE_ROOT, Finish \/ Client
    PROVE  RootInv'
  <1>1. AptaTypeOK /\ UNCHANGED <<tree, rep, child>>
    BY DEF TypeOK, Finish, Client, TestMerge, TestMergeDone, TestMergeUndone,
           DoMerge, DoMergeDone, DoExtend, UndoExtend, UndoMerge, UndoMergeDone, heap
  <1>2. ASSUME NEW c, stack' = <<c>>, OffRoot(c)
        PROVE  \A i \in 1 .. Len(stack') : OffRoot(stack'[i])
    BY <1>2
  <1>3. ASSUME NEW l \in Node, NEW r \in Node, TestMerge(l, r)
        PROVE  RootInv'
    <2>1. tree.source[l] # None /\ l # Root
      BY <1>1, <1>3, TreesAssumption, AptaAssumption
         DEF TestMerge, PreConsistent, AptaTypeOK, IsPrefixTree
    <2>2. stack' = <<Call("merge", l, r, 0)>> /\ OffRoot(Call("merge", l, r, 0))
      BY <1>3, <2>1 DEF TestMerge, Call, OffRoot
    <2>3. ref'.red = l /\ offer' = None
      BY <1>3 DEF TestMerge
    <2>4. QED
      BY <1>1, <1>2, <2>1, <2>2, <2>3 DEF RootInv
  <1>4. CASE TestMergeDone
    <2>1. \A i \in 1 .. Len(stack') : OffRoot(stack'[i])
      <3>1. CASE MERGE_WHEN_TESTING
        <4>1. /\ stack' = <<Call("undo", ref.red, ref.blue, 0)>>
              /\ OffRoot(Call("undo", ref.red, ref.blue, 0))
          BY <1>4, <3>1 DEF TestMergeDone, Call, OffRoot
        <4>2. QED
          BY <1>2, <4>1
      <3>2. CASE ~MERGE_WHEN_TESTING
        BY <1>4, <3>2 DEF TestMergeDone, RootInv
      <3>3. QED
        BY <3>1, <3>2
    <2>2. op' # "test"
      BY <1>4 DEF TestMergeDone
    <2>3. offer' # None => offer'.red = ref.red
      BY <1>4 DEF TestMergeDone, TypeOK, Refinement
    <2>4. tree.source[ref.red] # None
      BY <1>4 DEF TestMergeDone, RootInv
    <2>5. QED
      BY <1>1, <2>1, <2>2, <2>3, <2>4 DEF RootInv
  <1>5. CASE DoMerge
    <2>1. offer \in Refinement /\ tree.source[offer.red] # None
      BY <1>5 DEF DoMerge, TypeOK, RootInv
    <2>2. tree.symbol[offer.red] \in Symbol
      BY <1>1, <2>1, TreesAssumption DEF AptaTypeOK, IsPrefixTree, Refinement
    <2>3. Root \notin StateFromTrace(offer.red)
      BY <2>1, <2>2 DEF StateFromTrace, LastStep, RootInv
    <2>4. PICK l, r : l # Root /\ stack' = <<Call("merge", l, r, 0)>>
      BY <1>5, <2>3 DEF DoMerge
    <2>5. OffRoot(Call("merge", l, r, 0))
      BY <2>4 DEF Call, OffRoot
    <2>6. op' # "test" /\ offer' = None
      BY <1>5 DEF DoMerge
    <2>7. QED
      BY <1>1, <1>2, <2>4, <2>5, <2>6 DEF RootInv
  <1>6. CASE UndoMerge
    <2>1. PICK l, r : stack' = <<Call("undo", l, r, 0)>>
      BY <1>6 DEF UndoMerge
    <2>2. OffRoot(Call("undo", l, r, 0))
      BY DEF Call, OffRoot
    <2>3. op' # "test" /\ offer' = None
      BY <1>6 DEF UndoMerge
    <2>4. QED
      BY <1>1, <1>2, <2>1, <2>2, <2>3 DEF RootInv
  <1>7. CASE TestMergeUndone \/ DoMergeDone \/ UndoMergeDone
    <2>1. stack' = stack /\ offer' = offer /\ op' # "test"
      BY <1>7 DEF TestMergeUndone, DoMergeDone, UndoMergeDone
    <2>2. QED
      BY <1>1, <2>1 DEF RootInv
  <1>8. CASE UndoExtend \/ \E b \in Node : DoExtend(b)
    <2>1. stack' = stack /\ offer' = None /\ op' # "test"
      BY <1>8 DEF UndoExtend, DoExtend
    <2>2. QED
      BY <1>1, <2>1 DEF RootInv
  <1>9. QED
    BY <1>3, <1>4, <1>5, <1>6, <1>7, <1>8 DEF Finish, Client

\* --mergeroot 0: no state is ever merged into the root.
THEOREM RootIsKept == Spec => []RootKept
  <1> DEFINE IInv == TypeOK /\ (~MERGE_ROOT => RootInv)
  <1>1. Init => IInv
    <2> SUFFICES ASSUME Init PROVE RootInv
      BY InitTypeOK
    <2>1. IsPrefixTree(tree)
      BY TreesAssumption DEF Init, AptaInit
    <2>2. \A n \in Node : rep[n] # Root
      BY AptaAssumption DEF Init, AptaInit
    <2>3. \A n \in Node, a \in Symbol : child[n][a] # Root
      <3>1. \A n \in Node, a \in Symbol :
               tree.child[n][a] # None => tree.child[n][a] \in tree.nodes \ {Root}
        BY <2>1 DEF IsPrefixTree
      <3>2. child = tree.child
        BY DEF Init, AptaInit
      <3>3. QED
        BY <3>1, <3>2, AptaAssumption
    <2>4. stack = <<>> /\ offer = None /\ op # "test"
      BY DEF Init
    <2>5. QED
      BY <2>2, <2>3, <2>4 DEF RootInv
  <1>2. IInv /\ [Next]_vars => IInv'
    <2> SUFFICES ASSUME TypeOK, RootInv, ~MERGE_ROOT, [Next]_vars
                 PROVE  RootInv'
      BY NextTypeOK
    <2>1. CASE MergeStep
      BY <2>1, RootMergeStep
    <2>2. CASE UndoStep
      BY <2>2, RootUndoStep
    <2>3. CASE Finish \/ Client
      BY <2>3, RootOperation
    <2>4. CASE UNCHANGED vars
      BY <2>4 DEF vars, heap, control, RootInv
    <2>5. QED
      BY <2>1, <2>2, <2>3, <2>4 DEF Next, Engine
  <1>3. IInv => RootKept
    BY TreeNodes DEF RootInv, RootKept, TypeOK
  <1>4. QED
    BY <1>1, <1>2, <1>3, PTL DEF Spec

-----------------------------------------------------------------------------
(* Recursion along well-founded pointers.                                  *)

\* base and step define a function of the nodes X into V along ptr.
Recursion(X, V, ptr, base, step) ==
    /\ \A S \in SUBSET X : S # {} => \E n \in S : ptr[n] \notin S
    /\ \A n \in X : ptr[n] \notin X => base[n] \in V
    /\ \A n \in X, v \in V : step[n][v] \in V

HasSolution(X, V, ptr, base, step) ==
    \E g \in [X -> V] :
       \A n \in X : g[n] = IF ptr[n] \in X THEN step[n][g[ptr[n]]] ELSE base[n]

\* A recursive function exists: its graph is the least relation closed under
\* the equation.
LEMMA RecursiveGraph ==
    ASSUME NEW X, NEW V, NEW ptr, NEW base, NEW step, Recursion(X, V, ptr, base, step)
    PROVE  HasSolution(X, V, ptr, base, step)
  <1>0. /\ \A S \in SUBSET X : S # {} => \E n \in S : ptr[n] \notin S
        /\ \A n \in X : ptr[n] \notin X => base[n] \in V
        /\ \A n \in X, v \in V : step[n][v] \in V
    BY DEF Recursion
  <1> DEFINE Closed(G) ==
               \A n \in X :
                  /\ ptr[n] \notin X => <<n, base[n]>> \in G
                  /\ ptr[n] \in X => \A v \in V :
                        <<ptr[n], v>> \in G => <<n, step[n][v]>> \in G
             Graph == {p \in X \X V : \A G \in SUBSET (X \X V) : Closed(G) => p \in G}
             Unique(n) == \E v \in V : <<n, v>> \in Graph
                                       /\ \A w \in V : <<n, w>> \in Graph => w = v
  <1>1. Closed(Graph)
    BY <1>0
  <1>2. \A p \in Graph : ~Closed(Graph \ {p})
    <2> HIDE DEF Closed
    <2> SUFFICES ASSUME NEW p \in Graph, Closed(Graph \ {p}) PROVE FALSE
      OBVIOUS
    <2>1. Graph \ {p} \in SUBSET (X \X V)
      OBVIOUS
    <2>2. QED
      BY <2>1
  <1> HIDE DEF Graph
  <1>3. \A n \in X : Unique(n)
    <2> DEFINE S == {n \in X : ~Unique(n)}
    <2> SUFFICES ASSUME S # {} PROVE FALSE
      OBVIOUS
    <2>1. PICK n \in S : ptr[n] \notin S
      BY <1>0
    <2>2. PICK v \in V : /\ <<n, v>> \in Graph
                         /\ \A m \in X, w \in V : ptr[m] \in X /\ <<ptr[m], w>> \in Graph
                               /\ m = n => step[m][w] = v
                         /\ ptr[n] \notin X => v = base[n]
      <3>1. CASE ptr[n] \notin X
        BY <1>0, <1>1, <2>1, <3>1
      <3>2. CASE ptr[n] \in X
        <4>1. Unique(ptr[n])
          BY <2>1, <3>2
        <4>2. PICK u \in V : <<ptr[n], u>> \in Graph
                             /\ \A w \in V : <<ptr[n], w>> \in Graph => w = u
          BY <4>1
        <4>3. step[n][u] \in V /\ <<n, step[n][u]>> \in Graph
          BY <1>0, <1>1, <2>1, <3>2, <4>2
        <4>4. QED
          BY <3>2, <4>2, <4>3
      <3>3. QED
        BY <3>1, <3>2
    <2>3. PICK w \in V : <<n, w>> \in Graph /\ w # v
      BY <2>1, <2>2
    <2>4. Closed(Graph \ {<<n, w>>})
      <3> SUFFICES ASSUME NEW m \in X
                   PROVE  /\ ptr[m] \notin X => <<m, base[m]>> \in Graph \ {<<n, w>>}
                          /\ ptr[m] \in X => \A x \in V :
                                <<ptr[m], x>> \in Graph \ {<<n, w>>}
                                   => <<m, step[m][x]>> \in Graph \ {<<n, w>>}
        OBVIOUS
      <3>1. ptr[m] \notin X => <<m, base[m]>> \in Graph \ {<<n, w>>}
        BY <1>1, <2>2, <2>3
      <3>2. ASSUME ptr[m] \in X, NEW x \in V, <<ptr[m], x>> \in Graph
            PROVE  <<m, step[m][x]>> \in Graph \ {<<n, w>>}
        <4>1. <<m, step[m][x]>> \in Graph
          BY <1>1, <3>2
        <4>2. m = n => step[m][x] # w
          BY <2>2, <2>3, <3>2
        <4>3. QED
          BY <4>1, <4>2
      <3>3. QED
        BY <3>1, <3>2
    <2>5. QED
      BY <1>2, <2>3, <2>4
  <1> DEFINE g == [n \in X |-> CHOOSE v \in V : <<n, v>> \in Graph]
  <1>4. \A n \in X : g[n] \in V /\ <<n, g[n]>> \in Graph
    BY <1>3
  <1>5. \A n \in X : g[n] = IF ptr[n] \in X THEN step[n][g[ptr[n]]] ELSE base[n]
    <2> TAKE n \in X
    <2>1. CASE ptr[n] \in X
      <3>1. step[n][g[ptr[n]]] \in V /\ <<n, step[n][g[ptr[n]]]>> \in Graph
        BY <1>0, <1>1, <1>4, <2>1
      <3>2. \A v \in V, w \in V : <<n, v>> \in Graph /\ <<n, w>> \in Graph => v = w
        BY <1>3
      <3>3. QED
        BY <1>4, <2>1, <3>1, <3>2
    <2>2. CASE ptr[n] \notin X
      <3>1. base[n] \in V /\ <<n, base[n]>> \in Graph
        BY <1>0, <1>1, <2>2
      <3>2. QED
        BY <1>3, <1>4, <2>2, <3>1
    <2>3. QED
      BY <2>1, <2>2
  <1>6. g \in [X -> V]
    BY <1>4
  <1>7. QED
    BY <1>5, <1>6 DEF HasSolution

\* find() follows representatives to a node that has none.
LEMMA FindEquation ==
    ASSUME NEW r \in [Node -> Node \cup {None}], WellFounded(r)
    PROVE  /\ findIn(r) \in [Node -> Node]
           /\ \A n \in Node : findIn(r)[n] = IF r[n] = None THEN n ELSE findIn(r)[r[n]]
           /\ \A n \in Node : r[findIn(r)[n]] = None
  <1>0. \A n \in Node : r[n] \in Node <=> r[n] # None
    BY AptaAssumption
  <1> DEFINE base == [n \in Node |-> n]
             step == [n \in Node |-> [v \in Node |-> v]]
             f == CHOOSE f : f = [n \in Node |-> IF r[n] = None THEN n ELSE f[r[n]]]
  <1>1. \E g \in [Node -> Node] :
           \A n \in Node : g[n] = IF r[n] \in Node THEN step[n][g[r[n]]] ELSE base[n]
    <2>1. Recursion(Node, Node, r, base, step)
      BY DEF WellFounded, Recursion
    <2> HIDE DEF base, step
    <2>2. QED
      BY <2>1, RecursiveGraph DEF HasSolution
  <1>2. PICK g \in [Node -> Node] :
           \A n \in Node : g[n] = IF r[n] = None THEN n ELSE g[r[n]]
    <2>1. PICK g \in [Node -> Node] :
             \A n \in Node : g[n] = IF r[n] \in Node THEN step[n][g[r[n]]] ELSE base[n]
      BY <1>1
    <2>2. \A n \in Node : g[n] = IF r[n] = None THEN n ELSE g[r[n]]
      <3> TAKE n \in Node
      <3>1. CASE r[n] = None
        BY <1>0, <2>1, <3>1
      <3>2. CASE r[n] # None
        <4>1. g[r[n]] \in Node /\ r[n] \in Node
          BY <1>0, <3>2
        <4>2. QED
          BY <2>1, <3>2, <4>1
      <3>3. QED
        BY <3>1, <3>2
    <2>3. QED
      BY <2>2
  <1>3. g = [n \in Node |-> IF r[n] = None THEN n ELSE g[r[n]]]
    BY <1>2
  <1>4. f = [n \in Node |-> IF r[n] = None THEN n ELSE f[r[n]]]
    BY <1>3
  <1>5. findIn(r) = f
    BY DEF findIn
  <1> HIDE DEF f
  <1>6. \A n \in Node : f[n] = IF r[n] = None THEN n ELSE f[r[n]]
    BY <1>4
  <1>7. \A n \in Node : f[n] = g[n]
    <2> DEFINE S == {n \in Node : f[n] # g[n]}
    <2> SUFFICES ASSUME S # {} PROVE FALSE
      OBVIOUS
    <2>1. PICK n \in S : r[n] \notin S
      BY DEF WellFounded
    <2>2. QED
      BY <1>2, <1>6, <2>1
  <1>8. f = g
    <2>1. f = [n \in Node |-> f[n]]
      BY <1>4
    <2>2. QED
      BY <1>7, <2>1
  <1>9. \A n \in Node : r[g[n]] = None
    <2> DEFINE S == {n \in Node : r[g[n]] # None}
    <2> SUFFICES ASSUME S # {} PROVE FALSE
      OBVIOUS
    <2>1. PICK n \in S : r[n] \notin S
      BY DEF WellFounded
    <2>2. QED
      BY <1>2, <2>1
  <1>10. QED
    BY <1>2, <1>5, <1>8, <1>9

\* Whatever satisfies the equation is find().
LEMMA FindUnique ==
    ASSUME NEW r \in [Node -> Node \cup {None}], WellFounded(r), NEW g,
           \A n \in Node : g[n] = IF r[n] = None THEN n ELSE g[r[n]]
    PROVE  \A n \in Node : findIn(r)[n] = g[n]
  <1> DEFINE S == {n \in Node : findIn(r)[n] # g[n]}
  <1> SUFFICES ASSUME S # {} PROVE FALSE
    OBVIOUS
  <1>1. PICK n \in S : r[n] \notin S
    BY DEF WellFounded
  <1>2. QED
    BY <1>1, FindEquation

-----------------------------------------------------------------------------
(* Heaps.                                                                  *)

\* A heap is its nine fields, each of its type.
LEMMA SnapshotParts ==
    ASSUME NEW h \in Snapshot
    PROVE  /\ h = <<h[1], h[2], h[3], h[4], h[5], h[6], h[7], h[8], h[9]>>
           /\ Guards(h) \in [Node -> [Symbol -> Node \cup {None}]]
           /\ Reps(h) \in [Node -> Node \cup {None}]
           /\ h[3] \in [Node -> Node \cup {None}]
           /\ NextsMerged(h) \in [Node -> Node \cup {None}]
           /\ h[5] \in [Node -> Int] /\ h[6] \in [Node -> Int]
           /\ h[7] \in [Node -> [Type -> Int]]
           /\ Reds(h) \in [Node -> BOOLEAN]
           /\ Sinks(h) \in [Node -> Int]
  BY DEF Snapshot, Guards, Reps, NextsMerged, Reds, Sinks

\* Joining r to l gives a heap in which r's representative is l and the guards
\* and colours are as they were.
LEMMA JoinedHeap ==
    ASSUME NEW h \in Snapshot, NEW l \in Node, NEW r \in Node
    PROVE  /\ JoinHeap(h, l, r) \in Snapshot
           /\ Guards(JoinHeap(h, l, r)) = Guards(h)
           /\ Reps(JoinHeap(h, l, r)) = [Reps(h) EXCEPT ![r] = l]
           /\ \A n \in Node \ {r} : NextsMerged(JoinHeap(h, l, r))[n] = NextsMerged(h)[n]
           /\ Reds(JoinHeap(h, l, r)) = Reds(h)
           /\ Sinks(JoinHeap(h, l, r)) = Sinks(h)
  <1>1. h[7] \in [Node -> [Type -> Int]]
    BY SnapshotParts
  <1>2. [t \in Type |-> h[7][l][t] + h[7][r][t]] \in [Type -> Int]
    BY <1>1
  <1>3. [h[7] EXCEPT ![l] = [t \in Type |-> h[7][l][t] + h[7][r][t]]]
           \in [Node -> [Type -> Int]]
    BY <1>1, <1>2
  <1>4. /\ [h[2] EXCEPT ![r] = l] \in [Node -> Node \cup {None}]
        /\ [h[3] EXCEPT ![l] = r] \in [Node -> Node \cup {None}]
        /\ [h[4] EXCEPT ![r] = h[3][l]] \in [Node -> Node \cup {None}]
        /\ [h[5] EXCEPT ![l] = h[5][l] + h[5][r]] \in [Node -> Int]
        /\ [h[6] EXCEPT ![l] = h[6][l] + h[6][r]] \in [Node -> Int]
    BY SnapshotParts DEF Reps, NextsMerged
  <1>5. JoinHeap(h, l, r) \in Snapshot
    BY <1>1, <1>3, <1>4 DEF Snapshot, JoinHeap
  <1>6. \A n \in Node \ {r} : [h[4] EXCEPT ![r] = h[3][l]][n] = h[4][n]
    BY SnapshotParts DEF NextsMerged
  <1>7. QED
    BY <1>5, <1>6 DEF JoinHeap, Guards, Reps, NextsMerged, Reds, Sinks

\* Setting one guard gives a heap in which only that guard differs.
LEMMA GuardedHeap ==
    ASSUME NEW h \in Snapshot, NEW l \in Node, NEW a \in Symbol,
           NEW t \in Node \cup {None}
    PROVE  /\ GuardHeap(h, l, a, t) \in Snapshot
           /\ Guards(GuardHeap(h, l, a, t)) = [Guards(h) EXCEPT ![l][a] = t]
           /\ Reps(GuardHeap(h, l, a, t)) = Reps(h)
           /\ NextsMerged(GuardHeap(h, l, a, t)) = NextsMerged(h)
           /\ Reds(GuardHeap(h, l, a, t)) = Reds(h)
           /\ Sinks(GuardHeap(h, l, a, t)) = Sinks(h)
  <1>1. [h[1] EXCEPT ![l][a] = t] \in [Node -> [Symbol -> Node \cup {None}]]
    BY SnapshotParts DEF Guards
  <1>2. QED
    BY <1>1 DEF Snapshot, GuardHeap, Guards, Reps, NextsMerged, Reds, Sinks

\* undo_merge_with, and the undo of the data, take back what merge_with did.
LEMMA SeparateJoined ==
    ASSUME NEW h \in Snapshot, NEW l \in Node, NEW r \in Node, l # r,
           Reps(h)[r] = None, NextsMerged(h)[r] = None
    PROVE  SeparateHeap(JoinHeap(h, l, r), l, r) = h
  <1> DEFINE g == JoinHeap(h, l, r)
  <1>1. /\ g[1] = h[1] /\ g[8] = h[8] /\ g[9] = h[9]
        /\ g[2] = [h[2] EXCEPT ![r] = l] /\ g[3] = [h[3] EXCEPT ![l] = r]
        /\ g[4] = [h[4] EXCEPT ![r] = h[3][l]]
        /\ g[5] = [h[5] EXCEPT ![l] = h[5][l] + h[5][r]]
        /\ g[6] = [h[6] EXCEPT ![l] = h[6][l] + h[6][r]]
        /\ g[7] = IF MERGE_DATA
                  THEN [h[7] EXCEPT ![l] = [t \in Type |-> h[7][l][t] + h[7][r][t]]]
                  ELSE h[7]
    BY DEF JoinHeap
  <1> HIDE DEF g
  <1>2. [g[2] EXCEPT ![r] = None] = h[2]
    BY <1>1, SnapshotParts DEF Reps
  <1>3. [g[3] EXCEPT ![l] = g[4][r]] = h[3]
    BY <1>1, SnapshotParts DEF NextsMerged
  <1>4. [g[4] EXCEPT ![r] = None] = h[4]
    BY <1>1, SnapshotParts DEF NextsMerged
  <1>5. [g[5] EXCEPT ![l] = g[5][l] - g[5][r]] = h[5]
    BY <1>1, SnapshotParts
  <1>6. [g[6] EXCEPT ![l] = g[6][l] - g[6][r]] = h[6]
    BY <1>1, SnapshotParts
  <1>7. MERGE_DATA => [g[7] EXCEPT ![l] = [t \in Type |-> g[7][l][t] - g[7][r][t]]] = h[7]
    <2> SUFFICES ASSUME MERGE_DATA
                 PROVE  [g[7] EXCEPT ![l] = [t \in Type |-> g[7][l][t] - g[7][r][t]]] = h[7]
      OBVIOUS
    <2>1. h[7] \in [Node -> [Type -> Int]]
      BY SnapshotParts
    <2>2. \A t \in Type : g[7][l][t] = h[7][l][t] + h[7][r][t] /\ g[7][r][t] = h[7][r][t]
      BY <1>1, <2>1
    <2>3. \A t \in Type : h[7][l][t] \in Int /\ h[7][r][t] \in Int
      BY <2>1
    <2>4. [t \in Type |-> g[7][l][t] - g[7][r][t]] = h[7][l]
      <3>1. [t \in Type |-> g[7][l][t] - g[7][r][t]] = [t \in Type |-> h[7][l][t]]
        BY <2>2, <2>3
      <3>2. QED
        BY <2>1, <3>1
    <2>5. QED
      BY <1>1, <2>1, <2>4
  <1>8. SeparateHeap(g, l, r) = <<h[1], h[2], h[3], h[4], h[5], h[6], h[7], h[8], h[9]>>
    BY <1>1, <1>2, <1>3, <1>4, <1>5, <1>6, <1>7 DEF SeparateHeap
  <1>9. QED
    BY <1>8, SnapshotParts DEF g

\* Taking an adopted child away again.
LEMMA UnguardGuarded ==
    ASSUME NEW h \in Snapshot, NEW l \in Node, NEW a \in Symbol, NEW t,
           Guards(h)[l][a] = None
    PROVE  GuardHeap(GuardHeap(h, l, a, t), l, a, None) = h
  <1>1. [[h[1] EXCEPT ![l][a] = t] EXCEPT ![l][a] = None] = h[1]
    <2>1. h[1] \in [Node -> [Symbol -> Node \cup {None}]]
      BY SnapshotParts DEF Guards
    <2>2. QED
      BY <2>1 DEF Guards
  <1>2. QED
    BY <1>1, SnapshotParts DEF GuardHeap

-----------------------------------------------------------------------------
(* Subtrees.                                                               *)

\* The subtree of r holds r and what its nodes lead to, nothing else, and every
\* node of it but r has a parent in it.
LEMMA SubtreeLeast ==
    ASSUME NEW g, NEW r \in Node, ClosedUnder(g, Node)
    PROVE  /\ r \in Subtree(g, r) /\ Subtree(g, r) \subseteq Node
           /\ ClosedUnder(g, Subtree(g, r))
           /\ \A S \in SUBSET Node : r \in S /\ ClosedUnder(g, S) => Subtree(g, r) \subseteq S
           /\ \A x \in Subtree(g, r) \ {r} :
                 \E y \in Subtree(g, r), a \in Symbol : g[y][a] = x
  <1>1. r \in Subtree(g, r) /\ Subtree(g, r) \subseteq Node
    BY DEF Subtree
  <1>2. ClosedUnder(g, Subtree(g, r))
    <2> SUFFICES ASSUME NEW x \in Subtree(g, r), NEW a \in Symbol, g[x][a] # None
                 PROVE  g[x][a] \in Subtree(g, r)
      BY DEF ClosedUnder
    <2>1. g[x][a] \in Node
      BY <1>1 DEF ClosedUnder
    <2>2. ASSUME NEW S \in SUBSET Node, r \in S, ClosedUnder(g, S)
          PROVE  g[x][a] \in S
      <3>1. x \in S
        BY <2>2 DEF Subtree
      <3>2. QED
        BY <2>2, <3>1 DEF ClosedUnder
    <2>3. QED
      BY <2>1, <2>2 DEF Subtree
  <1>3. \A S \in SUBSET Node : r \in S /\ ClosedUnder(g, S) => Subtree(g, r) \subseteq S
    BY DEF Subtree
  <1>4. ASSUME NEW x \in Subtree(g, r) \ {r}
        PROVE  \E y \in Subtree(g, r), a \in Symbol : g[y][a] = x
    <2> SUFFICES ASSUME \A y \in Subtree(g, r), a \in Symbol : g[y][a] # x
                 PROVE  FALSE
      OBVIOUS
    <2>1. ClosedUnder(g, Subtree(g, r) \ {x})
      BY <1>2 DEF ClosedUnder
    <2>2. QED
      BY <1>1, <1>3, <2>1
  <1>5. QED
    BY <1>1, <1>2, <1>3, <1>4

\* What is above a larger symbol is above a smaller one.
LEMMA AboveShrinks ==
    ASSUME NEW a \in Symbol, NEW b \in Symbol, a < b
    PROVE  Above(b) \subseteq Above(a)
  <1>1. Symbol \subseteq Nat
    BY AptaAssumption
  <1>2. ASSUME NEW x \in Symbol, b < x PROVE a < x
    BY <1>1, <1>2
  <1>3. QED
    BY <1>2 DEF Above

-----------------------------------------------------------------------------
(* Where a run starts.                                                     *)

\* Where a run starts find() is total and leads to states.
LEMMA StartTyped ==
    ASSUME NEW u, BlockIsTree(u)
    PROVE  /\ u \in Run /\ u.start \in Snapshot /\ u.left \in Node /\ u.right \in Node
           /\ u.stops \in BOOLEAN
           /\ Guards(u.start) \in [Node -> [Symbol -> Node \cup {None}]]
           /\ Reps(u.start) \in [Node -> Node \cup {None}]
           /\ Finds(u.start) \in [Node -> Node]
           /\ \A n \in Node :
                 /\ Finds(u.start)[n] = IF Reps(u.start)[n] = None THEN n
                                        ELSE Finds(u.start)[Reps(u.start)[n]]
                 /\ Reps(u.start)[Finds(u.start)[n]] = None
  <1>1. u \in Run
    BY DEF BlockIsTree
  <1>2. u.start \in Snapshot /\ u.left \in Node /\ u.right \in Node /\ u.stops \in BOOLEAN
    BY <1>1 DEF Run
  <1>3. WellFounded(Reps(u.start)) /\ Reps(u.start) \in [Node -> Node \cup {None}]
    BY <1>2, SnapshotParts DEF BlockIsTree
  <1>4. QED
    BY <1>1, <1>2, <1>3, SnapshotParts, FindEquation DEF Finds

\* What the nodes of a block lead to is in the block, each child below its one
\* parent, and none of them is merged when the run starts.
LEMMA BlockFacts ==
    ASSUME NEW u, BlockIsTree(u)
    PROVE  /\ u.right \in Block(u) /\ Block(u) \subseteq Node
           /\ \A x \in Block(u), a \in Symbol : Guards(u.start)[x][a] # None =>
                 /\ Guards(u.start)[x][a] \in Block(u) \ {u.right}
                 /\ tree.symbol[Guards(u.start)[x][a]] = a
                 /\ Parent(u.start, Guards(u.start)[x][a]) = x
           /\ \A x \in Block(u) : Reps(u.start)[x] = None
           /\ \A S \in SUBSET Node :
                 u.right \in S /\ ClosedUnder(Guards(u.start), S) => Block(u) \subseteq S
  <1>1. ClosedUnder(Guards(u.start), Node) /\ u.right \in Node
    BY StartTyped DEF ClosedUnder
  <1>2. /\ u.right \in Block(u) /\ Block(u) \subseteq Node
        /\ ClosedUnder(Guards(u.start), Block(u))
        /\ \A S \in SUBSET Node :
              u.right \in S /\ ClosedUnder(Guards(u.start), S) => Block(u) \subseteq S
    BY <1>1, SubtreeLeast DEF Block
  <1>3. \A x \in Block(u) : Reps(u.start)[x] = None
    BY DEF BlockIsTree
  <1>4. ASSUME NEW x \in Block(u), NEW a \in Symbol, Guards(u.start)[x][a] # None
        PROVE  /\ Guards(u.start)[x][a] \in Block(u) \ {u.right}
               /\ tree.symbol[Guards(u.start)[x][a]] = a
               /\ Parent(u.start, Guards(u.start)[x][a]) = x
    <2> DEFINE t == Guards(u.start)[x][a]
    <2>1. t \in Block(u)
      BY <1>2, <1>4 DEF ClosedUnder
    <2>2. tree.symbol[t] = a /\ Parent(u.start, t) = x
      BY <1>2, <1>3, <1>4 DEF BlockIsTree
    <2>3. t # u.right
      BY <2>1, <2>2 DEF BlockIsTree
    <2>4. QED
      BY <2>1, <2>2, <2>3
  <1>5. QED
    BY <1>2, <1>3, <1>4

\* The block is closed upwards too, up to the right state.
LEMMA BlockParents ==
    ASSUME NEW u, BlockIsTree(u), NEW x \in Block(u)
    PROVE  /\ x \in tree.nodes \ {Root} /\ Parent(u.start, x) \in Node
           /\ tree.symbol[x] \in Symbol
           /\ Guards(u.start)[Parent(u.start, x)][tree.symbol[x]] = x
           /\ x = u.right <=> Parent(u.start, x) \notin Block(u)
  <1>1. IsPrefixTree(tree)
    BY TreesAssumption DEF BlockIsTree
  <1>2. x \in tree.nodes \ {Root} /\ x \in Node
    BY <1>1 DEF BlockIsTree, IsPrefixTree
  <1>3. tree.symbol[x] \in Symbol
    BY <1>1, <1>2 DEF IsPrefixTree
  <1>4. QED
    BY <1>2, <1>3 DEF BlockIsTree

-----------------------------------------------------------------------------
(* A sound configuration.                                                  *)

\* A configuration's heap and calls have their types.
LEMMA ConfigurationTyped ==
    ASSUME NEW c \in Configuration
    PROVE  /\ c.heap \in Snapshot /\ c.depth \in Nat /\ c.left \in [Nat -> Node]
           /\ c.right \in [Nat -> Node] /\ c.todo \in [Nat -> SUBSET Symbol]
           /\ c.fresh \subseteq Node
           /\ Guards(c.heap) \in [Node -> [Symbol -> Node \cup {None}]]
           /\ Reps(c.heap) \in [Node -> Node \cup {None}]
           /\ NextsMerged(c.heap) \in [Node -> Node \cup {None}]
  <1>1. /\ c.heap \in Snapshot /\ c.depth \in Nat /\ c.left \in [Nat -> Node]
        /\ c.right \in [Nat -> Node] /\ c.todo \in [Nat -> SUBSET Symbol]
        /\ c.fresh \subseteq Node
    BY DEF Configuration
  <1>2. QED
    BY <1>1, SnapshotParts

\* Found is find() of the heap the run has come to.
LEMMA FoundEquation ==
    ASSUME NEW u, BlockIsTree(u), NEW c \in Configuration, RepsOK(u, c), NEW n \in Node
    PROVE  /\ Found(u, c.heap, n) \in Node
           /\ Reps(c.heap)[Found(u, c.heap, n)] = None
           /\ Reps(c.heap)[n] = None => Found(u, c.heap, n) = n
           /\ Reps(c.heap)[n] # None =>
                 Found(u, c.heap, n) = Found(u, c.heap, Reps(c.heap)[n])
  <1> DEFINE f == Finds(u.start)
             r0 == Reps(u.start)
             r == Reps(c.heap)
  <1>1. /\ f \in [Node -> Node] /\ r0 \in [Node -> Node \cup {None}]
        /\ \A m \in Node : f[m] = (IF r0[m] = None THEN m ELSE f[r0[m]]) /\ r0[f[m]] = None
    BY StartTyped
  <1>2. r \in [Node -> Node \cup {None}]
    BY ConfigurationTyped
  <1>3. \A x \in Node : x \notin Block(u) => r[x] = r0[x]
    BY DEF RepsOK
  <1>4. \A x \in Block(u) : r0[x] = None /\ (r[x] # None => r[x] \in Node /\ r[r[x]] = None)
    BY BlockFacts DEF RepsOK
  <1>5. \A m \in Node : Found(u, c.heap, m) = IF r[f[m]] = None THEN f[m] ELSE r[f[m]]
    BY DEF Found
  <1> HIDE DEF f, r0, r
  <1>6. /\ Found(u, c.heap, n) \in Node /\ r[Found(u, c.heap, n)] = None
    BY <1>1, <1>2, <1>3, <1>4, <1>5
  <1>7. r[n] = None => Found(u, c.heap, n) = n
    BY <1>1, <1>2, <1>3, <1>4, <1>5
  <1>8. ASSUME r[n] # None PROVE Found(u, c.heap, n) = Found(u, c.heap, r[n])
    <2>1. CASE r0[n] = None
      <3>1. n \in Block(u) /\ f[n] = n /\ r[n] \in Node /\ r[r[n]] = None
        BY <1>1, <1>3, <1>4, <1>8, <2>1
      <3>2. r0[r[n]] = None
        BY <1>3, <1>4, <3>1
      <3>3. f[r[n]] = r[n]
        BY <1>1, <3>1, <3>2
      <3>4. QED
        BY <1>5, <1>8, <3>1, <3>3
    <2>2. CASE r0[n] # None
      <3>1. r[n] = r0[n] /\ r[n] \in Node
        BY <1>1, <1>3, <1>4, <2>2, AptaAssumption
      <3>2. QED
        BY <1>1, <1>5, <2>2, <3>1
    <2>3. QED
      BY <2>1, <2>2
  <1>9. QED
    BY <1>6, <1>7, <1>8 DEF r

\* Merging r into l changes find() for the nodes of r alone.
LEMMA FoundAfterJoin ==
    ASSUME NEW u, BlockIsTree(u), NEW c \in Configuration, RepsOK(u, c),
           NEW l \in Node, NEW r \in c.fresh, Reps(c.heap)[r] = None, c.fresh \subseteq Block(u),
           NEW n \in Node
    PROVE  Found(u, JoinHeap(c.heap, l, r), n)
              = IF Found(u, c.heap, n) = r THEN l ELSE Found(u, c.heap, n)
  <1> DEFINE m == Finds(u.start)[n]
  <1>1. m \in Node /\ Reps(u.start)[m] = None
    BY StartTyped
  <1>2. r \in Node /\ c.heap \in Snapshot /\ Reps(c.heap) \in [Node -> Node \cup {None}]
    BY ConfigurationTyped
  <1>3. Reps(JoinHeap(c.heap, l, r)) = [Reps(c.heap) EXCEPT ![r] = l]
    BY <1>2, JoinedHeap
  <1>4. Reps(c.heap)[m] # None => m \in Block(u) /\ Reps(c.heap)[m] # r
    BY <1>1 DEF RepsOK
  <1>5. /\ Found(u, c.heap, n) = IF Reps(c.heap)[m] = None THEN m ELSE Reps(c.heap)[m]
        /\ Found(u, JoinHeap(c.heap, l, r), n)
              = IF [Reps(c.heap) EXCEPT ![r] = l][m] = None THEN m
                ELSE [Reps(c.heap) EXCEPT ![r] = l][m]
    BY <1>3 DEF Found
  <1> HIDE DEF m
  <1>6. QED
    BY <1>1, <1>2, <1>4, <1>5, AptaAssumption

\* The state a guard leads to is never one the run still has to come to.
LEMMA TargetNotFresh ==
    ASSUME NEW u, BlockIsTree(u), NEW c, Sound(u, c), Reps(c.heap)[u.right] # None,
           NEW x \in Node \ c.fresh, Reps(c.heap)[x] = None,
           NEW a \in Symbol, Guards(c.heap)[x][a] # None
    PROVE  /\ Guards(c.heap)[x][a] \in Node \ c.fresh
           /\ Found(u, c.heap, Guards(c.heap)[x][a]) \in Node \ c.fresh
           /\ Reps(c.heap)[Found(u, c.heap, Guards(c.heap)[x][a])] = None
  <1> DEFINE t == Guards(c.heap)[x][a]
             y == Found(u, c.heap, t)
  <1>0. c \in Configuration /\ FreshOK(u, c) /\ RepsOK(u, c) /\ GuardsOK(u, c)
    BY DEF Sound
  <1>1. t \in Node /\ c.fresh \subseteq Block(u)
    BY <1>0, ConfigurationTyped DEF FreshOK
  <1>2. y \in Node /\ Reps(c.heap)[y] = None /\ (Reps(c.heap)[t] = None => y = t)
    BY <1>0, <1>1, FoundEquation
  <1>3. CASE Adopted(u, c, x, a)
    BY <1>1, <1>2, <1>3 DEF Adopted
  <1>4. CASE t = Guards(u.start)[x][a]
    <2>1. Reps(u.start)[x] = None
      BY <1>0, BlockFacts DEF RepsOK
    <2>2. /\ tree.symbol[t] = a /\ Parent(u.start, t) = x
          /\ Reps(u.start)[t] = None \/ Finds(u.start)[t] \notin Block(u)
      BY <1>4, <2>1 DEF BlockIsTree
    <2>3. t \notin c.fresh
      BY <1>0, <2>2 DEF FreshOK
    <2>4. CASE Reps(u.start)[t] = None
      <3>1. Finds(u.start)[t] = t
        BY <1>1, <2>4, StartTyped
      <3>2. CASE Reps(c.heap)[t] = None
        BY <1>1, <1>2, <2>3, <3>2
      <3>3. CASE Reps(c.heap)[t] # None
        <4>1. y = Reps(c.heap)[t] /\ t \in Block(u)
          BY <1>0, <1>1, <2>4, <3>1, <3>3 DEF Found, RepsOK
        <4>2. QED
          BY <1>0, <1>1, <1>2, <2>3, <3>3, <4>1 DEF RepsOK
      <3>4. QED
        BY <3>2, <3>3
    <2>5. CASE Finds(u.start)[t] \notin Block(u)
      <3>1. Finds(u.start)[t] \in Node /\ Reps(u.start)[Finds(u.start)[t]] = None
        BY <1>1, StartTyped
      <3>2. Reps(c.heap)[Finds(u.start)[t]] = None
        BY <1>0, <2>5, <3>1 DEF RepsOK
      <3>3. y = Finds(u.start)[t]
        BY <3>2 DEF Found
      <3>4. QED
        BY <1>1, <1>2, <2>3, <2>5, <3>3
    <2>6. QED
      BY <2>2, <2>4, <2>5
  <1>5. QED
    BY <1>0, <1>3, <1>4 DEF GuardsOK

\* What the innermost call finds on a symbol it still has to process.
LEMMA DueChild ==
    ASSUME NEW u, BlockIsTree(u), NEW c, Sound(u, c), c.depth > 0,
           NEW a \in c.todo[c.depth], Guards(c.heap)[c.right[c.depth]][a] # None
    PROVE  LET l == c.left[c.depth]
               r == c.right[c.depth]
               t == Guards(c.heap)[r][a]
           IN /\ a \in Symbol /\ c.depth \in 1 .. c.depth
              /\ l \in Node \ c.fresh /\ Reps(c.heap)[l] = None
              /\ r \in Block(u) \ c.fresh /\ Reps(c.heap)[r] = l
              /\ Guards(c.heap)[r] = Guards(u.start)[r]
              /\ t = Guards(u.start)[r][a] /\ t \in c.fresh /\ t \in Block(u) \ {u.right}
              /\ Reps(c.heap)[t] = None
              /\ Parent(u.start, t) = r /\ tree.symbol[t] = a
              /\ Reps(c.heap)[u.right] # None
  <1> DEFINE l == c.left[c.depth]
             r == c.right[c.depth]
             t == Guards(c.heap)[r][a]
  <1>1. c \in Configuration /\ FreshOK(u, c) /\ GuardsOK(u, c) /\ FramesOK(u, c)
    BY DEF Sound
  <1>2. c.depth \in 1 .. c.depth /\ a \in Symbol /\ l \in Node /\ r \in Node
    BY <1>1, ConfigurationTyped
  <1>3. /\ l \notin c.fresh /\ Reps(c.heap)[l] = None
        /\ r \in Block(u) /\ Reps(c.heap)[r] = l
        /\ Guards(u.start)[r][a] # None => Guards(u.start)[r][a] \in c.fresh
    BY <1>1, <1>2 DEF FramesOK, FrameOK
  <1>4. Reps(c.heap)[r] # None
    BY <1>2, <1>3, AptaAssumption
  <1>5. r \notin c.fresh
    BY <1>1, <1>4 DEF FreshOK
  <1>6. Guards(c.heap)[r] = Guards(u.start)[r]
    BY <1>1, <1>3, <1>4 DEF GuardsOK
  <1>7. t \in c.fresh /\ Reps(c.heap)[t] = None
    BY <1>1, <1>3, <1>6 DEF FreshOK
  <1>8. /\ t \in Block(u) \ {u.right} /\ Parent(u.start, t) = r /\ tree.symbol[t] = a
    BY <1>2, <1>3, <1>6, BlockFacts
  <1>9. Reps(c.heap)[u.right] # None
    BY <1>1, <1>2, ConfigurationTyped DEF FreshOK
  <1>10. QED
    BY <1>2, <1>3, <1>5, <1>6, <1>7, <1>8, <1>9

-----------------------------------------------------------------------------
(* Joining two nodes.                                                      *)

\* A node the run has not come to goes into a state outside; the state holds
\* what the node's parent leads to on its symbol.
Joins(u, c, d, l, r) ==
    /\ l \in Node \ c.fresh /\ Reps(c.heap)[l] = None /\ r \in c.fresh
    /\ IF r = u.right THEN l = u.left ELSE Reps(c.heap)[u.right] # None
    /\ \A x \in Block(u), a \in Symbol : Guards(u.start)[x][a] = r =>
          /\ x \notin c.fresh /\ Reps(c.heap)[x] # None
          /\ Guards(c.heap)[Reps(c.heap)[x]][a] # None
          /\ Found(u, c.heap, Guards(c.heap)[Reps(c.heap)[x]][a]) = l
    /\ d \in Configuration
    /\ d.heap = JoinHeap(c.heap, l, r) /\ d.fresh = c.fresh \ {r}

\* What a join changes: the representative of r, and what find() leads to r.
LEMMA JoinFacts ==
    ASSUME NEW u, BlockIsTree(u), NEW c, Sound(u, c), NEW d, NEW l, NEW r,
           Joins(u, c, d, l, r)
    PROVE  /\ c \in Configuration /\ l \in Node /\ r \in Node /\ l # r
           /\ r \in Block(u) /\ Reps(c.heap)[r] = None
           /\ Guards(d.heap) = Guards(c.heap)
           /\ Reps(d.heap)[r] = l
           /\ \A x \in Node \ {r} : Reps(d.heap)[x] = Reps(c.heap)[x]
           /\ \A x \in Node \ {r} : NextsMerged(d.heap)[x] = NextsMerged(c.heap)[x]
           /\ Reds(d.heap) = Reds(c.heap) /\ Sinks(d.heap) = Sinks(c.heap)
           /\ \A n \in Node : Found(u, d.heap, n)
                 = IF Found(u, c.heap, n) = r THEN l ELSE Found(u, c.heap, n)
  <1>1. /\ c \in Configuration /\ FreshOK(u, c) /\ RepsOK(u, c)
        /\ l \in Node \ c.fresh /\ r \in c.fresh /\ d.heap = JoinHeap(c.heap, l, r)
    BY DEF Sound, Joins
  <1>2. /\ c.heap \in Snapshot /\ Reps(c.heap) \in [Node -> Node \cup {None}]
        /\ c.fresh \subseteq Node
    BY <1>1, ConfigurationTyped
  <1>3. r \in Node /\ r \in Block(u) /\ l # r /\ Reps(c.heap)[r] = None /\ c.fresh \subseteq Block(u)
    BY <1>1, <1>2 DEF FreshOK
  <1>4. /\ Guards(d.heap) = Guards(c.heap)
        /\ Reps(d.heap) = [Reps(c.heap) EXCEPT ![r] = l]
        /\ \A x \in Node \ {r} : NextsMerged(d.heap)[x] = NextsMerged(c.heap)[x]
        /\ Reds(d.heap) = Reds(c.heap) /\ Sinks(d.heap) = Sinks(c.heap)
    <2>1. c.heap \in Snapshot /\ l \in Node /\ r \in Node
      BY <1>1, <1>2, <1>3
    <2>2. d.heap = JoinHeap(c.heap, l, r)
      BY <1>1
    <2>3. /\ Guards(JoinHeap(c.heap, l, r)) = Guards(c.heap)
          /\ Reps(JoinHeap(c.heap, l, r)) = [Reps(c.heap) EXCEPT ![r] = l]
          /\ Reds(JoinHeap(c.heap, l, r)) = Reds(c.heap)
          /\ Sinks(JoinHeap(c.heap, l, r)) = Sinks(c.heap)
      BY ONLY <2>1, JoinedHeap
    <2>4. \A x \in Node \ {r} :
             NextsMerged(JoinHeap(c.heap, l, r))[x] = NextsMerged(c.heap)[x]
      BY ONLY <2>1, JoinedHeap
    <2>5. QED
      BY ONLY <2>2, <2>3, <2>4
  <1>5. \A n \in Node : Found(u, d.heap, n)
           = IF Found(u, c.heap, n) = r THEN l ELSE Found(u, c.heap, n)
    BY <1>1, <1>3, FoundAfterJoin
  <1>6. QED
    BY <1>1, <1>2, <1>3, <1>4, <1>5

\* A join keeps FreshOK: below the node it takes nothing is touched.
LEMMA JoinFresh ==
    ASSUME NEW u, BlockIsTree(u), NEW c, Sound(u, c), NEW d, NEW l, NEW r,
           Joins(u, c, d, l, r)
    PROVE  FreshOK(u, d)
  <1>1. FreshOK(u, c) /\ RepsOK(u, c) /\ d.fresh = c.fresh \ {r} /\ r \in c.fresh
    BY DEF Sound, Joins
  <1>2. /\ l \in Node /\ r \in Node /\ r \in Block(u)
        /\ Reps(d.heap)[r] = l
        /\ \A x \in Node \ {r} : Reps(d.heap)[x] = Reps(c.heap)[x]
    BY JoinFacts
  <1>3. Block(u) \subseteq Node /\ u.right \in Block(u)
    BY BlockFacts
  <1>4. Reps(d.heap)[u.right] = u.left /\ u.left # None
    <2>1. CASE r = u.right
      BY <1>2, <2>1, StartTyped, AptaAssumption DEF Joins
    <2>2. CASE r # u.right
      BY <1>1, <1>2, <1>3, <2>2, StartTyped, AptaAssumption DEF Joins, FreshOK
    <2>3. QED
      BY <2>1, <2>2
  <1>5. u.right \notin d.fresh
    BY <1>1 DEF Joins, FreshOK
  <1>6. ASSUME NEW x \in d.fresh
        PROVE  /\ Reps(d.heap)[x] = None
               /\ \/ x = u.right \/ Parent(u.start, x) \in d.fresh
                  \/ Reps(d.heap)[Parent(u.start, x)] # None
    <2>1. x \in c.fresh /\ x # r /\ x \in Node /\ x \in Block(u)
      BY <1>1, <1>3, <1>6 DEF FreshOK
    <2>2. Parent(u.start, x) \in Node
      BY <2>1, BlockParents
    <2>3. /\ Reps(c.heap)[x] = None
          /\ \/ x = u.right \/ Parent(u.start, x) \in c.fresh
             \/ Reps(c.heap)[Parent(u.start, x)] # None
      BY <1>1, <2>1 DEF FreshOK
    <2>4. QED
      BY <1>1, <1>2, <2>1, <2>2, <2>3, AptaAssumption
  <1>7. ClosedUnder(Guards(u.start), d.fresh)
    <2> SUFFICES ASSUME NEW x \in d.fresh, NEW a \in Symbol, Guards(u.start)[x][a] # None
                 PROVE  Guards(u.start)[x][a] \in d.fresh
      BY DEF ClosedUnder
    <2>1. x \in c.fresh /\ x \in Block(u)
      BY <1>1 DEF FreshOK
    <2>2. Guards(u.start)[x][a] \in c.fresh
      BY <1>1, <2>1 DEF FreshOK, ClosedUnder
    <2>3. Guards(u.start)[x][a] # r
      BY <2>1 DEF Joins
    <2>4. QED
      BY <1>1, <2>2, <2>3
  <1>8. d.fresh \subseteq Block(u)
    BY <1>1 DEF FreshOK
  <1>9. QED
    BY <1>4, <1>5, <1>6, <1>7, <1>8 DEF FreshOK

\* A join keeps RepsOK: it merges a node of the block into a state.
LEMMA JoinReps ==
    ASSUME NEW u, BlockIsTree(u), NEW c, Sound(u, c), NEW d, NEW l, NEW r,
           Joins(u, c, d, l, r)
    PROVE  RepsOK(u, d)
  <1>1. FreshOK(u, c) /\ RepsOK(u, c) /\ d.fresh = c.fresh \ {r} /\ r \in c.fresh
        /\ l \in Node \ c.fresh /\ Reps(c.heap)[l] = None
    BY DEF Sound, Joins
  <1>2. /\ l \in Node /\ r \in Node /\ r \in Block(u) /\ l # r
        /\ Reps(d.heap)[r] = l
        /\ \A x \in Node \ {r} : Reps(d.heap)[x] = Reps(c.heap)[x]
        /\ \A x \in Node \ {r} : NextsMerged(d.heap)[x] = NextsMerged(c.heap)[x]
    BY JoinFacts
  <1>3. \A x \in Node \ Block(u) : Reps(d.heap)[x] = Reps(u.start)[x]
    BY <1>1, <1>2 DEF RepsOK
  <1>4. ASSUME NEW x \in Block(u), Reps(d.heap)[x] # None
        PROVE  Reps(d.heap)[x] \in Node \ d.fresh /\ Reps(d.heap)[Reps(d.heap)[x]] = None
    <2>1. CASE x = r
      BY <1>1, <1>2, <2>1
    <2>2. CASE x # r
      <3>1. x \in Node /\ Reps(d.heap)[x] = Reps(c.heap)[x]
        BY <1>2, <2>2, BlockFacts
      <3>2. Reps(c.heap)[x] \in Node \ c.fresh /\ Reps(c.heap)[Reps(c.heap)[x]] = None
        BY <1>1, <1>4, <3>1 DEF RepsOK
      <3>3. QED
        BY <1>1, <1>2, <3>1, <3>2
    <2>3. QED
      BY <2>1, <2>2
  <1>5. \A x \in Node : Reps(d.heap)[x] = None => NextsMerged(d.heap)[x] = None
    BY <1>1, <1>2, AptaAssumption DEF RepsOK
  <1>6. QED
    BY <1>3, <1>4, <1>5 DEF RepsOK

\* A join keeps GuardsOK: it sets no guard, and what was adopted stays adopted.
LEMMA JoinGuards ==
    ASSUME NEW u, BlockIsTree(u), NEW c, Sound(u, c), NEW d, NEW l, NEW r,
           Joins(u, c, d, l, r)
    PROVE  GuardsOK(u, d)
  <1>1. FreshOK(u, c) /\ GuardsOK(u, c) /\ d.fresh = c.fresh \ {r} /\ r \in c.fresh
    BY DEF Sound, Joins
  <1>2. /\ l \in Node /\ r \in Node /\ l # r /\ Guards(d.heap) = Guards(c.heap)
        /\ Reps(d.heap)[r] = l
        /\ \A x \in Node \ {r} : Reps(d.heap)[x] = Reps(c.heap)[x]
        /\ \A n \in Node : Found(u, d.heap, n)
              = IF Found(u, c.heap, n) = r THEN l ELSE Found(u, c.heap, n)
    BY JoinFacts
  <1>3. Block(u) \subseteq Node
    BY BlockFacts
  <1>4. ASSUME NEW x \in Block(u), x \in d.fresh \/ Reps(d.heap)[x] # None
        PROVE  Guards(d.heap)[x] = Guards(u.start)[x]
    <2>1. x \in c.fresh \/ Reps(c.heap)[x] # None
      BY <1>1, <1>2, <1>3, <1>4
    <2>2. QED
      BY <1>1, <1>2, <2>1 DEF GuardsOK
  <1>5. ASSUME NEW x \in Node, NEW a \in Symbol, Adopted(u, c, x, a)
        PROVE  Adopted(u, d, x, a)
    <2> DEFINE t == Guards(c.heap)[x][a]
    <2>1. /\ Guards(u.start)[x][a] = None
          /\ x \notin c.fresh /\ Reps(c.heap)[x] = None
          /\ t \in Block(u) \ c.fresh /\ Reps(c.heap)[t] = None
          /\ tree.symbol[t] = a /\ Found(u, c.heap, tree.source[t]) = x
      BY <1>5 DEF Adopted
    <2>2. x # r /\ t # r /\ t \in Node
      BY <1>1, <1>3, <2>1
    <2>3. tree.source[t] \in Node
      <3>1. IsPrefixTree(tree)
        BY TreesAssumption DEF BlockIsTree
      <3>2. t \in tree.nodes \ {Root}
        BY <2>1, BlockParents
      <3>3. QED
        BY <2>2, <3>1, <3>2 DEF IsPrefixTree
    <2>4. Found(u, d.heap, tree.source[t]) = x
      BY <1>2, <2>1, <2>2, <2>3
    <2>5. QED
      BY <1>1, <1>2, <2>1, <2>2, <2>4 DEF Adopted
  <1>6. \A x \in Node, a \in Symbol :
           Guards(d.heap)[x][a] = Guards(u.start)[x][a] \/ Adopted(u, d, x, a)
    BY <1>1, <1>2, <1>5 DEF GuardsOK
  <1>7. QED
    BY <1>4, <1>6 DEF GuardsOK

\* A join keeps FoldedOK: the children of the node it takes are untouched yet.
LEMMA JoinFolded ==
    ASSUME NEW u, BlockIsTree(u), NEW c, Sound(u, c), NEW d, NEW l, NEW r,
           Joins(u, c, d, l, r)
    PROVE  FoldedOK(u, d)
  <1>1. /\ c \in Configuration /\ FreshOK(u, c) /\ FoldedOK(u, c) /\ RepsOK(u, c)
        /\ d.fresh = c.fresh \ {r} /\ r \in c.fresh
    BY DEF Sound, Joins
  <1>2. /\ l \in Node /\ r \in Node /\ l # r /\ Guards(d.heap) = Guards(c.heap)
        /\ Reps(d.heap)[r] = l
        /\ \A x \in Node \ {r} : Reps(d.heap)[x] = Reps(c.heap)[x]
        /\ \A n \in Node : Found(u, d.heap, n)
              = IF Found(u, c.heap, n) = r THEN l ELSE Found(u, c.heap, n)
    BY JoinFacts
  <1>3. SUFFICES ASSUME NEW x \in Block(u), NEW a \in Symbol,
                        Reps(d.heap)[x] # None, Guards(u.start)[x][a] # None
                 PROVE  LET t == Guards(u.start)[x][a]
                            e == Guards(d.heap)[Reps(d.heap)[x]][a]
                        IN \/ t \in d.fresh
                           \/ e = t
                           \/ Reps(d.heap)[t] # None /\ e # None
                              /\ Found(u, d.heap, e) = Reps(d.heap)[t]
    BY DEF FoldedOK
  <1> DEFINE t == Guards(u.start)[x][a]
             e == Guards(c.heap)[Reps(c.heap)[x]][a]
  <1>4. x \in Node /\ t \in Block(u) /\ t \in Node
    BY <1>3, BlockFacts
  <1>5. CASE x = r
    <2>1. t \in c.fresh
      BY <1>1, <1>3, <1>5 DEF FreshOK, ClosedUnder
    <2>2. t # r
      BY <1>1, <1>5 DEF Joins
    <2>3. QED
      BY <1>1, <2>1, <2>2
  <1>6. CASE x # r
    <2>1. Reps(d.heap)[x] = Reps(c.heap)[x] /\ Reps(c.heap)[x] # None
      BY <1>2, <1>3, <1>4, <1>6
    <2>2. Reps(c.heap)[x] \in Node
      BY <1>1, <1>3, <2>1 DEF RepsOK
    <2>3. Guards(c.heap) \in [Node -> [Symbol -> Node \cup {None}]]
      BY <1>1, ConfigurationTyped
    <2>4. CASE t = r
      <3>1. e # None /\ Found(u, c.heap, e) = l
        BY <1>3, <2>4 DEF Joins
      <3>2. e \in Node
        BY <1>3, <2>2, <2>3, <3>1
      <3>3. Found(u, d.heap, e) = l
        BY <1>2, <3>1, <3>2
      <3>4. QED
        BY <1>2, <2>1, <2>4, <3>1, <3>3, AptaAssumption
    <2>5. CASE t # r /\ t \in c.fresh
      BY <1>1, <2>5
    <2>6. CASE t \notin c.fresh /\ e = t
      BY <1>2, <2>1, <2>6
    <2>7. CASE Reps(c.heap)[t] # None /\ e # None /\ Found(u, c.heap, e) = Reps(c.heap)[t]
               /\ t # r
      <3>1. e \in Node
        BY <1>3, <2>2, <2>3, <2>7
      <3>2. Reps(c.heap)[t] # r /\ Reps(d.heap)[t] = Reps(c.heap)[t]
        BY <1>1, <1>2, <1>4, <2>7 DEF RepsOK
      <3>3. Found(u, d.heap, e) = Reps(d.heap)[t]
        BY <1>2, <2>7, <3>1, <3>2
      <3>4. QED
        BY <1>2, <2>1, <2>7, <3>2, <3>3
    <2>8. QED
      BY <1>1, <1>3, <2>1, <2>4, <2>5, <2>6, <2>7 DEF FoldedOK
  <1>7. QED
    BY <1>5, <1>6

\* The join of the two states of a run is a join.
LEMMA FirstJoinJoins ==
    ASSUME NEW u, BlockIsTree(u), NEW c, Sound(u, c), NEW d \in Configuration,
           FirstJoin(u, c, d)
    PROVE  Joins(u, c, d, u.left, u.right)
  <1>1. FreshOK(u, c) /\ Reps(c.heap)[u.right] = None
    BY DEF Sound, FirstJoin
  <1>2. c.heap = u.start /\ c.fresh = Block(u) /\ u.right \in c.fresh
    BY <1>1 DEF FreshOK
  <1>3. u.left \in Node \ c.fresh /\ Reps(c.heap)[u.left] = None
    BY <1>2, StartTyped DEF BlockIsTree
  <1>4. \A x \in Block(u), a \in Symbol : Guards(u.start)[x][a] # u.right
    BY BlockFacts, StartTyped, AptaAssumption
  <1>5. d.heap = JoinHeap(c.heap, u.left, u.right) /\ d.fresh = c.fresh \ {u.right}
    BY DEF FirstJoin
  <1>6. QED
    BY <1>2, <1>3, <1>4, <1>5 DEF Joins

\* The join of two children is a join of the state find() leads to.
LEMMA FoldedJoinJoins ==
    ASSUME NEW u, BlockIsTree(u), NEW c, Sound(u, c), NEW d \in Configuration,
           NEW a \in Symbol, FoldedJoin(u, c, d, a)
    PROVE  LET t == Guards(c.heap)[c.left[c.depth]][a]
               l == Found(u, c.heap, t)
               r == Guards(c.heap)[c.right[c.depth]][a]
           IN t \in Node \ c.fresh /\ Joins(u, c, d, l, r)
  <1> DEFINE m == c.right[c.depth]
             t == Guards(c.heap)[c.left[c.depth]][a]
             l == Found(u, c.heap, t)
             r == Guards(c.heap)[m][a]
  <1>1. /\ c.depth > 0 /\ a \in c.todo[c.depth] /\ r # None /\ t # None
        /\ d.heap = JoinHeap(c.heap, l, r) /\ d.fresh = c.fresh \ {r}
    BY DEF FoldedJoin, Due
  <1>2. /\ c.left[c.depth] \in Node \ c.fresh /\ Reps(c.heap)[c.left[c.depth]] = None
        /\ m \in Block(u) \ c.fresh /\ Reps(c.heap)[m] = c.left[c.depth]
        /\ r \in c.fresh /\ r \in Block(u) \ {u.right}
        /\ Parent(u.start, r) = m /\ tree.symbol[r] = a
        /\ Reps(c.heap)[u.right] # None
    <2>1. /\ BlockIsTree(u) /\ Sound(u, c) /\ c.depth > 0 /\ a \in c.todo[c.depth]
          /\ Guards(c.heap)[c.right[c.depth]][a] # None
      BY <1>1
    <2>2. QED
      BY ONLY <2>1, DueChild
  <1>3. /\ t \in Node \ c.fresh /\ l \in Node \ c.fresh /\ Reps(c.heap)[l] = None
    BY <1>1, <1>2, TargetNotFresh
  <1>4. ASSUME NEW x \in Block(u), NEW b \in Symbol, Guards(u.start)[x][b] = r
        PROVE  x = m /\ b = a
    BY <1>1, <1>2, <1>4, BlockFacts
  <1>5. Reps(c.heap)[m] # None
    BY <1>2, AptaAssumption
  <1>6. \A x \in Block(u), b \in Symbol : Guards(u.start)[x][b] = r =>
           /\ x \notin c.fresh /\ Reps(c.heap)[x] # None
           /\ Guards(c.heap)[Reps(c.heap)[x]][b] # None
           /\ Found(u, c.heap, Guards(c.heap)[Reps(c.heap)[x]][b]) = l
    BY <1>1, <1>2, <1>4, <1>5
  <1>7. QED
    BY <1>1, <1>2, <1>3, <1>6 DEF Joins

\* The first join of a run keeps its configuration sound.
LEMMA FirstJoinSound ==
    ASSUME NEW u, BlockIsTree(u), NEW c, Sound(u, c), NEW d \in Configuration,
           FirstJoin(u, c, d)
    PROVE  Sound(u, d)
  <1>1. Joins(u, c, d, u.left, u.right)
    BY FirstJoinJoins
  <1>2. FreshOK(u, d) /\ RepsOK(u, d) /\ GuardsOK(u, d) /\ FoldedOK(u, d)
    BY <1>1, JoinFresh, JoinReps, JoinGuards, JoinFolded
  <1>3. /\ u.left \in Node /\ u.right \in Block(u) /\ u.left # u.right
        /\ Reps(d.heap)[u.right] = u.left
        /\ \A x \in Node \ {u.right} : Reps(d.heap)[x] = Reps(c.heap)[x]
        /\ Reds(d.heap) = Reds(c.heap) /\ Sinks(d.heap) = Sinks(c.heap)
    BY <1>1, JoinFacts
  <1>4. /\ u.left \notin d.fresh /\ Reps(d.heap)[u.left] = None
    BY <1>1, <1>3 DEF Joins
  <1>5. c \in Configuration /\ FreshOK(u, c) /\ Reps(c.heap)[u.right] = None
    BY DEF Sound, FirstJoin
  <1>6. d.fresh = Block(u) \ {u.right}
    BY <1>5 DEF FirstJoin, FreshOK
  <1>7. d.depth = 1 /\ d.left[1] = u.left /\ d.right[1] = u.right /\ d.todo[1] = Symbol
    BY <1>5, ConfigurationTyped DEF FirstJoin
  <1>8. FrameOK(u, d, 1)
    <2>1. \A a \in Symbol : Guards(u.start)[u.right][a] # None =>
             Guards(u.start)[u.right][a] \in d.fresh
      BY <1>3, <1>6, BlockFacts
    <2>2. \A j \in 1 .. d.depth : d.right[1] = d.right[j] => 1 = j
      BY <1>7
    <2>3. \A a \in Symbol : Above(a) \subseteq Symbol
      BY DEF Above
    <2>4. QED
      BY <1>3, <1>4, <1>7, <2>1, <2>2, <2>3 DEF FrameOK
  <1>9. FramesOK(u, d) /\ LinksOK(u, d)
    BY <1>7, <1>8 DEF FramesOK, LinksOK
  <1>10. PendingOK(u, d)
    BY <1>6, <1>7 DEF PendingOK
  <1>11. Reds(d.heap) = Reds(u.start) /\ Sinks(d.heap) = Sinks(u.start)
    BY <1>3 DEF Sound
  <1>12. QED
    BY <1>2, <1>9, <1>10, <1>11 DEF Sound

\* Folding two children keeps the configuration sound.
LEMMA FoldedJoinSound ==
    ASSUME NEW u, BlockIsTree(u), NEW c, Sound(u, c), NEW d \in Configuration,
           NEW a \in Symbol, FoldedJoin(u, c, d, a)
    PROVE  Sound(u, d)
  <1> DEFINE n == c.depth
             t == Guards(c.heap)[c.left[n]][a]
             l == Found(u, c.heap, t)
             r == Guards(c.heap)[c.right[n]][a]
  <1>1. Joins(u, c, d, l, r) /\ t \in Node \ c.fresh
    BY FoldedJoinJoins
  <1>2. FreshOK(u, d) /\ RepsOK(u, d) /\ GuardsOK(u, d) /\ FoldedOK(u, d)
    BY <1>1, JoinFresh, JoinReps, JoinGuards, JoinFolded
  <1>3. /\ l \in Node /\ r \in Node /\ r \in Block(u) /\ l # r
        /\ Guards(d.heap) = Guards(c.heap)
        /\ Reps(d.heap)[r] = l
        /\ \A x \in Node \ {r} : Reps(d.heap)[x] = Reps(c.heap)[x]
        /\ Reds(d.heap) = Reds(c.heap) /\ Sinks(d.heap) = Sinks(c.heap)
        /\ \A m \in Node : Found(u, d.heap, m)
              = IF Found(u, c.heap, m) = r THEN l ELSE Found(u, c.heap, m)
    <2>1. BlockIsTree(u) /\ Sound(u, c)
      OBVIOUS
    <2> HIDE DEF l, r
    <2>2. QED
      BY ONLY <1>1, <2>1, JoinFacts
  <1>4. /\ c \in Configuration /\ FreshOK(u, c) /\ RepsOK(u, c) /\ GuardsOK(u, c)
        /\ FramesOK(u, c) /\ LinksOK(u, c) /\ PendingOK(u, c)
    BY DEF Sound
  <1>5. /\ n \in Nat /\ n \in 1 .. n /\ n > 0 /\ a \in c.todo[n] /\ r # None /\ t # None
        /\ d.depth = n + 1 /\ d.fresh = c.fresh \ {r}
        /\ d.left = [c.left EXCEPT ![n + 1] = l] /\ d.right = [c.right EXCEPT ![n + 1] = r]
        /\ d.todo = [c.todo EXCEPT ![n] = Above(a), ![n + 1] = Symbol]
    BY <1>4, ConfigurationTyped DEF FoldedJoin, Due
  <1>6. /\ \A i \in 1 .. n : d.left[i] = c.left[i] /\ d.right[i] = c.right[i]
        /\ d.left[n + 1] = l /\ d.right[n + 1] = r /\ d.todo[n + 1] = Symbol
        /\ d.todo[n] = Above(a)
        /\ \A i \in 1 .. n : i < n => d.todo[i] = c.todo[i]
        /\ \A i \in 1 .. n : c.left[i] \in Node /\ c.right[i] \in Node /\ c.todo[i] \subseteq Symbol
    <2>1. /\ c.left \in [Nat -> Node] /\ c.right \in [Nat -> Node]
          /\ c.todo \in [Nat -> SUBSET Symbol]
      BY <1>4, ConfigurationTyped
    <2> HIDE DEF n, l, r
    <2>2. /\ \A i \in 1 .. n : d.left[i] = c.left[i] /\ d.right[i] = c.right[i]
          /\ d.left[n + 1] = l /\ d.right[n + 1] = r
      BY <1>5, <2>1
    <2>3. /\ d.todo[n + 1] = Symbol /\ d.todo[n] = Above(a)
          /\ \A i \in 1 .. n : i < n => d.todo[i] = c.todo[i]
      BY <1>5, <2>1
    <2>4. QED
      BY <2>1, <2>2, <2>3
  <1>7. /\ c.right[n] \in Block(u) /\ r \in c.fresh /\ Parent(u.start, r) = c.right[n]
        /\ tree.symbol[r] = a /\ r = Guards(u.start)[c.right[n]][a]
        /\ Guards(c.heap)[c.right[n]] = Guards(u.start)[c.right[n]]
    <2>1. /\ BlockIsTree(u) /\ Sound(u, c) /\ c.depth > 0 /\ a \in c.todo[c.depth]
          /\ Guards(c.heap)[c.right[c.depth]][a] # None
      BY <1>5
    <2>2. QED
      BY ONLY <2>1, DueChild
  <1>8. \A i \in 1 .. n : FrameOK(u, c, i)
    BY <1>4 DEF FramesOK
  <1>9. \A i \in 1 .. n : c.left[i] # r /\ c.right[i] # r
    <2>1. Reps(c.heap)[r] = None
      BY <1>4, <1>7 DEF FreshOK
    <2> HIDE DEF n, r
    <2> TAKE i \in 1 .. n
    <2>2. c.left[i] \notin c.fresh /\ Reps(c.heap)[c.right[i]] = c.left[i] /\ c.left[i] \in Node
      BY <1>6, <1>8 DEF FrameOK
    <2>3. QED
      BY <1>7, <2>1, <2>2, AptaAssumption
  <1>10. \A x \in Block(u), b \in Symbol : Guards(u.start)[x][b] = r => x = c.right[n] /\ b = a
    <2> HIDE DEF n, r
    <2> SUFFICES ASSUME NEW x \in Block(u), NEW b \in Symbol, Guards(u.start)[x][b] = r
                 PROVE  x = c.right[n] /\ b = a
      OBVIOUS
    <2>1. Guards(u.start)[x][b] # None
      BY <1>5
    <2>2. /\ tree.symbol[Guards(u.start)[x][b]] = b
          /\ Parent(u.start, Guards(u.start)[x][b]) = x
      BY <2>1, BlockFacts
    <2>3. QED
      BY <1>7, <2>2
  <1> HIDE DEF n, t, l, r
  <1>11. a \in Nat /\ Symbol \subseteq Nat
    BY AptaAssumption
  <1>12. ASSUME NEW i \in 1 .. n
         PROVE  FrameOK(u, d, i)
    <2>1. /\ c.left[i] \notin c.fresh /\ Reps(c.heap)[c.left[i]] = None
          /\ c.right[i] \in Block(u) /\ Reps(c.heap)[c.right[i]] = c.left[i]
          /\ \A j \in 1 .. n : c.right[i] = c.right[j] => i = j
      BY <1>8 DEF FrameOK, n
    <2>2. /\ d.left[i] \notin d.fresh /\ Reps(d.heap)[d.left[i]] = None
          /\ d.right[i] \in Block(u) /\ Reps(d.heap)[d.right[i]] = d.left[i]
      BY <1>3, <1>5, <1>6, <1>9, <2>1
    <2>3. \A j \in 1 .. d.depth : d.right[i] = d.right[j] => i = j
      <3> TAKE j \in 1 .. d.depth
      <3>1. CASE j = n + 1
        BY <1>6, <1>9, <3>1
      <3>2. CASE j \in 1 .. n
        BY <1>6, <2>1, <3>2
      <3>3. QED
        BY <1>5, <3>1, <3>2
    <2>4. ASSUME NEW b \in d.todo[i]
          PROVE  /\ b \in c.todo[i] /\ b \in Symbol /\ Above(b) \subseteq d.todo[i]
                 /\ i = n => b # a
      <3>1. CASE i = n
        <4>1. b \in Symbol /\ a < b
          BY <1>6, <2>4, <3>1 DEF Above
        <4>2. b \in c.todo[i]
          BY <1>5, <1>6, <1>8, <2>4, <3>1 DEF FrameOK
        <4>3. Above(b) \subseteq Above(a)
          <5>1. a \in Symbol /\ b \in Symbol /\ a < b
            BY <4>1
          <5>2. QED
            BY ONLY <5>1, AboveShrinks
        <4>4. QED
          BY <1>6, <1>11, <3>1, <4>1, <4>2, <4>3
      <3>2. CASE i < n
        <4>1. b \in c.todo[i] /\ d.todo[i] = c.todo[i] /\ b \in Symbol
          BY <1>6, <2>4, <3>2
        <4>2. Above(b) \subseteq c.todo[i]
          BY <1>8, <4>1 DEF FrameOK
        <4>3. QED
          BY <1>5, <3>2, <4>1, <4>2
      <3>3. QED
        BY <1>5, <3>1, <3>2
    <2>5. ASSUME NEW b \in d.todo[i], Guards(u.start)[d.right[i]][b] # None
          PROVE  Guards(u.start)[d.right[i]][b] \in d.fresh
      <3>1. b \in c.todo[i] /\ b \in Symbol /\ (i = n => b # a) /\ d.right[i] = c.right[i]
        BY <1>6, <2>4, <2>5
      <3>2. Guards(u.start)[c.right[i]][b] \in c.fresh
        BY <1>8, <2>5, <3>1 DEF FrameOK
      <3>3. Guards(u.start)[c.right[i]][b] # r
        BY <1>5, <1>10, <2>1, <3>1
      <3>4. QED
        BY <1>5, <3>1, <3>2, <3>3
    <2>6. QED
      BY <2>2, <2>3, <2>4, <2>5 DEF FrameOK
  <1>13. FrameOK(u, d, n + 1)
    <2>1. /\ d.left[n + 1] \notin d.fresh /\ Reps(d.heap)[d.left[n + 1]] = None
          /\ d.right[n + 1] \in Block(u) /\ Reps(d.heap)[d.right[n + 1]] = d.left[n + 1]
      BY <1>1, <1>3, <1>5, <1>6 DEF Joins
    <2>2. \A j \in 1 .. d.depth : d.right[n + 1] = d.right[j] => n + 1 = j
      <3> TAKE j \in 1 .. d.depth
      <3>1. CASE j = n + 1
        BY <3>1
      <3>2. CASE j \in 1 .. n
        BY <1>6, <1>9, <3>2
      <3>3. QED
        BY <1>5, <3>1, <3>2
    <2>3. ASSUME NEW b \in Symbol, Guards(u.start)[r][b] # None
          PROVE  Guards(u.start)[r][b] \in d.fresh
      <3>1. Guards(u.start)[r][b] \in c.fresh
        BY <1>4, <1>7, <2>3 DEF FreshOK, ClosedUnder
      <3>2. Guards(u.start)[r][b] # r
        BY <1>3, <1>5, <1>9, <1>10
      <3>3. QED
        BY <1>5, <3>1, <3>2
    <2>4. \A b \in Symbol : Above(b) \subseteq Symbol
      BY DEF Above
    <2>5. QED
      BY <1>6, <2>1, <2>2, <2>3, <2>4 DEF FrameOK
  <1>14. FramesOK(u, d)
    <2>1. d.left[1] = u.left /\ d.right[1] = u.right
      BY <1>4, <1>5, <1>6 DEF FramesOK, n
    <2>2. \A i \in 1 .. d.depth : i \in 1 .. n \/ i = n + 1
      BY <1>5
    <2>3. QED
      BY <1>12, <1>13, <2>1, <2>2 DEF FramesOK
  <1>15. LinksOK(u, d)
    <2> SUFFICES ASSUME NEW i \in 1 .. d.depth, i < d.depth
                 PROVE  \E b \in Symbol : Link(u, d, i, b)
      BY DEF LinksOK
    <2>1. i \in 1 .. n /\ (i = n \/ i < n)
      BY <1>5
    <2>2. CASE i = n
      <3>1. Found(u, d.heap, t) = l
        BY <1>1, <1>3 DEF l
      <3>2. t # r
        BY <1>1, <1>7
      <3>3. Guards(d.heap)[d.left[i]][a] = t
        BY <1>3, <1>6, <2>1, <2>2 DEF t
      <3>4. Link(u, d, i, a)
        BY <1>5, <1>6, <1>7, <2>1, <2>2, <3>1, <3>2, <3>3 DEF Link
      <3>5. QED
        BY <3>4
    <2>3. CASE i < n
      <3>1. PICK b \in Symbol : Link(u, c, i, b)
        BY <1>4, <2>1, <2>3 DEF LinksOK, n
      <3>2. i + 1 \in 1 .. n
        BY <1>5, <2>1, <2>3
      <3> DEFINE s == Guards(c.heap)[c.left[i]][b]
      <3>3. /\ c.todo[i] = Above(b) /\ s # None /\ s # c.right[i + 1]
            /\ Found(u, c.heap, s) = c.left[i + 1]
            /\ Guards(u.start)[c.right[i]][b] = c.right[i + 1]
        BY <3>1 DEF Link
      <3>4. s \in Node
        BY <1>4, <1>6, <2>1, <3>3, ConfigurationTyped
      <3>5. Found(u, d.heap, s) = c.left[i + 1]
        BY <1>3, <1>9, <3>2, <3>3, <3>4
      <3>6. Guards(d.heap)[d.left[i]][b] = s
        BY <1>3, <1>6, <2>1
      <3> HIDE DEF s
      <3>7. Link(u, d, i, b)
        BY <1>6, <2>1, <2>3, <3>2, <3>3, <3>5, <3>6 DEF Link
      <3>8. QED
        BY <3>7
    <2>4. QED
      BY <2>1, <2>2, <2>3
  <1>16. PendingOK(u, d)
    <2> SUFFICES ASSUME NEW x \in Block(u) \ d.fresh, NEW b \in Symbol,
                        Guards(u.start)[x][b] \in d.fresh, ~u.stops
                 PROVE  \E i \in 1 .. d.depth : d.right[i] = x /\ b \in d.todo[i]
      BY DEF PendingOK
    <2>1. CASE x = r
      <3>1. n + 1 \in 1 .. d.depth
        BY <1>5
      <3>2. QED
        BY <1>6, <2>1, <3>1
    <2>2. CASE x # r
      <3>1. x \in Block(u) \ c.fresh /\ Guards(u.start)[x][b] \in c.fresh
        BY <1>5, <2>2
      <3>2. PICK i \in 1 .. n : c.right[i] = x /\ b \in c.todo[i]
        BY <1>4, <3>1 DEF PendingOK, n
      <3>3. i \in 1 .. d.depth /\ d.right[i] = x
        BY <1>5, <1>6, <3>2
      <3>4. CASE i < n
        BY <1>6, <3>2, <3>3, <3>4
      <3>5. CASE i = n
        <4>1. Guards(c.heap)[c.right[n]] = Guards(u.start)[c.right[n]]
          BY <1>7
        <4>2. Guards(c.heap)[c.right[n]][b] # None
          BY <3>1, <3>2, <3>5, <4>1, AptaAssumption, <1>4, ConfigurationTyped
        <4>3. a <= b
          BY <3>2, <3>5, <4>2 DEF FoldedJoin, Due, n
        <4>4. a # b
          BY <1>5, <1>7, <3>2, <3>5
        <4>5. b \in Above(a)
          BY <1>11, <4>3, <4>4 DEF Above
        <4>6. QED
          BY <1>6, <3>3, <3>5, <4>5
      <3>6. QED
        BY <1>5, <3>4, <3>5
    <2>3. QED
      BY <2>1, <2>2
  <1>17. Reds(d.heap) = Reds(u.start) /\ Sinks(d.heap) = Sinks(u.start)
    BY <1>3 DEF Sound
  <1>18. QED
    BY <1>2, <1>14, <1>15, <1>16, <1>17 DEF Sound

-----------------------------------------------------------------------------
(* Adopting a child, and returning.                                        *)

\* What an adoption takes out of the run: the child and everything below it.
LEMMA AdoptionFacts ==
    ASSUME NEW u, BlockIsTree(u), NEW c, Sound(u, c), NEW d \in Configuration,
           NEW a \in Symbol, Adoption(u, c, d, a)
    PROVE  LET l == c.left[c.depth]
               r == c.right[c.depth]
               t == Guards(c.heap)[r][a]
               q == Subtree(Guards(u.start), t)
           IN /\ c \in Configuration /\ c.depth \in 1 .. c.depth /\ a \in c.todo[c.depth]
              /\ l \in Node \ c.fresh /\ Reps(c.heap)[l] = None
              /\ r \in Block(u) \ c.fresh /\ Reps(c.heap)[r] = l
              /\ Guards(c.heap)[r] = Guards(u.start)[r]
              /\ Guards(c.heap)[l][a] = None
              /\ t \in c.fresh /\ t \in Block(u) \ {u.right} /\ t \in Node
              /\ Parent(u.start, t) = r /\ tree.symbol[t] = a
              /\ Reps(c.heap)[u.right] # None
              /\ Guards(d.heap) = [Guards(c.heap) EXCEPT ![l][a] = t]
              /\ Reps(d.heap) = Reps(c.heap) /\ NextsMerged(d.heap) = NextsMerged(c.heap)
              /\ Reds(d.heap) = Reds(c.heap) /\ Sinks(d.heap) = Sinks(c.heap)
              /\ d.fresh = c.fresh \ q
              /\ t \in q /\ q \subseteq c.fresh /\ ClosedUnder(Guards(u.start), q)
              /\ \A x \in q : x = t \/ Parent(u.start, x) \in q
  <1> DEFINE l == c.left[c.depth]
             r == c.right[c.depth]
             t == Guards(c.heap)[r][a]
             q == Subtree(Guards(u.start), t)
  <1>1. /\ c.depth > 0 /\ a \in c.todo[c.depth] /\ t # None
        /\ Guards(c.heap)[l][a] = None
        /\ d.heap = GuardHeap(c.heap, l, a, t) /\ d.fresh = c.fresh \ q
    BY DEF Adoption, Due
  <1>2. /\ c.depth \in 1 .. c.depth
        /\ l \in Node \ c.fresh /\ Reps(c.heap)[l] = None
        /\ r \in Block(u) \ c.fresh /\ Reps(c.heap)[r] = l
        /\ Guards(c.heap)[r] = Guards(u.start)[r]
        /\ t \in c.fresh /\ t \in Block(u) \ {u.right}
        /\ Parent(u.start, t) = r /\ tree.symbol[t] = a
        /\ Reps(c.heap)[u.right] # None
    <2>1. /\ BlockIsTree(u) /\ Sound(u, c) /\ c.depth > 0 /\ a \in c.todo[c.depth]
          /\ Guards(c.heap)[c.right[c.depth]][a] # None
      BY <1>1
    <2>2. QED
      BY ONLY <2>1, DueChild
  <1>3. c \in Configuration /\ FreshOK(u, c)
    BY DEF Sound
  <1>4. t \in Node /\ c.heap \in Snapshot
    BY <1>2, <1>3, ConfigurationTyped
  <1>5. /\ Guards(d.heap) = [Guards(c.heap) EXCEPT ![l][a] = t]
        /\ Reps(d.heap) = Reps(c.heap) /\ NextsMerged(d.heap) = NextsMerged(c.heap)
        /\ Reds(d.heap) = Reds(c.heap) /\ Sinks(d.heap) = Sinks(c.heap)
    <2>1. l \in Node /\ a \in Symbol /\ t \in Node \cup {None} /\ c.heap \in Snapshot
          /\ d.heap = GuardHeap(c.heap, l, a, t)
      BY <1>1, <1>2, <1>4
    <2> HIDE DEF l, t
    <2>2. /\ Guards(GuardHeap(c.heap, l, a, t)) = [Guards(c.heap) EXCEPT ![l][a] = t]
          /\ Reps(GuardHeap(c.heap, l, a, t)) = Reps(c.heap)
          /\ NextsMerged(GuardHeap(c.heap, l, a, t)) = NextsMerged(c.heap)
          /\ Reds(GuardHeap(c.heap, l, a, t)) = Reds(c.heap)
          /\ Sinks(GuardHeap(c.heap, l, a, t)) = Sinks(c.heap)
      <3>1. PICK x \in Node, y \in Node \cup {None}, h \in Snapshot :
                    x = l /\ y = t /\ h = c.heap
        BY <2>1
      <3>2. /\ Guards(GuardHeap(h, x, a, y)) = [Guards(h) EXCEPT ![x][a] = y]
            /\ Reps(GuardHeap(h, x, a, y)) = Reps(h)
            /\ NextsMerged(GuardHeap(h, x, a, y)) = NextsMerged(h)
            /\ Reds(GuardHeap(h, x, a, y)) = Reds(h)
            /\ Sinks(GuardHeap(h, x, a, y)) = Sinks(h)
        BY GuardedHeap
      <3>3. QED
        BY ONLY <3>1, <3>2
    <2>3. d.heap = GuardHeap(c.heap, l, a, t)
      BY ONLY <2>1
    <2>4. QED
      BY ONLY <2>2, <2>3
  <1>6. ClosedUnder(Guards(u.start), Node)
    BY StartTyped DEF ClosedUnder
  <1>7. /\ t \in q /\ q \subseteq Node /\ ClosedUnder(Guards(u.start), q)
        /\ \A S \in SUBSET Node : t \in S /\ ClosedUnder(Guards(u.start), S) => q \subseteq S
        /\ \A x \in q \ {t} : \E y \in q, b \in Symbol : Guards(u.start)[y][b] = x
    <2>1. t \in Node
      BY <1>4
    <2> HIDE DEF t
    <2>2. QED
      BY ONLY <1>6, <2>1, SubtreeLeast
  <1>8. q \subseteq c.fresh /\ c.fresh \subseteq Block(u)
    <2>1. c.fresh \in SUBSET Node /\ ClosedUnder(Guards(u.start), c.fresh)
          /\ c.fresh \subseteq Block(u)
      BY <1>3, ConfigurationTyped DEF FreshOK
    <2> HIDE DEF q, t
    <2>2. QED
      BY <1>2, <1>7, <2>1
  <1>9. ASSUME NEW x \in q, x # t
        PROVE  Parent(u.start, x) \in q
    <2> HIDE DEF q, t
    <2>1. PICK y \in q, b \in Symbol : Guards(u.start)[y][b] = x
      BY <1>7, <1>9
    <2>2. y \in Block(u) /\ x # None
      BY <1>7, <1>8, <1>9, AptaAssumption
    <2>3. Parent(u.start, x) = y
      BY <2>1, <2>2, BlockFacts
    <2>4. QED
      BY <2>3
  <1> HIDE DEF q, t, l, r
  <1>10. /\ c \in Configuration /\ c.depth \in 1 .. c.depth /\ a \in c.todo[c.depth]
         /\ l \in Node \ c.fresh /\ Reps(c.heap)[l] = None
         /\ r \in Block(u) \ c.fresh /\ Reps(c.heap)[r] = l
         /\ Guards(c.heap)[r] = Guards(u.start)[r]
         /\ Guards(c.heap)[l][a] = None
         /\ t \in c.fresh /\ t \in Block(u) \ {u.right} /\ t \in Node
         /\ Parent(u.start, t) = r /\ tree.symbol[t] = a
         /\ Reps(c.heap)[u.right] # None
         /\ Guards(d.heap) = [Guards(c.heap) EXCEPT ![l][a] = t]
         /\ Reps(d.heap) = Reps(c.heap) /\ NextsMerged(d.heap) = NextsMerged(c.heap)
         /\ Reds(d.heap) = Reds(c.heap) /\ Sinks(d.heap) = Sinks(c.heap)
         /\ d.fresh = c.fresh \ q
         /\ t \in q /\ q \subseteq c.fresh /\ ClosedUnder(Guards(u.start), q)
         /\ \A x \in q : x = t \/ Parent(u.start, x) \in q
    BY <1>1, <1>2, <1>3, <1>4, <1>5, <1>7, <1>8, <1>9
  <1>11. QED
    BY <1>10 DEF q, t, l, r

\* Adopting a child with all that is below it keeps the configuration sound.
LEMMA AdoptionSound ==
    ASSUME NEW u, BlockIsTree(u), NEW c, Sound(u, c), NEW d \in Configuration,
           NEW a \in Symbol, Adoption(u, c, d, a)
    PROVE  Sound(u, d)
  <1> DEFINE n == c.depth
             l == c.left[n]
             r == c.right[n]
             t == Guards(c.heap)[r][a]
             q == Subtree(Guards(u.start), t)
  <1>1. /\ c \in Configuration /\ n \in 1 .. n /\ a \in c.todo[n]
        /\ l \in Node \ c.fresh /\ Reps(c.heap)[l] = None
        /\ r \in Block(u) \ c.fresh /\ Reps(c.heap)[r] = l
        /\ Guards(c.heap)[r] = Guards(u.start)[r]
        /\ Guards(c.heap)[l][a] = None
        /\ t \in c.fresh /\ t \in Block(u) \ {u.right} /\ t \in Node
        /\ Parent(u.start, t) = r /\ tree.symbol[t] = a
        /\ Reps(c.heap)[u.right] # None
        /\ Guards(d.heap) = [Guards(c.heap) EXCEPT ![l][a] = t]
        /\ Reps(d.heap) = Reps(c.heap) /\ NextsMerged(d.heap) = NextsMerged(c.heap)
        /\ Reds(d.heap) = Reds(c.heap) /\ Sinks(d.heap) = Sinks(c.heap)
        /\ d.fresh = c.fresh \ q
        /\ t \in q /\ q \subseteq c.fresh /\ ClosedUnder(Guards(u.start), q)
        /\ \A x \in q : x = t \/ Parent(u.start, x) \in q
    <2>1. BlockIsTree(u) /\ Sound(u, c) /\ d \in Configuration /\ a \in Symbol
          /\ Adoption(u, c, d, a)
      OBVIOUS
    <2>2. QED
      BY ONLY <2>1, AdoptionFacts
  <1>2. /\ FreshOK(u, c) /\ RepsOK(u, c) /\ GuardsOK(u, c) /\ FoldedOK(u, c)
        /\ FramesOK(u, c) /\ LinksOK(u, c) /\ PendingOK(u, c)
    BY DEF Sound
  <1>3. /\ n \in Nat /\ d.depth = n /\ d.left = c.left /\ d.right = c.right
        /\ d.todo = [c.todo EXCEPT ![n] = Above(a)]
        /\ c.todo \in [Nat -> SUBSET Symbol] /\ Guards(c.heap) \in [Node -> [Symbol -> Node \cup {None}]]
        /\ c.left \in [Nat -> Node] /\ c.right \in [Nat -> Node]
    BY <1>1, ConfigurationTyped DEF Adoption
  <1>4. a \in Nat /\ Symbol \subseteq Nat /\ None \notin Node
    BY AptaAssumption
  <1>5. \A m \in Node : Found(u, d.heap, m) = Found(u, c.heap, m)
    BY <1>1 DEF Found
  <1>6. Block(u) \subseteq Node /\ c.fresh \subseteq Block(u) /\ c.fresh \subseteq Node
    BY <1>2, BlockFacts DEF FreshOK
  <1>7. \A i \in 1 .. n : FrameOK(u, c, i)
    BY <1>2 DEF FramesOK
  <1> HIDE DEF n, l, r, t, q
  \* A child of a block node that is taken out is the adopted one.
  <1>8. ASSUME NEW x \in Block(u), NEW b \in Symbol, Guards(u.start)[x][b] \in q, x \notin q
        PROVE  x = r /\ b = a /\ Guards(u.start)[x][b] = t
    <2>1. Guards(u.start)[x][b] # None
      BY <1>1, <1>4, <1>6, <1>8
    <2>2. /\ tree.symbol[Guards(u.start)[x][b]] = b
          /\ Parent(u.start, Guards(u.start)[x][b]) = x
      BY <2>1, BlockFacts
    <2>3. QED
      BY <1>1, <1>8, <2>2
  <1>9. /\ Guards(d.heap)[l][a] = t
        /\ \A x \in Node, b \in Symbol : x # l \/ b # a => Guards(d.heap)[x][b] = Guards(c.heap)[x][b]
        /\ \A x \in Node : x # l => Guards(d.heap)[x] = Guards(c.heap)[x]
    BY <1>1, <1>3
  <1>10. FreshOK(u, d)
    <2>1. ASSUME NEW x \in d.fresh
          PROVE  /\ Reps(d.heap)[x] = None
                 /\ \/ x = u.right \/ Parent(u.start, x) \in d.fresh
                    \/ Reps(d.heap)[Parent(u.start, x)] # None
      <3>1. x \in c.fresh /\ x \notin q /\ x \in Block(u)
        BY <1>1, <1>6, <2>1
      <3>2. /\ tree.symbol[x] \in Symbol
            /\ Guards(u.start)[Parent(u.start, x)][tree.symbol[x]] = x
        BY <3>1, BlockParents
      <3>3. Parent(u.start, x) \notin q
        BY <1>1, <1>4, <1>6, <3>1, <3>2 DEF ClosedUnder
      <3>4. /\ Reps(c.heap)[x] = None
            /\ \/ x = u.right \/ Parent(u.start, x) \in c.fresh
               \/ Reps(c.heap)[Parent(u.start, x)] # None
        BY <1>2, <3>1 DEF FreshOK
      <3>5. QED
        BY <1>1, <3>3, <3>4
    <2>2. ClosedUnder(Guards(u.start), d.fresh)
      <3> SUFFICES ASSUME NEW x \in d.fresh, NEW b \in Symbol, Guards(u.start)[x][b] # None
                   PROVE  Guards(u.start)[x][b] \in d.fresh
        BY DEF ClosedUnder
      <3>1. x \in c.fresh /\ x \notin q /\ x \in Block(u)
        BY <1>1, <1>6
      <3>2. Guards(u.start)[x][b] \in c.fresh
        BY <1>2, <3>1 DEF FreshOK, ClosedUnder
      <3>3. Guards(u.start)[x][b] \notin q
        BY <1>1, <1>8, <3>1
      <3>4. QED
        BY <1>1, <3>2, <3>3
    <2>3. d.fresh \subseteq Block(u) /\ u.right \notin d.fresh
      BY <1>1, <1>2, <1>6 DEF FreshOK
    <2>4. Reps(d.heap)[u.right] = u.left
      BY <1>1, <1>2 DEF FreshOK
    <2>5. QED
      BY <1>1, <2>1, <2>2, <2>3, <2>4 DEF FreshOK
  <1>11. RepsOK(u, d)
    BY <1>1, <1>2 DEF RepsOK
  <1>12. GuardsOK(u, d)
    <2>1. ASSUME NEW x \in Block(u), x \in d.fresh \/ Reps(d.heap)[x] # None
          PROVE  Guards(d.heap)[x] = Guards(u.start)[x]
      <3>1. x # l /\ (x \in c.fresh \/ Reps(c.heap)[x] # None) /\ x \in Node
        BY <1>1, <1>6, <2>1
      <3>2. QED
        BY <1>2, <1>9, <3>1 DEF GuardsOK
    <2>2. Adopted(u, d, l, a)
      <3>1. Guards(u.start)[l][a] = None
        BY <1>1, <1>2, <1>4, <1>6 DEF GuardsOK, Adopted
      <3>2. Found(u, d.heap, tree.source[t]) = l
        BY <1>1, <1>4 DEF Found, Parent
      <3>3. Reps(d.heap)[t] = None
        BY <1>1, <1>2 DEF FreshOK
      <3>4. QED
        BY <1>1, <1>9, <3>1, <3>2, <3>3 DEF Adopted
    <2>3. ASSUME NEW x \in Node, NEW b \in Symbol, x # l \/ b # a
          PROVE  Guards(d.heap)[x][b] = Guards(u.start)[x][b] \/ Adopted(u, d, x, b)
      <3>1. Guards(d.heap)[x][b] = Guards(c.heap)[x][b]
        BY <1>9, <2>3
      <3>2. CASE Adopted(u, c, x, b)
        <4> DEFINE s == Guards(c.heap)[x][b]
        <4>1. /\ Guards(u.start)[x][b] = None /\ x \notin c.fresh /\ Reps(c.heap)[x] = None
              /\ s \in Block(u) \ c.fresh /\ Reps(c.heap)[s] = None
              /\ tree.symbol[s] = b /\ Found(u, c.heap, tree.source[s]) = x
          BY <3>2 DEF Adopted
        <4>2. Found(u, d.heap, tree.source[s]) = x
          BY <1>1, <4>1 DEF Found
        <4>3. QED
          BY <1>1, <3>1, <4>1, <4>2 DEF Adopted
      <3>3. QED
        BY <1>2, <3>1, <3>2 DEF GuardsOK
    <2>4. QED
      BY <2>1, <2>2, <2>3 DEF GuardsOK
  <1>13. FoldedOK(u, d)
    <2> SUFFICES ASSUME NEW x \in Block(u), NEW b \in Symbol,
                        Reps(d.heap)[x] # None, Guards(u.start)[x][b] # None
                 PROVE  LET s == Guards(u.start)[x][b]
                            e == Guards(d.heap)[Reps(d.heap)[x]][b]
                        IN \/ s \in d.fresh
                           \/ e = s
                           \/ Reps(d.heap)[s] # None /\ e # None
                              /\ Found(u, d.heap, e) = Reps(d.heap)[s]
      BY DEF FoldedOK
    <2> DEFINE s == Guards(u.start)[x][b]
               y == Reps(c.heap)[x]
               e == Guards(c.heap)[y][b]
    <2>1. y # None /\ y \in Node /\ Reps(d.heap)[x] = y /\ x \notin q /\ x \in Node
      BY <1>1, <1>2, <1>6 DEF RepsOK, FreshOK
    <2>2. CASE s \in q
      <3>1. x = r /\ b = a /\ s = t
        BY <1>8, <2>1, <2>2
      <3>2. QED
        BY <1>1, <1>9, <2>1, <3>1
    <2>3. CASE s \in c.fresh \ q
      BY <1>1, <2>3
    <2>4. CASE s \notin c.fresh
      <3>1. e = s \/ (Reps(c.heap)[s] # None /\ e # None /\ Found(u, c.heap, e) = Reps(c.heap)[s])
        BY <1>1, <1>2, <2>4 DEF FoldedOK
      <3>2. e # None
        BY <3>1
      <3>3. Guards(d.heap)[y][b] = e /\ e \in Node
        BY <1>1, <1>3, <1>9, <2>1, <3>2
      <3>4. QED
        BY <1>1, <1>5, <2>1, <3>1, <3>3
    <2>5. QED
      BY <2>2, <2>3, <2>4
  <1>14. /\ d.todo[n] = Above(a) /\ Above(a) \subseteq c.todo[n]
         /\ \A i \in 1 .. n : i < n => d.todo[i] = c.todo[i]
    <2>1. d.todo[n] = Above(a) /\ \A i \in 1 .. n : i < n => d.todo[i] = c.todo[i]
      BY <1>3
    <2>2. Above(a) \subseteq c.todo[n]
      BY <1>1, <1>7 DEF FrameOK
    <2>3. QED
      BY <2>1, <2>2
  <1>15. ASSUME NEW i \in 1 .. n
         PROVE  FrameOK(u, d, i)
    <2>1. /\ c.left[i] \notin c.fresh /\ Reps(c.heap)[c.left[i]] = None
          /\ c.right[i] \in Block(u) /\ Reps(c.heap)[c.right[i]] = c.left[i]
          /\ \A j \in 1 .. n : c.right[i] = c.right[j] => i = j
      BY <1>7 DEF FrameOK, n
    <2>2. /\ d.left[i] \notin d.fresh /\ Reps(d.heap)[d.left[i]] = None
          /\ d.right[i] \in Block(u) /\ Reps(d.heap)[d.right[i]] = d.left[i]
          /\ \A j \in 1 .. d.depth : d.right[i] = d.right[j] => i = j
      BY <1>1, <1>3, <2>1
    <2>3. ASSUME NEW b \in d.todo[i]
          PROVE  /\ b \in c.todo[i] /\ b \in Symbol /\ Above(b) \subseteq d.todo[i]
                 /\ i = n => b # a
      <3>1. CASE i = n
        <4>1. b \in Symbol /\ a < b /\ b \in c.todo[i]
          BY <1>14, <2>3, <3>1 DEF Above
        <4>2. Above(b) \subseteq Above(a)
          <5>1. a \in Symbol /\ b \in Symbol /\ a < b
            BY <4>1
          <5>2. QED
            BY ONLY <5>1, AboveShrinks
        <4>3. QED
          BY <1>4, <1>14, <3>1, <4>1, <4>2
      <3>2. CASE i < n
        <4>1. b \in c.todo[i] /\ d.todo[i] = c.todo[i] /\ b \in Symbol
          BY <1>3, <1>14, <2>3, <3>2
        <4>2. Above(b) \subseteq c.todo[i]
          BY <1>7, <4>1 DEF FrameOK
        <4>3. QED
          BY <1>3, <3>2, <4>1, <4>2
      <3>3. QED
        BY <1>3, <3>1, <3>2
    <2>4. ASSUME NEW b \in d.todo[i], Guards(u.start)[d.right[i]][b] # None
          PROVE  Guards(u.start)[d.right[i]][b] \in d.fresh
      <3>1. b \in c.todo[i] /\ b \in Symbol /\ (i = n => b # a) /\ d.right[i] = c.right[i]
        BY <1>3, <2>3, <2>4
      <3>2. Guards(u.start)[c.right[i]][b] \in c.fresh
        BY <1>7, <2>4, <3>1 DEF FrameOK
      <3>3. c.right[i] \notin q
        BY <1>1, <1>2, <1>4, <1>3, <2>1 DEF FreshOK
      <3>4. Guards(u.start)[c.right[i]][b] \notin q
        <4> SUFFICES ASSUME Guards(u.start)[c.right[i]][b] \in q PROVE FALSE
          OBVIOUS
        <4>1. c.right[i] = r /\ b = a
          BY <1>8, <2>1, <3>1, <3>3
        <4>2. i = n
          BY <1>1, <2>1, <4>1 DEF r
        <4>3. QED
          BY <3>1, <4>1, <4>2
      <3>5. QED
        BY <1>1, <3>1, <3>2, <3>4
    <2>5. QED
      BY <2>2, <2>3, <2>4 DEF FrameOK
  <1>16. FramesOK(u, d)
    BY <1>2, <1>3, <1>15 DEF FramesOK, n
  <1>17. LinksOK(u, d)
    <2> SUFFICES ASSUME NEW i \in 1 .. n, i < n
                 PROVE  \E b \in Symbol : Link(u, d, i, b)
      BY <1>3 DEF LinksOK
    <2>1. PICK b \in Symbol : Link(u, c, i, b)
      BY <1>2 DEF LinksOK, n
    <2> DEFINE s == Guards(c.heap)[c.left[i]][b]
    <2>2. /\ c.todo[i] = Above(b) /\ s # None /\ s # c.right[i + 1]
          /\ Found(u, c.heap, s) = c.left[i + 1]
          /\ Guards(u.start)[c.right[i]][b] = c.right[i + 1]
      BY <2>1 DEF Link
    <2>3. c.left[i] \in Node
      BY <1>3
    <2>4. Guards(d.heap)[d.left[i]][b] = s /\ s \in Node
      BY <1>1, <1>3, <1>9, <2>2, <2>3
    <2>5. Found(u, d.heap, s) = c.left[i + 1]
      BY <1>5, <2>2, <2>4
    <2> HIDE DEF s
    <2>6. Link(u, d, i, b)
      BY <1>3, <1>14, <2>2, <2>4, <2>5 DEF Link
    <2>7. QED
      BY <2>6
  <1>18. PendingOK(u, d)
    <2> SUFFICES ASSUME NEW x \in Block(u) \ d.fresh, NEW b \in Symbol,
                        Guards(u.start)[x][b] \in d.fresh, ~u.stops
                 PROVE  \E i \in 1 .. d.depth : d.right[i] = x /\ b \in d.todo[i]
      BY DEF PendingOK
    <2>1. x \notin q
      BY <1>1, <1>4, <1>6 DEF ClosedUnder
    <2>2. x \in Block(u) \ c.fresh /\ Guards(u.start)[x][b] \in c.fresh
      BY <1>1, <2>1
    <2>3. PICK i \in 1 .. n : c.right[i] = x /\ b \in c.todo[i]
      BY <1>2, <2>2 DEF PendingOK, n
    <2>4. CASE i < n
      BY <1>3, <1>14, <2>3, <2>4
    <2>5. CASE i = n
      <3>1. Guards(c.heap)[c.right[n]][b] # None
        BY <1>1, <1>4, <1>6, <2>2, <2>3, <2>5 DEF r
      <3>2. a <= b
        BY <2>3, <2>5, <3>1 DEF Adoption, Due, n
      <3>3. a # b
        BY <1>1, <2>3, <2>5 DEF r, t
      <3>4. b \in Above(a)
        BY <1>4, <3>2, <3>3 DEF Above
      <3>5. QED
        BY <1>3, <1>14, <2>3, <2>5, <3>4
    <2>6. QED
      BY <1>3, <2>4, <2>5
  <1>19. Reds(d.heap) = Reds(u.start) /\ Sinks(d.heap) = Sinks(u.start)
    BY <1>1 DEF Sound
  <1>20. QED
    BY <1>10, <1>11, <1>12, <1>13, <1>16, <1>17, <1>18, <1>19 DEF Sound

\* A call that returns has left nothing pending: the configuration stays sound.
LEMMA ReturnSound ==
    ASSUME NEW u, BlockIsTree(u), NEW c, Sound(u, c), NEW d \in Configuration,
           Return(u, c, d)
    PROVE  Sound(u, d)
  <1>1. /\ c \in Configuration /\ FreshOK(u, c) /\ RepsOK(u, c) /\ GuardsOK(u, c)
        /\ FoldedOK(u, c) /\ FramesOK(u, c) /\ LinksOK(u, c) /\ PendingOK(u, c)
        /\ Reds(c.heap) = Reds(u.start) /\ Sinks(c.heap) = Sinks(u.start)
    BY DEF Sound
  <1>2. /\ c.depth \in Nat /\ c.depth > 0 /\ d.depth = c.depth - 1 /\ d.heap = c.heap
        /\ d.left = c.left /\ d.right = c.right /\ d.todo = c.todo /\ d.fresh = c.fresh
    BY <1>1, ConfigurationTyped DEF Return
  <1>3. RepsOK(u, d) /\ GuardsOK(u, d) /\ FoldedOK(u, d)
    BY <1>1, <1>2 DEF RepsOK, GuardsOK, FoldedOK, Adopted
  <1>4. Reps(c.heap)[u.right] # None
    BY <1>1, <1>2 DEF FreshOK
  <1>5. FreshOK(u, d)
    BY <1>1, <1>2, <1>4 DEF FreshOK
  <1>6. \A i \in 1 .. d.depth : i \in 1 .. c.depth /\ (i < d.depth => i < c.depth)
    BY <1>2
  <1>7. \A i \in 1 .. d.depth : FrameOK(u, d, i)
    <2> TAKE i \in 1 .. d.depth
    <2>1. FrameOK(u, c, i)
      BY <1>1, <1>6 DEF FramesOK
    <2>2. QED
      BY <1>2, <1>6, <2>1 DEF FrameOK
  <1>8. FramesOK(u, d) /\ LinksOK(u, d)
    <2>1. d.depth > 0 => d.left[1] = u.left /\ d.right[1] = u.right
      BY <1>1, <1>2 DEF FramesOK
    <2>2. ASSUME NEW i \in 1 .. d.depth, i < d.depth PROVE \E b \in Symbol : Link(u, d, i, b)
      <3>1. PICK b \in Symbol : Link(u, c, i, b)
        BY <1>1, <1>6, <2>2 DEF LinksOK
      <3>2. Link(u, d, i, b)
        BY <1>2, <3>1 DEF Link
      <3>3. QED
        BY <3>2
    <2>3. QED
      BY <1>7, <2>1, <2>2 DEF FramesOK, LinksOK
  <1>9. PendingOK(u, d)
    <2> SUFFICES ASSUME NEW x \in Block(u) \ c.fresh, NEW b \in Symbol,
                        Guards(u.start)[x][b] \in c.fresh, ~u.stops
                 PROVE  \E i \in 1 .. d.depth : c.right[i] = x /\ b \in c.todo[i]
      BY <1>2 DEF PendingOK
    <2>1. PICK i \in 1 .. c.depth : c.right[i] = x /\ b \in c.todo[i]
      BY <1>1 DEF PendingOK
    <2>2. CASE i = c.depth
      <3>1. Guards(c.heap)[x] = Guards(u.start)[x]
        <4>1. Reps(c.heap)[x] = c.left[i] /\ c.left[i] \in Node
          BY <1>1, <1>2, <2>1, ConfigurationTyped DEF FramesOK, FrameOK
        <4>2. QED
          BY <1>1, <4>1, AptaAssumption DEF GuardsOK
      <3>2. Guards(c.heap)[x][b] = None
        BY <2>1, <2>2 DEF Return
      <3>3. QED
        BY <1>1, <3>1, <3>2, ConfigurationTyped, AptaAssumption
    <2>3. CASE i # c.depth
      BY <1>2, <2>1, <2>3
    <2>4. QED
      BY <2>2, <2>3
  <1>10. QED
    BY <1>1, <1>2, <1>3, <1>5, <1>8, <1>9 DEF Sound

-----------------------------------------------------------------------------
(* The configurations a run reaches.                                       *)

\* The configuration a run starts in is sound.
LEMMA StartSound ==
    ASSUME NEW u, BlockIsTree(u), NEW c, StartsRun(u, c)
    PROVE  Sound(u, c)
  <1>1. c \in Configuration /\ c.heap = u.start /\ c.depth = 0 /\ c.fresh = Block(u)
    BY DEF StartsRun
  <1>2. FreshOK(u, c)
    <2>1. \A x \in Block(u) :
             /\ Reps(u.start)[x] = None
             /\ x = u.right \/ Parent(u.start, x) \in Block(u)
      BY BlockParents, BlockFacts
    <2>2. ClosedUnder(Guards(u.start), Block(u)) /\ u.right \in Block(u)
      BY BlockFacts DEF ClosedUnder
    <2>3. QED
      BY <1>1, <2>1, <2>2 DEF FreshOK
  <1>3. RepsOK(u, c)
    BY <1>1, BlockFacts DEF RepsOK, BlockIsTree
  <1>4. GuardsOK(u, c) /\ FoldedOK(u, c)
    BY <1>1, BlockFacts DEF GuardsOK, FoldedOK
  <1>5. FramesOK(u, c) /\ LinksOK(u, c)
    BY <1>1 DEF FramesOK, LinksOK
  <1>6. PendingOK(u, c)
    BY <1>1 DEF PendingOK
  <1>7. QED
    BY <1>1, <1>2, <1>3, <1>4, <1>5, <1>6 DEF Sound

\* Every step of a run keeps its configuration sound.
LEMMA StepSound ==
    ASSUME NEW u, BlockIsTree(u), NEW c, Sound(u, c), NEW d \in Configuration,
           RunStep(u, c, d)
    PROVE  Sound(u, d)
  BY FirstJoinSound, AdoptionSound, FoldedJoinSound, ReturnSound DEF RunStep

\* Every configuration of a run is sound.
LEMMA ReachSound ==
    ASSUME NEW u, BlockIsTree(u), NEW c \in Reach(u)
    PROVE  Sound(u, c)
  <1> DEFINE S == {d \in Configuration : Sound(u, d)}
  <1>1. Inductive(u, S)
    BY StartSound, StepSound DEF Inductive
  <1>2. c \in S
    BY <1>1 DEF Reach
  <1>3. QED
    BY <1>2

\* A run goes on from where it has come to.
LEMMA ReachStep ==
    ASSUME NEW u, NEW c \in Reach(u), NEW d \in Configuration, RunStep(u, c, d)
    PROVE  d \in Reach(u)
  <1> SUFFICES ASSUME NEW S \in SUBSET Configuration, Inductive(u, S) PROVE d \in S
    BY DEF Reach
  <1>1. c \in S
    BY DEF Reach
  <1>2. QED
    BY <1>1 DEF Inductive

\* Where a run starts is one of its configurations.
LEMMA ReachStart ==
    ASSUME NEW u, NEW c, StartsRun(u, c)
    PROVE  c \in Reach(u)
  BY DEF Reach, Inductive, StartsRun

\* It came there from somewhere.
LEMMA ReachBack ==
    ASSUME NEW u, NEW c \in Reach(u), ~StartsRun(u, c)
    PROVE  \E p \in Reach(u) : RunStep(u, p, c)
  <1> SUFFICES ASSUME \A p \in Reach(u) : ~RunStep(u, p, c) PROVE FALSE
    OBVIOUS
  <1> DEFINE S == Reach(u) \ {c}
  <1>1. S \in SUBSET Configuration
    BY DEF Reach
  <1>2. \A d \in Configuration : StartsRun(u, d) => d \in S
    BY ReachStart
  <1>3. \A p \in S, d \in Configuration : RunStep(u, p, d) => d \in S
    BY ReachStep
  <1>4. Inductive(u, S)
    BY <1>2, <1>3 DEF Inductive
  <1>5. c \in S
    BY <1>1, <1>4 DEF Reach
  <1>6. QED
    BY <1>5

-----------------------------------------------------------------------------
(* A run goes on.                                                          *)

\* The run can begin.
LEMMA StartExists ==
    ASSUME NEW u, BlockIsTree(u)
    PROVE  \E c \in Reach(u) : c.heap = u.start /\ c.depth = 0
  <1> DEFINE c == [heap |-> u.start, depth |-> 0, left |-> [i \in Nat |-> u.left],
                   right |-> [i \in Nat |-> u.left], todo |-> [i \in Nat |-> {}],
                   fresh |-> Block(u)]
  <1>1. u.start \in Snapshot /\ u.left \in Node /\ Block(u) \subseteq Node
    BY StartTyped, BlockFacts
  <1>2. c \in Configuration
    BY <1>1 DEF Configuration
  <1>3. c.heap = u.start /\ c.depth = 0 /\ c.fresh = Block(u)
    OBVIOUS
  <1> HIDE DEF c
  <1>4. StartsRun(u, c)
    BY <1>2, <1>3 DEF StartsRun
  <1>5. QED
    BY <1>3, <1>4, ReachStart

\* The two states can be joined.
LEMMA FirstJoinExists ==
    ASSUME NEW u, BlockIsTree(u), NEW c \in Reach(u),
           c.depth = 0, Reps(c.heap)[u.right] = None
    PROVE  \E d \in Reach(u) : FirstJoin(u, c, d)
  <1> DEFINE d == [heap |-> JoinHeap(c.heap, u.left, u.right), depth |-> 1,
                   left |-> [c.left EXCEPT ![1] = u.left],
                   right |-> [c.right EXCEPT ![1] = u.right],
                   todo |-> [c.todo EXCEPT ![1] = Symbol],
                   fresh |-> c.fresh \ {u.right}]
  <1>1. c \in Configuration /\ u.left \in Node /\ u.right \in Node
    BY StartTyped DEF Reach
  <1>2. /\ c.heap \in Snapshot /\ c.left \in [Nat -> Node] /\ c.right \in [Nat -> Node]
        /\ c.todo \in [Nat -> SUBSET Symbol] /\ c.fresh \subseteq Node
    BY <1>1, ConfigurationTyped
  <1>3. JoinHeap(c.heap, u.left, u.right) \in Snapshot
    BY <1>1, <1>2, JoinedHeap
  <1>4. d \in Configuration
    BY <1>1, <1>2, <1>3 DEF Configuration
  <1>5. FirstJoin(u, c, d)
    BY DEF FirstJoin
  <1> HIDE DEF d
  <1>6. d \in Reach(u)
    BY <1>4, <1>5, ReachStep DEF RunStep
  <1>7. QED
    BY <1>5, <1>6

\* A due child can be adopted,
LEMMA AdoptionExists ==
    ASSUME NEW u, BlockIsTree(u), NEW c \in Reach(u), NEW a \in Symbol, Due(u, c, a),
           Guards(c.heap)[c.left[c.depth]][a] = None
    PROVE  \E d \in Reach(u) : Adoption(u, c, d, a)
  <1> DEFINE l == c.left[c.depth]
             t == Guards(c.heap)[c.right[c.depth]][a]
             d == [heap |-> GuardHeap(c.heap, l, a, t), depth |-> c.depth,
                   left |-> c.left, right |-> c.right,
                   todo |-> [c.todo EXCEPT ![c.depth] = Above(a)],
                   fresh |-> c.fresh \ Subtree(Guards(u.start), t)]
  <1>1. c \in Configuration
    BY DEF Reach
  <1>2. /\ c.heap \in Snapshot /\ c.left \in [Nat -> Node] /\ c.right \in [Nat -> Node]
        /\ c.todo \in [Nat -> SUBSET Symbol] /\ c.fresh \subseteq Node /\ c.depth \in Nat
        /\ Guards(c.heap) \in [Node -> [Symbol -> Node \cup {None}]]
    BY <1>1, ConfigurationTyped
  <1>3. l \in Node /\ t \in Node \cup {None} /\ Above(a) \subseteq Symbol
    BY <1>2 DEF Above
  <1>4. GuardHeap(c.heap, l, a, t) \in Snapshot
    <2> HIDE DEF l, t
    <2>1. QED
      BY <1>2, <1>3, GuardedHeap
  <1>5. d \in Configuration
    BY <1>2, <1>3, <1>4 DEF Configuration
  <1>6. Adoption(u, c, d, a)
    BY DEF Adoption
  <1> HIDE DEF d
  <1>7. d \in Reach(u)
    BY <1>5, <1>6, ReachStep DEF RunStep
  <1>8. QED
    BY <1>6, <1>7

\* or joined with the child there is.
LEMMA FoldedJoinExists ==
    ASSUME NEW u, BlockIsTree(u), NEW c \in Reach(u), NEW a \in Symbol, Due(u, c, a),
           Guards(c.heap)[c.left[c.depth]][a] # None
    PROVE  \E d \in Reach(u) : FoldedJoin(u, c, d, a)
  <1> DEFINE t == Guards(c.heap)[c.left[c.depth]][a]
             l == Found(u, c.heap, t)
             r == Guards(c.heap)[c.right[c.depth]][a]
             d == [heap |-> JoinHeap(c.heap, l, r), depth |-> c.depth + 1,
                   left |-> [c.left EXCEPT ![c.depth + 1] = l],
                   right |-> [c.right EXCEPT ![c.depth + 1] = r],
                   todo |-> [c.todo EXCEPT ![c.depth] = Above(a), ![c.depth + 1] = Symbol],
                   fresh |-> c.fresh \ {r}]
  <1>1. c \in Configuration /\ Sound(u, c) /\ RepsOK(u, c)
    BY ReachSound DEF Reach, Sound
  <1>2. /\ c.heap \in Snapshot /\ c.left \in [Nat -> Node] /\ c.right \in [Nat -> Node]
        /\ c.todo \in [Nat -> SUBSET Symbol] /\ c.fresh \subseteq Node /\ c.depth \in Nat
        /\ Guards(c.heap) \in [Node -> [Symbol -> Node \cup {None}]]
    BY <1>1, ConfigurationTyped
  <1>3. t \in Node /\ r \in Node /\ Above(a) \subseteq Symbol /\ l \in Node
    <2>1. t \in Node /\ r \in Node /\ Above(a) \subseteq Symbol
      BY <1>2 DEF Above, Due
    <2>2. Found(u, c.heap, t) \in Node
      <3> HIDE DEF t
      <3>1. QED
        BY <1>1, <2>1, FoundEquation
    <2>3. QED
      BY <2>1, <2>2
  <1>4. JoinHeap(c.heap, l, r) \in Snapshot
    <2> HIDE DEF l, r
    <2>1. QED
      BY <1>2, <1>3, JoinedHeap
  <1>5. d \in Configuration
    <2> HIDE DEF l, r
    <2>1. /\ [c.left EXCEPT ![c.depth + 1] = l] \in [Nat -> Node]
          /\ [c.right EXCEPT ![c.depth + 1] = r] \in [Nat -> Node]
      BY <1>2, <1>3
    <2>2. [c.todo EXCEPT ![c.depth] = Above(a)] \in [Nat -> SUBSET Symbol]
      BY <1>2, <1>3
    <2>3. [c.todo EXCEPT ![c.depth] = Above(a), ![c.depth + 1] = Symbol]
             \in [Nat -> SUBSET Symbol]
      BY <2>2
    <2>4. c.depth + 1 \in Nat /\ c.fresh \ {r} \in SUBSET Node
      BY <1>2
    <2>5. QED
      BY <1>4, <2>1, <2>3, <2>4 DEF Configuration
  <1>6. FoldedJoin(u, c, d, a)
    BY DEF FoldedJoin
  <1> HIDE DEF d
  <1>7. d \in Reach(u)
    BY <1>5, <1>6, ReachStep DEF RunStep
  <1>8. QED
    BY <1>6, <1>7

\* A call that is done, or stops, can return.
LEMMA ReturnExists ==
    ASSUME NEW u, NEW c \in Reach(u), c.depth > 0,
           u.stops \/ \A b \in c.todo[c.depth] : Guards(c.heap)[c.right[c.depth]][b] = None
    PROVE  \E d \in Reach(u) : Return(u, c, d)
  <1> DEFINE d == [c EXCEPT !.depth = c.depth - 1]
  <1>1. c \in Configuration
    BY DEF Reach
  <1>2. d \in Configuration
    BY <1>1 DEF Configuration
  <1>3. Return(u, c, d)
    BY <1>1 DEF Return, Configuration
  <1> HIDE DEF d
  <1>4. d \in Reach(u)
    BY <1>2, <1>3, ReachStep DEF RunStep
  <1>5. QED
    BY <1>3, <1>4

-----------------------------------------------------------------------------
(* Where a run came from.                                                  *)

\* The last symbol the innermost call has processed was processed by adopting
\* a child or by a call that has returned.
LEMMA SymbolBack ==
    ASSUME NEW u, BlockIsTree(u), NEW c \in Reach(u), c.depth > 0, NEW a \in Symbol,
           Guards(c.heap)[c.right[c.depth]][a] # None, a \notin c.todo[c.depth],
           \A b \in Symbol : Guards(c.heap)[c.right[c.depth]][b] # None
                             /\ b \notin c.todo[c.depth] => b <= a
    PROVE  \E p \in Reach(u) : \/ Adoption(u, p, c, a)
                               \/ Return(u, p, c) /\ Link(u, p, c.depth, a)
  <1> DEFINE n == c.depth
             r == c.right[n]
  <1>1. c \in Configuration /\ Sound(u, c) /\ ~StartsRun(u, c)
    BY ReachSound DEF Reach, StartsRun
  <1>2. PICK p \in Reach(u) : RunStep(u, p, c)
    BY <1>1, ReachBack
  <1>3. p \in Configuration /\ Sound(u, p)
    BY ReachSound DEF Reach
  <1>4. n \in Nat /\ n \in 1 .. n /\ Symbol \subseteq Nat
    BY <1>1, ConfigurationTyped, AptaAssumption
  <1>5. /\ r \in Block(u) /\ r \in Node /\ Reps(c.heap)[r] = c.left[n] /\ c.left[n] \in Node
        /\ Reps(c.heap)[c.left[n]] = None /\ Reps(c.heap)[r] # None
        /\ Guards(c.heap)[r] = Guards(u.start)[r]
    <2>1. FrameOK(u, c, n) /\ GuardsOK(u, c)
      BY <1>1, <1>4 DEF Sound, FramesOK
    <2>2. r \in Block(u) /\ Reps(c.heap)[r] = c.left[n] /\ Reps(c.heap)[c.left[n]] = None
      BY <2>1 DEF FrameOK
    <2>3. r \in Node /\ c.left[n] \in Node
      BY <1>1, <1>4, ConfigurationTyped
    <2>4. QED
      BY <2>1, <2>2, <2>3, AptaAssumption DEF GuardsOK
  <1>6. ASSUME NEW b \in Symbol, c.todo[n] = Above(b), Guards(c.heap)[r][b] # None
        PROVE  a = b
    <2>1. a \in Nat /\ b \in Nat /\ b \notin Above(b)
      BY <1>4 DEF Above
    <2>2. ~ b < a
      BY <1>6 DEF Above
    <2>3. b <= a
      BY <1>6, <2>1
    <2>4. QED
      BY <2>1, <2>2, <2>3
  <1>7. p.todo \in [Nat -> SUBSET Symbol] /\ p.depth \in Nat /\ p.right \in [Nat -> Node]
    BY <1>3, ConfigurationTyped
  <1>8. CASE FirstJoin(u, p, c)
    <2>1. n = 1 /\ c.todo[n] = Symbol
      BY <1>7, <1>8 DEF FirstJoin
    <2>2. QED
      BY <2>1
  <1>9. ASSUME NEW b \in Symbol, FoldedJoin(u, p, c, b) PROVE FALSE
    <2>1. /\ c.depth = p.depth + 1
          /\ c.todo = [p.todo EXCEPT ![p.depth] = Above(b), ![p.depth + 1] = Symbol]
      BY <1>9 DEF FoldedJoin
    <2>2. Above(b) \subseteq Symbol
      BY DEF Above
    <2>3. [p.todo EXCEPT ![p.depth] = Above(b)] \in [Nat -> SUBSET Symbol]
      BY <1>7, <2>2
    <2>4. c.todo[n] = Symbol
      BY <1>7, <2>1, <2>3
    <2>5. QED
      BY <2>4
  <1>10. ASSUME NEW b \in Symbol, Adoption(u, p, c, b) PROVE Adoption(u, p, c, a)
    <2>1. /\ p.depth = n /\ p.left = c.left /\ p.right = c.right /\ c.todo[n] = Above(b)
          /\ c.heap = GuardHeap(p.heap, c.left[n], b, Guards(p.heap)[r][b])
          /\ Guards(p.heap)[r][b] # None
      BY <1>4, <1>7, <1>10 DEF Adoption, Due
    <2>2. Guards(c.heap)[r][b] # None
      <3>1. Guards(c.heap) = [Guards(p.heap) EXCEPT ![c.left[n]][b] = Guards(p.heap)[r][b]]
        BY ONLY <2>1 DEF GuardHeap, Guards
      <3>2. Guards(p.heap) \in [Node -> [Symbol -> Node \cup {None}]]
        BY <1>3, ConfigurationTyped
      <3>3. QED
        BY <1>5, <2>1, <3>1, <3>2
    <2>3. QED
      BY <1>6, <1>10, <2>1, <2>2
  <1>11. ASSUME Return(u, p, c) PROVE Link(u, p, n, a)
    <2>1. p.depth = n + 1 /\ p.todo = c.todo /\ p.right = c.right
      BY <1>7, <1>11 DEF Return
    <2>2. PICK b \in Symbol : Link(u, p, n, b)
      BY <1>3, <1>4, <2>1 DEF Sound, LinksOK
    <2>3. Guards(u.start)[r][b] # None /\ c.todo[n] = Above(b)
      BY <1>4, <1>7, <2>1, <2>2, AptaAssumption DEF Link
    <2>4. QED
      BY <1>5, <1>6, <2>2, <2>3
  <1>12. QED
    BY <1>2, <1>8, <1>9, <1>10, <1>11 DEF RunStep

\* A call that has processed nothing has just joined its nodes.
LEMMA JoinBack ==
    ASSUME NEW u, BlockIsTree(u), NEW c \in Reach(u), c.depth > 0,
           \A b \in Symbol : Guards(c.heap)[c.right[c.depth]][b] # None => b \in c.todo[c.depth]
    PROVE  \E p \in Reach(u) : \/ FirstJoin(u, p, c)
                               \/ \E b \in Symbol : FoldedJoin(u, p, c, b)
  <1> DEFINE n == c.depth
             r == c.right[n]
  <1>1. c \in Configuration /\ Sound(u, c) /\ ~StartsRun(u, c)
    BY ReachSound DEF Reach, StartsRun
  <1>2. PICK p \in Reach(u) : RunStep(u, p, c)
    BY <1>1, ReachBack
  <1>3. p \in Configuration /\ Sound(u, p)
    BY ReachSound DEF Reach
  <1>4. n \in Nat /\ n \in 1 .. n /\ Symbol \subseteq Nat
    BY <1>1, ConfigurationTyped, AptaAssumption
  <1>5. /\ r \in Block(u) /\ r \in Node /\ Reps(c.heap)[r] = c.left[n] /\ c.left[n] \in Node
        /\ Reps(c.heap)[c.left[n]] = None /\ Reps(c.heap)[r] # None
        /\ Guards(c.heap)[r] = Guards(u.start)[r]
    <2>1. FrameOK(u, c, n) /\ GuardsOK(u, c)
      BY <1>1, <1>4 DEF Sound, FramesOK
    <2>2. r \in Block(u) /\ Reps(c.heap)[r] = c.left[n] /\ Reps(c.heap)[c.left[n]] = None
      BY <2>1 DEF FrameOK
    <2>3. r \in Node /\ c.left[n] \in Node
      BY <1>1, <1>4, ConfigurationTyped
    <2>4. QED
      BY <2>1, <2>2, <2>3, AptaAssumption DEF GuardsOK
  <1>6. ASSUME NEW b \in Symbol, c.todo[n] = Above(b), Guards(c.heap)[r][b] # None
        PROVE  FALSE
    <2>1. b \notin Above(b)
      BY <1>4 DEF Above
    <2>2. QED
      BY <1>6, <2>1
  <1>7. p.todo \in [Nat -> SUBSET Symbol] /\ p.depth \in Nat /\ p.right \in [Nat -> Node]
    BY <1>3, ConfigurationTyped
  <1>8. ASSUME NEW b \in Symbol, Adoption(u, p, c, b) PROVE FALSE
    <2>1. /\ p.depth = n /\ p.left = c.left /\ p.right = c.right /\ c.todo[n] = Above(b)
          /\ c.heap = GuardHeap(p.heap, c.left[n], b, Guards(p.heap)[r][b])
          /\ Guards(p.heap)[r][b] # None
      BY <1>4, <1>7, <1>8 DEF Adoption, Due
    <2>2. Guards(c.heap)[r][b] # None
      <3>1. Guards(c.heap) = [Guards(p.heap) EXCEPT ![c.left[n]][b] = Guards(p.heap)[r][b]]
        BY ONLY <2>1 DEF GuardHeap, Guards
      <3>2. Guards(p.heap) \in [Node -> [Symbol -> Node \cup {None}]]
        BY <1>3, ConfigurationTyped
      <3>3. QED
        BY <1>5, <2>1, <3>1, <3>2
    <2>3. QED
      BY <1>6, <2>1, <2>2
  <1>9. ASSUME Return(u, p, c) PROVE FALSE
    <2>1. p.depth = n + 1 /\ p.todo = c.todo /\ p.right = c.right
      BY <1>7, <1>9 DEF Return
    <2>2. PICK b \in Symbol : Link(u, p, n, b)
      BY <1>3, <1>4, <2>1 DEF Sound, LinksOK
    <2>3. Guards(u.start)[r][b] # None /\ c.todo[n] = Above(b)
      BY <1>4, <1>7, <2>1, <2>2, AptaAssumption DEF Link
    <2>4. QED
      BY <1>5, <1>6, <2>3
  <1>10. QED
    BY <1>2, <1>8, <1>9 DEF RunStep

\* A run that has merged its two states and is in no call has just returned.
LEMMA ReturnBack ==
    ASSUME NEW u, BlockIsTree(u), NEW c \in Reach(u), c.depth = 0,
           Reps(c.heap)[u.right] # None
    PROVE  \E p \in Reach(u) : Return(u, p, c) /\ p.depth = 1
  <1>1. c \in Configuration /\ ~StartsRun(u, c)
    BY BlockFacts DEF Reach, StartsRun
  <1>2. PICK p \in Reach(u) : RunStep(u, p, c)
    BY <1>1, ReachBack
  <1>3. p \in Configuration /\ p.depth \in Nat
    BY ConfigurationTyped DEF Reach
  <1>4. c.depth = 0
    OBVIOUS
  <1>5. ~FirstJoin(u, p, c)
    BY <1>4 DEF FirstJoin
  <1>6. ASSUME NEW b \in Symbol PROVE ~FoldedJoin(u, p, c, b)
    <2>1. FoldedJoin(u, p, c, b) => c.depth = p.depth + 1
      BY DEF FoldedJoin
    <2>2. QED
      BY <1>3, <1>4, <2>1
  <1>7. ASSUME NEW b \in Symbol PROVE ~Adoption(u, p, c, b)
    <2>1. Adoption(u, p, c, b) => c.depth = p.depth /\ p.depth > 0
      BY DEF Adoption, Due
    <2>2. QED
      BY <1>3, <1>4, <2>1
  <1>8. Return(u, p, c)
    BY <1>2, <1>5, <1>6, <1>7 DEF RunStep
  <1>9. c.depth = p.depth - 1
    BY <1>8 DEF Return
  <1>10. QED
    BY <1>3, <1>4, <1>8, <1>9

\* Separating what was joined last takes the heap back.
LEMMA JoinUndone ==
    ASSUME NEW u, BlockIsTree(u), NEW p \in Reach(u), NEW c \in Reach(u),
           FirstJoin(u, p, c) \/ \E b \in Symbol : FoldedJoin(u, p, c, b)
    PROVE  SeparateHeap(c.heap, c.left[c.depth], c.right[c.depth]) = p.heap
  <1>1. p \in Configuration /\ Sound(u, p)
    BY ReachSound DEF Reach
  <1>2. /\ p.heap \in Snapshot /\ p.left \in [Nat -> Node] /\ p.right \in [Nat -> Node]
        /\ p.depth \in Nat
    BY <1>1, ConfigurationTyped
  <1>3. ASSUME NEW l, NEW r, Joins(u, p, c, l, r)
        PROVE  SeparateHeap(c.heap, l, r) = p.heap
    <2>1. /\ l \in Node /\ r \in Node /\ l # r /\ Reps(p.heap)[r] = None
          /\ c.heap = JoinHeap(p.heap, l, r)
      BY <1>1, <1>3, JoinFacts DEF Joins
    <2>2. NextsMerged(p.heap)[r] = None
      BY <1>1, <2>1 DEF Sound, RepsOK
    <2>3. QED
      BY <1>2, <2>1, <2>2, SeparateJoined
  <1>4. CASE FirstJoin(u, p, c)
    <2>1. c.depth = 1 /\ c.left[1] = u.left /\ c.right[1] = u.right
      BY <1>2, <1>4 DEF FirstJoin
    <2>2. Joins(u, p, c, u.left, u.right)
      BY <1>1, <1>4, FirstJoinJoins DEF Reach
    <2>3. QED
      BY <1>3, <2>1, <2>2
  <1>5. ASSUME NEW b \in Symbol, FoldedJoin(u, p, c, b)
        PROVE  SeparateHeap(c.heap, c.left[c.depth], c.right[c.depth]) = p.heap
    <2> DEFINE l == Found(u, p.heap, Guards(p.heap)[p.left[p.depth]][b])
               r == Guards(p.heap)[p.right[p.depth]][b]
    <2>1. c.depth = p.depth + 1 /\ c.left[c.depth] = l /\ c.right[c.depth] = r
      <3>1. /\ c.depth = p.depth + 1
            /\ c.left = [p.left EXCEPT ![p.depth + 1] = l]
            /\ c.right = [p.right EXCEPT ![p.depth + 1] = r]
        BY <1>5 DEF FoldedJoin
      <3> HIDE DEF l, r
      <3>2. QED
        BY <1>2, <3>1
    <2>2. Joins(u, p, c, l, r)
      BY <1>1, <1>5, FoldedJoinJoins DEF Reach
    <2> HIDE DEF l, r
    <2>3. QED
      BY <1>3, <2>1, <2>2
  <1>6. QED
    BY <1>4, <1>5

\* Taking the child away that was adopted last takes the heap back.
LEMMA AdoptionUndone ==
    ASSUME NEW u, NEW p \in Reach(u), NEW c \in Reach(u),
           NEW a \in Symbol, Adoption(u, p, c, a)
    PROVE  GuardHeap(c.heap, c.left[c.depth], a, None) = p.heap
  <1>1. p.heap \in Snapshot /\ p.left \in [Nat -> Node] /\ p.depth \in Nat
    BY ConfigurationTyped DEF Reach
  <1> DEFINE l == p.left[p.depth]
             t == Guards(p.heap)[p.right[p.depth]][a]
  <1>2. /\ Guards(p.heap)[l][a] = None /\ c.heap = GuardHeap(p.heap, l, a, t)
        /\ c.left[c.depth] = l /\ l \in Node
    BY <1>1 DEF Adoption
  <1> HIDE DEF l, t
  <1>3. GuardHeap(GuardHeap(p.heap, l, a, t), l, a, None) = p.heap
    BY <1>1, <1>2, UnguardGuarded
  <1>4. QED
    BY <1>2, <1>3

-----------------------------------------------------------------------------
(* Idle heaps.                                                             *)

\* The pointers of the prefix tree.
LEMMA TreeFacts ==
    ASSUME tree \in Trees
    PROVE  /\ tree.nodes \subseteq Node /\ Root \in tree.nodes
           /\ \A n \in tree.nodes \ {Root} :
                 /\ tree.source[n] \in tree.nodes /\ tree.symbol[n] \in Symbol
                 /\ tree.child[tree.source[n]][tree.symbol[n]] = n
           /\ \A n \in Node : n \notin tree.nodes \ {Root} => tree.source[n] = None
           /\ \A m \in Node, a \in Symbol : tree.child[m][a] # None =>
                 /\ tree.child[m][a] \in tree.nodes \ {Root}
                 /\ tree.source[tree.child[m][a]] = m /\ tree.symbol[tree.child[m][a]] = a
           /\ \A S \in SUBSET tree.nodes : S # {} => \E n \in S : tree.source[n] \notin S
           /\ IsFiniteSet(tree.nodes)
  <1>1. IsPrefixTree(tree)
    BY TreesAssumption
  <1>2. QED
    BY <1>1 DEF IsPrefixTree

\* find() in an idle heap.
LEMMA IdleFinds ==
    ASSUME NEW h, IdleHeap(h)
    PROVE  /\ h \in Snapshot
           /\ Guards(h) \in [Node -> [Symbol -> Node \cup {None}]]
           /\ Reps(h) \in [Node -> Node \cup {None}]
           /\ Finds(h) \in [Node -> Node]
           /\ \A n \in Node :
                 /\ Finds(h)[n] = IF Reps(h)[n] = None THEN n ELSE Finds(h)[Reps(h)[n]]
                 /\ Reps(h)[Finds(h)[n]] = None
  <1>1. h \in Snapshot /\ WellFounded(Reps(h))
    BY DEF IdleHeap
  <1>2. Reps(h) \in [Node -> Node \cup {None}] /\ Guards(h) \in [Node -> [Symbol -> Node \cup {None}]]
    BY <1>1, SnapshotParts
  <1>3. QED
    BY <1>1, <1>2, FindEquation DEF Finds

\* It stays among the nodes of the tree.
LEMMA IdleParents ==
    ASSUME tree \in Trees, NEW h, IdleHeap(h)
    PROVE  /\ \A n \in tree.nodes : Finds(h)[n] \in tree.nodes
           /\ \A n \in tree.nodes \ {Root} :
                 Parent(h, n) \in tree.nodes /\ Reps(h)[Parent(h, n)] = None
  <1>1. \A n \in tree.nodes : Finds(h)[n] \in tree.nodes
    <2> DEFINE S == {n \in tree.nodes : Finds(h)[n] \notin tree.nodes}
    <2> SUFFICES ASSUME S # {} PROVE FALSE
      OBVIOUS
    <2>1. S \in SUBSET Node
      BY TreeFacts
    <2>2. PICK n \in S : Reps(h)[n] \notin S
      BY <2>1 DEF IdleHeap, WellFounded
    <2>3. n \in Node
      BY <2>1
    <2>4. QED
      BY <2>2, <2>3, IdleFinds DEF IdleHeap
  <1>2. QED
    BY <1>1, TreeFacts, IdleFinds DEF Parent

\* Colouring blue states leaves an idle heap.
LEMMA ColouredIdle ==
    ASSUME tree \in Trees, NEW h, IdleHeap(h), NEW C, NEW g, Coloured(h, C, g)
    PROVE  /\ IdleHeap(g)
           /\ Guards(g) = Guards(h) /\ Reps(g) = Reps(h)
           /\ NextsMerged(g) = NextsMerged(h) /\ Finds(g) = Finds(h)
           /\ \A n : Parent(g, n) = Parent(h, n)
  <1>1. /\ Guards(g) = Guards(h) /\ Reps(g) = Reps(h)
        /\ NextsMerged(g) = NextsMerged(h) /\ g \in Snapshot /\ C \subseteq Blues(h)
        /\ \A n \in Node : Reds(g)[n] <=> Reds(h)[n] \/ n \in C
        /\ \A n \in Node \ C : Sinks(g)[n] = Sinks(h)[n]
    BY DEF Coloured, Guards, Reps, NextsMerged
  <1>2. Finds(g) = Finds(h)
    BY <1>1 DEF Finds
  <1>3. \A n : Parent(g, n) = Parent(h, n)
    BY <1>2 DEF Parent
  <1>4. Root \in Node /\ tree.nodes \subseteq Node
    BY TreeFacts
  <1>5. GuardsLead(g)
    <2> SUFFICES ASSUME NEW x \in Node, NEW a \in Symbol, Reps(h)[x] = None,
                        Guards(h)[x][a] # None
                 PROVE  LET t == Guards(h)[x][a] IN
                        /\ t \in tree.nodes \ {Root} /\ tree.symbol[t] = a /\ Parent(h, t) = x
                        /\ Reps(h)[t] = None \/ (Reds(g)[x] /\ Reds(g)[Finds(h)[t]])
      BY <1>1, <1>2, <1>3 DEF GuardsLead
    <2> DEFINE t == Guards(h)[x][a]
    <2>1. /\ t \in tree.nodes \ {Root} /\ tree.symbol[t] = a /\ Parent(h, t) = x
          /\ Reps(h)[t] = None \/ (Reds(h)[x] /\ Reds(h)[Finds(h)[t]])
      BY DEF IdleHeap, GuardsLead
    <2>2. Finds(h)[t] \in Node
      BY <1>4, <2>1, IdleFinds
    <2>3. QED
      BY <1>1, <2>1, <2>2
  <1>6. NodesFound(g)
    <2>1. NodesFound(h)
      BY DEF IdleHeap
    <2>2. QED
      BY <1>1, <1>2, <1>3, <2>1 DEF NodesFound
  <1>7. RedsBelowRed(g)
    <2> SUFFICES ASSUME NEW n \in tree.nodes \ {Root}, Reds(g)[n], Reps(h)[n] = None
                 PROVE  Reds(g)[Parent(h, n)]
      BY <1>1, <1>3 DEF RedsBelowRed
    <2>1. Parent(h, n) \in Node /\ n \in Node
      BY <1>4, IdleParents
    <2>2. Reds(h)[Parent(h, n)]
      BY <1>1, <2>1 DEF IdleHeap, RedsBelowRed, Blues
    <2>3. QED
      BY <1>1, <2>1, <2>2
  <1>8. Clean(g)
    BY <1>1 DEF Clean, IdleHeap
  <1>9. StatesHang(g)
    BY <1>1, <1>3 DEF IdleHeap, StatesHang
  <1>10. QED
    BY <1>1, <1>2, <1>3, <1>4, <1>5, <1>6, <1>7, <1>8, <1>9 DEF IdleHeap

\* Colouring nothing changes nothing.
LEMMA ColouredNone ==
    ASSUME NEW h \in Snapshot, NEW g, Coloured(h, {}, g)
    PROVE  g = h
  <1>1. g \in Snapshot /\ g[8] \in [Node -> BOOLEAN] /\ h[8] \in [Node -> BOOLEAN]
        /\ g[9] \in [Node -> Int] /\ h[9] \in [Node -> Int]
    BY SnapshotParts DEF Coloured, Reds, Sinks
  <1>2. g[8] = h[8]
    <2>1. \A n \in Node : g[8][n] = h[8][n]
      BY <1>1 DEF Coloured, Reds
    <2>2. QED
      BY <1>1, <2>1
  <1>3. g[9] = h[9]
    BY <1>1 DEF Coloured, Sinks
  <1>4. g = <<g[1], g[2], g[3], g[4], g[5], g[6], g[7], g[8], g[9]>>
    BY <1>1, SnapshotParts
  <1>5. h = <<h[1], h[2], h[3], h[4], h[5], h[6], h[7], h[8], h[9]>>
    BY SnapshotParts
  <1>6. QED
    BY <1>2, <1>3, <1>4, <1>5 DEF Coloured

-----------------------------------------------------------------------------
(* Merges of idle heaps.                                                   *)

\* A merge starts on an idle heap with a tree of states that are not red below
\* the right state.
LEMMA RunStarts ==
    ASSUME NEW u, NEW b, RunsOn(u, b)
    PROVE  /\ BlockIsTree(u) /\ IdleHeap(u.start)
           /\ u.left \in tree.nodes /\ u.right \in tree.nodes \ {Root}
           /\ \A x \in Block(u) : ~Reds(b)[x]
           /\ \A x \in Block(u) \ {u.right} : ~Reds(u.start)[x]
           /\ u.stops \/ Reds(u.start)[u.left]
           /\ Reds(u.start)[Parent(u.start, u.right)]
  <1> DEFINE s == u.start
             C == IF u.stops \/ Reds(b)[u.left] THEN {} ELSE {u.left, u.right}
  <1>1. /\ tree \in Trees /\ u \in Run /\ IdleHeap(b) /\ MergeableIn(b, u.left, u.right)
        /\ Coloured(b, C, s)
    BY DEF RunsOn
  <1>2. s \in Snapshot /\ u.left \in Node /\ u.right \in Node /\ u.stops \in BOOLEAN
    BY <1>1 DEF Run
  <1>3. /\ IdleHeap(s) /\ Guards(s) = Guards(b) /\ Reps(s) = Reps(b)
        /\ NextsMerged(s) = NextsMerged(b) /\ Finds(s) = Finds(b)
        /\ \A n : Parent(s, n) = Parent(b, n)
    <2> HIDE DEF C, s
    <2>1. QED
      BY <1>1, ColouredIdle
  <1>4. /\ \A n \in Node : Reds(s)[n] <=> Reds(b)[n] \/ n \in C
        /\ C \subseteq {u.left, u.right}
        /\ u.stops \/ Reds(b)[u.left] \/ u.left \in C
    BY <1>1 DEF Coloured
  <1> HIDE DEF C
  <1>5. /\ u.left \in tree.nodes /\ u.right \in tree.nodes /\ u.left # u.right
        /\ Reds(b)[u.left] \/ Reds(b)[Parent(b, u.left)]
        /\ ~Reds(b)[u.right] /\ Reds(b)[Parent(b, u.right)]
        /\ Reps(b)[u.left] = None /\ Reps(b)[u.right] = None
    BY <1>1 DEF MergeableIn
  <1>6. /\ GuardsLead(b) /\ NodesFound(b) /\ RedsBelowRed(b) /\ Clean(b)
        /\ Reds(b)[Root] /\ WellFounded(Reps(b))
    BY <1>1 DEF IdleHeap
  <1>7. /\ tree.nodes \subseteq Node
        /\ \A n \in tree.nodes \ {Root} :
              Parent(b, n) \in tree.nodes /\ Reps(b)[Parent(b, n)] = None
    BY <1>1, TreeFacts, IdleParents
  <1>8. u.right # Root
    BY <1>5, <1>6
  <1>9. Guards(s) \in [Node -> [Symbol -> Node \cup {None}]]
    BY <1>3, IdleFinds
  <1>10. \A x \in Node, a \in Symbol : Reps(b)[x] = None /\ Guards(s)[x][a] # None =>
            /\ Guards(s)[x][a] \in tree.nodes \ {Root}
            /\ tree.symbol[Guards(s)[x][a]] = a /\ Parent(b, Guards(s)[x][a]) = x
            /\ \/ Reps(b)[Guards(s)[x][a]] = None
               \/ Reds(b)[x] /\ Reds(b)[Finds(b)[Guards(s)[x][a]]]
    BY <1>3, <1>6 DEF GuardsLead
  <1> DEFINE S == {x \in tree.nodes \ {Root} : Reps(b)[x] = None /\ ~Reds(b)[x]}
  <1>11. ClosedUnder(Guards(s), S)
    <2> SUFFICES ASSUME NEW x \in S, NEW a \in Symbol, Guards(s)[x][a] # None
                 PROVE  Guards(s)[x][a] \in S
      BY DEF ClosedUnder
    <2> DEFINE t == Guards(s)[x][a]
    <2>1. /\ t \in tree.nodes \ {Root} /\ Parent(b, t) = x
          /\ Reps(b)[t] = None \/ (Reds(b)[x] /\ Reds(b)[Finds(b)[t]])
      BY <1>7, <1>10
    <2>2. QED
      BY <1>6, <2>1 DEF RedsBelowRed
  <1>12. S \subseteq Node /\ u.right \in S
    BY <1>5, <1>7, <1>8
  <1>13. /\ u.right \in Block(u) /\ Block(u) \subseteq S
         /\ \A x \in Block(u) \ {u.right} :
               \E y \in Block(u), a \in Symbol : Guards(s)[y][a] = x
    <2>1. ClosedUnder(Guards(s), Node)
      BY <1>9 DEF ClosedUnder
    <2> HIDE DEF S, s
    <2>2. /\ u.right \in Subtree(Guards(s), u.right)
          /\ \A T \in SUBSET Node :
                u.right \in T /\ ClosedUnder(Guards(s), T) => Subtree(Guards(s), u.right) \subseteq T
          /\ \A x \in Subtree(Guards(s), u.right) \ {u.right} :
                \E y \in Subtree(Guards(s), u.right), a \in Symbol : Guards(s)[y][a] = x
      BY <1>2, <2>1, SubtreeLeast
    <2>3. QED
      BY <1>11, <1>12, <2>2 DEF Block, s
  <1>14. ASSUME NEW x \in Block(u)
         PROVE  x = u.right <=> Parent(b, x) \notin Block(u)
    <2>1. CASE x = u.right
      BY <1>5, <1>13, <2>1
    <2>2. CASE x # u.right
      <3>1. PICK y \in Block(u), a \in Symbol : Guards(s)[y][a] = x
        BY <1>13, <2>2
      <3>2. y \in Node /\ Reps(b)[y] = None /\ x # None
        BY <1>7, <1>13, AptaAssumption
      <3>3. Parent(b, x) = y
        BY <1>10, <3>1, <3>2
      <3>4. QED
        BY <2>2, <3>3
    <2>3. QED
      BY <2>1, <2>2
  <1>15. u.left \notin Block(u)
    <2> SUFFICES ASSUME u.left \in Block(u) PROVE FALSE
      OBVIOUS
    <2>1. ~Reds(b)[u.left] /\ Parent(b, u.left) \in Block(u)
      BY <1>5, <1>13, <1>14
    <2>2. QED
      BY <1>5, <1>13, <2>1
  <1>16. ASSUME NEW x \in Block(u)
         PROVE  /\ x \in tree.nodes \ {Root} /\ Reps(b)[x] = None
                /\ Parent(b, x) \in Node
                /\ Guards(s)[Parent(b, x)][tree.symbol[x]] = x
    <2>1. x \in tree.nodes \ {Root} /\ Reps(b)[x] = None
      BY <1>13
    <2>2. QED
      BY <1>3, <1>6, <1>7, <2>1 DEF NodesFound
  <1>17. ASSUME NEW x \in Node, NEW a \in Symbol, Reps(b)[x] = None, Guards(s)[x][a] # None
         PROVE  /\ tree.symbol[Guards(s)[x][a]] = a /\ Parent(b, Guards(s)[x][a]) = x
                /\ \/ Reps(b)[Guards(s)[x][a]] = None
                   \/ Finds(b)[Guards(s)[x][a]] \notin Block(u)
    BY <1>10, <1>13, <1>17
  <1>18. \A x \in Node : Reps(b)[x] = None => NextsMerged(b)[x] = None
    BY <1>6 DEF Clean
  <1>19. BlockIsTree(u)
    <2>1. \A x \in Block(u) :
             /\ x \in tree.nodes \ {Root} /\ Reps(s)[x] = None
             /\ Parent(s, x) \in Node
             /\ Guards(s)[Parent(s, x)][tree.symbol[x]] = x
             /\ x = u.right <=> Parent(s, x) \notin Block(u)
      BY <1>3, <1>14, <1>16
    <2>2. \A x \in Node, a \in Symbol :
             LET t == Guards(s)[x][a] IN
             Reps(s)[x] = None /\ t # None =>
                /\ tree.symbol[t] = a /\ Parent(s, t) = x
                /\ Reps(s)[t] = None \/ Finds(s)[t] \notin Block(u)
      BY <1>3, <1>17
    <2>3. /\ u \in Run /\ tree \in Trees /\ WellFounded(Reps(s))
          /\ Reps(s)[u.left] = None /\ u.left \notin Block(u)
          /\ \A x \in Node : Reps(s)[x] = None => NextsMerged(s)[x] = None
      BY <1>1, <1>3, <1>5, <1>6, <1>15, <1>18
    <2>4. QED
      BY <2>1, <2>2, <2>3 DEF BlockIsTree
  <1>20. \A x \in Block(u) : ~Reds(b)[x] /\ x \in Node
    BY <1>7, <1>13
  <1>21. \A x \in Block(u) \ {u.right} : ~Reds(s)[x]
    BY <1>4, <1>15, <1>20
  <1>22. u.stops \/ Reds(s)[u.left]
    BY <1>2, <1>4
  <1>23. Reds(s)[Parent(s, u.right)]
    BY <1>3, <1>4, <1>5, <1>7, <1>8
  <1>24. QED
    BY <1>3, <1>5, <1>8, <1>19, <1>20, <1>21, <1>22, <1>23

\* In a run find() leads to a node of the tree from every node of the tree, and
\* what is merged hangs below what is merged.
LEMMA FoundInTree ==
    ASSUME NEW u, NEW b, RunsOn(u, b), NEW c, Sound(u, c), Gathered(u, c),
           NEW n \in tree.nodes
    PROVE  Found(u, c.heap, n) \in tree.nodes
  <1> DEFINE m == Finds(u.start)[n]
  <1>1. tree \in Trees /\ IdleHeap(u.start)
    BY RunStarts DEF RunsOn
  <1>2. m \in tree.nodes /\ m \in Node /\ Reps(u.start)[m] = None
    BY <1>1, IdleParents, IdleFinds, TreeFacts
  <1>3. Reps(c.heap)[m] # None => m \in Block(u)
    BY <1>2 DEF Sound, RepsOK
  <1>4. QED
    BY <1>2, <1>3 DEF Found, Gathered

\* Every step of a run keeps what is merged gathered below the right state.
LEMMA GatheredStep ==
    ASSUME NEW u, NEW b, RunsOn(u, b), NEW c, Sound(u, c), Gathered(u, c),
           NEW d \in Configuration, RunStep(u, c, d)
    PROVE  Gathered(u, d)
  <1>1. /\ BlockIsTree(u) /\ IdleHeap(u.start) /\ tree \in Trees
        /\ u.left \in tree.nodes /\ u.right \in tree.nodes
    BY RunStarts DEF RunsOn
  <1>2. /\ c \in Configuration /\ FreshOK(u, c) /\ RepsOK(u, c) /\ GuardsOK(u, c)
    BY DEF Sound
  <1>3. ASSUME NEW l \in tree.nodes, NEW r \in Block(u), d.heap = JoinHeap(c.heap, l, r),
               r = u.right \/ Reps(c.heap)[Parent(u.start, r)] # None
        PROVE  Gathered(u, d)
    <2>1. l \in Node /\ r \in Node /\ l # None /\ Block(u) \subseteq Node
      BY <1>1, TreeFacts, BlockFacts, AptaAssumption
    <2>2. /\ Reps(c.heap) \in [Node -> Node \cup {None}]
          /\ Reps(d.heap) = [Reps(c.heap) EXCEPT ![r] = l]
      <3>1. c.heap \in Snapshot /\ Reps(c.heap) \in [Node -> Node \cup {None}]
        BY <1>2, ConfigurationTyped
      <3>2. Reps(JoinHeap(c.heap, l, r)) = [Reps(c.heap) EXCEPT ![r] = l]
        BY ONLY <2>1, <3>1, JoinedHeap
      <3>3. QED
        BY <1>3, <3>1, <3>2
    <2>3. ASSUME NEW x \in Block(u), Reps(d.heap)[x] # None
          PROVE  /\ x = u.right \/ Reps(d.heap)[Parent(u.start, x)] # None
                 /\ Reps(d.heap)[x] \in tree.nodes
      <3>1. Parent(u.start, x) \in Node /\ x \in Node
        BY <1>1, <2>1, BlockParents
      <3>2. CASE x = r
        BY <1>3, <2>1, <2>2, <3>1, <3>2
      <3>3. CASE x # r
        <4>1. Reps(d.heap)[x] = Reps(c.heap)[x]
          BY <2>2, <3>1, <3>3
        <4>2. /\ x = u.right \/ Reps(c.heap)[Parent(u.start, x)] # None
              /\ Reps(c.heap)[x] \in tree.nodes
          BY <2>3, <4>1 DEF Gathered
        <4>3. QED
          BY <2>1, <2>2, <3>1, <4>1, <4>2
      <3>4. QED
        BY <3>2, <3>3
    <2>4. QED
      BY <2>3 DEF Gathered
  <1>4. CASE FirstJoin(u, c, d)
    <2>1. u.right \in Block(u)
      BY <1>1, BlockFacts
    <2>2. QED
      BY <1>1, <1>3, <1>4, <2>1 DEF FirstJoin
  <1>5. ASSUME NEW a \in Symbol, FoldedJoin(u, c, d, a) PROVE Gathered(u, d)
    <2> DEFINE x == c.left[c.depth]
               t == Guards(c.heap)[x][a]
               l == Found(u, c.heap, t)
               p == c.right[c.depth]
               r == Guards(c.heap)[p][a]
    <2>1. c.depth > 0 /\ a \in c.todo[c.depth] /\ r # None /\ t # None
          /\ d.heap = JoinHeap(c.heap, l, r)
      BY <1>5 DEF FoldedJoin, Due
    <2>2. /\ x \in Node /\ Reps(c.heap)[x] = None /\ p \in Block(u) /\ Reps(c.heap)[p] = x
          /\ r \in Block(u) /\ Parent(u.start, r) = p
      <3>1. /\ BlockIsTree(u) /\ Sound(u, c) /\ c.depth > 0 /\ a \in c.todo[c.depth]
            /\ Guards(c.heap)[c.right[c.depth]][a] # None
        BY <1>1, <2>1
      <3>2. QED
        BY ONLY <3>1, DueChild
    <2>3. Reps(c.heap)[Parent(u.start, r)] # None
      BY <2>2, AptaAssumption
    <2>4. t \in tree.nodes
      <3>1. CASE t = Guards(u.start)[x][a]
        <4>1. Reps(u.start)[x] = None
          BY <1>1, <1>2, <2>2, BlockFacts DEF RepsOK
        <4>2. QED
          BY <1>1, <2>1, <2>2, <3>1, <4>1 DEF IdleHeap, GuardsLead
      <3>2. CASE Adopted(u, c, x, a)
        BY <1>1, <3>2, BlockParents DEF Adopted
      <3>3. QED
        BY <1>2, <2>2, <3>1, <3>2 DEF GuardsOK
    <2>5. l \in tree.nodes
      BY <2>4, FoundInTree
    <2> HIDE DEF l, r
    <2>6. QED
      BY <1>3, <2>1, <2>2, <2>3, <2>5
  <1>6. ASSUME NEW a \in Symbol, Adoption(u, c, d, a) PROVE Gathered(u, d)
    <2>1. Reps(d.heap) = Reps(c.heap)
      BY <1>6 DEF Adoption, GuardHeap, Reps
    <2>2. QED
      BY <2>1 DEF Gathered
  <1>7. CASE Return(u, c, d)
    BY <1>7 DEF Return, Gathered
  <1>8. QED
    BY <1>4, <1>5, <1>6, <1>7 DEF RunStep

\* Every configuration of a run on an idle heap.
LEMMA ReachGathered ==
    ASSUME NEW u, NEW b, RunsOn(u, b), NEW c \in Reach(u)
    PROVE  Sound(u, c) /\ Gathered(u, c)
  <1>1. BlockIsTree(u)
    BY RunStarts
  <1> DEFINE S == {d \in Configuration : Sound(u, d) /\ Gathered(u, d)}
  <1>2. \A d \in Configuration : StartsRun(u, d) => d \in S
    <2> SUFFICES ASSUME NEW d \in Configuration, StartsRun(u, d) PROVE d \in S
      OBVIOUS
    <2>1. Gathered(u, d)
      BY <1>1, BlockFacts DEF Gathered, StartsRun
    <2>2. QED
      BY <1>1, <2>1, StartSound
  <1>3. \A p \in S, d \in Configuration : RunStep(u, p, d) => d \in S
    BY <1>1, StepSound, GatheredStep
  <1>4. Inductive(u, S)
    BY <1>2, <1>3 DEF Inductive
  <1>5. c \in S
    BY <1>4 DEF Reach
  <1>6. QED
    BY <1>5

\* find() in the heap a run has come to.
LEMMA RunFinds ==
    ASSUME NEW u, BlockIsTree(u), NEW c, Sound(u, c)
    PROVE  /\ WellFounded(Reps(c.heap))
           /\ \A n \in Node : Finds(c.heap)[n] = Found(u, c.heap, n)
  <1> DEFINE r == Reps(c.heap)
  <1>1. c \in Configuration /\ RepsOK(u, c) /\ r \in [Node -> Node \cup {None}]
    BY ConfigurationTyped DEF Sound
  <1>2. \A x \in Block(u) : r[x] # None => r[x] \in Node /\ r[r[x]] = None
    BY <1>1 DEF RepsOK
  <1>3. WellFounded(r)
    <2> SUFFICES ASSUME NEW S \in SUBSET Node, S # {} PROVE \E n \in S : r[n] \notin S
      BY DEF WellFounded
    <2>1. ASSUME NEW m \in S, m \in Block(u) PROVE \E n \in S : r[n] \notin S
      <3>1. CASE r[m] \notin S
        BY <2>1, <3>1
      <3>2. CASE r[m] \in S
        <4>1. r[r[m]] = None /\ None \notin S
          BY <1>2, <2>1, <3>2, AptaAssumption
        <4>2. QED
          BY <3>2, <4>1
      <3>3. QED
        BY <3>1, <3>2
    <2>2. CASE \A m \in S : m \notin Block(u)
      <3>1. PICK n \in S : Reps(u.start)[n] \notin S
        BY DEF BlockIsTree, WellFounded
      <3>2. r[n] = Reps(u.start)[n]
        BY <1>1, <2>2, <3>1 DEF RepsOK
      <3>3. QED
        BY <3>1, <3>2
    <2>3. QED
      BY <2>1, <2>2
  <1>4. \A n \in Node : Found(u, c.heap, n)
           = IF r[n] = None THEN n ELSE Found(u, c.heap, r[n])
    BY <1>1, FoundEquation
  <1> DEFINE g == [n \in Node |-> Found(u, c.heap, n)]
  <1>5. \A n \in Node : g[n] = IF r[n] = None THEN n ELSE g[r[n]]
    <2>1. \A n \in Node : r[n] # None => r[n] \in Node
      BY <1>1
    <2>2. QED
      BY <1>4, <2>1
  <1>6. \A n \in Node : g[n] = Found(u, c.heap, n)
    OBVIOUS
  <1>7. \A n \in Node : findIn(r)[n] = g[n]
    <2> HIDE DEF g, r
    <2>1. QED
      BY ONLY <1>1, <1>3, <1>5, FindUnique
  <1>8. QED
    BY <1>3, <1>6, <1>7 DEF Finds

\* What the run has come to hangs below what it has come to.
LEMMA HangOutside ==
    ASSUME NEW u, NEW b, RunsOn(u, b), NEW c, Sound(u, c),
           NEW n \in tree.nodes \ {Root}, Reps(c.heap)[n] = None, n \notin c.fresh
    PROVE  Found(u, c.heap, tree.source[n]) \notin c.fresh
  <1> DEFINE p == Parent(u.start, n)
  <1>1. /\ BlockIsTree(u) /\ IdleHeap(u.start) /\ tree \in Trees
    BY RunStarts DEF RunsOn
  <1>2. RepsOK(u, c) /\ c.fresh \subseteq Block(u) /\ ClosedUnder(Guards(u.start), c.fresh)
    BY DEF Sound, FreshOK
  <1>3. /\ p \in Node /\ Reps(u.start)[p] = None /\ n \in Node /\ n # None
        /\ tree.symbol[n] \in Symbol
    BY <1>1, IdleParents, TreeFacts, AptaAssumption
  <1>4. Found(u, c.heap, tree.source[n])
           = IF Reps(c.heap)[p] = None THEN p ELSE Reps(c.heap)[p]
    BY DEF Found, Parent
  <1> HIDE DEF p
  <1>5. CASE Reps(c.heap)[p] # None
    <2>1. p \in Block(u)
      BY <1>2, <1>3, <1>5 DEF RepsOK
    <2>2. QED
      BY <1>2, <1>4, <1>5, <2>1 DEF RepsOK
  <1>6. CASE Reps(c.heap)[p] = None
    <2>1. Reps(u.start)[n] = None
      BY <1>1, <1>2, <1>3, BlockFacts DEF RepsOK
    <2>2. Guards(u.start)[p][tree.symbol[n]] = n
      BY <1>1, <2>1 DEF IdleHeap, NodesFound, p
    <2>3. p \notin c.fresh
      BY <1>2, <1>3, <2>2 DEF ClosedUnder
    <2>4. QED
      BY <1>4, <1>6, <2>3
  <1>7. QED
    BY <1>5, <1>6

\* Joining a node the run has not come to with one it has leaves them hanging.
LEMMA JoinHangs ==
    ASSUME NEW u, NEW b, RunsOn(u, b), NEW c, Sound(u, c), Hanging(u, c),
           NEW d, NEW l, NEW r, Joins(u, c, d, l, r)
    PROVE  Hanging(u, d)
  <1>1. BlockIsTree(u) /\ tree \in Trees
    BY RunStarts DEF RunsOn
  <1>2. /\ r \in Node /\ l \in Node /\ Reps(d.heap)[r] = l
        /\ \A x \in Node \ {r} : Reps(d.heap)[x] = Reps(c.heap)[x]
        /\ \A n \in Node : Found(u, d.heap, n)
              = IF Found(u, c.heap, n) = r THEN l ELSE Found(u, c.heap, n)
    BY <1>1, JoinFacts
  <1>3. r \in c.fresh /\ l \notin c.fresh /\ l # None
    BY <1>2, AptaAssumption DEF Joins
  <1>4. tree.nodes \subseteq Node /\ \A n \in tree.nodes \ {Root} : tree.source[n] \in Node
    BY <1>1, TreeFacts
  <1> SUFFICES ASSUME NEW S \in SUBSET (tree.nodes \ {Root}), S # {},
                      \A n \in S : Reps(d.heap)[n] = None
               PROVE  \E n \in S : Found(u, d.heap, tree.source[n]) \notin S
    BY DEF Hanging
  <1>5. \A n \in S : Reps(c.heap)[n] = None
    BY <1>2, <1>3, <1>4
  <1>6. \A n \in S : Found(u, d.heap, tree.source[n])
           = IF Found(u, c.heap, tree.source[n]) = r THEN l
             ELSE Found(u, c.heap, tree.source[n])
    BY <1>2, <1>4
  <1>7. CASE S \subseteq c.fresh
    <2>1. PICK n \in S : Found(u, c.heap, tree.source[n]) \notin S
      BY <1>5 DEF Hanging
    <2>2. QED
      BY <1>3, <1>6, <1>7, <2>1
  <1>8. CASE ~(S \subseteq c.fresh)
    <2> DEFINE T == S \ c.fresh
    <2>1. T \in SUBSET (tree.nodes \ {Root}) /\ T # {} /\ \A n \in T : Reps(c.heap)[n] = None
      BY <1>5, <1>8
    <2>2. PICK n \in T : Found(u, c.heap, tree.source[n]) \notin T
      <3> HIDE DEF T
      <3>1. QED
        BY <2>1 DEF Hanging
    <2>3. Found(u, c.heap, tree.source[n]) \notin c.fresh
      BY <1>5, <2>2, HangOutside
    <2>4. QED
      BY <1>3, <1>6, <2>2, <2>3
  <1>9. QED
    BY <1>7, <1>8

\* The states hang below the root in every configuration of a run.
LEMMA ReachHangs ==
    ASSUME NEW u, NEW b, RunsOn(u, b), NEW c \in Reach(u)
    PROVE  Hanging(u, c)
  <1>1. BlockIsTree(u) /\ IdleHeap(u.start) /\ tree \in Trees
    BY RunStarts DEF RunsOn
  <1> DEFINE S == {d \in Configuration : Sound(u, d) /\ Hanging(u, d)}
  <1>2. \A d \in Configuration : StartsRun(u, d) => d \in S
    <2> SUFFICES ASSUME NEW d \in Configuration, StartsRun(u, d) PROVE d \in S
      OBVIOUS
    <2>1. \A n \in tree.nodes \ {Root} :
             /\ Found(u, u.start, tree.source[n]) = Parent(u.start, n)
             /\ tree.source[n] \in Node
      <3>1. \A n \in tree.nodes \ {Root} : tree.source[n] \in Node
        BY <1>1, TreeFacts
      <3>2. QED
        BY <1>1, <3>1, IdleFinds DEF Found, Parent
    <2>2. d.heap = u.start
      BY DEF StartsRun
    <2>3. StatesHang(u.start)
      BY <1>1 DEF IdleHeap
    <2>4. Hanging(u, d)
      BY <2>1, <2>2, <2>3 DEF StatesHang, Hanging
    <2>5. QED
      BY <1>1, <2>4, StartSound
  <1>3. ASSUME NEW p \in S, NEW d \in Configuration, RunStep(u, p, d)
        PROVE  d \in S
    <2>1. Sound(u, p) /\ Hanging(u, p) /\ Sound(u, d)
      BY <1>1, <1>3, StepSound
    <2>2. ASSUME FirstJoin(u, p, d) PROVE Hanging(u, d)
      BY <1>1, <2>1, <2>2, FirstJoinJoins, JoinHangs
    <2>3. ASSUME NEW a \in Symbol, FoldedJoin(u, p, d, a) PROVE Hanging(u, d)
      BY <1>1, <2>1, <2>3, FoldedJoinJoins, JoinHangs
    <2>4. ASSUME Reps(d.heap) = Reps(p.heap) PROVE Hanging(u, d)
      BY <2>1, <2>4 DEF Hanging, Found
    <2>5. ASSUME NEW a \in Symbol, Adoption(u, p, d, a) PROVE Reps(d.heap) = Reps(p.heap)
      BY <2>5 DEF Adoption, GuardHeap, Reps
    <2>6. ASSUME Return(u, p, d) PROVE Hanging(u, d)
      BY <2>4, <2>6 DEF Return
    <2>7. Hanging(u, d)
      BY <1>3, <2>2, <2>3, <2>4, <2>5, <2>6 DEF RunStep
    <2>8. QED
      BY <2>1, <2>7
  <1>4. Inductive(u, S)
    BY <1>2, <1>3 DEF Inductive
  <1>5. c \in S
    BY <1>4 DEF Reach
  <1>6. QED
    BY <1>5

\* A merge that does not stop comes to every state below the right one.
LEMMA EndFresh ==
    ASSUME NEW u, BlockIsTree(u), ~u.stops, NEW c, Sound(u, c), c.depth = 0,
           Reps(c.heap)[u.right] # None
    PROVE  c.fresh = {}
  <1> DEFINE S == Block(u) \ c.fresh
  <1>1. FreshOK(u, c) /\ PendingOK(u, c)
    BY DEF Sound
  <1>2. u.right \in S
    BY <1>1, BlockFacts DEF FreshOK
  <1>3. ClosedUnder(Guards(u.start), S)
    <2> SUFFICES ASSUME NEW x \in S, NEW a \in Symbol, Guards(u.start)[x][a] # None
                 PROVE  Guards(u.start)[x][a] \in S
      BY DEF ClosedUnder
    <2>1. Guards(u.start)[x][a] \in Block(u)
      BY BlockFacts
    <2>2. Guards(u.start)[x][a] \notin c.fresh
      BY <1>1 DEF PendingOK
    <2>3. QED
      BY <2>1, <2>2
  <1>4. S \in SUBSET Node
    BY BlockFacts
  <1>5. Block(u) \subseteq S
    BY <1>2, <1>3, <1>4, BlockFacts
  <1>6. QED
    BY <1>1, <1>5 DEF FreshOK

\* A run that has come to every state below the right one leaves every node where
\* the guards lead.
LEMMA EndFound ==
    ASSUME tree \in Trees, NEW u, BlockIsTree(u), IdleHeap(u.start),
           NEW c, Sound(u, c), c.fresh = {}
    PROVE  NodesFound(c.heap)
  <1> DEFINE s == u.start
             g == c.heap
             F(n) == Found(u, g, n)
  <1>1. BlockIsTree(u) /\ IdleHeap(s)
    OBVIOUS
  <1>2. /\ c \in Configuration /\ RepsOK(u, c) /\ GuardsOK(u, c) /\ FoldedOK(u, c)
        /\ c.fresh = {}
    BY DEF Sound
  <1>3. \A n \in Node : Finds(g)[n] = F(n)
    BY RunFinds
  <1>4. /\ tree.nodes \subseteq Node /\ Root \in Node
        /\ \A n \in tree.nodes \ {Root} :
              tree.source[n] \in tree.nodes /\ tree.symbol[n] \in Symbol
    BY TreeFacts
  <1>5. /\ g \in Snapshot /\ Reps(g) \in [Node -> Node \cup {None}]
        /\ Guards(g) \in [Node -> [Symbol -> Node \cup {None}]]
    BY <1>2, ConfigurationTyped
  <1>6. /\ Block(u) \subseteq tree.nodes \ {Root}
        /\ \A x \in Block(u) : Reps(s)[x] = None
    BY BlockParents, BlockFacts DEF BlockIsTree
  <1>7. \A n \in Node \ Block(u) : Reps(g)[n] = Reps(s)[n]
    BY <1>2 DEF RepsOK
  <1>8. /\ Finds(s) \in [Node -> Node]
        /\ \A n \in Node : Finds(s)[n] = IF Reps(s)[n] = None THEN n ELSE Finds(s)[Reps(s)[n]]
        /\ \A n \in Node : Reps(s)[Finds(s)[n]] = None
    BY <1>1, IdleFinds
  <1>9. \A n : F(n) = IF Reps(g)[Finds(s)[n]] = None THEN Finds(s)[n] ELSE Reps(g)[Finds(s)[n]]
    BY DEF Found
  <1>10. \A n \in tree.nodes \ {Root} :
            /\ Parent(g, n) = IF Reps(g)[Parent(s, n)] = None THEN Parent(s, n)
                              ELSE Reps(g)[Parent(s, n)]
            /\ Parent(s, n) \in Node /\ Reps(s)[Parent(s, n)] = None
    BY <1>3, <1>4, <1>8, <1>9 DEF Parent
  <1>11. GuardsLead(s) /\ NodesFound(s)
    BY <1>1 DEF IdleHeap
  <1> HIDE DEF F, s, g
  <1>12. \A n \in Node : Reps(g)[n] = None => Reps(s)[n] = None
    BY <1>6, <1>7
  <1>13. NodesFound(g)
    <2> SUFFICES ASSUME NEW n \in tree.nodes \ {Root}
                 PROVE  LET t == Guards(g)[Parent(g, n)][tree.symbol[n]] IN
                        t # None /\ Finds(g)[t] = Finds(g)[n] /\ (Reps(g)[n] = None => t = n)
      BY DEF NodesFound
    <2> DEFINE a == tree.symbol[n]
               m == Parent(s, n)
               t0 == Guards(s)[m][a]
    <2>1. /\ n \in Node /\ a \in Symbol /\ m \in Node /\ Reps(s)[m] = None
      BY <1>4, <1>10
    <2>2. t0 # None /\ Finds(s)[t0] = Finds(s)[n] /\ (Reps(s)[n] = None => t0 = n)
      BY <1>11 DEF NodesFound
    <2>3. t0 \in tree.nodes \ {Root} /\ t0 \in Node
      BY <1>4, <1>11, <2>1, <2>2 DEF GuardsLead
    <2>4. F(t0) = F(n) /\ (Reps(g)[n] = None => t0 = n)
      BY <1>9, <1>12, <2>1, <2>2
    <2> HIDE DEF m, t0, a
    <2>5. CASE Reps(g)[m] = None
      <3>1. Parent(g, n) = m
        BY <1>10, <2>5 DEF m
      <3>2. ~Adopted(u, c, m, a)
        BY <2>2 DEF Adopted, t0, s
      <3>3. Guards(g)[m][a] = t0
        BY <1>2, <2>1, <3>2 DEF GuardsOK, t0, s, g
      <3>4. QED
        BY <1>3, <2>1, <2>2, <2>3, <2>4, <3>1, <3>3 DEF a
    <2>6. CASE Reps(g)[m] # None
      <3> DEFINE y == Reps(g)[m]
                 e == Guards(g)[y][a]
      <3>1. Parent(g, n) = y /\ y \in Node
        BY <1>5, <1>10, <2>1, <2>6 DEF m
      <3>2. m \in Block(u)
        BY <1>7, <2>1, <2>6
      <3>3. e = t0 \/ (Reps(g)[t0] # None /\ e # None /\ F(e) = Reps(g)[t0])
        BY <1>2, <2>1, <2>2, <2>6, <3>2 DEF FoldedOK, t0, s, g, F
      <3>4. e # None /\ e \in Node
        BY <1>5, <2>1, <2>2, <3>1, <3>3
      <3>5. Reps(s)[t0] = None /\ Finds(s)[t0] = t0
        BY <1>1, <1>6, <1>8, <2>1, <2>2, <2>3, <3>2, BlockFacts DEF t0, s
      <3>6. CASE e = t0
        BY <1>3, <2>1, <2>3, <2>4, <3>1, <3>4, <3>6 DEF a
      <3>7. CASE Reps(g)[t0] # None /\ F(e) = Reps(g)[t0]
        <4>1. F(t0) = Reps(g)[t0]
          BY <1>9, <3>5, <3>7
        <4>2. Reps(g)[n] # None
          BY <2>4, <3>7
        <4>3. QED
          BY <1>3, <2>1, <2>4, <3>1, <3>4, <3>7, <4>1, <4>2 DEF a
      <3>8. QED
        BY <3>3, <3>6, <3>7
    <2>7. QED
      BY <2>5, <2>6
  <1>14. QED
    BY <1>13 DEF g

\* Where the run ends the next operation may start, and its two states are
\* where they were.
LEMMA RunEnds ==
    ASSUME NEW u, NEW b, RunsOn(u, b), ~u.stops, NEW c, Ends(u, c)
    PROVE  /\ IdleHeap(c.heap)
           /\ Reds(c.heap) = Reds(u.start) /\ Sinks(c.heap) = Sinks(u.start)
           /\ Reps(c.heap)[u.left] = None /\ Reps(c.heap)[u.right] = u.left
           /\ Guards(c.heap)[Parent(c.heap, u.right)][tree.symbol[u.right]] = u.right
  <1> DEFINE s == u.start
             g == c.heap
             F(n) == Found(u, g, n)
  <1>1. /\ BlockIsTree(u) /\ IdleHeap(s) /\ tree \in Trees
        /\ u.left \in tree.nodes /\ u.right \in tree.nodes \ {Root}
        /\ \A x \in Block(u) \ {u.right} : ~Reds(s)[x]
        /\ Reds(s)[u.left] /\ Reds(s)[Parent(s, u.right)]
    BY RunStarts DEF RunsOn
  <1>2. /\ Sound(u, c) /\ Gathered(u, c) /\ c.depth = 0 /\ Reps(g)[u.right] # None
    BY ReachGathered DEF Ends
  <1>3. /\ c \in Configuration /\ RepsOK(u, c) /\ GuardsOK(u, c) /\ FoldedOK(u, c)
        /\ Reds(g) = Reds(s) /\ Sinks(g) = Sinks(s) /\ FreshOK(u, c)
    BY <1>2 DEF Sound
  <1>4. c.fresh = {}
    BY <1>1, <1>2, EndFresh
  <1>5. /\ WellFounded(Reps(g)) /\ \A n \in Node : Finds(g)[n] = F(n)
    BY <1>1, <1>2, RunFinds
  <1>6. /\ tree.nodes \subseteq Node /\ Root \in Node
        /\ \A n \in tree.nodes \ {Root} :
              tree.source[n] \in tree.nodes /\ tree.symbol[n] \in Symbol
    BY <1>1, TreeFacts
  <1>7. /\ g \in Snapshot /\ Reps(g) \in [Node -> Node \cup {None}]
        /\ Guards(g) \in [Node -> [Symbol -> Node \cup {None}]]
    BY <1>3, ConfigurationTyped
  <1>8. /\ Block(u) \subseteq tree.nodes \ {Root} /\ u.right \in Block(u)
        /\ \A x \in Block(u) : Reps(s)[x] = None
        /\ u.left \notin Block(u) /\ Parent(s, u.right) \notin Block(u)
    BY <1>1, BlockParents, BlockFacts DEF BlockIsTree
  <1>9. \A x \in Node \ Block(u) : Reps(g)[x] = Reps(s)[x]
    BY <1>3 DEF RepsOK
  <1>10. /\ Finds(s) \in [Node -> Node]
         /\ \A n \in Node : Finds(s)[n] = IF Reps(s)[n] = None THEN n ELSE Finds(s)[Reps(s)[n]]
         /\ \A n \in Node : Reps(s)[Finds(s)[n]] = None
    BY <1>1, IdleFinds
  <1>11. \A n : F(n) = IF Reps(g)[Finds(s)[n]] = None THEN Finds(s)[n] ELSE Reps(g)[Finds(s)[n]]
    BY DEF Found
  <1>12. \A n \in tree.nodes \ {Root} :
            /\ Parent(g, n) = IF Reps(g)[Parent(s, n)] = None THEN Parent(s, n)
                              ELSE Reps(g)[Parent(s, n)]
            /\ Parent(s, n) \in Node /\ Reps(s)[Parent(s, n)] = None
    BY <1>1, <1>5, <1>6, <1>10, <1>11 DEF Parent
  <1>13. Reps(s)[u.left] = None
    BY <1>1 DEF BlockIsTree
  <1>14. /\ Reps(s)[Root] = None /\ Reds(s)[Root] /\ GuardsLead(s) /\ NodesFound(s)
         /\ RedsBelowRed(s) /\ Clean(s)
         /\ \A n \in Node : Reps(s)[n] # None => n \in tree.nodes /\ Reps(s)[n] \in tree.nodes
    BY <1>1 DEF IdleHeap
  <1> HIDE DEF F, s, g
  \* A node that was a state and is none any more is in the block.
  <1>15. \A n \in Node : Reps(g)[n] = None => Reps(s)[n] = None
    BY <1>8, <1>9
  <1>16. \A n \in Node : Reps(g)[n] # None => n \in tree.nodes /\ Reps(g)[n] \in tree.nodes
    BY <1>2, <1>8, <1>9, <1>14 DEF Gathered, g
  <1>17. GuardsLead(g)
    <2> SUFFICES ASSUME NEW x \in Node, NEW a \in Symbol, Reps(g)[x] = None,
                        Guards(g)[x][a] # None
                 PROVE  LET t == Guards(g)[x][a] IN
                        /\ t \in tree.nodes \ {Root} /\ tree.symbol[t] = a /\ Parent(g, t) = x
                        /\ Reps(g)[t] = None \/ (Reds(s)[x] /\ Reds(s)[Finds(g)[t]])
      BY <1>3 DEF GuardsLead, s, g
    <2> DEFINE t == Guards(g)[x][a]
    <2>1. CASE Adopted(u, c, x, a)
      <3>1. /\ t \in Block(u) /\ Reps(g)[t] = None /\ tree.symbol[t] = a
            /\ F(tree.source[t]) = x
        BY <2>1 DEF Adopted, F, g
      <3>2. t \in tree.nodes \ {Root} /\ tree.source[t] \in Node
        BY <1>6, <1>8, <3>1
      <3>3. Parent(g, t) = x
        BY <1>5, <3>1, <3>2 DEF Parent
      <3>4. QED
        BY <3>1, <3>2, <3>3
    <2>2. CASE t = Guards(s)[x][a]
      <3>1. Reps(s)[x] = None
        BY <1>15
      <3>2. /\ t \in tree.nodes \ {Root} /\ tree.symbol[t] = a /\ Parent(s, t) = x
            /\ Reps(s)[t] = None \/ (Reds(s)[x] /\ Reds(s)[Finds(s)[t]])
        BY <1>14, <2>2, <3>1 DEF GuardsLead
      <3>3. Parent(g, t) = x /\ t \in Node
        BY <1>6, <1>12, <3>2
      <3>4. CASE Reps(s)[t] # None
        <4>1. Reds(s)[x] /\ Reds(s)[Finds(s)[t]] /\ Finds(s)[t] \notin Block(u)
          BY <1>1, <2>2, <3>1, <3>2, <3>4 DEF BlockIsTree, s
        <4>2. F(t) = Finds(s)[t]
          BY <1>9, <1>10, <1>11, <3>3, <4>1
        <4>3. QED
          BY <1>5, <3>2, <3>3, <4>1, <4>2
      <3>5. CASE Reps(s)[t] = None /\ Reps(g)[t] # None
        <4>1. t \in Block(u) /\ F(t) = Reps(g)[t]
          BY <1>9, <1>10, <1>11, <3>3, <3>5
        <4>2. t = u.right
          BY <1>2, <3>2, <3>5, <4>1 DEF Gathered, s, g
        <4>3. Reps(g)[t] = u.left
          BY <1>2, <1>3, <4>2 DEF FreshOK, g
        <4>4. QED
          BY <1>1, <1>5, <3>2, <3>3, <4>1, <4>2, <4>3 DEF s
      <3>6. QED
        BY <3>2, <3>3, <3>4, <3>5
    <2>3. QED
      BY <1>3, <2>1, <2>2 DEF GuardsOK, s, g
  <1>18. NodesFound(g)
    BY <1>1, <1>2, <1>4, EndFound DEF s, g
  <1>19. RedsBelowRed(g)
    <2> SUFFICES ASSUME NEW n \in tree.nodes \ {Root}, Reds(s)[n], Reps(g)[n] = None
                 PROVE  Reds(s)[Parent(g, n)]
      BY <1>3 DEF RedsBelowRed, g, s
    <2> DEFINE m == Parent(s, n)
    <2>1. Reps(s)[n] = None /\ Reds(s)[m] /\ m \in Node /\ n # u.right
      BY <1>2, <1>6, <1>12, <1>14, <1>15 DEF RedsBelowRed, g
    <2>2. Guards(s)[m][tree.symbol[n]] = n /\ n # None
      BY <1>6, <1>14, <2>1, AptaAssumption DEF NodesFound
    <2>3. m \notin Block(u)
      <3> SUFFICES ASSUME m \in Block(u) PROVE FALSE
        OBVIOUS
      <3>1. n \in Block(u)
        BY <1>1, <1>6, <2>2, BlockFacts DEF s
      <3>2. QED
        BY <1>1, <2>1, <3>1 DEF s
    <2>4. Reps(g)[m] = None
      BY <1>9, <1>12, <2>1, <2>3
    <2>5. QED
      BY <1>12, <2>1, <2>4
  <1>20. Clean(g)
    <2>1. \A n \in Node : Reps(g)[n] = None => NextsMerged(g)[n] = None
      BY <1>3 DEF RepsOK, g
    <2>2. QED
      BY <1>3, <1>14, <2>1 DEF Clean, s, g
  <1>21. Reps(g)[Root] = None /\ Reds(g)[Root]
    BY <1>3, <1>6, <1>8, <1>9, <1>14 DEF s, g
  <1>22. StatesHang(g)
    <2>1. Hanging(u, c)
      BY ReachHangs DEF Ends
    <2>2. \A n \in tree.nodes \ {Root} :
             Parent(g, n) = Found(u, g, tree.source[n]) /\ tree.source[n] \in Node
      BY <1>5, <1>6 DEF Parent, F
    <2>3. QED
      BY <2>1, <2>2 DEF Hanging, StatesHang, g
  <1>23. IdleHeap(g)
    BY <1>5, <1>7, <1>16, <1>17, <1>18, <1>19, <1>20, <1>21, <1>22 DEF IdleHeap
  <1>24. Reps(g)[u.left] = None /\ Reps(g)[u.right] = u.left
    BY <1>1, <1>2, <1>3, <1>6, <1>8, <1>9, <1>13 DEF FreshOK, g
  <1>25. Guards(g)[Parent(g, u.right)][tree.symbol[u.right]] = u.right
    <2> DEFINE m == Parent(s, u.right)
               a == tree.symbol[u.right]
    <2>1. m \in Node /\ Reps(s)[m] = None /\ a \in Symbol /\ Reps(s)[u.right] = None
      BY <1>1, <1>6, <1>8, <1>12
    <2>2. Reps(g)[m] = None /\ Parent(g, u.right) = m
      BY <1>1, <1>8, <1>9, <1>12, <2>1 DEF s
    <2>3. Guards(s)[m][a] = u.right
      BY <1>1, <1>14, <2>1 DEF NodesFound
    <2>4. ~Adopted(u, c, m, a)
      BY <1>1, <1>6, <2>3, AptaAssumption DEF Adopted, s
    <2>5. QED
      BY <1>3, <2>1, <2>2, <2>3, <2>4 DEF GuardsOK, g, s
  <1>26. QED
    BY <1>3, <1>23, <1>24, <1>25 DEF s, g

-----------------------------------------------------------------------------
(* The iterators.                                                          *)

\* A set of numbers has one whose predecessor is not in it.
LEMMA LeastNatural ==
    ASSUME NEW S \in SUBSET Nat, S # {}
    PROVE  \E n \in S : n - 1 \notin S
  <1> DEFINE T == {0 .. n : n \in S}
  <1>1. T \subseteq FiniteSubsetsOf(Nat) /\ T # {}
    <2>1. \A n \in S : 0 .. n \in SUBSET Nat /\ IsFiniteSet(0 .. n)
      BY FS_Interval
    <2>2. QED
      BY <2>1 DEF FiniteSubsetsOf
  <1>2. IsWellFoundedOn(StrictSubsetOrdering(Nat), FiniteSubsetsOf(Nat))
    BY FS_StrictSubsetOrderingWellFounded
  <1>3. \E x \in T : \A y \in T : <<y, x>> \notin StrictSubsetOrdering(Nat)
    <2> HIDE DEF T
    <2>1. QED
      BY <1>1, <1>2, WFMin
  <1>4. PICK n \in S : \A m \in S : <<0 .. m, 0 .. n>> \notin StrictSubsetOrdering(Nat)
    BY <1>3
  <1>5. n - 1 \in S => (0 .. (n - 1)) \subseteq (0 .. n) /\ n \notin (0 .. (n - 1)) /\ n \in 0 .. n
    OBVIOUS
  <1>6. n - 1 \in S => <<0 .. (n - 1), 0 .. n>> \in StrictSubsetOrdering(Nat)
    BY <1>5 DEF StrictSubsetOrdering
  <1>7. QED
    BY <1>4, <1>6

\* The parts of the heap by their names.
LEMMA HeapParts ==
    /\ Guards(heap) = child /\ Reps(heap) = rep /\ NextsMerged(heap) = nextMerged
    /\ Reds(heap) = red /\ Sinks(heap) = sink /\ Finds(heap) = find
    /\ \A n : Parent(heap, n) = find[tree.source[n]]
  <1>1. /\ Guards(heap) = child /\ Reps(heap) = rep /\ NextsMerged(heap) = nextMerged
        /\ Reds(heap) = red /\ Sinks(heap) = sink
    BY DEF heap, Guards, Reps, NextsMerged, Reds, Sinks
  <1>2. Finds(heap) = find
    BY <1>1 DEF Finds, find
  <1>3. QED
    BY <1>1, <1>2 DEF Parent

\* The guards of a state, in an idle heap, lead to nodes of the tree.
LEMMA IdleTargets ==
    ASSUME tree \in Trees, IdleHeap(heap), NEW n \in tree.nodes, rep[n] = None,
           NEW t \in Targets(n)
    PROVE  /\ t \in tree.nodes \ {Root} /\ rep[t] = None /\ find[tree.source[t]] = n
           /\ \E a \in Symbol : child[n][a] = t
  <1>1. n \in Node
    BY TreeFacts
  <1>2. PICK a \in Symbol : child[n][a] = t /\ t # None
    BY DEF Targets
  <1>3. rep[t] = None /\ find[tree.source[t]] = n
    BY DEF Targets
  <1>4. t \in tree.nodes \ {Root}
    BY <1>1, <1>2, HeapParts DEF IdleHeap, GuardsLead
  <1>5. QED
    BY <1>2, <1>3, <1>4

\* The layers an iterator goes through from r, T[n] being what n leads to.
Layers(g, r, T, M) ==
    \A k \in 0 .. M : g[k] = IF k = 0 THEN {r} ELSE g[k - 1] \cup UNION {T[n] : n \in g[k - 1]}

\* They exist.
LEMMA LayersExist ==
    ASSUME NEW N, NEW r \in N, NEW T \in [N -> SUBSET N], NEW M \in Nat
    PROVE  \E g \in [0 .. M -> SUBSET N] : Layers(g, r, T, M)
  <1> DEFINE X == 0 .. M
             More(S) == S \cup UNION {T[n] : n \in S}
             ptr == [k \in X |-> k - 1]
             base == [k \in X |-> {r}]
             step == [k \in X |-> [S \in SUBSET N |-> More(S)]]
  <1>1. \A S \in SUBSET N : More(S) \in SUBSET N
    OBVIOUS
  <1>2. HasSolution(X, SUBSET N, ptr, base, step)
    <2>1. \A S \in SUBSET X : S # {} => \E k \in S : ptr[k] \notin S
      <3> SUFFICES ASSUME NEW S \in SUBSET X, S # {} PROVE \E k \in S : ptr[k] \notin S
        OBVIOUS
      <3>1. S \in SUBSET Nat
        OBVIOUS
      <3>2. PICK k \in S : k - 1 \notin S
        BY ONLY <3>1, S # {}, LeastNatural
      <3>3. ptr[k] = k - 1
        OBVIOUS
      <3>4. QED
        BY <3>2, <3>3
    <2>2. \A k \in X : ptr[k] \notin X => base[k] \in SUBSET N
      OBVIOUS
    <2>3. \A k \in X, S \in SUBSET N : step[k][S] \in SUBSET N
      BY <1>1
    <2> HIDE DEF X, ptr, base, step
    <2>4. Recursion(X, SUBSET N, ptr, base, step)
      BY <2>1, <2>2, <2>3 DEF Recursion
    <2>5. QED
      BY <2>4, RecursiveGraph
  <1>3. PICK g \in [X -> SUBSET N] :
           \A k \in X : g[k] = IF ptr[k] \in X THEN step[k][g[ptr[k]]] ELSE base[k]
    BY <1>2 DEF HasSolution
  <1>4. ASSUME NEW k \in X PROVE g[k] = IF k = 0 THEN {r} ELSE More(g[k - 1])
    <2>1. CASE k = 0
      <3>1. ptr[k] \notin X /\ base[k] = {r}
        BY <2>1
      <3>2. QED
        BY <1>3, <2>1, <3>1
    <2>2. CASE k # 0
      <3>1. ptr[k] = k - 1 /\ k - 1 \in X
        BY <2>2
      <3>2. g[k - 1] \in SUBSET N
        BY <3>1
      <3>3. step[k][g[k - 1]] = More(g[k - 1])
        BY <3>2
      <3>4. QED
        BY <1>3, <2>2, <3>1, <3>3
    <2>3. QED
      BY <2>1, <2>2
  <1>5. QED
    BY <1>4 DEF Layers

\* As many layers as there are nodes are enough: what the last one leads to is
\* in it.
LEMMA LayersClose ==
    ASSUME NEW N, IsFiniteSet(N), NEW r \in N, NEW T \in [N -> SUBSET N], NEW M \in Nat,
           Cardinality(N) <= M, NEW g \in [0 .. M -> SUBSET N], Layers(g, r, T, M)
    PROVE  r \in g[M] /\ \A n \in g[M] : T[n] \subseteq g[M]
  <1>1. \A k \in 0 .. M : g[k] \in SUBSET N
    OBVIOUS
  <1>2. /\ g[0] = {r}
        /\ \A k \in 1 .. M : k - 1 \in 0 .. M
              /\ g[k] = g[k - 1] \cup UNION {T[n] : n \in g[k - 1]}
    <2>1. 0 \in 0 .. M
      OBVIOUS
    <2>2. g[0] = {r}
      BY <2>1, Zenon DEF Layers
    <2>3. ASSUME NEW k \in 1 .. M
          PROVE  k - 1 \in 0 .. M /\ g[k] = g[k - 1] \cup UNION {T[n] : n \in g[k - 1]}
      <3>1. k \in 0 .. M /\ k # 0 /\ k - 1 \in 0 .. M
        OBVIOUS
      <3>2. QED
        BY <3>1, Zenon DEF Layers
    <2>4. QED
      BY <2>2, <2>3
  <1>3. \A k \in 0 .. M : IsFiniteSet(g[k]) /\ Cardinality(g[k]) \in Nat
                          /\ Cardinality(g[k]) <= Cardinality(N)
    BY <1>1, FS_Subset, FS_CardinalityType
  <1>4. \E k \in 1 .. M : g[k] = g[k - 1]
    <2> SUFFICES ASSUME \A k \in 1 .. M : g[k] # g[k - 1] PROVE FALSE
      OBVIOUS
    <2> DEFINE D == {k \in 0 .. M : Cardinality(g[k]) < k + 1}
    <2>1. D # {}
      <3>1. M \in D
        BY <1>3, FS_CardinalityType
      <3>2. QED
        BY <3>1
    <2>2. D \in SUBSET Nat
      OBVIOUS
    <2>3. \E k \in D : k - 1 \notin D
      <3> HIDE DEF D
      <3>1. QED
        BY <2>1, <2>2, LeastNatural
    <2>4. PICK k \in D : k - 1 \notin D
      BY <2>3
    <2>5. CASE k = 0
      <3>1. Cardinality(g[k]) < 1
        BY <2>4, <2>5
      <3>2. Cardinality(g[k]) = 1
        BY <1>2, <2>5, FS_Singleton
      <3>3. QED
        BY <3>1, <3>2
    <2>6. CASE k # 0
      <3>1. k \in 1 .. M /\ k - 1 \in 0 .. M
        BY <2>6
      <3>2. g[k - 1] \in SUBSET g[k] /\ g[k] # g[k - 1]
        BY <1>2, <3>1
      <3>3. /\ IsFiniteSet(g[k]) /\ Cardinality(g[k]) \in Nat
            /\ Cardinality(g[k - 1]) \in Nat
        BY <1>3, <3>1
      <3>4. /\ Cardinality(g[k - 1]) <= Cardinality(g[k])
            /\ Cardinality(g[k]) # Cardinality(g[k - 1])
        BY <3>2, <3>3, FS_Subset
      <3>5. ~(Cardinality(g[k - 1]) < k - 1 + 1)
        BY <2>4, <3>1
      <3>6. Cardinality(g[k]) < k + 1
        BY <2>4
      <3>7. QED
        BY <3>1, <3>3, <3>4, <3>5, <3>6
    <2>7. QED
      BY <2>5, <2>6
  <1>5. PICK k \in 1 .. M : g[k] = g[k - 1]
    BY <1>4
  <1>6. k - 1 \in 0 .. M /\ \A n \in g[k - 1] : T[n] \subseteq g[k - 1]
    BY <1>2, <1>5
  <1>7. \A j \in k - 1 .. M : g[j] = g[k - 1]
    <2> DEFINE D == {j \in k - 1 .. M : g[j] # g[k - 1]}
    <2> SUFFICES ASSUME D # {} PROVE FALSE
      OBVIOUS
    <2>1. D \in SUBSET Nat
      OBVIOUS
    <2>2. \E j \in D : j - 1 \notin D
      <3> HIDE DEF D
      <3>1. QED
        BY <2>1, LeastNatural
    <2>3. PICK j \in D : j - 1 \notin D
      BY <2>2
    <2>4. j # k - 1 /\ j \in 1 .. M /\ j - 1 \in k - 1 .. M
      BY <2>3
    <2>5. g[j - 1] = g[k - 1]
      BY <2>3, <2>4
    <2>6. g[j] = g[k - 1] \cup UNION {T[n] : n \in g[k - 1]}
      BY <1>2, <2>4, <2>5
    <2>7. g[j] = g[k - 1]
      BY <1>6, <2>6
    <2>8. QED
      BY <2>3, <2>7
  <1>8. g[M] = g[k - 1]
    BY <1>7
  <1>9. \A j \in 0 .. M : r \in g[j]
    <2> DEFINE D == {j \in 0 .. M : r \notin g[j]}
    <2> SUFFICES ASSUME D # {} PROVE FALSE
      OBVIOUS
    <2>1. D \in SUBSET Nat
      OBVIOUS
    <2>2. \E j \in D : j - 1 \notin D
      <3> HIDE DEF D
      <3>1. QED
        BY <2>1, LeastNatural
    <2>3. PICK j \in D : j - 1 \notin D
      BY <2>2
    <2>4. CASE j = 0
      BY <1>2, <2>3, <2>4
    <2>5. CASE j # 0
      BY <1>2, <2>3, <2>5
    <2>6. QED
      BY <2>4, <2>5
  <1>10. QED
    BY <1>6, <1>8, <1>9

\* What is computed layer by layer is what the layers are.
LEMMA LayersUnique ==
    ASSUME NEW N, NEW r \in N, NEW T \in [N -> SUBSET N], NEW M \in Nat,
           NEW g \in [0 .. M -> SUBSET N], Layers(g, r, T, M), NEW f,
           \A k \in 0 .. M : k = 0 => f[k] = {r},
           \A k \in 0 .. M : k # 0 /\ f[k - 1] \in SUBSET N =>
              f[k] = f[k - 1] \cup UNION {T[n] : n \in f[k - 1]}
    PROVE  f[M] = g[M]
  <1> DEFINE D == {k \in 0 .. M : f[k] # g[k]}
  <1>1. CASE D = {}
    BY <1>1
  <1>2. CASE D # {}
    <2>1. D \in SUBSET Nat
      OBVIOUS
    <2>2. \E k \in D : k - 1 \notin D
      <3> HIDE DEF D
      <3>1. QED
        BY <1>2, <2>1, LeastNatural
    <2>3. PICK k \in D : k - 1 \notin D
      BY <2>2
    <2>4. CASE k = 0
      BY <2>3, <2>4 DEF Layers
    <2>5. CASE k # 0
      <3>1. k \in 0 .. M /\ k - 1 \in 0 .. M /\ f[k - 1] = g[k - 1]
        BY <2>3, <2>5
      <3>2. g[k - 1] \in SUBSET N
        BY <3>1
      <3>3. f[k] = g[k]
        BY <2>5, <3>1, <3>2 DEF Layers
      <3>4. QED
        BY <2>3, <3>3
    <2>6. QED
      BY <2>4, <2>5
  <1>3. QED
    BY <1>1, <1>2

\* The red states iterator yields red states only, and all that a red state it
\* yields leads to.
LEMMA RedLayers ==
    ASSUME tree \in Trees, IdleHeap(heap)
    PROVE  /\ RedStates \subseteq {n \in tree.nodes : rep[n] = None /\ red[n]}
           /\ Root \in RedStates
           /\ \A n \in RedStates : \A t \in Targets(n) : red[t] => t \in RedStates
  <1> DEFINE M == MaxDepth
             Good == {n \in tree.nodes : rep[n] = None /\ red[n]}
             T == [n \in Good |-> {t \in Targets(n) : red[t]}]
             More(S) == S \cup {t \in UNION {Targets(n) : n \in S} : red[t]}
             f == CHOOSE f : f = [k \in 0 .. M |-> IF k = 0 THEN {Root} ELSE More(f[k - 1])]
  <1>1. M \in Nat /\ M = Cardinality(tree.nodes) /\ IsFiniteSet(tree.nodes)
    BY TreeFacts, FS_CardinalityType DEF MaxDepth
  <1>2. Root \in Good
    BY TreeFacts, HeapParts DEF IdleHeap
  <1>3. T \in [Good -> SUBSET Good]
    BY IdleTargets
  <1>4. IsFiniteSet(Good) /\ Cardinality(Good) <= M
    BY <1>1, FS_Subset
  <1>5. \A n \in Good : T[n] = {t \in Targets(n) : red[t]}
    OBVIOUS
  <1>6. RedStates = f[M]
    BY DEF RedStates
  <1> HIDE DEF M, Good, T, f
  <1>7. \A S \in SUBSET Good : More(S) = S \cup UNION {T[n] : n \in S}
    <2> SUFFICES ASSUME NEW S \in SUBSET Good
                 PROVE  {t \in UNION {Targets(n) : n \in S} : red[t]} = UNION {T[n] : n \in S}
      OBVIOUS
    <2>1. \A n \in S : T[n] = {t \in Targets(n) : red[t]}
      BY <1>5
    <2>2. QED
      BY <2>1
  <1>8. PICK g \in [0 .. M -> SUBSET Good] : Layers(g, Root, T, M)
    BY <1>1, <1>2, <1>3, LayersExist
  <1>9. g = [k \in 0 .. M |-> IF k = 0 THEN {Root} ELSE More(g[k - 1])]
    <2>1. ASSUME NEW k \in 0 .. M PROVE g[k] = IF k = 0 THEN {Root} ELSE More(g[k - 1])
      <3>1. k # 0 => k - 1 \in 0 .. M
        BY <1>1
      <3>2. k # 0 => g[k - 1] \in SUBSET Good
        BY <3>1
      <3>3. k # 0 => More(g[k - 1]) = g[k - 1] \cup UNION {T[n] : n \in g[k - 1]}
        BY <1>7, <3>2
      <3> HIDE DEF More
      <3>4. QED
        BY <1>8, <3>3 DEF Layers
    <2> HIDE DEF More
    <2>2. QED
      BY <2>1
  <1>10. f = [k \in 0 .. M |-> IF k = 0 THEN {Root} ELSE More(f[k - 1])]
    BY <1>9 DEF f
  <1>11. \A k \in 0 .. M : f[k] = IF k = 0 THEN {Root} ELSE More(f[k - 1])
    BY <1>10
  <1> HIDE DEF More
  <1>12. f[M] = g[M]
    BY <1>1, <1>2, <1>3, <1>7, <1>8, <1>11, LayersUnique
  <1>13. g[M] \in SUBSET Good /\ Root \in g[M] /\ \A n \in g[M] : T[n] \subseteq g[M]
    BY <1>1, <1>2, <1>3, <1>4, <1>8, LayersClose
  <1>14. QED
    BY <1>5, <1>6, <1>12, <1>13 DEF Good

\* The red states iterator yields red states only.
LEMMA RedStatesRed ==
    ASSUME tree \in Trees, IdleHeap(heap)
    PROVE  RedStates \subseteq {n \in tree.nodes : rep[n] = None /\ red[n]}
  BY RedLayers

\* The iterator over all states yields states, and all that they lead to.
LEMMA StateLayers ==
    ASSUME tree \in Trees, IdleHeap(heap)
    PROVE  /\ AllStates \subseteq {n \in tree.nodes : rep[n] = None}
           /\ Root \in AllStates
           /\ \A n \in AllStates : Targets(n) \subseteq AllStates
  <1> DEFINE M == MaxDepth
             Good == {n \in tree.nodes : rep[n] = None}
             T == [n \in Good |-> Targets(n)]
             More(S) == S \cup UNION {Targets(n) : n \in S}
             f == CHOOSE f : f = [k \in 0 .. M |-> IF k = 0 THEN {Root} ELSE More(f[k - 1])]
  <1>1. M \in Nat /\ M = Cardinality(tree.nodes) /\ IsFiniteSet(tree.nodes)
    BY TreeFacts, FS_CardinalityType DEF MaxDepth
  <1>2. Root \in Good
    BY TreeFacts, HeapParts DEF IdleHeap
  <1>3. T \in [Good -> SUBSET Good]
    BY IdleTargets
  <1>4. IsFiniteSet(Good) /\ Cardinality(Good) <= M
    BY <1>1, FS_Subset
  <1>5. \A S \in SUBSET Good : More(S) = S \cup UNION {T[n] : n \in S}
    OBVIOUS
  <1>6. \A n \in Good : T[n] = Targets(n)
    OBVIOUS
  <1>7. AllStates = f[M]
    BY DEF AllStates
  <1> HIDE DEF M, Good, T, f
  <1>8. PICK g \in [0 .. M -> SUBSET Good] : Layers(g, Root, T, M)
    BY <1>1, <1>2, <1>3, LayersExist
  <1>9. g = [k \in 0 .. M |-> IF k = 0 THEN {Root} ELSE More(g[k - 1])]
    <2>1. ASSUME NEW k \in 0 .. M PROVE g[k] = IF k = 0 THEN {Root} ELSE More(g[k - 1])
      <3>1. k # 0 => k - 1 \in 0 .. M
        BY <1>1
      <3>2. k # 0 => g[k - 1] \in SUBSET Good
        BY <3>1
      <3>3. k # 0 => More(g[k - 1]) = g[k - 1] \cup UNION {T[n] : n \in g[k - 1]}
        BY <1>5, <3>2
      <3> HIDE DEF More
      <3>4. QED
        BY <1>8, <3>3 DEF Layers
    <2> HIDE DEF More
    <2>2. QED
      BY <2>1
  <1>10. f = [k \in 0 .. M |-> IF k = 0 THEN {Root} ELSE More(f[k - 1])]
    BY <1>9 DEF f
  <1>11. \A k \in 0 .. M : f[k] = IF k = 0 THEN {Root} ELSE More(f[k - 1])
    BY <1>10
  <1> HIDE DEF More
  <1>12. f[M] = g[M]
    BY <1>1, <1>2, <1>3, <1>5, <1>8, <1>11, LayersUnique
  <1>13. g[M] \in SUBSET Good /\ Root \in g[M] /\ \A n \in g[M] : T[n] \subseteq g[M]
    BY <1>1, <1>2, <1>3, <1>4, <1>8, LayersClose
  <1>14. QED
    BY <1>6, <1>7, <1>12, <1>13 DEF Good

\* Every state is led to, from the root on, by the states that hold its source
\* and theirs.
LEMMA StatesLed ==
    ASSUME tree \in Trees, IdleHeap(heap), NEW R, Root \in R,
           NEW Q \in SUBSET {n \in tree.nodes : rep[n] = None},
           \A n \in Q \ {Root} : find[tree.source[n]] \in Q,
           \A n \in R : \A t \in Targets(n) : t \in Q => t \in R
    PROVE  Q \subseteq R
  <1> DEFINE S == Q \ R
  <1> SUFFICES ASSUME S # {} PROVE FALSE
    OBVIOUS
  <1>1. /\ Guards(heap) = child /\ Reps(heap) = rep
        /\ \A n : Parent(heap, n) = find[tree.source[n]]
    BY HeapParts
  <1>2. S \in SUBSET (tree.nodes \ {Root}) /\ \A n \in S : rep[n] = None
    OBVIOUS
  <1>3. PICK n \in S : find[tree.source[n]] \notin S
    <2> HIDE DEF S
    <2>1. QED
      BY <1>1, <1>2 DEF IdleHeap, StatesHang
  <1>4. find[tree.source[n]] \in R
    BY <1>3
  <1>5. /\ child[find[tree.source[n]]][tree.symbol[n]] = n /\ n # None
        /\ tree.symbol[n] \in Symbol
    BY <1>1, <1>2, <1>3, TreeFacts DEF IdleHeap, NodesFound
  <1>6. n \in Targets(find[tree.source[n]])
    BY <1>2, <1>3, <1>5 DEF Targets
  <1>7. QED
    BY <1>3, <1>4, <1>6

\* The blue states iterator yields states that may be coloured red.
LEMMA BlueStatesBlue ==
    ASSUME tree \in Trees, IdleHeap(heap)
    PROVE  BlueStates \subseteq Blues(heap)
  <1> SUFFICES ASSUME NEW t \in BlueStates PROVE t \in Blues(heap)
    OBVIOUS
  <1>1. PICK n \in RedStates : t \in Targets(n) /\ ~red[t]
    BY DEF BlueStates
  <1>2. n \in tree.nodes /\ rep[n] = None /\ red[n]
    BY RedStatesRed
  <1>3. t \in tree.nodes \ {Root} /\ rep[t] = None /\ find[tree.source[t]] = n
    BY <1>1, <1>2, IdleTargets
  <1>4. QED
    BY <1>1, <1>2, <1>3, HeapParts DEF Blues

-----------------------------------------------------------------------------
(* Access traces.                                                          *)

\* The access trace of a node leads to a node of the same state.
LEMMA ReachFound ==
    ASSUME tree \in Trees, IdleHeap(heap)
    PROVE  \A n \in tree.nodes : reach[n] \in Node /\ find[reach[n]] = find[n]
  <1> DEFINE Onward(n, p) == IF p = None THEN None ELSE child[find[p]][tree.symbol[n]]
             V == Node \cup {None}
             ptr == tree.source
             base == [n \in Node |-> Root]
             step == [n \in Node |-> [p \in V |-> IF ptr[n] \in Node THEN Onward(n, p) ELSE None]]
             f == CHOOSE f : f = [n \in Node |->
                     IF tree.source[n] = None THEN Root ELSE Onward(n, f[tree.source[n]])]
  <1>1. /\ tree.nodes \subseteq Node /\ Root \in tree.nodes
        /\ \A n \in tree.nodes \ {Root} :
              tree.source[n] \in tree.nodes /\ tree.symbol[n] \in Symbol
        /\ \A n \in Node : n \notin tree.nodes \ {Root} => tree.source[n] = None
        /\ \A S \in SUBSET tree.nodes : S # {} => \E n \in S : tree.source[n] \notin S
    BY TreeFacts
  <1>2. /\ find \in [Node -> Node] /\ child \in [Node -> [Symbol -> Node \cup {None}]]
        /\ \A n \in Node : find[n] = (IF rep[n] = None THEN n ELSE find[rep[n]])
                           /\ rep[find[n]] = None
    BY IdleFinds, HeapParts
  <1>3. \A n \in Node : ptr[n] \in Node <=> ptr[n] # None
    BY <1>1, AptaAssumption
  <1>4. HasSolution(Node, V, ptr, base, step)
    <2>1. \A S \in SUBSET Node : S # {} => \E n \in S : ptr[n] \notin S
      <3> SUFFICES ASSUME NEW S \in SUBSET Node, S # {} PROVE \E n \in S : ptr[n] \notin S
        OBVIOUS
      <3>1. CASE S \in SUBSET tree.nodes
        BY <1>1, <3>1
      <3>2. CASE \E n \in S : n \notin tree.nodes
        BY <1>1, <3>2, AptaAssumption
      <3>3. QED
        BY <3>1, <3>2
    <2>2. \A n \in Node : ptr[n] \notin Node => base[n] \in V
      BY <1>1
    <2>3. \A n \in Node, p \in V : step[n][p] \in V
      <3> SUFFICES ASSUME NEW n \in Node, NEW p \in V, ptr[n] \in Node, p # None
                   PROVE  child[find[p]][tree.symbol[n]] \in V
        OBVIOUS
      <3>1. tree.symbol[n] \in Symbol
        BY <1>1, <1>3
      <3>2. find[p] \in Node
        BY <1>2
      <3>3. QED
        BY <1>2, <3>1, <3>2
    <2> HIDE DEF V, ptr, base, step
    <2>4. Recursion(Node, V, ptr, base, step)
      BY <2>1, <2>2, <2>3 DEF Recursion
    <2>5. QED
      BY <2>4, RecursiveGraph
  <1>5. PICK g \in [Node -> V] :
           \A n \in Node : g[n] = IF ptr[n] \in Node THEN step[n][g[ptr[n]]] ELSE base[n]
    BY <1>4 DEF HasSolution
  <1>6. g = [n \in Node |->
               IF tree.source[n] = None THEN Root ELSE Onward(n, g[tree.source[n]])]
    <2>1. ASSUME NEW n \in Node
          PROVE  g[n] = IF tree.source[n] = None THEN Root ELSE Onward(n, g[tree.source[n]])
      <3>1. CASE tree.source[n] = None
        BY <1>3, <1>5, <3>1
      <3>2. CASE tree.source[n] # None
        <4>1. tree.source[n] \in Node
          BY <1>3, <3>2
        <4>2. g[tree.source[n]] \in V
          BY <1>5, <4>1
        <4>3. step[n][g[tree.source[n]]] = Onward(n, g[tree.source[n]])
          BY <4>1, <4>2
        <4>4. QED
          BY <1>5, <3>2, <4>1, <4>3
      <3>3. QED
        BY <3>1, <3>2
    <2>2. QED
      BY <1>5, <2>1
  <1>7. f = [n \in Node |->
               IF tree.source[n] = None THEN Root ELSE Onward(n, f[tree.source[n]])]
    BY <1>6
  <1>8. reach = f
    BY DEF reach
  <1> HIDE DEF f
  <1>9. \A n \in Node : f[n] = IF tree.source[n] = None THEN Root
                               ELSE Onward(n, f[tree.source[n]])
    BY <1>7
  <1>10. \A n \in tree.nodes : f[n] \in Node /\ find[f[n]] = find[n]
    <2> DEFINE S == {n \in tree.nodes : ~(f[n] \in Node /\ find[f[n]] = find[n])}
    <2> SUFFICES ASSUME S # {} PROVE FALSE
      OBVIOUS
    <2>1. PICK n \in S : tree.source[n] \notin S
      BY <1>1
    <2>2. n # Root
      <3>1. tree.source[Root] = None /\ Root \in Node
        BY <1>1
      <3>2. f[Root] = Root
        BY <1>9, <3>1
      <3>3. QED
        BY <2>1, <3>1, <3>2
    <2> DEFINE p == tree.source[n]
    <2>3. p \in tree.nodes /\ p # None /\ f[p] \in Node /\ find[f[p]] = find[p] /\ n \in Node
      BY <1>1, <2>1, <2>2, AptaAssumption
    <2>4. f[n] = child[find[p]][tree.symbol[n]]
      BY <1>9, <2>3, AptaAssumption
    <2>5. /\ child[find[p]][tree.symbol[n]] # None
          /\ find[child[find[p]][tree.symbol[n]]] = find[n]
      BY <2>1, <2>2, HeapParts DEF IdleHeap, NodesFound
    <2>6. child[find[p]][tree.symbol[n]] \in Node
      BY <1>1, <1>2, <2>1, <2>2, <2>3, <2>5
    <2>7. QED
      BY <2>1, <2>4, <2>5, <2>6
  <1>11. QED
    BY <1>8, <1>10

\* A node that is the very target of the state its source is in is found by its
\* access trace; every state is.
LEMMA TraceLeads ==
    ASSUME tree \in Trees, IdleHeap(heap), NEW n \in tree.nodes,
           rep[n] = None \/ (n # Root /\ child[find[tree.source[n]]][tree.symbol[n]] = n)
    PROVE  StateFromTrace(n) = {n}
  <1>1. CASE n = Root
    <2>1. tree.source[n] = None
      BY <1>1, TreeFacts
    <2>2. QED
      BY <1>1, <2>1 DEF StateFromTrace
  <1>2. CASE n # Root
    <2> DEFINE p == tree.source[n]
    <2>1. p \in tree.nodes /\ p # None /\ n # None
      BY <1>2, TreeFacts, AptaAssumption
    <2>2. child[find[p]][tree.symbol[n]] = n
      BY <1>2, HeapParts DEF IdleHeap, NodesFound
    <2>3. find[reach[p]] = find[p] /\ find[p] \in Node
      BY <2>1, ReachFound, IdleFinds, HeapParts, TreeFacts
    <2>4. LastStep(n) = {n}
      BY <2>2, <2>3 DEF LastStep
    <2>5. QED
      BY <2>1, <2>4 DEF StateFromTrace
  <1>3. QED
    BY <1>1, <1>2

-----------------------------------------------------------------------------
(* The stack.                                                              *)

\* A step within the innermost call.
LEMMA StackedReplace ==
    ASSUME stack \in Seq(Frame), NEW c \in Configuration, NEW k,
           Stacked(c, stack, k, c.depth), NEW f \in Frame, Replace(f),
           f.kind = top.kind, f.left = top.left, f.right = top.right
    PROVE  /\ Stacked(c, stack', k, c.depth)
           /\ stack'[c.depth] = f
           /\ \A i \in 1 .. c.depth : i < c.depth => stack'[i] = stack[i]
  <1>1. c.depth \in Nat /\ c.depth > 0 /\ Len(stack) = c.depth
    BY ConfigurationTyped DEF Stacked
  <1>2. stack # <<>>
    BY <1>1, EmptySeq
  <1>3. /\ stack' \in Seq(Frame) /\ Len(stack') = Len(stack) /\ stack'[Len(stack)] = f
        /\ \A i \in 1 .. Len(stack) - 1 : stack'[i] = stack[i]
    BY <1>2, ReplaceTop
  <1>4. \A i \in 1 .. c.depth : i < c.depth => stack'[i] = stack[i]
    BY <1>1, <1>3
  <1>5. /\ stack[c.depth].kind = k
        /\ stack[c.depth].left = c.left[c.depth] /\ stack[c.depth].right = c.right[c.depth]
    BY <1>1 DEF Stacked
  <1>6. top = stack[c.depth]
    BY <1>1 DEF top
  <1>7. ASSUME NEW i \in 1 .. c.depth
        PROVE  stack'[i].kind = k /\ stack'[i].left = c.left[i] /\ stack'[i].right = c.right[i]
    <2>1. CASE i = c.depth
      BY <1>1, <1>3, <1>5, <1>6, <2>1
    <2>2. CASE i # c.depth
      BY <1>1, <1>4, <2>2 DEF Stacked
    <2>3. QED
      BY <2>1, <2>2
  <1>8. QED
    BY <1>1, <1>3, <1>4, <1>7 DEF Stacked

\* A recursive call.
LEMMA StackedPush ==
    ASSUME stack \in Seq(Frame), NEW c \in Configuration, NEW k,
           Stacked(c, stack, k, c.depth), NEW f \in Frame, NEW g \in Frame,
           stack' = Append([stack EXCEPT ![Len(stack)] = f], g),
           f.kind = top.kind, f.left = top.left, f.right = top.right
    PROVE  /\ Stacked(c, stack', k, c.depth + 1)
           /\ stack'[c.depth] = f /\ stack'[c.depth + 1] = g
           /\ \A i \in 1 .. c.depth : i < c.depth => stack'[i] = stack[i]
  <1> DEFINE back == [stack EXCEPT ![Len(stack)] = f]
  <1>1. c.depth \in Nat /\ c.depth > 0 /\ Len(stack) = c.depth
    BY ConfigurationTyped DEF Stacked
  <1>2. stack # <<>>
    BY <1>1, EmptySeq
  <1>3. /\ back \in Seq(Frame) /\ Len(back) = Len(stack) /\ back[Len(stack)] = f
        /\ \A i \in 1 .. Len(stack) - 1 : back[i] = stack[i]
    BY <1>2, ReplacedTop
  <1>4. stack' = Append(back, g)
    OBVIOUS
  <1> HIDE DEF back
  <1>5. /\ Len(stack') = c.depth + 1
        /\ \A i \in 1 .. c.depth : stack'[i] = back[i]
        /\ stack'[c.depth + 1] = g
    BY <1>1, <1>3, <1>4, PushCall
  <1>6. stack'[c.depth] = f
    BY <1>1, <1>3, <1>5
  <1>7. \A i \in 1 .. c.depth : i < c.depth => stack'[i] = stack[i]
    BY <1>1, <1>3, <1>5
  <1>8. /\ stack[c.depth].kind = k
        /\ stack[c.depth].left = c.left[c.depth] /\ stack[c.depth].right = c.right[c.depth]
    BY <1>1 DEF Stacked
  <1>9. top = stack[c.depth]
    BY <1>1 DEF top
  <1>10. ASSUME NEW i \in 1 .. c.depth
         PROVE  stack'[i].kind = k /\ stack'[i].left = c.left[i] /\ stack'[i].right = c.right[i]
    <2>1. CASE i = c.depth
      BY <1>6, <1>8, <1>9, <2>1
    <2>2. CASE i # c.depth
      BY <1>1, <1>7, <2>2 DEF Stacked
    <2>3. QED
      BY <2>1, <2>2
  <1>11. QED
    BY <1>1, <1>5, <1>6, <1>7, <1>10 DEF Stacked

\* A return.
LEMMA StackedPop ==
    ASSUME stack \in Seq(Frame), stack # <<>>, Pop
    PROVE  /\ stack' \in Seq(Frame) /\ Len(stack') = Len(stack) - 1
           /\ \A i \in 1 .. Len(stack) : i < Len(stack) => stack'[i] = stack[i]
  <1>1. Len(stack) \in Nat
    BY LenProperties
  <1>2. QED
    BY <1>1, PopTop

\* Where the innermost call is.
LEMMA TopPlace ==
    ASSUME stack \in Seq(Frame), NEW k, NEW p, At(k, p)
    PROVE  /\ stack # <<>> /\ Len(stack) \in Nat \ {0} /\ top \in Frame
           /\ stack[Len(stack)] = top /\ top.kind = k /\ top.at = p
           /\ top.left \in Node /\ top.right \in Node /\ top.lc \in Node /\ top.rc \in Node
           /\ top.depth \in Nat
           /\ top.todo \subseteq Symbol
  <1>1. stack # <<>> /\ top.kind = k /\ top.at = p
    BY DEF At
  <1>2. top \in Frame /\ Len(stack) \in Nat \ {0}
    BY <1>1, TopFrame
  <1>3. QED
    BY <1>1, <1>2 DEF top, Frame

\* A symbol that is due.
LEMMA DueFacts ==
    ASSUME NEW u, BlockIsTree(u), NEW c \in Reach(u), NEW a, Due(u, c, a)
    PROVE  /\ c \in Configuration /\ Sound(u, c)
           /\ a \in Symbol /\ c.depth \in Nat /\ c.depth > 0 /\ c.depth \in 1 .. c.depth
           /\ a \in c.todo[c.depth] /\ Above(a) \subseteq c.todo[c.depth]
           /\ c.left[c.depth] \in Node \ c.fresh
           /\ Reps(c.heap)[c.left[c.depth]] = None
           /\ RightChild(c, a) \in c.fresh /\ RightChild(c, a) \in Node
           /\ RightChild(c, a) # None
           /\ Reps(c.heap)[RightChild(c, a)] = None
           /\ LeftChild(c, a) # None =>
                 /\ LeftChild(c, a) \in Node \ c.fresh
                 /\ Found(u, c.heap, LeftChild(c, a)) \in Node \ c.fresh
                 /\ Reps(c.heap)[Found(u, c.heap, LeftChild(c, a))] = None
  <1>1. c \in Configuration /\ Sound(u, c)
    BY ReachSound DEF Reach
  <1>2. c.depth > 0 /\ a \in c.todo[c.depth] /\ Guards(c.heap)[c.right[c.depth]][a] # None
    BY DEF Due
  <1>3. /\ a \in Symbol /\ c.depth \in 1 .. c.depth
        /\ c.left[c.depth] \in Node \ c.fresh /\ Reps(c.heap)[c.left[c.depth]] = None
        /\ Guards(c.heap)[c.right[c.depth]][a] \in c.fresh
        /\ Reps(c.heap)[Guards(c.heap)[c.right[c.depth]][a]] = None
        /\ Reps(c.heap)[u.right] # None
    BY <1>1, <1>2, DueChild
  <1>4. Above(a) \subseteq c.todo[c.depth]
    BY <1>1, <1>2, <1>3 DEF Sound, FramesOK, FrameOK
  <1>5. c.fresh \subseteq Node /\ c.depth \in Nat
    BY <1>1, ConfigurationTyped
  <1>6. LeftChild(c, a) # None =>
           /\ LeftChild(c, a) \in Node \ c.fresh
           /\ Found(u, c.heap, LeftChild(c, a)) \in Node \ c.fresh
           /\ Reps(c.heap)[Found(u, c.heap, LeftChild(c, a))] = None
    BY <1>1, <1>3, TargetNotFresh DEF LeftChild
  <1>7. QED
    BY <1>1, <1>2, <1>3, <1>4, <1>5, <1>6 DEF RightChild

-----------------------------------------------------------------------------
(* merge.                                                                  *)

\* Where the innermost call of merge is, and where the run is.
LEMMA MergingPlace ==
    ASSUME stack \in Seq(Frame), NEW u, NEW c \in Configuration, Merging(u, c, stack),
           stack # <<>>
    PROVE  /\ top.kind = "merge"
           /\ top.at = "entry" =>
                 MergeCalled(u, c, stack) \/ \E a \in Symbol : MergeEnters(u, c, stack, a)
           /\ top.at = "loop" => MergeLoops(u, c, stack)
           /\ top.at = "find" => \E a \in Symbol : MergeFinds(u, c, stack, a)
  <1>1. c.depth \in Nat /\ Len(stack) \in Nat \ {0}
    BY ConfigurationTyped, TopFrame
  <1>2. ~MergeEnded(u, c, stack)
    BY <1>1 DEF MergeEnded
  <1>3. CASE MergeCalled(u, c, stack)
    BY <1>3 DEF MergeCalled, Called, top
  <1>4. CASE MergeLoops(u, c, stack)
    BY <1>1, <1>4 DEF MergeLoops, Stacked, Rests, top
  <1>5. ASSUME NEW a \in Symbol, MergeFinds(u, c, stack, a)
        PROVE  top.kind = "merge" /\ top.at = "find"
    BY <1>1, <1>5 DEF MergeFinds, Stacked, Looks, top
  <1>6. ASSUME NEW a \in Symbol, MergeEnters(u, c, stack, a)
        PROVE  top.kind = "merge" /\ top.at = "entry"
    BY <1>1, <1>6 DEF MergeEnters, Stacked, Calls, top
  <1>7. QED
    BY <1>2, <1>3, <1>4, <1>5, <1>6 DEF Merging

\* Calls that wait go on waiting.
LEMMA RestingKept ==
    ASSUME NEW u, NEW c, NEW s, Resting(u, c, s), NEW t,
           \A i \in 1 .. c.depth : i < c.depth => t[i] = s[i]
    PROVE  Resting(u, c, t)
  BY DEF Resting, Rests

\* A merge that is not performed is only left out by a test.
LEMMA MergeStopRun ==
    ASSUME TypeOK, MergeStop, NEW u, BlockIsTree(u), u.stops, NEW c \in Reach(u),
           Merging(u, c, stack)
    PROVE  Merging(u, c, stack')
  <1>1. c \in Configuration /\ stack \in Seq(Frame) /\ c.depth \in Nat
    BY ConfigurationTyped DEF Reach, TypeOK
  <1>2. At("merge", "entry") /\ Pop
    BY DEF MergeStop
  <1>3. stack # <<>> /\ top.at = "entry"
    BY <1>2 DEF At
  <1>4. /\ Len(stack') = Len(stack) - 1
        /\ \A i \in 1 .. Len(stack) : i < Len(stack) => stack'[i] = stack[i]
    BY <1>1, <1>2, <1>3, StackedPop
  <1>5. CASE MergeCalled(u, c, stack)
    BY <1>4, <1>5 DEF MergeCalled, Called, MergeEnded, Merging
  <1>6. ASSUME NEW a \in Symbol, MergeEnters(u, c, stack, a)
        PROVE  MergeLoops(u, c, stack')
    <2>1. /\ c.depth > 0 /\ Len(stack) = c.depth + 1
          /\ Resting(u, c, stack) /\ stack[c.depth].at = "loop"
          /\ Due(u, c, a) /\ stack[c.depth].todo \subseteq Above(a)
      BY <1>6 DEF MergeEnters, Stacked, Takes
    <2>2. \A i \in 1 .. c.depth : stack'[i] = stack[i]
      <3>1. \A i \in 1 .. c.depth : i \in 1 .. Len(stack) /\ i < Len(stack)
        BY <1>1, <2>1
      <3>2. QED
        BY <1>4, <3>1
    <2>3. Stacked(c, stack', "merge", c.depth)
      BY <1>1, <1>4, <1>6, <2>1, <2>2 DEF MergeEnters, Stacked
    <2>4. Resting(u, c, stack')
      BY <2>1, <2>2, RestingKept
    <2>5. Above(a) \subseteq c.todo[c.depth]
      BY <2>1, DueFacts
    <2>6. stack'[c.depth] = stack[c.depth]
      BY <1>1, <2>1, <2>2
    <2>7. Rests(u, c, stack', c.depth)
      BY <2>1, <2>5, <2>6 DEF Rests
    <2>8. QED
      BY <2>3, <2>4, <2>7 DEF MergeLoops
  <1>7. QED
    BY <1>1, <1>3, <1>5, <1>6, MergingPlace DEF Merging

\* Going round the loop of find().
LEMMA MergeFindRun ==
    ASSUME TypeOK, MergeFind, NEW u, BlockIsTree(u), NEW c \in Reach(u), c.heap = heap,
           Merging(u, c, stack)
    PROVE  Merging(u, c, stack')
  <1>1. c \in Configuration /\ stack \in Seq(Frame) /\ c.depth \in Nat /\ Sound(u, c)
    BY ConfigurationTyped, ReachSound DEF Reach, TypeOK
  <1>2. At("merge", "find")
    BY DEF MergeFind
  <1>3. /\ stack # <<>> /\ Len(stack) \in Nat \ {0} /\ top \in Frame
        /\ stack[Len(stack)] = top /\ top.at = "find" /\ top.lc \in Node
    BY <1>1, <1>2, TopPlace
  <1>4. PICK a \in Symbol : MergeFinds(u, c, stack, a)
    BY <1>1, <1>3, MergingPlace
  <1>5. /\ Stacked(c, stack, "merge", c.depth) /\ Len(stack) = c.depth
        /\ Resting(u, c, stack) /\ Takes(u, c, top.todo, a)
        /\ Found(u, c.heap, top.lc) = Found(u, c.heap, LeftChild(c, a))
        /\ top.rc = RightChild(c, a) /\ Due(u, c, a)
    BY <1>3, <1>4 DEF MergeFinds, Stacked, Looks, Takes
  <1>6. Reps(c.heap) = rep /\ rep \in [Node -> Node \cup {None}]
    BY HeapParts DEF TypeOK, AptaTypeOK
  <1>7. rep[top.rc] = None
    BY <1>5, <1>6, DueFacts
  <1>8. rep[top.lc] # None /\ Replace([top EXCEPT !.lc = rep[top.lc]])
    BY <1>7 DEF MergeFind
  <1> DEFINE f == [top EXCEPT !.lc = rep[top.lc]]
  <1>9. rep[top.lc] \in Node
    BY <1>3, <1>6, <1>8
  <1>10. /\ f \in Frame /\ f.kind = top.kind /\ f.left = top.left /\ f.right = top.right
         /\ f.at = "find" /\ f.todo = top.todo /\ f.lc = rep[top.lc] /\ f.rc = top.rc
    BY <1>3, <1>9 DEF Frame
  <1>11. Replace(f)
    BY <1>8
  <1> HIDE DEF f
  <1>12. /\ Stacked(c, stack', "merge", c.depth) /\ stack'[c.depth] = f
         /\ \A i \in 1 .. c.depth : i < c.depth => stack'[i] = stack[i]
    BY <1>1, <1>5, <1>10, <1>11, StackedReplace
  <1>13. Found(u, c.heap, rep[top.lc]) = Found(u, c.heap, top.lc)
    BY <1>1, <1>3, <1>6, <1>8, FoundEquation DEF Sound
  <1>14. Looks(u, c, stack', a)
    BY <1>5, <1>9, <1>10, <1>12, <1>13 DEF Looks
  <1>15. Resting(u, c, stack')
    BY <1>5, <1>12, RestingKept
  <1>16. MergeFinds(u, c, stack', a)
    BY <1>5, <1>10, <1>12, <1>14, <1>15 DEF MergeFinds
  <1>17. QED
    BY <1>16 DEF Merging

\* The two children are found and they are two.
LEMMA MergeRecurseRun ==
    ASSUME TypeOK, MergeRecurse, NEW u, BlockIsTree(u), NEW c \in Reach(u), c.heap = heap,
           Merging(u, c, stack)
    PROVE  Merging(u, c, stack')
  <1>1. c \in Configuration /\ stack \in Seq(Frame) /\ c.depth \in Nat /\ Sound(u, c)
    BY ConfigurationTyped, ReachSound DEF Reach, TypeOK
  <1>2. At("merge", "find") /\ rep[top.lc] = None
    BY DEF MergeRecurse
  <1>3. /\ stack # <<>> /\ Len(stack) \in Nat \ {0} /\ top \in Frame
        /\ stack[Len(stack)] = top /\ top.at = "find" /\ top.lc \in Node /\ top.rc \in Node
        /\ top.depth \in Nat
    BY <1>1, <1>2, TopPlace
  <1>4. PICK a \in Symbol : MergeFinds(u, c, stack, a)
    BY <1>1, <1>3, MergingPlace
  <1>5. /\ Stacked(c, stack, "merge", c.depth) /\ Len(stack) = c.depth
        /\ Resting(u, c, stack) /\ Takes(u, c, top.todo, a)
        /\ Found(u, c.heap, top.lc) = Found(u, c.heap, LeftChild(c, a))
        /\ top.rc = RightChild(c, a) /\ Due(u, c, a) /\ LeftChild(c, a) # None
    BY <1>3, <1>4 DEF MergeFinds, Stacked, Looks, Takes
  <1>6. Reps(c.heap) = rep
    BY HeapParts
  <1>7. Found(u, c.heap, top.lc) = top.lc
    BY <1>1, <1>2, <1>3, <1>6, FoundEquation DEF Sound
  <1>8. top.lc # top.rc
    BY <1>5, <1>7, DueFacts
  <1> DEFINE f == [top EXCEPT !.at = "loop"]
             g == Call("merge", top.lc, top.rc, top.depth + 1)
  <1>9. /\ f \in Frame /\ f.kind = top.kind /\ f.left = top.left /\ f.right = top.right
        /\ f.at = "loop" /\ f.todo = top.todo
    BY <1>3 DEF Frame
  <1>10. g \in Frame
    BY <1>3, CallFrame
  <1>11. g.kind = "merge" /\ g.at = "entry" /\ g.left = top.lc /\ g.right = top.rc
    BY DEF Call
  <1>12. stack' = Append([stack EXCEPT ![Len(stack)] = f], g)
    BY <1>8 DEF MergeRecurse
  <1> HIDE DEF f, g
  <1>13. /\ Stacked(c, stack', "merge", c.depth + 1)
         /\ stack'[c.depth] = f /\ stack'[c.depth + 1] = g
         /\ \A i \in 1 .. c.depth : i < c.depth => stack'[i] = stack[i]
    BY <1>1, <1>5, <1>9, <1>10, <1>12, StackedPush
  <1>14. Calls(u, c, stack', "merge", a)
    BY <1>5, <1>7, <1>11, <1>13 DEF Calls
  <1>15. Resting(u, c, stack')
    BY <1>5, <1>13, RestingKept
  <1>16. MergeEnters(u, c, stack', a)
    BY <1>5, <1>9, <1>13, <1>14, <1>15 DEF MergeEnters
  <1>17. QED
    BY <1>16 DEF Merging

\* Joining two nodes is a step of the run.
LEMMA MergeNodesRun ==
    ASSUME TypeOK, MergeNodes, Performing, NEW u, BlockIsTree(u), NEW c \in Reach(u),
           c.heap = heap, Merging(u, c, stack)
    PROVE  \E d \in Reach(u) : d.heap = heap' /\ Merging(u, d, stack')
  <1>1. c \in Configuration /\ stack \in Seq(Frame) /\ c.depth \in Nat /\ Sound(u, c)
    BY ConfigurationTyped, ReachSound DEF Reach, TypeOK
  <1>2. At("merge", "entry")
    BY DEF MergeNodes
  <1>3. /\ stack # <<>> /\ Len(stack) \in Nat \ {0} /\ top \in Frame
        /\ stack[Len(stack)] = top /\ top.at = "entry" /\ top.kind = "merge"
        /\ top.left \in Node /\ top.right \in Node
    BY <1>1, <1>2, TopPlace
  <1> DEFINE f == [top EXCEPT !.at = "loop", !.todo = Symbol]
  <1>4. Replace(f) /\ heap' = JoinHeap(heap, top.left, top.right)
    BY DEF MergeNodes, heap, JoinHeap, MergeWith, DataUpdate
  <1>5. /\ f \in Frame /\ f.kind = top.kind /\ f.left = top.left /\ f.right = top.right
        /\ f.at = "loop" /\ f.todo = Symbol
    BY <1>3 DEF Frame
  <1> HIDE DEF f
  <1>6. /\ Len(stack') = Len(stack) /\ stack'[Len(stack)] = f
        /\ \A i \in 1 .. Len(stack) - 1 : stack'[i] = stack[i]
    BY <1>1, <1>3, <1>4, <1>5, ReplaceTop
  <1>7. CASE MergeCalled(u, c, stack)
    <2>1. /\ c.depth = 0 /\ Reps(c.heap)[u.right] = None /\ Len(stack) = 1
          /\ top.left = u.left /\ top.right = u.right
      BY <1>3, <1>7 DEF MergeCalled, Called
    <2>2. PICK d \in Reach(u) : FirstJoin(u, c, d)
      BY <2>1, FirstJoinExists
    <2>3. /\ d.heap = JoinHeap(c.heap, u.left, u.right) /\ d.depth = 1
          /\ d.left = [c.left EXCEPT ![1] = u.left]
          /\ d.right = [c.right EXCEPT ![1] = u.right]
          /\ d.todo = [c.todo EXCEPT ![1] = Symbol]
      BY <2>2 DEF FirstJoin
    <2>4. d.left[1] = u.left /\ d.right[1] = u.right /\ d.todo[1] = Symbol
      BY <1>1, <2>3, ConfigurationTyped
    <2>5. Stacked(d, stack', "merge", d.depth)
      BY <1>3, <1>5, <1>6, <2>1, <2>3, <2>4 DEF Stacked
    <2>6. Resting(u, d, stack') /\ Rests(u, d, stack', d.depth)
      BY <1>5, <1>6, <2>1, <2>3, <2>4 DEF Resting, Rests
    <2>7. MergeLoops(u, d, stack')
      BY <2>5, <2>6 DEF MergeLoops
    <2>8. d.heap = heap'
      BY <1>4, <2>1, <2>3
    <2>9. QED
      BY <2>7, <2>8 DEF Merging
  <1>8. ASSUME NEW a \in Symbol, MergeEnters(u, c, stack, a)
        PROVE  \E d \in Reach(u) : d.heap = heap' /\ Merging(u, d, stack')
    <2> DEFINE n == c.depth
    <2>1. /\ Stacked(c, stack, "merge", n + 1) /\ n > 0 /\ Len(stack) = n + 1
          /\ Resting(u, c, stack) /\ stack[n].at = "loop"
          /\ Due(u, c, a) /\ LeftChild(c, a) # None
          /\ stack[n].todo \subseteq Above(a) /\ (u.stops \/ stack[n].todo = Above(a))
          /\ top.left = Found(u, c.heap, LeftChild(c, a)) /\ top.right = RightChild(c, a)
      BY <1>3, <1>8 DEF MergeEnters, Stacked, Takes, Calls
    <2>2. PICK d \in Reach(u) : FoldedJoin(u, c, d, a)
      BY <2>1, FoldedJoinExists DEF LeftChild
    <2>3. /\ d.heap = JoinHeap(c.heap, top.left, top.right) /\ d.depth = n + 1
          /\ d.left = [c.left EXCEPT ![n + 1] = top.left]
          /\ d.right = [c.right EXCEPT ![n + 1] = top.right]
          /\ d.todo = [c.todo EXCEPT ![n] = Above(a), ![n + 1] = Symbol]
      BY <2>1, <2>2 DEF FoldedJoin, LeftChild, RightChild
    <2>4. /\ c.left \in [Nat -> Node] /\ c.right \in [Nat -> Node]
          /\ c.todo \in [Nat -> SUBSET Symbol] /\ n \in Nat /\ Above(a) \subseteq Symbol
      BY <1>1, ConfigurationTyped DEF Above
    <2> HIDE DEF n
    <2>5. /\ d.left[n + 1] = top.left /\ d.right[n + 1] = top.right
          /\ \A i \in 1 .. n : d.left[i] = c.left[i] /\ d.right[i] = c.right[i]
      BY <2>3, <2>4
    <2>6. /\ d.todo[n] = Above(a) /\ d.todo[n + 1] = Symbol
          /\ \A i \in 1 .. n : i < n => d.todo[i] = c.todo[i]
      <3>1. [c.todo EXCEPT ![n] = Above(a)] \in [Nat -> SUBSET Symbol]
        BY <2>4
      <3>2. QED
        BY <2>3, <2>4, <3>1
    <2>7. stack'[n + 1] = f /\ Len(stack') = n + 1 /\ \A i \in 1 .. n : stack'[i] = stack[i]
      BY <1>6, <2>1, <2>4
    <2>8. Stacked(d, stack', "merge", d.depth)
      <3>1. \A i \in 1 .. n :
               /\ stack[i].kind = "merge"
               /\ stack[i].left = c.left[i] /\ stack[i].right = c.right[i]
        BY <2>1 DEF Stacked, n
      <3>2. ASSUME NEW i \in 1 .. n + 1
            PROVE  /\ stack'[i].kind = "merge"
                   /\ stack'[i].left = d.left[i] /\ stack'[i].right = d.right[i]
        <4>1. CASE i = n + 1
          BY <1>3, <1>5, <2>5, <2>7, <4>1
        <4>2. CASE i # n + 1
          <5>1. i \in 1 .. n
            BY <2>4, <4>2
          <5>2. QED
            BY <2>5, <2>7, <3>1, <5>1
        <4>3. QED
          BY <4>1, <4>2
      <3>3. QED
        BY <2>3, <2>4, <2>7, <3>2 DEF Stacked
    <2>9. Resting(u, d, stack')
      <3> SUFFICES ASSUME NEW i \in 1 .. n PROVE Rests(u, d, stack', i)
        BY <2>3, <2>4 DEF Resting
      <3>1. stack'[i] = stack[i]
        BY <2>7
      <3>2. CASE i = n
        BY <2>1, <2>6, <3>1, <3>2 DEF Rests
      <3>3. CASE i # n
        <4>1. i < n /\ Rests(u, c, stack, i)
          BY <2>1, <2>4, <3>3 DEF Resting, n
        <4>2. QED
          BY <2>6, <3>1, <4>1 DEF Rests
      <3>4. QED
        BY <3>2, <3>3
    <2>10. Rests(u, d, stack', d.depth)
      BY <1>5, <2>3, <2>6, <2>7 DEF Rests
    <2>11. MergeLoops(u, d, stack')
      BY <2>8, <2>9, <2>10 DEF MergeLoops
    <2>12. d.heap = heap'
      BY <1>4, <2>3
    <2>13. QED
      BY <2>11, <2>12 DEF Merging
  <1>9. QED
    BY <1>1, <1>3, <1>7, <1>8, MergingPlace

\* The symbol the loop comes to is due in the run.
LEMMA FirstIsDue ==
    ASSUME TypeOK, At("merge", "loop"), NEW u, BlockIsTree(u), NEW c \in Reach(u),
           c.heap = heap, Merging(u, c, stack), NEW a, IsFirst(a)
    PROVE  /\ Stacked(c, stack, "merge", c.depth) /\ Len(stack) = c.depth
           /\ Resting(u, c, stack) /\ Due(u, c, a)
           /\ top.left = c.left[c.depth] /\ top.right = c.right[c.depth]
           /\ child[top.left][a] = LeftChild(c, a) /\ child[top.right][a] = RightChild(c, a)
           /\ After(a) \subseteq Above(a) /\ (u.stops \/ After(a) = Above(a))
  <1>1. c \in Configuration /\ stack \in Seq(Frame) /\ c.depth \in Nat /\ Sound(u, c)
    BY ConfigurationTyped, ReachSound DEF Reach, TypeOK
  <1>2. /\ stack # <<>> /\ stack[Len(stack)] = top /\ top.at = "loop" /\ top.todo \subseteq Symbol
    BY <1>1, TopPlace
  <1>3. MergeLoops(u, c, stack)
    BY <1>1, <1>2, MergingPlace
  <1>4. /\ Stacked(c, stack, "merge", c.depth) /\ Len(stack) = c.depth /\ c.depth > 0
        /\ Resting(u, c, stack)
        /\ top.todo \subseteq c.todo[c.depth] /\ (u.stops \/ top.todo = c.todo[c.depth])
    BY <1>2, <1>3 DEF MergeLoops, Stacked, Rests
  <1>5. top.left = c.left[c.depth] /\ top.right = c.right[c.depth]
    BY <1>1, <1>2, <1>4 DEF Stacked
  <1>6. Guards(c.heap) = child
    BY HeapParts
  <1>7. /\ a \in top.todo /\ child[top.right][a] # None
        /\ \A b \in top.todo : child[top.right][b] # None => a <= b
    BY <1>2 DEF IsFirst, pending, Guarded
  <1>8. Due(u, c, a)
    BY <1>4, <1>5, <1>6, <1>7 DEF Due
  <1>9. Above(a) \subseteq c.todo[c.depth]
    BY <1>8, DueFacts
  <1>10. After(a) \subseteq Above(a)
    BY <1>2 DEF After, Above
  <1>11. top.todo = c.todo[c.depth] => Above(a) \subseteq After(a)
    BY <1>9 DEF After, Above
  <1>12. QED
    BY <1>4, <1>5, <1>6, <1>8, <1>10, <1>11 DEF LeftChild, RightChild

\* Taking over a child is a step of the run.
LEMMA MergeAdoptRun ==
    ASSUME TypeOK, MergeAdopt, Performing, NEW u, BlockIsTree(u), NEW c \in Reach(u),
           c.heap = heap, Merging(u, c, stack)
    PROVE  \E d \in Reach(u) : d.heap = heap' /\ Merging(u, d, stack')
  <1>1. c \in Configuration /\ stack \in Seq(Frame) /\ c.depth \in Nat /\ Sound(u, c)
    BY ConfigurationTyped, ReachSound DEF Reach, TypeOK
  <1>2. At("merge", "loop")
    BY DEF MergeAdopt
  <1>3. stack # <<>> /\ top \in Frame /\ top.at = "loop" /\ stack[Len(stack)] = top
    BY <1>1, <1>2, TopPlace
  <1>4. PICK a \in Symbol :
           /\ IsFirst(a) /\ child[top.left][a] = None
           /\ child' = [child EXCEPT ![top.left][a] = child[top.right][a]]
           /\ Replace([top EXCEPT !.todo = After(a)])
    BY DEF MergeAdopt
  <1>5. /\ Stacked(c, stack, "merge", c.depth) /\ Len(stack) = c.depth
        /\ Resting(u, c, stack) /\ Due(u, c, a)
        /\ top.left = c.left[c.depth] /\ top.right = c.right[c.depth]
        /\ child[top.left][a] = LeftChild(c, a) /\ child[top.right][a] = RightChild(c, a)
        /\ After(a) \subseteq Above(a) /\ (u.stops \/ After(a) = Above(a))
    BY <1>2, <1>4, FirstIsDue
  <1>6. PICK d \in Reach(u) : Adoption(u, c, d, a)
    BY <1>4, <1>5, AdoptionExists DEF LeftChild
  <1>7. /\ d.heap = GuardHeap(c.heap, top.left, a, RightChild(c, a))
        /\ d.depth = c.depth /\ d.left = c.left /\ d.right = c.right
        /\ d.todo = [c.todo EXCEPT ![c.depth] = Above(a)]
    BY <1>5, <1>6 DEF Adoption, RightChild
  <1>8. d.heap = heap'
    <2>1. heap' = GuardHeap(heap, top.left, a, child[top.right][a])
      BY <1>4 DEF MergeAdopt, heap, GuardHeap
    <2>2. QED
      BY <1>5, <1>7, <2>1
  <1> DEFINE f == [top EXCEPT !.todo = After(a)]
  <1>9. /\ f \in Frame /\ f.kind = top.kind /\ f.left = top.left /\ f.right = top.right
        /\ f.at = "loop" /\ f.todo = After(a) /\ Replace(f)
    <2>1. After(a) \subseteq Symbol
      BY <1>5 DEF Above
    <2>2. QED
      BY <1>3, <1>4, <2>1 DEF Frame
  <1> HIDE DEF f
  <1>10. /\ Stacked(c, stack', "merge", c.depth) /\ stack'[c.depth] = f
         /\ \A i \in 1 .. c.depth : i < c.depth => stack'[i] = stack[i]
    BY <1>1, <1>5, <1>9, StackedReplace
  <1>11. Stacked(d, stack', "merge", d.depth)
    BY <1>7, <1>10 DEF Stacked
  <1>12. /\ d.todo[c.depth] = Above(a)
         /\ \A i \in 1 .. c.depth : i < c.depth => d.todo[i] = c.todo[i]
    BY <1>1, <1>7, ConfigurationTyped
  <1>13. Resting(u, d, stack')
    BY <1>5, <1>7, <1>10, <1>12 DEF Resting, Rests
  <1>14. Rests(u, d, stack', d.depth)
    BY <1>5, <1>7, <1>9, <1>10, <1>12 DEF Rests
  <1>15. MergeLoops(u, d, stack')
    BY <1>11, <1>13, <1>14 DEF MergeLoops
  <1>16. QED
    BY <1>8, <1>15 DEF Merging

\* Both nodes have a child on the next symbol.
LEMMA MergeChildrenRun ==
    ASSUME TypeOK, MergeChildren, NEW u, BlockIsTree(u), NEW c \in Reach(u), c.heap = heap,
           Merging(u, c, stack)
    PROVE  Merging(u, c, stack')
  <1>1. c \in Configuration /\ stack \in Seq(Frame) /\ c.depth \in Nat /\ Sound(u, c)
    BY ConfigurationTyped, ReachSound DEF Reach, TypeOK
  <1>2. At("merge", "loop")
    BY DEF MergeChildren
  <1>3. stack # <<>> /\ top \in Frame /\ stack[Len(stack)] = top
    BY <1>1, <1>2, TopPlace
  <1>4. PICK a \in Symbol :
           /\ IsFirst(a) /\ child[top.left][a] # None
           /\ Replace([top EXCEPT !.at = "find", !.todo = After(a),
                                  !.lc = child[top.left][a], !.rc = child[top.right][a]])
    BY DEF MergeChildren
  <1>5. /\ Stacked(c, stack, "merge", c.depth) /\ Len(stack) = c.depth
        /\ Resting(u, c, stack) /\ Due(u, c, a)
        /\ child[top.left][a] = LeftChild(c, a) /\ child[top.right][a] = RightChild(c, a)
        /\ After(a) \subseteq Above(a) /\ (u.stops \/ After(a) = Above(a))
    BY <1>2, <1>4, FirstIsDue
  <1>6. LeftChild(c, a) \in Node /\ RightChild(c, a) \in Node /\ LeftChild(c, a) # None
    BY <1>4, <1>5, DueFacts
  <1> DEFINE f == [top EXCEPT !.at = "find", !.todo = After(a),
                     !.lc = child[top.left][a], !.rc = child[top.right][a]]
  <1>7. /\ f \in Frame /\ f.kind = top.kind /\ f.left = top.left /\ f.right = top.right
        /\ f.at = "find" /\ f.todo = After(a) /\ Replace(f)
        /\ f.lc = LeftChild(c, a) /\ f.rc = RightChild(c, a)
    <2>1. After(a) \subseteq Symbol
      BY <1>5 DEF Above
    <2>2. QED
      BY <1>3, <1>4, <1>5, <1>6, <2>1 DEF Frame
  <1> HIDE DEF f
  <1>8. /\ Stacked(c, stack', "merge", c.depth) /\ stack'[c.depth] = f
        /\ \A i \in 1 .. c.depth : i < c.depth => stack'[i] = stack[i]
    BY <1>1, <1>5, <1>7, StackedReplace
  <1>9. Resting(u, c, stack')
    BY <1>5, <1>8, RestingKept
  <1>10. Takes(u, c, stack'[c.depth].todo, a) /\ Looks(u, c, stack', a)
    BY <1>5, <1>6, <1>7, <1>8 DEF Takes, Looks
  <1>11. MergeFinds(u, c, stack', a)
    BY <1>8, <1>9, <1>10 DEF MergeFinds
  <1>12. QED
    BY <1>11 DEF Merging

\* A call that returns has nothing left to do, unless a test stops.
LEMMA MergeReturnRun ==
    ASSUME TypeOK, MergeReturn, NEW u, BlockIsTree(u), Testing => u.stops \/ result,
           NEW c \in Reach(u), c.heap = heap, Merging(u, c, stack)
    PROVE  \E d \in Reach(u) : d.heap = heap' /\ Merging(u, d, stack')
  <1>1. /\ c \in Configuration /\ stack \in Seq(Frame) /\ c.depth \in Nat /\ Sound(u, c)
        /\ u.stops \in BOOLEAN
    BY ConfigurationTyped, ReachSound, StartTyped DEF Reach, TypeOK
  <1>2. At("merge", "loop") /\ Pop /\ heap' = heap
    BY DEF MergeReturn
  <1>3. stack # <<>> /\ top.at = "loop" /\ stack[Len(stack)] = top
    BY <1>1, <1>2, TopPlace
  <1>4. MergeLoops(u, c, stack)
    BY <1>1, <1>3, MergingPlace
  <1> DEFINE n == c.depth
  <1>5. /\ Stacked(c, stack, "merge", n) /\ Len(stack) = n /\ n > 0 /\ n \in Nat
        /\ Resting(u, c, stack) /\ stack[n] = top
        /\ u.stops \/ top.todo = c.todo[n]
    BY <1>1, <1>3, <1>4 DEF MergeLoops, Stacked, Rests
  <1>6. top.right = c.right[n] /\ Guards(c.heap) = child
    BY <1>5, HeapParts DEF Stacked
  <1>7. u.stops \/ \A b \in c.todo[n] : Guards(c.heap)[c.right[n]][b] = None
    <2> SUFFICES ASSUME ~u.stops, NEW b \in c.todo[n] PROVE child[top.right][b] = None
      BY <1>6
    <2>1. pending = {} /\ top.todo = c.todo[n]
      BY <1>1, <1>5 DEF MergeReturn
    <2>2. b \in Symbol
      BY <1>1, <1>5, ConfigurationTyped
    <2>3. QED
      BY <2>1, <2>2 DEF pending, Guarded
  <1>8. PICK d \in Reach(u) : Return(u, c, d)
    BY <1>5, <1>7, ReturnExists
  <1>9. /\ d.heap = c.heap /\ d.depth = n - 1
        /\ d.left = c.left /\ d.right = c.right /\ d.todo = c.todo
    BY <1>8 DEF Return
  <1>10. /\ Len(stack') = n - 1
         /\ \A i \in 1 .. n : i < n => stack'[i] = stack[i]
    BY <1>1, <1>2, <1>3, <1>5, StackedPop
  <1> HIDE DEF n
  <1>11. CASE n = 1
    <2>1. Reps(c.heap)[u.right] # None
      BY <1>1, <1>5 DEF Sound, FreshOK, n
    <2>2. MergeEnded(u, d, stack')
      BY <1>9, <1>10, <1>11, <2>1 DEF MergeEnded
    <2>3. QED
      BY <1>2, <1>9, <2>2 DEF Merging
  <1>12. CASE n # 1
    <2>1. d.depth \in Nat /\ d.depth > 0 /\ d.depth < n
      BY <1>5, <1>9, <1>12
    <2>2. \A i \in 1 .. d.depth : i \in 1 .. n /\ i < n
      BY <1>5, <2>1
    <2>3. Stacked(d, stack', "merge", d.depth)
      <3>1. \A i \in 1 .. n :
               /\ stack[i].kind = "merge"
               /\ stack[i].left = c.left[i] /\ stack[i].right = c.right[i]
        BY <1>5 DEF Stacked, n
      <3>2. QED
        BY <1>9, <1>10, <2>1, <2>2, <3>1 DEF Stacked
    <2>4. \A i \in 1 .. n : i < n => Rests(u, c, stack, i)
      BY <1>5 DEF Resting, n
    <2>5. \A i \in 1 .. d.depth : Rests(u, d, stack', i)
      BY <1>9, <1>10, <2>2, <2>4 DEF Rests
    <2>6. MergeLoops(u, d, stack')
      BY <2>1, <2>3, <2>5 DEF MergeLoops, Resting
    <2>7. QED
      BY <1>2, <1>9, <2>6 DEF Merging
  <1>13. QED
    BY <1>11, <1>12

\* merge is a run.
LEMMA MergeStepRun ==
    ASSUME TypeOK, MergeStep, Performing, NEW u, BlockIsTree(u), Testing => u.stops,
           NEW c \in Reach(u), c.heap = heap, Merging(u, c, stack)
    PROVE  \E d \in Reach(u) : d.heap = heap' /\ Merging(u, d, stack')
  <1>1. CASE MergeStop
    <2>1. u.stops /\ heap' = heap
      BY <1>1 DEF MergeStop, heap
    <2>2. Merging(u, c, stack')
      BY <1>1, <2>1, MergeStopRun
    <2>3. QED
      BY <2>1, <2>2
  <1>2. CASE MergeChildren
    <2>1. Merging(u, c, stack') /\ heap' = heap
      BY <1>2, MergeChildrenRun DEF MergeChildren
    <2>2. QED
      BY <2>1
  <1>3. CASE MergeFind
    <2>1. Merging(u, c, stack') /\ heap' = heap
      BY <1>3, MergeFindRun DEF MergeFind
    <2>2. QED
      BY <2>1
  <1>4. CASE MergeRecurse
    <2>1. Merging(u, c, stack') /\ heap' = heap
      BY <1>4, MergeRecurseRun DEF MergeRecurse
    <2>2. QED
      BY <2>1
  <1>5. QED
    BY <1>1, <1>2, <1>3, <1>4, MergeNodesRun, MergeAdoptRun, MergeReturnRun DEF MergeStep

\* An undo is not part of it.
LEMMA MergingOnly ==
    ASSUME TypeOK, NEW u, NEW c \in Reach(u), Merging(u, c, stack)
    PROVE  ~UndoStep
  <1>1. c \in Configuration /\ stack \in Seq(Frame)
    BY DEF Reach, TypeOK
  <1>2. stack # <<>> => top.kind = "merge"
    BY <1>1, MergingPlace
  <1>3. QED
    BY <1>2 DEF UndoStep, UndoSkip, UndoEnter, UndoAdopt, UndoChildren, UndoFind,
       UndoRecurse, UndoNodes, At

\* What merge asserts: the right child is not merged and is not the left one.
LEMMA MergingAsserts ==
    ASSUME TypeOK, NEW u, BlockIsTree(u), NEW c \in Reach(u), c.heap = heap,
           Merging(u, c, stack)
    PROVE  /\ At("merge", "find") => rep[top.rc] = None /\ top.lc # top.rc
           /\ At("merge", "entry") => rep[top.right] = None
  <1>1. c \in Configuration /\ stack \in Seq(Frame) /\ c.depth \in Nat /\ Sound(u, c)
    BY ConfigurationTyped, ReachSound DEF Reach, TypeOK
  <1>2. Reps(c.heap) = rep
    BY HeapParts
  <1>3. ASSUME At("merge", "find")
        PROVE  rep[top.rc] = None /\ top.lc # top.rc
    <2>1. stack # <<>> /\ stack[Len(stack)] = top /\ top.at = "find" /\ top.lc \in Node
      BY <1>1, <1>3, TopPlace
    <2>2. PICK a \in Symbol : MergeFinds(u, c, stack, a)
      BY <1>1, <2>1, MergingPlace
    <2>3. /\ Due(u, c, a) /\ LeftChild(c, a) # None
          /\ Found(u, c.heap, top.lc) = Found(u, c.heap, LeftChild(c, a))
          /\ top.rc = RightChild(c, a)
      BY <2>1, <2>2 DEF MergeFinds, Stacked, Looks, Takes
    <2>4. /\ RightChild(c, a) \in c.fresh /\ RightChild(c, a) \in Node
          /\ Reps(c.heap)[RightChild(c, a)] = None
          /\ Found(u, c.heap, LeftChild(c, a)) \notin c.fresh
      BY <2>3, DueFacts
    <2>5. Found(u, c.heap, RightChild(c, a)) = RightChild(c, a)
      BY <1>1, <2>4, FoundEquation DEF Sound
    <2>6. QED
      BY <1>2, <2>3, <2>4, <2>5
  <1>4. ASSUME At("merge", "entry")
        PROVE  rep[top.right] = None
    <2>1. stack # <<>> /\ stack[Len(stack)] = top /\ top.at = "entry"
      BY <1>1, <1>4, TopPlace
    <2>2. CASE MergeCalled(u, c, stack)
      BY <1>2, <2>1, <2>2 DEF MergeCalled, Called
    <2>3. ASSUME NEW a \in Symbol, MergeEnters(u, c, stack, a)
          PROVE  rep[top.right] = None
      <3>1. Due(u, c, a) /\ top.right = RightChild(c, a)
        BY <2>1, <2>3 DEF MergeEnters, Stacked, Calls, Takes
      <3>2. QED
        BY <1>2, <3>1, DueFacts
    <2>4. QED
      BY <1>1, <2>1, <2>2, <2>3, MergingPlace
  <1>5. QED
    BY <1>3, <1>4

-----------------------------------------------------------------------------
(* undo_merge.                                                             *)

\* Where the innermost call of undo_merge is, and where the run is.
LEMMA UndoingPlace ==
    ASSUME stack \in Seq(Frame), NEW u, NEW c \in Configuration, Undoing(u, c, stack),
           stack # <<>>
    PROVE  /\ top.kind = "undo"
           /\ top.at = "entry" =>
                 UndoCalled(u, c, stack) \/ \E a \in Symbol : UndoEnters(u, c, stack, a)
           /\ top.at = "loop" => UndoLoops(u, c, stack)
           /\ top.at = "find" => \E a \in Symbol : UndoFinds(u, c, stack, a)
  <1>1. c.depth \in Nat /\ Len(stack) \in Nat \ {0}
    BY ConfigurationTyped, TopFrame
  <1>2. ~UndoEnded(u, c, stack)
    BY <1>1 DEF UndoEnded
  <1>3. CASE UndoCalled(u, c, stack)
    BY <1>3 DEF UndoCalled, Called, top
  <1>4. CASE UndoLoops(u, c, stack)
    BY <1>1, <1>4 DEF UndoLoops, Stacked, top
  <1>5. ASSUME NEW a \in Symbol, UndoFinds(u, c, stack, a)
        PROVE  top.kind = "undo" /\ top.at = "find"
    BY <1>1, <1>5 DEF UndoFinds, Stacked, Looks, top
  <1>6. ASSUME NEW a \in Symbol, UndoEnters(u, c, stack, a)
        PROVE  top.kind = "undo" /\ top.at = "entry"
    BY <1>1, <1>6 DEF UndoEnters, Stacked, Calls, top
  <1>7. QED
    BY <1>2, <1>3, <1>4, <1>5, <1>6 DEF Undoing

\* Calls that wait go on waiting.
LEMMA WaitingKept ==
    ASSUME NEW c, NEW s, Waiting(c, s), NEW t,
           \A i \in 1 .. c.depth : i < c.depth => t[i] = s[i]
    PROVE  Waiting(c, t)
  BY DEF Waiting, Waits

\* The innermost call of a configuration.
LEMMA InnerCall ==
    ASSUME NEW u, BlockIsTree(u), NEW c \in Reach(u), c.depth > 0
    PROVE  /\ c \in Configuration /\ Sound(u, c) /\ c.depth \in Nat /\ c.depth \in 1 .. c.depth
           /\ c.left[c.depth] \in Node \ c.fresh /\ c.right[c.depth] \in Node
           /\ Reps(c.heap)[c.left[c.depth]] = None
           /\ Reps(c.heap)[c.right[c.depth]] = c.left[c.depth]
           /\ c.left[c.depth] # c.right[c.depth]
           /\ Reps(c.heap)[u.right] # None
           /\ \A a \in Symbol : RightChild(c, a) # None =>
                 /\ RightChild(c, a) \in Node
                 /\ a \in c.todo[c.depth] =>
                       RightChild(c, a) \in c.fresh /\ Reps(c.heap)[RightChild(c, a)] = None
  <1>1. c \in Configuration /\ Sound(u, c)
    BY ReachSound DEF Reach
  <1>2. /\ c.depth \in Nat /\ c.depth \in 1 .. c.depth
        /\ c.left[c.depth] \in Node /\ c.right[c.depth] \in Node
        /\ Guards(c.heap) \in [Node -> [Symbol -> Node \cup {None}]]
    BY <1>1, ConfigurationTyped
  <1>3. /\ c.left[c.depth] \notin c.fresh /\ Reps(c.heap)[c.left[c.depth]] = None
        /\ Reps(c.heap)[c.right[c.depth]] = c.left[c.depth]
    BY <1>1, <1>2 DEF Sound, FramesOK, FrameOK
  <1>4. Reps(c.heap)[u.right] # None
    BY <1>1 DEF Sound, FreshOK
  <1>5. ASSUME NEW a \in Symbol, RightChild(c, a) # None
        PROVE  /\ RightChild(c, a) \in Node
               /\ a \in c.todo[c.depth] =>
                     RightChild(c, a) \in c.fresh /\ Reps(c.heap)[RightChild(c, a)] = None
    <2>1. RightChild(c, a) \in Node
      BY <1>2, <1>5 DEF RightChild
    <2>2. ASSUME a \in c.todo[c.depth]
          PROVE  RightChild(c, a) \in c.fresh /\ Reps(c.heap)[RightChild(c, a)] = None
      BY <1>1, <1>5, <2>2, DueChild DEF RightChild
    <2>3. QED
      BY <2>1, <2>2
  <1>6. QED
    BY <1>1, <1>2, <1>3, <1>4, <1>5, AptaAssumption

\* An adopted child is the child of both nodes.
LEMMA AdoptedByLeft ==
    ASSUME NEW u, BlockIsTree(u), NEW p \in Reach(u), NEW c \in Reach(u), NEW a \in Symbol,
           Adoption(u, p, c, a)
    PROVE  LeftChild(c, a) = RightChild(c, a)
  <1>1. /\ Due(u, p, a)
        /\ c.heap = GuardHeap(p.heap, p.left[p.depth], a, RightChild(p, a))
        /\ c.depth = p.depth /\ c.left = p.left /\ c.right = p.right
    BY DEF Adoption, RightChild
  <1>2. /\ p \in Configuration /\ p.left[p.depth] \in Node /\ RightChild(p, a) \in Node
        /\ p.depth > 0
    BY <1>1, DueFacts
  <1>3. p.right[p.depth] \in Node /\ p.left[p.depth] # p.right[p.depth]
    BY <1>2, InnerCall
  <1>4. /\ p.heap \in Snapshot
        /\ Guards(p.heap) \in [Node -> [Symbol -> Node \cup {None}]]
    BY <1>2, ConfigurationTyped
  <1> DEFINE l == p.left[p.depth]
             t == RightChild(p, a)
  <1>5. /\ p.heap \in Snapshot /\ l \in Node /\ a \in Symbol /\ t \in Node \cup {None}
        /\ c.heap = GuardHeap(p.heap, l, a, t)
        /\ p.right[p.depth] # l /\ t = Guards(p.heap)[p.right[p.depth]][a]
    BY <1>1, <1>2, <1>3, <1>4 DEF RightChild
  <1> HIDE DEF l, t
  <1>6. Guards(GuardHeap(p.heap, l, a, t)) = [Guards(p.heap) EXCEPT ![l][a] = t]
    <2>1. l \in Node /\ a \in Symbol /\ t \in Node \cup {None} /\ p.heap \in Snapshot
      BY ONLY <1>5
    <2>2. /\ Guards(GuardHeap(p.heap, l, a, t)) = [Guards(p.heap) EXCEPT ![l][a] = t]
          /\ Reps(GuardHeap(p.heap, l, a, t)) = Reps(p.heap)
          /\ NextsMerged(GuardHeap(p.heap, l, a, t)) = NextsMerged(p.heap)
          /\ Reds(GuardHeap(p.heap, l, a, t)) = Reds(p.heap)
          /\ Sinks(GuardHeap(p.heap, l, a, t)) = Sinks(p.heap)
      BY ONLY <2>1, GuardedHeap
    <2>3. QED
      BY ONLY <2>2
  <1>7. Guards(c.heap)[l][a] = t /\ Guards(c.heap)[p.right[p.depth]][a] = t
    BY <1>3, <1>4, <1>5, <1>6
  <1>8. QED
    BY <1>1, <1>7 DEF LeftChild, RightChild, l

\* undo_merge turns to the children the run turned to last.
LEMMA TurnBack ==
    ASSUME NEW u, BlockIsTree(u), NEW c \in Reach(u), c.depth > 0,
           NEW a \in Symbol, NEW T, Turns(u, c, T, a), a \notin c.todo[c.depth]
    PROVE  \E p \in Reach(u) :
              /\ p.heap = c.heap /\ p.depth = c.depth + 1
              /\ p.left = c.left /\ p.right = c.right /\ p.todo = c.todo
              /\ c.todo[c.depth] = Above(a)
              /\ p.left[p.depth] = Found(u, c.heap, LeftChild(c, a))
              /\ p.right[p.depth] = RightChild(c, a)
              /\ Reps(c.heap)[RightChild(c, a)] = Found(u, c.heap, LeftChild(c, a))
              /\ Reps(c.heap)[RightChild(c, a)] # RightChild(c, a)
              /\ Reps(c.heap)[RightChild(c, a)] # None
              /\ ~u.stops => \A b \in p.todo[p.depth] :
                                Guards(p.heap)[p.right[p.depth]][b] = None
  <1>1. /\ RightChild(c, a) # None /\ LeftChild(c, a) # RightChild(c, a)
        /\ \A b \in Symbol : RightChild(c, b) # None /\ b \notin c.todo[c.depth] => b <= a
    BY DEF Turns
  <1>2. PICK p \in Reach(u) : \/ Adoption(u, p, c, a)
                              \/ Return(u, p, c) /\ Link(u, p, c.depth, a)
    BY <1>1, SymbolBack DEF RightChild
  <1>3. Return(u, p, c) /\ Link(u, p, c.depth, a)
    BY <1>1, <1>2, AdoptedByLeft
  <1>4. /\ p \in Configuration /\ p.depth \in Nat /\ p.depth > 0 /\ c.depth = p.depth - 1
        /\ p.heap = c.heap /\ p.left = c.left /\ p.right = c.right /\ p.todo = c.todo
        /\ u.stops \/ \A b \in p.todo[p.depth] :
                         Guards(p.heap)[p.right[p.depth]][b] = None
    BY <1>3, InnerCall DEF Return
  <1>5. p.depth = c.depth + 1 /\ c.depth \in Nat
    BY <1>4, InnerCall
  <1>6. /\ c.todo[c.depth] = Above(a)
        /\ Found(u, c.heap, LeftChild(c, a)) = p.left[p.depth]
        /\ Guards(u.start)[c.right[c.depth]][a] = p.right[p.depth]
    BY <1>3, <1>4, <1>5 DEF Link, LeftChild
  <1>7. Guards(c.heap)[c.right[c.depth]] = Guards(u.start)[c.right[c.depth]]
    <2>1. /\ GuardsOK(u, c) /\ c.right[c.depth] \in Block(u)
          /\ Reps(c.heap)[c.right[c.depth]] # None
      BY InnerCall, AptaAssumption DEF Sound, FramesOK, FrameOK
    <2>2. QED
      BY <2>1 DEF GuardsOK
  <1>8. RightChild(c, a) = p.right[p.depth]
    BY <1>6, <1>7 DEF RightChild
  <1>9. /\ Reps(p.heap)[p.right[p.depth]] = p.left[p.depth]
        /\ p.left[p.depth] # p.right[p.depth] /\ p.left[p.depth] \in Node
    BY <1>4, InnerCall
  <1>10. QED
    BY <1>4, <1>5, <1>6, <1>8, <1>9, AptaAssumption

\* The loop of undo_merge after it has gone back over the symbol a.
LEMMA LoopBack ==
    ASSUME NEW u, BlockIsTree(u), NEW p \in Reach(u), NEW a, Due(u, p, a), NEW s,
           Stacked(p, s, "undo", p.depth), Waiting(p, s),
           s[p.depth].at = "loop", s[p.depth].todo = Beneath(a)
    PROVE  UndoLoops(u, p, s)
  <1>1. /\ a \in Symbol /\ a \in p.todo[p.depth] /\ Above(a) \subseteq p.todo[p.depth]
        /\ u.stops \/ \A b \in p.todo[p.depth] :
                         Guards(p.heap)[p.right[p.depth]][b] # None => a <= b
    BY DueFacts DEF Due
  <1>2. Symbol \subseteq Nat
    BY AptaAssumption
  <1>3. ASSUME NEW b \in Beneath(a), NEW d \in Beneath(b)
        PROVE  d \in Beneath(a)
    <2>1. a \in Nat /\ b \in Nat /\ d \in Nat /\ d \in Symbol /\ d < b /\ b < a
      BY <1>1, <1>2 DEF Beneath
    <2>2. d < a
      BY <2>1
    <2>3. QED
      BY <2>1, <2>2 DEF Beneath
  <1>4. ASSUME NEW b \in Symbol, RightChild(p, b) # None, b \in p.todo[p.depth]
        PROVE  u.stops \/ b \notin Beneath(a)
    BY <1>1, <1>2, <1>4 DEF Beneath, RightChild
  <1>5. ASSUME NEW b \in Symbol, b \notin p.todo[p.depth]
        PROVE  b \in Beneath(a)
    <2>1. b # a /\ b \notin Above(a)
      BY <1>1, <1>5
    <2>2. a \in Nat /\ b \in Nat /\ ~ a < b
      BY <1>1, <1>2, <2>1 DEF Above
    <2>3. b < a
      BY <2>1, <2>2
    <2>4. QED
      BY <2>3 DEF Beneath
  <1>6. QED
    BY <1>3, <1>4, <1>5 DEF UndoLoops

\* The child of a node nobody merged is left alone.
LEMMA UndoSkipRun ==
    ASSUME TypeOK, UndoSkip, NEW u, BlockIsTree(u), NEW c \in Reach(u), c.heap = heap,
           Undoing(u, c, stack)
    PROVE  Undoing(u, c, stack')
  <1>1. c \in Configuration /\ stack \in Seq(Frame) /\ c.depth \in Nat
    BY ConfigurationTyped DEF Reach, TypeOK
  <1>2. At("undo", "entry") /\ Pop /\ rep[top.right] = None
    BY DEF UndoSkip
  <1>3. /\ stack # <<>> /\ stack[Len(stack)] = top /\ top.at = "entry"
        /\ Reps(c.heap) = rep
    BY <1>1, <1>2, TopPlace, HeapParts
  <1>4. /\ Len(stack') = Len(stack) - 1
        /\ \A i \in 1 .. Len(stack) : i < Len(stack) => stack'[i] = stack[i]
    BY <1>1, <1>2, <1>3, StackedPop
  <1>5. CASE UndoCalled(u, c, stack)
    <2>1. c.depth = 0 /\ Len(stack) = 1 /\ top.right = u.right
      BY <1>3, <1>5 DEF UndoCalled, Called
    <2>2. UndoEnded(u, c, stack')
      BY <1>2, <1>3, <1>4, <2>1 DEF UndoEnded
    <2>3. QED
      BY <2>2 DEF Undoing
  <1>6. ASSUME NEW a \in Symbol, UndoEnters(u, c, stack, a)
        PROVE  UndoLoops(u, c, stack')
    <2>1. /\ c.depth > 0 /\ Len(stack) = c.depth + 1
          /\ Waiting(c, stack) /\ stack[c.depth].at = "loop"
          /\ Turns(u, c, stack[c.depth].todo, a)
          /\ top.right = RightChild(c, a)
      BY <1>3, <1>6 DEF UndoEnters, Stacked, Calls
    <2>2. a \in c.todo[c.depth]
      BY <1>2, <1>3, <2>1, TurnBack
    <2>3. u.stops /\ RightChild(c, a) # None
      BY <2>1, <2>2 DEF Turns
    <2>4. Due(u, c, a)
      BY <2>1, <2>2, <2>3 DEF Due, RightChild
    <2>5. \A i \in 1 .. c.depth : stack'[i] = stack[i]
      <3>1. \A i \in 1 .. c.depth : i \in 1 .. Len(stack) /\ i < Len(stack)
        BY <1>1, <2>1
      <3>2. QED
        BY <1>4, <3>1
    <2>6. Stacked(c, stack', "undo", c.depth)
      BY <1>1, <1>4, <1>6, <2>1, <2>5 DEF UndoEnters, Stacked
    <2>7. Waiting(c, stack')
      BY <2>1, <2>5, WaitingKept
    <2>8. stack'[c.depth] = stack[c.depth] /\ stack[c.depth].todo = Beneath(a)
      BY <1>1, <2>1, <2>5 DEF Turns
    <2>9. QED
      BY <2>1, <2>4, <2>6, <2>7, <2>8, LoopBack
  <1>7. QED
    BY <1>1, <1>3, <1>5, <1>6, UndoingPlace DEF Undoing

\* A call that has come to a merged node goes back into the call of merge that
\* merged it.
LEMMA UndoEnterRun ==
    ASSUME TypeOK, UndoEnter, NEW u, BlockIsTree(u), NEW c \in Reach(u), c.heap = heap,
           Undoing(u, c, stack)
    PROVE  \E d \in Reach(u) : d.heap = heap' /\ Undoing(u, d, stack')
  <1>1. c \in Configuration /\ stack \in Seq(Frame) /\ c.depth \in Nat /\ u.stops \in BOOLEAN
    BY ConfigurationTyped, StartTyped DEF Reach, TypeOK
  <1>2. At("undo", "entry") /\ rep[top.right] # None /\ heap' = heap
    BY DEF UndoEnter
  <1>3. /\ stack # <<>> /\ Len(stack) \in Nat \ {0} /\ top \in Frame
        /\ stack[Len(stack)] = top /\ top.at = "entry" /\ top.kind = "undo"
        /\ Reps(c.heap) = rep
    BY <1>1, <1>2, TopPlace, HeapParts
  <1> DEFINE f == [top EXCEPT !.at = "loop", !.todo = Symbol]
  <1>4. Replace(f)
    BY DEF UndoEnter
  <1>5. /\ f \in Frame /\ f.kind = top.kind /\ f.left = top.left /\ f.right = top.right
        /\ f.at = "loop" /\ f.todo = Symbol
    BY <1>3 DEF Frame
  <1> HIDE DEF f
  <1>6. /\ Len(stack') = Len(stack) /\ stack'[Len(stack)] = f
        /\ \A i \in 1 .. Len(stack) - 1 : stack'[i] = stack[i]
    BY <1>1, <1>3, <1>4, <1>5, ReplaceTop
  \* It is in the loop of a configuration that has only just finished with it.
  <1>7. ASSUME NEW p \in Reach(u), p.depth = Len(stack), p.heap = c.heap,
               Stacked(p, stack', "undo", p.depth), Waiting(p, stack'),
               ~u.stops => \A b \in p.todo[p.depth] :
                              Guards(p.heap)[p.right[p.depth]][b] = None
        PROVE  \E d \in Reach(u) : d.heap = heap' /\ Undoing(u, d, stack')
    <2>1. stack'[p.depth] = f
      BY <1>6, <1>7
    <2>2. \A a \in Symbol : Beneath(a) \subseteq Symbol
      BY DEF Beneath
    <2>3. UndoLoops(u, p, stack')
      BY <1>1, <1>5, <1>7, <2>1, <2>2 DEF UndoLoops, RightChild
    <2>4. QED
      BY <1>2, <1>7, <2>3 DEF Undoing
  <1>8. CASE UndoCalled(u, c, stack)
    <2>1. /\ c.depth = 0 /\ Len(stack) = 1
          /\ top.left = u.left /\ top.right = u.right
      BY <1>3, <1>8 DEF UndoCalled, Called
    <2>2. PICK p \in Reach(u) : Return(u, p, c) /\ p.depth = 1
      BY <1>2, <1>3, <2>1, ReturnBack
    <2>3. /\ p.heap = c.heap
          /\ u.stops \/ \A b \in p.todo[p.depth] :
                           Guards(p.heap)[p.right[p.depth]][b] = None
      BY <2>2 DEF Return
    <2>4. p.left[1] = u.left /\ p.right[1] = u.right
      BY <2>2, ReachSound DEF Sound, FramesOK
    <2>5. Stacked(p, stack', "undo", p.depth)
      BY <1>3, <1>5, <1>6, <2>1, <2>2, <2>4 DEF Stacked
    <2>6. Waiting(p, stack')
      BY <2>2 DEF Waiting
    <2>7. QED
      BY <1>7, <2>1, <2>2, <2>3, <2>5, <2>6
  <1>9. ASSUME NEW a \in Symbol, UndoEnters(u, c, stack, a)
        PROVE  \E d \in Reach(u) : d.heap = heap' /\ Undoing(u, d, stack')
    <2> DEFINE n == c.depth
    <2>1. /\ Stacked(c, stack, "undo", n + 1) /\ n > 0 /\ Len(stack) = n + 1 /\ n \in Nat
          /\ Waiting(c, stack) /\ stack[n].at = "loop"
          /\ Turns(u, c, stack[n].todo, a)
          /\ top.left = Found(u, c.heap, LeftChild(c, a)) /\ top.right = RightChild(c, a)
      BY <1>1, <1>3, <1>9 DEF UndoEnters, Stacked, Calls
    <2>2. a \notin c.todo[n] /\ stack[n].todo = Beneath(a)
      BY <1>2, <1>3, <2>1, InnerCall DEF Turns
    <2>3. PICK p \in Reach(u) :
             /\ p.heap = c.heap /\ p.depth = c.depth + 1
             /\ p.left = c.left /\ p.right = c.right /\ p.todo = c.todo
             /\ c.todo[c.depth] = Above(a)
             /\ p.left[p.depth] = Found(u, c.heap, LeftChild(c, a))
             /\ p.right[p.depth] = RightChild(c, a)
             /\ ~u.stops => \A b \in p.todo[p.depth] :
                               Guards(p.heap)[p.right[p.depth]][b] = None
      <3>1. c.depth > 0 /\ Turns(u, c, stack[c.depth].todo, a) /\ a \notin c.todo[c.depth]
        BY <2>1, <2>2
      <3> HIDE DEF n
      <3>2. QED
        BY <3>1, TurnBack
    <2>4. stack'[n + 1] = f /\ Len(stack') = n + 1 /\ \A i \in 1 .. n : stack'[i] = stack[i]
      BY <1>6, <2>1
    <2>5. Stacked(p, stack', "undo", p.depth)
      <3>1. /\ \A i \in 1 .. n :
                  /\ stack[i].kind = "undo"
                  /\ stack[i].left = c.left[i] /\ stack[i].right = c.right[i]
            /\ p.depth = n + 1
            /\ p.left[n + 1] = top.left /\ p.right[n + 1] = top.right
        BY <2>1, <2>3 DEF Stacked
      <3> HIDE DEF n
      <3>2. ASSUME NEW i \in 1 .. n + 1
            PROVE  /\ stack'[i].kind = "undo"
                   /\ stack'[i].left = p.left[i] /\ stack'[i].right = p.right[i]
        <4>1. CASE i = n + 1
          BY <1>3, <1>5, <2>4, <3>1, <4>1
        <4>2. CASE i # n + 1
          <5>1. i \in 1 .. n
            BY <2>1, <4>2
          <5>2. QED
            BY <2>3, <2>4, <3>1, <5>1
        <4>3. QED
          BY <4>1, <4>2
      <3>3. p.depth > 0
        BY <2>1, <3>1
      <3>4. QED
        BY <2>4, <3>1, <3>2, <3>3 DEF Stacked
    <2>6. Waiting(p, stack')
      <3> SUFFICES ASSUME NEW i \in 1 .. n PROVE Waits(p, stack', i)
        BY <2>1, <2>3 DEF Waiting
      <3>1. stack'[i] = stack[i]
        BY <2>4
      <3>2. CASE i = n
        <4>1. stack[n].at = "loop" /\ p.todo[n] = Above(a) /\ stack[n].todo = Beneath(a)
          BY <2>1, <2>2, <2>3
        <4> HIDE DEF n
        <4>2. QED
          BY <3>1, <3>2, <4>1 DEF Waits
      <3>3. CASE i # n
        <4>1. i < n /\ Waits(c, stack, i)
          BY <2>1, <3>3 DEF Waiting
        <4>2. QED
          BY <2>3, <3>1, <4>1 DEF Waits
      <3>4. QED
        BY <3>2, <3>3
    <2>7. QED
      BY <1>7, <2>1, <2>3, <2>5, <2>6
  <1>10. QED
    BY <1>1, <1>3, <1>8, <1>9, UndoingPlace

\* The symbol the loop of undo_merge comes to.
LEMMA LastTurns ==
    ASSUME TypeOK, At("undo", "loop"), NEW u, BlockIsTree(u), NEW c \in Reach(u),
           c.heap = heap, Undoing(u, c, stack), NEW a, IsLast(a)
    PROVE  /\ Stacked(c, stack, "undo", c.depth) /\ Len(stack) = c.depth /\ c.depth > 0
           /\ Waiting(c, stack)
           /\ top.left = c.left[c.depth] /\ top.right = c.right[c.depth]
           /\ child[top.left][a] = LeftChild(c, a) /\ child[top.right][a] = RightChild(c, a)
           /\ a \in Symbol /\ RightChild(c, a) # None
           /\ Before(a) = Beneath(a)
           /\ \A b \in Symbol : RightChild(c, b) # None /\ b \notin c.todo[c.depth] => b <= a
           /\ u.stops \/ a \notin c.todo[c.depth]
  <1>1. c \in Configuration /\ stack \in Seq(Frame) /\ c.depth \in Nat
    BY ConfigurationTyped DEF Reach, TypeOK
  <1>2. /\ stack # <<>> /\ stack[Len(stack)] = top /\ top.at = "loop" /\ top.todo \subseteq Symbol
    BY <1>1, TopPlace
  <1>3. UndoLoops(u, c, stack)
    BY <1>1, <1>2, UndoingPlace
  <1>4. /\ Stacked(c, stack, "undo", c.depth) /\ Len(stack) = c.depth /\ c.depth > 0
        /\ Waiting(c, stack)
        /\ \A b \in top.todo : Beneath(b) \subseteq top.todo
        /\ \A b \in Symbol : RightChild(c, b) # None =>
              IF b \in c.todo[c.depth] THEN u.stops \/ b \notin top.todo ELSE b \in top.todo
    BY <1>2, <1>3 DEF UndoLoops, Stacked
  <1>5. top.left = c.left[c.depth] /\ top.right = c.right[c.depth]
    BY <1>1, <1>2, <1>4 DEF Stacked
  <1>6. \A b : child[top.left][b] = LeftChild(c, b) /\ child[top.right][b] = RightChild(c, b)
    BY <1>5, HeapParts DEF LeftChild, RightChild
  <1>7. /\ a \in top.todo /\ RightChild(c, a) # None
        /\ \A b \in top.todo : RightChild(c, b) # None => b <= a
    BY <1>2, <1>6 DEF IsLast, pending, Guarded
  <1>8. Before(a) = Beneath(a)
    BY <1>2, <1>4, <1>7 DEF Before, Beneath
  <1>9. QED
    BY <1>2, <1>4, <1>5, <1>6, <1>7, <1>8

\* Giving back a child is an adoption undone.
LEMMA UndoAdoptRun ==
    ASSUME TypeOK, UndoAdopt, NEW u, BlockIsTree(u), NEW c \in Reach(u), c.heap = heap,
           Undoing(u, c, stack)
    PROVE  \E d \in Reach(u) : d.heap = heap' /\ Undoing(u, d, stack')
  <1>1. c \in Configuration /\ stack \in Seq(Frame) /\ c.depth \in Nat
    BY ConfigurationTyped DEF Reach, TypeOK
  <1>2. At("undo", "loop")
    BY DEF UndoAdopt
  <1>3. stack # <<>> /\ top \in Frame /\ top.at = "loop" /\ stack[Len(stack)] = top
    BY <1>1, <1>2, TopPlace
  <1>4. PICK a \in Symbol :
           /\ IsLast(a) /\ child[top.left][a] \in {None, child[top.right][a]}
           /\ child' = [child EXCEPT ![top.left][a] = None]
           /\ Replace([top EXCEPT !.todo = Before(a)])
    BY DEF UndoAdopt
  <1>5. /\ Stacked(c, stack, "undo", c.depth) /\ Len(stack) = c.depth /\ c.depth > 0
        /\ Waiting(c, stack)
        /\ top.left = c.left[c.depth] /\ top.right = c.right[c.depth]
        /\ child[top.left][a] = LeftChild(c, a) /\ child[top.right][a] = RightChild(c, a)
        /\ RightChild(c, a) # None
        /\ Before(a) = Beneath(a)
        /\ \A b \in Symbol : RightChild(c, b) # None /\ b \notin c.todo[c.depth] => b <= a
        /\ u.stops \/ a \notin c.todo[c.depth]
    BY <1>2, <1>4, LastTurns
  <1>6. LeftChild(c, a) \in {None, RightChild(c, a)}
    BY <1>4, <1>5
  <1>7. heap' = GuardHeap(c.heap, c.left[c.depth], a, None)
    <2>1. heap' = GuardHeap(heap, top.left, a, None)
      BY <1>4 DEF UndoAdopt, heap, GuardHeap
    <2>2. QED
      BY <1>5, <2>1
  <1>8. \E p \in Reach(u) :
           /\ p.heap = heap' /\ p.depth = c.depth /\ p.left = c.left /\ p.right = c.right
           /\ Due(u, p, a)
           /\ \A i \in 1 .. c.depth : i < c.depth => p.todo[i] = c.todo[i]
    <2>1. CASE a \in c.todo[c.depth]
      <3>1. Due(u, c, a)
        BY <1>5, <2>1 DEF Due, RightChild
      <3>2. LeftChild(c, a) = None
        BY <1>6, <3>1, DueFacts
      <3>3. heap' = heap
        <4>1. child \in [Node -> [Symbol -> Node \cup {None}]] /\ top.left \in Node
          BY <1>3 DEF TypeOK, AptaTypeOK, Frame
        <4>2. child[top.left][a] = None
          BY <1>5, <3>2
        <4>3. child' = child
          BY <1>4, <4>1, <4>2
        <4>4. QED
          BY <4>3 DEF UndoAdopt, heap
      <3>4. QED
        BY <3>1, <3>3
    <2>2. CASE a \notin c.todo[c.depth]
      <3>1. PICK p \in Reach(u) : \/ Adoption(u, p, c, a)
                                  \/ Return(u, p, c) /\ Link(u, p, c.depth, a)
        BY <1>5, <2>2, SymbolBack DEF RightChild
      <3>2. ~(Return(u, p, c) /\ Link(u, p, c.depth, a))
        <4> SUFFICES ASSUME Return(u, p, c), Link(u, p, c.depth, a) PROVE FALSE
          OBVIOUS
        <4>1. p.heap = c.heap /\ p.left = c.left /\ p.right = c.right
          BY DEF Return
        <4>2. /\ LeftChild(c, a) # None /\ LeftChild(c, a) # p.right[c.depth + 1]
              /\ Guards(u.start)[c.right[c.depth]][a] = p.right[c.depth + 1]
          BY <4>1 DEF Link, LeftChild
        <4>3. /\ GuardsOK(u, c) /\ c.right[c.depth] \in Block(u)
              /\ Reps(c.heap)[c.right[c.depth]] # None
          BY <1>5, InnerCall, AptaAssumption DEF Sound, FramesOK, FrameOK
        <4>4. Guards(c.heap)[c.right[c.depth]] = Guards(u.start)[c.right[c.depth]]
          BY <4>3 DEF GuardsOK
        <4>5. QED
          BY <1>6, <4>2, <4>4 DEF RightChild
      <3>3. Adoption(u, p, c, a)
        BY <3>1, <3>2
      <3>4. p.heap = heap'
        BY <1>7, <3>3, AdoptionUndone
      <3>5. /\ p.depth = c.depth /\ p.left = c.left /\ p.right = c.right /\ Due(u, p, a)
            /\ c.todo = [p.todo EXCEPT ![c.depth] = Above(a)]
        BY <3>3 DEF Adoption
      <3>6. \A i \in 1 .. c.depth : i < c.depth => p.todo[i] = c.todo[i]
        <4>1. p.todo \in [Nat -> SUBSET Symbol]
          BY ConfigurationTyped DEF Reach
        <4>2. QED
          BY <1>1, <3>5, <4>1
      <3>7. QED
        BY <3>4, <3>5, <3>6
    <2>3. QED
      BY <2>1, <2>2
  <1>9. PICK p \in Reach(u) :
           /\ p.heap = heap' /\ p.depth = c.depth /\ p.left = c.left /\ p.right = c.right
           /\ Due(u, p, a)
           /\ \A i \in 1 .. c.depth : i < c.depth => p.todo[i] = c.todo[i]
    BY <1>8
  <1> DEFINE f == [top EXCEPT !.todo = Before(a)]
  <1>10. /\ f \in Frame /\ f.kind = top.kind /\ f.left = top.left /\ f.right = top.right
         /\ f.at = "loop" /\ f.todo = Beneath(a) /\ Replace(f)
    <2>1. Before(a) \subseteq Symbol
      BY <1>5 DEF Beneath
    <2>2. QED
      BY <1>3, <1>4, <1>5, <2>1 DEF Frame
  <1> HIDE DEF f
  <1>11. /\ Stacked(c, stack', "undo", c.depth) /\ stack'[c.depth] = f
         /\ \A i \in 1 .. c.depth : i < c.depth => stack'[i] = stack[i]
    BY <1>1, <1>5, <1>10, StackedReplace
  <1>12. Stacked(p, stack', "undo", p.depth)
    BY <1>9, <1>11 DEF Stacked
  <1>13. Waiting(p, stack')
    BY <1>5, <1>9, <1>11 DEF Waiting, Waits
  <1>14. stack'[p.depth].at = "loop" /\ stack'[p.depth].todo = Beneath(a)
    BY <1>9, <1>10, <1>11
  <1>15. UndoLoops(u, p, stack')
    BY <1>9, <1>12, <1>13, <1>14, LoopBack
  <1>16. QED
    BY <1>9, <1>15 DEF Undoing

\* Both nodes have a child of their own on the next symbol.
LEMMA UndoChildrenRun ==
    ASSUME TypeOK, UndoChildren, NEW u, BlockIsTree(u), NEW c \in Reach(u), c.heap = heap,
           Undoing(u, c, stack)
    PROVE  Undoing(u, c, stack')
  <1>1. c \in Configuration /\ stack \in Seq(Frame) /\ c.depth \in Nat
    BY ConfigurationTyped DEF Reach, TypeOK
  <1>2. At("undo", "loop")
    BY DEF UndoChildren
  <1>3. stack # <<>> /\ top \in Frame /\ stack[Len(stack)] = top
    BY <1>1, <1>2, TopPlace
  <1>4. PICK a \in Symbol :
           /\ IsLast(a) /\ child[top.left][a] \notin {None, child[top.right][a]}
           /\ Replace([top EXCEPT !.at = "find", !.todo = Before(a),
                                  !.lc = child[top.left][a], !.rc = child[top.right][a]])
    BY DEF UndoChildren
  <1>5. /\ Stacked(c, stack, "undo", c.depth) /\ Len(stack) = c.depth /\ c.depth > 0
        /\ Waiting(c, stack)
        /\ child[top.left][a] = LeftChild(c, a) /\ child[top.right][a] = RightChild(c, a)
        /\ RightChild(c, a) # None
        /\ Before(a) = Beneath(a)
        /\ \A b \in Symbol : RightChild(c, b) # None /\ b \notin c.todo[c.depth] => b <= a
        /\ u.stops \/ a \notin c.todo[c.depth]
    BY <1>2, <1>4, LastTurns
  <1>6. LeftChild(c, a) \in Node /\ RightChild(c, a) \in Node
    <2>1. /\ child \in [Node -> [Symbol -> Node \cup {None}]]
          /\ top.left \in Node /\ top.right \in Node
      BY <1>3 DEF TypeOK, AptaTypeOK, Frame
    <2>2. child[top.left][a] \in Node \cup {None} /\ child[top.right][a] \in Node \cup {None}
      BY <2>1
    <2>3. QED
      BY <1>4, <1>5, <2>2
  <1> DEFINE f == [top EXCEPT !.at = "find", !.todo = Before(a),
                     !.lc = child[top.left][a], !.rc = child[top.right][a]]
  <1>7. /\ f \in Frame /\ f.kind = top.kind /\ f.left = top.left /\ f.right = top.right
        /\ f.at = "find" /\ f.todo = Beneath(a) /\ Replace(f)
        /\ f.lc = LeftChild(c, a) /\ f.rc = RightChild(c, a)
    <2>1. Before(a) \subseteq Symbol
      BY <1>5 DEF Beneath
    <2>2. QED
      BY <1>3, <1>4, <1>5, <1>6, <2>1 DEF Frame
  <1> HIDE DEF f
  <1>8. /\ Stacked(c, stack', "undo", c.depth) /\ stack'[c.depth] = f
        /\ \A i \in 1 .. c.depth : i < c.depth => stack'[i] = stack[i]
    BY <1>1, <1>5, <1>7, StackedReplace
  <1>9. Waiting(c, stack')
    BY <1>5, <1>8, WaitingKept
  <1>10. LeftChild(c, a) \notin {None, RightChild(c, a)}
    BY <1>4, <1>5
  <1>11. Turns(u, c, stack'[c.depth].todo, a)
    BY <1>5, <1>7, <1>8, <1>10 DEF Turns
  <1>12. Looks(u, c, stack', a)
    BY <1>6, <1>7, <1>8 DEF Looks
  <1>13. UndoFinds(u, c, stack', a)
    BY <1>8, <1>9, <1>11, <1>12 DEF UndoFinds
  <1>14. QED
    BY <1>13 DEF Undoing

\* find(left) ends where the run merged the right child into, so that
\* find_until(right, left) has nowhere to go.
LEMMA FoundTwo ==
    ASSUME TypeOK, At("undo", "find"), NEW u, BlockIsTree(u), NEW c \in Reach(u),
           c.heap = heap, NEW a \in Symbol, UndoFinds(u, c, stack, a)
    PROVE  /\ Stacked(c, stack, "undo", c.depth) /\ Len(stack) = c.depth
           /\ Waiting(c, stack) /\ Turns(u, c, top.todo, a)
           /\ Found(u, c.heap, top.lc) = Found(u, c.heap, LeftChild(c, a))
           /\ top.rc = RightChild(c, a)
           /\ rep[top.lc] = None => /\ Found(u, c.heap, LeftChild(c, a)) = top.lc
                                    /\ rep[top.rc] \in {None, top.lc}
  <1>1. c \in Configuration /\ stack \in Seq(Frame) /\ c.depth \in Nat /\ Sound(u, c)
    BY ConfigurationTyped, ReachSound DEF Reach, TypeOK
  <1>2. stack # <<>> /\ stack[Len(stack)] = top /\ top.lc \in Node
    BY <1>1, TopPlace
  <1>3. /\ Stacked(c, stack, "undo", c.depth) /\ Len(stack) = c.depth /\ c.depth > 0
        /\ Waiting(c, stack) /\ Turns(u, c, top.todo, a)
        /\ Found(u, c.heap, top.lc) = Found(u, c.heap, LeftChild(c, a))
        /\ top.rc = RightChild(c, a)
    BY <1>2 DEF UndoFinds, Stacked, Looks
  <1>4. Reps(c.heap) = rep
    BY HeapParts
  <1>5. ASSUME rep[top.lc] = None
        PROVE  /\ Found(u, c.heap, LeftChild(c, a)) = top.lc
               /\ rep[top.rc] \in {None, top.lc}
    <2>1. Found(u, c.heap, LeftChild(c, a)) = top.lc
      BY <1>1, <1>2, <1>3, <1>4, <1>5, FoundEquation DEF Sound
    <2>2. CASE a \in c.todo[c.depth]
      <3>1. RightChild(c, a) # None
        BY <1>3 DEF Turns
      <3>2. rep[RightChild(c, a)] = None
        BY <1>3, <1>4, <2>2, <3>1, InnerCall
      <3>3. QED
        BY <1>3, <2>1, <3>2
    <2>3. CASE a \notin c.todo[c.depth]
      <3>1. Reps(c.heap)[RightChild(c, a)] = Found(u, c.heap, LeftChild(c, a))
        BY <1>3, <2>3, TurnBack
      <3>2. QED
        BY <1>3, <1>4, <2>1, <3>1
    <2>4. QED
      BY <2>2, <2>3
  <1>6. QED
    BY <1>3, <1>5

\* Going round the loop of find().
LEMMA UndoFindRun ==
    ASSUME TypeOK, UndoFind, NEW u, BlockIsTree(u), NEW c \in Reach(u), c.heap = heap,
           Undoing(u, c, stack)
    PROVE  Undoing(u, c, stack')
  <1>1. c \in Configuration /\ stack \in Seq(Frame) /\ c.depth \in Nat /\ Sound(u, c)
    BY ConfigurationTyped, ReachSound DEF Reach, TypeOK
  <1>2. At("undo", "find")
    BY DEF UndoFind
  <1>3. /\ stack # <<>> /\ Len(stack) \in Nat \ {0} /\ top \in Frame
        /\ stack[Len(stack)] = top /\ top.at = "find" /\ top.lc \in Node
    BY <1>1, <1>2, TopPlace
  <1>4. PICK a \in Symbol : UndoFinds(u, c, stack, a)
    BY <1>1, <1>3, UndoingPlace
  <1>5. /\ Stacked(c, stack, "undo", c.depth) /\ Len(stack) = c.depth
        /\ Waiting(c, stack) /\ Turns(u, c, top.todo, a)
        /\ Found(u, c.heap, top.lc) = Found(u, c.heap, LeftChild(c, a))
        /\ top.rc = RightChild(c, a)
        /\ rep[top.lc] = None => rep[top.rc] \in {None, top.lc}
    BY <1>2, <1>4, FoundTwo
  <1>6. Reps(c.heap) = rep /\ rep \in [Node -> Node \cup {None}]
    BY HeapParts DEF TypeOK, AptaTypeOK
  <1>7. rep[top.lc] # None /\ Replace([top EXCEPT !.lc = rep[top.lc]])
    BY <1>5 DEF UndoFind
  <1> DEFINE f == [top EXCEPT !.lc = rep[top.lc]]
  <1>8. rep[top.lc] \in Node
    BY <1>3, <1>6, <1>7
  <1>9. /\ f \in Frame /\ f.kind = top.kind /\ f.left = top.left /\ f.right = top.right
        /\ f.at = "find" /\ f.todo = top.todo /\ f.lc = rep[top.lc] /\ f.rc = top.rc
    BY <1>3, <1>8 DEF Frame
  <1>10. Replace(f)
    BY <1>7
  <1> HIDE DEF f
  <1>11. /\ Stacked(c, stack', "undo", c.depth) /\ stack'[c.depth] = f
         /\ \A i \in 1 .. c.depth : i < c.depth => stack'[i] = stack[i]
    BY <1>1, <1>5, <1>9, <1>10, StackedReplace
  <1>12. Found(u, c.heap, rep[top.lc]) = Found(u, c.heap, top.lc)
    BY <1>1, <1>3, <1>6, <1>7, FoundEquation DEF Sound
  <1>13. Looks(u, c, stack', a)
    BY <1>5, <1>8, <1>9, <1>11, <1>12 DEF Looks
  <1>14. Waiting(c, stack')
    BY <1>5, <1>11, WaitingKept
  <1>15. Turns(u, c, stack'[c.depth].todo, a)
    BY <1>5, <1>9, <1>11
  <1>16. UndoFinds(u, c, stack', a)
    BY <1>11, <1>13, <1>14, <1>15 DEF UndoFinds
  <1>17. QED
    BY <1>16 DEF Undoing

\* The two children are found.
LEMMA UndoRecurseRun ==
    ASSUME TypeOK, UndoRecurse, NEW u, BlockIsTree(u), NEW c \in Reach(u), c.heap = heap,
           Undoing(u, c, stack)
    PROVE  Undoing(u, c, stack')
  <1>1. c \in Configuration /\ stack \in Seq(Frame) /\ c.depth \in Nat
    BY ConfigurationTyped DEF Reach, TypeOK
  <1>2. At("undo", "find") /\ rep[top.lc] = None
    BY DEF UndoRecurse
  <1>3. /\ stack # <<>> /\ Len(stack) \in Nat \ {0} /\ top \in Frame
        /\ stack[Len(stack)] = top /\ top.at = "find" /\ top.lc \in Node /\ top.rc \in Node
        /\ top.depth \in Nat
    BY <1>1, <1>2, TopPlace
  <1>4. PICK a \in Symbol : UndoFinds(u, c, stack, a)
    BY <1>1, <1>3, UndoingPlace
  <1>5. /\ Stacked(c, stack, "undo", c.depth) /\ Len(stack) = c.depth
        /\ Waiting(c, stack) /\ Turns(u, c, top.todo, a)
        /\ Found(u, c.heap, LeftChild(c, a)) = top.lc
        /\ top.rc = RightChild(c, a)
    BY <1>2, <1>4, FoundTwo
  <1> DEFINE f == [top EXCEPT !.at = "loop"]
             g == Call("undo", top.lc, top.rc, top.depth + 1)
  <1>6. /\ f \in Frame /\ f.kind = top.kind /\ f.left = top.left /\ f.right = top.right
        /\ f.at = "loop" /\ f.todo = top.todo
    BY <1>3 DEF Frame
  <1>7. g \in Frame
    BY <1>3, CallFrame
  <1>8. g.kind = "undo" /\ g.at = "entry" /\ g.left = top.lc /\ g.right = top.rc
    BY DEF Call
  <1>9. stack' = Append([stack EXCEPT ![Len(stack)] = f], g)
    BY DEF UndoRecurse
  <1> HIDE DEF f, g
  <1>10. /\ Stacked(c, stack', "undo", c.depth + 1)
         /\ stack'[c.depth] = f /\ stack'[c.depth + 1] = g
         /\ \A i \in 1 .. c.depth : i < c.depth => stack'[i] = stack[i]
    BY <1>1, <1>5, <1>6, <1>7, <1>9, StackedPush
  <1>11. Calls(u, c, stack', "undo", a)
    BY <1>5, <1>8, <1>10 DEF Calls
  <1>12. Waiting(c, stack')
    BY <1>5, <1>10, WaitingKept
  <1>13. stack'[c.depth].at = "loop" /\ Turns(u, c, stack'[c.depth].todo, a)
    BY <1>5, <1>6, <1>10
  <1>14. UndoEnters(u, c, stack', a)
    BY <1>10, <1>11, <1>12, <1>13 DEF UndoEnters
  <1>15. QED
    BY <1>14 DEF Undoing

\* What was done to the innermost calls is undone before what was done to the
\* others: separating the two nodes is their join undone.
LEMMA UndoNodesRun ==
    ASSUME TypeOK, UndoNodes, NEW u, BlockIsTree(u), NEW c \in Reach(u), c.heap = heap,
           Undoing(u, c, stack)
    PROVE  \E d \in Reach(u) : d.heap = heap' /\ Undoing(u, d, stack')
  <1>1. c \in Configuration /\ stack \in Seq(Frame) /\ c.depth \in Nat
    BY ConfigurationTyped DEF Reach, TypeOK
  <1>2. At("undo", "loop") /\ Pop /\ pending = {}
    BY DEF UndoNodes
  <1>3. stack # <<>> /\ stack[Len(stack)] = top /\ top.at = "loop"
    BY <1>1, <1>2, TopPlace
  <1>4. UndoLoops(u, c, stack)
    BY <1>1, <1>3, UndoingPlace
  <1>5. /\ Stacked(c, stack, "undo", c.depth) /\ Len(stack) = c.depth /\ c.depth > 0
        /\ Waiting(c, stack)
        /\ \A b \in Symbol : RightChild(c, b) # None =>
              IF b \in c.todo[c.depth] THEN u.stops \/ b \notin top.todo ELSE b \in top.todo
    BY <1>3, <1>4 DEF UndoLoops, Stacked
  <1>6. top.left = c.left[c.depth] /\ top.right = c.right[c.depth]
    BY <1>1, <1>3, <1>5 DEF Stacked
  <1>7. \A b : child[top.right][b] = RightChild(c, b)
    BY <1>6, HeapParts DEF RightChild
  <1>8. \A b \in Symbol : Guards(c.heap)[c.right[c.depth]][b] # None => b \in c.todo[c.depth]
    BY <1>2, <1>5, <1>7 DEF pending, Guarded, RightChild
  <1>9. PICK p \in Reach(u) : FirstJoin(u, p, c) \/ \E b \in Symbol : FoldedJoin(u, p, c, b)
    BY <1>5, <1>8, JoinBack
  <1>10. p.heap = heap'
    <2>1. heap' = SeparateHeap(heap, top.left, top.right)
      BY DEF UndoNodes, heap, SeparateHeap, UndoMergeWith, DataUndo
    <2>2. SeparateHeap(c.heap, c.left[c.depth], c.right[c.depth]) = p.heap
      BY <1>9, JoinUndone
    <2>3. QED
      BY <1>6, <2>1, <2>2
  <1>11. /\ Len(stack') = c.depth - 1
         /\ \A i \in 1 .. c.depth : i < c.depth => stack'[i] = stack[i]
    BY <1>1, <1>2, <1>3, <1>5, StackedPop
  <1>12. CASE FirstJoin(u, p, c)
    <2>1. p.depth = 0 /\ Reps(p.heap)[u.right] = None /\ c.depth = 1
      BY <1>12 DEF FirstJoin
    <2>2. UndoEnded(u, p, stack')
      BY <1>11, <2>1 DEF UndoEnded
    <2>3. QED
      BY <1>10, <2>2 DEF Undoing
  <1>13. ASSUME NEW b \in Symbol, FoldedJoin(u, p, c, b)
         PROVE  \E d \in Reach(u) : d.heap = heap' /\ Undoing(u, d, stack')
    <2>1. /\ Due(u, p, b) /\ c.depth = p.depth + 1
          /\ \E l : c.left = [p.left EXCEPT ![p.depth + 1] = l]
          /\ \E r : c.right = [p.right EXCEPT ![p.depth + 1] = r]
          /\ c.todo = [p.todo EXCEPT ![p.depth] = Above(b), ![p.depth + 1] = Symbol]
      BY <1>13 DEF FoldedJoin
    <2> DEFINE n == p.depth
    <2>2. /\ n \in Nat /\ n > 0 /\ c.depth = n + 1
          /\ p.left \in [Nat -> Node] /\ p.right \in [Nat -> Node]
          /\ p.todo \in [Nat -> SUBSET Symbol] /\ Above(b) \subseteq Symbol
          /\ \E l : c.left = [p.left EXCEPT ![n + 1] = l]
          /\ \E r : c.right = [p.right EXCEPT ![n + 1] = r]
          /\ c.todo = [p.todo EXCEPT ![n] = Above(b), ![n + 1] = Symbol]
      BY <2>1, DueFacts, ConfigurationTyped DEF Above
    <2>3. \A i \in 1 .. n : c.left[i] = p.left[i] /\ c.right[i] = p.right[i]
      <3> HIDE DEF n
      <3>1. QED
        BY <2>2
    <2>4. c.todo[n] = Above(b) /\ \A i \in 1 .. n : i < n => c.todo[i] = p.todo[i]
      <3> HIDE DEF n
      <3>1. [p.todo EXCEPT ![n] = Above(b)] \in [Nat -> SUBSET Symbol]
        BY <2>2
      <3>2. QED
        BY <2>2, <3>1
    <2>5. Len(stack') = n /\ \A i \in 1 .. n : stack'[i] = stack[i] /\ i < c.depth
      <3> HIDE DEF n
      <3>1. \A i \in 1 .. n : i \in 1 .. c.depth /\ i < c.depth
        BY <2>2
      <3>2. QED
        BY <1>11, <2>2, <3>1
    <2>6. Stacked(p, stack', "undo", p.depth)
      <3>1. \A i \in 1 .. n : i \in 1 .. c.depth
        BY <1>1, <2>5, <2>2
      <3>2. QED
        BY <1>5, <2>2, <2>3, <2>5, <3>1 DEF Stacked
    <2>7. \A i \in 1 .. n : Waits(c, stack, i)
      <3>1. \A i \in 1 .. n : i \in 1 .. c.depth /\ i < c.depth
        BY <1>1, <2>5, <2>2
      <3>2. QED
        BY <1>5, <3>1 DEF Waiting
    <2>8. Waiting(p, stack')
      BY <2>4, <2>5, <2>7 DEF Waiting, Waits
    <2>9. stack'[p.depth].at = "loop" /\ stack'[p.depth].todo = Beneath(b)
      <3>1. n \in 1 .. n
        BY <2>2
      <3>2. PICK b0 \in Symbol : c.todo[n] = Above(b0) /\ stack[n].todo = Beneath(b0)
        BY <2>7, <3>1 DEF Waits
      <3>3. b0 \in Nat /\ b \in Nat
        BY AptaAssumption
      <3>4. Above(b0) = Above(b)
        BY <2>4, <3>2
      <3>5. b0 = b
        <4>1. ~ b0 < b
          BY <3>3, <3>4 DEF Above
        <4>2. ~ b < b0
          BY <3>3, <3>4 DEF Above
        <4>3. QED
          BY <3>3, <4>1, <4>2
      <3>6. QED
        BY <2>5, <2>7, <3>1, <3>2, <3>5 DEF Waits
    <2>10. UndoLoops(u, p, stack')
      BY <2>1, <2>6, <2>8, <2>9, LoopBack
    <2>11. QED
      BY <1>10, <2>10 DEF Undoing
  <1>14. QED
    BY <1>9, <1>12, <1>13

\* undo_merge is a run backwards.
LEMMA UndoStepRun ==
    ASSUME TypeOK, UndoStep, NEW u, BlockIsTree(u), NEW c \in Reach(u), c.heap = heap,
           Undoing(u, c, stack)
    PROVE  \E d \in Reach(u) : d.heap = heap' /\ Undoing(u, d, stack')
  <1>1. CASE UndoSkip
    <2>1. Undoing(u, c, stack') /\ heap' = heap
      BY <1>1, UndoSkipRun DEF UndoSkip
    <2>2. QED
      BY <2>1
  <1>2. CASE UndoChildren
    <2>1. Undoing(u, c, stack') /\ heap' = heap
      BY <1>2, UndoChildrenRun DEF UndoChildren
    <2>2. QED
      BY <2>1
  <1>3. CASE UndoFind
    <2>1. Undoing(u, c, stack') /\ heap' = heap
      BY <1>3, UndoFindRun DEF UndoFind
    <2>2. QED
      BY <2>1
  <1>4. CASE UndoRecurse
    <2>1. Undoing(u, c, stack') /\ heap' = heap
      BY <1>4, UndoRecurseRun DEF UndoRecurse
    <2>2. QED
      BY <2>1
  <1>5. QED
    BY <1>1, <1>2, <1>3, <1>4, UndoEnterRun, UndoAdoptRun, UndoNodesRun DEF UndoStep

\* A merge is not part of it.
LEMMA UndoingOnly ==
    ASSUME TypeOK, NEW u, NEW c \in Reach(u), Undoing(u, c, stack)
    PROVE  ~MergeStep
  <1>1. c \in Configuration /\ stack \in Seq(Frame)
    BY DEF Reach, TypeOK
  <1>2. stack # <<>> => top.kind = "undo"
    BY <1>1, UndoingPlace
  <1>3. QED
    BY <1>2 DEF MergeStep, MergeStop, MergeNodes, MergeAdopt, MergeChildren, MergeFind,
       MergeRecurse, MergeReturn, At

\* What undo_merge asserts: the two nodes are two and the right one is merged
\* into the left one.
LEMMA UndoingAsserts ==
    ASSUME TypeOK, NEW u, BlockIsTree(u), ~u.stops, NEW c \in Reach(u), c.heap = heap,
           Undoing(u, c, stack), At("undo", "entry")
    PROVE  top.left # top.right /\ rep[top.right] = top.left
  <1>1. c \in Configuration /\ stack \in Seq(Frame) /\ c.depth \in Nat /\ Sound(u, c)
    BY ConfigurationTyped, ReachSound DEF Reach, TypeOK
  <1>2. stack # <<>> /\ stack[Len(stack)] = top /\ top.at = "entry" /\ Reps(c.heap) = rep
    BY <1>1, TopPlace, HeapParts
  <1>3. CASE UndoCalled(u, c, stack)
    <2>1. top.left = u.left /\ top.right = u.right /\ Reps(c.heap)[u.right] # None
      BY <1>2, <1>3 DEF UndoCalled, Called
    <2>2. Reps(c.heap)[u.right] = u.left
      BY <1>1, <2>1 DEF Sound, FreshOK
    <2>3. u.left # u.right
      BY BlockFacts DEF BlockIsTree
    <2>4. QED
      BY <1>2, <2>1, <2>2, <2>3
  <1>4. ASSUME NEW a \in Symbol, UndoEnters(u, c, stack, a)
        PROVE  top.left # top.right /\ rep[top.right] = top.left
    <2>1. /\ c.depth > 0 /\ Turns(u, c, stack[c.depth].todo, a)
          /\ top.left = Found(u, c.heap, LeftChild(c, a)) /\ top.right = RightChild(c, a)
      BY <1>2, <1>4 DEF UndoEnters, Stacked, Calls
    <2>2. a \notin c.todo[c.depth]
      BY <2>1 DEF Turns
    <2>3. QED
      BY <1>2, <2>1, <2>2, TurnBack
  <1>5. QED
    BY <1>1, <1>2, <1>3, <1>4, UndoingPlace

-----------------------------------------------------------------------------
(* A test that is not performed.                                           *)

\* A frame that takes the place of the innermost one.
LEMMA ReplacedIn ==
    ASSUME NEW S, stack \in Seq(S), S \subseteq Frame, stack # <<>>, NEW f \in S
    PROVE  [stack EXCEPT ![Len(stack)] = f] \in Seq(S)
  <1>1. Len(stack) \in 1 .. Len(stack)
    BY EmptySeq, LenProperties
  <1>2. QED
    BY <1>1, ExceptSeq

\* The call that looks at a pair of states is the first one or was made for
\* two different states, the right one of which is below the right state.
LEMMA LookingStep ==
    ASSUME TypeOK, MergeStep, ~Performing, NEW u, BlockIsTree(u), u.start = heap,
           Looking(u, stack)
    PROVE  heap' = heap /\ Looking(u, stack')
  <1> DEFINE S == LookFrames(u)
  <1>1. /\ stack \in Seq(S) /\ S \subseteq Frame
        /\ Reps(u.start) = rep /\ Guards(u.start) = child /\ Finds(u.start) = find
        /\ rep \in [Node -> Node \cup {None}]
        /\ child \in [Node -> [Symbol -> Node \cup {None}]]
    BY HeapParts DEF Looking, LookFrames, TypeOK, AptaTypeOK
  <1>2. stack # <<>>
    BY DEF MergeStep, MergeStop, MergeNodes, MergeAdopt, MergeChildren, MergeFind,
       MergeRecurse, MergeReturn, At
  <1>3. top \in S
    BY <1>1, <1>2, LastElement DEF top
  <1>4. /\ top \in Frame /\ top.kind = "merge" /\ top.left # top.right
        /\ rep[top.left] = None /\ top.right \in Block(u)
        /\ top.left \in Node /\ top.right \in Node /\ top.lc \in Node /\ top.rc \in Node
        /\ top.todo \subseteq Symbol /\ top.depth \in Nat
    BY <1>1, <1>3 DEF LookFrames, Frame
  <1>5. top.at = "find" => top.rc \in Block(u) /\ find[top.lc] # top.rc
    BY <1>1, <1>3 DEF LookFrames
  <1>6. ASSUME Pop PROVE stack' \in Seq(S)
    <2>1. Len(stack) - 1 \in Nat /\ Len(stack) = (Len(stack) - 1) + 1
      BY <1>1, <1>2, LastElement
    <2> HIDE DEF S
    <2>2. QED
      BY <1>1, <1>6, <2>1, WithoutLast DEF Pop
  <1>7. ASSUME NEW f \in S, Replace(f) PROVE stack' \in Seq(S)
    <2> HIDE DEF S
    <2>1. QED
      BY <1>1, <1>2, <1>7, ReplacedIn DEF Replace
  <1>8. ASSUME NEW T \in SUBSET Symbol
        PROVE  /\ [top EXCEPT !.at = "loop"] \in S
               /\ [top EXCEPT !.at = "loop", !.todo = T] \in S
               /\ top.at = "loop" => [top EXCEPT !.todo = T] \in S
    BY <1>1, <1>4 DEF LookFrames, Frame
  <1>9. CASE MergeStop
    BY <1>6, <1>9 DEF MergeStop, heap, Looking
  <1>10. CASE MergeNodes
    <2>1. Replace([top EXCEPT !.at = "loop", !.todo = Symbol]) /\ heap' = heap
      BY <1>10 DEF MergeNodes, heap
    <2>2. QED
      BY <1>7, <1>8, <2>1 DEF Looking
  <1>11. CASE MergeAdopt
    <2>1. PICK a \in Symbol : child' = child /\ Replace([top EXCEPT !.todo = After(a)])
      BY <1>11 DEF MergeAdopt
    <2>2. After(a) \subseteq Symbol /\ top.at = "loop"
      BY <1>4, <1>11 DEF After, MergeAdopt, At
    <2>3. heap' = heap
      BY <1>11, <2>1 DEF MergeAdopt, heap
    <2>4. QED
      BY <1>7, <1>8, <2>1, <2>2, <2>3 DEF Looking
  <1>12. CASE MergeChildren
    <2>1. PICK a \in Symbol :
             /\ a \in pending /\ child[top.left][a] # None
             /\ Replace([top EXCEPT !.at = "find", !.todo = After(a),
                                    !.lc = child[top.left][a], !.rc = child[top.right][a]])
      BY <1>12 DEF MergeChildren, IsFirst
    <2> DEFINE l == child[top.left][a]
               r == child[top.right][a]
    <2>2. l \in Node /\ l # None /\ r # None /\ After(a) \subseteq Symbol
      BY <1>1, <1>4, <2>1 DEF pending, Guarded, After
    <2>3. /\ r \in Block(u) /\ Parent(u.start, r) = top.right /\ Block(u) \subseteq Node
          /\ rep[r] = None
      BY <1>1, <1>4, <2>2, BlockFacts
    <2>4. Parent(u.start, l) = top.left /\ (rep[l] = None \/ find[l] \notin Block(u))
      BY <1>1, <1>4, <2>2 DEF BlockIsTree
    <2>5. rep[l] = None => find[l] = l
      BY <1>1, <2>2, StartTyped
    <2>6. find[l] # r
      BY <1>4, <2>3, <2>4, <2>5
    <2> HIDE DEF l, r
    <2>7. [top EXCEPT !.at = "find", !.todo = After(a), !.lc = l, !.rc = r] \in S
      BY <1>1, <1>4, <2>2, <2>3, <2>6 DEF LookFrames, Frame
    <2>8. QED
      BY <1>7, <1>12, <2>1, <2>7 DEF Looking, MergeChildren, l, r
  <1>13. CASE MergeFind
    <2>1. top.at = "find" /\ heap' = heap
      BY <1>13 DEF MergeFind, At
    <2>2. rep[top.rc] = None
      BY <1>1, <1>5, <2>1, BlockFacts
    <2>3. rep[top.lc] # None /\ Replace([top EXCEPT !.lc = rep[top.lc]])
      BY <1>13, <2>2 DEF MergeFind
    <2>4. rep[top.lc] \in Node /\ find[rep[top.lc]] = find[top.lc]
      BY <1>1, <1>4, <2>3, StartTyped
    <2>5. [top EXCEPT !.lc = rep[top.lc]] \in S
      BY <1>1, <1>4, <1>5, <2>1, <2>4 DEF LookFrames, Frame
    <2>6. QED
      BY <1>7, <2>1, <2>3, <2>5 DEF Looking
  <1>14. CASE MergeRecurse
    <2> DEFINE back == [stack EXCEPT ![Len(stack)] = [top EXCEPT !.at = "loop"]]
               g == Call("merge", top.lc, top.rc, top.depth + 1)
    <2>1. /\ top.at = "find" /\ heap' = heap /\ rep[top.lc] = None
          /\ stack' = back \/ (top.lc # top.rc /\ stack' = Append(back, g))
      BY <1>14 DEF MergeRecurse, At
    <2>2. back \in Seq(S)
      <3>1. [top EXCEPT !.at = "loop"] \in S
        BY <1>8
      <3> HIDE DEF S
      <3>2. QED
        BY <1>1, <1>2, <3>1, ReplacedIn
    <2>3. ASSUME top.lc # top.rc PROVE g \in S
      <3>1. g \in Frame
        BY <1>4, CallFrame
      <3>2. /\ g.kind = "merge" /\ g.at = "entry" /\ g.left = top.lc /\ g.right = top.rc
        BY DEF Call
      <3> HIDE DEF g
      <3>3. QED
        BY <1>1, <1>5, <2>1, <2>3, <3>1, <3>2 DEF LookFrames
    <2> HIDE DEF back, g, S
    <2>4. stack' \in Seq(S)
      BY <2>1, <2>2, <2>3, AppendProperties
    <2>5. QED
      BY <2>1, <2>4 DEF Looking, S
  <1>15. CASE MergeReturn
    BY <1>6, <1>15 DEF MergeReturn, Looking
  <1>16. QED
    BY <1>9, <1>10, <1>11, <1>12, <1>13, <1>14, <1>15 DEF MergeStep

\* A test that is not performed starts by looking at its two states.
LEMMA LookingStarts ==
    ASSUME NEW u, BlockIsTree(u), stack' = <<Call("merge", u.left, u.right, 0)>>
    PROVE  Looking(u, stack')
  <1> DEFINE f == Call("merge", u.left, u.right, 0)
  <1>1. f \in Frame
    BY StartTyped, CallFrame
  <1>2. f.kind = "merge" /\ f.at = "entry" /\ f.left = u.left /\ f.right = u.right
    BY DEF Call
  <1>3. u.right \in Block(u) /\ Reps(u.start)[u.left] = None /\ u.left # u.right
    BY BlockFacts DEF BlockIsTree
  <1> HIDE DEF f
  <1>4. f \in LookFrames(u)
    BY <1>1, <1>2, <1>3 DEF LookFrames
  <1>5. stack' = <<f>>
    BY DEF f
  <1>6. QED
    BY <1>4, <1>5 DEF Looking

\* It makes none of the calls of undo_merge, and it meets the assertions of merge.
LEMMA LookingFacts ==
    ASSUME TypeOK, NEW u, BlockIsTree(u), u.start = heap, Looking(u, stack)
    PROVE  /\ ~UndoStep
           /\ At("merge", "find") => rep[top.rc] = None /\ top.lc # top.rc
  <1>1. Reps(u.start) = rep /\ Finds(u.start) = find
    BY HeapParts
  <1>2. ASSUME stack # <<>>
        PROVE  top \in LookFrames(u)
    BY <1>2, LastElement DEF Looking, top
  <1>3. ~UndoStep
    BY <1>2 DEF LookFrames, UndoStep, UndoSkip, UndoEnter, UndoAdopt, UndoChildren, UndoFind,
       UndoRecurse, UndoNodes, At
  <1>4. ASSUME At("merge", "find")
        PROVE  rep[top.rc] = None /\ top.lc # top.rc
    <2>1. /\ top.lc \in Node /\ top.rc \in Block(u) /\ find[top.lc] # top.rc
      BY <1>1, <1>2, <1>4 DEF At, LookFrames, Frame
    <2>2. rep[top.rc] = None
      BY <1>1, <2>1, BlockFacts
    <2>3. rep[top.lc] = None => find[top.lc] = top.lc
      BY <1>1, <2>1, StartTyped
    <2>4. QED
      BY <2>1, <2>2, <2>3
  <1>5. QED
    BY <1>3, <1>4
=============================================================================
