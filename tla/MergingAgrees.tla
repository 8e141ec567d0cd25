---------------------------- MODULE MergingAgrees ----------------------------
(***************************************************************************)
(* StateMerger against Merging: the engine, which takes a merge or an undo *)
(* in many steps, and the module whose operators take it in one.           *)
(***************************************************************************)
EXTENDS StateMergerCorrect

Whole == INSTANCE Merging WITH
           EXTEND_ANY_RED <- FALSE, MERGE_MOST_VISITED <- FALSE,
           DEPTH_FIRST <- FALSE, DFA_SIZE_BOUND <- -1

AutomatonOf(h) ==
    [nodes |-> tree.nodes, number |-> tree.number,
     source |-> tree.source, symbol |-> tree.symbol, child |-> h[1], rep |-> h[2],
     size |-> h[5], final |-> tree.final, finals |-> h[7], red |-> h[8]]

\* Where a test, a merge, an extension or an undo leads in many steps of the
\* engine, and which states its iterators yield, is what the operators of
\* Merging compute from the automaton it started in.
AgreesWithMerging ==
    [][LET M == AutomatonOf(heap')
           new == done'[Len(done')]
           last == done[Len(done)]
           test == Whole!TestMerge(AutomatonOf(before), ref.red, ref.blue)
       IN /\ Len(done') > Len(done) => M = Whole!Do(AutomatonOf(new.before), new.ref)
          /\ Len(done') < Len(done) =>
                M = Whole!UndoOf(Whole!Do(AutomatonOf(last.before), last.ref), last.ref)
          /\ op = "test" /\ op' # "test" =>
                /\ (result /\ ~eval.inconsistent) = test.ok
                /\ test.ok => eval.merges = test.score
          /\ Len(done') # Len(done) =>
                /\ Range(Whole!RedSeq(M)) = RedStates'
                /\ Range(Whole!BlueSeq(M)) = BlueStates']_vars
=============================================================================
