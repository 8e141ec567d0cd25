------------------------------ MODULE MCLStar ------------------------------
(***************************************************************************)
(* Instances of LStar for TLC: automata of at most two states over the     *)
(* alphabet {1, 2}, whose state 1 is the initial one, complete or not.     *)
(***************************************************************************)
EXTENDS LStar

MCAlphabet == {1, 2}
MCType == {0, 1}

E == INSTANCE Merging WITH
    Symbol <- MCAlphabet, Type <- MCType, Root <- <<>>, EXTEND_ANY_RED <- TRUE,
    MERGE_MOST_VISITED <- FALSE, MERGE_BLUE_BLUE <- FALSE, MERGE_ROOT <- TRUE,
    DEPTH_FIRST <- FALSE, DFA_SIZE_BOUND <- -1

MCPossibleRefinements(k) == E!PossibleRefinements(k)
MCDo(k, ref) == E!Do(k, ref)
MCUndoOf(k, ref) == E!UndoOf(k, ref)

\* The automaton with the rows of its transition function and the state types.
dfa(rows, types) == [delta |-> rows, type |-> types]

MCSystems == [delta : [1 .. 2 -> [MCAlphabet -> {1, 2, None}]], type : [1 .. 2 -> MCType]]
MCInputs == [sut : MCSystems, test_empty : BOOLEAN, runs : {2, 20}]
=============================================================================
