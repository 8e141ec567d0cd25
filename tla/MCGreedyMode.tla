---------------------------- MODULE MCGreedyMode ----------------------------
(***************************************************************************)
(* Instances of GreedyMode for TLC: every sample of at most three labelled *)
(* words of length at most three over the alphabet {1, 2}.                 *)
(***************************************************************************)
EXTENDS GreedyMode

MCSymbol == {1, 2}
MCType == {"pos", "neg"}
MCRoot == <<>>

MAX_LENGTH == 3
MAX_TRACES == 3

MCNode == UNION {[1 .. k -> MCSymbol] : k \in 0 .. MAX_LENGTH}
Labelled(W) ==
    LET words == SetToSeq(W) IN
    {[i \in 1 .. Len(words) |-> [word |-> words[i], type |-> f[i]]] :
        f \in [1 .. Len(words) -> MCType]}
MCSamples == UNION {Labelled(W) : W \in UNION {kSubset(k, MCNode) : k \in 1 .. MAX_TRACES}}

Default ==
    [EXTEND_ANY_RED |-> FALSE, MERGE_MOST_VISITED |-> FALSE, MERGE_BLUE_BLUE |-> FALSE,
     MERGE_ROOT |-> TRUE, DEPTH_FIRST |-> FALSE, DFA_SIZE_BOUND |-> -1]
MCOptions ==
    { Default,
      [Default EXCEPT !.EXTEND_ANY_RED = TRUE, !.DEPTH_FIRST = TRUE],
      [Default EXCEPT !.MERGE_BLUE_BLUE = TRUE, !.MERGE_MOST_VISITED = TRUE,
                      !.MERGE_ROOT = FALSE],
      [Default EXCEPT !.MERGE_BLUE_BLUE = TRUE, !.DFA_SIZE_BOUND = 2] }
MCInputs == [options : MCOptions, sample : MCSamples]

Input == INSTANCE PrefixTree WITH Word <- MCNode, Symbol <- MCSymbol, Type <- MCType
MCTreeOf(s) == Input!PrefixTreeOf(s)
=============================================================================
