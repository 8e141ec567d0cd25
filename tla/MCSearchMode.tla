---------------------------- MODULE MCSearchMode ----------------------------
(***************************************************************************)
(* Instances of SearchMode for TLC: alphabet {1, 2}, types "pos" and       *)
(* "neg", and the prefix trees of small labelled samples.                  *)
(***************************************************************************)
EXTENDS SearchMode

MCSymbol == {1, 2}
MCType == {"pos", "neg"}
MCRoot == <<>>

pos(w) == [word |-> w, type |-> "pos"]
neg(w) == [word |-> w, type |-> "neg"]

\* Tiny, for the run in which most lists have equal scores and every order of
\* them is explored.
TinySamples ==
    { <<pos(<<1, 1, 1>>), neg(<<1>>)>>,
      <<neg(<<>>), pos(<<1>>), pos(<<2>>), neg(<<1, 1>>)>>,
      <<pos(<<1>>), neg(<<2>>), neg(<<1, 1>>)>> }

\* Small: a chain, two combs.
SmallSamples ==
    { <<pos(<<1, 1, 1>>), neg(<<1>>)>>,
      <<pos(<<1, 2>>), pos(<<2, 1>>), neg(<<2>>)>>,
      <<neg(<<>>), pos(<<1, 1>>), neg(<<2>>), pos(<<1>>)>> }

\* Deeper.  In the last two the first solution the search finds is not the
\* smallest one.
LargeSamples ==
    { <<pos(<<1, 1>>), neg(<<1, 2>>), pos(<<2, 1>>)>>,
      <<pos(<<1>>), neg(<<1, 1>>), pos(<<1, 1, 1>>), neg(<<2>>), pos(<<2, 1>>)>>,
      <<neg(<<>>), neg(<<1>>), pos(<<2, 2, 1, 2>>)>>,
      <<pos(<<1, 1>>), pos(<<2>>), neg(<<2, 1>>), pos(<<2, 1, 2>>)>> }

Samples == TinySamples \cup SmallSamples \cup LargeSamples

MCNode == UNION {UNION {Prefixes(s[i].word) : i \in 1 .. Len(s)} : s \in Samples}

Input == INSTANCE PrefixTree WITH Word <- MCNode, Symbol <- MCSymbol, Type <- MCType

Default ==
    [SCORE |-> "size", EXTEND_ANY_RED |-> FALSE, MERGE_MOST_VISITED |-> FALSE,
     MERGE_BLUE_BLUE |-> FALSE, MERGE_ROOT |-> TRUE, DEPTH_FIRST |-> FALSE,
     DFA_SIZE_BOUND |-> -1]
Scored(score) == [Default EXCEPT !.SCORE = score]
On(opts, samples) ==
    {[options |-> opts, tree |-> Input!PrefixTreeOf(s)] : s \in samples}

\* Every score; deep search also with blue-blue merges, and one run with
\* --extend 1, --largestblue, --shallowfirst and --mergeroot 0.
SearchInputs ==
    On(Scored("size"), TinySamples)
    \cup On(Scored("global"), SmallSamples \cup LargeSamples)
    \cup On(Scored("local"), SmallSamples)
    \cup On(Scored("deep"), SmallSamples \cup LargeSamples)
    \cup On([Scored("deep") EXCEPT !.MERGE_BLUE_BLUE = TRUE], SmallSamples \cup LargeSamples)
    \cup On([Scored("partial") EXCEPT !.EXTEND_ANY_RED = TRUE, !.MERGE_MOST_VISITED = TRUE,
                                     !.DEPTH_FIRST = TRUE, !.MERGE_ROOT = FALSE],
            SmallSamples \cup LargeSamples)

-----------------------------------------------------------------------------
(* The engine.                                                             *)

E == INSTANCE MCEngine WITH Symbol <- MCSymbol, Type <- MCType, Root <- MCRoot

MCUnmerged(t) == E!Unmerged(t)
MCPossibleRefinements(o, k) == E!PossibleRefinements(o, k)
MCPasses(o, k, x) == E!Passes(o, k, x)
MCDo(k, x) == E!Do(k, x)
MCUndoOf(k, x) == E!UndoOf(k, x)
MCNumRed(k) == E!NumRed(k)
MCFinalSize(k) == E!FinalSize(k)
MCUndecided(k) == E!Undecided(k)

MCSettings(i) == {i.options}
MCAutomata == [i \in SearchInputs |-> E!FromUnmerged(i.tree, MCSettings(i)).automata]
MCRefinements == [i \in SearchInputs |-> E!FromUnmerged(i.tree, MCSettings(i)).refinements]
MCRefinement ==
    [kind : {"merge", "extend"}, red : MCNode, blue : MCNode, score : Nat, size : Nat]
=============================================================================
