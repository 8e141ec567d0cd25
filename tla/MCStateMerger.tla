--------------------------- MODULE MCStateMerger ---------------------------
(***************************************************************************)
(* Instances of StateMerger for TLC: alphabet {1, 2}, types "pos" and      *)
(* "neg", and the prefix trees of small labelled samples.                  *)
(***************************************************************************)
EXTENDS MergingAgrees

MCSymbol == {1, 2}
MCType == {"pos", "neg"}
MCOff == -1
MCRoot == <<>>

pos(w) == [word |-> w, type |-> "pos"]
neg(w) == [word |-> w, type |-> "neg"]

\* A chain (every merge folds a loop), a comb whose branches share suffixes,
\* and a balanced tree.
SmallSamples ==
    { <<pos(<<1, 1, 1>>), neg(<<1>>)>>,
      <<pos(<<1, 2>>), pos(<<2, 1>>), neg(<<2>>)>>,
      <<pos(<<1, 1>>), neg(<<1, 2>>), pos(<<2, 1>>)>> }

\* Deeper: a chain on which merges fold loops into loops, and three branches
\* with different suffixes, so that folding adopts children and merges into
\* nodes that adopted them.
LargeSamples ==
    { <<pos(<<1, 2, 1, 2>>), neg(<<1, 1>>)>>,
      <<pos(<<1, 1, 2>>), neg(<<2, 2>>), pos(<<2, 1>>)>>,
      <<pos(<<1, 2, 2>>), pos(<<2, 2>>), pos(<<2>>)>> }

\* Two branches of low counts that merge into frequent states.
SinkSamples ==
    { <<pos(<<1, 1, 2>>), neg(<<2, 1>>)>>,
      <<pos(<<1, 1>>), pos(<<2, 1>>), pos(<<1>>)>> }

Prefixes(w) == {SubSeq(w, 1, k) : k \in 0 .. Len(w)}
NodesOf(samples) ==
    UNION {UNION {Prefixes(s[i].word) : i \in 1 .. Len(s)} : s \in samples}
MCNode == NodesOf(SmallSamples \cup LargeSamples \cup SinkSamples)

Input == INSTANCE PrefixTree WITH Word <- MCNode, Symbol <- MCSymbol, Type <- MCType

SmallTrees == {Input!PrefixTreeOf(s) : s \in SmallSamples}
SinkTrees == {Input!PrefixTreeOf(s) : s \in SinkSamples}
LargeTrees == {Input!PrefixTreeOf(s) : s \in LargeSamples}
SinkAndLargeTrees == SinkTrees \cup LargeTrees
=============================================================================
