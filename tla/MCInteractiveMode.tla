-------------------------- MODULE MCInteractiveMode --------------------------
(***************************************************************************)
(* Instances of InteractiveMode for TLC: three small samples and every     *)
(* line the user may type, with numbers up to one more than are shown.     *)
(***************************************************************************)
EXTENDS InteractiveMode

MCSymbol == {1, 2}
MCType == {"pos", "neg"}
MCRoot == <<>>

pos_(w) == [word |-> w, type |-> "pos"]
neg_(w) == [word |-> w, type |-> "neg"]

Samples ==
    { <<pos_(<<1, 1, 1>>), neg_(<<1>>)>>,
      <<pos_(<<1, 2>>), pos_(<<2, 1>>), neg_(<<2>>)>>,
      <<neg_(<<>>), pos_(<<1, 1>>), neg_(<<2>>), pos_(<<1>>)>> }

MCNode == UNION {UNION {Prefixes(s[i].word) : i \in 1 .. Len(s)} : s \in Samples}

Input == INSTANCE PrefixTree WITH Word <- MCNode, Symbol <- MCSymbol, Type <- MCType

E == INSTANCE MCEngine WITH Symbol <- MCSymbol, Type <- MCType, Root <- MCRoot

MCInputs == {[options |-> E!Default, tree |-> Input!PrefixTreeOf(s)] : s \in Samples}
MCSettings(i) == {[i.options EXCEPT !.MERGE_BLUE_BLUE = v] : v \in BOOLEAN}

typed(w, n) == [word |-> w, n |-> n, option |-> ""]
set(o, n) == [word |-> "set", n |-> n, option |-> o]
MCLines ==
    {typed(w, 0) : w \in {"undo_merge", "restart", "other", ""}}
    \cup {typed("leap", n) : n \in {NaN, 1, 2}}
    \cup {typed("number", n) : n \in 0 .. 2}
    \cup {set("MERGE_BLUE_BLUE", n) : n \in 0 .. 1}

-----------------------------------------------------------------------------
(* The engine.                                                             *)

MCUnmerged(t) == E!Unmerged(t)
MCPossibleRefinements(o, k) == E!PossibleRefinements(o, k)
MCPasses(o, k, x) == E!Passes(o, k, x)
MCDo(k, x) == E!Do(k, x)
MCUndoOf(k, x) == E!UndoOf(k, x)

MCAutomata == [i \in MCInputs |-> E!FromUnmerged(i.tree, MCSettings(i)).automata]
MCRefinements == [i \in MCInputs |-> E!FromUnmerged(i.tree, MCSettings(i)).refinements]
=============================================================================
