---------------------------- MODULE AppendTrace ----------------------------
(***************************************************************************)
(* inputdata::add_trace_to_apta on an automaton that grows: L* and L# add  *)
(* traces to the prefix tree they have learned from before.  An automaton  *)
(* m is what it is in Merging.tla, but its functions are defined on the    *)
(* nodes there are; a node is named by the word that led to it when it was *)
(* created.                                                                *)
(***************************************************************************)
EXTENDS Integers, SequencesExt

CONSTANTS Symbol, Type, None

Representative(m, n) ==
    LET find[k \in m.nodes] == IF m.rep[k] = None THEN k ELSE find[m.rep[k]]
    IN find[n]

NoChildren == [a \in Symbol |-> None]
NoTypes == [t \in Type |-> 0]

\* apta::apta: a red root.
RootOnly ==
    LET at(v) == <<>> :> v
    IN [nodes |-> {<<>>}, number |-> at(0), source |-> at(None), symbol |-> at(None),
        child |-> at(NoChildren), size |-> at(0), final |-> at(0), finals |-> at(NoTypes),
        rep |-> at(None), red |-> at(TRUE)]

\* A new node below n, with the next number.
Created(m, n, a) ==
    LET at(v) == Append(n, a) :> v
    IN [m EXCEPT !.nodes = @ \cup {Append(n, a)},
                 !.number = @ @@ at(Cardinality(m.nodes)),
                 !.source = @ @@ at(n), !.symbol = @ @@ at(a),
                 !.child = [@ EXCEPT ![n][a] = Append(n, a)] @@ at(NoChildren),
                 !.size = @ @@ at(0), !.final = @ @@ at(0), !.finals = @ @@ at(NoTypes),
                 !.rep = @ @@ at(None), !.red = @ @@ at(FALSE)]

\* add_trace_to_apta without thresholds, as the learners call it: count the trace
\* [word, type] in every node on its way and its type in the last; where a node has
\* no child for the next symbol, create it.
AddTrace(m, trace) ==
    LET counted(k) == [k EXCEPT !.m.size[k.node] = @ + 1]
        visit(k, a) ==
          LET c == counted(k)
              child == k.m.child[k.node][a]
          IN IF child # None THEN [c EXCEPT !.node = Representative(k.m, child)]
             ELSE [m |-> Created(c.m, k.node, a), node |-> Append(k.node, a)]
        end == FoldLeft(visit, [m |-> m, node |-> <<>>], trace.word)
    IN [counted(end).m EXCEPT !.final[end.node] = @ + 1,
                              !.finals[end.node][trace.type] = @ + 1]
=============================================================================
