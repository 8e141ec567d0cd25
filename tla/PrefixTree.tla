----------------------------- MODULE PrefixTree -----------------------------
(***************************************************************************)
(* The input phase: inputdata::add_traces_to_apta builds the prefix tree   *)
(* of a sample, one trace after the other.  A node is named by its access  *)
(* trace, the word that leads to it from the root.  A trace is a record    *)
(* [word, type]; its final tail carries no symbol.                         *)
(***************************************************************************)
EXTENDS Naturals, Sequences, SequencesExt

CONSTANTS
    Word,    \* the nodes there may be: the prefixes of the words of the samples
    Symbol, Type, None

\* apta::apta: the root alone.
EmptyTree ==
    [nodes  |-> {<<>>},
     number |-> [n \in Word |-> 0],
     source |-> [n \in Word |-> None],
     symbol |-> [n \in Word |-> None],
     child  |-> [n \in Word |-> [a \in Symbol |-> None]],
     size   |-> [n \in Word |-> 0],
     final  |-> [n \in Word |-> 0],
     finals |-> [n \in Word |-> [t \in Type |-> 0]]]

\* add_trace_to_apta, without thresholds, into an apta nothing is merged in:
\* count the trace in every node on its path, create and number the missing
\* nodes, and count its type in the last one.
AddTrace(t, trace) ==
    LET path == Prefixes(trace.word)
        new  == path \ t.nodes
        known == Cardinality(t.nodes) - Cardinality(path \ new)
    IN [nodes  |-> t.nodes \cup path,
        number |-> [n \in Word |-> IF n \in new THEN known + Len(n) ELSE t.number[n]],
        source |-> [n \in Word |-> IF n \in new THEN Front(n) ELSE t.source[n]],
        symbol |-> [n \in Word |-> IF n \in new THEN Last(n) ELSE t.symbol[n]],
        child  |-> [n \in Word |-> [a \in Symbol |->
                      IF Append(n, a) \in new THEN Append(n, a) ELSE t.child[n][a]]],
        size   |-> [n \in Word |-> t.size[n] + IF n \in path THEN 1 ELSE 0],
        final  |-> [n \in Word |-> t.final[n] + IF n = trace.word THEN 1 ELSE 0],
        finals |-> [t.finals EXCEPT ![trace.word][trace.type] = @ + 1]]

\* add_traces_to_apta
PrefixTreeOf(sample) == FoldLeft(AddTrace, EmptyTree, sample)
=============================================================================
