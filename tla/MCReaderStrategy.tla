-------------------------- MODULE MCReaderStrategy --------------------------
(***************************************************************************)
(* Instances of ReaderStrategy for TLC: every input of at most five        *)
(* symbols of two traces, in every order.                                  *)
(***************************************************************************)
EXTENDS ReaderStrategy

MCId == {1, 2}
MCSymbol == {"a", "b"}

MAX_SYMBOLS == 5

SymbolsOver(S) == UNION {[1 .. n -> [id : MCId, symb : S]] : n \in 0 .. MAX_SYMBOLS}

Using1(kind, S) == [kind : {kind}, size : {0}, stride : {0}, symbols : S]
\* The constructor refuses other strides than 1 .. size.
Windows == {<<size, stride>> \in (1 .. 3) \X (1 .. 3) : stride <= size}

MCInputs ==
    LET plain == {in \in SymbolsOver(MCSymbol \cup {Empty}) : EmptyAlone(in)}
    IN Using1("read_all", plain) \cup Using1("in_order", plain)
       \cup Using1("sentinel", SymbolsOver({"a", Sentinel}))
       \cup UNION {[kind : {"slidingwindow"}, size : {w[1]}, stride : {w[2]},
                    symbols : SymbolsOver(MCSymbol)] : w \in Windows}
=============================================================================
