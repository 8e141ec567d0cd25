------------------------------ MODULE MCLSharp ------------------------------
(***************************************************************************)
(* Instances of LSharp for TLC: all automata of at most two states over    *)
(* the alphabet {1, 2}, complete or not, and some larger ones.             *)
(***************************************************************************)
EXTENDS LSharp

MCSymbol == {1, 2}
MCType == {0, 1}
MCRoot == <<>>
MCOff == -1

\* The states are numbered in the order a breadth-first search meets them.
Numbered(d) ==
    LET met == SelectSeq([i \in 1 .. 2 * Len(d) |-> d[(i + 1) \div 2][2 - (i % 2)]],
                         LAMBDA q : q # None)
        seen(i) == {1} \cup {met[j] : j \in 1 .. i}
    IN /\ \A i \in DOMAIN met : met[i] <= Max(seen(i - 1)) + 1
       /\ DOMAIN d = seen(Len(met))
       /\ \A q \in DOMAIN d \ {1} : \E p \in 1 .. q - 1, a \in MCSymbol : d[p][a] = q

SystemsOf(n) ==
    [delta : {d \in [1 .. n -> [MCSymbol -> 1 .. n \cup {None}]] : Numbered(d)},
     type : [1 .. n -> MCType]]

\* Some larger ones, the first three of them not complete.
Larger == {
    [delta |-> << <<2, None>>, <<None, 3>>, <<None, None>> >>, type |-> <<0, 0, 1>>],
    [delta |-> << <<None, 2>>, <<3, 1>>, <<3, 2>> >>, type |-> <<1, 1, 0>>],
    [delta |-> << <<2, None>>, <<3, 2>>, <<None, 1>> >>, type |-> <<0, 1, 1>>],
    [delta |-> << <<2, 1>>, <<3, 2>>, <<1, 3>> >>, type |-> <<0, 0, 1>>],
    [delta |-> << <<1, 2>>, <<3, 2>>, <<2, 4>>, <<2, 1>> >>, type |-> <<0, 0, 0, 1>>],
    [delta |-> << <<2, 3>>, <<1, 1>>, <<2, 4>>, <<4, 3>> >>, type |-> <<1, 0, 0, 0>>]}

MCInputs == [sut : SystemsOf(1) \cup SystemsOf(2) \cup Larger,
             test_empty : {FALSE}, max_states : {-1, 2}]
=============================================================================
