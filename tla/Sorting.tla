------------------------------- MODULE Sorting -------------------------------
(***************************************************************************)
(* Sets in order, as the ordered containers of the C++ library and the     *)
(* sorts of the program yield them.                                        *)
(***************************************************************************)
EXTENDS Integers, FiniteSets

\* The elements of S in the strict total order Less.
SortedSeq(S, Less(_, _)) ==
    [k \in 1 .. Cardinality(S) |-> CHOOSE x \in S : Cardinality({y \in S : Less(y, x)}) = k - 1]
=============================================================================
