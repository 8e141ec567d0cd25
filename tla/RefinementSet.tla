---------------------------- MODULE RefinementSet ----------------------------
(***************************************************************************)
(* refinement.h: the refinement_set, ordered by score_compare.  A          *)
(* refinement is a record [kind, red, blue, score, size], states by access *)
(* trace.                                                                  *)
(***************************************************************************)
EXTENDS Sorting, SequencesExt

\* score_compare is all a refinement_set knows: of two refinements with equal
\* score and size the second is not inserted.
Better(x, y) == x.score > y.score \/ (x.score = y.score /\ x.size > y.size)
Insert(S, x) ==
    IF \E y \in S : y.score = x.score /\ y.size = x.size THEN S ELSE S \cup {x}

\* The set in its own order, best first.
InOrder(S) == SortedSeq(S, Better)
=============================================================================
