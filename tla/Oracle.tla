------------------------------- MODULE Oracle -------------------------------
(***************************************************************************)
(* What the learners ask: queries to the system under learning (dfa_sul),  *)
(* and the equivalence query of base_oracle with the breadth-first search  *)
(* for test words, linear_conflict_search and type_conflict_detector.  A   *)
(* system is a record [delta, type] of its transition function and the     *)
(* types of its states; state 1 is the initial one.                        *)
(***************************************************************************)
EXTENDS AppendTrace

Unparsed == -1

\* dfa_sul::do_query: the type of the state the word leads to in the system, or
\* -1 where it has no transition.
StateOfSystem(sut, w) ==
    FoldLeft(LAMBDA q, a : IF q = None THEN None ELSE sut.delta[q][a], 1, w)
Answer(sut, w) ==
    IF StateOfSystem(sut, w) = None THEN Unparsed ELSE sut.type[StateOfSystem(sut, w)]

\* predict_type_from_trace: the same for the hypothesis; the type of a state is
\* that of most of its final traces, the first type when it has none.
Predict(h, w) ==
    LET go(n, a) == IF n = None \/ h.child[n][a] = None THEN None
                    ELSE Representative(h, h.child[n][a])
        n == FoldLeft(go, <<>>, w)
        most(t) == \A u \in Type : h.finals[n][t] >= h.finals[n][u]
    IN IF n = None THEN Unparsed
       ELSE CHOOSE t \in Type : most(t) /\ \A u \in Type : most(u) => t <= u

\* creates_conflict
Conflicts(sut, h, w) == Answer(sut, w) # Predict(h, w)

Least == Min(Symbol)
Greatest == Max(Symbol)

\* Mutant: the last word of a length is followed by the first.
NextWordWraps(w) ==
    LET last == Max({k \in DOMAIN w : w[k] # Greatest} \cup {0})
    IN IF w = <<>> THEN <<Least>>
       ELSE [k \in DOMAIN w |-> IF k < last THEN w[k] ELSE IF k = last THEN w[k] + 1 ELSE Least]

\* bfs_strategy: the word after w by length and then by symbols.
NextWord(w) ==
    LET last == Max({k \in DOMAIN w : w[k] # Greatest} \cup {0})
    IN IF last = 0 THEN [k \in 1 .. Len(w) + 1 |-> Least]
       ELSE [k \in DOMAIN w |-> IF k < last THEN w[k] ELSE IF k = last THEN w[k] + 1 ELSE Least]

\* linear_conflict_search: the shortest prefix of w that conflicts, the empty
\* one only with AL_TEST_EMTPY_STRING.
ConflictString(sut, h, w, test_empty) ==
    LET tested(p) == Conflicts(sut, h, p) /\ (test_empty \/ p # <<>>)
    IN CHOOSE p \in Prefixes(w) :
          tested(p) /\ \A q \in Prefixes(w) : tested(q) => Len(p) <= Len(q)
=============================================================================
