--------------------------- MODULE RedBlueProofs ---------------------------
(***************************************************************************)
(* The engine implements RedBlue: a merge that is run to its end makes of  *)
(* the states the least deterministic partition that joins the two.        *)
(***************************************************************************)
EXTENDS CorrectProofs

-----------------------------------------------------------------------------
(* Partitions of the nodes of the tree.                                    *)

\* e does not tell apart the children on a symbol of nodes it does not tell apart.
Congruence(e) ==
    \A m, n \in nodes, a \in Symbol :
       LET s == tree.child[m][a]
           t == tree.child[n][a]
       IN e[m] = e[n] /\ s # None /\ t # None => e[s] = e[t]

Constant(e, S) == \A m, n \in S : e[m] = e[n]

Partition(P) ==
    /\ P \subseteq SUBSET nodes /\ {} \notin P
    /\ \A n \in nodes : \E C \in P : n \in C
    /\ \A C, D \in P : C = D \/ C \cap D = {}

\* Q is coarser than P, joins C and D, and joins nothing but what every
\* congruence has to that does both.
Grown(P, C, D, Q) ==
    /\ Partition(Q)
    /\ \A B \in P : \E E \in Q : B \subseteq E
    /\ \E E \in Q : C \cup D \subseteq E
    /\ \A e : Congruence(e) /\ Constant(e, C \cup D) /\ (\A B \in P : Constant(e, B))
              => \A E \in Q : Constant(e, E)

\* Two classes of a partition joined make a partition.
LEMMA JoinPartition ==
    ASSUME NEW P, Partition(P), NEW C \in P, NEW D \in P, NEW J, J = RB!Join(P, C, D),
           NEW U, U = C \cup D
    PROVE  /\ Partition(J) /\ U \in J
           /\ \A B \in P : \E E \in J : B \subseteq E
           /\ \A E \in J : E = U \/ E \in P
  <1>1. J = (P \ {C, D}) \cup {C \cup D}
    BY DEF RB!Join
  <1>2. /\ P \subseteq SUBSET nodes /\ {} \notin P
        /\ \A n \in nodes : \E B \in P : n \in B
        /\ \A B, E \in P : B = E \/ B \cap E = {}
    BY DEF Partition
  <1>3. J \subseteq SUBSET nodes /\ {} \notin J
    <2>1. C # {} /\ C \cup D \in SUBSET nodes
      BY <1>2
    <2>2. C \cup D # {}
      BY <2>1
    <2>3. QED
      BY <1>1, <1>2, <2>1, <2>2
  <1>4. \A B \in P : \E E \in J : B \subseteq E
    BY <1>1
  <1>5. \A n \in nodes : \E E \in J : n \in E
    BY <1>2, <1>4
  <1>6. ASSUME NEW B \in J, NEW E \in J PROVE B = E \/ B \cap E = {}
    <2>1. CASE B \in P \ {C, D} /\ E \in P \ {C, D}
      BY <1>2, <2>1
    <2>2. CASE B = C \cup D /\ E \in P \ {C, D}
      BY <1>2, <2>2
    <2>3. CASE E = C \cup D /\ B \in P \ {C, D}
      BY <1>2, <2>3
    <2>4. CASE B = C \cup D /\ E = C \cup D
      BY <2>4
    <2>5. QED
      BY <1>1, <1>6, <2>1, <2>2, <2>3, <2>4
  <1>7. Partition(J)
    BY <1>3, <1>5, <1>6 DEF Partition
  <1>8. QED
    BY <1>1, <1>4, <1>7

\* It has one class less.
LEMMA JoinCounts ==
    ASSUME NEW P, Partition(P), NEW C \in P, NEW D \in P, C # D, IsFiniteSet(P)
    PROVE  /\ IsFiniteSet(RB!Join(P, C, D))
           /\ Cardinality(RB!Join(P, C, D)) = Cardinality(P) - 1
  <1> DEFINE U == C \cup D
             R == (P \ {C}) \ {D}
  <1>1. U \notin R
    <2> SUFFICES ASSUME U \in P, U # C, U # D PROVE FALSE
      OBVIOUS
    <2>1. U \cap C = {}
      BY DEF Partition
    <2>2. C = {}
      BY <2>1
    <2>3. QED
      BY <2>2 DEF Partition
  <1>2. IsFiniteSet(P \ {C}) /\ Cardinality(P \ {C}) = Cardinality(P) - 1
    BY FS_RemoveElement
  <1>3. IsFiniteSet(R) /\ Cardinality(R) = Cardinality(P) - 1 - 1
    BY <1>2, FS_RemoveElement
  <1>4. Cardinality(P) \in Nat
    BY FS_CardinalityType
  <1>5. RB!Join(P, C, D) = R \cup {U}
    BY DEF RB!Join
  <1> HIDE DEF U, R
  <1>6. IsFiniteSet(R \cup {U}) /\ Cardinality(R \cup {U}) = Cardinality(R) + 1
    BY <1>1, <1>3, FS_AddElement
  <1>7. QED
    BY <1>3, <1>4, <1>5, <1>6

\* Joining the two classes is where it starts.
LEMMA GrownStart ==
    ASSUME NEW P, Partition(P), NEW C \in P, NEW D \in P
    PROVE  Grown(P, C, D, RB!Join(P, C, D))
  <1> DEFINE J == RB!Join(P, C, D)
             U == C \cup D
  <1> HIDE DEF J, U
  <1>1. /\ Partition(J) /\ U \in J
        /\ \A B \in P : \E E \in J : B \subseteq E
        /\ \A E \in J : E = U \/ E \in P
    BY JoinPartition DEF J, U
  <1>2. \E E \in J : U \subseteq E
    BY <1>1
  <1>3. ASSUME NEW e, Constant(e, U), \A B \in P : Constant(e, B)
        PROVE  \A E \in J : Constant(e, E)
    BY <1>1, <1>3
  <1>4. QED
    BY <1>1, <1>2, <1>3 DEF Grown, J, U

\* A congruence joins what the same class reaches on the same symbol.
LEMMA GrownStep ==
    ASSUME tree \in Trees, NEW P, NEW C, NEW D, NEW Q, Grown(P, C, D, Q),
           NEW p \in RB!Clashes(Q)
    PROVE  /\ p[1] \in Q /\ p[2] \in Q /\ p[1] # p[2]
           /\ Grown(P, C, D, RB!Join(Q, p[1], p[2]))
  <1>1. PICK B \in Q, a \in Symbol :
           p \in {pair \in RB!Reached(Q, B, a) \X RB!Reached(Q, B, a) : pair[1] # pair[2]}
    BY DEF RB!Clashes
  <1>2. /\ p[1] \in Q /\ p[2] \in Q /\ p[1] # p[2]
        /\ \E m \in B : tree.child[m][a] # None /\ tree.child[m][a] \in p[1]
        /\ \E n \in B : tree.child[n][a] # None /\ tree.child[n][a] \in p[2]
    BY <1>1 DEF RB!Reached, RB!Successors
  <1>3. PICK m \in B : tree.child[m][a] # None /\ tree.child[m][a] \in p[1]
    BY <1>2
  <1>4. PICK n \in B : tree.child[n][a] # None /\ tree.child[n][a] \in p[2]
    BY <1>2
  <1>5. Partition(Q) /\ m \in nodes /\ n \in nodes
    BY DEF Grown, Partition
  <1> DEFINE J == RB!Join(Q, p[1], p[2])
             U == p[1] \cup p[2]
  <1> HIDE DEF J, U
  <1>6. /\ Partition(J) /\ U \in J
        /\ \A E \in Q : \E F \in J : E \subseteq F
        /\ \A F \in J : F = U \/ F \in Q
    <2>1. J = RB!Join(Q, p[1], p[2]) /\ U = p[1] \cup p[2]
      BY DEF J, U
    <2>2. PICK A \in Q, E \in Q : A = p[1] /\ E = p[2]
      BY <1>2
    <2>3. A \in Q /\ E \in Q /\ J = RB!Join(Q, A, E) /\ U = A \cup E /\ Partition(Q)
      BY <1>5, <2>1, <2>2
    <2>4. QED
      BY ONLY <2>3, JoinPartition
  <1>7. ASSUME NEW e, Congruence(e), Constant(e, C \cup D), \A S \in P : Constant(e, S)
        PROVE  \A F \in J : Constant(e, F)
    <2>1. \A E \in Q : Constant(e, E)
      BY <1>7 DEF Grown
    <2>2. e[m] = e[n]
      BY <2>1 DEF Constant
    <2>3. e[tree.child[m][a]] = e[tree.child[n][a]]
      BY <1>3, <1>4, <1>5, <1>7, <2>2 DEF Congruence
    <2>4. Constant(e, p[1]) /\ Constant(e, p[2])
      BY <1>2, <2>1
    <2>5. Constant(e, U)
      BY <1>3, <1>4, <2>3, <2>4 DEF Constant, U
    <2>6. QED
      BY <1>6, <2>1, <2>5
  <1>8. \A S \in P : \E F \in J : S \subseteq F
    <2>1. \A S \in P : \E E \in Q : S \subseteq E
      BY DEF Grown
    <2>2. QED
      BY <1>6, <2>1
  <1>9. \E F \in J : C \cup D \subseteq F
    <2>1. PICK E \in Q : C \cup D \subseteq E
      BY DEF Grown
    <2>2. QED
      BY <1>6, <2>1
  <1>10. Grown(P, C, D, J)
    BY <1>6, <1>7, <1>8, <1>9 DEF Grown
  <1>11. QED
    BY <1>2, <1>10 DEF J

\* The nodes of a tree are finitely many, and so are their classes.
LEMMA PartitionFinite ==
    ASSUME tree \in Trees, NEW P, Partition(P)
    PROVE  IsFiniteSet(P)
  <1>1. IsFiniteSet(nodes)
    BY TreeFacts DEF nodes
  <1>2. IsFiniteSet(SUBSET nodes)
    BY <1>1, FS_SUBSET
  <1>3. P \in SUBSET (SUBSET nodes)
    BY DEF Partition
  <1>4. QED
    BY <1>2, <1>3, FS_Subset

\* RedBlue counts as the other modules do.
LEMMA SameCardinality ==
    ASSUME NEW S
    PROVE  RB!Cardinality(S) = Cardinality(S)
  BY DEF RB!Cardinality, Cardinality

\* Joining what clashes as long as something does comes to an end.
LEMMA JoinsClose ==
    ASSUME tree \in Trees, NEW P, Partition(P), NEW C \in P, NEW D \in P, C # D
    PROVE  /\ Grown(P, C, D, RB!MergedPartition(P, C, D))
           /\ RB!Deterministic(RB!MergedPartition(P, C, D))
  <1> DEFINE M == Cardinality(P)
             V == {Q \in SUBSET (SUBSET nodes) : Grown(P, C, D, Q)}
             pair(Q) == CHOOSE p \in RB!Clashes(Q) : TRUE
             Close(Q) == IF RB!Deterministic(Q) THEN Q
                         ELSE RB!Join(Q, pair(Q)[1], pair(Q)[2])
             f == CHOOSE f : f = [k \in 0 .. M |-> IF k = 0 THEN RB!Join(P, C, D)
                                                   ELSE Close(f[k - 1])]
  <1>1. IsFiniteSet(P) /\ M \in Nat
    BY PartitionFinite, FS_CardinalityType
  <1>2. RB!MergedPartition(P, C, D) = f[M]
    <2>1. M = RB!Cardinality(P)
      BY SameCardinality
    <2> HIDE DEF M
    <2>2. QED
      BY <2>1 DEF RB!MergedPartition
  <1>3. \A Q : Grown(P, C, D, Q) => Q \in V
    BY DEF Grown, Partition
  <1>4. RB!Join(P, C, D) \in V
    BY <1>3, GrownStart
  <1>5. ASSUME NEW Q \in V, ~RB!Deterministic(Q)
        PROVE  Close(Q) \in V /\ Cardinality(Close(Q)) = Cardinality(Q) - 1
    <2>1. pair(Q) \in RB!Clashes(Q) /\ Grown(P, C, D, Q)
      BY <1>5 DEF RB!Deterministic
    <2>2. Close(Q) = RB!Join(Q, pair(Q)[1], pair(Q)[2])
      BY <1>5
    <2> HIDE DEF pair, Close, V, f, M
    <2>3. PICK p \in RB!Clashes(Q) : p = pair(Q)
      BY <2>1
    <2>4. /\ p[1] \in Q /\ p[2] \in Q /\ p[1] # p[2]
          /\ Grown(P, C, D, RB!Join(Q, p[1], p[2]))
      BY <2>1, GrownStep
    <2>5. Partition(Q)
      BY <2>1 DEF Grown
    <2>6. Cardinality(RB!Join(Q, p[1], p[2])) = Cardinality(Q) - 1
      BY <2>4, <2>5, PartitionFinite, JoinCounts
    <2>7. QED
      BY <1>3, <2>2, <2>3, <2>4, <2>6
  <1>6. \A Q \in V : RB!Deterministic(Q) => Close(Q) = Q
    OBVIOUS
  <1> HIDE DEF V, Close, M
  <1>7. \E g \in [0 .. M -> V] :
           \A k \in 0 .. M : g[k] = IF k = 0 THEN RB!Join(P, C, D) ELSE Close(g[k - 1])
    <2> DEFINE X == 0 .. M
               ptr == [k \in X |-> k - 1]
               base == [k \in X |-> RB!Join(P, C, D)]
               step == [k \in X |-> [Q \in V |-> Close(Q)]]
    <2>1. \A S \in SUBSET X : S # {} => \E k \in S : ptr[k] \notin S
      <3> SUFFICES ASSUME NEW S \in SUBSET X, S # {} PROVE \E k \in S : ptr[k] \notin S
        OBVIOUS
      <3>1. S \in SUBSET Nat
        OBVIOUS
      <3>2. PICK k \in S : k - 1 \notin S
        BY ONLY <3>1, S # {}, LeastNatural
      <3>3. ptr[k] = k - 1
        OBVIOUS
      <3>4. QED
        BY <3>2, <3>3
    <2>2. \A k \in X : ptr[k] \notin X => base[k] \in V
      BY <1>4
    <2>3. \A k \in X, Q \in V : step[k][Q] \in V
      BY <1>5, <1>6
    <2>4. \A k \in X : ptr[k] = k - 1 /\ base[k] = RB!Join(P, C, D)
      OBVIOUS
    <2>5. \A k \in X, Q \in V : step[k][Q] = Close(Q)
      OBVIOUS
    <2>6. \A k \in X : k - 1 \in X <=> k # 0
      BY <1>1
    <2> HIDE DEF X, ptr, base, step
    <2>7. Recursion(X, V, ptr, base, step)
      BY <2>1, <2>2, <2>3 DEF Recursion
    <2>8. PICK g \in [X -> V] :
             \A k \in X : g[k] = IF ptr[k] \in X THEN step[k][g[ptr[k]]] ELSE base[k]
      BY <2>7, RecursiveGraph DEF HasSolution
    <2>9. ASSUME NEW k \in X
          PROVE  g[k] = IF k = 0 THEN RB!Join(P, C, D) ELSE Close(g[k - 1])
      BY <2>4, <2>5, <2>6, <2>8
    <2>10. QED
      BY <2>8, <2>9 DEF X
  <1>8. PICK g \in [0 .. M -> V] :
           \A k \in 0 .. M : g[k] = IF k = 0 THEN RB!Join(P, C, D) ELSE Close(g[k - 1])
    BY <1>7
  <1>9. g = [k \in 0 .. M |-> IF k = 0 THEN RB!Join(P, C, D) ELSE Close(g[k - 1])]
    BY <1>8
  <1>10. f = [k \in 0 .. M |-> IF k = 0 THEN RB!Join(P, C, D) ELSE Close(f[k - 1])]
    BY <1>9 DEF Close
  <1> HIDE DEF f
  <1>11. \A k \in 0 .. M : f[k] = IF k = 0 THEN RB!Join(P, C, D) ELSE Close(f[k - 1])
    BY <1>10
  <1> DEFINE Closed(k) == /\ f[k] \in V
                          /\ RB!Deterministic(f[k]) \/ Cardinality(f[k]) <= M - 1 - k
             Bad == {k \in 0 .. M : ~Closed(k)}
  <1>12. Bad = {}
    <2> SUFFICES ASSUME Bad # {} PROVE FALSE
      OBVIOUS
    <2>1. Bad \in SUBSET Nat
      OBVIOUS
    <2>2. PICK k \in Bad : k - 1 \notin Bad
      <3> HIDE DEF Bad
      <3>1. QED
        BY <2>1, LeastNatural
    <2>3. k \in 0 .. M /\ ~Closed(k)
      OBVIOUS
    <2>4. CASE k = 0
      <3>1. f[k] = RB!Join(P, C, D)
        BY <1>11, <2>3, <2>4
      <3>2. Cardinality(RB!Join(P, C, D)) = M - 1
        BY <1>1, JoinCounts DEF M
      <3>3. QED
        BY <1>1, <1>4, <2>3, <2>4, <3>1, <3>2
    <2>5. CASE k # 0
      <3>1. k - 1 \in 0 .. M /\ f[k] = Close(f[k - 1]) /\ k \in Nat
        BY <1>1, <1>11, <2>3, <2>5
      <3>2. Closed(k - 1)
        BY <2>2, <3>1
      <3>3. CASE RB!Deterministic(f[k - 1])
        BY <1>6, <2>3, <3>1, <3>2, <3>3
      <3>4. CASE ~RB!Deterministic(f[k - 1])
        <4>1. f[k] \in V /\ Cardinality(f[k]) = Cardinality(f[k - 1]) - 1
          BY <1>5, <3>1, <3>2, <3>4
        <4>2. Partition(f[k - 1])
          BY <3>2 DEF V, Grown
        <4>3. Cardinality(f[k - 1]) \in Nat
          BY <4>2, PartitionFinite, FS_CardinalityType
        <4>4. QED
          BY <1>1, <2>3, <3>1, <3>2, <3>4, <4>1, <4>3
      <3>5. QED
        BY <3>3, <3>4
    <2>6. QED
      BY <2>4, <2>5
  <1>13. M \in 0 .. M /\ Closed(M)
    BY <1>1, <1>12
  <1>14. Partition(f[M])
    BY <1>13 DEF V, Grown
  <1>15. Cardinality(f[M]) \in Nat
    BY <1>14, PartitionFinite, FS_CardinalityType
  <1>16. RB!Deterministic(f[M])
    BY <1>1, <1>13, <1>15
  <1>17. QED
    BY <1>2, <1>13, <1>16 DEF V

\* A deterministic partition is a congruence.
LEMMA DeterministicCongruence ==
    ASSUME tree \in Trees, NEW Q, Partition(Q), RB!Deterministic(Q)
    PROVE  /\ Congruence([n \in nodes |-> {E \in Q : n \in E}])
           /\ \A E \in Q : Constant([n \in nodes |-> {F \in Q : n \in F}], E)
  <1> DEFINE e == [n \in nodes |-> {E \in Q : n \in E}]
  <1>1. /\ Q \subseteq SUBSET nodes
        /\ \A n \in nodes : \E E \in Q : n \in E
        /\ \A E, F \in Q : E = F \/ E \cap F = {}
    BY DEF Partition
  <1>2. \A E \in Q : \A n \in E : n \in nodes /\ e[n] = {E}
    BY <1>1
  <1>3. \A n \in nodes : \E E \in Q : n \in E /\ e[n] = {E}
    BY <1>1, <1>2
  <1> HIDE DEF e
  <1>4. ASSUME NEW E \in Q PROVE Constant(e, E)
    BY <1>2 DEF Constant
  <1>5. ASSUME NEW m \in nodes, NEW n \in nodes, NEW a \in Symbol, e[m] = e[n],
               tree.child[m][a] # None, tree.child[n][a] # None
        PROVE  e[tree.child[m][a]] = e[tree.child[n][a]]
    <2> DEFINE s == tree.child[m][a]
               t == tree.child[n][a]
    <2>1. s \in nodes /\ t \in nodes
      BY <1>5, TreeFacts DEF nodes
    <2>2. PICK E \in Q : m \in E /\ e[m] = {E}
      BY <1>3
    <2>3. n \in E
      BY <1>3, <1>5, <2>2
    <2>4. PICK F \in Q : s \in F /\ e[s] = {F}
      BY <1>3, <2>1
    <2>5. PICK G \in Q : t \in G /\ e[t] = {G}
      BY <1>3, <2>1
    <2>6. F \in RB!Reached(Q, E, a) /\ G \in RB!Reached(Q, E, a)
      BY <1>5, <2>2, <2>3, <2>4, <2>5 DEF RB!Reached, RB!Successors
    <2>7. F = G
      <3> SUFFICES ASSUME F # G PROVE FALSE
        OBVIOUS
      <3> DEFINE two(B, b) == {p \in RB!Reached(Q, B, b) \X RB!Reached(Q, B, b) : p[1] # p[2]}
      <3>1. RB!Clashes(Q) = UNION {two(B, b) : B \in Q, b \in Symbol}
        BY DEF RB!Clashes
      <3>2. <<F, G>> \in two(E, a)
        BY <2>6
      <3> HIDE DEF two
      <3>3. <<F, G>> \in RB!Clashes(Q)
        BY <3>1, <3>2
      <3>4. QED
        BY <3>3 DEF RB!Deterministic
    <2>8. QED
      BY <2>4, <2>5, <2>7
  <1>6. Congruence(e)
    BY <1>5 DEF Congruence
  <1>7. QED
    BY <1>4, <1>6 DEF e

\* So one that grew from joining C and D is no coarser than another.
LEMMA GrownFiner ==
    ASSUME tree \in Trees, NEW P, Partition(P), NEW C, NEW D, NEW Q, Grown(P, C, D, Q),
           NEW R, Grown(P, C, D, R), RB!Deterministic(R)
    PROVE  \A E \in Q : \E F \in R : E \subseteq F
  <1> DEFINE e == [n \in nodes |-> {F \in R : n \in F}]
  <1>1. Partition(R) /\ Partition(Q)
    BY DEF Grown
  <1>2. Congruence(e) /\ \A F \in R : Constant(e, F)
    BY <1>1, DeterministicCongruence
  <1>3. \A n \in nodes : \E F \in R : n \in F
    BY <1>1 DEF Partition
  <1>4. \A m, n \in nodes : e[m] = e[n] => \A F \in R : m \in F => n \in F
    <2> SUFFICES ASSUME NEW m \in nodes, NEW n \in nodes, e[m] = e[n], NEW F \in R, m \in F
                 PROVE  n \in F
      OBVIOUS
    <2>1. F \in e[m]
      OBVIOUS
    <2>2. F \in e[n]
      BY <2>1
    <2>3. QED
      BY <2>2
  <1> HIDE DEF e
  <1>5. Constant(e, C \cup D)
    <2>1. PICK F \in R : C \cup D \subseteq F
      BY DEF Grown
    <2>2. Constant(e, F)
      BY <1>2
    <2>3. QED
      BY <2>1, <2>2 DEF Constant
  <1>6. \A B \in P : Constant(e, B)
    <2> SUFFICES ASSUME NEW B \in P PROVE Constant(e, B)
      OBVIOUS
    <2>1. PICK F \in R : B \subseteq F
      BY DEF Grown
    <2>2. Constant(e, F)
      BY <1>2
    <2>3. QED
      BY <2>1, <2>2 DEF Constant
  <1>7. \A E \in Q : Constant(e, E)
    BY <1>2, <1>5, <1>6 DEF Grown
  <1> SUFFICES ASSUME NEW E \in Q PROVE \E F \in R : E \subseteq F
    OBVIOUS
  <1>8. E \in SUBSET nodes /\ E # {}
    BY <1>1 DEF Partition
  <1>9. PICK m \in E : TRUE
    BY <1>8
  <1>10. PICK F \in R : m \in F
    BY <1>3, <1>8
  <1>11. \A n \in E : n \in F
    BY <1>4, <1>7, <1>8, <1>10 DEF Constant
  <1>12. QED
    BY <1>11

\* The least deterministic partition that joins two classes is known by what it is.
LEMMA LeastPartition ==
    ASSUME tree \in Trees, NEW P, Partition(P), NEW C \in P, NEW D \in P, C # D,
           NEW Q, Grown(P, C, D, Q), RB!Deterministic(Q)
    PROVE  RB!MergedPartition(P, C, D) = Q
  <1> DEFINE R == RB!MergedPartition(P, C, D)
  <1>1. Grown(P, C, D, R) /\ RB!Deterministic(R)
    BY JoinsClose
  <1> HIDE DEF R
  <1>2. /\ \A E \in Q : \E F \in R : E \subseteq F
        /\ \A F \in R : \E E \in Q : F \subseteq E
    BY <1>1, GrownFiner
  <1>3. Partition(Q) /\ Partition(R)
    BY <1>1 DEF Grown
  <1>4. ASSUME NEW A, NEW B, Partition(A), Partition(B),
               \A E \in A : \E F \in B : E \subseteq F,
               \A F \in B : \E E \in A : F \subseteq E
        PROVE  A \subseteq B
    <2> SUFFICES ASSUME NEW E \in A PROVE E \in B
      OBVIOUS
    <2>1. PICK F \in B : E \subseteq F
      BY <1>4
    <2>2. PICK G \in A : F \subseteq G
      BY <1>4
    <2>3. E # {} /\ (E = G \/ E \cap G = {})
      BY <1>4 DEF Partition
    <2>4. E \cap G = E
      BY <2>1, <2>2
    <2>5. E = G
      BY <2>3, <2>4
    <2>6. QED
      BY <2>1, <2>2, <2>5
  <1>5. QED
    BY <1>2, <1>3, <1>4 DEF R

-----------------------------------------------------------------------------
(* The partition of a heap.                                                *)

\* find() leads every node of the tree to a state.
Led(h) ==
    \A n \in nodes :
       /\ Finds(h)[n] \in nodes /\ Reps(h)[Finds(h)[n]] = None
       /\ Reps(h)[n] = None => Finds(h)[n] = n

Coarser(e, f) == \A m, n \in nodes : f[m] = f[n] => e[m] = e[n]
ClassAt(h, m) == {n \in nodes : Finds(h)[n] = m}

\* Idle heaps are such.
LEMMA IdleLed ==
    ASSUME tree \in Trees, NEW h, IdleHeap(h)
    PROVE  Led(h)
  <1>1. \A n \in nodes : n \in Node /\ Finds(h)[n] \in nodes
    BY IdleParents, TreeFacts DEF nodes
  <1>2. QED
    BY <1>1, IdleFinds DEF Led

\* The classes of a heap are a partition; each is that of its state.
LEMMA HeapPartition ==
    ASSUME NEW h, Led(h)
    PROVE  /\ PartOf(h) = {ClassAt(h, m) : m \in {n \in nodes : Reps(h)[n] = None}}
           /\ Partition(PartOf(h))
           /\ \A n \in nodes : n \in ClassAt(h, Finds(h)[n])
  <1> DEFINE S == {n \in nodes : Reps(h)[n] = None}
  <1>1. PartOf(h) = {ClassAt(h, m) : m \in S}
    BY DEF PartOf, ClassesOf, ClassAt, Finds, Reps
  <1>2. \A n \in nodes : n \in ClassAt(h, Finds(h)[n]) /\ Finds(h)[n] \in S
    BY DEF Led, ClassAt
  <1>3. \A m \in S : m \in ClassAt(h, m) /\ ClassAt(h, m) \subseteq nodes
    BY DEF Led, ClassAt
  <1>4. \A m, k \in S : m # k => ClassAt(h, m) \cap ClassAt(h, k) = {}
    BY DEF ClassAt
  <1> HIDE DEF S
  <1>5. Partition({ClassAt(h, m) : m \in S})
    <2>1. \A C, D \in {ClassAt(h, m) : m \in S} : C = D \/ C \cap D = {}
      BY <1>4
    <2>2. \A n \in nodes : \E C \in {ClassAt(h, m) : m \in S} : n \in C
      BY <1>2
    <2>3. {ClassAt(h, m) : m \in S} \subseteq SUBSET nodes
      BY <1>3
    <2>4. {} \notin {ClassAt(h, m) : m \in S}
      BY <1>3
    <2>5. QED
      BY <2>1, <2>2, <2>3, <2>4 DEF Partition
  <1>6. QED
    BY <1>1, <1>2, <1>5 DEF S

\* A heap in which find() is a congruence is deterministic.
LEMMA CongruentDeterministic ==
    ASSUME tree \in Trees, NEW h, Led(h), Congruence(Finds(h))
    PROVE  RB!Deterministic(PartOf(h))
  <1> DEFINE P == PartOf(h)
  <1>1. /\ Partition(P)
        /\ \A C \in P : \E m : C = ClassAt(h, m)
    BY HeapPartition
  <1> HIDE DEF P
  <1>2. ASSUME NEW B \in P, NEW a \in Symbol, NEW C \in RB!Reached(P, B, a),
               NEW D \in RB!Reached(P, B, a)
        PROVE  C = D
    <2>1. PICK m \in B : tree.child[m][a] # None /\ tree.child[m][a] \in C
      BY DEF RB!Reached, RB!Successors
    <2>2. PICK n \in B : tree.child[n][a] # None /\ tree.child[n][a] \in D
      BY DEF RB!Reached, RB!Successors
    <2>3. C \in P /\ D \in P
      BY DEF RB!Reached
    <2>4. m \in nodes /\ n \in nodes /\ Finds(h)[m] = Finds(h)[n]
      BY <1>1 DEF ClassAt
    <2>5. Finds(h)[tree.child[m][a]] = Finds(h)[tree.child[n][a]]
      BY <2>1, <2>2, <2>4 DEF Congruence
    <2>6. PICK c, d : C = ClassAt(h, c) /\ D = ClassAt(h, d)
      BY <1>1, <2>3
    <2>7. c = d
      BY <2>1, <2>2, <2>5, <2>6 DEF ClassAt
    <2>8. QED
      BY <2>6, <2>7
  <1>3. RB!Clashes(P) = {}
    <2> DEFINE two(B, b) == {p \in RB!Reached(P, B, b) \X RB!Reached(P, B, b) : p[1] # p[2]}
    <2>1. RB!Clashes(P) = UNION {two(B, b) : B \in P, b \in Symbol}
      BY DEF RB!Clashes
    <2>2. \A B \in P, b \in Symbol : two(B, b) = {}
      BY <1>2
    <2> HIDE DEF two
    <2>3. QED
      BY <2>1, <2>2
  <1>4. QED
    BY <1>3 DEF RB!Deterministic, P

\* A heap is the least deterministic one that joins two states of another one, if
\* it is deterministic and every congruence that joins them joins what it does.
LEMMA MergedIsLeast ==
    ASSUME tree \in Trees, NEW h, Led(h), NEW g, Led(g),
           NEW l \in nodes, NEW r \in nodes, Reps(h)[l] = None, Reps(h)[r] = None, l # r,
           Congruence(Finds(g)), Coarser(Finds(g), Finds(h)), Finds(g)[l] = Finds(g)[r],
           \A e : Congruence(e) /\ Coarser(e, Finds(h)) /\ e[l] = e[r]
                  => Coarser(e, Finds(g))
    PROVE  PartOf(g) = RB!MergedPartition(PartOf(h), ClassAt(h, l), ClassAt(h, r))
  <1> DEFINE P == PartOf(h)
             Q == PartOf(g)
             C == ClassAt(h, l)
             D == ClassAt(h, r)
  <1>1. /\ Partition(P) /\ Partition(Q)
        /\ P = {ClassAt(h, m) : m \in {n \in nodes : Reps(h)[n] = None}}
        /\ Q = {ClassAt(g, m) : m \in {n \in nodes : Reps(g)[n] = None}}
    BY HeapPartition
  <1>2. C \in P /\ D \in P
    BY <1>1
  <1>3. l \in C /\ r \in D /\ r \notin C
    BY DEF Led, ClassAt
  <1>4. \A m \in nodes : ClassAt(g, Finds(g)[m]) \in Q
    BY <1>1 DEF Led
  <1>5. \A B \in P : \E E \in Q : B \subseteq E
    <2> SUFFICES ASSUME NEW m \in nodes, Reps(h)[m] = None
                 PROVE  ClassAt(h, m) \subseteq ClassAt(g, Finds(g)[m])
      BY <1>1, <1>4
    <2>1. QED
      BY DEF Led, ClassAt, Coarser
  <1>6. C \cup D \subseteq ClassAt(g, Finds(g)[l])
    BY DEF Led, ClassAt, Coarser
  <1> HIDE DEF P, Q, C, D
  <1>7. ASSUME NEW e, Congruence(e), Constant(e, C \cup D), \A B \in P : Constant(e, B)
        PROVE  \A E \in Q : Constant(e, E)
    <2>1. Coarser(e, Finds(h))
      <3> SUFFICES ASSUME NEW m \in nodes, NEW n \in nodes, Finds(h)[m] = Finds(h)[n]
                   PROVE  e[m] = e[n]
        BY DEF Coarser
      <3>1. PICK B \in P : B = ClassAt(h, Finds(h)[m])
        BY <1>1 DEF Led
      <3>2. m \in B /\ n \in B
        BY <3>1 DEF ClassAt
      <3>3. QED
        BY <1>7, <3>2 DEF Constant
    <2>2. e[l] = e[r]
      BY <1>3, <1>7 DEF Constant
    <2>3. Coarser(e, Finds(g))
      BY <1>7, <2>1, <2>2
    <2>4. QED
      BY <1>1, <2>3 DEF Constant, Coarser, ClassAt
  <1>8. Grown(P, C, D, Q)
    <2>1. \E E \in Q : C \cup D \subseteq E
      BY <1>4, <1>6
    <2>2. QED
      BY <1>1, <1>5, <1>7, <2>1 DEF Grown
  <1>9. RB!Deterministic(Q)
    BY CongruentDeterministic DEF Q
  <1>10. C # D
    BY <1>3
  <1>11. RB!MergedPartition(P, C, D) = Q
    BY <1>1, <1>2, <1>8, <1>9, <1>10, LeastPartition
  <1>12. QED
    BY <1>11 DEF P, Q, C, D

-----------------------------------------------------------------------------
(* A run joins what it must.                                               *)

\* Where every node is where its source leads, find() is a congruence.
LEMMA FoundCongruent ==
    ASSUME tree \in Trees, NEW h, NodesFound(h)
    PROVE  Congruence(Finds(h))
  <1> SUFFICES ASSUME NEW m \in nodes, NEW n \in nodes, NEW a \in Symbol,
                      Finds(h)[m] = Finds(h)[n],
                      tree.child[m][a] # None, tree.child[n][a] # None
               PROVE  Finds(h)[tree.child[m][a]] = Finds(h)[tree.child[n][a]]
    BY DEF Congruence
  <1>1. \A k \in {m, n} :
           /\ tree.child[k][a] \in tree.nodes \ {Root}
           /\ tree.source[tree.child[k][a]] = k /\ tree.symbol[tree.child[k][a]] = a
    BY TreeFacts DEF nodes
  <1>2. \A k \in {m, n} :
           Finds(h)[Guards(h)[Finds(h)[k]][a]] = Finds(h)[tree.child[k][a]]
    BY <1>1 DEF NodesFound, Parent
  <1>3. QED
    BY <1>2

\* e tells no node apart from the state it is in.
Agreeing(u, c, e) == \A n \in nodes : e[Found(u, c.heap, n)] = e[n]

\* The congruences a run is to refine.
Allowed(u, e) ==
    Congruence(e) /\ Coarser(e, Finds(u.start)) /\ e[u.left] = e[u.right]

\* The left child that merge finds is a node of the tree.
LEMMA LeftInTree ==
    ASSUME tree \in Trees, NEW u, BlockIsTree(u), IdleHeap(u.start), NEW c, Sound(u, c),
           NEW a, Due(u, c, a), LeftChild(c, a) # None
    PROVE  /\ LeftChild(c, a) \in tree.nodes \ {Root} /\ tree.symbol[LeftChild(c, a)] = a
           /\ Found(u, c.heap, tree.source[LeftChild(c, a)]) = c.left[c.depth]
  <1> DEFINE l == c.left[c.depth]
             r == c.right[c.depth]
             s == LeftChild(c, a)
  <1>1. /\ a \in Symbol
        /\ l \in Node /\ Reps(c.heap)[l] = None
        /\ r \in Block(u) /\ Reps(c.heap)[r] = l
    <2>1. c.depth > 0 /\ a \in c.todo[c.depth] /\ Guards(c.heap)[r][a] # None
      BY DEF Due
    <2>2. QED
      BY <2>1, DueChild DEF LeftChild, RightChild
  <1>2. /\ s \in tree.nodes \ {Root} /\ tree.symbol[s] = a
        /\ Found(u, c.heap, tree.source[s]) = l
    <2>1. Guards(c.heap)[l][a] = s
      BY DEF LeftChild
    <2>2. GuardsOK(u, c) /\ RepsOK(u, c)
      BY DEF Sound
    <2>3. CASE Guards(u.start)[l][a] = s
      <3>1. Reps(u.start)[l] = None
        BY <1>1, <2>2, BlockFacts DEF RepsOK
      <3>2. s \in tree.nodes \ {Root} /\ tree.symbol[s] = a /\ Parent(u.start, s) = l
        BY <1>1, <2>3, <3>1 DEF IdleHeap, GuardsLead
      <3>3. QED
        BY <1>1, <3>2 DEF Found, Parent
    <2>4. CASE Adopted(u, c, l, a)
      <3>1. s \in Block(u) /\ tree.symbol[s] = a /\ Found(u, c.heap, tree.source[s]) = l
        BY <2>1, <2>4 DEF Adopted
      <3>2. QED
        BY <3>1, BlockParents
    <2>5. QED
      BY <1>1, <2>1, <2>2, <2>3, <2>4 DEF GuardsOK
  <1>3. QED
    BY <1>2

\* The children that are joined have equal symbols and sources in the two states.
LEMMA ChildrenAgree ==
    ASSUME tree \in Trees, NEW u, BlockIsTree(u), IdleHeap(u.start), NEW e, Congruence(e),
           NEW c, Sound(u, c), Agreeing(u, c, e),
           NEW a, Due(u, c, a), LeftChild(c, a) # None
    PROVE  e[Found(u, c.heap, LeftChild(c, a))] = e[RightChild(c, a)]
  <1> DEFINE l == c.left[c.depth]
             r == c.right[c.depth]
             s == LeftChild(c, a)
             t == RightChild(c, a)
  <1>1. /\ a \in Symbol
        /\ l \in Node /\ Reps(c.heap)[l] = None
        /\ r \in Block(u) /\ Reps(c.heap)[r] = l
        /\ t \in Block(u) /\ Parent(u.start, t) = r /\ tree.symbol[t] = a
    <2>1. c.depth > 0 /\ a \in c.todo[c.depth] /\ Guards(c.heap)[r][a] # None
      BY DEF Due
    <2>2. QED
      BY <2>1, DueChild, SMTT(30) DEF LeftChild, RightChild
  <1>2. t \in tree.nodes \ {Root}
    BY <1>1, BlockParents
  <1>3. Found(u, c.heap, tree.source[t]) = l
    BY <1>1, AptaAssumption DEF Found, Parent
  <1>4. /\ s \in tree.nodes \ {Root} /\ tree.symbol[s] = a
        /\ Found(u, c.heap, tree.source[s]) = l
    BY LeftInTree
  <1> HIDE DEF l, r, s, t
  <1>5. \A x \in {s, t} : /\ tree.source[x] \in nodes /\ x \in nodes
                          /\ tree.child[tree.source[x]][a] = x /\ x # None
    BY <1>1, <1>2, <1>4, TreeFacts, AptaAssumption DEF nodes
  <1>6. e[tree.source[s]] = e[tree.source[t]]
    BY <1>3, <1>4, <1>5 DEF Agreeing
  <1>7. e[s] = e[t]
    BY <1>1, <1>5, <1>6 DEF Congruence
  <1>8. e[Found(u, c.heap, s)] = e[s]
    BY <1>5 DEF Agreeing
  <1>9. QED
    BY <1>7, <1>8 DEF s, t

\* Joining two states that e does not tell apart.
LEMMA AgreesJoin ==
    ASSUME NEW u, BlockIsTree(u), NEW c, Sound(u, c), NEW e, Agreeing(u, c, e),
           tree \in Trees, NEW d, NEW l, NEW r, Joins(u, c, d, l, r), e[l] = e[r]
    PROVE  Agreeing(u, d, e)
  <1>1. \A n \in Node : Found(u, d.heap, n)
                           = IF Found(u, c.heap, n) = r THEN l ELSE Found(u, c.heap, n)
    BY JoinFacts
  <1>2. nodes \subseteq Node
    BY TreeFacts DEF nodes
  <1>3. QED
    BY <1>1, <1>2 DEF Agreeing

\* So every configuration of the run joins only what its congruences have to.
LEMMA AgreesRun ==
    ASSUME tree \in Trees, NEW u, BlockIsTree(u), IdleHeap(u.start), NEW e, Allowed(u, e),
           NEW c \in Reach(u)
    PROVE  Agreeing(u, c, e)
  <1> DEFINE S == {d \in Configuration : Sound(u, d) /\ Agreeing(u, d, e)}
  <1>1. ASSUME NEW d \in Configuration, StartsRun(u, d)
        PROVE  d \in S
    <2>1. Sound(u, d) /\ d.heap = u.start
      BY <1>1, StartSound DEF StartsRun
    <2>2. ASSUME NEW n \in nodes
          PROVE  e[Found(u, d.heap, n)] = e[n]
      <3>1. n \in Node /\ Finds(u.start)[n] \in nodes
        BY TreeFacts, IdleParents DEF nodes
      <3>2. /\ Reps(u.start)[Finds(u.start)[n]] = None
            /\ Finds(u.start)[Finds(u.start)[n]] = Finds(u.start)[n]
        BY <3>1, IdleFinds, TreeFacts DEF nodes
      <3>3. Found(u, d.heap, n) = Finds(u.start)[n]
        BY <2>1, <3>2 DEF Found
      <3>4. QED
        BY <3>1, <3>2, <3>3 DEF Allowed, Coarser
    <2>3. QED
      BY <2>1, <2>2 DEF Agreeing
  <1>2. ASSUME NEW b \in S, NEW d \in Configuration, RunStep(u, b, d)
        PROVE  d \in S
    <2>1. Sound(u, b) /\ Agreeing(u, b, e) /\ Sound(u, d)
      BY <1>2, StepSound
    <2>2. ASSUME FirstJoin(u, b, d)
          PROVE  Agreeing(u, d, e)
      BY <2>1, <2>2, FirstJoinJoins, AgreesJoin DEF Allowed
    <2>3. ASSUME NEW a \in Symbol, FoldedJoin(u, b, d, a)
          PROVE  Agreeing(u, d, e)
      <3>1. Due(u, b, a) /\ LeftChild(b, a) # None
        BY <2>3 DEF FoldedJoin, LeftChild
      <3>2. Joins(u, b, d, Found(u, b.heap, LeftChild(b, a)), RightChild(b, a))
        BY <2>1, <2>3, FoldedJoinJoins DEF LeftChild, RightChild
      <3>3. e[Found(u, b.heap, LeftChild(b, a))] = e[RightChild(b, a)]
        BY <2>1, <3>1, ChildrenAgree DEF Allowed
      <3>4. QED
        BY <2>1, <3>2, <3>3, AgreesJoin
    <2>4. ASSUME NEW a \in Symbol, Adoption(u, b, d, a)
          PROVE  Agreeing(u, d, e)
      <3>1. Reps(d.heap) = Reps(b.heap)
        <4>1. PICK l, t : d.heap = GuardHeap(b.heap, l, a, t)
          BY <2>4 DEF Adoption
        <4>2. QED
          BY <4>1 DEF GuardHeap, Reps
      <3>2. QED
        BY <2>1, <3>1 DEF Agreeing, Found
    <2>5. ASSUME Return(u, b, d)
          PROVE  Agreeing(u, d, e)
      BY <2>1, <2>5 DEF Agreeing, Return
    <2>6. QED
      BY <1>2, <2>1, <2>2, <2>3, <2>4, <2>5 DEF RunStep
  <1>3. S \in SUBSET Configuration /\ Inductive(u, S)
    BY <1>1, <1>2 DEF Inductive
  <1>4. QED
    BY <1>3 DEF Reach

-----------------------------------------------------------------------------
(* Types.                                                                  *)

\* e tells nodes of different types apart.
OneTyped(e) ==
    \A m, n \in nodes, x, y \in Type :
       e[m] = e[n] /\ tree.finals[m][x] # 0 /\ tree.finals[n][y] # 0 => x = y

\* The counts of a state are zero for the types none of its nodes has.
TypesKnown(h) ==
    /\ \A n \in Node, x \in Type : h[7][n][x] \in Nat
    /\ \A m \in nodes, x \in Type :
          tree.finals[m][x] # 0 => h[7][Finds(h)[m]][x] # 0
    /\ \A n \in nodes, x \in Type : Reps(h)[n] = None /\ h[7][n][x] # 0 =>
          \E m \in nodes : Finds(h)[m] = n /\ tree.finals[m][x] # 0

Typed(h) == TypesKnown(h) /\ OneTyped(Finds(h))

\* A finer map tells apart what a coarser one does.
LEMMA FinerTyped ==
    ASSUME NEW e, NEW f, Coarser(e, f), OneTyped(e)
    PROVE  OneTyped(f)
  BY DEF Coarser, OneTyped

\* The states of a heap then are consistent.
LEMMA TypedConsistent ==
    ASSUME NEW h, Led(h), OneTyped(Finds(h))
    PROVE  RB!Consistent(PartOf(h))
  <1> SUFFICES ASSUME NEW C \in PartOf(h)
               PROVE  RB!Cardinality(RB!TypesOf(C)) <= 1
    BY DEF RB!Consistent
  <1>1. PICK m : C = ClassAt(h, m)
    BY HeapPartition
  <1>2. \A x, y \in RB!TypesOf(C) : x = y
    BY <1>1 DEF RB!TypesOf, ClassAt, OneTyped
  <1> DEFINE S == RB!TypesOf(C)
  <1> HIDE DEF S
  <1>3. S = {} \/ \E x : S = {x}
    BY <1>2 DEF S
  <1>4. Cardinality(S) \in {0, 1}
    BY <1>3, FS_EmptySet, FS_Singleton
  <1>5. QED
    BY <1>4, SameCardinality DEF S

\* Joining adds up the counts.
LEMMA JoinTypes ==
    ASSUME tree \in Trees, MERGE_DATA, NEW u, BlockIsTree(u), NEW c, Sound(u, c),
           TypesKnown(c.heap), NEW d, Sound(u, d), NEW l, NEW r, Joins(u, c, d, l, r)
    PROVE  TypesKnown(d.heap)
  <1> DEFINE h == c.heap
             g == d.heap
             f == h[7]
  <1>1. /\ c \in Configuration /\ h \in Snapshot /\ l \in Node /\ r \in Block(u) /\ r \in Node
        /\ l # r /\ Reps(h)[r] = None
        /\ Reps(g)[r] = l /\ \A x \in Node \ {r} : Reps(g)[x] = Reps(h)[x]
    BY JoinFacts, ConfigurationTyped
  <1>2. g = JoinHeap(h, l, r) /\ Sound(u, d)
    BY DEF Joins
  <1>3. f \in [Node -> [Type -> Int]]
    BY <1>1, SnapshotParts
  <1>4. g[7] = [f EXCEPT ![l] = [x \in Type |-> f[l][x] + f[r][x]]]
    BY <1>2 DEF JoinHeap
  <1>5. /\ \A x \in Type : g[7][l][x] = f[l][x] + f[r][x]
        /\ \A n \in Node \ {l} : g[7][n] = f[n]
    BY <1>1, <1>3, <1>4
  <1>6. \A n \in Node : Finds(h)[n] \in Node
    BY <1>1, RunFinds, FindEquation, ConfigurationTyped DEF Finds
  <1>7. \A n \in Node : Finds(g)[n] = IF Finds(h)[n] = r THEN l ELSE Finds(h)[n]
    BY <1>2, RunFinds, JoinFacts
  <1>8. nodes \subseteq Node /\ r \in nodes
    BY <1>1, TreeFacts, BlockParents DEF nodes
  <1> HIDE DEF h, g, f
  <1>9. /\ \A n \in Node, x \in Type : f[n][x] \in Nat
        /\ \A m \in nodes, x \in Type : tree.finals[m][x] # 0 => f[Finds(h)[m]][x] # 0
        /\ \A n \in nodes, x \in Type : Reps(h)[n] = None /\ f[n][x] # 0 =>
              \E m \in nodes : Finds(h)[m] = n /\ tree.finals[m][x] # 0
    BY DEF TypesKnown, h, f
  <1>10. \A n \in Node, x \in Type : g[7][n][x] \in Nat
    BY <1>1, <1>5, <1>9
  <1>11. ASSUME NEW m \in nodes, NEW x \in Type, tree.finals[m][x] # 0
         PROVE  g[7][Finds(g)[m]][x] # 0
    <2>1. f[Finds(h)[m]][x] \in Nat \ {0} /\ m \in Node /\ Finds(h)[m] \in Node
      BY <1>6, <1>8, <1>9, <1>11
    <2>2. f[l][x] \in Nat /\ f[r][x] \in Nat /\ g[7][l][x] = f[l][x] + f[r][x]
      BY <1>1, <1>5, <1>9
    <2>3. QED
      BY <1>5, <1>7, <2>1, <2>2
  <1>12. ASSUME NEW n \in nodes, NEW x \in Type, Reps(g)[n] = None, g[7][n][x] # 0
         PROVE  \E m \in nodes : Finds(g)[m] = n /\ tree.finals[m][x] # 0
    <2>1. n # r /\ n \in Node /\ Reps(h)[n] = None
      BY <1>1, <1>8, <1>12, AptaAssumption
    <2>2. CASE n # l
      BY <1>5, <1>7, <1>8, <1>9, <1>12, <2>1, <2>2
    <2>3. CASE n = l
      <3>1. f[l][x] # 0 \/ f[r][x] # 0
        BY <1>1, <1>5, <1>9, <1>12, <2>3
      <3>2. \E m \in nodes : Finds(h)[m] \in {l, r} /\ tree.finals[m][x] # 0
        BY <1>1, <1>8, <1>9, <2>1, <2>3, <3>1
      <3>3. QED
        BY <1>7, <1>8, <2>3, <3>2
    <2>4. QED
      BY <2>2, <2>3
  <1>13. QED
    BY <1>10, <1>11, <1>12 DEF TypesKnown, g

\* So the types are known all along a run.
LEMMA TypesRun ==
    ASSUME tree \in Trees, MERGE_DATA, NEW u, BlockIsTree(u), TypesKnown(u.start),
           NEW c \in Reach(u)
    PROVE  TypesKnown(c.heap)
  <1> DEFINE S == {d \in Configuration : Sound(u, d) /\ TypesKnown(d.heap)}
  <1>1. ASSUME NEW d \in Configuration, StartsRun(u, d)
        PROVE  d \in S
    BY <1>1, StartSound DEF StartsRun
  <1>2. ASSUME NEW b \in S, NEW d \in Configuration, RunStep(u, b, d)
        PROVE  d \in S
    <2>1. Sound(u, b) /\ TypesKnown(b.heap) /\ Sound(u, d)
      BY <1>2, StepSound
    <2>2. ASSUME FirstJoin(u, b, d)
          PROVE  TypesKnown(d.heap)
      BY <2>1, <2>2, FirstJoinJoins, JoinTypes
    <2>3. ASSUME NEW a \in Symbol, FoldedJoin(u, b, d, a)
          PROVE  TypesKnown(d.heap)
      <3>1. Joins(u, b, d, Found(u, b.heap, LeftChild(b, a)), RightChild(b, a))
        BY <2>1, <2>3, FoldedJoinJoins DEF LeftChild, RightChild
      <3>2. QED
        BY <2>1, <3>1, JoinTypes
    <2>4. ASSUME NEW a \in Symbol, Adoption(u, b, d, a)
          PROVE  TypesKnown(d.heap)
      <3>1. Reps(d.heap) = Reps(b.heap) /\ d.heap[7] = b.heap[7]
        <4>1. PICK l, t : d.heap = GuardHeap(b.heap, l, a, t)
          BY <2>4 DEF Adoption
        <4>2. QED
          BY <4>1 DEF GuardHeap, Reps
      <3>2. QED
        BY <2>1, <3>1 DEF TypesKnown, Finds
    <2>5. ASSUME Return(u, b, d)
          PROVE  TypesKnown(d.heap)
      BY <2>1, <2>5 DEF Return
    <2>6. QED
      BY <1>2, <2>1, <2>2, <2>3, <2>4, <2>5 DEF RunStep
  <1>3. S \in SUBSET Configuration /\ Inductive(u, S)
    BY <1>1, <1>2 DEF Inductive
  <1>4. QED
    BY <1>3 DEF Reach

-----------------------------------------------------------------------------
(* Tests.                                                                  *)

\* Every test is performed to its end on typed traces.
Exhaustive ==
    /\ MERGE_WHEN_TESTING /\ MERGE_DATA /\ TYPE_CONSISTENT
    /\ KTAIL = -1 /\ KSTATE = -1
    /\ \A t \in Trees : \A n \in t.nodes, x, y \in Type :
          t.finals[n][x] # 0 /\ t.finals[n][y] # 0 => x = y

\* The test is in the run v, and has joined no different types yet.
Folding(v) ==
    \E c \in Reach(v) :
       /\ c.heap = heap /\ Merging(v, c, stack) /\ OneTyped(Finds(heap))
       /\ result \/ MergeCalled(v, c, stack)

\* The test failed and returns from all its calls.
Broken ==
    /\ ~result
    /\ \A i \in 1 .. Len(stack) : stack[i].kind = "merge" /\ stack[i].at = "loop"

\* v is the merge tested, to be run to its end.
Tests(v) ==
    /\ v.start = before /\ v.left = ref.red /\ v.right = ref.blue /\ ~v.stops
    /\ BlockIsTree(v)

\* A failed test only returns.
LEMMA BrokenStep ==
    ASSUME TypeOK, op = "test", Broken, MergeStep
    PROVE  Broken'
  <1>1. stack \in Seq(Frame) /\ Testing /\ ~result
    BY DEF TypeOK, Testing, Broken
  <1>2. stack # <<>> => top.at = "loop"
    BY <1>1 DEF Broken, top
  <1>3. MergeReturn
    BY <1>1, <1>2 DEF MergeStep, MergeStop, MergeNodes, MergeAdopt, MergeChildren,
       MergeFind, MergeRecurse, MergeReturn, At
  <1>4. stack # <<>> /\ Pop /\ result' = result
    BY <1>3 DEF MergeReturn, At
  <1>5. /\ Len(stack') = Len(stack) - 1 /\ Len(stack) \in Nat
        /\ \A i \in 1 .. Len(stack) : i < Len(stack) => stack'[i] = stack[i]
    BY <1>1, <1>4, StackedPop
  <1>6. QED
    BY <1>1, <1>4, <1>5 DEF Broken

\* The two nodes merge is called for are two states.
LEMMA PairUnmerged ==
    ASSUME TypeOK, At("merge", "entry"), NEW u, BlockIsTree(u), NEW c \in Reach(u),
           c.heap = heap, Merging(u, c, stack)
    PROVE  /\ top.left \in Node /\ top.right \in Node /\ top.left # top.right
           /\ rep[top.left] = None /\ rep[top.right] = None
  <1>1. c \in Configuration /\ stack \in Seq(Frame) /\ c.depth \in Nat /\ Sound(u, c)
    BY ConfigurationTyped, ReachSound DEF Reach, TypeOK
  <1>2. /\ stack # <<>> /\ stack[Len(stack)] = top /\ top.at = "entry"
        /\ top.left \in Node /\ top.right \in Node
    BY <1>1, TopPlace
  <1>3. rep[top.right] = None /\ Reps(c.heap) = rep
    BY MergingAsserts, HeapParts
  <1>4. CASE MergeCalled(u, c, stack)
    <2>1. top.left = u.left /\ top.right = u.right /\ Reps(c.heap)[u.right] = None
      BY <1>2, <1>4 DEF MergeCalled, Called
    <2>2. Reps(u.start)[u.left] = None /\ u.left \notin Block(u) /\ u.right \in Block(u)
      BY BlockFacts DEF BlockIsTree
    <2>3. QED
      BY <1>1, <1>2, <1>3, <2>1, <2>2 DEF Sound, FreshOK
  <1>5. ASSUME NEW a \in Symbol, MergeEnters(u, c, stack, a)
        PROVE  top.left # top.right /\ rep[top.left] = None
    <2>1. /\ Due(u, c, a) /\ LeftChild(c, a) # None
          /\ top.left = Found(u, c.heap, LeftChild(c, a)) /\ top.right = RightChild(c, a)
      BY <1>1, <1>2, <1>5 DEF MergeEnters, Stacked, Takes, Calls
    <2>2. QED
      BY <1>3, <2>1, DueFacts
  <1>6. QED
    BY <1>1, <1>2, <1>3, <1>4, <1>5, MergingPlace

\* The calls below one that is entered are in their loops.
LEMMA StopBreaks ==
    ASSUME TypeOK, At("merge", "entry"), NEW u, NEW c \in Configuration,
           Merging(u, c, stack), Pop, ~result'
    PROVE  Broken'
  <1>1. stack \in Seq(Frame) /\ c.depth \in Nat
    BY ConfigurationTyped DEF TypeOK
  <1>2. stack # <<>> /\ top.at = "entry"
    BY <1>1, TopPlace
  <1>3. /\ Len(stack') = Len(stack) - 1 /\ Len(stack) \in Nat
        /\ \A i \in 1 .. Len(stack) : i < Len(stack) => stack'[i] = stack[i]
    BY <1>1, <1>2, StackedPop
  <1>4. \A i \in 1 .. Len(stack) : i < Len(stack) =>
           stack[i].kind = "merge" /\ stack[i].at = "loop"
    <2>1. CASE MergeCalled(u, c, stack)
      BY <2>1 DEF MergeCalled, Called
    <2>2. ASSUME NEW a \in Symbol, MergeEnters(u, c, stack, a)
          PROVE  \A i \in 1 .. Len(stack) : i < Len(stack) =>
                    stack[i].kind = "merge" /\ stack[i].at = "loop"
      BY <1>1, <2>2 DEF MergeEnters, Stacked, Resting, Rests
    <2>3. QED
      BY <1>1, <1>2, <2>1, <2>2, MergingPlace
  <1>5. QED
    BY <1>3, <1>4 DEF Broken

\* find() when y is merged into the state x.
LEMMA MergedFinds ==
    ASSUME NEW r \in [Node -> Node \cup {None}], WellFounded(r), NEW x \in Node,
           NEW y \in Node, x # y, r[x] = None, r[y] = None,
           NEW q \in [Node -> Node \cup {None}], WellFounded(q),
           q[y] = x, \A n \in Node \ {y} : q[n] = r[n]
    PROVE  \A n \in Node : findIn(q)[n] = IF findIn(r)[n] = y THEN x ELSE findIn(r)[n]
  <1> DEFINE g == [n \in Node |-> IF findIn(r)[n] = y THEN x ELSE findIn(r)[n]]
  <1>1. /\ findIn(r) \in [Node -> Node]
        /\ \A n \in Node : findIn(r)[n] = IF r[n] = None THEN n ELSE findIn(r)[r[n]]
    BY FindEquation
  <1>2. \A n \in Node : r[n] \in Node \cup {None}
    OBVIOUS
  <1>3. q[y] = x /\ \A n \in Node \ {y} : q[n] = r[n]
    OBVIOUS
  <1>4. \A n \in Node : g[n] = IF findIn(r)[n] = y THEN x ELSE findIn(r)[n]
    OBVIOUS
  <1> HIDE DEF g
  <1>5. g[y] = x /\ g[x] = x
    BY <1>1, <1>4
  <1>6. ASSUME NEW n \in Node
        PROVE  g[n] = IF q[n] = None THEN n ELSE g[q[n]]
    <2>1. CASE n = y
      BY <1>3, <1>5, <2>1, AptaAssumption
    <2>2. CASE n # y
      BY <1>1, <1>2, <1>3, <1>4, <2>2
    <2>3. QED
      BY <2>1, <2>2
  <1>7. \A n \in Node : findIn(q)[n] = g[n]
    BY ONLY q \in [Node -> Node \cup {None}], WellFounded(q), <1>6, FindUnique
  <1>8. QED
    BY <1>4, <1>7

\* Two states whose types do not conflict are joined without mixing types.
LEMMA JoinOneTyped ==
    ASSUME tree \in Trees, TYPE_CONSISTENT, NEW f, OneTyped(f), NEW g,
           NEW x, NEW y, \A n \in nodes : g[n] = IF f[n] = y THEN x ELSE f[n],
           \A m \in nodes, t \in Type : tree.finals[m][t] # 0 => finals[f[m]][t] # 0,
           ~TypesConflict(x, y)
    PROVE  OneTyped(g)
  <1> SUFFICES ASSUME NEW m \in nodes, NEW n \in nodes, NEW s \in Type, NEW t \in Type,
                      g[m] = g[n], tree.finals[m][s] # 0, tree.finals[n][t] # 0, s # t
               PROVE  FALSE
    BY DEF OneTyped
  <1>1. f[m] # f[n]
    BY DEF OneTyped
  <1>2. finals[f[m]][s] # 0 /\ finals[f[n]][t] # 0
    OBVIOUS
  <1>3. (f[m] = x /\ f[n] = y) \/ (f[m] = y /\ f[n] = x)
    <2>1. /\ g[m] = IF f[m] = y THEN x ELSE f[m]
          /\ g[n] = IF f[n] = y THEN x ELSE f[n]
      OBVIOUS
    <2>2. g[m] = g[n]
      OBVIOUS
    <2>3. QED
      BY ONLY <1>1, <2>1, <2>2
  <1>4. QED
    BY <1>2, <1>3 DEF TypesConflict

\* The tree says which types there are.
LEMMA OneTypedKept ==
    ASSUME tree' = tree, NEW e, e = Finds(heap)', OneTyped(e)
    PROVE  OneTyped(Finds(heap))'
  <1>1. nodes' = nodes
    BY DEF nodes
  <1>2. QED
    BY <1>1 DEF OneTyped

\* Merging two nodes in a test mixes no types.
LEMMA NodesFold ==
    ASSUME TypeOK, Exhaustive, op = "test", MergeNodes, NEW v, Tests(v),
           TypesKnown(before), Folding(v)
    PROVE  Folding(v)'
  <1>1. PICK c \in Reach(v) : /\ c.heap = heap /\ Merging(v, c, stack)
                              /\ OneTyped(Finds(heap))
    BY DEF Folding
  <1>2. BlockIsTree(v) /\ v.start = before /\ Performing /\ Testing /\ tree \in Trees
    BY DEF Tests, Performing, Testing, Exhaustive, TypeOK, AptaTypeOK
  <1>3. PICK d \in Reach(v) : d.heap = heap' /\ Merging(v, d, stack')
    BY <1>1, <1>2, MergeNodesRun
  <1>4. At("merge", "entry") /\ ~Inconsistent(top) /\ result' = TRUE /\ tree' = tree
    BY <1>2 DEF MergeNodes
  <1> DEFINE x == top.left
             y == top.right
  <1>5. /\ x \in Node /\ y \in Node /\ x # y /\ rep[x] = None /\ rep[y] = None
        /\ rep' = [rep EXCEPT ![y] = x]
    BY <1>1, <1>2, <1>4, PairUnmerged DEF MergeNodes, MergeWith
  <1> HIDE DEF x, y
  <1>6. rep \in [Node -> Node \cup {None}] /\ rep' \in [Node -> Node \cup {None}]
    BY <1>5 DEF TypeOK, AptaTypeOK
  <1>7. WellFounded(rep) /\ WellFounded(rep')
    <2>1. /\ Reps(c.heap) = rep /\ Reps(d.heap) = rep'
      BY <1>1, <1>3 DEF heap, Reps
    <2>2. QED
      BY <1>1, <1>2, <1>3, <2>1, ReachSound, RunFinds
  <1>8. \A n \in Node : find'[n] = IF find[n] = y THEN x ELSE find[n]
    <2>1. PICK r, q, l, z : r = rep /\ q = rep' /\ l = x /\ z = y
      OBVIOUS
    <2>2. /\ r \in [Node -> Node \cup {None}] /\ q \in [Node -> Node \cup {None}]
          /\ WellFounded(r) /\ WellFounded(q) /\ l \in Node /\ z \in Node /\ l # z
          /\ r[l] = None /\ r[z] = None
          /\ q[z] = l /\ \A n \in Node \ {z} : q[n] = r[n]
      BY <1>5, <1>6, <1>7, <2>1
    <2>3. \A n \in Node : findIn(q)[n] = IF findIn(r)[n] = z THEN l ELSE findIn(r)[n]
      BY ONLY <2>2, MergedFinds
    <2>4. QED
      BY <2>1, <2>3 DEF find
  <1>9. Finds(heap) = find /\ Finds(heap)' = find'
    BY DEF heap, Finds, Reps, find
  <1>10. \A m \in nodes, t \in Type : tree.finals[m][t] # 0 => finals[find[m]][t] # 0
    <2>1. TypesKnown(c.heap)
      BY <1>1, <1>2, TypesRun DEF Exhaustive
    <2>2. QED
      BY <1>1, <1>9, <2>1 DEF TypesKnown, heap
  <1>11. ~TypesConflict(x, y)
    BY <1>4 DEF Inconsistent, x, y
  <1>12. nodes \subseteq Node
    BY <1>2, TreeFacts DEF nodes
  <1>13. OneTyped(find')
    BY <1>1, <1>2, <1>8, <1>9, <1>10, <1>11, <1>12, JoinOneTyped DEF Exhaustive
  <1>14. OneTyped(Finds(heap))'
    BY <1>4, <1>9, <1>13 DEF OneTyped, nodes
  <1>15. QED
    BY <1>3, <1>4, <1>14 DEF Folding

\* Nor does any other step; a test that stops failed.
LEMMA FoldingStep ==
    ASSUME TypeOK, Exhaustive, op = "test", MergeStep, NEW v, Tests(v),
           TypesKnown(before), Folding(v)
    PROVE  Folding(v)' \/ Broken'
  <1>1. PICK c \in Reach(v) : /\ c.heap = heap /\ Merging(v, c, stack)
                              /\ OneTyped(Finds(heap))
                              /\ result \/ MergeCalled(v, c, stack)
    BY DEF Folding
  <1>2. BlockIsTree(v) /\ Performing /\ Testing /\ c \in Configuration
    BY DEF Tests, Performing, Testing, Exhaustive, Reach
  <1>3. CASE MergeStop
    <2>1. ~DeepEnough(top)
      BY DEF DeepEnough, Exhaustive
    <2>2. At("merge", "entry") /\ Pop /\ ~result'
      BY <1>3, <2>1 DEF MergeStop
    <2>3. QED
      BY <1>1, <1>2, <2>2, StopBreaks
  <1>4. CASE MergeNodes
    BY <1>4, NodesFold
  <1>5. ASSUME stack # <<>>, top.at # "entry"
        PROVE  result
    <2>1. ~MergeCalled(v, c, stack)
      BY <1>5 DEF MergeCalled, Called, top
    <2>2. QED
      BY <1>1, <2>1
  <1>6. CASE MergeAdopt
    <2>1. /\ At("merge", "loop") /\ rep' = rep /\ result' = result /\ tree' = tree
      BY <1>6 DEF MergeAdopt
    <2>2. PICK d \in Reach(v) : d.heap = heap' /\ Merging(v, d, stack')
      BY <1>1, <1>2, <1>6, MergeAdoptRun
    <2>3. result
      BY <1>5, <2>1 DEF At
    <2>4. Finds(heap)' = Finds(heap)
      BY <2>1 DEF Finds, Reps, heap
    <2>5. OneTyped(Finds(heap))'
      <3>1. PICK e : e = Finds(heap)
        OBVIOUS
      <3>2. QED
        BY <1>1, <2>1, <2>4, <3>1, OneTypedKept
    <2>6. QED
      BY <2>1, <2>2, <2>3, <2>5 DEF Folding
  <1>7. CASE MergeChildren \/ MergeFind \/ MergeRecurse
    <2>1. /\ At("merge", "loop") \/ At("merge", "find")
          /\ UNCHANGED <<tree, heap, result>>
      BY <1>7 DEF MergeChildren, MergeFind, MergeRecurse
    <2>2. Merging(v, c, stack')
      BY <1>1, <1>2, <1>7, MergeChildrenRun, MergeFindRun, MergeRecurseRun
    <2>3. result
      BY <1>5, <2>1 DEF At
    <2>4. Finds(heap)' = Finds(heap)
      BY <2>1
    <2>5. OneTyped(Finds(heap))'
      <3>1. PICK e : e = Finds(heap)
        OBVIOUS
      <3>2. QED
        BY <1>1, <2>1, <2>4, <3>1, OneTypedKept
    <2>6. QED
      BY <1>1, <2>1, <2>2, <2>3, <2>5 DEF Folding
  <1>8. CASE MergeReturn
    <2>1. At("merge", "loop") /\ UNCHANGED <<tree, heap, result>>
      BY <1>8 DEF MergeReturn
    <2>2. result
      BY <1>5, <2>1 DEF At
    <2>3. PICK d \in Reach(v) : d.heap = heap' /\ Merging(v, d, stack')
      BY <1>1, <1>2, <1>8, <2>2, MergeReturnRun
    <2>4. Finds(heap)' = Finds(heap)
      BY <2>1
    <2>5. OneTyped(Finds(heap))'
      <3>1. PICK e : e = Finds(heap)
        OBVIOUS
      <3>2. QED
        BY <1>1, <2>1, <2>4, <3>1, OneTypedKept
    <2>6. QED
      BY <2>1, <2>2, <2>3, <2>5 DEF Folding
  <1>9. QED
    BY <1>3, <1>4, <1>6, <1>7, <1>8 DEF MergeStep

\* What a run ends in is a congruence that joins its two states.
LEMMA EndPartition ==
    ASSUME tree \in Trees, NEW v, BlockIsTree(v), IdleHeap(v.start), ~v.stops,
           NEW c \in Reach(v), c.depth = 0, Reps(c.heap)[v.right] # None
    PROVE  /\ Congruence(Finds(c.heap)) /\ Coarser(Finds(c.heap), Finds(v.start))
           /\ Finds(c.heap)[v.left] = Finds(c.heap)[v.right]
           /\ Sound(v, c) /\ c.fresh = {} /\ NodesFound(c.heap)
           /\ \A n \in Node : Finds(c.heap)[n] = Found(v, c.heap, n)
  <1>1. /\ v.left \in Node /\ v.right \in Node /\ nodes \subseteq Node
        /\ Sound(v, c) /\ c \in Configuration
    BY StartTyped, ReachSound, TreeFacts DEF Reach, nodes
  <1>2. c.fresh = {} /\ NodesFound(c.heap)
    BY <1>1, EndFresh, EndFound
  <1>3. \A n \in Node : Finds(c.heap)[n] = Found(v, c.heap, n)
    BY <1>1, RunFinds
  <1>4. Coarser(Finds(c.heap), Finds(v.start))
    BY <1>1, <1>3 DEF Coarser, Found
  <1>5. Found(v, c.heap, v.left) = Found(v, c.heap, v.right)
    <2>1. Reps(c.heap)[v.right] = v.left
      BY <1>1 DEF Sound, FreshOK
    <2>2. QED
      BY <1>1, <2>1, FoundEquation DEF Sound
  <1>6. QED
    BY <1>1, <1>2, <1>3, <1>4, <1>5, FoundCongruent

\* The run of a test that succeeds ends in a deterministic automaton.
LEMMA TestedFound ==
    ASSUME TypeOK, NEW v, Tests(v), IdleHeap(before), Folding(v), stack = <<>>
    PROVE  /\ Congruence(Finds(heap)) /\ Coarser(Finds(heap), Finds(before))
           /\ Finds(heap)[ref.red] = Finds(heap)[ref.blue]
           /\ OneTyped(Finds(heap))
  <1>1. PICK c \in Reach(v) : c.heap = heap /\ Merging(v, c, stack) /\ OneTyped(Finds(heap))
    BY DEF Folding
  <1>2. /\ BlockIsTree(v) /\ v.start = before /\ ~v.stops /\ tree \in Trees
        /\ v.left = ref.red /\ v.right = ref.blue
    BY DEF Tests, TypeOK, AptaTypeOK
  <1>3. c.depth = 0 /\ Reps(c.heap)[v.right] # None
    BY <1>1, <1>2, MergingEnds DEF MergeEnded, Reach
  <1>4. PICK b, h : b = before /\ h = heap
    OBVIOUS
  <1>5. /\ Congruence(Finds(h)) /\ Coarser(Finds(h), Finds(b))
        /\ Finds(h)[v.left] = Finds(h)[v.right]
    BY <1>1, <1>2, <1>3, <1>4, EndPartition
  <1>6. QED
    BY <1>1, <1>2, <1>4, <1>5

-----------------------------------------------------------------------------
(* What an offered merge leads to.                                         *)

\* A congruence joins the two states and mixes no types.
Known(o, h) ==
    \E e : Congruence(e) /\ Coarser(e, Finds(h)) /\ e[o.red] = e[o.blue] /\ OneTyped(e)

\* RedBlue allows to merge the two.
Permitted(o, h) ==
    (MERGE_ROOT \/ o.red # Root) /\ (MERGE_BLUE_BLUE \/ Reds(h)[o.red])

TypesOK == Typed(settled) /\ \A i \in 1 .. Len(done) : Typed(done[i].before)
OfferOK == offer # None => Permitted(offer, settled) /\ Known(offer, settled)
AskedOK ==
    /\ op \in {"test", "untest", "do"} => Permitted(ref, before)
    /\ op = "do" => Known(ref, before)
    /\ op = "test" => \E v \in Run : Tests(v) /\ (Folding(v) \/ Broken)

OffersOK == TypesOK /\ OfferOK /\ AskedOK

\* None of it depends on anything but the tree.
LEMMA LawsFixed ==
    ASSUME tree' = tree, NEW x, NEW y
    PROVE  /\ Typed(x)' <=> Typed(x)
           /\ Known(x, y)' <=> Known(x, y)
           /\ BlockIsTree(x)' <=> BlockIsTree(x)
  <1>1. nodes' = nodes
    BY DEF nodes
  <1>2. ASSUME NEW e
        PROVE  /\ Congruence(e)' <=> Congruence(e)
               /\ OneTyped(e)' <=> OneTyped(e)
               /\ Coarser(e, Finds(y))' <=> Coarser(e, Finds(y))
    BY <1>1 DEF Congruence, OneTyped, Coarser
  <1>3. TypesKnown(x)' <=> TypesKnown(x)
    BY <1>1 DEF TypesKnown
  <1>4. Typed(x)' <=> Typed(x)
    BY <1>2, <1>3 DEF Typed
  <1>5. Known(x, y)' <=> Known(x, y)
    BY <1>2 DEF Known
  <1>6. BlockIsTree(x)' <=> BlockIsTree(x)
    BY DEF BlockIsTree, Parent
  <1>7. QED
    BY <1>4, <1>5, <1>6

\* What is settled and what was.
LEMMA TypesBy ==
    ASSUME tree' = tree, NEW g, g = settled', Typed(g), NEW s, s = done',
           \A i \in 1 .. Len(s) : Typed(s[i].before)
    PROVE  TypesOK'
  <1>1. Typed(settled)'
    BY LawsFixed
  <1>2. ASSUME NEW i \in 1 .. Len(done')
        PROVE  Typed(done[i].before)'
    <2>1. Typed(s[i].before)
      BY <1>2
    <2>2. Typed(s[i].before)'
      BY <2>1, LawsFixed
    <2>3. QED
      BY <2>2
  <1>3. QED
    BY <1>1, <1>2 DEF TypesOK

\* Nothing of it changes on its own.
LEMMA TypesKept ==
    ASSUME TypesOK, tree' = tree, settled' = settled, done' = done
    PROVE  TypesOK'
  <1>1. PICK g, s : g = settled /\ s = done
    OBVIOUS
  <1>2. g = settled' /\ s = done' /\ Typed(g) /\ \A i \in 1 .. Len(s) : Typed(s[i].before)
    BY <1>1 DEF TypesOK
  <1>3. QED
    BY <1>2, TypesBy

\* Nor does an offer.
LEMMA OfferKept ==
    ASSUME OfferOK, tree' = tree, settled' = settled, offer' = offer
    PROVE  OfferOK'
  <1> SUFFICES ASSUME offer' # None
               PROVE  Permitted(offer, settled)' /\ Known(offer, settled)'
    BY DEF OfferOK
  <1>1. PICK o, h : o = offer /\ h = settled
    OBVIOUS
  <1>2. Permitted(o, h) /\ Known(o, h)
    BY <1>1 DEF OfferOK
  <1>3. Known(o, h)'
    BY <1>2, LawsFixed
  <1>4. QED
    BY <1>1, <1>2, <1>3 DEF Permitted

\* The prefix tree is typed.
LEMMA InitTyped ==
    ASSUME Exhaustive, Init
    PROVE  OffersOK
  <1>1. /\ tree \in Trees /\ rep = [n \in Node |-> None] /\ finals = tree.finals
        /\ op = "idle" /\ offer = None /\ done = <<>>
    BY DEF Init, AptaInit
  <1>2. settled = heap /\ heap[7] = tree.finals /\ Reps(heap) = rep
    BY <1>1 DEF settled, heap, Reps
  <1>3. IdleHeap(heap) /\ nodes \subseteq Node
    BY <1>1, InitIdle, TreeFacts DEF nodes
  <1>4. \A n \in nodes : Finds(heap)[n] = n
    BY <1>1, <1>2, <1>3, IdleFinds
  <1>5. tree.finals \in [Node -> [Type -> Nat]]
    BY <1>1, TreesAssumption DEF IsPrefixTree
  <1>6. TypesKnown(heap)
    BY <1>2, <1>3, <1>4, <1>5 DEF TypesKnown
  <1>7. OneTyped(Finds(heap))
    BY <1>1, <1>4 DEF OneTyped, Exhaustive, nodes
  <1>8. QED
    BY <1>1, <1>2, <1>6, <1>7 DEF OffersOK, TypesOK, OfferOK, AskedOK, Typed

\* A step of a recursive call.
LEMMA CallOffers ==
    ASSUME TypeOK, Inv, Exhaustive, OffersOK, MergeStep \/ UndoStep
    PROVE  OffersOK'
  <1>1. /\ UNCHANGED <<tree, op, ref, offer, done, before>> /\ stack # <<>>
    BY DEF MergeStep, MergeStop, MergeNodes, MergeAdopt, MergeChildren, MergeFind,
       MergeRecurse, MergeReturn, UndoStep, UndoSkip, UndoEnter, UndoAdopt,
       UndoChildren, UndoFind, UndoRecurse, UndoNodes, At
  <1>2. op # "idle" /\ settled = before /\ settled' = settled
    BY <1>1 DEF Inv, ControlOK, settled
  <1>3. TypesOK' /\ OfferOK'
    BY <1>1, <1>2, TypesKept, OfferKept DEF OffersOK
  <1>4. op \in {"test", "untest", "do"} => Permitted(ref, before)'
    BY <1>1 DEF OffersOK, AskedOK, Permitted
  <1>5. ASSUME op = "do"
        PROVE  Known(ref, before)'
    <2>1. PICK o, h : o = ref /\ h = before
      OBVIOUS
    <2>2. Known(o, h)'
      BY <1>1, <1>5, <2>1, LawsFixed DEF OffersOK, AskedOK
    <2>3. QED
      BY <1>1, <2>1, <2>2
  <1>6. ASSUME op = "test"
        PROVE  \E v \in Run : Tests(v)' /\ (Folding(v)' \/ Broken')
    <2>1. PICK v \in Run : Tests(v) /\ (Folding(v) \/ Broken)
      BY <1>6 DEF OffersOK, AskedOK
    <2>2. Tests(v)'
      BY <1>1, <2>1, LawsFixed DEF Tests
    <2>3. MergeStep
      <3>1. PICK u \in Run : Operates(u)
        BY <1>2 DEF Inv, ControlOK
      <3>2. Performs(u)
        BY <1>6, <3>1 DEF Operates, Performing, Exhaustive
      <3>3. QED
        BY <3>2, MergingOnly DEF Performs
    <2>4. TypesKnown(before)
      BY <1>2 DEF OffersOK, TypesOK, Typed
    <2>5. QED
      BY <1>6, <2>1, <2>2, <2>3, <2>4, FoldingStep, BrokenStep
  <1>7. QED
    BY <1>1, <1>3, <1>4, <1>5, <1>6 DEF OffersOK, AskedOK

\* The end of a test.
LEMMA TestMergeDoneOffers ==
    ASSUME TypeOK, Inv, Exhaustive, OffersOK, TestMergeDone
    PROVE  OffersOK'
  <1>1. /\ op = "test" /\ stack = <<>> /\ op' = "untest"
        /\ UNCHANGED <<tree, ref, before, heap, done>>
        /\ offer' = IF result /\ ~eval.inconsistent
                    THEN [ref EXCEPT !.score = eval.merges] ELSE None
    BY DEF TestMergeDone, Exhaustive
  <1>2. settled = before /\ settled' = settled /\ ref \in Refinement
    BY <1>1 DEF settled, TypeOK
  <1>3. TypesOK'
    BY <1>1, <1>2, TypesKept DEF OffersOK
  <1>4. Permitted(ref, before)'
    BY <1>1 DEF OffersOK, AskedOK, Permitted
  <1>5. ASSUME offer' # None
        PROVE  Permitted(offer, settled)' /\ Known(offer, settled)'
    <2>1. result /\ offer' = [ref EXCEPT !.score = eval.merges]
      BY <1>1, <1>5
    <2>2. offer'.red = ref.red /\ offer'.blue = ref.blue
      BY <1>2, <2>1 DEF Refinement
    <2>3. PICK v \in Run : Tests(v) /\ Folding(v)
      BY <1>1, <2>1 DEF OffersOK, AskedOK, Broken
    <2>4. IdleHeap(before)
      BY <1>2 DEF Inv, SettledOK
    <2>5. /\ Congruence(Finds(heap)) /\ Coarser(Finds(heap), Finds(before))
          /\ Finds(heap)[ref.red] = Finds(heap)[ref.blue]
          /\ OneTyped(Finds(heap))
      BY <1>1, <2>3, <2>4, TestedFound
    <2>6. PICK o, h : o = offer' /\ h = before
      OBVIOUS
    <2>7. Known(o, h)
      BY <2>2, <2>5, <2>6 DEF Known
    <2>8. Known(o, h)'
      BY <1>1, <2>7, LawsFixed
    <2>9. QED
      BY <1>1, <1>2, <1>4, <2>2, <2>6, <2>8 DEF Permitted
  <1>6. QED
    BY <1>1, <1>3, <1>4, <1>5 DEF OffersOK, OfferOK, AskedOK

-----------------------------------------------------------------------------
(* What a performed merge does.                                            *)

\* A run from start to end.
LEMMA RunFacts ==
    ASSUME NEW u, NEW b, RunsOn(u, b), ~u.stops, NEW c, Ends(u, c)
    PROVE  /\ tree \in Trees /\ nodes \subseteq Node /\ c \in Reach(u)
           /\ BlockIsTree(u) /\ IdleHeap(b) /\ IdleHeap(u.start) /\ IdleHeap(c.heap)
           /\ u.left \in nodes /\ u.right \in nodes /\ u.left # u.right
           /\ Reps(b)[u.left] = None /\ Reps(b)[u.right] = None
           /\ Finds(u.start) = Finds(b) /\ Reps(u.start) = Reps(b) /\ u.start[7] = b[7]
           /\ \A n \in Node : Finds(c.heap)[n] = Found(u, c.heap, n)
           /\ Finds(c.heap)[u.left] = u.left /\ Finds(c.heap)[u.right] = u.left
           /\ Sound(u, c)
  <1>1. tree \in Trees /\ IdleHeap(b) /\ MergeableIn(b, u.left, u.right)
    BY DEF RunsOn
  <1>2. nodes \subseteq Node
    BY <1>1, TreeFacts DEF nodes
  <1>3. PICK C : Coloured(b, C, u.start)
    BY DEF RunsOn
  <1>4. Finds(u.start) = Finds(b) /\ Reps(u.start) = Reps(b) /\ u.start[7] = b[7]
    BY <1>1, <1>3, ColouredIdle DEF Coloured
  <1>5. /\ BlockIsTree(u) /\ IdleHeap(u.start)
        /\ u.left \in nodes /\ u.right \in nodes
    BY RunStarts DEF nodes
  <1>6. IdleHeap(c.heap) /\ Reps(c.heap)[u.left] = None /\ Reps(c.heap)[u.right] = u.left
    BY RunEnds
  <1>7. c \in Reach(u) /\ Sound(u, c)
    BY <1>5, ReachSound DEF Ends
  <1>8. \A n \in Node : Finds(c.heap)[n] = Found(u, c.heap, n)
    BY <1>5, <1>7, RunFinds
  <1>9. Finds(c.heap)[u.left] = u.left /\ Finds(c.heap)[u.right] = u.left
    <2>1. u.left \in Node /\ u.right \in Node /\ u.left # None
      BY <1>2, <1>5, AptaAssumption
    <2>2. QED
      BY <1>6, <2>1, IdleFinds
  <1>10. QED
    BY <1>1, <1>2, <1>4, <1>5, <1>6, <1>7, <1>8, <1>9 DEF MergeableIn

\* It joins what every congruence has to.
LEMMA RunLeast ==
    ASSUME NEW u, NEW b, RunsOn(u, b), ~u.stops, NEW c, Ends(u, c),
           NEW e, Congruence(e), Coarser(e, Finds(b)), e[u.left] = e[u.right]
    PROVE  Coarser(e, Finds(c.heap))
  <1>1. /\ tree \in Trees /\ nodes \subseteq Node /\ c \in Reach(u)
        /\ BlockIsTree(u) /\ IdleHeap(u.start) /\ Finds(u.start) = Finds(b)
        /\ \A n \in Node : Finds(c.heap)[n] = Found(u, c.heap, n)
    BY RunFacts
  <1>2. Allowed(u, e)
    BY <1>1 DEF Allowed
  <1>3. \A n \in nodes : e[Found(u, c.heap, n)] = e[n]
    BY <1>1, <1>2, AgreesRun DEF Agreeing
  <1>4. \A n \in nodes : e[Finds(c.heap)[n]] = e[n]
    BY <1>1, <1>3
  <1>5. QED
    BY <1>4 DEF Coarser

\* So it makes the least deterministic partition that joins the two states.
LEMMA RunPartition ==
    ASSUME NEW u, NEW b, RunsOn(u, b), ~u.stops, NEW c, Ends(u, c)
    PROVE  PartOf(c.heap) =
              RB!MergedPartition(PartOf(b), ClassAt(b, u.left), ClassAt(b, u.right))
  <1>1. /\ tree \in Trees /\ nodes \subseteq Node
        /\ IdleHeap(b) /\ IdleHeap(c.heap)
        /\ u.left \in nodes /\ u.right \in nodes /\ u.left # u.right
        /\ Reps(b)[u.left] = None /\ Reps(b)[u.right] = None
        /\ Finds(u.start) = Finds(b)
        /\ \A n \in Node : Finds(c.heap)[n] = Found(u, c.heap, n)
        /\ Finds(c.heap)[u.left] = u.left /\ Finds(c.heap)[u.right] = u.left
    BY RunFacts
  <1>2. Led(b) /\ Led(c.heap)
    BY <1>1, IdleLed
  <1>3. Congruence(Finds(c.heap))
    BY <1>1, FoundCongruent DEF IdleHeap
  <1>4. Coarser(Finds(c.heap), Finds(b))
    BY <1>1 DEF Coarser, Found
  <1>5. \A e : Congruence(e) /\ Coarser(e, Finds(b)) /\ e[u.left] = e[u.right]
               => Coarser(e, Finds(c.heap))
    BY RunLeast
  <1>6. PICK g, l, r : g = c.heap /\ l = u.left /\ r = u.right
    OBVIOUS
  <1>7. /\ tree \in Trees /\ Led(b) /\ Led(g) /\ l \in nodes /\ r \in nodes
        /\ Reps(b)[l] = None /\ Reps(b)[r] = None /\ l # r
        /\ Congruence(Finds(g)) /\ Coarser(Finds(g), Finds(b))
        /\ Finds(g)[l] = Finds(g)[r]
        /\ \A e : Congruence(e) /\ Coarser(e, Finds(b)) /\ e[l] = e[r]
                  => Coarser(e, Finds(g))
    BY <1>1, <1>2, <1>3, <1>4, <1>5, <1>6
  <1>8. PartOf(g) = RB!MergedPartition(PartOf(b), ClassAt(b, l), ClassAt(b, r))
    BY ONLY <1>7, MergedIsLeast
  <1>9. QED
    BY <1>6, <1>8

\* The core of a heap.
LEMMA HeapCore ==
    ASSUME NEW h
    PROVE  CoreOf(h) = {ClassAt(h, m) : m \in {n \in nodes : Reds(h)[n] /\ Reps(h)[n] = None}}
  <1> DEFINE S == {n \in nodes : Reds(h)[n]}
             T == {n \in S : Reps(h)[n] = None}
  <1>1. CoreOf(h) = {ClassAt(h, m) : m \in T}
    BY DEF CoreOf, ClassesOf, ClassAt, Finds, Reps, Reds
  <1>2. T = {n \in nodes : Reds(h)[n] /\ Reps(h)[n] = None}
    OBVIOUS
  <1> HIDE DEF T
  <1>3. QED
    BY <1>1, <1>2

\* The states that contain a red one, or the left one, are red.
LEMMA RunCore ==
    ASSUME NEW u, NEW b, RunsOn(u, b), ~u.stops, NEW c, Ends(u, c)
    PROVE  CoreOf(c.heap) = {E \in PartOf(c.heap) :
              \E F \in CoreOf(b) \cup {ClassAt(b, u.left)} : F \subseteq E}
  <1>1. /\ tree \in Trees /\ nodes \subseteq Node /\ BlockIsTree(u)
        /\ IdleHeap(b) /\ IdleHeap(c.heap) /\ Sound(u, c)
        /\ u.left \in nodes /\ u.right \in nodes
        /\ Reps(b)[u.left] = None /\ Reps(u.start) = Reps(b)
        /\ Finds(u.start) = Finds(b)
        /\ \A n \in Node : Finds(c.heap)[n] = Found(u, c.heap, n)
    BY RunFacts
  <1> PICK g, l, r : g = c.heap /\ l = u.left /\ r = u.right
    OBVIOUS
  <1>2. Led(b) /\ Led(g)
    BY <1>1, IdleLed
  <1>3. /\ Reds(g) = Reds(u.start) /\ Reps(g)[l] = None /\ Reps(g)[r] = l
    BY RunEnds
  <1>4. /\ \A x \in Block(u) : ~Reds(b)[x] /\ Reps(b)[x] = None
        /\ Reds(u.start)[l]
    BY <1>1, RunStarts, BlockFacts
  <1>5. \A n \in Node \ Block(u) : Reps(g)[n] = Reps(b)[n]
    BY <1>1 DEF Sound, RepsOK
  <1>6. \A n \in Node : /\ Reds(b)[n] => Reds(g)[n]
                        /\ Reds(g)[n] => Reds(b)[n] \/ n \in {l, r}
    BY <1>3 DEF RunsOn, Coloured
  <1>7. \A m, n \in nodes : Finds(b)[m] = Finds(b)[n] => Finds(g)[m] = Finds(g)[n]
    BY <1>1 DEF Found
  <1>8. /\ \A C : C \in CoreOf(g) <=>
              \E m \in nodes : Reds(g)[m] /\ Reps(g)[m] = None /\ C = ClassAt(g, m)
        /\ \A C : C \in CoreOf(b) <=>
              \E m \in nodes : Reds(b)[m] /\ Reps(b)[m] = None /\ C = ClassAt(b, m)
        /\ \A C : C \in PartOf(g) <=>
              \E m \in nodes : Reps(g)[m] = None /\ C = ClassAt(g, m)
    BY <1>2, HeapCore, HeapPartition
  <1>9. \A m \in nodes : Reps(g)[m] = None => Reps(b)[m] = None
    BY <1>1, <1>4, <1>5
  <1>10. ASSUME NEW m \in nodes, Reps(g)[m] = None
         PROVE  ClassAt(b, m) \subseteq ClassAt(g, m)
    <2>1. Finds(g)[m] = m /\ Finds(b)[m] = m
      BY <1>2, <1>9, <1>10 DEF Led
    <2>2. QED
      BY <1>7, <2>1 DEF ClassAt
  <1>11. ASSUME NEW E \in CoreOf(g)
         PROVE  E \in PartOf(g) /\ \E F \in CoreOf(b) \cup {ClassAt(b, l)} : F \subseteq E
    <2>1. PICK m \in nodes : Reds(g)[m] /\ Reps(g)[m] = None /\ E = ClassAt(g, m)
      BY <1>8
    <2>2. ClassAt(b, m) \subseteq E /\ E \in PartOf(g)
      BY <1>8, <1>10, <2>1
    <2>3. m # r
      BY <1>1, <1>3, <2>1, AptaAssumption
    <2>4. Reds(b)[m] \/ m = l
      BY <1>1, <1>6, <2>1, <2>3
    <2>5. ClassAt(b, m) \in CoreOf(b) \cup {ClassAt(b, l)}
      BY <1>8, <1>9, <2>1, <2>4
    <2>6. QED
      BY <2>2, <2>5
  <1>12. ASSUME NEW E \in PartOf(g), NEW F \in CoreOf(b) \cup {ClassAt(b, l)}, F \subseteq E
         PROVE  E \in CoreOf(g)
    <2>1. PICK m \in nodes : Reps(g)[m] = None /\ E = ClassAt(g, m)
      BY <1>8
    <2>2. PICK k \in nodes : /\ F = ClassAt(b, k) /\ Reps(b)[k] = None
                             /\ Reds(b)[k] \/ k = l
      BY <1>1, <1>8
    <2>3. k \in F
      BY <1>2, <2>2 DEF Led, ClassAt
    <2>4. Finds(g)[k] = m
      BY <1>12, <2>1, <2>3 DEF ClassAt
    <2>5. Reps(g)[k] = None
      BY <1>1, <1>3, <1>4, <1>5, <2>2
    <2>6. k = m
      BY <1>2, <2>4, <2>5 DEF Led
    <2>7. Reds(g)[k]
      BY <1>1, <1>3, <1>4, <1>6, <2>2
    <2>8. QED
      BY <1>8, <2>1, <2>6, <2>7
  <1>13. QED
    BY <1>11, <1>12

\* It is typed when the merge was offered.
LEMMA RunTyped ==
    ASSUME MERGE_DATA, NEW u, NEW b, RunsOn(u, b), ~u.stops, NEW c, Ends(u, c), Typed(b),
           NEW o, o.red = u.left, o.blue = u.right, Known(o, b)
    PROVE  Typed(c.heap)
  <1>1. /\ tree \in Trees /\ c \in Reach(u) /\ BlockIsTree(u)
        /\ Finds(u.start) = Finds(b) /\ Reps(u.start) = Reps(b) /\ u.start[7] = b[7]
    BY RunFacts
  <1>2. TypesKnown(u.start)
    BY <1>1 DEF Typed, TypesKnown
  <1>3. TypesKnown(c.heap)
    BY <1>1, <1>2, TypesRun
  <1>4. PICK e : Congruence(e) /\ Coarser(e, Finds(b)) /\ e[o.red] = e[o.blue] /\ OneTyped(e)
    BY DEF Known
  <1>5. Coarser(e, Finds(c.heap))
    BY <1>4, RunLeast
  <1>6. OneTyped(Finds(c.heap))
    BY <1>4, <1>5, FinerTyped
  <1>7. QED
    BY <1>3, <1>6 DEF Typed

\* The run of a merge that is performed, at its end.
LEMMA DoneRun ==
    ASSUME TypeOK, Inv, op = "do", stack = <<>>
    PROVE  \E u \in Run : /\ RunsOn(u, before) /\ ~u.stops
                          /\ u.left = ref.red /\ u.right = ref.blue
                          /\ \E c \in Reach(u) : Ends(u, c) /\ c.heap = heap
  <1>1. PICK u \in Run : Operates(u) /\ BlockIsTree(u) /\ RunsOn(u, before)
    BY OperatesFacts
  <1>2. u.left = ref.red /\ u.right = ref.blue /\ ~u.stops /\ Performs(u)
    BY <1>1 DEF Operates, Performing
  <1>3. PICK c \in Reach(u) : c.heap = heap /\ Merging(u, c, stack)
    BY <1>2 DEF Performs
  <1>4. MergeEnded(u, c, stack)
    BY <1>3, MergingEnds DEF Reach
  <1>5. Ends(u, c)
    BY <1>4 DEF MergeEnded, Ends
  <1>6. QED
    BY <1>1, <1>2, <1>3, <1>5

\* One more refinement in effect.
LEMMA TypesGrown ==
    ASSUME TypeOK, TypesOK, tree' = tree, NEW r, NEW b, done' = Append(done, [ref |-> r, before |-> b]),
           b = settled, NEW g, g = settled', Typed(g)
    PROVE  TypesOK'
  <1> PICK s, t : s = done /\ t = done'
    OBVIOUS
  <1>1. s \in Seq([ref : Refinement, before : Snapshot])
    BY DEF TypeOK
  <1>2. t = Append(s, [ref |-> r, before |-> b])
    OBVIOUS
  <1>3. \A i \in 1 .. Len(t) : t[i] = IF i <= Len(s) THEN s[i] ELSE [ref |-> r, before |-> b]
    BY <1>1, <1>2
  <1>4. Typed(b) /\ \A i \in 1 .. Len(s) : Typed(s[i].before)
    BY DEF TypesOK
  <1>5. \A i \in 1 .. Len(t) : Typed(t[i].before)
    <2> SUFFICES ASSUME NEW i \in 1 .. Len(t) PROVE Typed(t[i].before)
      OBVIOUS
    <2>1. i <= Len(s) => i \in 1 .. Len(s)
      BY <1>1
    <2>2. QED
      BY <1>3, <1>4, <2>1
  <1>6. QED
    BY <1>5, TypesBy

\* One less.
LEMMA TypesShrunk ==
    ASSUME TypeOK, TypesOK, tree' = tree, done # <<>>,
           done' = SubSeq(done, 1, Len(done) - 1), settled' = done[Len(done)].before
    PROVE  TypesOK'
  <1> PICK s, t, g : s = done /\ t = done' /\ g = settled'
    OBVIOUS
  <1>1. s \in Seq([ref : Refinement, before : Snapshot]) /\ s # <<>>
    BY DEF TypeOK
  <1>2. Len(s) \in 1 .. Len(s)
    BY <1>1
  <1>3. t = SubSeq(s, 1, Len(s) - 1) /\ g = s[Len(s)].before
    OBVIOUS
  <1>4. \A i \in 1 .. Len(t) : i \in 1 .. Len(s) /\ t[i] = s[i]
    BY <1>1, <1>3
  <1>5. \A i \in 1 .. Len(s) : Typed(s[i].before)
    BY DEF TypesOK
  <1>6. Typed(g) /\ \A i \in 1 .. Len(t) : Typed(t[i].before)
    BY <1>2, <1>3, <1>4, <1>5
  <1>7. QED
    BY <1>6, TypesBy

\* A merge takes effect.
LEMMA DoMergeDoneOffers ==
    ASSUME TypeOK, Inv, Exhaustive, OffersOK, DoMergeDone
    PROVE  OffersOK'
  <1>1. /\ op = "do" /\ stack = <<>> /\ op' = "idle" /\ tree' = tree /\ heap' = heap
        /\ done' = Append(done, [ref |-> ref, before |-> before]) /\ offer' = offer
    BY DEF DoMergeDone
  <1>2. offer = None /\ settled = before /\ settled' = heap
    BY <1>1 DEF Inv, ControlOK, settled
  <1>3. PICK u \in Run : /\ RunsOn(u, before) /\ ~u.stops
                         /\ u.left = ref.red /\ u.right = ref.blue
                         /\ \E c \in Reach(u) : Ends(u, c) /\ c.heap = heap
    BY <1>1, DoneRun
  <1>4. PICK c \in Reach(u) : Ends(u, c) /\ c.heap = heap
    BY <1>3
  <1>5. PICK o, b : o = ref /\ b = before
    OBVIOUS
  <1>6. RunsOn(u, b) /\ Typed(b) /\ Known(o, b) /\ o.red = u.left /\ o.blue = u.right
    BY <1>1, <1>2, <1>3, <1>5 DEF OffersOK, TypesOK, AskedOK
  <1>7. Typed(c.heap)
    BY <1>3, <1>4, <1>6, RunTyped DEF Exhaustive
  <1>8. TypesOK
    BY DEF OffersOK
  <1>9. TypesOK'
    BY <1>1, <1>2, <1>4, <1>5, <1>7, <1>8, TypesGrown
  <1>10. QED
    BY <1>1, <1>2, <1>9 DEF OffersOK, OfferOK, AskedOK

\* An undo takes effect, or a test has been taken back.
LEMMA UndoneOffers ==
    ASSUME TypeOK, Inv, OffersOK, TestMergeUndone \/ UndoMergeDone
    PROVE  OffersOK'
  <1>1. CASE TestMergeUndone
    <2>1. /\ op = "untest" /\ op' = "idle" /\ UNCHANGED <<tree, offer, done>>
      BY <1>1 DEF TestMergeUndone
    <2>2. heap' = before
      BY <1>1, TestMergeUndoneInv
    <2>3. settled' = settled
      BY <2>1, <2>2 DEF settled
    <2>4. QED
      BY <2>1, <2>3, TypesKept, OfferKept DEF OffersOK, AskedOK
  <1>2. CASE UndoMergeDone
    <2>1. /\ op = "undo" /\ op' = "idle" /\ UNCHANGED <<tree, offer>>
          /\ done' = SubSeq(done, 1, Len(done) - 1)
      BY <1>2 DEF UndoMergeDone
    <2>2. heap' = done[Len(done)].before
      BY <1>2, UndoMergeDoneInv
    <2>3. settled' = done[Len(done)].before /\ offer = None /\ done # <<>>
      BY <2>1, <2>2 DEF settled, Inv, ControlOK
    <2>4. TypesOK'
      BY <2>1, <2>3, TypesShrunk DEF OffersOK
    <2>5. QED
      BY <2>1, <2>3, <2>4 DEF OffersOK, OfferOK, AskedOK
  <1>3. QED
    BY <1>1, <1>2

\* An extension, and taking one back.
LEMMA ExtendOffers ==
    ASSUME TypeOK, TypeOK', Inv, OffersOK, UndoExtend \/ \E b : DoExtend(b)
    PROVE  OffersOK'
  <1>1. CASE UndoExtend
    <2>1. /\ op = "idle" /\ op' = "idle" /\ tree' = tree /\ offer' = None
          /\ done # <<>> /\ done' = SubSeq(done, 1, Len(done) - 1)
      BY <1>1 DEF UndoExtend
    <2>2. heap' = done[Len(done)].before
      BY <1>1, UndoExtendInv
    <2>3. settled' = done[Len(done)].before
      BY <2>1, <2>2 DEF settled
    <2>4. TypesOK'
      BY <2>1, <2>3, TypesShrunk DEF OffersOK
    <2>5. QED
      BY <2>1, <2>4 DEF OffersOK, OfferOK, AskedOK
  <1>2. ASSUME NEW b, DoExtend(b)
        PROVE  OffersOK'
    <2>1. /\ op = "idle" /\ op' = "idle" /\ tree' = tree /\ offer' = None
          /\ done' = Append(done,
                       [ref |-> [kind |-> "extend", red |-> b, blue |-> b, score |-> 0],
                        before |-> heap])
          /\ rep' = rep /\ finals' = finals
      BY <1>2 DEF DoExtend
    <2>2. PICK h, g : h = heap /\ g = heap'
      OBVIOUS
    <2>3. h = settled /\ g = settled'
      BY <2>1, <2>2 DEF settled
    <2>4. g[2] = h[2] /\ g[7] = h[7]
      BY <2>1, <2>2 DEF heap
    <2>5. Typed(h)
      BY <2>3 DEF OffersOK, TypesOK
    <2>6. Typed(g)
      BY <2>4, <2>5 DEF Typed, TypesKnown, Finds, Reps
    <2>7. TypesOK
      BY DEF OffersOK
    <2>8. TypesOK'
      BY <2>1, <2>2, <2>3, <2>6, <2>7, TypesGrown
    <2>9. QED
      BY <2>1, <2>8 DEF OffersOK, OfferOK, AskedOK
  <1>3. QED
    BY <1>1, <1>2

\* A merge or the undo of one is called.
LEMMA CallsOffers ==
    ASSUME TypeOK, Inv, OffersOK, DoMerge \/ UndoMerge
    PROVE  OffersOK'
  <1>1. CASE DoMerge
    <2>1. /\ op = "idle" /\ op' = "do" /\ tree' = tree /\ done' = done /\ offer' = None
          /\ ref' = offer /\ before' = heap /\ offer # None
      BY <1>1 DEF DoMerge
    <2>2. settled = heap /\ settled' = heap
      BY <2>1 DEF settled
    <2>3. TypesOK'
      BY <2>1, <2>2, TypesKept DEF OffersOK
    <2>4. PICK o, h : o = offer /\ h = heap
      OBVIOUS
    <2>5. Permitted(o, h) /\ Known(o, h)
      BY <2>1, <2>2, <2>4 DEF OffersOK, OfferOK
    <2>6. Known(o, h)'
      BY <2>1, <2>5, LawsFixed
    <2>7. Permitted(ref, before)' /\ Known(ref, before)'
      BY <2>1, <2>4, <2>5, <2>6 DEF Permitted
    <2>8. QED
      BY <2>1, <2>3, <2>7 DEF OffersOK, OfferOK, AskedOK
  <1>2. CASE UndoMerge
    <2>1. /\ op = "idle" /\ op' = "undo" /\ tree' = tree /\ done' = done /\ offer' = None
          /\ done # <<>> /\ before' = done[Len(done)].before
      BY <1>2 DEF UndoMerge
    <2>2. settled' = done[Len(done)].before
      BY <2>1 DEF settled
    <2>3. PICK s, g : s = done /\ g = settled'
      OBVIOUS
    <2>4. Len(s) \in 1 .. Len(s)
      BY <2>1, <2>3 DEF TypeOK
    <2>5. \A i \in 1 .. Len(s) : Typed(s[i].before)
      BY <2>3 DEF OffersOK, TypesOK
    <2>6. TypesOK'
      BY <2>1, <2>2, <2>3, <2>4, <2>5, TypesBy
    <2>7. QED
      BY <2>1, <2>6 DEF OffersOK, OfferOK, AskedOK
  <1>3. QED
    BY <1>1, <1>2

\* A test is called.
LEMMA TestMergeOffers ==
    ASSUME TypeOK, Inv, OffersOK, Exhaustive,
           NEW r \in CandidateStates, NEW l \in MergeTargets(r), TestMerge(l, r)
    PROVE  OffersOK'
  <1>1. /\ op = "idle" /\ tree' = tree /\ heap' = heap /\ done' = done
        /\ op' = "test" /\ ref' = [kind |-> "merge", red |-> l, blue |-> r, score |-> 0]
        /\ stack' = <<Call("merge", l, r, 0)>> /\ offer' = None /\ before' = heap
        /\ PreConsistent(l, r)
    BY DEF TestMerge
  <1>2. settled = heap /\ settled' = heap
    BY <1>1 DEF settled
  <1>3. IdleHeap(heap) /\ heap \in Snapshot /\ tree \in Trees
    BY <1>2 DEF Inv, SettledOK, IdleHeap, TypeOK, AptaTypeOK
  <1>4. MergeableIn(heap, l, r)
    BY <1>3, CandidatesMerge
  <1>5. l \in Node /\ r \in Node
    BY <1>3, <1>4, TreeFacts DEF MergeableIn
  <1>6. TypesOK'
    BY <1>1, <1>2, TypesKept DEF OffersOK
  <1>7. Permitted(ref, before)'
    <2>1. MERGE_ROOT \/ l # Root
      BY <1>1, <1>3, <1>5, TreeFacts DEF PreConsistent
    <2>2. MERGE_BLUE_BLUE \/ red[l]
      BY <1>3, RedStatesRed DEF MergeTargets
    <2>3. QED
      BY <1>1, <2>1, <2>2 DEF Permitted, Reds, heap
  <1>8. PICK u \in Run : u.start = heap /\ u.left = l /\ u.right = r /\ u.stops = TRUE
    <2>1. [start |-> heap, left |-> l, right |-> r, stops |-> TRUE] \in Run
      BY <1>3, <1>5 DEF Run
    <2>2. QED
      BY <2>1
  <1>9. BlockIsTree(u)
    <2>1. RunsOn(u, heap)
      BY <1>3, <1>4, <1>8, ColouredSame DEF RunsOn
    <2>2. QED
      BY <2>1, RunStarts
  <1>10. PICK v \in Run : v.start = heap /\ v.left = l /\ v.right = r /\ v.stops = FALSE
    <2>1. [start |-> heap, left |-> l, right |-> r, stops |-> FALSE] \in Run
      BY <1>3, <1>5 DEF Run
    <2>2. QED
      BY <2>1
  <1>11. BlockIsTree(v)
    <2>1. v.start = u.start /\ v.left = u.left /\ v.right = u.right /\ Block(v) = Block(u)
      BY <1>8, <1>10 DEF Block
    <2>2. QED
      BY <1>9, <2>1 DEF BlockIsTree
  <1>12. Tests(v)'
    BY <1>1, <1>10, <1>11, LawsFixed DEF Tests
  <1>13. Folding(v)'
    <2>1. PICK c \in Reach(v) : c.heap = v.start /\ c.depth = 0
      BY <1>11, StartExists
    <2>2. MergeCalled(v, c, stack')
      BY <1>1, <1>10, <1>11, <2>1, BlockFacts, CalledOnce DEF MergeCalled
    <2>3. OneTyped(Finds(heap))'
      <3>1. PICK e : e = Finds(heap)
        OBVIOUS
      <3>2. OneTyped(e) /\ e = Finds(heap)'
        BY <1>1, <1>2, <3>1 DEF OffersOK, TypesOK, Typed
      <3>3. QED
        BY <1>1, <3>2, OneTypedKept
    <2>4. QED
      BY <1>1, <1>10, <2>1, <2>2, <2>3 DEF Folding, Merging
  <1>14. QED
    BY <1>1, <1>6, <1>7, <1>10, <1>12, <1>13 DEF OffersOK, OfferOK, AskedOK

\* Nothing happens.
LEMMA StutterOffers ==
    ASSUME OffersOK, UNCHANGED vars
    PROVE  OffersOK'
  <1>1. UNCHANGED <<tree, heap, op, ref, stack, result, offer, done, before>>
    BY DEF vars, control
  <1>2. TypesOK' /\ OfferOK'
    <2>1. settled' = settled
      BY <1>1 DEF settled
    <2>2. QED
      BY <1>1, <2>1, TypesKept, OfferKept DEF OffersOK
  <1>3. op \in {"test", "untest", "do"} => Permitted(ref, before)'
    BY <1>1 DEF OffersOK, AskedOK, Permitted
  <1>4. ASSUME op = "do"
        PROVE  Known(ref, before)'
    <2>1. PICK o, h : o = ref /\ h = before
      OBVIOUS
    <2>2. Known(o, h)'
      BY <1>1, <1>4, <2>1, LawsFixed DEF OffersOK, AskedOK
    <2>3. QED
      BY <1>1, <2>1, <2>2
  <1>5. ASSUME op = "test"
        PROVE  \E v \in Run : Tests(v)' /\ (Folding(v)' \/ Broken')
    <2>1. PICK v \in Run : Tests(v) /\ (Folding(v) \/ Broken)
      BY <1>5 DEF OffersOK, AskedOK
    <2>2. Tests(v)'
      BY <1>1, <2>1, LawsFixed DEF Tests
    <2>3. Broken => Broken'
      BY <1>1 DEF Broken
    <2>4. ASSUME Folding(v)
          PROVE  Folding(v)'
      <3>1. PICK c \in Reach(v) : /\ c.heap = heap /\ Merging(v, c, stack)
                                  /\ OneTyped(Finds(heap))
                                  /\ result \/ MergeCalled(v, c, stack)
        BY <2>4 DEF Folding
      <3>2. PICK e : e = Finds(heap)
        OBVIOUS
      <3>3. OneTyped(Finds(heap))'
        BY <1>1, <3>1, <3>2, OneTypedKept
      <3>4. QED
        BY <1>1, <3>1, <3>3 DEF Folding
    <2>5. QED
      BY <2>1, <2>2, <2>3, <2>4
  <1>6. QED
    BY <1>1, <1>2, <1>3, <1>4, <1>5 DEF OffersOK, AskedOK

\* So every merge that is offered can be performed.
LEMMA NextOffers ==
    ASSUME TypeOK, Inv, Exhaustive, OffersOK, [Next]_vars
    PROVE  OffersOK'
  <1>1. TypeOK'
    BY NextTypeOK
  <1>2. CASE UNCHANGED vars
    BY <1>2, StutterOffers
  <1>3. CASE MergeStep \/ UndoStep
    BY <1>3, CallOffers
  <1>4. CASE Finish
    BY <1>4, TestMergeDoneOffers, UndoneOffers, DoMergeDoneOffers DEF Finish
  <1>5. CASE Client
    <2>1. CASE \E r \in Node \cap CandidateStates : DoExtend(r)
      BY <1>1, <2>1, ExtendOffers
    <2>2. CASE \E r \in Node \cap CandidateStates :
                 \E l \in Node \cap MergeTargets(r) : TestMerge(l, r)
      BY <2>2, TestMergeOffers
    <2>3. CASE DoMerge \/ UndoMerge
      BY <2>3, CallsOffers
    <2>4. CASE UndoExtend
      BY <1>1, <2>4, ExtendOffers
    <2>5. QED
      BY <1>5, <2>1, <2>2, <2>3, <2>4 DEF Client
  <1>6. QED
    BY <1>2, <1>3, <1>4, <1>5 DEF Next, Engine

-----------------------------------------------------------------------------
(* The steps of RedBlue.                                                   *)

Automaton(h) == [part |-> PartOf(h), core |-> CoreOf(h)]

\* What the refinements in effect were made on.
Recorded == [i \in 1 .. Len(done) - undone |-> Automaton(done[i].before)]

\* Partitions depend on the tree only.
LEMMA AutomatonFixed ==
    ASSUME tree' = tree, NEW h
    PROVE  /\ PartOf(h)' = PartOf(h) /\ CoreOf(h)' = CoreOf(h)
           /\ Automaton(h)' = Automaton(h)
  BY DEF PartOf, CoreOf, Automaton, ClassesOf, nodes

\* The mapping in these words.
LEMMA Mapping ==
    /\ RB!abstractVars = <<tree, PartOf(settled), CoreOf(settled), Recorded>>
    /\ RB!Automaton = Automaton(settled)
  BY DEF RB!abstractVars, RB!Automaton, Recorded, Automaton

\* They are a sequence.
LEMMA RecordedSeq ==
    ASSUME NEW n \in Nat, NEW s, s = [i \in 1 .. n |-> s[i]]
    PROVE  s \in Seq({s[i] : i \in 1 .. n}) /\ Len(s) = n
  <1> DEFINE S == {s[i] : i \in 1 .. n}
  <1>1. s \in [1 .. n -> S]
    OBVIOUS
  <1> HIDE DEF S
  <1>2. s \in Seq(S)
    BY <1>1, SeqDef
  <1>3. Len(s) = n
    BY <1>1, <1>2
  <1>4. QED
    BY <1>2, <1>3 DEF S

\* A refinement more.
LEMMA RecordedGrown ==
    ASSUME NEW n \in Nat, NEW s, s = [i \in 1 .. n |-> s[i]], NEW e,
           NEW t, t = [i \in 1 .. n + 1 |-> IF i = n + 1 THEN e ELSE s[i]]
    PROVE  t = Append(s, e)
  <1> DEFINE S == {s[i] : i \in 1 .. n} \cup {e}
  <1>1. s \in [1 .. n -> S] /\ t \in [1 .. n + 1 -> S] /\ e \in S
    OBVIOUS
  <1>2. /\ \A i \in 1 .. n : t[i] = s[i]
        /\ t[n + 1] = e
    OBVIOUS
  <1> HIDE DEF S
  <1>3. s \in Seq(S) /\ t \in Seq(S)
    BY <1>1, SeqDef
  <1>4. Len(s) = n /\ Len(t) = n + 1
    BY <1>1, <1>3
  <1> DEFINE q == Append(s, e)
  <1>5. q \in Seq(S) /\ Len(q) = n + 1
    BY <1>1, <1>3, <1>4
  <1>6. \A i \in 1 .. n + 1 : q[i] = IF i = n + 1 THEN e ELSE s[i]
    BY <1>3, <1>4
  <1> HIDE DEF q
  <1>7. \A i \in 1 .. Len(t) : t[i] = q[i]
    BY <1>2, <1>4, <1>6
  <1>8. t = q
    BY ONLY <1>3, <1>4, <1>5, <1>7, SeqEqual
  <1>9. QED
    BY <1>8 DEF q

\* A refinement less.
LEMMA RecordedShrunk ==
    ASSUME NEW n \in Nat, n # 0, NEW s, s = [i \in 1 .. n |-> s[i]],
           NEW t, t = [i \in 1 .. n - 1 |-> s[i]]
    PROVE  s # <<>> /\ Len(s) = n /\ t = SubSeq(s, 1, n - 1)
  <1> DEFINE S == {s[i] : i \in 1 .. n}
  <1>1. s \in [1 .. n -> S] /\ t \in [1 .. n - 1 -> S]
    OBVIOUS
  <1>2. \A i \in 1 .. n - 1 : t[i] = s[i]
    OBVIOUS
  <1> HIDE DEF S
  <1>10. PICK m \in Nat : m = n - 1
    OBVIOUS
  <1>11. t \in [1 .. m -> S]
    BY <1>1, <1>10
  <1>12. t \in Seq(S)
    BY ONLY <1>11, m \in Nat, SeqDef
  <1>13. s \in Seq(S)
    BY ONLY <1>1, n \in Nat, SeqDef
  <1>3. s \in Seq(S) /\ t \in Seq(S)
    BY <1>12, <1>13
  <1>4. Len(s) = n /\ Len(t) = n - 1
    BY <1>1, <1>3
  <1> DEFINE q == SubSeq(s, 1, n - 1)
  <1>5. q \in Seq(S) /\ Len(q) = n - 1 /\ \A i \in 1 .. n - 1 : q[i] = s[i]
    BY <1>3, <1>4, SMTT(30)
  <1> HIDE DEF q
  <1>6. \A i \in 1 .. Len(t) : t[i] = q[i]
    BY <1>2, <1>4, <1>5
  <1>7. t = q
    BY ONLY <1>3, <1>4, <1>5, <1>6, SeqEqual
  <1>8. s # <<>>
    BY <1>4
  <1>9. QED
    BY <1>4, <1>7, <1>8 DEF q

\* What a step leaves behind.
LEMMA SettledMaps ==
    ASSUME tree' = tree, NEW g, g = settled'
    PROVE  /\ PartOf(settled)' = PartOf(g) /\ CoreOf(settled)' = CoreOf(g)
           /\ Automaton(settled)' = Automaton(g)
  BY DEF PartOf, CoreOf, Automaton, ClassesOf, nodes

\* The history it leaves behind.
LEMMA RecordedMaps ==
    ASSUME tree' = tree, NEW s, s = done', NEW n, n = Len(s) - undone'
    PROVE  Recorded' = [i \in 1 .. n |-> Automaton(s[i].before)]
  BY DEF Recorded, PartOf, CoreOf, Automaton, ClassesOf, nodes

\* A refinement more has taken effect.
LEMMA HistoryAppended ==
    ASSUME TypeOK, tree' = tree, undone = 0, undone' = 0, NEW e, done' = Append(done, e),
           NEW b, b = e.before
    PROVE  Recorded' = Append(Recorded, Automaton(b))
  <1>1. PICK n \in Nat : n = Len(done)
    BY DEF TypeOK
  <1>2. PICK s : s = done'
    OBVIOUS
  <1>3. Len(s) = n + 1 /\ s[n + 1] = e /\ \A i \in 1 .. n : s[i] = done[i]
    BY <1>1, <1>2 DEF TypeOK
  <1>4. PICK k : k = Len(s) - undone'
    OBVIOUS
  <1>5. k = n + 1
    BY <1>3, <1>4
  <1>6. Recorded' = [i \in 1 .. k |-> Automaton(s[i].before)]
    BY <1>2, <1>4, RecordedMaps
  <1>7. PICK a : a = Automaton(b)
    OBVIOUS
  <1>8. PICK R : R = Recorded
    OBVIOUS
  <1>9. R = [i \in 1 .. n |-> Automaton(done[i].before)]
    BY <1>1, <1>8 DEF Recorded
  <1>10. R = [i \in 1 .. n |-> R[i]] /\ \A i \in 1 .. n : R[i] = Automaton(done[i].before)
    BY <1>9
  <1>11. PICK T : T = Recorded'
    OBVIOUS
  <1>12. \A i \in 1 .. n + 1 : Automaton(s[i].before) = IF i = n + 1 THEN a ELSE R[i]
    BY <1>3, <1>7, <1>10
  <1>13. T = [i \in 1 .. n + 1 |-> IF i = n + 1 THEN a ELSE R[i]]
    BY <1>5, <1>6, <1>11, <1>12
  <1>14. T = Append(R, a)
    BY <1>10, <1>13, RecordedGrown
  <1>15. QED
    BY <1>7, <1>8, <1>11, <1>14

\* The last refinement is taken back.
LEMMA HistoryShortened ==
    ASSUME TypeOK, tree' = tree, done # <<>>, undone = 0,
           NEW s, s = done', Len(s) - undone' = Len(done) - 1,
           \A i \in 1 .. Len(done) - 1 : s[i] = done[i]
    PROVE  /\ Recorded # <<>> /\ Len(Recorded) = Len(done)
           /\ Recorded' = SubSeq(Recorded, 1, Len(Recorded) - 1)
           /\ Recorded[Len(done)] = Automaton(done[Len(done)].before)
  <1>1. PICK n \in Nat : n = Len(done)
    BY DEF TypeOK
  <1>2. n # 0
    BY <1>1 DEF TypeOK
  <1>3. PICK k : k = Len(s) - undone'
    OBVIOUS
  <1>4. k = n - 1
    BY <1>1, <1>3
  <1>5. Recorded' = [i \in 1 .. k |-> Automaton(s[i].before)]
    BY <1>3, RecordedMaps
  <1>6. PICK R : R = Recorded
    OBVIOUS
  <1>7. R = [i \in 1 .. n |-> Automaton(done[i].before)]
    BY <1>1, <1>6 DEF Recorded
  <1>8. R = [i \in 1 .. n |-> R[i]] /\ \A i \in 1 .. n : R[i] = Automaton(done[i].before)
    BY <1>7
  <1>9. PICK T : T = Recorded'
    OBVIOUS
  <1>10. \A i \in 1 .. n - 1 : Automaton(s[i].before) = R[i]
    BY <1>1, <1>8
  <1>11. T = [i \in 1 .. n - 1 |-> R[i]]
    BY <1>4, <1>5, <1>9, <1>10
  <1>12. R # <<>> /\ Len(R) = n /\ T = SubSeq(R, 1, n - 1)
    BY <1>2, <1>8, <1>11, RecordedShrunk
  <1>13. R[n] = Automaton(done[n].before)
    BY <1>2, <1>8
  <1>14. QED
    BY <1>1, <1>6, <1>9, <1>12, <1>13

\* A state that may be coloured red is a blue state of RedBlue.
LEMMA BlueClass ==
    ASSUME tree \in Trees, NEW b, b = settled, IdleHeap(b), NEW r \in Blues(b)
    PROVE  ClassAt(b, r) \in RB!BlueStates
  <1>1. /\ r \in nodes \ {Root} /\ Reps(b)[r] = None /\ ~Reds(b)[r]
        /\ Reds(b)[Parent(b, r)]
    BY DEF Blues, nodes
  <1>2. PICK p : p = Parent(b, r)
    OBVIOUS
  <1>3. p \in nodes /\ Reps(b)[p] = None /\ Reds(b)[p]
    BY <1>1, <1>2, IdleParents DEF nodes
  <1>4. Led(b)
    BY IdleLed
  <1>5. ClassAt(b, p) \in CoreOf(b)
    BY <1>3, HeapCore
  <1>6. ClassAt(b, r) \in PartOf(b)
    BY <1>1, <1>4, HeapPartition
  <1>7. ClassAt(b, r) \notin CoreOf(b)
    <2>1. SUFFICES ASSUME ClassAt(b, r) \in CoreOf(b) PROVE FALSE
      OBVIOUS
    <2>2. PICK m \in nodes : Reds(b)[m] /\ Reps(b)[m] = None /\ ClassAt(b, r) = ClassAt(b, m)
      BY <2>1, HeapCore
    <2>3. Finds(b)[m] = m
      BY <1>4, <2>2 DEF Led
    <2>4. m \in ClassAt(b, r)
      BY <2>2, <2>3 DEF ClassAt
    <2>5. QED
      BY <1>1, <2>2, <2>3, <2>4 DEF ClassAt
  <1>8. r \in ClassAt(b, r)
    BY <1>1, <1>4 DEF Led, ClassAt
  <1>9. PICK s, a : s = tree.source[r] /\ a = tree.symbol[r]
    OBVIOUS
  <1>10. s \in nodes /\ a \in Symbol /\ tree.child[s][a] = r /\ r \in Node
    BY <1>1, <1>9, TreeFacts DEF nodes
  <1>11. s \in ClassAt(b, p)
    BY <1>2, <1>9, <1>10 DEF Parent, ClassAt
  <1>12. r # None
    BY <1>10, AptaAssumption
  <1>13. r \in RB!Successors(ClassAt(b, p), a)
    BY <1>10, <1>11, <1>12 DEF RB!Successors
  <1>14. PICK C, D : C = ClassAt(b, r) /\ D = ClassAt(b, p)
    OBVIOUS
  <1>15. /\ C \in PartOf(settled) /\ C \notin CoreOf(settled) /\ D \in CoreOf(settled)
         /\ RB!Successors(D, a) \cap C # {}
    BY <1>5, <1>6, <1>7, <1>8, <1>13, <1>14
  <1>16. C \in RB!BlueStates
    BY <1>10, <1>15 DEF RB!BlueStates
  <1>17. QED
    BY <1>14, <1>16

\* What the client may ask to be merged, RedBlue may merge.
LEMMA TargetClass ==
    ASSUME tree \in Trees, NEW b, b = settled, IdleHeap(b), NEW o, Permitted(o, b),
           NEW l, NEW r, l = o.red, MergeableIn(b, l, r)
    PROVE  /\ ClassAt(b, r) \in RB!BlueStates
           /\ ClassAt(b, l) \in RB!Targets(ClassAt(b, r))
  <1>1. /\ l \in nodes /\ r \in nodes /\ l # r /\ Reps(b)[l] = None /\ Reps(b)[r] = None
        /\ Reds(b)[l] \/ Reds(b)[Parent(b, l)]
        /\ ~Reds(b)[r] /\ Reds(b)[Parent(b, r)]
    BY DEF MergeableIn, nodes
  <1>2. Reps(b)[Root] = None /\ Reds(b)[Root] /\ Root \in nodes
    BY TreeFacts DEF IdleHeap, nodes
  <1>3. r \in Blues(b)
    BY <1>1, <1>2 DEF Blues, nodes
  <1>4. ClassAt(b, r) \in RB!BlueStates
    BY <1>3, BlueClass
  <1>5. Led(b)
    BY IdleLed
  <1>6. PICK C, D : C = ClassAt(b, l) /\ D = ClassAt(b, r)
    OBVIOUS
  <1>7. C \in CoreOf(settled) \/ (MERGE_BLUE_BLUE /\ C \in RB!BlueStates /\ C # D)
    <2>1. CASE Reds(b)[l]
      BY <1>1, <1>6, <2>1, HeapCore
    <2>2. CASE ~Reds(b)[l]
      <3>1. MERGE_BLUE_BLUE
        BY <2>2 DEF Permitted
      <3>2. l \in Blues(b)
        BY <1>1, <1>2, <2>2 DEF Blues, nodes
      <3>3. C \in RB!BlueStates
        BY <1>6, <3>2, BlueClass
      <3>4. Finds(b)[l] = l
        BY <1>1, <1>5 DEF Led
      <3>5. l \in C /\ l \notin D
        BY <1>1, <1>6, <3>4 DEF ClassAt
      <3>6. QED
        BY <3>1, <3>3, <3>5
    <2>3. QED
      BY <2>1, <2>2
  <1>8. MERGE_ROOT \/ Root \notin C
    <2>1. Finds(b)[Root] = Root
      BY <1>2, <1>5 DEF Led
    <2>2. QED
      BY <1>6, <2>1 DEF ClassAt, Permitted
  <1>9. C \in RB!Targets(D)
    BY <1>7, <1>8 DEF RB!Targets
  <1>10. QED
    BY <1>4, <1>6, <1>9

\* A merge that has taken effect is one of RedBlue.
LEMMA MergeRefines ==
    ASSUME tree' = tree, NEW b, b = settled, NEW g, g = settled',
           NEW C, NEW D, D \in RB!BlueStates, C \in RB!Targets(D),
           PartOf(g) = RB!MergedPartition(PartOf(b), C, D), RB!Consistent(PartOf(g)),
           CoreOf(g) = {E \in PartOf(g) : \E F \in CoreOf(b) \cup {C} : F \subseteq E},
           Recorded' = Append(Recorded, Automaton(b))
    PROVE  RB!Next
  <1>1. PartOf(settled)' = PartOf(g) /\ CoreOf(settled)' = CoreOf(g)
    BY SettledMaps
  <1>2. PICK P : P = PartOf(g)
    OBVIOUS
  <1>3. /\ P = RB!MergedPartition(PartOf(settled), C, D) /\ RB!Consistent(P)
        /\ PartOf(settled)' = P
        /\ CoreOf(settled)' = {E \in P : \E F \in CoreOf(settled) \cup {C} : F \subseteq E}
    BY <1>1, <1>2
  <1>4. RB!Merge(C, D)
    BY <1>3 DEF RB!Merge
  <1>5. Recorded' = Append(Recorded, RB!Automaton)
    BY Mapping
  <1>6. RB!Refine
    BY <1>4, <1>5 DEF RB!Refine, Recorded, Automaton
  <1>7. QED
    BY <1>6 DEF RB!Next

\* An extension that has taken effect is one of RedBlue.
LEMMA ExtendRefines ==
    ASSUME tree' = tree, NEW b, b = settled, NEW g, g = settled',
           NEW D, D \in RB!BlueStates, PartOf(g) = PartOf(b), CoreOf(g) = CoreOf(b) \cup {D},
           Recorded' = Append(Recorded, Automaton(b))
    PROVE  RB!Next
  <1>1. PartOf(settled)' = PartOf(g) /\ CoreOf(settled)' = CoreOf(g)
    BY SettledMaps
  <1>2. RB!Extend(D)
    BY <1>1 DEF RB!Extend
  <1>3. Recorded' = Append(Recorded, RB!Automaton)
    BY Mapping
  <1>4. RB!Refine
    BY <1>2, <1>3 DEF RB!Refine, Recorded, Automaton
  <1>5. QED
    BY <1>4 DEF RB!Next

\* Taking back the last refinement is an undo of RedBlue.
LEMMA UndoRefines ==
    ASSUME TypeOK, tree' = tree, done # <<>>, undone = 0,
           NEW g, g = settled', g = done[Len(done)].before,
           NEW s, s = done', Len(s) - undone' = Len(done) - 1,
           \A i \in 1 .. Len(done) - 1 : s[i] = done[i]
    PROVE  RB!Next
  <1>1. /\ Recorded # <<>> /\ Len(Recorded) = Len(done)
        /\ Recorded' = SubSeq(Recorded, 1, Len(Recorded) - 1)
        /\ Recorded[Len(done)] = Automaton(done[Len(done)].before)
    BY HistoryShortened
  <1>2. PartOf(settled)' = PartOf(g) /\ CoreOf(settled)' = CoreOf(g)
    BY SettledMaps
  <1>3. Recorded[Len(Recorded)] = Automaton(g)
    BY <1>1
  <1>4. /\ PartOf(settled)' = Recorded[Len(Recorded)].part
        /\ CoreOf(settled)' = Recorded[Len(Recorded)].core
    BY <1>2, <1>3 DEF Automaton
  <1>5. RB!Undo
    BY <1>1, <1>4 DEF RB!Undo, Recorded, Automaton
  <1>6. QED
    BY <1>5 DEF RB!Next

\* What leaves the settled heap and the refinements in effect alone is a stutter.
LEMMA Stutters ==
    ASSUME TypeOK, tree' = tree, NEW g, g = settled, settled' = g,
           NEW s, s = done', Len(s) - undone' = Len(done) - undone,
           \A i \in 1 .. Len(done) - undone : s[i] = done[i]
    PROVE  UNCHANGED RB!abstractVars
  <1>1. PartOf(settled)' = PartOf(settled) /\ CoreOf(settled)' = CoreOf(settled)
    BY SettledMaps
  <1>2. PICK k : k = Len(s) - undone'
    OBVIOUS
  <1>3. Recorded' = [i \in 1 .. k |-> Automaton(s[i].before)]
    BY <1>2, RecordedMaps
  <1>4. k = Len(done) - undone
    BY <1>2
  <1>5. Recorded' = Recorded
    BY <1>3, <1>4 DEF Recorded
  <1>6. QED
    BY <1>1, <1>5 DEF RB!abstractVars, Recorded, Automaton

-----------------------------------------------------------------------------
(* The refinement of RedBlue, step by step.                                *)

\* A merge has been performed.
LEMMA DoMergeDoneRefines ==
    ASSUME TypeOK, Inv, Exhaustive, OffersOK, DoMergeDone
    PROVE  RB!Next
  <1>1. /\ op = "do" /\ stack = <<>> /\ op' = "idle" /\ tree' = tree /\ heap' = heap
        /\ done' = Append(done, [ref |-> ref, before |-> before])
    BY DEF DoMergeDone
  <1>2. PICK o, b, g : o = ref /\ b = before /\ g = heap
    OBVIOUS
  <1>3. b = settled /\ g = settled' /\ undone = 0 /\ undone' = 0
    BY <1>1, <1>2 DEF settled, undone
  <1>4. PICK u \in Run : /\ RunsOn(u, b) /\ ~u.stops /\ u.left = o.red /\ u.right = o.blue
                         /\ \E c \in Reach(u) : Ends(u, c) /\ c.heap = g
    BY <1>1, <1>2, DoneRun
  <1>5. PICK c \in Reach(u) : Ends(u, c) /\ c.heap = g
    BY <1>4
  <1>6. PICK C, D : C = ClassAt(b, u.left) /\ D = ClassAt(b, u.right)
    OBVIOUS
  <1>7. tree \in Trees /\ IdleHeap(b) /\ MergeableIn(b, u.left, u.right)
    BY <1>4 DEF RunsOn
  <1>8. Permitted(o, b) /\ Known(o, b) /\ Typed(b)
    BY <1>1, <1>2, <1>3 DEF OffersOK, AskedOK, TypesOK
  <1>9. D \in RB!BlueStates /\ C \in RB!Targets(D)
    BY ONLY <1>3, <1>4, <1>6, <1>7, <1>8, TargetClass
  <1>10. PartOf(g) = RB!MergedPartition(PartOf(b), C, D)
    BY <1>4, <1>5, <1>6, RunPartition
  <1>19. CoreOf(c.heap) = {E \in PartOf(c.heap) :
           \E F \in CoreOf(b) \cup {ClassAt(b, u.left)} : F \subseteq E}
    BY <1>4, <1>5, RunCore
  <1>20. CoreOf(g) = {E \in PartOf(g) :
           \E F \in CoreOf(b) \cup {ClassAt(b, u.left)} : F \subseteq E}
    BY ONLY <1>5, <1>19
  <1>11. CoreOf(g) = {E \in PartOf(g) : \E F \in CoreOf(b) \cup {C} : F \subseteq E}
    BY ONLY <1>6, <1>20
  <1>12. Typed(g)
    BY <1>4, <1>5, <1>8, RunTyped DEF Exhaustive
  <1>13. IdleHeap(g)
    BY <1>4, <1>5, RunFacts
  <1>14. RB!Consistent(PartOf(g))
    BY <1>7, <1>12, <1>13, IdleLed, TypedConsistent DEF Typed
  <1>15. PICK e : e = [ref |-> ref, before |-> before]
    OBVIOUS
  <1>16. e.before = b /\ done' = Append(done, e)
    BY <1>1, <1>2, <1>15
  <1>17. Recorded' = Append(Recorded, Automaton(b))
    BY <1>1, <1>3, <1>16, HistoryAppended
  <1>18. QED
    BY <1>1, <1>3, <1>9, <1>10, <1>11, <1>14, <1>17, MergeRefines

\* A state more is red.
LEMMA ExtendedCore ==
    ASSUME tree \in Trees, NEW b, NEW r \in Blues(b), NEW g, Coloured(b, {r}, g)
    PROVE  PartOf(g) = PartOf(b) /\ CoreOf(g) = CoreOf(b) \cup {ClassAt(b, r)}
  <1>1. g[2] = b[2] /\ r \in nodes /\ Reps(b)[r] = None
    BY DEF Coloured, Blues, nodes
  <1>2. /\ Reps(g) = Reps(b) /\ Finds(g) = Finds(b)
        /\ \A n \in Node : Reds(g)[n] <=> Reds(b)[n] \/ n = r
    BY <1>1 DEF Coloured, Reps, Finds
  <1>3. PartOf(g) = PartOf(b)
    BY <1>1 DEF PartOf, ClassesOf
  <1>4. \A m : ClassAt(g, m) = ClassAt(b, m)
    BY <1>2 DEF ClassAt
  <1>5. CoreOf(g) = {ClassAt(b, m) : m \in {n \in nodes : Reds(g)[n] /\ Reps(b)[n] = None}}
    BY <1>2, <1>4, HeapCore
  <1>6. CoreOf(b) = {ClassAt(b, m) : m \in {n \in nodes : Reds(b)[n] /\ Reps(b)[n] = None}}
    BY HeapCore
  <1>10. nodes \subseteq Node
    BY TreeFacts DEF nodes
  <1>7. {n \in nodes : Reds(g)[n] /\ Reps(b)[n] = None} =
           {n \in nodes : Reds(b)[n] /\ Reps(b)[n] = None} \cup {r}
    BY <1>1, <1>2, <1>10
  <1>8. CoreOf(g) = CoreOf(b) \cup {ClassAt(b, r)}
    BY <1>5, <1>6, <1>7
  <1>9. QED
    BY <1>3, <1>8

\* A blue state has been coloured red.
LEMMA DoExtendRefines ==
    ASSUME TypeOK, TypeOK', Inv, NEW r \in CandidateStates, DoExtend(r)
    PROVE  RB!Next
  <1>1. /\ op = "idle" /\ op' = "idle" /\ tree' = tree
        /\ done' = Append(done,
                     [ref |-> [kind |-> "extend", red |-> r, blue |-> r, score |-> 0],
                      before |-> heap])
        /\ red' = [red EXCEPT ![r] = TRUE]
        /\ sink' = [sink EXCEPT ![r] = ExtendedSink(r)]
        /\ UNCHANGED <<child, rep, repOf, nextMerged, size, final, finals>>
    BY DEF DoExtend
  <1>2. PICK b, g : b = heap /\ g = heap'
    OBVIOUS
  <1>3. b = settled /\ g = settled' /\ undone = 0 /\ undone' = 0
    BY <1>1, <1>2 DEF settled, undone
  <1>4. IdleHeap(b) /\ tree \in Trees
    BY <1>1, <1>2, IdleInv
  <1>5. r \in Blues(b)
    BY <1>2, <1>4, CandidatesMerge
  <1>6. /\ g \in Snapshot
        /\ g[1] = b[1] /\ g[2] = b[2] /\ g[3] = b[3] /\ g[4] = b[4] /\ g[5] = b[5]
        /\ g[6] = b[6] /\ g[7] = b[7]
        /\ Reds(g) = red' /\ Sinks(g) = sink' /\ Reds(b) = red /\ Sinks(b) = sink
        /\ red \in [Node -> BOOLEAN] /\ sink \in [Node -> Int]
    BY <1>1, <1>2, HeapColoured DEF TypeOK
  <1>7. r \in Node
    BY <1>4, <1>5, TreeFacts DEF Blues
  <1>8. /\ \A n \in Node : Reds(g)[n] <=> Reds(b)[n] \/ n = r
        /\ \A n \in Node \ {r} : Sinks(g)[n] = Sinks(b)[n]
    BY <1>1, <1>6, <1>7
  <1>9. Coloured(b, {r}, g)
    BY <1>5, <1>6, <1>8 DEF Coloured
  <1>10. PartOf(g) = PartOf(b) /\ CoreOf(g) = CoreOf(b) \cup {ClassAt(b, r)}
    BY <1>4, <1>5, <1>9, ExtendedCore
  <1>11. PICK D : D = ClassAt(b, r)
    OBVIOUS
  <1>12. D \in RB!BlueStates
    BY <1>3, <1>4, <1>5, <1>11, BlueClass
  <1>13. PICK e : e = [ref |-> [kind |-> "extend", red |-> r, blue |-> r, score |-> 0],
                       before |-> heap]
    OBVIOUS
  <1>14. e.before = b /\ done' = Append(done, e)
    BY <1>1, <1>2, <1>13
  <1>15. Recorded' = Append(Recorded, Automaton(b))
    BY <1>1, <1>3, <1>14, HistoryAppended
  <1>16. QED
    BY <1>1, <1>3, <1>10, <1>11, <1>12, <1>15, ExtendRefines

\* An extension is taken back, or the undo of a merge begins.
LEMMA UndosRefine ==
    ASSUME TypeOK, TypeOK', Inv, UndoExtend \/ UndoMerge
    PROVE  RB!Next
  <1>1. CASE UndoExtend
    <2>1. /\ op = "idle" /\ op' = "idle" /\ tree' = tree /\ done # <<>>
          /\ done' = SubSeq(done, 1, Len(done) - 1)
      BY <1>1 DEF UndoExtend
    <2>2. heap' = done[Len(done)].before
      BY <1>1, UndoExtendInv
    <2>3. PICK g, s : g = settled' /\ s = done'
      OBVIOUS
    <2>4. g = done[Len(done)].before /\ undone = 0 /\ undone' = 0
      BY <2>1, <2>2, <2>3 DEF settled, undone
    <2>8. PICK n \in Nat : n = Len(done)
      BY DEF TypeOK
    <2>9. n # 0
      BY <2>1, <2>8 DEF TypeOK
    <2>10. Len(s) = n - 1 /\ \A i \in 1 .. n - 1 : s[i] = done[i]
      BY <2>1, <2>3, <2>8, <2>9 DEF TypeOK
    <2>5. \A i \in 1 .. Len(done) - 1 : s[i] = done[i]
      BY <2>8, <2>10
    <2>6. Len(s) - undone' = Len(done) - 1
      BY <2>4, <2>8, <2>10
    <2>7. QED
      BY <2>1, <2>3, <2>4, <2>5, <2>6, UndoRefines
  <1>2. CASE UndoMerge
    <2>1. /\ op = "idle" /\ op' = "undo" /\ tree' = tree /\ done # <<>> /\ done' = done
          /\ before' = done[Len(done)].before
      BY <1>2 DEF UndoMerge
    <2>2. PICK g, s : g = settled' /\ s = done'
      OBVIOUS
    <2>3. g = done[Len(done)].before /\ undone = 0 /\ undone' = 1 /\ s = done
      BY <2>1, <2>2 DEF settled, undone
    <2>4. Len(s) - undone' = Len(done) - 1
      BY <2>3
    <2>5. QED
      BY <2>1, <2>2, <2>3, <2>4, UndoRefines
  <1>3. QED
    BY <1>1, <1>2

\* An undo of a merge ends: it took effect when it began.
LEMMA UndoMergeDoneStutters ==
    ASSUME TypeOK, Inv, UndoMergeDone
    PROVE  UNCHANGED RB!abstractVars
  <1>1. /\ op = "undo" /\ op' = "idle" /\ tree' = tree
        /\ done' = SubSeq(done, 1, Len(done) - 1)
    BY DEF UndoMergeDone
  <1>2. done # <<>> /\ before = done[Len(done)].before
    BY <1>1 DEF Inv, ControlOK
  <1>3. heap' = done[Len(done)].before
    BY UndoMergeDoneInv
  <1>4. PICK g, s : g = settled /\ s = done'
    OBVIOUS
  <1>5. settled' = g /\ undone = 1 /\ undone' = 0
    BY <1>1, <1>2, <1>3, <1>4 DEF settled, undone
  <1>6. PICK n \in Nat : n = Len(done)
    BY DEF TypeOK
  <1>7. n # 0
    BY <1>2, <1>6 DEF TypeOK
  <1>8. Len(s) = n - 1 /\ \A i \in 1 .. n - 1 : s[i] = done[i]
    BY <1>1, <1>4, <1>6, <1>7 DEF TypeOK
  <1>9. /\ Len(s) - undone' = Len(done) - undone
        /\ \A i \in 1 .. Len(done) - undone : s[i] = done[i]
    BY <1>5, <1>6, <1>8
  <1>10. QED
    BY <1>1, <1>4, <1>5, <1>9, Stutters

\* The calls, the tests and the start of a merge change nothing RedBlue knows of.
LEMMA UnmappedSteps ==
    ASSUME TypeOK, Inv,
           \/ MergeStep \/ UndoStep \/ TestMergeDone \/ TestMergeUndone \/ DoMerge
           \/ UNCHANGED vars \/ \E l, r : TestMerge(l, r)
    PROVE  mapped' = mapped
  <1>1. CASE MergeStep \/ UndoStep
    <2>1. op # "idle"
      BY <1>1 DEF Inv, ControlOK, MergeStep, UndoStep, At, MergeStop, MergeNodes, MergeAdopt,
                  MergeChildren, MergeFind, MergeRecurse, MergeReturn, UndoSkip, UndoEnter,
                  UndoAdopt, UndoChildren, UndoFind, UndoRecurse, UndoNodes
    <2>2. op' = op /\ before' = before /\ done' = done /\ tree' = tree
      BY <1>1 DEF MergeStep, UndoStep, MergeStop, MergeNodes, MergeAdopt,
                  MergeChildren, MergeFind, MergeRecurse, MergeReturn, UndoSkip, UndoEnter,
                  UndoAdopt, UndoChildren, UndoFind, UndoRecurse, UndoNodes
    <2>3. QED
      BY <2>1, <2>2 DEF mapped, settled, undone
  <1>2. CASE TestMergeDone
    <2>1. /\ op = "test" /\ stack = <<>> /\ tree' = tree /\ done' = done /\ heap' = heap
          /\ \/ op' = "untest" /\ before' = before
             \/ op' = "idle" /\ ~MERGE_WHEN_TESTING
      BY <1>2, ParametersAssumption DEF TestMergeDone
    <2>2. CASE op' = "untest" /\ before' = before
      BY <2>1, <2>2 DEF mapped, settled, undone
    <2>3. CASE op' = "idle" /\ ~MERGE_WHEN_TESTING
      <3>1. ~Performing
        BY <2>1, <2>3 DEF Performing
      <3>2. PICK u \in Run : Operates(u)
        BY <2>1 DEF Inv, ControlOK
      <3>3. u.start = heap /\ RunsOn(u, before) /\ u.stops
        BY <2>1, <3>1, <3>2 DEF Operates, LooksAt
      <3>4. heap = before
        BY <3>3, TestStarts
      <3>5. QED
        BY <2>1, <2>3, <3>4 DEF mapped, settled, undone
    <2>4. QED
      BY <2>1, <2>2, <2>3
  <1>3. CASE TestMergeUndone
    <2>1. op = "untest" /\ op' = "idle" /\ tree' = tree /\ done' = done
      BY <1>3 DEF TestMergeUndone
    <2>2. heap' = before
      BY <1>3, TestMergeUndoneInv
    <2>3. QED
      BY <2>1, <2>2 DEF mapped, settled, undone
  <1>4. CASE DoMerge
    <2>1. op = "idle" /\ op' = "do" /\ tree' = tree /\ done' = done /\ before' = heap
      BY <1>4 DEF DoMerge
    <2>2. QED
      BY <2>1 DEF mapped, settled, undone
  <1>5. CASE \E l, r : TestMerge(l, r)
    <2>1. op = "idle" /\ op' = "test" /\ tree' = tree /\ done' = done /\ before' = heap
      BY <1>5 DEF TestMerge
    <2>2. QED
      BY <2>1 DEF mapped, settled, undone
  <1>6. CASE UNCHANGED vars
    BY <1>6 DEF vars, control, heap, mapped, settled, undone
  <1>7. QED
    BY <1>1, <1>2, <1>3, <1>4, <1>5, <1>6

\* Every step of the engine is one of RedBlue, or a stutter.
LEMMA StepRefines ==
    ASSUME TypeOK, Inv, Exhaustive, OffersOK, [Next]_vars
    PROVE  mapped' # mapped => [RB!Next]_(RB!abstractVars)
  <1>1. TypeOK'
    BY NextTypeOK
  <1>2. CASE UNCHANGED vars
    BY <1>2, UnmappedSteps
  <1>3. CASE MergeStep \/ UndoStep
    BY <1>3, UnmappedSteps
  <1>4. CASE TestMergeDone \/ TestMergeUndone
    BY <1>4, UnmappedSteps
  <1>5. CASE DoMergeDone
    BY <1>5, DoMergeDoneRefines
  <1>6. CASE UndoMergeDone
    BY <1>6, UndoMergeDoneStutters
  <1>7. CASE Client
    <2>1. CASE \E r \in Node \cap CandidateStates : DoExtend(r)
      BY <1>1, <2>1, DoExtendRefines
    <2>2. CASE \E r \in Node \cap CandidateStates :
                 \E l \in Node \cap MergeTargets(r) : TestMerge(l, r)
      BY <2>2, UnmappedSteps
    <2>3. CASE DoMerge
      BY <2>3, UnmappedSteps
    <2>4. CASE UndoMerge \/ UndoExtend
      BY <1>1, <2>4, UndosRefine
    <2>5. QED
      BY <1>7, <2>1, <2>2, <2>3, <2>4 DEF Client
  <1>8. QED
    BY <1>2, <1>3, <1>4, <1>5, <1>6, <1>7 DEF Next, Engine, Finish

\* At the start every node of the prefix tree is a state and the root is red.
LEMMA InitRefines ==
    ASSUME Init
    PROVE  RB!Init
  <1>1. /\ op = "idle" /\ done = <<>> /\ tree \in Trees
        /\ rep = [n \in Node |-> None] /\ red = [n \in Node |-> n = Root]
    BY DEF Init, AptaInit
  <1>2. PICK h : h = heap
    OBVIOUS
  <1>3. h = settled /\ undone = 0
    BY <1>1, <1>2 DEF settled, undone
  <1>4. IdleHeap(h)
    BY <1>2, InitIdle
  <1>5. Reps(h) = rep /\ Reds(h) = red
    BY <1>2 DEF Reps, Reds, heap
  <1>6. nodes \subseteq Node /\ Root \in nodes
    BY <1>1, TreeFacts DEF nodes
  <1>7. \A n \in nodes : Reps(h)[n] = None /\ (Reds(h)[n] <=> n = Root)
    BY <1>1, <1>5, <1>6
  <1>8. Led(h)
    BY <1>1, <1>4, IdleLed
  <1>9. \A m \in nodes : ClassAt(h, m) = {m}
    BY <1>7, <1>8 DEF Led, ClassAt
  <1>10. PartOf(h) = {ClassAt(h, m) : m \in {n \in nodes : Reps(h)[n] = None}}
    BY <1>8, HeapPartition
  <1>11. PartOf(h) = {{n} : n \in nodes}
    BY <1>7, <1>9, <1>10
  <1>12. CoreOf(h) = {ClassAt(h, m) : m \in {n \in nodes : Reds(h)[n] /\ Reps(h)[n] = None}}
    BY HeapCore
  <1>13. {n \in nodes : Reds(h)[n] /\ Reps(h)[n] = None} = {Root}
    BY <1>6, <1>7
  <1>14. CoreOf(h) = {{Root}}
    BY <1>6, <1>9, <1>12, <1>13
  <1>15. Recorded = <<>>
    BY <1>1, <1>3 DEF Recorded
  <1>16. /\ tree \in Trees /\ PartOf(settled) = {{n} : n \in tree.nodes}
         /\ CoreOf(settled) = {{Root}} /\ Recorded = <<>>
    BY <1>1, <1>3, <1>11, <1>14, <1>15 DEF nodes
  <1>17. QED
    BY <1>16 DEF RB!Init, Recorded, Automaton

\* The engine, which merges by changing pointers one guard at a time and undoes
\* by walking the changed guards backwards, implements red-blue merging on
\* partitions: state_merger::merge joins the least deterministic partition and
\* never traces of two types, undo_merge goes back one refinement, and a test
\* leaves no trace.
THEOREM EngineImplementsRedBlue == Exhaustive => (Spec => ImplementsRedBlue)
  <1> SUFFICES ASSUME Exhaustive PROVE Spec => ImplementsRedBlue
    OBVIOUS
  <1>1. Init => OffersOK /\ RB!Init
    BY InitTyped, InitRefines
  <1>2. TypeOK /\ Inv /\ OffersOK /\ [Next]_vars => OffersOK'
    BY NextOffers
  <1>3. TypeOK /\ Inv /\ OffersOK /\ [Next]_vars
           => [mapped' # mapped => [RB!Next]_(RB!abstractVars)]_vars
    BY StepRefines
  <1>4. QED
    BY <1>1, <1>2, <1>3, EngineCorrect, PTL DEF Spec, ImplementsRedBlue

-----------------------------------------------------------------------------
(* What a test answers.                                                    *)

\* A failed test only returns.
LEMMA BrokenReturns ==
    ASSUME TypeOK, op = "test", Broken, MergeStep
    PROVE  MergeReturn
  <1>1. stack \in Seq(Frame) /\ Testing /\ ~result
    BY DEF TypeOK, Testing, Broken
  <1>2. stack # <<>> => top.at = "loop"
    BY <1>1 DEF Broken, top
  <1>3. QED
    BY <1>1, <1>2 DEF MergeStep, MergeStop, MergeNodes, MergeAdopt, MergeChildren,
       MergeFind, MergeRecurse, MergeReturn, At

\* The run a test is in.
LEMMA TestRuns ==
    ASSUME TypeOK, Inv, op = "test", MERGE_WHEN_TESTING
    PROVE  \E u \in Run :
              /\ BlockIsTree(u) /\ RunsOn(u, before) /\ u.stops /\ u.start = before
              /\ u.left = ref.red /\ u.right = ref.blue
              /\ \E c \in Reach(u) : c.heap = heap /\ Merging(u, c, stack)
  <1>1. PICK u \in Run : Operates(u) /\ BlockIsTree(u) /\ RunsOn(u, before)
    BY OperatesFacts
  <1>2. u.left = ref.red /\ u.right = ref.blue /\ u.stops /\ Performs(u)
    BY <1>1 DEF Operates, Performing
  <1>3. PICK b : b = before
    OBVIOUS
  <1>4. u.start = b
    BY <1>1, <1>2, <1>3, TestStarts
  <1>5. QED
    BY <1>1, <1>2, <1>3, <1>4 DEF Performs

\* The two nodes merge is called for are ones that every congruence joins that
\* joins the two states of the test.
LEMMA PairForced ==
    ASSUME TypeOK, Inv, op = "test", MERGE_WHEN_TESTING, At("merge", "entry"),
           NEW e, Congruence(e), Coarser(e, Finds(before)), e[ref.red] = e[ref.blue]
    PROVE  /\ top.left \in nodes /\ top.right \in nodes /\ top.left # top.right
           /\ rep[top.left] = None /\ rep[top.right] = None
           /\ \A m \in nodes : e[find[m]] = e[m]
           /\ e[top.left] = e[top.right]
  <1>1. PICK u \in Run : /\ BlockIsTree(u) /\ RunsOn(u, before) /\ u.start = before
                         /\ u.left = ref.red /\ u.right = ref.blue
                         /\ \E c \in Reach(u) : c.heap = heap /\ Merging(u, c, stack)
    BY TestRuns
  <1>2. PICK c \in Reach(u) : c.heap = heap /\ Merging(u, c, stack)
    BY <1>1
  <1>3. PICK b : b = before
    OBVIOUS
  <1>4. RunsOn(u, b) /\ tree \in Trees /\ IdleHeap(u.start) /\ c \in Configuration
    BY <1>1, <1>3 DEF RunsOn, Reach
  <1>5. Sound(u, c) /\ Gathered(u, c)
    BY <1>4, ReachGathered
  <1>6. Allowed(u, e)
    BY <1>1 DEF Allowed
  <1>7. Agreeing(u, c, e)
    BY <1>1, <1>4, <1>6, AgreesRun
  <1>8. /\ top.left \in Node /\ top.right \in Node /\ top.left # top.right
        /\ rep[top.left] = None /\ rep[top.right] = None
    BY <1>1, <1>2, PairUnmerged
  <1>9. nodes \subseteq Node /\ nodes = tree.nodes
    BY <1>4, TreeFacts DEF nodes
  <1>10. \A m \in nodes : e[find[m]] = e[m]
    <2>1. Finds(c.heap) = find
      BY <1>2, HeapParts
    <2>2. \A n \in Node : Finds(c.heap)[n] = Found(u, c.heap, n)
      BY <1>1, <1>5, RunFinds
    <2>3. QED
      BY <1>7, <1>9, <2>1, <2>2 DEF Agreeing
  <1>11. CASE MergeCalled(u, c, stack)
    <2>1. top.left = u.left /\ top.right = u.right
      BY <1>11 DEF MergeCalled, Called, top
    <2>2. u.left \in nodes /\ u.right \in nodes
      BY <1>4, <1>9 DEF RunsOn, MergeableIn
    <2>3. QED
      BY <1>1, <1>8, <1>10, <2>1, <2>2
  <1>12. ASSUME NEW a \in Symbol, MergeEnters(u, c, stack, a)
         PROVE  top.left \in nodes /\ top.right \in nodes /\ e[top.left] = e[top.right]
    <2>1. stack \in Seq(Frame) /\ stack # <<>> /\ stack[Len(stack)] = top
      BY TopPlace DEF TypeOK
    <2>2. c.depth \in Nat
      BY <1>4, ConfigurationTyped
    <2>3. /\ Due(u, c, a) /\ LeftChild(c, a) # None
          /\ top.left = Found(u, c.heap, LeftChild(c, a)) /\ top.right = RightChild(c, a)
      BY <1>12, <2>1, <2>2 DEF MergeEnters, Stacked, Takes, Calls
    <2>4. e[Found(u, c.heap, LeftChild(c, a))] = e[RightChild(c, a)]
      BY <1>1, <1>4, <1>5, <1>7, <2>3, ChildrenAgree DEF Allowed
    <2>5. LeftChild(c, a) \in tree.nodes
      BY <1>1, <1>4, <1>5, <2>3, LeftInTree
    <2>6. Found(u, c.heap, LeftChild(c, a)) \in tree.nodes
      BY <1>4, <1>5, <2>5, FoundInTree
    <2>7. RightChild(c, a) \in Block(u)
      BY <1>1, <1>2, <2>3, DueFacts DEF Sound, FreshOK
    <2>8. RightChild(c, a) \in tree.nodes
      BY <1>1, <2>7, BlockParents
    <2>9. QED
      BY <1>9, <2>3, <2>4, <2>6, <2>8
  <1>13. MergeCalled(u, c, stack) \/ \E a \in Symbol : MergeEnters(u, c, stack, a)
    <2>1. stack \in Seq(Frame) /\ stack # <<>> /\ top.at = "entry"
      BY TopPlace DEF TypeOK, At
    <2>2. QED
      BY <1>2, <1>4, <2>1, MergingPlace
  <1>14. QED
    BY <1>8, <1>10, <1>11, <1>12, <1>13

\* So no congruence without mixed types joins the two states when merge
\* comes to nodes of different types.
LEMMA ConflictRefutes ==
    ASSUME TypeOK, Inv, op = "test", MERGE_WHEN_TESTING, MERGE_DATA, At("merge", "entry"),
           TypesKnown(before), TypesConflict(top.left, top.right)
    PROVE  ~Known(ref, before)
  <1> SUFFICES ASSUME NEW e, Congruence(e), Coarser(e, Finds(before)),
                      e[ref.red] = e[ref.blue], OneTyped(e)
               PROVE  FALSE
    BY DEF Known
  <1>1. /\ top.left \in nodes /\ top.right \in nodes
        /\ rep[top.left] = None /\ rep[top.right] = None
        /\ \A m \in nodes : e[find[m]] = e[m]
        /\ e[top.left] = e[top.right]
    BY PairForced
  <1>2. PICK u \in Run : /\ BlockIsTree(u) /\ u.start = before
                         /\ \E c \in Reach(u) : c.heap = heap
    BY TestRuns
  <1>3. PICK c \in Reach(u) : c.heap = heap
    BY <1>2
  <1>4. TypesKnown(c.heap)
    <2>1. tree \in Trees
      BY DEF TypeOK, AptaTypeOK
    <2>2. QED
      BY <1>2, <2>1, TypesRun
  <1>5. \A n \in nodes, x \in Type : rep[n] = None /\ finals[n][x] # 0 =>
           \E m \in nodes : find[m] = n /\ tree.finals[m][x] # 0
    <2>1. PICK h : h = heap
      OBVIOUS
    <2>2. TypesKnown(h) /\ Reps(h) = rep /\ Finds(h) = find /\ h[7] = finals
      BY <1>3, <1>4, <2>1, HeapParts DEF heap
    <2>3. QED
      BY <2>2 DEF TypesKnown
  <1>6. PICK x, y \in Type : x # y /\ finals[top.left][x] # 0 /\ finals[top.right][y] # 0
    BY DEF TypesConflict
  <1>7. PICK m \in nodes : find[m] = top.left /\ tree.finals[m][x] # 0
    BY <1>1, <1>5, <1>6
  <1>8. PICK n \in nodes : find[n] = top.right /\ tree.finals[n][y] # 0
    BY <1>1, <1>5, <1>6
  <1>9. e[m] = e[n]
    BY <1>1, <1>7, <1>8
  <1>10. QED
    BY <1>6, <1>7, <1>8, <1>9 DEF OneTyped

\* The states of a heap.
States(h) == {n \in nodes : Reps(h)[n] = None}

\* As long as nothing else makes a test fail.
Exact == Exhaustive /\ ~RED_FIXED /\ ~ALL_FIXED

\* A test that failed was right to, and num_merges counts the states that have
\* disappeared.
TestOK ==
    op = "test" =>
       /\ Broken => ~Known(ref, before)
       /\ ~Broken => ~eval.inconsistent
       /\ eval.merges + Cardinality(States(heap)) = Cardinality(States(before))

\* One state less.
LEMMA StatesLess ==
    ASSUME tree \in Trees, NEW h, NEW y \in nodes, Reps(h)[y] = None, NEW g,
           Reps(g)[y] # None, \A n \in nodes \ {y} : Reps(g)[n] = Reps(h)[n]
    PROVE  /\ Cardinality(States(h)) \in Nat /\ Cardinality(States(g)) \in Nat
           /\ Cardinality(States(g)) + 1 = Cardinality(States(h))
  <1>1. IsFiniteSet(nodes)
    BY TreeFacts DEF nodes
  <1>2. States(g) = States(h) \ {y} /\ y \in States(h) /\ States(h) \in SUBSET nodes
    BY DEF States
  <1>3. IsFiniteSet(States(h))
    BY <1>1, <1>2, FS_Subset
  <1>4. IsFiniteSet(States(g)) /\ Cardinality(States(g)) = Cardinality(States(h)) - 1
    BY <1>2, <1>3, FS_RemoveElement
  <1>5. Cardinality(States(h)) \in Nat /\ Cardinality(States(g)) \in Nat
    BY <1>3, <1>4, FS_CardinalityType
  <1>6. QED
    BY <1>4, <1>5

\* As many as before.
LEMMA StatesSame ==
    ASSUME tree' = tree, rep' = rep
    PROVE  States(heap)' = States(heap)
  BY HeapParts DEF States, nodes, heap, Reps

\* The history of a test does not change.
LEMMA TestKept ==
    ASSUME tree' = tree, before' = before, ref' = ref
    PROVE  (Known(ref, before)' <=> Known(ref, before)) /\ States(before)' = States(before)
  <1>1. PICK o, h : o = ref /\ h = before
    OBVIOUS
  <1>2. Known(o, h)' <=> Known(o, h)
    BY LawsFixed
  <1>3. QED
    BY <1>1, <1>2 DEF States, nodes
-----------------------------------------------------------------------------
(* A test keeps count, and fails where it has to.                          *)

\* The steps of a test that has not failed, apart from those that merge nodes
\* or stop, change neither representatives nor verdict nor count.
LEMMA QuietStep ==
    ASSUME TypeOK, Exhaustive, op = "test", NEW v, Folding(v),
           MergeAdopt \/ MergeChildren \/ MergeFind \/ MergeRecurse \/ MergeReturn
    PROVE  rep' = rep /\ eval' = eval /\ result' /\ tree' = tree
  <1>1. PICK c \in Reach(v) : result \/ MergeCalled(v, c, stack)
    BY DEF Folding
  <1>2. /\ stack # <<>> /\ top.at # "entry"
        /\ rep' = rep /\ eval' = eval /\ result' = result /\ tree' = tree
    BY DEF MergeAdopt, MergeChildren, MergeFind, MergeRecurse, MergeReturn, At, heap
  <1>3. ~MergeCalled(v, c, stack)
    BY <1>2 DEF MergeCalled, Called, top
  <1>4. QED
    BY <1>1, <1>2, <1>3

\* Merging two nodes in a test makes two states one.
LEMMA NodesCounted ==
    ASSUME TypeOK, Inv, Exhaustive, op = "test", MergeNodes
    PROVE  /\ Cardinality(States(heap)) \in Nat /\ Cardinality(States(heap)') \in Nat
           /\ Cardinality(States(heap)') + 1 = Cardinality(States(heap))
  <1>1. /\ At("merge", "entry") /\ Performing /\ tree' = tree /\ tree \in Trees
        /\ MERGE_WHEN_TESTING /\ nodes \subseteq Node
    BY TreeFacts DEF MergeNodes, Performing, Exhaustive, TypeOK, AptaTypeOK, nodes
  <1>2. PICK e : e = [n \in Node |-> None]
    OBVIOUS
  <1>3. ref.red \in nodes /\ ref.blue \in nodes
    <2>1. PICK u \in Run : RunsOn(u, before) /\ u.left = ref.red /\ u.right = ref.blue
      BY <1>1, TestRuns
    <2>2. QED
      BY <2>1 DEF RunsOn, MergeableIn, nodes
  <1>4. Congruence(e) /\ Coarser(e, Finds(before)) /\ e[ref.red] = e[ref.blue]
    <2>1. \A n \in nodes : e[n] = None
      BY <1>1, <1>2
    <2>2. Coarser(e, Finds(before)) /\ e[ref.red] = e[ref.blue]
      BY <1>3, <2>1 DEF Coarser
    <2>3. Congruence(e)
      BY <1>1, <2>1, TreeFacts DEF Congruence, nodes
    <2>4. QED
      BY <2>2, <2>3
  <1>5. /\ top.left \in nodes /\ top.right \in nodes /\ top.left # top.right
        /\ rep[top.left] = None /\ rep[top.right] = None
    BY <1>1, <1>4, PairForced
  <1>6. rep' = [rep EXCEPT ![top.right] = top.left]
    BY <1>1 DEF MergeNodes, MergeWith
  <1>7. PICK h, g, l, r : h = heap /\ g = heap' /\ l = top.left /\ r = top.right
    OBVIOUS
  <1>8. Reps(h) = rep /\ Reps(g) = rep' /\ rep \in [Node -> Node \cup {None}]
    BY <1>7 DEF Reps, heap, TypeOK, AptaTypeOK
  <1>9. /\ r \in nodes /\ Reps(h)[r] = None /\ Reps(g)[r] # None
        /\ \A n \in nodes \ {r} : Reps(g)[n] = Reps(h)[n]
    BY <1>1, <1>5, <1>6, <1>7, <1>8, AptaAssumption
  <1>10. /\ Cardinality(States(h)) \in Nat /\ Cardinality(States(g)) \in Nat
         /\ Cardinality(States(g)) + 1 = Cardinality(States(h))
    BY <1>1, <1>9, StatesLess
  <1>11. States(heap)' = States(g)
    BY <1>1, <1>7 DEF States, nodes
  <1>12. QED
    BY <1>7, <1>10, <1>11

\* The steps of a test.
LEMMA CallTests ==
    ASSUME TypeOK, Inv, Exact, OffersOK, TestOK, op = "test", MergeStep
    PROVE  TestOK'
  <1>1. /\ UNCHANGED <<tree, op, ref, before>> /\ Testing /\ MERGE_WHEN_TESTING
        /\ MERGE_DATA /\ Exhaustive /\ eval \in [inconsistent : BOOLEAN, merges : Nat]
    BY DEF MergeStep, MergeStop, MergeNodes, MergeAdopt, MergeChildren, MergeFind,
       MergeRecurse, MergeReturn, Testing, Exact, Exhaustive, TypeOK
  <1>2. (Known(ref, before)' <=> Known(ref, before)) /\ States(before)' = States(before)
    BY <1>1, TestKept
  <1>3. PICK v \in Run : Tests(v) /\ (Folding(v) \/ Broken)
    BY DEF OffersOK, AskedOK
  <1>4. /\ Broken => ~Known(ref, before)
        /\ ~Broken => ~eval.inconsistent
        /\ eval.merges + Cardinality(States(heap)) = Cardinality(States(before))
    BY DEF TestOK
  <1>5. CASE Broken
    <2>1. MergeReturn /\ Broken'
      BY <1>5, BrokenReturns, BrokenStep
    <2>2. heap' = heap /\ eval' = eval
      BY <2>1 DEF MergeReturn
    <2>3. States(heap)' = States(heap)
      BY <1>1, <2>2, StatesSame DEF heap
    <2>4. QED
      BY <1>2, <1>4, <1>5, <2>1, <2>2, <2>3 DEF TestOK
  <1>6. CASE ~Broken /\ MergeStop
    <2>1. At("merge", "entry") /\ Pop /\ heap' = heap
      BY <1>6 DEF MergeStop
    <2>2. ~DeepEnough(top) /\ ~AddsFixedTransition(top)
      BY <1>1 DEF DeepEnough, AddsFixedTransition, Exact, Exhaustive
    <2>3. Inconsistent(top) /\ ~result' /\ eval' = [eval EXCEPT !.inconsistent = TRUE]
      BY <1>6, <2>2 DEF MergeStop
    <2>4. TypesConflict(top.left, top.right)
      BY <1>4, <1>6, <2>3 DEF Inconsistent
    <2>5. TypesKnown(before)
      BY <1>1 DEF OffersOK, TypesOK, Typed, settled
    <2>6. ~Known(ref, before)
      BY <1>1, <2>1, <2>4, <2>5, ConflictRefutes
    <2>7. Broken'
      <3>1. PICK c \in Reach(v) : Merging(v, c, stack)
        BY <1>3, <1>6 DEF Folding
      <3>2. c \in Configuration
        BY DEF Reach
      <3>3. QED
        BY <2>1, <2>3, <3>1, <3>2, StopBreaks
    <2>8. States(heap)' = States(heap) /\ eval'.merges = eval.merges
      BY <1>1, <2>1, <2>3, StatesSame DEF heap
    <2>9. QED
      BY <1>2, <1>4, <2>6, <2>7, <2>8 DEF TestOK
  <1>7. CASE ~Broken /\ MergeNodes
    <2>1. eval' = [eval EXCEPT !.merges = @ + 1] /\ result' = TRUE
      BY <1>1, <1>7 DEF MergeNodes
    <2>2. eval'.merges = eval.merges + 1 /\ eval'.inconsistent = eval.inconsistent
      BY <1>1, <2>1
    <2>3. ~Broken'
      BY <2>1 DEF Broken
    <2>4. /\ Cardinality(States(heap)) \in Nat /\ Cardinality(States(heap)') \in Nat
          /\ Cardinality(States(heap)') + 1 = Cardinality(States(heap))
      BY <1>1, <1>7, NodesCounted
    <2>5. eval'.merges + Cardinality(States(heap)') = Cardinality(States(before)')
      <3>1. PICK m, i, j, k : /\ m = eval.merges /\ i = Cardinality(States(heap))
                              /\ j = Cardinality(States(heap)')
                              /\ k = Cardinality(States(before))
        OBVIOUS
      <3>2. m \in Nat /\ i \in Nat /\ j \in Nat /\ j + 1 = i /\ m + i = k
        BY <1>1, <1>4, <2>4, <3>1
      <3>3. (m + 1) + j = k
        BY ONLY <3>2
      <3>4. QED
        BY <1>2, <2>2, <3>1, <3>3
    <2>6. QED
      BY <1>4, <1>7, <2>2, <2>3, <2>5 DEF TestOK
  <1>8. CASE /\ ~Broken
             /\ MergeAdopt \/ MergeChildren \/ MergeFind \/ MergeRecurse \/ MergeReturn
    <2>1. rep' = rep /\ eval' = eval /\ result'
      BY <1>1, <1>3, <1>8, QuietStep
    <2>2. States(heap)' = States(heap) /\ ~Broken'
      BY <1>1, <2>1, StatesSame DEF Broken
    <2>3. QED
      BY <1>2, <1>4, <1>8, <2>1, <2>2 DEF TestOK
  <1>9. QED
    BY <1>5, <1>6, <1>7, <1>8 DEF MergeStep

\* The start of one.
LEMMA TestMergeTests ==
    ASSUME TypeOK, NEW l, NEW r, TestMerge(l, r)
    PROVE  TestOK'
  <1>1. /\ stack' = <<Call("merge", l, r, 0)>> /\ before' = heap' /\ tree' = tree
        /\ eval' = [inconsistent |-> FALSE, merges |-> 0]
    BY DEF TestMerge
  <1>2. stack'[1].at = "entry" /\ Len(stack') = 1
    BY <1>1 DEF Call
  <1>3. ~Broken'
    BY <1>2 DEF Broken
  <1>4. Cardinality(States(heap)') \in Nat /\ States(before)' = States(heap)'
    <2>1. IsFiniteSet(nodes)
      BY TreeFacts DEF nodes, TypeOK, AptaTypeOK
    <2>2. IsFiniteSet(States(heap)')
      BY <1>1, <2>1, FS_Subset DEF States, nodes
    <2>3. QED
      BY <1>1, <2>2, FS_CardinalityType
  <1>5. QED
    BY <1>1, <1>3, <1>4 DEF TestOK

\* Every step.
LEMMA NextTests ==
    ASSUME TypeOK, Inv, Exact, OffersOK, TestOK, [Next]_vars
    PROVE  TestOK'
  <1>1. CASE UNCHANGED vars
    BY <1>1, TestKept, StatesSame DEF vars, control, TestOK, Broken, heap
  <1>2. CASE MergeStep \/ UndoStep
    <2>1. op' = op
      BY <1>2 DEF MergeStep, MergeStop, MergeNodes, MergeAdopt, MergeChildren, MergeFind,
         MergeRecurse, MergeReturn, UndoStep, UndoSkip, UndoEnter, UndoAdopt,
         UndoChildren, UndoFind, UndoRecurse, UndoNodes
    <2>2. ASSUME op = "test"
          PROVE  MergeStep
      <3>1. PICK u \in Run : Operates(u)
        BY <2>2 DEF Inv, ControlOK
      <3>2. Performs(u)
        BY <2>2, <3>1 DEF Operates, Performing, Exact, Exhaustive
      <3>3. QED
        BY <1>2, <3>2, MergingOnly DEF Performs
    <2>3. QED
      BY <2>1, <2>2, CallTests DEF TestOK
  <1>3. CASE Finish
    <2>1. op' # "test"
      BY <1>3 DEF Finish, TestMergeDone, TestMergeUndone, DoMergeDone, UndoMergeDone
    <2>2. QED
      BY <2>1 DEF TestOK
  <1>4. CASE Client
    <2>1. CASE \E l, r : TestMerge(l, r)
      BY <2>1, TestMergeTests
    <2>2. CASE DoMerge \/ UndoMerge \/ UndoExtend \/ \E r : DoExtend(r)
      <3>1. op' # "test"
        BY <1>4, <2>2 DEF Client, DoMerge, UndoMerge, UndoExtend, DoExtend
      <3>2. QED
        BY <3>1 DEF TestOK
    <2>3. QED
      BY <1>4, <2>1, <2>2 DEF Client
  <1>5. QED
    BY <1>1, <1>2, <1>3, <1>4 DEF Next, Engine
-----------------------------------------------------------------------------
(* Tests are exact.                                                        *)

\* The class of a state is the one the state is in.
LEMMA ClassChosen ==
    ASSUME NEW h, Led(h), NEW x \in nodes, Reps(h)[x] = None
    PROVE  /\ ClassAt(h, x) \in PartOf(h)
           /\ (CHOOSE X \in PartOf(h) : x \in X) = ClassAt(h, x)
  <1>1. Finds(h)[x] = x
    BY DEF Led
  <1>2. /\ Partition(PartOf(h)) /\ x \in ClassAt(h, x)
        /\ PartOf(h) = {ClassAt(h, m) : m \in {n \in nodes : Reps(h)[n] = None}}
    BY <1>1, HeapPartition
  <1>3. ClassAt(h, x) \in PartOf(h)
    BY <1>2
  <1>4. \A X \in PartOf(h) : x \in X => X = ClassAt(h, x)
    BY <1>2, <1>3 DEF Partition
  <1>5. QED
    BY <1>2, <1>3, <1>4

\* There are as many classes as states.
LEMMA ClassesCounted ==
    ASSUME tree \in Trees, NEW h, Led(h)
    PROVE  Cardinality(PartOf(h)) = Cardinality(States(h))
  <1> DEFINE S == States(h)
             P == PartOf(h)
             f == [m \in S |-> ClassAt(h, m)]
  <1>1. IsFiniteSet(S)
    BY TreeFacts, FS_Subset DEF States, nodes
  <1>2. P = {ClassAt(h, m) : m \in S}
    BY HeapPartition DEF States
  <1>3. \A m \in S : m \in ClassAt(h, m)
    BY DEF States, ClassAt, Led
  <1>4. \A m, k \in S : ClassAt(h, m) = ClassAt(h, k) => m = k
    BY <1>3 DEF ClassAt
  <1> HIDE DEF S, P
  <1>5. f \in Bijection(S, P)
    BY <1>2, <1>4 DEF Bijection, Injection, Surjection, IsInjective
  <1>6. ExistsBijection(S, P)
    BY <1>5 DEF ExistsBijection
  <1>7. QED
    BY <1>1, <1>6, FS_Bijection DEF S, P

\* A partition with one type in every class tells nodes of different types apart.
LEMMA ConsistentTyped ==
    ASSUME tree \in Trees, Exhaustive, NEW Q, Partition(Q), RB!Consistent(Q)
    PROVE  OneTyped([n \in nodes |-> {E \in Q : n \in E}])
  <1> DEFINE e == [n \in nodes |-> {E \in Q : n \in E}]
  <1> SUFFICES ASSUME NEW m \in nodes, NEW n \in nodes, NEW x \in Type, NEW y \in Type,
                      e[m] = e[n], tree.finals[m][x] # 0, tree.finals[n][y] # 0
               PROVE  x = y
    BY DEF OneTyped
  <1>1. PICK E \in Q : m \in E
    BY DEF Partition
  <1>2. E \in e[m] /\ E \in e[n] /\ n \in E
    BY <1>1
  <1>3. E \subseteq nodes /\ IsFiniteSet(E)
    BY TreeFacts, FS_Subset DEF Partition, nodes
  <1> DEFINE S == RB!TypesOf(E)
             T == {CHOOSE t \in Type : tree.finals[k][t] # 0 : k \in E}
  <1>4. x \in S /\ y \in S
    BY <1>1, <1>2 DEF RB!TypesOf
  <1>5. S \subseteq T
    <2>1. ASSUME NEW t \in S
          PROVE  t \in T
      <3>1. PICK k \in E : t \in Type /\ tree.finals[k][t] # 0
        BY DEF RB!TypesOf
      <3>2. \A s \in Type : tree.finals[k][s] # 0 => s = t
        BY <1>3, <3>1 DEF Exhaustive, nodes
      <3>3. (CHOOSE s \in Type : tree.finals[k][s] # 0) = t
        BY <3>1, <3>2
      <3>4. QED
        BY <3>3
    <2>2. QED
      BY <2>1
  <1>6. IsFiniteSet(T)
    <2>1. PICK f : f = [k \in E |-> CHOOSE t \in Type : tree.finals[k][t] # 0]
      OBVIOUS
    <2>2. PICK G : G = {f[k] : k \in E}
      OBVIOUS
    <2>3. f \in [E -> G] /\ \A g \in G : \E k \in E : f[k] = g
      BY <2>1, <2>2
    <2>4. IsFiniteSet(G)
      BY <1>3, <2>3, FS_Surjection DEF Surjection
    <2>5. T = G
      BY <2>1, <2>2
    <2>6. QED
      BY <2>4, <2>5
  <1>7. Cardinality(S) <= 1
    BY <1>1, SameCardinality DEF RB!Consistent
  <1> HIDE DEF S, T
  <1>8. IsFiniteSet(S) /\ Cardinality(S) \in Nat
    BY <1>5, <1>6, FS_Subset, FS_CardinalityType
  <1>9. {x, y} \subseteq S
    BY <1>4
  <1>10. Cardinality({x, y}) <= Cardinality(S)
    BY <1>8, <1>9, FS_Subset
  <1>11. ASSUME x # y
         PROVE  FALSE
    <2>1. Cardinality({x, y}) = 2
      <3>1. IsFiniteSet({x}) /\ Cardinality({x}) = 1
        BY FS_Singleton
      <3>2. Cardinality({x} \cup {y}) = Cardinality({x}) + 1
        BY <1>11, <3>1, FS_AddElement
      <3>3. {x} \cup {y} = {x, y}
        OBVIOUS
      <3>4. PICK p, q : p = Cardinality({x}) /\ q = Cardinality({x} \cup {y})
        OBVIOUS
      <3>5. p = 1 /\ q = p + 1
        BY <3>1, <3>2, <3>4
      <3>6. Cardinality({x, y}) = q
        BY <3>3, <3>4
      <3>7. QED
        BY ONLY <3>5, <3>6
    <2>2. QED
      BY <1>7, <1>8, <1>10, <2>1
  <1>12. QED
    BY <1>11

\* If joining two states mixes no types, a congruence does not either.
LEMMA ConsistentKnown ==
    ASSUME tree \in Trees, Exhaustive, NEW b, Led(b), NEW o,
           o.red \in nodes, o.blue \in nodes, o.red # o.blue,
           Reps(b)[o.red] = None, Reps(b)[o.blue] = None,
           RB!Consistent(RB!MergedPartition(PartOf(b), ClassAt(b, o.red), ClassAt(b, o.blue)))
    PROVE  Known(o, b)
  <1>1. PICK P, C, D, Q : /\ P = PartOf(b) /\ C = ClassAt(b, o.red) /\ D = ClassAt(b, o.blue)
                          /\ Q = RB!MergedPartition(P, C, D)
    OBVIOUS
  <1>2. /\ Partition(P) /\ C \in P /\ D \in P /\ o.red \in C /\ o.blue \in D /\ C # D
    BY <1>1, HeapPartition, ClassChosen DEF ClassAt, Led
  <1>3. Grown(P, C, D, Q) /\ RB!Deterministic(Q)
    BY <1>1, <1>2, JoinsClose
  <1>4. Partition(Q) /\ RB!Consistent(Q)
    BY <1>1, <1>3 DEF Grown
  <1>5. PICK e : e = [n \in nodes |-> {E \in Q : n \in E}]
    OBVIOUS
  <1>6. Congruence(e) /\ (\A E \in Q : Constant(e, E)) /\ OneTyped(e)
    BY <1>3, <1>4, <1>5, DeterministicCongruence, ConsistentTyped
  <1>7. Coarser(e, Finds(b))
    <2>1. SUFFICES ASSUME NEW m \in nodes, NEW n \in nodes, Finds(b)[m] = Finds(b)[n]
                   PROVE  e[m] = e[n]
      BY DEF Coarser
    <2>2. PICK B : B = ClassAt(b, Finds(b)[m])
      OBVIOUS
    <2>3. B \in P /\ m \in B /\ n \in B
      BY <1>1, <2>1, <2>2, ClassChosen DEF ClassAt, Led
    <2>4. PICK E \in Q : B \subseteq E
      BY <1>3, <2>3 DEF Grown
    <2>5. QED
      BY <1>6, <2>3, <2>4 DEF Constant
  <1>8. e[o.red] = e[o.blue]
    <2>1. PICK E \in Q : C \cup D \subseteq E
      BY <1>3 DEF Grown
    <2>2. QED
      BY <1>2, <1>6, <2>1 DEF Constant
  <1>9. QED
    BY <1>6, <1>7, <1>8 DEF Known

\* What a test starts on and what it has joined.
LEMMA TestHeaps ==
    ASSUME TypeOK, Inv, op = "test", MERGE_WHEN_TESTING
    PROVE  /\ Led(before) /\ Led(heap) /\ IdleHeap(before) /\ tree \in Trees
           /\ ref.red \in nodes /\ ref.blue \in nodes /\ ref.red # ref.blue
           /\ Reps(before)[ref.red] = None /\ Reps(before)[ref.blue] = None
           /\ \A e : Congruence(e) /\ Coarser(e, Finds(before)) /\ e[ref.red] = e[ref.blue]
                     => Coarser(e, Finds(heap))
  <1>1. PICK u \in Run : /\ BlockIsTree(u) /\ RunsOn(u, before) /\ u.start = before
                         /\ u.left = ref.red /\ u.right = ref.blue
                         /\ \E c \in Reach(u) : c.heap = heap /\ Merging(u, c, stack)
    BY TestRuns
  <1>2. PICK c \in Reach(u) : c.heap = heap
    BY <1>1
  <1>3. PICK b : b = before
    OBVIOUS
  <1>4. RunsOn(u, b) /\ tree \in Trees /\ IdleHeap(b) /\ nodes \subseteq Node /\ nodes = tree.nodes
    BY <1>1, <1>3, TreeFacts DEF RunsOn, nodes
  <1>5. Sound(u, c) /\ Gathered(u, c)
    BY <1>4, ReachGathered
  <1>6. /\ \A n \in Node : Finds(c.heap)[n] = Found(u, c.heap, n)
        /\ \A n \in Node : /\ Reps(c.heap)[Found(u, c.heap, n)] = None
                           /\ Reps(c.heap)[n] = None => Found(u, c.heap, n) = n
    BY <1>1, <1>5, RunFinds, FoundEquation DEF Sound
  <1>7. \A n \in nodes : Found(u, c.heap, n) \in nodes
    BY <1>4, <1>5, FoundInTree
  <1>8. Led(c.heap) /\ Led(b)
    BY <1>4, <1>6, <1>7, IdleLed DEF Led
  <1>9. ASSUME NEW e, Congruence(e), Coarser(e, Finds(b)), e[u.left] = e[u.right]
        PROVE  Coarser(e, Finds(c.heap))
    <2>1. Allowed(u, e) /\ IdleHeap(u.start)
      BY <1>1, <1>3, <1>4, <1>9 DEF Allowed
    <2>2. Agreeing(u, c, e)
      BY <1>1, <1>4, <2>1, AgreesRun
    <2>3. \A n \in nodes : e[Finds(c.heap)[n]] = e[n]
      BY <1>4, <1>6, <2>2 DEF Agreeing
    <2>4. QED
      BY <2>3 DEF Coarser
  <1>10. MergeableIn(b, u.left, u.right)
    BY <1>4 DEF RunsOn
  <1>11. QED
    BY <1>1, <1>2, <1>3, <1>4, <1>8, <1>9, <1>10 DEF MergeableIn, nodes

\* A test that has not failed ends on the least deterministic partition.
LEMMA TestLeast ==
    ASSUME TypeOK, Inv, op = "test", MERGE_WHEN_TESTING, stack = <<>>,
           NEW v, Tests(v), Folding(v)
    PROVE  PartOf(heap) = RB!MergedPartition(PartOf(before), ClassAt(before, ref.red),
                                             ClassAt(before, ref.blue))
  <1>1. PICK h, g, l, r : h = before /\ g = heap /\ l = ref.red /\ r = ref.blue
    OBVIOUS
  <1>2. /\ Led(h) /\ Led(g) /\ IdleHeap(h) /\ tree \in Trees
        /\ l \in nodes /\ r \in nodes /\ l # r
        /\ Reps(h)[l] = None /\ Reps(h)[r] = None
        /\ \A e : Congruence(e) /\ Coarser(e, Finds(h)) /\ e[l] = e[r]
                  => Coarser(e, Finds(g))
    BY <1>1, TestHeaps
  <1>3. /\ Congruence(Finds(g)) /\ Coarser(Finds(g), Finds(h))
        /\ Finds(g)[l] = Finds(g)[r]
    BY <1>1, <1>2, TestedFound
  <1>4. PartOf(g) = RB!MergedPartition(PartOf(h), ClassAt(h, l), ClassAt(h, r))
    BY ONLY <1>2, <1>3, MergedIsLeast
  <1>5. QED
    BY <1>1, <1>4

\* The verdict and the score.
LEMMA TestsAnswer ==
    ASSUME TypeOK, Inv, Exact, OffersOK, TestOK
    PROVE  TestExact
  <1> SUFFICES ASSUME op = "test", stack = <<>>
               PROVE  TestExact
    BY DEF TestExact
  <1>1. Exhaustive /\ MERGE_WHEN_TESTING
    BY DEF Exact, Exhaustive
  <1>2. /\ Led(before) /\ Led(heap) /\ IdleHeap(before) /\ tree \in Trees
        /\ ref.red \in nodes /\ ref.blue \in nodes /\ ref.red # ref.blue
        /\ Reps(before)[ref.red] = None /\ Reps(before)[ref.blue] = None
    BY <1>1, TestHeaps
  <1>3. PICK b, g, l, r : b = before /\ g = heap /\ l = ref.red /\ r = ref.blue
    OBVIOUS
  <1>4. PICK Q : Q = RB!MergedPartition(PartOf(b), ClassAt(b, l), ClassAt(b, r))
    OBVIOUS
  <1>5. /\ (CHOOSE X \in PartOf(b) : l \in X) = ClassAt(b, l)
        /\ (CHOOSE X \in PartOf(b) : r \in X) = ClassAt(b, r)
    BY <1>2, <1>3, ClassChosen
  <1>6. PICK v \in Run : Tests(v) /\ (Folding(v) \/ Broken)
    BY DEF OffersOK, AskedOK
  <1>7. Broken <=> ~result
    BY DEF Broken
  <1>8. ASSUME result
        PROVE  /\ ~eval.inconsistent /\ RB!Consistent(Q)
               /\ eval.merges = Cardinality(PartOf(b)) - Cardinality(Q)
    <2>1. Folding(v)
      BY <1>6, <1>7, <1>8
    <2>2. PartOf(g) = Q
      BY <1>1, <1>3, <1>4, <1>6, <2>1, TestLeast
    <2>3. RB!Consistent(Q)
      <3>1. OneTyped(Finds(g))
        BY <1>3, <2>1 DEF Folding
      <3>2. QED
        BY <1>2, <1>3, <2>2, <3>1, TypedConsistent
    <2>4. /\ eval.merges + Cardinality(States(g)) = Cardinality(States(b))
          /\ eval.merges \in Nat /\ ~eval.inconsistent
      BY <1>3, <1>7, <1>8 DEF TestOK, TypeOK
    <2>5. /\ Cardinality(PartOf(b)) = Cardinality(States(b))
          /\ Cardinality(Q) = Cardinality(States(g))
      BY <1>2, <1>3, <2>2, ClassesCounted
    <2>6. Cardinality(States(g)) \in Nat
      <3>1. IsFiniteSet(States(g))
        BY <1>2, TreeFacts, FS_Subset DEF States, nodes
      <3>2. QED
        BY <3>1, FS_CardinalityType
    <2>7. eval.merges = Cardinality(States(b)) - Cardinality(States(g))
      <3>1. PICK m, i, j : /\ m = eval.merges /\ i = Cardinality(States(g))
                           /\ j = Cardinality(States(b))
        OBVIOUS
      <3>2. m \in Nat /\ i \in Nat /\ m + i = j
        BY <2>4, <2>6, <3>1
      <3>3. m = j - i
        BY ONLY <3>2
      <3>4. QED
        BY <3>1, <3>3
    <2>8. QED
      BY <2>3, <2>4, <2>5, <2>7
  <1>9. ASSUME ~result
        PROVE  ~RB!Consistent(Q)
    <2>1. ~Known(ref, before)
      BY <1>7, <1>9 DEF TestOK
    <2>2. PICK o : o = ref
      OBVIOUS
    <2>3. /\ o.red \in nodes /\ o.blue \in nodes /\ o.red # o.blue
          /\ Reps(b)[o.red] = None /\ Reps(b)[o.blue] = None /\ ~Known(o, b)
          /\ Q = RB!MergedPartition(PartOf(b), ClassAt(b, o.red), ClassAt(b, o.blue))
          /\ Led(b)
      BY <1>2, <1>3, <1>4, <2>1, <2>2
    <2>4. QED
      BY <1>1, <1>2, <2>3, ConsistentKnown
  <1>10. QED
    BY <1>3, <1>4, <1>5, <1>8, <1>9 DEF TestExact

\* test_merge is exact (TestExact): the merge it tries is offered if and only if
\* the least deterministic partition that joins the two states mixes no types,
\* and its score is the number of states that disappear.  This needs tests that
\* are performed to the end (no --ktail, --kstate, --redfixed, --allfixed, and
\* --testmerge and --mergedata on) on traces of which no two that end in the same
\* node of the tree differ in type.
THEOREM TestsExact == Exact => (Spec => []TestExact)
  <1> SUFFICES ASSUME Exact
               PROVE  Spec => []TestExact
    OBVIOUS
  <1>1. Exhaustive
    BY DEF Exact
  <1>2. Init => OffersOK /\ TestOK
    BY <1>1, InitTyped DEF Init, TestOK
  <1>3. TypeOK /\ Inv /\ (OffersOK /\ TestOK) /\ [Next]_vars => (OffersOK /\ TestOK)'
    BY <1>1, NextOffers, NextTests
  <1>4. TypeOK /\ Inv /\ OffersOK /\ TestOK => TestExact
    BY TestsAnswer
  <1>5. QED
    BY <1>2, <1>3, <1>4, EngineCorrect, PTL DEF Spec

-----------------------------------------------------------------------------
(* Transitions of fixed states.                                            *)

\* Every test is performed to its end.
Complete == MERGE_WHEN_TESTING /\ KTAIL = -1 /\ KSTATE = -1

\* A state that is to get no transitions by a merge made on the heap h.
Fixed(h, n) == ALL_FIXED \/ (RED_FIXED /\ Reds(h)[n])

\* None has got any on the way to the heap g.
AsBefore(h, g) == \A n \in Node : Fixed(h, n) => Guards(g)[n] = Guards(h)[n]

\* Nor will any in the call f, that is past its entry.
Served(h, g, f) ==
    f.at # "entry" /\ Fixed(h, f.left) =>
       \A a \in Symbol : Guards(g)[f.right][a] # None => Guards(g)[f.left][a] # None
AllServed(h, g, s) == \A i \in 1 .. Len(s) : Served(h, g, s[i])

\* The test is in the run v, and has changed no fixed state.
Follows(v) ==
    /\ \E c \in Reach(v) : /\ c.heap = heap /\ Merging(v, c, stack)
                           /\ result \/ MergeCalled(v, c, stack)
    /\ AsBefore(before, heap) /\ AllServed(before, heap, stack)

\* The merge o, made on the heap h, changes none.
Passed(o, h) ==
    \E v \in Run : \E c \in Reach(v) :
       /\ v.start = h /\ v.left = o.red /\ v.right = o.blue /\ ~v.stops /\ BlockIsTree(v)
       /\ c.depth = 0 /\ Reps(c.heap)[v.right] # None /\ AsBefore(h, c.heap)

\* Offers were tested on the heap they are offered for.
FixedOK ==
    /\ offer # None => Passed(offer, settled)
    /\ op = "do" => Passed(ref, before)
    /\ op = "test" => \E v \in Run : Tests(v) /\ (Follows(v) \/ Broken)

\* None of it depends on anything but the tree.
LEMMA PassedFixed ==
    ASSUME tree' = tree, NEW o, NEW h
    PROVE  Passed(o, h)' <=> Passed(o, h)
  <1>1. \A v : BlockIsTree(v)' <=> BlockIsTree(v)
    BY DEF BlockIsTree, Parent
  <1>2. \A v : Reach(v)' = Reach(v)
    BY DEF Reach, Inductive, StartsRun, RunStep, FirstJoin, Adoption, FoldedJoin, Return
  <1>3. QED
    BY <1>1, <1>2 DEF Passed

\* Calls that only go on, end or are entered.
LEMMA StackGoes ==
    ASSUME TypeOK, MergeChildren \/ MergeFind \/ MergeRecurse \/ MergeReturn
    PROVE  \A i \in 1 .. Len(stack') :
              \/ stack'[i].at = "entry"
              \/ /\ i \in 1 .. Len(stack) /\ stack[i].at # "entry"
                 /\ stack'[i].left = stack[i].left /\ stack'[i].right = stack[i].right
  <1> PICK s, t, n : s = stack /\ t = stack' /\ n = Len(stack)
    OBVIOUS
  <1>1. s \in Seq(Frame) /\ n = Len(s)
    BY DEF TypeOK
  <1>2. /\ s # <<>> /\ n \in Nat /\ n > 0 /\ s[n] \in Frame /\ s[n] = top
        /\ s[n].at # "entry"
    <2>1. stack # <<>> /\ top.at # "entry"
      BY DEF MergeChildren, MergeFind, MergeRecurse, MergeReturn, At
    <2>2. n \in Nat /\ n > 0 /\ s[n] \in Frame
      BY <1>1, <2>1
    <2>3. QED
      BY <2>1, <2>2 DEF top
  <1>3. \A i \in 1 .. n : s[i] \in Frame
    BY <1>1
  <1>4. ASSUME NEW f \in Frame, f.left = s[n].left, f.right = s[n].right, NEW w,
               w = [s EXCEPT ![n] = f], NEW i \in 1 .. n
        PROVE  Len(w) = n /\ (w[i] = s[i] \/ (i = n /\ w[i] = f))
    BY <1>1, <1>2, <1>4
  <1>5. CASE MergeReturn
    <2>1. t = SubSeq(s, 1, n - 1)
      BY <1>5 DEF MergeReturn, Pop
    <2>2. \A i \in 1 .. Len(t) : i \in 1 .. Len(s) /\ t[i] = s[i]
      BY <1>1, <1>2, <2>1
    <2>3. QED
      BY <2>2
  <1>6. CASE MergeChildren \/ MergeFind
    <2>1. PICK f \in Frame : /\ f.left = s[n].left /\ f.right = s[n].right
                             /\ t = [s EXCEPT ![n] = f]
      <3>1. CASE MergeChildren
        <4>1. PICK a \in Symbol :
                 /\ IsFirst(a) /\ child[top.left][a] # None
                 /\ t = [s EXCEPT ![n] = [top EXCEPT !.at = "find", !.todo = After(a),
                              !.lc = child[top.left][a], !.rc = child[top.right][a]]]
          BY <3>1 DEF MergeChildren, Replace
        <4>2. child[top.left][a] \in Node /\ child[top.right][a] \in Node
          BY <1>2, <4>1 DEF TypeOK, AptaTypeOK, Frame, IsFirst, pending, Guarded
        <4>3. After(a) \in SUBSET Symbol
          BY <1>2 DEF After, Frame
        <4>4. PICK f, x, y, z :
                 /\ f = [top EXCEPT !.at = "find", !.todo = z, !.lc = x, !.rc = y]
                 /\ x \in Node /\ y \in Node /\ z \in SUBSET Symbol
                 /\ t = [s EXCEPT ![n] = f]
          BY <4>1, <4>2, <4>3
        <4>5. f \in Frame /\ f.left = s[n].left /\ f.right = s[n].right
          BY <1>2, <4>4 DEF Frame
        <4>6. QED
          BY <4>4, <4>5
      <3>2. CASE MergeFind
        <4>1. PICK x \in Node, y \in Node :
                 t = [s EXCEPT ![n] = [top EXCEPT !.lc = x, !.rc = y]]
          <5>1. CASE rep[top.lc] # None /\ Replace([top EXCEPT !.lc = rep[top.lc]])
            <6>1. rep[top.lc] \in Node /\ top.rc \in Node
              BY <1>2, <5>1 DEF TypeOK, AptaTypeOK, Frame
            <6>2. [top EXCEPT !.lc = rep[top.lc]] = [top EXCEPT !.lc = rep[top.lc], !.rc = top.rc]
              BY <1>2 DEF Frame
            <6>3. QED
              BY <5>1, <6>1, <6>2 DEF Replace
          <5>2. CASE rep[top.rc] # None /\ Replace([top EXCEPT !.rc = rep[top.rc]])
            <6>1. rep[top.rc] \in Node /\ top.lc \in Node
              BY <1>2, <5>2 DEF TypeOK, AptaTypeOK, Frame
            <6>2. [top EXCEPT !.rc = rep[top.rc]] = [top EXCEPT !.lc = top.lc, !.rc = rep[top.rc]]
              BY <1>2 DEF Frame
            <6>3. QED
              BY <5>2, <6>1, <6>2 DEF Replace
          <5>3. QED
            BY <3>2, <5>1, <5>2 DEF MergeFind
        <4>2. QED
          BY <1>2, <4>1 DEF Frame
      <3>3. QED
        BY <1>6, <3>1, <3>2
    <2>2. \A i \in 1 .. n : Len(t) = n /\ (t[i] = s[i] \/ (i = n /\ t[i] = f))
      BY <1>4, <2>1
    <2>3. Len(t) = n
      BY <1>2, <2>2
    <2>4. QED
      BY <1>2, <2>1, <2>2, <2>3
  <1>7. CASE MergeRecurse
    <2>1. PICK f, w, g : /\ f = [top EXCEPT !.at = "loop"] /\ w = [s EXCEPT ![n] = f]
                         /\ g = Call("merge", top.lc, top.rc, top.depth + 1)
      OBVIOUS
    <2>2. t = w \/ t = Append(w, g)
      BY <1>7, <2>1 DEF MergeRecurse
    <2>3. f \in Frame /\ f.left = s[n].left /\ f.right = s[n].right
      BY <1>2, <2>1 DEF Frame
    <2>4. \A i \in 1 .. n : Len(w) = n /\ (w[i] = s[i] \/ (i = n /\ w[i] = f))
      BY <1>4, <2>1, <2>3
    <2>5. Len(w) = n /\ w \in Seq(Frame)
      BY <1>1, <1>2, <2>1, <2>3, <2>4
    <2>6. g.at = "entry"
      BY <2>1 DEF Call
    <2>7. \A i \in 1 .. Len(t) : (i \in 1 .. n /\ t[i] = w[i]) \/ t[i] = g
      BY <1>2, <2>2, <2>5
    <2>8. QED
      BY <1>2, <2>3, <2>4, <2>6, <2>7
  <1>8. QED
    BY <1>5, <1>6, <1>7

\* They serve what they served.
LEMMA ServedOn ==
    ASSUME NEW h, NEW g, NEW k, Guards(k) = Guards(g), NEW s, NEW t, AllServed(h, g, s),
           \A i \in 1 .. Len(t) :
              \/ t[i].at = "entry"
              \/ /\ i \in 1 .. Len(s) /\ s[i].at # "entry"
                 /\ t[i].left = s[i].left /\ t[i].right = s[i].right
    PROVE  AllServed(h, k, t)
  BY DEF AllServed, Served

\* The calls of a run in progress and what is changed by an adoption.
LEMMA StackUnmerged ==
    ASSUME TypeOK, At("merge", "loop"), NEW u, BlockIsTree(u), NEW c \in Reach(u),
           c.heap = heap, Merging(u, c, stack)
    PROVE  /\ top.left \in Node /\ top.right \in Node /\ rep[top.left] = None
           /\ \A i \in 1 .. Len(stack) : rep[stack[i].right] # None
  <1>1. c \in Configuration /\ stack \in Seq(Frame) /\ c.depth \in Nat /\ Sound(u, c)
    BY ConfigurationTyped, ReachSound DEF Reach, TypeOK
  <1>2. /\ stack # <<>> /\ stack[Len(stack)] = top /\ top.at = "loop"
        /\ top.left \in Node /\ top.right \in Node
    BY <1>1, TopPlace
  <1>3. MergeLoops(u, c, stack)
    BY <1>1, <1>2, MergingPlace
  <1>4. /\ Len(stack) = c.depth /\ c.depth > 0
        /\ \A i \in 1 .. c.depth : stack[i].left = c.left[i] /\ stack[i].right = c.right[i]
    BY <1>3 DEF MergeLoops, Stacked
  <1>5. \A i \in 1 .. c.depth :
           /\ Reps(c.heap)[c.left[i]] = None /\ Reps(c.heap)[c.right[i]] = c.left[i]
           /\ c.left[i] \in Node
    <2>1. c.left \in [Nat -> Node] /\ \A i \in 1 .. c.depth : i \in Nat
      BY <1>1, ConfigurationTyped
    <2>2. QED
      BY <1>1, <2>1 DEF Sound, FramesOK, FrameOK
  <1>6. Reps(c.heap) = rep /\ None \notin Node
    BY HeapParts, AptaAssumption
  <1>7. QED
    BY <1>1, <1>2, <1>4, <1>5, <1>6

\* A frame that goes on to its loop keeps its nodes.
LEMMA TopReplaced ==
    ASSUME TypeOK, stack # <<>>, NEW z \in SUBSET Symbol,
           Replace([top EXCEPT !.at = "loop", !.todo = z])
    PROVE  \A i \in 1 .. Len(stack') :
              /\ i \in 1 .. Len(stack)
              /\ stack'[i].left = stack[i].left /\ stack'[i].right = stack[i].right
              /\ i # Len(stack) => stack'[i] = stack[i]
  <1> PICK s, t, n, f : /\ s = stack /\ t = stack' /\ n = Len(stack)
                        /\ f = [top EXCEPT !.at = "loop", !.todo = z]
    OBVIOUS
  <1>1. s \in Seq(Frame) /\ s # <<>> /\ n = Len(s) /\ top = s[n]
    BY DEF TypeOK, top
  <1>2. n \in Nat /\ n > 0 /\ s[n] \in Frame
    BY <1>1
  <1>3. f.left = s[n].left /\ f.right = s[n].right
    BY <1>1, <1>2 DEF Frame
  <1>4. t = [s EXCEPT ![n] = f]
    BY DEF Replace
  <1>5. Len(t) = n /\ \A i \in 1 .. n : (i # n => t[i] = s[i]) /\ (i = n => t[i] = f)
    BY <1>1, <1>2, <1>4
  <1>6. QED
    BY <1>2, <1>3, <1>5

\* Merging two nodes adds no transition to a fixed one, now or later.
LEMMA NodesFollow ==
    ASSUME TypeOK, Complete, op = "test", MergeNodes, Reds(before) = red,
           AsBefore(before, heap), AllServed(before, heap, stack)
    PROVE  AsBefore(before, heap)' /\ AllServed(before, heap, stack)'
  <1>1. /\ At("merge", "entry") /\ ~AddsFixedTransition(top) /\ child' = child
        /\ before' = before
        /\ Replace([top EXCEPT !.at = "loop", !.todo = Symbol])
    BY DEF MergeNodes, Testing
  <1>2. stack # <<>> /\ stack \in Seq(Frame)
    BY <1>1 DEF At, TypeOK
  <1>3. \A i \in 1 .. Len(stack') :
           /\ i \in 1 .. Len(stack)
           /\ stack'[i].left = stack[i].left /\ stack'[i].right = stack[i].right
           /\ i # Len(stack) => stack'[i] = stack[i]
    <2>1. PICK z \in SUBSET Symbol : z = Symbol
      OBVIOUS
    <2>2. Replace([top EXCEPT !.at = "loop", !.todo = z])
      BY <1>1, <2>1
    <2>3. QED
      BY <1>2, <2>2, TopReplaced
  <1>4. PICK b, h, k, s, t : b = before /\ h = heap /\ k = heap' /\ s = stack /\ t = stack'
    OBVIOUS
  <1>5. Guards(h) = child /\ Guards(k) = child /\ Reds(b) = red
    BY <1>1, <1>4 DEF Guards, heap
  <1>6. AsBefore(b, k)
    BY <1>4, <1>5 DEF AsBefore
  <1>7. ASSUME NEW i \in 1 .. Len(t)
        PROVE  Served(b, k, t[i])
    <2>1. i \in 1 .. Len(s) /\ t[i].left = s[i].left /\ t[i].right = s[i].right
      BY <1>3, <1>4, <1>7
    <2>2. CASE i # Len(s)
      BY <1>3, <1>4, <1>5, <1>7, <2>1, <2>2 DEF AllServed, Served
    <2>3. CASE i = Len(s)
      <3>1. t[i].left = top.left /\ t[i].right = top.right
        BY <1>4, <2>1, <2>3 DEF top
      <3>2. QED
        BY <1>1, <1>5, <3>1 DEF Served, Fixed, AddsFixedTransition, Guarded
    <2>4. QED
      BY <2>2, <2>3
  <1>8. AllServed(b, k, t)
    BY <1>7 DEF AllServed
  <1>9. QED
    BY <1>1, <1>4, <1>6, <1>8

\* Nor does the left state of a call take over a child it may not have.
LEMMA AdoptFollows ==
    ASSUME TypeOK, Performing, MergeAdopt, NEW u, BlockIsTree(u), NEW c \in Reach(u),
           c.heap = heap, Merging(u, c, stack),
           AsBefore(before, heap), AllServed(before, heap, stack)
    PROVE  AsBefore(before, heap)' /\ AllServed(before, heap, stack)'
  <1>1. PICK a \in Symbol :
           /\ IsFirst(a) /\ child[top.left][a] = None
           /\ child' = [child EXCEPT ![top.left][a] = child[top.right][a]]
           /\ Replace([top EXCEPT !.todo = After(a)])
    BY DEF MergeAdopt
  <1>2. At("merge", "loop") /\ before' = before
    BY DEF MergeAdopt
  <1>3. child[top.right][a] # None
    BY <1>1 DEF IsFirst, pending, Guarded
  <1>4. /\ top.left \in Node /\ top.right \in Node /\ rep[top.left] = None
        /\ \A i \in 1 .. Len(stack) : rep[stack[i].right] # None
    BY <1>2, StackUnmerged
  <1>5. /\ stack \in Seq(Frame) /\ stack # <<>> /\ top.at = "loop" /\ top \in Frame
        /\ Len(stack) \in 1 .. Len(stack)
    BY <1>2, TopPlace DEF TypeOK
  <1>6. \A i \in 1 .. Len(stack') :
           /\ i \in 1 .. Len(stack)
           /\ stack'[i].left = stack[i].left /\ stack'[i].right = stack[i].right
           /\ i # Len(stack) => stack'[i] = stack[i]
    <2>1. PICK z \in SUBSET Symbol : z = After(a)
      BY <1>5 DEF After, Frame
    <2>2. [top EXCEPT !.todo = z] = [top EXCEPT !.at = "loop", !.todo = z]
      BY <1>5 DEF Frame
    <2>3. Replace([top EXCEPT !.at = "loop", !.todo = z])
      BY <1>1, <2>1, <2>2 DEF Replace
    <2>4. QED
      BY <1>5, <2>3, TopReplaced
  <1>7. PICK b, h, k, s, t, l : /\ b = before /\ h = heap /\ k = heap'
                                /\ s = stack /\ t = stack' /\ l = top.left
    OBVIOUS
  <1>8. Guards(h) = child /\ Guards(k) = child'
    BY <1>7 DEF Guards, heap
  <1>9. \A n \in Node \ {l} : Guards(k)[n] = Guards(h)[n]
    BY <1>1, <1>7, <1>8 DEF TypeOK, AptaTypeOK
  <1>10. ~Fixed(b, l)
    <2>1. Served(b, h, top)
      BY <1>5, <1>7 DEF AllServed, top
    <2>2. QED
      BY <1>1, <1>3, <1>5, <1>7, <1>8, <2>1 DEF Served
  <1>11. AsBefore(b, k)
    BY <1>7, <1>9, <1>10 DEF AsBefore
  <1>12. ASSUME NEW i \in 1 .. Len(t)
         PROVE  Served(b, k, t[i])
    <2>1. i \in 1 .. Len(s) /\ t[i].left = s[i].left /\ t[i].right = s[i].right
      BY <1>6, <1>7, <1>12
    <2>2. s[i].left \in Node /\ s[i].right \in Node
      <3>1. s[i] \in Frame
        BY <1>5, <1>7, <2>1
      <3>2. QED
        BY <3>1 DEF Frame
    <2>3. s[i].right # l
      BY <1>4, <1>7, <2>1
    <2>4. t[i].at # "entry" => s[i].at # "entry"
      BY <1>5, <1>6, <1>7, <1>12 DEF top
    <2>5. Guards(k)[s[i].right] = Guards(h)[s[i].right]
      BY <1>9, <2>2, <2>3
    <2>6. CASE s[i].left = l
      BY <1>10, <2>1, <2>6 DEF Served
    <2>7. CASE s[i].left # l
      <3>1. Guards(k)[s[i].left] = Guards(h)[s[i].left]
        BY <1>9, <2>2, <2>7
      <3>2. Served(b, h, s[i])
        BY <1>7, <2>1 DEF AllServed
      <3>3. QED
        BY <2>1, <2>4, <2>5, <3>1, <3>2 DEF Served
    <2>8. QED
      BY <2>6, <2>7
  <1>13. AllServed(b, k, t)
    BY <1>12 DEF AllServed
  <1>14. QED
    BY <1>2, <1>7, <1>11, <1>13

\* So a test that goes on changes no fixed state, and one that stops failed.
LEMMA FollowsStep ==
    ASSUME TypeOK, Complete, op = "test", MergeStep, NEW v, Tests(v), Follows(v)
    PROVE  Follows(v)' \/ Broken'
  <1>1. PICK c \in Reach(v) : /\ c.heap = heap /\ Merging(v, c, stack)
                              /\ result \/ MergeCalled(v, c, stack)
    BY DEF Follows
  <1>2. AsBefore(before, heap) /\ AllServed(before, heap, stack)
    BY DEF Follows
  <1>3. BlockIsTree(v) /\ Performing /\ Testing /\ c \in Configuration
    BY DEF Tests, Performing, Testing, Complete, Reach
  <1>4. Reds(before) = red
    <2>1. Sound(v, c)
      BY <1>3, ReachSound
    <2>2. Reds(c.heap) = Reds(v.start) /\ v.start = before
      BY <2>1 DEF Sound, Tests
    <2>3. QED
      BY <1>1, <2>2, HeapParts
  <1>5. CASE MergeStop
    <2>1. ~DeepEnough(top)
      BY DEF DeepEnough, Complete
    <2>2. At("merge", "entry") /\ Pop /\ ~result'
      BY <1>5, <2>1 DEF MergeStop
    <2>3. QED
      BY <1>1, <1>3, <2>2, StopBreaks
  <1>6. ASSUME stack # <<>>, top.at # "entry"
        PROVE  result
    <2>1. ~MergeCalled(v, c, stack)
      BY <1>6 DEF MergeCalled, Called, top
    <2>2. QED
      BY <1>1, <2>1
  <1>7. CASE MergeNodes
    <2>1. PICK d \in Reach(v) : d.heap = heap' /\ Merging(v, d, stack')
      BY <1>1, <1>3, <1>7, MergeNodesRun
    <2>2. result' = TRUE /\ tree' = tree
      BY <1>7 DEF MergeNodes
    <2>3. AsBefore(before, heap)' /\ AllServed(before, heap, stack)'
      BY <1>2, <1>4, <1>7, NodesFollow
    <2>4. QED
      BY <2>1, <2>2, <2>3 DEF Follows
  <1>8. CASE MergeAdopt
    <2>1. PICK d \in Reach(v) : d.heap = heap' /\ Merging(v, d, stack')
      BY <1>1, <1>3, <1>8, MergeAdoptRun
    <2>2. result' /\ tree' = tree
      BY <1>6, <1>8 DEF MergeAdopt, At
    <2>3. AsBefore(before, heap)' /\ AllServed(before, heap, stack)'
      BY <1>1, <1>2, <1>3, <1>8, AdoptFollows
    <2>4. QED
      BY <2>1, <2>2, <2>3 DEF Follows
  <1>9. CASE MergeChildren \/ MergeFind \/ MergeRecurse \/ MergeReturn
    <2>1. /\ UNCHANGED <<tree, heap, result, before>>
          /\ stack # <<>> /\ top.at # "entry"
      BY <1>9 DEF MergeChildren, MergeFind, MergeRecurse, MergeReturn, At
    <2>2. result
      BY <1>6, <2>1
    <2>3. PICK d \in Reach(v) : d.heap = heap' /\ Merging(v, d, stack')
      <3>1. CASE MergeChildren \/ MergeFind \/ MergeRecurse
        BY <1>1, <1>3, <2>1, <3>1, MergeChildrenRun, MergeFindRun, MergeRecurseRun
      <3>2. CASE MergeReturn
        BY <1>1, <1>3, <2>2, <3>2, MergeReturnRun
      <3>3. QED
        BY <1>9, <3>1, <3>2
    <2>4. PICK b, h, k, s, t : b = before /\ h = heap /\ k = heap' /\ s = stack /\ t = stack'
      OBVIOUS
    <2>5. \A i \in 1 .. Len(t) :
             \/ t[i].at = "entry"
             \/ /\ i \in 1 .. Len(s) /\ s[i].at # "entry"
                /\ t[i].left = s[i].left /\ t[i].right = s[i].right
      BY <1>9, <2>4, StackGoes
    <2>6. AsBefore(b, k) /\ AllServed(b, h, s) /\ Guards(k) = Guards(h)
      BY <1>2, <2>1, <2>4
    <2>7. AllServed(b, k, t)
      BY <2>5, <2>6, ServedOn
    <2>8. QED
      BY <2>1, <2>2, <2>3, <2>4, <2>6, <2>7 DEF Follows
  <1>10. QED
    BY <1>5, <1>7, <1>8, <1>9 DEF MergeStep

\* Where no state may get transitions, a merge that ends merges its whole block.
LEMMA BlockMerged ==
    ASSUME NEW v, BlockIsTree(v), NEW c, Sound(v, c), c.fresh = {},
           Reps(c.heap)[v.right] # None,
           \A n \in Node : Guards(c.heap)[n] = Guards(v.start)[n]
    PROVE  \A x \in Block(v) : Reps(c.heap)[x] # None
  <1> DEFINE Q == {x \in Block(v) : Reps(c.heap)[x] # None}
  <1>1. /\ v.right \in Block(v) /\ Block(v) \subseteq Node
        /\ \A x \in Block(v), a \in Symbol : Guards(v.start)[x][a] # None =>
              /\ Guards(v.start)[x][a] \in Block(v)
              /\ Parent(v.start, Guards(v.start)[x][a]) = x
        /\ \A x \in Block(v) : Reps(v.start)[x] = None
    BY BlockFacts
  <1>2. RepsOK(v, c) /\ FoldedOK(v, c)
    BY DEF Sound
  <1>3. ASSUME NEW x \in Q, NEW a \in Symbol, Guards(v.start)[x][a] # None
        PROVE  Guards(v.start)[x][a] \in Q
    <2> DEFINE t == Guards(v.start)[x][a]
               m == Reps(c.heap)[x]
    <2>1. /\ x \in Block(v) /\ m # None /\ t \in Block(v) /\ Parent(v.start, t) = x
          /\ m \in Node /\ Reps(c.heap)[m] = None
      BY <1>1, <1>2, <1>3 DEF RepsOK
    <2>2. m # x /\ Reps(v.start)[m] = None
      BY <1>1, <1>2, <2>1 DEF RepsOK
    <2>3. Guards(c.heap)[m][a] # t
      <3>1. Guards(v.start)[m][a] = t => Parent(v.start, t) = m
        BY <1>3, <2>1, <2>2 DEF BlockIsTree
      <3>2. QED
        BY <2>1, <2>2, <3>1
    <2>4. Reps(c.heap)[t] # None
      BY <1>2, <1>3, <2>1, <2>3 DEF FoldedOK
    <2>5. QED
      BY <2>1, <2>4
  <1>4. Q \in SUBSET Node /\ v.right \in Q /\ ClosedUnder(Guards(v.start), Q)
    BY <1>1, <1>3 DEF ClosedUnder
  <1>5. Block(v) \subseteq Q
    BY <1>4, BlockFacts
  <1>6. QED
    BY <1>5

\* A merge ends in the partition its test ended in, so it adds no transition to
\* a fixed state that the test did not have to add.
LEMMA NoneAdded ==
    ASSUME NEW u, NEW b, RunsOn(u, b), ~u.stops, NEW c, Ends(u, c),
           NEW o, o.red = u.left, o.blue = u.right, Passed(o, b),
           NEW n \in nodes, Fixed(b, n), NEW a \in Symbol
    PROVE  Guards(c.heap)[n][a] = Guards(b)[n][a]
  <1>0. PICK v \in Run : \E d \in Reach(v) :
           /\ v.start = b /\ v.left = u.left /\ v.right = u.right /\ ~v.stops
           /\ BlockIsTree(v) /\ d.depth = 0 /\ Reps(d.heap)[v.right] # None
           /\ AsBefore(b, d.heap)
    BY DEF Passed
  <1>1. /\ tree \in Trees /\ nodes \subseteq Node /\ BlockIsTree(u)
        /\ IdleHeap(b) /\ IdleHeap(c.heap) /\ Sound(u, c)
        /\ Reps(u.start) = Reps(b) /\ Finds(u.start) = Finds(b)
        /\ \A x \in Node : Finds(c.heap)[x] = Found(u, c.heap, x)
        /\ Finds(c.heap)[u.left] = Finds(c.heap)[u.right]
    BY RunFacts
  <1>2. PICK d \in Reach(v) :
           /\ v.start = b /\ v.left = u.left /\ v.right = u.right /\ ~v.stops
           /\ BlockIsTree(v) /\ d.depth = 0 /\ Reps(d.heap)[v.right] # None
           /\ AsBefore(b, d.heap)
    BY <1>0
  <1> PICK g, k : g = c.heap /\ k = d.heap
    OBVIOUS
  <1>3. /\ Congruence(Finds(k)) /\ Coarser(Finds(k), Finds(b))
        /\ Finds(k)[u.left] = Finds(k)[u.right]
        /\ Sound(v, d) /\ d.fresh = {} /\ NodesFound(k)
        /\ \A x \in Node : Finds(k)[x] = Found(v, k, x)
    BY <1>1, <1>2, EndPartition
  <1>4. Coarser(Finds(k), Finds(g))
    BY <1>3, RunLeast
  <1>5. \A x \in nodes : Finds(g)[Finds(k)[x]] = Finds(g)[x]
    <2>1. PICK e : e = Finds(g)
      OBVIOUS
    <2>2. Congruence(e) /\ Coarser(e, Finds(b)) /\ e[v.left] = e[v.right]
      BY <1>1, <1>2, <2>1, FoundCongruent DEF IdleHeap, Coarser, Found
    <2>3. Allowed(v, e)
      BY <1>2, <2>2 DEF Allowed
    <2>4. Agreeing(v, d, e)
      BY <1>1, <1>2, <2>3, AgreesRun
    <2>5. QED
      BY <1>1, <1>3, <2>1, <2>4 DEF Agreeing
  <1>6. Guards(u.start) = Guards(b) /\ Block(u) = Block(v)
    <2>1. Guards(u.start) = Guards(b)
      BY DEF RunsOn, Coloured, Guards
    <2>2. QED
      BY <1>2, <2>1 DEF Block
  <1>7. /\ \A x \in Block(u) : ~Reds(b)[x] /\ Reps(b)[x] = None
        /\ \A x \in Node \ Block(u) : Reps(g)[x] = Reps(b)[x] /\ Reps(k)[x] = Reps(b)[x]
    <2>1. RepsOK(u, c) /\ RepsOK(v, d)
      BY <1>1, <1>3 DEF Sound
    <2>2. QED
      BY <1>1, <1>2, <1>6, <2>1, RunStarts, BlockFacts DEF RepsOK
  <1> SUFFICES ASSUME Guards(g)[n][a] # Guards(b)[n][a]
               PROVE  FALSE
    OBVIOUS
  <1>8. PICK t : t = Guards(g)[n][a]
    OBVIOUS
  <1>9. /\ n \in Node /\ Guards(b)[n][a] = None /\ Reps(g)[n] = None
        /\ t \in Block(u) /\ tree.symbol[t] = a /\ Found(u, g, tree.source[t]) = n
    <2>1. GuardsOK(u, c)
      BY <1>1 DEF Sound
    <2>2. Adopted(u, c, n, a)
      BY <1>1, <1>6, <2>1 DEF GuardsOK
    <2>3. QED
      BY <1>1, <1>6, <1>8, <2>2 DEF Adopted
  <1>10. t \in nodes \ {Root} /\ tree.source[t] \in nodes
    <2>1. t \in tree.nodes \ {Root}
      BY <1>1, <1>9, BlockParents
    <2>2. QED
      BY <1>1, <2>1, TreeFacts DEF nodes
  <1>11. Finds(g)[n] = n /\ Finds(g)[tree.source[t]] = n
    BY <1>1, <1>9, <1>10, IdleFinds
  <1>12. CASE n \notin Block(u)
    <2>1. Reps(b)[n] = None /\ Reps(k)[n] = None
      BY <1>7, <1>9, <1>12
    <2>2. Finds(k)[n] = n
      <3>1. Finds(b)[n] = n
        BY <1>1, <1>9, <2>1, IdleFinds
      <3>2. QED
        BY <1>2, <1>3, <1>9, <2>1, <3>1 DEF Found
    <2>3. Finds(k)[tree.source[t]] = n
      BY <1>4, <1>10, <1>11, <2>2 DEF Coarser
    <2>4. Guards(k)[n][a] # None
      BY <1>3, <1>9, <1>10, <2>3 DEF NodesFound, Parent, nodes
    <2>5. Guards(k)[n] = Guards(b)[n]
      BY <1>2, <1>9 DEF AsBefore
    <2>6. QED
      BY <1>9, <2>4, <2>5
  <1>13. CASE n \in Block(u)
    <2>1. ALL_FIXED
      BY <1>7, <1>13 DEF Fixed
    <2>2. \A x \in Block(u) : Reps(k)[x] # None
      <3>1. \A x \in Node : Guards(k)[x] = Guards(b)[x]
        BY <1>2, <2>1 DEF AsBefore, Fixed
      <3>2. QED
        BY <1>2, <1>3, <1>6, <3>1, BlockMerged
    <2>3. PICK m : m = Finds(k)[n]
      OBVIOUS
    <2>4. m \in Node /\ Reps(k)[m] = None
      BY <1>2, <1>3, <1>9, <2>3, FoundEquation DEF Sound
    <2>5. m \notin Block(u)
      BY <2>2, <2>4
    <2>6. Reps(g)[m] = None
      BY <1>7, <2>4, <2>5
    <2>7. Finds(g)[m] = m
      BY <1>1, <2>4, <2>6, IdleFinds
    <2>8. m = n
      BY <1>5, <1>11, <2>3, <2>7
    <2>9. QED
      BY <1>13, <2>5, <2>8
  <1>14. QED
    BY <1>12, <1>13

\* Offers stay what they are while nothing is settled.
LEMMA PassedKept ==
    ASSUME offer # None => Passed(offer, settled), tree' = tree, settled' = settled,
           offer' = offer
    PROVE  offer' # None => Passed(offer, settled)'
  <1>1. PICK o, h : o = offer /\ h = settled
    OBVIOUS
  <1>2. Passed(o, h)' <=> Passed(o, h)
    BY PassedFixed
  <1>3. QED
    BY <1>1, <1>2

\* A step of a recursive call.
LEMMA CallFixed ==
    ASSUME TypeOK, Inv, Complete, FixedOK, MergeStep \/ UndoStep
    PROVE  FixedOK'
  <1>1. /\ UNCHANGED <<tree, op, ref, offer, done, before>> /\ stack # <<>>
    BY DEF MergeStep, MergeStop, MergeNodes, MergeAdopt, MergeChildren, MergeFind,
       MergeRecurse, MergeReturn, UndoStep, UndoSkip, UndoEnter, UndoAdopt,
       UndoChildren, UndoFind, UndoRecurse, UndoNodes, At
  <1>2. op # "idle" /\ settled' = settled
    BY <1>1 DEF Inv, ControlOK, settled
  <1>3. offer' # None => Passed(offer, settled)'
    BY <1>1, <1>2, PassedKept DEF FixedOK
  <1>4. ASSUME op = "do"
        PROVE  Passed(ref, before)'
    <2>1. PICK o, h : o = ref /\ h = before
      OBVIOUS
    <2>2. Passed(o, h)'
      BY <1>1, <1>4, <2>1, PassedFixed DEF FixedOK
    <2>3. QED
      BY <1>1, <2>1, <2>2
  <1>5. ASSUME op = "test"
        PROVE  \E v \in Run : Tests(v)' /\ (Follows(v)' \/ Broken')
    <2>1. PICK v \in Run : Tests(v) /\ (Follows(v) \/ Broken)
      BY <1>5 DEF FixedOK
    <2>2. Tests(v)'
      BY <1>1, <2>1, LawsFixed DEF Tests
    <2>3. MergeStep
      <3>1. PICK u \in Run : Operates(u)
        BY <1>2 DEF Inv, ControlOK
      <3>2. Performs(u)
        BY <1>5, <3>1 DEF Operates, Performing, Complete
      <3>3. QED
        BY <3>2, MergingOnly DEF Performs
    <2>4. QED
      BY <1>5, <2>1, <2>2, <2>3, FollowsStep, BrokenStep
  <1>6. QED
    BY <1>1, <1>3, <1>4, <1>5 DEF FixedOK

\* A test is called.
LEMMA TestMergeFixed ==
    ASSUME TypeOK, Inv, NEW r \in CandidateStates, NEW l \in MergeTargets(r), TestMerge(l, r)
    PROVE  FixedOK'
  <1>1. /\ op = "idle" /\ tree' = tree /\ heap' = heap
        /\ op' = "test" /\ ref' = [kind |-> "merge", red |-> l, blue |-> r, score |-> 0]
        /\ stack' = <<Call("merge", l, r, 0)>> /\ offer' = None /\ before' = heap
    BY DEF TestMerge
  <1>2. IdleHeap(heap) /\ heap \in Snapshot /\ tree \in Trees
    BY <1>1 DEF Inv, SettledOK, IdleHeap, TypeOK, AptaTypeOK, settled
  <1>3. MergeableIn(heap, l, r)
    BY <1>2, CandidatesMerge
  <1>4. l \in Node /\ r \in Node
    BY <1>2, <1>3, TreeFacts DEF MergeableIn
  <1>5. PICK u \in Run : u.start = heap /\ u.left = l /\ u.right = r /\ u.stops = TRUE
    <2>1. [start |-> heap, left |-> l, right |-> r, stops |-> TRUE] \in Run
      BY <1>2, <1>4 DEF Run
    <2>2. QED
      BY <2>1
  <1>6. PICK v \in Run : v.start = heap /\ v.left = l /\ v.right = r /\ v.stops = FALSE
    <2>1. [start |-> heap, left |-> l, right |-> r, stops |-> FALSE] \in Run
      BY <1>2, <1>4 DEF Run
    <2>2. QED
      BY <2>1
  <1>7. BlockIsTree(v)
    <2>1. RunsOn(u, heap)
      BY <1>2, <1>3, <1>5, ColouredSame DEF RunsOn
    <2>2. BlockIsTree(u)
      BY <2>1, RunStarts
    <2>3. v.start = u.start /\ v.left = u.left /\ v.right = u.right /\ Block(v) = Block(u)
      BY <1>5, <1>6 DEF Block
    <2>4. QED
      BY <2>2, <2>3 DEF BlockIsTree
  <1>8. Tests(v)'
    BY <1>1, <1>6, <1>7, LawsFixed DEF Tests
  <1>9. \E c \in Reach(v) : c.heap = heap' /\ MergeCalled(v, c, stack')
    <2>1. PICK c \in Reach(v) : c.heap = v.start /\ c.depth = 0
      BY <1>7, StartExists
    <2>2. MergeCalled(v, c, stack')
      BY <1>1, <1>6, <1>7, <2>1, BlockFacts, CalledOnce DEF MergeCalled
    <2>3. QED
      BY <1>1, <1>6, <2>1, <2>2
  <1>10. AsBefore(before, heap)' /\ AllServed(before, heap, stack)'
    BY <1>1 DEF AsBefore, AllServed, Served, Call
  <1>11. Follows(v)'
    BY <1>1, <1>9, <1>10 DEF Follows, Merging
  <1>12. QED
    BY <1>1, <1>6, <1>8, <1>11 DEF FixedOK

\* A test ends, is taken back, or its refinement is performed.
LEMMA TestedFixed ==
    ASSUME TypeOK, Inv, Complete, FixedOK, TestMergeDone \/ TestMergeUndone \/ DoMerge
    PROVE  FixedOK'
  <1>1. CASE TestMergeDone
    <2>1. /\ op = "test" /\ stack = <<>> /\ op' = "untest"
          /\ UNCHANGED <<tree, ref, before, heap, done>>
          /\ offer' = IF result /\ ~eval.inconsistent
                      THEN [ref EXCEPT !.score = eval.merges] ELSE None
      BY <1>1 DEF TestMergeDone, Complete
    <2>2. settled' = before /\ ref \in Refinement
      BY <2>1 DEF settled, TypeOK
    <2>3. ASSUME offer' # None
          PROVE  Passed(offer, settled)'
      <3>1. result /\ offer' = [ref EXCEPT !.score = eval.merges]
        BY <2>1, <2>3
      <3>2. offer'.red = ref.red /\ offer'.blue = ref.blue
        BY <2>2, <3>1 DEF Refinement
      <3>3. PICK v \in Run : Tests(v) /\ Follows(v)
        BY <2>1, <3>1 DEF FixedOK, Broken
      <3>4. PICK c \in Reach(v) : c.heap = heap /\ Merging(v, c, stack)
        BY <3>3 DEF Follows
      <3>5. c.depth = 0 /\ Reps(c.heap)[v.right] # None
        BY <2>1, <3>3, <3>4, MergingEnds DEF MergeEnded, Tests, Reach
      <3>6. PICK o, h : o = offer' /\ h = before
        OBVIOUS
      <3>7. Passed(o, h)
        BY <3>2, <3>3, <3>4, <3>5, <3>6 DEF Passed, Tests, Follows
      <3>8. Passed(o, h)'
        BY <2>1, <3>7, PassedFixed
      <3>9. QED
        BY <2>2, <3>6, <3>8
    <2>4. QED
      BY <2>1, <2>3 DEF FixedOK
  <1>2. CASE TestMergeUndone
    <2>1. op = "untest" /\ op' = "idle" /\ UNCHANGED <<tree, offer>>
      BY <1>2 DEF TestMergeUndone
    <2>2. heap' = before
      BY <1>2, TestMergeUndoneInv
    <2>3. settled' = settled
      BY <2>1, <2>2 DEF settled
    <2>4. QED
      BY <2>1, <2>3, PassedKept DEF FixedOK
  <1>3. CASE DoMerge
    <2>1. /\ op = "idle" /\ op' = "do" /\ tree' = tree /\ offer' = None
          /\ ref' = offer /\ before' = heap /\ offer # None
      BY <1>3 DEF DoMerge
    <2>2. settled = heap
      BY <2>1 DEF settled
    <2>3. PICK o, h : o = offer /\ h = heap
      OBVIOUS
    <2>4. Passed(o, h)
      BY <2>1, <2>2, <2>3 DEF FixedOK
    <2>5. Passed(o, h)'
      BY <2>1, <2>4, PassedFixed
    <2>6. QED
      BY <2>1, <2>3, <2>5 DEF FixedOK
  <1>4. QED
    BY <1>1, <1>2, <1>3

\* Nothing is offered or tested.
LEMMA OtherFixed ==
    ASSUME Inv, DoMergeDone \/ UndoMergeDone \/ UndoMerge \/ UndoExtend \/ \E b : DoExtend(b)
    PROVE  FixedOK'
  <1>1. offer' = None
    BY DEF Inv, ControlOK, DoMergeDone, UndoMergeDone, UndoMerge, UndoExtend, DoExtend
  <1>2. op' \in {"idle", "undo"}
    BY DEF DoMergeDone, UndoMergeDone, UndoMerge, UndoExtend, DoExtend
  <1>3. QED
    BY <1>1, <1>2 DEF FixedOK

\* Nothing happens.
LEMMA StutterFixed ==
    ASSUME FixedOK, UNCHANGED vars
    PROVE  FixedOK'
  <1>1. UNCHANGED <<tree, heap, op, ref, stack, result, offer, done, before>>
    BY DEF vars, control
  <1>2. offer' # None => Passed(offer, settled)'
    <2>1. settled' = settled
      BY <1>1 DEF settled
    <2>2. QED
      BY <1>1, <2>1, PassedKept DEF FixedOK
  <1>3. ASSUME op = "do"
        PROVE  Passed(ref, before)'
    <2>1. PICK o, h : o = ref /\ h = before
      OBVIOUS
    <2>2. Passed(o, h)'
      BY <1>1, <1>3, <2>1, PassedFixed DEF FixedOK
    <2>3. QED
      BY <1>1, <2>1, <2>2
  <1>4. ASSUME op = "test"
        PROVE  \E v \in Run : Tests(v)' /\ (Follows(v)' \/ Broken')
    <2>1. PICK v \in Run : Tests(v) /\ (Follows(v) \/ Broken)
      BY <1>4 DEF FixedOK
    <2>2. Tests(v)'
      BY <1>1, <2>1, LawsFixed DEF Tests
    <2>3. Broken => Broken'
      BY <1>1 DEF Broken
    <2>4. Follows(v) => Follows(v)'
      BY <1>1 DEF Follows
    <2>5. QED
      BY <2>1, <2>2, <2>3, <2>4
  <1>5. QED
    BY <1>1, <1>2, <1>3, <1>4 DEF FixedOK

\* So every merge that is performed has passed.
LEMMA NextFixed ==
    ASSUME TypeOK, Inv, Complete, FixedOK, [Next]_vars
    PROVE  FixedOK'
  <1>1. CASE UNCHANGED vars
    BY <1>1, StutterFixed
  <1>2. CASE MergeStep \/ UndoStep
    BY <1>2, CallFixed
  <1>3. CASE Finish
    BY <1>3, TestedFixed, OtherFixed DEF Finish
  <1>4. CASE Client
    BY <1>4, TestMergeFixed, TestedFixed, OtherFixed DEF Client
  <1>5. QED
    BY <1>1, <1>2, <1>3, <1>4 DEF Next, Engine

\* And adds no transition to a fixed state.
LEMMA StepFixed ==
    ASSUME TypeOK, Inv, FixedOK, [Next]_vars, op = "do", op' = "idle", NEW n \in nodes,
           (RED_FIXED /\ before[8][n]) \/ ALL_FIXED
    PROVE  child[n] = before[1][n]
  <1>1. op # "idle" /\ op' # op
    OBVIOUS
  <1>2. DoMergeDone
    BY <1>1 DEF Next, Engine, Finish, Client, TestMergeDone, TestMergeUndone, UndoMergeDone,
       MergeStep, MergeStop, MergeNodes, MergeAdopt, MergeChildren, MergeFind,
       MergeRecurse, MergeReturn, UndoStep, UndoSkip, UndoEnter, UndoAdopt,
       UndoChildren, UndoFind, UndoRecurse, UndoNodes, vars, control
  <1>3. stack = <<>>
    BY <1>2 DEF DoMergeDone
  <1>4. PICK u \in Run : /\ RunsOn(u, before) /\ ~u.stops
                         /\ u.left = ref.red /\ u.right = ref.blue
                         /\ \E c \in Reach(u) : Ends(u, c) /\ c.heap = heap
    BY <1>3, DoneRun
  <1>5. PICK c \in Reach(u) : Ends(u, c) /\ c.heap = heap
    BY <1>4
  <1>6. PICK o, b : o = ref /\ b = before
    OBVIOUS
  <1>7. Passed(o, b) /\ Fixed(b, n) /\ RunsOn(u, b) /\ o.red = u.left /\ o.blue = u.right
    BY <1>4, <1>6 DEF FixedOK, Fixed, Reds
  <1>8. \A a \in Symbol : Guards(c.heap)[n][a] = Guards(b)[n][a]
    BY <1>4, <1>5, <1>7, NoneAdded
  <1>9. n \in Node /\ Guards(b) \in [Node -> [Symbol -> Node \cup {None}]]
    BY <1>6, TreeFacts DEF TypeOK, AptaTypeOK, nodes, Snapshot, Guards
  <1>10. child \in [Node -> [Symbol -> Node \cup {None}]]
    BY DEF TypeOK, AptaTypeOK
  <1>11. \A a \in Symbol : child[n][a] = Guards(b)[n][a]
    BY <1>5, <1>8, HeapParts
  <1>12. child[n] = Guards(b)[n]
    BY <1>9, <1>10, <1>11
  <1>13. QED
    BY <1>6, <1>12 DEF Guards

\* --redfixed and --allfixed: "merges that add new transitions to red states are
\* considered inconsistent" (main.cpp:106).  Performing a merge adds none, with all
\* its folding, although fixed transitions are only looked at when it is tested.
THEOREM FixedTransitionsStay == Complete => (Spec => FixedTransitions)
  <1> SUFFICES ASSUME Complete PROVE Spec => FixedTransitions
    OBVIOUS
  <1>1. Init => FixedOK
    BY DEF Init, FixedOK
  <1>2. TypeOK /\ Inv /\ FixedOK /\ [Next]_vars => FixedOK'
    BY NextFixed
  <1>3. TypeOK /\ Inv /\ FixedOK /\ [Next]_vars
           => [op = "do" /\ op' = "idle" =>
                 \A n \in nodes :
                    (RED_FIXED /\ before[8][n]) \/ ALL_FIXED => child[n] = before[1][n]]_vars
    BY StepFixed
  <1>4. QED
    BY <1>1, <1>2, <1>3, EngineCorrect, PTL DEF Spec, FixedTransitions
=============================================================================
