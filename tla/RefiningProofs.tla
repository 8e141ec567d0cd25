--------------------------- MODULE RefiningProofs ---------------------------
(***************************************************************************)
(* What the running modes rely on, for every engine that satisfies the     *)
(* assumptions of Refining: a list of refinements is performed one by one  *)
(* and undone exactly, and a refinement_set in its order has each of its   *)
(* refinements once.                                                       *)
(***************************************************************************)
EXTENDS Refining, FiniteSetTheorems, SequenceTheorems, WellFoundedInduction, TLAPS

-----------------------------------------------------------------------------
(* Numbers and sequences.                                                  *)

\* A set of numbers has one whose predecessor is not in it.
LEMMA LeastNatural ==
    ASSUME NEW S \in SUBSET Nat, S # {}
    PROVE  \E n \in S : n - 1 \notin S
<1> DEFINE T == {0 .. n : n \in S}
<1>1. T \subseteq FiniteSubsetsOf(Nat) /\ T # {}
  <2>1. \A n \in S : 0 .. n \in SUBSET Nat /\ IsFiniteSet(0 .. n)
      BY FS_Interval
  <2> QED BY <2>1 DEF FiniteSubsetsOf
<1>2. IsWellFoundedOn(StrictSubsetOrdering(Nat), FiniteSubsetsOf(Nat))
    BY FS_StrictSubsetOrderingWellFounded
<1>3. \E x \in T : \A y \in T : <<y, x>> \notin StrictSubsetOrdering(Nat)
  <2> HIDE DEF T
  <2> QED BY <1>1, <1>2, WFMin
<1>4. PICK n \in S : \A m \in S : <<0 .. m, 0 .. n>> \notin StrictSubsetOrdering(Nat)
    BY <1>3
<1>5. n - 1 \in S => (0 .. (n - 1)) \subseteq (0 .. n) /\ n \notin (0 .. (n - 1)) /\ n \in 0 .. n
    OBVIOUS
<1>6. n - 1 \in S => <<0 .. (n - 1), 0 .. n>> \in StrictSubsetOrdering(Nat)
    BY <1>5 DEF StrictSubsetOrdering
<1> QED BY <1>4, <1>6

\* What a sequence was before its last element.
LEMMA FrontAndLast ==
    ASSUME NEW S, NEW w \in Seq(S), w # <<>>
    PROVE  /\ Front(w) \in Seq(S) /\ Len(Front(w)) = Len(w) - 1 /\ Last(w) \in S
           /\ w = Append(Front(w), Last(w))
<1> DEFINE n == Len(w)
           front == SubSeq(w, 1, n - 1)
<1>1. n \in Nat /\ n # 0
    BY EmptySeq
<1>2. front \in Seq(S) /\ Len(front) = n - 1
  <2>1. \A i \in 1 .. n - 1 : w[i] \in S
      BY <1>1, ElementOfSeq
  <2> HIDE DEF n
  <2> QED BY <1>1, <2>1, SubSeqProperties
<1>3. w[n] \in S
    BY <1>1, ElementOfSeq
<1>4. \A i \in 1 .. n - 1 : front[i] = w[i]
    BY <1>1
<1>5. front = Front(w) /\ w[n] = Last(w)
    BY DEF Front, Last
<1> HIDE DEF front
<1>6. /\ Append(front, w[n]) \in Seq(S) /\ Len(Append(front, w[n])) = n
      /\ \A i \in 1 .. n : Append(front, w[n])[i] = w[i]
    BY <1>1, <1>2, <1>3, <1>4
<1>7. w = Append(front, w[n])
    BY <1>3, <1>6, SeqEqual
<1> QED BY <1>1, <1>2, <1>3, <1>5, <1>7

\* A set of sequences that holds the empty one, and with a sequence all that
\* continue it, holds every sequence.
LEMMA SequencesByFront ==
    ASSUME NEW S, NEW P \in SUBSET Seq(S), <<>> \in P,
           \A w \in P : \A x \in S : Append(w, x) \in P
    PROVE  P = Seq(S)
<1> SUFFICES ASSUME NEW v \in Seq(S), v \notin P
             PROVE  FALSE
    OBVIOUS
<1> DEFINE Bad == {n \in Nat : \E w \in Seq(S) : w \notin P /\ Len(w) = n}
<1>1. Bad \in SUBSET Nat /\ Bad # {}
  <2>1. Len(v) \in Nat
      BY LenProperties
  <2> QED BY <2>1
<1>2. PICK n \in Bad : n - 1 \notin Bad
  <2> HIDE DEF Bad
  <2> QED BY <1>1, LeastNatural
<1>3. PICK w \in Seq(S) : w \notin P /\ Len(w) = n
    OBVIOUS
<1>4. w # <<>> /\ n \in Nat
    BY <1>3
<1>5. /\ Front(w) \in Seq(S) /\ Len(Front(w)) = n - 1 /\ Last(w) \in S
      /\ w = Append(Front(w), Last(w))
    BY <1>3, <1>4, FrontAndLast
<1>6. Len(Front(w)) \in Nat
    BY <1>5, LenProperties
<1>7. Front(w) \in P
    BY <1>2, <1>5, <1>6
<1> QED BY <1>3, <1>5, <1>7

\* The beginnings of a sequence are those of every sequence that continues it.
LEMMA SubSeqOfAppend ==
    ASSUME NEW S, NEW w \in Seq(S), NEW x \in S
    PROVE  /\ Append(w, x) \in Seq(S) /\ Len(Append(w, x)) = Len(w) + 1 /\ Len(w) \in Nat
           /\ \A i \in 1 .. Len(w) : Append(w, x)[i] = w[i]
           /\ Append(w, x)[Len(w) + 1] = x
           /\ \A n \in 0 .. Len(w) : SubSeq(Append(w, x), 1, n) = SubSeq(w, 1, n)
           /\ SubSeq(w, 1, Len(w)) = w
           /\ SubSeq(w, 1, 0) = <<>>
<1> DEFINE longer == Append(w, x)
<1>1. /\ longer \in Seq(S) /\ Len(longer) = Len(w) + 1 /\ Len(w) \in Nat
      /\ \A i \in 1 .. Len(w) : longer[i] = w[i]
      /\ longer[Len(w) + 1] = x
    OBVIOUS
<1>2. \A n \in 0 .. Len(w) : SubSeq(longer, 1, n) = SubSeq(w, 1, n)
  <2> SUFFICES ASSUME NEW n \in 0 .. Len(w)
               PROVE  SubSeq(longer, 1, n) = SubSeq(w, 1, n)
      OBVIOUS
  <2>1. /\ SubSeq(longer, 1, n) = [i \in 1 .. n |-> longer[i]]
        /\ SubSeq(w, 1, n) = [i \in 1 .. n |-> w[i]]
      OBVIOUS
  <2> QED BY <1>1, <2>1
<1>3. SubSeq(w, 1, Len(w)) = w
    BY SubSeqFull
<1>4. SubSeq(w, 1, 0) = <<>>
    BY SubSeqEmpty
<1> QED BY <1>1, <1>2, <1>3, <1>4

\* A beginning of a sequence and the next element are its next beginning.
LEMMA BeginningGrows ==
    ASSUME NEW S, NEW w \in Seq(S), NEW n \in 0 .. Len(w)
    PROVE  /\ SubSeq(w, 1, n) \in Seq(S) /\ Len(SubSeq(w, 1, n)) = n
           /\ \A j \in 1 .. n : SubSeq(w, 1, n)[j] = w[j]
           /\ n # Len(w) => /\ n + 1 \in 1 .. Len(w) /\ w[n + 1] \in S
                            /\ SubSeq(w, 1, n + 1) = Append(SubSeq(w, 1, n), w[n + 1])
<1>1. Len(w) \in Nat /\ \A j \in 1 .. Len(w) : w[j] \in S
    BY LenProperties, ElementOfSeq
<1>2. ASSUME NEW h \in 0 .. Len(w)
      PROVE  /\ SubSeq(w, 1, h) \in Seq(S) /\ Len(SubSeq(w, 1, h)) = h
             /\ \A j \in 1 .. h : SubSeq(w, 1, h)[j] = w[j]
  <2>1. h \in Int /\ 1 \in Int /\ (1 .. h) \subseteq 1 .. Len(w) /\ h \in Nat
      BY <1>1
  <2>2. \A j \in 1 .. h : w[j] \in S
      BY <1>1, <2>1
  <2>3. /\ SubSeq(w, 1, h) \in Seq(S)
        /\ Len(SubSeq(w, 1, h)) = IF 1 <= h THEN h - 1 + 1 ELSE 0
        /\ \A j \in 1 .. h - 1 + 1 : SubSeq(w, 1, h)[j] = w[1 + j - 1]
      BY <2>1, <2>2, SubSeqProperties
  <2>4. \A j \in 1 .. h : j \in 1 .. h - 1 + 1 /\ 1 + j - 1 = j
      BY <2>1
  <2>5. (IF 1 <= h THEN h - 1 + 1 ELSE 0) = h
      BY <2>1
  <2> QED BY <2>3, <2>4, <2>5
<1>3. CASE n # Len(w)
  <2>1. n + 1 \in 0 .. Len(w) /\ n + 1 \in 1 .. Len(w)
      BY <1>1, <1>3
  <2> DEFINE short == SubSeq(w, 1, n)
             long == SubSeq(w, 1, n + 1)
  <2>2. /\ short \in Seq(S) /\ Len(short) = n /\ \A j \in 1 .. n : short[j] = w[j]
        /\ long \in Seq(S) /\ Len(long) = n + 1 /\ \A j \in 1 .. n + 1 : long[j] = w[j]
        /\ w[n + 1] \in S
      BY <1>1, <1>2, <2>1
  <2> HIDE DEF short, long
  <2>3. /\ Append(short, w[n + 1]) \in Seq(S) /\ Len(Append(short, w[n + 1])) = n + 1
        /\ \A j \in 1 .. n + 1 : Append(short, w[n + 1])[j] = w[j]
      BY <2>2
  <2>4. long = Append(short, w[n + 1])
      BY <2>2, <2>3, SeqEqual
  <2> QED BY <1>2, <2>1, <2>2, <2>4 DEF short, long
<1> QED BY <1>2, <1>3

\* A continued sequence is continued at its end.
LEMMA AppendToConcat ==
    ASSUME NEW S, NEW v \in Seq(S), NEW w \in Seq(S), NEW x \in S
    PROVE  /\ Append(w, x) \in Seq(S) /\ v \o w \in Seq(S)
           /\ v \o Append(w, x) = Append(v \o w, x)
<1>1. Append(w, x) \in Seq(S) /\ v \o w \in Seq(S)
    OBVIOUS
<1>2. v \o Append(w, x) \in Seq(S) /\ Append(v \o w, x) \in Seq(S)
    OBVIOUS
<1>3. Len(v \o Append(w, x)) = Len(Append(v \o w, x))
    OBVIOUS
<1>4. \A j \in 1 .. Len(v \o Append(w, x)) : (v \o Append(w, x))[j] = Append(v \o w, x)[j]
    OBVIOUS
<1> QED BY <1>1, <1>2, <1>3, <1>4, SeqEqual

-----------------------------------------------------------------------------
(* Lists of refinements performed and undone.                              *)

\* The automata a list goes through: k first, and each made of the one before.
DoingFrom(f, k, list) ==
    /\ f[0] = k
    /\ \A i \in 1 .. Len(list) : f[i] = DoRef(f[i - 1], list[i])

\* Whatever goes through these automata ends where DoAll does.
LEMMA DoAllIs ==
    ASSUME NEW S, NEW list \in Seq(S), NEW k
    PROVE  /\ \E f : DoingFrom(f, k, list)
           /\ \A f : DoingFrom(f, k, list) => DoAll(k, list) = f[Len(list)]
<1> DEFINE n == Len(list)
           rec(f, j) == f = [i \in 0 .. j |-> IF i = 0 THEN k ELSE DoRef(f[i - 1], list[i])]
<1>1. n \in Nat
    BY LenProperties
<1>2. \A j \in 0 .. n : \E f : rec(f, j)
  <2> SUFFICES ASSUME NEW j0 \in 0 .. n, ~\E f : rec(f, j0)
               PROVE  FALSE
      OBVIOUS
  <2> DEFINE Bad == {j \in 0 .. n : ~\E f : rec(f, j)}
  <2>1. Bad \in SUBSET Nat /\ Bad # {}
      OBVIOUS
  <2>2. PICK j \in Bad : j - 1 \notin Bad
    <3> HIDE DEF Bad
    <3> QED BY <2>1, LeastNatural
  <2>3. j # 0
    <3>1. rec([i \in 0 .. 0 |-> k], 0)
        OBVIOUS
    <3> QED BY <3>1
  <2>4. j - 1 \in 0 .. n /\ j \in Nat
      BY <1>1, <2>3
  <2>5. PICK f : rec(f, j - 1)
      BY <2>2, <2>4
  <2> DEFINE g == [i \in 0 .. j |-> IF i = j THEN DoRef(f[j - 1], list[j]) ELSE f[i]]
  <2>6. rec(g, j)
    <3>1. \A i \in 0 .. j - 1 : f[i] = IF i = 0 THEN k ELSE DoRef(f[i - 1], list[i])
        BY <2>4, <2>5
    <3>2. \A i \in 0 .. j - 1 : g[i] = f[i]
        BY <2>4
    <3>3. g[j] = DoRef(f[j - 1], list[j]) /\ j - 1 \in 0 .. j - 1
        BY <2>3, <2>4
    <3>4. \A i \in 0 .. j : g[i] = IF i = 0 THEN k ELSE DoRef(g[i - 1], list[i])
      <4> SUFFICES ASSUME NEW i \in 0 .. j
                   PROVE  g[i] = IF i = 0 THEN k ELSE DoRef(g[i - 1], list[i])
          OBVIOUS
      <4>1. CASE i = j
          BY <2>3, <3>2, <3>3, <4>1
      <4>2. CASE i # j
        <5>1. i \in 0 .. j - 1 /\ (i # 0 => i - 1 \in 0 .. j - 1)
            BY <2>4, <4>2
        <5> HIDE DEF g
        <5> QED BY <3>1, <3>2, <5>1
      <4> QED BY <4>1, <4>2
    <3> QED BY <3>4
  <2> QED BY <2>2, <2>6
<1> DEFINE after == CHOOSE f : rec(f, n)
<1>3. rec(after, n)
    BY <1>1, <1>2
<1>4. DoAll(k, list) = after[n]
    BY DEF DoAll
<1> HIDE DEF after
<1>5. /\ after[0] = k
      /\ \A i \in 1 .. n : after[i] = DoRef(after[i - 1], list[i])
  <2>1. \A i \in 0 .. n : after[i] = IF i = 0 THEN k ELSE DoRef(after[i - 1], list[i])
      BY <1>3
  <2> QED BY <1>1, <2>1
<1>6. ASSUME NEW f, DoingFrom(f, k, list)
      PROVE  f[n] = after[n]
  <2> SUFFICES ASSUME f[n] # after[n]
               PROVE  FALSE
      OBVIOUS
  <2> DEFINE Bad == {j \in 0 .. n : f[j] # after[j]}
  <2>1. Bad \in SUBSET Nat /\ Bad # {}
      BY <1>1
  <2>2. PICK j \in Bad : j - 1 \notin Bad
    <3> HIDE DEF Bad
    <3> QED BY <2>1, LeastNatural
  <2>3. j # 0
      BY <1>5, <1>6 DEF DoingFrom
  <2>4. j \in 1 .. n /\ j - 1 \in 0 .. n
      BY <1>1, <2>3
  <2>5. f[j - 1] = after[j - 1]
      BY <2>2, <2>4
  <2>6. f[j] = DoRef(f[j - 1], list[j])
      BY <1>6, <2>4 DEF DoingFrom
  <2> QED BY <1>5, <2>4, <2>5, <2>6
<1>7. DoingFrom(after, k, list)
    BY <1>5 DEF DoingFrom
<1> QED BY <1>4, <1>6, <1>7

\* Nothing performed changes nothing; one refinement more is performed on what the
\* others made.
LEMMA DoAllStep ==
    ASSUME NEW S, NEW list \in Seq(S), NEW x \in S, NEW k
    PROVE  /\ DoAll(k, <<>>) = k
           /\ DoAll(k, Append(list, x)) = DoRef(DoAll(k, list), x)
<1> DEFINE longer == Append(list, x)
           n == Len(list)
<1>1. /\ longer \in Seq(S) /\ Len(longer) = n + 1 /\ n \in Nat
      /\ \A i \in 1 .. n : longer[i] = list[i]
      /\ longer[n + 1] = x
    BY SubSeqOfAppend
<1>2. DoAll(k, <<>>) = k
  <2>1. <<>> \in Seq(S) /\ Len(<<>>) = 0
      OBVIOUS
  <2>2. PICK f : DoingFrom(f, k, <<>>)
      BY <2>1, DoAllIs
  <2>3. DoAll(k, <<>>) = f[Len(<<>>)]
      BY <2>1, <2>2, DoAllIs
  <2> QED BY <2>1, <2>2, <2>3 DEF DoingFrom
<1>3. PICK f : DoingFrom(f, k, longer)
    BY <1>1, DoAllIs
<1>4. DoAll(k, longer) = f[n + 1]
    BY <1>1, <1>3, DoAllIs
<1>5. f[n + 1] = DoRef(f[n], x)
  <2>1. n + 1 \in 1 .. Len(longer) /\ n + 1 - 1 = n
      BY <1>1
  <2>2. f[n + 1] = DoRef(f[n + 1 - 1], longer[n + 1])
      BY <1>3, <2>1 DEF DoingFrom
  <2> QED BY <1>1, <2>1, <2>2
<1>6. DoingFrom(f, k, list)
  <2>1. \A i \in 1 .. n : i \in 1 .. Len(longer) /\ longer[i] = list[i]
      BY <1>1
  <2> HIDE DEF longer
  <2> QED BY <1>3, <2>1 DEF DoingFrom
<1>7. DoAll(k, list) = f[n]
    BY <1>6, DoAllIs
<1> QED BY <1>2, <1>4, <1>5, <1>7

\* The automata when the list is undone from its end.
UndoingFrom(f, k, list) ==
    /\ f[0] = k
    /\ \A i \in 1 .. Len(list) : f[i] = UndoRef(f[i - 1], list[Len(list) + 1 - i])

\* Whatever goes through these automata ends where UndoAll does.
LEMMA UndoAllIs ==
    ASSUME NEW S, NEW list \in Seq(S), NEW k
    PROVE  /\ \E f : UndoingFrom(f, k, list)
           /\ \A f : UndoingFrom(f, k, list) => UndoAll(k, list) = f[Len(list)]
<1> DEFINE n == Len(list)
           rec(f, j) == f = [i \in 0 .. j |-> IF i = 0 THEN k ELSE UndoRef(f[i - 1], list[n + 1 - i])]
<1>1. n \in Nat
    BY LenProperties
<1>2. \A j \in 0 .. n : \E f : rec(f, j)
  <2> SUFFICES ASSUME NEW j0 \in 0 .. n, ~\E f : rec(f, j0)
               PROVE  FALSE
      OBVIOUS
  <2> DEFINE Bad == {j \in 0 .. n : ~\E f : rec(f, j)}
  <2>1. Bad \in SUBSET Nat /\ Bad # {}
      OBVIOUS
  <2>2. PICK j \in Bad : j - 1 \notin Bad
    <3> HIDE DEF Bad
    <3> QED BY <2>1, LeastNatural
  <2>3. j # 0
    <3>1. rec([i \in 0 .. 0 |-> k], 0)
        OBVIOUS
    <3> QED BY <3>1
  <2>4. j - 1 \in 0 .. n /\ j \in Nat
      BY <1>1, <2>3
  <2>5. PICK f : rec(f, j - 1)
      BY <2>2, <2>4
  <2> DEFINE g == [i \in 0 .. j |-> IF i = j THEN UndoRef(f[j - 1], list[n + 1 - j]) ELSE f[i]]
  <2>6. rec(g, j)
    <3>1. \A i \in 0 .. j - 1 : f[i] = IF i = 0 THEN k ELSE UndoRef(f[i - 1], list[n + 1 - i])
        BY <2>4, <2>5
    <3>2. \A i \in 0 .. j - 1 : g[i] = f[i]
        BY <2>4
    <3>3. g[j] = UndoRef(f[j - 1], list[n + 1 - j]) /\ j - 1 \in 0 .. j - 1
        BY <2>3, <2>4
    <3>4. \A i \in 0 .. j : g[i] = IF i = 0 THEN k ELSE UndoRef(g[i - 1], list[n + 1 - i])
      <4> SUFFICES ASSUME NEW i \in 0 .. j
                   PROVE  g[i] = IF i = 0 THEN k ELSE UndoRef(g[i - 1], list[n + 1 - i])
          OBVIOUS
      <4>1. CASE i = j
          BY <2>3, <3>2, <3>3, <4>1
      <4>2. CASE i # j
        <5>1. i \in 0 .. j - 1 /\ (i # 0 => i - 1 \in 0 .. j - 1)
            BY <2>4, <4>2
        <5> HIDE DEF g
        <5> QED BY <3>1, <3>2, <5>1
      <4> QED BY <4>1, <4>2
    <3> QED BY <3>4
  <2> QED BY <2>2, <2>6
<1> DEFINE after == CHOOSE f : rec(f, n)
<1>3. rec(after, n)
    BY <1>1, <1>2
<1>4. UndoAll(k, list) = after[n]
    BY DEF UndoAll
<1> HIDE DEF after
<1>5. /\ after[0] = k
      /\ \A i \in 1 .. n : after[i] = UndoRef(after[i - 1], list[n + 1 - i])
  <2>1. \A i \in 0 .. n : after[i] = IF i = 0 THEN k ELSE UndoRef(after[i - 1], list[n + 1 - i])
      BY <1>3
  <2> QED BY <1>1, <2>1
<1>6. ASSUME NEW f, UndoingFrom(f, k, list)
      PROVE  f[n] = after[n]
  <2> SUFFICES ASSUME f[n] # after[n]
               PROVE  FALSE
      OBVIOUS
  <2> DEFINE Bad == {j \in 0 .. n : f[j] # after[j]}
  <2>1. Bad \in SUBSET Nat /\ Bad # {}
      BY <1>1
  <2>2. PICK j \in Bad : j - 1 \notin Bad
    <3> HIDE DEF Bad
    <3> QED BY <2>1, LeastNatural
  <2>3. j # 0
      BY <1>5, <1>6 DEF UndoingFrom
  <2>4. j \in 1 .. n /\ j - 1 \in 0 .. n
      BY <1>1, <2>3
  <2>5. f[j - 1] = after[j - 1]
      BY <2>2, <2>4
  <2>6. f[j] = UndoRef(f[j - 1], list[n + 1 - j])
      BY <1>6, <2>4 DEF UndoingFrom
  <2> QED BY <1>5, <2>4, <2>5, <2>6
<1>7. UndoingFrom(after, k, list)
    BY <1>5 DEF UndoingFrom
<1> QED BY <1>4, <1>6, <1>7


\* The refinement that was performed last is undone first, then the others.
LEMMA UndoAllStep ==
    ASSUME NEW S, NEW list \in Seq(S), NEW x \in S, NEW k
    PROVE  /\ UndoAll(k, <<>>) = k
           /\ UndoAll(k, Append(list, x)) = UndoAll(UndoRef(k, x), list)
<1> DEFINE longer == Append(list, x)
           n == Len(list)
<1>1. /\ longer \in Seq(S) /\ Len(longer) = n + 1 /\ n \in Nat
      /\ \A i \in 1 .. n : longer[i] = list[i]
      /\ longer[n + 1] = x
    BY SubSeqOfAppend
<1>2. UndoAll(k, <<>>) = k
  <2>1. <<>> \in Seq(S) /\ Len(<<>>) = 0
      OBVIOUS
  <2>2. PICK f : UndoingFrom(f, k, <<>>)
      BY <2>1, UndoAllIs
  <2>3. UndoAll(k, <<>>) = f[Len(<<>>)]
      BY <2>1, <2>2, UndoAllIs
  <2> QED BY <2>1, <2>2, <2>3 DEF UndoingFrom
<1>3. PICK f : UndoingFrom(f, k, longer)
    BY <1>1, UndoAllIs
<1>4. UndoAll(k, longer) = f[n + 1]
    BY <1>1, <1>3, UndoAllIs
<1>5. /\ f[0] = k
      /\ \A i \in 1 .. n + 1 : f[i] = UndoRef(f[i - 1], longer[n + 1 + 1 - i])
  <2> HIDE DEF longer
  <2> QED BY <1>1, <1>3 DEF UndoingFrom
<1> DEFINE g == [i \in 0 .. n |-> f[i + 1]]
<1>6. UndoingFrom(g, UndoRef(k, x), list)
  <2>1. g[0] = UndoRef(k, x)
    <3>1. 1 \in 1 .. n + 1 /\ 1 - 1 = 0 /\ n + 1 + 1 - 1 = n + 1 /\ g[0] = f[1]
        BY <1>1
    <3> HIDE DEF longer, g
    <3> QED BY <1>1, <1>5, <3>1
  <2>2. ASSUME NEW i \in 1 .. n
        PROVE  g[i] = UndoRef(g[i - 1], list[n + 1 - i])
    <3>1. /\ i + 1 \in 1 .. n + 1 /\ i + 1 - 1 = i /\ n + 1 + 1 - (i + 1) = n + 1 - i
          /\ n + 1 - i \in 1 .. n
        BY <1>1
    <3>2. g[i] = f[i + 1] /\ g[i - 1] = f[i]
        BY <1>1
    <3> HIDE DEF longer, g
    <3>3. f[i + 1] = UndoRef(f[i + 1 - 1], longer[n + 1 + 1 - (i + 1)])
        BY <1>5, <3>1
    <3>4. longer[n + 1 - i] = list[n + 1 - i]
        BY <1>1, <3>1
    <3> QED BY <3>1, <3>2, <3>3, <3>4
  <2> QED BY <2>1, <2>2 DEF UndoingFrom
<1>7. UndoAll(UndoRef(k, x), list) = g[n] /\ g[n] = f[n + 1]
  <2>1. g[n] = f[n + 1]
      BY <1>1
  <2> HIDE DEF g
  <2> QED BY <1>6, <2>1, UndoAllIs
<1> QED BY <1>2, <1>4, <1>7

\* Nothing performed or undone changes nothing.
LEMMA DoNothing ==
    ASSUME NEW k
    PROVE  DoAll(k, <<>>) = k /\ UndoAll(k, <<>>) = k
<1>1. <<>> \in Seq({k}) /\ k \in {k}
    OBVIOUS
<1> QED BY <1>1, DoAllStep, UndoAllStep

-----------------------------------------------------------------------------
(* Lists whose refinements pass their tests one after the other.           *)

\* What a list makes of the prefix tree of an input.
Replayed(i, list) == DoAll(NewApta(i.tree), list)

\* Some options the run may have let the refinement pass its test.
PassesAfter(i, list, x) == \E o \in Settings(i) : TestRef(o, Replayed(i, list), x)

\* Every refinement passes its test where it is performed.
Performable(i, list) ==
    /\ list \in Seq(Refinements[i])
    /\ \A j \in 1 .. Len(list) : PassesAfter(i, SubSeq(list, 1, j - 1), list[j])

\* A list can be continued by what passes its test at its end.
LEMMA PerformableStep ==
    ASSUME NEW i \in Inputs, NEW list \in Seq(Refinements[i]), NEW x \in Refinements[i]
    PROVE  /\ Performable(i, <<>>)
           /\ Performable(i, Append(list, x)) <=>
                 Performable(i, list) /\ PassesAfter(i, list, x)
<1> DEFINE longer == Append(list, x)
           n == Len(list)
<1>1. /\ longer \in Seq(Refinements[i]) /\ Len(longer) = n + 1 /\ n \in Nat
      /\ \A j \in 1 .. n : longer[j] = list[j]
      /\ longer[n + 1] = x
      /\ \A j \in 0 .. n : SubSeq(longer, 1, j) = SubSeq(list, 1, j)
      /\ SubSeq(list, 1, n) = list
    BY SubSeqOfAppend
<1>2. Performable(i, <<>>)
    BY DEF Performable
<1> HIDE DEF longer, n
<1>3. \A j \in 1 .. n : SubSeq(longer, 1, j - 1) = SubSeq(list, 1, j - 1)
    BY <1>1
<1>4. SubSeq(longer, 1, (n + 1) - 1) = list
    BY <1>1
<1>5. 1 .. n + 1 = 1 .. n \cup {n + 1}
    BY <1>1
<1>6. Performable(i, longer) <=>
         \A j \in 1 .. n + 1 : PassesAfter(i, SubSeq(longer, 1, j - 1), longer[j])
    BY <1>1 DEF Performable
<1>7. Performable(i, list) <=>
         \A j \in 1 .. n : PassesAfter(i, SubSeq(list, 1, j - 1), list[j])
    BY DEF Performable, n
<1>8. PassesAfter(i, SubSeq(longer, 1, (n + 1) - 1), longer[n + 1]) <=> PassesAfter(i, list, x)
    BY <1>1, <1>4
<1>9. Performable(i, longer) <=> Performable(i, list) /\ PassesAfter(i, list, x)
    BY <1>1, <1>3, <1>5, <1>6, <1>7, <1>8
<1> QED BY <1>2, <1>9 DEF longer

\* It makes an automaton of the run.
LEMMA ReplayedIsMade ==
    ASSUME NEW i \in Inputs, NEW list, Performable(i, list)
    PROVE  Replayed(i, list) \in Automata[i]
<1> DEFINE R == Refinements[i]
           P == {w \in Seq(R) : Performable(i, w) => Replayed(i, w) \in Automata[i]}
<1>1. <<>> \in P
  <2>1. Replayed(i, <<>>) = NewApta(i.tree)
      BY DoNothing DEF Replayed
  <2> QED BY <2>1, InputsAssumption
<1>2. ASSUME NEW w \in P, NEW x \in R
      PROVE  Append(w, x) \in P
  <2>1. Append(w, x) \in Seq(R)
      OBVIOUS
  <2>2. ASSUME Performable(i, Append(w, x))
        PROVE  Replayed(i, Append(w, x)) \in Automata[i]
    <3>1. Performable(i, w) /\ \E o \in Settings(i) : TestRef(o, Replayed(i, w), x)
        BY <2>2, PerformableStep DEF PassesAfter
    <3>2. Replayed(i, w) \in Automata[i]
        BY <3>1
    <3>3. DoRef(Replayed(i, w), x) \in Automata[i]
        BY <3>1, <3>2, UndoAssumption
    <3> QED BY <3>3, DoAllStep DEF Replayed
  <2> QED BY <2>1, <2>2
<1>3. P = Seq(R)
  <2>1. P \in SUBSET Seq(R)
      OBVIOUS
  <2> HIDE DEF P
  <2> QED BY <1>1, <1>2, <2>1, SequencesByFront
<1>4. list \in Seq(R)
    BY DEF Performable
<1> QED BY <1>3, <1>4

\* Undoing the end of a list leads back to what the rest of it makes.
THEOREM UndoneExactly ==
    ASSUME NEW i \in Inputs, NEW a \in Seq(Refinements[i]), NEW b \in Seq(Refinements[i]),
           Performable(i, a \o b)
    PROVE  /\ UndoAll(Replayed(i, a \o b), b) = Replayed(i, a)
           /\ Performable(i, a)
<1> DEFINE R == Refinements[i]
           P == {w \in Seq(R) : Performable(i, a \o w) =>
                                   /\ UndoAll(Replayed(i, a \o w), w) = Replayed(i, a)
                                   /\ Performable(i, a)}
<1>1. <<>> \in P
  <2>1. <<>> \in Seq(R) /\ a \o <<>> = a
      BY ConcatEmptySeq
  <2>2. UndoAll(Replayed(i, a), <<>>) = Replayed(i, a)
      BY DoNothing
  <2> QED BY <2>1, <2>2
<1>2. ASSUME NEW w \in P, NEW x \in R
      PROVE  Append(w, x) \in P
  <2>1. /\ Append(w, x) \in Seq(R) /\ a \o w \in Seq(R)
        /\ a \o Append(w, x) = Append(a \o w, x)
      BY AppendToConcat
  <2>2. ASSUME Performable(i, Append(a \o w, x))
        PROVE  UndoAll(Replayed(i, Append(a \o w, x)), Append(w, x)) = Replayed(i, a)
               /\ Performable(i, a)
    <3>1. Performable(i, a \o w) /\ \E o \in Settings(i) : TestRef(o, Replayed(i, a \o w), x)
        BY <2>1, <2>2, PerformableStep DEF PassesAfter
    <3>2. Replayed(i, a \o w) \in Automata[i]
        BY <3>1, ReplayedIsMade
    <3>3. UndoRef(DoRef(Replayed(i, a \o w), x), x) = Replayed(i, a \o w)
        BY <3>1, <3>2, UndoAssumption
    <3>4. Replayed(i, Append(a \o w, x)) = DoRef(Replayed(i, a \o w), x)
        BY <2>1, DoAllStep DEF Replayed
    <3>5. UndoAll(Replayed(i, Append(a \o w, x)), Append(w, x))
             = UndoAll(Replayed(i, a \o w), w)
        BY <3>3, <3>4, UndoAllStep
    <3> QED BY <3>1, <3>5
  <2> QED BY <2>1, <2>2
<1>3. P = Seq(R)
  <2>1. P \in SUBSET Seq(R)
      OBVIOUS
  <2> HIDE DEF P
  <2> QED BY <1>1, <1>2, <2>1, SequencesByFront
<1> QED BY <1>3

-----------------------------------------------------------------------------
(* A refinement_set in its order.                                          *)

\* The order of a refinement_set, in which any two of its refinements differ.
Ordered(S) ==
    /\ IsFiniteSet(S)
    /\ \A x \in S : x.score \in Int /\ x.size \in Int
    /\ \A x, y \in S : x = y \/ Better(x, y) \/ Better(y, x)

\* Each refinement is met once, at the place that says how many are better.
LEMMA InOrderIsOrder ==
    ASSUME NEW S, Ordered(S)
    PROVE  /\ InOrder(S) \in Seq(S) /\ IsInjective(InOrder(S)) /\ ToSet(InOrder(S)) = S
           /\ InOrder(S) = <<>> <=> S = {}
<1> DEFINE n == Cardinality(S)
           above(x) == {y \in S : Better(y, x)}
           rank == [x \in S |-> Cardinality(above(x))]
           s == InOrder(S)
<1>1. n \in Nat /\ IsFiniteSet(S)
    BY FS_CardinalityType DEF Ordered
<1>2. \A x \in S : IsFiniteSet(above(x)) /\ Cardinality(above(x)) \in Nat
  <2>1. \A x \in S : above(x) \in SUBSET S
      OBVIOUS
  <2> HIDE DEF above
  <2> QED BY <1>1, <2>1, FS_Subset, FS_CardinalityType
<1>3. \A x \in S : rank[x] \in 0 .. n - 1
  <2> SUFFICES ASSUME NEW x \in S PROVE Cardinality(above(x)) \in 0 .. n - 1
      OBVIOUS
  <2>1. ~Better(x, x)
      BY DEF Ordered, Better
  <2>2. above(x) \in SUBSET S /\ above(x) # S
      BY <2>1
  <2> HIDE DEF above
  <2>3. Cardinality(above(x)) <= n /\ Cardinality(above(x)) # n
      BY <1>1, <2>2, FS_Subset
  <2> QED BY <1>1, <1>2, <2>3
<1>4. \A x, y \in S : Better(x, y) => rank[x] # rank[y]
  <2> SUFFICES ASSUME NEW x \in S, NEW y \in S, Better(x, y)
               PROVE  Cardinality(above(x)) # Cardinality(above(y))
      OBVIOUS
  <2>1. \A z \in S : Better(z, x) => Better(z, y)
      BY DEF Ordered, Better
  <2>2. ~Better(x, x)
      BY DEF Ordered, Better
  <2>3. above(x) \in SUBSET above(y) /\ above(x) # above(y)
      BY <2>1, <2>2
  <2>4. IsFiniteSet(above(y))
      BY <1>2
  <2> HIDE DEF above
  <2> QED BY <2>3, <2>4, FS_Subset
<1>5. \A x, y \in S : rank[x] = rank[y] => x = y
    BY <1>4 DEF Ordered
<1>6. \A r \in 0 .. n - 1 : \E x \in S : rank[x] = r
  <2> HIDE DEF rank
  <2>1. rank \in [S -> 0 .. n - 1]
    <3>1. rank = [x \in S |-> rank[x]]
        BY DEF rank
    <3> QED BY <1>3, <3>1
  <2>2. rank \in Injection(S, 0 .. n - 1)
      BY <1>5, <2>1 DEF Injection, IsInjective
  <2>3. IsFiniteSet(0 .. n - 1) /\ Cardinality(0 .. n - 1) = n
    <3>1. 0 \in Int /\ n - 1 \in Int
        BY <1>1
    <3>2. /\ IsFiniteSet(0 .. n - 1)
          /\ Cardinality(0 .. n - 1) = IF 0 > n - 1 THEN 0 ELSE n - 1 - 0 + 1
        BY <3>1, FS_Interval
    <3> QED BY <1>1, <3>2
  <2>4. rank \in Surjection(S, 0 .. n - 1)
      BY <2>2, <2>3, FS_Injection
  <2> QED BY <2>4 DEF Surjection
<1>7. s = [k \in 1 .. n |-> CHOOSE x \in S : Cardinality({y \in S : Better(y, x)}) = k - 1]
    BY DEF InOrder, SortedSeq
<1>8. \A k \in 1 .. n : s[k] \in S /\ rank[s[k]] = k - 1
  <2> SUFFICES ASSUME NEW k \in 1 .. n PROVE s[k] \in S /\ rank[s[k]] = k - 1
      OBVIOUS
  <2>1. k - 1 \in 0 .. n - 1
      BY <1>1
  <2>2. PICK x \in S : rank[x] = k - 1
      BY <1>6, <2>1
  <2>3. Cardinality({y \in S : Better(y, x)}) = k - 1
      BY <2>2
  <2>4. s[k] = CHOOSE z \in S : Cardinality({y \in S : Better(y, z)}) = k - 1
      BY <1>7
  <2>5. s[k] \in S /\ Cardinality({y \in S : Better(y, s[k])}) = k - 1
    <3> HIDE DEF s, rank
    <3> QED BY <2>3, <2>4
  <2> HIDE DEF s
  <2> QED BY <2>5
<1> HIDE DEF s, rank
<1>9. s \in Seq(S) /\ Len(s) = n
  <2> DEFINE e(k) == CHOOSE x \in S : Cardinality({y \in S : Better(y, x)}) = k - 1
  <2>0. s = [k \in 1 .. n |-> e(k)]
      BY <1>7
  <2> HIDE DEF e
  <2>1. s = [k \in 1 .. n |-> s[k]]
      BY <2>0
  <2>2. s \in [1 .. n -> S]
      BY <1>8, <2>1
  <2> QED BY <1>1, <2>2
<1>10. DOMAIN s = 1 .. n
    BY <1>7
<1>11. IsInjective(s)
    BY <1>8, <1>10 DEF IsInjective
<1>12. ToSet(s) = S
  <2>1. ASSUME NEW x \in S PROVE \E k \in 1 .. n : s[k] = x
    <3>1. rank[x] \in 0 .. n - 1
        BY <1>3
    <3>2. PICK k \in 1 .. n : k - 1 = rank[x]
        BY <1>1, <3>1
    <3>3. s[k] \in S /\ rank[s[k]] = rank[x]
        BY <1>8, <3>2
    <3>4. s[k] = x
        BY <1>5, <3>3
    <3> QED BY <3>2, <3>4
  <2> QED BY <1>8, <1>10, <2>1 DEF ToSet
<1>13. s = <<>> <=> S = {}
  <2>1. n = 0 <=> S = {}
      BY <1>1, FS_EmptySet
  <2>2. s = <<>> <=> n = 0
      BY <1>1, <1>9
  <2> QED BY <2>1, <2>2
<1> QED BY <1>9, <1>11, <1>12, <1>13 DEF s

\* The refinements that are possible in an automaton of the run, in order; the
\* best one is the first.
LEMMA PossibleInOrder ==
    ASSUME NEW i \in Inputs, NEW o \in Settings(i), NEW k \in Automata[i]
    PROVE  LET S == GetPossibleRefinements(o, k)
               s == InOrder(S)
           IN /\ s \in Seq(S) /\ IsInjective(s) /\ ToSet(s) = S /\ (s = <<>> <=> S = {})
              /\ S \subseteq Refinements[i]
              /\ \A x \in S : TestRef(o, k, x)
              /\ BestRefinement(o, k) \in S \/ (S = {} /\ BestRefinement(o, k) = None)
              /\ None \notin S
<1> DEFINE S == GetPossibleRefinements(o, k)
<1>1. /\ IsFiniteSet(S) /\ S \subseteq Refinements[i]
      /\ \A x \in S : TestRef(o, k, x)
      /\ \A x, y \in S : x = y \/ Better(x, y) \/ Better(y, x)
    BY PossibleAssumption
<1>2. \A x \in S : x # None /\ x.score \in Int /\ x.size \in Int
    BY <1>1, InputsAssumption
<1>3. Ordered(S)
    BY <1>1, <1>2 DEF Ordered
<1>4. /\ InOrder(S) \in Seq(S) /\ IsInjective(InOrder(S)) /\ ToSet(InOrder(S)) = S
      /\ InOrder(S) = <<>> <=> S = {}
    BY <1>3, InOrderIsOrder
<1>5. BestRefinement(o, k) \in S \/ (S = {} /\ BestRefinement(o, k) = None)
  <2>1. S # {} => InOrder(S)[1] \in S
    <3> HIDE DEF S
    <3> QED BY <1>4
  <2> QED BY <2>1 DEF BestRefinement
<1> QED BY <1>1, <1>2, <1>4, <1>5
=============================================================================
