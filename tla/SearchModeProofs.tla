-------------------------- MODULE SearchModeProofs --------------------------
(***************************************************************************)
(* The search mode, for every engine that satisfies the assumptions of     *)
(* Refining.  First the lists alone: their reference counts are exact,     *)
(* whatever refinements are possible and in whatever order the lists are   *)
(* taken, so no refinement is recycled while a list that may still be      *)
(* taken holds it.  Then the search: what is switched, scored and tried is *)
(* undone exactly, and pruning loses no solution.                          *)
(***************************************************************************)
EXTENDS SearchMode, RefiningProofs

-----------------------------------------------------------------------------
(* The inductive invariant of the lists.                                   *)

\* The lists that were made: those with a count.
Made == DOMAIN refs
List == Seq(Refinement)

QueueTypes ==
    /\ current \in List /\ todo \in List /\ IsInjective(todo)
    /\ IsFiniteSet(Q) /\ \A q \in Q : q.list \in List
    /\ refs \in [Made -> Int] /\ Made \subseteq List \ {<<>>}
    /\ pc \in {"add", "pop", "done"} => todo = <<>>

\* Every list that is used was made, and the lists it continues too.
PrefixesMade ==
    /\ \A p \in Made : Heads(p) \subseteq Made
    /\ \A q \in Q : q.list \in Made
    /\ current \in Made \cup {<<>>}
    /\ \A i \in 1 .. Len(todo) : Append(current, todo[i]) \in Made

\* No list made continues list.
Unexpanded(list) == \A x \in Refinement : Append(list, x) \notin Made

\* What is queued, or to be queued, is there once and was not expanded yet.
ExpandedOnce ==
    /\ \A q, o \in Q : q.list = o.list => q = o
    /\ \A q \in Q : Unexpanded(q.list) /\ q.list # current
    /\ pc = "add" => Unexpanded(current)
    /\ \A i \in 1 .. Len(todo) :
          /\ Unexpanded(Append(current, todo[i]))
          /\ \A q \in Q : q.list # Append(current, todo[i])

QueueInv == QueueTypes /\ PrefixesMade /\ ExpandedOnce /\ ReferencesExact

-----------------------------------------------------------------------------
(* Lists and the lists they continue.                                      *)

\* A list that has been continued by one refinement has one head more, itself.
LEMMA HeadsOfAppend ==
    ASSUME NEW list \in List, NEW x \in Refinement
    PROVE  Heads(Append(list, x)) = Heads(list) \cup {Append(list, x)}
<1> DEFINE longer == Append(list, x)
           n == Len(list)
<1>1. /\ longer \in List /\ Len(longer) = n + 1 /\ n \in Nat
      /\ \A i \in 1 .. n : longer[i] = list[i]
    BY DEF List
<1>2. \A k \in 0 .. n : SubSeq(longer, 1, k) = SubSeq(list, 1, k)
  <2> SUFFICES ASSUME NEW k \in 0 .. n
               PROVE  SubSeq(longer, 1, k) = SubSeq(list, 1, k)
      OBVIOUS
  <2>1. /\ SubSeq(longer, 1, k) = [i \in 1 .. k |-> longer[i]]
        /\ SubSeq(list, 1, k) = [i \in 1 .. k |-> list[i]]
      BY <1>1 DEF List
  <2> QED BY <1>1, <2>1
<1>3. SubSeq(longer, 1, n + 1) = longer
    BY <1>1 DEF List
<1>4. longer # <<>>
    BY <1>1
<1>5. 0 .. n + 1 = 0 .. n \cup {n + 1}
    BY <1>1
<1> HIDE DEF longer, n
<1>6. Prefixes(longer) = {SubSeq(longer, 1, k) : k \in 0 .. n + 1}
    BY <1>1 DEF Prefixes
<1>7. Prefixes(list) = {SubSeq(list, 1, k) : k \in 0 .. n}
    BY DEF Prefixes, n
<1>8. Prefixes(longer) = Prefixes(list) \cup {longer}
    BY <1>2, <1>3, <1>5, <1>6, <1>7
<1> QED BY <1>4, <1>8 DEF Heads, longer

\* A list that holds anything is a head of itself; the empty list has none.
LEMMA HeadsOfItself ==
    ASSUME NEW list \in List
    PROVE  /\ list # <<>> => list \in Heads(list)
           /\ Heads(<<>>) = {}
<1>1. Len(list) \in 0 .. Len(list) /\ SubSeq(list, 1, Len(list)) = list
    BY DEF List
<1>2. list \in Prefixes(list)
  <2> DEFINE n == Len(list)
  <2>1. n \in 0 .. n /\ SubSeq(list, 1, n) = list
      BY <1>1
  <2>2. Prefixes(list) = {SubSeq(list, 1, k) : k \in 0 .. n}
      BY DEF Prefixes
  <2> HIDE DEF n
  <2> QED BY <2>1, <2>2
<1>3. Prefixes(<<>>) = {<<>>}
  <2>1. Len(<<>>) = 0 /\ 0 .. 0 = {0} /\ SubSeq(<<>>, 1, 0) = <<>>
      OBVIOUS
  <2>2. Prefixes(<<>>) = {SubSeq(<<>>, 1, k) : k \in 0 .. 0}
      BY <2>1, Zenon DEF Prefixes
  <2> QED BY <2>1, <2>2
<1> QED BY <1>2, <1>3 DEF Heads

\* The heads of a list are not longer than it is.
LEMMA HeadsNotLonger ==
    ASSUME NEW list \in List, NEW p \in Heads(list)
    PROVE  Len(p) \in Nat /\ Len(p) <= Len(list)
<1> DEFINE n == Len(list)
<1>1. n \in Nat
    BY DEF List
<1>2. PICK k \in 0 .. n : p = SubSeq(list, 1, k)
    BY DEF Heads, Prefixes
<1>3. Len(p) = k
    BY <1>1, <1>2 DEF List
<1> QED BY <1>1, <1>2, <1>3

\* Lists that continue different lists, or differently, are different.
LEMMA AppendsDiffer ==
    ASSUME NEW v \in List, NEW w \in List, NEW x \in Refinement, NEW y \in Refinement,
           Append(v, x) = Append(w, y)
    PROVE  v = w /\ x = y
<1>1. /\ Len(Append(v, x)) = Len(v) + 1 /\ Len(v) \in Nat
      /\ Append(v, x)[Len(v) + 1] = x
      /\ \A i \in 1 .. Len(v) : Append(v, x)[i] = v[i]
    BY DEF List
<1>2. /\ Len(Append(w, y)) = Len(w) + 1 /\ Len(w) \in Nat
      /\ Append(w, y)[Len(w) + 1] = y
      /\ \A i \in 1 .. Len(w) : Append(w, y)[i] = w[i]
    BY DEF List
<1>3. Len(v) = Len(w)
    BY <1>1, <1>2
<1>4. \A i \in 1 .. Len(v) : v[i] = w[i]
    BY <1>1, <1>2, <1>3
<1>5. v = w
    BY <1>3, <1>4, SeqEqual DEF List
<1> QED BY <1>1, <1>2, <1>3, <1>5

\* A list that has been continued is another one, and not empty.
LEMMA AppendLonger ==
    ASSUME NEW v \in List, NEW x \in Refinement
    PROVE  Append(v, x) \in List /\ Append(v, x) # v /\ Append(v, x) # <<>>
<1>1. /\ Append(v, x) \in List /\ Len(Append(v, x)) = Len(v) + 1 /\ Len(v) \in Nat
      /\ Append(v, x) # <<>>
    BY AppendProperties DEF List
<1>2. Append(v, x) # v
    BY <1>1
<1> QED BY <1>1, <1>2

-----------------------------------------------------------------------------
(* The counts.                                                             *)

\* The records in the queue whose lists hold p.
Holding(p) == {q \in Q : p \in Heads(q.list)}
\* What else holds it: the current list, and the refinement_set.
InCurrent(p) == IF p \in Heads(current) THEN 1 ELSE 0
InTodo(p) == IF \E i \in 1 .. Len(todo) : p = Append(current, todo[i]) THEN 1 ELSE 0

\* The equation of one refinement.
LEMMA ExactAt ==
    ReferencesExact <=>
       \A p \in Made : refs[p] = Cardinality(Holding(p)) + InCurrent(p) + InTodo(p)
BY DEF ReferencesExact, Made, Holding, InCurrent, InTodo

\* Of a finite queue only finitely many records hold p; one record more that
\* holds it counts for one more.
LEMMA HoldingFinite ==
    ASSUME IsFiniteSet(Q), NEW p, NEW q
    PROVE  /\ IsFiniteSet(Holding(p)) /\ Cardinality(Holding(p)) \in Nat
           /\ q \notin Holding(p) =>
                 /\ IsFiniteSet(Holding(p) \cup {q})
                 /\ Cardinality(Holding(p) \cup {q}) = Cardinality(Holding(p)) + 1
           /\ q \in Holding(p) =>
                 Cardinality(Holding(p) \ {q}) = Cardinality(Holding(p)) - 1
<1>1. Holding(p) \subseteq Q
    BY DEF Holding
<1>2. IsFiniteSet(Holding(p))
    BY <1>1, FS_Subset
<1>3. Cardinality(Holding(p)) \in Nat
    BY <1>2, FS_CardinalityType
<1>4. q \notin Holding(p) =>
         /\ IsFiniteSet(Holding(p) \cup {q})
         /\ Cardinality(Holding(p) \cup {q}) = Cardinality(Holding(p)) + 1
    BY <1>2, FS_AddElement
<1>5. q \in Holding(p) => Cardinality(Holding(p) \ {q}) = Cardinality(Holding(p)) - 1
    BY <1>2, FS_RemoveElement
<1> QED BY <1>2, <1>3, <1>4, <1>5

\* get_possible_refinements made new refinements: each is held by the
\* refinement_set and by nothing else, since no list continued the current one yet.
LEMMA ExpandedStep ==
    ASSUME QueueInv, Expanded
    PROVE  QueueInv'
<1> DEFINE new == {Append(current, x) : x \in ToSet(todo')}
<1>1. /\ pc = "add" /\ pc' = "loop" /\ todo' \in List /\ IsInjective(todo')
      /\ current' = current /\ Q' = Q /\ refs' = [p \in DOMAIN refs \cup new |-> IF p \in new THEN 1 ELSE refs[p]]
    BY DEF Expanded, Create, List
<1>2. /\ current \in List /\ todo = <<>> /\ IsFiniteSet(Q) /\ \A q \in Q : q.list \in List
      /\ refs \in [Made -> Int] /\ Made \subseteq List \ {<<>>}
    BY <1>1 DEF QueueInv, QueueTypes
<1>3. ToSet(todo') \subseteq Refinement
    BY <1>1 DEF ToSet, List
<1>4. ToSet(todo') = {todo'[i] : i \in 1 .. Len(todo')}
    BY <1>1 DEF ToSet, List
<1>5. \A p \in new : \E x \in Refinement : p = Append(current, x) /\ x \in ToSet(todo')
    BY <1>3
<1>6. /\ new \subseteq List \ {<<>>} /\ new \cap Made = {}
      /\ \A i \in 1 .. Len(todo') : Append(current, todo'[i]) \in new
  <2>1. new \subseteq List \ {<<>>}
      BY <1>2, <1>5, AppendLonger
  <2>2. new \cap Made = {}
      BY <1>1, <1>5 DEF QueueInv, ExpandedOnce, Unexpanded
  <2>3. \A i \in 1 .. Len(todo') : Append(current, todo'[i]) \in new
      BY <1>4
  <2> QED BY <2>1, <2>2, <2>3
<1>7. /\ Made' = Made \cup new
      /\ \A p \in Made : refs'[p] = refs[p]
      /\ \A p \in new : refs'[p] = 1
      /\ refs' \in [Made' -> Int]
  <2> HIDE DEF new
  <2> QED BY <1>1, <1>2, <1>6 DEF Made
<1>8. QueueTypes'
    BY <1>1, <1>2, <1>6, <1>7 DEF QueueTypes
<1>9. \A p \in new : Heads(p) \subseteq Made'
  <2> SUFFICES ASSUME NEW p \in new PROVE Heads(p) \subseteq Made'
      OBVIOUS
  <2>1. Heads(p) = Heads(current) \cup {p}
      BY <1>2, <1>5, HeadsOfAppend
  <2>2. Heads(current) \subseteq Made
      BY <1>2, HeadsOfItself DEF QueueInv, PrefixesMade
  <2> QED BY <1>7, <2>1, <2>2
<1>10. PrefixesMade'
    BY <1>1, <1>6, <1>7, <1>9 DEF QueueInv, PrefixesMade
<1>11. \A list \in Made : Unexpanded(list) /\ list # current => Unexpanded(list)'
  <2> SUFFICES ASSUME NEW list \in Made, list # current, Unexpanded(list),
                      NEW x \in Refinement, Append(list, x) \in new
               PROVE  FALSE
      BY <1>7 DEF Unexpanded
  <2> QED BY <1>2, <1>5, AppendsDiffer
<1>12. \A p \in new : Unexpanded(p)'
  <2> SUFFICES ASSUME NEW p \in new, NEW x \in Refinement
               PROVE  Append(p, x) \notin Made \cup new
      BY <1>7 DEF Unexpanded
  <2>1. p \in List /\ p \in Heads(Append(p, x))
      BY <1>6, HeadsOfAppend, HeadsOfItself
  <2>2. Append(p, x) \notin Made
      BY <1>6, <2>1 DEF QueueInv, PrefixesMade
  <2>3. Append(p, x) \notin new
      BY <1>2, <1>5, <2>1, AppendsDiffer, AppendLonger
  <2> QED BY <2>2, <2>3
<1>13. ExpandedOnce'
  <2>1. \A q \in Q : q.list \in Made /\ q.list # current /\ Unexpanded(q.list)
      BY DEF QueueInv, PrefixesMade, ExpandedOnce
  <2>2. \A q \in Q : q.list \notin new
      BY <1>6, <2>1
  <2> QED BY <1>1, <1>6, <1>11, <1>12, <2>1, <2>2 DEF QueueInv, ExpandedOnce
<1>14. ReferencesExact'
  <2> SUFFICES ASSUME NEW p \in Made'
               PROVE  refs'[p] = Cardinality(Holding(p)') + InCurrent(p)' + InTodo(p)'
      BY DEF ReferencesExact, Made, Holding, InCurrent, InTodo
  <2>1. Holding(p)' = Holding(p) /\ InCurrent(p)' = InCurrent(p)
      BY <1>1 DEF Holding, InCurrent
  <2>2. CASE p \in Made
    <3>1. refs[p] = Cardinality(Holding(p)) + InCurrent(p) + InTodo(p)
        BY <2>2, ExactAt DEF QueueInv
    <3>2. InTodo(p) = 0 /\ InTodo(p)' = 0
        BY <1>1, <1>2, <1>6, <2>2 DEF InTodo
    <3> QED BY <1>7, <2>1, <2>2, <3>1, <3>2
  <2>3. CASE p \in new
    <3>1. p \notin Made
        BY <1>6, <2>3
    <3>2. Holding(p) = {}
        BY <3>1 DEF QueueInv, PrefixesMade, Holding
    <3>3. InCurrent(p) = 0
        BY <1>2, <3>1, HeadsOfItself DEF QueueInv, PrefixesMade, InCurrent
    <3>4. InTodo(p)' = 1
        BY <1>1, <1>4, <2>3 DEF InTodo
    <3>5. Cardinality({}) = 0
        BY FS_EmptySet
    <3> QED BY <1>7, <2>1, <2>3, <3>2, <3>3, <3>4, <3>5
  <2> QED BY <1>7, <2>2, <2>3
<1> QED BY <1>8, <1>10, <1>13, <1>14 DEF QueueInv

\* add_to_q queued a list: the reference of the refinement_set is the list's from
\* then on, and what the list shares with the current one is held once more.
LEMMA PushedStep ==
    ASSUME QueueInv, Pushed
    PROVE  QueueInv'
<1> DEFINE list == Append(current, Head(todo))
<1>1. PICK q \in Q' : Push(q.score)
    BY DEF Pushed
<1> DEFINE rec == [score |-> q.score, list |-> list]
<1>2. /\ pc' = "loop" /\ todo # <<>> /\ current' = current /\ Q' = Q \cup {rec}
      /\ refs' = [p \in Made |-> refs[p] + InCurrent(p)] /\ todo' = Tail(todo)
      /\ rec.list = list
    BY <1>1 DEF Pushed, Push, Share, InCurrent, Made
<1>3. /\ current \in List /\ todo \in List /\ IsInjective(todo)
      /\ IsFiniteSet(Q) /\ \A o \in Q : o.list \in List
      /\ refs \in [Made -> Int] /\ Made \subseteq List \ {<<>>}
    BY DEF QueueInv, QueueTypes
<1>4. /\ Head(todo) = todo[1] /\ Head(todo) \in Refinement
      /\ Len(todo) \in Nat \ {0} /\ 1 \in 1 .. Len(todo) /\ DOMAIN todo = 1 .. Len(todo)
      /\ todo' \in List /\ Len(todo') = Len(todo) - 1 /\ DOMAIN todo' = 1 .. Len(todo')
      /\ \A i \in 1 .. Len(todo') :
            i + 1 \in 1 .. Len(todo) /\ i + 1 # 1 /\ todo'[i] = todo[i + 1]
      /\ \A i \in 1 .. Len(todo) : todo[i] \in Refinement
    BY <1>2, <1>3 DEF List
<1>5. /\ list = Append(current, todo[1]) /\ list \in List /\ list # current /\ list # <<>>
      /\ Len(list) = Len(current) + 1 /\ Len(current) \in Nat
      /\ Heads(list) = Heads(current) \cup {list}
  <2>1. list \in List /\ list # current /\ list # <<>> /\ Heads(list) = Heads(current) \cup {list}
      BY <1>3, <1>4, AppendLonger, HeadsOfAppend
  <2> QED BY <1>3, <1>4, <2>1 DEF List
<1>6. /\ list \in Made /\ Unexpanded(list) /\ \A o \in Q : o.list # list
    BY <1>4, <1>5 DEF QueueInv, PrefixesMade, ExpandedOnce
<1>7. list \notin Heads(current)
  <2> SUFFICES ASSUME list \in Heads(current) PROVE FALSE
      OBVIOUS
  <2>1. Len(list) <= Len(current)
      BY <1>3, HeadsNotLonger
  <2> QED BY <1>5, <2>1
<1>8. \A i \in 1 .. Len(todo) : i # 1 => Append(current, todo[i]) # list
  <2> SUFFICES ASSUME NEW i \in 1 .. Len(todo), Append(current, todo[i]) = list
               PROVE  i = 1
      OBVIOUS
  <2>1. todo[i] = todo[1]
      BY <1>3, <1>4, <1>5, AppendsDiffer
  <2> QED BY <1>3, <1>4, <2>1 DEF IsInjective
<1>9. Made' = Made /\ \A p \in Made : refs'[p] = refs[p] + InCurrent(p)
    BY <1>2 DEF Made
<1>10. rec \notin Q
    BY <1>2, <1>6
<1> HIDE DEF list, rec
<1>11. QueueTypes'
  <2>1. IsInjective(todo')
    <3>1. \A i, j \in 1 .. Len(todo) : todo[i] = todo[j] => i = j
        BY <1>3, <1>4 DEF IsInjective
    <3>2. ASSUME NEW i \in 1 .. Len(todo'), NEW j \in 1 .. Len(todo'), todo'[i] = todo'[j]
          PROVE  i = j
      <4>1. /\ i + 1 \in 1 .. Len(todo) /\ j + 1 \in 1 .. Len(todo)
            /\ todo[i + 1] = todo[j + 1]
          BY <1>4, <3>2
      <4>2. i + 1 = j + 1
          BY <3>1, <4>1
      <4> QED BY <4>2
    <3>3. DOMAIN todo' = 1 .. Len(todo')
        BY <1>4
    <3> QED BY <3>2, <3>3 DEF IsInjective
  <2>2. IsFiniteSet(Q')
      BY <1>2, <1>3, FS_AddElement
  <2>3. \A p \in Made : refs[p] + InCurrent(p) \in Int
      BY <1>3 DEF InCurrent
  <2>4. refs' \in [Made' -> Int]
      BY <1>2, <1>9, <2>3
  <2> QED BY <1>2, <1>3, <1>4, <1>5, <1>9, <2>1, <2>2, <2>4 DEF QueueTypes
<1>12. PrefixesMade'
    BY <1>2, <1>4, <1>6, <1>9 DEF QueueInv, PrefixesMade
<1>13. ExpandedOnce'
  <2>1. \A o \in Made : Unexpanded(o)' <=> Unexpanded(o)
      BY <1>9 DEF Unexpanded
  <2>2. \A o, u \in Q' : o.list = u.list => o = u
      BY <1>2, <1>6 DEF QueueInv, ExpandedOnce
  <2>3. \A o \in Q' : Unexpanded(o.list)' /\ o.list # current
      BY <1>2, <1>5, <1>6, <2>1 DEF QueueInv, ExpandedOnce, PrefixesMade
  <2>4. \A i \in 1 .. Len(todo') :
           /\ \A x \in Refinement : Append(Append(current, todo'[i]), x) \notin Made'
           /\ \A o \in Q' : o.list # Append(current, todo'[i])
    <3> SUFFICES ASSUME NEW i \in 1 .. Len(todo')
                 PROVE  /\ \A x \in Refinement :
                              Append(Append(current, todo[i + 1]), x) \notin Made
                        /\ \A o \in Q' : o.list # Append(current, todo[i + 1])
        BY <1>4, <1>9
    <3>1. i + 1 \in 1 .. Len(todo) /\ i + 1 # 1
        BY <1>4
    <3>2. Append(current, todo[i + 1]) # list
        BY <1>8, <3>1
    <3> QED BY <1>2, <3>1, <3>2 DEF QueueInv, ExpandedOnce, Unexpanded
  <2> QED BY <1>2, <2>2, <2>3, <2>4 DEF ExpandedOnce, Unexpanded
<1>14. ReferencesExact'
  <2> SUFFICES ASSUME NEW p \in Made'
               PROVE  refs'[p] = Cardinality(Holding(p)') + InCurrent(p)' + InTodo(p)'
      BY DEF ReferencesExact, Made, Holding, InCurrent, InTodo
  <2>1. /\ p \in Made /\ refs'[p] = refs[p] + InCurrent(p) /\ InCurrent(p)' = InCurrent(p)
        /\ refs[p] = Cardinality(Holding(p)) + InCurrent(p) + InTodo(p)
      BY <1>2, <1>9, ExactAt DEF QueueInv, InCurrent
  <2>2. Holding(p)' = Holding(p) \cup (IF p \in Heads(list) THEN {rec} ELSE {})
      BY <1>2 DEF Holding
  <2>3. /\ rec \notin Holding(p) /\ Cardinality(Holding(p)) \in Nat
        /\ Cardinality(Holding(p) \cup {rec}) = Cardinality(Holding(p)) + 1
      BY <1>3, <1>10, HoldingFinite DEF Holding
  <2>4. CASE p = list
    <3>1. InCurrent(p) = 0 /\ InTodo(p) = 1
        BY <1>4, <1>5, <1>7, <2>4 DEF InCurrent, InTodo
    <3>2. InTodo(p)' = 0
        BY <1>2, <1>4, <1>8, <2>4 DEF InTodo
    <3>3. Holding(p)' = Holding(p) \cup {rec}
        BY <1>5, <2>2, <2>4
    <3> QED BY <2>1, <2>3, <3>1, <3>2, <3>3
  <2>5. CASE p # list
    <3>1. \A i \in 1 .. Len(todo) : i # 1 => i - 1 \in 1 .. Len(todo') /\ todo[i] = todo'[i - 1]
        BY <1>4
    <3>2. (\E i \in 1 .. Len(todo') : p = Append(current, todo'[i]))
             <=> \E i \in 1 .. Len(todo) : p = Append(current, todo[i])
        BY <1>4, <1>5, <2>5, <3>1
    <3>3. InTodo(p)' = InTodo(p) /\ InTodo(p) \in Nat
        BY <1>2, <3>2 DEF InTodo
    <3>4. CASE p \in Heads(current)
      <4>1. InCurrent(p) = 1 /\ Holding(p)' = Holding(p) \cup {rec}
          BY <1>5, <2>2, <3>4 DEF InCurrent
      <4> QED BY <2>1, <2>3, <3>3, <4>1
    <3>5. CASE p \notin Heads(current)
      <4>1. InCurrent(p) = 0 /\ Holding(p)' = Holding(p)
          BY <1>5, <2>2, <2>5, <3>5 DEF InCurrent
      <4> QED BY <2>1, <2>3, <3>3, <4>1
    <3> QED BY <3>4, <3>5
  <2> QED BY <2>4, <2>5
<1> QED BY <1>11, <1>12, <1>13, <1>14 DEF QueueInv

\* change_refinement_list lets the current list go and takes one from the queue,
\* whose references go with it.
LEMMA TakenStep ==
    ASSUME QueueInv, Taken
    PROVE  QueueInv'
<1>1. PICK q \in Q : current' = q.list /\ Q' = Q \ {q}
    BY DEF Taken
<1>2. /\ pc = "pop" /\ pc' = "add" /\ todo' = todo
      /\ refs' = [p \in Made |-> refs[p] - InCurrent(p)]
    BY DEF Taken, Release, InCurrent, Made
<1>3. /\ current \in List /\ todo = <<>> /\ todo \in List /\ IsInjective(todo)
      /\ IsFiniteSet(Q) /\ \A o \in Q : o.list \in List
      /\ refs \in [Made -> Int] /\ Made \subseteq List \ {<<>>}
    BY <1>2 DEF QueueInv, QueueTypes
<1>4. Made' = Made /\ \A p \in Made : refs'[p] = refs[p] - InCurrent(p)
    BY <1>2 DEF Made
<1>5. QueueTypes'
  <2>1. IsFiniteSet(Q')
      BY <1>1, <1>3, FS_RemoveElement
  <2>2. \A p \in Made : refs[p] - InCurrent(p) \in Int
      BY <1>3 DEF InCurrent
  <2>3. refs' \in [Made' -> Int]
      BY <1>2, <1>4, <2>2
  <2> QED BY <1>1, <1>2, <1>3, <1>4, <2>1, <2>3 DEF QueueTypes
<1>6. PrefixesMade'
    BY <1>1, <1>2, <1>3, <1>4 DEF QueueInv, PrefixesMade
<1>7. ExpandedOnce'
  <2>1. \A list : Unexpanded(list)' <=> Unexpanded(list)
      BY <1>4 DEF Unexpanded
  <2> QED BY <1>1, <1>2, <1>3, <2>1 DEF QueueInv, ExpandedOnce
<1>8. ReferencesExact'
  <2> SUFFICES ASSUME NEW p \in Made'
               PROVE  refs'[p] = Cardinality(Holding(p)') + InCurrent(p)' + InTodo(p)'
      BY DEF ReferencesExact, Made, Holding, InCurrent, InTodo
  <2>1. /\ p \in Made /\ refs'[p] = refs[p] - InCurrent(p)
        /\ refs[p] = Cardinality(Holding(p)) + InCurrent(p) + InTodo(p)
      BY <1>4, ExactAt DEF QueueInv
  <2>2. InTodo(p) = 0 /\ InTodo(p)' = 0 /\ InCurrent(p) \in Int
      BY <1>2, <1>3 DEF InTodo, InCurrent
  <2>3. Holding(p)' = Holding(p) \ {q}
      BY <1>1 DEF Holding
  <2>4. Cardinality(Holding(p)) \in Nat
      BY <1>3, HoldingFinite
  <2>5. CASE p \in Heads(q.list)
    <3>1. InCurrent(p)' = 1 /\ q \in Holding(p)
        BY <1>1, <2>5 DEF InCurrent, Holding
    <3>2. Cardinality(Holding(p) \ {q}) = Cardinality(Holding(p)) - 1
        BY <1>3, <3>1, HoldingFinite
    <3> QED BY <2>1, <2>2, <2>3, <2>4, <3>1, <3>2
  <2>6. CASE p \notin Heads(q.list)
    <3>1. InCurrent(p)' = 0 /\ q \notin Holding(p)
        BY <1>1, <2>6 DEF InCurrent, Holding
    <3>2. Holding(p)' = Holding(p)
        BY <2>3, <3>1
    <3> QED BY <2>1, <2>2, <2>4, <3>1, <3>2
  <2> QED BY <2>5, <2>6
<1> QED BY <1>5, <1>6, <1>7, <1>8 DEF QueueInv

\* Nothing is held that was not held before when only the phase changes, and the
\* current list stays expanded.
LEMMA MovedOnStep ==
    ASSUME QueueInv, MovedOn \/ UNCHANGED queue
    PROVE  QueueInv'
<1>1. /\ current' = current /\ todo' = todo /\ Q' = Q /\ refs' = refs
      /\ pc' = pc \/ (pc' # "add" /\ (pc' \in {"pop", "done"} => todo = <<>>))
    BY DEF MovedOn, queue, QueueInv, QueueTypes
<1>2. QueueTypes'
    BY <1>1 DEF QueueInv, QueueTypes, Made
<1>3. PrefixesMade'
    BY <1>1 DEF QueueInv, PrefixesMade, Made
<1>4. ExpandedOnce'
    BY <1>1 DEF QueueInv, ExpandedOnce, Unexpanded, Made
<1>5. ReferencesExact'
    BY <1>1 DEF QueueInv, ReferencesExact
<1> QED BY <1>2, <1>3, <1>4, <1>5 DEF QueueInv

-----------------------------------------------------------------------------
(* The theorems.                                                           *)

\* At first there is only the empty list, which holds nothing.
LEMMA InitInv ==
    ASSUME QueueInit
    PROVE  QueueInv
<1>1. /\ current = <<>> /\ todo = <<>> /\ Q = {} /\ refs = [p \in {} |-> 0] /\ pc = "add"
      /\ Made = {}
    BY DEF QueueInit, Made
<1>2. QueueTypes
  <2>1. IsFiniteSet(Q)
      BY <1>1, FS_EmptySet
  <2>2. current \in List /\ todo \in List /\ IsInjective(todo)
      BY <1>1 DEF List, IsInjective
  <2>3. refs \in [Made -> Int]
      BY <1>1
  <2> QED BY <1>1, <2>1, <2>2, <2>3 DEF QueueTypes
<1>3. PrefixesMade /\ ExpandedOnce
    BY <1>1 DEF PrefixesMade, ExpandedOnce, Unexpanded
<1>4. ReferencesExact
    BY <1>1 DEF ReferencesExact, Made
<1> QED BY <1>2, <1>3, <1>4 DEF QueueInv

\* The invariant holds of every use of the queue.
LEMMA QueueCorrect == QueueSpec => []QueueInv
<1>1. QueueInit => QueueInv
    BY InitInv
<1>2. QueueInv /\ [QueueNext]_queue => QueueInv'
    BY ExpandedStep, PushedStep, TakenStep, MovedOnStep DEF QueueNext
<1> QED BY <1>1, <1>2, PTL DEF QueueSpec

\* For all refinements that may be possible, all scores and every order among
\* equal ones: the count of a refinement is exactly the number of those that hold
\* it, the queued lists, the current list and the refinement_set.
THEOREM ReferencesAlwaysExact == QueueSpec => []ReferencesExact
<1>1. QueueInv => ReferencesExact
    BY DEF QueueInv
<1> QED BY <1>1, QueueCorrect, PTL

\* A refinement that a queued list, or the current one, holds was made and has a
\* count above zero: it has not been recycled, whichever lists sharing it were
\* dropped before.
NothingRecycled ==
    /\ \A q \in Q : \A p \in Heads(q.list) : p \in DOMAIN refs /\ refs[p] > 0
    /\ \A p \in Heads(current) : p \in DOMAIN refs /\ refs[p] > 0

\* Whatever a list still to be performed or undone holds is alive.
THEOREM HeldIsAlive == QueueSpec => []NothingRecycled
<1>1. ASSUME QueueInv PROVE NothingRecycled
  <2>1. \A p \in Made : refs[p] = Cardinality(Holding(p)) + InCurrent(p) + InTodo(p)
      BY <1>1, ExactAt DEF QueueInv
  <2>2. \A p : /\ IsFiniteSet(Holding(p)) /\ Cardinality(Holding(p)) \in Nat
               /\ InCurrent(p) \in {0, 1} /\ InTodo(p) \in {0, 1}
      BY <1>1, HoldingFinite DEF QueueInv, QueueTypes, InCurrent, InTodo
  <2>3. ASSUME NEW q \in Q, NEW p \in Heads(q.list)
        PROVE  p \in DOMAIN refs /\ refs[p] > 0
    <3>1. p \in Made
        BY <1>1 DEF QueueInv, PrefixesMade
    <3>2. Holding(p) # {}
        BY DEF Holding
    <3>3. Cardinality(Holding(p)) # 0
        BY <2>2, <3>2, FS_EmptySet
    <3> QED BY <2>1, <2>2, <3>1, <3>3 DEF Made
  <2>4. ASSUME NEW p \in Heads(current)
        PROVE  p \in DOMAIN refs /\ refs[p] > 0
    <3>1. current \in Made
        BY <1>1, HeadsOfItself DEF QueueInv, QueueTypes, PrefixesMade
    <3>2. p \in Made
        BY <1>1, <3>1 DEF QueueInv, PrefixesMade
    <3>3. InCurrent(p) = 1
        BY DEF InCurrent
    <3> QED BY <2>1, <2>2, <3>2, <3>3 DEF Made
  <2> QED BY <2>3, <2>4 DEF NothingRecycled
<1> QED BY <1>1, QueueCorrect, PTL

-----------------------------------------------------------------------------
(* The sequences of refinements the search looks for.                      *)

\* What is possible after a list.
PossibleAfter(i, w) == GetPossibleRefinements(i.options, Replayed(i, w))

\* Each refinement is possible where it is performed,
Attempted(i, w) ==
    /\ w \in Seq(Refinements[i])
    /\ \A j \in 1 .. Len(w) : w[j] \in PossibleAfter(i, SubSeq(w, 1, j - 1))

\* and in the end none is.
Completed(i, w) == Attempted(i, w) /\ PossibleAfter(i, w) = {}

\* A list is attempted when what it continues is, and what is added is possible.
LEMMA AttemptedStep ==
    ASSUME NEW i \in Inputs, NEW w \in Seq(Refinements[i]), NEW x \in Refinements[i]
    PROVE  /\ Attempted(i, <<>>)
           /\ Attempted(i, Append(w, x)) <=> Attempted(i, w) /\ x \in PossibleAfter(i, w)
<1> DEFINE longer == Append(w, x)
           n == Len(w)
<1>1. /\ longer \in Seq(Refinements[i]) /\ Len(longer) = n + 1 /\ n \in Nat
      /\ \A j \in 1 .. n : longer[j] = w[j]
      /\ longer[n + 1] = x
      /\ \A j \in 0 .. n : SubSeq(longer, 1, j) = SubSeq(w, 1, j)
      /\ SubSeq(w, 1, n) = w
    BY SubSeqOfAppend
<1>2. Attempted(i, <<>>)
    BY DEF Attempted
<1> HIDE DEF longer, n
<1>3. \A j \in 1 .. n : SubSeq(longer, 1, j - 1) = SubSeq(w, 1, j - 1)
    BY <1>1
<1>4. SubSeq(longer, 1, (n + 1) - 1) = w
    BY <1>1
<1>5. 1 .. n + 1 = 1 .. n \cup {n + 1}
    BY <1>1
<1>6. Attempted(i, longer) <=>
         \A j \in 1 .. n + 1 : longer[j] \in PossibleAfter(i, SubSeq(longer, 1, j - 1))
    BY <1>1 DEF Attempted
<1>7. Attempted(i, w) <=>
         \A j \in 1 .. n : w[j] \in PossibleAfter(i, SubSeq(w, 1, j - 1))
    BY DEF Attempted, n
<1>8. Attempted(i, longer) <=> Attempted(i, w) /\ x \in PossibleAfter(i, w)
    BY <1>1, <1>3, <1>4, <1>5, <1>6, <1>7
<1> QED BY <1>2, <1>8 DEF longer

\* What is attempted can be performed: all that is possible passes its test.
LEMMA AttemptedIsPerformable ==
    ASSUME NEW i \in Inputs, NEW w, Attempted(i, w)
    PROVE  Performable(i, w) /\ Replayed(i, w) \in Automata[i]
<1> DEFINE R == Refinements[i]
           P == {v \in Seq(R) : Attempted(i, v) => Performable(i, v)}
<1>1. <<>> \in P
    BY DEF Performable
<1>2. ASSUME NEW v \in P, NEW x \in R
      PROVE  Append(v, x) \in P
  <2>1. ASSUME Attempted(i, Append(v, x)) PROVE Performable(i, Append(v, x))
    <3>1. Attempted(i, v) /\ x \in PossibleAfter(i, v)
        BY <2>1, AttemptedStep
    <3>2. Performable(i, v) /\ Replayed(i, v) \in Automata[i]
        BY <3>1, ReplayedIsMade
    <3>3. TestRef(i.options, Replayed(i, v), x)
        BY <3>1, <3>2, PossibleAssumption, InputsAssumption DEF PossibleAfter
    <3>4. PassesAfter(i, v, x)
        BY <3>3, InputsAssumption DEF PassesAfter
    <3> QED BY <3>2, <3>4, PerformableStep
  <2>2. Append(v, x) \in Seq(R)
      OBVIOUS
  <2> QED BY <2>1, <2>2
<1>3. P = Seq(R)
  <2>1. P \in SUBSET Seq(R)
      OBVIOUS
  <2> HIDE DEF P
  <2> QED BY <1>1, <1>2, <2>1, SequencesByFront
<1>4. w \in P
    BY <1>3 DEF Attempted
<1> QED BY <1>4, ReplayedIsMade

\* What was attempted on the way was attempted too.
LEMMA AttemptedOnTheWay ==
    ASSUME NEW i \in Inputs, NEW w, Attempted(i, w), NEW n \in 0 .. Len(w)
    PROVE  Attempted(i, SubSeq(w, 1, n))
<1> DEFINE R == Refinements[i]
           P == {v \in Seq(R) : Attempted(i, v) =>
                                   \A j \in 0 .. Len(v) : Attempted(i, SubSeq(v, 1, j))}
<1>1. <<>> \in P
  <2>1. <<>> \in Seq(R) /\ \A j \in 0 .. Len(<<>>) : SubSeq(<<>>, 1, j) = <<>>
    <3>1. <<>> \in Seq(R) /\ 0 .. Len(<<>>) = {0}
        OBVIOUS
    <3>2. SubSeq(<<>>, 1, 0) = <<>>
        BY SubSeqEmpty
    <3> QED BY <3>1, <3>2
  <2> QED BY <2>1
<1>2. ASSUME NEW v \in P, NEW x \in R
      PROVE  Append(v, x) \in P
  <2> DEFINE longer == Append(v, x)
  <2>1. /\ longer \in Seq(R) /\ Len(longer) = Len(v) + 1 /\ Len(v) \in Nat
        /\ \A j \in 0 .. Len(v) : SubSeq(longer, 1, j) = SubSeq(v, 1, j)
      BY SubSeqOfAppend
  <2>2. SubSeq(longer, 1, Len(longer)) = longer
      BY <2>1, SubSeqFull
  <2>3. ASSUME Attempted(i, longer), NEW j \in 0 .. Len(longer)
        PROVE  Attempted(i, SubSeq(longer, 1, j))
    <3>1. \A h \in 0 .. Len(v) : Attempted(i, SubSeq(v, 1, h))
        BY <2>3, AttemptedStep
    <3> HIDE DEF longer
    <3>2. CASE j = Len(longer)
        BY <2>2, <2>3, <3>2
    <3>3. CASE j # Len(longer)
      <4>1. j \in 0 .. Len(v)
          BY <2>1, <3>3
      <4>2. SubSeq(longer, 1, j) = SubSeq(v, 1, j)
          BY <2>1, <4>1
      <4> QED BY <3>1, <4>1, <4>2
    <3> QED BY <3>2, <3>3
  <2> QED BY <2>1, <2>3
<1>3. P = Seq(R)
  <2>1. P \in SUBSET Seq(R)
      OBVIOUS
  <2> HIDE DEF P
  <2> QED BY <1>1, <1>2, <2>1, SequencesByFront
<1>4. w \in P
    BY <1>3 DEF Attempted
<1> QED BY <1>4

\* On the way no red state is lost, and with every refinement one state less is
\* undecided.
LEMMA AttemptedSizes ==
    ASSUME NEW i \in Inputs, NEW w, Attempted(i, w)
    PROVE  /\ \A n \in 0 .. Len(w) :
                 NumRedStates(Replayed(i, SubSeq(w, 1, n))) <= NumRedStates(Replayed(i, w))
           /\ UndecidedStates(Replayed(i, w)) + Len(w) <= UndecidedStates(NewApta(i.tree))
<1> DEFINE R == Refinements[i]
           most == UndecidedStates(NewApta(i.tree))
           Good(v) ==
             /\ \A n \in 0 .. Len(v) :
                   NumRedStates(Replayed(i, SubSeq(v, 1, n))) <= NumRedStates(Replayed(i, v))
             /\ UndecidedStates(Replayed(i, v)) + Len(v) <= most
           P == {v \in Seq(R) : Attempted(i, v) => Good(v)}
<1>1. <<>> \in P
  <2>1. NewApta(i.tree) \in Automata[i]
      BY InputsAssumption
  <2>2. Replayed(i, <<>>) = NewApta(i.tree)
      BY DoNothing DEF Replayed
  <2>3. NumRedStates(NewApta(i.tree)) \in Nat /\ UndecidedStates(NewApta(i.tree)) \in Nat
      BY <2>1, SizesAssumption
  <2>4. Len(<<>>) = 0 /\ 0 .. Len(<<>>) = {0} /\ <<>> \in Seq(R)
      OBVIOUS
  <2>5. SubSeq(<<>>, 1, 0) = <<>>
      BY SubSeqEmpty
  <2>6. Good(<<>>)
    <3>1. \A n \in 0 .. Len(<<>>) : SubSeq(<<>>, 1, n) = <<>>
        BY <2>4, <2>5
    <3>2. \A n \in 0 .. Len(<<>>) :
             NumRedStates(Replayed(i, SubSeq(<<>>, 1, n))) <= NumRedStates(Replayed(i, <<>>))
      <4>1. NumRedStates(Replayed(i, <<>>)) <= NumRedStates(Replayed(i, <<>>))
          BY <2>2, <2>3
      <4> QED BY <3>1, <4>1
    <3>3. UndecidedStates(Replayed(i, <<>>)) + Len(<<>>) <= most
        BY <2>2, <2>3, <2>4
    <3> QED BY <3>2, <3>3
  <2> HIDE DEF Good
  <2> QED BY <2>4, <2>6
<1>2. ASSUME NEW v \in P, NEW x \in R
      PROVE  Append(v, x) \in P
  <2> DEFINE longer == Append(v, x)
             k == Replayed(i, v)
  <2>1. /\ longer \in Seq(R) /\ Len(longer) = Len(v) + 1 /\ Len(v) \in Nat
        /\ \A n \in 0 .. Len(v) : SubSeq(longer, 1, n) = SubSeq(v, 1, n)
        /\ SubSeq(longer, 1, Len(longer)) = longer
    <3>1. longer \in Seq(R)
        OBVIOUS
    <3> QED BY <3>1, SubSeqOfAppend, SubSeqFull
  <2>2. ASSUME Attempted(i, longer) PROVE Good(longer)
    <3>1. Attempted(i, v) /\ x \in PossibleAfter(i, v)
        BY <2>2, AttemptedStep
    <3>2. k \in Automata[i]
        BY <3>1, AttemptedIsPerformable
    <3>3. TestRef(i.options, k, x)
        BY <3>1, <3>2, PossibleAssumption, InputsAssumption DEF PossibleAfter
    <3>4. Replayed(i, longer) = DoRef(k, x)
        BY DoAllStep DEF Replayed
    <3>5. DoRef(k, x) \in Automata[i]
        BY <3>2, <3>3, UndoAssumption, InputsAssumption
    <3>6. /\ NumRedStates(k) \in Nat /\ UndecidedStates(k) \in Nat
          /\ NumRedStates(DoRef(k, x)) \in Nat /\ UndecidedStates(DoRef(k, x)) \in Nat
          /\ NumRedStates(DoRef(k, x)) >= NumRedStates(k) /\ UndecidedStates(DoRef(k, x)) < UndecidedStates(k)
        BY <3>2, <3>3, <3>5, SizesAssumption
    <3>7. most \in Nat
        BY InputsAssumption, SizesAssumption
    <3>8. Good(v)
        BY <3>1
    <3> HIDE DEF longer, k
    <3>9. ASSUME NEW n \in 0 .. Len(longer)
          PROVE  NumRedStates(Replayed(i, SubSeq(longer, 1, n))) <= NumRedStates(Replayed(i, longer))
      <4>1. CASE n = Len(longer)
        <5>1. SubSeq(longer, 1, n) = longer
            BY <2>1, <4>1
        <5>2. NumRedStates(Replayed(i, SubSeq(longer, 1, n))) = NumRedStates(DoRef(k, x))
            BY <3>4, <5>1
        <5>3. NumRedStates(Replayed(i, longer)) = NumRedStates(DoRef(k, x))
            BY <3>4
        <5> QED BY <3>6, <5>2, <5>3
      <4>2. CASE n # Len(longer)
        <5>1. n \in 0 .. Len(v)
            BY <2>1, <4>2
        <5>2. NumRedStates(Replayed(i, SubSeq(v, 1, n))) <= NumRedStates(k)
            BY <3>8, <5>1 DEF k
        <5>3. Replayed(i, SubSeq(v, 1, n)) \in Automata[i]
            BY <3>1, <5>1, AttemptedOnTheWay, AttemptedIsPerformable
        <5>4. NumRedStates(Replayed(i, SubSeq(v, 1, n))) \in Nat
            BY <5>3, SizesAssumption
        <5>5. SubSeq(longer, 1, n) = SubSeq(v, 1, n)
            BY <2>1, <5>1
        <5>6. NumRedStates(Replayed(i, SubSeq(longer, 1, n))) = NumRedStates(Replayed(i, SubSeq(v, 1, n)))
            BY <5>5
        <5>7. NumRedStates(Replayed(i, longer)) = NumRedStates(DoRef(k, x))
            BY <3>4
        <5> QED BY <3>6, <5>2, <5>4, <5>6, <5>7
      <4> QED BY <4>1, <4>2
    <3>10. UndecidedStates(Replayed(i, longer)) + Len(longer) <= most
        BY <2>1, <3>4, <3>6, <3>7, <3>8 DEF k
    <3> QED BY <3>9, <3>10
  <2> HIDE DEF Good
  <2> QED BY <2>1, <2>2
<1>3. P = Seq(R)
  <2>1. P \in SUBSET Seq(R)
      OBVIOUS
  <2> HIDE DEF P
  <2> QED BY <1>1, <1>2, <2>1, SequencesByFront
<1>4. w \in P
    BY <1>3 DEF Attempted
<1> QED BY <1>4

\* Some list can be completed: states that are not decided run out.
LEMMA SomeCompleted ==
    ASSUME NEW i \in Inputs
    PROVE  \E w : Completed(i, w)
<1> DEFINE left(w) == UndecidedStates(Replayed(i, w))
           Left == {n \in Nat : \E w : Attempted(i, w) /\ left(w) <= n}
<1>1. \A w : Attempted(i, w) => left(w) \in Nat
    BY AttemptedIsPerformable, SizesAssumption
<1>2. Left \in SUBSET Nat /\ Left # {}
  <2>1. Attempted(i, <<>>)
      BY DEF Attempted
  <2>2. left(<<>>) \in Nat /\ left(<<>>) <= left(<<>>)
      BY <1>1, <2>1
  <2> QED BY <2>1, <2>2
<1>3. PICK n \in Left : n - 1 \notin Left
  <2> HIDE DEF Left
  <2> QED BY <1>2, LeastNatural
<1>4. PICK w : Attempted(i, w) /\ left(w) <= n
    OBVIOUS
<1>5. ASSUME NEW x \in PossibleAfter(i, w)
      PROVE  FALSE
  <2> DEFINE k == Replayed(i, w)
  <2>1. k \in Automata[i] /\ w \in Seq(Refinements[i])
      BY <1>4, AttemptedIsPerformable DEF Attempted
  <2>2. x \in Refinements[i] /\ TestRef(i.options, k, x)
      BY <1>5, <2>1, PossibleAssumption, InputsAssumption DEF PossibleAfter
  <2>3. UndecidedStates(DoRef(k, x)) < UndecidedStates(k)
      BY <2>1, <2>2, SizesAssumption
  <2>4. Attempted(i, Append(w, x)) /\ Replayed(i, Append(w, x)) = DoRef(k, x)
      BY <1>4, <1>5, <2>1, <2>2, AttemptedStep, DoAllStep DEF Replayed
  <2>5. left(Append(w, x)) \in Nat /\ left(w) \in Nat
      BY <1>1, <1>4, <2>4
  <2>6. left(Append(w, x)) < left(w)
      BY <2>3, <2>4
  <2> HIDE DEF left, k
  <2>7. left(Append(w, x)) <= n - 1 /\ n - 1 \in Nat
      BY <1>4, <2>5, <2>6
  <2> QED BY <1>3, <2>4, <2>7
<1> QED BY <1>4, <1>5 DEF Completed

-----------------------------------------------------------------------------
(* The input of a state, and the sequences of SearchOptimal.               *)

Input == [options |-> options, tree |-> tree]

\* What is said of an input is what the module says of the variables.
LEMMA OfInput ==
    ASSUME Input \in Inputs
    PROVE  /\ Input.options = options /\ Input.tree = tree
           /\ Settings(Input) = {options} /\ Score \in Scores
           /\ Refinements[Input] \subseteq Refinement
           /\ \A w : Replay(w) = Replayed(Input, w)
           /\ \A w : PossibleAfter(Input, w) = GetPossibleRefinements(options, Replay(w))
<1>1. Input.options = options /\ Input.tree = tree
    BY DEF Input
<1>2. /\ Settings(Input) = {options} /\ Score \in Scores
      /\ Refinements[Input] \subseteq Refinement
    BY <1>1, ScoreAssumption DEF Score
<1>3. /\ \A w : Replay(w) = Replayed(Input, w)
      /\ \A w : PossibleAfter(Input, w) = GetPossibleRefinements(options, Replay(w))
    BY <1>1 DEF Replay, Replayed, PossibleAfter
<1> QED BY <1>1, <1>2, <1>3

\* The attempted lists of length n are those of length n - 1 continued.
LEMMA AttemptedOfLength ==
    ASSUME NEW i \in Inputs, NEW n \in Nat, n # 0
    PROVE  {w \in Seq(Refinements[i]) : Attempted(i, w) /\ Len(w) = n}
              = UNION {{Append(v, x) : x \in PossibleAfter(i, v)} :
                         v \in {u \in Seq(Refinements[i]) : Attempted(i, u) /\ Len(u) = n - 1}}
<1> DEFINE R == Refinements[i]
           Exact(j) == {w \in Seq(R) : Attempted(i, w) /\ Len(w) = j}
<1>1. ASSUME NEW w \in Exact(n)
      PROVE  \E v \in Exact(n - 1) : w \in {Append(v, x) : x \in PossibleAfter(i, v)}
  <2>1. w # <<>>
      OBVIOUS
  <2>2. /\ Front(w) \in Seq(R) /\ Len(Front(w)) = n - 1 /\ Last(w) \in R
        /\ w = Append(Front(w), Last(w))
      BY <2>1, FrontAndLast
  <2>3. Attempted(i, Front(w)) /\ Last(w) \in PossibleAfter(i, Front(w))
      BY <2>2, AttemptedStep
  <2> QED BY <2>2, <2>3
<1>2. ASSUME NEW v \in Exact(n - 1), NEW x \in PossibleAfter(i, v)
      PROVE  Append(v, x) \in Exact(n)
  <2>1. x \in R
      BY AttemptedIsPerformable, PossibleAssumption, InputsAssumption DEF PossibleAfter
  <2>2. Append(v, x) \in Seq(R) /\ Len(Append(v, x)) = n
      BY <2>1
  <2> QED BY <2>1, <2>2, AttemptedStep
<1> HIDE DEF Exact
<1> DEFINE longer(v) == {Append(v, x) : x \in PossibleAfter(i, v)}
<1>3. Exact(n) = UNION {longer(v) : v \in Exact(n - 1)}
  <2>1. \A w \in Exact(n) : \E v \in Exact(n - 1) : w \in longer(v)
      BY <1>1
  <2>2. \A v \in Exact(n - 1) : longer(v) \subseteq Exact(n)
      BY <1>2
  <2> HIDE DEF longer
  <2> QED BY <2>1, <2>2
<1> QED BY <1>3 DEF Exact

\* The sequences whose refinements are possible are the attempted ones: none is
\* longer than there are states to decide.
LEMMA SequencesAreAttempted ==
    ASSUME Input \in Inputs
    PROVE  /\ \A w : w \in Sequences <=> Attempted(Input, w)
           /\ \A w : w \in Complete <=> Completed(Input, w)
<1> DEFINE R == Refinements[Input]
           most == UndecidedStates(NewApta(tree))
           Exact(n) == {w \in Seq(R) : Attempted(Input, w) /\ Len(w) = n}
           next(S) == UNION {{Append(w, x) : x \in GetPossibleRefinements(options, Replay(w))} : w \in S}
           rec(f) == f = [n \in Nat |-> IF n = 0 THEN {<<>>} ELSE next(f[n - 1])]
           long == CHOOSE f : rec(f)
<1>1. \A n \in Nat : n # 0 => Exact(n) = next(Exact(n - 1))
  <2> SUFFICES ASSUME NEW n \in Nat, n # 0 PROVE Exact(n) = next(Exact(n - 1))
      OBVIOUS
  <2>1. Exact(n) = UNION {{Append(v, x) : x \in PossibleAfter(Input, v)} : v \in Exact(n - 1)}
      BY AttemptedOfLength
  <2>2. \A v : PossibleAfter(Input, v) = GetPossibleRefinements(options, Replay(v))
      BY OfInput
  <2> HIDE DEF Exact
  <2> QED BY <2>1, <2>2
<1>2. Exact(0) = {<<>>}
  <2>1. Attempted(Input, <<>>)
      BY DEF Attempted
  <2>2. <<>> \in Seq(R) /\ \A w \in Seq(R) : Len(w) = 0 <=> w = <<>>
      BY EmptySeq
  <2> QED BY <2>1, <2>2
<1> HIDE DEF Exact, next
<1>3. rec(long)
  <2> DEFINE e == [n \in Nat |-> Exact(n)]
  <2>1. \A n \in Nat : e[n] = IF n = 0 THEN {<<>>} ELSE next(e[n - 1])
      BY <1>1, <1>2
  <2>2. rec(e)
      BY <2>1
  <2> HIDE DEF e, rec
  <2> QED BY <2>2
<1>4. Sequences = UNION {long[n] : n \in 0 .. most}
    BY DEF Sequences, next
<1>5. \A n \in Nat : long[n] = IF n = 0 THEN {<<>>} ELSE next(long[n - 1])
  <2> HIDE DEF long
  <2> QED BY <1>3
<1> HIDE DEF long, rec
<1>6. \A n \in Nat : long[n] = Exact(n)
  <2> SUFFICES ASSUME NEW n0 \in Nat, long[n0] # Exact(n0) PROVE FALSE
      OBVIOUS
  <2> DEFINE Bad == {n \in Nat : long[n] # Exact(n)}
  <2>1. Bad \in SUBSET Nat /\ Bad # {}
      OBVIOUS
  <2>2. PICK n \in Bad : n - 1 \notin Bad
    <3> HIDE DEF Bad
    <3> QED BY <2>1, LeastNatural
  <2>3. CASE n = 0
      BY <1>2, <1>5, <2>3
  <2>4. CASE n # 0
    <3>1. n - 1 \in Nat /\ long[n - 1] = Exact(n - 1)
        BY <2>2, <2>4
    <3> QED BY <1>1, <1>5, <2>4, <3>1
  <2> QED BY <2>3, <2>4
<1>7. \A w : Attempted(Input, w) => w \in Exact(Len(w)) /\ Len(w) \in 0 .. most
  <2> SUFFICES ASSUME NEW w, Attempted(Input, w)
               PROVE  w \in Exact(Len(w)) /\ Len(w) \in 0 .. most
      OBVIOUS
  <2>1. w \in Seq(R) /\ Len(w) \in Nat
      BY LenProperties DEF Attempted
  <2>2. UndecidedStates(Replayed(Input, w)) + Len(w) <= UndecidedStates(NewApta(Input.tree))
      BY AttemptedSizes
  <2>3. UndecidedStates(Replayed(Input, w)) \in Nat
      BY AttemptedIsPerformable, SizesAssumption
  <2>4. UndecidedStates(NewApta(Input.tree)) = most /\ most \in Nat
      BY OfInput, InputsAssumption, SizesAssumption
  <2>5. Len(w) \in 0 .. most
    <3> HIDE DEF most
    <3> QED BY <2>1, <2>2, <2>3, <2>4
  <2> QED BY <2>1, <2>5 DEF Exact
<1>8. \A n : \A w \in Exact(n) : Attempted(Input, w)
    BY DEF Exact
<1>9. \A w : w \in Sequences <=> Attempted(Input, w)
  <2>1. most \in Nat
      BY OfInput, InputsAssumption, SizesAssumption
  <2> HIDE DEF most
  <2>2. \A n \in 0 .. most : n \in Nat /\ long[n] = Exact(n)
      BY <1>6, <2>1
  <2> QED BY <1>4, <1>7, <1>8, <2>2
<1>10. \A w : w \in Complete <=> w \in Sequences /\ PossibleAfter(Input, w) = {}
    BY OfInput DEF Complete
<1> QED BY <1>9, <1>10 DEF Completed

\* p is what w begins with.
Begins(p, w) == \E n \in 0 .. Len(w) : p = SubSeq(w, 1, n)

\* The states of a completed list are red, and no fewer than those of any list it
\* began with; where it went on, that was possible.
LEMMA CompletedFromHere ==
    ASSUME NEW i \in Inputs, NEW w, Completed(i, w), NEW p, Begins(p, w)
    PROVE  /\ FinalAptaSize(Replayed(i, w)) = NumRedStates(Replayed(i, w))
           /\ NumRedStates(Replayed(i, w)) \in Nat
           /\ NumRedStates(Replayed(i, p)) <= NumRedStates(Replayed(i, w))
           /\ p = w \/ \E x \in PossibleAfter(i, p) : Begins(Append(p, x), w)
<1>1. Attempted(i, w) /\ PossibleAfter(i, w) = {}
    BY DEF Completed
<1>2. Replayed(i, w) \in Automata[i]
    BY <1>1, AttemptedIsPerformable
<1>3. /\ FinalAptaSize(Replayed(i, w)) = NumRedStates(Replayed(i, w))
      /\ NumRedStates(Replayed(i, w)) \in Nat
    BY <1>1, <1>2, SizesAssumption DEF PossibleAfter
<1>4. PICK n \in 0 .. Len(w) : p = SubSeq(w, 1, n)
    BY DEF Begins
<1>5. NumRedStates(Replayed(i, p)) <= NumRedStates(Replayed(i, w))
    BY <1>1, <1>4, AttemptedSizes
<1>6. w \in Seq(Refinements[i]) /\ Len(w) \in Nat
    BY <1>1, LenProperties DEF Attempted
<1>7. CASE n = Len(w)
    BY <1>3, <1>4, <1>5, <1>6, <1>7, SubSeqFull
<1>8. CASE n # Len(w)
  <2> DEFINE x == w[n + 1]
             longer == SubSeq(w, 1, n + 1)
  <2>1. /\ x \in Refinements[i] /\ longer = Append(p, x)
        /\ n + 1 \in 1 .. Len(w) /\ (n + 1) - 1 = n /\ n + 1 \in 0 .. Len(w)
      BY <1>4, <1>6, <1>8, BeginningGrows
  <2>2. x \in PossibleAfter(i, p)
    <3>1. w[n + 1] \in PossibleAfter(i, SubSeq(w, 1, (n + 1) - 1))
        BY <1>1, <2>1 DEF Attempted
    <3> QED BY <1>4, <2>1, <3>1
  <2>3. Begins(Append(p, x), w)
      BY <2>1 DEF Begins
  <2> QED BY <1>3, <1>5, <2>2, <2>3
<1> QED BY <1>7, <1>8

-----------------------------------------------------------------------------
(* The inductive invariant of the search.                                  *)

SearchTypes ==
    /\ Input \in Inputs
    /\ best \in Nat \cup {Unsolved}
    /\ todo \in Seq(Refinements[Input])
    /\ performed \in Seq(Refinements[Input]) /\ run \in Seq(Refinements[Input])

\* What holds in which part of the program.
Phases ==
    /\ pc \in {"add", "loop", "greedy", "pop", "done", "crashed"}
    /\ pc \in {"greedy", "crashed"} => todo # <<>>
    /\ pc = "greedy" => Score = "deep"
    /\ pc # "greedy" => performed = <<>>
    /\ pc \in {"add", "pop", "done"} => todo = <<>>
    /\ pc = "done" => Q = {}

\* What is queued, or to be queued, can be performed again: all of it was possible.
ListsAttempted ==
    /\ Attempted(Input, current)
    /\ \A q \in Q : Attempted(Input, q.list)
    /\ \A j \in 1 .. Len(todo) : todo[j] \in PossibleAfter(Input, current)

\* The automaton, and how it was made.
TrailPerformed == Performable(Input, Trail) /\ m = Replayed(Input, Trail)

\* The search will still come by w.
Pending(w) ==
    \/ pc = "add" /\ Begins(current, w)
    \/ \E q \in Q : Begins(q.list, w)
    \/ \E j \in 1 .. Len(todo) : Begins(Append(current, todo[j]), w)

\* What the search will not come by is not better than the best solution.
NothingLost ==
    \A w : Completed(Input, w) =>
       Pending(w) \/ (best # Unsolved /\ best <= FinalAptaSize(Replayed(Input, w)))

\* The best solution is one.
BestIsCompleted ==
    best # Unsolved /\ Score # "deep" =>
       \E w : Completed(Input, w) /\ best = FinalAptaSize(Replayed(Input, w))

SearchInv ==
    /\ SearchTypes /\ Phases /\ ListsAttempted
    /\ TrailPerformed /\ NothingLost /\ BestIsCompleted

-----------------------------------------------------------------------------
(* What the steps have in common.                                          *)

\* Outside of the loop over the refinements the automaton is the current list's.
LEMMA AtCurrent ==
    ASSUME SearchInv, pc \notin {"greedy", "crashed"}
    PROVE  /\ Trail = current /\ performed = <<>>
           /\ current \in Seq(Refinements[Input])
           /\ Performable(Input, current) /\ m = Replayed(Input, current)
           /\ m \in Automata[Input]
           /\ PossibleAfter(Input, current) = GetPossibleRefinements(options, m)
<1>1. /\ performed = <<>> /\ current \in Seq(Refinements[Input]) /\ Input \in Inputs
      /\ Performable(Input, Trail) /\ m = Replayed(Input, Trail)
    BY DEF SearchInv, SearchTypes, Phases, ListsAttempted, Attempted, TrailPerformed
<1>2. Trail = current
    BY <1>1, ConcatEmptySeq DEF Trail
<1>3. m \in Automata[Input]
    BY <1>1, ReplayedIsMade
<1>4. PossibleAfter(Input, current) = GetPossibleRefinements(options, m)
    BY <1>1, <1>2, OfInput DEF PossibleAfter
<1> QED BY <1>1, <1>2, <1>3, <1>4

\* The next refinement of the loop can be performed on the current list, and undone.
LEMMA NextOfTodo ==
    ASSUME SearchInv, todo # <<>>
    PROVE  LET x == Head(todo)
               k == Replayed(Input, current)
           IN /\ x \in Refinements[Input] /\ x \in PossibleAfter(Input, current)
              /\ k \in Automata[Input] /\ Performable(Input, current)
              /\ Attempted(Input, Append(current, x))
              /\ Performable(Input, Append(current, x))
              /\ Replayed(Input, Append(current, x)) = DoRef(k, x)
              /\ DoRef(k, x) \in Automata[Input] /\ UndoRef(DoRef(k, x), x) = k
<1> DEFINE x == Head(todo)
           k == Replayed(Input, current)
<1>1. /\ Input \in Inputs /\ todo \in Seq(Refinements[Input])
      /\ Attempted(Input, current) /\ current \in Seq(Refinements[Input])
      /\ \A j \in 1 .. Len(todo) : todo[j] \in PossibleAfter(Input, current)
    BY DEF SearchInv, SearchTypes, ListsAttempted, Attempted
<1>2. x \in Refinements[Input] /\ x = todo[1] /\ 1 \in 1 .. Len(todo)
    BY <1>1
<1>3. x \in PossibleAfter(Input, current)
    BY <1>1, <1>2
<1>4. k \in Automata[Input] /\ Performable(Input, current)
    BY <1>1, AttemptedIsPerformable
<1>5. TestRef(Input.options, k, x)
    BY <1>1, <1>3, <1>4, PossibleAssumption, InputsAssumption DEF PossibleAfter
<1>6. DoRef(k, x) \in Automata[Input] /\ UndoRef(DoRef(k, x), x) = k
    BY <1>1, <1>2, <1>4, <1>5, UndoAssumption, InputsAssumption
<1>7. Attempted(Input, Append(current, x))
    BY <1>1, <1>2, <1>3, AttemptedStep
<1>8. Performable(Input, Append(current, x))
    BY <1>1, <1>7, AttemptedIsPerformable
<1>9. Replayed(Input, Append(current, x)) = DoRef(k, x)
    BY <1>1, <1>2, DoAllStep DEF Replayed
<1> QED BY <1>2, <1>3, <1>4, <1>6, <1>7, <1>8, <1>9

\* A result is kept when it is better.
LEMMA ImprovedIsBetter ==
    ASSUME best \in Nat \cup {Unsolved}, NEW r \in Nat
    PROVE  /\ Improved(r) \in Nat /\ Improved(r) # Unsolved /\ Improved(r) <= r
           /\ best # Unsolved => Improved(r) <= best
           /\ Improved(r) = r \/ (best # Unsolved /\ Improved(r) = best)
BY DEF Improved, Unsolved

\* The sizes are numbers.
LEMMA SizesOfMade ==
    ASSUME NEW i \in Inputs, NEW k \in Automata[i]
    PROVE  NumRedStates(k) \in Nat /\ FinalAptaSize(k) \in Nat
BY SizesAssumption

-----------------------------------------------------------------------------
(* What a step leaves alone.                                               *)

\* The input of a run stays the same.
LEMMA InputKept ==
    ASSUME UNCHANGED <<options, tree>>
    PROVE  Input' = Input /\ Score' = Score
BY DEF Input, Score

\* A step that keeps the lists keeps what is known of them.
LEMMA ListsKept ==
    ASSUME SearchInv, UNCHANGED <<options, tree, current, todo, Q>>
    PROVE  /\ ListsAttempted'
           /\ \A w : Pending(w) => Pending(w)' \/ (pc = "add" /\ pc' # "add" /\ Begins(current, w))
<1>1. Input' = Input
    BY InputKept
<1>2. ListsAttempted'
    BY <1>1 DEF SearchInv, ListsAttempted
<1>3. ASSUME NEW w, Pending(w)
      PROVE  Pending(w)' \/ (pc = "add" /\ pc' # "add" /\ Begins(current, w))
  <2>1. CASE pc = "add" /\ Begins(current, w)
      BY <2>1 DEF Pending
  <2>2. CASE \E q \in Q : Begins(q.list, w)
      BY <2>2 DEF Pending
  <2>3. CASE \E j \in 1 .. Len(todo) : Begins(Append(current, todo[j]), w)
      BY <2>3 DEF Pending
  <2> QED BY <1>3, <2>1, <2>2, <2>3 DEF Pending
<1> QED BY <1>2, <1>3

\* A best solution that is not touched, or is found in deep search, stays one.
LEMMA BestKept ==
    ASSUME SearchInv, UNCHANGED <<options, tree>>, best' = best \/ Score = "deep"
    PROVE  BestIsCompleted'
<1>1. Input' = Input /\ Score' = Score
    BY InputKept
<1>2. CASE Score = "deep"
    BY <1>1, <1>2 DEF BestIsCompleted
<1>3. CASE best' = best
    BY <1>1, <1>3 DEF SearchInv, BestIsCompleted
<1> QED BY <1>2, <1>3

\* Nothing is lost by a step that comes by all it came by before, and keeps or
\* improves the best solution.
LEMMA NothingIsLost ==
    ASSUME SearchInv, UNCHANGED <<options, tree>>,
           \/ best' = best
           \/ best' \in Nat /\ (best # Unsolved => best' <= best),
           \A w : Completed(Input, w) /\ Pending(w) =>
              Pending(w)' \/ (best' # Unsolved /\ best' <= FinalAptaSize(Replayed(Input, w)))
    PROVE  NothingLost'
<1>1. Input' = Input
    BY InputKept
<1> SUFFICES ASSUME NEW w, Completed(Input, w)
             PROVE  Pending(w)' \/ (best' # Unsolved /\ best' <= FinalAptaSize(Replayed(Input, w)))
    BY <1>1 DEF NothingLost
<1> DEFINE size == FinalAptaSize(Replayed(Input, w))
<1>2. size \in Nat
  <2>1. Replayed(Input, w) \in Automata[Input]
      BY AttemptedIsPerformable DEF Completed, SearchInv, SearchTypes
  <2> QED BY <2>1, SizesAssumption DEF SearchInv, SearchTypes
<1>3. Pending(w) \/ (best # Unsolved /\ best <= size)
    BY DEF SearchInv, NothingLost
<1>4. best \in Nat \cup {Unsolved}
    BY DEF SearchInv, SearchTypes
<1> HIDE DEF size
<1>5. CASE best # Unsolved /\ best <= size
  <2>1. best' # Unsolved /\ best' <= size
      BY <1>2, <1>4, <1>5 DEF Unsolved
  <2> QED BY <2>1 DEF size
<1> QED BY <1>3, <1>5

\* While the list is the current one and nothing was performed on it, the automaton
\* is as the list says.
LEMMA TrailKept ==
    ASSUME SearchInv, Input' = Input, m' = m, current' = current,
           pc \notin {"greedy", "crashed"}, pc' \notin {"greedy", "crashed"}, performed' = <<>>
    PROVE  TrailPerformed'
<1>1. Trail = current /\ current \in Seq(Refinements[Input])
    BY AtCurrent
<1>2. Trail' = current
    BY <1>1, ConcatEmptySeq DEF Trail
<1> QED BY <1>1, <1>2 DEF SearchInv, TrailPerformed

-----------------------------------------------------------------------------
(* One lemma for every action: it preserves the invariant.                 *)

\* The run starts with the empty list, with which every sequence begins.
LEMMA InitSearch ==
    ASSUME Init
    PROVE  SearchInv
<1>1. PICK i \in Inputs : options = i.options /\ tree = i.tree
    BY DEF Init
<1>2. Input = i
    BY <1>1, InputsAssumption DEF Input
<1>3. /\ m = NewApta(tree) /\ best = Unsolved /\ run = <<>> /\ performed = <<>>
      /\ current = <<>> /\ todo = <<>> /\ Q = {} /\ pc = "add"
    BY DEF Init, QueueInit
<1>4. <<>> \in Seq(Refinements[Input])
    OBVIOUS
<1>5. SearchTypes
    BY <1>2, <1>3, <1>4 DEF SearchTypes
<1>6. Phases
    BY <1>3 DEF Phases
<1>7. ListsAttempted
  <2>1. Attempted(Input, current)
      BY <1>3, <1>4 DEF Attempted
  <2> QED BY <1>3, <2>1 DEF ListsAttempted
<1>8. TrailPerformed
  <2>1. Trail = <<>>
      BY <1>3, <1>4, ConcatEmptySeq DEF Trail
  <2>2. Performable(Input, <<>>)
      BY <1>4 DEF Performable
  <2>3. m = Replayed(Input, <<>>)
      BY <1>1, <1>2, <1>3, DoNothing DEF Replayed
  <2> QED BY <2>1, <2>2, <2>3 DEF TrailPerformed
<1>9. NothingLost
  <2> SUFFICES ASSUME NEW w, Completed(Input, w) PROVE Pending(w)
      BY DEF NothingLost
  <2>1. w \in Seq(Refinements[Input]) /\ 0 \in 0 .. Len(w)
      BY LenProperties DEF Completed, Attempted
  <2>2. Begins(current, w)
      BY <1>3, <2>1, SubSeqEmpty DEF Begins
  <2> QED BY <1>3, <2>2 DEF Pending
<1>10. BestIsCompleted
    BY <1>3 DEF BestIsCompleted
<1> QED BY <1>5, <1>6, <1>7, <1>8, <1>9, <1>10 DEF SearchInv

\* The list that is dropped only leads to solutions with as many red states as it
\* has, which is no fewer than the best solution has.
LEMMA PruneSearch ==
    ASSUME SearchInv, Prune
    PROVE  SearchInv'
<1>1. /\ pc = "add" /\ pc' = "pop" /\ best # Unsolved /\ NumRedStates(m) >= best
      /\ UNCHANGED <<options, tree, m, current, todo, Q, refs, best, run, performed>>
    BY DEF Prune
<1>2. Input' = Input /\ Score' = Score
    BY <1>1, InputKept
<1>3. performed = <<>> /\ Performable(Input, current) /\ m = Replayed(Input, current)
      /\ m \in Automata[Input]
    BY <1>1, AtCurrent
<1>4. SearchTypes'
    BY <1>1, <1>2 DEF SearchInv, SearchTypes
<1>5. Phases'
    BY <1>1, <1>2 DEF SearchInv, Phases
<1>6. TrailPerformed'
    BY <1>1, <1>2, <1>3, TrailKept
<1>7. ListsAttempted'
    BY <1>1, ListsKept
<1>8. ASSUME NEW w, Completed(Input, w), Pending(w)
      PROVE  Pending(w)' \/ (best' # Unsolved /\ best' <= FinalAptaSize(Replayed(Input, w)))
  <2>1. CASE Pending(w)'
      BY <2>1
  <2>2. CASE Begins(current, w)
    <3>1. /\ FinalAptaSize(Replayed(Input, w)) = NumRedStates(Replayed(Input, w))
          /\ NumRedStates(Replayed(Input, w)) \in Nat
          /\ NumRedStates(Replayed(Input, current)) <= NumRedStates(Replayed(Input, w))
        BY <1>8, <2>2, CompletedFromHere DEF SearchInv, SearchTypes
    <3>2. NumRedStates(m) \in Nat /\ best \in Nat
        BY <1>1, <1>3, SizesOfMade DEF SearchInv, SearchTypes
    <3>3. NumRedStates(m) <= NumRedStates(Replayed(Input, w))
        BY <1>3, <3>1
    <3>4. best <= NumRedStates(Replayed(Input, w))
        BY <1>1, <3>1, <3>2, <3>3
    <3> QED BY <1>1, <3>1, <3>4
  <2> QED BY <1>1, <1>8, <2>1, <2>2, ListsKept
<1>9. NothingLost'
    BY <1>1, <1>8, NothingIsLost
<1>10. BestIsCompleted'
    BY <1>1, BestKept
<1> QED BY <1>4, <1>5, <1>6, <1>7, <1>9, <1>10 DEF SearchInv

\* Where nothing is possible the current list is a solution, and the only one that
\* begins with it.
LEMMA SolutionSearch ==
    ASSUME SearchInv, Solution
    PROVE  SearchInv'
<1>1. /\ pc = "add" /\ pc' = "pop" /\ best' = Improved(NumRedStates(m))
      /\ GetPossibleRefinements(options, m) = {}
      /\ UNCHANGED <<options, tree, m, current, todo, Q, refs, run, performed>>
    BY DEF Solution, Hopeful
<1>2. Input' = Input /\ Score' = Score /\ Input \in Inputs
    BY <1>1, InputKept DEF SearchInv, SearchTypes
<1>3. performed = <<>> /\ Performable(Input, current) /\ m = Replayed(Input, current)
      /\ m \in Automata[Input] /\ PossibleAfter(Input, current) = {}
    BY <1>1, AtCurrent
<1>4. NumRedStates(m) \in Nat /\ best \in Nat \cup {Unsolved}
    BY <1>2, <1>3, SizesOfMade DEF SearchInv, SearchTypes
<1>5. /\ best' \in Nat /\ best' # Unsolved /\ best' <= NumRedStates(m)
      /\ best # Unsolved => best' <= best
      /\ best' = NumRedStates(m) \/ (best # Unsolved /\ best' = best)
    BY <1>1, <1>4, ImprovedIsBetter
<1>6. SearchTypes'
    BY <1>1, <1>2, <1>5 DEF SearchInv, SearchTypes
<1>7. Phases'
    BY <1>1, <1>2 DEF SearchInv, Phases
<1>8. TrailPerformed'
    BY <1>1, <1>2, <1>3, TrailKept
<1>9. ListsAttempted'
    BY <1>1, ListsKept
<1>10. Completed(Input, current) /\ Attempted(Input, current)
    BY <1>3 DEF SearchInv, ListsAttempted, Completed
<1>11. ASSUME NEW w, Completed(Input, w), Begins(current, w)
       PROVE  FinalAptaSize(Replayed(Input, w)) = NumRedStates(m)
  <2>1. /\ FinalAptaSize(Replayed(Input, w)) = NumRedStates(Replayed(Input, w))
        /\ current = w \/ \E x \in PossibleAfter(Input, current) : Begins(Append(current, x), w)
      BY <1>2, <1>11, CompletedFromHere
  <2> QED BY <1>3, <2>1
<1>12. ASSUME NEW w, Completed(Input, w), Pending(w)
       PROVE  Pending(w)' \/ (best' # Unsolved /\ best' <= FinalAptaSize(Replayed(Input, w)))
    BY <1>1, <1>5, <1>11, <1>12, ListsKept
<1>13. NothingLost'
    BY <1>1, <1>5, <1>12, NothingIsLost
<1>14. BestIsCompleted'
  <2> SUFFICES ASSUME Score # "deep"
               PROVE  \E w : Completed(Input, w) /\ best' = FinalAptaSize(Replayed(Input, w))
      BY <1>2 DEF BestIsCompleted
  <2>1. CASE best' = NumRedStates(m)
    <3>1. FinalAptaSize(Replayed(Input, current)) = NumRedStates(m)
        BY <1>2, <1>3, SizesAssumption DEF PossibleAfter
    <3> QED BY <1>10, <2>1, <3>1
  <2>2. CASE best # Unsolved /\ best' = best
      BY <2>2 DEF SearchInv, BestIsCompleted
  <2> QED BY <1>5, <2>1, <2>2
<1> QED BY <1>6, <1>7, <1>8, <1>9, <1>13, <1>14 DEF SearchInv

\* Where something is possible a sequence that begins with the current list goes on
\* with one of the refinements that are to be queued.
LEMMA ExpandSearch ==
    ASSUME SearchInv, Expand
    PROVE  SearchInv'
<1> DEFINE S == GetPossibleRefinements(options, m)
<1>1. /\ pc = "add" /\ pc' = "loop" /\ S # {} /\ todo' = InOrder(S)
      /\ UNCHANGED <<options, tree, m, current, Q, best, run, performed>>
    BY DEF Expand, Hopeful
<1>2. Input' = Input /\ Score' = Score /\ Input \in Inputs
    BY <1>1, InputKept DEF SearchInv, SearchTypes
<1>3. performed = <<>> /\ Performable(Input, current) /\ m = Replayed(Input, current)
      /\ m \in Automata[Input] /\ PossibleAfter(Input, current) = S
    BY <1>1, AtCurrent
<1>4. /\ todo' \in Seq(S) /\ ToSet(todo') = S /\ S \subseteq Refinements[Input]
  <2>1. options \in Settings(Input)
      BY <1>2, OfInput
  <2> HIDE DEF S
  <2> QED BY <1>1, <1>2, <1>3, <2>1, PossibleInOrder DEF S
<1> HIDE DEF S
<1>5. todo' \in Seq(Refinements[Input]) /\ \A j \in 1 .. Len(todo') : todo'[j] \in S
  <2>1. \A j \in 1 .. Len(todo') : todo'[j] \in S
      BY <1>4, ElementOfSeq
  <2> QED BY <1>4, <2>1
<1>6. SearchTypes'
    BY <1>1, <1>2, <1>5 DEF SearchInv, SearchTypes
<1>7. Phases'
    BY <1>1, <1>2, <1>3 DEF SearchInv, Phases
<1>8. TrailPerformed'
    BY <1>1, <1>2, <1>3, TrailKept
<1>9. ListsAttempted'
    BY <1>1, <1>2, <1>3, <1>5 DEF SearchInv, ListsAttempted
<1>10. todo = <<>>
    BY <1>1 DEF SearchInv, Phases
<1>11. ASSUME NEW w, Completed(Input, w), Pending(w)
       PROVE  Pending(w)'
  <2>1. CASE \E q \in Q : Begins(q.list, w)
      BY <1>1, <2>1 DEF Pending
  <2>2. CASE Begins(current, w)
    <3>1. current = w \/ \E x \in PossibleAfter(Input, current) : Begins(Append(current, x), w)
        BY <1>2, <1>11, <2>2, CompletedFromHere
    <3>2. current # w
        BY <1>1, <1>3, <1>11 DEF Completed
    <3>3. PICK x \in S : Begins(Append(current, x), w)
        BY <1>3, <3>1, <3>2
    <3>4. PICK j \in 1 .. Len(todo') : todo'[j] = x
      <4>1. x \in ToSet(todo')
          BY <1>4
      <4>2. DOMAIN todo' = 1 .. Len(todo')
          BY <1>4
      <4> QED BY <4>1, <4>2 DEF ToSet
    <3>5. Begins(Append(current, todo'[j]), w)
        BY <3>3, <3>4
    <3> QED BY <1>1, <3>5 DEF Pending
  <2>3. ~ \E j \in 1 .. Len(todo) : Begins(Append(current, todo[j]), w)
      BY <1>10
  <2> QED BY <1>11, <2>1, <2>2, <2>3 DEF Pending
<1>12. NothingLost'
    BY <1>1, <1>11, NothingIsLost
<1>13. BestIsCompleted'
    BY <1>1, BestKept
<1> QED BY <1>6, <1>7, <1>8, <1>9, <1>12, <1>13 DEF SearchInv

\* Queueing the next list comes by the same sequences.
LEMMA PushSearch ==
    ASSUME SearchInv, todo # <<>>, NEW s, Push(s), UNCHANGED <<options, tree, current>>, pc # "add"
    PROVE  /\ todo' \in Seq(Refinements[Input]) /\ ListsAttempted'
           /\ \A w : Pending(w) => Pending(w)'
<1> DEFINE x == Head(todo)
           q0 == [score |-> s, list |-> Append(current, x)]
<1>1. Input' = Input
    BY InputKept
<1>2. Q' = Q \cup {q0} /\ todo' = Tail(todo)
    BY DEF Push
<1>3. todo \in Seq(Refinements[Input])
    BY DEF SearchInv, SearchTypes
<1>4. /\ todo' \in Seq(Refinements[Input]) /\ Len(todo') = Len(todo) - 1 /\ Len(todo) \in Nat
      /\ \A j \in 1 .. Len(todo') : todo'[j] = todo[j + 1]
      /\ x = todo[1]
    BY <1>2, <1>3, HeadTailProperties, LenProperties
<1>5. Attempted(Input, q0.list) /\ q0.list = Append(current, x)
    BY NextOfTodo
<1> HIDE DEF q0, x
<1>6. ListsAttempted'
  <2>1. \A j \in 1 .. Len(todo') : todo'[j] \in PossibleAfter(Input, current)
    <3>1. \A j \in 1 .. Len(todo') : j + 1 \in 1 .. Len(todo)
        BY <1>4
    <3> QED BY <1>4, <3>1 DEF SearchInv, ListsAttempted
  <2> QED BY <1>1, <1>2, <1>5, <2>1 DEF SearchInv, ListsAttempted
<1>7. ASSUME NEW w, Pending(w)
      PROVE  Pending(w)'
  <2>1. CASE \E q \in Q : Begins(q.list, w)
      BY <1>2, <2>1 DEF Pending
  <2>2. ASSUME NEW j \in 1 .. Len(todo), Begins(Append(current, todo[j]), w)
        PROVE  Pending(w)'
    <3>1. CASE j = 1
      <4>1. Begins(q0.list, w)
          BY <1>4, <1>5, <2>2, <3>1
      <4> QED BY <1>2, <4>1 DEF Pending
    <3>2. CASE j # 1
      <4>1. j - 1 \in 1 .. Len(todo') /\ todo'[j - 1] = todo[j]
          BY <1>4, <3>2
      <4>2. Begins(Append(current, todo'[j - 1]), w)
          BY <2>2, <4>1
      <4> QED BY <4>1, <4>2 DEF Pending
    <3> QED BY <3>1, <3>2
  <2> QED BY <1>7, <2>1, <2>2 DEF Pending
<1> QED BY <1>4, <1>6, <1>7

\* A list that is scored without a greedy run: the refinement is undone at once.
LEMMA EnqueueSearch ==
    ASSUME SearchInv, Enqueue
    PROVE  SearchInv'
<1> DEFINE x == Head(todo)
           s == ScoreOf(DoRef(m, x))
<1>1. /\ pc = "loop" /\ pc' = "loop" /\ todo # <<>> /\ Push(s) /\ m' = UndoRef(DoRef(m, x), x)
      /\ UNCHANGED <<options, tree, current, best, run, performed>>
    BY DEF Enqueue
<1>2. Input' = Input /\ Score' = Score
    BY <1>1, InputKept
<1>3. performed = <<>> /\ m = Replayed(Input, current)
    BY <1>1, AtCurrent
<1>4. m' = m
    BY <1>1, <1>3, NextOfTodo
<1> HIDE DEF s, x
<1>5. /\ todo' \in Seq(Refinements[Input]) /\ ListsAttempted'
      /\ \A w : Pending(w) => Pending(w)'
    BY <1>1, PushSearch
<1>6. SearchTypes'
    BY <1>1, <1>2, <1>5 DEF SearchInv, SearchTypes
<1>7. Phases'
    BY <1>1, <1>2, <1>3 DEF Phases
<1>8. TrailPerformed'
    BY <1>1, <1>2, <1>3, <1>4, TrailKept
<1>9. NothingLost'
    BY <1>1, <1>5, NothingIsLost
<1>10. BestIsCompleted'
    BY <1>1, BestKept
<1> QED BY <1>5, <1>6, <1>7, <1>8, <1>9, <1>10 DEF SearchInv

\* The next refinement of the loop is performed, to score its list.
LEMMA TestSearch ==
    ASSUME SearchInv, pc = "loop", todo # <<>>, m' = DoRef(m, Head(todo)),
           (pc' = "greedy" /\ Score = "deep") \/ pc' = "crashed",
           UNCHANGED <<options, tree, current, todo, Q, refs, best, run, performed>>
    PROVE  SearchInv'
<1> DEFINE x == Head(todo)
<1>1. Input' = Input /\ Score' = Score
    BY InputKept
<1>2. performed = <<>> /\ m = Replayed(Input, current)
    BY AtCurrent
<1>3. /\ x \in Refinements[Input] /\ Performable(Input, Append(current, x))
      /\ Replayed(Input, Append(current, x)) = DoRef(m, x)
    BY <1>2, NextOfTodo
<1>4. SearchTypes'
    BY <1>1 DEF SearchInv, SearchTypes
<1>5. Phases'
    BY <1>1, <1>2 DEF SearchInv, Phases
<1>6. TrailPerformed'
  <2>1. Append(current, x) \in Seq(Refinements[Input])
      BY <1>3 DEF Performable
  <2>2. Trail' = Append(current, x)
    <3>1. Trail' = Append(current, x) \o <<>>
        BY <1>2 DEF Trail
    <3> QED BY <2>1, <3>1, ConcatEmptySeq
  <2> HIDE DEF x
  <2> QED BY <1>1, <1>3, <2>2 DEF TrailPerformed, x
<1>7. ListsAttempted' /\ \A w : Pending(w) => Pending(w)'
    BY ListsKept
<1>8. NothingLost'
    BY <1>7, NothingIsLost
<1>9. BestIsCompleted'
    BY BestKept
<1> QED BY <1>4, <1>5, <1>6, <1>7, <1>8, <1>9 DEF SearchInv

\* All lists are queued.
LEMMA QueuedSearch ==
    ASSUME SearchInv, Queued
    PROVE  SearchInv'
<1>1. /\ pc = "loop" /\ pc' = "pop" /\ todo = <<>>
      /\ UNCHANGED <<options, tree, m, current, todo, Q, refs, best, run, performed>>
    BY DEF Queued
<1>2. Input' = Input /\ Score' = Score
    BY <1>1, InputKept
<1>3. performed = <<>>
    BY <1>1, AtCurrent
<1>4. SearchTypes'
    BY <1>1, <1>2 DEF SearchInv, SearchTypes
<1>5. Phases'
    BY <1>1, <1>2, <1>3 DEF Phases
<1>6. TrailPerformed'
    BY <1>1, <1>2, <1>3, TrailKept
<1>7. ListsAttempted' /\ \A w : Pending(w) => Pending(w)'
    BY <1>1, ListsKept
<1>8. NothingLost'
    BY <1>1, <1>7, NothingIsLost
<1>9. BestIsCompleted'
    BY <1>1, BestKept
<1> QED BY <1>4, <1>5, <1>6, <1>7, <1>8, <1>9 DEF SearchInv

\* What the greedy run performs passes its test there: the refinement of the last
\* run was tested anew, the best one is possible.
LEMMA TopRefPasses ==
    ASSUME SearchInv, pc = "greedy", TopRef # None
    PROVE  /\ TopRef \in Refinements[Input] /\ TestRef(options, m, TopRef)
           /\ m = Replayed(Input, Trail) /\ Trail \in Seq(Refinements[Input])
           /\ Performable(Input, Trail)
<1>1. /\ Input \in Inputs /\ run \in Seq(Refinements[Input])
      /\ m = Replayed(Input, Trail) /\ Performable(Input, Trail)
    BY DEF SearchInv, SearchTypes, TrailPerformed
<1>2. m \in Automata[Input] /\ Trail \in Seq(Refinements[Input])
    BY <1>1, ReplayedIsMade DEF Performable
<1>3. CASE run # <<>> /\ TestRef(options, m, Head(run))
  <2>1. TopRef = Head(run)
      BY <1>3 DEF TopRef
  <2>2. Head(run) \in Refinements[Input]
      BY <1>1, <1>3, HeadTailProperties
  <2> QED BY <1>1, <1>2, <1>3, <2>1, <2>2
<1>4. CASE ~(run # <<>> /\ TestRef(options, m, Head(run)))
  <2>1. TopRef = BestRefinement(options, m)
      BY <1>4 DEF TopRef
  <2>2. options \in Settings(Input)
      BY <1>1, OfInput
  <2>3. /\ GetPossibleRefinements(options, m) \subseteq Refinements[Input]
        /\ \A x \in GetPossibleRefinements(options, m) : TestRef(options, m, x)
        /\ TopRef \in GetPossibleRefinements(options, m)
      BY <1>1, <1>2, <2>1, <2>2, PossibleInOrder
  <2>4. TopRef \in Refinements[Input] /\ TestRef(options, m, TopRef)
      BY <2>3
  <2> QED BY <1>1, <1>2, <2>4
<1> QED BY <1>1, <1>2, <1>3, <1>4

\* A step of a greedy run.
LEMMA GreedyStepSearch ==
    ASSUME SearchInv, GreedyStep
    PROVE  SearchInv'
<1> DEFINE x == TopRef
<1>1. /\ pc = "greedy" /\ pc' = "greedy" /\ x # None /\ m' = DoRef(m, x)
      /\ performed' = Append(performed, x)
      /\ run' = IF run = <<>> THEN run ELSE Tail(run)
      /\ UNCHANGED <<options, tree, current, todo, Q, refs, best>>
    BY DEF GreedyStep
<1>2. Input' = Input /\ Score' = Score /\ Input \in Inputs
    BY <1>1, InputKept DEF SearchInv, SearchTypes
<1>3. /\ x \in Refinements[Input] /\ TestRef(options, m, x)
      /\ m = Replayed(Input, Trail) /\ Trail \in Seq(Refinements[Input])
      /\ Performable(Input, Trail)
    BY <1>1, TopRefPasses
<1> HIDE DEF x
<1>4. SearchTypes'
  <2>1. performed' \in Seq(Refinements[Input]) /\ run' \in Seq(Refinements[Input])
    <3>1. performed \in Seq(Refinements[Input]) /\ run \in Seq(Refinements[Input])
        BY DEF SearchInv, SearchTypes
    <3>2. run # <<>> => Tail(run) \in Seq(Refinements[Input])
        BY <3>1, HeadTailProperties
    <3> QED BY <1>1, <1>3, <3>1, <3>2, AppendProperties
  <2> QED BY <1>1, <1>2, <2>1 DEF SearchInv, SearchTypes
<1>5. Phases'
    BY <1>1, <1>2 DEF SearchInv, Phases
<1>6. TrailPerformed'
  <2> DEFINE list == Append(current, Head(todo))
  <2>1. list \in Seq(Refinements[Input]) /\ performed \in Seq(Refinements[Input])
    <3>1. todo # <<>>
        BY <1>1 DEF SearchInv, Phases
    <3> QED BY <3>1, NextOfTodo DEF SearchInv, SearchTypes, Performable
  <2>2. Trail = list \o performed /\ Trail' = list \o Append(performed, x)
      BY <1>1 DEF Trail
  <2> HIDE DEF list
  <2>3. Trail' = Append(Trail, x)
      BY <1>3, <2>1, <2>2, AppendToConcat
  <2>4. PassesAfter(Input, Trail, x)
      BY <1>2, <1>3, OfInput DEF PassesAfter
  <2>5. Performable(Input, Append(Trail, x))
      BY <1>2, <1>3, <2>4, PerformableStep
  <2>6. Replayed(Input, Append(Trail, x)) = m'
      BY <1>1, <1>3, DoAllStep DEF Replayed
  <2> QED BY <1>2, <2>3, <2>5, <2>6 DEF TrailPerformed
<1>7. ListsAttempted' /\ \A w : Pending(w) => Pending(w)'
    BY <1>1, ListsKept
<1>8. NothingLost'
    BY <1>1, <1>7, NothingIsLost
<1>9. BestIsCompleted'
    BY <1>1, BestKept
<1> QED BY <1>4, <1>5, <1>6, <1>7, <1>8, <1>9 DEF SearchInv

\* The end of a greedy run: it is undone, and the list is queued with its result.
LEMMA GreedyEndSearch ==
    ASSUME SearchInv, GreedyEnd
    PROVE  SearchInv'
<1> DEFINE x == Head(todo)
           s == FinalAptaSize(m)
           list == Append(current, x)
<1>1. /\ pc = "greedy" /\ pc' = "loop" /\ best' = Improved(s)
      /\ m' = UndoRef(UndoAll(m, performed), x)
      /\ run' = performed /\ performed' = <<>> /\ Push(s)
      /\ UNCHANGED <<options, tree, current>>
    BY DEF GreedyEnd, GreedyUndone
<1>2. Input' = Input /\ Score' = Score /\ Input \in Inputs
    BY <1>1, InputKept DEF SearchInv, SearchTypes
<1>3. todo # <<>> /\ Score = "deep"
    BY <1>1 DEF SearchInv, Phases
<1>4. /\ performed \in Seq(Refinements[Input]) /\ best \in Nat \cup {Unsolved}
      /\ Performable(Input, Trail) /\ m = Replayed(Input, Trail)
    BY DEF SearchInv, SearchTypes, TrailPerformed
<1>5. /\ x \in Refinements[Input] /\ Performable(Input, current) /\ Performable(Input, list)
      /\ Replayed(Input, list) = DoRef(Replayed(Input, current), x)
      /\ UndoRef(DoRef(Replayed(Input, current), x), x) = Replayed(Input, current)
    BY <1>3, NextOfTodo
<1>6. Trail = list \o performed
    BY <1>1 DEF Trail
<1>7. m' = Replayed(Input, current)
  <2>1. list \in Seq(Refinements[Input])
      BY <1>5 DEF Performable
  <2> HIDE DEF list
  <2>2. UndoAll(m, performed) = Replayed(Input, list)
      BY <1>2, <1>4, <1>6, <2>1, UndoneExactly
  <2> HIDE DEF x
  <2> QED BY <1>1, <1>5, <2>2
<1>8. s \in Nat
  <2>1. m \in Automata[Input]
      BY <1>2, <1>4, ReplayedIsMade
  <2> QED BY <1>2, <2>1, SizesOfMade
<1> HIDE DEF s, x, list
<1>9. /\ best' \in Nat
      /\ best # Unsolved => best' <= best
    BY <1>1, <1>4, <1>8, ImprovedIsBetter
<1>10. /\ todo' \in Seq(Refinements[Input]) /\ ListsAttempted'
       /\ \A w : Pending(w) => Pending(w)'
    BY <1>1, <1>3, PushSearch
<1>11. SearchTypes'
    BY <1>1, <1>2, <1>4, <1>9, <1>10 DEF SearchInv, SearchTypes
<1>12. Phases'
    BY <1>1, <1>2 DEF Phases
<1>13. TrailPerformed'
  <2>1. Trail' = current
    <3>1. Trail' = current \o <<>>
        BY <1>1 DEF Trail
    <3>2. current \in Seq(Refinements[Input])
        BY <1>5 DEF Performable
    <3> QED BY <3>1, <3>2, ConcatEmptySeq
  <2> QED BY <1>2, <1>5, <1>7, <2>1 DEF TrailPerformed
<1>14. NothingLost'
    BY <1>1, <1>9, <1>10, NothingIsLost
<1>15. BestIsCompleted'
    BY <1>1, <1>3, BestKept
<1> QED BY <1>10, <1>11, <1>12, <1>13, <1>14, <1>15 DEF SearchInv

\* The automaton is changed to what the list that is taken makes of the prefix tree.
LEMMA TakeSearch ==
    ASSUME SearchInv, ChangeRefinementList
    PROVE  SearchInv'
<1>1. PICK q \in Q : /\ m' = DoAll(UndoAll(m, current), q.list)
                     /\ current' = q.list /\ Q' = Q \ {q}
    BY DEF ChangeRefinementList, Changed
<1>2. /\ pc = "pop" /\ pc' = "add"
      /\ UNCHANGED <<options, tree, todo, best, run, performed>>
    BY DEF ChangeRefinementList
<1>3. Input' = Input /\ Score' = Score /\ Input \in Inputs
    BY <1>2, InputKept DEF SearchInv, SearchTypes
<1>4. /\ performed = <<>> /\ current \in Seq(Refinements[Input])
      /\ Performable(Input, current) /\ m = Replayed(Input, current)
    BY <1>2, AtCurrent
<1>5. todo = <<>>
    BY <1>2 DEF SearchInv, Phases
<1>6. UndoAll(m, current) = NewApta(tree)
  <2>1. <<>> \in Seq(Refinements[Input]) /\ <<>> \o current = current
      BY <1>4, ConcatEmptySeq
  <2>2. UndoAll(Replayed(Input, <<>> \o current), current) = Replayed(Input, <<>>)
      BY <1>3, <1>4, <2>1, UndoneExactly
  <2>3. Replayed(Input, <<>>) = NewApta(tree)
      BY <1>3, OfInput, DoNothing DEF Replayed
  <2> QED BY <1>4, <2>1, <2>2, <2>3
<1>7. m' = Replayed(Input, q.list)
    BY <1>1, <1>3, <1>6, OfInput DEF Replayed
<1>8. Attempted(Input, q.list)
    BY DEF SearchInv, ListsAttempted
<1>9. Performable(Input, q.list) /\ q.list \in Seq(Refinements[Input])
    BY <1>3, <1>8, AttemptedIsPerformable DEF Attempted
<1>10. SearchTypes'
    BY <1>2, <1>3 DEF SearchInv, SearchTypes
<1>11. Phases'
    BY <1>2, <1>3, <1>4, <1>5 DEF Phases
<1>12. TrailPerformed'
  <2>1. Trail' = q.list
    <3>1. Trail' = q.list \o <<>>
        BY <1>1, <1>2, <1>4 DEF Trail
    <3> QED BY <1>9, <3>1, ConcatEmptySeq
  <2> QED BY <1>3, <1>7, <1>9, <2>1 DEF TrailPerformed
<1>13. ListsAttempted'
    BY <1>1, <1>2, <1>3, <1>5, <1>8 DEF SearchInv, ListsAttempted
<1>14. ASSUME NEW w, Pending(w)
       PROVE  Pending(w)'
  <2>1. PICK p \in Q : Begins(p.list, w)
      BY <1>2, <1>5, <1>14 DEF Pending
  <2>2. CASE p = q
      BY <1>1, <1>2, <2>1, <2>2 DEF Pending
  <2>3. CASE p # q
      BY <1>1, <2>1, <2>3 DEF Pending
  <2> QED BY <2>2, <2>3
<1>15. NothingLost'
    BY <1>2, <1>14, NothingIsLost
<1>16. BestIsCompleted'
    BY <1>2, BestKept
<1> QED BY <1>10, <1>11, <1>12, <1>13, <1>15, <1>16 DEF SearchInv

\* The queue is empty.
LEMMA FinishSearch ==
    ASSUME SearchInv, Finish
    PROVE  SearchInv'
<1>1. /\ pc = "pop" /\ pc' = "done" /\ Q = {}
      /\ UNCHANGED <<options, tree, m, current, todo, Q, refs, best, run, performed>>
    BY DEF Finish
<1>2. Input' = Input /\ Score' = Score
    BY <1>1, InputKept
<1>3. performed = <<>>
    BY <1>1, AtCurrent
<1>4. SearchTypes'
    BY <1>1, <1>2 DEF SearchInv, SearchTypes
<1>5. Phases'
    BY <1>1, <1>2, <1>3 DEF SearchInv, Phases
<1>6. TrailPerformed'
    BY <1>1, <1>2, <1>3, TrailKept
<1>7. ListsAttempted' /\ \A w : Pending(w) => Pending(w)'
    BY <1>1, ListsKept
<1>8. NothingLost'
    BY <1>1, <1>7, NothingIsLost
<1>9. BestIsCompleted'
    BY <1>1, BestKept
<1> QED BY <1>4, <1>5, <1>6, <1>7, <1>8, <1>9 DEF SearchInv

\* A step that changes nothing.
LEMMA StutterSearch ==
    ASSUME SearchInv, UNCHANGED vars
    PROVE  SearchInv'
<1>1. UNCHANGED <<options, tree, m, current, todo, Q, refs, best, run, performed, pc>>
    BY DEF vars
<1>2. Input' = Input /\ Score' = Score
    BY <1>1, InputKept
<1>3. SearchTypes' /\ Phases'
    BY <1>1, <1>2 DEF SearchInv, SearchTypes, Phases
<1>4. TrailPerformed'
  <2>1. Trail' = Trail
      BY <1>1 DEF Trail
  <2> QED BY <1>1, <1>2, <2>1 DEF SearchInv, TrailPerformed
<1>5. ListsAttempted' /\ \A w : Pending(w) => Pending(w)'
    BY <1>1, ListsKept
<1>6. NothingLost'
    BY <1>1, <1>5, NothingIsLost
<1>7. BestIsCompleted'
    BY <1>1, BestKept
<1> QED BY <1>3, <1>4, <1>5, <1>6, <1>7 DEF SearchInv

\* The invariant is inductive.
LEMMA NextSearch ==
    ASSUME SearchInv, [Next]_vars
    PROVE  SearchInv'
<1>1. CASE Prune
    BY <1>1, PruneSearch
<1>2. CASE Solution
    BY <1>2, SolutionSearch
<1>3. CASE Expand
    BY <1>3, ExpandSearch
<1>4. CASE Enqueue
    BY <1>4, EnqueueSearch
<1>5. CASE Crash
    BY <1>5, TestSearch DEF Crash
<1>6. CASE Queued
    BY <1>6, QueuedSearch
<1>7. CASE StartGreedy
    BY <1>7, TestSearch DEF StartGreedy
<1>8. CASE GreedyStep
    BY <1>8, GreedyStepSearch
<1>9. CASE GreedyEnd
    BY <1>9, GreedyEndSearch
<1>10. CASE ChangeRefinementList
    BY <1>10, TakeSearch
<1>11. CASE Finish
    BY <1>11, FinishSearch
<1>12. CASE Stopped \/ UNCHANGED vars
    BY <1>12, StutterSearch DEF Stopped
<1> QED BY <1>1, <1>2, <1>3, <1>4, <1>5, <1>6, <1>7, <1>8, <1>9, <1>10, <1>11, <1>12 DEF Next

\* It always holds.
LEMMA SearchCorrect == Spec => []SearchInv
BY InitSearch, NextSearch, PTL DEF Spec

-----------------------------------------------------------------------------
(* Theorems.                                                               *)

\* Whatever lists were tried before, and in whatever order: the automaton is what
\* the current list makes of the prefix tree, with nothing left of what was undone
\* (change_refinement_list, add_to_q, greedy with undo).
THEOREM SearchIsReplay == Spec => []AutomatonIsReplay
<1>1. ASSUME SearchInv PROVE AutomatonIsReplay
  <2>1. Replay(Trail) = Replayed(Input, Trail)
      BY <1>1, OfInput DEF SearchInv, SearchTypes
  <2> QED BY <1>1, <2>1 DEF SearchInv, TrailPerformed, AutomatonIsReplay
<1> QED BY <1>1, SearchCorrect, PTL

\* Every refinement passed its test in the automaton it was performed in, also one
\* that a greedy run made in another automaton and the next run takes over.
THEOREM SearchPerformsWhatPasses == Spec => []PerformedWhereApplicable
<1>1. ASSUME SearchInv PROVE PerformedWhereApplicable
  <2>1. Input \in Inputs /\ Performable(Input, Trail)
      BY <1>1 DEF SearchInv, SearchTypes, TrailPerformed
  <2> SUFFICES ASSUME NEW i \in 1 .. Len(Trail)
               PROVE  TestRef(options, Before(Trail, i), Trail[i])
      BY DEF PerformedWhereApplicable
  <2>2. PassesAfter(Input, SubSeq(Trail, 1, i - 1), Trail[i])
      BY <2>1 DEF Performable
  <2>3. TestRef(options, Replayed(Input, SubSeq(Trail, 1, i - 1)), Trail[i])
      BY <2>1, <2>2, OfInput DEF PassesAfter
  <2>4. Before(Trail, i) = Replayed(Input, SubSeq(Trail, 1, i - 1))
      BY <2>1, OfInput DEF Before
  <2> QED BY <2>3, <2>4
<1> QED BY <1>1, SearchCorrect, PTL

\* When the search is over no sequence of possible refinements ends with fewer red
\* states than the best solution has, and (but for deep search) one ends with that
\* many: neither the bound of add_to_q nor the order of the queue loses a solution.
THEOREM SearchFindsSmallest == Spec => []SearchOptimal
<1>1. ASSUME SearchInv PROVE SearchOptimal
  <2> SUFFICES ASSUME pc = "done"
               PROVE  /\ best # Unsolved
                      /\ \A w \in Complete : best <= FinalAptaSize(Replay(w))
                      /\ Score # "deep" => \E w \in Complete : best = FinalAptaSize(Replay(w))
      BY DEF SearchOptimal
  <2>1. Input \in Inputs /\ Q = {} /\ todo = <<>>
      BY <1>1 DEF SearchInv, SearchTypes, Phases
  <2>2. \A w : ~Pending(w)
    <3>1. Len(todo) = 0
        BY <2>1
    <3> QED BY <2>1, <3>1 DEF Pending
  <2>3. \A w : Completed(Input, w) => best # Unsolved /\ best <= FinalAptaSize(Replayed(Input, w))
      BY <1>1, <2>2 DEF SearchInv, NothingLost
  <2>4. best # Unsolved
      BY <2>1, <2>3, SomeCompleted
  <2>5. \A w : /\ w \in Complete <=> Completed(Input, w)
               /\ Replay(w) = Replayed(Input, w)
      BY <2>1, SequencesAreAttempted, OfInput
  <2>6. \A w \in Complete : best <= FinalAptaSize(Replay(w))
      BY <2>3, <2>5
  <2>7. Score # "deep" => \E w \in Complete : best = FinalAptaSize(Replay(w))
    <3> SUFFICES ASSUME Score # "deep"
                 PROVE  \E w \in Complete : best = FinalAptaSize(Replay(w))
        OBVIOUS
    <3>1. PICK w : Completed(Input, w) /\ best = FinalAptaSize(Replayed(Input, w))
        BY <1>1, <2>4 DEF SearchInv, BestIsCompleted
    <3>2. w \in Complete /\ FinalAptaSize(Replay(w)) = FinalAptaSize(Replayed(Input, w))
        BY <2>5, <3>1
    <3> QED BY <3>1, <3>2
  <2> QED BY <2>4, <2>6, <2>7
<1> QED BY <1>1, SearchCorrect, PTL

\* A step of the search is one of the lists, or does not touch them.
LEMMA NextUsesQueue ==
    ASSUME SearchInv, [Next]_vars
    PROVE  [QueueNext]_queue
<1>1. CASE Prune
    BY <1>1 DEF Prune, QueueNext, MovedOn
<1>2. CASE Solution
    BY <1>2 DEF Solution, Hopeful, QueueNext, MovedOn
<1>3. CASE Expand
  <2> DEFINE S == GetPossibleRefinements(options, m)
  <2>1. /\ pc = "add" /\ pc' = "loop" /\ todo' = InOrder(S)
        /\ Create({Append(current, x) : x \in ToSet(todo')})
        /\ UNCHANGED <<current, Q>>
      BY <1>3 DEF Expand, Hopeful
  <2>2. Input \in Inputs /\ options \in Settings(Input) /\ Refinements[Input] \subseteq Refinement
      BY OfInput DEF SearchInv, SearchTypes
  <2>3. m \in Automata[Input]
      BY <2>1, AtCurrent
  <2>4. todo' \in Seq(S) /\ IsInjective(todo') /\ S \subseteq Refinements[Input]
    <3> HIDE DEF S
    <3> QED BY <2>1, <2>2, <2>3, PossibleInOrder DEF S
  <2> HIDE DEF S
  <2>5. todo' \in Seq(Refinement)
      BY <2>2, <2>4
  <2> QED BY <2>1, <2>4, <2>5 DEF QueueNext, Expanded
<1>4. ASSUME NEW s, Push(s), pc \in {"loop", "greedy"}, pc' = "loop", todo # <<>>, current' = current
      PROVE  QueueNext
  <2> DEFINE q0 == [score |-> s, list |-> Append(current, Head(todo))]
  <2>1. q0 \in Q' /\ q0.score = s
      BY <1>4 DEF Push
  <2>2. Push(q0.score)
      BY <1>4, <2>1
  <2> HIDE DEF q0
  <2> QED BY <1>4, <2>1, <2>2 DEF QueueNext, Pushed
<1>5. CASE Enqueue
    BY <1>4, <1>5 DEF Enqueue
<1>6. CASE Crash
    BY <1>6 DEF Crash, QueueNext, MovedOn
<1>7. CASE Queued
    BY <1>7 DEF Queued, QueueNext, MovedOn
<1>8. CASE StartGreedy
    BY <1>8 DEF StartGreedy, QueueNext, MovedOn
<1>9. CASE GreedyStep
    BY <1>9 DEF GreedyStep, queue
<1>10. CASE GreedyEnd
  <2>1. todo # <<>>
      BY <1>10 DEF GreedyEnd, SearchInv, Phases
  <2> QED BY <1>4, <1>10, <2>1 DEF GreedyEnd
<1>11. CASE ChangeRefinementList
  <2>1. PICK q \in Q : /\ \A o \in Q : q.score <= o.score
                       /\ current' = q.list /\ Q' = Q \ {q}
                       /\ Release(current)
      BY <1>11 DEF ChangeRefinementList
  <2>2. pc = "pop" /\ pc' = "add" /\ todo' = todo
      BY <1>11 DEF ChangeRefinementList
  <2> QED BY <2>1, <2>2 DEF QueueNext, Taken
<1>12. CASE Finish
    BY <1>12 DEF Finish, QueueNext, MovedOn
<1>13. CASE Stopped \/ UNCHANGED vars
    BY <1>13 DEF Stopped, vars, queue
<1> QED BY <1>1, <1>2, <1>3, <1>5, <1>6, <1>7, <1>8, <1>9, <1>10, <1>11, <1>12, <1>13 DEF Next

\* The search handles its lists as SearchQueue says, whatever refinements are
\* possible and whatever score is chosen.
THEOREM SearchUsesQueue == Spec => UsesQueue
<1>1. Init => QueueInit
    BY DEF Init
<1>2. SearchInv /\ [Next]_vars => [QueueNext]_queue
    BY NextUsesQueue
<1> QED BY <1>1, <1>2, SearchCorrect, PTL DEF Spec, UsesQueue, QueueSpec

\* So its reference counts are exact.
THEOREM SearchCountsReferences == Spec => []ReferencesExact
BY SearchUsesQueue, ReferencesAlwaysExact, PTL DEF UsesQueue

=============================================================================
