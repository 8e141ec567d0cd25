------------------------ MODULE InteractiveModeProofs ------------------------
(***************************************************************************)
(* The automaton of the interactive mode is what the refinements in effect *)
(* make of the prefix tree, for every engine and all that the user types.  *)
(***************************************************************************)
EXTENDS InteractiveMode, RefiningProofs

\* What the run started from: the options are others after set.
StartedFrom(i) == i \in Inputs /\ i.tree = tree /\ options \in Settings(i)

\* The refinements in effect passed their tests, each under the options of its
\* time, where they were performed.
InEffect ==
    \E i \in Inputs : /\ StartedFrom(i) /\ Performable(i, all_refs)
                      /\ m = Replayed(i, all_refs)

\* At first none is in effect.
LEMMA InitInEffect == Init => InEffect
<1> SUFFICES ASSUME Init PROVE InEffect
    OBVIOUS
<1>1. PICK i \in Inputs : options = i.options /\ tree = i.tree
    BY DEF Init
<1>2. m = NewApta(tree) /\ all_refs = <<>>
    BY DEF Init
<1>3. StartedFrom(i)
    BY <1>1, InputsAssumption DEF StartedFrom
<1>4. Performable(i, <<>>)
    BY DEF Performable
<1>5. m = Replayed(i, <<>>)
    BY <1>1, <1>2, DoNothing DEF Replayed
<1> QED BY <1>2, <1>3, <1>4, <1>5 DEF InEffect

\* What is picked from the list that is shown is one of the possible refinements.
LEMMA ChosenIsPossible ==
    ASSUME NEW i \in Inputs, options \in Settings(i), m \in Automata[i],
           Shown # <<>>, NEW k
    PROVE  Chosen(k) \in Refinements[i] /\ TestRef(options, m, Chosen(k))
<1> DEFINE S == GetPossibleRefinements(options, m)
<1>1. /\ Shown \in Seq(S) /\ S \subseteq Refinements[i]
      /\ \A x \in S : TestRef(options, m, x)
    BY PossibleInOrder DEF Shown
<1> HIDE DEF S
<1>2. \A j \in DOMAIN Shown : Shown[j] \in S
    BY <1>1
<1>3. 1 \in DOMAIN Shown
    BY <1>1
<1>4. Chosen(k) \in S
    BY <1>2, <1>3 DEF Chosen
<1> QED BY <1>1, <1>4 DEF S

\* A refinement is performed: it is in effect from then on, the last one.
LEMMA PerformStep ==
    ASSUME NEW i \in Inputs, StartedFrom(i), Performable(i, all_refs),
           m = Replayed(i, all_refs), NEW count, Perform(count)
    PROVE  /\ StartedFrom(i)' /\ Performable(i, all_refs')
           /\ m' = Replayed(i, all_refs')
<1>1. m \in Automata[i] /\ options \in Settings(i)
    BY ReplayedIsMade DEF StartedFrom
<1>2. options' = options /\ tree' = tree
    BY DEF Perform
<1>3. StartedFrom(i)'
    BY <1>2 DEF StartedFrom
<1>4. CASE Shown = <<>>
  <2>1. m' = m /\ all_refs' = all_refs
      BY <1>4 DEF Perform
  <2> QED BY <1>3, <2>1
<1>5. CASE Shown # <<>>
  <2> DEFINE x == Chosen(choice')
  <2>1. m' = DoRef(m, x) /\ all_refs' = Append(all_refs, x)
      BY <1>5 DEF Perform
  <2>2. x \in Refinements[i] /\ TestRef(options, m, x)
      BY <1>1, <1>5, ChosenIsPossible
  <2> HIDE DEF x
  <2>3. all_refs \in Seq(Refinements[i])
      BY DEF Performable
  <2>4. PassesAfter(i, all_refs, x)
      BY <1>1, <2>2 DEF PassesAfter
  <2>5. Performable(i, Append(all_refs, x))
      BY <2>2, <2>3, <2>4, PerformableStep
  <2>6. Replayed(i, Append(all_refs, x)) = DoRef(m, x)
      BY <2>2, <2>3, DoAllStep DEF Replayed
  <2> QED BY <1>3, <2>1, <2>5, <2>6
<1> QED BY <1>4, <1>5

\* The last refinement is undone: the others are in effect.
LEMMA UndoStep ==
    ASSUME NEW i \in Inputs, StartedFrom(i), Performable(i, all_refs),
           m = Replayed(i, all_refs), NEW line, Undo(line)
    PROVE  /\ StartedFrom(i)' /\ Performable(i, all_refs')
           /\ m' = Replayed(i, all_refs')
<1> DEFINE w == Front(all_refs)
           x == Last(all_refs)
<1>1. /\ all_refs # <<>> /\ m' = UndoRef(m, x) /\ all_refs' = w
      /\ options' = options /\ tree' = tree
    BY DEF Undo
<1>2. all_refs \in Seq(Refinements[i])
    BY DEF Performable
<1>3. /\ w \in Seq(Refinements[i]) /\ x \in Refinements[i]
      /\ all_refs = Append(w, x)
    BY <1>1, <1>2, FrontAndLast
<1> HIDE DEF w, x
<1>4. Performable(i, w) /\ PassesAfter(i, w, x)
    BY <1>3, PerformableStep
<1>5. Replayed(i, w) \in Automata[i]
    BY <1>4, ReplayedIsMade
<1>6. m = DoRef(Replayed(i, w), x)
    BY <1>3, DoAllStep DEF Replayed
<1>7. UndoRef(m, x) = Replayed(i, w)
    BY <1>3, <1>4, <1>5, <1>6, UndoAssumption DEF PassesAfter
<1> QED BY <1>1, <1>4, <1>7 DEF StartedFrom

\* All are undone, the last one first: the prefix tree is as it was.
LEMMA RestartStep ==
    ASSUME NEW i \in Inputs, StartedFrom(i), Performable(i, all_refs),
           m = Replayed(i, all_refs), NEW line, Restart(line)
    PROVE  /\ StartedFrom(i)' /\ Performable(i, all_refs')
           /\ m' = Replayed(i, all_refs')
<1>1. /\ m' = UndoAll(m, all_refs) /\ all_refs' = <<>>
      /\ options' = options /\ tree' = tree
    BY DEF Restart
<1>2. all_refs \in Seq(Refinements[i]) /\ <<>> \in Seq(Refinements[i])
    BY DEF Performable
<1>3. <<>> \o all_refs = all_refs
    BY <1>2, ConcatEmptySeq
<1>4. UndoAll(Replayed(i, all_refs), all_refs) = Replayed(i, <<>>) /\ Performable(i, <<>>)
    BY <1>2, <1>3, UndoneExactly
<1> QED BY <1>1, <1>4 DEF StartedFrom

\* Every command leaves in effect what passed its test.
LEMMA NextInEffect == InEffect /\ [Next]_vars => InEffect'
<1> SUFFICES ASSUME InEffect, [Next]_vars PROVE InEffect'
    OBVIOUS
<1>1. PICK i \in Inputs : /\ StartedFrom(i) /\ Performable(i, all_refs)
                          /\ m = Replayed(i, all_refs)
    BY DEF InEffect
<1> SUFFICES /\ StartedFrom(i)' /\ Performable(i, all_refs')
             /\ m' = Replayed(i, all_refs')
    BY DEF InEffect
<1>2. ASSUME UNCHANGED <<options, tree, m, all_refs>>
      PROVE  /\ StartedFrom(i)' /\ Performable(i, all_refs')
             /\ m' = Replayed(i, all_refs')
    BY <1>1, <1>2 DEF StartedFrom
<1>3. CASE UNCHANGED vars
    BY <1>2, <1>3 DEF vars
<1>4. CASE Stopped
    BY <1>2, <1>4 DEF Stopped, vars
<1>5. ASSUME NEW line \in Lines, Undo(line)
      PROVE  /\ StartedFrom(i)' /\ Performable(i, all_refs')
             /\ m' = Replayed(i, all_refs')
    BY <1>1, <1>5, UndoStep
<1>6. ASSUME NEW line \in Lines, Restart(line)
      PROVE  /\ StartedFrom(i)' /\ Performable(i, all_refs')
             /\ m' = Replayed(i, all_refs')
    BY <1>1, <1>6, RestartStep
<1>7. ASSUME NEW line \in Lines, Other(line) \/ Crash(line)
      PROVE  /\ StartedFrom(i)' /\ Performable(i, all_refs')
             /\ m' = Replayed(i, all_refs')
    BY <1>2, <1>7 DEF Other, Crash
<1>8. ASSUME NEW line \in Lines, Number(line) \/ Leap(line)
      PROVE  /\ StartedFrom(i)' /\ Performable(i, all_refs')
             /\ m' = Replayed(i, all_refs')
    BY <1>1, <1>8, PerformStep DEF Number, Leap
<1>9. ASSUME NEW line \in Lines, Set(line)
      PROVE  /\ StartedFrom(i)' /\ Performable(i, all_refs')
             /\ m' = Replayed(i, all_refs')
  <2>1. /\ line.word = "set" /\ options' = [options EXCEPT ![line.option] = line.n # 0]
        /\ tree' = tree /\ m' = m /\ all_refs' = all_refs
      BY <1>9 DEF Set
  <2>2. options' \in Settings(i)
      BY <1>1, <2>1, LinesAssumption DEF StartedFrom
  <2> QED BY <1>1, <2>1, <2>2 DEF StartedFrom
<1> QED BY <1>3, <1>4, <1>5, <1>6, <1>7, <1>8, <1>9 DEF Next

\* For every engine that undoes exactly what passed its test, whatever the user
\* performs, undoes, restarts and sets in between: the automaton is what the
\* refinements in effect make of the prefix tree.
THEOREM InteractiveIsReplay == Spec => []AutomatonIsReplay
<1>1. InEffect => AutomatonIsReplay
    BY DEF InEffect, AutomatonIsReplay, Replayed, StartedFrom
<1> QED BY <1>1, InitInEffect, NextInEffect, PTL DEF Spec

\* And each of them passed its test, under the options of its time, in the
\* automaton the others before it make.
THEOREM InteractivePerformsWhatPasses == Spec => []InEffect
BY InitInEffect, NextInEffect, PTL DEF Spec
=============================================================================
