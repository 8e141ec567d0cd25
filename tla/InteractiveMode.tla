--------------------------- MODULE InteractiveMode ---------------------------
(***************************************************************************)
(* interactive_mode.cpp: the user is shown the possible refinements, best  *)
(* first, and types a command.  Every round of the loop starts with what   *)
(* get_possible_refinements returns for the automaton as it is then.       *)
(*                                                                         *)
(* A line is a record [word, n, option]; words are "undo_merge",           *)
(* "restart", "set" (option to n), "leap" (n steps), "number" (n), "other" *)
(* (help and what is not a command), and "" for an empty line.             *)
(***************************************************************************)
EXTENDS Refining

CONSTANTS
    Lines,   \* what the user may type
    NaN      \* the n of a leap without a number

\* The options are those of Merging by their names; a line may set them.
ASSUME LinesAssumption ==
    \A i \in Inputs : \A o \in Settings(i), line \in Lines :
       line.word = "set" => [o EXCEPT ![line.option] = line.n # 0] \in Settings(i)

VARIABLES
    options, tree, m,
    all_refs,   \* the refinements in effect, the first one first
    choice,     \* the number picked last
    pos,        \* where counting through the refinements starts
    step,       \* the step number the user is shown
    countdown,  \* steps of a leap that are left
    arg,        \* the line arg was read from
    pc

vars == <<options, tree, m, all_refs, choice, pos, step, countdown, arg, pc>>

\* arg after a number was read into it
number(n) == [word |-> "number", n |-> n, option |-> ""]

Init ==
    /\ \E i \in Inputs : options = i.options /\ tree = i.tree
    /\ m = NewApta(tree) /\ all_refs = <<>>
    /\ choice = 1 /\ pos = 0 /\ step = 1 /\ countdown = 0
    /\ arg = [word |-> "other", n |-> 0, option |-> ""] /\ pc = "prompt"

Shown == InOrder(GetPossibleRefinements(options, m))

\* The line the user types, or nothing: then arg is what it was.
Typed(line) == pc = "prompt" /\ arg' = IF line.word = "" THEN arg ELSE line

\* Mutant: the refinement that was performed first is undone.
UndoFirst(line) ==
    /\ Typed(line) /\ arg'.word = "undo_merge" /\ all_refs # <<>>
    /\ m' = UndoRef(m, Head(all_refs)) /\ all_refs' = Tail(all_refs)
    /\ step' = step - 1
    /\ UNCHANGED <<options, tree, choice, pos, countdown, pc>>

Undo(line) ==
    /\ Typed(line) /\ arg'.word = "undo_merge" /\ all_refs # <<>>
    /\ m' = UndoRef(m, Last(all_refs)) /\ all_refs' = Front(all_refs)
    /\ step' = step - 1
    /\ UNCHANGED <<options, tree, choice, pos, countdown, pc>>

Restart(line) ==
    /\ Typed(line) /\ arg'.word = "restart"
    /\ m' = UndoAll(m, all_refs) /\ all_refs' = <<>>
    /\ step' = 1
    /\ UNCHANGED <<options, tree, choice, pos, countdown, pc>>

\* Of the options that can be set those Merging has: blueblue, largestblue and
\* shallowfirst.  arg is the value from then on.
Set(line) ==
    /\ pc = "prompt" /\ line.word = "set"
    /\ options' = [options EXCEPT ![line.option] = line.n # 0]
    /\ arg' = number(line.n)
    /\ UNCHANGED <<tree, m, all_refs, choice, pos, step, countdown, pc>>

Other(line) ==
    /\ Typed(line) /\ arg'.word = "other"
    /\ UNCHANGED <<options, tree, m, all_refs, choice, pos, step, countdown, pc>>

\* undo_merge without a refinement in effect reads the first element of an
\* empty list; the exception stoi throws in leap is not caught.
Crash(line) ==
    /\ Typed(line)
    /\ \/ arg'.word = "undo_merge" /\ all_refs = <<>>
       \/ arg'.word = "leap" /\ arg'.n = NaN
    /\ pc' = "crashed"
    /\ UNCHANGED <<options, tree, m, all_refs, choice, pos, step, countdown>>

\* The refinement met when pos = choice while counting; the best one if none is.
Chosen(k) == IF k - pos + 1 \in DOMAIN Shown THEN Shown[k - pos + 1] ELSE Shown[1]

\* The rest of the loop, with countdown as the command leaves it.
Perform(count) ==
    /\ step' = IF count = 1 THEN 1 ELSE step + 1
    /\ countdown' = IF count > 0 THEN count - 1 ELSE count
    /\ pos' = 1
    /\ IF Shown = <<>>
       THEN pc' = "done" /\ UNCHANGED <<m, all_refs>>
       ELSE /\ m' = DoRef(m, Chosen(choice'))
            /\ all_refs' = Append(all_refs, Chosen(choice'))
            /\ UNCHANGED pc
    /\ UNCHANGED <<options, tree>>

Number(line) ==
    /\ Typed(line) /\ arg'.word = "number"
    /\ choice' = arg'.n
    /\ Perform(countdown)

\* One step, with the number picked last; arg is "1" from then on.
Leap(line) ==
    /\ pc = "prompt" /\ line.word = "leap" /\ line.n # NaN
    /\ arg' = number(1)
    /\ UNCHANGED choice
    /\ Perform(line.n)

\* The program has ended.
Stopped == pc # "prompt" /\ UNCHANGED vars

Next ==
    \/ \E line \in Lines :
          \/ Undo(line) \/ Restart(line) \/ Other(line) \/ Crash(line)
          \/ Number(line) \/ Leap(line) \/ Set(line)
    \/ Stopped

Spec == Init /\ [][Next]_vars

-----------------------------------------------------------------------------
(* Properties.                                                             *)

\* However the user goes back and forth, the automaton is what the refinements
\* in effect make of the prefix tree (undo_merge, restart).
AutomatonIsReplay == m = DoAll(NewApta(tree), all_refs)

\* "<int> merges the <int>th merge from the proposed list" (the help text,
\* interactive_mode.cpp:149), at every prompt alike, for the numbers that are in
\* the list.
MergesByNumber ==
    [][\A line \in Lines :
          Number(line) /\ choice' \in DOMAIN Shown => Last(all_refs') = Shown[choice']]_vars
=============================================================================
