----------------------------- MODULE SearchQueue -----------------------------
(***************************************************************************)
(* The lists of refinements search_mode.cpp juggles, and how it counts the *)
(* references to the refinements in them.  Lists share refinement objects, *)
(* which are reference counted and recycled at zero (mem_store.cpp).  A    *)
(* list is the sequence of its refinements, and the object at its end is   *)
(* named by the list itself: it is made once, when the list is.            *)
(***************************************************************************)
EXTENDS Integers, SequencesExt

CONSTANT Refinement

VARIABLES
    current, \* current_refinements
    todo,    \* the refinements add_to_q still has to queue, best first
    Q,       \* records [score, list]
    refs,    \* reference counts of the refinements made by add_to_q
    pc       \* "add", "loop" and "greedy" (in add_to_q), "pop", "done", "crashed"

queue == <<current, todo, Q, refs, pc>>

QueueInit ==
    /\ current = <<>> /\ todo = <<>> /\ Q = {} /\ refs = [p \in {} |-> 0] /\ pc = "add"

Heads(list) == Prefixes(list) \ {<<>>}

\* The new refinements have one reference, that of the refinement_set.
Create(lists) ==
    refs' = [p \in DOMAIN refs \cup lists |-> IF p \in lists THEN 1 ELSE refs[p]]

\* Mutant: only the new refinement is counted.
ShareNothing(list) == UNCHANGED refs

\* increfs on what new_list shares with current_refinements
Share(list) == refs' = [p \in DOMAIN refs |-> refs[p] + IF p \in Heads(list) THEN 1 ELSE 0]

\* erase
Release(list) == refs' = [p \in DOMAIN refs |-> refs[p] - IF p \in Heads(list) THEN 1 ELSE 0]

\* The reference the refinement_set held is the new list's from then on.
Push(score) ==
    /\ Q' = Q \cup {[score |-> score, list |-> Append(current, Head(todo))]}
    /\ Share(current)
    /\ todo' = Tail(todo)

-----------------------------------------------------------------------------
(* What the lists may go through, whatever refinements are possible and    *)
(* whatever score a list gets.                                             *)

Expanded ==
    /\ pc = "add" /\ pc' = "loop"
    /\ todo' \in Seq(Refinement) /\ IsInjective(todo')
    /\ Create({Append(current, x) : x \in ToSet(todo')})
    /\ UNCHANGED <<current, Q>>

Pushed ==
    /\ pc \in {"loop", "greedy"} /\ pc' = "loop" /\ todo # <<>>
    /\ \E q \in Q' : Push(q.score)
    /\ UNCHANGED current

Taken ==
    /\ pc = "pop" /\ pc' = "add"
    /\ \E q \in Q : /\ \A o \in Q : q.score <= o.score
                    /\ current' = q.list /\ Q' = Q \ {q}
    /\ Release(current)
    /\ UNCHANGED todo

MovedOn ==
    /\ \/ pc = "add" /\ pc' = "pop"
       \/ pc = "loop" /\ todo # <<>> /\ pc' \in {"greedy", "crashed"}
       \/ pc = "loop" /\ todo = <<>> /\ pc' = "pop"
       \/ pc = "pop" /\ Q = {} /\ pc' = "done"
    /\ UNCHANGED <<current, todo, Q, refs>>

QueueNext == Expanded \/ Pushed \/ Taken \/ MovedOn

QueueSpec == QueueInit /\ [][QueueNext]_queue

\* The count of every refinement is the number of lists and sets that hold it:
\* none is recycled while a queued list needs it, and none that a list let go
\* is kept (increfs in add_to_q, erase in change_refinement_list).
ReferencesExact ==
    \A p \in DOMAIN refs :
       refs[p] = Cardinality({q \in Q : p \in Heads(q.list)})
                 + (IF p \in Heads(current) THEN 1 ELSE 0)
                 + (IF \E i \in 1 .. Len(todo) : p = Append(current, todo[i]) THEN 1 ELSE 0)
=============================================================================
