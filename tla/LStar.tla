------------------------------- MODULE LStar -------------------------------
(***************************************************************************)
(* lstar.cpp with its oracle: fill the observation table with queries to   *)
(* the system under learning, build a hypothesis from the upper table by   *)
(* state merging when the table is closed, and ask the oracle for a word   *)
(* on which the two differ.  What it needs of state_merger are constants   *)
(* here; the instances for TLC take those of Merging.                      *)
(***************************************************************************)
EXTENDS ObservationTable, Integers, RefinementSet

CONSTANTS
    Type, None,
    Inputs,                 \* what a run may start from: [sut, test_empty, runs]
    AL_MAX_SEARCH_DEPTH,
    GetPossibleRefinements(_), \* get_possible_refinements
    DoRef(_, _),               \* doref
    UndoRef(_, _)              \* undo

\* The symbols are numbered consecutively (inputdata.cpp), and there is a round.
ASSUME AlphabetAssumption ==
    Alphabet \subseteq Int /\ \E least, greatest \in Alphabet : Alphabet = least .. greatest
ASSUME InputsAssumption == \A i \in Inputs : i.runs \in Nat \ {0}

VARIABLES
    sut,         \* the automaton to be learned: [delta, type]
    test_empty,  \* AL_TEST_EMTPY_STRING
    runs,        \* ENSEMBLE_RUNS
    n_runs,
    m,           \* the apta
    refs,        \* the refinements of the last hypothesis
    searched,    \* bfs_strategy: the last word of the search
    cexs,        \* the counterexamples processed so far
    pc

learner == <<n_runs, m, refs, searched, cexs, pc>>
system == <<sut, test_empty, runs>>
vars == <<table, learner, system>>

INSTANCE Oracle WITH Symbol <- Alphabet

\* bfs_strategy::next gives up once its word has the maximal length.
Exhausted == Len(searched) = AL_MAX_SEARCH_DEPTH

AskSul(w) == Answer(sut, w)

-----------------------------------------------------------------------------
(* The algorithm.                                                          *)

Init ==
    /\ \E i \in Inputs : sut = i.sut /\ test_empty = i.test_empty /\ runs = i.runs
    /\ TableInit
    /\ n_runs = 0
    /\ m = RootOnly
    /\ refs = <<>>
    /\ searched = <<>>
    /\ cexs = {}
    /\ pc = "fill"

\* Ask for the missing entries of the incomplete rows.
Fill ==
    /\ pc = "fill"
    /\ FillTable([w \in Queries |-> AskSul(w)])
    /\ pc' = "check"
    /\ UNCHANGED <<n_runs, m, refs, searched, cexs, system>>

\* A round that does not find the table closed.
NotClosed ==
    /\ pc = "check"
    /\ IsClosed(FALSE)
    /\ pc' = "extend"
    /\ UNCHANGED <<n_runs, m, refs, searched, cexs, system>>

\* The end of a round, and of the program after the last one.
EndRound == n_runs' = n_runs + 1 /\ pc' = IF n_runs + 1 = runs THEN "redo" ELSE "fill"

\* Mutant: the new rows are compared before they are filled.
ExtendAndCheck ==
    /\ pc = "extend"
    /\ ExtendLowerTable
    /\ n_runs' = n_runs + 1
    /\ pc' = IF n_runs + 1 = runs THEN "redo" ELSE "check"
    /\ UNCHANGED <<m, refs, searched, cexs, system>>

Extend ==
    /\ pc = "extend"
    /\ ExtendLowerTable
    /\ EndRound
    /\ UNCHANGED <<m, refs, searched, cexs, system>>

\* construct_automaton_from_table: the recorded words of the upper table that the
\* system can parse, with their answers.
UpperWords ==
    {x \in (DOMAIN upper_table) \X all_columns :
       x[2] \in DOMAIN upper_table[x[1]] /\ upper_table[x[1]][x[2]] # Unparsed}

\* Rows and columns are ordered maps: both in the order of their names.
LexLess(v, w) ==
    \E k \in 1 .. Len(w) : /\ k - 1 <= Len(v) /\ \A j \in 1 .. k - 1 : v[j] = w[j]
                           /\ Len(v) < k \/ v[k] < w[k]

Recorded ==
    LET before(x, y) == LexLess(x[1], y[1]) \/ (x[1] = y[1] /\ LexLess(x[2], y[2]))
        words == SortedSeq(UpperWords, before)
    IN [i \in DOMAIN words |-> [word |-> words[i][1] \o words[i][2],
                                type |-> GetAnswer(words[i][1], words[i][2])]]

Closed ==
    /\ pc = "check"
    /\ IsClosed(TRUE)
    /\ m' = FoldLeft(AddTrace, m, Recorded)
    /\ refs' = <<>>
    /\ pc' = "minimize"
    /\ UNCHANGED <<n_runs, searched, cexs, system>>

\* get_best_refinement, as a set that is empty when there is none.
BestRefinements(k) ==
    LET S == GetPossibleRefinements(k) IN IF S = {} THEN {} ELSE {InOrder(S)[1]}

\* minimize_apta
Minimize ==
    /\ pc = "minimize"
    /\ \E best \in BestRefinements(m) : m' = DoRef(m, best) /\ refs' = Append(refs, best)
    /\ UNCHANGED <<table, n_runs, searched, cexs, pc, system>>

Minimized ==
    /\ pc = "minimize" /\ BestRefinements(m) = {}
    /\ pc' = "query"
    /\ UNCHANGED <<table, n_runs, m, refs, searched, cexs, system>>

\* reset_apta: undo the refinements, the last first.
ResetApta == FoldRight(LAMBDA ref, k : UndoRef(k, ref), refs, m)

\* One word of the equivalence query.  A conflict the system does not answer
\* starts the query again, with the search where it was.
Query ==
    /\ pc = "query" /\ ~Exhausted
    /\ LET w == NextWord(searched)
           cex == ConflictString(sut, m, w, test_empty)
       IN /\ searched' = w
          /\ IF Conflicts(sut, m, w) /\ AskSul(cex) # Unparsed
             THEN /\ m' = ResetApta
                  /\ ExtentColumns(cex)
                  /\ cexs' = cexs \cup {cex}
                  /\ EndRound
             ELSE UNCHANGED <<m, table, cexs, n_runs, pc>>
    /\ UNCHANGED <<refs, system>>

\* "Found consistent automaton"
FoundConsistent ==
    /\ pc = "query" /\ Exhausted
    /\ pc' = "consistent"
    /\ UNCHANGED <<table, n_runs, m, refs, searched, cexs, system>>

\* "Maximum of runs reached": the refinements of the last hypothesis again.
Redo ==
    /\ pc = "redo"
    /\ m' = FoldLeft(DoRef, m, refs)
    /\ pc' = "stopped"
    /\ UNCHANGED <<table, n_runs, refs, searched, cexs, system>>

\* The program has ended.
Ended == pc \in {"consistent", "stopped"} /\ UNCHANGED vars

Next ==
    \/ Fill \/ NotClosed \/ Extend \/ Closed
    \/ Minimize \/ Minimized \/ Query \/ FoundConsistent \/ Redo
    \/ Ended

Spec == Init /\ [][Next]_vars

-----------------------------------------------------------------------------
(* Properties.                                                             *)

\* The words of length at most n.
WordsUpTo(n) == UNION {[1 .. k -> Alphabet] : k \in 0 .. n}

\* Whenever a hypothesis is built, the table is closed in the sense of L*: every
\* extension of an upper row by a symbol is a row, and has the entries of an upper
\* row.
ClosedHypothesis ==
    pc \in {"minimize", "query"} =>
       IsClosedNow /\ \A r \in DOMAIN upper_table, a \in Alphabet : Append(r, a) \in Rows

\* The algorithm uses the table as it is meant to be used: it never asks twice
\* whether the table is closed without a change in between, which throws
\* (observation_table.cpp:234), nor while entries are missing.
UsesTable == TableSpec

\* The hypothesis that is posed agrees with every answer the upper table holds,
\* whatever the merges that made it and however often a word was added to the apta
\* in the rounds before.
HypothesisAgrees ==
    pc = "query" => \A x \in UpperWords : Predict(m, x[1] \o x[2]) = AskSul(x[1] \o x[2])

\* A counterexample is used up: no later hypothesis is wrong on it again.  Its
\* prefixes become columns and the empty row is an upper row; only the empty word
\* adds no column.
CounterexamplesUsed ==
    pc = "query" => \A w \in cexs \ {<<>>} : Predict(m, w) = AskSul(w)

\* It ends: in every round the algorithm goes forward through its phases; while it
\* minimizes, every refinement leaves fewer states undecided, and while it searches,
\* no word is asked twice ("otherwise we end up in infinite loop", lstar.cpp:121).
Phase == CASE pc = "fill" -> 1 [] pc = "check" -> 2 [] pc \in {"extend", "minimize"} -> 3
           [] pc = "query" -> 4 [] pc = "redo" -> 5 [] OTHER -> 6
Undecided == Cardinality({n \in m.nodes : m.rep[n] = None /\ ~m.red[n]})

Advances ==
    \/ n_runs' > n_runs
    \/ n_runs' = n_runs /\ Phase' > Phase
    \/ n_runs' = n_runs /\ pc = "minimize" /\ pc' = pc /\ Undecided' < Undecided
    \/ /\ n_runs' = n_runs /\ pc = "query" /\ pc' = pc
       /\ Len(searched) < Len(searched') \/ LexLess(searched, searched')
       /\ Len(searched) <= Len(searched')
EveryStepAdvances == [][Advances /\ n_runs' <= runs]_vars

\* "Found consistent automaton" (lstar.cpp:131), "Counterexample if not equivalent,
\* else nullopt" (base_oracle.cpp:80): the automaton agrees with the system on the
\* words the oracle tests, those the search reaches and the system answers.
ConsistentFound ==
    pc = "consistent" =>
       \A w \in WordsUpTo(AL_MAX_SEARCH_DEPTH - 1) \ {<<>>} :
          AskSul(w) # Unparsed => Predict(m, w) = AskSul(w)
=============================================================================
