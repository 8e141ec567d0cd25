-------------------------- MODULE ObservationTable --------------------------
(***************************************************************************)
(* observation_table.cpp: the table of L*.  A row is named by a prefix, a  *)
(* column by a suffix, and the entry is what the system under learning     *)
(* answered for the word prefix \o suffix.  The upper table holds the rows *)
(* that stand for states, the lower table the others.  A row whose entries *)
(* are not all known is incomplete; a table is a function from rows to     *)
(* entries, and entries are a function from the columns asked so far.      *)
(***************************************************************************)
EXTENDS Naturals, Sequences

CONSTANT Alphabet

VARIABLES
    upper_table, lower_table,
    all_columns,
    incomplete_rows,
    upper_table_rows,       \* the entries is_closed has hashed
    checked_for_closedness

table == <<upper_table, lower_table, all_columns, incomplete_rows,
           upper_table_rows, checked_for_closedness>>

Rows == DOMAIN upper_table \cup DOMAIN lower_table
NoEntries == [c \in {} |-> {}]

\* The constructor: the symbols and the empty word, all of them lower rows.
TableInit ==
    /\ upper_table = [r \in {} |-> NoEntries]
    /\ lower_table = [r \in {<<a>> : a \in Alphabet} \cup {<<>>} |-> NoEntries]
    /\ all_columns = {<<>>}
    /\ incomplete_rows = {<<a>> : a \in Alphabet} \cup {<<>>}
    /\ upper_table_rows = {}
    /\ checked_for_closedness = FALSE

\* get_answer, for an entry that is there.
GetAnswer(row, col) ==
    IF row \in DOMAIN upper_table THEN upper_table[row][col] ELSE lower_table[row][col]

\* The columns a complete row has: the word of the empty row and the empty column
\* is never asked for (lstar.cpp:108).
Asked(row) == {c \in all_columns : ~(row = <<>> /\ c = <<>>)}

\* The words an incomplete row may need.
Queries == {r \o c : r \in incomplete_rows, c \in all_columns}

\* has_record, insert_record and mark_row_complete for every incomplete row: what is
\* recorded stays, what is missing is asked for.
FillTable(answer) ==
    LET fill(t) ==
          [r \in DOMAIN t |->
             IF r \notin incomplete_rows THEN t[r]
             ELSE [c \in DOMAIN t[r] \cup Asked(r) |->
                     IF c \in DOMAIN t[r] THEN t[r][c] ELSE answer[r \o c]]]
    IN /\ upper_table' = fill(upper_table)
       /\ lower_table' = fill(lower_table)
       /\ incomplete_rows' = {}
       /\ UNCHANGED <<all_columns, upper_table_rows, checked_for_closedness>>

\* hash_upper_table: the entries hashed before stay.
HashUpperTable == upper_table_rows \cup {upper_table[r] : r \in DOMAIN upper_table}

\* Mutant: what has been hashed is taken to be all there is.
RowsNotHashed == {r \in DOMAIN lower_table : lower_table[r] \notin upper_table_rows}

\* The lower rows that have no equal among the entries hashed.
RowsToMove == {r \in DOMAIN lower_table : lower_table[r] \notin HashUpperTable}

\* is_closed: it tells by closed whether there are none, and moves them all.  When
\* nothing has changed since it was called last, it throws.
IsClosed(closed) ==
    /\ ~checked_for_closedness
    /\ checked_for_closedness' = TRUE
    /\ closed <=> RowsToMove = {}
    /\ upper_table' = [r \in DOMAIN upper_table \cup RowsToMove |->
                         IF r \in RowsToMove THEN lower_table[r] ELSE upper_table[r]]
    /\ lower_table' = [r \in DOMAIN lower_table \ RowsToMove |-> lower_table[r]]
    /\ upper_table_rows' = HashUpperTable \cup {lower_table[r] : r \in RowsToMove}
    /\ UNCHANGED <<all_columns, incomplete_rows>>

\* Mutant: the longest prefix, the counterexample itself, is left out.
ExtentProperPrefixes(suffix) ==
    /\ checked_for_closedness' = FALSE
    /\ all_columns' = all_columns \cup {SubSeq(suffix, 1, k) : k \in 1 .. Len(suffix) - 1}
    /\ incomplete_rows' = Rows
    /\ UNCHANGED <<upper_table, lower_table, upper_table_rows>>

\* extent_columns: the prefixes of a counterexample become columns.
ExtentColumns(suffix) ==
    /\ checked_for_closedness' = FALSE
    /\ all_columns' = all_columns \cup {SubSeq(suffix, 1, k) : k \in 1 .. Len(suffix)}
    /\ incomplete_rows' = Rows
    /\ UNCHANGED <<upper_table, lower_table, upper_table_rows>>

\* Mutant: only the rows of the lower table are extended.
ExtensionsOfLower == {Append(r, a) : r \in DOMAIN lower_table, a \in Alphabet} \ Rows

Extensions == {Append(r, a) : r \in Rows, a \in Alphabet} \ Rows

\* extend_lower_table
ExtendLowerTable ==
    /\ checked_for_closedness' = FALSE
    /\ lower_table' = [r \in DOMAIN lower_table \cup Extensions |->
                         IF r \in Extensions THEN NoEntries ELSE lower_table[r]]
    /\ incomplete_rows' = incomplete_rows \cup Extensions
    /\ UNCHANGED <<upper_table, all_columns, upper_table_rows>>

-----------------------------------------------------------------------------
(* What the table may go through, whatever the system under learning       *)
(* answers and whichever counterexamples are found.  Its user asks whether *)
(* the table is closed only when every row is complete.                    *)

\* One half of the table before and after its incomplete rows have been filled.
FilledFrom(old, new) ==
    /\ new = [r \in DOMAIN old |-> [c \in DOMAIN new[r] |-> new[r][c]]]
    /\ \A r \in DOMAIN old :
          IF r \notin incomplete_rows THEN new[r] = old[r]
          ELSE /\ DOMAIN new[r] = DOMAIN old[r] \cup Asked(r)
               /\ \A c \in DOMAIN old[r] : new[r][c] = old[r][c]

Filling ==
    /\ FilledFrom(upper_table, upper_table')
    /\ FilledFrom(lower_table, lower_table')
    /\ incomplete_rows' = {}
    /\ UNCHANGED <<all_columns, upper_table_rows, checked_for_closedness>>

Checking == incomplete_rows = {} /\ \E closed \in BOOLEAN : IsClosed(closed)

\* A counterexample, which is one of the columns afterwards.
Splitting == \E suffix \in all_columns' : suffix \in Seq(Alphabet) /\ ExtentColumns(suffix)

TableNext == Filling \/ Checking \/ Splitting \/ ExtendLowerTable

TableSpec == TableInit /\ [][TableNext]_table

\* "A table is closed then all rows of the lower table also exist in the upper
\* table" (observation_table.cpp:225).
IsClosedNow ==
    \A r \in DOMAIN lower_table :
       \E u \in DOMAIN upper_table : upper_table[u] = lower_table[r]

\* is_closed tells exactly that, although the entries it has hashed in earlier
\* rounds are never cleared: it moves no row just when every lower row equals a row
\* that is in the upper table now.
AnswersExactly ==
    [][~checked_for_closedness /\ checked_for_closedness'
         => (IsClosedNow <=> lower_table' = lower_table)]_table
=============================================================================
