----------------------------- MODULE LStarProofs -----------------------------
(***************************************************************************)
(* Proofs about L*, for every alphabet, every system under learning and    *)
(* every sequence of counterexamples, in two parts.                        *)
(*                                                                         *)
(* The table: what is_closed answers.  The entries it compares a lower row *)
(* with were hashed in this call or in an earlier one, when there were     *)
(* fewer columns; the invariant relates an old entry to the row it was.    *)
(*                                                                         *)
(* The learner, whatever the merging routines do: it uses the table as the *)
(* table is meant to be used, its hypotheses come from closed tables, and  *)
(* its rounds and its search for a counterexample go forward.              *)
(***************************************************************************)
EXTENDS LStar, FiniteSetTheorems, SequenceTheorems, WellFoundedInduction, TLAPS

-----------------------------------------------------------------------------
(* The observation table.                                                  *)

IsTable(t) ==
    /\ t = [r \in DOMAIN t |-> t[r]]
    /\ \A r \in DOMAIN t : t[r] = [c \in DOMAIN t[r] |-> t[r][c]]

\* Both halves hold rows of entries, and no row is in both.
Tables ==
    /\ IsTable(upper_table) /\ IsTable(lower_table)
    /\ DOMAIN upper_table \cap DOMAIN lower_table = {}

\* A row has entries for columns that may be asked, a complete one for them all.
EntriesAsked(t) ==
    \A r \in DOMAIN t : /\ DOMAIN t[r] \subseteq Asked(r)
                        /\ r \notin incomplete_rows => DOMAIN t[r] = Asked(r)

\* Entry e is what upper row u was when it was hashed: u has kept these entries.
\* The empty row alone has no entry for the empty column.
WasRow(e, u) ==
    /\ DOMAIN e \subseteq DOMAIN upper_table[u]
    /\ \A c \in DOMAIN e : upper_table[u][c] = e[c]
    /\ u = <<>> <=> <<>> \notin DOMAIN e

HashedWereRows ==
    \A e \in upper_table_rows : \E u \in DOMAIN upper_table : WasRow(e, u)

TableInv ==
    /\ Tables
    /\ EntriesAsked(upper_table) /\ EntriesAsked(lower_table)
    /\ <<>> \in all_columns
    /\ HashedWereRows

-----------------------------------------------------------------------------
(* One lemma per action.                                                   *)

\* A table is one whose rows are rows of entries.
LEMMA MadeOfRows ==
    ASSUME NEW t, t = [r \in DOMAIN t |-> t[r]],
           \A r \in DOMAIN t : t[r] = [c \in DOMAIN t[r] |-> t[r][c]]
    PROVE  IsTable(t)
BY DEF IsTable

LEMMA EmptyRow == NoEntries = [c \in DOMAIN NoEntries |-> NoEntries[c]] /\ DOMAIN NoEntries = {}
BY DEF NoEntries

LEMMA InitInv == TableInit => TableInv
<1> SUFFICES ASSUME TableInit PROVE TableInv
    OBVIOUS
<1>1. Tables
    BY DEF TableInit, Tables, IsTable, NoEntries
<1>2. EntriesAsked(upper_table) /\ EntriesAsked(lower_table)
    BY DEF TableInit, EntriesAsked, NoEntries, Asked
<1>3. <<>> \in all_columns /\ HashedWereRows
    BY DEF TableInit, HashedWereRows
<1> QED BY <1>1, <1>2, <1>3 DEF TableInv

\* Filling keeps the rows and their entries, and completes one half of the table.
LEMMA HalfFilled ==
    ASSUME NEW old, NEW new, IsTable(old), EntriesAsked(old), FilledFrom(old, new)
    PROVE  /\ DOMAIN new = DOMAIN old /\ IsTable(new)
           /\ \A r \in DOMAIN old :
                 /\ DOMAIN new[r] = Asked(r)
                 /\ DOMAIN old[r] \subseteq DOMAIN new[r]
                 /\ \A c \in DOMAIN old[r] : new[r][c] = old[r][c]
<1>1. DOMAIN new = DOMAIN old /\ IsTable(new)
    BY DEF FilledFrom, IsTable
<1>2. ASSUME NEW r \in DOMAIN old, r \notin incomplete_rows
      PROVE  DOMAIN new[r] = Asked(r) /\ new[r] = old[r]
    BY <1>2 DEF FilledFrom, EntriesAsked
<1>3. ASSUME NEW r \in DOMAIN old, r \in incomplete_rows
      PROVE  /\ DOMAIN new[r] = Asked(r)
             /\ DOMAIN old[r] \subseteq DOMAIN new[r]
             /\ \A c \in DOMAIN old[r] : new[r][c] = old[r][c]
    BY <1>3 DEF FilledFrom, EntriesAsked
<1> QED BY <1>1, <1>2, <1>3

LEMMA FillingInv == TableInv /\ Filling => TableInv'
<1> SUFFICES ASSUME TableInv, Filling PROVE TableInv'
    OBVIOUS
<1> USE DEF TableInv
<1>0. IsTable(upper_table) /\ IsTable(lower_table)
    BY DEF Tables
<1>1. /\ DOMAIN upper_table' = DOMAIN upper_table /\ IsTable(upper_table')
      /\ \A r \in DOMAIN upper_table :
            /\ DOMAIN upper_table'[r] = Asked(r)
            /\ DOMAIN upper_table[r] \subseteq DOMAIN upper_table'[r]
            /\ \A c \in DOMAIN upper_table[r] : upper_table'[r][c] = upper_table[r][c]
    BY <1>0, HalfFilled DEF Filling
<1>2. /\ DOMAIN lower_table' = DOMAIN lower_table /\ IsTable(lower_table')
      /\ \A r \in DOMAIN lower_table : DOMAIN lower_table'[r] = Asked(r)
    BY <1>0, HalfFilled DEF Filling
<1>3. all_columns' = all_columns /\ upper_table_rows' = upper_table_rows
    BY DEF Filling
<1>4. Tables'
    BY <1>1, <1>2 DEF Tables, IsTable
<1>5. EntriesAsked(upper_table)' /\ EntriesAsked(lower_table)'
    BY <1>1, <1>2, <1>3 DEF EntriesAsked, Asked
<1>6. HashedWereRows'
    <2> SUFFICES ASSUME NEW e \in upper_table_rows
                 PROVE  \E u \in DOMAIN upper_table' : WasRow(e, u)'
        BY <1>3 DEF HashedWereRows
    <2>1. PICK u \in DOMAIN upper_table : WasRow(e, u)
        BY DEF HashedWereRows
    <2>2. WasRow(e, u)'
        BY <1>1, <2>1 DEF WasRow
    <2> QED BY <1>1, <2>1, <2>2
<1> QED BY <1>3, <1>4, <1>5, <1>6

\* A complete row has an entry for the empty column just when it is not the empty row.
LEMMA EmptyColumn ==
    ASSUME NEW r, <<>> \in all_columns
    PROVE  r = <<>> <=> <<>> \notin Asked(r)
BY DEF Asked

LEMMA CheckingInv == TableInv /\ Checking => TableInv'
<1> SUFFICES ASSUME TableInv, incomplete_rows = {}, NEW closed \in BOOLEAN, IsClosed(closed)
             PROVE  TableInv'
    BY DEF Checking
<1> USE DEF TableInv
<1> DEFINE moved == RowsToMove
<1>1. /\ upper_table' = [r \in DOMAIN upper_table \cup moved |->
                           IF r \in moved THEN lower_table[r] ELSE upper_table[r]]
      /\ lower_table' = [r \in DOMAIN lower_table \ moved |-> lower_table[r]]
      /\ upper_table_rows' = HashUpperTable \cup {lower_table[r] : r \in moved}
      /\ all_columns' = all_columns /\ incomplete_rows' = {}
    BY DEF IsClosed
<1>2. moved \subseteq DOMAIN lower_table /\ moved \cap DOMAIN upper_table = {}
    BY DEF RowsToMove, Tables
<1> HIDE DEF moved
<1>3. /\ \A r \in DOMAIN upper_table : upper_table'[r] = upper_table[r]
      /\ \A r \in moved : upper_table'[r] = lower_table[r]
      /\ DOMAIN upper_table' = DOMAIN upper_table \cup moved
      /\ \A r \in DOMAIN lower_table' : lower_table'[r] = lower_table[r]
      /\ DOMAIN lower_table' = DOMAIN lower_table \ moved
    BY <1>1, <1>2
<1>4. Tables'
    <2>0. IsTable(upper_table) /\ IsTable(lower_table)
        BY DEF Tables
    <2>1. IsTable(upper_table')
        <3>1. upper_table' = [r \in DOMAIN upper_table' |-> upper_table'[r]]
            BY <1>1, <1>3
        <3>2. ASSUME NEW r \in DOMAIN upper_table'
              PROVE  upper_table'[r] = [c \in DOMAIN upper_table'[r] |-> upper_table'[r][c]]
            BY <1>2, <1>3, <2>0 DEF IsTable
        <3> QED BY <3>1, <3>2, MadeOfRows
    <2>2. IsTable(lower_table')
        <3>1. lower_table' = [r \in DOMAIN lower_table' |-> lower_table'[r]]
            BY <1>1, <1>3
        <3>2. ASSUME NEW r \in DOMAIN lower_table'
              PROVE  lower_table'[r] = [c \in DOMAIN lower_table'[r] |-> lower_table'[r][c]]
            BY <1>2, <1>3, <2>0 DEF IsTable
        <3> QED BY <3>1, <3>2, MadeOfRows
    <2> QED BY <1>2, <1>3, <2>1, <2>2 DEF Tables
<1>5. /\ \A r \in DOMAIN upper_table' : DOMAIN upper_table'[r] = Asked(r)
      /\ \A r \in DOMAIN lower_table' : DOMAIN lower_table'[r] = Asked(r)
    BY <1>2, <1>3 DEF EntriesAsked
<1>6. EntriesAsked(upper_table)' /\ EntriesAsked(lower_table)'
    BY <1>1, <1>5 DEF EntriesAsked, Asked
<1>7. HashedWereRows'
    <2> SUFFICES ASSUME NEW e \in upper_table_rows'
                 PROVE  \E u \in DOMAIN upper_table' : WasRow(e, u)'
        BY DEF HashedWereRows
    <2>1. CASE e \in upper_table_rows
        <3>1. PICK u \in DOMAIN upper_table : WasRow(e, u)
            BY <2>1 DEF HashedWereRows
        <3> QED BY <1>3, <3>1 DEF WasRow
    <2>2. CASE e \notin upper_table_rows
        <3>1. PICK u \in DOMAIN upper_table' : e = upper_table'[u]
            BY <1>1, <1>3, <2>2 DEF HashUpperTable
        <3>2. u = <<>> <=> <<>> \notin DOMAIN e
            BY <1>5, <3>1, EmptyColumn
        <3> QED BY <3>1, <3>2 DEF WasRow
    <2> QED BY <2>1, <2>2
<1> QED BY <1>1, <1>4, <1>6, <1>7

LEMMA SplittingInv == TableInv /\ Splitting => TableInv'
<1> SUFFICES ASSUME TableInv, NEW suffix \in Seq(Alphabet), ExtentColumns(suffix)
             PROVE  TableInv'
    BY DEF Splitting
<1> USE DEF TableInv
<1>1. /\ all_columns \subseteq all_columns'
      /\ incomplete_rows' = Rows
      /\ upper_table' = upper_table /\ lower_table' = lower_table
      /\ upper_table_rows' = upper_table_rows
    BY DEF ExtentColumns
<1>2. Tables' /\ HashedWereRows'
    BY <1>1 DEF Tables, IsTable, HashedWereRows, WasRow
<1>3. EntriesAsked(upper_table)' /\ EntriesAsked(lower_table)'
    BY <1>1 DEF EntriesAsked, Asked, Rows
<1> QED BY <1>1, <1>2, <1>3

LEMMA ExtendLowerInv == TableInv /\ ExtendLowerTable => TableInv'
<1> SUFFICES ASSUME TableInv, ExtendLowerTable PROVE TableInv'
    OBVIOUS
<1> USE DEF TableInv
<1> DEFINE new == Extensions
<1>1. /\ lower_table' = [r \in DOMAIN lower_table \cup new |->
                           IF r \in new THEN NoEntries ELSE lower_table[r]]
      /\ incomplete_rows' = incomplete_rows \cup new
      /\ upper_table' = upper_table /\ all_columns' = all_columns
      /\ upper_table_rows' = upper_table_rows
    BY DEF ExtendLowerTable
<1>2. new \cap DOMAIN upper_table = {} /\ new \cap DOMAIN lower_table = {}
    BY DEF Extensions, Rows
<1> HIDE DEF new
<1>3. /\ DOMAIN lower_table' = DOMAIN lower_table \cup new
      /\ \A r \in DOMAIN lower_table : lower_table'[r] = lower_table[r]
      /\ \A r \in new : lower_table'[r] = NoEntries
    BY <1>1, <1>2
<1>4. Tables'
    <2>0. IsTable(upper_table) /\ IsTable(lower_table)
        BY DEF Tables
    <2>1. IsTable(lower_table')
        <3>1. lower_table' = [r \in DOMAIN lower_table' |-> lower_table'[r]]
            BY <1>1, <1>3
        <3>2. ASSUME NEW r \in DOMAIN lower_table'
              PROVE  lower_table'[r] = [c \in DOMAIN lower_table'[r] |-> lower_table'[r][c]]
            BY <1>3, <2>0, EmptyRow DEF IsTable
        <3> QED BY <3>1, <3>2, MadeOfRows
    <2>2. DOMAIN upper_table' \cap DOMAIN lower_table' = {}
        BY <1>1, <1>2, <1>3 DEF Tables
    <2>3. IsTable(upper_table')
        BY <1>1, <2>0
    <2> QED BY <2>1, <2>2, <2>3 DEF Tables, IsTable
<1>5. EntriesAsked(upper_table)'
    BY <1>1, <1>2 DEF EntriesAsked, Asked
<1>6. EntriesAsked(lower_table)'
    <2> SUFFICES ASSUME NEW r \in DOMAIN lower_table'
                 PROVE  /\ DOMAIN lower_table'[r] \subseteq Asked(r)
                        /\ r \notin incomplete_rows' => DOMAIN lower_table'[r] = Asked(r)
        BY <1>1 DEF EntriesAsked, Asked
    <2>1. CASE r \in new
        BY <1>1, <1>3, <2>1 DEF NoEntries
    <2>2. CASE r \notin new
        BY <1>1, <1>3, <2>2 DEF EntriesAsked
    <2> QED BY <2>1, <2>2
<1>7. HashedWereRows'
    BY <1>1 DEF HashedWereRows, WasRow
<1> QED BY <1>1, <1>4, <1>5, <1>6, <1>7

LEMMA NextInv == TableInv /\ [TableNext]_table => TableInv'
<1>1. TableInv /\ TableNext => TableInv'
    BY FillingInv, CheckingInv, SplittingInv, ExtendLowerInv DEF TableNext
<1>2. TableInv /\ UNCHANGED table => TableInv'
    <2> SUFFICES ASSUME TableInv, UNCHANGED table PROVE TableInv'
        OBVIOUS
    <2>1. UNCHANGED <<upper_table, lower_table, all_columns, incomplete_rows, upper_table_rows>>
        BY DEF table
    <2>2. Tables'
        BY <2>1 DEF TableInv, Tables, IsTable
    <2>3. EntriesAsked(upper_table)' /\ EntriesAsked(lower_table)' /\ <<>> \in all_columns'
        BY <2>1 DEF TableInv, EntriesAsked, Asked
    <2>4. HashedWereRows'
        BY <2>1 DEF TableInv, HashedWereRows, WasRow
    <2> QED BY <2>2, <2>3, <2>4 DEF TableInv
<1> QED BY <1>1, <1>2

-----------------------------------------------------------------------------
(* What is_closed answers.                                                 *)

\* When every row is complete, a lower row that equals an entry hashed in an earlier
\* call equals the row that entry was of: no column has been added since, and
\* neither row is the empty one.
LEMMA HashedIsRow ==
    ASSUME TableInv, incomplete_rows = {}, NEW r \in DOMAIN lower_table,
           lower_table[r] \in HashUpperTable
    PROVE  \E u \in DOMAIN upper_table : upper_table[u] = lower_table[r]
<1> USE DEF TableInv
<1>1. CASE lower_table[r] \in upper_table_rows
    <2>1. PICK u \in DOMAIN upper_table : WasRow(lower_table[r], u)
        BY <1>1 DEF HashedWereRows
    <2>2. DOMAIN lower_table[r] = Asked(r) /\ DOMAIN upper_table[u] = Asked(u)
        BY DEF EntriesAsked
    <2>3. u = <<>> <=> r = <<>>
        BY <2>1, <2>2, EmptyColumn DEF WasRow
    <2>4. u # r
        BY DEF Tables
    <2>5. DOMAIN upper_table[u] = DOMAIN lower_table[r]
        BY <2>2, <2>3, <2>4 DEF Asked
    <2>6. \A c \in DOMAIN lower_table[r] : upper_table[u][c] = lower_table[r][c]
        BY <2>1 DEF WasRow
    <2>7. /\ upper_table[u] = [c \in DOMAIN upper_table[u] |-> upper_table[u][c]]
          /\ lower_table[r] = [c \in DOMAIN lower_table[r] |-> lower_table[r][c]]
        BY DEF Tables, IsTable
    <2> QED BY <2>5, <2>6, <2>7
<1>2. CASE lower_table[r] \notin upper_table_rows
    BY <1>2 DEF HashUpperTable
<1> QED BY <1>1, <1>2

LEMMA StepAnswersExactly ==
    TableInv /\ TableNext =>
       (~checked_for_closedness /\ checked_for_closedness'
          => (IsClosedNow <=> lower_table' = lower_table))
<1> SUFFICES ASSUME TableInv, TableNext, ~checked_for_closedness, checked_for_closedness'
             PROVE  IsClosedNow <=> lower_table' = lower_table
    OBVIOUS
<1>1. Checking
    BY DEF TableNext, Filling, Splitting, ExtentColumns, ExtendLowerTable
<1>2. /\ incomplete_rows = {}
      /\ lower_table' = [r \in DOMAIN lower_table \ RowsToMove |-> lower_table[r]]
    BY <1>1 DEF Checking, IsClosed
<1>3. lower_table' = lower_table <=> RowsToMove = {}
    BY <1>2 DEF RowsToMove, TableInv, Tables, IsTable
<1>4. IsClosedNow => RowsToMove = {}
    BY DEF IsClosedNow, RowsToMove, HashUpperTable
<1>5. RowsToMove = {} => IsClosedNow
    BY <1>2, HashedIsRow DEF IsClosedNow, RowsToMove
<1> QED BY <1>3, <1>4, <1>5

\* The entries is_closed has hashed are never cleared, and yet its answer is right:
\* for every system under learning and every sequence of counterexamples, it moves
\* no row just when every lower row equals a row of the upper table.
THEOREM IsClosedIsExact == TableSpec => AnswersExactly
<1>1. TableInv /\ [TableNext]_table
        => [~checked_for_closedness /\ checked_for_closedness'
              => (IsClosedNow <=> lower_table' = lower_table)]_table
    BY StepAnswersExactly
<1> QED BY <1>1, InitInv, NextInv, PTL DEF TableSpec, AnswersExactly

-----------------------------------------------------------------------------
(* The words of the equivalence query.                                     *)

\* A set of numbers has a least element.
LEMMA LeastOfSet ==
    ASSUME NEW S \in SUBSET Nat, S # {}
    PROVE  \E n \in S : \A y \in S : n <= y
<1> DEFINE Up == {n \in Nat : \E x \in S : x <= n}
           T == {0 .. n : n \in Up}
<1>1. T \subseteq FiniteSubsetsOf(Nat) /\ T # {}
  <2>1. \A n \in Up : 0 .. n \in SUBSET Nat /\ IsFiniteSet(0 .. n)
      BY FS_Interval
  <2>2. Up # {}
    <3>1. PICK x \in S : TRUE
        OBVIOUS
    <3>2. x \in Up
        BY <3>1
    <3> QED BY <3>2
  <2> QED BY <2>1, <2>2 DEF FiniteSubsetsOf
<1>2. IsWellFoundedOn(StrictSubsetOrdering(Nat), FiniteSubsetsOf(Nat))
    BY FS_StrictSubsetOrderingWellFounded
<1>3. \E x \in T : \A y \in T : <<y, x>> \notin StrictSubsetOrdering(Nat)
  <2> HIDE DEF T
  <2> QED BY <1>1, <1>2, WFMin
<1>4. PICK n \in Up : \A k \in Up : <<0 .. k, 0 .. n>> \notin StrictSubsetOrdering(Nat)
    BY <1>3
<1>5. ASSUME n - 1 \in Up PROVE FALSE
  <2>1. (0 .. (n - 1)) \subseteq (0 .. n) /\ n \notin (0 .. (n - 1)) /\ n \in 0 .. n
      OBVIOUS
  <2>2. <<0 .. (n - 1), 0 .. n>> \in StrictSubsetOrdering(Nat)
      BY <2>1 DEF StrictSubsetOrdering
  <2> QED BY <1>4, <1>5, <2>2
<1>6. \A y \in S : n <= y
  <2> SUFFICES ASSUME NEW y \in S, y < n PROVE n - 1 \in Up
      BY <1>5
  <2> QED OBVIOUS
<1>7. PICK x \in S : x <= n
    OBVIOUS
<1>8. x = n
    BY <1>6, <1>7
<1> QED BY <1>6, <1>8

\* A bounded set of numbers has a greatest element, and Max is it.
LEMMA MaxOfSet ==
    ASSUME NEW n \in Nat, NEW S \in SUBSET (0 .. n), S # {}
    PROVE  Max(S) \in S /\ \A y \in S : y <= Max(S)
<1> DEFINE Bounds == {k \in Nat : \A y \in S : y <= k}
<1>1. Bounds \in SUBSET Nat /\ n \in Bounds
    OBVIOUS
<1>2. PICK k \in Bounds : \A b \in Bounds : k <= b
  <2> HIDE DEF Bounds
  <2> QED BY <1>1, LeastOfSet
<1>3. k \in S
  <2> SUFFICES ASSUME k \notin S PROVE FALSE
      OBVIOUS
  <2>1. \A y \in S : y \in Nat /\ y <= k - 1
      OBVIOUS
  <2>2. PICK y \in S : TRUE
      OBVIOUS
  <2>3. k - 1 \in Bounds
      BY <2>1, <2>2
  <2> QED BY <1>2, <2>3
<1>4. \E x \in S : \A y \in S : x >= y
    BY <1>3
<1>5. Max(S) \in S /\ \A y \in S : Max(S) >= y
    BY <1>4 DEF Max
<1> QED BY <1>5

\* The alphabet lies between its least and its greatest symbol.
LEMMA Bounded == Alphabet \subseteq Int /\ Least \in Alphabet /\ Greatest \in Alphabet
                 /\ Alphabet = Least .. Greatest
<1>1. PICK lo \in Alphabet, hi \in Alphabet : Alphabet = lo .. hi
    BY AlphabetAssumption
<1>2. Alphabet \subseteq Int
    BY AlphabetAssumption
<1>3. \E x \in Alphabet : \A y \in Alphabet : x =< y
    BY <1>1, <1>2
<1>4. \E x \in Alphabet : \A y \in Alphabet : x >= y
    BY <1>1, <1>2
<1>5. Least \in Alphabet /\ \A y \in Alphabet : Least =< y
    BY <1>3 DEF Least, Min
<1>6. Greatest \in Alphabet /\ \A y \in Alphabet : Greatest >= y
    BY <1>4 DEF Greatest, Max
<1>7. Least = lo /\ Greatest = hi
    BY <1>1, <1>2, <1>5, <1>6
<1> QED BY <1>1, <1>2, <1>5, <1>6, <1>7

\* The next word of the search is a word that is not empty, and that is longer than
\* the last one or as long and greater.
LEMMA NextWordGrows ==
    ASSUME NEW w \in Seq(Alphabet)
    PROVE  /\ NextWord(w) \in Seq(Alphabet) /\ NextWord(w) # <<>>
           /\ Len(w) < Len(NextWord(w)) \/ LexLess(w, NextWord(w))
           /\ Len(w) <= Len(NextWord(w))
<1> DEFINE S == {k \in DOMAIN w : w[k] # Greatest} \cup {0}
           last == Max(S)
<1>0. Len(w) \in Nat /\ DOMAIN w = 1 .. Len(w) /\ \A k \in DOMAIN w : w[k] \in Alphabet
    OBVIOUS
<1>1. last \in S
  <2>1. S \in SUBSET (0 .. Len(w)) /\ S # {}
      BY <1>0
  <2> HIDE DEF S
  <2> QED BY <1>0, <2>1, MaxOfSet
<1>2. NextWord(w) = IF last = 0 THEN [k \in 1 .. Len(w) + 1 |-> Least]
                    ELSE [k \in DOMAIN w |-> IF k < last THEN w[k]
                                             ELSE IF k = last THEN w[k] + 1 ELSE Least]
    BY DEF NextWord
<1> HIDE DEF last
<1>3. CASE last = 0
  <2>1. NextWord(w) = [k \in 1 .. Len(w) + 1 |-> Least]
      BY <1>2, <1>3
  <2>2. Len(w) + 1 \in Nat /\ Least \in Alphabet
      BY <1>0, Bounded
  <2>3. NextWord(w) \in Seq(Alphabet) /\ Len(NextWord(w)) = Len(w) + 1
      BY <2>1, <2>2, IsASeq
  <2> QED BY <1>0, <2>3
<1>4. CASE last # 0
  <2>1. last \in 1 .. Len(w) /\ w[last] # Greatest
      BY <1>0, <1>1, <1>4
  <2>2. NextWord(w) = [k \in 1 .. Len(w) |-> IF k < last THEN w[k]
                                             ELSE IF k = last THEN w[k] + 1 ELSE Least]
      BY <1>0, <1>2, <1>4
  <2>3. w[last] + 1 \in Alphabet /\ w[last] \in Int
      BY <1>0, <2>1, Bounded
  <2>4. \A k \in 1 .. Len(w) : (IF k < last THEN w[k]
                                ELSE IF k = last THEN w[k] + 1 ELSE Least) \in Alphabet
      BY <1>0, <2>3, Bounded
  <2>5. NextWord(w) \in Seq(Alphabet) /\ Len(NextWord(w)) = Len(w)
      BY <1>0, <2>2, <2>4, IsASeq
  <2>6. /\ \A j \in 1 .. last - 1 : w[j] = NextWord(w)[j]
        /\ NextWord(w)[last] = w[last] + 1
      BY <1>0, <2>1, <2>2
  <2>7. LexLess(w, NextWord(w))
      BY <1>0, <2>1, <2>3, <2>5, <2>6 DEF LexLess
  <2> QED BY <1>0, <2>1, <2>5, <2>7
<1> QED BY <1>3, <1>4

\* A word on which system and hypothesis differ has a shortest prefix on which they
\* do, and the search finds it.
LEMMA ConflictFound ==
    ASSUME NEW s, NEW h, NEW e, NEW w \in Seq(Alphabet), w # <<>>, Conflicts(s, h, w)
    PROVE  ConflictString(s, h, w, e) \in Seq(Alphabet)
<1> DEFINE tested(p) == Conflicts(s, h, p) /\ (e \/ p # <<>>)
           T == {p \in Prefixes(w) : tested(p)}
           S == {Len(p) : p \in T}
<1>1. \A p \in Prefixes(w) : p \in Seq(Alphabet)
  <2> SUFFICES ASSUME NEW k \in 0 .. Len(w) PROVE SubSeq(w, 1, k) \in Seq(Alphabet)
      BY DEF Prefixes
  <2> QED BY SubSeqProperties
<1>2. w \in T
  <2>1. SubSeq(w, 1, Len(w)) = w /\ Len(w) \in 0 .. Len(w)
      BY SubSeqFull
  <2>2. w \in Prefixes(w)
      BY <2>1 DEF Prefixes
  <2> QED BY <2>2
<1>3. S \in SUBSET Nat /\ S # {}
  <2>1. \A p \in T : Len(p) \in Nat
      BY <1>1, LenProperties
  <2>2. Len(w) \in S
      BY <1>2
  <2> QED BY <2>1, <2>2
<1>4. PICK n \in S : \A y \in S : n <= y
  <2> HIDE DEF S
  <2> QED BY <1>3, LeastOfSet
<1>5. \E p \in Prefixes(w) :
         tested(p) /\ \A q \in Prefixes(w) : tested(q) => Len(p) <= Len(q)
    BY <1>4
<1>6. ConflictString(s, h, w, e)
        = CHOOSE p \in Prefixes(w) :
             tested(p) /\ \A q \in Prefixes(w) : tested(q) => Len(p) <= Len(q)
    BY DEF ConflictString
<1> HIDE DEF tested
<1>7. ConflictString(s, h, w, e) \in Prefixes(w)
    BY <1>5, <1>6
<1> QED BY <1>1, <1>7

-----------------------------------------------------------------------------
(* The learner.                                                            *)

\* No entry is missing when the table is checked, and until it changes again; every
\* extension of an upper row is a row, except between moving rows and extending them.
LearnerInv ==
    /\ TableInv
    /\ pc \in {"fill", "check", "extend", "minimize", "query", "redo", "consistent", "stopped"}
    /\ pc \in {"check", "minimize", "query"} => incomplete_rows = {}
    /\ pc \in {"minimize", "query"} => IsClosedNow
    /\ pc # "extend" => \A r \in DOMAIN upper_table, a \in Alphabet : Append(r, a) \in Rows
    /\ searched \in Seq(Alphabet)
    /\ n_runs \in Nat /\ runs \in Nat \ {0} /\ n_runs <= runs
    /\ pc \notin {"redo", "consistent", "stopped"} => n_runs < runs

\* The answers of the system fill the table as any answers do.
LEMMA FillIsFilling ==
    ASSUME TableInv, NEW answer, FillTable(answer)
    PROVE  Filling
<1> DEFINE entries(t, r) == [c \in DOMAIN t[r] \cup Asked(r) |->
                               IF c \in DOMAIN t[r] THEN t[r][c] ELSE answer[r \o c]]
           fill(t) == [r \in DOMAIN t |-> IF r \notin incomplete_rows THEN t[r] ELSE entries(t, r)]
<1>1. /\ upper_table' = fill(upper_table) /\ lower_table' = fill(lower_table)
      /\ incomplete_rows' = {}
      /\ UNCHANGED <<all_columns, upper_table_rows, checked_for_closedness>>
    BY DEF FillTable
<1>2. ASSUME NEW t, IsTable(t) PROVE FilledFrom(t, fill(t))
  <2>1. \A r \in DOMAIN t : t[r] = [c \in DOMAIN t[r] |-> t[r][c]]
      BY <1>2 DEF IsTable
  <2>2. \A r \in DOMAIN t :
           /\ DOMAIN entries(t, r) = DOMAIN t[r] \cup Asked(r)
           /\ entries(t, r) = [c \in DOMAIN entries(t, r) |-> entries(t, r)[c]]
           /\ \A c \in DOMAIN t[r] : entries(t, r)[c] = t[r][c]
      OBVIOUS
  <2> HIDE DEF entries
  <2>3. /\ DOMAIN fill(t) = DOMAIN t
        /\ \A r \in DOMAIN t :
              fill(t)[r] = IF r \notin incomplete_rows THEN t[r] ELSE entries(t, r)
      OBVIOUS
  <2>4. fill(t) = [r \in DOMAIN t |-> fill(t)[r]]
      OBVIOUS
  <2> HIDE DEF fill
  <2>5. \A r \in DOMAIN t : fill(t)[r] = [c \in DOMAIN fill(t)[r] |-> fill(t)[r][c]]
      BY <2>1, <2>2, <2>3
  <2>6. fill(t) = [r \in DOMAIN t |-> [c \in DOMAIN fill(t)[r] |-> fill(t)[r][c]]]
      BY <2>4, <2>5
  <2>7. \A r \in DOMAIN t :
           IF r \notin incomplete_rows THEN fill(t)[r] = t[r]
           ELSE /\ DOMAIN fill(t)[r] = DOMAIN t[r] \cup Asked(r)
                /\ \A c \in DOMAIN t[r] : fill(t)[r][c] = t[r][c]
      BY <2>2, <2>3
  <2> QED BY <2>6, <2>7 DEF FilledFrom
<1>3. IsTable(upper_table) /\ IsTable(lower_table)
    BY DEF TableInv, Tables
<1> HIDE DEF fill
<1> QED BY <1>1, <1>2, <1>3 DEF Filling

\* The prefixes of a counterexample become columns, it among them: the empty word is
\* a column from the beginning.
LEMMA ExtentIsSplitting ==
    ASSUME TableInv, NEW cex \in Seq(Alphabet), ExtentColumns(cex)
    PROVE  Splitting
<1>1. all_columns' = all_columns \cup {SubSeq(cex, 1, k) : k \in 1 .. Len(cex)}
    BY DEF ExtentColumns
<1>2. CASE cex = <<>>
    BY <1>1, <1>2 DEF TableInv, Splitting
<1>3. CASE cex # <<>>
  <2>1. SubSeq(cex, 1, Len(cex)) = cex /\ Len(cex) \in 1 .. Len(cex)
      BY <1>3, SubSeqFull, EmptySeq, LenProperties
  <2>2. cex \in all_columns'
      BY <1>1, <2>1
  <2> QED BY <2>2 DEF Splitting
<1> QED BY <1>2, <1>3

\* A counterexample the learner uses is a word.
LEMMA CexIsWord ==
    ASSUME LearnerInv, Conflicts(sut, m, NextWord(searched))
    PROVE  ConflictString(sut, m, NextWord(searched), test_empty) \in Seq(Alphabet)
<1>1. NextWord(searched) \in Seq(Alphabet) /\ NextWord(searched) # <<>>
    BY NextWordGrows DEF LearnerInv
<1> QED BY <1>1, ConflictFound

\* What a step of the learner does to the table.
LEMMA StepUsesTable == LearnerInv /\ [Next]_vars => [TableNext]_table
<1> SUFFICES ASSUME LearnerInv, [Next]_vars PROVE [TableNext]_table
    OBVIOUS
<1>0. TableInv
    BY DEF LearnerInv
<1>1. CASE Fill
    BY <1>0, <1>1, FillIsFilling DEF Fill, TableNext
<1>2. CASE NotClosed
    BY <1>2 DEF NotClosed, LearnerInv, TableNext, Checking
<1>3. CASE Extend
    BY <1>3 DEF Extend, TableNext
<1>4. CASE Closed
    BY <1>4 DEF Closed, LearnerInv, TableNext, Checking
<1>5. CASE Minimize
    BY <1>5 DEF Minimize
<1>6. CASE Minimized
    BY <1>6 DEF Minimized
<1>7. CASE Query
  <2>1. CASE Conflicts(sut, m, NextWord(searched))
             /\ AskSul(ConflictString(sut, m, NextWord(searched), test_empty)) # Unparsed
    <3>1. ExtentColumns(ConflictString(sut, m, NextWord(searched), test_empty))
        BY <1>7, <2>1 DEF Query
    <3> QED BY <1>0, <2>1, <3>1, CexIsWord, ExtentIsSplitting DEF TableNext
  <2>2. CASE ~(Conflicts(sut, m, NextWord(searched))
               /\ AskSul(ConflictString(sut, m, NextWord(searched), test_empty)) # Unparsed)
      BY <1>7, <2>2 DEF Query
  <2> QED BY <2>1, <2>2
<1>8. CASE FoundConsistent
    BY <1>8 DEF FoundConsistent
<1>9. CASE Redo
    BY <1>9 DEF Redo
<1>10. CASE Ended
    BY <1>10 DEF Ended, vars
<1>11. CASE UNCHANGED vars
    BY <1>11 DEF vars
<1> QED BY <1>1, <1>2, <1>3, <1>4, <1>5, <1>6, <1>7, <1>8, <1>9, <1>10, <1>11 DEF Next

LEMMA LearnerStart == Init => LearnerInv
<1> SUFFICES ASSUME Init PROVE LearnerInv
    OBVIOUS
<1>1. TableInv
    BY InitInv DEF Init
<1>2. runs \in Nat \ {0} /\ n_runs = 0 /\ pc = "fill" /\ searched = <<>>
    BY InputsAssumption DEF Init
<1>3. DOMAIN upper_table = {}
    BY DEF Init, TableInit
<1>4. searched \in Seq(Alphabet)
    BY <1>2, EmptySeq
<1> QED BY <1>1, <1>2, <1>3, <1>4 DEF LearnerInv

\* A table found closed is one; and what is_closed does to the rows.
LEMMA FoundClosed ==
    ASSUME TableInv, incomplete_rows = {}, IsClosed(TRUE)
    PROVE  /\ upper_table' = upper_table /\ lower_table' = lower_table
           /\ incomplete_rows' = {} /\ IsClosedNow
<1>1. RowsToMove = {}
    BY DEF IsClosed
<1>2. IsTable(upper_table) /\ IsTable(lower_table)
    BY DEF TableInv, Tables
<1>3. upper_table' = upper_table /\ lower_table' = lower_table /\ incomplete_rows' = {}
    BY <1>1, <1>2 DEF IsClosed, IsTable
<1>4. IsClosedNow
    BY <1>1, HashedIsRow DEF IsClosedNow, RowsToMove
<1> QED BY <1>3, <1>4

\* Extending adds every extension of a row that was missing.
LEMMA ExtendedRows ==
    ASSUME ExtendLowerTable
    PROVE  \A r \in DOMAIN upper_table', a \in Alphabet : Append(r, a) \in Rows'
<1>1. upper_table' = upper_table /\ DOMAIN lower_table' = DOMAIN lower_table \cup Extensions
    BY DEF ExtendLowerTable
<1> QED BY <1>1 DEF Extensions, Rows

LEMMA LearnerStep == LearnerInv /\ [Next]_vars => LearnerInv'
<1> SUFFICES ASSUME LearnerInv, [Next]_vars PROVE LearnerInv'
    OBVIOUS
<1>0. TableInv'
    BY StepUsesTable, NextInv DEF LearnerInv
<1> USE DEF LearnerInv
<1>1. CASE Fill
  <2>1. /\ DOMAIN upper_table' = DOMAIN upper_table /\ DOMAIN lower_table' = DOMAIN lower_table
        /\ incomplete_rows' = {}
    <3>1. Filling
        BY <1>1, FillIsFilling DEF Fill
    <3> QED BY <3>1 DEF Filling, FilledFrom
  <2>2. Rows' = Rows
      BY <2>1 DEF Rows
  <2>3. pc = "fill" /\ pc' = "check" /\ UNCHANGED <<n_runs, searched, runs>>
      BY <1>1 DEF Fill, system
  <2> QED BY <1>0, <2>1, <2>2, <2>3
<1>2. CASE NotClosed
  <2>1. pc = "check" /\ pc' = "extend" /\ UNCHANGED <<n_runs, searched, runs>>
      BY <1>2 DEF NotClosed, system
  <2> QED BY <1>0, <2>1
<1>3. CASE Extend
  <2>1. \A r \in DOMAIN upper_table', a \in Alphabet : Append(r, a) \in Rows'
      BY <1>3, ExtendedRows DEF Extend
  <2>2. /\ pc = "extend" /\ n_runs' = n_runs + 1 /\ UNCHANGED <<searched, runs>>
        /\ pc' = IF n_runs + 1 = runs THEN "redo" ELSE "fill"
      BY <1>3 DEF Extend, EndRound, system
  <2>3. n_runs' \in Nat /\ n_runs' <= runs /\ (pc' # "redo" => n_runs' < runs)
      BY <2>2
  <2>4. pc' \in {"redo", "fill"}
      BY <2>2
  <2> QED BY <1>0, <2>1, <2>2, <2>3, <2>4
<1>4. CASE Closed
  <2>1. /\ upper_table' = upper_table /\ lower_table' = lower_table
        /\ incomplete_rows' = {} /\ IsClosedNow
      BY <1>4, FoundClosed DEF Closed
  <2>2. IsClosedNow' /\ Rows' = Rows
      BY <2>1 DEF IsClosedNow, Rows
  <2>3. pc = "check" /\ pc' = "minimize" /\ UNCHANGED <<n_runs, searched, runs>>
      BY <1>4 DEF Closed, system
  <2> QED BY <1>0, <2>1, <2>2, <2>3
<1>5. CASE Minimize
  <2>1. UNCHANGED <<upper_table, lower_table, incomplete_rows, n_runs, searched, runs, pc>>
      BY <1>5 DEF Minimize, table, system
  <2>2. IsClosedNow' = IsClosedNow /\ Rows' = Rows
      BY <2>1 DEF IsClosedNow, Rows
  <2> QED BY <1>0, <2>1, <2>2
<1>6. CASE Minimized
  <2>1. /\ UNCHANGED <<upper_table, lower_table, incomplete_rows, n_runs, searched, runs>>
        /\ pc = "minimize" /\ pc' = "query"
      BY <1>6 DEF Minimized, table, system
  <2>2. IsClosedNow' = IsClosedNow /\ Rows' = Rows
      BY <2>1 DEF IsClosedNow, Rows
  <2> QED BY <1>0, <2>1, <2>2
<1>7. CASE Query
  <2>0. pc = "query" /\ searched' = NextWord(searched) /\ runs' = runs
      BY <1>7 DEF Query, system
  <2>1. searched' \in Seq(Alphabet)
      BY <2>0, NextWordGrows
  <2>2. CASE Conflicts(sut, m, NextWord(searched))
             /\ AskSul(ConflictString(sut, m, NextWord(searched), test_empty)) # Unparsed
    <3>1. ExtentColumns(ConflictString(sut, m, NextWord(searched), test_empty)) /\ EndRound
        BY <1>7, <2>2 DEF Query
    <3>2. upper_table' = upper_table /\ lower_table' = lower_table
        BY <3>1 DEF ExtentColumns
    <3>3. Rows' = Rows
        BY <3>2 DEF Rows
    <3>4. n_runs' = n_runs + 1 /\ pc' = IF n_runs + 1 = runs THEN "redo" ELSE "fill"
        BY <3>1 DEF EndRound
    <3>5. n_runs' \in Nat /\ n_runs' <= runs /\ (pc' # "redo" => n_runs' < runs)
        BY <2>0, <3>4
    <3>6. pc' \in {"redo", "fill"}
        BY <3>4
    <3> QED BY <1>0, <2>0, <2>1, <3>2, <3>3, <3>5, <3>6
  <2>3. CASE ~(Conflicts(sut, m, NextWord(searched))
               /\ AskSul(ConflictString(sut, m, NextWord(searched), test_empty)) # Unparsed)
    <3>1. UNCHANGED <<upper_table, lower_table, incomplete_rows, n_runs, pc>>
        BY <1>7, <2>3 DEF Query, table
    <3>2. IsClosedNow' = IsClosedNow /\ Rows' = Rows
        BY <3>1 DEF IsClosedNow, Rows
    <3> QED BY <1>0, <2>0, <2>1, <3>1, <3>2
  <2> QED BY <2>2, <2>3
<1>8. CASE FoundConsistent
  <2>1. /\ UNCHANGED <<upper_table, lower_table, incomplete_rows, n_runs, searched, runs>>
        /\ pc = "query" /\ pc' = "consistent"
      BY <1>8 DEF FoundConsistent, table, system
  <2>2. Rows' = Rows
      BY <2>1 DEF Rows
  <2> QED BY <1>0, <2>1, <2>2
<1>9. CASE Redo
  <2>1. /\ UNCHANGED <<upper_table, lower_table, incomplete_rows, n_runs, searched, runs>>
        /\ pc = "redo" /\ pc' = "stopped"
      BY <1>9 DEF Redo, table, system
  <2>2. Rows' = Rows
      BY <2>1 DEF Rows
  <2> QED BY <1>0, <2>1, <2>2
<1>10. CASE UNCHANGED vars
  <2>1. UNCHANGED <<upper_table, lower_table, incomplete_rows, n_runs, searched, runs, pc>>
      BY <1>10 DEF vars, table, learner, system
  <2>2. IsClosedNow' = IsClosedNow /\ Rows' = Rows
      BY <2>1 DEF IsClosedNow, Rows
  <2> QED BY <1>0, <2>1, <2>2
<1>11. CASE Ended
    BY <1>10, <1>11 DEF Ended
<1> QED BY <1>1, <1>2, <1>3, <1>4, <1>5, <1>6, <1>7, <1>8, <1>9, <1>10, <1>11 DEF Next

LEMMA LearnerAlways == Spec => []LearnerInv
BY LearnerStart, LearnerStep, PTL DEF Spec

\* L* uses the table as it is meant to be used, whatever the system answers and
\* whatever the merging routines do: it never asks twice whether the table is closed
\* without a change in between, nor while entries are missing, and it extends the
\* columns by words over the alphabet only.
THEOREM LStarUsesTable == Spec => UsesTable
<1>1. Init => TableInit
    BY DEF Init
<1> QED BY <1>1, LearnerAlways, StepUsesTable, PTL DEF Spec, UsesTable, TableSpec

\* So is_closed answers exactly in every run of L*.
THEOREM LStarAnswersExactly == Spec => AnswersExactly
BY LStarUsesTable, IsClosedIsExact DEF UsesTable

\* Every hypothesis comes from a table that is closed in the sense of L*, with rows
\* for all the transitions of its states, and the table is still so when the
\* hypothesis is posed.
THEOREM HypothesesFromClosed == Spec => []ClosedHypothesis
<1>1. LearnerInv => ClosedHypothesis
    BY DEF LearnerInv, ClosedHypothesis
<1> QED BY <1>1, LearnerAlways, PTL

-----------------------------------------------------------------------------
(* It goes forward.                                                        *)

\* What the merging routines contribute: a refinement leaves fewer states undecided.
RefinementsDecide == [][Minimize => Undecided' < Undecided]_vars

LEMMA StepAdvances ==
    ASSUME LearnerInv, LearnerInv', [Next]_vars, [Minimize => Undecided' < Undecided]_vars
    PROVE  [Advances /\ n_runs' <= runs]_vars
<1> SUFFICES ASSUME Next, ~UNCHANGED vars PROVE Advances /\ n_runs' <= runs
    OBVIOUS
<1>0. n_runs \in Nat /\ n_runs <= runs /\ (pc = "query" => n_runs < runs)
    BY DEF LearnerInv
<1>r. runs' = runs /\ n_runs' <= runs
  <2>1. system' = system
      BY DEF Next, Fill, NotClosed, Extend, Closed, Minimize, Minimized, Query,
             FoundConsistent, Redo, Ended, vars
  <2> QED BY <2>1 DEF LearnerInv, system
<1>1. CASE Fill
    BY <1>0, <1>r, <1>1 DEF Fill, Advances, Phase
<1>2. CASE NotClosed
    BY <1>0, <1>r, <1>2 DEF NotClosed, Advances, Phase
<1>3. CASE Extend
    BY <1>0, <1>r, <1>3 DEF Extend, EndRound, Advances
<1>4. CASE Closed
    BY <1>0, <1>r, <1>4 DEF Closed, Advances, Phase
<1>5. CASE Minimize
    BY <1>0, <1>r, <1>5 DEF Minimize, Advances
<1>6. CASE Minimized
    BY <1>0, <1>r, <1>6 DEF Minimized, Advances, Phase
<1>7. CASE Query
  <2>1. n_runs' = n_runs + 1 \/ (n_runs' = n_runs /\ pc' = pc)
      BY <1>7 DEF Query, EndRound
  <2>2. pc = "query" /\ searched' = NextWord(searched)
      BY <1>7 DEF Query
  <2>3. /\ Len(searched) < Len(searched') \/ LexLess(searched, searched')
        /\ Len(searched) <= Len(searched')
      BY <2>2, NextWordGrows DEF LearnerInv
  <2> QED BY <1>0, <1>r, <2>1, <2>2, <2>3 DEF Advances
<1>8. CASE FoundConsistent
    BY <1>0, <1>r, <1>8 DEF FoundConsistent, Advances, Phase
<1>9. CASE Redo
    BY <1>0, <1>r, <1>9 DEF Redo, Advances, Phase
<1>10. CASE Ended
    BY <1>10 DEF Ended
<1> QED BY <1>1, <1>2, <1>3, <1>4, <1>5, <1>6, <1>7, <1>8, <1>9, <1>10 DEF Next

\* When every refinement leaves fewer states undecided, every step of L* brings its
\* end nearer: it goes forward through the phases of a round, no word is asked twice
\* in all its equivalence queries, and there are no more rounds than it may run.
THEOREM LStarAdvances == Spec /\ RefinementsDecide => EveryStepAdvances
<1>1. LearnerInv /\ LearnerInv' /\ [Next]_vars /\ [Minimize => Undecided' < Undecided]_vars
         => [Advances /\ n_runs' <= runs]_vars
    BY StepAdvances
<1> QED BY <1>1, LearnerAlways, PTL DEF Spec, RefinementsDecide, EveryStepAdvances
=============================================================================
