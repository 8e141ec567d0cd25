------------------------ MODULE ReaderStrategyProofs ------------------------
(***************************************************************************)
(* No reader strategy looks for a trace or a symbol that is not there, and *)
(* every strategy hands out the traces it promises, for any input, however *)
(* the symbols of its traces are interleaved.                              *)
(***************************************************************************)
EXTENDS ReaderStrategy, FiniteSetTheorems, SequenceTheorems, TLAPS

-----------------------------------------------------------------------------
(* The inductive invariant.                                                *)

TailSymbol == Symbol \cup {Empty, Sentinel, Final}
Trace == [tails : Seq(TailSymbol), head : Nat, length : Int, sequence : Nat]

\* A trace that has a head, and at least as many tails behind it as it counts.
Whole(tr) ==
    /\ tr.head \in 1 .. Len(tr.tails)
    /\ tr.length <= Len(tr.tails) - tr.head + 1
AllWhole(h) == \A t \in 1 .. Len(h) : Whole(h[t])

ReaderTypes ==
    /\ strategy \in Inputs
    /\ heap \in Seq(Trace)
    /\ trace_map \in [Id -> 0 .. Len(heap)]
    /\ status = "reading" => traces \in Seq(Nat)

\* How many symbols have been read; the input is what is left of them.
Consumed == Len(strategy.symbols) - Len(input)
InputIsRest ==
    /\ input \in Seq(InputSymbol)
    /\ Len(input) <= Len(strategy.symbols)
    /\ \A j \in 1 .. Len(input) : input[j] = strategy.symbols[Consumed + j]

\* Windows shorter than the stride never take a trace's last tail.
WindowsWhole ==
    strategy.kind = "slidingwindow" /\ strategy.stride < strategy.size => AllWhole(heap)

\* A sentinel strategy has a trace for every id it has read a symbol of.
IdsKnown ==
    strategy.kind = "sentinel" =>
       \A q \in 1 .. Consumed :
          strategy.symbols[q].symb # Sentinel => trace_map[strategy.symbols[q].id] # 0

LastKnown == last_id # None => last_id \in Id

ReaderInv ==
    ReaderTypes /\ InputIsRest /\ WindowsWhole /\ IdsKnown /\ LastKnown /\ NeverCrashes

-----------------------------------------------------------------------------
(* The operations on the heap.                                             *)

\* A tail more behind the same head, for at most one symbol more.
LEMMA LongerWhole ==
    ASSUME NEW tr \in Trace, NEW new,
           new.head = tr.head, Len(new.tails) = Len(tr.tails) + 1,
           new.length \in {tr.length, tr.length + 1}, Whole(tr)
    PROVE  Whole(new)
<1>1. /\ tr.tails \in Seq(TailSymbol) /\ tr.head \in Nat /\ tr.length \in Int
      /\ Len(tr.tails) \in Nat
    BY DEF Trace
<1> QED BY SMTT(30), <1>1 DEF Whole

\* A tail more is a symbol more.
LEMMA PushBackTyped ==
    ASSUME NEW tr \in Trace, NEW tail \in TailSymbol
    PROVE  /\ PushBack(tr, tail) \in Trace
           /\ Whole(tr) => Whole(PushBack(tr, tail))
<1> DEFINE new == PushBack(tr, tail)
<1>1. /\ tr.tails \in Seq(TailSymbol) /\ tr.head \in Nat /\ tr.length \in Int
      /\ Append(tr.tails, tail) \in Seq(TailSymbol)
      /\ Len(Append(tr.tails, tail)) = Len(tr.tails) + 1 /\ Len(tr.tails) \in Nat
    BY DEF Trace
<1>2. new \in Trace
  <2>1. tr.length + 1 \in Int
      BY <1>1
  <2> QED BY <1>1, <2>1 DEF PushBack, Trace
<1>3. new.tails = Append(tr.tails, tail) /\ new.head = tr.head /\ new.length = tr.length + 1
    BY DEF PushBack, Trace
<1> HIDE DEF new
<1>4. Whole(tr) => Whole(new)
    BY <1>1, <1>3, LongerWhole
<1> QED BY <1>2, <1>4 DEF new

\* A symbol is put on a trace of its own id, which is there afterwards; all other
\* traces stay.
LEMMA ProcessedTyped ==
    ASSUME NEW h \in Seq(Trace), NEW mp \in [Id -> 0 .. Len(h)], NEW c \in InputSymbol,
           NEW s, s = Processed([heap |-> h, map |-> mp], c)
    PROVE  /\ s.heap \in Seq(Trace)
           /\ s.map \in [Id -> 0 .. Len(s.heap)]
           /\ s.map[c.id] \in 1 .. Len(s.heap)
           /\ \A i \in Id : mp[i] # 0 => s.map[i] # 0
           /\ AllWhole(h) => AllWhole(s.heap)
<1> DEFINE t == mp[c.id]
           tail == IF c.symb = Empty THEN Final ELSE c.symb
<1>1. c.id \in Id /\ tail \in TailSymbol /\ t \in 0 .. Len(h) /\ Len(h) \in Nat
    BY DEF InputSymbol, TailSymbol
<1> HIDE DEF tail
<1>2. CASE t # 0
  <2> DEFINE new == PushBack(h[t], tail)
  <2>1. t \in 1 .. Len(h) /\ h[t] \in Trace
      BY <1>1, <1>2
  <2>2. new \in Trace /\ (Whole(h[t]) => Whole(new))
      BY <1>1, <2>1, PushBackTyped
  <2>3. s = [heap |-> [h EXCEPT ![t] = new], map |-> mp]
      BY <1>2, <2>1 DEF Processed, tail
  <2> HIDE DEF new
  <2>4. s.map = mp /\ s.heap = [h EXCEPT ![t] = new]
      BY ONLY <2>3
  <2>5. /\ s.heap \in Seq(Trace) /\ Len(s.heap) = Len(h)
        /\ \A u \in 1 .. Len(h) : s.heap[u] = IF u = t THEN new ELSE h[u]
    <3> HIDE DEF Trace, t
    <3> QED BY SMTT(30), <2>1, <2>2, <2>4, ExceptSeq
  <2> QED BY <1>1, <1>2, <2>1, <2>2, <2>4, <2>5 DEF AllWhole
<1>3. CASE t = 0
  <2> DEFINE new == [tails |-> <<tail>>, head |-> 1,
                     length |-> IF c.symb = Empty THEN 0 ELSE 1, sequence |-> Len(h)]
  <2>1. new \in Trace /\ Whole(new)
      BY <1>1 DEF Trace, Whole
  <2>2. s = [heap |-> Append(h, new), map |-> [mp EXCEPT ![c.id] = Len(h) + 1]]
      BY <1>3 DEF Processed, tail
  <2> HIDE DEF new
  <2>5. s.heap = Append(h, new) /\ s.map = [mp EXCEPT ![c.id] = Len(h) + 1]
      BY ONLY <2>2
  <2>3. /\ s.heap \in Seq(Trace) /\ Len(s.heap) = Len(h) + 1
        /\ \A u \in 1 .. Len(h) : s.heap[u] = h[u]
        /\ s.heap[Len(h) + 1] = new
    <3> HIDE DEF Trace
    <3> QED BY ONLY h \in Seq(Trace), <2>1, <2>5, AppendProperties
  <2>4. s.map \in [Id -> 0 .. Len(h) + 1] /\ s.map[c.id] = Len(h) + 1
    <3>1. mp \in [Id -> 0 .. Len(h) + 1] /\ Len(h) + 1 \in 0 .. Len(h) + 1
        BY <1>1
    <3> QED BY ONLY <1>1, <2>5, <3>1
  <2>6. \A i \in Id : mp[i] # 0 => s.map[i] # 0
    <3>1. Len(h) + 1 # 0
        BY <1>1
    <3> QED BY <1>1, <2>5, <3>1, Zenon
  <2>7. AllWhole(h) => AllWhole(s.heap)
      BY <1>1, <2>1, <2>3 DEF AllWhole
  <2> QED BY <1>1, <2>3, <2>4, <2>6, <2>7
<1> QED BY <1>2, <1>3

\* A final tail takes nothing away.
LEMMA FinalizedTyped ==
    ASSUME NEW h \in Seq(Trace), NEW t
    PROVE  /\ Finalized(h, t) \in Seq(Trace) /\ Len(Finalized(h, t)) = Len(h)
           /\ AllWhole(h) => AllWhole(Finalized(h, t))
<1>1. CASE Last(h[t].tails) = Final
    BY <1>1 DEF Finalized
<1>2. CASE Last(h[t].tails) # Final /\ t \notin 1 .. Len(h)
  <2>1. Finalized(h, t) = h
      BY <1>2 DEF Finalized
  <2> QED BY <2>1
<1>3. CASE Last(h[t].tails) # Final /\ t \in 1 .. Len(h)
  <2> DEFINE new == [h[t] EXCEPT !.tails = Append(@, Final)]
  <2>1. h[t] \in Trace
      BY <1>3
  <2>2. /\ h[t].tails \in Seq(TailSymbol) /\ h[t].head \in Nat /\ h[t].length \in Int
        /\ Append(h[t].tails, Final) \in Seq(TailSymbol) /\ Len(h[t].tails) \in Nat
        /\ Len(Append(h[t].tails, Final)) = Len(h[t].tails) + 1
      BY <2>1 DEF Trace, TailSymbol
  <2>3. new \in Trace
      BY <2>1, <2>2 DEF Trace
  <2>4. /\ new.tails = Append(h[t].tails, Final) /\ new.head = h[t].head
        /\ new.length = h[t].length
      BY <2>1 DEF Trace
  <2>5. Finalized(h, t) = [h EXCEPT ![t] = new]
      BY <1>3 DEF Finalized
  <2> HIDE DEF new
  <2>6. Whole(h[t]) => Whole(new)
      BY <2>1, <2>2, <2>4, LongerWhole
  <2>7. /\ Finalized(h, t) \in Seq(Trace) /\ Len(Finalized(h, t)) = Len(h)
        /\ \A u \in 1 .. Len(h) : Finalized(h, t)[u] = IF u = t THEN new ELSE h[u]
      BY <1>3, <2>3, <2>5
  <2> QED BY <2>1, <2>6, <2>7 DEF AllWhole
<1> QED BY <1>1, <1>2, <1>3

\* A stride smaller than a trace's length leaves a head.
LEMMA PopFrontTyped ==
    ASSUME NEW tr \in Trace, NEW stride \in Nat
    PROVE  /\ PopFront(tr, stride) \in Trace
           /\ Whole(tr) /\ stride < tr.length => Whole(PopFront(tr, stride))
<1> DEFINE left == Len(tr.tails) - tr.head + 1
<1>1. /\ tr.tails \in Seq(TailSymbol) /\ tr.head \in Nat /\ tr.length \in Int
      /\ tr.sequence \in Nat /\ Len(tr.tails) \in Nat
    BY DEF Trace
<1> DEFINE new == PopFront(tr, stride)
<1>2. CASE stride < left
  <2>0. new = [tr EXCEPT !.head = tr.head + stride, !.length = tr.length - stride]
      BY <1>2 DEF PopFront
  <2>1. new \in Trace
    <3>1. tr.head + stride \in Nat /\ tr.length - stride \in Int
        BY <1>1
    <3> QED BY <2>0, <1>1, <3>1 DEF Trace
  <2>2. /\ new.tails = tr.tails /\ new.head = tr.head + stride
        /\ new.length = tr.length - stride
      BY <1>2 DEF PopFront, Trace
  <2> HIDE DEF new
  <2>3. ASSUME Whole(tr) PROVE Whole(new)
    <3>1. /\ new.head = tr.head + stride /\ new.length = tr.length - stride
          /\ Len(new.tails) = Len(tr.tails)
        BY <2>2
    <3>2. tr.head \in 1 .. Len(tr.tails) /\ tr.length <= Len(tr.tails) - tr.head + 1
        BY <2>3 DEF Whole
    <3>3. tr.head + stride \in 1 .. Len(tr.tails)
        BY <1>1, <1>2, <3>2
    <3>4. tr.length - stride <= Len(tr.tails) - (tr.head + stride) + 1
        BY <1>1, <3>2
    <3> QED BY <3>1, <3>3, <3>4 DEF Whole
  <2> QED BY <2>1, <2>3 DEF new
<1>3. CASE ~(stride < left)
  <2>0. new = [tr EXCEPT !.head = 0, !.length = tr.length - left]
      BY <1>3 DEF PopFront
  <2>1. new \in Trace
    <3>1. tr.length - left \in Int
        BY <1>1
    <3> HIDE DEF left, new
    <3> QED BY <2>0, <1>1, <3>1 DEF Trace
  <2> QED BY <1>1, <1>3, <2>1 DEF Whole
<1> QED BY <1>2, <1>3

\* One symbol less is left; the symbol read is the one behind those read before.
LEMMA ReadOne ==
    ASSUME ReaderTypes, InputIsRest, input # <<>>, input' = Tail(input),
           UNCHANGED strategy
    PROVE  /\ InputIsRest' /\ Consumed' = Consumed + 1
           /\ Consumed \in Nat /\ Consumed + 1 <= Len(strategy.symbols)
           /\ Head(input) \in InputSymbol
           /\ Head(input) = strategy.symbols[Consumed + 1]
<1>1. /\ strategy.symbols \in Seq(InputSymbol) /\ Len(strategy.symbols) \in Nat
      /\ input \in Seq(InputSymbol) /\ Len(input) \in Nat \ {0}
    BY InputsAssumption DEF ReaderTypes, InputIsRest
<1>2. /\ Tail(input) \in Seq(InputSymbol) /\ Len(Tail(input)) = Len(input) - 1
      /\ \A j \in 1 .. Len(input) - 1 : Tail(input)[j] = input[j + 1]
      /\ Head(input) = input[1] /\ Head(input) \in InputSymbol
    BY <1>1
<1>3. Consumed' = Consumed + 1 /\ Consumed \in Nat /\ Consumed + 1 <= Len(strategy.symbols)
    BY <1>1, <1>2 DEF Consumed, InputIsRest
<1>4. Head(input) = strategy.symbols[Consumed + 1]
    BY <1>1, <1>2 DEF InputIsRest
<1>5. \A j \in 1 .. Len(input') : input'[j] = strategy'.symbols[Consumed' + j]
  <2>0. Len(input') = Len(input) - 1 /\ input' = Tail(input)
      BY <1>2
  <2> SUFFICES ASSUME NEW j \in 1 .. Len(input) - 1
               PROVE  Tail(input)[j] = strategy.symbols[Consumed + 1 + j]
      BY <1>3, <2>0
  <2>1. input[j + 1] = strategy.symbols[Consumed + (j + 1)]
      BY <1>1 DEF InputIsRest
  <2> QED BY <1>1, <1>2, <1>3, <2>1
<1>6. InputIsRest'
  <2>1. input' \in Seq(InputSymbol) /\ Len(input') <= Len(strategy'.symbols)
      BY <1>1, <1>2 DEF InputIsRest
  <2> QED BY <1>5, <2>1 DEF InputIsRest, Consumed
<1> QED BY <1>2, <1>3, <1>4, <1>6

\* The first symbol of what is left, put on its trace.
LEMMA HeadProcessed ==
    ASSUME ReaderTypes, InputIsRest, input # <<>>, NEW s, s = Processed(Reading, Head(input))
    PROVE  /\ s.heap \in Seq(Trace)
           /\ s.map \in [Id -> 0 .. Len(s.heap)]
           /\ s.map[Head(input).id] \in 1 .. Len(s.heap)
           /\ \A i \in Id : trace_map[i] # 0 => s.map[i] # 0
           /\ AllWhole(heap) => AllWhole(s.heap)
<1>1. Head(input) \in InputSymbol
    BY DEF InputIsRest
<1>2. s = Processed([heap |-> heap, map |-> trace_map], Head(input))
    BY DEF Reading
<1>3. heap \in Seq(Trace) /\ trace_map \in [Id -> 0 .. Len(heap)]
    BY DEF ReaderTypes
<1> QED BY ONLY <1>1, <1>2, <1>3, ProcessedTyped

\* Steps that read nothing leave what is said of the input.
LEMMA InputStays ==
    ASSUME InputIsRest, UNCHANGED <<strategy, input>>
    PROVE  InputIsRest' /\ Consumed' = Consumed
BY DEF InputIsRest, Consumed

\* The promise of the sentinels is one about the input alone.
LEMMA DelimitStays ==
    ASSUME UNCHANGED strategy
    PROVE  SentinelsDelimit' = SentinelsDelimit
BY DEF SentinelsDelimit, SymbolAt, IdAt

-----------------------------------------------------------------------------
(* The steps that read nothing.                                            *)

\* Nothing is read and nothing crashes.
LEMMA QuietStep ==
    ASSUME ReaderInv, UNCHANGED <<strategy, input>>,
           heap' \in Seq(Trace), trace_map' \in [Id -> 0 .. Len(heap')],
           status' = "reading" => traces' \in Seq(Nat),
           AllWhole(heap) => AllWhole(heap'),
           strategy.kind = "sentinel" => trace_map' = trace_map,
           \/ last_id' = None
           \/ last_id' = last_id /\ trace_map' = trace_map,
           status' # "crashed" \/ status' = status
    PROVE  ReaderInv'
<1>1. ReaderTypes'
    BY DEF ReaderInv, ReaderTypes
<1>2. InputIsRest' /\ Consumed' = Consumed
    BY InputStays DEF ReaderInv
<1>3. WindowsWhole'
    BY DEF ReaderInv, WindowsWhole
<1>4. IdsKnown'
    BY <1>2 DEF ReaderInv, IdsKnown
<1>5. LastKnown'
    BY DEF ReaderInv, LastKnown
<1>6. NeverCrashes'
    BY DelimitStays DEF ReaderInv, NeverCrashes
<1> QED BY <1>1, <1>2, <1>3, <1>4, <1>5, <1>6 DEF ReaderInv

\* Listing, sorting and ending.
LEMMA EndStep ==
    ASSUME ReaderInv, ListTraces \/ AllListed \/ InOrderEnd \/ SentinelEnd \/ WindowEnd
    PROVE  ReaderInv'
<1>1. UNCHANGED <<strategy, input, heap, trace_map, last_id>>
    BY DEF ListTraces, AllListed, InOrderEnd, SentinelEnd, WindowEnd
<1>2. status' \in {"listed", "done"}
    BY DEF ListTraces, AllListed, InOrderEnd, SentinelEnd, WindowEnd
<1>3. heap \in Seq(Trace) /\ trace_map \in [Id -> 0 .. Len(heap)]
    BY DEF ReaderInv, ReaderTypes
<1> QED BY <1>1, <1>2, <1>3, QuietStep

\* Returning a listed trace.
LEMMA ReadListedStep ==
    ASSUME ReaderInv, ReadListed
    PROVE  ReaderInv'
<1>1. /\ UNCHANGED <<strategy, input, trace_map, last_id, status>> /\ status = "listed"
      /\ heap' = Finalized(heap, Head(list))
    BY DEF ReadListed, Return
<1>2. heap \in Seq(Trace) /\ trace_map \in [Id -> 0 .. Len(heap)]
    BY DEF ReaderInv, ReaderTypes
<1>3. heap' \in Seq(Trace) /\ Len(heap') = Len(heap) /\ (AllWhole(heap) => AllWhole(heap'))
    BY <1>1, <1>2, FinalizedTyped
<1> QED BY <1>1, <1>2, <1>3, QuietStep

\* Returning the last trace of an input in order.
LEMMA InOrderLastStep ==
    ASSUME ReaderInv, InOrderLast
    PROVE  ReaderInv'
<1> DEFINE t == trace_map[last_id]
<1>1. /\ UNCHANGED <<strategy, input, status>>
      /\ strategy.kind = "in_order" /\ status = "reading"
      /\ last_id # None /\ last_id' = None /\ trace_map' = EmptyMap
      /\ heap' = Finalized(heap, t) /\ traces' = Append(traces, t)
    BY DEF InOrderLast, Using, Return
<1>2. heap \in Seq(Trace) /\ trace_map \in [Id -> 0 .. Len(heap)] /\ traces \in Seq(Nat)
    BY <1>1 DEF ReaderInv, ReaderTypes
<1>3. heap' \in Seq(Trace) /\ Len(heap') = Len(heap) /\ (AllWhole(heap) => AllWhole(heap'))
    BY <1>1, <1>2, FinalizedTyped
<1>4. trace_map' \in [Id -> 0 .. Len(heap')]
    BY <1>1, <1>2, <1>3 DEF EmptyMap
<1>5. traces' \in Seq(Nat)
  <2>1. last_id \in Id
      BY <1>1 DEF ReaderInv, LastKnown
  <2>2. t \in Nat
      BY <1>2, <2>1
  <2> QED BY <1>1, <1>2, <2>2
<1> QED BY <1>1, <1>3, <1>4, <1>5, QuietStep

-----------------------------------------------------------------------------
(* The steps that read a symbol.                                           *)

\* read_all: the symbol is put on its trace.
LEMMA ConsumeSymbolStep ==
    ASSUME ReaderInv, ConsumeSymbol
    PROVE  ReaderInv'
<1> DEFINE s == Processed(Reading, Head(input))
<1>1. /\ strategy.kind = "read_all" /\ status = "reading" /\ input # <<>>
      /\ heap' = s.heap /\ trace_map' = s.map /\ input' = Tail(input)
      /\ UNCHANGED <<strategy, last_id, traces, status>>
    BY DEF ConsumeSymbol, Using
<1>2. /\ s.heap \in Seq(Trace) /\ s.map \in [Id -> 0 .. Len(s.heap)]
      /\ \A i \in Id : trace_map[i] # 0 => s.map[i] # 0
    BY <1>1, HeadProcessed DEF ReaderInv
<1>3. InputIsRest'
    BY <1>1, ReadOne DEF ReaderInv
<1> HIDE DEF s
<1>4. ReaderTypes'
    BY <1>1, <1>2 DEF ReaderInv, ReaderTypes
<1>5. WindowsWhole' /\ IdsKnown' /\ LastKnown'
    BY <1>1 DEF ReaderInv, WindowsWhole, IdsKnown, LastKnown
<1>6. NeverCrashes'
    BY <1>1, <1>2 DEF ReaderInv, NeverCrashes, LastKnown
<1> QED BY <1>3, <1>4, <1>5, <1>6 DEF ReaderInv

\* in_order: the symbol is put on its trace; when it is not that of last_id, the
\* latter is returned and removed from the map, in which it was.
LEMMA InOrderSymbolStep ==
    ASSUME ReaderInv, InOrderSymbol
    PROVE  ReaderInv'
<1> DEFINE c == Head(input)
           s == Processed(Reading, c)
           t == s.map[last_id]
           switched == last_id \notin {None, c.id}
<1>1. /\ strategy.kind = "in_order" /\ status = "reading" /\ input # <<>>
      /\ last_id' = c.id /\ input' = Tail(input)
      /\ IF switched
         THEN /\ heap' = Finalized(s.heap, t) /\ traces' = Append(traces, t)
              /\ trace_map' = [s.map EXCEPT ![last_id] = 0]
         ELSE heap' = s.heap /\ trace_map' = s.map /\ traces' = traces
      /\ UNCHANGED <<strategy, status>>
    BY DEF InOrderSymbol, Using, Return
<1>2. /\ s.heap \in Seq(Trace) /\ s.map \in [Id -> 0 .. Len(s.heap)]
      /\ s.map[c.id] \in 1 .. Len(s.heap)
    BY <1>1, HeadProcessed DEF ReaderInv
<1>3. InputIsRest' /\ c \in InputSymbol
    BY <1>1, ReadOne DEF ReaderInv
<1>4. traces \in Seq(Nat) /\ c.id \in Id
    BY <1>1, <1>3 DEF ReaderInv, ReaderTypes, InputSymbol
<1> HIDE DEF s, c
<1>5. /\ heap' \in Seq(Trace) /\ trace_map' \in [Id -> 0 .. Len(heap')]
      /\ traces' \in Seq(Nat) /\ trace_map'[c.id] # 0
  <2>1. CASE switched
    <3>1. last_id \in Id /\ last_id # c.id
        BY <2>1 DEF ReaderInv, LastKnown
    <3>2. t \in Nat
        BY <1>2, <3>1
    <3>3. heap' \in Seq(Trace) /\ Len(heap') = Len(s.heap)
        BY <1>1, <1>2, <2>1, FinalizedTyped
    <3>4. trace_map' \in [Id -> 0 .. Len(heap')] /\ trace_map'[c.id] = s.map[c.id]
      <4>1. trace_map' = [s.map EXCEPT ![last_id] = 0]
          BY <1>1, <2>1
      <4>2. s.map \in [Id -> 0 .. Len(heap')] /\ 0 \in 0 .. Len(heap')
          BY <1>2, <3>3
      <4> QED BY ONLY <1>4, <3>1, <4>1, <4>2
    <3>5. traces' \in Seq(Nat)
      <4>1. traces' = Append(traces, t)
          BY <1>1, <2>1
      <4> HIDE DEF t
      <4> QED BY ONLY <1>4, <3>2, <4>1, AppendProperties
    <3> QED BY <1>2, <3>3, <3>4, <3>5
  <2>2. CASE ~switched
    BY <1>1, <1>2, <1>4, <2>2
  <2> QED BY <2>1, <2>2
<1>6. ReaderTypes'
    BY <1>1, <1>5 DEF ReaderInv, ReaderTypes
<1>7. WindowsWhole' /\ IdsKnown' /\ LastKnown'
    BY <1>1, <1>4 DEF WindowsWhole, IdsKnown, LastKnown
<1>8. NeverCrashes'
    BY <1>1, <1>5 DEF NeverCrashes
<1> QED BY <1>3, <1>6, <1>7, <1>8 DEF ReaderInv

\* Another symbol of the id of the p-th, not a sentinel, comes before it when the
\* sentinels delimit and the p-th is one.
LEMMA SymbolBefore ==
    ASSUME SentinelsDelimit, NEW p \in DOMAIN strategy.symbols,
           strategy.symbols \in Seq(InputSymbol), strategy.symbols[p].symb = Sentinel
    PROVE  \E q \in 1 .. p - 1 : IdAt(q) = IdAt(p) /\ strategy.symbols[q].symb # Sentinel
<1>1. PICK q \in 1 .. p - 1 : IdAt(q) = IdAt(p)
    BY DEF SentinelsDelimit, SymbolAt
<1>2. p \in 1 .. Len(strategy.symbols) /\ Len(strategy.symbols) \in Nat
      /\ DOMAIN strategy.symbols = 1 .. Len(strategy.symbols)
    OBVIOUS
<1>3. q \in DOMAIN strategy.symbols /\ ~(p <= q)
    BY <1>2
<1>4. strategy.symbols[q].symb # Sentinel
  <2> SUFFICES ASSUME strategy.symbols[q].symb = Sentinel PROVE p <= q
      BY <1>3
  <2> QED BY <1>1, <1>3 DEF SentinelsDelimit, SymbolAt
<1> QED BY <1>1, <1>4

\* sentinel: a sentinel looks up the trace of its id, which is there when its id has
\* had a symbol.
LEMMA SentinelSymbolStep ==
    ASSUME ReaderInv, SentinelSymbol
    PROVE  ReaderInv'
<1> DEFINE c == Head(input)
           s == Processed(Reading, c)
<1>1. /\ strategy.kind = "sentinel" /\ status = "reading" /\ input # <<>>
      /\ input' = Tail(input) /\ UNCHANGED <<strategy, last_id>>
    BY DEF SentinelSymbol, Using
<1>2. /\ InputIsRest' /\ Consumed' = Consumed + 1 /\ Consumed \in Nat
      /\ Consumed + 1 <= Len(strategy.symbols)
      /\ c \in InputSymbol /\ c = strategy.symbols[Consumed + 1]
    BY <1>1, ReadOne DEF ReaderInv
<1>3. strategy.symbols \in Seq(InputSymbol)
    BY InputsAssumption DEF ReaderInv, ReaderTypes
<1>4. /\ heap \in Seq(Trace) /\ trace_map \in [Id -> 0 .. Len(heap)] /\ c.id \in Id
      /\ traces \in Seq(Nat)
    BY <1>1, <1>2 DEF ReaderInv, ReaderTypes, InputSymbol
<1>5. WindowsWhole' /\ LastKnown'
    BY <1>1 DEF ReaderInv, WindowsWhole, LastKnown
<1>6. \A q \in 1 .. Consumed :
         strategy.symbols[q].symb # Sentinel => trace_map[strategy.symbols[q].id] # 0
    BY <1>1 DEF ReaderInv, IdsKnown
<1>7. CASE c.symb # Sentinel
  <2>1. heap' = s.heap /\ trace_map' = s.map /\ UNCHANGED <<traces, status>>
      BY <1>7 DEF SentinelSymbol
  <2>2. /\ s.heap \in Seq(Trace) /\ s.map \in [Id -> 0 .. Len(s.heap)]
        /\ s.map[c.id] \in 1 .. Len(s.heap)
        /\ \A i \in Id : trace_map[i] # 0 => s.map[i] # 0
      BY <1>1, HeadProcessed DEF ReaderInv
  <2> HIDE DEF s, c
  <2>3. ReaderTypes'
      BY <1>1, <1>4, <2>1, <2>2 DEF ReaderInv, ReaderTypes
  <2>4. IdsKnown'
    <3> SUFFICES ASSUME NEW q \in 1 .. Consumed + 1, strategy.symbols[q].symb # Sentinel
                 PROVE  s.map[strategy.symbols[q].id] # 0
        BY <1>1, <1>2, <2>1 DEF IdsKnown
    <3>1. CASE q = Consumed + 1
        BY <1>2, <2>2, <3>1
    <3>2. CASE q # Consumed + 1
      <4>1. q \in 1 .. Consumed /\ q \in 1 .. Len(strategy.symbols)
          BY <1>2, <3>2
      <4>2. strategy.symbols[q].id \in Id
        <5>1. strategy.symbols[q] \in InputSymbol
            BY <1>3, <4>1
        <5> QED BY <5>1 DEF InputSymbol
      <4> QED BY <1>6, <2>2, <4>1, <4>2
    <3> QED BY <3>1, <3>2
  <2>5. NeverCrashes'
      BY <1>1, <2>1, <2>2 DEF ReaderInv, NeverCrashes, LastKnown
  <2> QED BY <1>2, <1>5, <2>3, <2>4, <2>5 DEF ReaderInv
<1>8. CASE c.symb = Sentinel
  <2>1. trace_map' = trace_map
      BY <1>8 DEF SentinelSymbol
  <2>2. IdsKnown'
    <3> HIDE DEF c
    <3> SUFFICES ASSUME NEW q \in 1 .. Consumed + 1, strategy.symbols[q].symb # Sentinel
                 PROVE  trace_map[strategy.symbols[q].id] # 0
        BY <1>1, <1>2, <2>1 DEF IdsKnown
    <3> QED BY <1>2, <1>6, <1>8
  <2>3. CASE trace_map[c.id] = 0
    <3>1. status' = "crashed" /\ UNCHANGED <<heap, traces>>
        BY <1>8, <2>3 DEF SentinelSymbol
    <3> HIDE DEF c
    <3>2. ~SentinelsDelimit
      <4> SUFFICES ASSUME SentinelsDelimit PROVE FALSE
          OBVIOUS
      <4>1. Consumed + 1 \in DOMAIN strategy.symbols
          BY <1>2, <1>3
      <4>2. PICK q \in 1 .. Consumed + 1 - 1 :
               IdAt(q) = IdAt(Consumed + 1) /\ strategy.symbols[q].symb # Sentinel
          BY <1>2, <1>3, <1>8, <4>1, SymbolBefore
      <4>3. q \in 1 .. Consumed /\ strategy.symbols[q].id = c.id
          BY <1>2, <4>2 DEF IdAt
      <4> QED BY <1>6, <2>3, <4>2, <4>3
    <3>3. NeverCrashes'
        BY <1>1, <2>1, <3>1, <3>2, DelimitStays DEF ReaderInv, NeverCrashes
    <3>4. ReaderTypes'
        BY <1>1, <1>4, <2>1, <3>1 DEF ReaderInv, ReaderTypes
    <3> QED BY <1>2, <1>5, <2>2, <3>3, <3>4 DEF ReaderInv
  <2>4. CASE trace_map[c.id] # 0
    <3> DEFINE t == trace_map[c.id]
    <3>1. heap' = Finalized(heap, t) /\ traces' = Append(traces, t) /\ status' = status
        BY <1>8, <2>4 DEF SentinelSymbol, Return
    <3>2. t \in Nat
        BY <1>4
    <3> HIDE DEF c, t
    <3>3. heap' \in Seq(Trace) /\ Len(heap') = Len(heap)
        BY <1>4, <3>1, FinalizedTyped
    <3>4. traces' \in Seq(Nat)
        BY ONLY <1>4, <3>1, <3>2, AppendProperties
    <3>5. ReaderTypes'
        BY <1>1, <1>4, <2>1, <3>3, <3>4 DEF ReaderInv, ReaderTypes
    <3>6. NeverCrashes'
        BY <1>1, <2>1, <3>1 DEF ReaderInv, NeverCrashes
    <3> QED BY <1>2, <1>5, <2>2, <3>5, <3>6 DEF ReaderInv
  <2> QED BY <2>3, <2>4
<1> QED BY <1>7, <1>8

\* What can be reached from a head is a sequence of tails, with as many of them as
\* there are from the head on.
LEMMA ReachableTyped ==
    ASSUME NEW tr \in Trace, tr.head # 0
    PROVE  /\ Reachable(tr) \in Seq(TailSymbol)
           /\ Whole(tr) => Len(Reachable(tr)) \in Nat \ {0}
<1>1. /\ tr.tails \in Seq(TailSymbol) /\ tr.head \in Nat \ {0} /\ Len(tr.tails) \in Nat
      /\ Reachable(tr) = SubSeq(tr.tails, tr.head, Len(tr.tails))
    BY DEF Trace, Reachable
<1>2. CASE tr.head \in 1 .. Len(tr.tails)
    BY <1>1, <1>2 DEF Whole
<1>3. CASE tr.head \notin 1 .. Len(tr.tails)
    BY <1>1, <1>3 DEF Whole
<1> QED BY <1>2, <1>3

\* slidingwindow: a trace as long as the window has a head, unless the stride is
\* that of the window.
LEMMA WindowSymbolStep ==
    ASSUME ReaderInv, WindowSymbol
    PROVE  ReaderInv'
<1> DEFINE c == Head(input)
           s == Processed(Reading, c)
           t == s.map[c.id]
           tr == s.heap[t]
           window == [tails |-> Reachable(tr), head |-> 1,
                      length |-> Len(Reachable(tr)), sequence |-> Len(traces)]
           popped == PopFront(tr, strategy.stride)
           left == [s.heap EXCEPT ![t] = popped]
           more == Append(left, window)
           shorter == strategy.stride < strategy.size
<1>1. /\ strategy.kind = "slidingwindow" /\ status = "reading" /\ input # <<>>
      /\ input' = Tail(input) /\ trace_map' = s.map /\ UNCHANGED <<strategy, last_id>>
    BY DEF WindowSymbol, Using
<1>2. /\ s.heap \in Seq(Trace) /\ s.map \in [Id -> 0 .. Len(s.heap)]
      /\ t \in 1 .. Len(s.heap)
      /\ \A i \in Id : trace_map[i] # 0 => s.map[i] # 0
      /\ AllWhole(heap) => AllWhole(s.heap)
    BY <1>1, HeadProcessed DEF ReaderInv
<1>3. strategy.size \in Nat /\ strategy.stride \in 1 .. strategy.size
    BY <1>1, InputsAssumption DEF ReaderInv, ReaderTypes
<1>4. InputIsRest'
    BY <1>1, ReadOne DEF ReaderInv
<1>5. IdsKnown' /\ LastKnown'
    BY <1>1 DEF ReaderInv, IdsKnown, LastKnown
<1>6. shorter => AllWhole(s.heap)
    BY <1>1, <1>2 DEF ReaderInv, WindowsWhole
<1>7. traces \in Seq(Nat) /\ Len(traces) \in Nat /\ tr \in Trace
    BY <1>1, <1>2 DEF ReaderInv, ReaderTypes
<1>8. last_id # None => trace_map'[last_id] # 0
    BY <1>1, <1>2 DEF ReaderInv, NeverCrashes, LastKnown
<1> HIDE DEF s, c
<1>9. CASE tr.length # strategy.size
  <2>1. heap' = s.heap /\ UNCHANGED <<traces, status>>
      BY <1>9 DEF WindowSymbol, s, c
  <2> HIDE DEF t, tr, left, window
  <2>2. ReaderTypes' /\ WindowsWhole'
      BY <1>1, <1>2, <1>6, <1>7, <2>1 DEF ReaderInv, ReaderTypes, WindowsWhole
  <2>3. NeverCrashes'
      BY <1>1, <1>8, <2>1 DEF NeverCrashes
  <2> QED BY <1>4, <1>5, <2>2, <2>3 DEF ReaderInv
<1>10. CASE tr.length = strategy.size /\ tr.head = 0
  <2>1. heap' = s.heap /\ status' = "crashed" /\ UNCHANGED traces
      BY <1>10 DEF WindowSymbol, s, c
  <2>2. ~shorter
      BY <1>2, <1>6, <1>10 DEF AllWhole, Whole
  <2>3. strategy.stride = strategy.size
      BY <1>3, <2>2
  <2> HIDE DEF t, tr, left, window
  <2>4. ReaderTypes' /\ WindowsWhole'
      BY <1>1, <1>2, <1>6, <1>7, <2>1 DEF ReaderInv, ReaderTypes, WindowsWhole
  <2>5. NeverCrashes'
      BY <1>1, <1>8, <2>1, <2>3 DEF NeverCrashes
  <2> QED BY <1>4, <1>5, <2>4, <2>5 DEF ReaderInv
<1>11. CASE tr.length = strategy.size /\ tr.head # 0
  <2>1. /\ heap' = Finalized(more, Len(s.heap) + 1)
        /\ traces' = Append(traces, Len(s.heap) + 1)
        /\ UNCHANGED status
      BY <1>11 DEF WindowSymbol, Return, s, c
  <2>2. /\ popped \in Trace
        /\ Whole(tr) /\ shorter => Whole(popped)
      BY <1>3, <1>7, <1>11, PopFrontTyped
  <2>3. /\ window \in Trace
        /\ Whole(tr) => Whole(window)
    <3>1. Reachable(tr) \in Seq(TailSymbol) /\ Len(Reachable(tr)) \in Nat
        BY <1>7, <1>11, ReachableTyped
    <3>2. Whole(tr) => Len(Reachable(tr)) \in Nat \ {0}
        BY <1>7, <1>11, ReachableTyped
    <3> HIDE DEF tr
    <3>3. window \in Trace
        BY <1>7, <3>1 DEF Trace
    <3>4. Whole(tr) => Whole(window)
        BY <3>1, <3>2 DEF Whole
    <3> QED BY <3>3, <3>4
  <2>4. shorter => Whole(tr)
      BY <1>2, <1>6 DEF AllWhole
  <2> HIDE DEF t, tr, popped, window
  <2>5. /\ left \in Seq(Trace) /\ Len(left) = Len(s.heap)
        /\ \A u \in 1 .. Len(s.heap) : left[u] = IF u = t THEN popped ELSE s.heap[u]
    <3> HIDE DEF Trace
    <3> QED BY ONLY <1>2, <2>2, ExceptSeq
  <2> HIDE DEF left
  <2>6. /\ more \in Seq(Trace) /\ Len(more) = Len(left) + 1
        /\ \A u \in 1 .. Len(left) : more[u] = left[u]
        /\ more[Len(left) + 1] = window
    <3> HIDE DEF Trace
    <3> QED BY ONLY <2>3, <2>5, AppendProperties
  <2>7. shorter => AllWhole(more)
    <3> SUFFICES ASSUME shorter, NEW u \in 1 .. Len(more) PROVE Whole(more[u])
        BY DEF AllWhole
    <3>1. Len(s.heap) \in Nat
        BY <1>2
    <3>2. CASE u = Len(left) + 1
        BY <2>3, <2>4, <2>6, <3>2
    <3>3. CASE u # Len(left) + 1
      <4>1. u \in 1 .. Len(s.heap) /\ more[u] = IF u = t THEN popped ELSE s.heap[u]
          BY <2>5, <2>6, <3>1, <3>3
      <4> QED BY <1>6, <2>2, <2>4, <4>1 DEF AllWhole
    <3> QED BY <3>2, <3>3
  <2> HIDE DEF more
  <2>8. /\ heap' \in Seq(Trace) /\ Len(heap') = Len(s.heap) + 1
        /\ shorter => AllWhole(heap')
      BY <2>1, <2>5, <2>6, <2>7, FinalizedTyped
  <2>9. traces' \in Seq(Nat)
    <3>1. Len(s.heap) + 1 \in Nat
        BY <1>2
    <3> QED BY ONLY <1>7, <2>1, <3>1, AppendProperties
  <2>10. trace_map' \in [Id -> 0 .. Len(heap')]
    <3>1. Len(s.heap) \in Nat
        BY <1>2
    <3> QED BY ONLY <1>1, <1>2, <2>8, <3>1
  <2>11. ReaderTypes' /\ WindowsWhole'
      BY <1>1, <2>8, <2>9, <2>10 DEF ReaderInv, ReaderTypes, WindowsWhole
  <2>12. NeverCrashes'
      BY <1>1, <1>8, <2>1 DEF NeverCrashes
  <2> QED BY <1>4, <1>5, <2>11, <2>12 DEF ReaderInv
<1> QED BY <1>9, <1>10, <1>11

-----------------------------------------------------------------------------
(* The theorem.                                                            *)

\* Before anything is read there is nothing that could be missing.
LEMMA InitInv ==
    ASSUME Init
    PROVE  ReaderInv
<1>1. strategy.symbols \in Seq(InputSymbol) /\ Len(strategy.symbols) \in Nat
    BY InputsAssumption DEF Init
<1>2. ReaderTypes
    BY DEF Init, ReaderTypes, EmptyMap
<1>3. InputIsRest /\ Consumed = 0
    BY <1>1 DEF Init, InputIsRest, Consumed
<1>4. WindowsWhole
    BY DEF Init, WindowsWhole, AllWhole
<1>5. IdsKnown /\ LastKnown /\ NeverCrashes
    BY <1>3 DEF Init, IdsKnown, LastKnown, NeverCrashes
<1> QED BY <1>2, <1>3, <1>4, <1>5 DEF ReaderInv

\* Every step keeps the invariant.
LEMMA StepInv ==
    ASSUME ReaderInv, [Next]_vars
    PROVE  ReaderInv'
<1>1. CASE UNCHANGED vars
  <2>1. /\ UNCHANGED <<strategy, input, heap, trace_map, last_id, traces, status>>
      BY <1>1 DEF vars
  <2> QED BY <2>1, QuietStep DEF ReaderInv, ReaderTypes
<1>2. CASE ConsumeSymbol
    BY <1>2, ConsumeSymbolStep
<1>3. CASE ReadListed
    BY <1>3, ReadListedStep
<1>4. CASE InOrderSymbol
    BY <1>4, InOrderSymbolStep
<1>5. CASE InOrderLast
    BY <1>5, InOrderLastStep
<1>6. CASE SentinelSymbol
    BY <1>6, SentinelSymbolStep
<1>7. CASE WindowSymbol
    BY <1>7, WindowSymbolStep
<1>8. CASE ListTraces \/ AllListed \/ InOrderEnd \/ SentinelEnd \/ WindowEnd
    BY <1>8, EndStep
<1> QED BY <1>1, <1>2, <1>3, <1>4, <1>5, <1>6, <1>7, <1>8 DEF Next, Stopped

\* For every input, every window and every smaller stride, and whatever the ids:
\* read_all, in_order and sliding windows find each trace and each tail they look
\* for, and a sentinel strategy does when the sentinels delimit.
THEOREM NoCrash == Spec => []NeverCrashes
<1>1. Init => ReaderInv
    BY InitInv
<1>2. ReaderInv /\ [Next]_vars => ReaderInv'
    BY StepInv
<1>3. ReaderInv => NeverCrashes
    BY DEF ReaderInv
<1> QED BY <1>1, <1>2, <1>3, PTL DEF Spec

-----------------------------------------------------------------------------
(* Sets in order.                                                          *)

\* The elements with smaller keys.
Below(S, key, x) == {y \in S : key[y] < key[x]}

\* What SortedSeq makes of a set with keys.
ByKey(S, key) ==
    [k \in 1 .. Cardinality(S) |-> CHOOSE x \in S : Cardinality(Below(S, key, x)) = k - 1]

\* The k-th element of the sequence is the one with k - 1 smaller ones.
HasRanks(S, key, s) ==
    /\ s \in Seq(S) /\ Len(s) = Cardinality(S) /\ Cardinality(S) \in Nat
    /\ \A k \in 1 .. Cardinality(S) :
          s[k] \in S /\ Cardinality(Below(S, key, s[k])) = k - 1
    /\ \A x \in S : Cardinality(Below(S, key, x)) \in 0 .. Cardinality(S) - 1
    /\ \A x, z \in S :
          Cardinality(Below(S, key, x)) = Cardinality(Below(S, key, z)) => x = z

\* When the elements of a finite set have different keys, the one with k - 1
\* smaller ones is the k-th.
LEMMA SortedByKey ==
    ASSUME NEW S, IsFiniteSet(S), NEW key, \A x \in S : key[x] \in Int,
           \A x, y \in S : key[x] = key[y] => x = y,
           NEW s, s = ByKey(S, key)
    PROVE  HasRanks(S, key, s)
<1> DEFINE n == Cardinality(S)
           below(x) == Below(S, key, x)
           rank == [x \in S |-> Cardinality(below(x))]
<1>0. \A x \in S : below(x) = {y \in S : key[y] < key[x]}
    BY DEF Below
<1>1. n \in Nat
    BY FS_CardinalityType
<1>2. \A x \in S : IsFiniteSet(below(x)) /\ Cardinality(below(x)) \in Nat
  <2>1. \A x \in S : below(x) \in SUBSET S
      BY <1>0
  <2> HIDE DEF below
  <2> QED BY <1>1, <2>1, FS_Subset, FS_CardinalityType
<1>3. \A x \in S : rank[x] \in 0 .. n - 1
  <2> SUFFICES ASSUME NEW x \in S PROVE Cardinality(below(x)) \in 0 .. n - 1
      OBVIOUS
  <2>1. below(x) \in SUBSET S /\ below(x) # S
    <3>1. x \notin below(x) /\ below(x) \in SUBSET S
        BY <1>0
    <3> QED BY <3>1
  <2> HIDE DEF below
  <2>2. Cardinality(below(x)) <= n /\ Cardinality(below(x)) # n
      BY <1>1, <2>1, FS_Subset
  <2> QED BY <1>1, <1>2, <2>2
<1>4. \A x, y \in S : key[x] < key[y] => rank[x] # rank[y]
  <2> SUFFICES ASSUME NEW x \in S, NEW y \in S, key[x] < key[y]
               PROVE  Cardinality(below(x)) # Cardinality(below(y))
      OBVIOUS
  <2>1. \A z \in S : key[z] < key[x] => key[z] < key[y]
      OBVIOUS
  <2>2. x \in below(y) /\ x \notin below(x)
      BY <1>0
  <2>3. below(x) \in SUBSET below(y) /\ below(x) # below(y)
      BY <1>0, <2>1, <2>2
  <2>4. IsFiniteSet(below(y))
      BY <1>2
  <2> HIDE DEF below
  <2> QED BY <2>3, <2>4, FS_Subset
<1>5. \A x, y \in S : rank[x] = rank[y] => x = y
  <2> SUFFICES ASSUME NEW x \in S, NEW y \in S, x # y PROVE rank[x] # rank[y]
      OBVIOUS
  <2>1. key[x] < key[y] \/ key[y] < key[x]
      OBVIOUS
  <2> HIDE DEF rank
  <2> QED BY <1>4, <2>1
<1>6. \A r \in 0 .. n - 1 : \E x \in S : rank[x] = r
  <2>0. rank = [x \in S |-> rank[x]]
      BY DEF rank
  <2> HIDE DEF rank
  <2>1. rank \in [S -> 0 .. n - 1]
      BY <1>3, <2>0
  <2>2. rank \in Injection(S, 0 .. n - 1)
      BY <1>5, <2>1 DEF Injection, IsInjective
  <2>3. IsFiniteSet(0 .. n - 1) /\ Cardinality(0 .. n - 1) = n
    <3>1. 0 \in Int /\ n - 1 \in Int
        BY <1>1
    <3>2. /\ IsFiniteSet(0 .. n - 1)
          /\ Cardinality(0 .. n - 1) = IF 0 > n - 1 THEN 0 ELSE n - 1 - 0 + 1
        BY <3>1, FS_Interval
    <3> QED BY <1>1, <3>2
  <2>4. rank \in Surjection(S, 0 .. n - 1)
      BY <2>2, <2>3, FS_Injection
  <2> QED BY <2>4 DEF Surjection
<1>8. \A k \in 1 .. n : s[k] \in S /\ Cardinality(below(s[k])) = k - 1
  <2> SUFFICES ASSUME NEW k \in 1 .. n PROVE s[k] \in S /\ Cardinality(below(s[k])) = k - 1
      OBVIOUS
  <2>1. k - 1 \in 0 .. n - 1
      BY <1>1
  <2>2. PICK x \in S : rank[x] = k - 1
      BY <1>6, <2>1
  <2>3. Cardinality(below(x)) = k - 1
      BY <2>2
  <2>4. s[k] = CHOOSE z \in S : Cardinality(below(z)) = k - 1
      BY DEF ByKey
  <2> HIDE DEF below
  <2> QED BY ONLY <2>3, <2>4
<1>9. s \in Seq(S) /\ Len(s) = n
  <2> DEFINE e(k) == CHOOSE x \in S : Cardinality(below(x)) = k - 1
  <2>0. s = [k \in 1 .. n |-> e(k)]
      BY DEF ByKey
  <2> HIDE DEF e
  <2>1. s = [k \in 1 .. n |-> s[k]]
      BY ONLY <2>0
  <2>2. s \in [1 .. n -> S]
      BY ONLY <1>8, <2>1
  <2> QED BY ONLY <1>1, <2>2
<1>10. \A x, z \in S : Cardinality(below(x)) = Cardinality(below(z)) => x = z
    BY <1>5
<1>11. \A x \in S : Cardinality(below(x)) \in 0 .. n - 1
    BY <1>3
<1> QED BY <1>1, <1>8, <1>9, <1>10, <1>11 DEF HasRanks

\* Positions in ascending order.
LEMMA AscendingIs ==
    ASSUME NEW S \in SUBSET Nat, IsFiniteSet(S)
    PROVE  /\ Ascending(S) \in Seq(S) /\ Len(Ascending(S)) = Cardinality(S)
           /\ Cardinality(S) \in Nat
           /\ \A k \in 1 .. Cardinality(S) :
                 /\ Ascending(S)[k] \in S
                 /\ Cardinality({q \in S : q < Ascending(S)[k]}) = k - 1
           /\ \A p, q \in S :
                 Cardinality({r \in S : r < p}) = Cardinality({r \in S : r < q}) => p = q
<1>1. PICK key : key = [p \in S |-> p]
    OBVIOUS
<1>2. \A p \in S : key[p] = p /\ key[p] \in Int
    BY <1>1
<1>3. \A x \in S : {y \in S : y < x} = Below(S, key, x)
    BY <1>2 DEF Below
<1>4. \A k : (CHOOSE x \in S : Cardinality({y \in S : y < x}) = k - 1)
           = CHOOSE x \in S : Cardinality(Below(S, key, x)) = k - 1
    BY ONLY <1>3, Zenon
<1>5. Ascending(S) = ByKey(S, key)
  <2>1. Ascending(S) = [k \in 1 .. Cardinality(S) |->
                          CHOOSE x \in S : Cardinality({y \in S : y < x}) = k - 1]
      BY DEF Ascending, SortedSeq
  <2> QED BY ONLY <1>4, <2>1, Zenon DEF ByKey
<1>6. \A x, y \in S : key[x] = key[y] => x = y
    BY <1>2
<1>7. HasRanks(S, key, Ascending(S))
    BY <1>2, <1>5, <1>6, SortedByKey
<1>8. /\ Ascending(S) \in Seq(S) /\ Len(Ascending(S)) = Cardinality(S)
      /\ Cardinality(S) \in Nat
      /\ \A k \in 1 .. Cardinality(S) :
            /\ Ascending(S)[k] \in S
            /\ Cardinality(Below(S, key, Ascending(S)[k])) = k - 1
      /\ \A x, z \in S : Cardinality(Below(S, key, x)) = Cardinality(Below(S, key, z)) => x = z
    BY ONLY <1>7 DEF HasRanks
<1> QED BY ONLY <1>3, <1>8

\* The k-th of the positions has k of them up to itself.
LEMMA AscendingPlace ==
    ASSUME NEW S \in SUBSET (Nat \ {0}), IsFiniteSet(S), NEW k \in 1 .. Cardinality(S)
    PROVE  Ascending(S)[k] \in S /\ Cardinality(S \cap (1 .. Ascending(S)[k])) = k
<1> DEFINE p == Ascending(S)[k]
           below == {q \in S : q < p}
<1>1. p \in S /\ Cardinality(below) = k - 1
  <2>1. S \in SUBSET Nat
      OBVIOUS
  <2> QED BY <2>1, AscendingIs
<1> HIDE DEF p
<1>2. below \in SUBSET S /\ p \notin below /\ S \cap (1 .. p) = below \cup {p}
  <2>1. p \in Nat /\ \A q \in S : q \in Nat /\ 1 <= q
      BY <1>1
  <2>2. \A q : q \in S \cap (1 .. p) <=> q \in below \cup {p}
    <3> SUFFICES ASSUME NEW q \in S PROVE q \in 1 .. p <=> q < p \/ q = p
        BY <1>1
    <3> QED BY <2>1
  <2>3. S \cap (1 .. p) = below \cup {p}
    <3> HIDE DEF below
    <3> QED BY ONLY <2>2
  <2> QED BY <2>1, <2>3
<1> HIDE DEF below
<1>3. IsFiniteSet(below)
    BY <1>2, FS_Subset
<1>4. Cardinality(below \cup {p}) = Cardinality(below) + 1
    BY <1>2, <1>3, FS_AddElement
<1>5. k \in Nat
    BY AscendingIs
<1>6. Cardinality(S \cap (1 .. p)) = k - 1 + 1
    BY <1>1, <1>2, <1>4
<1> QED BY <1>1, <1>5, <1>6 DEF p

\* A greater position comes last.
LEMMA AscendingAppend ==
    ASSUME NEW S \in SUBSET Nat, IsFiniteSet(S), NEW p \in Nat, \A q \in S : q < p
    PROVE  Ascending(S \cup {p}) = Append(Ascending(S), p)
<1> DEFINE n == Cardinality(S)
           T == S \cup {p}
           s == Ascending(S)
           t == Ascending(T)
<1>1. p \notin S /\ T \in SUBSET Nat
    OBVIOUS
<1>2. IsFiniteSet(T) /\ Cardinality(T) = n + 1
    BY <1>1, FS_AddElement
<1>3. /\ s \in Seq(S) /\ Len(s) = n /\ n \in Nat
      /\ \A k \in 1 .. n : s[k] \in S /\ Cardinality({q \in S : q < s[k]}) = k - 1
    BY AscendingIs
<1>4. /\ t \in Seq(T) /\ Len(t) = n + 1
      /\ \A k \in 1 .. n + 1 : t[k] \in T /\ Cardinality({q \in T : q < t[k]}) = k - 1
      /\ \A x, z \in T :
            Cardinality({r \in T : r < x}) = Cardinality({r \in T : r < z}) => x = z
  <2> HIDE DEF T
  <2>1. /\ t \in Seq(T) /\ Len(t) = Cardinality(T)
        /\ \A k \in 1 .. Cardinality(T) :
              t[k] \in T /\ Cardinality({q \in T : q < t[k]}) = k - 1
        /\ \A x, z \in T :
              Cardinality({r \in T : r < x}) = Cardinality({r \in T : r < z}) => x = z
      BY <1>1, <1>2, AscendingIs
  <2> QED BY <1>2, <2>1
<1>5. \A x \in S : {q \in T : q < x} = {q \in S : q < x}
    OBVIOUS
<1>6. {q \in T : q < p} = S
  <2>1. \A q \in T : q < p <=> q \in S
      OBVIOUS
  <2> QED BY ONLY <2>1
<1> DEFINE rank(x) == Cardinality({q \in T : q < x})
<1>7. \A k \in 1 .. n : s[k] \in T /\ rank(s[k]) = k - 1
  <2> SUFFICES ASSUME NEW k \in 1 .. n PROVE s[k] \in T /\ rank(s[k]) = k - 1
      OBVIOUS
  <2>1. s[k] \in S /\ Cardinality({q \in S : q < s[k]}) = k - 1
      BY <1>3
  <2>2. {q \in T : q < s[k]} = {q \in S : q < s[k]}
      BY <1>5, <2>1
  <2> HIDE DEF s
  <2> QED BY <2>1, <2>2
<1>8. rank(p) = n /\ p \in T
    BY <1>6
<1>9. \A k \in 1 .. n + 1 : t[k] \in T /\ rank(t[k]) = k - 1
    BY <1>4
<1>10. \A x, z \in T : rank(x) = rank(z) => x = z
    BY <1>4
<1> HIDE DEF s, t, rank, T
<1>11. \A k \in 1 .. n : t[k] = s[k]
  <2> SUFFICES ASSUME NEW k \in 1 .. n PROVE t[k] = s[k]
      OBVIOUS
  <2>1. k \in 1 .. n + 1
      BY <1>3
  <2> QED BY <1>7, <1>9, <1>10, <2>1
<1>12. t[n + 1] = p
  <2>1. n + 1 \in 1 .. n + 1 /\ (n + 1) - 1 = n
      BY <1>3
  <2>2. t[n + 1] \in T /\ rank(t[n + 1]) = (n + 1) - 1
      BY <1>9, <2>1
  <2> QED BY <1>8, <1>10, <2>1, <2>2
<1>13. s \in Seq(T)
    BY <1>3 DEF T
<1>14. /\ Append(s, p) \in Seq(T) /\ Len(Append(s, p)) = n + 1
       /\ \A k \in 1 .. n : Append(s, p)[k] = s[k]
       /\ Append(s, p)[n + 1] = p
    BY <1>3, <1>8, <1>13, AppendProperties
<1>15. \A k \in 1 .. n + 1 : t[k] = Append(s, p)[k]
  <2> SUFFICES ASSUME NEW k \in 1 .. n + 1 PROVE t[k] = Append(s, p)[k]
      OBVIOUS
  <2>1. k \in 1 .. n \/ k = n + 1
      BY <1>3
  <2> QED BY <1>11, <1>12, <1>14, <2>1
<1>16. t = Append(s, p)
    BY <1>4, <1>14, <1>15, SeqEqual
<1> QED BY <1>16 DEF s, t, T

Positions == 1 .. Len(strategy.symbols)

\* What the inputs are.
LEMMA InputTypes ==
    ASSUME strategy \in Inputs
    PROVE  /\ Len(strategy.symbols) \in Nat /\ DOMAIN strategy.symbols = Positions
           /\ Positions \in SUBSET (Nat \ {0})
           /\ \A p \in Positions :
                 /\ IdAt(p) \in Id /\ SymbolAt(p) \in Symbol \cup {Empty, Sentinel}
                 /\ strategy.symbols[p] = [id |-> IdAt(p), symb |-> SymbolAt(p)]
           /\ \A p, q \in Positions : SymbolAt(p) = Empty /\ IdAt(q) = IdAt(p) => q = p
<1>1. strategy.symbols \in Seq(InputSymbol) /\ EmptyAlone(strategy.symbols)
    BY InputsAssumption
<1>2. Len(strategy.symbols) \in Nat /\ DOMAIN strategy.symbols = Positions
    BY <1>1 DEF Positions
<1>3. \A p \in Positions : strategy.symbols[p] \in InputSymbol
    BY <1>1 DEF Positions
<1>4. \A p \in Positions :
         /\ IdAt(p) \in Id /\ SymbolAt(p) \in Symbol \cup {Empty, Sentinel}
         /\ strategy.symbols[p] = [id |-> IdAt(p), symb |-> SymbolAt(p)]
    BY <1>3 DEF InputSymbol, IdAt, SymbolAt
<1>5. \A p, q \in Positions : SymbolAt(p) = Empty /\ IdAt(q) = IdAt(p) => q = p
    BY <1>1, <1>2 DEF EmptyAlone, IdAt, SymbolAt
<1>6. Positions \in SUBSET (Nat \ {0})
    BY <1>2 DEF Positions
<1> QED BY <1>2, <1>4, <1>5, <1>6

\* The positions that count, and the symbols there.
LEMMA SymbolsAtIs ==
    ASSUME strategy \in Inputs, NEW S \in SUBSET Positions
    PROVE  /\ IsFiniteSet(S)
           /\ SymbolsAt(S) \in Seq(TailSymbol) /\ Len(SymbolsAt(S)) \in Nat
           /\ Len(SymbolsAt(S)) = Cardinality({p \in S : Counts(p)})
           /\ SymbolsAt(S) = <<>> <=> \A p \in S : ~Counts(p)
<1> DEFINE own == {p \in S : Counts(p)}
           s == Ascending(own)
<1>1. Len(strategy.symbols) \in Nat /\ S \in SUBSET (Nat \ {0})
    BY InputTypes
<1>2. IsFiniteSet(S) /\ IsFiniteSet(own) /\ own \in SUBSET Nat /\ own \in SUBSET S
  <2>1. IsFiniteSet(Positions)
      BY <1>1, FS_Interval DEF Positions
  <2> QED BY <1>1, <2>1, FS_Subset
<1> HIDE DEF own
<1>3. /\ s \in Seq(own) /\ Len(s) = Cardinality(own) /\ Cardinality(own) \in Nat
      /\ \A k \in 1 .. Len(s) : s[k] \in own
    BY <1>2, AscendingIs
<1>4. SymbolsAt(S) = [k \in 1 .. Len(s) |-> SymbolAt(s[k])]
    BY DEF SymbolsAt, own
<1>5. \A k \in 1 .. Len(s) : SymbolAt(s[k]) \in TailSymbol
  <2> SUFFICES ASSUME NEW k \in 1 .. Len(s) PROVE SymbolAt(s[k]) \in TailSymbol
      OBVIOUS
  <2>1. s[k] \in Positions
      BY <1>2, <1>3
  <2>2. SymbolAt(s[k]) \in Symbol \cup {Empty, Sentinel}
      BY <2>1, InputTypes
  <2> QED BY <2>2 DEF TailSymbol
<1> HIDE DEF s
<1>6. SymbolsAt(S) \in Seq(TailSymbol) /\ Len(SymbolsAt(S)) = Len(s)
    BY <1>3, <1>4, <1>5
<1>7. SymbolsAt(S) = <<>> <=> Cardinality(own) = 0
    BY <1>3, <1>6
<1>8. Cardinality(own) = 0 <=> own = {}
    BY <1>2, FS_EmptySet
<1>9. own = {} <=> \A p \in S : ~Counts(p)
    BY DEF own
<1>10. Len(SymbolsAt(S)) = Cardinality(own)
    BY <1>3, <1>6
<1> QED BY <1>2, <1>3, <1>6, <1>7, <1>8, <1>9, <1>10 DEF own

\* One position more, which comes after all others.
LEMMA SymbolsAtAppend ==
    ASSUME strategy \in Inputs, NEW S \in SUBSET Positions, NEW p \in Positions,
           \A q \in S : q < p
    PROVE  SymbolsAt(S \cup {p}) = IF Counts(p) THEN Append(SymbolsAt(S), SymbolAt(p))
                                   ELSE SymbolsAt(S)
<1> DEFINE own == {q \in S : Counts(q)}
           s == Ascending(own)
<1>1. CASE ~Counts(p)
  <2>1. {q \in S \cup {p} : Counts(q)} = own
      BY <1>1
  <2> QED BY <1>1, <2>1 DEF SymbolsAt
<1>2. CASE Counts(p)
  <2>1. {q \in S \cup {p} : Counts(q)} = own \cup {p} /\ \A q \in own : q < p
      BY <1>2
  <2>2. own \in SUBSET S /\ S \in SUBSET Nat /\ p \in Nat
      BY InputTypes
  <2>3. IsFiniteSet(own)
      BY <2>2, SymbolsAtIs, FS_Subset
  <2> HIDE DEF own
  <2>4. Ascending(own \cup {p}) = Append(s, p)
      BY <2>1, <2>2, <2>3, AscendingAppend
  <2>5. s \in Seq(own) /\ Len(s) \in Nat
      BY <2>2, <2>3, AscendingIs
  <2>6. s \in Seq(Nat)
    <3>1. own \in SUBSET Nat
        BY <2>2
    <3> HIDE DEF s
    <3> QED BY <2>5, <3>1, SeqMonotonic
  <2> HIDE DEF s
  <2>7. /\ Len(Append(s, p)) = Len(s) + 1 /\ Append(s, p)[Len(s) + 1] = p
        /\ \A k \in 1 .. Len(s) : Append(s, p)[k] = s[k]
      BY <2>2, <2>6, AppendProperties
  <2>8. SymbolsAt(S) = [k \in 1 .. Len(s) |-> SymbolAt(s[k])]
      BY DEF SymbolsAt, own, s
  <2> DEFINE longer == Append(s, p)
             w == SymbolsAt(S)
  <2>9. SymbolsAt(S \cup {p}) = [k \in 1 .. Len(longer) |-> SymbolAt(longer[k])]
    <3> HIDE DEF longer
    <3>1. Ascending({q \in S \cup {p} : Counts(q)}) = longer
        BY <2>1, <2>4 DEF longer
    <3> QED BY <3>1 DEF SymbolsAt
  <2> HIDE DEF longer
  <2>10. w \in Seq(TailSymbol) /\ Len(w) = Len(s) /\ SymbolAt(p) \in TailSymbol
    <3>1. SymbolAt(p) \in Symbol \cup {Empty, Sentinel}
        BY InputTypes
    <3>2. w \in Seq(TailSymbol)
        BY SymbolsAtIs
    <3>3. Len(w) = Len(s)
        BY <2>5, <2>8
    <3> QED BY <3>1, <3>2, <3>3 DEF TailSymbol
  <2>11. SymbolsAt(S \cup {p}) \in Seq(TailSymbol) /\ Len(SymbolsAt(S \cup {p})) = Len(s) + 1
    <3>1. S \cup {p} \in SUBSET Positions
        OBVIOUS
    <3>2. SymbolsAt(S \cup {p}) \in Seq(TailSymbol)
        BY <3>1, SymbolsAtIs
    <3>3. Len(SymbolsAt(S \cup {p})) = Len(longer)
        BY <2>5, <2>7, <2>9 DEF longer
    <3> QED BY <2>7, <3>2, <3>3 DEF longer
  <2>12. \A k \in 1 .. Len(s) + 1 : SymbolsAt(S \cup {p})[k] = Append(w, SymbolAt(p))[k]
    <3> SUFFICES ASSUME NEW k \in 1 .. Len(s) + 1
                 PROVE  SymbolsAt(S \cup {p})[k] = Append(w, SymbolAt(p))[k]
        OBVIOUS
    <3>1. SymbolsAt(S \cup {p})[k] = SymbolAt(longer[k])
        BY <2>7, <2>9 DEF longer
    <3>2. CASE k = Len(s) + 1
        BY <2>7, <2>10, <3>1, <3>2, AppendProperties DEF longer
    <3>3. CASE k # Len(s) + 1
      <4>1. k \in 1 .. Len(s)
          BY <2>5, <3>3
      <4>2. longer[k] = s[k] /\ w[k] = SymbolAt(s[k])
          BY <2>7, <2>8, <4>1 DEF longer
      <4>3. Append(w, SymbolAt(p))[k] = w[k]
          BY <2>10, <4>1, AppendProperties
      <4> QED BY <3>1, <4>2, <4>3
    <3> QED BY <3>2, <3>3
  <2>13. Append(w, SymbolAt(p)) \in Seq(TailSymbol) /\ Len(Append(w, SymbolAt(p))) = Len(s) + 1
      BY <2>10, AppendProperties
  <2>14. SymbolsAt(S \cup {p}) = Append(w, SymbolAt(p))
    <3> HIDE DEF w
    <3> QED BY <2>11, <2>12, <2>13, SeqEqual
  <2> QED BY <1>2, <2>14
<1> QED BY <1>1, <1>2

-----------------------------------------------------------------------------
(* Traces that hold the symbols of some positions.                         *)

\* The tails hold the symbols at the positions in S, which are of one id.
Holds(tails, S) ==
    LET w == SymbolsAt(S) IN
    \/ w # <<>> /\ tails = w /\ \A k \in 1 .. Len(w) : w[k] # Final
    \/ w = <<>> /\ tails = <<Final>> /\ \E q \in S : SymbolAt(q) = Empty

\* An open trace, and one that is handed out.
OpenWith(tr, S) == tr.head = 1 /\ tr.length = Len(SymbolsAt(S)) /\ Holds(tr.tails, S)
ClosedWith(tr, w) == Reachable(tr) = Append(w, Final) /\ tr.length = Len(w)

\* The tail of the symbol at p, and the symbols that are put on a trace.
TailAt(p) == IF SymbolAt(p) = Empty THEN Final ELSE SymbolAt(p)
Kept(p) == strategy.kind = "sentinel" => SymbolAt(p) # Sentinel

\* The first symbol of a trace.
LEMMA HoldsFirst ==
    ASSUME strategy \in Inputs, NEW p \in Positions, Kept(p)
    PROVE  /\ Holds(<<TailAt(p)>>, {p})
           /\ Len(SymbolsAt({p})) = IF SymbolAt(p) = Empty THEN 0 ELSE 1
<1>1. SymbolAt(p) \in Symbol \cup {Empty, Sentinel} /\ p \in Nat
    BY InputTypes
<1>2. SymbolsAt({}) = <<>>
  <2>1. {} \in SUBSET Positions
      OBVIOUS
  <2> QED BY <2>1, SymbolsAtIs
<1>3. SymbolsAt({p}) = IF Counts(p) THEN Append(<<>>, SymbolAt(p)) ELSE <<>>
  <2>1. {} \in SUBSET Positions /\ \A q \in {} : q < p
      OBVIOUS
  <2>2. {} \cup {p} = {p}
      OBVIOUS
  <2>3. SymbolsAt({} \cup {p}) = IF Counts(p) THEN Append(SymbolsAt({}), SymbolAt(p))
                                 ELSE SymbolsAt({})
      BY <2>1, SymbolsAtAppend
  <2> QED BY <1>2, <2>2, <2>3
<1>4. CASE SymbolAt(p) = Empty
  <2>1. SymbolsAt({p}) = <<>>
      BY <1>3, <1>4 DEF Counts
  <2> QED BY <1>4, <2>1 DEF Holds, TailAt
<1>5. CASE SymbolAt(p) # Empty
  <2>1. SymbolsAt({p}) = <<SymbolAt(p)>>
      BY <1>3, <1>5 DEF Counts, Kept
  <2>2. SymbolAt(p) # Final
      BY <1>1, <1>5, SymbolsAssumption
  <2> DEFINE w == <<SymbolAt(p)>>
  <2>3. w # <<>> /\ Len(w) = 1 /\ \A k \in 1 .. Len(w) : w[k] # Final
      BY <2>2
  <2>4. SymbolsAt({p}) = w /\ <<TailAt(p)>> = w
      BY <1>5, <2>1 DEF TailAt
  <2> HIDE DEF w
  <2> QED BY <1>5, <2>3, <2>4 DEF Holds
<1> QED BY <1>4, <1>5

\* A symbol more: no empty line is among the symbols of the id.
LEMMA HoldsMore ==
    ASSUME strategy \in Inputs, NEW p \in Positions, Kept(p),
           NEW S \in SUBSET Positions, \A q \in S : q < p /\ IdAt(q) = IdAt(p),
           NEW tails, Holds(tails, S)
    PROVE  /\ Counts(p) /\ TailAt(p) = SymbolAt(p)
           /\ tails = SymbolsAt(S) /\ SymbolsAt(S) # <<>>
           /\ SymbolsAt(S \cup {p}) = Append(SymbolsAt(S), SymbolAt(p))
           /\ Len(SymbolsAt(S \cup {p})) = Len(SymbolsAt(S)) + 1
           /\ Holds(Append(tails, TailAt(p)), S \cup {p})
<1> DEFINE w == SymbolsAt(S)
           n == Len(w)
<1>1. /\ SymbolAt(p) \in Symbol \cup {Empty, Sentinel}
      /\ \A q \in S : q \in Positions /\ q # p
  <2>1. p \in Nat /\ \A q \in S : q \in Nat
      BY InputTypes
  <2>2. \A q \in S : q # p
      BY ONLY <2>1, \A q \in S : q < p /\ IdAt(q) = IdAt(p)
  <2>3. SymbolAt(p) \in Symbol \cup {Empty, Sentinel}
      BY InputTypes
  <2> QED BY <2>2, <2>3
<1>2. PICK q \in S : TRUE
  <2>1. S # {}
      BY SymbolsAtIs DEF Holds
  <2> QED BY <2>1
<1>3. SymbolAt(p) # Empty
    BY <1>1, <1>2, InputTypes
<1>4. Counts(p) /\ TailAt(p) = SymbolAt(p)
    BY <1>3 DEF Counts, Kept, TailAt
<1>5. \A r \in S : SymbolAt(r) # Empty
    BY <1>1, InputTypes
<1>6. tails = w /\ w # <<>> /\ \A k \in 1 .. n : w[k] # Final
    BY <1>5 DEF Holds
<1>7. SymbolsAt(S \cup {p}) = Append(w, SymbolAt(p))
    BY <1>4, SymbolsAtAppend
<1>8. w \in Seq(TailSymbol) /\ n \in Nat
    BY SymbolsAtIs
<1>9. SymbolAt(p) \in TailSymbol /\ SymbolAt(p) # Final
    BY <1>1, <1>3, SymbolsAssumption DEF TailSymbol
<1> DEFINE longer == Append(w, SymbolAt(p))
<1> HIDE DEF w
<1>10. /\ Len(longer) = n + 1 /\ longer[n + 1] = SymbolAt(p)
       /\ \A k \in 1 .. n : longer[k] = w[k]
    BY <1>8, <1>9, AppendProperties
<1> HIDE DEF longer
<1>11. longer # <<>> /\ \A k \in 1 .. Len(longer) : longer[k] # Final
  <2>1. ASSUME NEW k \in 1 .. n + 1 PROVE longer[k] # Final
    <3>1. k \in 1 .. n \/ k = n + 1
        BY <1>8
    <3> QED BY <1>6, <1>9, <1>10, <3>1
  <2>2. Len(longer) # 0
      BY <1>8, <1>10
  <2> QED BY <1>10, <2>1, <2>2
<1>12. Holds(Append(tails, TailAt(p)), S \cup {p})
  <2>1. Append(tails, TailAt(p)) = SymbolsAt(S \cup {p}) /\ SymbolsAt(S \cup {p}) = longer
      BY <1>4, <1>6, <1>7 DEF longer
  <2> QED BY <1>11, <2>1 DEF Holds
<1> QED BY <1>4, <1>6, <1>7, <1>10, <1>12 DEF w, longer

\* The trace of id i has one tail more than in h, where a trace of one tail counts n.
Grown(s, h, mp, i, tail, n) ==
    LET t == s.map[i] IN
    /\ t \in Nat \ {0} /\ t \in 1 .. Len(s.heap)
    /\ Len(h) <= Len(s.heap) /\ Len(s.heap) \in Nat /\ Len(h) \in Nat
    /\ \A j \in Id : j # i => s.map[j] = mp[j]
    /\ \A u \in 1 .. Len(h) : u # t => s.heap[u] = h[u]
    /\ mp[i] # 0 =>
          /\ t = mp[i] /\ t \in 1 .. Len(h) /\ s.map = mp /\ Len(s.heap) = Len(h)
          /\ s.heap[t].tails = Append(h[t].tails, tail)
          /\ s.heap[t].head = h[t].head /\ s.heap[t].length = h[t].length + 1
          /\ s.heap[t].sequence = h[t].sequence
    /\ mp[i] = 0 =>
          /\ t = Len(h) + 1 /\ Len(s.heap) = Len(h) + 1
          /\ s.heap[t].tails = <<tail>> /\ s.heap[t].head = 1
          /\ s.heap[t].length = n /\ s.heap[t].sequence = Len(h)

\* What process_symbol_info does.
LEMMA ProcessedIs ==
    ASSUME NEW h \in Seq(Trace), NEW mp \in [Id -> 0 .. Len(h)], NEW c \in InputSymbol,
           NEW s, s = Processed([heap |-> h, map |-> mp], c),
           NEW tail, tail = IF c.symb = Empty THEN Final ELSE c.symb
    PROVE  Grown(s, h, mp, c.id, tail, IF c.symb = Empty THEN 0 ELSE 1)
<1> DEFINE t == mp[c.id]
<1>1. c.id \in Id /\ t \in 0 .. Len(h) /\ Len(h) \in Nat /\ tail \in TailSymbol
    BY DEF InputSymbol, TailSymbol
<1>2. CASE t # 0
  <2> DEFINE new == PushBack(h[t], tail)
  <2>1. t \in 1 .. Len(h) /\ h[t] \in Trace
      BY <1>1, <1>2
  <2>2. /\ new.tails = Append(h[t].tails, tail) /\ new.head = h[t].head
        /\ new.length = h[t].length + 1 /\ new.sequence = h[t].sequence
        /\ new \in Trace
      BY <1>1, <2>1, PushBackTyped DEF PushBack, Trace
  <2>3. s = [heap |-> [h EXCEPT ![t] = new], map |-> mp]
      BY <1>2, <2>1 DEF Processed
  <2> HIDE DEF new
  <2>4. s.map = mp /\ s.heap = [h EXCEPT ![t] = new]
      BY ONLY <2>3
  <2>5. /\ Len(s.heap) = Len(h)
        /\ \A u \in 1 .. Len(h) : s.heap[u] = IF u = t THEN new ELSE h[u]
    <3> HIDE DEF Trace, t
    <3> QED BY SMTT(30), <2>1, <2>2, <2>4, ExceptSeq
  <2>6. s.map[c.id] = t /\ t \in Nat \ {0} /\ s.heap[t] = new /\ Len(h) <= Len(s.heap)
      BY <1>1, <1>2, <2>1, <2>4, <2>5
  <2> HIDE DEF t
  <2>7. mp[c.id] = t
      BY DEF t
  <2>8. \A u \in 1 .. Len(h) : u # t => s.heap[u] = h[u]
      BY <2>5
  <2> QED BY ONLY <1>1, <1>2, <2>1, <2>2, <2>4, <2>5, <2>6, <2>7, <2>8 DEF Grown
<1>3. CASE t = 0
  <2> DEFINE new == [tails |-> <<tail>>, head |-> 1,
                     length |-> IF c.symb = Empty THEN 0 ELSE 1, sequence |-> Len(h)]
  <2>1. new \in Trace
      BY <1>1 DEF Trace
  <2>2. s = [heap |-> Append(h, new), map |-> [mp EXCEPT ![c.id] = Len(h) + 1]]
      BY <1>3 DEF Processed
  <2> HIDE DEF new
  <2>3. s.heap = Append(h, new) /\ s.map = [mp EXCEPT ![c.id] = Len(h) + 1]
      BY ONLY <2>2
  <2>4. /\ Len(s.heap) = Len(h) + 1 /\ \A u \in 1 .. Len(h) : s.heap[u] = h[u]
        /\ s.heap[Len(h) + 1] = new
    <3> HIDE DEF Trace
    <3> QED BY ONLY h \in Seq(Trace), <2>1, <2>3, AppendProperties
  <2>5. s.map[c.id] = Len(h) + 1 /\ \A i \in Id : i # c.id => s.map[i] = mp[i]
      BY ONLY <1>1, <2>3, mp \in [Id -> 0 .. Len(h)]
  <2>6. s.map[c.id] \in 1 .. Len(s.heap)
      BY <1>1, <2>4, <2>5
  <2>7. /\ new.tails = <<tail>> /\ new.head = 1 /\ new.sequence = Len(h)
        /\ new.length = IF c.symb = Empty THEN 0 ELSE 1
      BY DEF new
  <2> QED BY <1>1, <1>3, <2>4, <2>5, <2>6, <2>7 DEF Grown
<1> QED BY <1>2, <1>3

\* What trace::finalize does.
LEMMA FinalizedIs ==
    ASSUME NEW h \in Seq(Trace), NEW t \in 1 .. Len(h)
    PROVE  /\ Len(Finalized(h, t)) = Len(h)
           /\ \A u \in 1 .. Len(h) : u # t => Finalized(h, t)[u] = h[u]
           /\ Finalized(h, t)[t].head = h[t].head
           /\ Finalized(h, t)[t].length = h[t].length
           /\ Finalized(h, t)[t].sequence = h[t].sequence
           /\ Finalized(h, t)[t].tails = IF Last(h[t].tails) = Final THEN h[t].tails
                                         ELSE Append(h[t].tails, Final)
<1>1. CASE Last(h[t].tails) = Final
    BY <1>1 DEF Finalized
<1>2. CASE Last(h[t].tails) # Final
  <2> DEFINE new == [h[t] EXCEPT !.tails = Append(@, Final)]
  <2>1. h[t] \in Trace /\ t \in Nat
      OBVIOUS
  <2>2. /\ Append(h[t].tails, Final) \in Seq(TailSymbol)
        /\ h[t].tails \in Seq(TailSymbol) /\ h[t].head \in Nat /\ h[t].length \in Int
      BY <2>1 DEF Trace, TailSymbol
  <2>3. /\ new \in Trace /\ new.tails = Append(h[t].tails, Final) /\ new.head = h[t].head
        /\ new.length = h[t].length /\ new.sequence = h[t].sequence
      BY <2>1, <2>2 DEF Trace
  <2>4. Finalized(h, t) = [h EXCEPT ![t] = new]
      BY <1>2 DEF Finalized
  <2> HIDE DEF new
  <2>5. /\ Len(Finalized(h, t)) = Len(h)
        /\ \A u \in 1 .. Len(h) : Finalized(h, t)[u] = IF u = t THEN new ELSE h[u]
    <3> HIDE DEF Trace
    <3> QED BY SMTT(30), <2>3, <2>4, ExceptSeq
  <2> QED BY <1>2, <2>3, <2>5
<1> QED BY <1>1, <1>2

\* What a trace with its head at the first of its tails makes reachable: all of them.
LEMMA ReachableFirst ==
    ASSUME NEW tr, NEW w \in Seq(TailSymbol), tr.tails = w, tr.head = 1
    PROVE  Reachable(tr) = w
<1>1. SubSeq(w, 1, Len(w)) = w
    BY SubSeqFull
<1> QED BY <1>1 DEF Reachable

\* An open trace is closed with its symbols.
LEMMA OpenIsClosed ==
    ASSUME strategy \in Inputs, NEW h \in Seq(Trace), NEW t \in 1 .. Len(h),
           NEW S \in SUBSET Positions, OpenWith(h[t], S)
    PROVE  ClosedWith(Finalized(h, t)[t], SymbolsAt(S))
<1> DEFINE w == SymbolsAt(S)
           new == Finalized(h, t)[t]
<1>1. w \in Seq(TailSymbol) /\ Len(w) \in Nat
    BY SymbolsAtIs
<1>2. /\ new.head = 1 /\ new.length = Len(w)
      /\ new.tails = IF Last(h[t].tails) = Final THEN h[t].tails ELSE Append(h[t].tails, Final)
    BY FinalizedIs DEF OpenWith
<1>3. Final \in TailSymbol /\ Append(w, Final) \in Seq(TailSymbol)
    BY <1>1 DEF TailSymbol
<1>4. new.tails = Append(w, Final)
  <2>1. CASE w # <<>> /\ h[t].tails = w /\ \A k \in 1 .. Len(w) : w[k] # Final
    <3> HIDE DEF w
    <3>1. Last(w) = w[Len(w)] /\ Len(w) \in 1 .. Len(w)
        BY <1>1, <2>1 DEF Last
    <3> QED BY <1>2, <2>1, <3>1
  <2>2. CASE w = <<>> /\ h[t].tails = <<Final>>
    <3>1. Last(<<Final>>) = Final /\ Append(<<>>, Final) = <<Final>>
        BY DEF Last
    <3> QED BY <1>2, <2>2, <3>1
  <2> QED BY <2>1, <2>2 DEF OpenWith, Holds
<1> HIDE DEF new, w
<1>5. Reachable(new) = Append(w, Final)
    BY <1>2, <1>3, <1>4, ReachableFirst
<1> QED BY <1>2, <1>5 DEF ClosedWith, w, new

-----------------------------------------------------------------------------
(* The traces promised up to a position.                                   *)

\* How many traces are promised for the first p symbols.
Rank(p) == Cardinality(Ends \cap (1 .. p))

\* The traces ts have been handed out, with the heap h, for the first x symbols.
Handed(ts, h, x) ==
    /\ ts \in Seq(Nat) /\ Len(ts) = Rank(x)
    /\ \A p \in Ends \cap (1 .. x) :
          ts[Rank(p)] \in 1 .. Len(h) /\ ClosedWith(h[ts[Rank(p)]], TraceAt(p))

\* The ends are some of the positions.
LEMMA EndsTyped ==
    ASSUME strategy \in Inputs
    PROVE  /\ Ends \in SUBSET Positions /\ IsFiniteSet(Ends) /\ Ends \in SUBSET (Nat \ {0})
           /\ \A x : IsFiniteSet(Ends \cap (1 .. x)) /\ Rank(x) \in Nat
<1>1. Ends \in SUBSET Positions
    BY DEF Ends, Positions
<1>2. IsFiniteSet(Ends)
    BY <1>1, SymbolsAtIs
<1>3. \A x : IsFiniteSet(Ends \cap (1 .. x))
    BY <1>2, FS_Intersection
<1>4. \A x : Rank(x) \in Nat
    BY <1>3, FS_CardinalityType DEF Rank
<1> QED BY <1>1, <1>2, <1>3, <1>4, InputTypes

\* An end has a greater rank than what comes before it.
LEMMA RankLess ==
    ASSUME strategy \in Inputs, NEW x \in Nat, NEW p \in Ends
    PROVE  /\ x < p => Rank(x) < Rank(p)
           /\ p <= x => Rank(p) <= Rank(x)
<1>1. /\ Ends \in SUBSET (Nat \ {0}) /\ IsFiniteSet(Ends \cap (1 .. x))
      /\ IsFiniteSet(Ends \cap (1 .. p)) /\ Rank(x) \in Nat /\ Rank(p) \in Nat /\ p \in Nat \ {0}
    BY EndsTyped
<1>2. ASSUME x < p PROVE Rank(x) < Rank(p)
  <2>1. (1 .. x) \subseteq (1 .. p) /\ p \notin 1 .. x /\ p \in 1 .. p
      BY <1>1, <1>2
  <2>2. Ends \cap (1 .. x) \in SUBSET (Ends \cap (1 .. p))
        /\ Ends \cap (1 .. x) # Ends \cap (1 .. p)
      BY <2>1
  <2>3. Rank(x) <= Rank(p) /\ Rank(x) # Rank(p)
      BY <1>1, <2>2, FS_Subset DEF Rank
  <2> QED BY <1>1, <2>3
<1>3. ASSUME p <= x PROVE Rank(p) <= Rank(x)
  <2>1. (1 .. p) \subseteq (1 .. x)
      BY <1>1, <1>3
  <2>2. Ends \cap (1 .. p) \in SUBSET (Ends \cap (1 .. x))
      BY <2>1
  <2> QED BY <1>1, <2>2, FS_Subset DEF Rank
<1> QED BY <1>2, <1>3

\* Ends of the same rank are the same.
LEMMA RankInjective ==
    ASSUME strategy \in Inputs, NEW p \in Ends, NEW q \in Ends, Rank(p) = Rank(q)
    PROVE  p = q
<1>1. p \in Nat /\ q \in Nat /\ Rank(p) \in Nat
    BY EndsTyped
<1>2. ~(p < q) /\ ~(q < p)
    BY <1>1, RankLess
<1> QED BY <1>1, <1>2

\* An end up to x has one of the first places.
LEMMA RankRange ==
    ASSUME strategy \in Inputs, NEW x \in Nat, NEW p \in Ends \cap (1 .. x)
    PROVE  Rank(p) \in 1 .. Rank(x)
<1>1. p \in Ends /\ p <= x /\ 0 < p /\ 0 \in Nat
    BY EndsTyped
<1>2. Rank(0) \in Nat /\ Rank(p) \in Nat /\ Rank(x) \in Nat
    BY EndsTyped
<1>3. Rank(0) < Rank(p) /\ Rank(p) <= Rank(x)
    BY <1>1, RankLess
<1> QED BY <1>2, <1>3

\* One position more.
LEMMA RankNext ==
    ASSUME strategy \in Inputs, NEW x \in Nat
    PROVE  IF x + 1 \in Ends
           THEN /\ Ends \cap (1 .. (x + 1)) = (Ends \cap (1 .. x)) \cup {x + 1}
                /\ Rank(x + 1) = Rank(x) + 1
           ELSE /\ Ends \cap (1 .. (x + 1)) = Ends \cap (1 .. x)
                /\ Rank(x + 1) = Rank(x)
<1>1. 1 .. (x + 1) = (1 .. x) \cup {x + 1} /\ x + 1 \notin 1 .. x
    OBVIOUS
<1>2. CASE x + 1 \in Ends
  <2>1. Ends \cap (1 .. (x + 1)) = (Ends \cap (1 .. x)) \cup {x + 1}
      BY <1>1, <1>2
  <2>2. x + 1 \notin Ends \cap (1 .. x) /\ IsFiniteSet(Ends \cap (1 .. x))
      BY <1>1, EndsTyped
  <2>3. Cardinality((Ends \cap (1 .. x)) \cup {x + 1}) = Cardinality(Ends \cap (1 .. x)) + 1
      BY <2>2, FS_AddElement
  <2> QED BY <1>2, <2>1, <2>3 DEF Rank
<1>3. CASE x + 1 \notin Ends
  <2>1. Ends \cap (1 .. (x + 1)) = Ends \cap (1 .. x)
      BY <1>1, <1>3
  <2> QED BY <1>3, <2>1 DEF Rank
<1> QED BY <1>2, <1>3

\* Nothing is promised for nothing.
LEMMA RankZero ==
    ASSUME strategy \in Inputs
    PROVE  Ends \cap (1 .. 0) = {} /\ Rank(0) = 0
<1>1. Ends \cap (1 .. 0) = {}
    OBVIOUS
<1> QED BY <1>1, FS_EmptySet DEF Rank

\* The traces promised up to x are the first of the promised ones, and all of them
\* when x is the last position.
LEMMA HandedIsPromised ==
    ASSUME strategy \in Inputs, NEW ts, NEW h, NEW x \in 0 .. Len(strategy.symbols),
           Handed(ts, h, x)
    PROVE  /\ Len(ts) <= Len(Promised) /\ DOMAIN ts = 1 .. Len(ts)
           /\ x = Len(strategy.symbols) => Len(ts) = Len(Promised)
           /\ \A k \in 1 .. Len(ts) : ClosedWith(h[ts[k]], Promised[k])
<1> DEFINE n == Cardinality(Ends)
           ends == Ascending(Ends)
<1>1. /\ Ends \in SUBSET (Nat \ {0}) /\ IsFiniteSet(Ends) /\ Ends \in SUBSET Positions
      /\ Ends \in SUBSET Nat
    BY EndsTyped
<1>2. /\ Len(ends) = n /\ n \in Nat
      /\ \A k \in 1 .. n : ends[k] \in Ends /\ Rank(ends[k]) = k
  <2>1. Len(ends) = n /\ n \in Nat
      BY <1>1, AscendingIs
  <2>2. \A k \in 1 .. n : ends[k] \in Ends /\ Rank(ends[k]) = k
      BY <1>1, AscendingPlace DEF Rank
  <2> QED BY <2>1, <2>2
<1> HIDE DEF ends
<1>3. Promised = [k \in 1 .. n |-> TraceAt(ends[k])]
    BY <1>2 DEF Promised, ends
<1>4. Len(Promised) = n /\ \A k \in 1 .. n : Promised[k] = TraceAt(ends[k])
    BY <1>2, <1>3
<1>5. x \in Nat /\ Rank(x) \in Nat /\ Len(strategy.symbols) \in Nat
  <2>1. Rank(x) \in Nat
      BY EndsTyped
  <2>2. Len(strategy.symbols) \in Nat
      BY InputTypes
  <2> QED BY <2>1, <2>2
<1>6. Rank(x) <= n /\ (x = Len(strategy.symbols) => Rank(x) = n)
  <2>1. Ends \cap (1 .. x) \in SUBSET Ends
      OBVIOUS
  <2>2. Rank(x) <= n
      BY <1>1, <2>1, FS_Subset DEF Rank
  <2>3. x = Len(strategy.symbols) => Ends \cap (1 .. x) = Ends
      BY <1>1 DEF Positions
  <2> QED BY <2>2, <2>3 DEF Rank
<1>7. /\ ts \in Seq(Nat) /\ Len(ts) = Rank(x)
      /\ \A p \in Ends \cap (1 .. x) : ClosedWith(h[ts[Rank(p)]], TraceAt(p))
    BY DEF Handed
<1>8. \A k \in 1 .. Len(ts) : ClosedWith(h[ts[k]], Promised[k])
  <2> SUFFICES ASSUME NEW k \in 1 .. Rank(x)
               PROVE  ClosedWith(h[ts[k]], Promised[k])
      BY <1>7
  <2>1. k \in 1 .. n /\ k \in Nat
      BY <1>2, <1>5, <1>6
  <2>2. ends[k] \in Ends /\ Rank(ends[k]) = k /\ ends[k] \in Nat \ {0}
      BY <1>1, <1>2, <2>1
  <2>3. ~(x < ends[k])
      BY <1>5, <2>1, <2>2, RankLess
  <2>4. ends[k] \in Ends \cap (1 .. x)
      BY <1>5, <2>2, <2>3
  <2> QED BY <1>4, <1>7, <2>1, <2>2, <2>4
<1>9. DOMAIN ts = 1 .. Len(ts)
    BY <1>7
<1> QED BY <1>4, <1>6, <1>7, <1>8, <1>9

\* What was handed out stays, when the heap is changed elsewhere.
LEMMA HandedKept ==
    ASSUME strategy \in Inputs, NEW ts, NEW h, NEW x \in Nat, Handed(ts, h, x),
           NEW g, Len(g) \in Nat, Len(h) \in Nat, Len(h) <= Len(g),
           \A k \in 1 .. Len(ts) : ts[k] \in 1 .. Len(h) => g[ts[k]] = h[ts[k]],
           NEW y \in Nat, y = x \/ (y = x + 1 /\ y \notin Ends)
    PROVE  Handed(ts, g, y)
<1>1. ts \in Seq(Nat) /\ Len(ts) = Rank(x)
    BY DEF Handed
<1>2. Ends \cap (1 .. y) = Ends \cap (1 .. x) /\ Rank(y) = Rank(x)
    BY RankNext
<1>3. ASSUME NEW p \in Ends \cap (1 .. x)
      PROVE  ts[Rank(p)] \in 1 .. Len(g) /\ ClosedWith(g[ts[Rank(p)]], TraceAt(p))
  <2>1. Rank(p) \in 1 .. Len(ts)
      BY <1>1, RankRange
  <2>2. ts[Rank(p)] \in 1 .. Len(h) /\ ClosedWith(h[ts[Rank(p)]], TraceAt(p))
      BY DEF Handed
  <2>3. g[ts[Rank(p)]] = h[ts[Rank(p)]]
      BY <2>1, <2>2
  <2>4. ts[Rank(p)] \in 1 .. Len(g)
      BY <2>2
  <2> QED BY <2>2, <2>3, <2>4
<1> QED BY <1>1, <1>2, <1>3 DEF Handed

\* One trace more is handed out at an end.
LEMMA HandedNext ==
    ASSUME strategy \in Inputs, NEW ts, NEW h, NEW x \in Nat, Handed(ts, h, x),
           x + 1 \in Ends, Len(h) \in Nat,
           NEW t \in 1 .. Len(h), ClosedWith(h[t], TraceAt(x + 1))
    PROVE  Handed(Append(ts, t), h, x + 1) /\ Append(ts, t)[Rank(x + 1)] = t
<1>1. ts \in Seq(Nat) /\ Len(ts) = Rank(x) /\ Rank(x) \in Nat /\ t \in Nat
    BY EndsTyped DEF Handed
<1>2. /\ Ends \cap (1 .. (x + 1)) = (Ends \cap (1 .. x)) \cup {x + 1}
      /\ Rank(x + 1) = Rank(x) + 1
    BY RankNext
<1> DEFINE us == Append(ts, t)
<1>3. /\ us \in Seq(Nat) /\ Len(us) = Rank(x) + 1 /\ us[Rank(x) + 1] = t
      /\ \A k \in 1 .. Rank(x) : us[k] = ts[k]
    BY <1>1, AppendProperties
<1> HIDE DEF us
<1>4. ASSUME NEW p \in Ends \cap (1 .. x)
      PROVE  us[Rank(p)] \in 1 .. Len(h) /\ ClosedWith(h[us[Rank(p)]], TraceAt(p))
  <2>1. Rank(p) \in 1 .. Rank(x)
      BY RankRange
  <2>2. us[Rank(p)] = ts[Rank(p)]
      BY <1>3, <2>1
  <2> QED BY <2>2 DEF Handed
<1>5. us[Rank(x + 1)] \in 1 .. Len(h) /\ ClosedWith(h[us[Rank(x + 1)]], TraceAt(x + 1))
    BY <1>2, <1>3
<1> QED BY <1>2, <1>3, <1>4, <1>5 DEF Handed, us

\* What is said of the input is said of it in every state.
LEMMA InputFixed ==
    ASSUME UNCHANGED strategy
    PROVE  /\ \A p : IdAt(p)' = IdAt(p) /\ SymbolAt(p)' = SymbolAt(p)
           /\ \A p : Kept(p)' <=> Kept(p)
           /\ \A i, p : Own(i, p)' = Own(i, p)
           /\ \A p : Block(p)' = Block(p)
           /\ \A S : SymbolsAt(S)' = SymbolsAt(S)
           /\ Ends' = Ends
           /\ \A p : TraceAt(p)' = TraceAt(p) /\ Rank(p)' = Rank(p)
           /\ \A tails, S : Holds(tails, S)' <=> Holds(tails, S)
           /\ \A tr, S : OpenWith(tr, S)' <=> OpenWith(tr, S)
           /\ \A ts, h, x : Handed(ts, h, x)' <=> Handed(ts, h, x)
<1>1. \A p : IdAt(p)' = IdAt(p) /\ SymbolAt(p)' = SymbolAt(p)
    BY DEF IdAt, SymbolAt
<1>2. \A p : (Kept(p)' <=> Kept(p)) /\ (Counts(p)' <=> Counts(p))
    BY <1>1 DEF Kept, Counts
<1>3. \A i, p : Own(i, p)' = Own(i, p)
    BY <1>1 DEF Own
<1>4. \A p : Block(p)' = Block(p)
    BY <1>1 DEF Block
<1>5. \A S : SymbolsAt(S)' = SymbolsAt(S)
  <2> SUFFICES ASSUME NEW S PROVE SymbolsAt(S)' = SymbolsAt(S)
      OBVIOUS
  <2> DEFINE own == {p \in S : Counts(p)}
  <2>1. own' = own
      BY <1>2
  <2> HIDE DEF own
  <2>2. Ascending(own)' = Ascending(own)
      BY <2>1
  <2> DEFINE places == Ascending(own)
             symbols == [k \in 1 .. Len(places) |-> SymbolAt(places[k])]
  <2>3. SymbolsAt(S) = symbols
      BY DEF SymbolsAt, own
  <2>4. SymbolsAt(S)' = symbols'
      BY DEF SymbolsAt, own
  <2>5. symbols' = symbols
    <3>1. places' = places
        BY <2>2
    <3> HIDE DEF places
    <3> QED BY <1>1, <3>1
  <2> HIDE DEF symbols
  <2> QED BY <2>3, <2>4, <2>5
<1>6. Ends' = Ends
    BY <1>1, <1>3, <1>5 DEF Ends
<1>7. \A p : TraceAt(p)' = TraceAt(p)
    BY <1>1, <1>3, <1>4, <1>5 DEF TraceAt
<1>8. \A p : Rank(p)' = Rank(p)
    BY <1>6 DEF Rank
<1>9. \A tails, S : Holds(tails, S)' <=> Holds(tails, S)
    BY <1>1, <1>5 DEF Holds
<1>10. \A tr, S : OpenWith(tr, S)' <=> OpenWith(tr, S)
    BY <1>5, <1>9 DEF OpenWith
<1>11. \A ts, h, x : Handed(ts, h, x)' <=> Handed(ts, h, x)
    BY <1>6, <1>7, <1>8 DEF Handed
<1> QED BY <1>1, <1>2, <1>3, <1>4, <1>5, <1>6, <1>7, <1>8, <1>9, <1>10, <1>11

-----------------------------------------------------------------------------
(* One symbol more on the traces.                                          *)

\* The map has a trace for each id of the first x symbols, another one for each.
MapIs(mp, x) ==
    /\ \A q \in 1 .. x : Kept(q) => mp[IdAt(q)] # 0
    /\ \A i \in Id : mp[i] # 0 => \E q \in 1 .. x : Kept(q) /\ IdAt(q) = i
    /\ \A i, j \in Id : mp[i] = mp[j] /\ mp[i] # 0 => i = j

\* The positions of an id among the first ones.
LEMMA OwnIs ==
    ASSUME strategy \in Inputs, NEW x \in Nat, x + 1 \in Positions
    PROVE  /\ \A i : /\ Own(i, x) \in SUBSET Positions
                     /\ \A q \in Own(i, x) : q \in 1 .. x /\ q < x + 1 /\ IdAt(q) = i
           /\ Own(IdAt(x + 1), x + 1) = Own(IdAt(x + 1), x) \cup {x + 1}
           /\ \A i : i # IdAt(x + 1) => Own(i, x + 1) = Own(i, x)
<1>1. 1 .. (x + 1) = (1 .. x) \cup {x + 1} /\ x + 1 \notin 1 .. x
    OBVIOUS
<1>2. (1 .. x) \subseteq Positions
    BY InputTypes DEF Positions
<1>3. \A i : /\ Own(i, x) \in SUBSET Positions
             /\ \A q \in Own(i, x) : q \in 1 .. x /\ q < x + 1 /\ IdAt(q) = i
    BY <1>2 DEF Own
<1>4. Own(IdAt(x + 1), x + 1) = Own(IdAt(x + 1), x) \cup {x + 1}
    BY <1>1 DEF Own
<1>5. \A i : i # IdAt(x + 1) => Own(i, x + 1) = Own(i, x)
    BY <1>1 DEF Own
<1> QED BY <1>3, <1>4, <1>5

\* process_symbol_info of the symbol at p.
LEMMA ProcessedAt ==
    ASSUME strategy \in Inputs, NEW p \in Positions,
           NEW h \in Seq(Trace), NEW mp \in [Id -> 0 .. Len(h)],
           NEW s, s = Processed([heap |-> h, map |-> mp], strategy.symbols[p])
    PROVE  /\ IdAt(p) \in Id
           /\ Grown(s, h, mp, IdAt(p), TailAt(p), IF SymbolAt(p) = Empty THEN 0 ELSE 1)
<1>1. strategy.symbols[p] = [id |-> IdAt(p), symb |-> SymbolAt(p)] /\ IdAt(p) \in Id
    BY InputTypes
<1>2. strategy.symbols[p] \in InputSymbol
  <2>1. strategy.symbols \in Seq(InputSymbol)
      BY InputsAssumption
  <2> QED BY <2>1 DEF Positions
<1>3. PICK c \in InputSymbol : c = strategy.symbols[p]
    BY <1>2
<1>4. c.id = IdAt(p) /\ c.symb = SymbolAt(p)
    BY <1>3 DEF IdAt, SymbolAt
<1>5. TailAt(p) = IF c.symb = Empty THEN Final ELSE c.symb
    BY <1>4 DEF TailAt
<1>6. s = Processed([heap |-> h, map |-> mp], c)
    BY <1>3
<1>7. Grown(s, h, mp, c.id, TailAt(p), IF c.symb = Empty THEN 0 ELSE 1)
    BY ONLY <1>5, <1>6, h \in Seq(Trace), mp \in [Id -> 0 .. Len(h)], ProcessedIs
<1> QED BY <1>1, <1>4, <1>7

\* The trace of the symbol is open with one symbol more.
LEMMA OpenNext ==
    ASSUME strategy \in Inputs, NEW p \in Positions, Kept(p),
           NEW h \in Seq(Trace), NEW mp \in [Id -> 0 .. Len(h)],
           NEW s, s = Processed([heap |-> h, map |-> mp], strategy.symbols[p]),
           NEW S \in SUBSET Positions, \A q \in S : q < p /\ IdAt(q) = IdAt(p),
           IF mp[IdAt(p)] = 0 THEN S = {} ELSE OpenWith(h[mp[IdAt(p)]], S)
    PROVE  OpenWith(s.heap[s.map[IdAt(p)]], S \cup {p})
<1> DEFINE t == s.map[IdAt(p)]
<1>0. Grown(s, h, mp, IdAt(p), TailAt(p), IF SymbolAt(p) = Empty THEN 0 ELSE 1)
    BY ProcessedAt
<1>1. CASE mp[IdAt(p)] = 0
  <2>1. /\ s.heap[t].tails = <<TailAt(p)>> /\ s.heap[t].head = 1
        /\ s.heap[t].length = IF SymbolAt(p) = Empty THEN 0 ELSE 1
      BY <1>0, <1>1 DEF Grown
  <2>2. S \cup {p} = {p}
      BY <1>1
  <2>3. Holds(<<TailAt(p)>>, {p}) /\ Len(SymbolsAt({p})) = IF SymbolAt(p) = Empty THEN 0 ELSE 1
      BY HoldsFirst
  <2> HIDE DEF t
  <2>4. OpenWith(s.heap[t], {p})
      BY <2>1, <2>3 DEF OpenWith
  <2> QED BY <2>2, <2>4 DEF t
<1>2. CASE mp[IdAt(p)] # 0
  <2>1. /\ t = mp[IdAt(p)]
        /\ s.heap[t].tails = Append(h[t].tails, TailAt(p))
        /\ s.heap[t].head = h[t].head /\ s.heap[t].length = h[t].length + 1
      BY <1>0, <1>2 DEF Grown
  <2> HIDE DEF t
  <2>2. h[t].head = 1 /\ h[t].length = Len(SymbolsAt(S)) /\ Holds(h[t].tails, S)
      BY <1>2, <2>1 DEF OpenWith
  <2>3. /\ Len(SymbolsAt(S \cup {p})) = Len(SymbolsAt(S)) + 1
        /\ Holds(Append(h[t].tails, TailAt(p)), S \cup {p})
      BY <2>2, HoldsMore
  <2>4. OpenWith(s.heap[t], S \cup {p})
      BY <2>1, <2>2, <2>3 DEF OpenWith
  <2> QED BY <2>4 DEF t
<1> QED BY <1>1, <1>2

\* The map has a trace for the id of the symbol.
LEMMA MapNext ==
    ASSUME strategy \in Inputs, NEW x \in Nat, x + 1 \in Positions, Kept(x + 1),
           NEW h \in Seq(Trace), NEW mp \in [Id -> 0 .. Len(h)],
           NEW s, s = Processed([heap |-> h, map |-> mp], strategy.symbols[x + 1]),
           MapIs(mp, x)
    PROVE  MapIs(s.map, x + 1)
<1> DEFINE i == IdAt(x + 1)
           t == s.map[i]
<1>1. /\ i \in Id /\ Len(h) \in Nat /\ t \in Nat \ {0}
      /\ \A j \in Id : j # i => s.map[j] = mp[j]
      /\ mp[i] # 0 => t = mp[i]
      /\ mp[i] = 0 => t = Len(h) + 1
  <2>1. i \in Id /\ Grown(s, h, mp, i, TailAt(x + 1), IF SymbolAt(x + 1) = Empty THEN 0 ELSE 1)
      BY ProcessedAt
  <2> HIDE DEF i
  <2> QED BY <2>1 DEF Grown
<1>2. 1 .. (x + 1) = (1 .. x) \cup {x + 1}
    OBVIOUS
<1>3. \A q \in 1 .. (x + 1) : IdAt(q) \in Id
  <2>1. (1 .. (x + 1)) \subseteq Positions
      BY InputTypes DEF Positions
  <2> QED BY <2>1, InputTypes
<1>4. \A j \in Id : mp[j] \in Nat /\ mp[j] <= Len(h)
    BY <1>1
<1> HIDE DEF i
<1>5. \A q \in 1 .. (x + 1) : Kept(q) => s.map[IdAt(q)] # 0
  <2> SUFFICES ASSUME NEW q \in 1 .. (x + 1), Kept(q) PROVE s.map[IdAt(q)] # 0
      OBVIOUS
  <2>1. CASE IdAt(q) = i
      BY <1>1, <2>1
  <2>2. CASE IdAt(q) # i
    <3>1. q \in 1 .. x
        BY <1>2, <2>2 DEF i
    <3>2. mp[IdAt(q)] # 0
        BY <3>1 DEF MapIs
    <3> QED BY <1>1, <1>3, <2>2, <3>2
  <2> QED BY <2>1, <2>2
<1>6. \A j \in Id : s.map[j] # 0 => \E q \in 1 .. (x + 1) : Kept(q) /\ IdAt(q) = j
  <2> SUFFICES ASSUME NEW j \in Id, s.map[j] # 0
               PROVE  \E q \in 1 .. (x + 1) : Kept(q) /\ IdAt(q) = j
      OBVIOUS
  <2>1. CASE j = i
      BY <1>2, <2>1 DEF i
  <2>2. CASE j # i
    <3>1. mp[j] # 0
        BY <1>1, <2>2
    <3>2. PICK q \in 1 .. x : Kept(q) /\ IdAt(q) = j
        BY <3>1 DEF MapIs
    <3> QED BY <1>2, <3>2
  <2> QED BY <2>1, <2>2
<1>7. \A j, k \in Id : s.map[j] = s.map[k] /\ s.map[j] # 0 => j = k
  <2>1. ASSUME NEW j \in Id, NEW k \in Id, j # i, k # i, s.map[j] = s.map[k], s.map[j] # 0
        PROVE  j = k
      BY <1>1, <2>1 DEF MapIs
  <2>2. ASSUME NEW j \in Id, j # i, s.map[j] = t
        PROVE  FALSE
    <3>1. mp[j] = t
        BY <1>1, <2>2
    <3>2. t # Len(h) + 1
        BY <1>1, <1>4, <3>1
    <3>3. mp[i] # 0 /\ mp[i] = mp[j]
        BY <1>1, <3>1, <3>2
    <3> QED BY <1>1, <2>2, <3>3 DEF MapIs
  <2> QED BY <2>1, <2>2
<1> QED BY <1>5, <1>6, <1>7 DEF MapIs

-----------------------------------------------------------------------------
(* Sorting by sequence number.                                             *)

\* A set whose elements are the values of an injective sequence has as many.
LEMMA SetOfSequence ==
    ASSUME NEW s \in Seq(Nat), \A j, k \in 1 .. Len(s) : s[j] = s[k] => j = k,
           NEW n \in 0 .. Len(s), NEW T, T = {s[k] : k \in 1 .. n}
    PROVE  IsFiniteSet(T) /\ Cardinality(T) = n
<1> DEFINE f == [k \in 1 .. n |-> s[k]]
<1>1. n \in Nat /\ (1 .. n) \subseteq 1 .. Len(s)
    OBVIOUS
<1>2. f \in [1 .. n -> T]
    OBVIOUS
<1>3. f \in Injection(1 .. n, T)
  <2>1. \A j, k \in 1 .. n : f[j] = f[k] => j = k
      BY <1>1
  <2>2. DOMAIN f = 1 .. n
      OBVIOUS
  <2> HIDE DEF f
  <2> QED BY <1>2, <2>1, <2>2 DEF Injection, IsInjective
<1>4. f \in Surjection(1 .. n, T)
  <2>1. \A t \in T : \E k \in 1 .. n : f[k] = t
      OBVIOUS
  <2> HIDE DEF f
  <2> QED BY <1>2, <2>1 DEF Surjection
<1> HIDE DEF f
<1>5. ExistsBijection(1 .. n, T)
    BY <1>3, <1>4 DEF ExistsBijection, Bijection
<1>6. IsFiniteSet(1 .. n) /\ Cardinality(1 .. n) = n
  <2>1. 1 \in Int /\ n \in Int
      BY <1>1
  <2>2. IsFiniteSet(1 .. n) /\ Cardinality(1 .. n) = IF 1 > n THEN 0 ELSE n - 1 + 1
      BY <2>1, FS_Interval
  <2> QED BY <1>1, <2>2
<1> QED BY <1>5, <1>6, FS_Bijection

\* Traces whose sequence numbers are 0, 1 and so on are what sorting makes of them.
LEMMA SortedIs ==
    ASSUME NEW s \in Seq(Nat), \A k \in 1 .. Len(s) : heap[s[k]].sequence = k - 1,
           NEW ts, ToSet(ts) = ToSet(s)
    PROVE  Sorted(ts) = s
<1> DEFINE S == ToSet(s)
<1>1. PICK key : key = [t \in S |-> heap[t].sequence]
    OBVIOUS
<1>2. Len(s) \in Nat /\ DOMAIN s = 1 .. Len(s) /\ \A k \in 1 .. Len(s) : s[k] \in Nat
    OBVIOUS
<1>3. S = {s[k] : k \in 1 .. Len(s)}
    BY <1>2 DEF ToSet
<1>4. \A k \in 1 .. Len(s) : s[k] \in S /\ key[s[k]] = k - 1
  <2>1. \A k \in 1 .. Len(s) : s[k] \in S
      BY <1>3
  <2> HIDE DEF S
  <2> QED BY <1>1, <2>1
<1>5. \A t \in S : \E k \in 1 .. Len(s) : t = s[k]
    BY <1>3
<1>6. \A j, k \in 1 .. Len(s) : s[j] = s[k] => j = k
  <2> SUFFICES ASSUME NEW j \in 1 .. Len(s), NEW k \in 1 .. Len(s), s[j] = s[k] PROVE j = k
      OBVIOUS
  <2>1. j - 1 = k - 1
      BY <1>4
  <2> QED BY <1>2, <2>1
<1> HIDE DEF S
<1>7. IsFiniteSet(S) /\ Cardinality(S) = Len(s)
  <2>1. Len(s) \in 0 .. Len(s)
      BY <1>2
  <2> QED BY <1>3, <1>6, <2>1, SetOfSequence
<1>8. \A t \in S : key[t] \in Int
    BY <1>2, <1>4, <1>5
<1>9. \A t, u \in S : key[t] = key[u] => t = u
  <2> SUFFICES ASSUME NEW t \in S, NEW u \in S, key[t] = key[u] PROVE t = u
      OBVIOUS
  <2>1. PICK j \in 1 .. Len(s) : t = s[j]
      BY <1>5
  <2>2. PICK k \in 1 .. Len(s) : u = s[k]
      BY <1>5
  <2>3. j - 1 = k - 1
      BY <1>4, <2>1, <2>2
  <2> QED BY <1>2, <2>1, <2>2, <2>3
<1>10. \A t \in S : {u \in S : heap[u].sequence < heap[t].sequence} = Below(S, key, t)
    BY <1>1 DEF Below
<1>11. \A k : (CHOOSE t \in S :
                 Cardinality({u \in S : heap[u].sequence < heap[t].sequence}) = k - 1)
            = CHOOSE t \in S : Cardinality(Below(S, key, t)) = k - 1
    BY ONLY <1>10, Zenon
<1>12. Sorted(ts) = ByKey(S, key)
  <2>1. Sorted(ts) =
           [k \in 1 .. Cardinality(S) |->
              CHOOSE t \in S :
                 Cardinality({u \in S : heap[u].sequence < heap[t].sequence}) = k - 1]
      BY DEF Sorted, SortedSeq, S
  <2> QED BY ONLY <1>11, <2>1, Zenon DEF ByKey
<1>13. HasRanks(S, key, Sorted(ts))
    BY <1>7, <1>8, <1>9, <1>12, SortedByKey
<1>14. \A k \in 1 .. Len(s) : Cardinality(Below(S, key, s[k])) = k - 1
  <2> SUFFICES ASSUME NEW k \in 1 .. Len(s)
               PROVE  Cardinality(Below(S, key, s[k])) = k - 1
      OBVIOUS
  <2> DEFINE T == {s[j] : j \in 1 .. (k - 1)}
  <2>1. k - 1 \in 0 .. Len(s) /\ (1 .. (k - 1)) \subseteq 1 .. Len(s)
      BY <1>2
  <2>2. ASSUME NEW t PROVE t \in Below(S, key, s[k]) <=> t \in T
    <3>1. ASSUME t \in Below(S, key, s[k]) PROVE t \in T
      <4>1. t \in S /\ key[t] < k - 1
          BY <1>4, <3>1 DEF Below
      <4>2. PICK j \in 1 .. Len(s) : t = s[j]
          BY <1>5, <4>1
      <4>3. j - 1 < k - 1
          BY <1>4, <4>1, <4>2
      <4>4. j \in 1 .. (k - 1)
          BY <1>2, <4>3
      <4> QED BY <4>2, <4>4
    <3>2. ASSUME t \in T PROVE t \in Below(S, key, s[k])
      <4>1. PICK j \in 1 .. (k - 1) : t = s[j]
          BY <3>2
      <4>2. j \in 1 .. Len(s) /\ j - 1 < k - 1
          BY <1>2, <2>1
      <4>3. t \in S /\ key[t] = j - 1 /\ key[s[k]] = k - 1
          BY <1>4, <4>1, <4>2
      <4> QED BY <4>2, <4>3 DEF Below
    <3> QED BY <3>1, <3>2
  <2> HIDE DEF T
  <2>3. Below(S, key, s[k]) = T
      BY <2>2
  <2>4. T = {s[j] : j \in 1 .. (k - 1)}
      BY DEF T
  <2>5. Cardinality(T) = k - 1
      BY ONLY s \in Seq(Nat), <1>6, <2>1, <2>4, SetOfSequence
  <2> QED BY <2>3, <2>5
<1> DEFINE r == Sorted(ts)
<1>15. /\ r \in Seq(S) /\ Len(r) = Len(s)
       /\ \A k \in 1 .. Len(s) : r[k] \in S /\ Cardinality(Below(S, key, r[k])) = k - 1
       /\ \A t, u \in S :
             Cardinality(Below(S, key, t)) = Cardinality(Below(S, key, u)) => t = u
  <2> HIDE DEF r
  <2>1. HasRanks(S, key, r)
      BY <1>13 DEF r
  <2> QED BY ONLY <1>7, <2>1 DEF HasRanks
<1> HIDE DEF r
<1>16. \A k \in 1 .. Len(s) : r[k] = s[k]
    BY <1>4, <1>14, <1>15
<1>17. s \in Seq(S)
    BY <1>2, <1>4
<1>18. r = s
    BY <1>15, <1>16, <1>17, SeqEqual
<1> QED BY <1>18 DEF r

-----------------------------------------------------------------------------
(* read_all.                                                               *)

\* The traces are in the order of their first symbols; those in S are closed.
FirstsIn(mp, h, x, S) ==
    /\ Len(h) = Rank(x)
    /\ \A p \in Ends \cap (1 .. x) :
          /\ mp[IdAt(p)] = Rank(p) /\ h[Rank(p)].sequence = Rank(p) - 1
          /\ IF Rank(p) \in S THEN ClosedWith(h[Rank(p)], TraceAt(p))
                              ELSE OpenWith(h[Rank(p)], Own(IdAt(p), x))

\* The first symbols of the ids are the ends.
LEMMA FirstEnds ==
    ASSUME strategy \in Inputs, strategy.kind = "read_all"
    PROVE  /\ \A p \in Positions : p \in Ends <=> \A q \in 1 .. p - 1 : IdAt(q) # IdAt(p)
           /\ \A p : TraceAt(p) = SymbolsAt(Own(IdAt(p), Len(strategy.symbols)))
           /\ \A p : Kept(p)
<1>1. \A p \in Positions : p \in Ends <=> \A q \in 1 .. p - 1 : IdAt(q) # IdAt(p)
    BY DEF Ends, Positions
<1>2. \A p : TraceAt(p) = SymbolsAt(Own(IdAt(p), Len(strategy.symbols)))
    BY DEF TraceAt
<1>3. \A p : Kept(p)
    BY DEF Kept
<1> QED BY <1>1, <1>2, <1>3

\* One symbol more is read.
LEMMA FirstsNext ==
    ASSUME strategy \in Inputs, strategy.kind = "read_all",
           NEW x \in Nat, x + 1 \in Positions,
           NEW h \in Seq(Trace), NEW mp \in [Id -> 0 .. Len(h)],
           NEW s, s = Processed([heap |-> h, map |-> mp], strategy.symbols[x + 1]),
           FirstsIn(mp, h, x, {}), MapIs(mp, x)
    PROVE  FirstsIn(s.map, s.heap, x + 1, {})
<1> DEFINE i == IdAt(x + 1)
           t == s.map[i]
<1>1. /\ i \in Id
      /\ Grown(s, h, mp, i, TailAt(x + 1), IF SymbolAt(x + 1) = Empty THEN 0 ELSE 1)
    BY ProcessedAt
<1>2. /\ Own(i, x) \in SUBSET Positions /\ \A q \in Own(i, x) : q < x + 1 /\ IdAt(q) = i
      /\ Own(i, x + 1) = Own(i, x) \cup {x + 1}
      /\ \A j : j # i => Own(j, x + 1) = Own(j, x)
    BY OwnIs
<1>3. /\ x + 1 \in Ends <=> \A q \in 1 .. x : IdAt(q) # i
      /\ \A p : Kept(p)
  <2>1. (x + 1) - 1 = x
      OBVIOUS
  <2> QED BY <2>1, FirstEnds
<1>4. /\ Len(h) = Rank(x)
      /\ \A p \in Ends \cap (1 .. x) :
            /\ mp[IdAt(p)] = Rank(p) /\ h[Rank(p)].sequence = Rank(p) - 1
            /\ OpenWith(h[Rank(p)], Own(IdAt(p), x))
    BY DEF FirstsIn
<1>5. /\ \A p \in Ends \cap (1 .. x) : Rank(p) \in 1 .. Len(h) /\ IdAt(p) \in Id
      /\ Len(h) \in Nat
  <2>1. \A p \in Ends \cap (1 .. x) : Rank(p) \in 1 .. Rank(x)
      BY RankRange
  <2>2. \A p \in Ends : IdAt(p) \in Id
      BY EndsTyped, InputTypes
  <2> QED BY <1>4, <2>1, <2>2
<1> HIDE DEF i
<1>6. CASE mp[i] = 0
  <2>1. \A q \in 1 .. x : IdAt(q) # i
      BY <1>3, <1>6 DEF MapIs
  <2>2. /\ Ends \cap (1 .. (x + 1)) = (Ends \cap (1 .. x)) \cup {x + 1}
        /\ Rank(x + 1) = Rank(x) + 1
      BY <1>3, <2>1, RankNext
  <2>3. /\ t = Len(h) + 1 /\ Len(s.heap) = Len(h) + 1 /\ s.heap[t].sequence = Len(h)
        /\ \A j \in Id : j # i => s.map[j] = mp[j]
        /\ \A u \in 1 .. Len(h) : u # t => s.heap[u] = h[u]
      BY <1>1, <1>6 DEF Grown
  <2> HIDE DEF t
  <2>4. OpenWith(s.heap[t], Own(i, x + 1))
    <3>1. Own(i, x) = {}
        BY <2>1 DEF Own
    <3>2. IF mp[i] = 0 THEN Own(i, x) = {} ELSE OpenWith(h[mp[i]], Own(i, x))
        BY <1>6, <3>1
    <3>3. PICK S \in SUBSET Positions : S = Own(i, x)
        BY <1>2
    <3>4. OpenWith(s.heap[s.map[i]], S \cup {x + 1})
      <4>1. \A q \in S : q < x + 1 /\ IdAt(q) = IdAt(x + 1)
          BY <1>2, <3>3 DEF i
      <4>2. IF mp[IdAt(x + 1)] = 0 THEN S = {} ELSE OpenWith(h[mp[IdAt(x + 1)]], S)
          BY <3>2, <3>3 DEF i
      <4>3. Kept(x + 1)
          BY <1>3
      <4> HIDE DEF Trace
      <4>4. OpenWith(s.heap[s.map[IdAt(x + 1)]], S \cup {x + 1})
          BY <4>1, <4>2, <4>3, OpenNext
      <4> QED BY <4>4 DEF i
    <3> QED BY <1>2, <3>3, <3>4 DEF t
  <2>5. ASSUME NEW p \in Ends \cap (1 .. (x + 1))
        PROVE  /\ s.map[IdAt(p)] = Rank(p) /\ s.heap[Rank(p)].sequence = Rank(p) - 1
               /\ OpenWith(s.heap[Rank(p)], Own(IdAt(p), x + 1))
    <3>1. CASE p = x + 1
      <4>1. IdAt(p) = i /\ Rank(p) = t /\ s.map[i] = t /\ Rank(p) = Len(h) + 1
          BY <1>4, <2>2, <2>3, <3>1 DEF i, t
      <4>2. s.heap[Rank(p)].sequence = Rank(p) - 1
          BY <1>5, <2>3, <4>1
      <4> QED BY <2>4, <4>1, <4>2
    <3>2. CASE p # x + 1
      <4>1. p \in Ends \cap (1 .. x)
          BY <2>2, <3>2
      <4>2. IdAt(p) # i /\ IdAt(p) \in Id
          BY <1>5, <2>1, <4>1
      <4>3. Rank(p) \in 1 .. Len(h) /\ Rank(p) # t
          BY <1>5, <2>3, <4>1
      <4>4. s.map[IdAt(p)] = mp[IdAt(p)] /\ s.heap[Rank(p)] = h[Rank(p)]
          BY <2>3, <4>2, <4>3
      <4>5. Own(IdAt(p), x + 1) = Own(IdAt(p), x)
          BY <1>2, <4>2
      <4> QED BY <1>4, <4>1, <4>4, <4>5
    <3> QED BY <3>1, <3>2
  <2>6. Len(s.heap) = Rank(x + 1)
      BY <1>4, <2>2, <2>3
  <2> QED BY <2>5, <2>6 DEF FirstsIn
<1>7. CASE mp[i] # 0
  <2>1. PICK q \in 1 .. x : IdAt(q) = i
      BY <1>1, <1>7 DEF MapIs
  <2>2. Ends \cap (1 .. (x + 1)) = Ends \cap (1 .. x) /\ Rank(x + 1) = Rank(x)
      BY <1>3, <2>1, RankNext
  <2>3. /\ t = mp[i] /\ s.map = mp /\ Len(s.heap) = Len(h)
        /\ s.heap[t].sequence = h[t].sequence
        /\ \A u \in 1 .. Len(h) : u # t => s.heap[u] = h[u]
      BY <1>1, <1>7 DEF Grown
  <2> HIDE DEF t
  <2>5. ASSUME NEW p \in Ends \cap (1 .. x)
        PROVE  /\ s.map[IdAt(p)] = Rank(p) /\ s.heap[Rank(p)].sequence = Rank(p) - 1
               /\ OpenWith(s.heap[Rank(p)], Own(IdAt(p), x + 1))
    <3>1. CASE IdAt(p) = i
      <4>1. Rank(p) = t /\ mp[i] = t /\ h[t].sequence = t - 1 /\ OpenWith(h[t], Own(i, x))
          BY <1>4, <2>3, <3>1
      <4>2. IF mp[i] = 0 THEN Own(i, x) = {} ELSE OpenWith(h[mp[i]], Own(i, x))
          BY <1>7, <4>1
      <4>3. OpenWith(s.heap[s.map[i]], Own(i, x) \cup {x + 1})
          BY <1>2, <1>3, <4>2, OpenNext DEF i
      <4> QED BY <1>2, <2>3, <3>1, <4>1, <4>3 DEF t
    <3>2. CASE IdAt(p) # i
      <4>1. Rank(p) \in 1 .. Len(h) /\ mp[IdAt(p)] = Rank(p) /\ IdAt(p) \in Id
          BY <1>4, <1>5
      <4>2. Rank(p) # t
          BY <1>1, <1>7, <2>3, <3>2, <4>1 DEF MapIs
      <4>3. s.map[IdAt(p)] = mp[IdAt(p)] /\ s.heap[Rank(p)] = h[Rank(p)]
          BY <2>3, <4>1, <4>2
      <4>4. Own(IdAt(p), x + 1) = Own(IdAt(p), x)
          BY <1>2, <3>2
      <4> QED BY <1>4, <4>3, <4>4
    <3> QED BY <3>1, <3>2
  <2> QED BY <1>4, <2>2, <2>3, <2>5 DEF FirstsIn
<1> QED BY <1>6, <1>7

\* Every place has its trace.
LEMMA RankOnto ==
    ASSUME strategy \in Inputs, NEW x \in Nat, NEW k \in 1 .. Rank(x)
    PROVE  \E p \in Ends \cap (1 .. x) : Rank(p) = k
<1> DEFINE S == Ends \cap (1 .. x)
           p == Ascending(S)[k]
<1>1. S \in SUBSET (Nat \ {0}) /\ IsFiniteSet(S) /\ Cardinality(S) = Rank(x)
    BY EndsTyped DEF Rank
<1> HIDE DEF S
<1>2. p \in S /\ Cardinality(S \cap (1 .. p)) = k
    BY <1>1, AscendingPlace
<1> HIDE DEF p
<1>3. p \in Ends /\ p \in 1 .. x
    BY <1>2 DEF S
<1>4. S \cap (1 .. p) = Ends \cap (1 .. p)
  <2>1. (1 .. p) \subseteq (1 .. x)
      BY <1>3
  <2> QED BY <2>1 DEF S
<1>5. Rank(p) = k
    BY <1>2, <1>4 DEF Rank
<1> QED BY <1>3, <1>5

\* All traces are in the map.
LEMMA MapOnto ==
    ASSUME strategy \in Inputs, NEW x \in Nat, x <= Len(strategy.symbols),
           NEW h \in Seq(Trace), NEW mp \in [Id -> 0 .. Len(h)], NEW S, FirstsIn(mp, h, x, S)
    PROVE  {mp[i] : i \in {j \in Id : mp[j] # 0}} = 1 .. Len(h)
<1>1. Len(h) = Rank(x) /\ \A p \in Ends \cap (1 .. x) : mp[IdAt(p)] = Rank(p)
    BY DEF FirstsIn
<1>2. Len(h) \in Nat
    OBVIOUS
<1>3. ASSUME NEW k \in 1 .. Len(h)
      PROVE  \E i \in Id : mp[i] # 0 /\ mp[i] = k
  <2>1. PICK p \in Ends \cap (1 .. x) : Rank(p) = k
      BY <1>1, RankOnto
  <2>2. IdAt(p) \in Id
      BY EndsTyped, InputTypes
  <2>3. mp[IdAt(p)] = k /\ k # 0
      BY <1>1, <1>2, <2>1
  <2> QED BY <2>2, <2>3
<1>4. \A i \in Id : mp[i] # 0 => mp[i] \in 1 .. Len(h)
    BY <1>2
<1> QED BY ONLY <1>3, <1>4

\* What is said of the maps is said of them in every state.
LEMMA MapFixed ==
    ASSUME UNCHANGED strategy
    PROVE  /\ \A mp, x : MapIs(mp, x)' <=> MapIs(mp, x)
           /\ \A mp, h, x, S : FirstsIn(mp, h, x, S)' <=> FirstsIn(mp, h, x, S)
<1>1. \A mp, x : MapIs(mp, x)' <=> MapIs(mp, x)
    BY InputFixed DEF MapIs
<1>2. \A mp, h, x, S : FirstsIn(mp, h, x, S)' <=> FirstsIn(mp, h, x, S)
    BY InputFixed DEF FirstsIn
<1> QED BY <1>1, <1>2

\* The next symbol is the one behind those read.
LEMMA NextSymbol ==
    ASSUME ReaderInv, input # <<>>, input' = Tail(input), UNCHANGED strategy
    PROVE  /\ strategy \in Inputs /\ Consumed \in Nat /\ Consumed + 1 \in Positions
           /\ Consumed' = Consumed + 1
           /\ heap \in Seq(Trace) /\ trace_map \in [Id -> 0 .. Len(heap)] /\ Len(heap) \in Nat
           /\ Head(input) = strategy.symbols[Consumed + 1]
           /\ Head(input).id = IdAt(Consumed + 1) /\ Head(input).symb = SymbolAt(Consumed + 1)
           /\ IdAt(Consumed + 1) \in Id
           /\ Processed(Reading, Head(input))
                 = Processed([heap |-> heap, map |-> trace_map], strategy.symbols[Consumed + 1])
<1>1. /\ Consumed' = Consumed + 1 /\ Consumed \in Nat /\ Consumed + 1 <= Len(strategy.symbols)
      /\ Head(input) = strategy.symbols[Consumed + 1]
    BY ReadOne DEF ReaderInv
<1>2. /\ strategy \in Inputs /\ heap \in Seq(Trace) /\ trace_map \in [Id -> 0 .. Len(heap)]
      /\ Len(heap) \in Nat
    BY DEF ReaderInv, ReaderTypes
<1>3. Len(strategy.symbols) \in Nat
    BY <1>2, InputTypes
<1>4. Consumed + 1 \in Positions
    BY <1>1, <1>3 DEF Positions
<1>5. IdAt(Consumed + 1) \in Id
    BY <1>2, <1>4, InputTypes
<1> QED BY <1>1, <1>2, <1>4, <1>5 DEF IdAt, SymbolAt, Reading

\* What has been read is part of the input.
LEMMA ReadSoFar ==
    ASSUME ReaderInv
    PROVE  /\ strategy \in Inputs /\ Consumed \in 0 .. Len(strategy.symbols) /\ Consumed \in Nat
           /\ heap \in Seq(Trace) /\ trace_map \in [Id -> 0 .. Len(heap)] /\ Len(heap) \in Nat
           /\ input = <<>> => Consumed = Len(strategy.symbols)
           /\ UNCHANGED <<strategy, input>> => Consumed' = Consumed
<1>1. /\ strategy \in Inputs /\ heap \in Seq(Trace) /\ trace_map \in [Id -> 0 .. Len(heap)]
      /\ Len(heap) \in Nat
    BY DEF ReaderInv, ReaderTypes
<1>2. Len(strategy.symbols) \in Nat
    BY <1>1, InputTypes
<1>3. input \in Seq(InputSymbol) /\ Len(input) <= Len(strategy.symbols)
    BY DEF ReaderInv, InputIsRest
<1>4. Consumed \in 0 .. Len(strategy.symbols) /\ Consumed \in Nat
    BY <1>2, <1>3 DEF Consumed
<1>5. input = <<>> => Consumed = Len(strategy.symbols)
    BY <1>2 DEF Consumed
<1> QED BY <1>1, <1>4, <1>5 DEF Consumed

\* The traces still listed and those handed out are all there are.
Listed ==
    /\ list \in Seq(Nat) /\ traces \in Seq(Nat)
    /\ \A j, k \in 1 .. Len(list) : list[j] = list[k] => j = k
    /\ ToSet(list) \cap ToSet(traces) = {}
    /\ ToSet(list) \cup ToSet(traces) = 1 .. Len(heap)

ReadAllExact ==
    strategy.kind = "read_all" =>
       /\ status \in {"reading", "listed", "done"}
       /\ status = "reading" =>
             /\ traces = <<>>
             /\ FirstsIn(trace_map, heap, Consumed, {}) /\ MapIs(trace_map, Consumed)
       /\ status = "listed" =>
             /\ input = <<>> /\ Listed
             /\ FirstsIn(trace_map, heap, Consumed, ToSet(traces))
       /\ status = "done" => input = <<>> /\ Handed(traces, heap, Consumed)

\* A symbol read.
LEMMA ReadAllConsumes ==
    ASSUME ReaderInv, ReadAllExact, ConsumeSymbol
    PROVE  ReadAllExact'
<1> DEFINE s == Processed(Reading, Head(input))
           x == Consumed
<1>1. /\ strategy.kind = "read_all" /\ status = "reading" /\ input # <<>>
      /\ input' = Tail(input) /\ heap' = s.heap /\ trace_map' = s.map
      /\ UNCHANGED <<strategy, traces, status>>
    BY DEF ConsumeSymbol, Using
<1>2. /\ strategy \in Inputs /\ x \in Nat /\ x + 1 \in Positions
      /\ Consumed' = x + 1
      /\ heap \in Seq(Trace) /\ trace_map \in [Id -> 0 .. Len(heap)]
      /\ s = Processed([heap |-> heap, map |-> trace_map], strategy.symbols[x + 1])
    BY <1>1, NextSymbol
<1>3. traces = <<>> /\ FirstsIn(trace_map, heap, x, {}) /\ MapIs(trace_map, x)
    BY <1>1 DEF ReadAllExact
<1> HIDE DEF s, x
<1>4. FirstsIn(s.map, s.heap, x + 1, {})
    BY <1>1, <1>2, <1>3, FirstsNext
<1>5. MapIs(s.map, x + 1)
    BY <1>1, <1>2, <1>3, FirstEnds, MapNext
<1>6. FirstsIn(trace_map, heap, Consumed, {})' /\ MapIs(trace_map, Consumed)'
    BY <1>1, <1>2, <1>4, <1>5, MapFixed
<1> QED BY <1>1, <1>3, <1>6 DEF ReadAllExact

\* All traces are listed, once.
LEMMA ReadAllLists ==
    ASSUME ReaderInv, ReadAllExact, ListTraces
    PROVE  ReadAllExact'
<1> DEFINE S == {trace_map[i] : i \in {j \in Id : trace_map[j] # 0}}
<1>1. /\ strategy.kind = "read_all" /\ status = "reading" /\ input = <<>>
      /\ list' \in SetToSeqs(S) /\ status' = "listed"
      /\ UNCHANGED <<strategy, input, heap, trace_map, traces>>
    BY DEF ListTraces, Using
<1>2. /\ strategy \in Inputs /\ Consumed \in Nat /\ Consumed <= Len(strategy.symbols)
      /\ heap \in Seq(Trace) /\ trace_map \in [Id -> 0 .. Len(heap)] /\ Len(heap) \in Nat
      /\ Consumed' = Consumed
    BY <1>1, ReadSoFar
<1>3. traces = <<>> /\ FirstsIn(trace_map, heap, Consumed, {}) /\ MapIs(trace_map, Consumed)
    BY <1>1 DEF ReadAllExact
<1>4. S = 1 .. Len(heap)
    BY <1>2, <1>3, MapOnto
<1> HIDE DEF S
<1>5. /\ list' \in [1 .. Cardinality(S) -> S]
      /\ \A j, k \in 1 .. Cardinality(S) : j # k => list'[j] # list'[k]
    BY <1>1 DEF SetToSeqs
<1>6. IsFiniteSet(S) /\ Cardinality(S) = Len(heap)
  <2>1. 1 \in Int /\ Len(heap) \in Int
      BY <1>2
  <2>2. IsFiniteSet(1 .. Len(heap))
        /\ Cardinality(1 .. Len(heap)) = IF 1 > Len(heap) THEN 0 ELSE Len(heap) - 1 + 1
      BY <2>1, FS_Interval
  <2> QED BY <1>2, <1>4, <2>2
<1>7. list' \in [1 .. Len(heap) -> S] /\ S \in SUBSET Nat
    BY <1>2, <1>4, <1>5, <1>6
<1>8. /\ list' \in Seq(Nat) /\ Len(list') = Len(heap)
      /\ \A j, k \in 1 .. Len(list') : list'[j] = list'[k] => j = k
  <2>1. list' \in [1 .. Len(heap) -> Nat]
      BY <1>7
  <2>2. PICK l : l = list'
      OBVIOUS
  <2>3. l \in Seq(Nat) /\ Len(l) = Len(heap)
      BY ONLY <1>2, <2>1, <2>2
  <2>4. \A j, k \in 1 .. Len(heap) : list'[j] = list'[k] => j = k
      BY <1>5, <1>6
  <2> QED BY <2>2, <2>3, <2>4
<1>9. ToSet(list') = S
  <2>1. list' \in Injection(1 .. Len(heap), S)
      BY <1>7, <1>8 DEF Injection, IsInjective
  <2>2. list' \in Surjection(1 .. Len(heap), S)
    <3>1. IsFiniteSet(S) /\ Cardinality(1 .. Len(heap)) = Cardinality(S)
        BY <1>4, <1>6
    <3> QED BY <1>4, <2>1, <3>1, FS_Injection
  <2>3. \A t \in S : \E k \in 1 .. Len(heap) : list'[k] = t
      BY <2>2 DEF Surjection
  <2> QED BY <1>7, <2>3 DEF ToSet
<1>10. Listed'
  <2>1. traces' = <<>> /\ ToSet(traces') = {}
      BY <1>1, <1>3 DEF ToSet
  <2> QED BY <1>1, <1>4, <1>8, <1>9, <2>1 DEF Listed
<1>11. FirstsIn(trace_map, heap, Consumed, ToSet(traces))'
  <2>1. ToSet(traces') = {}
      BY <1>1, <1>3 DEF ToSet
  <2> QED BY <1>1, <1>2, <1>3, <2>1, MapFixed
<1> QED BY <1>1, <1>10, <1>11 DEF ReadAllExact

\* The first of a list and the others.
LEMMA TailSet ==
    ASSUME NEW s \in Seq(Nat), s # <<>>, \A j, k \in 1 .. Len(s) : s[j] = s[k] => j = k
    PROVE  /\ Tail(s) \in Seq(Nat) /\ Head(s) \in ToSet(s)
           /\ \A j, k \in 1 .. Len(Tail(s)) : Tail(s)[j] = Tail(s)[k] => j = k
           /\ ToSet(Tail(s)) = ToSet(s) \ {Head(s)}
<1> DEFINE r == Tail(s)
<1>1. /\ Len(s) \in Nat \ {0} /\ Head(s) = s[1] /\ DOMAIN s = 1 .. Len(s)
      /\ r \in Seq(Nat) /\ Len(r) = Len(s) - 1 /\ DOMAIN r = 1 .. Len(r)
      /\ \A k \in 1 .. Len(r) : r[k] = s[k + 1]
    OBVIOUS
<1>2. \A k \in 1 .. Len(r) : k + 1 \in 1 .. Len(s) /\ k + 1 # 1
    BY <1>1
<1>3. 1 \in 1 .. Len(s) /\ \A k \in 1 .. Len(s) : k # 1 => k - 1 \in 1 .. Len(r) /\ (k - 1) + 1 = k
    BY <1>1
<1> HIDE DEF r
<1>4. \A j, k \in 1 .. Len(r) : r[j] = r[k] => j = k
  <2> SUFFICES ASSUME NEW j \in 1 .. Len(r), NEW k \in 1 .. Len(r), r[j] = r[k] PROVE j = k
      OBVIOUS
  <2>1. j + 1 = k + 1
      BY <1>1, <1>2
  <2> QED BY <1>1, <2>1
<1>5. ASSUME NEW t PROVE t \in ToSet(r) <=> t \in ToSet(s) /\ t # Head(s)
  <2>1. ASSUME t \in ToSet(r) PROVE t \in ToSet(s) /\ t # Head(s)
    <3>1. PICK k \in 1 .. Len(r) : t = r[k]
        BY <1>1, <2>1 DEF ToSet
    <3>2. t = s[k + 1] /\ k + 1 \in 1 .. Len(s) /\ k + 1 # 1
        BY <1>1, <1>2, <3>1
    <3>3. t # s[1]
        BY <1>3, <3>2
    <3> QED BY <1>1, <3>2, <3>3 DEF ToSet
  <2>2. ASSUME t \in ToSet(s), t # Head(s) PROVE t \in ToSet(r)
    <3>1. PICK k \in 1 .. Len(s) : t = s[k]
        BY <1>1, <2>2 DEF ToSet
    <3>2. k - 1 \in 1 .. Len(r) /\ r[k - 1] = s[k]
        BY <1>1, <1>3, <2>2, <3>1
    <3> QED BY <1>1, <3>1, <3>2 DEF ToSet
  <2> QED BY <2>1, <2>2
<1>6. Head(s) \in ToSet(s)
    BY <1>1, <1>3 DEF ToSet
<1> QED BY <1>1, <1>4, <1>5, <1>6 DEF r

\* One more at the end.
LEMMA AppendSet ==
    ASSUME NEW s \in Seq(Nat), NEW t \in Nat
    PROVE  Append(s, t) \in Seq(Nat) /\ ToSet(Append(s, t)) = ToSet(s) \cup {t}
<1> DEFINE r == Append(s, t)
<1>1. /\ r \in Seq(Nat) /\ Len(r) = Len(s) + 1 /\ Len(s) \in Nat /\ r[Len(s) + 1] = t
      /\ DOMAIN s = 1 .. Len(s) /\ DOMAIN r = 1 .. Len(s) + 1
      /\ \A k \in 1 .. Len(s) : r[k] = s[k]
    BY AppendProperties
<1> HIDE DEF r
<1>2. 1 .. Len(s) + 1 = (1 .. Len(s)) \cup {Len(s) + 1}
    BY <1>1
<1>3. ToSet(r) = ToSet(s) \cup {t}
    BY <1>1, <1>2 DEF ToSet
<1> QED BY <1>1, <1>3 DEF r

\* A listed trace is handed out, closed with all symbols of its id.
LEMMA ReadAllReturns ==
    ASSUME ReaderInv, ReadAllExact, ReadListed, strategy.kind = "read_all"
    PROVE  ReadAllExact'
<1> DEFINE t == Head(list)
           g == Finalized(heap, t)
           x == Consumed
           S == ToSet(traces)
<1>1. /\ status = "listed" /\ list # <<>> /\ heap' = g /\ traces' = Append(traces, t)
      /\ list' = Tail(list) /\ UNCHANGED <<strategy, input, trace_map, status>>
    BY DEF ReadListed, Return
<1>2. /\ strategy \in Inputs /\ x \in Nat /\ Len(heap) \in Nat
      /\ heap \in Seq(Trace) /\ trace_map \in [Id -> 0 .. Len(heap)]
      /\ Consumed' = x /\ (input = <<>> => x = Len(strategy.symbols))
    BY <1>1, ReadSoFar
<1>3. input = <<>> /\ Listed /\ FirstsIn(trace_map, heap, x, S)
    BY <1>1 DEF ReadAllExact
<1>4. /\ Tail(list) \in Seq(Nat) /\ t \in ToSet(list)
      /\ \A j, k \in 1 .. Len(Tail(list)) : Tail(list)[j] = Tail(list)[k] => j = k
      /\ ToSet(Tail(list)) = ToSet(list) \ {t}
    BY <1>1, <1>3, TailSet DEF Listed
<1>5. t \in 1 .. Len(heap) /\ t \notin S /\ t \in Nat
    BY <1>2, <1>3, <1>4 DEF Listed
<1>6. traces' \in Seq(Nat) /\ ToSet(traces') = S \cup {t}
    BY <1>1, <1>3, <1>5, AppendSet DEF Listed
<1> HIDE DEF t, S, x
<1>7. Len(g) = Len(heap) /\ \A u \in 1 .. Len(heap) : u # t => g[u] = heap[u]
    BY <1>2, <1>5, FinalizedIs
<1>8. g[t].sequence = heap[t].sequence
    BY <1>2, <1>5, FinalizedIs
<1> HIDE DEF g
<1>9. Listed'
    BY <1>1, <1>3, <1>4, <1>5, <1>6, <1>7 DEF Listed, S
<1>10. FirstsIn(trace_map, g, x, S \cup {t})
  <2> SUFFICES ASSUME NEW p \in Ends \cap (1 .. x)
               PROVE  /\ g[Rank(p)].sequence = Rank(p) - 1
                      /\ IF Rank(p) \in S \cup {t} THEN ClosedWith(g[Rank(p)], TraceAt(p))
                         ELSE OpenWith(g[Rank(p)], Own(IdAt(p), x))
      BY <1>3, <1>7 DEF FirstsIn
  <2>1. /\ heap[Rank(p)].sequence = Rank(p) - 1
        /\ IF Rank(p) \in S THEN ClosedWith(heap[Rank(p)], TraceAt(p))
           ELSE OpenWith(heap[Rank(p)], Own(IdAt(p), x))
      BY <1>3 DEF FirstsIn
  <2>2. Rank(p) \in 1 .. Len(heap)
    <3>1. Rank(p) \in 1 .. Rank(x)
        BY <1>2, RankRange
    <3> QED BY <1>3, <3>1 DEF FirstsIn
  <2>3. CASE Rank(p) # t
      BY <1>7, <2>1, <2>2, <2>3
  <2>4. CASE Rank(p) = t
    <3>1. OpenWith(heap[t], Own(IdAt(p), x))
        BY <1>5, <2>1, <2>4
    <3>2. TraceAt(p) = SymbolsAt(Own(IdAt(p), x))
        BY <1>2, <1>3, FirstEnds
    <3>3. Own(IdAt(p), x) \in SUBSET Positions
        BY <1>2, <1>3 DEF Own, Positions
    <3>4. ClosedWith(g[t], TraceAt(p))
        BY <1>2, <1>5, <3>1, <3>2, <3>3, OpenIsClosed DEF g
    <3> QED BY <1>8, <2>1, <2>4, <3>4 DEF g
  <2> QED BY <2>3, <2>4
<1>11. FirstsIn(trace_map, heap, Consumed, ToSet(traces))'
    BY <1>1, <1>2, <1>6, <1>10, MapFixed
<1> QED BY <1>1, <1>3, <1>9, <1>11 DEF ReadAllExact

\* Sorted, the traces are in the order of their first symbols.
LEMMA ReadAllSorts ==
    ASSUME ReaderInv, ReadAllExact, AllListed, strategy.kind = "read_all"
    PROVE  ReadAllExact'
<1> DEFINE n == Len(heap)
           x == Consumed
           r == [k \in 1 .. n |-> k]
<1>1. /\ status = "listed" /\ list = <<>> /\ traces' = Sorted(traces) /\ status' = "done"
      /\ UNCHANGED <<strategy, input, heap>>
    BY DEF AllListed
<1>2. /\ strategy \in Inputs /\ x \in Nat /\ n \in Nat /\ heap \in Seq(Trace) /\ Consumed' = x
    BY <1>1, ReadSoFar
<1>3. input = <<>> /\ Listed /\ FirstsIn(trace_map, heap, x, ToSet(traces))
    BY <1>1 DEF ReadAllExact
<1>4. ToSet(traces) = 1 .. n
  <2>1. ToSet(list) = {}
      BY <1>1 DEF ToSet
  <2> QED BY <1>3, <2>1 DEF Listed
<1> HIDE DEF x, n
<1>5. r \in Seq(Nat) /\ Len(r) = n /\ \A k \in 1 .. n : r[k] = k
    BY <1>2
<1>6. ToSet(r) = 1 .. n
    BY <1>2 DEF ToSet
<1> HIDE DEF r
<1>7. n = Rank(x) /\ \A p \in Ends \cap (1 .. x) :
         heap[Rank(p)].sequence = Rank(p) - 1 /\ Rank(p) \in 1 .. n
  <2>1. \A p \in Ends \cap (1 .. x) : Rank(p) \in 1 .. Rank(x)
      BY <1>2, RankRange
  <2> QED BY <1>3, <2>1 DEF FirstsIn, n
<1>8. \A k \in 1 .. Len(r) : heap[r[k]].sequence = k - 1
  <2> SUFFICES ASSUME NEW k \in 1 .. n PROVE heap[k].sequence = k - 1
      BY <1>5
  <2>1. PICK p \in Ends \cap (1 .. x) : Rank(p) = k
      BY <1>2, <1>7, RankOnto
  <2> QED BY <1>7, <2>1
<1>9. Sorted(traces) = r
    BY <1>4, <1>5, <1>6, <1>8, SortedIs
<1>10. Handed(r, heap, x)
  <2>1. \A p \in Ends \cap (1 .. x) : ClosedWith(heap[Rank(p)], TraceAt(p))
      BY <1>3, <1>4, <1>7 DEF FirstsIn
  <2> QED BY <1>5, <1>7, <2>1 DEF Handed, n
<1>11. Handed(traces, heap, Consumed)'
    BY <1>1, <1>2, <1>9, <1>10, InputFixed
<1> QED BY <1>1, <1>3, <1>11 DEF ReadAllExact

\* Every step keeps what is said of read_all.
LEMMA ReadAllStep ==
    ASSUME ReaderInv, ReadAllExact, [Next]_vars
    PROVE  ReadAllExact'
<1> SUFFICES ASSUME strategy.kind = "read_all", UNCHANGED strategy PROVE ReadAllExact'
  <2>1. UNCHANGED strategy
      BY DEF Next, vars, Stopped, ConsumeSymbol, ListTraces, ReadListed, AllListed,
             InOrderSymbol, InOrderLast, InOrderEnd, SentinelSymbol, SentinelEnd,
             WindowSymbol, WindowEnd
  <2> QED BY <2>1 DEF ReadAllExact
<1>1. CASE UNCHANGED vars
  <2>1. UNCHANGED <<strategy, input, heap, trace_map, list, traces, status>>
      BY <1>1 DEF vars
  <2>2. Consumed' = Consumed
      BY <2>1, ReadSoFar
  <2>3. Listed' <=> Listed
      BY <2>1 DEF Listed
  <2>4. /\ FirstsIn(trace_map, heap, Consumed, {})' <=> FirstsIn(trace_map, heap, Consumed, {})
        /\ FirstsIn(trace_map, heap, Consumed, ToSet(traces))'
              <=> FirstsIn(trace_map, heap, Consumed, ToSet(traces))
        /\ MapIs(trace_map, Consumed)' <=> MapIs(trace_map, Consumed)
        /\ Handed(traces, heap, Consumed)' <=> Handed(traces, heap, Consumed)
      BY <2>1, <2>2, MapFixed, InputFixed
  <2> QED BY <2>1, <2>3, <2>4 DEF ReadAllExact
<1>2. CASE ConsumeSymbol
    BY <1>2, ReadAllConsumes
<1>3. CASE ListTraces
    BY <1>3, ReadAllLists
<1>4. CASE ReadListed
    BY <1>4, ReadAllReturns
<1>5. CASE AllListed
    BY <1>5, ReadAllSorts
<1>6. CASE \/ InOrderSymbol \/ InOrderLast \/ InOrderEnd \/ SentinelSymbol \/ SentinelEnd
           \/ WindowSymbol \/ WindowEnd
    BY <1>6 DEF InOrderSymbol, InOrderLast, InOrderEnd, SentinelSymbol, SentinelEnd,
                WindowSymbol, WindowEnd, Using
<1> QED BY <1>1, <1>2, <1>3, <1>4, <1>5, <1>6 DEF Next, Stopped

-----------------------------------------------------------------------------
(* in_order.                                                               *)

\* What was handed out is in the heap.
LEMMA HandedRange ==
    ASSUME strategy \in Inputs, NEW ts, NEW h, NEW x \in Nat, Handed(ts, h, x)
    PROVE  \A k \in 1 .. Len(ts) : ts[k] \in 1 .. Len(h)
<1> SUFFICES ASSUME NEW k \in 1 .. Rank(x) PROVE ts[k] \in 1 .. Len(h)
    BY DEF Handed
<1>1. PICK p \in Ends \cap (1 .. x) : Rank(p) = k
    BY RankOnto
<1> QED BY <1>1 DEF Handed

\* The last position before another id is an end.
LEMMA BlockEnds ==
    ASSUME strategy \in Inputs, strategy.kind = "in_order"
    PROVE  /\ \A p \in Positions :
                 p \in Ends <=> p = Len(strategy.symbols) \/ IdAt(p + 1) # IdAt(p)
           /\ \A p : TraceAt(p) = SymbolsAt(Block(p)) /\ Kept(p)
<1>1. \A p \in Positions :
         p \in Ends <=> p = Len(strategy.symbols) \/ IdAt(p + 1) # IdAt(p)
    BY DEF Ends, Positions
<1>2. \A p : TraceAt(p) = SymbolsAt(Block(p))
    BY DEF TraceAt
<1>3. \A p : Kept(p)
    BY DEF Kept
<1> QED BY <1>1, <1>2, <1>3

\* The block of a position goes on with the next, or the next starts one.
LEMMA BlockIs ==
    ASSUME strategy \in Inputs, NEW x \in Nat, x <= Len(strategy.symbols)
    PROVE  /\ Block(x) \in SUBSET Positions
           /\ \A q \in Block(x) : q < x + 1 /\ IdAt(q) = IdAt(x)
           /\ x # 0 /\ IdAt(x + 1) = IdAt(x) => Block(x + 1) = Block(x) \cup {x + 1}
           /\ x = 0 \/ IdAt(x + 1) # IdAt(x) => Block(x + 1) = {x + 1}
<1>0. Len(strategy.symbols) \in Nat
    BY InputTypes
<1>1. Block(x) \in SUBSET Positions
    BY <1>0 DEF Block, Positions
<1>2. \A q \in Block(x) : q < x + 1 /\ IdAt(q) = IdAt(x)
  <2> SUFFICES ASSUME NEW q \in 1 .. x, \A r \in q .. x : IdAt(r) = IdAt(x)
               PROVE  q < x + 1 /\ IdAt(q) = IdAt(x)
      BY DEF Block
  <2>1. q \in q .. x
      OBVIOUS
  <2> QED BY <2>1
<1>3. /\ x + 1 \in Block(x + 1)
      /\ \A q \in Block(x + 1) : q \in 1 .. x \/ q = x + 1
  <2>1. x + 1 \in 1 .. x + 1 /\ \A r \in x + 1 .. x + 1 : r = x + 1
      OBVIOUS
  <2>2. \A q \in 1 .. x + 1 : q \in 1 .. x \/ q = x + 1
      OBVIOUS
  <2> QED BY <2>1, <2>2 DEF Block
<1>4. ASSUME NEW q \in 1 .. x
      PROVE  q \in Block(x + 1) <=> IdAt(x) = IdAt(x + 1) /\ q \in Block(x)
  <2>1. q \in 1 .. x + 1 /\ q .. (x + 1) = (q .. x) \cup {x + 1} /\ x \in q .. x
      OBVIOUS
  <2>2. q \in Block(x + 1) <=> \A r \in q .. x : IdAt(r) = IdAt(x + 1)
      BY <2>1 DEF Block
  <2>3. q \in Block(x) <=> \A r \in q .. x : IdAt(r) = IdAt(x)
      BY DEF Block
  <2> QED BY <2>1, <2>2, <2>3
<1>5. \A q \in Block(x) : q \in 1 .. x
    BY DEF Block
<1>6. x # 0 /\ IdAt(x + 1) = IdAt(x) => Block(x + 1) = Block(x) \cup {x + 1}
    BY <1>3, <1>4, <1>5
<1>7. x = 0 \/ IdAt(x + 1) # IdAt(x) => Block(x + 1) = {x + 1}
  <2>1. x = 0 => \A q \in 1 .. x : FALSE
      OBVIOUS
  <2> QED BY <1>3, <1>4, <2>1
<1> QED BY <1>1, <1>2, <1>6, <1>7

\* The trace of the id i is being read, after x symbols; those before are handed out.
BeingRead(mp, h, ts, i, x) ==
    /\ x \in Nat \ {0} /\ i = IdAt(x) /\ i \in Id
    /\ mp[i] \in 1 .. Len(h) /\ \A j \in Id : mp[j] # 0 => j = i
    /\ OpenWith(h[mp[i]], Block(x))
    /\ \A k \in 1 .. Len(ts) : ts[k] # mp[i]
    /\ Handed(ts, h, x - 1)

\* The trace being read is handed out at the end of its block.
LEMMA BlockHanded ==
    ASSUME strategy \in Inputs, strategy.kind = "in_order",
           NEW x \in Positions, x \in Ends, NEW h \in Seq(Trace), NEW mp, NEW ts, NEW i,
           BeingRead(mp, h, ts, i, x),
           NEW f \in Seq(Trace), Len(h) <= Len(f), \A u \in 1 .. Len(h) : f[u] = h[u],
           NEW g, g = Finalized(f, mp[i])
    PROVE  /\ Handed(Append(ts, mp[i]), g, x)
           /\ Len(g) = Len(f) /\ \A u \in 1 .. Len(f) : u # mp[i] => g[u] = f[u]
<1> DEFINE t == mp[i]
<1>1. /\ Len(h) \in Nat /\ Len(f) \in Nat /\ t \in 1 .. Len(h) /\ t \in 1 .. Len(f)
      /\ x - 1 \in Nat /\ (x - 1) + 1 = x /\ x \in Nat /\ x <= Len(strategy.symbols)
  <2>1. Len(strategy.symbols) \in Nat
      BY InputTypes
  <2>2. Len(h) \in Nat /\ Len(f) \in Nat
      OBVIOUS
  <2>3. t \in 1 .. Len(h)
      BY DEF BeingRead
  <2> HIDE DEF t
  <2> QED BY <2>1, <2>2, <2>3 DEF Positions
<1>2. Len(g) = Len(f) /\ \A u \in 1 .. Len(f) : u # t => g[u] = f[u]
    BY <1>1, FinalizedIs
<1>3. ClosedWith(g[t], TraceAt(x))
  <2>1. Block(x) \in SUBSET Positions /\ TraceAt(x) = SymbolsAt(Block(x))
      BY <1>1, BlockIs, BlockEnds
  <2>2. OpenWith(f[t], Block(x))
      BY <1>1 DEF BeingRead
  <2> HIDE DEF t
  <2>3. ClosedWith(Finalized(f, t)[t], SymbolsAt(Block(x)))
      BY <1>1, <2>1, <2>2, OpenIsClosed
  <2> QED BY <2>1, <2>3 DEF t
<1>4. Handed(ts, h, x - 1) /\ \A k \in 1 .. Len(ts) : ts[k] # t
    BY DEF BeingRead
<1> HIDE DEF t
<1>5. \A k \in 1 .. Len(ts) : ts[k] \in 1 .. Len(h) => g[ts[k]] = h[ts[k]]
  <2> SUFFICES ASSUME NEW k \in 1 .. Len(ts), ts[k] \in 1 .. Len(h) PROVE g[ts[k]] = h[ts[k]]
      OBVIOUS
  <2>1. ts[k] \in 1 .. Len(f) /\ ts[k] # t
      BY <1>1, <1>4
  <2> QED BY <1>2, <2>1
<1>6. Handed(ts, g, x - 1)
  <2>1. Len(g) \in Nat /\ Len(h) <= Len(g)
      BY <1>1, <1>2
  <2> QED BY <1>1, <1>4, <1>5, <2>1, HandedKept
<1>7. Handed(Append(ts, t), g, x)
  <2>1. t \in 1 .. Len(g) /\ Len(g) \in Nat
      BY <1>1, <1>2
  <2>2. PICK y \in Nat : y = x - 1
      BY <1>1
  <2>3. y + 1 = x
      BY <1>1, <2>2
  <2>4. Handed(Append(ts, t), g, y + 1)
      BY <1>3, <1>6, <2>1, <2>2, <2>3, HandedNext
  <2> QED BY <2>3, <2>4
<1> QED BY <1>2, <1>7 DEF t

InOrderExact ==
    strategy.kind = "in_order" =>
       /\ status \in {"reading", "done"}
       /\ status = "done" => input = <<>> /\ last_id = None
       /\ last_id = None =>
             /\ Consumed = 0 \/ input = <<>>
             /\ trace_map = EmptyMap
             /\ Handed(traces, heap, Consumed)
       /\ last_id # None => BeingRead(trace_map, heap, traces, last_id, Consumed)

\* What is said of the trace being read is said of it in every state.
LEMMA BeingReadFixed ==
    ASSUME UNCHANGED strategy
    PROVE  \A mp, h, ts, i, x : BeingRead(mp, h, ts, i, x)' <=> BeingRead(mp, h, ts, i, x)
BY InputFixed DEF BeingRead

\* The first symbol of a block, after what was handed out before it.
LEMMA BlockStarts ==
    ASSUME strategy \in Inputs, strategy.kind = "in_order",
           NEW x \in Nat, x + 1 \in Positions, x = 0 \/ IdAt(x + 1) # IdAt(x),
           NEW h \in Seq(Trace), NEW mp \in [Id -> 0 .. Len(h)],
           NEW s, s = Processed([heap |-> h, map |-> mp], strategy.symbols[x + 1]),
           mp[IdAt(x + 1)] = 0,
           NEW ts, NEW g, Len(g) = Len(s.heap), Handed(ts, g, x),
           NEW y, y = s.map[IdAt(x + 1)], g[y] = s.heap[y],
           \A k \in 1 .. Len(ts) : ts[k] \in 1 .. Len(h),
           NEW np, np[IdAt(x + 1)] = y, \A j \in Id : j # IdAt(x + 1) => np[j] = 0
    PROVE  BeingRead(np, g, ts, IdAt(x + 1), x + 1)
<1> DEFINE i == IdAt(x + 1)
<1>1. /\ i \in Id
      /\ Grown(s, h, mp, i, TailAt(x + 1), IF SymbolAt(x + 1) = Empty THEN 0 ELSE 1)
    BY ProcessedAt
<1>2. y = Len(h) + 1 /\ y \in 1 .. Len(g) /\ Len(h) \in Nat
    BY <1>1 DEF Grown
<1>3. OpenWith(s.heap[s.map[i]], {} \cup {x + 1})
  <2>1. Kept(x + 1)
      BY BlockEnds
  <2>2. PICK S \in SUBSET Positions : S = {}
      OBVIOUS
  <2>3. /\ \A q \in S : q < x + 1 /\ IdAt(q) = IdAt(x + 1)
        /\ IF mp[IdAt(x + 1)] = 0 THEN S = {} ELSE OpenWith(h[mp[IdAt(x + 1)]], S)
      BY <2>2
  <2> HIDE DEF Trace
  <2>4. OpenWith(s.heap[s.map[IdAt(x + 1)]], S \cup {x + 1})
      BY <2>1, <2>3, OpenNext
  <2> QED BY <2>2, <2>4
<1>4. Block(x + 1) = {} \cup {x + 1}
  <2>1. x <= Len(strategy.symbols)
      BY InputTypes DEF Positions
  <2>2. Block(x + 1) = {x + 1}
      BY <2>1, BlockIs
  <2> QED BY <2>2
<1>5. (x + 1) - 1 = x /\ x + 1 \in Nat \ {0}
    OBVIOUS
<1>6. \A k \in 1 .. Len(ts) : ts[k] # y
    BY <1>2
<1>7. \A j \in Id : np[j] # 0 => j = i
    OBVIOUS
<1> QED BY <1>1, <1>2, <1>3, <1>4, <1>5, <1>6, <1>7 DEF BeingRead

\* A symbol read.
LEMMA InOrderReads ==
    ASSUME ReaderInv, InOrderExact, InOrderSymbol
    PROVE  InOrderExact'
<1> DEFINE s == Processed(Reading, Head(input))
           x == Consumed
           i == IdAt(x + 1)
           t == s.map[i]
<1>1. /\ strategy.kind = "in_order" /\ status = "reading" /\ input # <<>>
      /\ input' = Tail(input) /\ UNCHANGED <<strategy, status>>
    BY DEF InOrderSymbol, Using
<1>2. /\ strategy \in Inputs /\ x \in Nat /\ x + 1 \in Positions
      /\ Consumed' = x + 1 /\ Head(input).id = i /\ i \in Id /\ Len(heap) \in Nat
      /\ heap \in Seq(Trace) /\ trace_map \in [Id -> 0 .. Len(heap)]
      /\ s = Processed([heap |-> heap, map |-> trace_map], strategy.symbols[x + 1])
    BY <1>1, NextSymbol
<1>3. /\ s.heap \in Seq(Trace) /\ s.map \in [Id -> 0 .. Len(s.heap)]
    BY <1>1, HeadProcessed DEF ReaderInv
<1>4. /\ last_id' = i
      /\ IF last_id \notin {None, i}
         THEN /\ heap' = Finalized(s.heap, s.map[last_id])
              /\ traces' = Append(traces, s.map[last_id])
              /\ trace_map' = [s.map EXCEPT ![last_id] = 0]
         ELSE heap' = s.heap /\ trace_map' = s.map /\ UNCHANGED traces
    BY <1>2 DEF InOrderSymbol, Return
<1>5. /\ Grown(s, heap, trace_map, i, TailAt(x + 1), IF SymbolAt(x + 1) = Empty THEN 0 ELSE 1)
    BY <1>2, ProcessedAt
<1>6. /\ x <= Len(strategy.symbols) /\ x # Len(strategy.symbols) /\ Len(strategy.symbols) \in Nat
      /\ x # 0 => x \in Positions
    BY <1>2, InputTypes DEF Positions
<1> HIDE DEF s, x, i
<1>7. SUFFICES BeingRead(trace_map', heap', traces', i, x + 1)
  <2>1. i # None
      BY <1>2, SymbolsAssumption
  <2>2. BeingRead(trace_map, heap, traces, last_id, Consumed)'
      BY <1>1, <1>2, <1>4, <1>7, BeingReadFixed
  <2> QED BY <1>1, <1>4, <2>1, <2>2 DEF InOrderExact
<1>8. CASE last_id = None
  <2>1. x = 0 /\ trace_map = EmptyMap /\ Handed(traces, heap, x)
      BY <1>1, <1>8 DEF InOrderExact, x
  <2>2. heap' = s.heap /\ trace_map' = s.map /\ traces' = traces
      BY <1>4, <1>8
  <2>3. trace_map[i] = 0 /\ \A j \in Id : trace_map[j] = 0
      BY <1>2, <2>1 DEF EmptyMap
  <2>4. /\ t = Len(heap) + 1 /\ Len(s.heap) = Len(heap) + 1
        /\ \A u \in 1 .. Len(heap) : u # t => s.heap[u] = heap[u]
        /\ \A j \in Id : j # i => s.map[j] = trace_map[j]
      BY <1>5, <2>3 DEF Grown
  <2> HIDE DEF t
  <2>5. \A k \in 1 .. Len(traces) : traces[k] \in 1 .. Len(heap)
      BY <1>2, <2>1, HandedRange
  <2>6. Handed(traces, s.heap, x)
    <3>1. \A k \in 1 .. Len(traces) : traces[k] \in 1 .. Len(heap)
                                         => s.heap[traces[k]] = heap[traces[k]]
        BY <1>2, <2>4
    <3>2. Len(s.heap) \in Nat /\ Len(heap) <= Len(s.heap)
        BY <1>2, <2>4
    <3> QED BY <1>2, <2>1, <3>1, <3>2, HandedKept
  <2>7. s.map[i] = t /\ \A j \in Id : j # i => s.map[j] = 0
      BY <2>3, <2>4 DEF t
  <2>8. BeingRead(s.map, s.heap, traces, i, x + 1)
    <3>1. /\ trace_map[IdAt(x + 1)] = 0 /\ s.map[IdAt(x + 1)] = t
          /\ \A j \in Id : j # IdAt(x + 1) => s.map[j] = 0
        BY <2>3, <2>7 DEF i
    <3> HIDE DEF Trace
    <3>2. BeingRead(s.map, s.heap, traces, IdAt(x + 1), x + 1)
        BY ONLY <1>1, <1>2, <2>1, <2>5, <2>6, <3>1, BlockStarts
    <3> QED BY <3>2 DEF i
  <2> QED BY <2>2, <2>8
<1>9. CASE last_id # None /\ last_id = i
  <2>1. BeingRead(trace_map, heap, traces, i, x)
      BY <1>1, <1>9 DEF InOrderExact, x
  <2>2. heap' = s.heap /\ trace_map' = s.map /\ traces' = traces
      BY <1>4, <1>9
  <2>3. /\ x # 0 /\ i = IdAt(x) /\ trace_map[i] \in 1 .. Len(heap)
        /\ \A j \in Id : trace_map[j] # 0 => j = i
        /\ OpenWith(heap[trace_map[i]], Block(x))
        /\ \A k \in 1 .. Len(traces) : traces[k] # trace_map[i]
        /\ Handed(traces, heap, x - 1)
      BY <2>1 DEF BeingRead
  <2>4. trace_map[i] # 0
      BY <1>2, <2>3
  <2>5. /\ t = trace_map[i] /\ s.map = trace_map /\ Len(s.heap) = Len(heap)
        /\ \A u \in 1 .. Len(heap) : u # t => s.heap[u] = heap[u]
      BY <1>5, <2>4 DEF Grown
  <2> HIDE DEF t
  <2>6. OpenWith(s.heap[t], Block(x + 1))
    <3>1. PICK S \in SUBSET Positions : S = Block(x)
        BY <1>2, <1>6, BlockIs
    <3>2. /\ \A q \in S : q < x + 1 /\ IdAt(q) = IdAt(x + 1)
          /\ IF trace_map[IdAt(x + 1)] = 0 THEN S = {}
             ELSE OpenWith(heap[trace_map[IdAt(x + 1)]], S)
        BY <1>2, <1>6, <2>3, <2>4, <3>1, BlockIs DEF i
    <3>3. Kept(x + 1)
        BY <1>1, <1>2, BlockEnds
    <3>4. OpenWith(s.heap[s.map[IdAt(x + 1)]], S \cup {x + 1})
      <4> HIDE DEF Trace
      <4> QED BY <1>2, <3>2, <3>3, OpenNext
    <3>5. Block(x + 1) = Block(x) \cup {x + 1}
        BY <1>2, <1>6, <2>3, BlockIs DEF i
    <3> QED BY <3>1, <3>4, <3>5 DEF i, t
  <2>7. x \notin Ends
      BY <1>1, <1>2, <1>6, <2>3, BlockEnds DEF i
  <2>8. Handed(traces, s.heap, x)
    <3>1. \A k \in 1 .. Len(traces) : traces[k] \in 1 .. Len(heap)
                                         => s.heap[traces[k]] = heap[traces[k]]
        BY <2>3, <2>5
    <3>2. PICK y \in Nat : y = x - 1
        BY <1>2, <2>3
    <3>3. x = y + 1
        BY <1>2, <3>2
    <3>4. Handed(traces, heap, y)
        BY <2>3, <3>2
    <3>5. Len(s.heap) \in Nat /\ Len(heap) <= Len(s.heap)
        BY <1>2, <2>5
    <3> QED BY <1>2, <2>7, <3>1, <3>3, <3>4, <3>5, HandedKept
  <2>9. (x + 1) - 1 = x /\ x + 1 \in Nat \ {0} /\ i = IdAt(x + 1)
      BY <1>2 DEF i
  <2> QED BY <1>2, <2>2, <2>3, <2>5, <2>6, <2>8, <2>9 DEF BeingRead
<1>10. CASE last_id # None /\ last_id # i
  <2> DEFINE u == trace_map[last_id]
             g == Finalized(s.heap, u)
             us == Append(traces, u)
  <2>1. BeingRead(trace_map, heap, traces, last_id, x)
      BY <1>1, <1>10 DEF InOrderExact, x
  <2>2. /\ x # 0 /\ last_id = IdAt(x) /\ last_id \in Id /\ u \in 1 .. Len(heap)
        /\ \A j \in Id : trace_map[j] # 0 => j = last_id
        /\ Handed(traces, heap, x - 1)
      BY <2>1 DEF BeingRead
  <2>3. trace_map[i] = 0
      BY <1>2, <1>10, <2>2
  <2>4. /\ t = Len(heap) + 1 /\ Len(s.heap) = Len(heap) + 1
        /\ \A v \in 1 .. Len(heap) : s.heap[v] = heap[v]
        /\ \A j \in Id : j # i => s.map[j] = trace_map[j]
    <3>1. /\ t = Len(heap) + 1 /\ Len(s.heap) = Len(heap) + 1
          /\ \A v \in 1 .. Len(heap) : v # t => s.heap[v] = heap[v]
          /\ \A j \in Id : j # i => s.map[j] = trace_map[j]
        BY <1>5, <2>3 DEF Grown
    <3> QED BY <1>2, <3>1
  <2>5. s.map[last_id] = u
      BY <1>10, <2>2, <2>4
  <2>6. /\ heap' = g /\ traces' = us /\ trace_map' = [s.map EXCEPT ![last_id] = 0]
      BY <1>4, <1>10, <2>5
  <2>7. x \in Ends
    <3>1. IdAt(x + 1) # IdAt(x) /\ x \in Positions
        BY <1>6, <1>10, <2>2 DEF i
    <3> QED BY <1>1, <1>2, <3>1, BlockEnds
  <2>8. Len(heap) <= Len(s.heap)
      BY <1>2, <2>4
  <2> HIDE DEF t, us
  <2>9. /\ Handed(us, g, x)
        /\ Len(g) = Len(s.heap) /\ \A v \in 1 .. Len(s.heap) : v # u => g[v] = s.heap[v]
    <3>1. x \in Positions
        BY <1>6, <2>2
    <3>2. PICK f \in Seq(Trace) : f = s.heap
        BY <1>3
    <3>3. Len(heap) <= Len(f) /\ (\A v \in 1 .. Len(heap) : f[v] = heap[v])
          /\ g = Finalized(f, trace_map[last_id])
        BY <2>4, <2>8, <3>2
    <3> HIDE DEF Trace, g, u
    <3>4. /\ Handed(Append(traces, trace_map[last_id]), g, x)
          /\ Len(g) = Len(f) /\ \A v \in 1 .. Len(f) : v # trace_map[last_id] => g[v] = f[v]
        BY ONLY <1>1, <1>2, <2>1, <2>7, <3>1, <3>3, BlockHanded
    <3> QED BY <3>2, <3>4 DEF us, u
  <2> HIDE DEF u, g
  <2>10. g[t] = s.heap[t]
    <3>1. t \in 1 .. Len(s.heap) /\ t # u
        BY <1>2, <2>2, <2>4
    <3> QED BY <2>9, <3>1
  <2>11. \A k \in 1 .. Len(us) : us[k] \in 1 .. Len(heap)
    <3>1. \A k \in 1 .. Len(traces) : traces[k] \in 1 .. Len(heap)
      <4>1. x - 1 \in Nat
          BY <1>2, <2>2
      <4> QED BY <1>2, <2>2, <4>1, HandedRange
    <3>2. traces \in Seq(Nat) /\ u \in Nat
        BY <1>2, <2>2 DEF Handed
    <3>3. /\ Len(us) = Len(traces) + 1 /\ us[Len(traces) + 1] = u
          /\ \A k \in 1 .. Len(traces) : us[k] = traces[k]
        BY <3>2, AppendProperties DEF us
    <3>4. ASSUME NEW k \in 1 .. Len(traces) + 1 PROVE k \in 1 .. Len(traces) \/ k = Len(traces) + 1
        BY <3>2
    <3> QED BY <2>2, <3>1, <3>3, <3>4
  <2>12. trace_map'[i] = t /\ \A j \in Id : j # i => trace_map'[j] = 0
    <3>1. \A j \in Id : trace_map'[j] = IF j = last_id THEN 0 ELSE s.map[j]
        BY <1>3, <2>6
    <3> QED BY <1>2, <1>10, <2>2, <2>4, <3>1 DEF t
  <2>13. BeingRead(trace_map', g, us, i, x + 1)
    <3>1. PICK np : np = trace_map'
        OBVIOUS
    <3>2. np[IdAt(x + 1)] = t /\ \A j \in Id : j # IdAt(x + 1) => np[j] = 0
        BY <2>12, <3>1 DEF i
    <3>3. x = 0 \/ IdAt(x + 1) # IdAt(x)
        BY <1>10, <2>2 DEF i
    <3>4. trace_map[IdAt(x + 1)] = 0 /\ t = s.map[IdAt(x + 1)]
        BY <2>3 DEF i, t
    <3> HIDE DEF Trace
    <3>5. BeingRead(np, g, us, IdAt(x + 1), x + 1)
      <4>1. Len(g) = Len(s.heap) /\ Handed(us, g, x) /\ g[t] = s.heap[t]
          BY <2>9, <2>10
      <4>2. /\ strategy \in Inputs /\ strategy.kind = "in_order" /\ x \in Nat /\ x + 1 \in Positions
            /\ heap \in Seq(Trace) /\ trace_map \in [Id -> 0 .. Len(heap)]
            /\ s = Processed([heap |-> heap, map |-> trace_map], strategy.symbols[x + 1])
          BY <1>1, <1>2
      <4> QED BY ONLY <4>1, <4>2, <2>11, <3>2, <3>3, <3>4, BlockStarts
    <3> QED BY <3>1, <3>5 DEF i
  <2> QED BY <2>6, <2>13
<1> QED BY <1>8, <1>9, <1>10

\* At the end of the input the last trace is handed out.
LEMMA InOrderReturns ==
    ASSUME ReaderInv, InOrderExact, InOrderLast
    PROVE  InOrderExact'
<1> DEFINE x == Consumed
           t == trace_map[last_id]
           g == Finalized(heap, t)
<1>1. /\ strategy.kind = "in_order" /\ status = "reading" /\ input = <<>> /\ last_id # None
      /\ heap' = g /\ traces' = Append(traces, t) /\ trace_map' = EmptyMap /\ last_id' = None
      /\ UNCHANGED <<strategy, input, status>>
    BY DEF InOrderLast, Using, Return
<1>2. /\ strategy \in Inputs /\ x \in Nat /\ x = Len(strategy.symbols) /\ Consumed' = x
      /\ heap \in Seq(Trace) /\ Len(heap) \in Nat
    BY <1>1, ReadSoFar
<1>3. BeingRead(trace_map, heap, traces, last_id, x)
    BY <1>1 DEF InOrderExact
<1>4. x \in Positions
    BY <1>2, <1>3 DEF BeingRead, Positions
<1>5. x \in Ends
    BY <1>1, <1>2, <1>4, BlockEnds
<1> HIDE DEF x
<1>6. Handed(Append(traces, t), g, x)
  <2>1. Len(heap) <= Len(heap)
      BY <1>2
  <2> HIDE DEF Trace
  <2> QED BY <1>1, <1>2, <1>3, <1>4, <1>5, <2>1, BlockHanded
<1>7. Handed(traces, heap, Consumed)'
    BY <1>1, <1>2, <1>6, InputFixed
<1> QED BY <1>1, <1>7 DEF InOrderExact, EmptyMap

\* Every step keeps what is said of in_order.
LEMMA InOrderStep ==
    ASSUME ReaderInv, InOrderExact, [Next]_vars
    PROVE  InOrderExact'
<1> SUFFICES ASSUME strategy.kind = "in_order", UNCHANGED strategy PROVE InOrderExact'
  <2>1. UNCHANGED strategy
      BY DEF Next, vars, Stopped, ConsumeSymbol, ListTraces, ReadListed, AllListed,
             InOrderSymbol, InOrderLast, InOrderEnd, SentinelSymbol, SentinelEnd,
             WindowSymbol, WindowEnd
  <2> QED BY <2>1 DEF InOrderExact
<1>1. CASE \/ UNCHANGED vars
           \/ InOrderEnd
  <2>1. /\ UNCHANGED <<strategy, input, heap, trace_map, last_id, traces>>
        /\ status' = status \/ (status' = "done" /\ input = <<>> /\ last_id = None)
      BY <1>1 DEF vars, InOrderEnd, Using
  <2>2. Consumed' = Consumed
      BY <2>1, ReadSoFar
  <2>3. /\ BeingRead(trace_map, heap, traces, last_id, Consumed)'
              <=> BeingRead(trace_map, heap, traces, last_id, Consumed)
        /\ Handed(traces, heap, Consumed)' <=> Handed(traces, heap, Consumed)
      BY <2>1, <2>2, BeingReadFixed, InputFixed
  <2>4. status' \in {"reading", "done"}
      BY <2>1 DEF InOrderExact
  <2>5. EmptyMap' = EmptyMap
      BY DEF EmptyMap
  <2> QED BY <2>1, <2>2, <2>3, <2>4, <2>5 DEF InOrderExact
<1>2. CASE InOrderSymbol
    BY <1>2, InOrderReads
<1>3. CASE InOrderLast
    BY <1>3, InOrderReturns
<1>4. CASE \/ ConsumeSymbol \/ ListTraces \/ ReadListed \/ AllListed
           \/ SentinelSymbol \/ SentinelEnd \/ WindowSymbol \/ WindowEnd
    BY <1>4 DEF ConsumeSymbol, ListTraces, ReadListed, AllListed, SentinelSymbol, SentinelEnd,
                WindowSymbol, WindowEnd, Using, InOrderExact
<1> QED BY <1>1, <1>2, <1>3, <1>4 DEF Next, Stopped

-----------------------------------------------------------------------------
(* sentinel_symbol.                                                        *)

\* The sentinels are the ends; they are put on no trace.
LEMMA SentinelEnds ==
    ASSUME strategy \in Inputs, strategy.kind = "sentinel"
    PROVE  /\ \A p \in Positions : p \in Ends <=> SymbolAt(p) = Sentinel
           /\ \A p : TraceAt(p) = SymbolsAt(Own(IdAt(p), p))
           /\ \A p : Kept(p) <=> SymbolAt(p) # Sentinel
           /\ \A p : SymbolAt(p) = Sentinel => ~Counts(p)
<1>1. \A p \in Positions : p \in Ends <=> SymbolAt(p) = Sentinel
    BY DEF Ends, Positions
<1>2. \A p : TraceAt(p) = SymbolsAt(Own(IdAt(p), p))
    BY DEF TraceAt
<1>3. \A p : Kept(p) <=> SymbolAt(p) # Sentinel
    BY DEF Kept
<1>4. \A p : SymbolAt(p) = Sentinel => ~Counts(p)
    BY DEF Counts
<1> QED BY <1>1, <1>2, <1>3, <1>4

\* An id whose sentinel was read has no more symbols.
LEMMA NothingBehind ==
    ASSUME strategy \in Inputs, strategy.kind = "sentinel", SentinelsDelimit,
           NEW x \in Nat, x + 1 \in Positions, NEW p \in Ends \cap (1 .. x)
    PROVE  IdAt(p) # IdAt(x + 1)
<1>1. p \in Positions /\ x + 1 \in DOMAIN strategy.symbols /\ p \in DOMAIN strategy.symbols
  <2>1. p \in Positions
      BY EndsTyped
  <2>2. DOMAIN strategy.symbols = Positions
      BY InputTypes
  <2> QED BY <2>1, <2>2
<1>2. SymbolAt(p) = Sentinel
    BY <1>1, SentinelEnds
<1>3. IdAt(x + 1) = IdAt(p) => x + 1 <= p
    BY <1>1, <1>2 DEF SentinelsDelimit
<1> QED BY <1>3

\* The traces of the ids whose sentinel was read are handed out, the others are open.
Waiting(mp, h, ts, x) ==
    /\ MapIs(mp, x) /\ Handed(ts, h, x)
    /\ \A p \in Ends \cap (1 .. x) : ts[Rank(p)] = mp[IdAt(p)]
    /\ \A i \in Id :
          mp[i] # 0 /\ (\A p \in Ends \cap (1 .. x) : IdAt(p) # i) =>
             OpenWith(h[mp[i]], Own(i, x))

\* No trace handed out is that of an id whose sentinel was not read.
LEMMA HandedOthers ==
    ASSUME strategy \in Inputs, NEW mp, NEW h, NEW ts, NEW x \in Nat, Waiting(mp, h, ts, x),
           NEW i \in Id, mp[i] # 0, \A p \in Ends \cap (1 .. x) : IdAt(p) # i
    PROVE  \A k \in 1 .. Len(ts) : ts[k] # mp[i]
<1> SUFFICES ASSUME NEW k \in 1 .. Rank(x), ts[k] = mp[i] PROVE FALSE
    BY DEF Waiting, Handed
<1>1. PICK p \in Ends \cap (1 .. x) : Rank(p) = k
    BY RankOnto
<1>2. IdAt(p) \in Id /\ IdAt(p) # i
  <2>1. IdAt(p) \in Id
      BY EndsTyped, InputTypes
  <2> QED BY <2>1
<1>3. mp[IdAt(p)] = mp[i]
    BY <1>1 DEF Waiting
<1> QED BY <1>2, <1>3 DEF Waiting, MapIs

\* A symbol is put on its trace.
LEMMA WaitingNext ==
    ASSUME strategy \in Inputs, strategy.kind = "sentinel", SentinelsDelimit,
           NEW x \in Nat, x + 1 \in Positions, SymbolAt(x + 1) # Sentinel,
           NEW h \in Seq(Trace), NEW mp \in [Id -> 0 .. Len(h)],
           NEW s, s = Processed([heap |-> h, map |-> mp], strategy.symbols[x + 1]),
           NEW ts, Waiting(mp, h, ts, x)
    PROVE  Waiting(s.map, s.heap, ts, x + 1)
<1> DEFINE i == IdAt(x + 1)
           t == s.map[i]
<1>1. /\ i \in Id
      /\ Grown(s, h, mp, i, TailAt(x + 1), IF SymbolAt(x + 1) = Empty THEN 0 ELSE 1)
    BY ProcessedAt
<1>2. /\ Own(i, x) \in SUBSET Positions /\ \A q \in Own(i, x) : q < x + 1 /\ IdAt(q) = i
      /\ Own(i, x + 1) = Own(i, x) \cup {x + 1}
      /\ \A j : j # i => Own(j, x + 1) = Own(j, x)
    BY OwnIs
<1>3. Kept(x + 1) /\ x + 1 \notin Ends
    BY SentinelEnds
<1>4. \A p \in Ends \cap (1 .. x) : IdAt(p) # i /\ IdAt(p) \in Id
  <2>1. \A p \in Ends \cap (1 .. x) : IdAt(p) # i
      BY NothingBehind
  <2>2. \A p \in Ends : IdAt(p) \in Id
      BY EndsTyped, InputTypes
  <2> QED BY <2>1, <2>2
<1>5. MapIs(mp, x) /\ Handed(ts, h, x)
    BY DEF Waiting
<1>6. MapIs(s.map, x + 1)
  <2> HIDE DEF Trace
  <2> QED BY <1>3, <1>5, MapNext
<1>7. Ends \cap (1 .. (x + 1)) = Ends \cap (1 .. x) /\ Rank(x + 1) = Rank(x)
    BY <1>3, RankNext
<1>8. /\ Len(h) \in Nat /\ Len(s.heap) \in Nat /\ Len(h) <= Len(s.heap)
      /\ \A j \in Id : j # i => s.map[j] = mp[j]
      /\ \A u \in 1 .. Len(h) : u # t => s.heap[u] = h[u]
    BY <1>1 DEF Grown
<1>9. t = mp[i] \/ (mp[i] = 0 /\ t = Len(h) + 1)
    BY <1>1 DEF Grown
<1> HIDE DEF t
<1>10. OpenWith(s.heap[t], Own(i, x + 1))
  <2>1. PICK S \in SUBSET Positions : S = Own(i, x)
      BY <1>2
  <2>2. IF mp[i] = 0 THEN S = {} ELSE OpenWith(h[mp[i]], S)
    <3>1. CASE mp[i] # 0
        BY <1>1, <1>4, <2>1, <3>1 DEF Waiting
    <3>2. CASE mp[i] = 0
      <4> SUFFICES ASSUME NEW q \in Own(i, x) PROVE FALSE
          BY <2>1, <3>2
      <4>1. q \in 1 .. x /\ IdAt(q) = i /\ q \in Positions
          BY <1>2 DEF Own
      <4>2. ~Kept(q)
          BY <1>5, <3>2, <4>1 DEF MapIs
      <4>3. q \in Ends
          BY <4>1, <4>2, SentinelEnds
      <4> QED BY <1>4, <4>1, <4>3
    <3> QED BY <3>1, <3>2
  <2>3. \A q \in S : q < x + 1 /\ IdAt(q) = IdAt(x + 1)
      BY <1>2, <2>1
  <2> HIDE DEF Trace
  <2>4. OpenWith(s.heap[s.map[IdAt(x + 1)]], S \cup {x + 1})
      BY <1>3, <2>2, <2>3, OpenNext
  <2> QED BY <1>2, <2>1, <2>4 DEF t
<1>11. \A k \in 1 .. Len(ts) : ts[k] \in 1 .. Len(h) => s.heap[ts[k]] = h[ts[k]]
  <2>1. \A k \in 1 .. Len(ts) : ts[k] \in 1 .. Len(h) => ts[k] # t
    <3>1. CASE mp[i] # 0 /\ t = mp[i]
        BY <1>1, <1>4, <3>1, HandedOthers
    <3>2. CASE t = Len(h) + 1
        BY <1>8, <3>2
    <3>3. t # 0
        BY <1>1 DEF Grown, t
    <3> QED BY <1>9, <3>1, <3>2, <3>3
  <2> QED BY <1>8, <2>1
<1>12. Handed(ts, s.heap, x + 1)
  <2>0. PICK f : f = s.heap
      OBVIOUS
  <2>1. PICK y \in Nat : y = x + 1
      OBVIOUS
  <2>2. /\ Len(f) \in Nat /\ Len(h) \in Nat /\ Len(h) <= Len(f) /\ y = x + 1 /\ y \notin Ends
        /\ \A k \in 1 .. Len(ts) : ts[k] \in 1 .. Len(h) => f[ts[k]] = h[ts[k]]
      BY <1>3, <1>8, <1>11, <2>0, <2>1
  <2>3. Handed(ts, f, y)
      BY ONLY strategy \in Inputs, x \in Nat, <1>5, <2>2, HandedKept
  <2> QED BY <2>0, <2>1, <2>3
<1>13. \A p \in Ends \cap (1 .. x) : ts[Rank(p)] = s.map[IdAt(p)]
    BY <1>4, <1>8 DEF Waiting
<1>14. ASSUME NEW j \in Id, s.map[j] # 0, \A p \in Ends \cap (1 .. x) : IdAt(p) # j
       PROVE  OpenWith(s.heap[s.map[j]], Own(j, x + 1))
  <2>1. CASE j = i
      BY <1>10, <2>1 DEF t
  <2>2. CASE j # i
    <3>1. s.map[j] = mp[j] /\ mp[j] \in 1 .. Len(h)
        BY <1>8, <1>14, <2>2
    <3>2. s.map[j] # t
        BY <1>1, <1>6, <1>14, <2>2 DEF MapIs, t
    <3>3. s.heap[s.map[j]] = h[mp[j]]
        BY <1>8, <3>1, <3>2
    <3>4. OpenWith(h[mp[j]], Own(j, x))
        BY <1>14, <3>1 DEF Waiting
    <3> QED BY <1>2, <2>2, <3>3, <3>4
  <2> QED BY <2>1, <2>2
<1> QED BY <1>6, <1>7, <1>12, <1>13, <1>14 DEF Waiting

\* A sentinel hands out the trace of its id.
LEMMA WaitingEnds ==
    ASSUME strategy \in Inputs, strategy.kind = "sentinel", SentinelsDelimit,
           NEW x \in Nat, x + 1 \in Positions, SymbolAt(x + 1) = Sentinel,
           NEW h \in Seq(Trace), NEW mp \in [Id -> 0 .. Len(h)],
           NEW ts, Waiting(mp, h, ts, x),
           NEW t, t = mp[IdAt(x + 1)], t # 0, NEW g, g = Finalized(h, t)
    PROVE  Waiting(mp, g, Append(ts, t), x + 1)
<1> DEFINE i == IdAt(x + 1)
           us == Append(ts, t)
<1>1. i \in Id /\ t \in 1 .. Len(h) /\ Len(h) \in Nat
  <2>1. i \in Id
      BY InputTypes
  <2>2. t \in 0 .. Len(h)
      BY <2>1
  <2>3. Len(h) \in Nat
      OBVIOUS
  <2> QED BY <2>1, <2>2, <2>3
<1>2. /\ Own(i, x) \in SUBSET Positions /\ \A q \in Own(i, x) : q < x + 1
      /\ Own(i, x + 1) = Own(i, x) \cup {x + 1}
      /\ \A j : j # i => Own(j, x + 1) = Own(j, x)
    BY OwnIs
<1>3. ~Kept(x + 1) /\ x + 1 \in Ends /\ ~Counts(x + 1)
      /\ TraceAt(x + 1) = SymbolsAt(Own(i, x + 1))
    BY SentinelEnds
<1>4. \A p \in Ends \cap (1 .. x) : IdAt(p) # i
    BY NothingBehind
<1>5. MapIs(mp, x) /\ Handed(ts, h, x)
    BY DEF Waiting
<1>6. /\ Ends \cap (1 .. (x + 1)) = (Ends \cap (1 .. x)) \cup {x + 1}
      /\ Rank(x + 1) = Rank(x) + 1
    BY <1>3, RankNext
<1>7. Len(g) = Len(h) /\ \A u \in 1 .. Len(h) : u # t => g[u] = h[u]
    BY <1>1, FinalizedIs
<1>8. TraceAt(x + 1) = SymbolsAt(Own(i, x))
    BY <1>2, <1>3, SymbolsAtAppend
<1> HIDE DEF i
<1>9. ClosedWith(g[t], TraceAt(x + 1))
  <2>1. OpenWith(h[t], Own(i, x))
      BY <1>1, <1>4 DEF Waiting, i
  <2> QED BY <1>1, <1>2, <1>8, <2>1, OpenIsClosed
<1>10. \A k \in 1 .. Len(ts) : ts[k] # t
    BY <1>1, <1>4, HandedOthers DEF i
<1>11. Handed(ts, g, x)
  <2>1. \A k \in 1 .. Len(ts) : ts[k] \in 1 .. Len(h) => g[ts[k]] = h[ts[k]]
      BY <1>7, <1>10
  <2> QED BY <1>1, <1>5, <1>7, <2>1, HandedKept
<1>12. Handed(us, g, x + 1) /\ us[Rank(x + 1)] = t
  <2>1. t \in 1 .. Len(g) /\ Len(g) \in Nat
      BY <1>1, <1>7
  <2> QED BY ONLY strategy \in Inputs, x \in Nat, <1>3, <1>9, <1>11, <2>1, HandedNext DEF us
<1>13. ASSUME NEW p \in Ends \cap (1 .. x)
       PROVE  us[Rank(p)] = mp[IdAt(p)]
  <2>1. Rank(p) \in 1 .. Rank(x)
      BY RankRange
  <2>2. ts \in Seq(Nat) /\ Len(ts) = Rank(x) /\ t \in Nat
      BY <1>1, <1>5 DEF Handed
  <2>3. us[Rank(p)] = ts[Rank(p)]
      BY <2>1, <2>2, AppendProperties
  <2> QED BY <2>3 DEF Waiting
<1> HIDE DEF us
<1>14. MapIs(mp, x + 1)
  <2>1. 1 .. (x + 1) = (1 .. x) \cup {x + 1}
      OBVIOUS
  <2> QED BY <1>3, <1>5, <2>1 DEF MapIs
<1>15. ASSUME NEW j \in Id, mp[j] # 0, \A p \in Ends \cap (1 .. (x + 1)) : IdAt(p) # j
       PROVE  OpenWith(g[mp[j]], Own(j, x + 1))
  <2>1. j # i /\ \A p \in Ends \cap (1 .. x) : IdAt(p) # j
      BY <1>6, <1>15 DEF i
  <2>2. mp[j] # t /\ mp[j] \in 1 .. Len(h)
    <3>1. mp[j] # t
        BY <1>1, <1>5, <1>15, <2>1 DEF MapIs, i
    <3> QED BY <1>1, <1>15, <3>1
  <2>3. OpenWith(h[mp[j]], Own(j, x))
      BY <1>15, <2>1 DEF Waiting
  <2>4. g[mp[j]] = h[mp[j]] /\ Own(j, x + 1) = Own(j, x)
      BY <1>2, <1>7, <2>1, <2>2
  <2> QED BY <2>3, <2>4
<1>16. \A p \in Ends \cap (1 .. (x + 1)) : us[Rank(p)] = mp[IdAt(p)]
    BY <1>6, <1>12, <1>13 DEF i
<1> QED BY <1>12, <1>14, <1>15, <1>16 DEF Waiting, us

SentinelExact ==
    strategy.kind = "sentinel" /\ SentinelsDelimit =>
       /\ status \in {"reading", "done"} /\ (status = "done" => input = <<>>)
       /\ Waiting(trace_map, heap, traces, Consumed)

\* What is said of the traces of a sentinel strategy is said of them in every state.
LEMMA WaitingFixed ==
    ASSUME UNCHANGED strategy
    PROVE  \A mp, h, ts, x : Waiting(mp, h, ts, x)' <=> Waiting(mp, h, ts, x)
BY InputFixed, MapFixed DEF Waiting

\* A symbol read.
LEMMA SentinelReads ==
    ASSUME ReaderInv, SentinelExact, SentinelSymbol, SentinelsDelimit
    PROVE  SentinelExact'
<1> DEFINE s == Processed(Reading, Head(input))
           x == Consumed
           t == trace_map[IdAt(x + 1)]
<1>1. /\ strategy.kind = "sentinel" /\ status = "reading" /\ input # <<>>
      /\ input' = Tail(input) /\ UNCHANGED strategy
    BY DEF SentinelSymbol, Using
<1>2. /\ strategy \in Inputs /\ x \in Nat /\ x + 1 \in Positions
      /\ Consumed' = x + 1
      /\ heap \in Seq(Trace) /\ trace_map \in [Id -> 0 .. Len(heap)]
      /\ s = Processed([heap |-> heap, map |-> trace_map], strategy.symbols[x + 1])
    BY <1>1, NextSymbol
<1>3. Head(input).id = IdAt(x + 1) /\ Head(input).symb = SymbolAt(x + 1)
    BY <1>1, NextSymbol
<1>4. IF SymbolAt(x + 1) # Sentinel
      THEN heap' = s.heap /\ trace_map' = s.map /\ UNCHANGED <<traces, status>>
      ELSE /\ UNCHANGED trace_map
           /\ t # 0 => /\ heap' = Finalized(heap, t) /\ traces' = Append(traces, t)
                       /\ UNCHANGED status
    BY <1>3 DEF SentinelSymbol, Return
<1>5. Waiting(trace_map, heap, traces, x)
    BY <1>1 DEF SentinelExact
<1> HIDE DEF s, x
<1>6. SUFFICES status' = status /\ Waiting(trace_map', heap', traces', x + 1)
  <2>1. Waiting(trace_map, heap, traces, Consumed)'
      BY <1>1, <1>2, <1>6, WaitingFixed
  <2> QED BY <1>1, <1>6, <2>1 DEF SentinelExact
<1>7. CASE SymbolAt(x + 1) # Sentinel
  <2>1. Waiting(s.map, s.heap, traces, x + 1)
      BY ONLY <1>1, <1>2, <1>5, <1>7, SentinelsDelimit, WaitingNext
  <2> QED BY <1>4, <1>7, <2>1
<1>8. CASE SymbolAt(x + 1) = Sentinel
  <2>1. t # 0
    <3>1. /\ strategy.symbols \in Seq(InputSymbol) /\ x + 1 \in DOMAIN strategy.symbols
          /\ strategy.symbols[x + 1].symb = Sentinel
        BY <1>2, <1>8, InputsAssumption, InputTypes DEF SymbolAt
    <3>2. PICK q \in 1 .. (x + 1) - 1 :
             IdAt(q) = IdAt(x + 1) /\ strategy.symbols[q].symb # Sentinel
        BY <3>1, SymbolBefore
    <3>3. q \in 1 .. x /\ Kept(q)
        BY <1>2, <3>2 DEF Kept, SymbolAt
    <3> QED BY <1>5, <3>2, <3>3 DEF Waiting, MapIs
  <2>2. heap' = Finalized(heap, t) /\ traces' = Append(traces, t) /\ status' = status
        /\ trace_map' = trace_map
      BY <1>4, <1>8, <2>1
  <2> HIDE DEF Trace
  <2>3. Waiting(trace_map, Finalized(heap, t), Append(traces, t), x + 1)
      BY ONLY <1>1, <1>2, <1>5, <1>8, <2>1, SentinelsDelimit, WaitingEnds
  <2> QED BY <2>2, <2>3
<1> QED BY <1>7, <1>8

\* Every step keeps what is said of sentinel strategies.
LEMMA SentinelStep ==
    ASSUME ReaderInv, SentinelExact, [Next]_vars
    PROVE  SentinelExact'
<1> SUFFICES ASSUME strategy.kind = "sentinel", SentinelsDelimit, UNCHANGED strategy
             PROVE  SentinelExact'
  <2>1. UNCHANGED strategy
      BY DEF Next, vars, Stopped, ConsumeSymbol, ListTraces, ReadListed, AllListed,
             InOrderSymbol, InOrderLast, InOrderEnd, SentinelSymbol, SentinelEnd,
             WindowSymbol, WindowEnd
  <2> QED BY <2>1, DelimitStays DEF SentinelExact
<1>1. CASE \/ UNCHANGED vars
           \/ SentinelEnd
  <2>1. /\ UNCHANGED <<strategy, input, heap, trace_map, traces>>
        /\ status' = status \/ (status' = "done" /\ input = <<>>)
      BY <1>1 DEF vars, SentinelEnd, Using
  <2>2. Consumed' = Consumed
      BY <2>1, ReadSoFar
  <2>3. Waiting(trace_map, heap, traces, Consumed)'
              <=> Waiting(trace_map, heap, traces, Consumed)
      BY <2>1, <2>2, WaitingFixed
  <2>4. status' \in {"reading", "done"}
      BY <2>1 DEF SentinelExact
  <2> QED BY <2>1, <2>2, <2>3, <2>4 DEF SentinelExact
<1>2. CASE SentinelSymbol
    BY <1>2, SentinelReads
<1>3. CASE \/ ConsumeSymbol \/ ListTraces \/ ReadListed \/ AllListed
           \/ InOrderSymbol \/ InOrderLast \/ InOrderEnd \/ WindowSymbol \/ WindowEnd
    BY <1>3 DEF ConsumeSymbol, ListTraces, ReadListed, AllListed, InOrderSymbol, InOrderLast,
                InOrderEnd, WindowSymbol, WindowEnd, Using, SentinelExact
<1> QED BY <1>1, <1>2, <1>3 DEF Next, Stopped

-----------------------------------------------------------------------------
(* slidingwindow.                                                          *)

\* What multiples of a stride are.
LEMMA Strides ==
    ASSUME NEW a \in Nat, NEW b \in Nat, NEW s \in Nat \ {0}
    PROVE  /\ a * s \in Nat /\ b * s \in Nat /\ a <= a * s
           /\ (a + 1) * s = a * s + s
           /\ a < b => a * s + s <= b * s
<1>1. a * s \in Nat /\ b * s \in Nat /\ (a + 1) * s = a * s + s
    OBVIOUS
<1>2. a <= a * s
  <2>1. PICK r \in Nat : s = r + 1
    <3>1. s - 1 \in Nat /\ s = (s - 1) + 1
        OBVIOUS
    <3> QED BY <3>1
  <2>2. a * s = a * r + a /\ a * r \in Nat
      BY <2>1
  <2> QED BY <2>2
<1>3. ASSUME a < b PROVE a * s + s <= b * s
  <2>1. PICK d \in Nat : b = (a + 1) + d
    <3>1. b - (a + 1) \in Nat /\ b = (a + 1) + (b - (a + 1))
        BY <1>3
    <3> QED BY <3>1
  <2>2. b * s = (a + 1) * s + d * s /\ d * s \in Nat
      BY <2>1
  <2> QED BY <1>1, <2>2
<1> QED BY <1>1, <1>2, <1>3

\* A window's trace has the symbols of its id.  It counts the last of them, those
\* behind its head: up to so many, and from the second window on at least so many.
Slides(tr, S, most, least) ==
    /\ Holds(tr.tails, S) /\ tr.length \in 0 .. most
    /\ \E k \in Nat : /\ Len(SymbolsAt(S)) = k * strategy.stride + tr.length
                      /\ k # 0 => least <= tr.length
    /\ SymbolsAt(S) # <<>> /\ tr.head # 0 => tr.head = Len(SymbolsAt(S)) - tr.length + 1

\* Between two symbols, and with a symbol more, when a window may be complete.
Waits(tr, S) == Slides(tr, S, strategy.size - 1, strategy.size - strategy.stride)
Moves(tr, S) == Slides(tr, S, strategy.size, strategy.size - strategy.stride + 1)

\* The size and the stride.
LEMMA WindowTypes ==
    ASSUME strategy \in Inputs, strategy.kind = "slidingwindow"
    PROVE  /\ strategy.size \in Nat \ {0} /\ strategy.stride \in Nat \ {0}
           /\ strategy.stride <= strategy.size
           /\ \A p : Kept(p)
<1>1. strategy.size \in Nat /\ strategy.stride \in 1 .. strategy.size
    BY InputsAssumption
<1>2. strategy.size \in Nat \ {0} /\ strategy.stride \in Nat \ {0}
      /\ strategy.stride <= strategy.size
    BY <1>1
<1> QED BY <1>2 DEF Kept

\* A symbol more.
LEMMA WindowMoves ==
    ASSUME strategy \in Inputs, strategy.kind = "slidingwindow", NEW p \in Positions,
           NEW h \in Seq(Trace), NEW mp \in [Id -> 0 .. Len(h)],
           NEW s, s = Processed([heap |-> h, map |-> mp], strategy.symbols[p]),
           NEW S \in SUBSET Positions, \A q \in S : q < p /\ IdAt(q) = IdAt(p),
           IF mp[IdAt(p)] = 0 THEN S = {} ELSE Waits(h[mp[IdAt(p)]], S)
    PROVE  Moves(s.heap[s.map[IdAt(p)]], S \cup {p})
<1> DEFINE t == s.map[IdAt(p)]
           size == strategy.size
           stride == strategy.stride
<1>0. Grown(s, h, mp, IdAt(p), TailAt(p), IF SymbolAt(p) = Empty THEN 0 ELSE 1)
    BY ProcessedAt
<1>1. size \in Nat \ {0} /\ stride \in Nat \ {0} /\ Kept(p)
    BY WindowTypes
<1> HIDE DEF size, stride
<1>2. CASE mp[IdAt(p)] = 0
  <2>1. /\ s.heap[t].tails = <<TailAt(p)>> /\ s.heap[t].head = 1
        /\ s.heap[t].length = IF SymbolAt(p) = Empty THEN 0 ELSE 1
      BY <1>0, <1>2 DEF Grown
  <2>2. S \cup {p} = {p}
      BY <1>2
  <2>3. Holds(<<TailAt(p)>>, {p}) /\ Len(SymbolsAt({p})) = IF SymbolAt(p) = Empty THEN 0 ELSE 1
      BY <1>1, HoldsFirst
  <2> DEFINE tr == s.heap[t]
             n == Len(SymbolsAt({p}))
  <2>4. tr.length = n /\ n \in {0, 1} /\ tr.head = 1 /\ Holds(tr.tails, {p})
      BY <2>1, <2>3
  <2> HIDE DEF tr, n
  <2>5. tr.length \in 0 .. size /\ tr.head = n - tr.length + 1
      BY <1>1, <2>4
  <2>6. n = 0 * stride + tr.length
      BY <1>1, <2>4
  <2>7. \E k \in Nat : n = k * stride + tr.length /\ (k # 0 => size - stride + 1 <= tr.length)
      BY <2>6
  <2>8. Moves(tr, {p})
      BY <2>4, <2>5, <2>7 DEF Moves, Slides, n, size, stride
  <2> QED BY <2>2, <2>8 DEF tr
<1>3. CASE mp[IdAt(p)] # 0
  <2>1. /\ t = mp[IdAt(p)]
        /\ s.heap[t].tails = Append(h[t].tails, TailAt(p))
        /\ s.heap[t].head = h[t].head /\ s.heap[t].length = h[t].length + 1
      BY <1>0, <1>3 DEF Grown
  <2> HIDE DEF t
  <2> DEFINE tr == s.heap[t]
             old == h[t]
             n == Len(SymbolsAt(S))
             m == Len(SymbolsAt(S \cup {p}))
  <2>2. Waits(old, S)
      BY <1>3, <2>1
  <2>3. /\ Holds(old.tails, S) /\ old.length \in 0 .. size - 1
        /\ \E k \in Nat : n = k * stride + old.length /\ (k # 0 => size - stride <= old.length)
        /\ SymbolsAt(S) # <<>> /\ old.head # 0 => old.head = n - old.length + 1
      BY <2>2 DEF Waits, Slides, size, stride
  <2>4. /\ SymbolsAt(S) # <<>> /\ m = n + 1
        /\ Holds(Append(old.tails, TailAt(p)), S \cup {p})
      BY <1>1, <2>3, HoldsMore
  <2>5. n \in Nat
      BY SymbolsAtIs
  <2>6. /\ tr.head = old.head /\ tr.length = old.length + 1
        /\ Holds(tr.tails, S \cup {p})
      BY <2>1, <2>4
  <2> HIDE DEF tr, old, n, m
  <2>7. old.length \in Int /\ tr.length \in 0 .. size
      BY <1>1, <2>3, <2>6
  <2>8. tr.head # 0 => tr.head = m - tr.length + 1
      BY <2>3, <2>4, <2>5, <2>6, <2>7
  <2>9. \E k \in Nat : m = k * stride + tr.length /\ (k # 0 => size - stride + 1 <= tr.length)
    <3>1. PICK k \in Nat : n = k * stride + old.length /\ (k # 0 => size - stride <= old.length)
        BY <2>3
    <3>2. PICK e \in Nat : e = k * stride
        BY <1>1
    <3>3. m = e + tr.length
        BY <2>4, <2>6, <2>7, <3>1, <3>2
    <3>4. k # 0 => size - stride + 1 <= tr.length
        BY <1>1, <2>6, <2>7, <3>1
    <3> QED BY <3>2, <3>3, <3>4
  <2>10. Moves(tr, S \cup {p})
      BY <2>6, <2>7, <2>8, <2>9 DEF Moves, Slides, m, size, stride
  <2> QED BY <2>10 DEF tr, t
<1> QED BY <1>2, <1>3

\* A window is complete just when one is promised.
LEMMA WindowEnds ==
    ASSUME strategy \in Inputs, strategy.kind = "slidingwindow", NEW p \in Positions,
           NEW tr, Moves(tr, Own(IdAt(p), p))
    PROVE  p \in Ends <=> tr.length = strategy.size
<1> DEFINE size == strategy.size
           stride == strategy.stride
           n == Len(strategy.symbols)
           m == Len(SymbolsAt(Own(IdAt(p), p)))
<1>1. size \in Nat \ {0} /\ stride \in Nat \ {0} /\ stride <= size /\ n \in Nat
    BY WindowTypes, InputTypes
<1>2. p \in Ends <=> \E w \in 0 .. n : m = w * stride + size
    BY DEF Ends, Positions
<1>3. m \in Nat /\ m <= n
  <2>1. Own(IdAt(p), p) \in SUBSET Positions
      BY <1>1 DEF Own, Positions
  <2> DEFINE own == {q \in Own(IdAt(p), p) : Counts(q)}
  <2>2. own \in SUBSET Positions
      BY <2>1
  <2>3. m = Cardinality(own) /\ m \in Nat
      BY <2>1, SymbolsAtIs
  <2>4. IsFiniteSet(Positions) /\ Cardinality(Positions) = n
    <3>1. 1 \in Int /\ n \in Int
        BY <1>1
    <3>2. IsFiniteSet(1 .. n) /\ Cardinality(1 .. n) = IF 1 > n THEN 0 ELSE n - 1 + 1
        BY <3>1, FS_Interval
    <3> QED BY <1>1, <3>2 DEF Positions
  <2> HIDE DEF own
  <2> QED BY <2>2, <2>3, <2>4, FS_Subset
<1>4. /\ tr.length \in 0 .. size
      /\ \E k \in Nat : m = k * stride + tr.length /\ (k # 0 => size - stride + 1 <= tr.length)
    BY DEF Moves, Slides
<1> HIDE DEF size, stride, n, m
<1>5. PICK k \in Nat : m = k * stride + tr.length /\ (k # 0 => size - stride + 1 <= tr.length)
    BY <1>4
<1>6. k * stride \in Nat /\ k <= k * stride
    BY <1>1, Strides
<1>7. ASSUME tr.length = size PROVE \E w \in 0 .. n : m = w * stride + size
  <2>1. k <= n
      BY <1>1, <1>3, <1>5, <1>6, <1>7
  <2>2. k \in 0 .. n
      BY <1>1, <2>1
  <2> QED BY <1>5, <1>7, <2>2
<1>8. ASSUME NEW w \in 0 .. n, m = w * stride + size PROVE tr.length = size
  <2>1. w \in Nat /\ w * stride \in Nat /\ (w < k => w * stride + stride <= k * stride)
        /\ (k < w => k * stride + stride <= w * stride)
      BY <1>1, Strides
  <2>2. PICK a \in Nat, b \in Nat : a = k * stride /\ b = w * stride
      BY <1>6, <2>1
  <2>3. a + tr.length = b + size /\ (w < k => b + stride <= a) /\ (k < w => a + stride <= b)
      BY <1>5, <1>8, <2>1, <2>2
  <2>4. CASE k = w
      BY <1>1, <1>4, <2>2, <2>3, <2>4
  <2>5. CASE k < w
      BY <1>1, <1>4, <2>3, <2>5
  <2>6. CASE w < k
    <3>1. k # 0
        BY <2>1, <2>6
    <3> QED BY <1>1, <1>4, <1>5, <2>3, <2>6, <3>1
  <2> QED BY <2>1, <2>4, <2>5, <2>6
<1> QED BY <1>2, <1>7, <1>8 DEF size

\* A window that is not complete.
LEMMA WindowWaits ==
    ASSUME strategy \in Inputs, strategy.kind = "slidingwindow", NEW tr, NEW S,
           Moves(tr, S), tr.length # strategy.size
    PROVE  Waits(tr, S)
<1> DEFINE size == strategy.size
           stride == strategy.stride
           n == Len(SymbolsAt(S))
<1>1. size \in Nat \ {0} /\ stride \in Nat \ {0}
    BY WindowTypes
<1>2. /\ Holds(tr.tails, S) /\ tr.length \in 0 .. size
      /\ \E k \in Nat : n = k * stride + tr.length /\ (k # 0 => size - stride + 1 <= tr.length)
      /\ SymbolsAt(S) # <<>> /\ tr.head # 0 => tr.head = n - tr.length + 1
    BY DEF Moves, Slides
<1>3. tr.length # size
    OBVIOUS
<1> HIDE DEF size, stride, n
<1>4. tr.length \in 0 .. size - 1
    BY <1>1, <1>2, <1>3
<1>5. \E k \in Nat : n = k * stride + tr.length /\ (k # 0 => size - stride <= tr.length)
  <2>1. PICK k \in Nat : n = k * stride + tr.length /\ (k # 0 => size - stride + 1 <= tr.length)
      BY <1>2
  <2>2. k # 0 => size - stride <= tr.length
      BY <1>1, <1>2, <2>1
  <2> QED BY <2>1, <2>2
<1> QED BY <1>2, <1>4, <1>5 DEF Waits, Slides, size, stride, n

\* A complete window is the promised one, and takes the stride from its trace.
LEMMA WindowTaken ==
    ASSUME strategy \in Inputs, strategy.kind = "slidingwindow", NEW p \in Positions,
           NEW tr \in Trace, Moves(tr, Own(IdAt(p), p)),
           tr.length = strategy.size, tr.head # 0
    PROVE  /\ Reachable(tr) = TraceAt(p) /\ TraceAt(p) \in Seq(TailSymbol)
           /\ TraceAt(p) # <<>> /\ \A k \in 1 .. Len(TraceAt(p)) : TraceAt(p)[k] # Final
           /\ Waits(PopFront(tr, strategy.stride), Own(IdAt(p), p))
<1> DEFINE size == strategy.size
           stride == strategy.stride
           S == Own(IdAt(p), p)
           w == SymbolsAt(S)
           m == Len(w)
<1>1. size \in Nat \ {0} /\ stride \in Nat \ {0} /\ stride <= size
    BY WindowTypes
<1>2. S \in SUBSET Positions
  <2>1. Len(strategy.symbols) \in Nat
      BY InputTypes
  <2> QED BY <2>1 DEF Own, Positions
<1> HIDE DEF S
<1>3. w \in Seq(TailSymbol) /\ m \in Nat
    BY <1>2, SymbolsAtIs
<1>4. /\ Holds(tr.tails, S)
      /\ \E k \in Nat : m = k * stride + size
      /\ w # <<>> /\ tr.head # 0 => tr.head = m - size + 1
    BY DEF Moves, Slides, S
<1>5. TraceAt(p) = SubSeq(w, m - size + 1, m)
    BY DEF TraceAt, S
<1> HIDE DEF size, stride, m
<1>6. PICK k \in Nat : m = k * stride + size
    BY <1>4
<1>7. k * stride \in Nat /\ (k + 1) * stride = k * stride + stride /\ size <= m
  <2>1. k * stride \in Nat /\ (k + 1) * stride = k * stride + stride
      BY <1>1, Strides
  <2> QED BY <1>1, <1>6, <2>1
<1>8. w # <<>> /\ tr.tails = w /\ (\A j \in 1 .. m : w[j] # Final) /\ tr.head = m - size + 1
  <2>1. w # <<>>
      BY <1>1, <1>3, <1>7 DEF m
  <2>2. tr.tails = w /\ \A j \in 1 .. m : w[j] # Final
      BY <1>4, <2>1 DEF Holds, m
  <2> QED BY <1>4, <2>1, <2>2
<1> HIDE DEF w
<1>9. Reachable(tr) = TraceAt(p)
    BY <1>5, <1>8 DEF Reachable, m
<1>10. /\ TraceAt(p) \in Seq(TailSymbol) /\ Len(TraceAt(p)) = size
       /\ \A j \in 1 .. size : TraceAt(p)[j] = w[m - size + 1 + j - 1]
  <2> DEFINE a == m - size + 1
  <2>1. a \in 1 .. Len(w) + 1 /\ m \in 0 .. Len(w) /\ m - a + 1 = size /\ a <= m
      BY <1>1, <1>3, <1>7 DEF m
  <2> HIDE DEF a
  <2>2. /\ SubSeq(w, a, m) \in Seq(TailSymbol)
        /\ Len(SubSeq(w, a, m)) = IF a <= m THEN m - a + 1 ELSE 0
        /\ \A j \in 1 .. m - a + 1 : SubSeq(w, a, m)[j] = w[a + j - 1]
      BY <1>3, <2>1, SubSeqProperties
  <2> QED BY <1>5, <2>1, <2>2 DEF a
<1>11. TraceAt(p) # <<>> /\ \A j \in 1 .. Len(TraceAt(p)) : TraceAt(p)[j] # Final
  <2>1. ASSUME NEW j \in 1 .. size PROVE TraceAt(p)[j] # Final
    <3>1. m - size + 1 + j - 1 \in 1 .. m
        BY <1>1, <1>3, <1>7
    <3> QED BY <1>8, <1>10, <3>1
  <2>2. Len(TraceAt(p)) # 0
      BY <1>1, <1>10
  <2> QED BY <1>10, <2>1, <2>2
<1>12. Waits(PopFront(tr, stride), S)
  <2> DEFINE new == PopFront(tr, stride)
  <2>1. Len(tr.tails) - tr.head + 1 = size /\ tr.length = size
      BY <1>1, <1>3, <1>8 DEF m, size
  <2>2. /\ new.tails = tr.tails /\ new.length = size - stride
        /\ new.head = IF stride < size THEN tr.head + stride ELSE 0
    <3>1. CASE stride < size
        BY <1>1, <2>1, <3>1 DEF PopFront, Trace
    <3>2. CASE ~(stride < size)
      <4>1. stride = size
          BY <1>1, <3>2
      <4>2. new = [tr EXCEPT !.head = 0, !.length = tr.length - size]
          BY <2>1, <3>2 DEF PopFront
      <4> QED BY <2>1, <3>2, <4>1, <4>2 DEF Trace
    <3> QED BY <3>1, <3>2
  <2> HIDE DEF new
  <2>3. Holds(new.tails, S)
      BY <1>4, <2>2
  <2>4. new.length \in 0 .. size - 1 /\ size - stride <= new.length
      BY <1>1, <2>2
  <2>5. m = (k + 1) * stride + new.length
    <3>1. PICK e \in Nat : e = k * stride
        BY <1>7
    <3> QED BY <1>1, <1>6, <1>7, <2>2, <3>1
  <2>6. \E j \in Nat : m = j * stride + new.length /\ (j # 0 => size - stride <= new.length)
    <3>1. k + 1 \in Nat
        OBVIOUS
    <3> QED BY <2>4, <2>5, <3>1
  <2>7. new.head # 0 => new.head = m - new.length + 1
      BY <1>1, <1>3, <1>8, <2>2
  <2> QED BY <2>3, <2>4, <2>6, <2>7 DEF Waits, Slides, m, w, size, stride, new
<1> QED BY <1>9, <1>10, <1>11, <1>12 DEF S, stride

\* The windows handed out are in order and apart from the traces of the map.
Sliding(mp, h, ts, x) ==
    /\ MapIs(mp, x) /\ Handed(ts, h, x)
    /\ \A k \in 1 .. Len(ts) : h[ts[k]].sequence = k - 1
    /\ \A i \in Id :
          mp[i] # 0 => Waits(h[mp[i]], Own(i, x)) /\ \A k \in 1 .. Len(ts) : ts[k] # mp[i]

\* The symbol behind the x-th has been put on its trace and no window returned yet.
SymbolRead(mp, h, ts, x) ==
    /\ MapIs(mp, x + 1) /\ Handed(ts, h, x)
    /\ \A k \in 1 .. Len(ts) : h[ts[k]].sequence = k - 1
    /\ Moves(h[mp[IdAt(x + 1)]], Own(IdAt(x + 1), x + 1))
    /\ \A i \in Id :
          mp[i] # 0 => /\ i # IdAt(x + 1) => Waits(h[mp[i]], Own(i, x + 1))
                       /\ \A k \in 1 .. Len(ts) : ts[k] # mp[i]

\* A symbol is put on its trace.
LEMMA WindowReads ==
    ASSUME strategy \in Inputs, strategy.kind = "slidingwindow",
           NEW x \in Nat, x + 1 \in Positions,
           NEW h \in Seq(Trace), NEW mp \in [Id -> 0 .. Len(h)],
           NEW s, s = Processed([heap |-> h, map |-> mp], strategy.symbols[x + 1]),
           NEW ts, Sliding(mp, h, ts, x)
    PROVE  SymbolRead(s.map, s.heap, ts, x)
<1> DEFINE i == IdAt(x + 1)
           t == s.map[i]
<1>1. /\ i \in Id
      /\ Grown(s, h, mp, i, TailAt(x + 1), IF SymbolAt(x + 1) = Empty THEN 0 ELSE 1)
    BY ProcessedAt
<1>2. /\ Own(i, x) \in SUBSET Positions /\ \A q \in Own(i, x) : q < x + 1 /\ IdAt(q) = i
      /\ Own(i, x + 1) = Own(i, x) \cup {x + 1}
      /\ \A j : j # i => Own(j, x + 1) = Own(j, x)
    BY OwnIs
<1>3. Kept(x + 1)
    BY WindowTypes
<1>4. MapIs(mp, x) /\ Handed(ts, h, x)
    BY DEF Sliding
<1>5. MapIs(s.map, x + 1)
  <2> HIDE DEF Trace
  <2> QED BY <1>3, <1>4, MapNext
<1>6. /\ Len(h) \in Nat /\ Len(s.heap) \in Nat /\ Len(h) <= Len(s.heap) /\ t # 0
      /\ \A j \in Id : j # i => s.map[j] = mp[j]
      /\ \A u \in 1 .. Len(h) : u # t => s.heap[u] = h[u]
      /\ t = mp[i] \/ (mp[i] = 0 /\ t = Len(h) + 1)
    BY <1>1 DEF Grown
<1> HIDE DEF t
<1>7. Moves(s.heap[t], Own(i, x + 1))
  <2>1. PICK S \in SUBSET Positions : S = Own(i, x)
      BY <1>2
  <2>2. IF mp[i] = 0 THEN S = {} ELSE Waits(h[mp[i]], S)
    <3>1. CASE mp[i] # 0
        BY <1>1, <2>1, <3>1 DEF Sliding
    <3>2. CASE mp[i] = 0
      <4> SUFFICES ASSUME NEW q \in Own(i, x) PROVE FALSE
          BY <2>1, <3>2
      <4>1. q \in 1 .. x /\ IdAt(q) = i
          BY DEF Own
      <4>2. Kept(q)
          BY WindowTypes
      <4> QED BY <1>4, <3>2, <4>1, <4>2 DEF MapIs
    <3> QED BY <3>1, <3>2
  <2>3. \A q \in S : q < x + 1 /\ IdAt(q) = IdAt(x + 1)
      BY <1>2, <2>1
  <2> HIDE DEF Trace
  <2>4. Moves(s.heap[s.map[IdAt(x + 1)]], S \cup {x + 1})
      BY <2>2, <2>3, WindowMoves
  <2> QED BY <1>2, <2>1, <2>4 DEF t
<1>8. \A k \in 1 .. Len(ts) : ts[k] \in 1 .. Len(h)
    BY <1>4, HandedRange
<1>9. \A k \in 1 .. Len(ts) : ts[k] # t /\ s.heap[ts[k]] = h[ts[k]]
  <2> SUFFICES ASSUME NEW k \in 1 .. Len(ts) PROVE ts[k] # t /\ s.heap[ts[k]] = h[ts[k]]
      OBVIOUS
  <2>1. ts[k] # t
    <3>1. CASE mp[i] # 0 /\ t = mp[i]
        BY <1>1, <3>1 DEF Sliding
    <3>2. CASE t = Len(h) + 1
        BY <1>6, <1>8, <3>2
    <3> QED BY <1>6, <3>1, <3>2
  <2> QED BY <1>6, <1>8, <2>1
<1>10. Handed(ts, s.heap, x)
  <2>1. PICK f : f = s.heap
      OBVIOUS
  <2>2. /\ Len(f) \in Nat /\ Len(h) \in Nat /\ Len(h) <= Len(f)
        /\ \A k \in 1 .. Len(ts) : ts[k] \in 1 .. Len(h) => f[ts[k]] = h[ts[k]]
      BY <1>6, <1>9, <2>1
  <2>3. Handed(ts, f, x)
      BY ONLY strategy \in Inputs, x \in Nat, <1>4, <2>2, HandedKept
  <2> QED BY <2>1, <2>3
<1>11. \A k \in 1 .. Len(ts) : s.heap[ts[k]].sequence = k - 1
    BY <1>9 DEF Sliding
<1>12. ASSUME NEW j \in Id, s.map[j] # 0
       PROVE  /\ j # i => Waits(s.heap[s.map[j]], Own(j, x + 1))
              /\ \A k \in 1 .. Len(ts) : ts[k] # s.map[j]
  <2>1. CASE j = i
      BY <1>9, <2>1 DEF t
  <2>2. CASE j # i
    <3>1. s.map[j] = mp[j] /\ mp[j] \in 1 .. Len(h)
        BY <1>6, <1>12, <2>2
    <3>2. s.map[j] # t
        BY <1>1, <1>5, <1>12, <2>2 DEF MapIs, t
    <3>3. s.heap[s.map[j]] = h[mp[j]]
        BY <1>6, <3>1, <3>2
    <3>4. Waits(h[mp[j]], Own(j, x)) /\ \A k \in 1 .. Len(ts) : ts[k] # mp[j]
        BY <1>12, <3>1 DEF Sliding
    <3> QED BY <1>2, <2>2, <3>1, <3>3, <3>4
  <2> QED BY <2>1, <2>2
<1> QED BY <1>5, <1>7, <1>10, <1>11, <1>12 DEF SymbolRead, t

\* No window is complete.
LEMMA WindowStays ==
    ASSUME strategy \in Inputs, strategy.kind = "slidingwindow",
           NEW x \in Nat, x + 1 \in Positions, NEW h \in Seq(Trace), NEW mp, NEW ts,
           SymbolRead(mp, h, ts, x), h[mp[IdAt(x + 1)]].length # strategy.size
    PROVE  Sliding(mp, h, ts, x + 1)
<1> DEFINE i == IdAt(x + 1)
<1>1. Moves(h[mp[i]], Own(i, x + 1))
    BY DEF SymbolRead
<1>2. x + 1 \notin Ends
    BY <1>1, WindowEnds
<1>3. Waits(h[mp[i]], Own(i, x + 1))
    BY <1>1, WindowWaits
<1>4. Handed(ts, h, x + 1)
  <2>1. PICK y \in Nat : y = x + 1
      OBVIOUS
  <2>2. Handed(ts, h, x) /\ Len(h) \in Nat /\ Len(h) <= Len(h) /\ y \notin Ends
      BY <1>2, <2>1 DEF SymbolRead
  <2>3. Handed(ts, h, y)
      BY ONLY strategy \in Inputs, x \in Nat, <2>1, <2>2, HandedKept
  <2> QED BY <2>1, <2>3
<1> QED BY <1>3, <1>4 DEF SymbolRead, Sliding

\* The complete window is handed out, and its trace goes on without its front.
LEMMA WindowReturned ==
    ASSUME strategy \in Inputs, strategy.kind = "slidingwindow",
           NEW x \in Nat, x + 1 \in Positions,
           NEW h \in Seq(Trace), NEW mp \in [Id -> 0 .. Len(h)], NEW ts,
           SymbolRead(mp, h, ts, x),
           NEW t, t = mp[IdAt(x + 1)], t \in 1 .. Len(h),
           h[t].length = strategy.size, h[t].head # 0,
           NEW window, window = [tails |-> Reachable(h[t]), head |-> 1,
                                 length |-> Len(Reachable(h[t])), sequence |-> Len(ts)],
           NEW more, more = Append([h EXCEPT ![t] = PopFront(@, strategy.stride)], window),
           NEW g, g = Finalized(more, Len(h) + 1)
    PROVE  Sliding(mp, g, Append(ts, Len(h) + 1), x + 1)
<1> DEFINE i == IdAt(x + 1)
           w == TraceAt(x + 1)
           v == Len(h) + 1
           us == Append(ts, v)
           popped == PopFront(h[t], strategy.stride)
           left == [h EXCEPT ![t] = popped]
<1>1. /\ i \in Id /\ Len(h) \in Nat /\ h[t] \in Trace /\ v \in Nat
      /\ strategy.stride \in Nat
  <2>1. i \in Id
      BY InputTypes
  <2>2. strategy.stride \in Nat
      BY WindowTypes
  <2>3. Len(h) \in Nat /\ h[t] \in Trace
    <3> HIDE DEF Trace
    <3> QED OBVIOUS
  <2> QED BY <2>1, <2>2, <2>3
<1>2. /\ MapIs(mp, x + 1) /\ Handed(ts, h, x)
      /\ \A k \in 1 .. Len(ts) : h[ts[k]].sequence = k - 1
      /\ Moves(h[t], Own(i, x + 1))
      /\ \A j \in Id : mp[j] # 0 => /\ j # i => Waits(h[mp[j]], Own(j, x + 1))
                                    /\ \A k \in 1 .. Len(ts) : ts[k] # mp[j]
    BY DEF SymbolRead
<1>3. x + 1 \in Ends
    BY <1>2, WindowEnds
<1>4. /\ Reachable(h[t]) = w /\ w \in Seq(TailSymbol)
      /\ w # <<>> /\ \A k \in 1 .. Len(w) : w[k] # Final
      /\ Waits(popped, Own(i, x + 1))
    BY <1>1, <1>2, WindowTaken
<1>5. popped \in Trace
    BY <1>1, PopFrontTyped
<1>6. ts \in Seq(Nat) /\ Len(ts) \in Nat
    BY <1>2 DEF Handed
<1>7. /\ window \in Trace /\ window.tails = w /\ window.head = 1
      /\ window.length = Len(w) /\ window.sequence = Len(ts) /\ Len(w) \in Nat
    BY <1>4, <1>6 DEF Trace
<1> HIDE DEF popped, w
<1>8. /\ left \in Seq(Trace) /\ Len(left) = Len(h)
      /\ \A u \in 1 .. Len(h) : left[u] = IF u = t THEN popped ELSE h[u]
  <2> HIDE DEF Trace
  <2> QED BY <1>5, ExceptSeq
<1>9. more = Append(left, window)
    BY DEF popped
<1> HIDE DEF left
<1>10. /\ more \in Seq(Trace) /\ Len(more) = v /\ more[v] = window
       /\ \A u \in 1 .. Len(h) : more[u] = IF u = t THEN popped ELSE h[u]
  <2> HIDE DEF Trace
  <2> QED BY ONLY <1>7, <1>8, <1>9, AppendProperties
<1>11. v \in 1 .. Len(more) /\ v \notin 1 .. Len(h)
    BY <1>1, <1>10
<1>12. /\ Len(g) = v /\ (\A u \in 1 .. Len(h) : g[u] = IF u = t THEN popped ELSE h[u])
       /\ g[v].head = 1 /\ g[v].length = Len(w) /\ g[v].sequence = Len(ts)
       /\ g[v].tails = Append(w, Final)
  <2>1. /\ Len(g) = Len(more)
        /\ \A u \in 1 .. Len(more) : u # v => g[u] = more[u]
        /\ g[v].head = more[v].head /\ g[v].length = more[v].length
        /\ g[v].sequence = more[v].sequence
        /\ g[v].tails = IF Last(more[v].tails) = Final THEN more[v].tails
                        ELSE Append(more[v].tails, Final)
    <3> HIDE DEF Trace
    <3>1. g = Finalized(more, v)
        OBVIOUS
    <3> HIDE DEF v
    <3> QED BY ONLY <1>10, <1>11, <3>1, FinalizedIs
  <2>2. Last(w) # Final
    <3>1. Last(w) = w[Len(w)] /\ Len(w) \in 1 .. Len(w)
        BY <1>4, <1>7 DEF Last
    <3> QED BY <1>4, <3>1 DEF w
  <2>3. \A u \in 1 .. Len(h) : u \in 1 .. Len(more) /\ u # v
      BY <1>1, <1>10
  <2> HIDE DEF v
  <2>4. Len(g) = v /\ \A u \in 1 .. Len(h) : g[u] = IF u = t THEN popped ELSE h[u]
      BY ONLY <1>10, <2>1, <2>3
  <2>5. /\ g[v].head = 1 /\ g[v].length = Len(w) /\ g[v].sequence = Len(ts)
        /\ g[v].tails = Append(w, Final)
      BY ONLY <1>7, <1>10, <2>1, <2>2
  <2> QED BY ONLY <2>4, <2>5
<1>13. ClosedWith(g[v], w)
  <2>1. Append(w, Final) \in Seq(TailSymbol)
    <3>1. Final \in TailSymbol
        BY DEF TailSymbol
    <3> QED BY <1>4, <3>1, AppendProperties DEF w
  <2>2. PICK tr : tr = g[v]
      OBVIOUS
  <2>3. Reachable(tr) = Append(w, Final)
      BY <1>12, <2>1, <2>2, ReachableFirst
  <2> QED BY <1>12, <2>2, <2>3 DEF ClosedWith
<1> HIDE DEF v
<1>14. \A k \in 1 .. Len(ts) : ts[k] \in 1 .. Len(h) /\ ts[k] # t /\ ts[k] # v
                                /\ g[ts[k]] = h[ts[k]]
  <2>1. \A k \in 1 .. Len(ts) : ts[k] \in 1 .. Len(h)
      BY <1>2, HandedRange
  <2>2. \A k \in 1 .. Len(ts) : ts[k] # t
    <3>1. t # 0
        BY <1>1
    <3> QED BY <1>1, <1>2, <3>1
  <2> QED BY <1>11, <1>12, <2>1, <2>2
<1>15. Handed(ts, g, x)
  <2>1. Len(g) \in Nat /\ Len(h) \in Nat /\ Len(h) <= Len(g)
    <3>1. Len(g) = Len(h) + 1
        BY ONLY <1>12 DEF v
    <3> QED BY ONLY <1>1, <3>1
  <2>2. \A k \in 1 .. Len(ts) : ts[k] \in 1 .. Len(h) => g[ts[k]] = h[ts[k]]
      BY <1>14
  <2> QED BY ONLY strategy \in Inputs, x \in Nat, <1>2, <2>1, <2>2, HandedKept
<1>16. Handed(us, g, x + 1)
  <2>1. Len(g) \in Nat /\ v \in 1 .. Len(g) /\ ClosedWith(g[v], TraceAt(x + 1))
      BY <1>1, <1>10, <1>11, <1>12, <1>13 DEF w
  <2> QED BY ONLY strategy \in Inputs, x \in Nat, <1>3, <1>15, <2>1, HandedNext DEF us
<1>17. /\ Len(us) = Len(ts) + 1 /\ us[Len(ts) + 1] = v
       /\ \A k \in 1 .. Len(ts) : us[k] = ts[k]
       /\ \A k \in 1 .. Len(us) : k \in 1 .. Len(ts) \/ k = Len(ts) + 1
  <2>1. /\ Len(us) = Len(ts) + 1 /\ us[Len(ts) + 1] = v
        /\ \A k \in 1 .. Len(ts) : us[k] = ts[k]
      BY <1>1, <1>6, AppendProperties DEF v
  <2>2. \A k \in 1 .. Len(ts) + 1 : k \in 1 .. Len(ts) \/ k = Len(ts) + 1
      BY <1>6
  <2> QED BY <2>1, <2>2
<1> HIDE DEF us
<1>18. \A k \in 1 .. Len(us) : g[us[k]].sequence = k - 1
  <2> SUFFICES ASSUME NEW k \in 1 .. Len(us) PROVE g[us[k]].sequence = k - 1
      OBVIOUS
  <2>1. CASE k \in 1 .. Len(ts)
      BY ONLY <1>2, <1>14, <1>17, <2>1
  <2>2. CASE k = Len(ts) + 1
    <3>1. us[k] = v /\ g[v].sequence = Len(ts)
        BY ONLY <1>12, <1>17, <2>2
    <3> QED BY ONLY <1>6, <2>2, <3>1
  <2> QED BY <1>17, <2>1, <2>2
<1>19. ASSUME NEW j \in Id, mp[j] # 0
       PROVE  /\ Waits(g[mp[j]], Own(j, x + 1))
              /\ \A k \in 1 .. Len(us) : us[k] # mp[j]
  <2>1. mp[j] \in 1 .. Len(h)
      BY <1>1, <1>19
  <2>2. \A k \in 1 .. Len(us) : us[k] # mp[j]
      BY <1>2, <1>11, <1>17, <1>19, <2>1
  <2>3. CASE j = i
      BY <1>4, <1>12, <2>1, <2>2, <2>3
  <2>4. CASE j # i
    <3>1. mp[j] # t
        BY <1>1, <1>2, <1>19, <2>4 DEF MapIs
    <3> QED BY <1>2, <1>12, <1>19, <2>1, <2>2, <2>4, <3>1
  <2> QED BY <2>3, <2>4
<1> QED BY <1>2, <1>16, <1>18, <1>19 DEF Sliding, us, v

\* A crash hands out no window: those before it were.
WindowExact ==
    strategy.kind = "slidingwindow" =>
       /\ status \in {"reading", "done", "crashed"} /\ (status = "done" => input = <<>>)
       /\ status = "crashed" => Consumed # 0 /\ Handed(traces, heap, Consumed - 1)
       /\ status # "crashed" => Sliding(trace_map, heap, traces, Consumed)

\* What is said of the windows is said of them in every state.
LEMMA SlidingFixed ==
    ASSUME UNCHANGED strategy
    PROVE  \A mp, h, ts, x : Sliding(mp, h, ts, x)' <=> Sliding(mp, h, ts, x)
<1>1. \A tr, S : Waits(tr, S)' <=> Waits(tr, S)
    BY InputFixed DEF Waits, Slides
<1> QED BY <1>1, InputFixed, MapFixed DEF Sliding

\* A symbol read.
LEMMA WindowExactReads ==
    ASSUME ReaderInv, WindowExact, WindowSymbol
    PROVE  WindowExact'
<1> DEFINE s == Processed(Reading, Head(input))
           x == Consumed
           t == s.map[IdAt(x + 1)]
           tr == s.heap[t]
           window == [tails |-> Reachable(tr), head |-> 1,
                      length |-> Len(Reachable(tr)), sequence |-> Len(traces)]
           more == Append([s.heap EXCEPT ![t] = PopFront(@, strategy.stride)], window)
           v == Len(s.heap) + 1
<1>1. /\ strategy.kind = "slidingwindow" /\ status = "reading" /\ input # <<>>
      /\ input' = Tail(input) /\ UNCHANGED strategy
    BY DEF WindowSymbol, Using
<1>2. /\ strategy \in Inputs /\ x \in Nat /\ x + 1 \in Positions
      /\ Consumed' = x + 1
      /\ heap \in Seq(Trace) /\ trace_map \in [Id -> 0 .. Len(heap)]
      /\ s = Processed([heap |-> heap, map |-> trace_map], strategy.symbols[x + 1])
    BY <1>1, NextSymbol
<1>3. Head(input).id = IdAt(x + 1)
    BY <1>1, NextSymbol
<1>4. /\ s.heap \in Seq(Trace) /\ s.map \in [Id -> 0 .. Len(s.heap)]
      /\ t \in 1 .. Len(s.heap)
    BY <1>1, <1>3, HeadProcessed DEF ReaderInv
<1>5. /\ trace_map' = s.map
      /\ IF tr.length # strategy.size
         THEN heap' = s.heap /\ UNCHANGED <<traces, status>>
         ELSE IF tr.head = 0
         THEN heap' = s.heap /\ status' = "crashed" /\ UNCHANGED traces
         ELSE /\ heap' = Finalized(more, v) /\ traces' = Append(traces, v)
              /\ UNCHANGED status
    BY <1>3 DEF WindowSymbol, Return
<1>6. SymbolRead(s.map, s.heap, traces, x)
  <2>1. Sliding(trace_map, heap, traces, x)
      BY <1>1 DEF WindowExact
  <2> HIDE DEF s, x, Trace
  <2> QED BY ONLY <1>1, <1>2, <2>1, WindowReads
<1>7. (x + 1) - 1 = x /\ x + 1 # 0
    BY <1>2
<1> HIDE DEF s, x
<1>8. CASE tr.length # strategy.size
  <2>1. Sliding(s.map, s.heap, traces, x + 1)
      BY ONLY <1>1, <1>2, <1>4, <1>6, <1>8, WindowStays
  <2>2. Sliding(trace_map, heap, traces, Consumed)'
      BY <1>1, <1>2, <1>5, <1>8, <2>1, SlidingFixed
  <2> QED BY <1>1, <1>5, <1>8, <2>2 DEF WindowExact
<1>9. CASE tr.length = strategy.size /\ tr.head = 0
  <2>1. Handed(traces, s.heap, x)
      BY <1>6 DEF SymbolRead
  <2>2. heap' = s.heap /\ status' = "crashed" /\ traces' = traces
      BY <1>5, <1>9
  <2>3. Handed(traces, heap, Consumed - 1)'
      BY <1>1, <1>2, <1>7, <2>1, <2>2, InputFixed
  <2>4. Consumed' # 0
      BY <1>2, <1>7
  <2> QED BY <1>1, <2>2, <2>3, <2>4 DEF WindowExact
<1>10. CASE tr.length = strategy.size /\ tr.head # 0
  <2>1. heap' = Finalized(more, v) /\ traces' = Append(traces, v) /\ status' = status
      BY <1>5, <1>10
  <2>2. Sliding(s.map, Finalized(more, v), Append(traces, v), x + 1)
    <3>1. PICK h \in Seq(Trace) : h = s.heap
        BY <1>4
    <3>2. PICK mp \in [Id -> 0 .. Len(h)] : mp = s.map
        BY <1>4, <3>1
    <3>3. /\ SymbolRead(mp, h, traces, x) /\ t = mp[IdAt(x + 1)] /\ t \in 1 .. Len(h)
          /\ h[t].length = strategy.size /\ h[t].head # 0
          /\ window = [tails |-> Reachable(h[t]), head |-> 1,
                       length |-> Len(Reachable(h[t])), sequence |-> Len(traces)]
          /\ more = Append([h EXCEPT ![t] = PopFront(@, strategy.stride)], window)
        BY <1>4, <1>6, <1>10, <3>1, <3>2
    <3> DEFINE g == Finalized(more, Len(h) + 1)
    <3>4. g = Finalized(more, Len(h) + 1)
        OBVIOUS
    <3> HIDE DEF t, tr, window, more, g, Trace
    <3>5. Sliding(mp, g, Append(traces, Len(h) + 1), x + 1)
        BY ONLY <1>1, <1>2, <3>3, <3>4, WindowReturned
    <3> QED BY <3>1, <3>2, <3>5 DEF g
  <2> HIDE DEF more, v
  <2>3. Sliding(trace_map, heap, traces, Consumed)'
      BY <1>1, <1>2, <1>5, <2>1, <2>2, SlidingFixed
  <2> QED BY <1>1, <2>1, <2>3 DEF WindowExact
<1> QED BY <1>8, <1>9, <1>10

\* Sorted, the windows are in the order in which they were returned.
LEMMA WindowsSorted ==
    ASSUME ReaderInv, WindowExact, WindowEnd
    PROVE  WindowExact'
<1>1. /\ strategy.kind = "slidingwindow" /\ status = "reading" /\ input = <<>>
      /\ traces' = Sorted(traces) /\ status' = "done"
      /\ UNCHANGED <<strategy, input, heap, trace_map>>
    BY DEF WindowEnd, Using
<1>2. Sliding(trace_map, heap, traces, Consumed)
    BY <1>1 DEF WindowExact
<1>3. Sorted(traces) = traces
  <2>1. traces \in Seq(Nat) /\ \A k \in 1 .. Len(traces) : heap[traces[k]].sequence = k - 1
      BY <1>2 DEF Sliding, Handed
  <2> QED BY <2>1, SortedIs
<1>4. Sliding(trace_map, heap, traces, Consumed)'
  <2>1. Consumed' = Consumed
      BY <1>1, ReadSoFar
  <2> QED BY <1>1, <1>2, <1>3, <2>1, SlidingFixed
<1> QED BY <1>1, <1>4 DEF WindowExact

\* Every step keeps what is said of sliding windows.
LEMMA WindowStep ==
    ASSUME ReaderInv, WindowExact, [Next]_vars
    PROVE  WindowExact'
<1> SUFFICES ASSUME strategy.kind = "slidingwindow", UNCHANGED strategy PROVE WindowExact'
  <2>1. UNCHANGED strategy
      BY DEF Next, vars, Stopped, ConsumeSymbol, ListTraces, ReadListed, AllListed,
             InOrderSymbol, InOrderLast, InOrderEnd, SentinelSymbol, SentinelEnd,
             WindowSymbol, WindowEnd
  <2> QED BY <2>1 DEF WindowExact
<1>1. CASE UNCHANGED vars
  <2>1. UNCHANGED <<strategy, input, heap, trace_map, traces, status>>
      BY <1>1 DEF vars
  <2>2. Consumed' = Consumed
      BY <2>1, ReadSoFar
  <2>3. /\ Sliding(trace_map, heap, traces, Consumed)'
              <=> Sliding(trace_map, heap, traces, Consumed)
        /\ Handed(traces, heap, Consumed - 1)' <=> Handed(traces, heap, Consumed - 1)
      BY <2>1, <2>2, SlidingFixed, InputFixed
  <2> QED BY <2>1, <2>2, <2>3 DEF WindowExact
<1>2. CASE WindowSymbol
    BY <1>2, WindowExactReads
<1>3. CASE WindowEnd
    BY <1>3, WindowsSorted
<1>4. CASE \/ ConsumeSymbol \/ ListTraces \/ ReadListed \/ AllListed
           \/ InOrderSymbol \/ InOrderLast \/ InOrderEnd \/ SentinelSymbol \/ SentinelEnd
    BY <1>4 DEF ConsumeSymbol, ListTraces, ReadListed, AllListed, InOrderSymbol, InOrderLast,
                InOrderEnd, SentinelSymbol, SentinelEnd, Using, WindowExact
<1> QED BY <1>1, <1>2, <1>3, <1>4 DEF Next, Stopped

-----------------------------------------------------------------------------
(* What is handed out.                                                     *)

ExactInv == ReadAllExact /\ InOrderExact /\ SentinelExact /\ WindowExact

\* Before anything is read, nothing is promised.
LEMMA InitExact ==
    ASSUME Init
    PROVE  ExactInv
<1>1. /\ strategy \in Inputs /\ status = "reading" /\ traces = <<>> /\ heap = <<>>
      /\ trace_map = EmptyMap /\ last_id = None
    BY DEF Init
<1>2. Consumed = 0
  <2>1. Len(strategy.symbols) \in Nat
      BY <1>1, InputTypes
  <2> QED BY <2>1 DEF Init, Consumed
<1>3. Ends \cap (1 .. 0) = {} /\ Rank(0) = 0
    BY <1>1, RankZero
<1>4. \A i \in Id : trace_map[i] = 0
    BY <1>1 DEF EmptyMap
<1>5. Handed(traces, heap, 0)
    BY <1>1, <1>3 DEF Handed
<1>6. MapIs(trace_map, 0)
  <2>1. \A q \in 1 .. 0 : FALSE
      OBVIOUS
  <2> QED BY <1>4, <2>1 DEF MapIs
<1>7. FirstsIn(trace_map, heap, 0, {})
    BY <1>1, <1>3 DEF FirstsIn
<1>8. Len(traces) = 0 /\ \A k \in 1 .. Len(traces) : FALSE
    BY <1>1
<1>9. ReadAllExact
    BY <1>1, <1>2, <1>6, <1>7 DEF ReadAllExact
<1>10. InOrderExact
    BY <1>1, <1>2, <1>5 DEF InOrderExact
<1>11. SentinelExact
    BY <1>1, <1>2, <1>3, <1>4, <1>5, <1>6 DEF SentinelExact, Waiting
<1>12. WindowExact
    BY <1>1, <1>2, <1>4, <1>5, <1>6, <1>8 DEF WindowExact, Sliding
<1> QED BY <1>9, <1>10, <1>11, <1>12 DEF ExactInv

\* What the invariant says of the traces handed out: they are those promised for the
\* first so many symbols, all of them at the end.
LEMMA HandedInTime ==
    ASSUME ReaderInv, ExactInv, strategy.kind = "sentinel" => SentinelsDelimit,
           status # "listed"
    PROVE  \E x \in 0 .. Len(strategy.symbols) :
              Handed(traces, heap, x) /\ (status = "done" => x = Len(strategy.symbols))
<1>1. /\ strategy \in Inputs /\ Consumed \in 0 .. Len(strategy.symbols) /\ Consumed \in Nat
      /\ input = <<>> => Consumed = Len(strategy.symbols)
    BY ReadSoFar
<1>2. /\ Len(strategy.symbols) \in Nat
      /\ 0 \in 0 .. Len(strategy.symbols)
      /\ Consumed # 0 => Consumed - 1 \in 0 .. Len(strategy.symbols)
  <2>1. Len(strategy.symbols) \in Nat
      BY <1>1, InputTypes
  <2> QED BY <1>1, <2>1
<1>3. CASE strategy.kind = "read_all"
  <2>1. CASE status = "reading"
    <3>1. Handed(traces, heap, 0)
        BY <1>1, <1>3, <2>1, RankZero DEF ExactInv, ReadAllExact, Handed
    <3> QED BY <1>2, <2>1, <3>1
  <2>2. CASE status = "done"
      BY <1>1, <1>3, <2>2 DEF ExactInv, ReadAllExact
  <2> QED BY <1>3, <2>1, <2>2 DEF ExactInv, ReadAllExact
<1>4. CASE strategy.kind = "in_order"
  <2>1. CASE last_id = None
      BY <1>1, <1>4, <2>1 DEF ExactInv, InOrderExact
  <2>2. CASE last_id # None
    <3>1. Consumed # 0 /\ Handed(traces, heap, Consumed - 1) /\ status # "done"
        BY <1>4, <2>2 DEF ExactInv, InOrderExact, BeingRead
    <3> QED BY <1>2, <3>1
  <2> QED BY <2>1, <2>2
<1>5. CASE strategy.kind = "sentinel"
    BY <1>1, <1>5 DEF ExactInv, SentinelExact, Waiting
<1>6. CASE strategy.kind = "slidingwindow"
  <2>1. CASE status = "crashed"
      BY <1>2, <1>6, <2>1 DEF ExactInv, WindowExact
  <2>2. CASE status # "crashed"
      BY <1>1, <1>6, <2>2 DEF ExactInv, WindowExact, Sliding
  <2> QED BY <2>1, <2>2
<1> QED BY <1>1, <1>3, <1>4, <1>5, <1>6, InputsAssumption

\* Traces handed out in time are the promised ones.
LEMMA ExactInvExact ==
    ASSUME ReaderInv, ExactInv
    PROVE  ReadExact
<1> SUFFICES ASSUME strategy.kind = "sentinel" => SentinelsDelimit, status # "listed"
             PROVE  /\ Len(traces) <= Len(Promised)
                    /\ status = "done" => Len(traces) = Len(Promised)
                    /\ \A k \in DOMAIN traces : ClosedWith(heap[traces[k]], Promised[k])
    BY DEF ReadExact, ClosedWith
<1>1. PICK x \in 0 .. Len(strategy.symbols) :
         Handed(traces, heap, x) /\ (status = "done" => x = Len(strategy.symbols))
    BY HandedInTime
<1>2. strategy \in Inputs
    BY ReadSoFar
<1>3. /\ Len(traces) <= Len(Promised) /\ DOMAIN traces = 1 .. Len(traces)
      /\ x = Len(strategy.symbols) => Len(traces) = Len(Promised)
      /\ \A k \in 1 .. Len(traces) : ClosedWith(heap[traces[k]], Promised[k])
    BY <1>1, <1>2, HandedIsPromised
<1> QED BY <1>1, <1>3

\* For every input, however the symbols of its traces are interleaved, every window
\* and stride: the traces a strategy hands out are those it promises, in their order,
\* each with all its symbols and one final tail, and at the end none is missing.
THEOREM ReadsExactly == Spec => []ReadExact
<1>1. Init => ReaderInv /\ ExactInv
    BY InitInv, InitExact
<1>2. (ReaderInv /\ ExactInv) /\ [Next]_vars => (ReaderInv /\ ExactInv)'
  <2> SUFFICES ASSUME ReaderInv, ExactInv, [Next]_vars PROVE ReaderInv' /\ ExactInv'
      OBVIOUS
  <2>1. ReaderInv'
      BY StepInv
  <2>2. ReadAllExact' /\ InOrderExact'
      BY ReadAllStep, InOrderStep DEF ExactInv
  <2>3. SentinelExact' /\ WindowExact'
      BY SentinelStep, WindowStep DEF ExactInv
  <2> QED BY <2>1, <2>2, <2>3 DEF ExactInv
<1>3. ReaderInv /\ ExactInv => ReadExact
    BY ExactInvExact
<1> QED BY <1>1, <1>2, <1>3, PTL DEF Spec

=============================================================================
