--------------------------- MODULE ReaderStrategy ---------------------------
(***************************************************************************)
(* Reading traces: a parser yields symbols one by one, each with the id of *)
(* the trace it belongs to; a reader strategy (reader_strategy.cpp) builds *)
(* traces from them in a map by id and hands them to inputdata one at a    *)
(* time, which closes each with a final tail (inputdata::read_trace).      *)
(* Traces are shared by reference, so they live in a heap here.            *)
(***************************************************************************)
EXTENDS Integers, SequencesExt, Sorting

CONSTANTS
    Id, Symbol,
    None,
    Empty,    \* the missing symbol an empty line of input stands for
    Final,    \* the symbol -1 of a final tail
    Sentinel, \* the symbol a sentinel_symbol strategy waits for
    Inputs    \* what a run may start from: [kind, size, stride, symbols]

InputSymbol == [id : Id, symb : Symbol \cup {Empty, Sentinel}]

\* An empty line is the only symbol of its trace (abbadingoparser.cpp:107).
EmptyAlone(symbols) ==
    \A p, q \in DOMAIN symbols :
       symbols[p].symb = Empty /\ symbols[q].id = symbols[p].id => q = p

\* The constructor of slidingwindow refuses other strides.
ASSUME InputsAssumption ==
    \A in \in Inputs :
       /\ in.kind \in {"read_all", "in_order", "sentinel", "slidingwindow"}
       /\ in.symbols \in Seq(InputSymbol) /\ EmptyAlone(in.symbols)
       /\ in.kind = "slidingwindow" => in.size \in Nat /\ in.stride \in 1 .. in.size

ASSUME SymbolsAssumption ==
    /\ {Empty, Final, Sentinel} \cap Symbol = {}
    /\ Empty # Final /\ Empty # Sentinel /\ Final # Sentinel
    /\ None \notin Id

VARIABLES
    strategy,  \* one of Inputs; size and stride are those of sliding windows
    input,     \* what the parser has left: symbols [id, symb]
    heap,      \* traces: [tails, head, length, sequence]; tails are all tails
               \* ever put on the trace, head the position of the first one
               \* (0 for the null pointer)
    trace_map, \* id -> position in heap, 0 for none
    last_id,   \* in_order: the id of the trace being read
    list,      \* read_all: the traces to return
    traces,    \* inputdata::traces: positions in heap, in order of reading
    status     \* "reading", "listed" (read_all), "done" or "crashed"

vars == <<strategy, input, heap, trace_map, last_id, list, traces, status>>

EmptyMap == [i \in Id |-> 0]

\* What can be reached from the head of a trace.
Reachable(tr) ==
    IF tr.head = 0 THEN <<>> ELSE SubSeq(tr.tails, tr.head, Len(tr.tails))

-----------------------------------------------------------------------------
(* Operations on the heap and the map, as a pair s = [heap, map].          *)

\* trace::push_back, of a tail that counts.
PushBack(tr, tail) == [tr EXCEPT !.tails = Append(@, tail), !.length = @ + 1]

\* process_symbol_info: append a tail to the trace of the symbol's id, which is
\* created when there is none.  The missing symbol has the tail symbol -1 and
\* does not count for the length.
Processed(s, c) ==
    LET t    == s.map[c.id]
        tail == IF c.symb = Empty THEN Final ELSE c.symb
    IN IF t # 0
       THEN [s EXCEPT !.heap[t] = PushBack(@, tail)]
       ELSE [heap |-> Append(s.heap, [tails |-> <<tail>>, head |-> 1,
                                      length |-> IF c.symb = Empty THEN 0 ELSE 1,
                                      sequence |-> Len(s.heap)]),
             map  |-> [s.map EXCEPT ![c.id] = Len(s.heap) + 1]]

Reading == [heap |-> heap, map |-> trace_map]

\* Mutant: also when the last tail is a final one.
FinalizedAgain(h, t) == [h EXCEPT ![t].tails = Append(@, Final)]

\* trace::finalize, which reads the symbol of the last tail.
Finalized(h, t) ==
    IF Last(h[t].tails) = Final THEN h
    ELSE [h EXCEPT ![t].tails = Append(@, Final)]

\* Mutant: one tail more than the stride.
PopOneMore(tr, stride) ==
    IF stride < Len(tr.tails) - tr.head
    THEN [tr EXCEPT !.head = @ + stride + 1, !.length = @ - stride]
    ELSE [tr EXCEPT !.head = 0, !.length = @ - stride]

\* trace::pop_front, stride times: the null pointer stays what it is.
PopFront(tr, stride) ==
    LET left == Len(tr.tails) - tr.head + 1
    IN IF stride < left
       THEN [tr EXCEPT !.head = @ + stride, !.length = @ - stride]
       ELSE [tr EXCEPT !.head = 0, !.length = @ - left]

\* inputdata::read and read_slidingwindow sort by sequence number at the end; no
\* trace is there twice.
Sorted(ts) == SortedSeq(ToSet(ts), LAMBDA t, u : heap[t].sequence < heap[u].sequence)

-----------------------------------------------------------------------------
(* One iteration of the loop of read() each; a trace that is returned is   *)
(* finalized and appended to traces.                                       *)

Init ==
    /\ strategy \in Inputs
    /\ input = strategy.symbols
    /\ heap = <<>>
    /\ trace_map = EmptyMap
    /\ last_id = None
    /\ list = <<>>
    /\ traces = <<>>
    /\ status = "reading"

Using(kind) == strategy.kind = kind /\ status = "reading"

\* Return trace t of the heap h.
Return(h, t) ==
    /\ heap' = Finalized(h, t)
    /\ traces' = Append(traces, t)

\* read_all::consume_all, one symbol.
ConsumeSymbol ==
    /\ Using("read_all") /\ input # <<>>
    /\ LET s == Processed(Reading, Head(input))
       IN heap' = s.heap /\ trace_map' = s.map
    /\ input' = Tail(input)
    /\ UNCHANGED <<strategy, last_id, list, traces, status>>

\* The end of consume_all: the traces in the order of the unordered map.
ListTraces ==
    /\ Using("read_all") /\ input = <<>>
    /\ list' \in SetToSeqs({trace_map[i] : i \in {j \in Id : trace_map[j] # 0}})
    /\ status' = "listed"
    /\ UNCHANGED <<strategy, input, heap, trace_map, last_id, traces>>

ReadListed ==
    /\ status = "listed" /\ list # <<>>
    /\ Return(heap, Head(list))
    /\ list' = Tail(list)
    /\ UNCHANGED <<strategy, input, trace_map, last_id, status>>

AllListed ==
    /\ status = "listed" /\ list = <<>>
    /\ traces' = Sorted(traces)
    /\ status' = "done"
    /\ UNCHANGED <<strategy, input, heap, trace_map, last_id, list>>

\* in_order::read, one symbol: one that belongs to another trace than the last
\* ends the last.
InOrderSymbol ==
    /\ Using("in_order") /\ input # <<>>
    /\ LET c == Head(input)
           s == Processed(Reading, c)
           switched == last_id \notin {None, c.id}
       IN /\ last_id' = c.id
          /\ IF switched
             THEN Return(s.heap, s.map[last_id])
                  /\ trace_map' = [s.map EXCEPT ![last_id] = 0]
             ELSE heap' = s.heap /\ trace_map' = s.map /\ UNCHANGED traces
    /\ input' = Tail(input)
    /\ UNCHANGED <<strategy, list, status>>

\* At the end of the input the last trace is returned, once.
InOrderLast ==
    /\ Using("in_order") /\ input = <<>> /\ last_id # None
    /\ Return(heap, trace_map[last_id])
    /\ trace_map' = EmptyMap
    /\ last_id' = None
    /\ UNCHANGED <<strategy, input, list, status>>

InOrderEnd ==
    /\ Using("in_order") /\ input = <<>> /\ last_id = None
    /\ status' = "done"
    /\ UNCHANGED <<strategy, input, heap, trace_map, last_id, list, traces>>

\* sentinel_symbol::read, one symbol: a sentinel returns the trace of its id,
\* which stays in the map; of an id not seen before, map::at throws.
SentinelSymbol ==
    /\ Using("sentinel") /\ input # <<>>
    /\ LET c == Head(input)
           s == Processed(Reading, c)
       IN IF c.symb # Sentinel
          THEN heap' = s.heap /\ trace_map' = s.map /\ UNCHANGED <<traces, status>>
          ELSE /\ UNCHANGED trace_map
               /\ IF trace_map[c.id] = 0
                  THEN status' = "crashed" /\ UNCHANGED <<heap, traces>>
                  ELSE Return(heap, trace_map[c.id]) /\ UNCHANGED status
    /\ input' = Tail(input)
    /\ UNCHANGED <<strategy, last_id, list>>

SentinelEnd ==
    /\ Using("sentinel") /\ input = <<>>
    /\ status' = "done"
    /\ UNCHANGED <<strategy, input, heap, trace_map, last_id, list, traces>>

\* slidingwindow::read, one symbol: when its trace is as long as the window a
\* copy of what the trace holds is returned and the trace loses its front.
\* The copy of a trace without head has no last tail for finalize to read.
WindowSymbol ==
    /\ Using("slidingwindow") /\ input # <<>>
    /\ LET c == Head(input)
           s == Processed(Reading, c)
           t == s.map[c.id]
           tr == s.heap[t]
           window == [tails |-> Reachable(tr), head |-> 1,
                      length |-> Len(Reachable(tr)), sequence |-> Len(traces)]
       IN /\ trace_map' = s.map
          /\ IF tr.length # strategy.size
             THEN heap' = s.heap /\ UNCHANGED <<traces, status>>
             ELSE IF tr.head = 0
             THEN heap' = s.heap /\ status' = "crashed" /\ UNCHANGED traces
             ELSE /\ Return(Append([s.heap EXCEPT ![t] = PopFront(@, strategy.stride)], window),
                            Len(s.heap) + 1)
                  /\ UNCHANGED status
    /\ input' = Tail(input)
    /\ UNCHANGED <<strategy, last_id, list>>

WindowEnd ==
    /\ Using("slidingwindow") /\ input = <<>>
    /\ traces' = Sorted(traces)
    /\ status' = "done"
    /\ UNCHANGED <<strategy, input, heap, trace_map, last_id, list>>

Stopped == status \in {"done", "crashed"} /\ UNCHANGED vars

Next ==
    \/ ConsumeSymbol \/ ListTraces \/ ReadListed \/ AllListed
    \/ InOrderSymbol \/ InOrderLast \/ InOrderEnd
    \/ SentinelSymbol \/ SentinelEnd
    \/ WindowSymbol \/ WindowEnd
    \/ Stopped

Spec == Init /\ [][Next]_vars

-----------------------------------------------------------------------------
(* Properties.                                                             *)

IdAt(p) == strategy.symbols[p].id
SymbolAt(p) == strategy.symbols[p].symb

\* An empty line is no symbol, nor is a sentinel where one is waited for.
Counts(p) == SymbolAt(p) # Empty /\ (strategy.kind = "sentinel" => SymbolAt(p) # Sentinel)

Ascending(S) == SortedSeq(S, <)

\* The symbols at the positions in S.
SymbolsAt(S) ==
    LET own == Ascending({p \in S : Counts(p)})
    IN [k \in 1 .. Len(own) |-> SymbolAt(own[k])]

\* The positions up to p of the id of p: all, and those since another id was read.
Own(i, p) == {q \in 1 .. p : IdAt(q) = i}
Block(p) == {q \in 1 .. p : \A r \in q .. p : IdAt(r) = IdAt(p)}

\* A strategy promises a trace for each of these positions: the first of an id, the
\* last before another id, a sentinel, the last of a window.
Ends ==
    LET n == Len(strategy.symbols) IN
    {p \in 1 .. n :
       CASE strategy.kind = "read_all" -> \A q \in 1 .. p - 1 : IdAt(q) # IdAt(p)
         [] strategy.kind = "in_order" -> p = n \/ IdAt(p + 1) # IdAt(p)
         [] strategy.kind = "sentinel" -> SymbolAt(p) = Sentinel
         [] strategy.kind = "slidingwindow" ->
               \E w \in 0 .. n :
                  Len(SymbolsAt(Own(IdAt(p), p))) = w * strategy.stride + strategy.size}

TraceAt(p) ==
    CASE strategy.kind = "read_all" -> SymbolsAt(Own(IdAt(p), Len(strategy.symbols)))
      [] strategy.kind = "in_order" -> SymbolsAt(Block(p))
      [] strategy.kind = "sentinel" -> SymbolsAt(Own(IdAt(p), p))
      [] strategy.kind = "slidingwindow" ->
            LET all == SymbolsAt(Own(IdAt(p), p))
            IN SubSeq(all, Len(all) - strategy.size + 1, Len(all))

\* The traces a strategy promises (the comments in reader_strategy.h:24 and 55-67,
\* the examples of inputdata.cpp:40), as a function of the whole input.
Promised ==
    LET ends == Ascending(Ends) IN [k \in 1 .. Len(ends) |-> TraceAt(ends[k])]

\* An id has one sentinel and nothing after it, and something before it.
SentinelsDelimit ==
    \A p \in DOMAIN strategy.symbols :
       SymbolAt(p) = Sentinel =>
          /\ \E q \in 1 .. p - 1 : IdAt(q) = IdAt(p)
          /\ \A q \in DOMAIN strategy.symbols : IdAt(q) = IdAt(p) => q <= p

\* Whatever the order in which the symbols of several traces arrive, the traces
\* handed out so far are the promised ones, each closed by one final tail, of the
\* right length, and they stay what they were when they were handed out; at the
\* end none is missing.  (A sentinel strategy keeps a trace it handed out and goes
\* on appending to it: it promises this only for ids with a single sentinel.)
ReadExact ==
    (strategy.kind = "sentinel" => SentinelsDelimit) /\ status # "listed" =>
       /\ Len(traces) <= Len(Promised)
       /\ status = "done" => Len(traces) = Len(Promised)
       /\ \A k \in DOMAIN traces :
             LET tr == heap[traces[k]] IN
             Reachable(tr) = Append(Promised[k], Final) /\ tr.length = Len(Promised[k])

\* A window always finds the symbols it is to consist of, as long as the stride
\* is smaller than the window; in_order and read_all never look up a trace that
\* is not there.  (With a stride of the size of the window, which the constructor
\* accepts, the second window has no first tail and finalize reads a null pointer.)
NeverCrashes ==
    /\ status = "crashed" =>
          \/ strategy.kind = "slidingwindow" /\ strategy.stride = strategy.size
          \/ strategy.kind = "sentinel" /\ ~SentinelsDelimit
    /\ last_id # None => trace_map[last_id] # 0
=============================================================================
