---------------------------- MODULE ForEachBounded ----------------------------
(***************************************************************************)
(* for_each_bounded (src/workspace/parallel.rs): a future per item, at     *)
(* most `width` of them polled together by buffer_unordered, which takes   *)
(* the items in input order; the results arrive in completion order and    *)
(* are put back into input order before the first error ends the batch.    *)
(***************************************************************************)
EXTENDS SerialBatch, FiniteSets, Sequences

CONSTANT Widths  \* the widths a caller may ask for

ASSUME WidthAssumption == Widths \subseteq Nat

VARIABLES
    width,   \* the width asked for (diagnostics_parallelism)
    next,    \* the item the stream hands out next
    running, \* the items whose futures are in the buffer
    indexed  \* (index, result) pairs in completion order

batchVars == <<outcome, answer, width, next, running, indexed>>

\* Mutant: the width as it is, zero included.
WidthAsGiven == width

\* width.max(1)
Slots == IF width = 0 THEN 1 ELSE width

Pair == [index: Items, result: Outcome]

BatchTypeOK ==
    /\ outcome \in [Items -> Outcome \cup {Pending}]
    /\ width \in Widths
    /\ next \in 1..N + 1
    /\ running \subseteq Items
    /\ indexed \in Seq(Pair)

Completed == {indexed[k].index : k \in 1..Len(indexed)}

-----------------------------------------------------------------------------
BatchInit ==
    /\ SerialInit
    /\ width \in Widths
    /\ next = 1
    /\ running = {}
    /\ indexed = << >>

HasSlot == Cardinality(running) < Slots

ItemLeft == next <= N

\* buffer_unordered fills its free slots from the stream.
Start ==
    /\ ItemLeft
    /\ HasSlot
    /\ running' = running \cup {next}
    /\ next' = next + 1
    /\ UNCHANGED <<outcome, answer, width, indexed>>

\* Any running future may be the next to complete, well or badly.
Complete(i, result) ==
    /\ i \in running
    /\ running' = running \ {i}
    /\ outcome' = [outcome EXCEPT ![i] = result]
    /\ indexed' = Append(indexed, [index |-> i, result |-> result])
    /\ UNCHANGED <<answer, width, next>>

\* sort_unstable_by_key on the index: the indexes are the items, each once,
\* so the sorted list has at i the result with index i.
ResultOf(i) == LET k == CHOOSE k \in 1..Len(indexed) : indexed[k].index = i
               IN  indexed[k].result

\* Mutant: the pairs stay in completion order.
CompletionOrder == [i \in Items |-> indexed[i].result]

Sorted == [i \in Items |-> ResultOf(i)]

\* collect into a Result: all the values, or the first error of the list.
Collected(results) ==
    IF \A i \in Items : results[i].ok
    THEN [ok |-> TRUE, value |-> [i \in Items |-> results[i].value]]
    ELSE results[CHOOSE i \in Items : ~results[i].ok /\ \A j \in 1..i - 1 : results[j].ok]

Collect ==
    /\ answer = Pending
    /\ ~ItemLeft
    /\ running = {}
    /\ answer' = Collected(Sorted)
    /\ UNCHANGED <<outcome, width, next, running, indexed>>

BatchNext == Start \/ (\E i \in Items, result \in Outcome : Complete(i, result)) \/ Collect

BatchSpec     == BatchInit /\ [][BatchNext]_batchVars
FairBatchSpec == BatchSpec /\ WF_batchVars(BatchNext)

-----------------------------------------------------------------------------
(* Properties *)

\* Every item has exactly one place: not yet taken, running or completed,
\* and it completes once ("Every item runs to completion even when some
\* fail").
EachItemOnce ==
    /\ running \cap Completed = {}
    /\ running \cup Completed = 1..next - 1
    /\ \A k, l \in 1..Len(indexed) : indexed[k].index = indexed[l].index => k = l

\* The batch does what the serial loop does ("reproduces the serial loop's
\* all-or-nothing outcome").
ImplementsSerial == SerialSpec

\* The batch ends whatever the width, zero included, when every future does.
Finishes == <>(answer # Pending)
=============================================================================
