------------------------------ MODULE BatchProofs ------------------------------
(***************************************************************************)
(* Proofs about the bounded fan-out and its two callers.  About a batch    *)
(* (ForEachBounded), for any number of items, any width and any outcomes:  *)
(* every item runs once, and the batch implements the serial loop of       *)
(* SerialBatch.  About the diagnostic poll (WorkspaceReport) and the run   *)
(* without a client (Oneshot), for any files, listings and bounds: their   *)
(* types, that they are such batches, what the entries of a run tell of,   *)
(* and that the reports of a poll are merged as by a serial loop and name  *)
(* the versions they were computed from.  The values of a batch must hold  *)
(* what the items return.                                                  *)
(***************************************************************************)
EXTENDS MCReport, FiniteSetTheorems, SequenceTheorems, WellFoundedInduction, TLAPS

-----------------------------------------------------------------------------
(* A batch *)

\* What has an outcome stands in `indexed` with it.
Faithful ==
    /\ \A k \in 1..Len(indexed) : indexed[k].result = outcome[indexed[k].index]
    /\ \A i \in Items : outcome[i] = Pending <=> i \notin Completed

LEMMA SlotsPositive ==
    ASSUME width \in Widths
    PROVE  Slots \in Nat \ {0}
  BY WidthAssumption DEF Slots

LEMMA PendingIsNoOutcome == Pending \notin Outcome
  BY BatchAssumption DEF Pending, Outcome

LEMMA FiniteRunning ==
    ASSUME BatchTypeOK
    PROVE  IsFiniteSet(running) /\ Cardinality(running) \in Nat
  <1>1. IsFiniteSet(Items)
    BY BatchAssumption, FS_Interval DEF Items
  <1>2. IsFiniteSet(running)
    BY <1>1, FS_Subset DEF BatchTypeOK
  <1> QED
    BY <1>2, FS_CardinalityType

LEMMA BatchTypeInit ==
    ASSUME BatchInit
    PROVE  BatchTypeOK
  BY BatchAssumption DEF BatchInit, SerialInit, BatchTypeOK, Items

LEMMA CompleteAppends ==
    ASSUME BatchTypeOK, NEW i \in Items, NEW result \in Outcome, Complete(i, result)
    PROVE  /\ indexed' \in Seq(Pair)
           /\ Len(indexed') = Len(indexed) + 1
           /\ \A k \in 1..Len(indexed) : indexed'[k] = indexed[k]
           /\ indexed'[Len(indexed) + 1] = [index |-> i, result |-> result]
  <1>1. [index |-> i, result |-> result] \in Pair
    BY DEF BatchTypeOK, Pair
  <1>2. indexed \in Seq(Pair)
    BY DEF BatchTypeOK
  <1> QED
    BY <1>1, <1>2, AppendProperties DEF Complete

LEMMA BatchTypeStep ==
    ASSUME BatchTypeOK, [BatchNext]_batchVars
    PROVE  BatchTypeOK'
  <1>1. CASE Start
    BY <1>1, BatchAssumption DEF Start, ItemLeft, BatchTypeOK, Items
  <1>2. ASSUME NEW i \in Items, NEW result \in Outcome, Complete(i, result)
        PROVE  BatchTypeOK'
    BY <1>2, CompleteAppends DEF Complete, BatchTypeOK
  <1>3. CASE Collect
    BY <1>3 DEF Collect, BatchTypeOK
  <1>4. CASE UNCHANGED batchVars
    BY <1>4 DEF batchVars, BatchTypeOK
  <1> QED
    BY <1>1, <1>2, <1>3, <1>4 DEF BatchNext

-----------------------------------------------------------------------------
(* The bound and the places of the items *)

\* No more futures are in the buffer than it has slots.
WithinWidth == Cardinality(running) <= Slots

LEMMA WidthStep ==
    ASSUME BatchTypeOK, WithinWidth, [BatchNext]_batchVars
    PROVE  WithinWidth'
  <1>0. Slots \in Nat /\ IsFiniteSet(running) /\ Cardinality(running) \in Nat
    BY SlotsPositive, FiniteRunning DEF BatchTypeOK
  <1>1. CASE Start
    <2>1. Cardinality(running') <= Cardinality(running) + 1
      BY <1>0, <1>1, FS_AddElement DEF Start
    <2>2. Cardinality(running') \in Nat
      BY <1>0, <1>1, FS_AddElement, FS_CardinalityType DEF Start
    <2>3. Cardinality(running) < Slots /\ Slots' = Slots
      BY <1>1 DEF Start, HasSlot, Slots
    <2> QED
      BY <1>0, <2>1, <2>2, <2>3 DEF WithinWidth
  <1>2. ASSUME NEW i \in Items, NEW result \in Outcome, Complete(i, result)
        PROVE  WithinWidth'
    <2>1. Cardinality(running') = Cardinality(running) - 1
      BY <1>0, <1>2, FS_RemoveElement DEF Complete
    <2>2. Slots' = Slots
      BY <1>2 DEF Complete, Slots
    <2> QED
      BY <1>0, <2>1, <2>2 DEF WithinWidth
  <1>3. CASE Collect \/ UNCHANGED batchVars
    BY <1>3 DEF Collect, batchVars, WithinWidth, Slots
  <1> QED
    BY <1>1, <1>2, <1>3 DEF BatchNext

LEMMA PlacesStep ==
    ASSUME BatchTypeOK, EachItemOnce, Faithful, [BatchNext]_batchVars
    PROVE  EachItemOnce' /\ Faithful'
  <1>0. next \in 1..N + 1 /\ N \in Nat /\ Len(indexed) \in Nat
    BY BatchAssumption DEF BatchTypeOK
  <1>1. CASE Start
    <2>1. Completed' = Completed /\ UNCHANGED <<indexed, outcome>>
      BY <1>1 DEF Start, Completed
    <2>2. next \notin running \cup Completed
      BY <1>0 DEF EachItemOnce
    <2>3. 1..next' - 1 = (1..next - 1) \cup {next}
      BY <1>0, <1>1 DEF Start
    <2>4. Faithful'
      BY <2>1 DEF Faithful
    <2> QED
      BY <1>1, <2>1, <2>2, <2>3, <2>4 DEF Start, EachItemOnce
  <1>2. ASSUME NEW i \in Items, NEW result \in Outcome, Complete(i, result)
        PROVE  EachItemOnce' /\ Faithful'
    <2> DEFINE n == Len(indexed)
    <2>0. /\ n \in Nat /\ Len(indexed') = n + 1
          /\ \A k \in 1..n : indexed'[k] = indexed[k]
          /\ indexed'[n + 1] = [index |-> i, result |-> result]
      BY <1>0, <1>2, CompleteAppends
    <2>1. Completed' = Completed \cup {i}
      <3>1. ASSUME NEW j \in Completed'
            PROVE  j \in Completed \cup {i}
        <4>1. PICK k \in 1..n + 1 : j = indexed'[k].index
          BY <2>0, <3>1 DEF Completed
        <4>2. k \in 1..n \/ k = n + 1
          BY <2>0
        <4> QED
          BY <2>0, <4>1, <4>2 DEF Completed
      <3>2. ASSUME NEW j \in Completed
            PROVE  j \in Completed'
        <4>1. PICK k \in 1..n : j = indexed[k].index
          BY <3>2 DEF Completed
        <4>2. k \in 1..Len(indexed') /\ j = indexed'[k].index
          BY <2>0, <4>1
        <4> QED
          BY <4>2 DEF Completed
      <3>3. i \in Completed'
        <4>1. n + 1 \in 1..Len(indexed') /\ indexed'[n + 1].index = i
          BY <2>0
        <4> QED
          BY <4>1 DEF Completed
      <3> QED
        BY <3>1, <3>2, <3>3
    <2>2. i \in running /\ i \notin Completed /\ running' = running \ {i}
      BY <1>2 DEF Complete, EachItemOnce
    <2>3. ASSUME NEW k \in 1..Len(indexed'), NEW l \in 1..Len(indexed'),
                 indexed'[k].index = indexed'[l].index
          PROVE  k = l
      <3>1. \A m \in 1..n : indexed'[m].index # i
        BY <2>0, <2>2 DEF Completed
      <3>2. \A m \in 1..Len(indexed') : m \in 1..n \/ m = n + 1
        BY <2>0
      <3>3. CASE k \in 1..n /\ l \in 1..n
        BY <2>0, <2>3, <3>3 DEF EachItemOnce
      <3>4. CASE k = n + 1 \/ l = n + 1
        BY <2>0, <2>3, <3>1, <3>2, <3>4
      <3> QED
        BY <3>2, <3>3, <3>4
    <2>4. /\ outcome'[i] = result
          /\ \A j \in Items : j # i => outcome'[j] = outcome[j]
      BY <1>2 DEF Complete, BatchTypeOK
    <2>5. ASSUME NEW k \in 1..Len(indexed')
          PROVE  indexed'[k].result = outcome'[indexed'[k].index]
      <3>1. k \in 1..n \/ k = n + 1
        BY <2>0
      <3>2. CASE k = n + 1
        BY <2>0, <2>4, <3>2
      <3>3. CASE k \in 1..n
        <4>1. indexed[k] \in Pair
          BY <1>0, <3>3 DEF BatchTypeOK
        <4>2. indexed[k].index \in Items /\ indexed[k].index # i
          BY <2>2, <3>3, <4>1 DEF Pair, Completed
        <4>3. indexed[k].result = outcome[indexed[k].index]
          BY <3>3 DEF Faithful
        <4> QED
          BY <2>0, <2>4, <3>3, <4>2, <4>3
      <3> QED
        BY <3>1, <3>2, <3>3
    <2>6. ASSUME NEW j \in Items
          PROVE  outcome'[j] = Pending <=> j \notin Completed'
      <3>1. CASE j = i
        BY <2>1, <2>4, <3>1, PendingIsNoOutcome
      <3>2. CASE j # i
        BY <2>1, <2>4, <3>2 DEF Faithful
      <3> QED
        BY <3>1, <3>2
    <2>7. Faithful'
      BY <2>5, <2>6 DEF Faithful
    <2> QED
      BY <1>2, <2>1, <2>2, <2>3, <2>7 DEF Complete, EachItemOnce
  <1>3. CASE Collect \/ UNCHANGED batchVars
    BY <1>3 DEF Collect, batchVars, EachItemOnce, Faithful, Completed
  <1> QED
    BY <1>1, <1>2, <1>3 DEF BatchNext

BatchInv == BatchTypeOK /\ WithinWidth /\ EachItemOnce /\ Faithful

LEMMA BatchInvInit ==
    ASSUME BatchInit
    PROVE  BatchInv
  <1>1. BatchTypeOK
    BY BatchTypeInit
  <1>2. WithinWidth
    BY SlotsPositive, FS_EmptySet DEF BatchInit, WithinWidth
  <1>3. Len(indexed) = 0 /\ Completed = {}
    BY DEF BatchInit, Completed
  <1>4. EachItemOnce /\ Faithful
    BY <1>3 DEF BatchInit, SerialInit, EachItemOnce, Faithful
  <1> QED
    BY <1>1, <1>2, <1>4 DEF BatchInv

LEMMA BatchInvStep ==
    ASSUME BatchInv, [BatchNext]_batchVars
    PROVE  BatchInv'
  BY BatchTypeStep, WidthStep, PlacesStep DEF BatchInv

THEOREM BatchInvariant == BatchSpec => []BatchInv
  <1>1. BatchInit => BatchInv
    BY BatchInvInit
  <1>2. BatchInv /\ [BatchNext]_batchVars => BatchInv'
    BY BatchInvStep
  <1> QED
    BY <1>1, <1>2, PTL DEF BatchSpec

\* Every item runs once, the ones after a failed one included.
THEOREM BatchEachItemOnce == BatchSpec => []EachItemOnce
  <1>1. BatchInv => EachItemOnce
    BY DEF BatchInv
  <1> QED
    BY <1>1, BatchInvariant, PTL

-----------------------------------------------------------------------------
(* The batch implements the serial loop *)

LEMMA LeastElement ==
    ASSUME NEW T \in SUBSET Nat, T # {}
    PROVE  \E m \in T : \A k \in T : m <= k
  <1> DEFINE R == {pair \in Nat \X Nat : pair[1] < pair[2]}
  <1>1. IsWellFoundedOn(R, Nat)
    BY NatLessThanWellFounded, Zenon DEF OpToRel
  <1> HIDE DEF R
  <1>2. PICK m \in T : \A k \in T : <<k, m>> \notin R
    BY <1>1, WFMin
  <1>3. \A k \in T : ~(k < m)
    BY <1>2 DEF R
  <1> QED
    BY <1>3

LEMMA FirstFailure ==
    ASSUME NEW f \in [Items -> Outcome], \E i \in Items : ~f[i].ok
    PROVE  \E e \in Items : \A i \in Items :
               (~f[i].ok /\ \A j \in 1..i - 1 : f[j].ok) <=> i = e
  <1> DEFINE T == {i \in Items : ~f[i].ok}
  <1>1. Items \subseteq Nat
    BY BatchAssumption DEF Items
  <1>2. PICK e \in T : \A k \in T : e <= k
    BY <1>1, LeastElement
  <1>3. ASSUME NEW j \in 1..e - 1
        PROVE  f[j].ok
    <2>1. j \in Items /\ ~(e <= j)
      BY <1>1, <1>2, BatchAssumption DEF Items
    <2> QED
      BY <1>2, <2>1
  <1>4. ASSUME NEW i \in Items, ~f[i].ok, \A j \in 1..i - 1 : f[j].ok
        PROVE  i = e
    <2>1. e <= i /\ e \in Items /\ ~f[e].ok
      BY <1>2, <1>4
    <2>2. ~(e \in 1..i - 1)
      BY <1>4, <2>1
    <2> QED
      BY <1>1, <2>1, <2>2, BatchAssumption DEF Items
  <1> QED
    BY <1>2, <1>3, <1>4

\* collect stops where the serial loop stops: results with an error have a
\* first one.
LEMMA CollectedIsSerial ==
    ASSUME NEW f \in [Items -> Outcome]
    PROVE  Collected(f) = SerialOutcome(f)
  <1>1. CASE \A i \in Items : f[i].ok
    <2>1. FirstError(f) = {}
      BY <1>1 DEF FirstError
    <2> QED
      BY <1>1, <2>1 DEF Collected, SerialOutcome
  <1>2. CASE \E i \in Items : ~f[i].ok
    <2>1. PICK e \in Items : \A i \in Items :
             (~f[i].ok /\ \A j \in 1..i - 1 : f[j].ok) <=> i = e
      BY <1>2, FirstFailure
    <2>2. FirstError(f) = {e}
      BY <2>1 DEF FirstError
    <2>3. SerialOutcome(f) = f[e]
      BY <2>2 DEF SerialOutcome
    <2>4. (CHOOSE i \in Items : ~f[i].ok /\ \A j \in 1..i - 1 : f[j].ok) = e
      BY <2>1
    <2>5. Collected(f) = f[e]
      BY <1>2, <2>4 DEF Collected
    <2> QED
      BY <2>3, <2>5
  <1> QED
    BY <1>1, <1>2

\* A list that is collected well has no error in it.
LEMMA CollectedWell ==
    ASSUME NEW f \in [Items -> Outcome], Collected(f).ok
    PROVE  /\ \A i \in Items : f[i].ok
           /\ Collected(f).value = [i \in Items |-> f[i].value]
  <1>1. CASE \E i \in Items : ~f[i].ok
    <2>1. PICK e \in Items : \A i \in Items :
             (~f[i].ok /\ \A j \in 1..i - 1 : f[j].ok) <=> i = e
      BY <1>1, FirstFailure
    <2>2. (CHOOSE i \in Items : ~f[i].ok /\ \A j \in 1..i - 1 : f[j].ok) = e
      BY <2>1
    <2>3. Collected(f) = f[e] /\ ~f[e].ok
      BY <1>1, <2>1, <2>2 DEF Collected
    <2> QED
      BY <2>3
  <1>2. CASE \A i \in Items : f[i].ok
    BY <1>2 DEF Collected
  <1> QED
    BY <1>1, <1>2

\* Put back into input order the pairs are the outcomes: every index is there
\* with the outcome of its item.
LEMMA SortedIsOutcome ==
    ASSUME BatchInv, ~ItemLeft, running = {}
    PROVE  Sorted = outcome /\ outcome \in [Items -> Outcome]
  <1>0. BatchTypeOK /\ EachItemOnce /\ Faithful
    BY DEF BatchInv
  <1>1. Completed = Items
    <2>1. next = N + 1
      BY <1>0, BatchAssumption DEF BatchTypeOK, ItemLeft
    <2>2. Completed = 1..next - 1
      BY <1>0 DEF EachItemOnce
    <2> QED
      BY <2>1, <2>2, BatchAssumption DEF Items
  <1>2. ASSUME NEW i \in Items
        PROVE  ResultOf(i) = outcome[i]
    <2>1. \E k \in 1..Len(indexed) : indexed[k].index = i
      BY <1>1 DEF Completed
    <2> DEFINE k == CHOOSE k \in 1..Len(indexed) : indexed[k].index = i
    <2>2. k \in 1..Len(indexed) /\ indexed[k].index = i
      BY <2>1
    <2>3. ResultOf(i) = indexed[k].result
      BY DEF ResultOf
    <2> HIDE DEF k
    <2> QED
      BY <1>0, <2>2, <2>3 DEF Faithful
  <1>3. outcome \in [Items -> Outcome]
    BY <1>0, <1>1 DEF BatchTypeOK, Faithful
  <1> QED
    BY <1>2, <1>3 DEF Sorted

\* An answered batch is over, and its answer stays what its items made of it.
BatchAnswered ==
    answer # Pending =>
        /\ ~ItemLeft /\ running = {}
        /\ outcome \in [Items -> Outcome]
        /\ answer = Collected(outcome)

LEMMA BatchAnsweredStep ==
    ASSUME BatchInv, BatchAnswered, [BatchNext]_batchVars
    PROVE  BatchAnswered'
  <1>1. CASE Start
    BY <1>1 DEF Start, BatchAnswered
  <1>2. ASSUME NEW i \in Items, NEW result \in Outcome, Complete(i, result)
        PROVE  BatchAnswered'
    BY <1>2 DEF Complete, BatchAnswered
  <1>3. CASE Collect
    <2>1. Sorted = outcome /\ outcome \in [Items -> Outcome]
      BY <1>3, SortedIsOutcome DEF Collect
    <2>2. UNCHANGED <<outcome, next, running>> /\ answer' = Collected(outcome)
      BY <1>3, <2>1 DEF Collect
    <2>3. Collected(outcome)' = Collected(outcome)
      BY <2>2 DEF Collected
    <2> QED
      BY <1>3, <2>1, <2>2, <2>3 DEF Collect, BatchAnswered, ItemLeft
  <1>4. CASE UNCHANGED batchVars
    BY <1>4 DEF batchVars, BatchAnswered, ItemLeft, Collected
  <1> QED
    BY <1>1, <1>2, <1>3, <1>4 DEF BatchNext

LEMMA SerialStep ==
    ASSUME BatchInv, [BatchNext]_batchVars
    PROVE  [SerialNext]_<<outcome, answer>>
  <1>1. CASE Start \/ UNCHANGED batchVars
    BY <1>1 DEF Start, batchVars
  <1>2. ASSUME NEW i \in Items, NEW result \in Outcome, Complete(i, result)
        PROVE  ItemEnds(i)
    <2>1. i \notin Completed /\ outcome[i] = Pending
      BY <1>2 DEF BatchInv, EachItemOnce, Faithful, Complete
    <2>2. outcome'[i] = result
      BY <1>2 DEF Complete, BatchInv, BatchTypeOK
    <2> QED
      BY <1>2, <2>1, <2>2 DEF Complete, ItemEnds
  <1>3. CASE Collect
    <2>1. Sorted = outcome /\ outcome \in [Items -> Outcome]
      BY <1>3, SortedIsOutcome DEF Collect
    <2>2. answer' = SerialOutcome(outcome)
      BY <1>3, <2>1, CollectedIsSerial DEF Collect
    <2>3. \A i \in Items : outcome[i] # Pending
      BY <2>1, PendingIsNoOutcome
    <2> QED
      BY <1>3, <2>2, <2>3 DEF Collect, Answers, SerialNext
  <1> QED
    BY <1>1, <1>2, <1>3 DEF BatchNext, SerialNext

\* Whatever the order in which the futures complete, the batch answers what
\* the serial loop over the items answers: all the values in input order, or
\* the first error of the input.
THEOREM BatchImplementsSerial == BatchSpec => ImplementsSerial
  <1>1. BatchInit => SerialInit
    BY DEF BatchInit
  <1>2. BatchInv /\ [BatchNext]_batchVars => [SerialNext]_<<outcome, answer>>
    BY SerialStep
  <1> QED
    BY <1>1, <1>2, BatchInvariant, PTL DEF BatchSpec, ImplementsSerial, SerialSpec

-----------------------------------------------------------------------------
(* The diagnostic poll *)

ReportInv == ReportTypeOK /\ \A i \in Items : IsFiniteSet(seen[i])

LEMMA FiniteSetToSeq ==
    ASSUME NEW S, IsFiniteSet(S)
    PROVE  SetToSeq(S) \in Seq(S)
  <1> DEFINE n == Cardinality(S)
  <1>1. n \in Nat /\ ExistsBijection(1..n, S)
    BY FS_CardinalityType
  <1>2. PICK f : f \in Bijection(1..n, S)
    BY <1>1 DEF ExistsBijection
  <1>3. f \in [1..n -> S] /\ IsInjective(f)
    BY <1>2 DEF Bijection, Injection
  <1>4. SetToSeq(S) \in [1..n -> S]
    BY <1>3 DEF SetToSeq
  <1> HIDE DEF n
  <1> QED
    BY <1>1, <1>4

LEMMA ImageFinite ==
    ASSUME NEW S, IsFiniteSet(S), NEW replace \in BOOLEAN
    PROVE  IsFiniteSet({Reported(l, replace) : l \in S})
  <1> DEFINE T == {Reported(l, replace) : l \in S}
             f == [l \in S |-> Reported(l, replace)]
  <1>1. f \in Surjection(S, T)
    BY DEF Surjection
  <1> HIDE DEF T, f
  <1>2. IsFiniteSet(T)
    BY <1>1, FS_Surjection
  <1> QED
    BY <1>2 DEF T

LEMMA ReportedType ==
    ASSUME ReportTypeOK, NEW l \in Look, NEW replace \in BOOLEAN
    PROVE  Reported(l, replace) \in Pushed
  <1>1. /\ documents[l.url] \in Document
        /\ l.url \in Urls /\ l.text \in 1..MaxClock
    BY DEF ReportTypeOK, Look
  <1>2. WorkspaceVersion(documents[l.url]) \in {NoVersion} \cup 1..MaxClock
    BY <1>1 DEF WorkspaceVersion, Document, Untracked
  <1> QED
    BY <1>1, <1>2 DEF Reported, Pushed

LEMMA ItemSinkType ==
    ASSUME ReportInv, NEW i \in Items, NEW own \in SUBSET seen[i]
    PROVE  ItemSink(i, own) \in Seq(Pushed)
  <1>0. ReportTypeOK /\ IsFiniteSet(seen[i]) /\ seen[i] \subseteq Look
    BY DEF ReportInv, ReportTypeOK
  <1> DEFINE related == seen[i] \ own
             first   == {Reported(l, TRUE) : l \in own}
             second  == {Reported(l, FALSE) : l \in related}
  <1>1. IsFiniteSet(own) /\ IsFiniteSet(related)
    BY <1>0, FS_Subset
  <1>2. IsFiniteSet(first) /\ first \subseteq Pushed
    <2>1. IsFiniteSet(first)
      BY <1>1, ImageFinite
    <2> QED
      BY <1>0, <2>1, ReportedType
  <1>3. IsFiniteSet(second) /\ second \subseteq Pushed
    <2>1. IsFiniteSet(second)
      BY <1>1, ImageFinite
    <2> QED
      BY <1>0, <2>1, ReportedType
  <1>4. ItemSink(i, own) = SetToSeq(first) \o SetToSeq(second)
    BY DEF ItemSink
  <1> HIDE DEF first, second
  <1>5. SetToSeq(first) \in Seq(Pushed) /\ SetToSeq(second) \in Seq(Pushed)
    BY <1>2, <1>3, FiniteSetToSeq
  <1> QED
    BY <1>4, <1>5


LEMMA ReportResults ==
    ASSUME ReportInv, Seq(Pushed) \subseteq Values, NEW i \in Items
    PROVE  /\ [ok |-> TRUE, value |-> <<>>] \in Outcome
           /\ [ok |-> FALSE, value |-> "handler"] \in Outcome
           /\ [ok |-> FALSE, value |-> "content_modified"] \in Outcome
           /\ \A own \in SUBSET seen[i] : [ok |-> TRUE, value |-> ItemSink(i, own)] \in Outcome
  <1>1. <<>> \in Seq(Pushed)
    OBVIOUS
  <1>2. \A own \in SUBSET seen[i] : ItemSink(i, own) \in Values
    BY ItemSinkType
  <1>3. "handler" \in Errors /\ "content_modified" \in Errors
    BY ReportAssumption
  <1> QED
    BY <1>1, <1>2, <1>3 DEF Outcome

\* An item that ends does so with an outcome of the batch.
LEMMA ItemEndsSo ==
    ASSUME ReportInv, Seq(Pushed) \subseteq Values, NEW i \in Items,
           ItemSkipped(i) \/ HandlerFails(i) \/ ItemModified(i) \/ ItemReports(i)
    PROVE  \E result \in Outcome : Ends(i, result)
  <1>1. CASE ItemSkipped(i)
    BY <1>1, ReportResults DEF ItemSkipped
  <1>2. CASE HandlerFails(i)
    BY <1>2, ReportResults DEF HandlerFails
  <1>3. CASE ItemModified(i)
    BY <1>3, ReportResults DEF ItemModified
  <1>4. CASE ItemReports(i)
    <2>1. PICK own \in {{l \in seen[i] : l.url = listed[i]}, {}} :
             Ends(i, [ok |-> TRUE, value |-> ItemSink(i, own)])
      BY <1>4 DEF ItemReports
    <2>2. own \subseteq seen[i]
      BY <2>1
    <2> QED
      BY <2>1, <2>2, ReportResults
  <1> QED
    BY <1>1, <1>2, <1>3, <1>4

LEMMA ReportIsBatchStep ==
    ASSUME ReportInv, Seq(Pushed) \subseteq Values, [ReportNext]_vars
    PROVE  [BatchNext]_batchVars
  <1>1. CASE ItemStarts
    BY <1>1 DEF ItemStarts, BatchNext
  <1>2. ASSUME NEW i \in Items, ItemStep(i)
        PROVE  [BatchNext]_batchVars
    <2>1. CASE \E u \in Urls : HandlerLooks(i, u)
      BY <2>1 DEF HandlerLooks
    <2>2. CASE ItemSkipped(i) \/ HandlerFails(i) \/ ItemModified(i) \/ ItemReports(i)
      BY <2>2, ItemEndsSo DEF Ends, BatchNext
    <2> QED
      BY <1>2, <2>1, <2>2 DEF ItemStep
  <1>3. CASE PollCollects
    BY <1>3 DEF PollCollects, BatchNext
  <1>4. CASE DocumentStep
    BY <1>4 DEF DocumentStep, Edited, Closed, Loaded, Removed, Becomes
  <1>5. CASE UNCHANGED vars
    BY <1>5 DEF vars
  <1> QED
    BY <1>1, <1>2, <1>3, <1>4, <1>5 DEF ReportNext, PollStep

LEMMA ReportInvInit ==
    ASSUME ReportInit
    PROVE  ReportInv
  <1>1. BatchTypeOK
    BY BatchTypeInit DEF ReportInit
  <1>2. 1 \in 1..MaxClock
    BY ReportAssumption
  <1>3. listed \in [Items -> Urls]
    BY ReportAssumption DEF ReportInit
  <1>4. documents \in [Urls -> Document]
    BY <1>2 DEF ReportInit, Document
  <1>5. /\ probed \in [Items -> Document]
        /\ seen \in [Items -> SUBSET Look]
        /\ \A i \in Items : IsFiniteSet(seen[i])
    BY FS_EmptySet DEF ReportInit, Document
  <1> QED
    BY <1>1, <1>2, <1>3, <1>4, <1>5 DEF ReportInit, ReportInv, ReportTypeOK

LEMMA ItemStepInv ==
    ASSUME ReportInv, BatchTypeOK', NEW i \in Items, ItemStep(i)
    PROVE  ReportInv'
  <1>0. /\ ReportTypeOK
        /\ \A j \in Items : IsFiniteSet(seen[j])
    BY DEF ReportInv
  <1>1. ASSUME NEW u \in Urls, HandlerLooks(i, u)
        PROVE  ReportInv'
    <2> DEFINE look == [url |-> u, text |-> documents[u].text]
    <2>1. look \in Look
      <3>1. documents[u] \in Document \ {Untracked}
        BY <1>0, <1>1 DEF HandlerLooks, ReportTypeOK
      <3> QED
        BY <3>1 DEF Document, Look
    <2>2. IsFiniteSet(seen[i] \cup {look})
      BY <1>0, FS_AddElement
    <2>3. seen' = [seen EXCEPT ![i] = seen[i] \cup {look}]
      BY <1>1 DEF HandlerLooks
    <2> HIDE DEF look
    <2>4. seen' \in [Items -> SUBSET Look] /\ \A j \in Items : IsFiniteSet(seen'[j])
      BY <1>0, <2>1, <2>2, <2>3 DEF ReportTypeOK
    <2> QED
      BY <1>0, <1>1, <2>4 DEF HandlerLooks, ReportInv, ReportTypeOK, documentVars
  <1>2. ASSUME NEW result, Ends(i, result)
        PROVE  ReportInv'
    <2>1. probed' \in [Items -> Document]
      BY <1>0, <1>2 DEF Ends, ReportTypeOK, Document
    <2>2. seen' \in [Items -> SUBSET Look] /\ \A j \in Items : IsFiniteSet(seen'[j])
      BY <1>0, <1>2, FS_EmptySet DEF Ends, ReportTypeOK
    <2> QED
      BY <1>0, <1>2, <2>1, <2>2 DEF Ends, ReportInv, ReportTypeOK, documentVars
  <1> QED
    BY <1>1, <1>2 DEF ItemStep, ItemSkipped, HandlerFails, ItemModified, ItemReports

LEMMA DocumentStepInv ==
    ASSUME ReportInv, BatchTypeOK', DocumentStep
    PROVE  ReportInv'
  <1>0. ReportTypeOK /\ clock \in 1..MaxClock /\ MaxClock \in Nat
    BY ReportAssumption DEF ReportInv, ReportTypeOK
  <1>1. ASSUME NEW u \in Urls, NEW d \in Document, Becomes(u, d), clock' \in 1..MaxClock
        PROVE  ReportInv'
    <2>1. documents' \in [Urls -> Document]
      BY <1>0, <1>1 DEF Becomes, ReportTypeOK
    <2> QED
      BY <1>1, <2>1 DEF Becomes, ReportInv, ReportTypeOK, itemVars
  <1>2. PICK u \in Urls : Edited(u) \/ Closed(u) \/ Loaded(u) \/ Removed(u)
    BY DEF DocumentStep
  <1>3. documents[u] \in Document
    BY <1>0 DEF ReportTypeOK
  <1>4. CASE Edited(u) \/ Loaded(u)
    <2>1. clock + 1 \in 1..MaxClock /\ clock' = clock + 1
      BY <1>0, <1>4 DEF Edited, Loaded, Tick
    <2>2. /\ [origin |-> "open", text |-> clock + 1] \in Document
          /\ [origin |-> "workspace", text |-> clock + 1] \in Document
      BY <2>1 DEF Document
    <2> QED
      BY <1>1, <1>4, <2>1, <2>2 DEF Edited, Loaded
  <1>5. CASE Closed(u)
    <2>1. [documents[u] EXCEPT !.origin = "workspace"] \in Document
      BY <1>3, <1>5 DEF Closed, Document, Untracked
    <2> QED
      BY <1>0, <1>1, <1>5, <2>1 DEF Closed, Document
  <1>6. CASE Removed(u)
    BY <1>0, <1>1, <1>6 DEF Removed, Document
  <1> QED
    BY <1>2, <1>4, <1>5, <1>6

LEMMA ReportInvStep ==
    ASSUME ReportInv, Seq(Pushed) \subseteq Values, [ReportNext]_vars
    PROVE  ReportInv'
  <1>1. BatchTypeOK'
    BY ReportIsBatchStep, BatchTypeStep DEF ReportInv, ReportTypeOK
  <1>2. CASE ItemStarts
    <2>1. next \in Items
      BY <1>2, BatchAssumption
      DEF ItemStarts, Start, ItemLeft, ReportInv, ReportTypeOK, BatchTypeOK, Items
    <2>2. documents[listed[next]] \in Document
      BY <2>1 DEF ReportInv, ReportTypeOK
    <2> QED
      BY <1>1, <1>2, <2>2 DEF ItemStarts, ReportInv, ReportTypeOK, documentVars
  <1>3. CASE \E i \in Items : ItemStep(i)
    BY <1>1, <1>3, ItemStepInv
  <1>4. CASE PollCollects
    BY <1>1, <1>4 DEF PollCollects, ReportInv, ReportTypeOK, documentVars, itemVars
  <1>5. CASE DocumentStep
    BY <1>1, <1>5, DocumentStepInv
  <1>6. CASE UNCHANGED vars
    BY <1>1, <1>6 DEF vars, ReportInv, ReportTypeOK, documentVars, itemVars
  <1> QED
    BY <1>2, <1>3, <1>4, <1>5, <1>6 DEF ReportNext, PollStep

\* The sinks a poll folds hold reports, whatever the documents do meanwhile.
THEOREM ReportTypes ==
    ASSUME Seq(Pushed) \subseteq Values
    PROVE  ReportSpec => []ReportTypeOK
  <1>1. ReportInit => ReportInv
    BY ReportInvInit
  <1>2. ReportInv /\ [ReportNext]_vars => ReportInv'
    BY ReportInvStep
  <1>3. ReportInv => ReportTypeOK
    BY DEF ReportInv
  <1> QED
    BY <1>1, <1>2, <1>3, PTL DEF ReportSpec

\* A poll is a batch over the listed documents.
THEOREM ReportImplementsBatch ==
    ASSUME Seq(Pushed) \subseteq Values
    PROVE  ReportSpec => BatchSpec
  <1>1. ReportInit => ReportInv /\ BatchInit
    BY ReportInvInit DEF ReportInit
  <1>2. ReportInv /\ [ReportNext]_vars => ReportInv' /\ [BatchNext]_batchVars
    BY ReportInvStep, ReportIsBatchStep
  <1> QED
    BY <1>1, <1>2, PTL DEF ReportSpec, BatchSpec

\* So a poll answers what a loop over the documents, one after the other,
\* would have answered with the same outcomes.
THEOREM ReportImplementsSerial ==
    ASSUME Seq(Pushed) \subseteq Values
    PROVE  ReportSpec => ImplementsSerial
  BY ReportImplementsBatch, BatchImplementsSerial, PTL

-----------------------------------------------------------------------------
(* The sinks one after the other *)

\* Where the reports of a sequence come from: the items in their order, each
\* with its sink.
Laid(q, sinks, n) ==
    /\ q \in Seq(Pushed)
    /\ \E place \in [1..Len(q) -> 1..n] :
          /\ \A k \in 1..Len(q) : q[k] \in ToSet(sinks[place[k]])
          /\ \A k, l \in 1..Len(q) : k < l => place[k] <= place[l]
          /\ \A i \in 1..n : \A r \in ToSet(sinks[i]) :
                \E k \in 1..Len(q) : q[k] = r /\ place[k] = i

LEMMA LaidOn ==
    ASSUME NEW sinks, NEW n \in Nat, NEW q, Laid(q, sinks, n), sinks[n + 1] \in Seq(Pushed)
    PROVE  Laid(q \o sinks[n + 1], sinks, n + 1)
  <1> DEFINE s == sinks[n + 1]
             t == q \o s
             a == Len(q)
  <1>1. PICK place \in [1..a -> 1..n] :
          /\ \A k \in 1..a : q[k] \in ToSet(sinks[place[k]])
          /\ \A k, l \in 1..a : k < l => place[k] <= place[l]
          /\ \A i \in 1..n : \A r \in ToSet(sinks[i]) :
                \E k \in 1..a : q[k] = r /\ place[k] = i
    BY DEF Laid
  <1>2. q \in Seq(Pushed) /\ a \in Nat /\ s \in Seq(Pushed) /\ Len(s) \in Nat
    BY DEF Laid
  <1>3. /\ t \in Seq(Pushed) /\ Len(t) = a + Len(s)
        /\ \A k \in 1..a + Len(s) : t[k] = IF k <= a THEN q[k] ELSE s[k - a]
    BY <1>2, ConcatProperties
  <1>4. ToSet(s) = {s[k] : k \in 1..Len(s)}
    BY <1>2 DEF ToSet
  <1>5. n + 1 \in 1..n + 1 /\ n + 1 \notin 1..n
    OBVIOUS
  <1> DEFINE p == [k \in 1..Len(t) |-> IF k <= a THEN place[k] ELSE n + 1]
  <1>6. p \in [1..Len(t) -> 1..n + 1]
    BY <1>2, <1>3
  <1> HIDE DEF t, a, s
  <1>7. ASSUME NEW k \in 1..Len(t)
        PROVE  t[k] \in ToSet(sinks[p[k]])
    <2>1. CASE k <= a
      BY <1>1, <1>2, <1>3, <2>1
    <2>2. CASE ~(k <= a)
      <3>1. t[k] = s[k - a] /\ k - a \in 1..Len(s)
        BY <1>2, <1>3, <2>2
      <3>2. sinks[p[k]] = s
        BY <2>2 DEF s
      <3> QED
        BY <1>4, <3>1, <3>2
    <2> QED
      BY <2>1, <2>2
  <1>8. ASSUME NEW k \in 1..Len(t), NEW l \in 1..Len(t), k < l
        PROVE  p[k] <= p[l]
    BY <1>1, <1>2, <1>3, <1>8
  <1>9. ASSUME NEW i \in 1..n + 1, NEW r \in ToSet(sinks[i])
        PROVE  \E k \in 1..Len(t) : t[k] = r /\ p[k] = i
    <2>1. CASE i \in 1..n
      <3>1. PICK k \in 1..a : q[k] = r /\ place[k] = i
        BY <1>1, <1>9, <2>1
      <3>2. k \in 1..Len(t) /\ t[k] = r /\ p[k] = i
        BY <1>2, <1>3, <3>1
      <3> QED
        BY <3>2
    <2>2. CASE i = n + 1
      <3>1. PICK j \in 1..Len(s) : s[j] = r
        BY <1>4, <1>9, <2>2 DEF s
      <3>2. a + j \in 1..Len(t) /\ ~(a + j <= a) /\ (a + j) - a = j
        BY <1>2, <1>3
      <3>3. t[a + j] = r /\ p[a + j] = i
        BY <1>3, <2>2, <3>1, <3>2
      <3> QED
        BY <3>2, <3>3
    <2> QED
      BY <1>9, <2>1, <2>2
  <1> HIDE DEF p
  <1>10. Laid(t, sinks, n + 1)
    BY <1>3, <1>6, <1>7, <1>8, <1>9 DEF Laid
  <1> QED
    BY <1>10 DEF t, s

LEMMA LaidFirst ==
    ASSUME NEW sinks, sinks[1] \in Seq(Pushed)
    PROVE  Laid(sinks[1], sinks, 1)
  <1> DEFINE s == sinks[1]
             p == [k \in 1..Len(s) |-> 1]
  <1>1. s \in Seq(Pushed) /\ Len(s) \in Nat /\ ToSet(s) = {s[k] : k \in 1..Len(s)}
    BY DEF ToSet
  <1>2. p \in [1..Len(s) -> 1..1]
    OBVIOUS
  <1>3. \A k \in 1..Len(s) : s[k] \in ToSet(sinks[p[k]])
    BY <1>1
  <1>4. \A k, l \in 1..Len(s) : k < l => p[k] <= p[l]
    OBVIOUS
  <1>5. \A i \in 1..1 : \A r \in ToSet(sinks[i]) : \E k \in 1..Len(s) : s[k] = r /\ p[k] = i
    BY <1>1
  <1> HIDE DEF p, s
  <1>6. Laid(s, sinks, 1)
    BY <1>1, <1>2, <1>3, <1>4, <1>5 DEF Laid
  <1> QED
    BY <1>6 DEF s

\* What FlattenSeq makes of the sinks.
LEMMA FlattenIsLaid ==
    ASSUME NEW sinks \in [Items -> Seq(Pushed)]
    PROVE  Laid(FlattenSeq(sinks), sinks, N)
  <1>0. N \in Nat /\ Items = 1..N
    BY BatchAssumption DEF Items
  <1>1. Len(sinks) = N
    BY <1>0
  <1>2. CASE N = 0
    <2>1. FlattenSeq(sinks) = sinks
      BY <1>1, <1>2 DEF FlattenSeq
    <2>2. sinks \in Seq(Pushed)
      BY <1>0, <1>2
    <2> DEFINE place == [k \in {} |-> 0]
    <2>3. place \in [1..Len(sinks) -> 1..N]
      BY <1>1, <1>2
    <2>4. 1..Len(sinks) = {} /\ 1..N = {}
      BY <1>1, <1>2
    <2> HIDE DEF place
    <2> QED
      BY <2>1, <2>2, <2>3, <2>4 DEF Laid
  <1>3. CASE N # 0
    <2> DEFINE F(f) == [i \in 1..N |-> IF i = 1 THEN sinks[i] ELSE f[i - 1] \o sinks[i]]
               g == CHOOSE f : f = F(f)
    <2>1. FlattenSeq(sinks) = g[N]
      BY <1>1, <1>3 DEF FlattenSeq
    <2> DEFINE E(n) == \E f : f = [i \in 1..n |-> IF i = 1 THEN sinks[i] ELSE f[i - 1] \o sinks[i]]
               B == {n \in Nat : n # 0 /\ ~E(n)}
    <2>2. E(1)
      <3> DEFINE h == [i \in 1..1 |-> sinks[1]]
      <3>1. h = [i \in 1..1 |-> IF i = 1 THEN sinks[i] ELSE h[i - 1] \o sinks[i]]
        OBVIOUS
      <3> HIDE DEF h
      <3> QED
        BY <3>1
    <2>3. ASSUME NEW n \in Nat, n # 0, E(n)
          PROVE  E(n + 1)
      <3>1. PICK f : f = [i \in 1..n |-> IF i = 1 THEN sinks[i] ELSE f[i - 1] \o sinks[i]]
        BY <2>3
      <3>2. \A i \in 1..n : f[i] = IF i = 1 THEN sinks[i] ELSE f[i - 1] \o sinks[i]
        <4> DEFINE G == [i \in 1..n |-> IF i = 1 THEN sinks[i] ELSE f[i - 1] \o sinks[i]]
        <4>1. \A i \in 1..n : G[i] = IF i = 1 THEN sinks[i] ELSE f[i - 1] \o sinks[i]
          OBVIOUS
        <4>2. f = G
          BY <3>1
        <4> HIDE DEF G
        <4> QED
          BY <4>1, <4>2
      <3> DEFINE h == [i \in 1..n + 1 |-> IF i = n + 1 THEN f[n] \o sinks[n + 1] ELSE f[i]]
      <3>3. \A i \in 1..n + 1 : h[i] = IF i = 1 THEN sinks[i] ELSE h[i - 1] \o sinks[i]
        <4> TAKE i \in 1..n + 1
        <4>1. CASE i = n + 1
          <5>1. i # 1 /\ i - 1 = n /\ i - 1 \in 1..n + 1 /\ i - 1 # n + 1
            BY <2>3, <4>1
          <5> QED
            BY <4>1, <5>1
        <4>2. CASE i # n + 1
          <5>1. i \in 1..n /\ (i # 1 => i - 1 \in 1..n + 1 /\ i - 1 # n + 1)
            BY <4>2
          <5> QED
            BY <3>2, <4>2, <5>1
        <4> QED
          BY <4>1, <4>2
      <3>4. h = [i \in 1..n + 1 |-> IF i = 1 THEN sinks[i] ELSE h[i - 1] \o sinks[i]]
        BY <3>3
      <3> HIDE DEF h
      <3> QED
        BY <3>4
    <2> HIDE DEF E
    <2>4. B = {}
      <3> SUFFICES ASSUME B # {}
                   PROVE  FALSE
        OBVIOUS
      <3>1. B \in SUBSET Nat
        OBVIOUS
      <3>2. PICK m \in B : \A k \in B : m <= k
        BY <3>1, LeastElement
      <3>3. m \in Nat /\ m # 0 /\ ~E(m)
        OBVIOUS
      <3>4. m # 1
        BY <2>2, <3>3
      <3>5. m - 1 \in Nat /\ m - 1 # 0 /\ (m - 1) + 1 = m /\ m - 1 \notin B
        BY <3>2, <3>3, <3>4
      <3>6. E(m - 1)
        BY <3>5
      <3>7. E((m - 1) + 1)
        BY <2>3, <3>5, <3>6
      <3> QED
        BY <3>3, <3>5, <3>7
    <2>5. E(N)
      BY <1>0, <1>3, <2>4
    <2>6. g = F(g)
      <3>1. \E f : f = F(f)
        BY <2>5 DEF E
      <3> HIDE DEF F
      <3> QED
        BY <3>1
    <2> HIDE DEF g
    <2>7. \A i \in 1..N : g[i] = IF i = 1 THEN sinks[i] ELSE g[i - 1] \o sinks[i]
      <3> DEFINE G == F(g)
      <3>1. \A i \in 1..N : G[i] = IF i = 1 THEN sinks[i] ELSE g[i - 1] \o sinks[i]
        OBVIOUS
      <3>2. g = G
        BY <2>6
      <3> HIDE DEF G
      <3> QED
        BY <3>1, <3>2
    <2> HIDE DEF F
    <2> DEFINE C == {i \in 1..N : ~Laid(g[i], sinks, i)}
    <2>8. C = {}
      <3> SUFFICES ASSUME C # {}
                   PROVE  FALSE
        OBVIOUS
      <3>1. C \in SUBSET Nat
        BY <1>0
      <3>2. PICK m \in C : \A k \in C : m <= k
        BY <3>1, LeastElement
      <3>3. m \in 1..N /\ ~Laid(g[m], sinks, m) /\ sinks[m] \in Seq(Pushed)
        BY <1>0
      <3>4. CASE m = 1
        BY <2>7, <3>3, <3>4, LaidFirst
      <3>5. CASE m # 1
        <4> DEFINE n == m - 1
        <4>1. n \in 1..N /\ n \in Nat /\ n + 1 = m /\ n \notin C
          BY <1>0, <3>2, <3>3, <3>5
        <4>2. g[m] = g[n] \o sinks[m]
          BY <2>7, <3>3, <3>5
        <4> HIDE DEF n
        <4>3. Laid(g[n], sinks, n)
          BY <4>1
        <4>4. sinks[n + 1] \in Seq(Pushed)
          BY <3>3, <4>1
        <4>5. Laid(g[n] \o sinks[n + 1], sinks, n + 1)
          BY <4>1, <4>3, <4>4, LaidOn
        <4> QED
          BY <3>3, <4>1, <4>2, <4>5
      <3> QED
        BY <3>4, <3>5
    <2>9. N \in 1..N
      BY <1>0, <1>3
    <2> QED
      BY <2>1, <2>8, <2>9
  <1> QED
    BY <1>2, <1>3

-----------------------------------------------------------------------------
(* What is left of them *)

\* One report about every URL of the first n, by one that replaces if there
\* is one, and by the first of all if there is none.
Folded(f, q, n) ==
    /\ f \in Seq(Pushed)
    /\ \A k, l \in 1..Len(f) : f[k].url = f[l].url => k = l
    /\ \A m \in 1..n : \E k \in 1..Len(f) : f[k].url = q[m].url
    /\ \A k \in 1..Len(f) : \E m \in 1..n :
          /\ q[m] = f[k]
          /\ q[m].replace \/ \A j \in 1..n : q[j].url = q[m].url => ~q[j].replace /\ m <= j

LEMMA PushFolds ==
    ASSUME NEW q \in Seq(Pushed), NEW n \in Nat, n + 1 \in 1..Len(q), NEW f, Folded(f, q, n)
    PROVE  Folded(Push(f, q[n + 1]), q, n + 1)
  <1> DEFINE r == q[n + 1]
             at == {k \in 1..Len(f) : f[k].url = r.url}
             g == Push(f, r)
             a == Len(f)
  <1>1. /\ f \in Seq(Pushed) /\ a \in Nat
        /\ \A k, l \in 1..a : f[k].url = f[l].url => k = l
        /\ \A m \in 1..n : \E k \in 1..a : f[k].url = q[m].url
        /\ \A k \in 1..a : \E m \in 1..n :
              /\ q[m] = f[k]
              /\ q[m].replace \/ \A j \in 1..n : q[j].url = q[m].url => ~q[j].replace /\ m <= j
    <2>1. Folded(f, q, n) /\ (f \in Seq(Pushed) => a \in Nat)
      OBVIOUS
    <2> QED
      BY <2>1, Zenon DEF Folded
  <1>2. r \in Pushed /\ r.replace \in BOOLEAN
    <2>1. r \in Pushed
      BY ElementOfSeq
    <2> HIDE DEF r
    <2> QED
      BY <2>1 DEF Pushed
  <1>3. \A j \in 1..n + 1 : j \in 1..n \/ j = n + 1
    OBVIOUS
  <1>4. n + 1 \in 1..n + 1 /\ \A j \in 1..n : j \in 1..n + 1 /\ j <= n + 1
    OBVIOUS
  <1> HIDE DEF a
  <1>5. CASE at = {}
    <2>1. g = Append(f, r)
      BY <1>5 DEF Push
    <2>2. /\ g \in Seq(Pushed) /\ Len(g) = a + 1 /\ g[a + 1] = r
          /\ \A k \in 1..a : g[k] = f[k]
      BY <1>1, <1>2, <2>1, AppendProperties DEF a
    <2>3. \A k \in 1..a : f[k].url # r.url
      BY <1>5 DEF a
    <2>4. \A k \in 1..a + 1 : k \in 1..a \/ k = a + 1
      BY <1>1
    <2>5. a + 1 \in 1..a + 1 /\ \A k \in 1..a : k \in 1..a + 1
      BY <1>1
    <2> HIDE DEF g, r, at
    <2>6. ASSUME NEW k \in 1..a + 1, NEW l \in 1..a + 1, g[k].url = g[l].url
          PROVE  k = l
      <3>1. CASE k \in 1..a /\ l \in 1..a
        BY <1>1, <2>2, <2>6, <3>1
      <3>2. CASE k \in 1..a /\ l = a + 1
        BY <2>2, <2>3, <2>6, <3>2
      <3>3. CASE k = a + 1 /\ l \in 1..a
        BY <2>2, <2>3, <2>6, <3>3
      <3> QED
        BY <2>4, <3>1, <3>2, <3>3
    <2>7. ASSUME NEW m \in 1..n + 1
          PROVE  \E k \in 1..a + 1 : g[k].url = q[m].url
      <3>1. CASE m = n + 1
        BY <2>2, <2>5, <3>1 DEF r
      <3>2. CASE m \in 1..n
        <4>1. PICK k \in 1..a : f[k].url = q[m].url
          BY <1>1, <3>2
        <4> QED
          BY <2>2, <2>5, <4>1
      <3> QED
        BY <1>3, <3>1, <3>2
    <2>8. ASSUME NEW k \in 1..a + 1
          PROVE  \E m \in 1..n + 1 :
                    /\ q[m] = g[k]
                    /\ q[m].replace \/ \A j \in 1..n + 1 :
                          q[j].url = q[m].url => ~q[j].replace /\ m <= j
      <3>1. CASE k = a + 1
        <4>1. q[n + 1] = g[k]
          BY <2>2, <3>1 DEF r
        <4>2. \A j \in 1..n : q[j].url # r.url
          BY <1>1, <2>3
        <4>3. ASSUME ~r.replace, NEW j \in 1..n + 1, q[j].url = r.url
              PROVE  ~q[j].replace /\ n + 1 <= j
          BY <1>3, <4>2, <4>3 DEF r
        <4> QED
          BY <1>4, <4>1, <4>3 DEF r
      <3>2. CASE k \in 1..a
        <4>1. PICK m \in 1..n :
                 /\ q[m] = f[k]
                 /\ q[m].replace \/ \A j \in 1..n : q[j].url = q[m].url => ~q[j].replace /\ m <= j
          BY <1>1, <3>2
        <4>2. q[m].url # r.url /\ q[m] = g[k]
          BY <2>2, <2>3, <3>2, <4>1
        <4>3. ASSUME ~q[m].replace, NEW j \in 1..n + 1, q[j].url = q[m].url
              PROVE  ~q[j].replace /\ m <= j
          BY <1>3, <4>1, <4>2, <4>3 DEF r
        <4> QED
          BY <1>4, <4>1, <4>2, <4>3
      <3> QED
        BY <2>4, <3>1, <3>2
    <2>9. Folded(g, q, n + 1)
      BY <2>2, <2>6, <2>7, <2>8 DEF Folded
    <2> QED
      BY <2>9 DEF g, r
  <1>6. CASE at # {} /\ r.replace
    <2>1. g = [k \in 1..a |-> IF k \in at THEN r ELSE f[k]]
      BY <1>6 DEF Push, a
    <2>2. \A k \in 1..a : k \in at <=> f[k].url = r.url
      BY DEF a
    <2>3. /\ g \in Seq(Pushed) /\ Len(g) = a
          /\ \A k \in 1..a : g[k] = IF f[k].url = r.url THEN r ELSE f[k]
      <3>1. \A k \in 1..a : f[k] \in Pushed
        BY <1>1, ElementOfSeq DEF a
      <3> DEFINE h == [k \in 1..a |-> IF k \in at THEN r ELSE f[k]]
      <3>2. h \in [1..a -> Pushed] /\ \A k \in 1..a : h[k] = IF f[k].url = r.url THEN r ELSE f[k]
        <4> HIDE DEF at, r
        <4> QED
          BY <1>2, <2>2, <3>1
      <3> HIDE DEF h
      <3>3. h \in Seq(Pushed) /\ Len(h) = a
        BY <1>1, <3>2
      <3>4. g = h
        BY <2>1 DEF h
      <3> QED
        BY <3>2, <3>3, <3>4
    <2>4. PICK k0 \in 1..a : f[k0].url = r.url
      BY <1>6 DEF a
    <2> HIDE DEF g, r, at
    <2>5. \A k \in 1..a : g[k].url = f[k].url
      BY <2>3
    <2>6. \A k, l \in 1..a : g[k].url = g[l].url => k = l
      BY <1>1, <2>5
    <2>7. ASSUME NEW m \in 1..n + 1
          PROVE  \E k \in 1..a : g[k].url = q[m].url
      <3>1. CASE m = n + 1
        BY <2>4, <2>5, <3>1 DEF r
      <3>2. CASE m \in 1..n
        BY <1>1, <2>5, <3>2
      <3> QED
        BY <1>3, <3>1, <3>2
    <2>8. ASSUME NEW k \in 1..a
          PROVE  \E m \in 1..n + 1 :
                    /\ q[m] = g[k]
                    /\ q[m].replace \/ \A j \in 1..n + 1 :
                          q[j].url = q[m].url => ~q[j].replace /\ m <= j
      <3>1. CASE f[k].url = r.url
        <4>1. q[n + 1] = g[k] /\ q[n + 1].replace
          BY <1>6, <2>3, <3>1 DEF r
        <4> QED
          BY <1>4, <4>1
      <3>2. CASE f[k].url # r.url
        <4>1. PICK m \in 1..n :
                 /\ q[m] = f[k]
                 /\ q[m].replace \/ \A j \in 1..n : q[j].url = q[m].url => ~q[j].replace /\ m <= j
          BY <1>1
        <4>2. q[m].url # r.url /\ q[m] = g[k]
          BY <2>3, <3>2, <4>1
        <4>3. ASSUME ~q[m].replace, NEW j \in 1..n + 1, q[j].url = q[m].url
              PROVE  ~q[j].replace /\ m <= j
          BY <1>3, <4>1, <4>2, <4>3 DEF r
        <4> QED
          BY <1>4, <4>1, <4>2, <4>3
      <3> QED
        BY <3>1, <3>2
    <2>9. Folded(g, q, n + 1)
      BY <2>3, <2>6, <2>7, <2>8 DEF Folded
    <2> QED
      BY <2>9 DEF g, r
  <1>7. CASE at # {} /\ ~r.replace
    <2>1. g = f
      BY <1>7 DEF Push
    <2>4. PICK k0 \in 1..a : f[k0].url = r.url
      BY <1>7 DEF a
    <2> HIDE DEF g, r, at
    <2>7. ASSUME NEW m \in 1..n + 1
          PROVE  \E k \in 1..a : f[k].url = q[m].url
      BY <1>1, <1>3, <2>4 DEF r
    <2>8. ASSUME NEW k \in 1..a
          PROVE  \E m \in 1..n + 1 :
                    /\ q[m] = f[k]
                    /\ q[m].replace \/ \A j \in 1..n + 1 :
                          q[j].url = q[m].url => ~q[j].replace /\ m <= j
      <3>1. PICK m \in 1..n :
               /\ q[m] = f[k]
               /\ q[m].replace \/ \A j \in 1..n : q[j].url = q[m].url => ~q[j].replace /\ m <= j
        BY <1>1
      <3>3. ASSUME ~q[m].replace, NEW j \in 1..n + 1, q[j].url = q[m].url
            PROVE  ~q[j].replace /\ m <= j
        BY <1>3, <1>4, <1>7, <3>1, <3>3 DEF r
      <3> QED
        BY <1>4, <3>1, <3>3
    <2>9. Folded(f, q, n + 1)
      BY <1>1, <2>7, <2>8 DEF Folded, a
    <2> QED
      BY <2>1, <2>9 DEF g, r
  <1> QED
    BY <1>5, <1>6, <1>7

\* What FoldSinks makes of them.
LEMMA FoldIsFolded ==
    ASSUME NEW sinks, FlattenSeq(sinks) \in Seq(Pushed)
    PROVE  Folded(FoldSinks(sinks), FlattenSeq(sinks), Len(FlattenSeq(sinks)))
  <1> DEFINE q == FlattenSeq(sinks)
             M == Len(q)
             F(f) == [n \in 0..M |-> IF n = 0 THEN <<>> ELSE Push(f[n - 1], q[n])]
             g == CHOOSE f : f = F(f)
  <1>0. FoldSinks(sinks) = g[M]
    BY DEF FoldSinks
  <1> HIDE DEF q
  <1>1. q \in Seq(Pushed) /\ M \in Nat
    BY DEF q
  <1> HIDE DEF M
  <1> DEFINE E(n) == \E f : f = [i \in 0..n |-> IF i = 0 THEN <<>> ELSE Push(f[i - 1], q[i])]
             B == {n \in Nat : ~E(n)}
  <1>2. E(0)
    <2> DEFINE h == [i \in 0..0 |-> <<>>]
    <2>1. h = [i \in 0..0 |-> IF i = 0 THEN <<>> ELSE Push(h[i - 1], q[i])]
      OBVIOUS
    <2> HIDE DEF h
    <2> QED
      BY <2>1
  <1>3. ASSUME NEW n \in Nat, E(n)
        PROVE  E(n + 1)
    <2>1. PICK f : f = [i \in 0..n |-> IF i = 0 THEN <<>> ELSE Push(f[i - 1], q[i])]
      BY <1>3
    <2>2. \A i \in 0..n : f[i] = IF i = 0 THEN <<>> ELSE Push(f[i - 1], q[i])
      <3> DEFINE G == [i \in 0..n |-> IF i = 0 THEN <<>> ELSE Push(f[i - 1], q[i])]
      <3>1. \A i \in 0..n : G[i] = IF i = 0 THEN <<>> ELSE Push(f[i - 1], q[i])
        OBVIOUS
      <3>2. f = G
        BY <2>1
      <3> HIDE DEF G
      <3> QED
        BY <3>1, <3>2
    <2> DEFINE h == [i \in 0..n + 1 |-> IF i = n + 1 THEN Push(f[n], q[n + 1]) ELSE f[i]]
    <2>3. \A i \in 0..n + 1 : h[i] = IF i = 0 THEN <<>> ELSE Push(h[i - 1], q[i])
      <3> TAKE i \in 0..n + 1
      <3>1. CASE i = n + 1
        <4>1. i # 0 /\ i - 1 = n /\ i - 1 \in 0..n + 1 /\ i - 1 # n + 1
          BY <3>1
        <4> QED
          BY <3>1, <4>1
      <3>2. CASE i # n + 1
        <4>1. i \in 0..n /\ (i # 0 => i - 1 \in 0..n + 1 /\ i - 1 # n + 1)
          BY <3>2
        <4> QED
          BY <2>2, <3>2, <4>1
      <3> QED
        BY <3>1, <3>2
    <2>4. h = [i \in 0..n + 1 |-> IF i = 0 THEN <<>> ELSE Push(h[i - 1], q[i])]
      BY <2>3
    <2> HIDE DEF h
    <2> QED
      BY <2>4
  <1> HIDE DEF E
  <1>4. B = {}
    <2> SUFFICES ASSUME B # {}
                 PROVE  FALSE
      OBVIOUS
    <2>1. PICK m \in B : \A k \in B : m <= k
      BY LeastElement
    <2>2. m \in Nat /\ ~E(m) /\ m # 0
      BY <1>2
    <2>3. m - 1 \in Nat /\ (m - 1) + 1 = m /\ m - 1 \notin B
      BY <2>1, <2>2
    <2>4. E((m - 1) + 1)
      BY <1>3, <2>3
    <2> QED
      BY <2>2, <2>3, <2>4
  <1>5. E(M)
    BY <1>1, <1>4
  <1>6. g = F(g)
    <2>1. \E f : f = F(f)
      BY <1>5 DEF E
    <2> HIDE DEF F
    <2> QED
      BY <2>1
  <1> HIDE DEF g
  <1>7. \A n \in 0..M : g[n] = IF n = 0 THEN <<>> ELSE Push(g[n - 1], q[n])
    <2> DEFINE G == F(g)
    <2>1. \A n \in 0..M : G[n] = IF n = 0 THEN <<>> ELSE Push(g[n - 1], q[n])
      OBVIOUS
    <2>2. g = G
      BY <1>6
    <2> HIDE DEF G
    <2> QED
      BY <2>1, <2>2
  <1> HIDE DEF F
  <1> DEFINE C == {n \in 0..M : ~Folded(g[n], q, n)}
  <1>8. C = {}
    <2> SUFFICES ASSUME C # {}
                 PROVE  FALSE
      OBVIOUS
    <2>1. C \in SUBSET Nat
      BY <1>1
    <2>2. PICK m \in C : \A k \in C : m <= k
      BY <2>1, LeastElement
    <2>3. m \in 0..M /\ ~Folded(g[m], q, m)
      OBVIOUS
    <2>4. CASE m = 0
      <3>1. g[m] = <<>>
        BY <1>7, <2>3, <2>4
      <3>2. Folded(<<>>, q, 0)
        BY DEF Folded
      <3> QED
        BY <2>3, <2>4, <3>1, <3>2
    <2>5. CASE m # 0
      <3> DEFINE n == m - 1
      <3>1. n \in 0..M /\ n \in Nat /\ n + 1 = m /\ n \notin C /\ n + 1 \in 1..M
        BY <1>1, <2>2, <2>3, <2>5
      <3>2. g[m] = Push(g[n], q[m])
        BY <1>7, <2>3, <2>5
      <3> HIDE DEF n
      <3>3. Folded(g[n], q, n)
        BY <3>1
      <3>4. Folded(Push(g[n], q[n + 1]), q, n + 1)
        BY <1>1, <3>1, <3>3, PushFolds DEF M
      <3> QED
        BY <2>3, <3>1, <3>2, <3>4
    <2> QED
      BY <2>4, <2>5
  <1>9. Folded(g[M], q, M)
    BY <1>1, <1>8
  <1> QED
    BY <1>0, <1>9 DEF q, M

-----------------------------------------------------------------------------
(* In the order of their URLs *)

Before(S, r) == {q \in S : q.url < r.url}

LEMMA RankedByUrl ==
    ASSUME NEW f \in Seq(Pushed), \A k, l \in 1..Len(f) : f[k].url = f[l].url => k = l
    PROVE  /\ \A k \in 1..Len(f) : \E r \in ToSet(f) : Cardinality(Before(ToSet(f), r)) = k - 1
           /\ \A r \in ToSet(f) : Cardinality(Before(ToSet(f), r)) + 1 \in 1..Len(f)
           /\ \A q, r \in ToSet(f) : q.url < r.url =>
                 Cardinality(Before(ToSet(f), q)) < Cardinality(Before(ToSet(f), r))
           /\ \A q, r \in ToSet(f) : q.url = r.url => q = r
           /\ \A r \in ToSet(f) : r \in Pushed /\ r.url \in Nat
  <1> DEFINE S == ToSet(f)
             n == Len(f)
             g == [r \in S |-> Cardinality(Before(S, r)) + 1]
  <1>1. n \in Nat /\ S = {f[k] : k \in 1..n} /\ \A k \in 1..n : f[k] \in Pushed
    BY ElementOfSeq DEF ToSet
  <1>2. \A r \in S : r \in Pushed /\ r.url \in Nat
    <2>1. \A r \in Pushed : r.url \in Nat
      BY ReportAssumption DEF Pushed
    <2>2. \A r \in S : r \in Pushed
      BY <1>1
    <2> HIDE DEF S
    <2> QED
      BY <2>1, <2>2
  <1>3. \A q, r \in S : q.url = r.url => q = r
    BY <1>1
  <1>4. IsFiniteSet(S) /\ Cardinality(S) = n
    <2> DEFINE b == [k \in 1..n |-> f[k]]
    <2>1. b \in [1..n -> S]
      BY <1>1
    <2>2. \A i, j \in 1..n : b[i] = b[j] => i = j
      BY <1>1
    <2>3. \A r \in S : \E i \in 1..n : b[i] = r
      BY <1>1
    <2> HIDE DEF b, S, n
    <2>4. b \in Bijection(1..n, S)
      BY <2>1, <2>2, <2>3 DEF Bijection, Injection, Surjection, IsInjective
    <2>5. ExistsBijection(1..n, S)
      BY <2>4 DEF ExistsBijection
    <2>6. IsFiniteSet(1..n) /\ Cardinality(1..n) = n
      BY <1>1, FS_Interval
    <2> QED
      BY <2>5, <2>6, FS_Bijection
  <1> HIDE DEF S
  <1>5. \A r \in S : /\ IsFiniteSet(Before(S, r)) /\ Cardinality(Before(S, r)) \in Nat
                     /\ Cardinality(Before(S, r)) < n
    <2> TAKE r \in S
    <2>1. Before(S, r) \in SUBSET (S \ {r})
      BY <1>2 DEF Before
    <2>2. IsFiniteSet(S \ {r}) /\ Cardinality(S \ {r}) = n - 1
      BY <1>4, FS_RemoveElement
    <2>3. IsFiniteSet(Before(S, r)) /\ Cardinality(Before(S, r)) <= n - 1
      BY <2>1, <2>2, FS_Subset
    <2>4. Cardinality(Before(S, r)) \in Nat
      BY <2>3, FS_CardinalityType
    <2> HIDE DEF n
    <2> QED
      BY <1>1, <2>3, <2>4
  <1>6. ASSUME NEW q \in S, NEW r \in S, q.url < r.url
        PROVE  Cardinality(Before(S, q)) < Cardinality(Before(S, r))
    <2>1. q \notin Before(S, q) /\ Before(S, q) \cup {q} \in SUBSET Before(S, r)
      BY <1>2, <1>6 DEF Before
    <2>2. IsFiniteSet(Before(S, q)) /\ IsFiniteSet(Before(S, r))
          /\ Cardinality(Before(S, q)) \in Nat /\ Cardinality(Before(S, r)) \in Nat
      BY <1>5
    <2>3. Cardinality(Before(S, q) \cup {q}) = Cardinality(Before(S, q)) + 1
      BY <2>1, <2>2, FS_AddElement
    <2>4. Cardinality(Before(S, q) \cup {q}) <= Cardinality(Before(S, r))
      BY <2>1, <2>2, FS_Subset
    <2> QED
      BY <2>2, <2>3, <2>4
  <1>7. \A r \in S : Cardinality(Before(S, r)) + 1 \in 1..n
    <2> HIDE DEF n
    <2> QED
      BY <1>1, <1>5
  <1>8. g \in Injection(S, 1..n)
    <2>1. g \in [S -> 1..n]
      BY <1>7
    <2>2. ASSUME NEW q \in S, NEW r \in S, g[q] = g[r]
          PROVE  q = r
      <3>1. Cardinality(Before(S, q)) = Cardinality(Before(S, r))
        BY <1>5, <2>2
      <3>2. ~(q.url < r.url) /\ ~(r.url < q.url)
        BY <1>5, <1>6, <3>1
      <3> QED
        BY <1>2, <1>3, <3>2
    <2> HIDE DEF g, n
    <2> QED
      BY <2>1, <2>2 DEF Injection, IsInjective
  <1>9. g \in Surjection(S, 1..n)
    <2> HIDE DEF g, n
    <2>0. n \in Nat /\ n \in Int /\ 1 \in Int
      BY <1>1
    <2>1. IsFiniteSet(1..n) /\ Cardinality(1..n) = n
      BY <2>0, FS_Interval
    <2> QED
      BY <1>4, <1>8, <2>1, FS_Injection
  <1>10. ASSUME NEW k \in 1..n
         PROVE  \E r \in S : Cardinality(Before(S, r)) = k - 1
    <2>1. PICK r \in S : g[r] = k
      <3> HIDE DEF g
      <3> QED
        BY <1>9 DEF Surjection
    <2>2. Cardinality(Before(S, r)) + 1 = k
      BY <2>1
    <2> QED
      BY <1>5, <2>2
  <1> QED
    BY <1>2, <1>3, <1>6, <1>7, <1>10 DEF S

\* The answer's reports are those of the fold, in order.
LEMMA ItemsInOrder ==
    ASSUME NEW sinks, FoldSinks(sinks) \in Seq(Pushed),
           \A k, l \in 1..Len(FoldSinks(sinks)) :
              FoldSinks(sinks)[k].url = FoldSinks(sinks)[l].url => k = l
    PROVE  /\ ToSet(Items_(sinks)) = ToSet(FoldSinks(sinks))
           /\ \A k, l \in 1..Len(Items_(sinks)) : k < l => Items_(sinks)[k].url < Items_(sinks)[l].url
  <1> DEFINE f == FoldSinks(sinks)
             S == ToSet(f)
             n == Len(f)
             items == Items_(sinks)
             rank(r) == Cardinality(Before(S, r))
  <1>1. n \in Nat
    OBVIOUS
  <1>2. /\ \A k \in 1..n : \E r \in S : rank(r) = k - 1
        /\ \A r \in S : rank(r) + 1 \in 1..n
        /\ \A q, r \in S : q.url < r.url => rank(q) < rank(r)
        /\ \A q, r \in S : q.url = r.url => q = r
        /\ \A r \in S : r \in Pushed /\ r.url \in Nat
    BY RankedByUrl
  <1>3. items = [k \in 1..n |-> CHOOSE r \in S : rank(r) = k - 1]
    BY DEF Items_, Before
  <1> HIDE DEF n, S, rank, items
  <1>4. /\ items \in [1..n -> S] /\ Len(items) = n
        /\ \A k \in 1..n : items[k] \in S /\ rank(items[k]) = k - 1
    <2>1. \A k \in 1..n : items[k] = CHOOSE r \in S : rank(r) = k - 1
      BY <1>3
    <2>2. \A k \in 1..n : items[k] \in S /\ rank(items[k]) = k - 1
      BY <1>2, <2>1
    <2> QED
      BY <1>1, <1>3, <2>2
  <1>5. ASSUME NEW k \in 1..n, NEW l \in 1..n, k < l
        PROVE  items[k].url < items[l].url
    <2> DEFINE q == items[k]
               r == items[l]
    <2>1. q \in S /\ r \in S /\ rank(q) = k - 1 /\ rank(r) = l - 1
      BY <1>4
    <2> HIDE DEF q, r
    <2>2. q.url \in Nat /\ r.url \in Nat /\ k \in Nat /\ l \in Nat
      BY <1>1, <1>2, <2>1
    <2>3. q # r /\ ~(r.url < q.url)
      BY <1>2, <1>5, <2>1, <2>2
    <2>4. q.url # r.url
      BY <1>2, <2>1, <2>3
    <2> QED
      BY <2>2, <2>3, <2>4 DEF q, r
  <1>6. ToSet(items) = S
    <2>1. ToSet(items) = {items[k] : k \in 1..n}
      BY <1>4 DEF ToSet
    <2>2. ASSUME NEW r \in S
          PROVE  \E k \in 1..n : items[k] = r
      <3> DEFINE k == rank(r) + 1
      <3>1. k \in 1..n /\ rank(r) = k - 1
        <4>1. rank(r) + 1 \in 1..n /\ rank(r) \in Nat
          <5>1. rank(r) \in Nat
            <6>1. IsFiniteSet(S)
              <7>1. S = {f[j] : j \in 1..n}
                BY DEF S, ToSet, n
              <7> DEFINE b == [j \in 1..n |-> f[j]]
              <7>2. b \in Surjection(1..n, S)
                BY <7>1 DEF Surjection
              <7>3. IsFiniteSet(1..n)
                BY <1>1, FS_Interval
              <7> HIDE DEF b
              <7> QED
                BY <7>2, <7>3, FS_Surjection
            <6>2. IsFiniteSet(Before(S, r))
              BY <6>1, FS_Subset DEF Before
            <6> QED
              BY <6>2, FS_CardinalityType DEF rank
          <5> QED
            BY <1>2, <5>1
        <4> QED
          BY <4>1
      <3>2. rank(items[k]) = rank(r) /\ items[k] \in S
        BY <1>4, <3>1
      <3>3. ~(items[k].url < r.url) /\ ~(r.url < items[k].url)
        <4> DEFINE q == items[k]
        <4>1. q \in S /\ rank(q) = rank(r) /\ rank(r) \in Int
          BY <3>1, <3>2
        <4> HIDE DEF q
        <4>2. ~(rank(q) < rank(r)) /\ ~(rank(r) < rank(q))
          BY <4>1
        <4>3. ~(q.url < r.url) /\ ~(r.url < q.url)
          BY <1>2, <4>1, <4>2
        <4> QED
          BY <4>3 DEF q
      <3>4. items[k] = r
        BY <1>2, <3>2, <3>3
      <3> QED
        BY <3>1, <3>4
    <2> QED
      BY <1>4, <2>1, <2>2
  <1> QED
    BY <1>4, <1>5, <1>6 DEF items, S

-----------------------------------------------------------------------------
(* What a sink holds *)

\* What an item has looked at in its own document, and what it was probed
\* with, is no newer than what the server has now.
Ordered(p, looks, d, u, time) ==
    /\ p = Untracked => looks = {}
    /\ p.text <= time
    /\ d # Untracked => p.text <= d.text
    /\ \A l \in looks : l.url = u =>
          p.text <= l.text /\ l.text <= time /\ (d # Untracked => l.text <= d.text)

LooksOrdered ==
    /\ listed \in Listings
    /\ \A u \in Urls : documents[u].text <= clock
    /\ \A i \in Items :
          /\ i \notin running => probed[i] = Untracked
          /\ Ordered(probed[i], seen[i], documents[listed[i]], listed[i], clock)

\* A report that replaces others is about the item's own document, and of the
\* version it names.
SinkSound(i, sink) ==
    /\ sink \in Seq(Pushed)
    /\ \A r \in ToSet(sink) : r.replace => r.url = listed[i] /\ r.version \in {NoVersion, r.text}

SinksSound ==
    \A i \in Items : outcome[i].ok => SinkSound(i, outcome[i].value)

PollInv == ReportInv /\ BatchInv /\ BatchAnswered /\ LooksOrdered /\ SinksSound

LEMMA DocumentTexts ==
    /\ \A d \in Document : d.text \in Nat /\ (d # Untracked => d.text >= 1)
    /\ Untracked.text = 0 /\ Untracked \in Document
  <1>1. MaxClock \in Nat
    BY ReportAssumption
  <1> QED
    BY <1>1 DEF Document, Untracked

LEMMA LookTexts ==
    \A l \in Look : l.text \in Nat /\ l.url \in Urls
  <1>1. MaxClock \in Nat
    BY ReportAssumption
  <1> QED
    BY <1>1 DEF Look

LEMMA OrderedTypes ==
    ASSUME ReportInv
    PROVE  /\ clock \in Nat /\ listed \in [Items -> Urls]
           /\ documents \in [Urls -> Document]
           /\ probed \in [Items -> Document] /\ seen \in [Items -> SUBSET Look]
           /\ \A u \in Urls : documents[u].text \in Nat
           /\ \A i \in Items : /\ probed[i].text \in Nat /\ listed[i] \in Urls
                               /\ \A l \in seen[i] : l.text \in Nat /\ l.url \in Urls
  <1>1. /\ clock \in 1..MaxClock /\ listed \in [Items -> Urls]
        /\ documents \in [Urls -> Document]
        /\ probed \in [Items -> Document] /\ seen \in [Items -> SUBSET Look]
    BY DEF ReportInv, ReportTypeOK
  <1>2. clock \in Nat
    BY <1>1, ReportAssumption
  <1>3. \A u \in Urls : documents[u].text \in Nat
    BY <1>1, DocumentTexts
  <1>4. \A i \in Items : probed[i].text \in Nat /\ listed[i] \in Urls
    BY <1>1, DocumentTexts
  <1>5. \A i \in Items : \A l \in seen[i] : l.text \in Nat /\ l.url \in Urls
    BY <1>1, LookTexts
  <1> QED
    BY <1>1, <1>2, <1>3, <1>4, <1>5

LEMMA OrderedInit ==
    ASSUME ReportInit
    PROVE  LooksOrdered
  <1>1. clock = 1 /\ listed \in Listings
    BY DEF ReportInit
  <1>2. \A u \in Urls : documents[u].text <= clock
    BY <1>1 DEF ReportInit, Untracked
  <1>3. \A i \in Items : probed[i] = Untracked /\ seen[i] = {}
    BY DEF ReportInit
  <1>4. ReportInv
    BY ReportInvInit
  <1>5. \A i \in Items : documents[listed[i]].text \in Nat
    BY <1>4, OrderedTypes
  <1>6. \A i \in Items : Ordered(Untracked, {}, documents[listed[i]], listed[i], clock)
    BY <1>1, <1>5, DocumentTexts DEF Ordered
  <1> QED
    BY <1>1, <1>2, <1>3, <1>6 DEF LooksOrdered

LEMMA OrderedStarts ==
    ASSUME PollInv, ItemStarts
    PROVE  LooksOrdered'
  <1>0. ReportInv /\ LooksOrdered /\ BatchInv
    BY DEF PollInv
  <1>1. next \in Items /\ next \notin running
    <2>1. next \in 1..N + 1 /\ next <= N
      BY <1>0 DEF ReportInv, ReportTypeOK, BatchTypeOK, ItemStarts, Start, ItemLeft
    <2>2. running \subseteq 1..next - 1
      BY <1>0 DEF BatchInv, EachItemOnce
    <2> QED
      BY <2>1, <2>2, BatchAssumption DEF Items
  <1>2. seen[next] = {}
    BY <1>0, <1>1 DEF LooksOrdered, Ordered
  <1>3. /\ running' = running \cup {next}
        /\ UNCHANGED <<listed, documents, clock, seen>>
        /\ probed' = [probed EXCEPT ![next] = documents[listed[next]]]
    BY DEF ItemStarts, Start, documentVars
  <1> DEFINE d == documents[listed[next]]
  <1>4. d \in Document /\ d.text \in Nat /\ d.text <= clock /\ clock \in Nat
    BY <1>0, <1>1, OrderedTypes DEF LooksOrdered
  <1>5. probed'[next] = d /\ \A i \in Items \ {next} : probed'[i] = probed[i]
    BY <1>0, <1>1, <1>3, OrderedTypes
  <1> HIDE DEF d
  <1>6. Ordered(d, {}, d, listed[next], clock)
    BY <1>4 DEF Ordered
  <1>7. ASSUME NEW i \in Items
        PROVE  /\ i \notin running' => probed'[i] = Untracked
               /\ Ordered(probed'[i], seen'[i], documents'[listed'[i]], listed'[i], clock')
    <2>1. CASE i = next
      BY <1>2, <1>3, <1>5, <1>6, <2>1 DEF d
    <2>2. CASE i # next
      BY <1>0, <1>3, <1>5, <2>2 DEF LooksOrdered
    <2> QED
      BY <2>1, <2>2
  <1> QED
    BY <1>0, <1>3, <1>7 DEF LooksOrdered

LEMMA OrderedLooks ==
    ASSUME PollInv, NEW i \in Items, NEW u \in Urls, HandlerLooks(i, u)
    PROVE  LooksOrdered'
  <1>0. ReportInv /\ LooksOrdered
    BY DEF PollInv
  <1> DEFINE look == [url |-> u, text |-> documents[u].text]
             d == documents[listed[i]]
  <1>1. /\ UNCHANGED <<running, listed, documents, clock, probed>>
        /\ seen' = [seen EXCEPT ![i] = seen[i] \cup {look}]
        /\ probed[i] # Untracked /\ documents[u] # Untracked
    BY DEF HandlerLooks, batchVars, documentVars
  <1>2. /\ d.text \in Nat /\ d.text <= clock /\ documents[u].text \in Nat /\ documents[u].text <= clock
        /\ clock \in Nat /\ probed[i].text \in Nat
    BY <1>0, OrderedTypes DEF LooksOrdered
  <1>3. look.url = u /\ look.text = documents[u].text
    OBVIOUS
  <1>4. seen'[i] = seen[i] \cup {look} /\ \A j \in Items \ {i} : seen'[j] = seen[j]
    BY <1>0, <1>1, OrderedTypes
  <1>5. Ordered(probed[i], seen[i], d, listed[i], clock)
    BY <1>0 DEF LooksOrdered
  <1> HIDE DEF look
  <1>6. Ordered(probed[i], seen[i] \cup {look}, d, listed[i], clock)
    <2>1. ASSUME NEW l \in seen[i] \cup {look}, l.url = listed[i]
          PROVE  probed[i].text <= l.text /\ l.text <= clock /\ (d # Untracked => l.text <= d.text)
      <3>1. CASE l \in seen[i]
        BY <1>5, <2>1, <3>1 DEF Ordered
      <3>2. CASE l = look
        BY <1>1, <1>2, <1>3, <1>5, <2>1, <3>2 DEF Ordered
      <3> QED
        BY <3>1, <3>2
    <2> QED
      BY <1>1, <1>5, <2>1 DEF Ordered
  <1>7. ASSUME NEW j \in Items
        PROVE  /\ j \notin running' => probed'[j] = Untracked
               /\ Ordered(probed'[j], seen'[j], documents'[listed'[j]], listed'[j], clock')
    <2>1. CASE j = i
      BY <1>0, <1>1, <1>4, <1>6, <2>1 DEF LooksOrdered
    <2>2. CASE j # i
      BY <1>0, <1>1, <1>4, <2>2 DEF LooksOrdered
    <2> QED
      BY <2>1, <2>2
  <1> QED
    BY <1>0, <1>1, <1>7 DEF LooksOrdered

LEMMA OrderedEnds ==
    ASSUME PollInv, NEW i \in Items, NEW result, Ends(i, result)
    PROVE  LooksOrdered'
  <1>0. ReportInv /\ LooksOrdered
    BY DEF PollInv
  <1>1. /\ UNCHANGED <<listed, documents, clock>>
        /\ running' = running \ {i}
        /\ probed' = [probed EXCEPT ![i] = Untracked]
        /\ seen' = [seen EXCEPT ![i] = {}]
    BY DEF Ends, Complete, documentVars
  <1>2. /\ probed'[i] = Untracked /\ seen'[i] = {}
        /\ \A j \in Items \ {i} : probed'[j] = probed[j] /\ seen'[j] = seen[j]
    BY <1>0, <1>1, OrderedTypes
  <1>3. Ordered(Untracked, {}, documents[listed[i]], listed[i], clock)
    <2>1. documents[listed[i]].text \in Nat /\ clock \in Nat
      BY <1>0, OrderedTypes
    <2> QED
      BY <2>1, DocumentTexts DEF Ordered
  <1>4. ASSUME NEW j \in Items
        PROVE  /\ j \notin running' => probed'[j] = Untracked
               /\ Ordered(probed'[j], seen'[j], documents'[listed'[j]], listed'[j], clock')
    <2>1. CASE j = i
      BY <1>1, <1>2, <1>3, <2>1
    <2>2. CASE j # i
      BY <1>0, <1>1, <1>2, <2>2 DEF LooksOrdered
    <2> QED
      BY <2>1, <2>2
  <1> QED
    BY <1>0, <1>1, <1>4 DEF LooksOrdered

\* A document that becomes another one gets a newer text, keeps its own, or
\* is gone.
LEMMA OrderedBecomes ==
    ASSUME PollInv, NEW u \in Urls, NEW d \in Document, Becomes(u, d),
           clock' \in Nat, clock <= clock', d.text <= clock',
           \/ d = Untracked
           \/ clock <= d.text
           \/ (documents[u] # Untracked /\ d.text = documents[u].text)
    PROVE  LooksOrdered'
  <1>0. ReportInv /\ LooksOrdered
    BY DEF PollInv
  <1>1. /\ UNCHANGED <<listed, running, probed, seen>>
        /\ documents' = [documents EXCEPT ![u] = d]
    BY DEF Becomes, itemVars, batchVars
  <1>2. documents'[u] = d /\ \A w \in Urls \ {u} : documents'[w] = documents[w]
    BY <1>0, <1>1, OrderedTypes
  <1>3. clock \in Nat /\ d.text \in Nat
    BY <1>0, OrderedTypes, DocumentTexts
  <1>4. ASSUME NEW w \in Urls
        PROVE  documents'[w].text <= clock'
    <2>1. documents[w].text \in Nat /\ documents[w].text <= clock
      BY <1>0, OrderedTypes DEF LooksOrdered
    <2> QED
      BY <1>2, <1>3, <2>1
  <1>5. ASSUME NEW i \in Items
        PROVE  Ordered(probed[i], seen[i], documents'[listed[i]], listed[i], clock')
    <2> DEFINE p == probed[i]
               looks == seen[i]
               w == listed[i]
               before == documents[w]
               after == documents'[w]
    <2>1. Ordered(p, looks, before, w, clock)
      BY <1>0 DEF LooksOrdered
    <2>2. p.text \in Nat /\ w \in Urls /\ \A l \in looks : l.text \in Nat
      BY <1>0, OrderedTypes
    <2>3. \/ after = before
          \/ after = Untracked
          \/ clock <= after.text
          \/ (before # Untracked /\ after.text = before.text)
      BY <1>2, <2>2
    <2>4. before.text \in Nat /\ after.text \in Nat
      BY <1>0, <1>2, <1>3, <2>2, OrderedTypes
    <2> HIDE DEF p, looks, w, before, after
    <2>5. Ordered(p, looks, after, w, clock')
      <3>1. p = Untracked => looks = {}
        BY <2>1 DEF Ordered
      <3>2. p.text <= clock /\ (before # Untracked => p.text <= before.text)
        BY <2>1 DEF Ordered
      <3>3. p.text <= clock' /\ (after # Untracked => p.text <= after.text)
        BY <1>3, <2>2, <2>3, <2>4, <3>2
      <3>4. ASSUME NEW l \in looks, l.url = w
            PROVE  p.text <= l.text /\ l.text <= clock' /\ (after # Untracked => l.text <= after.text)
        <4>1. p.text <= l.text /\ l.text <= clock /\ (before # Untracked => l.text <= before.text)
          BY <2>1, <3>4 DEF Ordered
        <4>2. l.text \in Nat
          BY <2>2
        <4> QED
          BY <1>3, <2>2, <2>3, <2>4, <4>1, <4>2
      <3> QED
        BY <3>1, <3>3, <3>4 DEF Ordered
    <2> QED
      BY <2>5 DEF p, looks, w, after
  <1> QED
    BY <1>0, <1>1, <1>4, <1>5 DEF LooksOrdered

LEMMA OrderedDocuments ==
    ASSUME PollInv, DocumentStep
    PROVE  LooksOrdered'
  <1>0. ReportInv /\ LooksOrdered
    BY DEF PollInv
  <1>1. PICK u \in Urls : Edited(u) \/ Closed(u) \/ Loaded(u) \/ Removed(u)
    BY DEF DocumentStep
  <1>2. /\ clock \in Nat /\ documents[u] \in Document /\ documents[u].text \in Nat
        /\ documents[u].text <= clock
    BY <1>0, OrderedTypes DEF LooksOrdered
  <1>3. CASE Edited(u) \/ Loaded(u)
    <2>1. clock' = clock + 1 /\ clock + 1 \in 1..MaxClock
      BY <1>2, <1>3, ReportAssumption DEF Edited, Loaded, Tick
    <2>2. PICK o \in {"open", "workspace"} : Becomes(u, [origin |-> o, text |-> clock + 1])
      BY <1>3 DEF Edited, Loaded
    <2> DEFINE d == [origin |-> o, text |-> clock + 1]
    <2>3. d \in Document /\ d.text = clock + 1
      BY <2>1 DEF Document
    <2>4. Becomes(u, d)
      BY <2>2
    <2> HIDE DEF d
    <2> QED
      BY <1>2, <2>1, <2>3, <2>4, OrderedBecomes
  <1>4. CASE Becomes(u, Untracked) /\ clock' = clock
    BY <1>2, <1>4, OrderedBecomes, DocumentTexts
  <1>5. CASE Closed(u)
    <2> DEFINE d == [documents[u] EXCEPT !.origin = "workspace"]
    <2>1. documents[u].origin = "open" /\ clock' = clock /\ (Becomes(u, Untracked) \/ Becomes(u, d))
      BY <1>5 DEF Closed
    <2>2. documents[u] # Untracked /\ d \in Document /\ d.text = documents[u].text
      BY <1>2, <2>1 DEF Document, Untracked
    <2> HIDE DEF d
    <2>3. CASE Becomes(u, d)
      BY <1>2, <2>1, <2>2, <2>3, OrderedBecomes
    <2> QED
      BY <1>4, <2>1, <2>3
  <1>6. CASE Removed(u)
    BY <1>4, <1>6 DEF Removed
  <1> QED
    BY <1>1, <1>3, <1>5, <1>6

LEMMA OrderedStep ==
    ASSUME PollInv, [ReportNext]_vars
    PROVE  LooksOrdered'
  <1>1. ASSUME NEW i \in Items, ItemStep(i)
        PROVE  LooksOrdered'
    BY <1>1, OrderedLooks, OrderedEnds
    DEF ItemStep, ItemSkipped, HandlerFails, ItemModified, ItemReports
  <1>2. CASE PollCollects
    BY <1>2 DEF PollCollects, Collect, documentVars, itemVars, PollInv, LooksOrdered, Ordered
  <1>3. CASE UNCHANGED vars
    BY <1>3 DEF vars, batchVars, documentVars, itemVars, PollInv, LooksOrdered, Ordered
  <1> QED
    BY <1>1, <1>2, <1>3, OrderedStarts, OrderedDocuments DEF ReportNext, PollStep

\* The reports an item makes that takes its own document to be the probed one.
LEMMA OwnReportSound ==
    ASSUME PollInv, NEW i \in Items, probed[i] # Untracked, ~Stale(i),
           NEW l \in seen[i], l.url = listed[i]
    PROVE  Reported(l, TRUE).version \in {NoVersion, l.text}
  <1> DEFINE d == documents[listed[i]]
             p == probed[i]
  <1>0. ReportInv /\ LooksOrdered
    BY DEF PollInv
  <1>1. d \in Document /\ p \in Document /\ d.text \in Nat /\ p.text \in Nat /\ l.text \in Nat
    BY <1>0, OrderedTypes
  <1>2. Reported(l, TRUE).version = IF d.origin = "open" THEN d.text ELSE NoVersion
    BY DEF Reported, WorkspaceVersion
  <1>3. p.text <= l.text /\ (d # Untracked => l.text <= d.text)
    BY <1>0 DEF LooksOrdered, Ordered
  <1>4. CASE d.origin = "open"
    <2>1. d # Untracked
      BY <1>4 DEF Untracked
    <2>2. d.text >= 1 /\ Version(d) = d.text
      BY <1>1, <1>4, <2>1, DocumentTexts DEF Version
    <2>3. Version(d) = Version(p)
      BY <2>1 DEF Stale
    <2>4. p.text = d.text
      BY <1>1, <2>2, <2>3 DEF Version
    <2>5. l.text = d.text
      BY <1>1, <1>3, <2>1, <2>4
    <2> QED
      BY <1>2, <1>4, <2>5
  <1> QED
    BY <1>2, <1>4

LEMMA ToSetOfBoth ==
    ASSUME NEW S, NEW s \in Seq(S), NEW t \in Seq(S), NEW r \in ToSet(s \o t)
    PROVE  r \in ToSet(s) \/ r \in ToSet(t)
  <1>1. PICK k \in 1..Len(s \o t) : r = (s \o t)[k]
    BY DEF ToSet
  <1>2. Len(s \o t) = Len(s) + Len(t) /\ Len(s) \in Nat /\ Len(t) \in Nat
    OBVIOUS
  <1>3. CASE k <= Len(s)
    BY <1>1, <1>2, <1>3 DEF ToSet
  <1>4. CASE k > Len(s)
    <2>1. k - Len(s) \in 1..Len(t) /\ r = t[k - Len(s)]
      BY <1>1, <1>2, <1>4
    <2> QED
      BY <2>1 DEF ToSet
  <1> QED
    BY <1>2, <1>3, <1>4

LEMMA ItemSinkSound ==
    ASSUME PollInv, NEW i \in Items, probed[i] # Untracked, ~Stale(i),
           NEW own \in {{l \in seen[i] : l.url = listed[i]}, {}}
    PROVE  SinkSound(i, ItemSink(i, own))
  <1> DEFINE related == seen[i] \ own
             first   == {Reported(l, TRUE) : l \in own}
             second  == {Reported(l, FALSE) : l \in related}
  <1>0. ReportInv /\ own \subseteq seen[i] /\ IsFiniteSet(seen[i])
    BY DEF PollInv, ReportInv
  <1>1. ItemSink(i, own) \in Seq(Pushed)
    BY <1>0, ItemSinkType
  <1>2. IsFiniteSet(first) /\ IsFiniteSet(second)
    <2>1. IsFiniteSet(own) /\ IsFiniteSet(related)
      BY <1>0, FS_Subset
    <2> QED
      BY <2>1, ImageFinite
  <1>3. \A r \in first : r.url = listed[i] /\ r.version \in {NoVersion, r.text}
    <2>1. ASSUME NEW l \in own
          PROVE  Reported(l, TRUE).url = listed[i]
                 /\ Reported(l, TRUE).version \in {NoVersion, Reported(l, TRUE).text}
      <3>1. l \in seen[i] /\ l.url = listed[i]
        OBVIOUS
      <3>2. Reported(l, TRUE).version \in {NoVersion, l.text}
        BY <3>1, OwnReportSound
      <3>3. Reported(l, TRUE).url = l.url /\ Reported(l, TRUE).text = l.text
        BY DEF Reported
      <3> QED
        BY <3>1, <3>2, <3>3
    <2> QED
      BY <2>1
  <1>4. \A r \in second : ~r.replace
    BY DEF Reported
  <1>5. ItemSink(i, own) = SetToSeq(first) \o SetToSeq(second)
    BY DEF ItemSink
  <1> HIDE DEF first, second
  <1>6. /\ SetToSeq(first) \in Seq(first) /\ SetToSeq(second) \in Seq(second)
        /\ SetToSeq(first) \in Seq(first \cup second) /\ SetToSeq(second) \in Seq(first \cup second)
    <2>1. SetToSeq(first) \in Seq(first) /\ SetToSeq(second) \in Seq(second)
      BY <1>2, FiniteSetToSeq
    <2> QED
      BY <2>1
  <1>7. \A r \in ToSet(SetToSeq(first)) : r \in first
    BY <1>6, ElementOfSeq DEF ToSet
  <1>8. \A r \in ToSet(SetToSeq(second)) : r \in second
    BY <1>6, ElementOfSeq DEF ToSet
  <1>9. \A r \in ToSet(ItemSink(i, own)) : r \in first \/ r \in second
    BY <1>5, <1>6, <1>7, <1>8, ToSetOfBoth
  <1> QED
    BY <1>1, <1>3, <1>4, <1>9 DEF SinkSound

LEMMA SinksEnd ==
    ASSUME PollInv, NEW i \in Items, NEW result, Ends(i, result),
           result.ok => SinkSound(i, result.value)
    PROVE  SinksSound'
  <1>1. UNCHANGED listed /\ outcome' = [outcome EXCEPT ![i] = result]
    BY DEF Ends, Complete, documentVars
  <1>2. outcome \in [Items -> Outcome \cup {Pending}]
    BY DEF PollInv, BatchInv, BatchTypeOK
  <1>3. outcome'[i] = result /\ \A j \in Items \ {i} : outcome'[j] = outcome[j]
    BY <1>1, <1>2
  <1> QED
    BY <1>1, <1>3 DEF PollInv, SinksSound, SinkSound

LEMMA SinksSoundStep ==
    ASSUME PollInv, [ReportNext]_vars
    PROVE  SinksSound'
  <1>1. ASSUME UNCHANGED <<listed, outcome>>
        PROVE  SinksSound'
    BY <1>1 DEF PollInv, SinksSound, SinkSound
  <1>2. ASSUME NEW i \in Items, ItemStep(i)
        PROVE  SinksSound'
    <2>1. CASE \E u \in Urls : HandlerLooks(i, u)
      BY <1>1, <2>1 DEF HandlerLooks, batchVars, documentVars
    <2>2. CASE ItemSkipped(i)
      <3>1. SinkSound(i, <<>>)
        BY DEF SinkSound, ToSet
      <3> QED
        BY <2>2, <3>1, SinksEnd DEF ItemSkipped
    <2>3. CASE HandlerFails(i) \/ ItemModified(i)
      BY <2>3, SinksEnd DEF HandlerFails, ItemModified
    <2>4. CASE ItemReports(i)
      <3>1. PICK own \in {{l \in seen[i] : l.url = listed[i]}, {}} :
               Ends(i, [ok |-> TRUE, value |-> ItemSink(i, own)])
        BY <2>4 DEF ItemReports
      <3>2. SinkSound(i, ItemSink(i, own))
        BY <2>4, ItemSinkSound DEF ItemReports
      <3> QED
        BY <3>1, <3>2, SinksEnd
    <2> QED
      BY <1>2, <2>1, <2>2, <2>3, <2>4 DEF ItemStep
  <1>3. CASE ItemStarts \/ PollCollects
    BY <1>1, <1>3 DEF ItemStarts, PollCollects, Start, Collect, documentVars
  <1>4. CASE DocumentStep
    BY <1>1, <1>4 DEF DocumentStep, Edited, Closed, Loaded, Removed, Becomes, batchVars
  <1>5. CASE UNCHANGED vars
    BY <1>1, <1>5 DEF vars, batchVars, documentVars
  <1> QED
    BY <1>2, <1>3, <1>4, <1>5 DEF ReportNext, PollStep

LEMMA PollInvInit ==
    ASSUME ReportInit
    PROVE  PollInv
  <1>1. ReportInv /\ LooksOrdered
    BY ReportInvInit, OrderedInit
  <1>2. BatchInv
    BY BatchInvInit DEF ReportInit
  <1>3. outcome = [i \in Items |-> Pending] /\ answer = Pending
    BY DEF ReportInit, BatchInit, SerialInit
  <1>4. BatchAnswered /\ SinksSound
    BY <1>3 DEF BatchAnswered, SinksSound, Pending
  <1> QED
    BY <1>1, <1>2, <1>4 DEF PollInv

LEMMA PollInvStep ==
    ASSUME PollInv, Seq(Pushed) \subseteq Values, [ReportNext]_vars
    PROVE  PollInv'
  <1>1. ReportInv /\ BatchInv /\ BatchAnswered
    BY DEF PollInv
  <1>2. ReportInv' /\ [BatchNext]_batchVars
    BY <1>1, ReportInvStep, ReportIsBatchStep
  <1>3. BatchInv' /\ BatchAnswered'
    BY <1>1, <1>2, BatchInvStep, BatchAnsweredStep
  <1> QED
    BY <1>2, <1>3, OrderedStep, SinksSoundStep DEF PollInv

-----------------------------------------------------------------------------
(* The answer *)

LEMMA MinIs ==
    ASSUME NEW S \in SUBSET Nat, NEW m \in S, \A x \in S : m <= x
    PROVE  Min(S) = m
  <1>1. \A y \in S : (\A x \in S : y <= x) => y = m
    OBVIOUS
  <1> QED
    BY <1>1 DEF Min

\* One report, of the sink that has the say about its URL.
Told(sinks, r) ==
    /\ r.url \in Urls
    /\ Speakers(sinks, r.url) # {}
    /\ r \in ToSet(sinks[Speaker(sinks, r.url)])
    /\ OwnItems(sinks, r.url) # {} => r.version \in {NoVersion, r.text}

LEMMA FoldedIsTold ==
    ASSUME LooksOrdered, NEW sinks \in [Items -> Seq(Pushed)],
           \A i \in Items : SinkSound(i, sinks[i]),
           NEW r, r \in ToSet(FoldSinks(sinks))
    PROVE  Told(sinks, r)
  <1> DEFINE q == FlattenSeq(sinks)
             f == FoldSinks(sinks)
             u == r.url
  <1>1. Laid(q, sinks, N) /\ Folded(f, q, Len(q))
    <2>1. Laid(q, sinks, N)
      BY FlattenIsLaid
    <2>2. q \in Seq(Pushed)
      BY <2>1 DEF Laid
    <2> QED
      BY <2>1, <2>2, FoldIsFolded
  <1>2. PICK k \in 1..Len(f) : r = f[k]
    BY DEF ToSet
  <1> HIDE DEF q, f, u
  <1>3. q \in Seq(Pushed) /\ Len(q) \in Nat
    BY <1>1 DEF Laid
  <1>4. PICK place \in [1..Len(q) -> 1..N] :
          /\ \A m \in 1..Len(q) : q[m] \in ToSet(sinks[place[m]])
          /\ \A m, l \in 1..Len(q) : m < l => place[m] <= place[l]
          /\ \A i \in 1..N : \A s \in ToSet(sinks[i]) :
                \E m \in 1..Len(q) : q[m] = s /\ place[m] = i
    BY <1>1 DEF Laid
  <1>5. PICK m \in 1..Len(q) :
          /\ q[m] = r
          /\ r.replace \/ \A j \in 1..Len(q) : q[j].url = u => ~q[j].replace /\ m <= j
    BY <1>1, <1>2 DEF Folded, u
  <1> DEFINE at == place[m]
  <1>6. at \in Items /\ at \in Nat /\ r \in ToSet(sinks[at]) /\ r \in Pushed /\ Items \subseteq Nat
    <2>1. at \in 1..N /\ 1..N \subseteq Nat
      BY <1>4
    <2>2. r \in ToSet(sinks[at])
      BY <1>4, <1>5
    <2>3. r \in Pushed
      BY <1>3, <1>5, ElementOfSeq
    <2> QED
      BY <2>1, <2>2, <2>3 DEF Items
  <1>7. u \in Urls
    BY <1>6 DEF Pushed, u
  <1>8. at \in Speakers(sinks, u)
    BY <1>6 DEF Speakers, u
  <1>9. CASE r.replace
    <2>1. at \in OwnItems(sinks, u)
      BY <1>6, <1>9 DEF OwnItems, u
    <2>2. ASSUME NEW i \in OwnItems(sinks, u)
          PROVE  i = at
      <3>1. i \in Items /\ \E s \in ToSet(sinks[i]) : s.url = u /\ s.replace
        BY DEF OwnItems
      <3>2. listed[i] = u
        BY <3>1 DEF SinkSound
      <3>3. listed[at] = u
        BY <1>6, <1>9 DEF SinkSound, u
      <3>4. \A j, l \in Items : listed[j] = listed[l] => j = l
        BY ReportAssumption DEF LooksOrdered
      <3> QED
        BY <1>6, <3>1, <3>2, <3>3, <3>4
    <2>3. OwnItems(sinks, u) = {at}
      BY <2>1, <2>2
    <2>4. Min({at}) = at
      BY <1>6, MinIs
    <2>5. Speaker(sinks, u) = at
      BY <2>3, <2>4 DEF Speaker
    <2>6. r.version \in {NoVersion, r.text}
      BY <1>6, <1>9 DEF SinkSound
    <2> QED
      BY <1>6, <1>7, <1>8, <2>5, <2>6 DEF Told, u
  <1>10. CASE ~r.replace
    <2>1. \A j \in 1..Len(q) : q[j].url = u => ~q[j].replace /\ m <= j
      BY <1>5, <1>10
    <2>2. ASSUME NEW i \in Items, NEW s \in ToSet(sinks[i]), s.url = u
          PROVE  ~s.replace /\ at <= i
      <3>1. PICK j \in 1..Len(q) : q[j] = s /\ place[j] = i
        BY <1>4, <2>2 DEF Items
      <3>2. ~s.replace /\ m <= j
        BY <2>1, <2>2, <3>1
      <3>3. CASE m = j
        BY <1>6, <3>1, <3>2, <3>3
      <3>4. CASE m < j
        BY <1>4, <3>1, <3>2, <3>4
      <3> QED
        BY <1>3, <3>2, <3>3, <3>4
    <2>3. OwnItems(sinks, u) = {}
      BY <2>2 DEF OwnItems
    <2>4. Speakers(sinks, u) \subseteq Nat /\ \A i \in Speakers(sinks, u) : at <= i
      BY <1>6, <2>2 DEF Speakers
    <2>5. Min(Speakers(sinks, u)) = at
      BY <1>8, <2>4, MinIs
    <2>6. Speaker(sinks, u) = at
      BY <2>3, <2>5 DEF Speaker
    <2> QED
      BY <1>6, <1>7, <1>8, <2>3, <2>6 DEF Told, u
  <1> QED
    BY <1>9, <1>10

\* Nobody who reported is left out.
LEMMA SpeakerIsHeard ==
    ASSUME NEW sinks \in [Items -> Seq(Pushed)], NEW u, NEW i \in Speakers(sinks, u)
    PROVE  \E r \in ToSet(FoldSinks(sinks)) : r.url = u
  <1> DEFINE q == FlattenSeq(sinks)
             f == FoldSinks(sinks)
  <1>1. Laid(q, sinks, N)
    BY FlattenIsLaid
  <1>2. q \in Seq(Pushed)
    BY <1>1 DEF Laid
  <1>3. Folded(f, q, Len(q))
    BY <1>2, FoldIsFolded
  <1> HIDE DEF q, f
  <1>4. PICK s \in ToSet(sinks[i]) : s.url = u
    BY DEF Speakers
  <1>5. i \in 1..N
    BY DEF Speakers, Items
  <1>6. PICK m \in 1..Len(q) : q[m] = s
    BY <1>1, <1>4, <1>5 DEF Laid
  <1>7. PICK k \in 1..Len(f) : f[k].url = u
    BY <1>3, <1>4, <1>6 DEF Folded
  <1>8. f[k] \in ToSet(f)
    BY DEF ToSet
  <1> QED
    BY <1>7, <1>8 DEF f

LEMMA AnswerIsMerged ==
    ASSUME PollInv
    PROVE  ReportsMerged /\ OwnVersions
  <1> SUFFICES ASSUME Answered
               PROVE  ReportsMerged /\ OwnVersions
    BY DEF ReportsMerged, OwnVersions
  <1> DEFINE sinks == answer.value
             items == Items_(sinks)
  <1>1. /\ LooksOrdered
        /\ sinks \in [Items -> Seq(Pushed)]
        /\ \A i \in Items : SinkSound(i, sinks[i])
    <2>1. outcome \in [Items -> Outcome] /\ answer = Collected(outcome) /\ answer.ok
      BY DEF PollInv, BatchAnswered, Answered
    <2>2. (\A i \in Items : outcome[i].ok) /\ answer.value = [i \in Items |-> outcome[i].value]
      BY <2>1, CollectedWell
    <2>3. \A i \in Items : SinkSound(i, outcome[i].value)
      BY <2>2 DEF PollInv, SinksSound
    <2>4. \A i \in Items : outcome[i].value \in Seq(Pushed)
      BY <2>3 DEF SinkSound
    <2> QED
      BY <2>2, <2>3, <2>4 DEF PollInv
  <1> HIDE DEF sinks
  <1>2. FlattenSeq(sinks) \in Seq(Pushed)
    BY <1>1, FlattenIsLaid DEF Laid
  <1>3. Folded(FoldSinks(sinks), FlattenSeq(sinks), Len(FlattenSeq(sinks)))
    BY <1>2, FoldIsFolded
  <1>4. /\ FoldSinks(sinks) \in Seq(Pushed)
        /\ \A k, l \in 1..Len(FoldSinks(sinks)) :
              FoldSinks(sinks)[k].url = FoldSinks(sinks)[l].url => k = l
    BY <1>3 DEF Folded
  <1>5. /\ ToSet(items) = ToSet(FoldSinks(sinks))
        /\ \A k, l \in 1..Len(items) : k < l => items[k].url < items[l].url
    BY <1>4, ItemsInOrder
  <1> HIDE DEF items
  <1>6. \A r \in ToSet(items) : Told(sinks, r)
    BY <1>1, <1>5, FoldedIsTold
  <1>7. {r.url : r \in ToSet(items)} = {u \in Urls : Speakers(sinks, u) # {}}
    <2>1. ASSUME NEW r \in ToSet(items)
          PROVE  r.url \in Urls /\ Speakers(sinks, r.url) # {}
      BY <1>6 DEF Told
    <2>2. ASSUME NEW u \in Urls, Speakers(sinks, u) # {}
          PROVE  \E r \in ToSet(items) : r.url = u
      BY <1>1, <1>5, <2>2, SpeakerIsHeard
    <2> QED
      BY <2>1, <2>2
  <1>8. ReportsMerged
    <2>1. \A r \in ToSet(items) : r \in ToSet(sinks[Speaker(sinks, r.url)])
      BY <1>6 DEF Told
    <2> QED
      BY <1>5, <1>7, <2>1 DEF ReportsMerged, sinks, items
  <1>9. OwnVersions
    <2>1. \A r \in ToSet(items) : OwnItems(sinks, r.url) # {} => r.version \in {NoVersion, r.text}
      BY <1>6 DEF Told
    <2> QED
      BY <2>1 DEF OwnVersions, sinks, items
  <1> QED
    BY <1>8, <1>9

\* However the items race each other and the documents, a poll that answers
\* well gives the client one report about every URL anybody reported on, in
\* order, and a document's own before the related ones: the fold of the sinks
\* in workspace_diagnostic_items is the push order of a serial loop.
THEOREM ReportMerged ==
    ASSUME Seq(Pushed) \subseteq Values
    PROVE  ReportSpec => []ReportsMerged
  <1>1. PollInv /\ [ReportNext]_vars => PollInv'
    BY PollInvStep
  <1> QED
    BY <1>1, PollInvInit, AnswerIsMerged, PTL DEF ReportSpec

\* A document's own report names the version it was computed from, or none,
\* whatever is opened, changed, closed or loaded while the handlers run: the
\* staleness probe of workspace_diagnostic_items lets no other one through.
THEOREM ReportVersions ==
    ASSUME Seq(Pushed) \subseteq Values
    PROVE  ReportSpec => []OwnVersions
  <1>1. PollInv /\ [ReportNext]_vars => PollInv'
    BY PollInvStep
  <1> QED
    BY <1>1, PollInvInit, AnswerIsMerged, PTL DEF ReportSpec

\* A behaviour with a poll in it is one of the poll.
LEMMA PollsKeepInv ==
    ASSUME Seq(Pushed) \subseteq Values
    PROVE  BatchesSpec => [](half = "poll" => PollInv)
  <1> DEFINE Inv == half = "poll" => PollInv
  <1>1. BatchesInit => Inv
    BY PollInvInit DEF BatchesInit
  <1>2. Inv /\ [BatchesNext]_<<half, vars, oneshotVars>> => Inv'
    <2> SUFFICES ASSUME Inv, [BatchesNext]_<<half, vars, oneshotVars>>, half' = "poll"
                 PROVE  PollInv'
      OBVIOUS
    <2>1. CASE Poll /\ ReportNext
      BY <2>1, PollInvStep DEF Poll
    <2>2. CASE UNCHANGED <<half, vars, oneshotVars>>
      BY <2>2, PollInvStep
    <2>3. CASE half = "oneshot" /\ half' = half
      BY <2>3
    <2> QED
      BY <2>1, <2>2, <2>3 DEF BatchesNext, Poll, Single, ReportNext, PollStep, ItemStep
  <1> QED
    BY <1>1, <1>2, PTL DEF BatchesSpec

\* The merged report of a poll (workspace_diagnostic_items folds the sinks),
\* as the property the instances check.
THEOREM PollsMerged ==
    ASSUME Seq(Pushed) \subseteq Values
    PROVE  BatchesSpec => []PollMerged
  <1>1. (half = "poll" => PollInv) => PollMerged
    BY AnswerIsMerged DEF PollMerged
  <1> QED
    BY <1>1, PollsKeepInv, PTL

\* The versions of a poll's own reports (the staleness probe of
\* workspace_diagnostic_items), as the property the instances check.
THEOREM PollVersions ==
    ASSUME Seq(Pushed) \subseteq Values
    PROVE  BatchesSpec => []PollOwnVersions
  <1>1. (half = "poll" => PollInv) => PollOwnVersions
    BY AnswerIsMerged DEF PollOwnVersions
  <1> QED
    BY <1>1, PollsKeepInv, PTL

-----------------------------------------------------------------------------
(* The run without a client *)

\* An item is in the buffer while it reads, opens and asks, and has an
\* outcome when it has ended.
StagesAgree ==
    \A i \in Items :
        /\ i \in running <=> stage[i] \in Stages \ {"waiting", "ended"}
        /\ stage[i] = "ended" <=> outcome[i] # Pending

\* A document that has been opened has a text, and one that nobody else opens
\* has the text its item has read, up to the entry it ends with.
TextIsRead ==
    \A i \in Items :
        /\ stage[i] \in {"opening", "opened", "handled"} => read[i] # NoText
        /\ stage[i] = "opened" => opened[paths[i]] # NoText
        /\ stage[i] = "handled" \/ outcome[i].ok => shown[i] # NoText
        /\ outcome[i].ok =>
              outcome[i].value = <<[path |-> paths[i], version |-> 1, text |-> shown[i]]>>
        /\ HasItsFile(i) =>
              /\ stage[i] = "opened" => opened[paths[i]] = read[i]
              /\ stage[i] = "handled" \/ outcome[i].ok => shown[i] = read[i]

OneshotInv ==
    OneshotTypeOK /\ BatchInv /\ BatchAnswered /\ StagesAgree /\ TextIsRead

LEMMA PathTypes ==
    ASSUME OneshotTypeOK, NEW i \in Items
    PROVE  paths[i] \in Paths
  BY OneshotAssumption DEF OneshotTypeOK

\* With one slot no item runs beside another.
LEMMA OneRunning ==
    ASSUME BatchInv, Slots = 1, NEW i \in running, NEW j \in running
    PROVE  i = j
  <1>1. IsFiniteSet(running) /\ Cardinality(running) <= 1 /\ Cardinality(running) \in Nat
    BY FiniteRunning DEF BatchInv, WithinWidth
  <1>2. CASE i # j
    <2>1. {i, j} \subseteq running
      OBVIOUS
    <2>2. IsFiniteSet({i, j}) /\ Cardinality({i, j}) <= Cardinality(running)
      BY <1>1, <2>1, FS_Subset
    <2>3. Cardinality({i}) = 1 /\ IsFiniteSet({i})
      BY FS_Singleton
    <2>4. Cardinality({i} \cup {j}) = Cardinality({i}) + 1
      BY <1>2, <2>3, FS_AddElement
    <2>5. {i} \cup {j} = {i, j}
      OBVIOUS
    <2> QED
      BY <1>1, <2>2, <2>3, <2>4, <2>5
  <1> QED
    BY <1>2

\* The entry of an item is an outcome of the batch.
LEMMA EntryIsOutcome ==
    ASSUME OneshotInv, Seq(Entry) \subseteq Values, NEW i \in Items, stage[i] = "handled"
    PROVE  [ok |-> TRUE, value |-> <<[path |-> paths[i], version |-> 1, text |-> shown[i]]>>]
               \in Outcome
  <1>1. paths[i] \in Paths /\ shown[i] \in 1..MaxWrites
    BY PathTypes DEF OneshotInv, OneshotTypeOK, TextIsRead
  <1>2. [path |-> paths[i], version |-> 1, text |-> shown[i]] \in Entry
    BY <1>1 DEF Entry
  <1>3. <<[path |-> paths[i], version |-> 1, text |-> shown[i]]>> \in Seq(Entry)
    BY <1>2
  <1> QED
    BY <1>3 DEF Outcome

LEMMA FailureIsOutcome ==
    \A error \in {"io", "method_not_found", "handler"} : Failed(error) \in Outcome
  BY OneshotAssumption DEF Failed, Outcome

\* How an item of a run may end.
EndsWith(i, result) ==
    \/ result \in Outcome /\ ~result.ok
    \/ /\ stage[i] = "handled"
       /\ result = [ok |-> TRUE,
                    value |-> <<[path |-> paths[i], version |-> 1, text |-> shown[i]]>>]

LEMMA FileEndsSo ==
    ASSUME OneshotInv, Seq(Entry) \subseteq Values, NEW i \in Items,
           FileUnreadable(i) \/ GateRefuses(i) \/ FileHandlerFails(i) \/ FileReported(i)
    PROVE  \E result \in Outcome : EndsWith(i, result) /\ FileEnds(i, result)
  <1>1. \A error : ~Failed(error).ok
    BY DEF Failed
  <1>2. CASE FileUnreadable(i)
    BY <1>1, <1>2, FailureIsOutcome DEF FileUnreadable, EndsWith
  <1>3. CASE GateRefuses(i)
    BY <1>1, <1>3, FailureIsOutcome DEF GateRefuses, EndsWith
  <1>4. CASE FileHandlerFails(i)
    BY <1>1, <1>4, FailureIsOutcome DEF FileHandlerFails, EndsWith
  <1>5. CASE FileReported(i)
    BY <1>5, EntryIsOutcome DEF FileReported, EndsWith
  <1> QED
    BY <1>2, <1>3, <1>4, <1>5

LEMMA OneshotIsBatchStep ==
    ASSUME OneshotInv, Seq(Entry) \subseteq Values, [OneshotNext]_<<batchVars, oneshotVars>>
    PROVE  [BatchNext]_batchVars
  <1>1. CASE FileBegins
    BY <1>1 DEF FileBegins, BatchNext
  <1>2. ASSUME NEW i \in Items, FileStep(i)
        PROVE  [BatchNext]_batchVars
    <2>1. CASE FileRead(i) \/ FileOpened(i) \/ FileHandled(i)
      BY <2>1 DEF FileRead, FileOpened, FileHandled
    <2>2. CASE FileUnreadable(i) \/ GateRefuses(i) \/ FileHandlerFails(i) \/ FileReported(i)
      BY <2>2, FileEndsSo DEF FileEnds, BatchNext
    <2> QED
      BY <1>2, <2>1, <2>2 DEF FileStep
  <1>3. CASE OneshotCollects
    BY <1>3 DEF OneshotCollects, BatchNext
  <1>4. CASE \E p \in Paths : FileWritten(p) \/ FileRemoved(p)
    BY <1>4 DEF FileWritten, FileRemoved
  <1>5. CASE UNCHANGED <<batchVars, oneshotVars>>
    BY <1>5
  <1> QED
    BY <1>1, <1>2, <1>3, <1>4, <1>5 DEF OneshotNext, OneshotStep

LEMMA OneshotInvInit ==
    ASSUME OneshotInit
    PROVE  OneshotInv
  <1>1. BatchInv /\ BatchInit
    BY BatchInvInit DEF OneshotInit
  <1>2. OneshotTypeOK
    BY <1>1, OneshotAssumption DEF OneshotInit, OneshotTypeOK, BatchInv, Stages
  <1>3. BatchAnswered
    BY <1>1 DEF BatchInit, SerialInit, BatchAnswered
  <1>4. StagesAgree
    BY <1>1 DEF OneshotInit, BatchInit, SerialInit, StagesAgree, Stages
  <1>5. \A i \in Items : stage[i] = "waiting" /\ ~outcome[i].ok
    BY <1>1 DEF OneshotInit, BatchInit, SerialInit, Pending
  <1>6. TextIsRead
    BY <1>5 DEF TextIsRead
  <1> QED
    BY <1>1, <1>2, <1>3, <1>4, <1>6 DEF OneshotInv

\* What the steps of the run keep beside the batch.
RunInv == OneshotTypeOK /\ StagesAgree /\ TextIsRead

LEMMA FileBeginsInv ==
    ASSUME OneshotInv, BatchTypeOK', FileBegins
    PROVE  RunInv'
  <1>0. OneshotTypeOK /\ StagesAgree /\ TextIsRead
    BY DEF OneshotInv
  <1>1. next \in Items /\ next \notin running /\ next \notin Completed
    BY BatchAssumption
    DEF FileBegins, Start, ItemLeft, OneshotInv, BatchInv, BatchTypeOK, EachItemOnce, Items
  <1>2. outcome[next] = Pending /\ ~outcome[next].ok
    BY <1>1 DEF OneshotInv, BatchInv, Faithful, Pending
  <1>3. /\ stage' = [stage EXCEPT ![next] = "reading"]
        /\ UNCHANGED <<outcome, width, paths, advertised, disk, writes, opened, read, shown>>
        /\ running' = running \cup {next}
    BY DEF FileBegins, To, Start
  <1>4. OneshotTypeOK'
    BY <1>0, <1>3 DEF OneshotTypeOK, Stages
  <1>5. StagesAgree'
    BY <1>0, <1>1, <1>2, <1>3 DEF OneshotTypeOK, StagesAgree, Stages
  <1>6. \A i \in Items : HasItsFile(i)' <=> HasItsFile(i)
    BY <1>3 DEF HasItsFile, Slots
  <1>7. TextIsRead'
    BY <1>0, <1>2, <1>3, <1>6 DEF OneshotTypeOK, TextIsRead
  <1> QED
    BY <1>4, <1>5, <1>7 DEF RunInv

LEMMA FileEndsInv ==
    ASSUME OneshotInv, BatchTypeOK', NEW i \in Items, NEW result \in Outcome,
           EndsWith(i, result), FileEnds(i, result)
    PROVE  RunInv'
  <1>0. OneshotTypeOK /\ StagesAgree /\ TextIsRead
    BY DEF OneshotInv
  <1>1. /\ i \in running /\ running' = running \ {i}
        /\ outcome' = [outcome EXCEPT ![i] = result]
        /\ stage' = [stage EXCEPT ![i] = "ended"]
        /\ UNCHANGED <<width, paths, advertised, disk, writes, opened, read, shown>>
    BY DEF FileEnds, To, Complete
  <1>2. result # Pending
    BY PendingIsNoOutcome
  <1>3. outcome \in [Items -> Outcome \cup {Pending}]
    BY <1>0 DEF OneshotTypeOK, BatchTypeOK
  <1>4. OneshotTypeOK'
    BY <1>0, <1>1 DEF OneshotTypeOK, Stages
  <1>5. StagesAgree'
    BY <1>0, <1>1, <1>2, <1>3 DEF OneshotTypeOK, StagesAgree, Stages
  <1>6. \A j \in Items : HasItsFile(j)' <=> HasItsFile(j)
    BY <1>1 DEF HasItsFile, Slots
  <1>7. \A j \in Items : /\ j # i => stage'[j] = stage[j] /\ outcome'[j] = outcome[j]
                         /\ j = i => stage'[j] = "ended" /\ outcome'[j] = result
    BY <1>0, <1>1, <1>3 DEF OneshotTypeOK
  <1>8. result.ok => /\ stage[i] = "handled"
                     /\ result.value = <<[path |-> paths[i], version |-> 1, text |-> shown[i]]>>
    BY DEF EndsWith
  <1>9. ASSUME NEW j \in Items
        PROVE  /\ stage'[j] \in {"opening", "opened", "handled"} => read'[j] # NoText
               /\ stage'[j] = "opened" => opened'[paths'[j]] # NoText
               /\ stage'[j] = "handled" \/ outcome'[j].ok => shown'[j] # NoText
               /\ outcome'[j].ok =>
                     outcome'[j].value = <<[path |-> paths'[j], version |-> 1, text |-> shown'[j]]>>
               /\ HasItsFile(j)' =>
                     /\ stage'[j] = "opened" => opened'[paths'[j]] = read'[j]
                     /\ stage'[j] = "handled" \/ outcome'[j].ok => shown'[j] = read'[j]
    <2>1. CASE j = i
      BY <1>0, <1>1, <1>6, <1>7, <1>8, <2>1 DEF TextIsRead
    <2>2. CASE j # i
      BY <1>0, <1>1, <1>6, <1>7, <2>2 DEF TextIsRead
    <2> QED
      BY <2>1, <2>2
  <1>10. TextIsRead'
    BY <1>9 DEF TextIsRead
  <1> QED
    BY <1>4, <1>5, <1>10 DEF RunInv

\* An item that reads, opens or asks: only a file that another item has open at
\* the same time may hold another text than the one read.
LEMMA FileWorksInv ==
    ASSUME OneshotInv, BatchTypeOK', NEW i \in Items,
           FileRead(i) \/ FileOpened(i) \/ FileHandled(i)
    PROVE  RunInv'
  <1>0. OneshotTypeOK /\ StagesAgree /\ TextIsRead
    BY DEF OneshotInv
  <1>1. /\ UNCHANGED <<outcome, running, width, paths, advertised, disk, writes>>
        /\ paths[i] \in Paths
    BY <1>0, PathTypes DEF FileRead, FileOpened, FileHandled, batchVars
  <1>2. \A j \in Items : HasItsFile(j)' <=> HasItsFile(j)
    BY <1>1 DEF HasItsFile, Slots
  <1>3. stage[i] \in Stages \ {"waiting", "ended"} /\ i \in running /\ ~outcome[i].ok
    BY <1>0 DEF FileRead, FileOpened, FileHandled, StagesAgree, Stages, Pending
  <1>4. CASE FileRead(i)
    <2>1. /\ stage' = [stage EXCEPT ![i] = "opening"]
          /\ read' = [read EXCEPT ![i] = disk[paths[i]]]
          /\ disk[paths[i]] # NoText
          /\ UNCHANGED <<opened, shown>>
      BY <1>4 DEF FileRead, To
    <2>2. OneshotTypeOK'
      BY <1>0, <1>1, <2>1 DEF OneshotTypeOK, Stages
    <2>3. StagesAgree'
      BY <1>0, <1>1, <1>3, <2>1 DEF OneshotTypeOK, StagesAgree, Stages
    <2>4. TextIsRead'
      BY <1>0, <1>1, <1>2, <1>3, <2>1 DEF OneshotTypeOK, TextIsRead
    <2> QED
      BY <2>2, <2>3, <2>4 DEF RunInv
  <1>5. CASE FileOpened(i)
    <2>1. /\ stage[i] = "opening" /\ stage' = [stage EXCEPT ![i] = "opened"]
          /\ opened' = [opened EXCEPT ![paths[i]] = read[i]]
          /\ UNCHANGED <<read, shown>>
      BY <1>5 DEF FileOpened, To, Opens
    <2>2. read[i] # NoText
      BY <1>0, <2>1 DEF TextIsRead
    <2>3. OneshotTypeOK'
      BY <1>0, <1>1, <2>1 DEF OneshotTypeOK, Stages
    <2>4. StagesAgree'
      BY <1>0, <1>1, <1>3, <2>1 DEF OneshotTypeOK, StagesAgree, Stages
    <2>5. ASSUME NEW j \in Items, HasItsFile(j), stage[j] = "opened"
          PROVE  paths[j] # paths[i]
      <3>1. j # i /\ j \in running
        BY <1>0, <2>1, <2>5 DEF StagesAgree, Stages
      <3>2. Slots # 1
        BY <1>3, <3>1, OneRunning DEF OneshotInv
      <3> QED
        BY <2>5, <3>1, <3>2 DEF HasItsFile
    <2>6. \A j \in Items : /\ paths[j] \in Paths
                           /\ paths[j] = paths[i] => opened'[paths[j]] = read[i]
                           /\ paths[j] # paths[i] => opened'[paths[j]] = opened[paths[j]]
      BY <1>0, <1>1, <2>1, PathTypes DEF OneshotTypeOK
    <2>7. TextIsRead'
      BY <1>0, <1>1, <1>2, <1>3, <2>1, <2>2, <2>5, <2>6 DEF OneshotTypeOK, TextIsRead
    <2> QED
      BY <2>3, <2>4, <2>7 DEF RunInv
  <1>6. CASE FileHandled(i)
    <2>1. /\ stage[i] = "opened" /\ stage' = [stage EXCEPT ![i] = "handled"]
          /\ shown' = [shown EXCEPT ![i] = opened[paths[i]]]
          /\ UNCHANGED <<opened, read>>
      BY <1>6 DEF FileHandled, To
    <2>2. OneshotTypeOK'
      BY <1>0, <1>1, <2>1 DEF OneshotTypeOK, Stages
    <2>3. StagesAgree'
      BY <1>0, <1>1, <1>3, <2>1 DEF OneshotTypeOK, StagesAgree, Stages
    <2>4. TextIsRead'
      BY <1>0, <1>1, <1>2, <1>3, <2>1 DEF OneshotTypeOK, TextIsRead
    <2> QED
      BY <2>2, <2>3, <2>4 DEF RunInv
  <1> QED
    BY <1>4, <1>5, <1>6

LEMMA OneshotInvStep ==
    ASSUME OneshotInv, Seq(Entry) \subseteq Values, [OneshotNext]_<<batchVars, oneshotVars>>
    PROVE  OneshotInv'
  <1>0. OneshotTypeOK /\ StagesAgree /\ TextIsRead /\ BatchInv /\ BatchAnswered
    BY DEF OneshotInv
  <1>1. BatchInv' /\ BatchAnswered' /\ BatchTypeOK'
    <2>1. [BatchNext]_batchVars
      BY OneshotIsBatchStep
    <2> QED
      BY <1>0, <2>1, BatchInvStep, BatchAnsweredStep DEF BatchInv
  <1>2. ASSUME FileBegins
        PROVE  RunInv'
    BY <1>1, <1>2, FileBeginsInv
  <1>3. ASSUME NEW i \in Items, FileStep(i)
        PROVE  RunInv'
    <2>1. CASE FileRead(i) \/ FileOpened(i) \/ FileHandled(i)
      BY <1>1, <2>1, FileWorksInv
    <2>2. CASE FileUnreadable(i) \/ GateRefuses(i) \/ FileHandlerFails(i) \/ FileReported(i)
      BY <1>1, <2>2, FileEndsSo, FileEndsInv
    <2> QED
      BY <1>3, <2>1, <2>2 DEF FileStep
  <1>4. ASSUME OneshotCollects
        PROVE  RunInv'
    <2>1. UNCHANGED oneshotVars /\ UNCHANGED <<outcome, running, width>>
      BY <1>4 DEF OneshotCollects, Collect
    <2>2. OneshotTypeOK'
      BY <1>0, <1>1, <2>1 DEF oneshotVars, OneshotTypeOK
    <2>3. StagesAgree'
      BY <1>0, <2>1 DEF oneshotVars, StagesAgree
    <2>4. TextIsRead'
      BY <1>0, <2>1 DEF oneshotVars, TextIsRead, HasItsFile, Slots
    <2> QED
      BY <2>2, <2>3, <2>4 DEF RunInv
  <1>5. ASSUME NEW p \in Paths, FileWritten(p) \/ FileRemoved(p)
        PROVE  RunInv'
    <2>1. UNCHANGED <<batchVars, paths, advertised, opened, stage, read, shown>>
      BY <1>5 DEF FileWritten, FileRemoved
    <2>2. OneshotTypeOK'
      BY <1>0, <1>1, <1>5, <2>1, OneshotAssumption DEF FileWritten, FileRemoved, OneshotTypeOK
    <2>3. StagesAgree'
      BY <1>0, <2>1 DEF batchVars, StagesAgree
    <2>4. TextIsRead'
      BY <1>0, <2>1 DEF batchVars, TextIsRead, HasItsFile, Slots
    <2> QED
      BY <2>2, <2>3, <2>4 DEF RunInv
  <1>6. ASSUME UNCHANGED <<batchVars, oneshotVars>>
        PROVE  RunInv'
    <2>1. OneshotTypeOK'
      BY <1>0, <1>1, <1>6 DEF oneshotVars, OneshotTypeOK
    <2>2. StagesAgree'
      BY <1>0, <1>6 DEF batchVars, oneshotVars, StagesAgree
    <2>3. TextIsRead'
      BY <1>0, <1>6 DEF batchVars, oneshotVars, TextIsRead, HasItsFile, Slots
    <2> QED
      BY <2>1, <2>2, <2>3 DEF RunInv
  <1>7. RunInv'
    BY <1>2, <1>3, <1>4, <1>5, <1>6 DEF OneshotNext, OneshotStep
  <1> QED
    BY <1>1, <1>7 DEF RunInv, OneshotInv

\* The entries of an answered run are those its items ended with.
LEMMA AnsweredEntries ==
    ASSUME OneshotInv, answer # Pending, answer.ok, NEW i \in Items
    PROVE  answer.value[i] = <<[path |-> paths[i], version |-> 1, text |-> shown[i]]>>
           /\ (HasItsFile(i) => shown[i] = read[i])
  <1>1. outcome \in [Items -> Outcome] /\ answer = Collected(outcome)
    BY DEF OneshotInv, BatchAnswered
  <1>2. outcome[i].ok /\ answer.value = [k \in Items |-> outcome[k].value]
    BY <1>1, CollectedWell
  <1>3. answer.value[i] = outcome[i].value
    BY <1>2
  <1> QED
    BY <1>2, <1>3 DEF OneshotInv, TextIsRead

LEMMA EntriesFollow ==
    ASSUME OneshotInv
    PROVE  EntriesOfOwnRead
  <1> DEFINE PathOf(k) == answer.value[k][1].path
             TextOf(k) == answer.value[k][1].text
  <1> SUFFICES ASSUME answer # Pending, answer.ok, NEW i \in Items
               PROVE  /\ HasItsFile(i) => TextOf(i) = read[i]
                      /\ \A j \in 1..i - 1 : PathOf(j) <= PathOf(i)
    BY DEF EntriesOfOwnRead
  <1>1. \A k \in Items : /\ PathOf(k) = paths[k] /\ TextOf(k) = shown[k]
                         /\ HasItsFile(k) => shown[k] = read[k]
    <2> TAKE k \in Items
    <2> DEFINE entry == [path |-> paths[k], version |-> 1, text |-> shown[k]]
    <2>1. answer.value[k] = <<entry>> /\ (HasItsFile(k) => shown[k] = read[k])
      BY AnsweredEntries
    <2>2. entry.path = paths[k] /\ entry.text = shown[k]
      OBVIOUS
    <2> HIDE DEF entry
    <2>3. <<entry>>[1] = entry
      OBVIOUS
    <2> QED
      BY <2>1, <2>2, <2>3
  <1> HIDE DEF PathOf, TextOf
  <1>2. ASSUME NEW j \in 1..i - 1
        PROVE  PathOf(j) <= PathOf(i)
    <2>1. j \in Items /\ j < i
      BY BatchAssumption DEF Items
    <2>2. paths[j] <= paths[i]
      BY <2>1, OneshotAssumption DEF OneshotInv, OneshotTypeOK
    <2> QED
      BY <1>1, <2>1, <2>2
  <1> QED
    BY <1>1, <1>2

LEMMA OneshotInvariant ==
    ASSUME Seq(Entry) \subseteq Values
    PROVE  OneshotSpec => []OneshotInv
  <1>1. OneshotInit => OneshotInv
    BY OneshotInvInit
  <1>2. OneshotInv /\ [OneshotNext]_<<batchVars, oneshotVars>> => OneshotInv'
    BY OneshotInvStep
  <1> QED
    BY <1>1, <1>2, PTL DEF OneshotSpec

\* A run holds what it was given, whatever the disk does meanwhile.
THEOREM OneshotTypes ==
    ASSUME Seq(Entry) \subseteq Values
    PROVE  OneshotSpec => []OneshotTypeOK
  <1>1. OneshotInv => OneshotTypeOK
    BY DEF OneshotInv
  <1> QED
    BY <1>1, OneshotInvariant, PTL

\* For any number of files, roots that list a file again, any width and any
\* writes of the disk, an entry of the report tells of the text its own item
\* has read, unless two items of one file run side by side, and the report is
\* in path order.
THEOREM OneshotEntries ==
    ASSUME Seq(Entry) \subseteq Values
    PROVE  OneshotSpec => []EntriesOfOwnRead
  <1>1. OneshotInv => EntriesOfOwnRead
    BY EntriesFollow
  <1> QED
    BY <1>1, OneshotInvariant, PTL

\* A run over a workspace is a batch over its files, and so ends with the
\* first error of the list or with every entry, as the loop would.
THEOREM OneshotImplementsSerial ==
    ASSUME Seq(Entry) \subseteq Values
    PROVE  OneshotSpec => ImplementsSerial
  <1>1. OneshotInit => BatchInit
    BY DEF OneshotInit
  <1>2. OneshotInv /\ [OneshotNext]_<<batchVars, oneshotVars>> => [BatchNext]_batchVars
    BY OneshotIsBatchStep
  <1>3. OneshotSpec => BatchSpec
    BY <1>1, <1>2, OneshotInvariant, PTL DEF OneshotSpec, BatchSpec
  <1> QED
    BY <1>3, BatchImplementsSerial, PTL
=============================================================================
