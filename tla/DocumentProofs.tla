----------------------------- MODULE DocumentProofs -----------------------------
(***************************************************************************)
(* Proofs about what is got out of a document: TextRanges, for every       *)
(* document, every stretch and every place in it; and DerivedData, which   *)
(* implements DerivedValues for any callers, generations, queries and      *)
(* buffers.                                                                *)
(***************************************************************************)
EXTENDS TextRanges, DerivedData, FiniteSetTheorems, FunctionTheorems, SequenceTheorems, TLAPS

-----------------------------------------------------------------------------
(* Positions *)

\* What the operations know of a document: it is a sequence.
Document == Seq({"plain", "newline", "slash", "lead", "trail"})

LEMMA NewlinesFinite ==
    ASSUME NEW s \in Document, NEW b \in 0..Len(s)
    PROVE  /\ IsFiniteSet(Newlines(s, b)) /\ Cardinality(Newlines(s, b)) \in Nat
           /\ Cardinality(Newlines(s, b)) = 0 <=> Newlines(s, b) = {}
  <1>1. Newlines(s, b) \in SUBSET (1..b)
    BY DEF Newlines
  <1>2. IsFiniteSet(1..b)
    BY FS_Interval
  <1>3. IsFiniteSet(Newlines(s, b))
    BY <1>1, <1>2, FS_Subset
  <1> QED
    BY <1>3, FS_CardinalityType, FS_EmptySet

LEMMA GreatestNewline ==
    ASSUME NEW s \in Document, NEW b \in 0..Len(s), Newlines(s, b) # {}
    PROVE  \E i \in Newlines(s, b) : \A j \in Newlines(s, b) : j <= i
  <1> DEFINE R == {pair \in Nat \X Nat : pair[1] < pair[2]}
             T == {n \in Nat : \E i \in Newlines(s, b) : n = b - i}
  <1>1. IsWellFoundedOn(R, Nat)
    BY NatLessThanWellFounded, Zenon DEF OpToRel
  <1>2. \A i \in Newlines(s, b) : i \in 1..b /\ b - i \in T
    BY DEF Newlines
  <1>3. T # {} /\ T \in SUBSET Nat
    BY <1>2
  <1> HIDE DEF R
  <1>4. PICK n \in T : \A k \in T : <<k, n>> \notin R
    BY <1>1, <1>3, WFMin
  <1>5. PICK i \in Newlines(s, b) : n = b - i
    BY <1>4
  <1>6. ASSUME NEW j \in Newlines(s, b)
        PROVE  j <= i
    <2>1. b - j \in T /\ n \in Nat /\ b - j \in Nat
      BY <1>2, <1>3, <1>4
    <2>2. ~(b - j < n)
      BY <1>4, <2>1 DEF R
    <2> QED
      BY <1>2, <1>5, <2>1, <2>2
  <1> QED
    BY <1>5, <1>6

LEMMA LineStartFacts ==
    ASSUME NEW s \in Document, NEW b \in 0..Len(s)
    PROVE  /\ LineStart(s, b) \in 0..b
           /\ Newlines(s, b) = {} => LineStart(s, b) = 0
           /\ \A i \in Newlines(s, b) : (\A j \in Newlines(s, b) : j <= i) => LineStart(s, b) = i
           /\ \A i \in Newlines(s, b) : i <= LineStart(s, b)
           /\ Newlines(s, b) # {} => LineStart(s, b) \in Newlines(s, b)
  <1>1. CASE Newlines(s, b) = {}
    BY <1>1 DEF LineStart
  <1>2. CASE Newlines(s, b) # {}
    <2>1. PICK i \in Newlines(s, b) : \A j \in Newlines(s, b) : j <= i
      BY <1>2, GreatestNewline
    <2>2. i \in 1..b /\ \A j \in Newlines(s, b) : j \in 1..b
      BY DEF Newlines
    <2>3. /\ LineStart(s, b) \in Newlines(s, b)
          /\ \A j \in Newlines(s, b) : j <= LineStart(s, b)
      BY <1>2, <2>1 DEF LineStart
    <2>4. ASSUME NEW k \in Newlines(s, b), \A j \in Newlines(s, b) : j <= k
          PROVE  LineStart(s, b) = k
      <3>1. k <= LineStart(s, b) /\ LineStart(s, b) <= k
        BY <2>3, <2>4
      <3>2. k \in 1..b /\ LineStart(s, b) \in 1..b
        BY <2>2, <2>3
      <3> QED
        BY <3>1, <3>2
    <2>5. LineStart(s, b) \in 1..b /\ b \in Nat
      <3>1. Len(s) \in Nat
        BY DEF Document
      <3>2. LineStart(s, b) \in 1..b
        BY <2>2, <2>3, Zenon
      <3>3. b \in Nat
        BY <3>1
      <3> QED
        BY <3>2, <3>3
    <2>6. LineStart(s, b) \in 0..b
      BY <2>5
    <2> QED
      BY <1>2, <2>3, <2>4, <2>6
  <1> QED
    BY <1>1, <1>2

LEMMA PositionTypes ==
    ASSUME NEW s \in Document, NEW b \in 0..Len(s)
    PROVE  /\ PositionOf(s, b) \in [line: Nat, col: Nat]
           /\ PositionOf(s, b).line = Cardinality(Newlines(s, b))
           /\ PositionOf(s, b).col = b - LineStart(s, b)
  BY NewlinesFinite, LineStartFacts DEF PositionOf

\* Bytes on one line count columns; a later line comes later.
LEMMA PositionSteps ==
    ASSUME NEW s \in Document, NEW c \in 0..Len(s), NEW b \in 0..c
    PROVE  \/ /\ PositionOf(s, c).line = PositionOf(s, b).line
              /\ PositionOf(s, c).col = PositionOf(s, b).col + (c - b)
              /\ \A d \in b..c : PositionOf(s, d) =
                    [line |-> PositionOf(s, b).line, col |-> PositionOf(s, b).col + (d - b)]
           \/ /\ PositionOf(s, b).line < PositionOf(s, c).line
              /\ b < c
  <1>0. b \in 0..Len(s) /\ Newlines(s, b) \in SUBSET Newlines(s, c)
    BY DEF Newlines, Document
  <1>1. CASE Newlines(s, b) = Newlines(s, c)
    <2>1. ASSUME NEW d \in b..c
          PROVE  Newlines(s, d) = Newlines(s, b) /\ d \in 0..Len(s)
      BY <1>0, <1>1 DEF Newlines, Document
    <2>2. ASSUME NEW d \in b..c
          PROVE  LineStart(s, d) = LineStart(s, b)
      <3>1. d \in 0..Len(s) /\ Newlines(s, d) = Newlines(s, b)
        BY <2>1
      <3>2. CASE Newlines(s, b) = {}
        BY <1>0, <3>1, <3>2, LineStartFacts
      <3>3. CASE Newlines(s, b) # {}
        BY <1>0, <3>1, <3>3, LineStartFacts
      <3> QED
        BY <3>2, <3>3
    <2>3. LineStart(s, b) \in 0..b
      BY <1>0, LineStartFacts
    <2>4. \A d \in b..c : PositionOf(s, d) =
              [line |-> PositionOf(s, b).line, col |-> PositionOf(s, b).col + (d - b)]
      BY <2>1, <2>2, <2>3 DEF PositionOf
    <2>5. c \in b..c
      OBVIOUS
    <2> QED
      BY <2>4, <2>5
  <1>2. CASE Newlines(s, b) # Newlines(s, c)
    <2>1. Cardinality(Newlines(s, b)) < Cardinality(Newlines(s, c))
      BY <1>0, <1>2, NewlinesFinite, FS_Subset
    <2>2. b # c
      BY <1>2
    <2> QED
      BY <1>0, <2>1, <2>2, PositionTypes
  <1> QED
    BY <1>1, <1>2

\* Positions order bytes as the bytes themselves are ordered.
LEMMA PositionOrder ==
    ASSUME NEW s \in Document, NEW b \in 0..Len(s), NEW c \in 0..Len(s)
    PROVE  /\ AtOrBefore(PositionOf(s, b), PositionOf(s, c)) <=> b <= c
           /\ PositionOf(s, b) = PositionOf(s, c) => b = c
  <1>1. /\ PositionOf(s, b) \in [line: Nat, col: Nat]
        /\ PositionOf(s, c) \in [line: Nat, col: Nat]
    BY PositionTypes
  <1>2. CASE b <= c
    <2>1. b \in 0..c
      BY <1>2
    <2> QED
      BY <1>1, <1>2, <2>1, PositionSteps DEF AtOrBefore
  <1>3. CASE c < b
    <2>1. c \in 0..b
      BY <1>3
    <2> QED
      BY <1>1, <1>3, <2>1, PositionSteps DEF AtOrBefore
  <1> QED
    BY <1>2, <1>3

\* One byte further: the next column, or the next line after a newline.
LEMMA PositionNext ==
    ASSUME NEW s \in Document, NEW b \in 0..Len(s) - 1
    PROVE  PositionOf(s, b + 1) =
              IF s[b + 1] = "newline" THEN [line |-> PositionOf(s, b).line + 1, col |-> 0]
              ELSE [line |-> PositionOf(s, b).line, col |-> PositionOf(s, b).col + 1]
  <1>0. b \in 0..Len(s) /\ b + 1 \in 0..Len(s) /\ b \in 0..b + 1 /\ b \in Nat
    BY DEF Document
  <1>1. CASE s[b + 1] = "newline"
    <2>1. /\ Newlines(s, b + 1) = Newlines(s, b) \cup {b + 1}
          /\ b + 1 \notin Newlines(s, b)
          /\ \A j \in Newlines(s, b + 1) : j <= b + 1
      BY <1>0, <1>1 DEF Newlines
    <2>2. Cardinality(Newlines(s, b + 1)) = Cardinality(Newlines(s, b)) + 1
      BY <1>0, <2>1, NewlinesFinite, FS_AddElement
    <2>3. LineStart(s, b + 1) = b + 1
      <3>1. b + 1 \in Newlines(s, b + 1)
        BY <2>1
      <3> QED
        BY <1>0, <2>1, <3>1, LineStartFacts
    <2> QED
      BY <1>0, <1>1, <2>2, <2>3, PositionTypes DEF PositionOf
  <1>2. CASE s[b + 1] # "newline"
    <2>1. Newlines(s, b + 1) = Newlines(s, b)
      BY <1>0, <1>2 DEF Newlines
    <2>2. PositionOf(s, b + 1).line = PositionOf(s, b).line
      BY <1>0, <2>1, PositionTypes
    <2>3. ~(PositionOf(s, b).line < PositionOf(s, b + 1).line)
      BY <1>0, <2>2, PositionTypes
    <2>4. \A d \in b..b + 1 : PositionOf(s, d) =
             [line |-> PositionOf(s, b).line, col |-> PositionOf(s, b).col + (d - b)]
      BY <1>0, <2>3, PositionSteps
    <2>5. b + 1 \in b..b + 1 /\ (b + 1) - b = 1
      BY <1>0
    <2> QED
      BY <1>2, <2>4, <2>5
  <1> QED
    BY <1>1, <1>2

-----------------------------------------------------------------------------
(* Places in a stretch *)

LEMMA SliceFacts ==
    ASSUME NEW s \in Document, NEW e \in 0..Len(s), NEW a \in 0..e
    PROVE  /\ Slice(s, a, e) \in Document
           /\ Len(Slice(s, a, e)) = e - a
           /\ \A i \in 1..e - a : Slice(s, a, e)[i] = s[a + i]
  BY DEF Slice, Document

\* The newlines of a stretch are those of the document, moved.
LEMMA NewlinesMoved ==
    ASSUME NEW s \in Document, NEW e \in 0..Len(s), NEW a \in 0..e, NEW b \in 0..e - a
    PROVE  /\ a + b \in 0..Len(s)
           /\ b \in 0..Len(Slice(s, a, e))
           /\ \A i \in 1..b : i \in Newlines(Slice(s, a, e), b) <=> a + i \in Newlines(s, a + b)
           /\ \A i \in 1..a + b : i \in Newlines(s, a + b) <=>
                    i \in Newlines(s, a) \/ (i > a /\ i - a \in Newlines(Slice(s, a, e), b))
           /\ Cardinality(Newlines(s, a + b)) =
                 Cardinality(Newlines(s, a)) + Cardinality(Newlines(Slice(s, a, e), b))
  <1> DEFINE t == Slice(s, a, e)
             M == Newlines(t, b)
             moved == {i \in a + 1..a + b : s[i] = "newline"}
  <1>a. t \in Document /\ Len(t) = e - a /\ \A i \in 1..e - a : t[i] = s[a + i]
    BY SliceFacts
  <1>b. Len(s) \in Nat
    BY DEF Document
  <1>c. a \in Nat /\ b \in Nat /\ e \in Nat /\ Len(s) \in Nat /\ b <= e - a /\ e <= Len(s)
    BY <1>b
  <1>0. /\ t \in Document /\ Len(t) = e - a /\ \A i \in 1..e - a : t[i] = s[a + i]
        /\ a \in Nat /\ b \in Nat /\ e \in Nat /\ Len(s) \in Nat /\ b <= e - a /\ e <= Len(s)
    BY <1>a, <1>c
  <1> HIDE DEF t
  <1>1. a + b \in 0..Len(s) /\ b \in 0..Len(t) /\ a \in 0..Len(s)
    BY <1>0
  <1>2. \A i \in 1..b : i \in M <=> a + i \in moved
    BY <1>0 DEF Newlines
  <1>3. Newlines(s, a + b) = Newlines(s, a) \cup moved /\ Newlines(s, a) \cap moved = {}
    BY <1>0 DEF Newlines
  <1>4. /\ IsFiniteSet(M) /\ IsFiniteSet(Newlines(s, a)) /\ IsFiniteSet(Newlines(s, a + b))
        /\ Cardinality(Newlines(s, a)) \in Nat
    BY <1>0, <1>1, NewlinesFinite
  <1>5. IsFiniteSet(moved)
    BY <1>3, <1>4, FS_Subset
  <1>6. Cardinality(moved) = Cardinality(M)
    <2> DEFINE f == [i \in M |-> a + i]
    <2>1. M \subseteq 1..b
      BY DEF Newlines
    <2>2. \A i \in M : a + i \in moved
      BY <1>2, <2>1
    <2>3. \A j \in moved : j - a \in M /\ a + (j - a) = j
      <3>1. TAKE j \in moved
      <3>2. j \in a + 1..a + b
        OBVIOUS
      <3>3. j - a \in 1..b /\ a + (j - a) = j
        BY <1>0, <3>2
      <3> QED
        BY <1>2, <3>3
    <2>4. f \in [M -> moved]
      BY <2>2
    <2>5. \A i, j \in M : f[i] = f[j] => i = j
      BY <1>0, <2>1
    <2>6. \A j \in moved : \E i \in M : f[i] = j
      BY <2>3
    <2> HIDE DEF f, M, moved
    <2>7. f \in Bijection(M, moved)
      BY <2>4, <2>5, <2>6, Fun_IsBij
    <2>8. ExistsBijection(M, moved)
      BY <2>7 DEF ExistsBijection
    <2> QED
      BY <1>4, <2>8, FS_Bijection
  <1>7. Cardinality(Newlines(s, a + b)) = Cardinality(Newlines(s, a)) + Cardinality(M)
    <2>1. Cardinality(Newlines(s, a) \cap moved) = 0
      BY <1>3, FS_EmptySet
    <2>2. Cardinality(moved) \in Nat
      BY <1>5, FS_CardinalityType
    <2>3. Cardinality(Newlines(s, a) \cup moved) =
             Cardinality(Newlines(s, a)) + Cardinality(moved) - Cardinality(Newlines(s, a) \cap moved)
      BY <1>4, <1>5, FS_Union
    <2>4. Cardinality(Newlines(s, a + b)) =
             Cardinality(Newlines(s, a)) + Cardinality(moved) - Cardinality(Newlines(s, a) \cap moved)
      BY <1>3, <2>3
    <2> HIDE DEF M, moved
    <2> QED
      BY <1>4, <1>6, <2>1, <2>2, <2>4
  <1>8. \A i \in 1..b : i \in M <=> a + i \in Newlines(s, a + b)
    BY <1>0 DEF Newlines
  <1>9. \A i \in 1..a + b : i \in Newlines(s, a + b) <=>
            i \in Newlines(s, a) \/ (i > a /\ i - a \in M)
    BY <1>0 DEF Newlines
  <1> QED
    BY <1>1, <1>7, <1>8, <1>9 DEF t

\* A place in a stretch, taken from where the stretch begins, is a place in
\* the document.
LEMMA PositionAbsolute ==
    ASSUME NEW s \in Document, NEW e \in 0..Len(s), NEW a \in 0..e, NEW b \in 0..e - a
    PROVE  Absolute(PositionOf(s, a), PositionOf(Slice(s, a, e), b)) = PositionOf(s, a + b)
  <1> DEFINE t == Slice(s, a, e)
  <1>a. t \in Document /\ Len(t) = e - a
    BY SliceFacts
  <1>b. Len(s) \in Nat
    BY DEF Document
  <1>c. a \in Nat /\ b \in Nat /\ a \in 0..Len(s) /\ b \in 0..e - a /\ a + b \in 0..Len(s)
    BY <1>b
  <1>0. /\ t \in Document /\ Len(t) = e - a
        /\ a \in Nat /\ b \in Nat /\ a \in 0..Len(s) /\ b \in 0..Len(t) /\ a + b \in 0..Len(s)
    BY <1>a, <1>c
  <1>1. /\ \A i \in 1..b : i \in Newlines(t, b) <=> a + i \in Newlines(s, a + b)
        /\ \A i \in 1..a + b : i \in Newlines(s, a + b) <=>
                    i \in Newlines(s, a) \/ (i > a /\ i - a \in Newlines(t, b))
        /\ Cardinality(Newlines(s, a + b)) =
                 Cardinality(Newlines(s, a)) + Cardinality(Newlines(t, b))
    BY NewlinesMoved
  <1> SUFFICES Absolute(PositionOf(s, a), PositionOf(t, b)) = PositionOf(s, a + b)
    OBVIOUS
  <1> HIDE DEF t
  <1>2. /\ PositionOf(s, a) \in [line: Nat, col: Nat] /\ PositionOf(t, b) \in [line: Nat, col: Nat]
        /\ PositionOf(s, a + b) \in [line: Nat, col: Nat]
    BY <1>0, PositionTypes
  <1>3. PositionOf(s, a + b).line = PositionOf(s, a).line + PositionOf(t, b).line
    BY <1>0, <1>1, PositionTypes
  <1>4. CASE Newlines(t, b) = {}
    <2>1. PositionOf(t, b).line = 0 /\ PositionOf(t, b).col = b
      <3>1. Cardinality(Newlines(t, b)) = 0 /\ LineStart(t, b) = 0
        BY <1>0, <1>4, NewlinesFinite, LineStartFacts
      <3> QED
        BY <1>0, <3>1, PositionTypes
    <2>2. PositionOf(s, a + b).line = PositionOf(s, a).line
      BY <1>2, <1>3, <2>1
    <2>3. a \in 0..a + b
      BY <1>0
    <2>4. PositionOf(s, a + b).col = PositionOf(s, a).col + b
      <3>1. \/ PositionOf(s, a + b).col = PositionOf(s, a).col + ((a + b) - a)
            \/ PositionOf(s, a).line < PositionOf(s, a + b).line
        BY <1>0, <2>3, PositionSteps
      <3>2. ~(PositionOf(s, a).line < PositionOf(s, a + b).line) /\ (a + b) - a = b
        BY <1>0, <1>2, <2>2
      <3> QED
        BY <3>1, <3>2
    <2> QED
      BY <1>2, <2>1, <2>2, <2>4 DEF Absolute
  <1>5. CASE Newlines(t, b) # {}
    <2>1. PositionOf(t, b).line # 0
      BY <1>0, <1>5, NewlinesFinite, PositionTypes
    <2>2. LineStart(t, b) \in Newlines(t, b) /\ LineStart(t, b) \in 1..b
      BY <1>0, <1>5, LineStartFacts DEF Newlines
    <2>3. a + LineStart(t, b) \in Newlines(s, a + b)
      BY <1>1, <2>2
    <2>4. \A j \in Newlines(s, a + b) : j <= a + LineStart(t, b)
      <3>1. TAKE j \in Newlines(s, a + b)
      <3>2. j \in 1..a + b
        BY DEF Newlines
      <3>3. CASE j \in Newlines(s, a)
        <4>1. j \in 1..a
          BY <3>3 DEF Newlines
        <4> QED
          BY <1>0, <2>2, <4>1
      <3>4. CASE j > a /\ j - a \in Newlines(t, b)
        <4>1. j - a <= LineStart(t, b)
          BY <1>0, <3>4, LineStartFacts
        <4> QED
          BY <1>0, <2>2, <3>2, <4>1
      <3> QED
        BY <1>1, <3>2, <3>3, <3>4
    <2>5. LineStart(s, a + b) = a + LineStart(t, b)
      BY <1>0, <2>3, <2>4, LineStartFacts
    <2>6. PositionOf(s, a + b).col = PositionOf(t, b).col
      <3>1. PositionOf(s, a + b).col = (a + b) - LineStart(s, a + b)
        BY <1>0, PositionTypes
      <3>2. PositionOf(t, b).col = b - LineStart(t, b)
        BY <1>0, PositionTypes
      <3>3. (a + b) - (a + LineStart(t, b)) = b - LineStart(t, b)
        BY <1>0, <2>2
      <3> QED
        BY <2>5, <3>1, <3>2, <3>3
    <2> QED
      BY <1>2, <1>3, <2>1, <2>6 DEF Absolute
  <1> QED
    BY <1>4, <1>5

-----------------------------------------------------------------------------
(* The three kinds of one stretch *)

Span(from, to) == [start |-> from, end |-> to]

\* RangesAgree of any three results, the LSP range cut where bytes are counted.
Agree(b, l, t) ==
    /\ IsErr(l) <=> IsErr(t)
    /\ IsErr(b) => IsErr(l)
    /\ IsErr(l) /\ ~IsErr(b) => l = Err("NotSingleLine") /\ t = l
    /\ ~IsErr(l) => IF b = None THEN l = None /\ t = None
                    ELSE l = LspOf(b) /\ t = TsOf(b)

LEMMA Results ==
    /\ ~IsErr(None)
    /\ \A from, to : ~IsErr(Span(from, to)) /\ Span(from, to) # None
    /\ \A r : ~IsErr(LspOf(r)) /\ ~IsErr(TsOf(r)) /\ LspOf(r) # None /\ TsOf(r) # None
    /\ \A error, k : IsErr(Err(error)) /\ Part(Err(error), k) = Err(error)
    /\ \A parts, k : ~IsErr(Ok(parts)) /\ Part(Ok(parts), k) = parts[k] /\ Ok(parts).parts = parts
  <1>1. ~IsErr(None)
    BY DEF IsErr, None
  <1>2. \A from, to : ~IsErr(Span(from, to)) /\ Span(from, to) # None
    BY DEF IsErr, None, Span
  <1>3. \A r : ~IsErr(LspOf(r)) /\ LspOf(r) # None
    BY DEF IsErr, None, LspOf
  <1>4. \A r : ~IsErr(TsOf(r)) /\ TsOf(r) # None
    BY DEF IsErr, None, TsOf, TsRange
  <1>5. \A error, k : IsErr(Err(error)) /\ Part(Err(error), k) = Err(error)
    BY DEF IsErr, Err, Part
  <1>6. \A parts, k : ~IsErr(Ok(parts)) /\ Part(Ok(parts), k) = parts[k] /\ Ok(parts).parts = parts
    BY DEF IsErr, Ok, Part
  <1> QED
    BY <1>1, <1>2, <1>3, <1>4, <1>5, <1>6

LEMMA KindsOf ==
    ASSUME NEW from, NEW to
    PROVE  /\ Span(from, to).start = from /\ Span(from, to).end = to
           /\ LspOf(Span(from, to)).start = PositionOf(doc, from)
           /\ LspOf(Span(from, to)).end = PositionOf(doc, to)
           /\ LspOf(Span(from, to)) =
                 [start |-> PositionOf(doc, from), end |-> PositionOf(doc, to)]
           /\ TsOf(Span(from, to)) =
                 TsRange(from, to, PositionOf(doc, from), PositionOf(doc, to))
           /\ TsOf(Span(from, to)).start_byte = from /\ TsOf(Span(from, to)).end_byte = to
           /\ TsOf(Span(from, to)).start_point = PositionOf(doc, from)
           /\ TsOf(Span(from, to)).end_point = PositionOf(doc, to)
  BY DEF Span, LspOf, TsOf, TsRange

LEMMA SpanAgrees ==
    ASSUME NEW from, NEW to
    PROVE  Agree(Span(from, to), LspOf(Span(from, to)), TsOf(Span(from, to)))
  BY Results DEF Agree

LEMMA NoneAgrees ==
    Agree(None, None, None)
  BY Results DEF Agree

LEMMA RefusalAgrees ==
    ASSUME NEW e1, NEW e2, NEW e3
    PROVE  Agree(Err(e1), Err(e2), Err(e3))
  BY Results DEF Agree

-----------------------------------------------------------------------------
(* Cutting at a place *)

LEMMA PlaceFacts ==
    ASSUME NEW s \in Document, NEW e \in 0..Len(s), NEW a \in 0..e, NEW at \in 0..e - a
    PROVE  /\ Absolute(PositionOf(s, a), PositionOf(Slice(s, a, e), at)) = PositionOf(s, a + at)
           /\ Within(PositionOf(s, a + at), PositionOf(s, a), PositionOf(s, e))
  <1>1. Len(s) \in Nat
    BY DEF Document
  <1>2. a \in 0..Len(s) /\ a + at \in 0..Len(s) /\ a <= a + at /\ a + at <= e
    BY <1>1
  <1> QED
    BY <1>2, PositionAbsolute, PositionOrder DEF Within

LEMMA FoundFacts ==
    ASSUME NEW t \in Document, NEW at \in 0..Len(t), Boundary(t, at)
    PROVE  TsFound(t, PositionOf(t, at)) = {at}
  BY PositionOrder DEF TsFound

LEMMA PastFacts ==
    ASSUME NEW s \in Document, NEW e \in 0..Len(s), NEW a \in 0..e,
           NEW past, past = [PositionOf(Slice(s, a, e), e - a) EXCEPT !.col = @ + 1]
    PROVE  /\ ~Within(Absolute(PositionOf(s, a), past), PositionOf(s, a), PositionOf(s, e))
           /\ TsFound(Slice(s, a, e), past) = {}
           /\ \A b \in 0..e - a : /\ AtOrBefore(PositionOf(Slice(s, a, e), b), past)
                                  /\ ~AtOrBefore(past, PositionOf(Slice(s, a, e), b))
           /\ AtOrBefore(past, past)
  <1> DEFINE t == Slice(s, a, e)
             L == e - a
  <1>1. /\ t \in Document /\ Len(t) = L
    BY SliceFacts
  <1>2. Len(s) \in Nat
    BY DEF Document
  <1>3. a \in 0..Len(s) /\ L \in 0..L /\ L \in Nat /\ a + L = e
    BY <1>2
  <1>4. Absolute(PositionOf(s, a), PositionOf(t, L)) = PositionOf(s, e)
    BY <1>3, PositionAbsolute
  <1> HIDE DEF t, L
  <1>5. /\ PositionOf(s, a) \in [line: Nat, col: Nat] /\ PositionOf(t, L) \in [line: Nat, col: Nat]
        /\ PositionOf(s, e) \in [line: Nat, col: Nat]
        /\ \A b \in 0..L : PositionOf(t, b) \in [line: Nat, col: Nat]
    BY <1>1, <1>3, PositionTypes
  <1>6. /\ past \in [line: Nat, col: Nat]
        /\ past.line = PositionOf(t, L).line /\ past.col = PositionOf(t, L).col + 1
    BY <1>5 DEF t, L
  <1>7. /\ Absolute(PositionOf(s, a), past).line = PositionOf(s, e).line
        /\ Absolute(PositionOf(s, a), past).col = PositionOf(s, e).col + 1
    BY <1>4, <1>5, <1>6 DEF Absolute
  <1>8. ~Within(Absolute(PositionOf(s, a), past), PositionOf(s, a), PositionOf(s, e))
    BY <1>5, <1>7 DEF Within, AtOrBefore
  <1>9. \A b \in 0..L : AtOrBefore(PositionOf(t, b), PositionOf(t, L))
    BY <1>1, <1>3, PositionOrder
  <1>10. \A b \in 0..L : AtOrBefore(PositionOf(t, b), past) /\ ~AtOrBefore(past, PositionOf(t, b))
    BY <1>5, <1>6, <1>9 DEF AtOrBefore
  <1>11. AtOrBefore(past, past)
    BY <1>6 DEF AtOrBefore
  <1>12. TsFound(t, past) = {}
    <2>1. \A b \in 0..L : PositionOf(t, b) # past
      BY <1>10, <1>11
    <2> QED
      BY <1>1, <2>1 DEF TsFound
  <1> QED
    BY <1>8, <1>10, <1>11, <1>12 DEF t, L

LEMMA SplitAgrees ==
    ASSUME doc \in Document, NEW e \in 0..Len(doc), NEW a \in 0..e, NEW at \in 0..e - a
    PROVE  /\ BytesSplitAt(Span(a, e), at) = Ok(<<Span(a, a + at), Span(a + at, e)>>)
           /\ LspSplitAt(LspOf(Span(a, e)), PositionOf(Slice(doc, a, e), at)) =
                 Ok(<<LspOf(Span(a, a + at)), LspOf(Span(a + at, e))>>)
  <1>1. ~(at > e - a)
    OBVIOUS
  <1>2. BytesSplitAt(Span(a, e), at) = Ok(<<Span(a, a + at), Span(a + at, e)>>)
    BY <1>1, KindsOf DEF BytesSplitAt, Span
  <1>3. LspSplitAt(LspOf(Span(a, e)), PositionOf(Slice(doc, a, e), at)) =
            Ok(<<LspOf(Span(a, a + at)), LspOf(Span(a + at, e))>>)
    <2>1. /\ Absolute(PositionOf(doc, a), PositionOf(Slice(doc, a, e), at)) = PositionOf(doc, a + at)
          /\ Within(PositionOf(doc, a + at), PositionOf(doc, a), PositionOf(doc, e))
      BY PlaceFacts
    <2>2. LspSplitAt(LspOf(Span(a, e)), PositionOf(Slice(doc, a, e), at)) =
             Ok(<<[start |-> PositionOf(doc, a), end |-> PositionOf(doc, a + at)],
                  [start |-> PositionOf(doc, a + at), end |-> PositionOf(doc, e)]>>)
      BY <2>1, KindsOf DEF LspSplitAt
    <2> QED
      BY <2>2, KindsOf
  <1> QED
    BY <1>2, <1>3

LEMMA TsSplitAgrees ==
    ASSUME doc \in Document, NEW e \in 0..Len(doc), NEW a \in 0..e, NEW at \in 0..e - a,
           Boundary(Slice(doc, a, e), at)
    PROVE  TsSplitAt(TsOf(Span(a, e)), Slice(doc, a, e), PositionOf(Slice(doc, a, e), at)) =
              Ok(<<TsOf(Span(a, a + at)), TsOf(Span(a + at, e))>>)
  <1> DEFINE t == Slice(doc, a, e)
  <1>1. t \in Document /\ Len(t) = e - a
    BY SliceFacts
  <1>2. TsFound(t, PositionOf(t, at)) = {at}
    BY <1>1, FoundFacts
  <1>3. Absolute(PositionOf(doc, a), PositionOf(t, at)) = PositionOf(doc, a + at)
    BY PlaceFacts
  <1> HIDE DEF t
  <1>4. (CHOOSE b \in TsFound(t, PositionOf(t, at)) : TRUE) = at
    BY <1>2
  <1>5. TsFound(t, PositionOf(t, at)) # {}
    BY <1>2
  <1>6. TsSplitAt(TsOf(Span(a, e)), t, PositionOf(t, at)) =
            Ok(<<TsRange(a, a + at, PositionOf(doc, a), PositionOf(doc, a + at)),
                 TsRange(a + at, e, PositionOf(doc, a + at), PositionOf(doc, e))>>)
    BY <1>3, <1>4, <1>5, KindsOf, Zenon DEF TsSplitAt
  <1> QED
    BY <1>6, KindsOf DEF t

-----------------------------------------------------------------------------
(* The operations *)

\* Places in a stretch: a character of it or its end, or the one past it.
LEMMA PlacesOf ==
    ASSUME doc \in Document, NEW e \in 0..Len(doc), NEW a \in 0..e, bytes = Span(a, e)
    PROVE  /\ Text = Slice(doc, a, e) /\ Text \in Document /\ Len(Text) = e - a
           /\ \A at \in Places :
                 \/ /\ at \in 0..e - a /\ Boundary(Text, at)
                    /\ PlaceOf(at) = PositionOf(Text, at)
                    /\ TsFound(Text, PlaceOf(at)) = {at}
                 \/ /\ at = e - a + 1
                    /\ PlaceOf(at) = [PositionOf(Text, e - a) EXCEPT !.col = @ + 1]
                    /\ TsFound(Text, PlaceOf(at)) = {}
  <1>1. /\ Text = Slice(doc, a, e) /\ Text \in Document /\ Len(Text) = e - a
    <2>1. bytes.start = a /\ bytes.end = e
      BY KindsOf
    <2>2. Text = Slice(doc, a, e)
      BY <2>1 DEF Text
    <2>3. Slice(doc, a, e) \in Document /\ Len(Slice(doc, a, e)) = e - a
      BY SliceFacts
    <2> QED
      BY <2>2, <2>3
  <1>2. ASSUME NEW at \in Places
        PROVE  \/ /\ at \in 0..e - a /\ Boundary(Text, at)
                  /\ PlaceOf(at) = PositionOf(Text, at)
                  /\ TsFound(Text, PlaceOf(at)) = {at}
               \/ /\ at = e - a + 1
                  /\ PlaceOf(at) = [PositionOf(Text, e - a) EXCEPT !.col = @ + 1]
                  /\ TsFound(Text, PlaceOf(at)) = {}
    <2>1. CASE at \in 0..e - a /\ Boundary(Text, at)
      <3>1. at <= Len(Text) /\ at \in 0..Len(Text)
        BY <1>1, <2>1
      <3>2. PlaceOf(at) = PositionOf(Text, at)
        BY <3>1 DEF PlaceOf
      <3>3. TsFound(Text, PositionOf(Text, at)) = {at}
        BY <1>1, <2>1, <3>1, FoundFacts
      <3> QED
        BY <2>1, <3>2, <3>3
    <2>2. CASE at = e - a + 1
      <3>1. ~(at <= Len(Text))
        BY <1>1, <2>2
      <3>2. PlaceOf(at) = [PositionOf(Text, e - a) EXCEPT !.col = @ + 1]
        BY <1>1, <3>1 DEF PlaceOf
      <3>3. TsFound(Text, PlaceOf(at)) = {}
        BY <1>1, <3>2, PastFacts
      <3> QED
        BY <2>2, <3>2, <3>3
    <2> QED
      BY <1>1, <2>1, <2>2 DEF Places
  <1> QED
    BY <1>1, <1>2

LEMMA SplitsAgree ==
    ASSUME doc \in Document, NEW e \in 0..Len(doc), NEW a \in 0..e, bytes = Span(a, e),
           lsp = LspOf(bytes), ts = TsOf(bytes),
           NEW at \in Places, NEW k \in 1..2
    PROVE  Agree(Part(BytesSplitAt(bytes, at), k), Part(LspSplitAt(lsp, PlaceOf(at)), k),
                 Part(TsSplitAt(ts, Text, PlaceOf(at)), k))
  <1>1. /\ Text = Slice(doc, a, e)
        /\ \/ /\ at \in 0..e - a /\ Boundary(Text, at)
              /\ PlaceOf(at) = PositionOf(Text, at)
           \/ /\ at = e - a + 1
              /\ PlaceOf(at) = [PositionOf(Text, e - a) EXCEPT !.col = @ + 1]
              /\ TsFound(Text, PlaceOf(at)) = {}
    BY PlacesOf
  <1>2. CASE at \in 0..e - a /\ Boundary(Text, at) /\ PlaceOf(at) = PositionOf(Text, at)
    <2>1. /\ BytesSplitAt(bytes, at) = Ok(<<Span(a, a + at), Span(a + at, e)>>)
          /\ LspSplitAt(lsp, PlaceOf(at)) = Ok(<<LspOf(Span(a, a + at)), LspOf(Span(a + at, e))>>)
      BY <1>1, <1>2, SplitAgrees
    <2>2. TsSplitAt(ts, Text, PlaceOf(at)) = Ok(<<TsOf(Span(a, a + at)), TsOf(Span(a + at, e))>>)
      BY <1>1, <1>2, TsSplitAgrees
    <2>3. CASE k = 1
      <3>1. /\ Part(BytesSplitAt(bytes, at), k) = Span(a, a + at)
            /\ Part(LspSplitAt(lsp, PlaceOf(at)), k) = LspOf(Span(a, a + at))
            /\ Part(TsSplitAt(ts, Text, PlaceOf(at)), k) = TsOf(Span(a, a + at))
        BY <2>1, <2>2, <2>3, Results
      <3> QED
        BY <3>1, SpanAgrees
    <2>4. CASE k = 2
      <3>1. /\ Part(BytesSplitAt(bytes, at), k) = Span(a + at, e)
            /\ Part(LspSplitAt(lsp, PlaceOf(at)), k) = LspOf(Span(a + at, e))
            /\ Part(TsSplitAt(ts, Text, PlaceOf(at)), k) = TsOf(Span(a + at, e))
        BY <2>1, <2>2, <2>4, Results
      <3> QED
        BY <3>1, SpanAgrees
    <2> QED
      BY <2>3, <2>4
  <1>3. CASE /\ at = e - a + 1
             /\ PlaceOf(at) = [PositionOf(Text, e - a) EXCEPT !.col = @ + 1]
             /\ TsFound(Text, PlaceOf(at)) = {}
    <2>1. at > e - a
      BY <1>3
    <2>2. BytesSplitAt(bytes, at) = Err("PositionOutOfRange")
      BY <2>1, KindsOf DEF BytesSplitAt
    <2>3. LspSplitAt(lsp, PlaceOf(at)) = Err("PositionOutOfRange")
      <3>1. ~Within(Absolute(PositionOf(doc, a), PlaceOf(at)), PositionOf(doc, a), PositionOf(doc, e))
        BY <1>1, <1>3, PastFacts
      <3> QED
        BY <3>1, KindsOf DEF LspSplitAt
    <2>4. TsSplitAt(ts, Text, PlaceOf(at)) = Err("PositionOutOfRange")
      BY <1>3 DEF TsSplitAt
    <2> QED
      BY <2>2, <2>3, <2>4, Results, RefusalAgrees
  <1> QED
    BY <1>1, <1>2, <1>3

LEMMA ShrinksAgree ==
    ASSUME doc \in Document, NEW e \in 0..Len(doc), NEW a \in 0..e, bytes = Span(a, e),
           lsp = LspOf(bytes), ts = TsOf(bytes),
           NEW left \in Nat, NEW right \in Nat
    PROVE  Agree(Part(BytesShrink(bytes, left, right), 1), Part(LspShrink(lsp, left, right), 1),
                 Part(TsShrink(ts, left, right), 1))
  <1> DEFINE from == ShrunkStart(a, e, left)
             to   == ShrunkEnd(a, e, right)
             P(b) == PositionOf(doc, b)
  <1>0. Len(doc) \in Nat /\ a \in Nat /\ e \in Nat /\ a \in 0..Len(doc)
    <2>1. Len(doc) \in Nat
      BY DEF Document
    <2> QED
      BY <2>1
  <1>1. from \in a..e /\ to \in a..e
    BY <1>0 DEF ShrunkStart, ShrunkEnd, LeastOf, MostOf
  <1>2. BytesShrink(bytes, left, right) = Ok(<<Span(from, to)>>)
    BY KindsOf DEF BytesShrink, Span
  <1>3. P(a) \in [line: Nat, col: Nat] /\ P(e) \in [line: Nat, col: Nat]
    BY <1>0, PositionTypes
  <1>4. CASE P(a).line = P(e).line
    <2>1. /\ P(e).col = P(a).col + (e - a)
          /\ \A d \in a..e : P(d) = [line |-> P(a).line, col |-> P(a).col + (d - a)]
      BY <1>0, <1>3, <1>4, PositionSteps
    <2>2. ShrunkStart(P(a).col, P(e).col, left) = P(a).col + (from - a)
      BY <1>0, <1>3, <2>1 DEF ShrunkStart, LeastOf
    <2>3. ShrunkEnd(P(a).col, P(e).col, right) = P(a).col + (to - a)
      BY <1>0, <1>3, <2>1 DEF ShrunkEnd, MostOf
    <2> HIDE DEF from, to
    <2>4. /\ P(from) = [line |-> P(a).line, col |-> P(a).col + (from - a)]
          /\ P(to) = [line |-> P(a).line, col |-> P(a).col + (to - a)]
      BY <1>1, <2>1
    <2>5. /\ [P(a) EXCEPT !.col = ShrunkStart(@, P(e).col, left)] = P(from)
          /\ [P(e) EXCEPT !.col = ShrunkEnd(P(a).col, @, right)] = P(to)
      BY <1>3, <1>4, <2>2, <2>3, <2>4
    <2>6. LspShrink(lsp, left, right) = Ok(<<[start |-> P(from), end |-> P(to)]>>)
      BY <1>4, <2>5, KindsOf DEF LspShrink
    <2>7. TsShrink(ts, left, right) = Ok(<<TsRange(from, to, P(from), P(to))>>)
      BY <1>4, <2>5, KindsOf DEF TsShrink, from, to
    <2>8. /\ Part(BytesShrink(bytes, left, right), 1) = Span(from, to)
          /\ Part(LspShrink(lsp, left, right), 1) = LspOf(Span(from, to))
          /\ Part(TsShrink(ts, left, right), 1) = TsOf(Span(from, to))
      BY <1>2, <2>6, <2>7, Results, KindsOf DEF from, to
    <2> QED
      BY <2>8, SpanAgrees
  <1>5. CASE P(a).line # P(e).line
    <2>1. LspShrink(lsp, left, right) = Err("NotSingleLine") /\ TsShrink(ts, left, right) = Err("NotSingleLine")
      BY <1>5, KindsOf DEF LspShrink, TsShrink
    <2>2. /\ Part(BytesShrink(bytes, left, right), 1) = Span(from, to)
          /\ Part(LspShrink(lsp, left, right), 1) = Err("NotSingleLine")
          /\ Part(TsShrink(ts, left, right), 1) = Err("NotSingleLine")
      BY <1>2, <2>1, Results
    <2> QED
      BY <2>2, Results DEF Agree
  <1> QED
    BY <1>4, <1>5

LEMMA SubsAgree ==
    ASSUME doc \in Document, NEW e \in 0..Len(doc), NEW a \in 0..e, bytes = Span(a, e),
           lsp = LspOf(bytes), ts = TsOf(bytes),
           NEW from \in Places, NEW to \in Places
    PROVE  Agree(Part(BytesSub(bytes, from, to), 1),
                 Part(LspSub(lsp, PlaceOf(from), PlaceOf(to)), 1),
                 Part(TsSub(ts, Text, PlaceOf(from), PlaceOf(to)), 1))
  <1> DEFINE L == e - a
             Inside(at) == /\ at \in 0..L /\ PlaceOf(at) = PositionOf(Text, at)
                           /\ TsFound(Text, PlaceOf(at)) = {at}
             Past(at)   == /\ at = L + 1
                           /\ PlaceOf(at) = [PositionOf(Text, L) EXCEPT !.col = @ + 1]
                           /\ TsFound(Text, PlaceOf(at)) = {}
  <1>0. Text = Slice(doc, a, e) /\ Text \in Document /\ Len(Text) = L
    BY PlacesOf
  <1>1. (Inside(from) \/ Past(from)) /\ (Inside(to) \/ Past(to))
    BY PlacesOf
  <1>2. L \in Nat /\ from \in Nat /\ to \in Nat /\ a \in Nat /\ e \in Nat
    <2>1. Len(doc) \in Nat
      BY DEF Document
    <2>2. L \in Nat /\ a \in Nat /\ e \in Nat
      BY <2>1
    <2> HIDE DEF L
    <2> QED
      BY <1>1, <2>2
  <1>3. ASSUME NEW at \in {from, to}, Inside(at)
        PROVE  /\ Absolute(PositionOf(doc, a), PlaceOf(at)) = PositionOf(doc, a + at)
               /\ Within(PositionOf(doc, a + at), PositionOf(doc, a), PositionOf(doc, e))
    BY <1>0, <1>3, PlaceFacts
  <1>4. ASSUME NEW at \in {from, to}, Past(at)
        PROVE  /\ ~Within(Absolute(PositionOf(doc, a), PlaceOf(at)), PositionOf(doc, a), PositionOf(doc, e))
               /\ AtOrBefore(PlaceOf(at), PlaceOf(at))
               /\ \A b \in 0..L : /\ AtOrBefore(PositionOf(Text, b), PlaceOf(at))
                                  /\ ~AtOrBefore(PlaceOf(at), PositionOf(Text, b))
    <2>1. PlaceOf(at) = [PositionOf(Slice(doc, a, e), e - a) EXCEPT !.col = @ + 1]
      BY <1>0, <1>4
    <2> QED
      BY <1>0, <2>1, PastFacts
  <1>5. AtOrBefore(PlaceOf(from), PlaceOf(to)) <=> from <= to
    <2>1. CASE Inside(from) /\ Inside(to)
      <3>1. AtOrBefore(PositionOf(Text, from), PositionOf(Text, to)) <=> from <= to
        BY <1>0, <2>1, PositionOrder
      <3> QED
        BY <2>1, <3>1
    <2>2. CASE Inside(from) /\ Past(to)
      <3>1. AtOrBefore(PositionOf(Text, from), PlaceOf(to)) /\ from <= to
        BY <1>2, <1>4, <2>2
      <3> QED
        BY <2>2, <3>1
    <2>3. CASE Past(from) /\ Inside(to)
      <3>1. ~AtOrBefore(PlaceOf(from), PositionOf(Text, to)) /\ ~(from <= to)
        BY <1>2, <1>4, <2>3
      <3> QED
        BY <2>3, <3>1
    <2>4. CASE Past(from) /\ Past(to)
      <3>1. from = to /\ from <= to
        BY <1>2, <2>4
      <3> QED
        BY <1>4, <2>4, <3>1
    <2> QED
      BY <1>1, <2>1, <2>2, <2>3, <2>4
  <1>6. CASE Inside(from) /\ Inside(to) /\ from <= to
    <2>1. ~(MostOf(from, to) > L) /\ ~(from > to)
      BY <1>2, <1>6 DEF MostOf
    <2>2. BytesSub(bytes, from, to) = Ok(<<Span(a + from, a + to)>>)
      BY <2>1, KindsOf DEF BytesSub, Span
    <2>3. LspSub(lsp, PlaceOf(from), PlaceOf(to)) =
             Ok(<<[start |-> PositionOf(doc, a + from), end |-> PositionOf(doc, a + to)]>>)
      BY <1>3, <1>5, <1>6, KindsOf DEF LspSub
    <2>4. /\ (CHOOSE b \in TsFound(Text, PlaceOf(from)) : TRUE) = from
          /\ (CHOOSE b \in TsFound(Text, PlaceOf(to)) : TRUE) = to
      BY <1>6
    <2>5. TsFound(Text, PlaceOf(from)) # {} /\ TsFound(Text, PlaceOf(to)) # {}
      BY <1>6
    <2>6. TsSub(ts, Text, PlaceOf(from), PlaceOf(to)) =
             Ok(<<TsRange(a + from, a + to, PositionOf(doc, a + from), PositionOf(doc, a + to))>>)
      BY <1>3, <1>5, <1>6, <2>4, <2>5, KindsOf DEF TsSub
    <2>7. /\ Part(BytesSub(bytes, from, to), 1) = Span(a + from, a + to)
          /\ Part(LspSub(lsp, PlaceOf(from), PlaceOf(to)), 1) = LspOf(Span(a + from, a + to))
          /\ Part(TsSub(ts, Text, PlaceOf(from), PlaceOf(to)), 1) = TsOf(Span(a + from, a + to))
      BY <2>2, <2>3, <2>6, Results, KindsOf
    <2> QED
      BY <2>7, SpanAgrees
  <1>7. CASE ~(Inside(from) /\ Inside(to) /\ from <= to)
    <2>1. /\ (MostOf(from, to) > L \/ from > to)
          /\ (~(from <= to) \/ Past(from) \/ Past(to))
      <3> HIDE DEF L
      <3>1. CASE Inside(from) /\ Inside(to)
        BY <1>2, <1>7, <3>1
      <3>2. CASE Past(from) \/ Past(to)
        BY <1>2, <3>2 DEF MostOf
      <3> QED
        BY <1>1, <3>1, <3>2
    <2>2. \E error \in {"PositionOutOfRange", "StartAfterEnd"} : BytesSub(bytes, from, to) = Err(error)
      BY <2>1, KindsOf DEF BytesSub
    <2>3. \E error \in {"PositionOutOfRange", "StartAfterEnd"} :
             LspSub(lsp, PlaceOf(from), PlaceOf(to)) = Err(error)
      <3>1. CASE ~(from <= to)
        BY <1>5, <3>1 DEF LspSub
      <3>2. CASE Past(from) \/ Past(to)
        BY <1>4, <3>2, KindsOf DEF LspSub
      <3> QED
        BY <2>1, <3>1, <3>2
    <2>4. \E error \in {"PositionOutOfRange", "StartAfterEnd"} :
             TsSub(ts, Text, PlaceOf(from), PlaceOf(to)) = Err(error)
      <3>1. CASE ~(from <= to)
        BY <1>5, <3>1 DEF TsSub
      <3>2. CASE Past(from) \/ Past(to)
        BY <3>2 DEF TsSub
      <3> QED
        BY <2>1, <3>1, <3>2
    <2> QED
      BY <2>2, <2>3, <2>4, Results, RefusalAgrees
  <1> QED
    BY <1>1, <1>6, <1>7

-----------------------------------------------------------------------------
(* Cutting at a delimiter *)

\* The same stretch in the three kinds, or none of it in any.
Fits(b, l, t) ==
    \/ b = None /\ l = None /\ t = None
    \/ \E from \in 0..Len(doc), to \in 0..Len(doc) :
          from <= to /\ b = Span(from, to) /\ l = LspOf(b) /\ t = TsOf(b)

LEMMA FitsAgrees ==
    ASSUME NEW b, NEW l, NEW t, Fits(b, l, t)
    PROVE  Agree(b, l, t)
  BY SpanAgrees, NoneAgrees DEF Fits

\* Find is the offset of the first delimiter.
LEMMA FindFacts ==
    ASSUME NEW t \in Document, NEW d, Finds(t, d)
    PROVE  Find(t, d) \in 0..Len(t) - 1 /\ t[Find(t, d) + 1] = d
  <1> DEFINE R == {pair \in Nat \X Nat : pair[1] < pair[2]}
             T == {i \in 1..Len(t) : t[i] = d}
  <1>1. IsWellFoundedOn(R, Nat)
    BY NatLessThanWellFounded, Zenon DEF OpToRel
  <1>2. T # {} /\ T \in SUBSET Nat
    BY DEF Finds
  <1> HIDE DEF R
  <1>3. PICK n \in T : \A k \in T : <<k, n>> \notin R
    BY <1>1, <1>2, WFMin
  <1>4. n \in 1..Len(t) /\ t[n] = d
    BY <1>3
  <1>5. \A j \in 1..n - 1 : t[j] # d
    <2> SUFFICES ASSUME NEW j \in 1..n - 1, t[j] = d
                 PROVE  FALSE
      OBVIOUS
    <2>1. Len(t) \in Nat
      BY DEF Document
    <2>2. j \in T /\ j \in Nat /\ n \in Nat /\ j < n
      BY <1>4, <2>1
    <2> QED
      BY <1>3, <2>2 DEF R
  <1>6. LET i == CHOOSE i \in 1..Len(t) : t[i] = d /\ \A j \in 1..i - 1 : t[j] # d
        IN  i \in 1..Len(t) /\ t[i] = d
    BY <1>4, <1>5
  <1>7. Find(t, d) + 1 \in 1..Len(t) /\ t[Find(t, d) + 1] = d
    BY <1>6 DEF Find
  <1> QED
    BY <1>6, <1>7 DEF Find

\* Without a character of two bytes before it, a column counts bytes.
LEMMA CountedColumns ==
    ASSUME NEW t \in Document, NEW o \in 0..Len(t),
           \A i \in LineStart(t, o) + 1..o : t[i] # "trail"
    PROVE  [PositionOf(t, o) EXCEPT
               !.col = Cardinality({i \in LineStart(t, o) + 1..o : t[i] # "trail"})] = PositionOf(t, o)
  <1> DEFINE n == LineStart(t, o)
  <1>1. n \in 0..o /\ o \in Nat /\ n \in Nat
    <2>1. Len(t) \in Nat
      BY DEF Document
    <2>2. n \in 0..o
      BY LineStartFacts
    <2> QED
      BY <2>1, <2>2
  <1>2. {i \in n + 1..o : t[i] # "trail"} = n + 1..o
    OBVIOUS
  <1>3. PositionOf(t, o) \in [line: Nat, col: Nat] /\ PositionOf(t, o).col = o - n
    BY PositionTypes
  <1> HIDE DEF n
  <1>4. Cardinality(n + 1..o) = o - n
    <2>1. Cardinality(n + 1..o) = IF n + 1 > o THEN 0 ELSE o - (n + 1) + 1
      BY <1>1, FS_Interval
    <2> QED
      BY <1>1, <2>1
  <1>5. [PositionOf(t, o) EXCEPT !.col = o - n] = PositionOf(t, o)
    BY <1>3
  <1> QED
    BY <1>2, <1>4, <1>5 DEF n

\* After the delimiter comes the next byte.
LEMMA AfterFacts ==
    ASSUME NEW t \in Document, NEW o \in 0..Len(t) - 1, NEW d, t[o + 1] = d
    PROVE  After(t, d, PositionOf(t, o)) = PositionOf(t, o + 1)
  <1>1. o \in 0..Len(t)
    BY DEF Document
  <1>2. PositionOf(t, o) \in [line: Nat, col: Nat]
    BY <1>1, PositionTypes
  <1>3. PositionOf(t, o + 1) =
           IF d = "newline" THEN [line |-> PositionOf(t, o).line + 1, col |-> 0]
           ELSE [line |-> PositionOf(t, o).line, col |-> PositionOf(t, o).col + 1]
    BY PositionNext
  <1> QED
    BY <1>2, <1>3 DEF After

\* LspDelimited, had it counted bytes.
LspDelimitedInBytes(r, t, delimiter) ==
    IF ~Finds(t, delimiter) THEN OneSide(r, t)
    ELSE LET at == PositionOf(t, Find(t, delimiter))
         IN  Sides(t, delimiter, Part(LspSplitAt(r, at), 1),
                                 Part(LspSplitAt(r, After(t, delimiter, at)), 2))

LspTriInBytes(r, t, delim0, delim1) == Tri(LspDelimitedInBytes, r, t, delim0, delim1)

\* Where the delimiter is counted in bytes that is what it does.
LEMMA InBytes ==
    ASSUME NEW r, NEW t \in Document, NEW d, CountedInBytes(t, d)
    PROVE  LspDelimited(r, t, d) = LspDelimitedInBytes(r, t, d)
  <1>1. CASE ~Finds(t, d)
    BY <1>1 DEF LspDelimited, LspDelimitedInBytes
  <1>2. CASE Finds(t, d)
    <2> DEFINE o == Find(t, d)
    <2>1. o \in 0..Len(t)
      <3>1. Len(t) \in Nat
        BY DEF Document
      <3> QED
        BY <1>2, <3>1, FindFacts
    <2>2. \A i \in LineStart(t, o) + 1..o : t[i] # "trail"
      BY <1>2 DEF CountedInBytes
    <2>3. [PositionOf(t, o) EXCEPT
               !.col = Cardinality({i \in LineStart(t, o) + 1..o : t[i] # "trail"})] = PositionOf(t, o)
      BY <2>1, <2>2, CountedColumns
    <2> QED
      BY <1>2, <2>3 DEF LspDelimited, LspDelimitedInBytes
  <1> QED
    BY <1>1, <1>2

LEMMA TriInBytes ==
    ASSUME NEW r, NEW t \in Document, NEW d, NEW f, CountedInBytes(t, d),
           Finds(t, d) => CountedInBytes(Rest(t, d), f)
    PROVE  LspDelimitedTri(r, t, d, f) = LspTriInBytes(r, t, d, f)
  <1> DEFINE once == LspDelimitedInBytes(r, t, d)
  <1>1. LspDelimited(r, t, d) = once
    BY InBytes
  <1>2. CASE ~Finds(t, d)
    <2>1. once = Ok(<<IF t = << >> THEN None ELSE r, None>>)
      BY <1>2 DEF LspDelimitedInBytes, OneSide
    <2>2. ~IsErr(once) /\ once.parts[2] = None
      BY <2>1, Results
    <2> HIDE DEF once
    <2>3. LspDelimitedTri(r, t, d, f) = Ok(Append(once.parts, None))
      BY <1>1, <2>2, Zenon DEF LspDelimitedTri, Tri
    <2>4. LspTriInBytes(r, t, d, f) = Ok(Append(once.parts, None))
      BY <2>2, Zenon DEF LspTriInBytes, Tri, once
    <2> QED
      BY <2>3, <2>4
  <1>3. CASE Finds(t, d)
    <2>1. Rest(t, d) \in Document
      <3>1. Len(t) \in Nat /\ Find(t, d) \in 0..Len(t) - 1
        BY <1>3, FindFacts DEF Document
      <3>2. Find(t, d) + 1 \in 0..Len(t) /\ Len(t) \in 0..Len(t)
        BY <3>1
      <3> QED
        BY <3>2, SliceFacts DEF Rest
    <2>2. LspDelimited(once.parts[2], Rest(t, d), f) = LspDelimitedInBytes(once.parts[2], Rest(t, d), f)
      BY <1>3, <2>1, InBytes
    <2> DEFINE again == LspDelimitedInBytes(once.parts[2], Rest(t, d), f)
               tri   == IF IsErr(once) THEN once
                        ELSE IF once.parts[2] = None THEN Ok(Append(once.parts, None))
                        ELSE IF IsErr(again) THEN again
                        ELSE Ok(<<once.parts[1]>> \o again.parts)
    <2>3. LspTriInBytes(r, t, d, f) = tri
      BY Zenon DEF LspTriInBytes, Tri
    <2>4. LspDelimitedTri(r, t, d, f) = tri
      <3> HIDE DEF once
      <3> QED
        BY <1>1, <2>2, Zenon DEF LspDelimitedTri, Tri
    <2> HIDE DEF tri
    <2> QED
      BY <2>3, <2>4
  <1> QED
    BY <1>2, <1>3

\* Two sides that are not refused.
LEMMA SidesOf ==
    ASSUME NEW t, NEW d, NEW left, NEW right, ~IsErr(left), ~IsErr(right)
    PROVE  Sides(t, d, left, right) = Ok(<<IF Find(t, d) = 0 THEN None ELSE left,
                                           IF Find(t, d) + 1 >= Len(t) THEN None ELSE right>>)
  BY Results DEF Sides, Both

\* What follows a place in a stretch is a stretch.
LEMMA SliceOfSlice ==
    ASSUME NEW s \in Document, NEW e \in 0..Len(s), NEW a \in 0..e, NEW b \in 0..e - a
    PROVE  Slice(Slice(s, a, e), b, e - a) = Slice(s, a + b, e)
  <1> DEFINE t == Slice(s, a, e)
             u == Slice(t, b, e - a)
             v == Slice(s, a + b, e)
  <1>1. Len(s) \in Nat
    BY DEF Document
  <1>2. a + b \in 0..e /\ e - a \in Nat /\ a \in Nat /\ b \in Nat /\ e - (a + b) = (e - a) - b
    BY <1>1
  <1>3. t \in Document /\ Len(t) = e - a /\ \A i \in 1..e - a : t[i] = s[a + i]
    BY SliceFacts
  <1> HIDE DEF t
  <1>4. e - a \in 0..Len(t) /\ b \in 0..e - a
    BY <1>2, <1>3
  <1>5. u \in Document /\ Len(u) = (e - a) - b /\ \A i \in 1..(e - a) - b : u[i] = t[b + i]
    BY <1>3, <1>4, SliceFacts
  <1>6. v \in Document /\ Len(v) = e - (a + b) /\ \A i \in 1..e - (a + b) : v[i] = s[(a + b) + i]
    BY <1>2, SliceFacts
  <1>7. \A i \in 1..(e - a) - b : u[i] = v[i]
    <2>1. TAKE i \in 1..(e - a) - b
    <2>2. b + i \in 1..e - a /\ a + (b + i) = (a + b) + i
      BY <1>2
    <2>3. t[b + i] = s[a + (b + i)]
      BY <1>3, <2>2
    <2>4. u[i] = t[b + i]
      BY <1>5
    <2>5. v[i] = s[(a + b) + i]
      BY <1>2, <1>6
    <2> QED
      BY <2>2, <2>3, <2>4, <2>5
  <1> HIDE DEF u, v
  <1>8. Len(u) = Len(v)
    BY <1>2, <1>5, <1>6
  <1>9. \A i \in 1..Len(u) : u[i] = v[i]
    BY <1>5, <1>7
  <1>10. u \in Seq({"plain", "newline", "slash", "lead", "trail"})
         /\ v \in Seq({"plain", "newline", "slash", "lead", "trail"})
    BY <1>5, <1>6 DEF Document
  <1>11. u = v
    BY <1>8, <1>9, <1>10, SeqEqual
  <1> QED
    BY <1>11 DEF u, v, t

\* The two sides of the first delimiter of a stretch.
TwoSides(a, e, d, b1, b2, l1, l2, t1, t2) ==
    /\ BytesDelimited(Span(a, e), Slice(doc, a, e), d) = Ok(<<b1, b2>>)
    /\ LspDelimitedInBytes(LspOf(Span(a, e)), Slice(doc, a, e), d) = Ok(<<l1, l2>>)
    /\ TsDelimited(TsOf(Span(a, e)), Slice(doc, a, e), d) = Ok(<<t1, t2>>)
    /\ Fits(b1, l1, t1)
    /\ \/ b2 = None /\ l2 = None /\ t2 = None
       \/ /\ Finds(Slice(doc, a, e), d)
          /\ \E from \in 0..e :
                /\ b2 = Span(from, e) /\ l2 = LspOf(b2) /\ t2 = TsOf(b2)
                /\ Rest(Slice(doc, a, e), d) = Slice(doc, from, e)

LEMMA DelimitedAgrees ==
    ASSUME doc \in Document, NEW e \in 0..Len(doc), NEW a \in 0..e,
           NEW d
    PROVE  \E b1, b2, l1, l2, t1, t2 : TwoSides(a, e, d, b1, b2, l1, l2, t1, t2)
  <1> DEFINE t == Slice(doc, a, e)
             o == Find(t, d)
             r == Span(a, e)
  <1>1. t \in Document /\ Len(t) = e - a /\ \A i \in 1..e - a : t[i] = doc[a + i]
    BY SliceFacts
  <1>2. Len(doc) \in Nat
    BY DEF Document
  <1>3. a \in Nat /\ e \in Nat /\ a \in 0..Len(doc) /\ a <= e
    BY <1>2
  <1>4. Fits(Span(a, e), LspOf(Span(a, e)), TsOf(Span(a, e)))
    BY <1>3 DEF Fits
  <1>5. Fits(None, None, None)
    BY DEF Fits
  <1>6. CASE ~Finds(t, d)
    <2> DEFINE side(x) == IF t = << >> THEN None ELSE x
    <2>1. /\ BytesDelimited(r, t, d) = Ok(<<side(r), None>>)
          /\ LspDelimitedInBytes(LspOf(r), t, d) = Ok(<<side(LspOf(r)), None>>)
          /\ TsDelimited(TsOf(r), t, d) = Ok(<<side(TsOf(r)), None>>)
      BY <1>6 DEF BytesDelimited, LspDelimitedInBytes, TsDelimited, OneSide
    <2>2. Fits(side(r), side(LspOf(r)), side(TsOf(r)))
      BY <1>4, <1>5
    <2>3. TwoSides(a, e, d, side(r), None, side(LspOf(r)), None, side(TsOf(r)), None)
      BY <2>1, <2>2 DEF TwoSides
    <2> QED
      BY <2>3
  <1>7. CASE Finds(t, d)
    <2> DEFINE left(x)  == IF o = 0 THEN None ELSE x
               right(x) == IF o + 1 >= Len(t) THEN None ELSE x
               one      == Span(a, a + o)
               two      == Span(a + (o + 1), e)
    <2>1. o \in 0..Len(t) - 1 /\ t[o + 1] = d
      BY <1>1, <1>7, FindFacts
    <2> HIDE DEF t, o
    <2>2. /\ o \in 0..e - a /\ o + 1 \in 0..e - a /\ o \in 0..Len(t) /\ o + 1 \in 0..Len(t)
          /\ o \in Nat /\ a + o \in 0..Len(doc) - 1 /\ a + (o + 1) \in 0..e /\ a + o <= e
          /\ a + o \in 0..Len(doc) /\ a + (o + 1) \in 0..Len(doc)
      <3>1. e - a \in Nat
        BY <1>3
      <3> QED
        BY <1>1, <1>2, <1>3, <2>1, <3>1
    <2>a. /\ BytesSplitAt(r, o) = Ok(<<one, Span(a + o, e)>>)
          /\ LspSplitAt(LspOf(r), PositionOf(t, o)) = Ok(<<LspOf(one), LspOf(Span(a + o, e))>>)
      BY <2>2, SplitAgrees DEF t
    <2>b. /\ BytesSplitAt(r, o + 1) = Ok(<<Span(a, a + (o + 1)), two>>)
          /\ LspSplitAt(LspOf(r), PositionOf(t, o + 1)) = Ok(<<LspOf(Span(a, a + (o + 1))), LspOf(two)>>)
      BY <2>2, SplitAgrees DEF t
    <2>3. BytesDelimited(r, t, d) = Ok(<<left(one), right(two)>>)
      <3>1. Part(BytesSplitAt(r, o), 1) = one
        BY <2>a, Results
      <3>2. Part(BytesSplitAt(r, o + 1), 2) = two
        BY <2>b, Results
      <3> QED
        BY <1>7, <3>1, <3>2, SidesOf, Results DEF BytesDelimited, o
    <2>4. LspDelimitedInBytes(LspOf(r), t, d) = Ok(<<left(LspOf(one)), right(LspOf(two))>>)
      <3>1. After(t, d, PositionOf(t, o)) = PositionOf(t, o + 1)
        BY <1>1, <2>1, AfterFacts
      <3>2. Part(LspSplitAt(LspOf(r), PositionOf(t, o)), 1) = LspOf(one)
        BY <2>a, Results
      <3>3. Part(LspSplitAt(LspOf(r), After(t, d, PositionOf(t, o))), 2) = LspOf(two)
        BY <2>b, <3>1, Results
      <3> QED
        BY <1>7, <3>2, <3>3, SidesOf, Results DEF LspDelimitedInBytes, o
    <2>5. TsDelimited(TsOf(r), t, d) = Ok(<<left(TsOf(one)), right(TsOf(two))>>)
      <3> DEFINE at == Absolute(PositionOf(doc, a), PositionOf(t, o))
      <3>1. at = PositionOf(doc, a + o)
        BY <2>2, PlaceFacts DEF t
      <3>2. doc[(a + o) + 1] = d
        BY <1>1, <1>3, <2>1, <2>2
      <3>3. After(t, d, at) = PositionOf(doc, (a + o) + 1)
        <4>1. After(doc, d, PositionOf(doc, a + o)) = PositionOf(doc, (a + o) + 1)
          BY <2>2, <3>2, AfterFacts
        <4>2. After(t, d, at) = After(doc, d, at)
          BY DEF After
        <4> QED
          BY <3>1, <4>1, <4>2
      <3>4. (a + o) + 1 = a + (o + 1)
        BY <1>3, <2>2
      <3>5. /\ TsRange(a, a + o, PositionOf(doc, a), at) = TsOf(one)
            /\ TsRange(a + o + 1, e, After(t, d, at), PositionOf(doc, e)) = TsOf(two)
        BY <3>1, <3>3, <3>4, KindsOf
      <3>6. TsDelimited(TsOf(r), t, d) =
               Sides(t, d, TsRange(a, a + o, PositionOf(doc, a), at),
                           TsRange(a + o + 1, e, After(t, d, at), PositionOf(doc, e)))
        BY <1>7, KindsOf DEF TsDelimited, o
      <3> QED
        BY <3>5, <3>6, SidesOf, Results DEF o
    <2>6. Fits(left(one), left(LspOf(one)), left(TsOf(one)))
      <3>1. Fits(one, LspOf(one), TsOf(one))
        BY <1>3, <2>2 DEF Fits
      <3> QED
        BY <1>5, <3>1
    <2>7. Rest(t, d) = Slice(doc, a + (o + 1), e)
      BY <1>1, <2>2, SliceOfSlice DEF Rest, o, t
    <2>8. \/ right(two) = None /\ right(LspOf(two)) = None /\ right(TsOf(two)) = None
          \/ right(two) = two /\ right(LspOf(two)) = LspOf(two) /\ right(TsOf(two)) = TsOf(two)
      OBVIOUS
    <2> HIDE DEF left, right
    <2>9. TwoSides(a, e, d, left(one), right(two), left(LspOf(one)), right(LspOf(two)),
                   left(TsOf(one)), right(TsOf(two)))
      BY <1>7, <2>2, <2>3, <2>4, <2>5, <2>6, <2>7, <2>8 DEF TwoSides, t
    <2> QED
      BY <2>9
  <1> QED
    BY <1>6, <1>7

\* Each of the two sides is the same stretch in the three kinds.
LEMMA BothSidesFit ==
    ASSUME doc \in Document, NEW e \in 0..Len(doc), NEW a \in 0..e, NEW d,
           NEW b1, NEW b2, NEW l1, NEW l2, NEW t1, NEW t2,
           TwoSides(a, e, d, b1, b2, l1, l2, t1, t2)
    PROVE  Fits(b1, l1, t1) /\ Fits(b2, l2, t2)
  <1>1. e \in Nat /\ Len(doc) \in Nat
    BY DEF Document
  <1>2. CASE b2 = None /\ l2 = None /\ t2 = None
    BY <1>2 DEF TwoSides, Fits
  <1>3. CASE \E from \in 0..e : b2 = Span(from, e) /\ l2 = LspOf(b2) /\ t2 = TsOf(b2)
    <2>1. PICK from \in 0..e : b2 = Span(from, e) /\ l2 = LspOf(b2) /\ t2 = TsOf(b2)
      BY <1>3
    <2>2. from \in 0..Len(doc) /\ e \in 0..Len(doc) /\ from <= e
      BY <1>1
    <2>3. Fits(b2, l2, t2)
      BY <2>1, <2>2 DEF Fits
    <2> QED
      BY <2>3 DEF TwoSides
  <1> QED
    BY <1>2, <1>3 DEF TwoSides

LEMMA DelimitsAgree ==
    ASSUME doc \in Document, NEW e \in 0..Len(doc), NEW a \in 0..e, bytes = Span(a, e),
           lsp = LspOf(bytes), ts = TsOf(bytes),
           NEW d, NEW k \in 1..2
    PROVE  Agree(Part(BytesDelimited(bytes, Text, d), k), Part(LspDelimitedInBytes(lsp, Text, d), k),
                 Part(TsDelimited(ts, Text, d), k))
  <1>1. Text = Slice(doc, a, e)
    BY PlacesOf
  <1>2. PICK b1, b2, l1, l2, t1, t2 : TwoSides(a, e, d, b1, b2, l1, l2, t1, t2)
    BY <1>1, DelimitedAgrees
  <1>3. Fits(b1, l1, t1) /\ Fits(b2, l2, t2)
    BY <1>2, BothSidesFit
  <1>4. /\ BytesDelimited(bytes, Text, d) = Ok(<<b1, b2>>)
        /\ LspDelimitedInBytes(lsp, Text, d) = Ok(<<l1, l2>>)
        /\ TsDelimited(ts, Text, d) = Ok(<<t1, t2>>)
    BY <1>1, <1>2 DEF TwoSides
  <1>5. CASE k = 1
    <2>1. /\ Part(BytesDelimited(bytes, Text, d), k) = b1
          /\ Part(LspDelimitedInBytes(lsp, Text, d), k) = l1
          /\ Part(TsDelimited(ts, Text, d), k) = t1
      BY <1>4, <1>5, Results
    <2> QED
      BY <1>3, <2>1, FitsAgrees
  <1>6. CASE k = 2
    <2>1. /\ Part(BytesDelimited(bytes, Text, d), k) = b2
          /\ Part(LspDelimitedInBytes(lsp, Text, d), k) = l2
          /\ Part(TsDelimited(ts, Text, d), k) = t2
      BY <1>4, <1>6, Results
    <2> QED
      BY <1>3, <2>1, FitsAgrees
  <1> QED
    BY <1>5, <1>6

LEMMA ThreeParts ==
    ASSUME NEW x, NEW y, NEW z
    PROVE  <<x>> \o <<y, z>> = <<x, y, z>> /\ Append(<<x, y>>, z) = <<x, y, z>>
  <1>1. <<x>> \in Seq({x, y, z}) /\ <<y, z>> \in Seq({x, y, z}) /\ <<x, y>> \in Seq({x, y, z})
    OBVIOUS
  <1>2. <<x, y, z>> \in Seq({x, y, z})
    OBVIOUS
  <1>3. Append(<<x, y>>, z) = <<x, y, z>>
    <2>1. /\ Append(<<x, y>>, z) \in Seq({x, y, z}) /\ Len(Append(<<x, y>>, z)) = 3
          /\ \A i \in 1..3 : Append(<<x, y>>, z)[i] = <<x, y, z>>[i]
      BY <1>1
    <2> QED
      BY <1>2, <2>1, SeqEqual
  <1>4. <<x>> \o <<y, z>> = <<x, y, z>>
    <2>1. /\ <<x>> \o <<y, z>> \in Seq({x, y, z}) /\ Len(<<x>> \o <<y, z>>) = 3
          /\ \A i \in 1..3 : (<<x>> \o <<y, z>>)[i] = <<x, y, z>>[i]
      BY <1>1
    <2> QED
      BY <1>2, <2>1, SeqEqual
  <1> QED
    BY <1>3, <1>4

\* Delimited once, and what follows the delimiter once more.
LEMMA BytesTriSteps ==
    ASSUME NEW r, NEW t, NEW d, NEW f, NEW x, NEW y,
           ~IsErr(BytesDelimited(r, t, d)), BytesDelimited(r, t, d).parts = <<x, y>>
    PROVE  BytesDelimitedTri(r, t, d, f) =
              IF y = None THEN Ok(Append(<<x, y>>, None))
              ELSE IF IsErr(BytesDelimited(y, Rest(t, d), f)) THEN BytesDelimited(y, Rest(t, d), f)
              ELSE Ok(<<x>> \o BytesDelimited(y, Rest(t, d), f).parts)
  <1> DEFINE once == BytesDelimited(r, t, d)
  <1>1. BytesDelimitedTri(r, t, d, f) =
           IF IsErr(once) THEN once
           ELSE IF once.parts[2] = None THEN Ok(Append(once.parts, None))
           ELSE IF IsErr(BytesDelimited(once.parts[2], Rest(t, d), f))
                THEN BytesDelimited(once.parts[2], Rest(t, d), f)
           ELSE Ok(<<once.parts[1]>> \o BytesDelimited(once.parts[2], Rest(t, d), f).parts)
    BY Zenon DEF BytesDelimitedTri, Tri
  <1>2. ~IsErr(once) /\ once.parts = <<x, y>> /\ once.parts[1] = x /\ once.parts[2] = y
    OBVIOUS
  <1> HIDE DEF once
  <1> QED
    BY <1>1, <1>2, Zenon

LEMMA LspTriSteps ==
    ASSUME NEW r, NEW t, NEW d, NEW f, NEW x, NEW y,
           ~IsErr(LspDelimitedInBytes(r, t, d)), LspDelimitedInBytes(r, t, d).parts = <<x, y>>
    PROVE  LspTriInBytes(r, t, d, f) =
              IF y = None THEN Ok(Append(<<x, y>>, None))
              ELSE IF IsErr(LspDelimitedInBytes(y, Rest(t, d), f)) THEN LspDelimitedInBytes(y, Rest(t, d), f)
              ELSE Ok(<<x>> \o LspDelimitedInBytes(y, Rest(t, d), f).parts)
  <1> DEFINE once == LspDelimitedInBytes(r, t, d)
  <1>1. LspTriInBytes(r, t, d, f) =
           IF IsErr(once) THEN once
           ELSE IF once.parts[2] = None THEN Ok(Append(once.parts, None))
           ELSE IF IsErr(LspDelimitedInBytes(once.parts[2], Rest(t, d), f))
                THEN LspDelimitedInBytes(once.parts[2], Rest(t, d), f)
           ELSE Ok(<<once.parts[1]>> \o LspDelimitedInBytes(once.parts[2], Rest(t, d), f).parts)
    BY Zenon DEF LspTriInBytes, Tri
  <1>2. ~IsErr(once) /\ once.parts = <<x, y>> /\ once.parts[1] = x /\ once.parts[2] = y
    OBVIOUS
  <1> HIDE DEF once
  <1> QED
    BY <1>1, <1>2, Zenon

LEMMA TsTriSteps ==
    ASSUME NEW r, NEW t, NEW d, NEW f, NEW x, NEW y,
           ~IsErr(TsDelimited(r, t, d)), TsDelimited(r, t, d).parts = <<x, y>>
    PROVE  TsDelimitedTri(r, t, d, f) =
              IF y = None THEN Ok(Append(<<x, y>>, None))
              ELSE IF IsErr(TsDelimited(y, Rest(t, d), f)) THEN TsDelimited(y, Rest(t, d), f)
              ELSE Ok(<<x>> \o TsDelimited(y, Rest(t, d), f).parts)
  <1> DEFINE once == TsDelimited(r, t, d)
  <1>1. TsDelimitedTri(r, t, d, f) =
           IF IsErr(once) THEN once
           ELSE IF once.parts[2] = None THEN Ok(Append(once.parts, None))
           ELSE IF IsErr(TsDelimited(once.parts[2], Rest(t, d), f))
                THEN TsDelimited(once.parts[2], Rest(t, d), f)
           ELSE Ok(<<once.parts[1]>> \o TsDelimited(once.parts[2], Rest(t, d), f).parts)
    BY Zenon DEF TsDelimitedTri, Tri
  <1>2. ~IsErr(once) /\ once.parts = <<x, y>> /\ once.parts[1] = x /\ once.parts[2] = y
    OBVIOUS
  <1> HIDE DEF once
  <1> QED
    BY <1>1, <1>2, Zenon

LEMMA DelimitsTwiceAgree ==
    ASSUME doc \in Document, NEW e \in 0..Len(doc), NEW a \in 0..e, bytes = Span(a, e),
           lsp = LspOf(bytes), ts = TsOf(bytes),
           NEW d, NEW f, NEW k \in 1..3
    PROVE  Agree(Part(BytesDelimitedTri(bytes, Text, d, f), k),
                 Part(LspTriInBytes(lsp, Text, d, f), k),
                 Part(TsDelimitedTri(ts, Text, d, f), k))
  <1>1. Text = Slice(doc, a, e)
    BY PlacesOf
  <1>2. PICK b1, b2, l1, l2, t1, t2 : TwoSides(a, e, d, b1, b2, l1, l2, t1, t2)
    BY <1>1, DelimitedAgrees
  <1>3. Fits(b1, l1, t1)
    BY <1>2, BothSidesFit
  <1>4. /\ BytesDelimited(bytes, Text, d) = Ok(<<b1, b2>>)
        /\ LspDelimitedInBytes(lsp, Text, d) = Ok(<<l1, l2>>)
        /\ TsDelimited(ts, Text, d) = Ok(<<t1, t2>>)
    BY <1>1, <1>2 DEF TwoSides
  <1>a. /\ BytesDelimitedTri(bytes, Text, d, f) =
              IF b2 = None THEN Ok(Append(<<b1, b2>>, None))
              ELSE IF IsErr(BytesDelimited(b2, Rest(Text, d), f)) THEN BytesDelimited(b2, Rest(Text, d), f)
              ELSE Ok(<<b1>> \o BytesDelimited(b2, Rest(Text, d), f).parts)
        /\ LspTriInBytes(lsp, Text, d, f) =
              IF l2 = None THEN Ok(Append(<<l1, l2>>, None))
              ELSE IF IsErr(LspDelimitedInBytes(l2, Rest(Text, d), f))
                   THEN LspDelimitedInBytes(l2, Rest(Text, d), f)
              ELSE Ok(<<l1>> \o LspDelimitedInBytes(l2, Rest(Text, d), f).parts)
        /\ TsDelimitedTri(ts, Text, d, f) =
              IF t2 = None THEN Ok(Append(<<t1, t2>>, None))
              ELSE IF IsErr(TsDelimited(t2, Rest(Text, d), f)) THEN TsDelimited(t2, Rest(Text, d), f)
              ELSE Ok(<<t1>> \o TsDelimited(t2, Rest(Text, d), f).parts)
    <2>1. /\ ~IsErr(BytesDelimited(bytes, Text, d)) /\ BytesDelimited(bytes, Text, d).parts = <<b1, b2>>
          /\ ~IsErr(LspDelimitedInBytes(lsp, Text, d)) /\ LspDelimitedInBytes(lsp, Text, d).parts = <<l1, l2>>
          /\ ~IsErr(TsDelimited(ts, Text, d)) /\ TsDelimited(ts, Text, d).parts = <<t1, t2>>
      BY <1>4, Results
    <2> QED
      BY <2>1, BytesTriSteps, LspTriSteps, TsTriSteps
  <1>5. \E c1, c2, m1, m2, u1, u2 :
           /\ BytesDelimitedTri(bytes, Text, d, f) = Ok(<<b1, c1, c2>>)
           /\ LspTriInBytes(lsp, Text, d, f) = Ok(<<l1, m1, m2>>)
           /\ TsDelimitedTri(ts, Text, d, f) = Ok(<<t1, u1, u2>>)
           /\ Fits(c1, m1, u1) /\ Fits(c2, m2, u2)
    <2>1. CASE b2 = None /\ l2 = None /\ t2 = None
      <3>1. /\ BytesDelimitedTri(bytes, Text, d, f) = Ok(<<b1, None, None>>)
            /\ LspTriInBytes(lsp, Text, d, f) = Ok(<<l1, None, None>>)
            /\ TsDelimitedTri(ts, Text, d, f) = Ok(<<t1, None, None>>)
        BY <1>a, <2>1, ThreeParts
      <3>2. Fits(None, None, None)
        BY DEF Fits
      <3> QED
        BY <3>1, <3>2
    <2>2. CASE /\ Finds(Text, d)
               /\ \E from \in 0..e : /\ b2 = Span(from, e) /\ l2 = LspOf(b2) /\ t2 = TsOf(b2)
                                     /\ Rest(Text, d) = Slice(doc, from, e)
      <3>1. PICK from \in 0..e : /\ b2 = Span(from, e) /\ l2 = LspOf(b2) /\ t2 = TsOf(b2)
                                 /\ Rest(Text, d) = Slice(doc, from, e)
        BY <2>2
      <3>3. PICK c1, c2, m1, m2, u1, u2 : TwoSides(from, e, f, c1, c2, m1, m2, u1, u2)
        BY DelimitedAgrees
      <3>4. Fits(c1, m1, u1) /\ Fits(c2, m2, u2)
        BY <3>3, BothSidesFit
      <3>5. /\ BytesDelimited(b2, Rest(Text, d), f) = Ok(<<c1, c2>>)
            /\ LspDelimitedInBytes(l2, Rest(Text, d), f) = Ok(<<m1, m2>>)
            /\ TsDelimited(t2, Rest(Text, d), f) = Ok(<<u1, u2>>)
        BY <3>1, <3>3 DEF TwoSides
      <3>a. /\ ~IsErr(BytesDelimited(b2, Rest(Text, d), f))
            /\ BytesDelimited(b2, Rest(Text, d), f).parts = <<c1, c2>>
            /\ ~IsErr(LspDelimitedInBytes(l2, Rest(Text, d), f))
            /\ LspDelimitedInBytes(l2, Rest(Text, d), f).parts = <<m1, m2>>
            /\ ~IsErr(TsDelimited(t2, Rest(Text, d), f))
            /\ TsDelimited(t2, Rest(Text, d), f).parts = <<u1, u2>>
        BY <3>5, Results
      <3>6. b2 # None /\ l2 # None /\ t2 # None
        BY <3>1, Results
      <3>7. BytesDelimitedTri(bytes, Text, d, f) = Ok(<<b1, c1, c2>>)
        BY <1>a, <3>a, <3>6, ThreeParts
      <3>8. LspTriInBytes(lsp, Text, d, f) = Ok(<<l1, m1, m2>>)
        BY <1>a, <3>a, <3>6, ThreeParts
      <3>9. TsDelimitedTri(ts, Text, d, f) = Ok(<<t1, u1, u2>>)
        BY <1>a, <3>a, <3>6, ThreeParts
      <3> QED
        BY <3>4, <3>7, <3>8, <3>9
    <2> QED
      BY <1>1, <1>2, <2>1, <2>2 DEF TwoSides
  <1>6. PICK c1, c2, m1, m2, u1, u2 :
           /\ BytesDelimitedTri(bytes, Text, d, f) = Ok(<<b1, c1, c2>>)
           /\ LspTriInBytes(lsp, Text, d, f) = Ok(<<l1, m1, m2>>)
           /\ TsDelimitedTri(ts, Text, d, f) = Ok(<<t1, u1, u2>>)
           /\ Fits(c1, m1, u1) /\ Fits(c2, m2, u2)
    BY <1>5
  <1>7. /\ Part(BytesDelimitedTri(bytes, Text, d, f), k) = <<b1, c1, c2>>[k]
        /\ Part(LspTriInBytes(lsp, Text, d, f), k) = <<l1, m1, m2>>[k]
        /\ Part(TsDelimitedTri(ts, Text, d, f), k) = <<t1, u1, u2>>[k]
    BY <1>6, Results
  <1>8. Fits(<<b1, c1, c2>>[k], <<l1, m1, m2>>[k], <<t1, u1, u2>>[k])
    <2>1. CASE k = 1
      BY <1>3, <2>1
    <2>2. CASE k = 2
      BY <1>6, <2>2
    <2>3. CASE k = 3
      BY <1>6, <2>3
    <2> QED
      BY <2>1, <2>2, <2>3
  <1> QED
    BY <1>7, <1>8, FitsAgrees

-----------------------------------------------------------------------------
(* However a stretch is cut *)

RangesInv == doc \in Document /\ RangesAgree

\* What an operation starts from: the same stretch in the three kinds.
LEMMA ApplicableFacts ==
    ASSUME RangesInv, Applicable
    PROVE  /\ doc \in Document /\ lsp = LspOf(bytes) /\ ts = TsOf(bytes)
           /\ bytes.end \in 0..Len(doc) /\ bytes.start \in 0..bytes.end
           /\ bytes = Span(bytes.start, bytes.end)
  <1>1. /\ bytes \in [start : 0..Len(doc), end : 0..Len(doc)]
        /\ bytes.start <= bytes.end
    BY DEF Applicable, Stretches
  <1>2. Len(doc) \in Nat
    BY DEF RangesInv, Document
  <1>3. bytes = Span(bytes.start, bytes.end)
    BY <1>1 DEF Span
  <1>4. bytes # None
    BY <1>3, Results
  <1>5. lsp = LspOf(bytes) /\ ts = TsOf(bytes)
    <2>1. counted /\ ~IsErr(lsp)
      BY DEF Applicable
    <2>2. PositionsAgree /\ TreesAgree
      BY <2>1 DEF RangesInv, RangesAgree
    <2> QED
      BY <1>4, <2>1, <2>2 DEF PositionsAgree, TreesAgree
  <1>6. bytes.end \in 0..Len(doc) /\ bytes.start \in 0..bytes.end
    BY <1>1, <1>2
  <1> QED
    BY <1>3, <1>5, <1>6 DEF RangesInv

LEMMA TextIsDocument ==
    ASSUME RangesInv, Applicable
    PROVE  Text \in Document
  BY ApplicableFacts, SliceFacts DEF Text

\* However a stretch of a document is cut, one cut after another, as bytes, as
\* LSP positions and as a tree-sitter range, the results are the same bytes or
\* are refused by all three; a byte range alone is shrunk across lines, and an
\* LSP range is promised nothing once a delimiter had wider characters before
\* it (every operation of RangeExt, src/text_utils/range_ext).
THEOREM RangesAlwaysAgree == RangesSpec => []RangesAgree
<1>1. RangesInit => RangesInv
  <2> SUFFICES ASSUME RangesInit
               PROVE  RangesInv
    OBVIOUS
  <2>1. doc \in Document
    BY RangesAssumption DEF RangesInit, Document
  <2>2. bytes = Span(bytes.start, bytes.end)
    BY DEF RangesInit, Stretches, Span
  <2>3. Agree(bytes, lsp, ts)
    BY <2>2, SpanAgrees DEF RangesInit
  <2> QED
    BY <2>1, <2>3 DEF RangesInv, RangesAgree, TreesAgree, PositionsAgree, Agree
<1>2. RangesInv /\ [RangesNext]_rangeVars => RangesInv'
  <2> SUFFICES ASSUME RangesInv, [RangesNext]_rangeVars
               PROVE  RangesInv'
    OBVIOUS
  <2>1. ASSUME UNCHANGED doc, NEW l, Agree(bytes', l, ts'), counted' => lsp' = l
        PROVE  RangesInv'
    <3>1. LspOf(bytes)' = LspOf(bytes') /\ TsOf(bytes)' = TsOf(bytes')
      BY <2>1 DEF LspOf, TsOf
    <3>2. TreesAgree'
      BY <2>1, <3>1 DEF Agree, TreesAgree
    <3>3. counted' => PositionsAgree'
      BY <2>1, <3>1 DEF Agree, PositionsAgree
    <3> QED
      BY <2>1, <3>2, <3>3 DEF RangesInv, RangesAgree
  <2>2. CASE SplitsAt
    <3>1. PICK at \in Places, k \in 1..2 :
             /\ bytes' = Part(BytesSplitAt(bytes, at), k)
             /\ lsp' = Part(LspSplitAt(lsp, PlaceOf(at)), k)
             /\ ts' = Part(TsSplitAt(ts, Text, PlaceOf(at)), k)
             /\ UNCHANGED doc
      BY <2>2 DEF SplitsAt, Answers
    <3>2. Applicable
      BY <2>2 DEF SplitsAt
    <3>3. Agree(bytes', lsp', ts')
      BY <3>1, <3>2, ApplicableFacts, SplitsAgree
    <3> QED
      BY <2>1, <3>1, <3>3
  <2>3. CASE Shrinks
    <3>1. PICK left \in Amounts, right \in Amounts :
             /\ bytes' = Part(BytesShrink(bytes, left, right), 1)
             /\ lsp' = Part(LspShrink(lsp, left, right), 1)
             /\ ts' = Part(TsShrink(ts, left, right), 1)
             /\ UNCHANGED doc
      BY <2>3 DEF Shrinks, Answers
    <3>2. Applicable /\ left \in Nat /\ right \in Nat
      BY <2>3, RangesAssumption DEF Shrinks
    <3>3. Agree(bytes', lsp', ts')
      BY <3>1, <3>2, ApplicableFacts, ShrinksAgree
    <3> QED
      BY <2>1, <3>1, <3>3
  <2>4. CASE Subs
    <3>1. PICK from \in Places, to \in Places :
             /\ bytes' = Part(BytesSub(bytes, from, to), 1)
             /\ lsp' = Part(LspSub(lsp, PlaceOf(from), PlaceOf(to)), 1)
             /\ ts' = Part(TsSub(ts, Text, PlaceOf(from), PlaceOf(to)), 1)
             /\ UNCHANGED doc
      BY <2>4 DEF Subs, Answers
    <3>2. Applicable
      BY <2>4 DEF Subs
    <3>3. Agree(bytes', lsp', ts')
      BY <3>1, <3>2, ApplicableFacts, SubsAgree
    <3> QED
      BY <2>1, <3>1, <3>3
  <2>5. CASE Delimits
    <3>1. PICK d \in {"slash", "newline"}, k \in 1..2 :
             /\ bytes' = Part(BytesDelimited(bytes, Text, d), k)
             /\ lsp' = Part(LspDelimited(lsp, Text, d), k)
             /\ ts' = Part(TsDelimited(ts, Text, d), k)
             /\ UNCHANGED doc
             /\ counted' = CountedInBytes(Text, d)
      BY <2>5 DEF Delimits, Answers
    <3>2. Applicable
      BY <2>5 DEF Delimits
    <3>3. Agree(bytes', Part(LspDelimitedInBytes(lsp, Text, d), k), ts')
      BY <3>1, <3>2, ApplicableFacts, DelimitsAgree
    <3>4. counted' => lsp' = Part(LspDelimitedInBytes(lsp, Text, d), k)
      BY <3>1, <3>2, ApplicableFacts, TextIsDocument, InBytes
    <3> QED
      BY <2>1, <3>1, <3>3, <3>4
  <2>6. CASE DelimitsTwice
    <3>1. PICK d \in {"slash", "newline"}, f \in {"slash", "newline"}, k \in 1..3 :
             /\ bytes' = Part(BytesDelimitedTri(bytes, Text, d, f), k)
             /\ lsp' = Part(LspDelimitedTri(lsp, Text, d, f), k)
             /\ ts' = Part(TsDelimitedTri(ts, Text, d, f), k)
             /\ UNCHANGED doc
             /\ counted' = /\ CountedInBytes(Text, d)
                           /\ Finds(Text, d) => CountedInBytes(Rest(Text, d), f)
      BY <2>6 DEF DelimitsTwice, Answers
    <3>2. Applicable
      BY <2>6 DEF DelimitsTwice
    <3>3. Agree(bytes', Part(LspTriInBytes(lsp, Text, d, f), k), ts')
      BY <3>1, <3>2, ApplicableFacts, DelimitsTwiceAgree
    <3>4. counted' => lsp' = Part(LspTriInBytes(lsp, Text, d, f), k)
      BY <3>1, <3>2, ApplicableFacts, TextIsDocument, TriInBytes
    <3> QED
      BY <2>1, <3>1, <3>3, <3>4
  <2>7. CASE RefusesDelimiter
    <3>1. /\ bytes' = Err("DelimiterNotSingleByte") /\ lsp' = Err("DelimiterNotSingleByte")
          /\ ts' = Err("DelimiterNotSingleByte") /\ UNCHANGED doc
      BY <2>7, Results DEF RefusesDelimiter, Answers
    <3> QED
      BY <2>1, <3>1, RefusalAgrees
  <2>8. CASE UNCHANGED rangeVars
    BY <2>8 DEF RangesInv, RangesAgree, TreesAgree, PositionsAgree, rangeVars, LspOf, TsOf
  <2> QED
    BY <2>2, <2>3, <2>4, <2>5, <2>6, <2>7, <2>8 DEF RangesNext
<1>3. RangesInv => RangesAgree
  BY DEF RangesInv
<1> QED
  BY <1>1, <1>2, <1>3, PTL DEF RangesSpec

-----------------------------------------------------------------------------
(* Numbers *)

LEMMA LeastElement ==
    ASSUME NEW T \in SUBSET Nat, T # {}
    PROVE  \E m \in T : \A k \in T : m <= k
  <1> DEFINE R == {pair \in Nat \X Nat : pair[1] < pair[2]}
  <1>1. IsWellFoundedOn(R, Nat)
    BY NatLessThanWellFounded, Zenon DEF OpToRel
  <1> HIDE DEF R
  <1>2. PICK m \in T : \A k \in T : <<k, m>> \notin R
    BY <1>1, WFMin
  <1>3. \A k \in T : ~(k < m)
    BY <1>2 DEF R
  <1> QED
    BY <1>3

-----------------------------------------------------------------------------
(* The text of a reader *)

Byte   == 0..255
String == Seq(Byte)
Chunks == {s \in Seq(String) : \A i \in 1..Len(s) : s[i] # << >>}

\* The text up to each chunk.
IsTextUpto(s, p) ==
    /\ p \in [0..Len(s) -> String]
    /\ p[0] = << >>
    /\ \A i \in 1..Len(s) : p[i] = p[i - 1] \o s[i]

TextUpto(s) == CHOOSE p : IsTextUpto(s, p)

LEMMA TextsOfChunks ==
    ASSUME NEW s \in Chunks
    PROVE  IsTextUpto(s, TextUpto(s))
  <1> DEFINE Upto(n, p) == /\ p \in [0..n -> String]
                           /\ p[0] = << >>
                           /\ \A i \in 1..n : p[i] = p[i - 1] \o s[i]
             T == {n \in 0..Len(s) : ~\E p : Upto(n, p)}
  <1>1. s \in Seq(String) /\ Len(s) \in Nat
    BY DEF Chunks
  <1>2. T = {}
    <2> SUFFICES ASSUME T # {}
                 PROVE  FALSE
      OBVIOUS
    <2> HIDE DEF Upto
    <2>1. T \in SUBSET Nat
      BY <1>1
    <2>2. PICK n \in T : \A k \in T : n <= k
      BY <2>1, LeastElement
    <2>3. n \in 0..Len(s) /\ n \in Nat /\ ~\E p : Upto(n, p)
      BY <1>1, <2>2
    <2>4. CASE n = 0
      <3> DEFINE p == [i \in 0..0 |-> << >>]
      <3>1. << >> \in String
        BY DEF String
      <3>2. p \in [0..0 -> String] /\ p[0] = << >>
        BY <3>1
      <3>3. Upto(n, p)
        BY <2>4, <3>2 DEF Upto
      <3> HIDE DEF p
      <3> QED
        BY <2>3, <3>3
    <2>5. CASE n # 0
      <3>1. n - 1 \in 0..Len(s) /\ n - 1 \in Nat /\ ~(n <= n - 1) /\ n \in 1..Len(s)
        BY <1>1, <2>3, <2>5
      <3>2. n - 1 \notin T
        BY <2>2, <3>1
      <3>3. PICK p : Upto(n - 1, p)
        BY <3>1, <3>2
      <3> DEFINE q == [i \in 0..n |-> IF i = n THEN p[n - 1] \o s[n] ELSE p[i]]
      <3>4. p[n - 1] \in String /\ s[n] \in String
        BY <1>1, <3>1, <3>3 DEF Upto
      <3>5. p[n - 1] \o s[n] \in String
        BY <3>4, ConcatProperties DEF String
      <3>6. q \in [0..n -> String]
        BY <2>3, <3>3, <3>5 DEF Upto
      <3>7. q[0] = << >>
        BY <2>3, <2>5, <3>3 DEF Upto
      <3>8. \A i \in 1..n : q[i] = q[i - 1] \o s[i]
        <4>1. TAKE i \in 1..n
        <4>2. CASE i = n
          BY <2>3, <3>1, <4>2
        <4>3. CASE i # n
          <5>1. i \in 1..n - 1 /\ i - 1 \in 0..n /\ i - 1 # n /\ i \in 0..n
            BY <2>3, <4>3
          <5>2. q[i] = p[i] /\ q[i - 1] = p[i - 1]
            BY <4>3, <5>1
          <5> QED
            BY <3>3, <5>1, <5>2 DEF Upto
        <4> QED
          BY <4>2, <4>3
      <3>9. Upto(n, q)
        BY <3>6, <3>7, <3>8 DEF Upto
      <3> HIDE DEF q
      <3> QED
        BY <2>3, <3>9
    <2> QED
      BY <2>4, <2>5
  <1>3. \E p : Upto(Len(s), p)
    <2> HIDE DEF Upto
    <2>1. Len(s) \in 0..Len(s)
      BY <1>1
    <2> QED
      BY <1>2, <2>1
  <1>4. \E p : IsTextUpto(s, p)
    BY <1>3, Zenon DEF IsTextUpto
  <1> QED
    BY <1>4, Zenon DEF TextUpto

\* The last of them is the whole text.
LEMMA FlattenIsLastText ==
    ASSUME NEW s \in Chunks
    PROVE  FlattenSeq(s) = TextUpto(s)[Len(s)]
  <1> DEFINE p == TextUpto(s)
             N == Len(s)
             Eq(h) == h = [i \in 1..N |-> IF i = 1 THEN s[i] ELSE h[i - 1] \o s[i]]
             f == CHOOSE h : Eq(h)
  <1>a. /\ p \in [0..N -> String] /\ p[0] = << >> /\ \A i \in 1..N : p[i] = p[i - 1] \o s[i]
    BY TextsOfChunks, Zenon DEF IsTextUpto
  <1>b. s \in Seq(String) /\ N \in Nat
    BY DEF Chunks
  <1>1. /\ p \in [0..N -> String] /\ p[0] = << >> /\ \A i \in 1..N : p[i] = p[i - 1] \o s[i]
        /\ s \in Seq(String) /\ N \in Nat
    BY <1>a, <1>b
  <1> HIDE DEF p
  <1>2. CASE N = 0
    <2>1. s = << >>
      BY <1>1, <1>2, EmptySeq
    <2>2. FlattenSeq(s) = s
      BY <1>2, Zenon DEF FlattenSeq
    <2> QED
      BY <1>1, <1>2, <2>1, <2>2 DEF p
  <1>3. CASE N # 0
    <2> DEFINE g == [i \in 1..N |-> p[i]]
    <2>1. \A i \in 1..N : p[i] = IF i = 1 THEN s[i] ELSE g[i - 1] \o s[i]
      <3>1. TAKE i \in 1..N
      <3>2. CASE i = 1
        <4>1. s[1] \in Seq(Byte)
          BY <1>1, <3>2 DEF String
        <4>2. << >> \o s[1] = s[1]
          BY <4>1, ConcatEmptySeq
        <4>3. p[1] = p[0] \o s[1]
          BY <1>1, <3>2
        <4> QED
          BY <1>1, <3>2, <4>2, <4>3
      <3>3. CASE i # 1
        <4>1. i - 1 \in 1..N
          BY <1>1, <3>3
        <4> QED
          BY <1>1, <3>3, <4>1
      <3> QED
        BY <3>2, <3>3
    <2>2. Eq(g)
      BY <2>1
    <2> HIDE DEF g
    <2>3. Eq(f)
      <3> HIDE DEF Eq
      <3> QED
        BY <2>2, Zenon
    <2> HIDE DEF f
    <2>4. f[1] = s[1] /\ \A i \in 2..N : f[i] = f[i - 1] \o s[i]
      <3>1. \A i \in 1..N : f[i] = IF i = 1 THEN s[i] ELSE f[i - 1] \o s[i]
        BY <2>3
      <3>2. 1 \in 1..N /\ \A i \in 2..N : i \in 1..N /\ i # 1
        BY <1>1, <1>3
      <3> HIDE DEF Eq
      <3> QED
        BY <3>1, <3>2, Zenon
    <2> DEFINE T == {i \in 1..N : f[i] # p[i]}
    <2>5. T = {}
      <3> SUFFICES ASSUME T # {}
                   PROVE  FALSE
        OBVIOUS
      <3>1. T \in SUBSET Nat
        OBVIOUS
      <3>2. PICK i \in T : \A k \in T : i <= k
        BY <3>1, LeastElement
      <3>3. p[1] = s[1]
        BY <1>1, <1>3, <2>1
      <3>4. i \in 1..N /\ i # 1 /\ f[i] # p[i]
        BY <2>4, <3>2, <3>3
      <3>5. i - 1 \in 1..N /\ ~(i <= i - 1) /\ i \in 2..N
        BY <1>1, <3>4
      <3>6. f[i - 1] = p[i - 1]
        BY <3>2, <3>5
      <3> QED
        BY <1>1, <2>4, <3>4, <3>5, <3>6
    <2>6. N \in 1..N
      BY <1>1, <1>3
    <2>7. f[N] = p[N]
      BY <2>5, <2>6
    <2>8. FlattenSeq(s) = f[N]
      BY <1>3, Zenon DEF FlattenSeq, f
    <2> QED
      BY <2>7, <2>8 DEF p
  <1> QED
    BY <1>2, <1>3

\* One turn of the loop of read.
Turn(reader, size, r) ==
    LET room == size - (Len(r.bytes) - Len(reader.bytes))
    IN  IF room = 0 \/ (r.current = << >> /\ r.chunks = << >>) THEN r ELSE Copied(r, room)

\* read takes its turns one after another.
LEMMA FilledTurns ==
    ASSUME NEW reader, NEW size, Len(reader.chunks) \in Nat
    PROVE  \E g : /\ g[0] = reader
                  /\ \A n \in 1..Len(reader.chunks) + 1 : g[n] = Turn(reader, size, g[n - 1])
                  /\ g[Len(reader.chunks) + 1] = Filled(reader, size)
  <1> DEFINE N == Len(reader.chunks) + 1
             Eq(m, h) == h = [n \in 0..m |-> IF n = 0 THEN reader ELSE Turn(reader, size, h[n - 1])]
             T == {m \in 0..N : ~\E h : Eq(m, h)}
  <1>1. N \in Nat
    OBVIOUS
  <1> HIDE DEF N
  <1>2. T = {}
    <2> SUFFICES ASSUME T # {}
                 PROVE  FALSE
      OBVIOUS
    <2> HIDE DEF Eq
    <2>1. T \in SUBSET Nat
      BY <1>1
    <2>2. PICK m \in T : \A k \in T : m <= k
      BY <2>1, LeastElement
    <2>3. m \in 0..N /\ m \in Nat /\ ~\E h : Eq(m, h)
      BY <1>1, <2>2
    <2>4. CASE m = 0
      <3> DEFINE h == [n \in 0..0 |-> reader]
      <3>1. Eq(0, h)
        BY DEF Eq
      <3> HIDE DEF h
      <3> QED
        BY <2>3, <2>4, <3>1
    <2>5. CASE m # 0
      <3>1. m - 1 \in 0..N /\ m - 1 \in Nat /\ ~(m <= m - 1)
        BY <1>1, <2>3, <2>5
      <3>2. m - 1 \notin T
        BY <2>2, <3>1
      <3>3. PICK h : Eq(m - 1, h)
        BY <3>1, <3>2
      <3> DEFINE step(n, x) == IF n = 0 THEN reader ELSE Turn(reader, size, x)
                 q == [n \in 0..m |-> IF n = m THEN Turn(reader, size, h[m - 1]) ELSE h[n]]
      <3>4. h = [n \in 0..m - 1 |-> step(n, h[n - 1])]
        BY <3>3 DEF Eq
      <3> HIDE DEF step
      <3>5. \A n \in 0..m : q[n] = step(n, q[n - 1])
        <4>1. TAKE n \in 0..m
        <4>2. CASE n = m
          <5>1. q[m] = Turn(reader, size, h[m - 1]) /\ q[m - 1] = h[m - 1]
            BY <2>3, <2>5
          <5> QED
            BY <2>5, <4>2, <5>1 DEF step
        <4>3. CASE n # m
          <5>1. n \in 0..m - 1 /\ n \in 0..m
            BY <2>3, <4>3
          <5>2. q[n] = h[n] /\ h[n] = step(n, h[n - 1])
            BY <3>4, <4>3, <5>1
          <5>3. n # 0 => q[n - 1] = h[n - 1]
            BY <2>3, <5>1
          <5> QED
            BY <5>2, <5>3 DEF step
        <4> QED
          BY <4>2, <4>3
      <3>6. q = [n \in 0..m |-> step(n, q[n - 1])]
        BY <3>5
      <3>7. Eq(m, q)
        BY <3>6 DEF Eq, step
      <3> HIDE DEF q
      <3> QED
        BY <2>3, <3>7
    <2> QED
      BY <2>4, <2>5
  <1> DEFINE g == CHOOSE h : Eq(N, h)
  <1>3. Eq(N, g)
    <2> HIDE DEF Eq
    <2>1. N \in 0..N
      BY <1>1
    <2>2. \E h : Eq(N, h)
      BY <1>2, <2>1
    <2> QED
      BY <2>2, Zenon
  <1>4. Filled(reader, size) = g[N]
    BY Zenon DEF Filled, Turn, N
  <1> HIDE DEF g
  <1>5. \A n \in 0..N : g[n] = IF n = 0 THEN reader ELSE Turn(reader, size, g[n - 1])
    BY <1>3
  <1>6. g[0] = reader
    <2>1. 0 \in 0..N
      BY <1>1
    <2> QED
      BY <1>5, <2>1
  <1>7. \A n \in 1..N : g[n] = Turn(reader, size, g[n - 1])
    <2>1. \A n \in 1..N : n \in 0..N /\ n # 0
      BY <1>1
    <2> HIDE DEF Eq
    <2> QED
      BY <1>5, <2>1
  <1> QED
    BY <1>4, <1>6, <1>7 DEF N

\* A call, field by field.
Call(a1, a2, a3, a4, a5, a6, a7, a8, a9) ==
    [at |-> a1, question |-> a2, document |-> a3, frames |-> a4, chunks |-> a5,
     current |-> a6, offset |-> a7, bytes |-> a8, result |-> a9]

IsCall(r) == \E a1, a2, a3, a4, a5, a6, a7, a8, a9 : r = Call(a1, a2, a3, a4, a5, a6, a7, a8, a9)

LEMMA CallWith ==
    ASSUME NEW a1, NEW a2, NEW a3, NEW a4, NEW a5, NEW a6, NEW a7, NEW a8, NEW a9, NEW x
    PROVE  /\ [Call(a1, a2, a3, a4, a5, a6, a7, a8, a9) EXCEPT !.at = x] = Call(x, a2, a3, a4, a5, a6, a7, a8, a9)
           /\ [Call(a1, a2, a3, a4, a5, a6, a7, a8, a9) EXCEPT !.frames = x] = Call(a1, a2, a3, x, a5, a6, a7, a8, a9)
           /\ [Call(a1, a2, a3, a4, a5, a6, a7, a8, a9) EXCEPT !.chunks = x] = Call(a1, a2, a3, a4, x, a6, a7, a8, a9)
           /\ [Call(a1, a2, a3, a4, a5, a6, a7, a8, a9) EXCEPT !.current = x] = Call(a1, a2, a3, a4, a5, x, a7, a8, a9)
           /\ [Call(a1, a2, a3, a4, a5, a6, a7, a8, a9) EXCEPT !.offset = x] = Call(a1, a2, a3, a4, a5, a6, x, a8, a9)
           /\ [Call(a1, a2, a3, a4, a5, a6, a7, a8, a9) EXCEPT !.bytes = x] = Call(a1, a2, a3, a4, a5, a6, a7, x, a9)
           /\ [Call(a1, a2, a3, a4, a5, a6, a7, a8, a9) EXCEPT !.result = x] = Call(a1, a2, a3, a4, a5, a6, a7, a8, x)
  BY DEF Call

LEMMA CallFields ==
    ASSUME NEW a1, NEW a2, NEW a3, NEW a4, NEW a5, NEW a6, NEW a7, NEW a8, NEW a9
    PROVE  /\ Call(a1, a2, a3, a4, a5, a6, a7, a8, a9).at = a1
           /\ Call(a1, a2, a3, a4, a5, a6, a7, a8, a9).question = a2
           /\ Call(a1, a2, a3, a4, a5, a6, a7, a8, a9).document = a3
           /\ Call(a1, a2, a3, a4, a5, a6, a7, a8, a9).frames = a4
           /\ Call(a1, a2, a3, a4, a5, a6, a7, a8, a9).chunks = a5
           /\ Call(a1, a2, a3, a4, a5, a6, a7, a8, a9).current = a6
           /\ Call(a1, a2, a3, a4, a5, a6, a7, a8, a9).offset = a7
           /\ Call(a1, a2, a3, a4, a5, a6, a7, a8, a9).bytes = a8
           /\ Call(a1, a2, a3, a4, a5, a6, a7, a8, a9).result = a9
  BY DEF Call

\* A call with its reader somewhere.
Carried(r, chunks, current, offset, carried) ==
    Call(r.at, r.question, r.document, r.frames, chunks, current, offset, carried, r.result)

LEMMA CarriedFields ==
    ASSUME NEW r, NEW chunks, NEW current, NEW offset, NEW carried
    PROVE  /\ IsCall(Carried(r, chunks, current, offset, carried))
           /\ Carried(r, chunks, current, offset, carried).at = r.at
           /\ Carried(r, chunks, current, offset, carried).question = r.question
           /\ Carried(r, chunks, current, offset, carried).document = r.document
           /\ Carried(r, chunks, current, offset, carried).frames = r.frames
           /\ Carried(r, chunks, current, offset, carried).chunks = chunks
           /\ Carried(r, chunks, current, offset, carried).current = current
           /\ Carried(r, chunks, current, offset, carried).offset = offset
           /\ Carried(r, chunks, current, offset, carried).bytes = carried
           /\ Carried(r, chunks, current, offset, carried).result = r.result
  <1>1. IsCall(Carried(r, chunks, current, offset, carried))
    BY Zenon DEF IsCall, Carried
  <1> QED
    BY <1>1, CallFields DEF Carried

\* A reader has handed out the text before the chunks it still has, or that
\* and a part of the chunk it is in.
ReaderAt(r, text) ==
    \E k \in 0..Len(text) :
        /\ r.chunks = SubSeq(text, k + 1, Len(text))
        /\ \/ r.current = << >> /\ r.bytes = TextUpto(text)[k]
           \/ /\ k # 0 /\ r.current = text[k] /\ r.offset \in 1..Len(text[k]) - 1
              /\ r.bytes = TextUpto(text)[k - 1] \o SubSeq(text[k], 1, r.offset)

\* What Copied makes of a chunk, from an offset.
CopiedTo(r, room, chunk, rest, offset) ==
    LET length == IF Len(chunk) - offset < room THEN Len(chunk) - offset ELSE room
    IN  Carried(r, rest, IF offset + length = Len(chunk) THEN << >> ELSE chunk,
                IF offset + length = Len(chunk) THEN 0 ELSE offset + length,
                r.bytes \o SubSeq(chunk, offset + 1, offset + length))

LEMMA CopiedFields ==
    ASSUME NEW r, IsCall(r), NEW room
    PROVE  Copied(r, room) =
              CopiedTo(r, room, IF r.current = << >> THEN Head(r.chunks) ELSE r.current,
                       IF r.current = << >> THEN Tail(r.chunks) ELSE r.chunks,
                       IF r.current = << >> THEN 0 ELSE r.offset)
  <1> DEFINE chunk  == IF r.current = << >> THEN Head(r.chunks) ELSE r.current
             rest   == IF r.current = << >> THEN Tail(r.chunks) ELSE r.chunks
             offset == IF r.current = << >> THEN 0 ELSE r.offset
             length == IF Len(chunk) - offset < room THEN Len(chunk) - offset ELSE room
             now == IF offset + length = Len(chunk) THEN << >> ELSE chunk
             at == IF offset + length = Len(chunk) THEN 0 ELSE offset + length
             more == SubSeq(chunk, offset + 1, offset + length)
  <1>1. Copied(r, room) = [r EXCEPT !.chunks = rest, !.current = now, !.offset = at, !.bytes = @ \o more]
    BY Zenon DEF Copied
  <1>2. CopiedTo(r, room, chunk, rest, offset) = Carried(r, rest, now, at, r.bytes \o more)
    BY Zenon DEF CopiedTo
  <1> HIDE DEF rest, now, at, more
  <1>3. [r EXCEPT !.chunks = rest, !.current = now, !.offset = at, !.bytes = @ \o more] =
           Carried(r, rest, now, at, r.bytes \o more)
    <2> DEFINE carried == r.bytes \o more
    <2> HIDE DEF carried
    <2>1. PICK a1, a2, a3, a4, a5, a6, a7, a8, a9 : r = Call(a1, a2, a3, a4, a5, a6, a7, a8, a9)
      BY DEF IsCall
    <2>2. [r EXCEPT !.chunks = rest, !.current = now, !.offset = at, !.bytes = @ \o more] =
             [[[[r EXCEPT !.chunks = rest] EXCEPT !.current = now] EXCEPT !.offset = at]
                 EXCEPT !.bytes = carried]
      BY DEF carried
    <2> DEFINE r1 == [r EXCEPT !.chunks = rest]
               r2 == [r1 EXCEPT !.current = now]
               r3 == [r2 EXCEPT !.offset = at]
               r4 == [r3 EXCEPT !.bytes = carried]
    <2>3. r4 = Call(a1, a2, a3, a4, rest, now, at, carried, a9)
      <3>a. [Call(a1, a2, a3, a4, a5, a6, a7, a8, a9) EXCEPT !.chunks = rest] =
               Call(a1, a2, a3, a4, rest, a6, a7, a8, a9)
        BY DEF Call
      <3>b. [Call(a1, a2, a3, a4, rest, a6, a7, a8, a9) EXCEPT !.current = now] =
               Call(a1, a2, a3, a4, rest, now, a7, a8, a9)
        BY DEF Call
      <3>c. [Call(a1, a2, a3, a4, rest, now, a7, a8, a9) EXCEPT !.offset = at] =
               Call(a1, a2, a3, a4, rest, now, at, a8, a9)
        BY DEF Call
      <3>d. [Call(a1, a2, a3, a4, rest, now, at, a8, a9) EXCEPT !.bytes = carried] =
               Call(a1, a2, a3, a4, rest, now, at, carried, a9)
        BY DEF Call
      <3>1. r1 = Call(a1, a2, a3, a4, rest, a6, a7, a8, a9)
        BY <2>1, <3>a
      <3> HIDE DEF r1
      <3>2. r2 = Call(a1, a2, a3, a4, rest, now, a7, a8, a9)
        BY <3>1, <3>b
      <3> HIDE DEF r2
      <3>3. r3 = Call(a1, a2, a3, a4, rest, now, at, a8, a9)
        BY <3>2, <3>c
      <3> HIDE DEF r3
      <3> QED
        BY <3>3, <3>d
    <2>4. r.at = a1 /\ r.question = a2 /\ r.document = a3 /\ r.frames = a4 /\ r.result = a9
      BY <2>1, CallFields
    <2> QED
      BY <2>2, <2>3, <2>4 DEF Carried, carried
  <1>4. Copied(r, room) = CopiedTo(r, room, chunk, rest, offset)
    BY <1>1, <1>2, <1>3
  <1> QED
    BY <1>4, Zenon DEF rest

LEMMA BytesAssociate ==
    ASSUME NEW s \in Seq(Byte), NEW t \in Seq(Byte), NEW u \in Seq(Byte)
    PROVE  (s \o t) \o u = s \o (t \o u)
  BY ConcatAssociative, SMTT(30)

\* The text is its prefix, a chunk of it and the rest.
LEMMA ReaderStep ==
    ASSUME NEW text \in Chunks, NEW k \in 1..Len(text), NEW offset \in 0..Len(text[k]) - 1,
           NEW room \in Nat \ {0}, NEW r,
           r.bytes = TextUpto(text)[k - 1] \o SubSeq(text[k], 1, offset)
    PROVE  LET q == CopiedTo(r, room, text[k], SubSeq(text, k + 1, Len(text)), offset)
           IN  /\ ReaderAt(q, text) /\ r.bytes \in String /\ q.bytes \in String
               /\ Len(r.bytes) < Len(q.bytes) /\ Len(q.bytes) <= Len(r.bytes) + room
  <1> DEFINE length == IF Len(text[k]) - offset < room THEN Len(text[k]) - offset ELSE room
             q == CopiedTo(r, room, text[k], SubSeq(text, k + 1, Len(text)), offset)
             chunk == text[k]
             before == TextUpto(text)[k - 1]
             more == SubSeq(chunk, offset + 1, offset + length)
  <1>1. text \in Seq(String) /\ Len(text) \in Nat /\ k \in Nat /\ k - 1 \in 0..Len(text) /\ k \in 0..Len(text)
    BY DEF Chunks
  <1>2. chunk \in Seq(Byte) /\ Len(chunk) \in Nat
    BY <1>1 DEF String
  <1>3. before \in Seq(Byte) /\ TextUpto(text)[k] = before \o chunk
    BY <1>1, TextsOfChunks DEF IsTextUpto, String
  <1>d. /\ q.bytes = r.bytes \o more
        /\ q.chunks = SubSeq(text, k + 1, Len(text))
        /\ q.current = IF offset + length = Len(chunk) THEN << >> ELSE chunk
        /\ q.offset = IF offset + length = Len(chunk) THEN 0 ELSE offset + length
    <2> HIDE DEF more
    <2>1. q = Carried(r, SubSeq(text, k + 1, Len(text)),
                      IF offset + length = Len(chunk) THEN << >> ELSE chunk,
                      IF offset + length = Len(chunk) THEN 0 ELSE offset + length,
                      r.bytes \o more)
      BY Zenon DEF CopiedTo, more
    <2> DEFINE rest == SubSeq(text, k + 1, Len(text))
               now == IF offset + length = Len(chunk) THEN << >> ELSE chunk
               at == IF offset + length = Len(chunk) THEN 0 ELSE offset + length
               carried == r.bytes \o more
    <2>2. q = Carried(r, rest, now, at, carried)
      BY <2>1
    <2> HIDE DEF q, rest, now, at, carried
    <2>3. q.bytes = carried /\ q.chunks = rest /\ q.current = now /\ q.offset = at
      BY <2>2, CarriedFields
    <2> QED
      BY <2>3 DEF rest, now, at, carried
  <1> HIDE DEF chunk, before, q
  <1>4. /\ offset \in Nat /\ length \in Nat /\ length >= 1 /\ length <= room
        /\ offset + length <= Len(chunk) /\ offset < Len(chunk)
    BY <1>2 DEF chunk
  <1>a. \A i \in 1..Len(chunk) : chunk[i] \in Byte
    BY <1>2, ElementOfSeq
  <1> HIDE DEF length
  <1>5. SubSeq(chunk, 1, offset) \in Seq(Byte) /\ more \in Seq(Byte) /\ Len(more) = length
    <2>1. \A i \in 1..offset : chunk[i] \in Byte
      BY <1>2, <1>4, <1>a
    <2>2. \A i \in offset + 1..offset + length : chunk[i] \in Byte
      BY <1>2, <1>4, <1>a
    <2>3. SubSeq(chunk, 1, offset) \in Seq(Byte)
      BY <1>4, <2>1, SubSeqProperties
    <2>4. /\ more \in Seq(Byte)
          /\ Len(more) = IF offset + 1 <= offset + length
                         THEN (offset + length) - (offset + 1) + 1 ELSE 0
      BY <1>4, <2>2, SubSeqProperties
    <2> HIDE DEF more
    <2> QED
      BY <1>4, <2>3, <2>4
  <1>6. SubSeq(chunk, 1, offset) \o more = SubSeq(chunk, 1, offset + length)
    <2>1. 1 \in 1..Len(chunk) + 1 /\ offset \in 1 - 1..Len(chunk) /\ offset + length \in offset..Len(chunk)
      BY <1>2, <1>4
    <2> QED
      BY <1>2, <2>1, ConcatAdjacentSubSeq
  <1> HIDE DEF more
  <1>7. r.bytes = before \o SubSeq(chunk, 1, offset)
    BY DEF before, chunk
  <1>8. r.bytes \in Seq(Byte) /\ Len(r.bytes) \in Nat
    <2>1. before \o SubSeq(chunk, 1, offset) \in Seq(Byte)
      BY <1>3, <1>5, ConcatProperties
    <2> QED
      BY <1>7, <2>1, LenProperties
  <1>9. q.bytes \in Seq(Byte) /\ Len(q.bytes) = Len(r.bytes) + length
    <2>1. r.bytes \o more \in Seq(Byte) /\ Len(r.bytes \o more) = Len(r.bytes) + Len(more)
      BY <1>5, <1>8, ConcatProperties
    <2> QED
      BY <1>5, <1>d, <2>1
  <1>11. q.bytes = before \o SubSeq(chunk, 1, offset + length)
    <2>1. (before \o SubSeq(chunk, 1, offset)) \o more = before \o (SubSeq(chunk, 1, offset) \o more)
      <3> DEFINE part == SubSeq(chunk, 1, offset)
      <3>1. part \in Seq(Byte) /\ before \in Seq(Byte) /\ more \in Seq(Byte)
        BY <1>3, <1>5
      <3> HIDE DEF part
      <3>2. (before \o part) \o more = before \o (part \o more)
        BY <3>1, BytesAssociate
      <3> QED
        BY <3>2 DEF part
    <2> QED
      BY <1>6, <1>7, <1>d, <2>1
  <1>13. ReaderAt(q, text)
    <2>1. CASE offset + length = Len(chunk)
      <3>1. q.current = << >>
        BY <1>d, <2>1
      <3>2. SubSeq(chunk, 1, Len(chunk)) = chunk
        BY <1>2, SubSeqFull
      <3>3. q.bytes = TextUpto(text)[k]
        BY <1>3, <1>11, <2>1, <3>2
      <3> QED
        BY <1>1, <1>d, <3>1, <3>3 DEF ReaderAt
    <2>2. CASE offset + length # Len(chunk)
      <3>1. q.current = text[k] /\ q.offset = offset + length
        BY <1>d, <2>2 DEF chunk
      <3>2. offset + length \in 1..Len(chunk) - 1
        BY <1>2, <1>4, <2>2
      <3>4. q.offset \in 1..Len(text[k]) - 1 /\ k # 0
        BY <1>1, <3>1, <3>2 DEF chunk
      <3>3. q.bytes = TextUpto(text)[k - 1] \o SubSeq(text[k], 1, q.offset)
        BY <1>11, <3>1 DEF before, chunk
      <3> QED
        BY <1>1, <1>d, <3>1, <3>3, <3>4 DEF ReaderAt
    <2> QED
      BY <2>1, <2>2
  <1> QED
    <2>1. r.bytes \in String /\ q.bytes \in String
      BY <1>8, <1>9 DEF String
    <2>2. Len(r.bytes) < Len(q.bytes) /\ Len(q.bytes) <= Len(r.bytes) + room
      <3> DEFINE was == Len(r.bytes)
      <3>1. was \in Nat /\ Len(q.bytes) = was + length
        BY <1>8, <1>9
      <3>2. length \in Nat /\ length >= 1 /\ length <= room
        BY <1>4
      <3> HIDE DEF was
      <3>3. was < Len(q.bytes) /\ Len(q.bytes) <= was + room
        BY <3>1, <3>2
      <3> QED
        BY <3>3 DEF was
    <2> QED
      BY <1>13, <2>1, <2>2, Zenon DEF q

\* A turn goes on in the text, by as much as there is room for.
LEMMA CopiedKeeps ==
    ASSUME NEW text \in Chunks, NEW room \in Nat \ {0}, NEW r, IsCall(r), ReaderAt(r, text),
           ~(r.current = << >> /\ r.chunks = << >>)
    PROVE  /\ ReaderAt(Copied(r, room), text)
           /\ r.bytes \in String /\ Copied(r, room).bytes \in String
           /\ Len(r.bytes) < Len(Copied(r, room).bytes)
           /\ Len(Copied(r, room).bytes) <= Len(r.bytes) + room
           /\ \E chunks, current, offset, carried :
                 Copied(r, room) = Carried(r, chunks, current, offset, carried)
  <1>1. text \in Seq(String) /\ Len(text) \in Nat /\ \A i \in 1..Len(text) : text[i] # << >> /\ text[i] \in Seq(Byte)
    BY DEF Chunks, String
  <1>2. PICK k \in 0..Len(text) :
           /\ r.chunks = SubSeq(text, k + 1, Len(text))
           /\ \/ r.current = << >> /\ r.bytes = TextUpto(text)[k]
              \/ /\ k # 0 /\ r.current = text[k] /\ r.offset \in 1..Len(text[k]) - 1
                 /\ r.bytes = TextUpto(text)[k - 1] \o SubSeq(text[k], 1, r.offset)
    BY DEF ReaderAt
  <1>3. \E j \in 1..Len(text), offset \in Nat :
           /\ offset \in 0..Len(text[j]) - 1
           /\ text[j] = IF r.current = << >> THEN Head(r.chunks) ELSE r.current
           /\ SubSeq(text, j + 1, Len(text)) = IF r.current = << >> THEN Tail(r.chunks) ELSE r.chunks
           /\ offset = IF r.current = << >> THEN 0 ELSE r.offset
           /\ r.bytes = TextUpto(text)[j - 1] \o SubSeq(text[j], 1, offset)
    <2>1. CASE r.current = << >> /\ r.bytes = TextUpto(text)[k]
      <3>1. r.chunks # << >>
        BY <2>1
      <3>2. k # Len(text)
        <4>1. ASSUME k = Len(text)
              PROVE  SubSeq(text, k + 1, Len(text)) = << >>
          BY <1>1, <4>1, SubSeqEmpty
        <4> QED
          BY <1>2, <3>1, <4>1
      <3>3. k + 1 \in 1..Len(text) /\ k \in Nat /\ (k + 1) - 1 = k /\ Len(text) \in k + 1..Len(text)
        BY <1>1, <3>2
      <3>4. Head(r.chunks) = text[k + 1] /\ Tail(r.chunks) = SubSeq(text, (k + 1) + 1, Len(text))
        <4>1. /\ Head(SubSeq(text, k + 1, Len(text))) = text[k + 1]
              /\ Tail(SubSeq(text, k + 1, Len(text))) = SubSeq(text, (k + 1) + 1, Len(text))
          BY <1>1, <3>3, HeadTailOfSubSeq
        <4> QED
          BY <1>2, <4>1
      <3>5. Len(text[k + 1]) \in Nat /\ Len(text[k + 1]) # 0
        BY <1>1, <3>3, EmptySeq
      <3>6. TextUpto(text)[k] \in Seq(Byte)
        BY TextsOfChunks DEF IsTextUpto, String
      <3>7. SubSeq(text[k + 1], 1, 0) = << >>
        BY SubSeqEmpty
      <3>8. TextUpto(text)[k] \o << >> = TextUpto(text)[k]
        BY <3>6, ConcatEmptySeq
      <3>9. 0 \in 0..Len(text[k + 1]) - 1 /\ 0 \in Nat
        BY <3>5
      <3> QED
        BY <2>1, <3>3, <3>4, <3>7, <3>8, <3>9
    <2>2. CASE /\ k # 0 /\ r.current = text[k] /\ r.offset \in 1..Len(text[k]) - 1
               /\ r.bytes = TextUpto(text)[k - 1] \o SubSeq(text[k], 1, r.offset)
      <3>1. k \in 1..Len(text)
        BY <1>1, <2>2
      <3>2. text[k] # << >> /\ Len(text[k]) \in Nat
        BY <1>1, <3>1
      <3>3. r.offset \in 0..Len(text[k]) - 1 /\ r.offset \in Nat
        BY <2>2, <3>2
      <3> QED
        BY <1>2, <2>2, <3>1, <3>2, <3>3
    <2> QED
      BY <1>2, <2>1, <2>2
  <1>4. PICK j \in 1..Len(text), offset \in Nat :
           /\ offset \in 0..Len(text[j]) - 1
           /\ text[j] = IF r.current = << >> THEN Head(r.chunks) ELSE r.current
           /\ SubSeq(text, j + 1, Len(text)) = IF r.current = << >> THEN Tail(r.chunks) ELSE r.chunks
           /\ offset = IF r.current = << >> THEN 0 ELSE r.offset
           /\ r.bytes = TextUpto(text)[j - 1] \o SubSeq(text[j], 1, offset)
    BY <1>3
  <1>5. Copied(r, room) = CopiedTo(r, room, text[j], SubSeq(text, j + 1, Len(text)), offset)
    BY <1>4, CopiedFields
  <1>6. /\ ReaderAt(Copied(r, room), text)
        /\ r.bytes \in String /\ Copied(r, room).bytes \in String
        /\ Len(r.bytes) < Len(Copied(r, room).bytes)
        /\ Len(Copied(r, room).bytes) <= Len(r.bytes) + room
    BY <1>4, <1>5, ReaderStep
  <1>7. \E chunks, current, offs, carried :
           CopiedTo(r, room, text[j], SubSeq(text, j + 1, Len(text)), offset) =
              Carried(r, chunks, current, offs, carried)
    BY Zenon DEF CopiedTo
  <1> QED
    BY <1>5, <1>6, <1>7

\* Where a reader stands, it has handed out bytes of the text; at the end all.
LEMMA ReaderSound ==
    ASSUME NEW text \in Chunks, NEW r, ReaderAt(r, text)
    PROVE  /\ r.bytes \in String /\ Len(r.chunks) \in Nat
           /\ r.current = << >> /\ r.chunks = << >> => r.bytes = FlattenSeq(text)
  <1>1. text \in Seq(String) /\ Len(text) \in Nat /\ \A i \in 1..Len(text) : text[i] # << >> /\ text[i] \in Seq(Byte)
    BY DEF Chunks, String
  <1>2. PICK k \in 0..Len(text) :
           /\ r.chunks = SubSeq(text, k + 1, Len(text))
           /\ \/ r.current = << >> /\ r.bytes = TextUpto(text)[k]
              \/ /\ k # 0 /\ r.current = text[k] /\ r.offset \in 1..Len(text[k]) - 1
                 /\ r.bytes = TextUpto(text)[k - 1] \o SubSeq(text[k], 1, r.offset)
    BY DEF ReaderAt
  <1>3. IsTextUpto(text, TextUpto(text))
    BY TextsOfChunks
  <1>4. Len(r.chunks) = IF k + 1 <= Len(text) THEN Len(text) - (k + 1) + 1 ELSE 0
    <2>1. k + 1 \in Int /\ \A i \in k + 1..Len(text) : text[i] \in String
      BY <1>1 DEF String
    <2>2. Len(SubSeq(text, k + 1, Len(text))) = IF k + 1 <= Len(text) THEN Len(text) - (k + 1) + 1 ELSE 0
      BY <1>1, <2>1, SubSeqProperties
    <2> QED
      BY <1>2, <2>2
  <1>5. Len(r.chunks) \in Nat /\ (r.chunks = << >> => k = Len(text))
    <2>1. Len(<< >>) = 0
      OBVIOUS
    <2> QED
      BY <1>1, <1>4, <2>1
  <1>6. CASE r.current = << >> /\ r.bytes = TextUpto(text)[k]
    <2>1. r.bytes \in String
      BY <1>3, <1>6 DEF IsTextUpto
    <2> QED
      BY <1>5, <1>6, <2>1, FlattenIsLastText
  <1>7. CASE /\ k # 0 /\ r.current = text[k] /\ r.offset \in 1..Len(text[k]) - 1
             /\ r.bytes = TextUpto(text)[k - 1] \o SubSeq(text[k], 1, r.offset)
    <2>1. k \in 1..Len(text) /\ k - 1 \in 0..Len(text)
      BY <1>1, <1>7
    <2>2. text[k] \in Seq(Byte) /\ Len(text[k]) \in Nat /\ r.current # << >>
      BY <1>1, <1>7, <2>1
    <2>3. TextUpto(text)[k - 1] \in Seq(Byte)
      BY <1>3, <2>1 DEF IsTextUpto, String
    <2>4. r.offset \in Int /\ \A i \in 1..r.offset : text[k][i] \in Byte
      <3>1. \A i \in 1..Len(text[k]) : text[k][i] \in Byte
        BY <2>2, ElementOfSeq
      <3> QED
        BY <1>7, <2>2, <3>1
    <2>5. SubSeq(text[k], 1, r.offset) \in Seq(Byte)
      BY <2>4, SubSeqProperties
    <2>6. TextUpto(text)[k - 1] \o SubSeq(text[k], 1, r.offset) \in Seq(Byte)
      BY <2>3, <2>5, ConcatProperties
    <2>7. r.bytes \in String
      BY <1>7, <2>6 DEF String
    <2> QED
      BY <1>5, <2>2, <2>7
  <1> QED
    BY <1>2, <1>6, <1>7

\* The same call, its reader somewhere else.
CarriedFrom(reader, r) ==
    \E chunks, current, offset, carried : r = Carried(reader, chunks, current, offset, carried)

\* After some turns of a read: no turn takes more than there is room for, and
\* one that is not at the end takes something.
Underway(reader, size, text, r) ==
    /\ ReaderAt(r, text) /\ IsCall(r) /\ CarriedFrom(reader, r)
    /\ r.bytes \in String
    /\ Len(reader.bytes) <= Len(r.bytes) /\ Len(r.bytes) <= Len(reader.bytes) + size

AtEnd(r) == r.current = << >> /\ r.chunks = << >>

LEMMA TurnKeeps ==
    ASSUME NEW text \in Chunks, NEW size \in Nat, NEW reader, NEW r,
           reader.bytes \in String, Underway(reader, size, text, r)
    PROVE  /\ Underway(reader, size, text, Turn(reader, size, r))
           /\ Len(r.bytes) <= Len(Turn(reader, size, r).bytes)
           /\ Len(r.bytes) < Len(Turn(reader, size, r).bytes)
                \/ Len(r.bytes) = Len(reader.bytes) + size \/ AtEnd(r)
           /\ AtEnd(r) => Turn(reader, size, r) = r
  <1> DEFINE room == size - (Len(r.bytes) - Len(reader.bytes))
             q == Copied(r, room)
  <1>1. /\ ReaderAt(r, text) /\ IsCall(r) /\ CarriedFrom(reader, r) /\ r.bytes \in String
        /\ Len(reader.bytes) <= Len(r.bytes) /\ Len(r.bytes) <= Len(reader.bytes) + size
    BY DEF Underway
  <1>2. Len(reader.bytes) \in Nat /\ Len(r.bytes) \in Nat
    BY <1>1, LenProperties DEF String
  <1>3. CASE room = 0 \/ AtEnd(r)
    <2>1. Turn(reader, size, r) = r
      BY <1>3 DEF Turn, AtEnd
    <2> QED
      BY <1>2, <1>3, <2>1
  <1>4. CASE ~(room = 0 \/ AtEnd(r))
    <2>1. Turn(reader, size, r) = q
      BY <1>4, Zenon DEF Turn, AtEnd
    <2>2. room \in Nat \ {0}
      <3> DEFINE was == Len(reader.bytes)
                 is  == Len(r.bytes)
      <3>1. was \in Nat /\ is \in Nat /\ was <= is /\ is <= was + size /\ size - (is - was) # 0
        BY <1>1, <1>2, <1>4
      <3> HIDE DEF was, is
      <3>2. size - (is - was) \in Nat \ {0}
        BY <3>1
      <3> QED
        BY <3>2 DEF was, is
    <2>3. /\ ReaderAt(q, text) /\ q.bytes \in String
          /\ Len(r.bytes) < Len(q.bytes) /\ Len(q.bytes) <= Len(r.bytes) + room
          /\ \E chunks, current, offset, carried : q = Carried(r, chunks, current, offset, carried)
      BY <1>1, <1>4, <2>2, CopiedKeeps DEF AtEnd
    <2> HIDE DEF q
    <2>4. IsCall(q) /\ CarriedFrom(reader, q)
      <3>1. PICK chunks, current, offset, carried : q = Carried(r, chunks, current, offset, carried)
        BY <2>3
      <3>2. /\ r.at = reader.at /\ r.question = reader.question /\ r.document = reader.document
            /\ r.frames = reader.frames /\ r.result = reader.result
        <4>1. PICK x1, x2, x3, x4 : r = Carried(reader, x1, x2, x3, x4)
          BY <1>1 DEF CarriedFrom
        <4> QED
          BY <4>1, CarriedFields
      <3>3. q = Carried(reader, chunks, current, offset, carried)
        BY <3>1, <3>2 DEF Carried
      <3>4. IsCall(q)
        BY <3>1, CarriedFields
      <3>5. CarriedFrom(reader, q)
        BY <3>3, Zenon DEF CarriedFrom
      <3> QED
        BY <3>4, <3>5
    <2>5. Len(q.bytes) \in Nat
      BY <2>3, LenProperties DEF String
    <2>6. Len(reader.bytes) <= Len(q.bytes) /\ Len(q.bytes) <= Len(reader.bytes) + size
      BY <1>1, <1>2, <2>3, <2>5
    <2>7. Underway(reader, size, text, q)
      BY <2>3, <2>4, <2>6 DEF Underway
    <2>8. Len(r.bytes) <= Len(q.bytes)
      BY <1>2, <2>3, <2>5
    <2> QED
      BY <1>4, <2>1, <2>3, <2>7, <2>8
  <1> QED
    BY <1>3, <1>4

\* A read goes on in the text; one that had room and took nothing is at the end.
LEMMA FilledReads ==
    ASSUME NEW text \in Chunks, NEW size \in Nat, NEW reader, IsCall(reader), ReaderAt(reader, text)
    PROVE  /\ ReaderAt(Filled(reader, size), text)
           /\ CarriedFrom(reader, Filled(reader, size))
           /\ size > 0 /\ Filled(reader, size).bytes = reader.bytes
                => Filled(reader, size).bytes = FlattenSeq(text)
  <1>1. reader.bytes \in String /\ Len(reader.chunks) \in Nat /\ Len(reader.bytes) \in Nat
    BY ReaderSound, LenProperties DEF String
  <1> DEFINE N == Len(reader.chunks) + 1
  <1>2. PICK g : /\ g[0] = reader
                 /\ \A n \in 1..Len(reader.chunks) + 1 : g[n] = Turn(reader, size, g[n - 1])
                 /\ g[Len(reader.chunks) + 1] = Filled(reader, size)
    BY <1>1, FilledTurns
  <1>3. N \in Nat /\ N >= 1 /\ g[0] = reader /\ g[N] = Filled(reader, size)
        /\ \A n \in 1..N : g[n] = Turn(reader, size, g[n - 1])
    BY <1>1, <1>2
  <1> HIDE DEF N
  <1>4. Underway(reader, size, text, reader)
    <2>1. CarriedFrom(reader, reader)
      <3>1. PICK a1, a2, a3, a4, a5, a6, a7, a8, a9 : reader = Call(a1, a2, a3, a4, a5, a6, a7, a8, a9)
        BY DEF IsCall
      <3>2. /\ reader.at = a1 /\ reader.question = a2 /\ reader.document = a3
            /\ reader.frames = a4 /\ reader.result = a9
        BY <3>1, CallFields
      <3>3. reader = Carried(reader, a5, a6, a7, a8)
        BY <3>1, <3>2 DEF Carried
      <3> QED
        BY <3>3, Zenon DEF CarriedFrom
    <2>2. Len(reader.bytes) <= Len(reader.bytes) + size
      BY <1>1
    <2> QED
      BY <1>1, <2>1, <2>2 DEF Underway
  <1> DEFINE Good(n) == Underway(reader, size, text, g[n])
             Ahead(n) == n = 0 \/ size = 0 \/ Len(reader.bytes) < Len(g[n].bytes) \/ (AtEnd(reader) /\ g[n] = reader)
             T == {n \in 0..N : ~(Good(n) /\ Ahead(n))}
  <1>5. T = {}
    <2> SUFFICES ASSUME T # {}
                 PROVE  FALSE
      OBVIOUS
    <2> HIDE DEF Good, Ahead
    <2>1. T \in SUBSET Nat
      BY <1>3
    <2>2. PICK n \in T : \A k \in T : n <= k
      BY <2>1, LeastElement
    <2>3. n \in 0..N /\ n \in Nat /\ ~(Good(n) /\ Ahead(n))
      BY <1>3, <2>2
    <2>4. n # 0
      BY <1>3, <1>4, <2>3 DEF Good, Ahead
    <2>5. n - 1 \in 0..N /\ ~(n <= n - 1) /\ n \in 1..N
      BY <1>3, <2>3, <2>4
    <2>6. Good(n - 1) /\ Ahead(n - 1)
      BY <2>2, <2>5
    <2> DEFINE r == g[n - 1]
               q == Turn(reader, size, r)
    <2>7. g[n] = q
      BY <1>3, <2>5
    <2>8. Underway(reader, size, text, r)
      BY <2>6 DEF Good
    <2>9. /\ Underway(reader, size, text, q)
          /\ Len(r.bytes) <= Len(q.bytes)
          /\ Len(r.bytes) < Len(q.bytes) \/ Len(r.bytes) = Len(reader.bytes) + size \/ AtEnd(r)
          /\ AtEnd(r) => q = r
      BY <1>1, <2>8, TurnKeeps
    <2>10. Len(r.bytes) \in Nat /\ Len(q.bytes) \in Nat /\ Len(reader.bytes) <= Len(r.bytes)
      BY <2>8, <2>9, LenProperties DEF Underway, String
    <2>11. n - 1 = 0 => r = reader
      BY <1>3
    <2>12. size = 0 \/ Len(reader.bytes) < Len(q.bytes) \/ (AtEnd(reader) /\ q = reader)
      <3> HIDE DEF q
      <3>1. n - 1 = 0 \/ size = 0 \/ Len(reader.bytes) < Len(r.bytes) \/ (AtEnd(reader) /\ r = reader)
        BY <2>6 DEF Ahead
      <3> HIDE DEF r
      <3>2. CASE n - 1 = 0
        BY <1>1, <2>9, <2>10, <2>11, <3>2
      <3>3. CASE size = 0 \/ Len(reader.bytes) < Len(r.bytes)
        BY <1>1, <2>9, <2>10, <3>3
      <3>4. CASE AtEnd(reader) /\ r = reader
        BY <2>9, <3>4
      <3> QED
        BY <3>1, <3>2, <3>3, <3>4
    <2>13. Ahead(n)
      BY <2>7, <2>12 DEF Ahead
    <2>14. Good(n)
      BY <2>7, <2>9 DEF Good
    <2> QED
      BY <2>3, <2>13, <2>14
  <1>6. Good(N) /\ Ahead(N)
    <2> HIDE DEF Good, Ahead
    <2>1. N \in 0..N
      BY <1>3
    <2> QED
      BY <1>5, <2>1
  <1> DEFINE filled == Filled(reader, size)
  <1>7. Underway(reader, size, text, filled)
    BY <1>3, <1>6
  <1>8. size = 0 \/ Len(reader.bytes) < Len(filled.bytes) \/ (AtEnd(reader) /\ filled = reader)
    <2>1. N # 0
      BY <1>3
    <2> QED
      BY <1>3, <1>6, <2>1
  <1> HIDE DEF filled
  <1>9. ReaderAt(filled, text) /\ CarriedFrom(reader, filled)
    BY <1>7 DEF Underway
  <1>10. ASSUME size > 0, filled.bytes = reader.bytes
         PROVE  filled.bytes = FlattenSeq(text)
    <2>1. AtEnd(reader)
      BY <1>1, <1>8, <1>10
    <2>2. reader.bytes = FlattenSeq(text)
      BY <2>1, ReaderSound DEF AtEnd
    <2> QED
      BY <1>10, <2>2
  <1>11. /\ ReaderAt(filled, text) /\ CarriedFrom(reader, filled)
         /\ size > 0 /\ filled.bytes = reader.bytes => filled.bytes = FlattenSeq(text)
    BY <1>9, <1>10
  <1> QED
    BY <1>11, Zenon DEF filled

-----------------------------------------------------------------------------
(* Calls *)

\* The frames of nested derived calls: what has been derived came from the
\* text, and what a compute that has started returns, all of it.
FramesFrom(frames, text) ==
    /\ frames \in Seq([type: Types, missed: BOOLEAN, needs: SUBSET Types, from: SUBSET {text}])
    /\ frames # << >>
    /\ \A i \in 1..Len(frames) : frames[i].missed => frames[i].from = {text}

\* Where a call of a snapshot is.
CallAt(r, d) ==
    \/ r.at = "derive" /\ r.question.ask = "derive" /\ FramesFrom(r.frames, d.text)
    \/ r.at = "query" /\ r.question.ask = "query"
    \/ /\ r.at = "compiled" /\ r.question.ask = "query"
       /\ d.parsed /\ <<d.matcher, r.question.source>> \in Compiles
    \/ r.at = "read" /\ r.question.ask = "read" /\ ReaderAt(r, d.text)
    \/ r.at = "returned" /\ r.result \in AnswersOf(r.question, d)

CallOf(r, all) ==
    \/ r = Idle
    \/ /\ IsCall(r) /\ r.question \in Questions /\ r.document \in 1..Len(all)
       /\ CallAt(r, all[r.document])

\* What a memo holds comes from the text of its generation.
Memos == UNION {[T -> SUBSET Seq(String)] : T \in SUBSET Types}

GenerationsOK ==
    /\ generations \in Seq(Contents) /\ generations # << >>
    /\ memo \in Seq(Memos) /\ Len(memo) = Len(generations)
    /\ \A g \in 1..Len(generations) : \A t \in DOMAIN memo[g] : memo[g][t] = {generations[g].text}
    /\ compiled \subseteq Compiles

CallsOK ==
    /\ calls = [c \in Callers |-> calls[c]]
    /\ \A c \in Callers : CallOf(calls[c], generations)

SnapshotsInv == GenerationsOK /\ CallsOK

LEMMA ContentTypes ==
    ASSUME NEW d \in Contents
    PROVE  d.text \in Chunks /\ d.parsed \in BOOLEAN
  <1>1. d \in [text : Seq(Seq(0..255)), matcher : Grammars \cup {NoOne}, parsed : BOOLEAN]
    BY DerivedAssumption DEF DerivedAssumption
  <1>2. d.text \in Seq(Seq(0..255)) /\ \A i \in DOMAIN d.text : d.text[i] # << >>
    BY <1>1, DerivedAssumption DEF DerivedAssumption
  <1>3. DOMAIN d.text = 1..Len(d.text)
    BY <1>2, LenProperties
  <1> QED
    BY <1>1, <1>2, <1>3, Zenon DEF Chunks, String, Byte

LEMMA SnapshotTypes ==
    ASSUME GenerationsOK, NEW g \in 1..Len(generations)
    PROVE  generations[g] \in Contents /\ generations[g].text \in Chunks /\ generations[g].parsed \in BOOLEAN
  <1>1. generations[g] \in Contents
    BY ElementOfSeq DEF GenerationsOK
  <1> QED
    BY <1>1, ContentTypes

LEMMA AnswersByAsk ==
    ASSUME NEW question, NEW d
    PROVE  /\ question.ask = "derive" => /\ [from |-> {d.text}] \in AnswersOf(question, d)
                                         /\ MayPanic => Panicked \in AnswersOf(question, d)
           /\ question.ask = "read" => [bytes |-> FlattenSeq(d.text)] \in AnswersOf(question, d)
           /\ question.ask = "query" /\ ~d.parsed => Failed("NoTree") \in AnswersOf(question, d)
           /\ question.ask = "query" /\ d.parsed /\ <<d.matcher, question.source>> \notin Compiles
                => Failed("InvalidQuery") \in AnswersOf(question, d)
           /\ question.ask = "query" /\ d.parsed /\ <<d.matcher, question.source>> \in Compiles
                => [query |-> <<d.matcher, question.source>>, text |-> d.text] \in AnswersOf(question, d)
  <1>1. question.ask = "derive" => AnswersOf(question, d) = {[from |-> {d.text}]} \cup (IF MayPanic THEN {Panicked} ELSE {})
    BY DEF AnswersOf
  <1>2. question.ask = "read" => AnswersOf(question, d) = {[bytes |-> FlattenSeq(d.text)]}
    BY DEF AnswersOf
  <1>3. question.ask = "query" => AnswersOf(question, d) =
            {IF ~d.parsed THEN Failed("NoTree")
             ELSE IF <<d.matcher, question.source>> \notin Compiles THEN Failed("InvalidQuery")
             ELSE [query |-> <<d.matcher, question.source>>, text |-> d.text]}
    BY DEF AnswersOf
  <1>4. question.ask = "derive" => /\ [from |-> {d.text}] \in AnswersOf(question, d)
                                   /\ MayPanic => Panicked \in AnswersOf(question, d)
    BY <1>1, Zenon
  <1>5. question.ask = "read" => [bytes |-> FlattenSeq(d.text)] \in AnswersOf(question, d)
    BY <1>2, Zenon
  <1>6. question.ask = "query" /\ ~d.parsed => Failed("NoTree") \in AnswersOf(question, d)
    BY <1>3, Zenon
  <1>7. question.ask = "query" /\ d.parsed /\ <<d.matcher, question.source>> \notin Compiles
                => Failed("InvalidQuery") \in AnswersOf(question, d)
    BY <1>3, Zenon
  <1>8. question.ask = "query" /\ d.parsed /\ <<d.matcher, question.source>> \in Compiles
                => [query |-> <<d.matcher, question.source>>, text |-> d.text] \in AnswersOf(question, d)
    BY <1>3, Zenon
  <1> QED
    BY <1>4, <1>5, <1>6, <1>7, <1>8, Zenon

\* A call that returns, and one with other frames.
Answered(r, at, result) ==
    Call(at, r.question, r.document, r.frames, r.chunks, r.current, r.offset, r.bytes, result)

Framed(r, frames) ==
    Call(r.at, r.question, r.document, frames, r.chunks, r.current, r.offset, r.bytes, r.result)

LEMMA CallUpdates ==
    ASSUME NEW r, IsCall(r), NEW x
    PROVE  /\ [r EXCEPT !.at = x] = Answered(r, x, r.result)
           /\ [r EXCEPT !.frames = x] = Framed(r, x)
  <1>1. PICK a1, a2, a3, a4, a5, a6, a7, a8, a9 : r = Call(a1, a2, a3, a4, a5, a6, a7, a8, a9)
    BY DEF IsCall
  <1>2. /\ r.at = a1 /\ r.question = a2 /\ r.document = a3 /\ r.frames = a4 /\ r.chunks = a5
        /\ r.current = a6 /\ r.offset = a7 /\ r.bytes = a8 /\ r.result = a9
    BY <1>1, CallFields
  <1>a. [Call(a1, a2, a3, a4, a5, a6, a7, a8, a9) EXCEPT !.at = x] = Call(x, a2, a3, a4, a5, a6, a7, a8, a9)
    BY DEF Call
  <1>c. [Call(a1, a2, a3, a4, a5, a6, a7, a8, a9) EXCEPT !.frames = x] = Call(a1, a2, a3, x, a5, a6, a7, a8, a9)
    BY DEF Call
  <1>3. [r EXCEPT !.at = x] = Answered(r, x, r.result)
    BY <1>1, <1>2, <1>a DEF Answered
  <1>4. [r EXCEPT !.frames = x] = Framed(r, x)
    BY <1>1, <1>2, <1>c DEF Framed
  <1> QED
    BY <1>3, <1>4

ReturnedWith(r, at, result) == [r EXCEPT !.at = at, !.result = result]

LEMMA ReturnUpdates ==
    ASSUME NEW r, IsCall(r), NEW at, NEW result
    PROVE  ReturnedWith(r, at, result) = Answered(r, at, result)
  <1> DEFINE q == [[r EXCEPT !.at = at] EXCEPT !.result = result]
  <1>1. PICK a1, a2, a3, a4, a5, a6, a7, a8, a9 : r = Call(a1, a2, a3, a4, a5, a6, a7, a8, a9)
    BY DEF IsCall
  <1>2. /\ r.at = a1 /\ r.question = a2 /\ r.document = a3 /\ r.frames = a4 /\ r.chunks = a5
        /\ r.current = a6 /\ r.offset = a7 /\ r.bytes = a8 /\ r.result = a9
    BY <1>1, CallFields
  <1>a. [Call(a1, a2, a3, a4, a5, a6, a7, a8, a9) EXCEPT !.at = at] = Call(at, a2, a3, a4, a5, a6, a7, a8, a9)
    BY DEF Call
  <1>b. [Call(at, a2, a3, a4, a5, a6, a7, a8, a9) EXCEPT !.result = result] = Call(at, a2, a3, a4, a5, a6, a7, a8, result)
    BY DEF Call
  <1>3. ReturnedWith(r, at, result) = q
    BY DEF ReturnedWith
  <1>4. q = Call(at, a2, a3, a4, a5, a6, a7, a8, result)
    BY <1>1, <1>a, <1>b
  <1> HIDE DEF q
  <1> QED
    BY <1>2, <1>3, <1>4 DEF Answered

LEMMA WithUpdates ==
    ASSUME NEW c, IsCall(calls[c]), NEW at, NEW result
    PROVE  With(c, at, result) = [calls EXCEPT ![c] = Answered(calls[c], at, result)]
  <1>1. With(c, at, result) = [calls EXCEPT ![c] = ReturnedWith(calls[c], at, result)]
    BY DEF With, ReturnedWith
  <1>2. ReturnedWith(calls[c], at, result) = Answered(calls[c], at, result)
    BY ReturnUpdates
  <1> QED
    BY <1>1, <1>2

LEMMA UpdatedFields ==
    ASSUME NEW r, NEW x, NEW y
    PROVE  /\ IsCall(Answered(r, x, y)) /\ IsCall(Framed(r, x))
           /\ Answered(r, x, y).at = x /\ Answered(r, x, y).result = y
           /\ Answered(r, x, y).question = r.question /\ Answered(r, x, y).document = r.document
           /\ Framed(r, x).at = r.at /\ Framed(r, x).frames = x /\ Framed(r, x).result = r.result
           /\ Framed(r, x).question = r.question /\ Framed(r, x).document = r.document
  <1>1. IsCall(Answered(r, x, y)) /\ IsCall(Framed(r, x))
    BY Zenon DEF IsCall, Answered, Framed
  <1>2. /\ Answered(r, x, y).at = x /\ Answered(r, x, y).result = y
        /\ Answered(r, x, y).question = r.question /\ Answered(r, x, y).document = r.document
    BY CallFields DEF Answered
  <1>3. /\ Framed(r, x).at = r.at /\ Framed(r, x).frames = x /\ Framed(r, x).result = r.result
        /\ Framed(r, x).question = r.question /\ Framed(r, x).document = r.document
    BY CallFields DEF Framed
  <1> QED
    BY <1>1, <1>2, <1>3

-----------------------------------------------------------------------------
(* The steps of the main loop and of the callers, as steps of DerivedValues *)

AskedOf(r, all) == IF r = Idle THEN NoOne ELSE [content |-> all[r.document], question |-> r.question]
AnswerOf(r)     == IF r.at = "returned" THEN r.result ELSE NoOne

ValuesStep == [Values!ValuesNext]_(Values!valueVars)

\* What is mapped of a call in which nothing is, or somebody holds a snapshot.
LEMMA CallCases ==
    ASSUME NEW r, NEW all, CallOf(r, all)
    PROVE  /\ r = Idle => r.at = "idle"
           /\ r # Idle => /\ IsCall(r) /\ r.question \in Questions /\ r.document \in 1..Len(all)
                          /\ CallAt(r, all[r.document])
                          /\ r.at \in {"derive", "query", "compiled", "read", "returned"}
           /\ r = Idle <=> r.at = "idle"
  <1>1. r = Idle => r.at = "idle"
    BY DEF Idle
  <1>2. ASSUME r # Idle
        PROVE  /\ IsCall(r) /\ r.question \in Questions /\ r.document \in 1..Len(all)
               /\ CallAt(r, all[r.document])
               /\ r.at \in {"derive", "query", "compiled", "read", "returned"}
    BY <1>2 DEF CallOf, CallAt
  <1> QED
    BY <1>1, <1>2

\* A caller moves on: if that answers its question, the answer is one of the
\* snapshot; otherwise nothing is seen of it.
LEMMA CallMoves ==
    ASSUME SnapshotsInv, GenerationsOK', generations' = generations,
           NEW c \in Callers, calls[c] # Idle, calls[c].at # "returned",
           NEW q, IsCall(q), q.question = calls[c].question, q.document = calls[c].document,
           CallAt(q, Snapshot(c)), calls' = [calls EXCEPT ![c] = q]
    PROVE  SnapshotsInv' /\ ValuesStep
  <1> DEFINE r == calls[c]
  <1>1. /\ calls = [b \in Callers |-> calls[b]]
        /\ \A b \in Callers : CallOf(calls[b], generations)
    BY DEF SnapshotsInv, CallsOK
  <1>2. /\ IsCall(r) /\ r.question \in Questions /\ r.document \in 1..Len(generations)
        /\ r.at \in {"derive", "query", "compiled", "read", "returned"}
    BY <1>1, CallCases
  <1>3. CallAt(q, generations[q.document])
    BY DEF Snapshot, Held
  <1>4. CallOf(q, generations)
    BY <1>2, <1>3 DEF CallOf
  <1>5. calls' = [b \in Callers |-> IF b = c THEN q ELSE calls[b]]
    BY <1>1
  <1>6. CallsOK'
    BY <1>1, <1>4, <1>5 DEF CallsOK
  <1>7. q.at \in {"derive", "query", "compiled", "read", "returned"} /\ q # Idle
    BY <1>3 DEF CallAt, Idle
  <1> DEFINE asked  == [b \in Callers |-> AskedOf(calls[b], generations)]
             answer == [b \in Callers |-> AnswerOf(calls[b])]
             asked1  == [b \in Callers |-> AskedOf(IF b = c THEN q ELSE calls[b], generations)]
             answer1 == [b \in Callers |-> AnswerOf(IF b = c THEN q ELSE calls[b])]
  <1>8. AskedOf(q, generations) = AskedOf(r, generations)
    BY <1>7 DEF AskedOf
  <1>9. asked1 = asked
    BY <1>8
  <1>10. CASE q.at # "returned"
    <2>1. AnswerOf(q) = AnswerOf(r)
      BY <1>10 DEF AnswerOf
    <2>2. answer1 = answer
      BY <2>1
    <2>3. UNCHANGED Values!valueVars
      BY <1>5, <1>9, <2>2 DEF Values!valueVars, AskedOf, AnswerOf, Snapshot, Held
    <2> QED
      BY <1>6, <2>3, Zenon DEF SnapshotsInv, ValuesStep
  <1>11. CASE q.at = "returned"
    <2>1. generations[r.document] \in Contents
      BY <1>2, SnapshotTypes DEF SnapshotsInv
    <2>2. asked[c] = [content |-> generations[r.document], question |-> r.question]
      BY DEF AskedOf
    <2>3. asked[c] # NoOne /\ answer[c] = NoOne
      BY <1>2, <2>1, <2>2, NoOneIsNothing DEF AnswerOf
    <2>4. q.result \in AnswersOf(asked[c].question, asked[c].content)
      BY <1>3, <1>11, <2>2 DEF CallAt
    <2>5. answer1 = [answer EXCEPT ![c] = q.result]
      BY <1>11 DEF AnswerOf
    <2>6. /\ asked[c] # NoOne /\ answer[c] = NoOne
          /\ \E a \in AnswersOf(asked[c].question, asked[c].content) : answer1 = [answer EXCEPT ![c] = a]
      BY <2>3, <2>4, <2>5, Zenon
    <2>7. UNCHANGED <<Last(generations), asked>>
      BY <1>5, <1>9
    <2>8. answer' = answer1
      BY <1>5
    <2> HIDE DEF asked1, answer1
    <2>9. Values!IsAnswered(c)
      BY <2>6, <2>7, <2>8, Zenon DEF Values!IsAnswered, AskedOf, AnswerOf, Snapshot, Held
    <2> QED
      BY <1>6, <2>9, Zenon DEF SnapshotsInv, ValuesStep, Values!ValuesNext
  <1> QED
    BY <1>10, <1>11

\* Frames: the one a call is in, and what its steps make of the stack.
FrameOf(text) == [type: Types, missed: BOOLEAN, needs: SUBSET Types, from: SUBSET {text}]

LEMMA FramesSound ==
    ASSUME NEW text, NEW frames, FramesFrom(frames, text)
    PROVE  /\ frames \in Seq(FrameOf(text)) /\ Len(frames) \in Nat /\ Len(frames) >= 1
           /\ DOMAIN frames = 1..Len(frames)
           /\ \A i \in 1..Len(frames) : frames[i] \in FrameOf(text) /\ (frames[i].missed => frames[i].from = {text})
           /\ Last(frames) = frames[Len(frames)] /\ Last(frames) \in FrameOf(text)
           /\ Last(frames).missed => Last(frames).from = {text}
  <1>1. frames \in Seq(FrameOf(text)) /\ frames # << >>
    BY DEF FramesFrom, FrameOf
  <1>2. Len(frames) \in Nat /\ Len(frames) >= 1 /\ DOMAIN frames = 1..Len(frames)
    BY <1>1, EmptySeq, LenProperties
  <1>3. \A i \in 1..Len(frames) : frames[i] \in FrameOf(text)
    BY <1>1, ElementOfSeq
  <1>4. \A i \in 1..Len(frames) : frames[i].missed => frames[i].from = {text}
    BY DEF FramesFrom
  <1>5. Last(frames) = frames[Len(frames)] /\ Len(frames) \in 1..Len(frames)
    BY <1>2 DEF Last
  <1> QED
    BY <1>1, <1>2, <1>3, <1>4, <1>5

LEMMA FrameReplaced ==
    ASSUME NEW text, NEW frames, FramesFrom(frames, text), NEW x \in FrameOf(text),
           x.missed => x.from = {text}
    PROVE  FramesFrom([frames EXCEPT ![Len(frames)] = x], text)
  <1>1. /\ frames \in Seq(FrameOf(text)) /\ Len(frames) \in Nat /\ Len(frames) >= 1
        /\ \A i \in 1..Len(frames) : frames[i] \in FrameOf(text) /\ (frames[i].missed => frames[i].from = {text})
    BY FramesSound
  <1> DEFINE f == [frames EXCEPT ![Len(frames)] = x]
             S == FrameOf(text)
  <1> HIDE DEF S
  <1>2. f \in Seq(S) /\ Len(f) = Len(frames)
    BY <1>1 DEF S
  <1>3. \A i \in 1..Len(f) : f[i].missed => f[i].from = {text}
    <2>1. TAKE i \in 1..Len(f)
    <2>2. f[i] = IF i = Len(frames) THEN x ELSE frames[i]
      BY <1>1, <1>2
    <2> QED
      BY <1>1, <1>2, <2>2
  <1>4. f # << >>
    BY <1>1, <1>2
  <1> QED
    BY <1>2, <1>3, <1>4 DEF FramesFrom, FrameOf, S

LEMMA FramePushed ==
    ASSUME NEW text, NEW frames, FramesFrom(frames, text), NEW x \in FrameOf(text), ~x.missed
    PROVE  FramesFrom(Append(frames, x), text)
  <1>1. /\ frames \in Seq(FrameOf(text)) /\ Len(frames) \in Nat
        /\ \A i \in 1..Len(frames) : frames[i].missed => frames[i].from = {text}
    BY FramesSound
  <1> DEFINE f == Append(frames, x)
             S == FrameOf(text)
  <1> HIDE DEF S
  <1>2. f \in Seq(S) /\ Len(f) = Len(frames) + 1
    BY <1>1 DEF S
  <1>3. \A i \in 1..Len(f) : f[i].missed => f[i].from = {text}
    <2>1. TAKE i \in 1..Len(f)
    <2>2. f[i] = IF i = Len(frames) + 1 THEN x ELSE frames[i]
      BY <1>1, <1>2
    <2> QED
      BY <1>1, <1>2, <2>2
  <1>4. f # << >>
    <2>1. Len(f) # 0
      BY <1>1, <1>2
    <2> HIDE DEF f
    <2> QED
      BY <2>1
  <1> QED
    BY <1>2, <1>3, <1>4 DEF FramesFrom, FrameOf, S

LEMMA FramePopped ==
    ASSUME NEW text, NEW frames, FramesFrom(frames, text), Len(frames) # 1
    PROVE  FramesFrom(Front(frames), text)
  <1>1. /\ frames \in Seq(FrameOf(text)) /\ Len(frames) \in Nat /\ Len(frames) >= 1
        /\ \A i \in 1..Len(frames) : frames[i] \in FrameOf(text) /\ (frames[i].missed => frames[i].from = {text})
    BY FramesSound
  <1> DEFINE f == Front(frames)
             S == FrameOf(text)
  <1> HIDE DEF S
  <1>2. f = SubSeq(frames, 1, Len(frames) - 1)
    BY DEF Front
  <1>3. f \in Seq(S) /\ Len(f) = Len(frames) - 1 /\ \A i \in 1..Len(f) : f[i] = frames[i]
    <2>1. \A i \in 1..Len(frames) - 1 : frames[i] \in S
      BY <1>1 DEF S
    <2>2. Len(frames) - 1 \in Int /\ 1 <= Len(frames) - 1
      <3> DEFINE n == Len(frames)
      <3>1. n \in Nat /\ n >= 1 /\ n # 1
        BY <1>1
      <3> HIDE DEF n
      <3>2. n - 1 \in Int /\ 1 <= n - 1
        BY <3>1
      <3> QED
        BY <3>2 DEF n
    <2>3. /\ SubSeq(frames, 1, Len(frames) - 1) \in Seq(S)
          /\ Len(SubSeq(frames, 1, Len(frames) - 1)) = IF 1 <= Len(frames) - 1 THEN (Len(frames) - 1) - 1 + 1 ELSE 0
          /\ \A i \in 1..(Len(frames) - 1) - 1 + 1 : SubSeq(frames, 1, Len(frames) - 1)[i] = frames[1 + i - 1]
      BY <2>1, <2>2, SubSeqProperties
    <2> HIDE DEF f
    <2> QED
      BY <1>1, <1>2, <2>2, <2>3
  <1>4. f # << >> /\ \A i \in 1..Len(f) : f[i].missed => f[i].from = {text}
    BY <1>1, <1>3
  <1> QED
    BY <1>3, <1>4 DEF FramesFrom, FrameOf, S

\* A caller in a derived call holds a text and has frames of it.
LEMMA DerivingCall ==
    ASSUME SnapshotsInv, NEW c \in Callers, Deriving(c)
    PROVE  /\ calls[c] # Idle /\ calls[c].at = "derive" /\ IsCall(calls[c])
           /\ calls[c].question.ask = "derive" /\ Held(c) \in 1..Len(generations)
           /\ FramesFrom(Frames(c), Snapshot(c).text)
  <1>1. CallOf(calls[c], generations) /\ calls[c].at = "derive"
    BY DEF SnapshotsInv, CallsOK, Deriving
  <1>2. calls[c] # Idle
    BY <1>1 DEF Idle
  <1>3. IsCall(calls[c]) /\ calls[c].document \in 1..Len(generations) /\ CallAt(calls[c], generations[calls[c].document])
    BY <1>1, <1>2, CallCases
  <1>4. /\ calls[c].question.ask = "derive"
        /\ FramesFrom(calls[c].frames, generations[calls[c].document].text)
    BY <1>1, <1>3 DEF CallAt
  <1> QED
    BY <1>1, <1>2, <1>3, <1>4 DEF Held, Frames, Snapshot

\* Other frames of its text: nothing is seen of it.
LEMMA FramesMove ==
    ASSUME SnapshotsInv, GenerationsOK', generations' = generations, NEW c \in Callers, Deriving(c),
           NEW frames, FramesFrom(frames, Snapshot(c).text),
           calls' = [calls EXCEPT ![c] = [calls[c] EXCEPT !.frames = frames]]
    PROVE  SnapshotsInv' /\ ValuesStep
  <1> DEFINE q == Framed(calls[c], frames)
  <1>1. /\ calls[c] # Idle /\ calls[c].at = "derive" /\ IsCall(calls[c])
        /\ calls[c].question.ask = "derive"
    BY DerivingCall
  <1>2. [calls[c] EXCEPT !.frames = frames] = q
    BY <1>1, CallUpdates
  <1>3. calls' = [calls EXCEPT ![c] = q]
    BY <1>2
  <1>4. /\ IsCall(q) /\ q.question = calls[c].question /\ q.document = calls[c].document
        /\ q.at = "derive" /\ q.frames = frames
    BY <1>1, UpdatedFields
  <1> HIDE DEF q
  <1>5. CallAt(q, Snapshot(c))
    BY <1>1, <1>4 DEF CallAt
  <1> QED
    BY <1>1, <1>3, <1>4, <1>5, CallMoves

\* An answer of the snapshot.
LEMMA AnswerMoves ==
    ASSUME SnapshotsInv, GenerationsOK', generations' = generations, NEW c \in Callers,
           calls[c] # Idle, calls[c].at # "returned",
           NEW result \in AnswersOf(calls[c].question, Snapshot(c)), calls' = With(c, "returned", result)
    PROVE  SnapshotsInv' /\ ValuesStep
  <1> DEFINE q == Answered(calls[c], "returned", result)
  <1>1. IsCall(calls[c])
    BY CallCases DEF SnapshotsInv, CallsOK
  <1>3. calls' = [calls EXCEPT ![c] = q]
    BY <1>1, WithUpdates
  <1>4. /\ IsCall(q) /\ q.question = calls[c].question /\ q.document = calls[c].document
        /\ q.at = "returned" /\ q.result = result
    BY UpdatedFields DEF q
  <1> HIDE DEF q
  <1>5. CallAt(q, Snapshot(c))
    BY <1>4 DEF CallAt
  <1> QED
    BY <1>3, <1>4, <1>5, CallMoves

\* The innermost derived call returns a value of its text.
LEMMA DeliveredMoves ==
    ASSUME SnapshotsInv, GenerationsOK', generations' = generations, NEW c \in Callers, Deriving(c),
           calls' = Delivered(c, {Snapshot(c).text})
    PROVE  SnapshotsInv' /\ ValuesStep
  <1> DEFINE text == Snapshot(c).text
             outer == Front(Frames(c))
             x == [outer[Len(outer)] EXCEPT !.from = @ \cup {text}]
  <1>1. /\ calls[c] # Idle /\ calls[c].at = "derive" /\ IsCall(calls[c])
        /\ calls[c].question.ask = "derive" /\ FramesFrom(Frames(c), text)
    BY DerivingCall
  <1>2. CASE Len(Frames(c)) = 1
    <2>1. calls' = With(c, "returned", [from |-> {text}])
      BY <1>2 DEF Delivered
    <2>2. [from |-> {text}] \in AnswersOf(calls[c].question, Snapshot(c))
      BY <1>1, AnswersByAsk
    <2> QED
      BY <1>1, <2>1, <2>2, AnswerMoves
  <1>3. CASE Len(Frames(c)) # 1
    <2>1. FramesFrom(outer, text)
      BY <1>1, <1>3, FramePopped
    <2> HIDE DEF outer
    <2>2. /\ Len(outer) \in DOMAIN outer /\ outer[Len(outer)] \in FrameOf(text)
          /\ outer[Len(outer)].missed => outer[Len(outer)].from = {text}
      BY <2>1, FramesSound
    <2>3. x \in FrameOf(text) /\ (x.missed => x.from = {text})
      BY <2>2 DEF FrameOf
    <2>4. FramesFrom([outer EXCEPT ![Len(outer)] = x], text)
      BY <2>1, <2>3, FrameReplaced
    <2>5. calls' = [calls EXCEPT ![c] = [calls[c] EXCEPT !.frames = [outer EXCEPT ![Len(outer)] = x]]]
      <3> DEFINE f == [outer EXCEPT ![Len(outer)] = x]
      <3>1. f = [outer EXCEPT ![Len(outer)].from = @ \cup {text}]
        OBVIOUS
      <3>2. calls' = [calls EXCEPT ![c].frames = f]
        BY <1>3, <3>1, Zenon DEF Delivered, outer
      <3> HIDE DEF f
      <3>3. calls' = [calls EXCEPT ![c] = [calls[c] EXCEPT !.frames = f]]
        BY <3>2
      <3> QED
        BY <3>3 DEF f
    <2> QED
      BY <2>4, <2>5, FramesMove
  <1> QED
    BY <1>2, <1>3

LEMMA GenerationsKept ==
    ASSUME GenerationsOK, UNCHANGED <<generations, memo, compiled>>
    PROVE  GenerationsOK'
  BY DEF GenerationsOK

LEMMA DerivedSteps ==
    ASSUME SnapshotsInv, NEW c \in Callers
    PROVE  /\ Found(c) => SnapshotsInv' /\ ValuesStep
           /\ Missed(c) => SnapshotsInv' /\ ValuesStep
           /\ Nests(c) => SnapshotsInv' /\ ValuesStep
           /\ Memoizes(c) => SnapshotsInv' /\ ValuesStep
           /\ Panics(c) => SnapshotsInv' /\ ValuesStep
  <1>0. GenerationsOK
    BY DEF SnapshotsInv
  <1> DEFINE d == Held(c)
             text == Snapshot(c).text
             frames == Frames(c)
             frame == Last(Frames(c))
  <1>a. ASSUME Deriving(c)
        PROVE  /\ d \in 1..Len(generations) /\ text = generations[d].text
               /\ FramesFrom(frames, text) /\ frame \in FrameOf(text)
               /\ frame = frames[Len(frames)] /\ Len(frames) \in DOMAIN frames
               /\ frame.missed => frame.from = {text}
    <2>1. d \in 1..Len(generations) /\ FramesFrom(frames, text)
      BY <1>a, DerivingCall
    <2>2. text = generations[d].text
      BY DEF Snapshot
    <2>3. /\ frame = frames[Len(frames)] /\ frame \in FrameOf(text) /\ Len(frames) \in DOMAIN frames
          /\ frame.missed => frame.from = {text}
      BY <2>1, FramesSound
    <2> QED
      BY <2>1, <2>2, <2>3
  <1>1. ASSUME Found(c)
        PROVE  SnapshotsInv' /\ ValuesStep
    <2>1. /\ Deriving(c) /\ frame.type \in DOMAIN memo[d] /\ UNCHANGED <<generations, memo, compiled>>
          /\ calls' = Delivered(c, memo[d][frame.type])
      BY <1>1 DEF Found
    <2>2. memo[d][frame.type] = {text}
      BY <1>0, <1>a, <2>1 DEF GenerationsOK
    <2>3. calls' = Delivered(c, {Snapshot(c).text})
      BY <2>1, <2>2
    <2>4. GenerationsOK' /\ generations' = generations
      BY <1>0, <2>1, GenerationsKept
    <2> QED
      BY <2>1, <2>3, <2>4, DeliveredMoves
  <1>2. ASSUME Missed(c)
        PROVE  SnapshotsInv' /\ ValuesStep
    <2> DEFINE x == [frame EXCEPT !.missed = TRUE, !.from = {text}]
               f == [frames EXCEPT ![Len(frames)] = x]
    <2>1. /\ Deriving(c) /\ UNCHANGED <<generations, memo, compiled>>
          /\ calls' = [calls EXCEPT ![c].frames[Len(frames)] = [@ EXCEPT !.missed = TRUE, !.from = {generations[d].text}]]
      BY <1>2 DEF Missed
    <2>2. x \in FrameOf(text) /\ (x.missed => x.from = {text})
      BY <1>a, <2>1 DEF FrameOf
    <2>3. FramesFrom(f, text)
      BY <1>a, <2>1, <2>2, FrameReplaced
    <2>4. calls' = [calls EXCEPT ![c] = [calls[c] EXCEPT !.frames = f]]
      <3>1. calls' = [calls EXCEPT ![c].frames[Len(frames)] = [frame EXCEPT !.missed = TRUE, !.from = {text}]]
        BY <1>a, <2>1 DEF Frames
      <3> HIDE DEF x, frame, frames, text
      <3>2. calls' = [calls EXCEPT ![c].frames[Len(frames)] = x]
        BY <3>1 DEF x
      <3>3. calls' = [calls EXCEPT ![c] = [calls[c] EXCEPT !.frames = [calls[c].frames EXCEPT ![Len(frames)] = x]]]
        BY <3>2
      <3> QED
        BY <3>3 DEF frames, Frames
    <2>5. GenerationsOK' /\ generations' = generations
      BY <1>0, <2>1, GenerationsKept
    <2> QED
      BY <2>1, <2>3, <2>4, <2>5, FramesMove
  <1>3. ASSUME Nests(c)
        PROVE  SnapshotsInv' /\ ValuesStep
    <2>1. PICK type \in frame.needs :
             calls' = [calls EXCEPT ![c].frames =
                          Append([frames EXCEPT ![Len(frames)].needs = @ \ {type}], Frame(type))]
      BY <1>3 DEF Nests
    <2>2. Deriving(c) /\ UNCHANGED <<generations, memo, compiled>>
      BY <1>3 DEF Nests
    <2> DEFINE x == [frame EXCEPT !.needs = @ \ {type}]
               f == [frames EXCEPT ![Len(frames)] = x]
               g == Append(f, Frame(type))
    <2>3. x \in FrameOf(text) /\ (x.missed => x.from = {text})
      BY <1>a, <2>2 DEF FrameOf
    <2>4. FramesFrom(f, text)
      BY <1>a, <2>2, <2>3, FrameReplaced
    <2>5. Frame(type) \in FrameOf(text) /\ ~Frame(type).missed
      <3>1. type \in Types
        BY <1>a, <2>1, <2>2 DEF FrameOf
      <3>2. Needs[type] \in SUBSET Types
        BY <3>1, DerivedAssumption DEF DerivedAssumption
      <3> QED
        BY <3>1, <3>2 DEF Frame, FrameOf
    <2>6. FramesFrom(g, text)
      <3> HIDE DEF f
      <3> QED
        BY <2>4, <2>5, FramePushed
    <2>7. calls' = [calls EXCEPT ![c] = [calls[c] EXCEPT !.frames = g]]
      <3>1. f = [frames EXCEPT ![Len(frames)].needs = @ \ {type}]
        BY <1>a, <2>2
      <3>2. calls' = [calls EXCEPT ![c].frames = g]
        BY <2>1, <3>1
      <3> HIDE DEF g
      <3> QED
        BY <3>2
    <2>8. GenerationsOK' /\ generations' = generations
      BY <1>0, <2>2, GenerationsKept
    <2> HIDE DEF g
    <2> QED
      BY <2>2, <2>6, <2>7, <2>8, FramesMove
  <1>4. ASSUME Memoizes(c)
        PROVE  SnapshotsInv' /\ ValuesStep
    <2>1. /\ Deriving(c) /\ frame.missed /\ UNCHANGED <<generations, compiled>>
          /\ memo' = [memo EXCEPT ![d] =
                         [t \in DOMAIN @ \cup {frame.type} |-> IF t = frame.type THEN frame.from ELSE @[t]]]
          /\ calls' = Delivered(c, frame.from)
      BY <1>4 DEF Memoizes
    <2>2. frame.from = {text} /\ frame.type \in Types /\ text \in Seq(String)
      <3>1. text \in Chunks
        BY <1>0, <1>a, <2>1, SnapshotTypes
      <3> QED
        BY <1>a, <2>1, <3>1 DEF FrameOf, Chunks
    <2>3. calls' = Delivered(c, {Snapshot(c).text})
      BY <2>1, <2>2
    <2> DEFINE m == [t \in DOMAIN memo[d] \cup {frame.type} |-> IF t = frame.type THEN {text} ELSE memo[d][t]]
    <2>4. m \in Memos /\ \A t \in DOMAIN m : m[t] = {generations[d].text}
      <3>1. memo[d] \in Memos /\ \A t \in DOMAIN memo[d] : memo[d][t] = {generations[d].text}
        BY <1>0, <1>a, <2>1, ElementOfSeq DEF GenerationsOK
      <3>2. DOMAIN memo[d] \in SUBSET Types
        BY <3>1 DEF Memos
      <3>3. \A t \in DOMAIN m : m[t] = {generations[d].text}
        BY <1>a, <2>1, <3>1
      <3>4. m \in [DOMAIN memo[d] \cup {frame.type} -> SUBSET Seq(String)]
        BY <1>a, <2>1, <2>2, <3>1
      <3> HIDE DEF m
      <3>5. m \in Memos
        BY <2>2, <3>2, <3>4 DEF Memos
      <3> QED
        BY <3>3, <3>5
    <2>5. memo' = [memo EXCEPT ![d] = m]
      BY <2>1, <2>2
    <2> HIDE DEF m
    <2>6. GenerationsOK'
      <3>1. /\ memo \in Seq(Memos) /\ Len(memo) = Len(generations) /\ Len(memo) \in Nat
            /\ \A g \in 1..Len(generations) : \A t \in DOMAIN memo[g] : memo[g][t] = {generations[g].text}
        BY <1>0, LenProperties DEF GenerationsOK
      <3>a. d \in 1..Len(memo)
        BY <1>a, <2>1, <3>1
      <3>b. m \in Memos
        BY <2>4
      <3> HIDE DEF d
      <3>2. memo' \in Seq(Memos) /\ Len(memo') = Len(memo)
        <4> DEFINE S == Memos
                   all == [memo EXCEPT ![d] = m]
        <4> HIDE DEF S
        <4>1. memo \in Seq(S) /\ m \in S
          BY <3>1, <3>b DEF S
        <4>2. all \in Seq(S) /\ Len(all) = Len(memo)
          BY <4>1, <3>a
        <4> QED
          BY <2>5, <4>2 DEF S
      <3>3. \A g \in 1..Len(generations) : memo'[g] = IF g = d THEN m ELSE memo[g]
        BY <2>5, <3>1
      <3>4. \A g \in 1..Len(generations) : \A t \in DOMAIN memo'[g] : memo'[g][t] = {generations[g].text}
        BY <2>4, <3>1, <3>3
      <3> QED
        BY <1>0, <2>1, <3>1, <3>2, <3>4 DEF GenerationsOK
    <2> QED
      BY <2>1, <2>3, <2>6, DeliveredMoves
  <1>5. ASSUME Panics(c)
        PROVE  SnapshotsInv' /\ ValuesStep
    <2>1. /\ MayPanic /\ Deriving(c) /\ UNCHANGED <<generations, memo, compiled>>
          /\ calls' = With(c, "returned", Panicked)
      BY <1>5 DEF Panics
    <2>2. calls[c] # Idle /\ calls[c].at = "derive" /\ calls[c].question.ask = "derive"
      BY <2>1, DerivingCall
    <2>3. Panicked \in AnswersOf(calls[c].question, Snapshot(c))
      BY <2>1, <2>2, AnswersByAsk
    <2>4. GenerationsOK' /\ generations' = generations
      BY <1>0, <2>1, GenerationsKept
    <2> QED
      BY <2>1, <2>2, <2>3, <2>4, AnswerMoves
  <1> QED
    BY <1>1, <1>2, <1>3, <1>4, <1>5

LEMMA QuerySteps ==
    ASSUME SnapshotsInv, NEW c \in Callers
    PROVE  /\ FindsNoTree(c) => SnapshotsInv' /\ ValuesStep
           /\ RunsCached(c) => SnapshotsInv' /\ ValuesStep
           /\ CompileFails(c) => SnapshotsInv' /\ ValuesStep
           /\ CompilesQuery(c) => SnapshotsInv' /\ ValuesStep
           /\ InsertsQuery(c) => SnapshotsInv' /\ ValuesStep
  <1> DEFINE d == Snapshot(c)
             question == calls[c].question
             wanted == Wanted(c)
  <1>0. /\ GenerationsOK /\ CallOf(calls[c], generations)
        /\ (UNCHANGED <<generations, memo, compiled>> => GenerationsOK' /\ generations' = generations)
    <2>1. GenerationsOK /\ CallOf(calls[c], generations)
      BY DEF SnapshotsInv, CallsOK
    <2> QED
      BY <2>1, GenerationsKept
  <1>a. wanted = <<d.matcher, question.source>>
    BY DEF Wanted
  <1>b. ASSUME calls[c].at \in {"query", "compiled"}
        PROVE  /\ calls[c] # Idle /\ IsCall(calls[c]) /\ question.ask = "query"
               /\ calls[c].at = "compiled" => d.parsed /\ wanted \in Compiles
    <2>1. calls[c] # Idle
      BY <1>b DEF Idle
    <2>2. IsCall(calls[c]) /\ CallAt(calls[c], d)
      BY <1>0, <2>1, CallCases DEF Snapshot, Held
    <2> QED
      BY <1>b, <1>a, <2>1, <2>2 DEF CallAt
  <1>1. ASSUME FindsNoTree(c)
        PROVE  SnapshotsInv' /\ ValuesStep
    <2>1. /\ calls[c].at = "query" /\ ~d.parsed /\ UNCHANGED <<generations, memo, compiled>>
          /\ calls' = With(c, "returned", Failed("NoTree"))
      BY <1>1 DEF FindsNoTree, Querying
    <2>2. Failed("NoTree") \in AnswersOf(question, d)
      BY <1>b, <2>1, AnswersByAsk
    <2> QED
      BY <1>0, <1>b, <2>1, <2>2, AnswerMoves
  <1>2. ASSUME RunsCached(c)
        PROVE  SnapshotsInv' /\ ValuesStep
    <2>1. /\ calls[c].at = "query" /\ d.parsed /\ wanted \in compiled /\ UNCHANGED <<generations, memo, compiled>>
          /\ calls' = With(c, "returned", Captures(c, wanted))
      BY <1>2 DEF RunsCached, Querying
    <2>2. wanted \in Compiles
      BY <1>0, <2>1 DEF GenerationsOK
    <2>3. Captures(c, wanted) \in AnswersOf(question, d)
      BY <1>a, <1>b, <2>1, <2>2, AnswersByAsk DEF Captures
    <2> QED
      BY <1>0, <1>b, <2>1, <2>3, AnswerMoves
  <1>3. ASSUME CompileFails(c)
        PROVE  SnapshotsInv' /\ ValuesStep
    <2>1. /\ calls[c].at = "query" /\ d.parsed /\ wanted \notin Compiles /\ UNCHANGED <<generations, memo, compiled>>
          /\ calls' = With(c, "returned", Failed("InvalidQuery"))
      BY <1>3 DEF CompileFails, Querying
    <2>2. Failed("InvalidQuery") \in AnswersOf(question, d)
      BY <1>a, <1>b, <2>1, AnswersByAsk
    <2> QED
      BY <1>0, <1>b, <2>1, <2>2, AnswerMoves
  <1>4. ASSUME CompilesQuery(c)
        PROVE  SnapshotsInv' /\ ValuesStep
    <2> DEFINE q == Answered(calls[c], "compiled", calls[c].result)
    <2>1. /\ calls[c].at = "query" /\ d.parsed /\ wanted \in Compiles /\ UNCHANGED <<generations, memo, compiled>>
          /\ calls' = [calls EXCEPT ![c].at = "compiled"]
      BY <1>4 DEF CompilesQuery, Querying
    <2>2. [calls[c] EXCEPT !.at = "compiled"] = q
      BY <1>b, <2>1, CallUpdates
    <2>3. calls' = [calls EXCEPT ![c] = [calls[c] EXCEPT !.at = "compiled"]]
      BY <2>1
    <2>4. /\ IsCall(q) /\ q.question = question /\ q.document = calls[c].document /\ q.at = "compiled"
      BY UpdatedFields
    <2> HIDE DEF q
    <2>5. calls' = [calls EXCEPT ![c] = q]
      BY <2>2, <2>3
    <2>6. CallAt(q, d)
      BY <1>a, <1>b, <2>1, <2>4 DEF CallAt
    <2>7. calls[c] # Idle /\ calls[c].at # "returned" /\ GenerationsOK' /\ generations' = generations
      BY <1>0, <1>b, <2>1
    <2> QED
      BY <2>4, <2>5, <2>6, <2>7, CallMoves
  <1>5. ASSUME InsertsQuery(c)
        PROVE  SnapshotsInv' /\ ValuesStep
    <2>1. /\ calls[c].at = "compiled" /\ compiled' = compiled \cup {wanted} /\ UNCHANGED <<generations, memo>>
          /\ calls' = With(c, "returned", Captures(c, wanted))
      BY <1>5 DEF InsertsQuery
    <2>2. d.parsed /\ wanted \in Compiles /\ question.ask = "query" /\ calls[c] # Idle
      BY <1>b, <2>1
    <2>3. Captures(c, wanted) \in AnswersOf(question, d)
      BY <1>a, <2>2, AnswersByAsk DEF Captures
    <2>4. GenerationsOK' /\ generations' = generations
      BY <1>0, <2>1, <2>2 DEF GenerationsOK
    <2> QED
      BY <2>1, <2>2, <2>3, <2>4, AnswerMoves
  <1> QED
    BY <1>1, <1>2, <1>3, <1>4, <1>5

LEMMA ReadSteps ==
    ASSUME SnapshotsInv, NEW c \in Callers, NEW size \in Nat, Reads(c, size)
    PROVE  SnapshotsInv' /\ ValuesStep
  <1> DEFINE r == calls[c]
             text == Snapshot(c).text
             reader == Filled(r, size)
  <1>1. /\ r.at = "read" /\ UNCHANGED <<generations, memo, compiled>>
        /\ calls' = [calls EXCEPT ![c] =
              IF size > 0 /\ reader.bytes = r.bytes
              THEN [reader EXCEPT !.at = "returned", !.result = [bytes |-> reader.bytes]] ELSE reader]
    BY DEF Reads
  <1>2. GenerationsOK /\ CallOf(r, generations) /\ GenerationsOK' /\ generations' = generations
    BY <1>1, GenerationsKept DEF SnapshotsInv, CallsOK
  <1>3. r # Idle
    BY <1>1 DEF Idle
  <1>4. IsCall(r) /\ Held(c) \in 1..Len(generations) /\ CallAt(r, Snapshot(c))
    BY <1>2, <1>3, CallCases DEF Snapshot, Held
  <1>5. r.question.ask = "read" /\ ReaderAt(r, text)
    BY <1>1, <1>4 DEF CallAt
  <1>6. text \in Chunks
    BY <1>2, <1>4, SnapshotTypes DEF Snapshot
  <1>7. /\ ReaderAt(reader, text) /\ CarriedFrom(r, reader)
        /\ size > 0 /\ reader.bytes = r.bytes => reader.bytes = FlattenSeq(text)
    BY <1>4, <1>5, <1>6, FilledReads
  <1> HIDE DEF reader
  <1>8. /\ IsCall(reader) /\ reader.at = "read" /\ reader.question = r.question
        /\ reader.document = r.document
    <2>1. PICK chunks, current, offset, carried : reader = Carried(r, chunks, current, offset, carried)
      BY <1>7 DEF CarriedFrom
    <2> QED
      BY <1>1, <2>1, CarriedFields
  <1>9. CASE size > 0 /\ reader.bytes = r.bytes
    <2> DEFINE q == Answered(reader, "returned", [bytes |-> reader.bytes])
    <2>1. calls' = [calls EXCEPT ![c] = [reader EXCEPT !.at = "returned", !.result = [bytes |-> reader.bytes]]]
      BY <1>1, <1>9
    <2>2. [reader EXCEPT !.at = "returned", !.result = [bytes |-> reader.bytes]] = q
      <3>1. ReturnedWith(reader, "returned", [bytes |-> reader.bytes]) = q
        BY <1>8, ReturnUpdates
      <3> HIDE DEF q
      <3> QED
        BY <3>1 DEF ReturnedWith
    <2>3. /\ IsCall(q) /\ q.question = r.question /\ q.document = r.document
          /\ q.at = "returned" /\ q.result = [bytes |-> reader.bytes]
      BY <1>8, UpdatedFields
    <2> HIDE DEF q
    <2>4. calls' = [calls EXCEPT ![c] = q]
      BY <2>1, <2>2
    <2>5. [bytes |-> reader.bytes] \in AnswersOf(r.question, Snapshot(c))
      BY <1>5, <1>7, <1>9, AnswersByAsk
    <2>6. CallAt(q, Snapshot(c))
      BY <2>3, <2>5 DEF CallAt
    <2> QED
      BY <1>1, <1>2, <1>3, <2>3, <2>4, <2>6, CallMoves
  <1>10. CASE ~(size > 0 /\ reader.bytes = r.bytes)
    <2>1. calls' = [calls EXCEPT ![c] = reader]
      BY <1>1, <1>10
    <2>2. CallAt(reader, Snapshot(c))
      BY <1>5, <1>7, <1>8 DEF CallAt
    <2> QED
      BY <1>1, <1>2, <1>3, <1>8, <2>1, <2>2, CallMoves
  <1> QED
    BY <1>9, <1>10

\* Another generation in the store: every snapshot keeps what it holds.
LEMMA InstallStep ==
    ASSUME SnapshotsInv, NEW content \in Contents, NEW shared, Installs(content, shared)
    PROVE  SnapshotsInv' /\ ValuesStep
  <1>1. /\ generations' = Append(generations, content) /\ memo' = Append(memo, NoMemo)
        /\ UNCHANGED <<compiled, calls>>
    BY DEF Installs, FreshMemo
  <1>2. GenerationsOK /\ CallsOK
    BY DEF SnapshotsInv
  <1>3. /\ generations \in Seq(Contents) /\ generations # << >> /\ Len(generations) \in Nat
        /\ memo \in Seq(Memos) /\ Len(memo) = Len(generations)
        /\ \A g \in 1..Len(generations) : \A t \in DOMAIN memo[g] : memo[g][t] = {generations[g].text}
    BY <1>2, LenProperties DEF GenerationsOK
  <1>4. NoMemo \in Memos /\ DOMAIN NoMemo = {}
    <2>1. NoMemo \in [{} -> SUBSET Seq(String)] /\ {} \in SUBSET Types
      BY DEF NoMemo
    <2>2. DOMAIN NoMemo = {}
      BY DEF NoMemo
    <2> QED
      BY <2>1, <2>2 DEF Memos
  <1>5. /\ generations' \in Seq(Contents) /\ generations' # << >> /\ Len(generations') = Len(generations) + 1
        /\ generations'[Len(generations) + 1] = content
        /\ \A g \in 1..Len(generations) : generations'[g] = generations[g]
    BY <1>1, <1>3
  <1>6. /\ memo' \in Seq(Memos) /\ Len(memo') = Len(memo) + 1 /\ memo'[Len(memo) + 1] = NoMemo
        /\ \A g \in 1..Len(memo) : memo'[g] = memo[g]
    BY <1>1, <1>3, <1>4
  <1>7. \A g \in 1..Len(generations') : \A t \in DOMAIN memo'[g] : memo'[g][t] = {generations'[g].text}
    <2>1. TAKE g \in 1..Len(generations')
    <2>2. g \in 1..Len(generations) \/ g = Len(generations) + 1
      BY <1>3, <1>5
    <2>3. CASE g \in 1..Len(generations)
      BY <1>3, <1>5, <1>6, <2>3
    <2>4. CASE g = Len(generations) + 1
      BY <1>3, <1>4, <1>6, <2>4
    <2> QED
      BY <2>2, <2>3, <2>4
  <1>8. GenerationsOK'
    BY <1>1, <1>2, <1>3, <1>5, <1>6, <1>7 DEF GenerationsOK
  <1>9. \A c \in Callers : CallOf(calls[c], generations)
    BY <1>2 DEF CallsOK
  <1>10. ASSUME NEW c \in Callers
         PROVE  /\ CallOf(calls[c], generations')
                /\ AskedOf(calls[c], generations') = AskedOf(calls[c], generations)
    <2>1. CASE calls[c] = Idle
      BY <2>1 DEF CallOf, AskedOf
    <2>2. CASE calls[c] # Idle
      <3>1. /\ IsCall(calls[c]) /\ calls[c].question \in Questions /\ calls[c].document \in 1..Len(generations)
            /\ CallAt(calls[c], generations[calls[c].document])
        BY <1>9, <2>2, CallCases
      <3>2. /\ calls[c].document \in 1..Len(generations')
            /\ generations'[calls[c].document] = generations[calls[c].document]
        BY <1>3, <1>5, <3>1
      <3> QED
        BY <2>2, <3>1, <3>2 DEF CallOf, AskedOf
    <2> QED
      BY <2>1, <2>2
  <1>11. CallsOK'
    BY <1>1, <1>2, <1>10 DEF CallsOK
  <1>12. Last(generations') \in Contents
    BY <1>3, <1>5 DEF Last
  <1>13. Values!Written
    <2> DEFINE asked == [b \in Callers |-> AskedOf(calls[b], generations)]
               asked1 == [b \in Callers |-> AskedOf(calls[b], generations')]
    <2>1. asked1 = asked
      BY <1>10
    <2>2. asked' = asked1
      BY <1>1
    <2> QED
      BY <1>1, <1>12, <2>1, <2>2 DEF Values!Written, AskedOf, Snapshot, Held
  <1> QED
    BY <1>8, <1>11, <1>13, Zenon DEF SnapshotsInv, ValuesStep, Values!ValuesNext

LEMMA AskStep ==
    ASSUME SnapshotsInv, NEW c \in Callers, Asked(c)
    PROVE  SnapshotsInv' /\ ValuesStep
  <1>1. PICK question \in Questions :
           calls' = [calls EXCEPT ![c] =
              [at |-> question.ask, question |-> question, document |-> Latest,
               frames |-> IF question.ask = "derive" THEN <<Frame(question.type)>> ELSE << >>,
               chunks |-> generations[Latest].text, current |-> << >>, offset |-> 0,
               bytes |-> << >>, result |-> NoOne]]
    BY DEF Asked
  <1> DEFINE frames == IF question.ask = "derive" THEN <<Frame(question.type)>> ELSE << >>
             text == generations[Latest].text
             q == Call(question.ask, question, Latest, frames, text, << >>, 0, << >>, NoOne)
             asked  == [b \in Callers |-> AskedOf(calls[b], generations)]
             answer == [b \in Callers |-> AnswerOf(calls[b])]
  <1>2. /\ calls[c] = Idle /\ UNCHANGED <<generations, memo, compiled>>
        /\ GenerationsOK /\ CallsOK /\ GenerationsOK'
    BY GenerationsKept DEF Asked, SnapshotsInv
  <1>3. calls' = [calls EXCEPT ![c] = q]
    BY <1>1, Zenon DEF Call
  <1>4. /\ q.at = question.ask /\ q.question = question /\ q.document = Latest /\ q.frames = frames
        /\ q.chunks = text /\ q.current = << >> /\ q.bytes = << >> /\ IsCall(q)
    <2> HIDE DEF frames, text
    <2>1. IsCall(q)
      BY Zenon DEF IsCall
    <2> QED
      BY <2>1, CallFields
  <1>5. Latest \in 1..Len(generations) /\ Last(generations) = generations[Latest]
    <2>1. Len(generations) \in Nat /\ Len(generations) # 0
      BY <1>2, LenProperties, EmptySeq DEF GenerationsOK
    <2> QED
      BY <2>1 DEF Latest, Last
  <1>6. text \in Chunks /\ generations[Latest] \in Contents
    BY <1>2, <1>5, SnapshotTypes
  <1> HIDE DEF q
  <1>7. CallAt(q, generations[Latest])
    <2>1. question.ask \in {"derive", "query", "read"} /\ (question.ask = "derive" => question.type \in Types)
      BY DEF Questions
    <2>2. CASE question.ask = "derive"
      <3>1. Needs[question.type] \in SUBSET Types
        BY <2>1, <2>2, DerivedAssumption DEF DerivedAssumption
      <3> DEFINE x == Frame(question.type)
      <3>2. x \in FrameOf(text) /\ ~x.missed
        BY <2>1, <2>2, <3>1 DEF Frame, FrameOf
      <3> HIDE DEF x
      <3>3. <<x>> \in Seq(FrameOf(text)) /\ <<x>> # << >> /\ Len(<<x>>) = 1 /\ <<x>>[1] = x
        BY <3>2
      <3>4. FramesFrom(<<x>>, text)
        BY <3>2, <3>3 DEF FramesFrom, FrameOf
      <3>5. FramesFrom(q.frames, text)
        BY <1>4, <2>2, <3>4 DEF x
      <3> QED
        BY <1>4, <2>2, <3>5 DEF CallAt
    <2>3. CASE question.ask = "query"
      BY <1>4, <2>3 DEF CallAt
    <2>4. CASE question.ask = "read"
      <3>1. text \in Seq(String) /\ Len(text) \in Nat
        BY <1>6 DEF Chunks
      <3>2. SubSeq(text, 0 + 1, Len(text)) = text
        BY <3>1, SubSeqFull
      <3>a. IsTextUpto(text, TextUpto(text))
        BY <1>6, TextsOfChunks
      <3>3. TextUpto(text)[0] = << >> /\ 0 \in 0..Len(text)
        <4> HIDE DEF text
        <4> QED
          BY <3>1, <3>a DEF IsTextUpto
      <3>4. q.chunks = SubSeq(text, 0 + 1, Len(text)) /\ q.current = << >> /\ q.bytes = TextUpto(text)[0]
        BY <1>4, <3>2, <3>3
      <3>5. ReaderAt(q, text)
        BY <3>3, <3>4 DEF ReaderAt
      <3> QED
        BY <1>4, <2>4, <3>5 DEF CallAt
    <2> QED
      BY <2>1, <2>2, <2>3, <2>4
  <1>8. calls = [b \in Callers |-> calls[b]] /\ \A b \in Callers : CallOf(calls[b], generations)
    BY <1>2 DEF CallsOK
  <1>9. calls' = [b \in Callers |-> IF b = c THEN q ELSE calls[b]]
    BY <1>3, <1>8
  <1>10. CallOf(q, generations)
    BY <1>4, <1>5, <1>7 DEF CallOf
  <1>11. SnapshotsInv'
    BY <1>2, <1>8, <1>9, <1>10 DEF SnapshotsInv, CallsOK
  <1> DEFINE asked1  == [b \in Callers |-> AskedOf(IF b = c THEN q ELSE calls[b], generations)]
             answer1 == [b \in Callers |-> AnswerOf(IF b = c THEN q ELSE calls[b])]
  <1>12. q.at \in {"derive", "query", "read"} /\ q # Idle
    BY <1>4 DEF Questions, Idle
  <1>13. AskedOf(q, generations) = [content |-> Last(generations), question |-> question]
    BY <1>4, <1>5, <1>12 DEF AskedOf
  <1>14. asked[c] = NoOne /\ AnswerOf(q) = NoOne /\ answer[c] = NoOne
    BY <1>2, <1>12 DEF AskedOf, AnswerOf, Idle
  <1>15. asked1 = [asked EXCEPT ![c] = [content |-> Last(generations), question |-> question]]
    BY <1>13
  <1>16. answer1 = answer
    BY <1>14
  <1>17. asked' = asked1 /\ answer' = answer1 /\ UNCHANGED Last(generations)
    BY <1>2, <1>9
  <1> HIDE DEF asked1, answer1
  <1>18. /\ asked[c] = NoOne
         /\ \E k \in Questions : asked' = [asked EXCEPT ![c] = [content |-> Last(generations), question |-> k]]
         /\ UNCHANGED <<Last(generations), answer>>
    BY <1>14, <1>15, <1>16, <1>17
  <1>19. Values!Asks(c)
    BY <1>18, Zenon DEF Values!Asks, AskedOf, AnswerOf, Snapshot, Held
  <1> QED
    BY <1>11, <1>19, Zenon DEF ValuesStep, Values!ValuesNext

LEMMA ReturnStep ==
    ASSUME SnapshotsInv, NEW c \in Callers, Returned(c)
    PROVE  SnapshotsInv' /\ ValuesStep
  <1> DEFINE r == calls[c]
             asked  == [b \in Callers |-> AskedOf(calls[b], generations)]
             answer == [b \in Callers |-> AnswerOf(calls[b])]
             asked1  == [b \in Callers |-> AskedOf(IF b = c THEN Idle ELSE calls[b], generations)]
             answer1 == [b \in Callers |-> AnswerOf(IF b = c THEN Idle ELSE calls[b])]
  <1>1. /\ r.at = "returned" /\ calls' = [calls EXCEPT ![c] = Idle]
        /\ UNCHANGED <<generations, memo, compiled>> /\ GenerationsOK /\ GenerationsOK'
    BY GenerationsKept DEF Returned, SnapshotsInv
  <1>2. calls = [b \in Callers |-> calls[b]] /\ \A b \in Callers : CallOf(calls[b], generations)
    BY DEF SnapshotsInv, CallsOK
  <1>3. calls' = [b \in Callers |-> IF b = c THEN Idle ELSE calls[b]]
    BY <1>1, <1>2
  <1>4. SnapshotsInv'
    BY <1>1, <1>2, <1>3 DEF SnapshotsInv, CallsOK, CallOf
  <1>5. r # Idle
    BY <1>1 DEF Idle
  <1>6. /\ r.question \in Questions /\ r.document \in 1..Len(generations)
        /\ CallAt(r, generations[r.document])
    BY <1>2, <1>5, CallCases
  <1>7. generations[r.document] \in Contents
    BY <1>1, <1>6, SnapshotTypes
  <1>8. r.result \in AnswersOf(r.question, generations[r.document])
    BY <1>1, <1>6 DEF CallAt
  <1>9. answer[c] # NoOne
    BY <1>1, <1>6, <1>7, <1>8, NoOneIsNothing DEF AnswerOf
  <1>10. AskedOf(Idle, generations) = NoOne /\ AnswerOf(Idle) = NoOne
    BY DEF AskedOf, AnswerOf, Idle
  <1>11. asked1 = [asked EXCEPT ![c] = NoOne] /\ answer1 = [answer EXCEPT ![c] = NoOne]
    BY <1>10
  <1>12. asked' = asked1 /\ answer' = answer1 /\ UNCHANGED Last(generations)
    BY <1>1, <1>3
  <1> HIDE DEF asked1, answer1
  <1>13. /\ answer[c] # NoOne
         /\ asked' = [asked EXCEPT ![c] = NoOne] /\ answer' = [answer EXCEPT ![c] = NoOne]
         /\ UNCHANGED Last(generations)
    BY <1>9, <1>11, <1>12
  <1>14. Values!Leaves(c)
    BY <1>13, Zenon DEF Values!Leaves, AskedOf, AnswerOf, Snapshot, Held
  <1> QED
    BY <1>4, <1>14, Zenon DEF ValuesStep, Values!ValuesNext

LEMMA SnapshotsInit ==
    ASSUME DerivedInit
    PROVE  SnapshotsInv /\ Values!ValuesInit
  <1>1. PICK content \in Contents : generations = <<content>>
    BY DEF DerivedInit
  <1>2. memo = <<NoMemo>> /\ compiled = {} /\ calls = [c \in Callers |-> Idle]
    BY DEF DerivedInit
  <1>3. NoMemo \in Memos /\ DOMAIN NoMemo = {}
    <2>1. NoMemo \in [{} -> SUBSET Seq(String)] /\ {} \in SUBSET Types
      BY DEF NoMemo
    <2>2. DOMAIN NoMemo = {}
      BY DEF NoMemo
    <2> QED
      BY <2>1, <2>2 DEF Memos
  <1>4. /\ generations \in Seq(Contents) /\ generations # << >> /\ Len(generations) = 1
        /\ generations[1] = content
        /\ memo \in Seq(Memos) /\ Len(memo) = 1 /\ memo[1] = NoMemo
    BY <1>1, <1>2, <1>3
  <1>5. GenerationsOK
    BY <1>2, <1>3, <1>4 DEF GenerationsOK
  <1>6. CallsOK
    BY <1>2 DEF CallsOK, CallOf
  <1>7. /\ Last(generations) \in Contents
        /\ [c \in Callers |-> AskedOf(calls[c], generations)] = [c \in Callers |-> NoOne]
        /\ [c \in Callers |-> AnswerOf(calls[c])] = [c \in Callers |-> NoOne]
    BY <1>2, <1>4 DEF Last, AskedOf, AnswerOf, Idle
  <1>8. Values!ValuesInit
    BY <1>7, Zenon DEF Values!ValuesInit, AskedOf, AnswerOf, Snapshot, Held
  <1> QED
    BY <1>5, <1>6, <1>8 DEF SnapshotsInv

LEMMA SnapshotsStep ==
    ASSUME SnapshotsInv, [DerivedNext]_derivedVars
    PROVE  SnapshotsInv' /\ ValuesStep
  <1>1. CASE InstallsFromParts
    BY <1>1, InstallStep DEF InstallsFromParts
  <1>2. CASE InstallsFromSharedMeta
    BY <1>2, InstallStep DEF InstallsFromSharedMeta
  <1>3. ASSUME NEW c \in Callers, Asked(c)
        PROVE  SnapshotsInv' /\ ValuesStep
    BY <1>3, AskStep
  <1>4. ASSUME NEW c \in Callers, Steps(c)
        PROVE  SnapshotsInv' /\ ValuesStep
    <2>1. CASE Found(c) \/ Missed(c) \/ Nests(c) \/ Memoizes(c) \/ Panics(c)
      BY <2>1, DerivedSteps
    <2>2. CASE FindsNoTree(c) \/ RunsCached(c) \/ CompileFails(c) \/ CompilesQuery(c) \/ InsertsQuery(c)
      BY <2>2, QuerySteps
    <2>3. ASSUME NEW size \in Buffers \ {0}, Reads(c, size)
          PROVE  SnapshotsInv' /\ ValuesStep
      <3>1. size \in Nat
        BY DerivedAssumption DEF DerivedAssumption
      <3> QED
        BY <2>3, <3>1, ReadSteps
    <2> QED
      BY <1>4, <2>1, <2>2, <2>3 DEF Steps
  <1>5. ASSUME NEW c \in Callers, Returned(c)
        PROVE  SnapshotsInv' /\ ValuesStep
    BY <1>5, ReturnStep
  <1>6. ASSUME NEW c \in Callers, NEW size \in Buffers \cap {0}, Reads(c, size)
        PROVE  SnapshotsInv' /\ ValuesStep
    <2>1. size \in Nat
      OBVIOUS
    <2> QED
      BY <1>6, <2>1, ReadSteps
  <1>7. CASE UNCHANGED derivedVars
    <2>1. SnapshotsInv'
      BY <1>7 DEF derivedVars, SnapshotsInv, GenerationsOK, CallsOK
    <2>2. UNCHANGED Values!valueVars
      BY <1>7 DEF derivedVars, Values!valueVars, Snapshot, Held
    <2> QED
      BY <2>1, <2>2, Zenon DEF ValuesStep
  <1> QED
    BY <1>1, <1>2, <1>3, <1>4, <1>5, <1>6, <1>7 DEF DerivedNext

\* Document::derived, Document::query, DocumentReader::read: whatever is
\* written to a document, and whoever asks beside it, on however many threads,
\* a caller is answered from the snapshot it holds.  Derived values of another
\* generation, queries of another matcher and bytes of another text never get in.
THEOREM SnapshotsAnswer == DerivedSpec => AnswersAreTheSnapshots
  <1>1. DerivedInit => SnapshotsInv /\ Values!ValuesInit
    BY SnapshotsInit
  <1>2. SnapshotsInv /\ [DerivedNext]_derivedVars => SnapshotsInv' /\ [Values!ValuesNext]_(Values!valueVars)
    BY SnapshotsStep DEF ValuesStep
  <1> QED
    BY <1>1, <1>2, PTL DEF DerivedSpec, AnswersAreTheSnapshots, Values!ValuesSpec
=============================================================================
