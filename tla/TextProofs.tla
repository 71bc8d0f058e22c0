------------------------------ MODULE TextProofs ------------------------------
(***************************************************************************)
(* Proofs about TextEdits and TokenStream, for every text, every edit of a *)
(* batch the editor sends and every encoding: that the text of the         *)
(* document stays the editor's, that the syntax tree is told what          *)
(* happened, and that the semantic tokens a client puts together from full *)
(* replies and deltas are the ones of the text.                            *)
(***************************************************************************)
EXTENDS TokenStream, FiniteSetTheorems, FunctionTheorems, SequenceTheorems,
        WellFoundedInduction, NaturalsInduction, TLAPS

Characters == {"plain", "accented", "astral", "newline"}
Text == Seq(Characters)

LEMMA TextsAreTexts ==
    ASSUME TextAssumption
    PROVE  Texts \subseteq Text /\ Inserts \subseteq Texts
  <1>1. DOMAIN Bytes = Characters
    BY DEF Bytes, Characters
  <1> QED
    BY <1>1 DEF TextAssumption, Text

-----------------------------------------------------------------------------
(* Numbers *)

LEMMA LeastNumber ==
    ASSUME NEW T \in SUBSET Nat, T # {}
    PROVE  \E m \in T : \A k \in T : m <= k
  <1> DEFINE R == {pair \in Nat \X Nat : pair[1] < pair[2]}
  <1>1. IsWellFoundedOn(R, Nat)
    BY NatLessThanWellFounded, Zenon DEF OpToRel
  <1> HIDE DEF R
  <1>2. PICK m \in T : \A k \in T : <<k, m>> \notin R
    BY <1>1, WFMin
  <1>3. \A k \in T : ~(k < m)
    BY <1>2 DEF R
  <1> QED
    BY <1>3

LEMMA MaxIs ==
    ASSUME NEW S \in SUBSET Int, NEW m \in S, \A y \in S : y <= m
    PROVE  Max(S) = m
  <1>1. \A y \in S : m >= y
    OBVIOUS
  <1>2. Max(S) \in S /\ \A y \in S : Max(S) >= y
    BY <1>1 DEF Max
  <1>3. Max(S) \in Int /\ m \in Int /\ Max(S) <= m /\ m <= Max(S)
    BY <1>2
  <1> QED
    BY <1>3

LEMMA MinIs ==
    ASSUME NEW S \in SUBSET Int, NEW m \in S, \A y \in S : m <= y
    PROVE  Min(S) = m
  <1>2. Min(S) \in S /\ \A y \in S : Min(S) <= y
    BY DEF Min
  <1>3. Min(S) \in Int /\ m \in Int /\ Min(S) <= m /\ m <= Min(S)
    BY <1>2
  <1> QED
    BY <1>3

\* Of numbers up to a bound there is a greatest one.
LEMMA GreatestNumber ==
    ASSUME NEW b \in Nat, NEW S \in SUBSET (0..b), S # {}
    PROVE  Max(S) \in S /\ \A y \in S : y <= Max(S)
  <1> DEFINE T == {n \in Nat : \E i \in S : n = b - i}
  <1>1. T \in SUBSET Nat /\ T # {}
    <2>1. PICK i \in S : TRUE
      OBVIOUS
    <2>2. b - i \in Nat
      OBVIOUS
    <2>3. b - i \in T
      BY <2>2
    <2> QED
      BY <2>3
  <1>2. PICK n \in T : \A k \in T : n <= k
    BY <1>1, LeastNumber
  <1>3. PICK i \in S : n = b - i
    BY <1>2
  <1>4. ASSUME NEW j \in S
        PROVE  j <= i
    <2>1. b - j \in T
      OBVIOUS
    <2> QED
      BY <1>2, <1>3, <2>1
  <1>5. Max(S) = i
    BY <1>4, MaxIs
  <1> QED
    BY <1>4, <1>5

-----------------------------------------------------------------------------
(* Lengths *)

\* Where a character stands.
Places(s, ch) == {i \in 1..Len(s) : s[i] = ch}

LEMMA PlacesFinite ==
    ASSUME NEW s \in Text, NEW ch
    PROVE  /\ IsFiniteSet(Places(s, ch)) /\ Cardinality(Places(s, ch)) \in Nat
           /\ Cardinality(Places(s, ch)) = 0 <=> Places(s, ch) = {}
  <1>1. Places(s, ch) \in SUBSET (1..Len(s)) /\ Len(s) \in Nat
    BY DEF Places, Text
  <1>2. IsFiniteSet(1..Len(s))
    BY <1>1, FS_Interval
  <1>3. IsFiniteSet(Places(s, ch))
    BY <1>1, <1>2, FS_Subset
  <1> QED
    BY <1>3, FS_CardinalityType, FS_EmptySet

LEMMA PlacesConcat ==
    ASSUME NEW s \in Text, NEW t \in Text, NEW ch
    PROVE  Cardinality(Places(s \o t, ch)) = Cardinality(Places(s, ch)) + Cardinality(Places(t, ch))
  <1> DEFINE n == Len(s)
             A == Places(s, ch)
             B == Places(t, ch)
             C == {i \in n + 1 .. n + Len(t) : t[i - n] = ch}
             U == Places(s \o t, ch)
  <1>1. n \in Nat /\ Len(t) \in Nat /\ Len(s \o t) = n + Len(t)
    BY ConcatProperties DEF Text
  <1>2. \A i \in 1..n + Len(t) : (s \o t)[i] = IF i <= n THEN s[i] ELSE t[i - n]
    BY ConcatProperties DEF Text
  <1> HIDE DEF n
  <1>3. U = A \cup C
    BY <1>1, <1>2 DEF Places, n
  <1>4. A \cap C = {}
    BY <1>1 DEF Places, n
  <1>5. IsFiniteSet(B) /\ IsFiniteSet(A) /\ Cardinality(A) \in Nat /\ Cardinality(B) \in Nat
    BY PlacesFinite
  <1>6. IsFiniteSet(C) /\ Cardinality(C) = Cardinality(B)
    <2> DEFINE f == [i \in B |-> i + n]
    <2>1. f \in [B -> C]
      BY <1>1 DEF Places
    <2>2. \A i, j \in B : f[i] = f[j] => i = j
      BY <1>1 DEF Places
    <2>3. \A c \in C : \E i \in B : f[i] = c
      <3>1. TAKE c \in C
      <3>2. c - n \in B /\ f[c - n] = c
        BY <1>1 DEF Places
      <3> QED
        BY <3>2
    <2> HIDE DEF f, B, C
    <2>4. f \in Bijection(B, C)
      BY <2>1, <2>2, <2>3 DEF Bijection, Injection, Surjection, IsInjective
    <2>5. ExistsBijection(B, C)
      BY <2>4 DEF ExistsBijection
    <2> QED
      BY <1>5, <2>5, FS_Bijection
  <1>7. Cardinality(A \cap C) = 0
    BY <1>4, FS_EmptySet
  <1> HIDE DEF A, B, C, U
  <1> QED
    <2>1. Cardinality(A \cup C) = Cardinality(A) + Cardinality(C) - Cardinality(A \cap C)
      BY <1>5, <1>6, FS_Union
    <2>2. Cardinality(U) = Cardinality(A) + Cardinality(B)
      BY <1>3, <1>5, <1>6, <1>7, <2>1
    <2> QED
      BY <2>2 DEF A, B, U

Wide(ch, enc) == Width(ch, enc) - 1

LEMMA Widths ==
    ASSUME NEW enc
    PROVE  /\ \A ch \in Characters : Width(ch, enc) \in Nat /\ Width(ch, enc) >= 1
           /\ Width("plain", enc) = 1 /\ Width("newline", enc) = 1
           /\ Wide("accented", enc) \in Nat /\ Wide("astral", enc) \in Nat
           /\ \A ch : Width(ch, "utf-32") = 1
  BY DEF Width, Bytes, Units, Characters, Wide

LEMMA LengthIs ==
    ASSUME NEW s, NEW enc
    PROVE  Length(s, enc) = Len(s) + Wide("accented", enc) * Cardinality(Places(s, "accented"))
                                   + Wide("astral", enc) * Cardinality(Places(s, "astral"))
  BY DEF Length, Wide, Places

LEMMA LengthTypes ==
    ASSUME NEW s \in Text, NEW enc
    PROVE  Length(s, enc) \in Nat /\ Len(s) \in Nat /\ Len(s) <= Length(s, enc)
  <1> DEFINE a == Wide("accented", enc)
             b == Wide("astral", enc)
             m == Cardinality(Places(s, "accented"))
             n == Cardinality(Places(s, "astral"))
  <1>1. a \in Nat /\ b \in Nat /\ m \in Nat /\ n \in Nat /\ Len(s) \in Nat
    BY Widths, PlacesFinite DEF Text
  <1>2. Length(s, enc) = Len(s) + a * m + b * n
    BY LengthIs
  <1> HIDE DEF a, b, m, n
  <1>3. a * m \in Nat /\ b * n \in Nat
    BY <1>1
  <1> DEFINE am == a * m
             bn == b * n
  <1>4. Length(s, enc) = Len(s) + am + bn /\ am \in Nat /\ bn \in Nat
    BY <1>2, <1>3
  <1> HIDE DEF am, bn
  <1> QED
    BY <1>1, <1>4

LEMMA LengthConcat ==
    ASSUME NEW s \in Text, NEW t \in Text, NEW enc
    PROVE  Length(s \o t, enc) = Length(s, enc) + Length(t, enc)
  <1> DEFINE a == Wide("accented", enc)
             b == Wide("astral", enc)
             m(x) == Cardinality(Places(x, "accented"))
             n(x) == Cardinality(Places(x, "astral"))
  <1>1. /\ a \in Nat /\ b \in Nat /\ Len(s) \in Nat /\ Len(t) \in Nat
        /\ m(s) \in Nat /\ n(s) \in Nat /\ m(t) \in Nat /\ n(t) \in Nat
    BY Widths, PlacesFinite DEF Text
  <1>2. m(s \o t) = m(s) + m(t) /\ n(s \o t) = n(s) + n(t) /\ Len(s \o t) = Len(s) + Len(t)
    BY PlacesConcat, ConcatProperties DEF Text
  <1>3. /\ Length(s, enc) = Len(s) + a * m(s) + b * n(s)
        /\ Length(t, enc) = Len(t) + a * m(t) + b * n(t)
        /\ Length(s \o t, enc) = Len(s \o t) + a * m(s \o t) + b * n(s \o t)
    BY LengthIs
  <1> DEFINE ms == m(s)
             mt == m(t)
             ns == n(s)
             nt == n(t)
  <1>4. /\ Length(s, enc) = Len(s) + a * ms + b * ns
        /\ Length(t, enc) = Len(t) + a * mt + b * nt
        /\ Length(s \o t, enc) = Len(s) + Len(t) + a * (ms + mt) + b * (ns + nt)
        /\ ms \in Nat /\ mt \in Nat /\ ns \in Nat /\ nt \in Nat
    BY <1>1, <1>2, <1>3
  <1> HIDE DEF a, b, m, n, ms, mt, ns, nt
  <1>5. a * (ms + mt) = a * ms + a * mt /\ b * (ns + nt) = b * ns + b * nt
    BY <1>1, <1>4
  <1>6. a * ms \in Nat /\ a * mt \in Nat /\ b * ns \in Nat /\ b * nt \in Nat
    BY <1>1, <1>4
  <1> DEFINE p == a * ms
             q == a * mt
             u == b * ns
             v == b * nt
  <1>7. /\ Length(s, enc) = Len(s) + p + u
        /\ Length(t, enc) = Len(t) + q + v
        /\ Length(s \o t, enc) = Len(s) + Len(t) + (p + q) + (u + v)
        /\ p \in Nat /\ q \in Nat /\ u \in Nat /\ v \in Nat
    BY <1>4, <1>5, <1>6
  <1> HIDE DEF p, q, u, v
  <1> QED
    BY <1>1, <1>7

-----------------------------------------------------------------------------
(* Slices *)

LEMMA SliceFacts ==
    ASSUME NEW s \in Text, NEW e \in 0..Len(s), NEW a \in 0..e
    PROVE  /\ Slice(s, a, e) \in Text /\ Len(Slice(s, a, e)) = e - a
           /\ \A i \in 1..e - a : Slice(s, a, e)[i] = s[a + i]
  <1>1. Len(s) \in Nat /\ a \in Int /\ e \in Int /\ a + 1 \in Int
    BY DEF Text
  <1>2. \A i \in a + 1 .. e : s[i] \in Characters
    BY ElementOfSeq DEF Text
  <1>3. /\ SubSeq(s, a + 1, e) \in Seq(Characters)
        /\ Len(SubSeq(s, a + 1, e)) = IF a + 1 <= e THEN e - (a + 1) + 1 ELSE 0
        /\ \A i \in 1 .. e - (a + 1) + 1 : SubSeq(s, a + 1, e)[i] = s[(a + 1) + i - 1]
    BY <1>1, <1>2, SubSeqProperties
  <1>4. e - (a + 1) + 1 = e - a /\ \A i \in 1..e - a : (a + 1) + i - 1 = a + i
    BY <1>1
  <1> QED
    BY <1>1, <1>3, <1>4 DEF Slice, Text

LEMMA SlicesJoin ==
    ASSUME NEW s \in Text, NEW c \in 0..Len(s), NEW b \in 0..c, NEW a \in 0..b
    PROVE  Slice(s, a, c) = Slice(s, a, b) \o Slice(s, b, c)
  <1>1. s \in Seq(Characters) /\ Len(s) \in Nat
    BY DEF Text
  <1>2. a + 1 \in 1..Len(s) + 1 /\ b \in (a + 1) - 1 .. Len(s) /\ c \in b..Len(s)
    BY <1>1
  <1>3. SubSeq(s, a + 1, b) \o SubSeq(s, b + 1, c) = SubSeq(s, a + 1, c)
    BY <1>1, <1>2, ConcatAdjacentSubSeq
  <1> QED
    BY <1>3 DEF Slice

LEMMA SliceOfSlice ==
    ASSUME NEW s \in Text, NEW e \in 0..Len(s), NEW b \in 0..e, NEW k \in 0..e - b
    PROVE  Slice(Slice(s, b, e), 0, k) = Slice(s, b, b + k)
  <1> DEFINE line == Slice(s, b, e)
             left == Slice(line, 0, k)
             right == Slice(s, b, b + k)
  <1>0. Len(s) \in Nat /\ b \in Nat /\ e \in Nat /\ k \in Nat
    BY DEF Text
  <1>1. line \in Text /\ Len(line) = e - b /\ \A i \in 1..e - b : line[i] = s[b + i]
    BY SliceFacts
  <1>2. b + k \in 0..Len(s) /\ b \in 0..b + k /\ (b + k) - b = k
    BY <1>0
  <1>3. right \in Text /\ Len(right) = k /\ \A i \in 1..k : right[i] = s[b + i]
    BY <1>2, SliceFacts
  <1> HIDE DEF line, right
  <1>4. k \in 0..Len(line) /\ 0 \in 0..k /\ k - 0 = k
    BY <1>0, <1>1
  <1>5. left \in Text /\ Len(left) = k /\ \A i \in 1..k : left[i] = line[0 + i]
    BY <1>1, <1>4, SliceFacts
  <1>6. \A i \in 1..k : left[i] = right[i]
    BY <1>0, <1>1, <1>3, <1>5
  <1> HIDE DEF left
  <1>7. left = right
    BY <1>3, <1>5, <1>6, SeqEqual DEF Text
  <1> QED
    BY <1>7 DEF left, right, line

\* Of two stretches from one place the longer has the more code units.
LEMMA LengthOrder ==
    ASSUME NEW s \in Text, NEW c \in 0..Len(s), NEW b \in 0..c, NEW a \in 0..b, NEW enc
    PROVE  /\ Length(Slice(s, a, b), enc) \in Nat /\ Length(Slice(s, a, c), enc) \in Nat
           /\ Length(Slice(s, a, c), enc) =
                 Length(Slice(s, a, b), enc) + Length(Slice(s, b, c), enc)
           /\ b < c => Length(Slice(s, a, b), enc) < Length(Slice(s, a, c), enc)
           /\ b = c => Length(Slice(s, a, b), enc) = Length(Slice(s, a, c), enc)
  <1>0. Len(s) \in Nat
    BY DEF Text
  <1>1. b \in 0..Len(s) /\ a \in 0..c
    BY <1>0
  <1> DEFINE u == Slice(s, a, b)
             v == Slice(s, b, c)
  <1>2. u \in Text /\ v \in Text /\ Len(v) = c - b
    BY <1>1, SliceFacts
  <1>3. Slice(s, a, c) = u \o v
    BY SlicesJoin
  <1> HIDE DEF u, v
  <1>4. Length(u \o v, enc) = Length(u, enc) + Length(v, enc)
    BY <1>2, LengthConcat
  <1>5. Length(u, enc) \in Nat /\ Length(v, enc) \in Nat /\ c - b <= Length(v, enc)
    BY <1>2, LengthTypes
  <1>6. b \in Int /\ c \in Int
    BY <1>0
  <1>7. Length(Slice(s, a, c), enc) = Length(u, enc) + Length(v, enc)
    BY <1>3, <1>4
  <1>8. b < c => Length(v, enc) >= 1
    BY <1>5, <1>6
  <1>9. CASE b = c
    BY <1>5, <1>7, <1>9 DEF u, v
  <1>10. CASE b # c
    BY <1>5, <1>7, <1>8, <1>10 DEF u, v
  <1> QED
    BY <1>9, <1>10

\* Characters are code points.
LEMMA LengthOfCodePoints ==
    ASSUME NEW s \in Text
    PROVE  Length(s, "utf-32") = Len(s)
  <1>1. Wide("accented", "utf-32") = 0 /\ Wide("astral", "utf-32") = 0
    BY DEF Wide, Width
  <1>2. Length(s, "utf-32") = Len(s) + 0 * Cardinality(Places(s, "accented"))
                                     + 0 * Cardinality(Places(s, "astral"))
    BY <1>1, LengthIs
  <1> QED
    BY <1>2, PlacesFinite DEF Text

LEMMA LengthOfOne ==
    ASSUME NEW ch \in Characters, NEW enc
    PROVE  Length(<<ch>>, enc) = Width(ch, enc)
  <1> DEFINE s == <<ch>>
  <1>1. Len(s) = 1 /\ s[1] = ch
    OBVIOUS
  <1>2. \A x : Places(s, x) = IF x = ch THEN {1} ELSE {}
    BY <1>1 DEF Places
  <1>3. \A x : Cardinality(Places(s, x)) = IF x = ch THEN 1 ELSE 0
    BY <1>2, FS_Singleton, FS_EmptySet
  <1> HIDE DEF s
  <1> DEFINE m == Cardinality(Places(s, "accented"))
             n == Cardinality(Places(s, "astral"))
  <1>4. /\ m = (IF "accented" = ch THEN 1 ELSE 0) /\ n = (IF "astral" = ch THEN 1 ELSE 0)
        /\ Length(s, enc) = 1 + Wide("accented", enc) * m + Wide("astral", enc) * n
    BY <1>1, <1>3, LengthIs
  <1> HIDE DEF m, n
  <1>5. Wide("accented", enc) \in Nat /\ Wide("astral", enc) \in Nat
    BY Widths
  <1>6. Width(ch, enc) \in Nat
    BY Widths
  <1>7. CASE ch = "accented"
    BY <1>4, <1>5, <1>6, <1>7 DEF Wide, s
  <1>8. CASE ch = "astral"
    BY <1>4, <1>5, <1>6, <1>8 DEF Wide, s
  <1>9. CASE ch \in {"plain", "newline"}
    BY <1>4, <1>5, <1>9, Widths DEF s
  <1> QED
    BY <1>7, <1>8, <1>9 DEF Characters

-----------------------------------------------------------------------------
(* Lines *)

\* The breaks before an offset, and where its line starts.
Breaks(s, o) == {i \in 1..o : s[i] = "newline"}
LineStart(s, o) == Max(Breaks(s, o) \cup {0})

\* The lines that start earlier.
Earlier(s, i) == {j \in LineStarts(s) : j < i}

LEMMA StartsFinite ==
    ASSUME NEW s \in Text
    PROVE  /\ LineStarts(s) \in SUBSET (0..Len(s)) /\ IsFiniteSet(LineStarts(s))
           /\ Lines(s) \in Nat
           /\ \A i : IsFiniteSet(Earlier(s, i)) /\ Cardinality(Earlier(s, i)) \in Nat
  <1>1. Len(s) \in Nat
    BY DEF Text
  <1>2. LineStarts(s) \in SUBSET (0..Len(s))
    BY <1>1 DEF LineStarts
  <1>3. IsFiniteSet(0..Len(s))
    BY <1>1, FS_Interval
  <1>4. IsFiniteSet(LineStarts(s))
    BY <1>2, <1>3, FS_Subset
  <1>5. \A i : Earlier(s, i) \in SUBSET LineStarts(s)
    BY DEF Earlier
  <1>6. \A i : IsFiniteSet(Earlier(s, i))
    BY <1>4, <1>5, FS_Subset
  <1> QED
    BY <1>2, <1>4, <1>6, FS_CardinalityType DEF Lines

LEMMA BreaksFacts ==
    ASSUME NEW s \in Text, NEW o \in 0..Len(s)
    PROVE  /\ IsFiniteSet(Breaks(s, o)) /\ Cardinality(Breaks(s, o)) \in Nat
           /\ Breaks(s, o) \cup {0} \in SUBSET LineStarts(s)
           /\ \A i \in LineStarts(s) : i <= o => i \in Breaks(s, o) \cup {0}
           /\ LineStart(s, o) \in Breaks(s, o) \cup {0}
           /\ LineStart(s, o) \in 0..o
           /\ \A i \in Breaks(s, o) \cup {0} : i <= LineStart(s, o)
           /\ 0 \notin Breaks(s, o)
           /\ Cardinality(Breaks(s, o) \cup {0}) = Cardinality(Breaks(s, o)) + 1
  <1>1. Len(s) \in Nat /\ o \in Nat
    BY DEF Text
  <1>2. Breaks(s, o) \in SUBSET (1..o) /\ Breaks(s, o) \cup {0} \in SUBSET (0..o)
    BY <1>1 DEF Breaks
  <1>3. IsFiniteSet(1..o)
    BY <1>1, FS_Interval
  <1>4. IsFiniteSet(Breaks(s, o))
    BY <1>2, <1>3, FS_Subset
  <1>5. Cardinality(Breaks(s, o)) \in Nat /\ 0 \notin Breaks(s, o)
    BY <1>2, <1>4, FS_CardinalityType
  <1>6. Cardinality(Breaks(s, o) \cup {0}) = Cardinality(Breaks(s, o)) + 1
    BY <1>4, <1>5, FS_AddElement
  <1>7. Breaks(s, o) \cup {0} \in SUBSET LineStarts(s)
    BY <1>1 DEF Breaks, LineStarts
  <1>8. \A i \in LineStarts(s) : i <= o => i \in Breaks(s, o) \cup {0}
    BY <1>1 DEF Breaks, LineStarts
  <1> DEFINE S == Breaks(s, o) \cup {0}
  <1>9. S # {} /\ S \in SUBSET (0..o)
    BY <1>2
  <1> HIDE DEF S
  <1>10. Max(S) \in S /\ \A i \in S : i <= Max(S)
    BY <1>1, <1>9, GreatestNumber
  <1>11. LineStart(s, o) = Max(S)
    BY DEF LineStart, S
  <1>12. Max(S) \in 0..o
    BY <1>9, <1>10
  <1> QED
    BY <1>4, <1>5, <1>6, <1>7, <1>8, <1>10, <1>11, <1>12 DEF S

\* As many lines start before an offset's as there are breaks before it.
LEMMA EarlierLines ==
    ASSUME NEW s \in Text, NEW o \in 0..Len(s)
    PROVE  /\ LineStart(s, o) \in LineStarts(s)
           /\ Cardinality(Earlier(s, LineStart(s, o))) = Cardinality(Breaks(s, o))
           /\ Cardinality(Breaks(s, o)) < Lines(s)
  <1> DEFINE b == LineStart(s, o)
             S == Breaks(s, o) \cup {0}
  <1>1. /\ b \in S /\ S \in SUBSET LineStarts(s) /\ \A i \in S : i <= b
        /\ \A i \in LineStarts(s) : i <= o => i \in S
        /\ b \in 0..o
    BY BreaksFacts
  <1>2. IsFiniteSet(Breaks(s, o)) /\ Cardinality(S) = Cardinality(Breaks(s, o)) + 1
        /\ Cardinality(Breaks(s, o)) \in Nat
    BY BreaksFacts
  <1>3. IsFiniteSet(S)
    BY <1>2, FS_AddElement
  <1>4. LineStarts(s) \in SUBSET Nat /\ o \in Nat /\ IsFiniteSet(LineStarts(s)) /\ Lines(s) \in Nat
    <2>1. Len(s) \in Nat
      BY DEF Text
    <2> QED
      BY <2>1, StartsFinite
  <1> HIDE DEF b, S
  <1>5. Earlier(s, b) = S \ {b}
    <2>1. ASSUME NEW j \in LineStarts(s), j < b
          PROVE  j \in S /\ j # b
      BY <1>1, <1>4, <2>1
    <2>2. ASSUME NEW j \in S, j # b
          PROVE  j \in LineStarts(s) /\ j < b
      BY <1>1, <1>4, <2>2
    <2> QED
      BY <2>1, <2>2 DEF Earlier
  <1>6. Cardinality(S \ {b}) = Cardinality(S) - 1
    BY <1>1, <1>3, FS_RemoveElement
  <1>7. Cardinality(S) <= Lines(s)
    BY <1>1, <1>4, FS_Subset DEF Lines
  <1>8. Cardinality(Earlier(s, b)) = Cardinality(Breaks(s, o))
    BY <1>2, <1>5, <1>6
  <1>9. Cardinality(Breaks(s, o)) < Lines(s)
    BY <1>2, <1>4, <1>7
  <1> QED
    BY <1>1, <1>8, <1>9 DEF b

LEMMA StartsOrdered ==
    ASSUME NEW s \in Text, NEW i \in LineStarts(s), NEW j \in LineStarts(s), i < j
    PROVE  Cardinality(Earlier(s, i)) < Cardinality(Earlier(s, j))
  <1>1. LineStarts(s) \in SUBSET Nat
    <2>1. Len(s) \in Nat
      BY DEF Text
    <2> QED
      BY <2>1, StartsFinite
  <1>2. i \notin Earlier(s, i) /\ Earlier(s, i) \cup {i} \in SUBSET Earlier(s, j)
    BY <1>1 DEF Earlier
  <1>3. IsFiniteSet(Earlier(s, i)) /\ IsFiniteSet(Earlier(s, j))
        /\ Cardinality(Earlier(s, i)) \in Nat /\ Cardinality(Earlier(s, j)) \in Nat
    BY StartsFinite
  <1>4. Cardinality(Earlier(s, i) \cup {i}) = Cardinality(Earlier(s, i)) + 1
    BY <1>2, <1>3, FS_AddElement
  <1>5. Cardinality(Earlier(s, i) \cup {i}) <= Cardinality(Earlier(s, j))
    BY <1>2, <1>3, FS_Subset
  <1> QED
    BY <1>3, <1>4, <1>5

\* A line is found by how many there are before it.
LEMMA LineFound ==
    ASSUME NEW s \in Text, NEW i \in LineStarts(s)
    PROVE  Cardinality(Earlier(s, i)) # Lines(s) => LineToChar(s, Cardinality(Earlier(s, i))) = i
  <1> DEFINE l == Cardinality(Earlier(s, i))
  <1> SUFFICES ASSUME l # Lines(s)
               PROVE  LineToChar(s, l) = i
    OBVIOUS
  <1>1. LineStarts(s) \in SUBSET Nat
    <2>1. Len(s) \in Nat
      BY DEF Text
    <2> QED
      BY <2>1, StartsFinite
  <1>2. LineToChar(s, l) = CHOOSE j \in LineStarts(s) : Cardinality(Earlier(s, j)) = l
    BY DEF LineToChar, Earlier
  <1>3. ASSUME NEW j \in LineStarts(s), Cardinality(Earlier(s, j)) = l
        PROVE  j = i
    <2>1. ~(i < j) /\ ~(j < i)
      BY <1>3, StartsOrdered, StartsFinite
    <2> QED
      BY <1>1, <2>1
  <1> HIDE DEF l
  <1>4. Cardinality(Earlier(s, i)) = l
    BY DEF l
  <1> QED
    BY <1>2, <1>3, <1>4

\* The line of an offset, and where the next one starts.
LEMMA LinesAround ==
    ASSUME NEW s \in Text, NEW o \in 0..Len(s)
    PROVE  /\ LineToChar(s, Cardinality(Breaks(s, o))) = LineStart(s, o)
           /\ LineToChar(s, Cardinality(Breaks(s, o)) + 1) \in o..Len(s)
  <1> DEFINE b == LineStart(s, o)
             l == Cardinality(Breaks(s, o))
  <1>0. Len(s) \in Nat /\ o \in Nat
    BY DEF Text
  <1>1. b \in LineStarts(s) /\ Cardinality(Earlier(s, b)) = l /\ l < Lines(s) /\ l \in Nat
        /\ Lines(s) \in Nat
    BY EarlierLines, StartsFinite, BreaksFacts
  <1>2. LineToChar(s, l) = b
    <2>1. Cardinality(Earlier(s, b)) # Lines(s)
      BY <1>1
    <2>2. LineToChar(s, Cardinality(Earlier(s, b))) = b
      BY <1>1, <2>1, LineFound
    <2> QED
      BY <1>1, <2>2
  <1>3. LineToChar(s, l + 1) \in o..Len(s)
    <2>1. CASE l + 1 = Lines(s)
      <3>1. LineToChar(s, l + 1) = Len(s)
        BY <2>1 DEF LineToChar
      <3> QED
        BY <1>0, <3>1
    <2>2. CASE l + 1 # Lines(s)
      <3> DEFINE L == {i \in LineStarts(s) : o < i}
                 S == Breaks(s, o) \cup {0}
      <3>1. LineStarts(s) \in SUBSET (0..Len(s)) /\ IsFiniteSet(LineStarts(s))
        BY StartsFinite
      <3>2. S \in SUBSET LineStarts(s) /\ Cardinality(S) = l + 1
            /\ (\A i \in LineStarts(s) : i <= o => i \in S)
            /\ S \in SUBSET (0..o)
        <4>1. Breaks(s, o) \cup {0} \in SUBSET (0..o)
          BY <1>0 DEF Breaks
        <4> QED
          BY <4>1, BreaksFacts
      <3>3. L # {}
        <4>1. SUFFICES ASSUME L = {}
                       PROVE  FALSE
          OBVIOUS
        <4>2. LineStarts(s) = S
          BY <1>0, <3>1, <3>2, <4>1
        <4> QED
          BY <2>2, <3>2, <4>2 DEF Lines
      <3>4. L \in SUBSET Nat
        BY <3>1
      <3>5. PICK e \in L : \A k \in L : e <= k
        BY <3>3, <3>4, LeastNumber
      <3>6. e \in o..Len(s) /\ e \in LineStarts(s)
        BY <1>0, <3>1, <3>5
      <3>7. Earlier(s, e) = S
        BY <1>0, <3>1, <3>2, <3>5 DEF Earlier
      <3>8. Cardinality(Earlier(s, e)) = l + 1
        BY <3>2, <3>7
      <3>9. LineToChar(s, l + 1) = e
        BY <2>2, <3>6, <3>8, LineFound
      <3> QED
        BY <3>6, <3>9
    <2> QED
      BY <2>1, <2>2
  <1> QED
    BY <1>2, <1>3 DEF b, l

-----------------------------------------------------------------------------
(* Positions *)

LEMMA PositionIs ==
    ASSUME NEW s, NEW o, NEW enc
    PROVE  PositionOf(s, o, enc) = [line |-> Cardinality(Breaks(s, o)),
                                    character |-> Length(Slice(s, LineStart(s, o), o), enc)]
  BY DEF PositionOf, Breaks, LineStart

\* How far into a line a column may reach.
Reach(line, column, enc) == {i \in 0..Len(line) : Length(Slice(line, 0, i), enc) <= column}

\* The column of an offset is cut nowhere and rounded to nothing.
LEMMA ColumnFound ==
    ASSUME NEW s \in Text, NEW o \in 0..Len(s), NEW b \in 0..o, NEW e \in o..Len(s), NEW enc
    PROVE  Max(Reach(Slice(s, b, e), Length(Slice(s, b, o), enc), enc)) = o - b
  <1> DEFINE line == Slice(s, b, e)
             column == Length(Slice(s, b, o), enc)
             S == Reach(line, column, enc)
  <1>0. Len(s) \in Nat /\ o \in Nat /\ b \in Nat /\ e \in Nat
    BY DEF Text
  <1>1. e \in 0..Len(s) /\ b \in 0..e /\ o - b \in 0..e - b
    BY <1>0
  <1>2. Len(line) = e - b
    BY <1>1, SliceFacts
  <1>3. \A i \in 0..e - b : Slice(line, 0, i) = Slice(s, b, b + i)
    BY <1>1, SliceOfSlice
  <1>4. b + (o - b) = o
    BY <1>0
  <1>5. column \in Nat
    <2>1. Slice(s, b, o) \in Text
      BY SliceFacts
    <2> QED
      BY <2>1, LengthTypes
  <1> HIDE DEF line
  <1>6. o - b \in S
    <2>1. Slice(line, 0, o - b) = Slice(s, b, o)
      BY <1>1, <1>3, <1>4
    <2>2. Length(Slice(line, 0, o - b), enc) = column
      BY <2>1
    <2>3. Length(Slice(line, 0, o - b), enc) <= column
      BY <1>5, <2>2
    <2> HIDE DEF column
    <2> QED
      BY <1>1, <1>2, <2>3 DEF Reach
  <1>7. ASSUME NEW i \in S
        PROVE  i <= o - b
    <2>1. i \in 0..e - b /\ Length(Slice(line, 0, i), enc) <= column
      BY <1>2 DEF Reach
    <2> SUFFICES ASSUME ~(i <= o - b)
                 PROVE  FALSE
      OBVIOUS
    <2>2. b + i \in 0..Len(s) /\ o \in 0..b + i /\ o < b + i
      BY <1>0, <1>1, <2>1
    <2>3. column < Length(Slice(s, b, b + i), enc)
          /\ Length(Slice(s, b, b + i), enc) \in Nat
      BY <2>2, LengthOrder
    <2>4. Length(Slice(s, b, b + i), enc) <= column
      BY <1>3, <2>1
    <2> HIDE DEF column
    <2> QED
      BY <1>5, <2>3, <2>4
  <1>8. S \in SUBSET Int
    BY DEF Reach
  <1> HIDE DEF S
  <1>9. Max(S) = o - b
    BY <1>6, <1>7, <1>8, MaxIs
  <1> QED
    BY <1>9 DEF S, column, line

\* A position of the text in one encoding is the same place's in another.
LEMMA PositionConverted ==
    ASSUME NEW s \in Text, NEW o \in 0..Len(s), NEW enc, NEW target
    PROVE  PositionToEncoding(s, PositionOf(s, o, enc), enc, target) = PositionOf(s, o, target)
  <1> DEFINE l == Cardinality(Breaks(s, o))
             b == LineStart(s, o)
             e == LineToChar(s, l + 1)
             line == Slice(s, b, e)
             p == PositionOf(s, o, enc)
             column == Length(Slice(s, b, o), enc)
             k == Max(Reach(line, column, enc))
  <1>0. Len(s) \in Nat /\ o \in Nat
    BY DEF Text
  <1>1. CASE enc = target
    BY <1>1 DEF PositionToEncoding
  <1>2. CASE enc # target
    <2>1. p = [line |-> l, character |-> column]
      BY PositionIs
    <2>2. p.line = l /\ p.character = column
      BY <2>1
    <2>3. l \in Nat /\ l < Lines(s) /\ Lines(s) \in Nat /\ b \in 0..o
      BY EarlierLines, StartsFinite, BreaksFacts
    <2>4. Min({p.line, Lines(s) - 1}) = l
      <3>1. {p.line, Lines(s) - 1} \in SUBSET Int /\ p.line \in {p.line, Lines(s) - 1}
            /\ \A y \in {p.line, Lines(s) - 1} : p.line <= y
        BY <2>2, <2>3
      <3>2. Min({p.line, Lines(s) - 1}) = p.line
        BY <3>1, MinIs
      <3> QED
        BY <2>2, <3>2
    <2>5. LineToChar(s, l) = b /\ e \in o..Len(s)
      BY LinesAround
    <2>6. Line(s, l) = line
      BY <2>5 DEF Line
    <2>7. k = o - b
      <3> HIDE DEF b, e
      <3> QED
        BY <2>3, <2>5, ColumnFound
    <2>8. PositionToEncoding(s, p, enc, target)
            = [line |-> l, character |-> Length(Slice(line, 0, k), target)]
      <3> HIDE DEF p, l, e, b, line
      <3> QED
        BY <1>2, <2>2, <2>4, <2>6 DEF PositionToEncoding, Reach
    <2>9. Slice(line, 0, k) = Slice(s, b, o)
      <3>1. e \in 0..Len(s) /\ b \in 0..e /\ o - b \in 0..e - b /\ b + (o - b) = o
        BY <1>0, <2>3, <2>5
      <3>2. Slice(Slice(s, b, e), 0, o - b) = Slice(s, b, b + (o - b))
        BY <3>1, SliceOfSlice
      <3> HIDE DEF b, e, k
      <3> QED
        BY <2>7, <3>1, <3>2
    <2>10. PositionOf(s, o, target) = [line |-> l, character |-> Length(Slice(s, b, o), target)]
      BY PositionIs
    <2> HIDE DEF p, l, e, b, line, k
    <2>11. PositionToEncoding(s, p, enc, target) = PositionOf(s, o, target)
      BY <2>8, <2>9, <2>10
    <2> QED
      BY <2>11 DEF p
  <1> QED
    BY <1>1, <1>2

-----------------------------------------------------------------------------
(* The offsets of a range *)

LEMMA OffsetFound ==
    ASSUME NEW s \in Text, NEW o \in 0..Len(s), NEW enc
    PROVE  /\ LineToChar(s, PositionOf(s, o, enc).line)
                + PositionToEncoding(s, PositionOf(s, o, enc), enc, "utf-32").character = o
           /\ ~(PositionOf(s, o, enc).line > Lines(s))
  <1> DEFINE l == Cardinality(Breaks(s, o))
             b == LineStart(s, o)
  <1>0. Len(s) \in Nat /\ o \in Nat
    BY DEF Text
  <1>1. l \in Nat /\ l < Lines(s) /\ Lines(s) \in Nat /\ b \in 0..o
    BY EarlierLines, StartsFinite, BreaksFacts
  <1>2. PositionOf(s, o, enc).line = l
    BY PositionIs
  <1>3. LineToChar(s, l) = b
    BY LinesAround
  <1>4. PositionToEncoding(s, PositionOf(s, o, enc), enc, "utf-32") = PositionOf(s, o, "utf-32")
    BY PositionConverted
  <1>5. PositionOf(s, o, "utf-32").character = Length(Slice(s, b, o), "utf-32")
    BY PositionIs
  <1>6. Slice(s, b, o) \in Text /\ Len(Slice(s, b, o)) = o - b
    BY <1>1, SliceFacts
  <1>7. Length(Slice(s, b, o), "utf-32") = o - b
    BY <1>6, LengthOfCodePoints
  <1> HIDE DEF l, b
  <1>8. PositionToEncoding(s, PositionOf(s, o, enc), enc, "utf-32").character = o - b
    BY <1>4, <1>5, <1>7
  <1> QED
    BY <1>0, <1>1, <1>2, <1>3, <1>8

LEMMA RangeFound ==
    ASSUME NEW s \in Text, NEW to \in 0..Len(s), NEW from \in 0..to, NEW enc
    PROVE  ChangeCharRange(s, [start |-> PositionOf(s, from, enc), end |-> PositionOf(s, to, enc)],
                           enc) = <<from, to>>
  <1> DEFINE p == PositionOf(s, from, enc)
             q == PositionOf(s, to, enc)
             Offset(x) == LineToChar(s, x.line) + PositionToEncoding(s, x, enc, "utf-32").character
  <1>0. Len(s) \in Nat /\ from \in 0..Len(s) /\ from \in Nat /\ to \in Nat
    BY DEF Text
  <1>1. Offset(p) = from /\ ~(p.line > Lines(s))
    BY <1>0, OffsetFound
  <1>2. Offset(q) = to /\ ~(q.line > Lines(s))
    BY <1>0, OffsetFound
  <1>3. Max({to, from}) = to
    <2>1. {to, from} \in SUBSET Int /\ to \in {to, from} /\ \A y \in {to, from} : y <= to
      BY <1>0
    <2> QED
      BY <2>1, MaxIs
  <1>4. Min({to, Len(s)}) = to
    <2>1. {to, Len(s)} \in SUBSET Int /\ to \in {to, Len(s)} /\ \A y \in {to, Len(s)} : to <= y
      BY <1>0
    <2> QED
      BY <2>1, MinIs
  <1> DEFINE range == [start |-> p, end |-> q]
  <1>5. range.start = p /\ range.end = q
    OBVIOUS
  <1>6. ChangeCharRange(s, range, enc)
          = <<Offset(p), Min({Max({Offset(q), Offset(p)}), Len(s)})>>
    <2> HIDE DEF p, q, range
    <2> QED
      BY <1>1, <1>2, <1>5 DEF ChangeCharRange
  <1> HIDE DEF p, q, Offset
  <1>7. ChangeCharRange(s, range, enc) = <<from, to>>
    BY <1>1, <1>2, <1>3, <1>4, <1>6
  <1> QED
    BY <1>7 DEF p, q, range

-----------------------------------------------------------------------------
(* The point an insertion ends at *)

LEMMA EmptySlice ==
    ASSUME NEW s \in Text, NEW o \in 0..Len(s), NEW enc
    PROVE  Length(Slice(s, o, o), enc) = 0
  <1>0. Len(s) \in Nat
    BY DEF Text
  <1>1. 0 \in 0..o /\ o \in 0..o
    BY <1>0
  <1> DEFINE a == Length(Slice(s, 0, o), enc)
             z == Length(Slice(s, o, o), enc)
  <1>2. a \in Nat /\ a = a + z
    BY <1>1, LengthOrder
  <1>3. Slice(s, o, o) \in Text
    BY <1>1, SliceFacts
  <1>4. z \in Nat
    BY <1>3, LengthTypes
  <1> HIDE DEF a, z
  <1>5. z = 0
    BY <1>2, <1>4
  <1> QED
    BY <1>5 DEF z

LEMMA PositionNext ==
    ASSUME NEW s \in Text, NEW o \in 0..Len(s) - 1, NEW enc
    PROVE  PositionOf(s, o + 1, enc) =
             IF s[o + 1] = "newline"
             THEN [line |-> PositionOf(s, o, enc).line + 1, character |-> 0]
             ELSE [line |-> PositionOf(s, o, enc).line,
                   character |-> PositionOf(s, o, enc).character + Width(s[o + 1], enc)]
  <1> DEFINE b == LineStart(s, o)
             n == o + 1
  <1>0. Len(s) \in Nat /\ o \in Nat /\ n \in Nat /\ o \in 0..Len(s) /\ n \in 0..Len(s)
        /\ o \in 0..n /\ o < n
    BY DEF Text
  <1>1. /\ IsFiniteSet(Breaks(s, o)) /\ Cardinality(Breaks(s, o)) \in Nat
        /\ b \in Breaks(s, o) \cup {0} /\ \A i \in Breaks(s, o) \cup {0} : i <= b
        /\ b \in 0..o
    BY <1>0, BreaksFacts
  <1>2. s[n] \in Characters
    BY <1>0, ElementOfSeq DEF Text
  <1>3. CASE s[n] = "newline"
    <2>1. Breaks(s, n) = Breaks(s, o) \cup {n} /\ n \notin Breaks(s, o)
      BY <1>0, <1>3 DEF Breaks
    <2>2. Cardinality(Breaks(s, n)) = Cardinality(Breaks(s, o)) + 1
      BY <1>1, <2>1, FS_AddElement
    <2>3. LineStart(s, n) = n
      <3>1. Breaks(s, n) \cup {0} \in SUBSET Int /\ n \in Breaks(s, n) \cup {0}
            /\ \A y \in Breaks(s, n) \cup {0} : y <= n
        BY <1>0, <2>1 DEF Breaks
      <3> QED
        BY <3>1, MaxIs DEF LineStart
    <2>4. Length(Slice(s, n, n), enc) = 0
      BY <1>0, EmptySlice
    <2>5. PositionOf(s, n, enc) = [line |-> Cardinality(Breaks(s, o)) + 1, character |-> 0]
      BY <2>2, <2>3, <2>4, PositionIs
    <2>6. PositionOf(s, o, enc).line = Cardinality(Breaks(s, o))
      BY PositionIs
    <2> QED
      BY <1>3, <2>5, <2>6
  <1>4. CASE s[n] # "newline"
    <2>1. Breaks(s, n) = Breaks(s, o)
      BY <1>0, <1>4 DEF Breaks
    <2>2. LineStart(s, n) = b
      BY <2>1 DEF LineStart
    <2>3. Slice(s, o, n) = <<s[n]>>
      <3>1. Slice(s, o, n) \in Text /\ Len(Slice(s, o, n)) = n - o
            /\ \A i \in 1..n - o : Slice(s, o, n)[i] = s[o + i]
        BY <1>0, SliceFacts
      <3>2. Len(Slice(s, o, n)) = 1 /\ Slice(s, o, n)[1] = s[n]
        BY <1>0, <3>1
      <3> HIDE DEF n
      <3>3. Slice(s, o, n) \in Seq(Characters) /\ <<s[n]>> \in Seq(Characters)
        BY <1>2, <3>1 DEF Text
      <3>4. Len(<<s[n]>>) = 1 /\ <<s[n]>>[1] = s[n]
        OBVIOUS
      <3> DEFINE u == Slice(s, o, n)
                 v == <<s[n]>>
      <3>5. Len(u) = 1 /\ Len(v) = 1 /\ u[1] = v[1] /\ u \in Seq(Characters) /\ v \in Seq(Characters)
        BY <3>2, <3>3, <3>4
      <3> HIDE DEF n, u, v
      <3>6. \A i \in 1..Len(u) : u[i] = v[i]
        BY <3>5
      <3>7. u = v
        BY <3>5, <3>6, SeqEqual
      <3> QED
        BY <3>7 DEF u, v
    <2>4. Length(Slice(s, b, n), enc) = Length(Slice(s, b, o), enc) + Length(Slice(s, o, n), enc)
      BY <1>0, <1>1, LengthOrder
    <2>5. Length(Slice(s, o, n), enc) = Width(s[n], enc)
      BY <1>2, <2>3, LengthOfOne
    <2>6. PositionOf(s, n, enc) = [line |-> Cardinality(Breaks(s, o)),
                                   character |-> Length(Slice(s, b, o), enc) + Width(s[n], enc)]
      BY <2>1, <2>2, <2>4, <2>5, PositionIs
    <2>7. /\ PositionOf(s, o, enc).line = Cardinality(Breaks(s, o))
          /\ PositionOf(s, o, enc).character = Length(Slice(s, b, o), enc)
      BY PositionIs
    <2> HIDE DEF b
    <2> QED
      BY <1>4, <2>6, <2>7
  <1> QED
    BY <1>3, <1>4

LEMMA NewEndIs ==
    ASSUME NEW new \in Text, NEW inserted \in Text, NEW from \in Nat,
           from + Len(inserted) <= Len(new),
           \A i \in 1..Len(inserted) : new[from + i] = inserted[i]
    PROVE  NewEnd(PositionOf(new, from, "utf-8"), inserted)
             = PositionOf(new, from + Len(inserted), "utf-8")
  <1> DEFINE start == PositionOf(new, from, "utf-8")
             N == Len(inserted)
             Past(p, ch) == IF ch = "newline" THEN [line |-> p.line + 1, character |-> 0]
                            ELSE [line |-> p.line, character |-> p.character + Width(ch, "utf-8")]
             F(f) == [n \in 0..N |-> IF n = 0 THEN start ELSE Past(f[n - 1], inserted[n])]
             g == CHOOSE f : f = F(f)
             h == [n \in 0..N |-> PositionOf(new, from + n, "utf-8")]
  <1>0. N \in Nat /\ Len(new) \in Nat
    BY DEF Text
  <1>1. NewEnd(start, inserted) = g[N]
    BY DEF NewEnd
  <1>2. \A n \in 0..N : h[n] = IF n = 0 THEN start ELSE Past(h[n - 1], inserted[n])
    <2> TAKE n \in 0..N
    <2>1. CASE n = 0
      <3>1. from + n = from
        BY <2>1
      <3> QED
        BY <1>0, <2>1, <3>1
    <2>2. CASE n # 0
      <3>1. n - 1 \in 0..N /\ from + (n - 1) \in 0..Len(new) - 1
            /\ (from + (n - 1)) + 1 = from + n /\ n \in 1..N
        BY <1>0, <2>2
      <3> DEFINE o == from + (n - 1)
      <3>2. o \in 0..Len(new) - 1 /\ o + 1 = from + n
        BY <3>1
      <3>3. new[o + 1] = inserted[n]
        BY <3>1, <3>2
      <3>4. h[n] = PositionOf(new, o + 1, "utf-8") /\ h[n - 1] = PositionOf(new, o, "utf-8")
        BY <3>1, <3>2
      <3> HIDE DEF o, h, g, F, start
      <3>5. PositionOf(new, o + 1, "utf-8") = Past(PositionOf(new, o, "utf-8"), new[o + 1])
        BY <3>2, PositionNext
      <3> HIDE DEF Past
      <3> QED
        BY <2>2, <3>3, <3>4, <3>5
    <2> QED
      BY <2>1, <2>2
  <1> HIDE DEF Past, start
  <1>3. h = F(h)
    BY <1>2
  <1>4. g = F(g)
    <2> HIDE DEF F, h
    <2>1. \E f : f = F(f)
      BY <1>3
    <2> QED
      BY <2>1
  <1> HIDE DEF g
  <1>5. \A n \in 0..N : g[n] = IF n = 0 THEN start ELSE Past(g[n - 1], inserted[n])
    <2> DEFINE G == F(g)
    <2>1. \A n \in 0..N : G[n] = IF n = 0 THEN start ELSE Past(g[n - 1], inserted[n])
      OBVIOUS
    <2>2. g = G
      BY <1>4
    <2> HIDE DEF G
    <2> QED
      BY <2>1, <2>2
  <1> HIDE DEF h, F
  <1> DEFINE B == {n \in 0..N : g[n] # h[n]}
  <1>6. B = {}
    <2> SUFFICES ASSUME B # {}
                 PROVE  FALSE
      OBVIOUS
    <2>1. B \in SUBSET Nat
      BY <1>0
    <2>2. PICK m \in B : \A k \in B : m <= k
      BY <2>1, LeastNumber
    <2>3. m # 0
      BY <1>2, <1>5, <2>2
    <2>4. m - 1 \in 0..N /\ m - 1 \notin B
      BY <1>0, <2>2, <2>3
    <2>5. g[m - 1] = h[m - 1]
      BY <2>4
    <2>6. g[m] = h[m]
      BY <1>2, <1>5, <2>2, <2>3, <2>5
    <2> QED
      BY <2>2, <2>6
  <1>7. g[N] = h[N]
    BY <1>0, <1>6
  <1> QED
    BY <1>0, <1>1, <1>7 DEF h, start, N

-----------------------------------------------------------------------------
(* One change *)

LEMMA ReplaceFacts ==
    ASSUME NEW s \in Text, NEW to \in 0..Len(s), NEW from \in 0..to, NEW inserted \in Text
    PROVE  LET new == Replace(s, from, to, inserted)
           IN  /\ new \in Text
               /\ from + Len(inserted) <= Len(new)
               /\ \A i \in 1..from : new[i] = s[i]
               /\ \A i \in 1..Len(inserted) : new[from + i] = inserted[i]
               /\ Slice(new, 0, from + Len(inserted)) = Slice(s, 0, from) \o inserted
  <1> DEFINE a == Slice(s, 0, from)
             z == Slice(s, to, Len(s))
             new == Replace(s, from, to, inserted)
             n == Len(inserted)
  <1>0. Len(s) \in Nat /\ from \in Nat /\ to \in Nat /\ n \in Nat
    BY DEF Text
  <1>1. from \in 0..Len(s) /\ 0 \in 0..from /\ Len(s) \in 0..Len(s) /\ to \in 0..Len(s)
        /\ from - 0 = from
    BY <1>0
  <1>2. a \in Text /\ Len(a) = from /\ \A i \in 1..from : a[i] = s[0 + i]
    <2>1. a \in Text /\ Len(a) = from - 0 /\ \A i \in 1..from - 0 : a[i] = s[0 + i]
      BY <1>1, SliceFacts
    <2> QED
      BY <1>1, <2>1
  <1>3. z \in Text
    BY <1>1, SliceFacts
  <1>4. new = (a \o inserted) \o z
    BY DEF Replace
  <1> HIDE DEF a, z, new
  <1> DEFINE u == a \o inserted
  <1>5. /\ u \in Text /\ Len(u) = from + n
        /\ \A i \in 1..from + n : u[i] = IF i <= from THEN a[i] ELSE inserted[i - from]
    BY <1>2, ConcatProperties DEF Text
  <1> HIDE DEF u
  <1>6. /\ new \in Text /\ Len(new) = from + n + Len(z)
        /\ \A i \in 1..from + n + Len(z) :
              new[i] = IF i <= from + n THEN u[i] ELSE z[i - (from + n)]
    <2>1. new = u \o z
      BY <1>4 DEF u
    <2> QED
      BY <1>3, <1>5, <2>1, ConcatProperties DEF Text
  <1>7. Len(z) \in Nat
    BY <1>3 DEF Text
  <1> HIDE DEF n
  <1>8. from + n <= Len(new)
    BY <1>0, <1>6, <1>7
  <1>9. \A i \in 1..from : new[i] = s[i]
    <2> TAKE i \in 1..from
    <2>1. i \in 1..from + n /\ i \in 1..from + n + Len(z) /\ i <= from + n /\ 0 + i = i
      BY <1>0, <1>7
    <2> QED
      BY <1>2, <1>5, <1>6, <2>1
  <1>10. \A i \in 1..n : new[from + i] = inserted[i]
    <2> TAKE i \in 1..n
    <2>1. from + i \in 1..from + n /\ from + i \in 1..from + n + Len(z)
          /\ ~(from + i <= from) /\ (from + i) - from = i
      BY <1>0, <1>7
    <2> QED
      BY <1>5, <1>6, <2>1
  <1>11. Slice(new, 0, from + n) = u
    <2> DEFINE v == Slice(new, 0, from + n)
    <2>1. from + n \in 0..Len(new) /\ 0 \in 0..from + n /\ (from + n) - 0 = from + n
      BY <1>0, <1>8, <1>6, <1>7
    <2>2. v \in Text /\ Len(v) = from + n /\ \A i \in 1..from + n : v[i] = new[0 + i]
      <3>1. v \in Text /\ Len(v) = (from + n) - 0
            /\ \A i \in 1..(from + n) - 0 : v[i] = new[0 + i]
        BY <1>6, <2>1, SliceFacts
      <3> QED
        BY <2>1, <3>1
    <2> HIDE DEF v
    <2>3. \A i \in 1..from + n : v[i] = u[i]
      <3> TAKE i \in 1..from + n
      <3>1. i \in 1..from + n + Len(z) /\ i <= from + n /\ 0 + i = i
        BY <1>0, <1>7
      <3> QED
        BY <1>6, <2>2, <3>1
    <2>4. v = u
      BY <1>5, <2>2, <2>3, SeqEqual DEF Text
    <2> QED
      BY <2>4 DEF v
  <1>12. Slice(new, 0, from + n) = Slice(s, 0, from) \o inserted
    BY <1>11 DEF u, a
  <1> QED
    BY <1>6, <1>8, <1>9, <1>10, <1>12 DEF new, n

\* Texts that begin alike have the same positions there.
LEMMA PositionsAgree ==
    ASSUME NEW s \in Text, NEW t \in Text, NEW o \in 0..Len(s), o <= Len(t),
           \A i \in 1..o : t[i] = s[i], NEW enc
    PROVE  PositionOf(t, o, enc) = PositionOf(s, o, enc)
  <1> DEFINE b == LineStart(s, o)
             u == Slice(s, b, o)
             v == Slice(t, b, o)
  <1>0. Len(s) \in Nat /\ Len(t) \in Nat /\ o \in Nat /\ o \in 0..Len(t)
    BY DEF Text
  <1>1. Breaks(t, o) = Breaks(s, o)
    BY DEF Breaks
  <1>2. LineStart(t, o) = b
    BY <1>1 DEF LineStart
  <1>3. b \in 0..o
    BY BreaksFacts
  <1>4. u \in Text /\ Len(u) = o - b /\ \A i \in 1..o - b : u[i] = s[b + i]
    BY <1>3, SliceFacts
  <1>5. v \in Text /\ Len(v) = o - b /\ \A i \in 1..o - b : v[i] = t[b + i]
    BY <1>0, <1>3, SliceFacts
  <1> HIDE DEF u, v, b
  <1>6. \A i \in 1..o - b : u[i] = v[i]
    <2> TAKE i \in 1..o - b
    <2>1. b + i \in 1..o
      BY <1>0, <1>3
    <2> QED
      BY <1>4, <1>5, <2>1
  <1>7. u = v
    BY <1>4, <1>5, <1>6, SeqEqual DEF Text
  <1> QED
    BY <1>1, <1>2, <1>7, PositionIs DEF u, v, b

\* tree_sitter_edit tells the tree of the editor's edit what it is.
LEMMA EditTold ==
    ASSUME NEW s \in Text, NEW to \in 0..Len(s), NEW from \in 0..to, NEW inserted \in Text
    PROVE  TreeSitterEdit(s, Edit(s, from, to, inserted), from, to) = InputEdit(s, from, to, inserted)
  <1> DEFINE new == Replace(s, from, to, inserted)
             n == Len(inserted)
             change == Edit(s, from, to, inserted)
             p == PositionOf(s, from, encoding)
             q == PositionOf(s, to, encoding)
             startByte == Length(Slice(s, 0, from), "utf-8")
  <1>0. Len(s) \in Nat /\ from \in Nat /\ to \in Nat /\ n \in Nat
        /\ from \in 0..Len(s) /\ 0 \in 0..from
    BY DEF Text
  <1>1. change.range.start = p /\ change.range.end = q /\ change.text = inserted
    BY DEF Edit, RangeOf
  <1>2. PositionToEncoding(s, p, encoding, "utf-8") = PositionOf(s, from, "utf-8")
    BY <1>0, PositionConverted
  <1>3. PositionToEncoding(s, q, encoding, "utf-8") = PositionOf(s, to, "utf-8")
    BY PositionConverted
  <1>4. /\ new \in Text /\ from + n <= Len(new)
        /\ \A i \in 1..from : new[i] = s[i]
        /\ \A i \in 1..n : new[from + i] = inserted[i]
        /\ Slice(new, 0, from + n) = Slice(s, 0, from) \o inserted
    BY ReplaceFacts
  <1>5. Len(new) \in Nat
    BY <1>4 DEF Text
  <1> HIDE DEF new, n, change, p, q
  <1>6. PositionOf(new, from, "utf-8") = PositionOf(s, from, "utf-8")
    <2>1. from <= Len(new)
      BY <1>0, <1>4, <1>5
    <2> QED
      BY <1>0, <1>4, <2>1, PositionsAgree
  <1>7. NewEnd(PositionOf(new, from, "utf-8"), inserted) = PositionOf(new, from + n, "utf-8")
    BY <1>0, <1>4, NewEndIs DEF n
  <1>8. Length(Slice(new, 0, from + n), "utf-8") = startByte + Length(inserted, "utf-8")
    <2> DEFINE a == Slice(s, 0, from)
    <2>1. a \in Text
      BY <1>0, SliceFacts
    <2>2. Slice(new, 0, from + n) = a \o inserted /\ startByte = Length(a, "utf-8")
      BY <1>4
    <2> HIDE DEF a, startByte
    <2>3. Length(a \o inserted, "utf-8") = Length(a, "utf-8") + Length(inserted, "utf-8")
      BY <2>1, LengthConcat
    <2> QED
      BY <2>2, <2>3
  <1> HIDE DEF startByte
  <1>9. TreeSitterEdit(s, change, from, to)
          = [start_byte |-> startByte,
             old_end_byte |-> Length(Slice(s, 0, to), "utf-8"),
             new_end_byte |-> startByte + Length(inserted, "utf-8"),
             start_position |-> PositionOf(s, from, "utf-8"),
             old_end_position |-> PositionOf(s, to, "utf-8"),
             new_end_position |-> NewEnd(PositionOf(s, from, "utf-8"), inserted)]
    BY <1>1, <1>2, <1>3 DEF TreeSitterEdit, startByte
  <1>10. InputEdit(s, from, to, inserted)
          = [start_byte |-> startByte,
             old_end_byte |-> Length(Slice(s, 0, to), "utf-8"),
             new_end_byte |-> Length(Slice(new, 0, from + n), "utf-8"),
             start_position |-> PositionOf(s, from, "utf-8"),
             old_end_position |-> PositionOf(s, to, "utf-8"),
             new_end_position |-> PositionOf(new, from + n, "utf-8")]
    BY DEF InputEdit, startByte, new, n
  <1>11. TreeSitterEdit(s, change, from, to) = InputEdit(s, from, to, inserted)
    BY <1>6, <1>7, <1>8, <1>9, <1>10
  <1> QED
    BY <1>11 DEF change

Doc(s, t) == [text |-> s, tree |-> t, failed |-> FALSE]

\* An edit of the editor is done as it is, and the tree is not misled.
LEMMA ChangeOfEdit ==
    ASSUME NEW s \in Text, NEW to \in 0..Len(s), NEW from \in 0..to, NEW inserted \in Text, NEW t
    PROVE  Change(Doc(s, t), Edit(s, from, to, inserted)) = Doc(Replace(s, from, to, inserted), t)
  <1> DEFINE doc == Doc(s, t)
             change == Edit(s, from, to, inserted)
             r == <<from, to>>
  <1>1. doc.text = s /\ doc.tree = t /\ doc.failed = FALSE
    BY DEF Doc
  <1>2. change.range = [start |-> PositionOf(s, from, encoding), end |-> PositionOf(s, to, encoding)]
        /\ change.text = inserted
    BY DEF Edit, RangeOf
  <1>3. change.range # NoRange
    <2>1. DOMAIN change.range = {"start", "end"} /\ DOMAIN NoRange = {"all"}
      BY <1>2 DEF NoRange
    <2>2. "all" # "start" /\ "all" # "end"
      OBVIOUS
    <2>3. "all" \in DOMAIN NoRange /\ "all" \notin DOMAIN change.range
      BY <2>1, <2>2
    <2> HIDE DEF change
    <2> QED
      BY <2>3
  <1>4. ChangeCharRange(s, change.range, encoding) = r
    BY <1>2, RangeFound
  <1>5. r # Refused /\ r[1] = from /\ r[2] = to /\ ~(from > to)
    <2>1. Len(r) = 2 /\ Len(Refused) = 0
      BY DEF Refused
    <2>2. Len(s) \in Nat
      BY DEF Text
    <2> QED
      BY <2>1, <2>2
  <1>6. TreeSitterEdit(s, change, from, to) = InputEdit(s, from, to, inserted)
    BY EditTold
  <1> HIDE DEF doc, change, r
  <1>7. Change(doc, change) = Doc(Replace(s, from, to, inserted), t)
    BY <1>1, <1>2, <1>3, <1>4, <1>5, <1>6 DEF Change, Doc
  <1> QED
    BY <1>7 DEF doc, change

LEMMA ChangeOfAll ==
    ASSUME NEW s, NEW t, NEW whole
    PROVE  Change(Doc(s, t), [range |-> NoRange, text |-> whole]) = Doc(whole, "sound")
  BY DEF Change, Doc

-----------------------------------------------------------------------------
(* Batches of changes *)

LEMMA BatchOfOne ==
    ASSUME NEW change
    PROVE  Batch(<<change>>) = Change(Doc(text, tree), change)
  <1> DEFINE changes == <<change>>
             d == Doc(text, tree)
             F(f) == [n \in 0..1 |-> IF n = 0 THEN d ELSE Change(f[n - 1], changes[n])]
             g == CHOOSE f : f = F(f)
             h == [n \in 0..1 |-> IF n = 0 THEN d ELSE Change(d, change)]
  <1>1. Len(changes) = 1 /\ changes[1] = change
    OBVIOUS
  <1>2. Batch(changes) = g[1]
    BY <1>1 DEF Batch, Doc
  <1> HIDE DEF d, changes
  <1>3. h = F(h)
    <2>1. \A n \in 0..1 : h[n] = IF n = 0 THEN d ELSE Change(h[n - 1], changes[n])
      BY <1>1
    <2> QED
      BY <2>1
  <1>4. g = F(g)
    <2> HIDE DEF F, h
    <2>1. \E f : f = F(f)
      BY <1>3
    <2> QED
      BY <2>1
  <1> HIDE DEF g
  <1>5. g[0] = d /\ g[1] = Change(g[0], changes[1])
    <2> DEFINE G == F(g)
    <2>1. G[0] = d /\ G[1] = Change(g[0], changes[1])
      OBVIOUS
    <2>2. g = G
      BY <1>4
    <2> HIDE DEF G
    <2> QED
      BY <2>1, <2>2
  <1>6. Batch(changes) = Change(d, change)
    BY <1>1, <1>2, <1>5
  <1> QED
    BY <1>6 DEF d, changes

LEMMA BatchOfTwo ==
    ASSUME NEW first, NEW second
    PROVE  Batch(<<first, second>>) = Change(Change(Doc(text, tree), first), second)
  <1> DEFINE changes == <<first, second>>
             d == Doc(text, tree)
             e == Change(d, first)
             F(f) == [n \in 0..2 |-> IF n = 0 THEN d ELSE Change(f[n - 1], changes[n])]
             g == CHOOSE f : f = F(f)
             h == [n \in 0..2 |-> IF n = 0 THEN d ELSE IF n = 1 THEN e ELSE Change(e, second)]
  <1>1. Len(changes) = 2 /\ changes[1] = first /\ changes[2] = second
    OBVIOUS
  <1>2. Batch(changes) = g[2]
    BY <1>1 DEF Batch, Doc
  <1>0. e = Change(d, changes[1])
    BY <1>1
  <1> HIDE DEF d, e, changes
  <1>3. h = F(h)
    <2>1. h[0] = d /\ h[1] = Change(h[0], changes[1]) /\ h[2] = Change(h[1], changes[2])
      BY <1>0, <1>1
    <2>2. \A n \in 0..2 : h[n] = IF n = 0 THEN d ELSE Change(h[n - 1], changes[n])
      <3> TAKE n \in 0..2
      <3> HIDE DEF h
      <3>1. n = 0 \/ n = 1 \/ n = 2
        OBVIOUS
      <3> QED
        BY <2>1, <3>1
    <2> QED
      BY <2>2
  <1>4. g = F(g)
    <2> HIDE DEF F, h
    <2>1. \E f : f = F(f)
      BY <1>3
    <2> QED
      BY <2>1
  <1> HIDE DEF g
  <1>5. g[0] = d /\ g[1] = Change(g[0], changes[1]) /\ g[2] = Change(g[1], changes[2])
    <2> DEFINE G == F(g)
    <2>1. G[0] = d /\ G[1] = Change(g[0], changes[1]) /\ G[2] = Change(g[1], changes[2])
      OBVIOUS
    <2>2. g = G
      BY <1>4
    <2> HIDE DEF G
    <2> QED
      BY <2>1, <2>2
  <1>6. Batch(changes) = Change(Change(d, first), second)
    BY <1>1, <1>2, <1>5
  <1> QED
    BY <1>6 DEF d, changes

-----------------------------------------------------------------------------
(* The editor's notifications *)

\* The document follows the editor, and its tree the document.
TextInv ==
    /\ clientText \in Texts
    /\ TextsAgree
    /\ TreeSound

LEMMA EditorReplacesKeeps ==
    ASSUME TextInv, EditorReplaces
    PROVE  TextInv'
  <1>0. Texts \subseteq Text /\ Inserts \subseteq Texts
    BY TextAssumption, TextsAreTexts
  <1>1. PICK r \in Ranges(clientText), inserted \in Inserts :
           /\ clientText' = Replace(clientText, r[1], r[2], inserted)
           /\ clientText' \in Texts
           /\ HandleDocumentChange(<<Edit(clientText, r[1], r[2], inserted)>>)
    BY DEF EditorReplaces
  <1> DEFINE from == r[1]
             to == r[2]
             change == Edit(clientText, from, to, inserted)
  <1>2. clientText \in Text /\ inserted \in Text /\ to \in 0..Len(clientText) /\ from \in 0..to
    <2>1. clientText \in Text /\ inserted \in Text
      BY <1>0 DEF TextInv
    <2>2. r \in (0..Len(clientText)) \X (0..Len(clientText)) /\ r[1] <= r[2]
      BY DEF Ranges
    <2>3. Len(clientText) \in Nat
      BY <2>1 DEF Text
    <2> QED
      BY <2>1, <2>2, <2>3
  <1> HIDE DEF from, to
  <1>3. Batch(<<change>>) = Doc(Replace(clientText, from, to, inserted), "sound")
    <2>1. text = clientText /\ tree = "sound"
      BY DEF TextInv, TextsAgree, TreeSound
    <2>2. Batch(<<change>>) = Change(Doc(clientText, "sound"), change)
      BY <2>1, BatchOfOne
    <2> QED
      BY <1>2, <2>2, ChangeOfEdit
  <1>4. text' = Replace(clientText, from, to, inserted) /\ tree' = "sound"
    <2> DEFINE doc == Batch(<<change>>)
    <2>1. doc.text = Replace(clientText, from, to, inserted) /\ doc.tree = "sound"
          /\ doc.failed = FALSE
      BY <1>3 DEF Doc
    <2>2. HandleDocumentChange(<<change>>)
      BY <1>1 DEF from, to
    <2>3. /\ text' \in IF doc.failed THEN Texts ELSE {doc.text}
          /\ tree' = IF doc.failed THEN "sound" ELSE doc.tree
      BY <2>2 DEF HandleDocumentChange
    <2> HIDE DEF doc
    <2> QED
      BY <2>1, <2>3
  <1> QED
    BY <1>1, <1>4 DEF TextInv, TextsAgree, TreeSound, from, to

LEMMA EditorMovesKeeps ==
    ASSUME TextInv, EditorMoves
    PROVE  TextInv'
  <1>0. Texts \subseteq Text /\ Inserts \subseteq Texts
    BY TextAssumption, TextsAreTexts
  <1>1. PICK r \in Ranges(clientText) :
           LET moved == Slice(clientText, r[1], r[2])
               rest  == Replace(clientText, r[1], r[2], <<>>)
           IN  \E o \in 0..Len(rest) :
                  /\ clientText' = Replace(rest, o, o, moved)
                  /\ clientText' \in Texts
                  /\ HandleDocumentChange(<<Edit(clientText, r[1], r[2], <<>>),
                                            Edit(rest, o, o, moved)>>)
    BY DEF EditorMoves
  <1> DEFINE from == r[1]
             to == r[2]
             moved == Slice(clientText, from, to)
             rest == Replace(clientText, from, to, <<>>)
  <1>2. PICK o \in 0..Len(rest) :
           /\ clientText' = Replace(rest, o, o, moved)
           /\ clientText' \in Texts
           /\ HandleDocumentChange(<<Edit(clientText, from, to, <<>>), Edit(rest, o, o, moved)>>)
    BY <1>1
  <1>3. clientText \in Text /\ to \in 0..Len(clientText) /\ from \in 0..to
    <2>1. clientText \in Text
      BY <1>0 DEF TextInv
    <2>2. r \in (0..Len(clientText)) \X (0..Len(clientText)) /\ r[1] <= r[2]
      BY DEF Ranges
    <2>3. Len(clientText) \in Nat
      BY <2>1 DEF Text
    <2> QED
      BY <2>1, <2>2, <2>3
  <1> HIDE DEF from, to
  <1>4. <<>> \in Text
    BY DEF Text
  <1>5. moved \in Text
    BY <1>3, SliceFacts
  <1>6. rest \in Text
    BY <1>3, <1>4, ReplaceFacts
  <1>7. o \in 0..o
    BY <1>6 DEF Text
  <1> DEFINE first == Edit(clientText, from, to, <<>>)
             second == Edit(rest, o, o, moved)
  <1>8. Change(Doc(clientText, "sound"), first) = Doc(rest, "sound")
    BY <1>3, <1>4, ChangeOfEdit
  <1> HIDE DEF rest, moved
  <1>9. Change(Doc(rest, "sound"), second) = Doc(Replace(rest, o, o, moved), "sound")
    BY <1>5, <1>6, <1>7, ChangeOfEdit
  <1> DEFINE doc == Batch(<<first, second>>)
  <1>10. HandleDocumentChange(<<first, second>>)
    BY <1>2
  <1> HIDE DEF first, second
  <1>11. doc = Doc(Replace(rest, o, o, moved), "sound")
    <2>1. text = clientText /\ tree = "sound"
      BY DEF TextInv, TextsAgree, TreeSound
    <2>2. doc = Change(Change(Doc(clientText, "sound"), first), second)
      BY <2>1, BatchOfTwo
    <2> QED
      BY <1>8, <1>9, <2>2
  <1>12. /\ text' \in IF doc.failed THEN Texts ELSE {doc.text}
         /\ tree' = IF doc.failed THEN "sound" ELSE doc.tree
    BY <1>10 DEF HandleDocumentChange
  <1>13. doc.text = Replace(rest, o, o, moved) /\ doc.tree = "sound" /\ doc.failed = FALSE
    BY <1>11 DEF Doc
  <1> HIDE DEF doc
  <1>14. text' = Replace(rest, o, o, moved) /\ tree' = "sound"
    BY <1>12, <1>13
  <1> QED
    BY <1>2, <1>14 DEF TextInv, TextsAgree, TreeSound

LEMMA EditorSendsAllKeeps ==
    ASSUME TextInv, EditorSendsAll
    PROVE  TextInv'
  <1>0. Inserts \subseteq Texts
    BY TextAssumption, TextsAreTexts
  <1>1. PICK s \in Inserts :
           /\ clientText' = s
           /\ HandleDocumentChange(<<[range |-> NoRange, text |-> s]>>)
    BY DEF EditorSendsAll
  <1> DEFINE change == [range |-> NoRange, text |-> s]
             doc == Batch(<<change>>)
  <1>2. Change(Doc(text, tree), change) = Doc(s, "sound")
    BY ChangeOfAll
  <1>3. doc = Doc(s, "sound")
    <2> HIDE DEF change
    <2> QED
      BY <1>2, BatchOfOne
  <1>4. /\ text' \in IF doc.failed THEN Texts ELSE {doc.text}
        /\ tree' = IF doc.failed THEN "sound" ELSE doc.tree
    BY <1>1 DEF HandleDocumentChange
  <1>5. doc.text = s /\ doc.tree = "sound" /\ doc.failed = FALSE
    BY <1>3 DEF Doc
  <1> HIDE DEF doc
  <1>6. text' = s /\ tree' = "sound"
    BY <1>4, <1>5
  <1> QED
    BY <1>0, <1>1, <1>6 DEF TextInv, TextsAgree, TreeSound

LEMMA TextInductive == TokenSpec => []TextInv
  <1>1. TokenInit => TextInv
    BY TextAssumption DEF TokenInit, DocInit, TextInv, TextsAgree, TreeSound, TextAssumption
  <1>2. TextInv /\ [TokenNext]_vars => TextInv'
    <2> SUFFICES ASSUME TextInv, [TokenNext]_vars
                 PROVE  TextInv'
      OBVIOUS
    <2>1. CASE DocumentChanges
      BY <2>1, EditorReplacesKeeps, EditorMovesKeeps, EditorSendsAllKeeps DEF DocumentChanges
    <2>2. CASE HandleDocumentSave
      BY <2>2 DEF HandleDocumentSave, TextInv, TextsAgree, TreeSound
    <2>3. CASE SemanticTokensFull \/ SemanticTokensFullDelta \/ ClientReceives \/ UNCHANGED vars
      <3>1. UNCHANGED docVars
        BY <2>3 DEF SemanticTokensFull, SemanticTokensFullDelta, ClientReceives, vars
      <3> QED
        BY <3>1 DEF docVars, TextInv, TextsAgree, TreeSound
    <2> QED
      BY <2>1, <2>2, <2>3 DEF TokenNext
  <1> QED
    BY <1>1, <1>2, PTL DEF TokenSpec

\* The rope is the editor's document after every didChange and didSave, for
\* every text, every batch the editor sends and every encoding: the offsets
\* change_char_range finds are the ones the editor meant.
THEOREM TextsAlwaysAgree == TokenSpec => []TextsAgree
  <1>1. TextInv => TextsAgree
    BY DEF TextInv
  <1> QED
    BY <1>1, TextInductive, PTL

\* What tree_sitter_edit reports of a change is what happened, in bytes and in
\* points: the start, the old end, and the new end counted on through the
\* inserted text.
THEOREM TreesStaySound == TokenSpec => []TreeSound
  <1>1. TextInv => TreeSound
    BY DEF TextInv
  <1> QED
    BY <1>1, TextInductive, PTL

-----------------------------------------------------------------------------
(* The tokens of a text *)

Words == {"plain", "accented", "astral"}

\* The spans before one.
Ahead(S, r) == {q \in S : q[1] < r[1]}

LEMMA Ranked ==
    ASSUME NEW S, IsFiniteSet(S), \A r \in S : r[1] \in Nat,
           \A q, r \in S : q[1] = r[1] => q = r
    PROVE  /\ Cardinality(S) \in Nat
           /\ \A k \in 1..Cardinality(S) : \E r \in S : Cardinality(Ahead(S, r)) = k - 1
           /\ \A q, r \in S : Cardinality(Ahead(S, q)) < Cardinality(Ahead(S, r)) => q[1] < r[1]
  <1> DEFINE n == Cardinality(S)
             g == [r \in S |-> Cardinality(Ahead(S, r)) + 1]
  <1>1. n \in Nat
    BY FS_CardinalityType
  <1>2. \A r \in S : /\ IsFiniteSet(Ahead(S, r)) /\ Cardinality(Ahead(S, r)) \in Nat
                     /\ Cardinality(Ahead(S, r)) < n
    <2> TAKE r \in S
    <2>1. Ahead(S, r) \in SUBSET (S \ {r})
      BY DEF Ahead
    <2>2. IsFiniteSet(S \ {r}) /\ Cardinality(S \ {r}) = n - 1
      BY FS_RemoveElement
    <2>3. IsFiniteSet(Ahead(S, r)) /\ Cardinality(Ahead(S, r)) <= n - 1
      BY <2>1, <2>2, FS_Subset
    <2>4. Cardinality(Ahead(S, r)) \in Nat
      BY <2>3, FS_CardinalityType
    <2> HIDE DEF n
    <2> QED
      BY <1>1, <2>3, <2>4
  <1>3. ASSUME NEW q \in S, NEW r \in S, q[1] < r[1]
        PROVE  Cardinality(Ahead(S, q)) < Cardinality(Ahead(S, r))
    <2>1. q \notin Ahead(S, q) /\ Ahead(S, q) \cup {q} \in SUBSET Ahead(S, r)
      BY <1>3 DEF Ahead
    <2>2. IsFiniteSet(Ahead(S, q)) /\ IsFiniteSet(Ahead(S, r))
          /\ Cardinality(Ahead(S, q)) \in Nat /\ Cardinality(Ahead(S, r)) \in Nat
      BY <1>2
    <2>3. Cardinality(Ahead(S, q) \cup {q}) = Cardinality(Ahead(S, q)) + 1
      BY <2>1, <2>2, FS_AddElement
    <2>4. Cardinality(Ahead(S, q) \cup {q}) <= Cardinality(Ahead(S, r))
      BY <2>1, <2>2, FS_Subset
    <2> QED
      BY <2>2, <2>3, <2>4
  <1>4. \A q, r \in S : q[1] < r[1] \/ r[1] < q[1] \/ q = r
    OBVIOUS
  <1>5. g \in Injection(S, 1..n)
    <2>1. g \in [S -> 1..n]
      <3> HIDE DEF n
      <3> QED
        BY <1>1, <1>2
    <2>2. ASSUME NEW q \in S, NEW r \in S, g[q] = g[r]
          PROVE  q = r
      <3>1. Cardinality(Ahead(S, q)) = Cardinality(Ahead(S, r))
        BY <1>2, <2>2
      <3> QED
        BY <1>2, <1>3, <1>4, <3>1
    <2> HIDE DEF g, n
    <2> QED
      BY <2>1, <2>2 DEF Injection, IsInjective
  <1>6. g \in Surjection(S, 1..n)
    <2> HIDE DEF g
    <2>1. IsFiniteSet(1..n) /\ Cardinality(1..n) = n
      <3> HIDE DEF n
      <3>1. n \in Int /\ 1 \in Int
        BY <1>1
      <3> QED
        BY <1>1, <3>1, FS_Interval
    <2> QED
      BY <1>5, <2>1, FS_Injection
  <1>7. ASSUME NEW k \in 1..n
        PROVE  \E r \in S : Cardinality(Ahead(S, r)) = k - 1
    <2>1. PICK r \in S : g[r] = k
      <3> HIDE DEF g
      <3> QED
        BY <1>6 DEF Surjection
    <2>2. Cardinality(Ahead(S, r)) + 1 = k
      BY <2>1
    <2> QED
      BY <1>2, <2>2
  <1>8. ASSUME NEW q \in S, NEW r \in S, Cardinality(Ahead(S, q)) < Cardinality(Ahead(S, r))
        PROVE  q[1] < r[1]
    BY <1>2, <1>3, <1>4, <1>8
  <1> QED
    BY <1>1, <1>7, <1>8

LEMMA SpansFacts ==
    ASSUME NEW s \in Text, NEW kinds \in SUBSET Words
    PROVE  /\ \A r \in Spans(s, kinds) :
                 /\ r[1] \in Nat /\ r[2] \in Nat /\ r[1] < r[2] /\ r[2] <= Len(s)
                 /\ \A i \in r[1] + 1 .. r[2] : s[i] # "newline"
           /\ \A q, r \in Spans(s, kinds) : q[1] = r[1] => q = r
           /\ IsFiniteSet(Spans(s, kinds))
  <1> DEFINE S == Spans(s, kinds)
             n == Len(s)
  <1>1. n \in Nat
    BY DEF Text
  <1>2. ASSUME NEW r \in S
        PROVE  /\ r \in (0..n) \X (0..n) /\ r[1] \in Nat /\ r[2] \in Nat /\ r[1] < r[2] /\ r[2] <= n
               /\ \E k \in Words : /\ \A i \in r[1] + 1 .. r[2] : s[i] = k
                                   /\ r[2] < n => s[r[2] + 1] # k
    BY <1>1 DEF Spans, Ranges
  <1>3. \A r \in S : \A i \in r[1] + 1 .. r[2] : s[i] # "newline"
    BY <1>2 DEF Words
  <1>4. ASSUME NEW q \in S, NEW r \in S, q[1] = r[1], q[2] < r[2]
        PROVE  FALSE
    <2>1. PICK k : (\A i \in q[1] + 1 .. q[2] : s[i] = k) /\ (q[2] < n => s[q[2] + 1] # k)
      BY <1>2
    <2>2. PICK l : \A i \in r[1] + 1 .. r[2] : s[i] = l
      BY <1>2
    <2>3. q[1] \in Nat /\ q[2] \in Nat /\ r[2] \in Nat /\ q[1] < q[2] /\ r[2] <= n
      BY <1>2
    <2> HIDE DEF n, S
    <2>4. q[2] \in q[1] + 1 .. q[2] /\ q[2] \in r[1] + 1 .. r[2] /\ q[2] + 1 \in r[1] + 1 .. r[2]
      BY <1>4, <2>3
    <2>5. q[2] < n
      BY <1>1, <1>4, <2>3
    <2> QED
      BY <2>1, <2>2, <2>4, <2>5
  <1>5. \A q, r \in S : q[1] = r[1] => q = r
    <2> SUFFICES ASSUME NEW q \in S, NEW r \in S, q[1] = r[1]
                 PROVE  q = r
      OBVIOUS
    <2>1. q \in (0..n) \X (0..n) /\ r \in (0..n) \X (0..n) /\ q[2] \in Nat /\ r[2] \in Nat
      BY <1>2
    <2> HIDE DEF S, n
    <2>2. q[2] = r[2]
      BY <1>4, <2>1
    <2> QED
      BY <2>1, <2>2
  <1>6. IsFiniteSet(S)
    <2> DEFINE f == [r \in S |-> r[1]]
    <2>1. f \in [S -> 0..n] /\ \A q, r \in S : f[q] = f[r] => q = r
      BY <1>1, <1>2, <1>5
    <2>2. IsFiniteSet(0..n)
      BY <1>1, FS_Interval
    <2> HIDE DEF f, S, n
    <2>3. f \in Injection(S, 0..n)
      BY <2>1 DEF Injection, IsInjective
    <2> QED
      BY <2>2, <2>3, FS_Injection
  <1> QED
    BY <1>2, <1>3, <1>5, <1>6

\* The i-th token, in a text of n: it is one, and comes after those before it.
LEMMA SpanFound ==
    ASSUME NEW s \in Text, NEW kinds \in SUBSET Words
    PROVE  /\ Cardinality(Spans(s, kinds)) \in Nat
           /\ \A i \in 1..Cardinality(Spans(s, kinds)) : Span(s, kinds, i) \in Spans(s, kinds)
           /\ \A i \in 1..Cardinality(Spans(s, kinds)) : i # 1 =>
                 Span(s, kinds, i - 1)[1] < Span(s, kinds, i)[1]
  <1> DEFINE S == Spans(s, kinds)
             n == Cardinality(S)
  <1>1. /\ n \in Nat
        /\ \A k \in 1..n : \E r \in S : Cardinality(Ahead(S, r)) = k - 1
        /\ \A q, r \in S : Cardinality(Ahead(S, q)) < Cardinality(Ahead(S, r)) => q[1] < r[1]
    <2>1. IsFiniteSet(S) /\ (\A r \in S : r[1] \in Nat) /\ \A q, r \in S : q[1] = r[1] => q = r
      BY SpansFacts
    <2> HIDE DEF S
    <2> QED
      BY <2>1, Ranked
  <1>2. \A i : Span(s, kinds, i) = CHOOSE r \in S : Cardinality(Ahead(S, r)) = i - 1
    BY DEF Span, Ahead
  <1> HIDE DEF S, n
  <1>3. \A i \in 1..n : Span(s, kinds, i) \in S /\ Cardinality(Ahead(S, Span(s, kinds, i))) = i - 1
    BY <1>1, <1>2
  <1>4. \A i \in 1..n : i # 1 => Span(s, kinds, i - 1)[1] < Span(s, kinds, i)[1]
    <2> SUFFICES ASSUME NEW i \in 1..n, i # 1
                 PROVE  Span(s, kinds, i - 1)[1] < Span(s, kinds, i)[1]
      OBVIOUS
    <2>1. i - 1 \in 1..n
      BY <1>1
    <2>2. Cardinality(Ahead(S, Span(s, kinds, i - 1))) = i - 1 - 1
          /\ Cardinality(Ahead(S, Span(s, kinds, i))) = i - 1
      BY <1>3, <2>1
    <2>3. Cardinality(Ahead(S, Span(s, kinds, i - 1))) < Cardinality(Ahead(S, Span(s, kinds, i)))
      BY <1>1, <2>2
    <2> QED
      BY <1>1, <1>3, <2>1, <2>3
  <1> QED
    BY <1>1, <1>3, <1>4 DEF S, n

-----------------------------------------------------------------------------
(* Their positions *)

LEMMA PositionOrder ==
    ASSUME NEW s \in Text, NEW b \in 0..Len(s), NEW a \in 0..b, NEW enc
    PROVE  /\ PositionOf(s, a, enc).line \in Nat /\ PositionOf(s, a, enc).character \in Nat
           /\ PositionOf(s, b, enc).line \in Nat /\ PositionOf(s, b, enc).character \in Nat
           /\ PositionOf(s, a, enc).line <= PositionOf(s, b, enc).line
           /\ PositionOf(s, a, enc).line = PositionOf(s, b, enc).line =>
                 PositionOf(s, b, enc).character
                    = PositionOf(s, a, enc).character + Length(Slice(s, a, b), enc)
           /\ (\A i \in a + 1 .. b : s[i] # "newline") =>
                 PositionOf(s, a, enc).line = PositionOf(s, b, enc).line
  <1>1. Len(s) \in Nat /\ a \in 0..Len(s) /\ a \in Nat /\ b \in Nat /\ a <= b
    BY DEF Text
  <1>2. /\ IsFiniteSet(Breaks(s, a)) /\ Cardinality(Breaks(s, a)) \in Nat
        /\ IsFiniteSet(Breaks(s, b)) /\ Cardinality(Breaks(s, b)) \in Nat
        /\ LineStart(s, a) \in 0..a /\ LineStart(s, b) \in 0..b
    BY <1>1, BreaksFacts
  <1>3. Breaks(s, a) \in SUBSET Breaks(s, b)
    BY <1>1 DEF Breaks
  <1>4. /\ Cardinality(Breaks(s, a)) <= Cardinality(Breaks(s, b))
        /\ Cardinality(Breaks(s, a)) = Cardinality(Breaks(s, b)) => Breaks(s, a) = Breaks(s, b)
    BY <1>2, <1>3, FS_Subset
  <1>5. (\A i \in a + 1 .. b : s[i] # "newline") => Breaks(s, b) = Breaks(s, a)
    BY <1>1 DEF Breaks
  <1>6. /\ PositionOf(s, a, enc).line = Cardinality(Breaks(s, a))
        /\ PositionOf(s, b, enc).line = Cardinality(Breaks(s, b))
        /\ PositionOf(s, a, enc).character = Length(Slice(s, LineStart(s, a), a), enc)
        /\ PositionOf(s, b, enc).character = Length(Slice(s, LineStart(s, b), b), enc)
    BY PositionIs
  <1>7. /\ Length(Slice(s, LineStart(s, a), a), enc) \in Nat
        /\ Length(Slice(s, LineStart(s, a), b), enc) =
              Length(Slice(s, LineStart(s, a), a), enc) + Length(Slice(s, a, b), enc)
    BY <1>1, <1>2, LengthOrder
  <1>8. Length(Slice(s, LineStart(s, b), b), enc) \in Nat
    <2>1. b \in 0..b
      BY <1>1
    <2> QED
      BY <1>2, <2>1, LengthOrder
  <1>9. Breaks(s, a) = Breaks(s, b) => LineStart(s, a) = LineStart(s, b)
    BY DEF LineStart
  <1> QED
    BY <1>2, <1>4, <1>5, <1>6, <1>7, <1>8, <1>9

LEMMA FirstPosition ==
    ASSUME NEW s \in Text, NEW enc
    PROVE  PositionOf(s, 0, enc) = Origin
  <1>1. Len(s) \in Nat /\ 0 \in 0..Len(s)
    BY DEF Text
  <1>2. Breaks(s, 0) = {} /\ LineStart(s, 0) \in 0..0
    <2>1. LineStart(s, 0) \in 0..0
      BY <1>1, BreaksFacts
    <2> QED
      BY <2>1 DEF Breaks
  <1>3. LineStart(s, 0) = 0
    BY <1>2
  <1>4. Length(Slice(s, 0, 0), enc) = 0
    BY <1>1, EmptySlice
  <1>5. Cardinality({}) = 0
    BY FS_EmptySet
  <1> QED
    BY <1>2, <1>3, <1>4, <1>5, PositionIs DEF Origin

\* Where the i-th token starts in the text, and the text itself.
Offset(s, kinds, i) == IF i = 0 THEN 0 ELSE Span(s, kinds, i)[1]

LEMMA OffsetsOrdered ==
    ASSUME NEW s \in Text, NEW kinds \in SUBSET Words, NEW i \in 0..Cardinality(Spans(s, kinds))
    PROVE  /\ Offset(s, kinds, i) \in 0..Len(s)
           /\ \A enc : StartOf(s, kinds, i, enc) = PositionOf(s, Offset(s, kinds, i), enc)
           /\ i # 0 => /\ i - 1 \in 0..Cardinality(Spans(s, kinds))
                       /\ Offset(s, kinds, i - 1) \in 0..Offset(s, kinds, i)
                       /\ Span(s, kinds, i)[2] \in Offset(s, kinds, i)..Len(s)
                       /\ Offset(s, kinds, i) = Span(s, kinds, i)[1]
                       /\ \A j \in Offset(s, kinds, i) + 1 .. Span(s, kinds, i)[2] : s[j] # "newline"
  <1> DEFINE n == Cardinality(Spans(s, kinds))
  <1>1. /\ n \in Nat
        /\ \A j \in 1..n : Span(s, kinds, j) \in Spans(s, kinds)
        /\ \A j \in 1..n : j # 1 => Span(s, kinds, j - 1)[1] < Span(s, kinds, j)[1]
    BY SpanFound
  <1>2. \A r \in Spans(s, kinds) :
                 /\ r[1] \in Nat /\ r[2] \in Nat /\ r[1] < r[2] /\ r[2] <= Len(s)
                 /\ \A j \in r[1] + 1 .. r[2] : s[j] # "newline"
    BY SpansFacts
  <1>3. Len(s) \in Nat
    BY DEF Text
  <1>4. \A enc : StartOf(s, kinds, i, enc) = PositionOf(s, Offset(s, kinds, i), enc)
    BY FirstPosition DEF StartOf, Offset
  <1> HIDE DEF n
  <1>5. CASE i = 0
    BY <1>3, <1>4, <1>5 DEF Offset, n
  <1>6. CASE i # 0
    <2>1. i \in 1..n /\ i - 1 \in 0..n /\ Offset(s, kinds, i) = Span(s, kinds, i)[1]
      BY <1>1, <1>6 DEF Offset, n
    <2>2. Span(s, kinds, i) \in Spans(s, kinds)
      BY <1>1, <2>1
    <2>3. Span(s, kinds, i)[1] \in 0..Len(s) /\ Span(s, kinds, i)[2] \in Span(s, kinds, i)[1]..Len(s)
          /\ \A j \in Span(s, kinds, i)[1] + 1 .. Span(s, kinds, i)[2] : s[j] # "newline"
      <3>1. /\ Span(s, kinds, i)[1] \in Nat /\ Span(s, kinds, i)[2] \in Nat
            /\ Span(s, kinds, i)[1] < Span(s, kinds, i)[2] /\ Span(s, kinds, i)[2] <= Len(s)
            /\ \A j \in Span(s, kinds, i)[1] + 1 .. Span(s, kinds, i)[2] : s[j] # "newline"
        BY <1>2, <2>2
      <3> QED
        BY <1>3, <3>1
    <2>4. Offset(s, kinds, i - 1) \in 0..Span(s, kinds, i)[1]
      <3>1. CASE i = 1
        BY <2>3, <3>1 DEF Offset
      <3>2. CASE i # 1
        <4>1. i - 1 \in 1..n /\ i - 1 # 0
          BY <1>1, <2>1, <3>2
        <4>2. Span(s, kinds, i - 1) \in Spans(s, kinds)
          BY <1>1, <4>1
        <4>3. Span(s, kinds, i - 1)[1] \in Nat
          BY <1>2, <4>2
        <4>4. Span(s, kinds, i - 1)[1] < Span(s, kinds, i)[1]
          BY <1>1, <2>1, <3>2
        <4>5. Offset(s, kinds, i - 1) = Span(s, kinds, i - 1)[1]
          BY <4>1 DEF Offset
        <4> QED
          BY <2>3, <4>3, <4>4, <4>5
      <3> QED
        BY <3>1, <3>2
    <2> QED
      BY <1>4, <2>1, <2>3, <2>4 DEF n
  <1> QED
    BY <1>5, <1>6

-----------------------------------------------------------------------------
(* Going along a stream *)

LEMMA PositionsGoOn ==
    ASSUME NEW p, NEW stream, Len(stream) \in Nat
    PROVE  \A n \in 0..Len(stream) :
              Positions(p, stream)[n] = IF n = 0 THEN p
                                        ELSE After(Positions(p, stream)[n - 1], stream[n])
  <1> DEFINE M == Len(stream)
             F(f) == [n \in 0..M |-> IF n = 0 THEN p ELSE After(f[n - 1], stream[n])]
             g == CHOOSE f : f = F(f)
  <1>0. Positions(p, stream) = g
    BY DEF Positions
  <1>1. M \in Nat
    OBVIOUS
  <1> HIDE DEF M
  <1> DEFINE E(n) == \E f : f = [i \in 0..n |-> IF i = 0 THEN p ELSE After(f[i - 1], stream[i])]
             B == {n \in Nat : ~E(n)}
  <1>2. E(0)
    <2> DEFINE h == [i \in 0..0 |-> p]
    <2>1. h = [i \in 0..0 |-> IF i = 0 THEN p ELSE After(h[i - 1], stream[i])]
      OBVIOUS
    <2> HIDE DEF h
    <2> QED
      BY <2>1
  <1>3. ASSUME NEW n \in Nat, E(n)
        PROVE  E(n + 1)
    <2>1. PICK f : f = [i \in 0..n |-> IF i = 0 THEN p ELSE After(f[i - 1], stream[i])]
      BY <1>3
    <2>2. \A i \in 0..n : f[i] = IF i = 0 THEN p ELSE After(f[i - 1], stream[i])
      <3> DEFINE G == [i \in 0..n |-> IF i = 0 THEN p ELSE After(f[i - 1], stream[i])]
      <3>1. \A i \in 0..n : G[i] = IF i = 0 THEN p ELSE After(f[i - 1], stream[i])
        OBVIOUS
      <3>2. f = G
        BY <2>1
      <3> HIDE DEF G
      <3> QED
        BY <3>1, <3>2
    <2> DEFINE h == [i \in 0..n + 1 |-> IF i = n + 1 THEN After(f[n], stream[n + 1]) ELSE f[i]]
    <2>3. \A i \in 0..n + 1 : h[i] = IF i = 0 THEN p ELSE After(h[i - 1], stream[i])
      <3> TAKE i \in 0..n + 1
      <3>1. CASE i = n + 1
        <4>1. i # 0 /\ i - 1 = n /\ i - 1 \in 0..n + 1 /\ i - 1 # n + 1
          BY <3>1
        <4> QED
          BY <3>1, <4>1
      <3>2. CASE i # n + 1
        <4>1. i \in 0..n /\ (i # 0 => i - 1 \in 0..n + 1 /\ i - 1 # n + 1)
          BY <3>2
        <4> QED
          BY <2>2, <3>2, <4>1
      <3> QED
        BY <3>1, <3>2
    <2>4. h = [i \in 0..n + 1 |-> IF i = 0 THEN p ELSE After(h[i - 1], stream[i])]
      BY <2>3
    <2> HIDE DEF h
    <2> QED
      BY <2>4
  <1> HIDE DEF E
  <1>4. B = {}
    <2> SUFFICES ASSUME B # {}
                 PROVE  FALSE
      OBVIOUS
    <2>1. PICK m \in B : \A k \in B : m <= k
      BY LeastNumber
    <2>2. m \in Nat /\ ~E(m) /\ m # 0
      BY <1>2
    <2>3. m - 1 \in Nat /\ (m - 1) + 1 = m /\ m - 1 \notin B
      BY <2>1, <2>2
    <2>4. E((m - 1) + 1)
      BY <1>3, <2>3
    <2> QED
      BY <2>2, <2>3, <2>4
  <1>5. E(M)
    BY <1>1, <1>4
  <1>6. g = F(g)
    <2>1. \E f : f = F(f)
      BY <1>5 DEF E
    <2> HIDE DEF F
    <2> QED
      BY <2>1
  <1> HIDE DEF g
  <1>7. \A n \in 0..M : g[n] = IF n = 0 THEN p ELSE After(g[n - 1], stream[n])
    <2> DEFINE G == F(g)
    <2>1. \A n \in 0..M : G[n] = IF n = 0 THEN p ELSE After(g[n - 1], stream[n])
      OBVIOUS
    <2>2. g = G
      BY <1>6
    <2> HIDE DEF G
    <2> QED
      BY <2>1, <2>2
  <1> QED
    BY <1>0, <1>7 DEF M

LEMMA PositionsAlong ==
    ASSUME NEW p, NEW stream, Len(stream) \in Nat, NEW w, w[0] = p,
           \A n \in 1..Len(stream) : w[n] = After(w[n - 1], stream[n])
    PROVE  \A n \in 0..Len(stream) : Positions(p, stream)[n] = w[n]
  <1> DEFINE M == Len(stream)
             g == Positions(p, stream)
             B == {n \in 0..M : g[n] # w[n]}
  <1>1. \A n \in 0..M : g[n] = IF n = 0 THEN p ELSE After(g[n - 1], stream[n])
    BY PositionsGoOn
  <1> HIDE DEF g
  <1>2. ASSUME B # {}
        PROVE  FALSE
    <2>0. B \in SUBSET Nat /\ B # {}
      BY <1>2
    <2>1. PICK m \in B : \A k \in B : m <= k
      BY <2>0, LeastNumber
    <2>2. m \in 0..M /\ g[m] # w[m]
      OBVIOUS
    <2>3. m # 0
      BY <1>1, <2>2
    <2>4. m - 1 \in 0..M /\ m \in 1..M /\ m - 1 \notin B
      BY <2>1, <2>2, <2>3
    <2>5. g[m - 1] = w[m - 1]
      BY <2>4
    <2> QED
      BY <1>1, <2>2, <2>3, <2>4, <2>5
  <1> QED
    BY <1>2 DEF g

LEMMA PositionsTypes ==
    ASSUME NEW p, p.line \in Nat, p.character \in Nat, NEW stream \in Seq(Token)
    PROVE  \A n \in 0..Len(stream) : /\ Positions(p, stream)[n].line \in Nat
                                     /\ Positions(p, stream)[n].character \in Nat
  <1> DEFINE M == Len(stream)
             g == Positions(p, stream)
             T(q) == q.line \in Nat /\ q.character \in Nat
             B == {n \in 0..M : ~T(g[n])}
  <1>0. M \in Nat /\ \A n \in 1..M : stream[n] \in Token
    OBVIOUS
  <1>1. \A n \in 0..M : g[n] = IF n = 0 THEN p ELSE After(g[n - 1], stream[n])
    BY <1>0, PositionsGoOn
  <1>2. \A q : \A t \in Token : T(q) => T(After(q, t))
    BY DEF After, Token
  <1>3. T(p)
    OBVIOUS
  <1> HIDE DEF g, T, M
  <1>4. ASSUME B # {}
        PROVE  FALSE
    <2>0. B \in SUBSET Nat /\ B # {}
      BY <1>0, <1>4
    <2>1. PICK m \in B : \A k \in B : m <= k
      BY <2>0, LeastNumber
    <2>2. m \in 0..M /\ ~T(g[m])
      OBVIOUS
    <2>3. m # 0
      BY <1>1, <1>3, <2>2
    <2>4. m - 1 \in 0..M /\ m \in 1..M /\ m - 1 \notin B
      BY <1>0, <2>1, <2>2, <2>3
    <2>5. T(g[m - 1])
      BY <2>4
    <2>6. g[m] = After(g[m - 1], stream[m])
      BY <1>1, <2>2, <2>3
    <2> QED
      BY <1>0, <1>2, <2>2, <2>4, <2>5, <2>6
  <1>5. \A n \in 0..M : T(g[n])
    BY <1>4
  <1> QED
    BY <1>5 DEF g, T, M

-----------------------------------------------------------------------------
(* The stream of a text *)

Tokens(s, kinds) == Cardinality(Spans(s, kinds))

LEMMA StreamIs ==
    ASSUME NEW s \in Text, NEW kinds \in SUBSET Words, NEW enc
    PROVE  /\ Tokens(s, kinds) \in Nat
           /\ StreamOf(s, kinds, enc) \in Seq(Token)
           /\ Len(StreamOf(s, kinds, enc)) = Tokens(s, kinds)
           /\ \A i \in 1..Tokens(s, kinds) :
                 StreamOf(s, kinds, enc)[i] =
                   [line |-> StartOf(s, kinds, i, enc).line - StartOf(s, kinds, i - 1, enc).line,
                    start |-> Apart(StartOf(s, kinds, i - 1, enc), StartOf(s, kinds, i, enc)),
                    length |-> Length(Slice(s, Span(s, kinds, i)[1], Span(s, kinds, i)[2]), enc)]
  <1> DEFINE n == Tokens(s, kinds)
             Start(i) == StartOf(s, kinds, i, enc)
             t(i) == [line |-> Start(i).line - Start(i - 1).line,
                      start |-> Apart(Start(i - 1), Start(i)),
                      length |-> Length(Slice(s, Span(s, kinds, i)[1], Span(s, kinds, i)[2]), enc)]
             st == StreamOf(s, kinds, enc)
  <1>1. n \in Nat
    BY SpanFound DEF Tokens
  <1>2. st = [i \in 1..n |-> t(i)]
    BY DEF StreamOf, Tokens
  <1>3. ASSUME NEW i \in 1..n
        PROVE  t(i) \in Token
    <2> DEFINE a == Offset(s, kinds, i - 1)
               b == Offset(s, kinds, i)
               c == Span(s, kinds, i)[2]
    <2>1. i \in 0..n /\ i # 0
      BY <1>1
    <2>2. /\ b \in 0..Len(s) /\ i - 1 \in 0..n /\ a \in 0..b /\ c \in b..Len(s)
          /\ b = Span(s, kinds, i)[1] /\ Start(i) = PositionOf(s, b, enc)
      BY <2>1, OffsetsOrdered DEF Tokens
    <2>3. Start(i - 1) = PositionOf(s, a, enc)
      BY <2>2, OffsetsOrdered DEF Tokens
    <2> HIDE DEF a, b, c, Start
    <2>4. /\ Start(i - 1).line \in Nat /\ Start(i - 1).character \in Nat
          /\ Start(i).line \in Nat /\ Start(i).character \in Nat
          /\ Start(i - 1).line <= Start(i).line
          /\ Start(i - 1).line = Start(i).line =>
                Start(i).character = Start(i - 1).character + Length(Slice(s, a, b), enc)
      BY <2>2, <2>3, PositionOrder
    <2>5. Len(s) \in Nat
      BY DEF Text
    <2>6. Length(Slice(s, a, b), enc) \in Nat /\ Length(Slice(s, b, c), enc) \in Nat
      <3>1. Slice(s, a, b) \in Text
        BY <2>2, SliceFacts
      <3>2. c \in 0..Len(s) /\ b \in 0..c
        BY <2>2, <2>5
      <3>3. Slice(s, b, c) \in Text
        BY <3>2, SliceFacts
      <3> QED
        BY <3>1, <3>3, LengthTypes
    <2>7. Apart(Start(i - 1), Start(i)) \in Nat
      BY <2>4, <2>6 DEF Apart
    <2>8. Start(i).line - Start(i - 1).line \in Nat
      BY <2>4
    <2>9. Length(Slice(s, Span(s, kinds, i)[1], Span(s, kinds, i)[2]), enc) \in Nat
      BY <2>2, <2>6 DEF c
    <2> QED
      BY <2>7, <2>8, <2>9 DEF Token
  <1> HIDE DEF n, st, t
  <1>4. st \in Seq(Token) /\ Len(st) = n /\ \A i \in 1..n : st[i] = t(i)
    BY <1>1, <1>2, <1>3
  <1> QED
    BY <1>1, <1>4 DEF n, st, t

\* A token of the stream leads from the start of the one before to its own.
LEMMA StreamLeads ==
    ASSUME NEW s \in Text, NEW kinds \in SUBSET Words, NEW i \in 1..Tokens(s, kinds), NEW enc
    PROVE  After(StartOf(s, kinds, i - 1, enc), StreamOf(s, kinds, enc)[i])
              = StartOf(s, kinds, i, enc)
  <1> DEFINE p == StartOf(s, kinds, i - 1, enc)
             q == StartOf(s, kinds, i, enc)
             t == StreamOf(s, kinds, enc)[i]
  <1>1. i \in 0..Tokens(s, kinds) /\ i - 1 \in 0..Tokens(s, kinds) /\ i # 0
    BY StreamIs
  <1>2. p = PositionOf(s, Offset(s, kinds, i - 1), enc) /\ q = PositionOf(s, Offset(s, kinds, i), enc)
        /\ Offset(s, kinds, i) \in 0..Len(s) /\ Offset(s, kinds, i - 1) \in 0..Offset(s, kinds, i)
    BY <1>1, OffsetsOrdered DEF Tokens
  <1>3. t.line = q.line - p.line /\ t.start = Apart(p, q)
    <2>1. t = [line |-> q.line - p.line, start |-> Apart(p, q),
               length |-> Length(Slice(s, Span(s, kinds, i)[1], Span(s, kinds, i)[2]), enc)]
      BY StreamIs
    <2> QED
      BY <2>1
  <1>4. q = [line |-> q.line, character |-> q.character]
    BY <1>2, PositionIs
  <1> HIDE DEF p, q, t
  <1>5. /\ p.line \in Nat /\ p.character \in Nat /\ q.line \in Nat /\ q.character \in Nat
        /\ p.line <= q.line
    BY <1>2, PositionOrder
  <1>6. p.line + t.line = q.line /\ (t.line = 0 <=> p.line = q.line)
    BY <1>3, <1>5
  <1>7. (IF t.line = 0 THEN p.character + t.start ELSE t.start) = q.character
    BY <1>3, <1>5, <1>6 DEF Apart
  <1>8. After(p, t) = q
    BY <1>4, <1>6, <1>7 DEF After
  <1> QED
    BY <1>8 DEF p, q, t

LEMMA TokenSlices ==
    ASSUME NEW q \in Seq(Token), NEW b \in 0..Len(q), NEW a \in 0..b
    PROVE  /\ Slice(q, a, b) \in Seq(Token) /\ Len(Slice(q, a, b)) = b - a
           /\ \A i \in 1..b - a : Slice(q, a, b)[i] = q[a + i]
  BY DEF Slice

\* The positions of a stretch of the stream that goes on from the token
\* before it.
LEMMA PositionsOfStretch ==
    ASSUME NEW s \in Text, NEW kinds \in SUBSET Words, NEW enc,
           NEW b \in 0..Tokens(s, kinds), NEW a \in 0..b
    PROVE  \A n \in 0..b - a :
              Positions(StartOf(s, kinds, a, enc), Slice(StreamOf(s, kinds, enc), a, b))[n]
                 = StartOf(s, kinds, a + n, enc)
  <1> DEFINE st == StreamOf(s, kinds, enc)
             data == Slice(st, a, b)
             w == [n \in 0..b - a |-> StartOf(s, kinds, a + n, enc)]
             p == StartOf(s, kinds, a, enc)
  <1>1. Tokens(s, kinds) \in Nat /\ st \in Seq(Token) /\ Len(st) = Tokens(s, kinds)
    BY StreamIs
  <1> HIDE DEF st
  <1>2. Len(data) = b - a /\ \A i \in 1..b - a : data[i] = st[a + i]
    <2>1. b \in 0..Len(st)
      BY <1>1
    <2> QED
      BY <1>1, <2>1, TokenSlices
  <1>3. a \in Nat /\ b \in Nat /\ b - a \in Nat
    BY <1>1
  <1> HIDE DEF data
  <1>4. w[0] = p
    <2>1. 0 \in 0..b - a /\ a + 0 = a
      BY <1>3
    <2> QED
      BY <2>1
  <1>5. ASSUME NEW n \in 1..b - a
        PROVE  w[n] = After(w[n - 1], data[n])
    <2> DEFINE i == a + n
    <2>1. i \in 1..Tokens(s, kinds) /\ i - 1 = a + (n - 1) /\ n \in 0..b - a /\ n - 1 \in 0..b - a
      BY <1>1, <1>3
    <2>2. w[n] = StartOf(s, kinds, i, enc) /\ w[n - 1] = StartOf(s, kinds, i - 1, enc) /\ data[n] = st[i]
      BY <1>2, <2>1
    <2> HIDE DEF i, w
    <2> QED
      BY <2>1, <2>2, StreamLeads DEF st
  <1> HIDE DEF w, p
  <1>6. \A n \in 0..b - a : Positions(p, data)[n] = w[n]
    <2>1. Len(data) \in Nat /\ \A n \in 1..Len(data) : w[n] = After(w[n - 1], data[n])
      BY <1>2, <1>3, <1>5
    <2>2. \A n \in 0..Len(data) : Positions(p, data)[n] = w[n]
      BY <1>4, <2>1, PositionsAlong
    <2> QED
      BY <1>2, <2>2
  <1> QED
    BY <1>6 DEF w, p, data, st

-----------------------------------------------------------------------------
(* Its conversion *)

LEMMA StartConverted ==
    ASSUME NEW s \in Text, NEW kinds \in SUBSET Words, NEW i \in 0..Tokens(s, kinds), NEW enc
    PROVE  PositionToEncoding(s, StartOf(s, kinds, i, "utf-8"), "utf-8", enc)
              = StartOf(s, kinds, i, enc)
  <1> DEFINE o == Offset(s, kinds, i)
  <1>1. /\ o \in 0..Len(s)
        /\ StartOf(s, kinds, i, "utf-8") = PositionOf(s, o, "utf-8")
        /\ StartOf(s, kinds, i, enc) = PositionOf(s, o, enc)
    BY OffsetsOrdered DEF Tokens
  <1> HIDE DEF o
  <1> QED
    BY <1>1, PositionConverted

LEMMA TokenConverted ==
    ASSUME NEW s \in Text, NEW kinds \in SUBSET Words, NEW i \in 1..Tokens(s, kinds), NEW enc
    PROVE  LET at     == StartOf(s, kinds, i, "utf-8")
               target == StartOf(s, kinds, i, enc)
               before == StartOf(s, kinds, i - 1, enc)
               end    == PositionToEncoding(s, [line |-> at.line,
                             character |-> at.character + StreamOf(s, kinds, "utf-8")[i].length],
                             "utf-8", enc)
           IN  [line |-> Less(target.line, before.line),
                start |-> IF target.line = before.line
                          THEN Less(target.character, before.character)
                          ELSE target.character,
                length |-> Less(end.character, target.character)]
                  = StreamOf(s, kinds, enc)[i]
  <1> DEFINE at == StartOf(s, kinds, i, "utf-8")
             target == StartOf(s, kinds, i, enc)
             before == StartOf(s, kinds, i - 1, enc)
             t == StreamOf(s, kinds, "utf-8")[i]
             past == [line |-> at.line, character |-> at.character + t.length]
             end == PositionToEncoding(s, past, "utf-8", enc)
             a == Offset(s, kinds, i - 1)
             b == Offset(s, kinds, i)
             c == Span(s, kinds, i)[2]
             width(e) == Length(Slice(s, b, c), e)
  <1>0. i \in 0..Tokens(s, kinds) /\ i - 1 \in 0..Tokens(s, kinds) /\ i # 0 /\ Len(s) \in Nat
    BY StreamIs DEF Text
  <1>1. /\ b \in 0..Len(s) /\ a \in 0..b /\ c \in b..Len(s) /\ b = Span(s, kinds, i)[1]
        /\ \A j \in b + 1 .. c : s[j] # "newline"
        /\ at = PositionOf(s, b, "utf-8") /\ target = PositionOf(s, b, enc)
    BY <1>0, OffsetsOrdered DEF Tokens
  <1>2. before = PositionOf(s, a, enc)
    BY <1>0, OffsetsOrdered DEF Tokens
  <1>3. t.length = width("utf-8")
    <2>1. t = [line |-> StartOf(s, kinds, i, "utf-8").line - StartOf(s, kinds, i - 1, "utf-8").line,
               start |-> Apart(StartOf(s, kinds, i - 1, "utf-8"), StartOf(s, kinds, i, "utf-8")),
               length |-> Length(Slice(s, Span(s, kinds, i)[1], c), "utf-8")]
      BY StreamIs
    <2> HIDE DEF t, b, c
    <2> QED
      BY <1>1, <2>1
  <1>4. StreamOf(s, kinds, enc)[i]
          = [line |-> target.line - before.line, start |-> Apart(before, target),
             length |-> width(enc)]
    <2>1. StreamOf(s, kinds, enc)[i]
            = [line |-> target.line - before.line, start |-> Apart(before, target),
               length |-> Length(Slice(s, Span(s, kinds, i)[1], c), enc)]
      BY StreamIs
    <2> HIDE DEF target, before, b, c
    <2> QED
      BY <1>1, <2>1
  <1> HIDE DEF at, target, before, t, a, b, c
  <1>5. c \in 0..Len(s) /\ b \in 0..c
    BY <1>0, <1>1
  <1>6. past = PositionOf(s, c, "utf-8")
    <2>1. /\ at.line = PositionOf(s, c, "utf-8").line
          /\ PositionOf(s, c, "utf-8").character = at.character + width("utf-8")
      BY <1>1, <1>5, PositionOrder
    <2>2. PositionOf(s, c, "utf-8") = [line |-> PositionOf(s, c, "utf-8").line,
                                       character |-> PositionOf(s, c, "utf-8").character]
      BY PositionIs
    <2> QED
      BY <1>3, <2>1, <2>2
  <1>7. end = PositionOf(s, c, enc)
    BY <1>5, <1>6, PositionConverted
  <1>8. /\ PositionOf(s, c, enc).character = target.character + width(enc)
        /\ target.character \in Nat
    BY <1>1, <1>5, PositionOrder
  <1>9. width(enc) \in Nat
    BY <1>5, SliceFacts, LengthTypes
  <1>10. /\ before.line \in Nat /\ before.character \in Nat /\ target.line \in Nat
         /\ before.line <= target.line
         /\ before.line = target.line =>
               target.character = before.character + Length(Slice(s, a, b), enc)
    BY <1>1, <1>2, PositionOrder
  <1>11. Length(Slice(s, a, b), enc) \in Nat
    BY <1>1, SliceFacts, LengthTypes
  <1> HIDE DEF width, end, past
  <1>12. Less(end.character, target.character) = width(enc)
    BY <1>7, <1>8, <1>9 DEF Less
  <1>13. Less(target.line, before.line) = target.line - before.line
    BY <1>10 DEF Less
  <1>14. (IF target.line = before.line THEN Less(target.character, before.character)
                                       ELSE target.character) = Apart(before, target)
    BY <1>8, <1>10, <1>11 DEF Less, Apart
  <1>15. [line |-> Less(target.line, before.line),
          start |-> IF target.line = before.line THEN Less(target.character, before.character)
                    ELSE target.character,
          length |-> Less(end.character, target.character)] = StreamOf(s, kinds, enc)[i]
    BY <1>4, <1>12, <1>13, <1>14
  <1> QED
    BY <1>15 DEF target, before, end, past, at, t

\* What is converted from the token it goes on from, in both encodings, is the
\* stretch of the stream in the other encoding.
LEMMA StretchConverted ==
    ASSUME NEW s \in Text, NEW kinds \in SUBSET Words, NEW enc,
           NEW b \in 0..Tokens(s, kinds), NEW a \in 0..b
    PROVE  ConvertSeededTokenStream(s, Slice(StreamOf(s, kinds, "utf-8"), a, b), "utf-8", enc,
                                    StartOf(s, kinds, a, "utf-8"), StartOf(s, kinds, a, enc))
              = Slice(StreamOf(s, kinds, enc), a, b)
  <1> DEFINE data == Slice(StreamOf(s, kinds, "utf-8"), a, b)
             wanted == Slice(StreamOf(s, kinds, enc), a, b)
             p == StartOf(s, kinds, a, "utf-8")
             q == StartOf(s, kinds, a, enc)
             at == Positions(p, data)
             Target(n) == IF n = 0 THEN q ELSE PositionToEncoding(s, at[n], "utf-8", enc)
             End(n) == PositionToEncoding(s, [line |-> at[n].line,
                                              character |-> at[n].character + data[n].length],
                                          "utf-8", enc)
             row(n) == [line |-> Less(Target(n).line, Target(n - 1).line),
                        start |-> IF Target(n).line = Target(n - 1).line
                                  THEN Less(Target(n).character, Target(n - 1).character)
                                  ELSE Target(n).character,
                        length |-> Less(End(n).character, Target(n).character)]
  <1>1. ConvertSeededTokenStream(s, data, "utf-8", enc, p, q)
          = IF "utf-8" = enc THEN data ELSE [n \in 1..Len(data) |-> row(n)]
    BY DEF ConvertSeededTokenStream
  <1>2. CASE "utf-8" = enc
    BY <1>1, <1>2
  <1>3. CASE "utf-8" # enc
    <2>1. Tokens(s, kinds) \in Nat /\ a \in Nat /\ b \in Nat /\ b - a \in Nat
          /\ \A e : StreamOf(s, kinds, e) \in Seq(Token) /\ Len(StreamOf(s, kinds, e)) = Tokens(s, kinds)
      BY StreamIs
    <2>2. /\ Len(data) = b - a
          /\ \A n \in 1..b - a : data[n] = StreamOf(s, kinds, "utf-8")[a + n]
      <3>1. StreamOf(s, kinds, "utf-8") \in Seq(Token) /\ b \in 0..Len(StreamOf(s, kinds, "utf-8"))
        BY <2>1
      <3> QED
        BY <3>1, TokenSlices
    <2>3. /\ wanted \in Seq(Token) /\ Len(wanted) = b - a
          /\ \A n \in 1..b - a : wanted[n] = StreamOf(s, kinds, enc)[a + n]
      BY <2>1, TokenSlices
    <2>4. \A n \in 0..b - a : at[n] = StartOf(s, kinds, a + n, "utf-8")
      BY PositionsOfStretch
    <2> HIDE DEF data, wanted, at
    <2>5. ASSUME NEW n \in 0..b - a
          PROVE  Target(n) = StartOf(s, kinds, a + n, enc)
      <3>1. a + n \in 0..Tokens(s, kinds) /\ a + 0 = a
        BY <2>1
      <3>2. at[n] = StartOf(s, kinds, a + n, "utf-8")
        BY <2>4
      <3>3. PositionToEncoding(s, StartOf(s, kinds, a + n, "utf-8"), "utf-8", enc)
              = StartOf(s, kinds, a + n, enc)
        BY <3>1, StartConverted
      <3> QED
        BY <3>1, <3>2, <3>3
    <2>6. ASSUME NEW n \in 1..b - a
          PROVE  row(n) = wanted[n]
      <3> DEFINE i == a + n
      <3>1. i \in 1..Tokens(s, kinds) /\ n \in 0..b - a /\ n - 1 \in 0..b - a /\ a + (n - 1) = i - 1
        BY <2>1
      <3>2. Target(n) = StartOf(s, kinds, i, enc) /\ Target(n - 1) = StartOf(s, kinds, i - 1, enc)
        <4>1. Target(n) = StartOf(s, kinds, a + n, enc)
          BY <2>5, <3>1
        <4>2. Target(n - 1) = StartOf(s, kinds, a + (n - 1), enc)
          BY <2>5, <3>1
        <4> QED
          BY <3>1, <4>1, <4>2
      <3>3. at[n] = StartOf(s, kinds, i, "utf-8") /\ data[n] = StreamOf(s, kinds, "utf-8")[i]
            /\ wanted[n] = StreamOf(s, kinds, enc)[i]
        BY <2>2, <2>3, <2>4, <3>1
      <3> HIDE DEF i, Target
      <3> QED
        BY <3>1, <3>2, <3>3, TokenConverted
    <2> HIDE DEF row
    <2>7. [n \in 1..Len(data) |-> row(n)] = wanted
      <3>1. wanted = [n \in 1..b - a |-> wanted[n]]
        BY <2>3
      <3>2. [n \in 1..b - a |-> row(n)] = [n \in 1..b - a |-> wanted[n]]
        BY <2>6
      <3> QED
        BY <2>2, <3>1, <3>2
    <2> QED
      BY <1>1, <1>3, <2>7 DEF data, wanted
  <1> QED
    BY <1>2, <1>3

LEMMA AnchorIs ==
    ASSUME NEW s \in Text, NEW kinds \in SUBSET Words, NEW i \in 0..Tokens(s, kinds), NEW enc
    PROVE  AbsolutePosition(Slice(StreamOf(s, kinds, enc), 0, i)) = StartOf(s, kinds, i, enc)
  <1> DEFINE data == Slice(StreamOf(s, kinds, enc), 0, i)
  <1>1. Tokens(s, kinds) \in Nat /\ i \in Nat /\ 0 \in 0..i /\ i - 0 = i /\ i \in 0..i - 0 /\ 0 + i = i
    BY StreamIs
  <1>2. Len(data) = i
    <2>1. StreamOf(s, kinds, enc) \in Seq(Token) /\ i \in 0..Len(StreamOf(s, kinds, enc))
      BY StreamIs
    <2>2. Len(data) = i - 0
      BY <1>1, <2>1, TokenSlices
    <2> QED
      BY <1>1, <2>2
  <1>3. StartOf(s, kinds, 0, enc) = Origin
    BY DEF StartOf
  <1>4. Positions(StartOf(s, kinds, 0, enc), data)[i] = StartOf(s, kinds, 0 + i, enc)
    BY <1>1, PositionsOfStretch
  <1> QED
    BY <1>1, <1>2, <1>3, <1>4 DEF AbsolutePosition

\* A full reply holds the tokens of the text in the client's encoding.
LEMMA FullConverted ==
    ASSUME NEW s \in Text, NEW kinds \in SUBSET Words
    PROVE  ConvertData(s, StreamOf(s, kinds, "utf-8")) = StreamOf(s, kinds, encoding)
  <1> DEFINE n == Tokens(s, kinds)
  <1>1. /\ n \in Nat
        /\ \A e : StreamOf(s, kinds, e) \in Seq(Token) /\ Len(StreamOf(s, kinds, e)) = n
    BY StreamIs
  <1> HIDE DEF n
  <1>2. \A e : Slice(StreamOf(s, kinds, e), 0, n) = StreamOf(s, kinds, e)
    BY <1>1 DEF Slice
  <1>3. \A e : StartOf(s, kinds, 0, e) = Origin
    BY DEF StartOf
  <1>4. n \in 0..Tokens(s, kinds) /\ 0 \in 0..n
    BY <1>1 DEF n
  <1>5. ConvertSeededTokenStream(s, Slice(StreamOf(s, kinds, "utf-8"), 0, n), "utf-8", encoding,
                                 StartOf(s, kinds, 0, "utf-8"), StartOf(s, kinds, 0, encoding))
          = Slice(StreamOf(s, kinds, encoding), 0, n)
    BY <1>4, StretchConverted
  <1> QED
    BY <1>2, <1>3, <1>5 DEF ConvertData

-----------------------------------------------------------------------------
(* Flat arrays *)

Row(V) == [line: V, start: V, length: V]

LEMMA Thirds ==
    /\ \A a \in Nat, c \in 1..3 : /\ (3 * (a - 1) + c - 1) \div 3 + 1 = a
                                  /\ (3 * (a - 1) + c - 1) % 3 = c - 1
    /\ \A n \in Nat : \A k \in 1..3 * n : \E a \in 1..n, c \in 1..3 : k = 3 * (a - 1) + c
  <1>1. \A a \in Nat, c \in 1..3 : /\ (3 * (a - 1) + c - 1) \div 3 + 1 = a
                                   /\ (3 * (a - 1) + c - 1) % 3 = c - 1
    OBVIOUS
  <1>2. ASSUME NEW n \in Nat, NEW k \in 1..3 * n
        PROVE  \E a \in 1..n, c \in 1..3 : k = 3 * (a - 1) + c
    <2> DEFINE a == (k - 1) \div 3 + 1
               c == ((k - 1) % 3) + 1
    <2>1. a \in 1..n /\ c \in 1..3 /\ k = 3 * (a - 1) + c
      OBVIOUS
    <2> QED
      BY <2>1
  <1> QED
    BY <1>1, <1>2

LEMMA FlatIs ==
    ASSUME NEW V, NEW q \in Seq(Row(V))
    PROVE  /\ Flat(q) \in Seq(V) /\ Len(Flat(q)) = 3 * Len(q) /\ Len(q) \in Nat
           /\ \A j \in 1..Len(q), c \in 1..3 : Flat(q)[3 * (j - 1) + c] = Numbers(q[j])[c]
  <1> DEFINE n == Len(q)
             f(k) == Numbers(q[(k - 1) \div 3 + 1])[((k - 1) % 3) + 1]
  <1>1. n \in Nat /\ \A j \in 1..n : q[j] \in Row(V)
    OBVIOUS
  <1>2. Flat(q) = [k \in 1..3 * n |-> f(k)]
    BY DEF Flat, SEMANTIC_TOKEN_WIDTH
  <1>3. \A r \in Row(V), c \in 1..3 : Numbers(r)[c] \in V
    BY DEF Numbers, Row
  <1>4. ASSUME NEW j \in 1..n, NEW c \in 1..3
        PROVE  f(3 * (j - 1) + c) = Numbers(q[j])[c] /\ Numbers(q[j])[c] \in V
    <2>1. (3 * (j - 1) + c - 1) \div 3 + 1 = j /\ ((3 * (j - 1) + c - 1) % 3) + 1 = c
      BY Thirds
    <2> QED
      BY <1>1, <1>3, <2>1
  <1> HIDE DEF n, f
  <1>5. ASSUME NEW k \in 1..3 * n
        PROVE  f(k) \in V
    <2>1. PICK j \in 1..n, c \in 1..3 : k = 3 * (j - 1) + c
      BY <1>1, Thirds
    <2> QED
      BY <1>4, <2>1
  <1>6. 3 * n \in Nat
    BY <1>1
  <1>7. Flat(q) \in Seq(V) /\ Len(Flat(q)) = 3 * n /\ \A k \in 1..3 * n : Flat(q)[k] = f(k)
    BY <1>2, <1>5, <1>6
  <1>8. ASSUME NEW j \in 1..n, NEW c \in 1..3
        PROVE  Flat(q)[3 * (j - 1) + c] = Numbers(q[j])[c]
    <2>1. 3 * (j - 1) + c \in 1..3 * n
      BY <1>1
    <2> QED
      BY <1>4, <1>7, <2>1
  <1> QED
    BY <1>1, <1>7, <1>8 DEF n

LEMMA SameFlat ==
    ASSUME NEW V, NEW q \in Seq(Row(V)), NEW f \in Seq(V), Len(f) = 3 * Len(q),
           \A j \in 1..Len(q), c \in 1..3 : f[3 * (j - 1) + c] = Numbers(q[j])[c]
    PROVE  f = Flat(q)
  <1>1. /\ Flat(q) \in Seq(V) /\ Len(Flat(q)) = Len(f) /\ Len(q) \in Nat
        /\ \A j \in 1..Len(q), c \in 1..3 : Flat(q)[3 * (j - 1) + c] = Numbers(q[j])[c]
    BY FlatIs
  <1>2. ASSUME NEW k \in 1..Len(f)
        PROVE  f[k] = Flat(q)[k]
    <2>1. Len(q) \in Nat /\ k \in 1..3 * Len(q)
      BY <1>1
    <2>2. \E j \in 1..Len(q), c \in 1..3 : k = 3 * (j - 1) + c
      BY <2>1, Thirds
    <2>3. PICK j \in 1..Len(q), c \in 1..3 : k = 3 * (j - 1) + c
      BY <2>2
    <2> QED
      BY <1>1, <2>3
  <1> QED
    BY <1>1, <1>2

LEMMA ChunksOfFlat ==
    ASSUME NEW V, NEW q \in Seq(Row(V))
    PROVE  Chunks(Flat(q)) = q
  <1> DEFINE n == Len(q)
             f == Flat(q)
             row(i) == [line |-> f[3 * (i - 1) + 1], start |-> f[3 * (i - 1) + 2],
                        length |-> f[3 * (i - 1) + 3]]
  <1>1. /\ Len(f) = 3 * n /\ n \in Nat
        /\ \A j \in 1..n, c \in 1..3 : f[3 * (j - 1) + c] = Numbers(q[j])[c]
    BY FlatIs
  <1>2. (3 * n) \div 3 = n
    BY <1>1
  <1>3. Chunks(f) = [i \in 1..n |-> row(i)]
    BY <1>1, <1>2 DEF Chunks, SEMANTIC_TOKEN_WIDTH
  <1>4. ASSUME NEW i \in 1..n
        PROVE  row(i) = q[i]
    <2>1. q[i] \in Row(V)
      OBVIOUS
    <2>2. /\ f[3 * (i - 1) + 1] = Numbers(q[i])[1] /\ f[3 * (i - 1) + 2] = Numbers(q[i])[2]
          /\ f[3 * (i - 1) + 3] = Numbers(q[i])[3]
      <3>1. 1 \in 1..3 /\ 2 \in 1..3 /\ 3 \in 1..3
        OBVIOUS
      <3> HIDE DEF f, n
      <3> QED
        BY <1>1, <3>1, Zenon
    <2>3. Numbers(q[i])[1] = q[i].line /\ Numbers(q[i])[2] = q[i].start /\ Numbers(q[i])[3] = q[i].length
      BY DEF Numbers
    <2> HIDE DEF f
    <2>4. row(i) = [line |-> q[i].line, start |-> q[i].start, length |-> q[i].length]
      BY <2>2, <2>3
    <2> QED
      BY <2>1, <2>4 DEF Row
  <1>5. q = [i \in 1..n |-> q[i]]
    OBVIOUS
  <1> HIDE DEF row, n
  <1>6. [i \in 1..n |-> row(i)] = [i \in 1..n |-> q[i]]
    BY <1>4
  <1> QED
    BY <1>3, <1>5, <1>6 DEF f

LEMMA FlatStretch ==
    ASSUME NEW V, NEW q \in Seq(Row(V)), NEW b \in 0..Len(q), NEW a \in 0..b
    PROVE  Slice(Flat(q), 3 * a, 3 * b) = Flat(Slice(q, a, b))
  <1> DEFINE f == Flat(q)
             part == Slice(q, a, b)
             cut == Slice(f, 3 * a, 3 * b)
  <1>1. /\ f \in Seq(V) /\ Len(f) = 3 * Len(q) /\ Len(q) \in Nat
        /\ \A j \in 1..Len(q), c \in 1..3 : f[3 * (j - 1) + c] = Numbers(q[j])[c]
    BY FlatIs
  <1>2. part \in Seq(Row(V)) /\ Len(part) = b - a /\ \A j \in 1..b - a : part[j] = q[a + j]
    BY <1>1 DEF Slice
  <1> HIDE DEF f
  <1>3. cut \in Seq(V) /\ Len(cut) = 3 * (b - a) /\ \A k \in 1..3 * (b - a) : cut[k] = f[3 * a + k]
    BY <1>1 DEF Slice
  <1> HIDE DEF cut, part
  <1>4. ASSUME NEW j \in 1..Len(part), NEW c \in 1..3
        PROVE  cut[3 * (j - 1) + c] = Numbers(part[j])[c]
    <2>1. j \in 1..b - a /\ a + j \in 1..Len(q)
      BY <1>1, <1>2
    <2>2. 3 * (j - 1) + c \in 1..3 * (b - a) /\ 3 * a + (3 * (j - 1) + c) = 3 * ((a + j) - 1) + c
      BY <2>1
    <2>3. cut[3 * (j - 1) + c] = f[3 * ((a + j) - 1) + c]
      BY <1>3, <2>2
    <2> QED
      BY <1>1, <1>2, <2>1, <2>3
  <1>5. cut = Flat(part)
    BY <1>2, <1>3, <1>4, SameFlat
  <1> QED
    BY <1>5 DEF cut, part, f

LEMMA FlatConcat ==
    ASSUME NEW V, NEW q \in Seq(Row(V)), NEW r \in Seq(Row(V))
    PROVE  Flat(q) \o Flat(r) = Flat(q \o r)
  <1> DEFINE f == Flat(q)
             g == Flat(r)
             both == q \o r
             flat == f \o g
  <1>1. /\ f \in Seq(V) /\ Len(f) = 3 * Len(q) /\ Len(q) \in Nat
        /\ \A j \in 1..Len(q), c \in 1..3 : f[3 * (j - 1) + c] = Numbers(q[j])[c]
    BY FlatIs
  <1>2. /\ g \in Seq(V) /\ Len(g) = 3 * Len(r) /\ Len(r) \in Nat
        /\ \A j \in 1..Len(r), c \in 1..3 : g[3 * (j - 1) + c] = Numbers(r[j])[c]
    BY FlatIs
  <1> HIDE DEF f, g
  <1>3. /\ both \in Seq(Row(V)) /\ Len(both) = Len(q) + Len(r)
        /\ \A j \in 1..Len(q) : both[j] = q[j]
        /\ \A j \in 1..Len(r) : both[Len(q) + j] = r[j]
    BY <1>1, <1>2
  <1>0. f \in Seq(V) /\ g \in Seq(V)
    BY <1>1, <1>2
  <1>4. /\ flat \in Seq(V) /\ Len(flat) = Len(f) + Len(g)
        /\ \A k \in 1..Len(f) : flat[k] = f[k]
        /\ \A k \in 1..Len(g) : flat[Len(f) + k] = g[k]
    BY <1>0
  <1> HIDE DEF both, flat
  <1>5. ASSUME NEW j \in 1..Len(both), NEW c \in 1..3
        PROVE  flat[3 * (j - 1) + c] = Numbers(both[j])[c]
    <2>1. CASE j <= Len(q)
      <3>1. j \in 1..Len(q) /\ 3 * (j - 1) + c \in 1..Len(f)
        BY <1>1, <2>1
      <3> QED
        BY <1>1, <1>3, <1>4, <3>1
    <2>2. CASE j > Len(q)
      <3> DEFINE i == j - Len(q)
      <3>1. i \in 1..Len(r) /\ 3 * (i - 1) + c \in 1..Len(g) /\ Len(q) + i = j
            /\ Len(f) + (3 * (i - 1) + c) = 3 * (j - 1) + c
        BY <1>1, <1>2, <1>3, <2>2
      <3> HIDE DEF i
      <3>2. flat[Len(f) + (3 * (i - 1) + c)] = g[3 * (i - 1) + c] /\ both[Len(q) + i] = r[i]
        BY <1>3, <1>4, <3>1
      <3> QED
        BY <1>2, <3>1, <3>2
    <2> QED
      BY <1>1, <2>1, <2>2
  <1>6. Len(flat) = 3 * Len(both)
    BY <1>1, <1>2, <1>3, <1>4
  <1>7. flat = Flat(both)
    BY <1>3, <1>4, <1>5, <1>6, SameFlat
  <1> QED
    BY <1>7 DEF flat, both, f, g

\* An edit on whole tokens of a stream.
Spliced(q, i, n, data) == Slice(q, 0, i) \o data \o Slice(q, i + n, Len(q))

LEMMA EditOfTokens ==
    ASSUME NEW V, NEW q \in Seq(Row(V)), NEW data \in Seq(Row(V)), NEW i \in Nat, NEW n \in Nat,
           i + n <= Len(q)
    PROVE  SpliceEdit(Flat(q), TokenEdit(i, n, data)) = Flat(Spliced(q, i, n, data))
  <1> DEFINE e == TokenEdit(i, n, data)
             f == Flat(q)
             m == Len(q)
  <1>1. Len(f) = 3 * m /\ m \in Nat
    BY FlatIs
  <1>2. e.start = 3 * i /\ e.delete_count = 3 * n /\ e.data = data
    BY DEF TokenEdit, SEMANTIC_TOKEN_WIDTH
  <1> HIDE DEF e, f
  <1>3. Min({3 * i, 3 * m}) = 3 * i
    <2>1. {3 * i, 3 * m} \in SUBSET Int /\ 3 * i \in {3 * i, 3 * m} /\ \A y \in {3 * i, 3 * m} : 3 * i <= y
      BY <1>1
    <2> QED
      BY <2>1, MinIs
  <1>4. Min({3 * i + 3 * n, 3 * m}) = 3 * (i + n)
    <2> DEFINE k == 3 * (i + n)
               S == {3 * i + 3 * n, 3 * m}
    <2>1. S \in SUBSET Int /\ k \in S /\ \A y \in S : k <= y
      BY <1>1
    <2> HIDE DEF k, S
    <2>2. Min(S) = k
      BY <2>1, MinIs
    <2> QED
      BY <2>2 DEF k, S
  <1>5. SpliceEdit(f, e) = Slice(f, 3 * 0, 3 * i) \o Flat(data) \o Slice(f, 3 * (i + n), 3 * m)
    <2>1. Min({e.start, Len(f)}) = 3 * i
      BY <1>1, <1>2, <1>3
    <2>2. Min({3 * i + e.delete_count, Len(f)}) = 3 * (i + n)
      BY <1>1, <1>2, <1>4
    <2>3. SpliceEdit(f, e) = Slice(f, 0, 3 * i) \o Flat(e.data) \o Slice(f, 3 * (i + n), Len(f))
      BY <2>1, <2>2, Zenon DEF SpliceEdit
    <2> QED
      BY <1>1, <1>2, <2>3
  <1>6. i \in 0..m /\ 0 \in 0..i /\ m \in 0..m /\ i + n \in 0..m
    BY <1>1
  <1>7. Slice(f, 3 * 0, 3 * i) = Flat(Slice(q, 0, i))
    BY <1>6, FlatStretch DEF f
  <1>8. Slice(f, 3 * (i + n), 3 * m) = Flat(Slice(q, i + n, m))
    BY <1>6, FlatStretch DEF f
  <1>9. Slice(q, 0, i) \in Seq(Row(V)) /\ Slice(q, i + n, m) \in Seq(Row(V))
    BY <1>1, <1>6 DEF Slice
  <1>10. Flat(Slice(q, 0, i)) \o Flat(data) = Flat(Slice(q, 0, i) \o data)
    BY <1>9, FlatConcat
  <1>11. Slice(q, 0, i) \o data \in Seq(Row(V))
    BY <1>9
  <1>12. Flat(Slice(q, 0, i) \o data) \o Flat(Slice(q, i + n, m))
           = Flat((Slice(q, 0, i) \o data) \o Slice(q, i + n, m))
    BY <1>9, <1>11, FlatConcat
  <1> QED
    BY <1>5, <1>7, <1>8, <1>10, <1>12 DEF Spliced, e, f, m

-----------------------------------------------------------------------------
(* The edits of a delta, applied from the back *)

LEMMA SpliceOfNone ==
    ASSUME NEW q
    PROVE  Splice(q, <<>>) = Chunks(Flat(q))
  <1> DEFINE edits == <<>>
             d == Flat(q)
             F(f) == [n \in 0..0 |-> IF n = 0 THEN d ELSE SpliceEdit(f[n - 1], BackToFront(edits)[n])]
             g == CHOOSE f : f = F(f)
             h == [n \in 0..0 |-> d]
  <1>1. Splice(q, edits) = Chunks(g[0])
    BY DEF Splice
  <1> HIDE DEF d
  <1>2. h = F(h)
    OBVIOUS
  <1>3. g = F(g)
    <2> HIDE DEF F, h
    <2>1. \E f : f = F(f)
      BY <1>2
    <2> QED
      BY <2>1
  <1> HIDE DEF g
  <1>4. g[0] = d
    <2> DEFINE G == F(g)
    <2>1. G[0] = d
      OBVIOUS
    <2>2. g = G
      BY <1>3
    <2> HIDE DEF G
    <2> QED
      BY <2>1, <2>2
  <1> QED
    BY <1>1, <1>4 DEF d

LEMMA OneToFront ==
    ASSUME NEW e, e.start \in Nat
    PROVE  BackToFront(<<e>>)[1] = e
  <1> DEFINE edits == <<e>>
             Before(i) == {j \in 1..Len(edits) : \/ edits[j].start < edits[i].start
                                                 \/ edits[j].start = edits[i].start /\ j < i}
             At(n) == CHOOSE i \in 1..Len(edits) : Cardinality(Before(i)) = Len(edits) - n
  <1>1. BackToFront(edits) = [n \in 1..Len(edits) |-> edits[At(n)]]
    BY DEF BackToFront
  <1>2. Len(edits) = 1 /\ edits[1] = e
    OBVIOUS
  <1>3. ASSUME NEW i \in 1..1
        PROVE  Before(i) = {}
    BY <1>2
  <1>4. Cardinality({}) = 0
    BY FS_EmptySet
  <1>5. At(1) \in 1..1
    <2>0. 1 \in 1..Len(edits) /\ Cardinality(Before(1)) = 0 /\ Len(edits) - 1 = 0
      BY <1>2, <1>3, <1>4
    <2> HIDE DEF Before, edits
    <2>1. \E i \in 1..Len(edits) : Cardinality(Before(i)) = Len(edits) - 1
      BY <2>0
    <2>2. At(1) \in 1..Len(edits)
      BY <2>1
    <2> QED
      BY <1>2, <2>2
  <1> HIDE DEF At, edits
  <1>6. BackToFront(edits)[1] = edits[At(1)]
    BY <1>1, <1>2
  <1> QED
    BY <1>2, <1>5, <1>6 DEF edits

LEMMA TwoToFront ==
    ASSUME NEW e, NEW f, e.start \in Nat, f.start \in Nat, f.start < e.start
    PROVE  /\ BackToFront(<<e, f>>)[1] = e /\ BackToFront(<<e, f>>)[2] = f
           /\ BackToFront(<<f, e>>)[1] = e /\ BackToFront(<<f, e>>)[2] = f
  <1>1. ASSUME NEW edits, Len(edits) = 2, edits[1].start \in Nat, edits[2].start \in Nat,
               NEW i \in {1, 2}, NEW j \in {1, 2}, i # j, edits[i].start < edits[j].start
        PROVE  BackToFront(edits)[1] = edits[j] /\ BackToFront(edits)[2] = edits[i]
    <2> DEFINE Before(k) == {l \in 1..Len(edits) : \/ edits[l].start < edits[k].start
                                                   \/ edits[l].start = edits[k].start /\ l < k}
               At(n) == CHOOSE k \in 1..Len(edits) : Cardinality(Before(k)) = Len(edits) - n
    <2>1. BackToFront(edits) = [n \in 1..Len(edits) |-> edits[At(n)]]
      BY DEF BackToFront
    <2>2. Before(i) = {} /\ Before(j) = {i}
      BY <1>1
    <2>3. Cardinality({}) = 0 /\ Cardinality({i}) = 1
      BY FS_EmptySet, FS_Singleton
    <2>4. Cardinality(Before(i)) = 0 /\ Cardinality(Before(j)) = 1
      BY <2>2, <2>3
    <2>5. i \in 1..Len(edits) /\ j \in 1..Len(edits) /\ \A k \in 1..Len(edits) : k = i \/ k = j
      BY <1>1
    <2> HIDE DEF Before
    <2>6. At(1) = j
      <3>1. \E k \in 1..Len(edits) : Cardinality(Before(k)) = Len(edits) - 1
        BY <1>1, <2>4, <2>5
      <3>2. At(1) \in 1..Len(edits) /\ Cardinality(Before(At(1))) = Len(edits) - 1
        BY <3>1
      <3> HIDE DEF At
      <3> QED
        BY <1>1, <2>4, <2>5, <3>2
    <2>7. At(2) = i
      <3>1. \E k \in 1..Len(edits) : Cardinality(Before(k)) = Len(edits) - 2
        BY <1>1, <2>4, <2>5
      <3>2. At(2) \in 1..Len(edits) /\ Cardinality(Before(At(2))) = Len(edits) - 2
        BY <3>1
      <3> HIDE DEF At
      <3> QED
        BY <1>1, <2>4, <2>5, <3>2
    <2> HIDE DEF At
    <2> QED
      BY <1>1, <2>1, <2>6, <2>7
  <1>2. /\ Len(<<e, f>>) = 2 /\ <<e, f>>[1] = e /\ <<e, f>>[2] = f
        /\ Len(<<f, e>>) = 2 /\ <<f, e>>[1] = f /\ <<f, e>>[2] = e
    OBVIOUS
  <1>3. BackToFront(<<e, f>>)[1] = <<e, f>>[1] /\ BackToFront(<<e, f>>)[2] = <<e, f>>[2]
    BY <1>1, <1>2
  <1>4. BackToFront(<<f, e>>)[1] = <<f, e>>[2] /\ BackToFront(<<f, e>>)[2] = <<f, e>>[1]
    BY <1>1, <1>2
  <1> QED
    BY <1>2, <1>3, <1>4

LEMMA SpliceOfOne ==
    ASSUME NEW q, NEW e, e.start \in Nat
    PROVE  Splice(q, <<e>>) = Chunks(SpliceEdit(Flat(q), e))
  <1> DEFINE edits == <<e>>
             d == Flat(q)
             b == BackToFront(edits)
             F(f) == [n \in 0..1 |-> IF n = 0 THEN d ELSE SpliceEdit(f[n - 1], b[n])]
             g == CHOOSE f : f = F(f)
             h == [n \in 0..1 |-> IF n = 0 THEN d ELSE SpliceEdit(d, b[1])]
  <1>0. Len(edits) = 1
    OBVIOUS
  <1>1. Splice(q, edits) = Chunks(g[1])
    BY <1>0 DEF Splice
  <1>2. b[1] = e
    BY OneToFront
  <1> HIDE DEF d, b
  <1>3. h = F(h)
    OBVIOUS
  <1>4. g = F(g)
    <2> HIDE DEF F, h
    <2>1. \E f : f = F(f)
      BY <1>3
    <2> QED
      BY <2>1
  <1> HIDE DEF g
  <1>5. g[0] = d /\ g[1] = SpliceEdit(g[0], b[1])
    <2> DEFINE G == F(g)
    <2>1. G[0] = d /\ G[1] = SpliceEdit(g[0], b[1])
      OBVIOUS
    <2>2. g = G
      BY <1>4
    <2> HIDE DEF G
    <2> QED
      BY <2>1, <2>2
  <1> QED
    BY <1>1, <1>2, <1>5 DEF d

LEMMA SpliceOfTwo ==
    ASSUME NEW q, NEW edits, Len(edits) = 2
    PROVE  Splice(q, edits)
             = Chunks(SpliceEdit(SpliceEdit(Flat(q), BackToFront(edits)[1]), BackToFront(edits)[2]))
  <1> DEFINE d == Flat(q)
             b == BackToFront(edits)
             F(f) == [n \in 0..2 |-> IF n = 0 THEN d ELSE SpliceEdit(f[n - 1], b[n])]
             g == CHOOSE f : f = F(f)
             k == SpliceEdit(d, b[1])
             h == [n \in 0..2 |-> IF n = 0 THEN d ELSE IF n = 1 THEN k ELSE SpliceEdit(k, b[2])]
  <1>1. Splice(q, edits) = Chunks(g[2])
    BY DEF Splice
  <1>2. k = SpliceEdit(d, b[1])
    OBVIOUS
  <1> HIDE DEF d, b, k
  <1>3. h = F(h)
    <2>1. h[0] = d /\ h[1] = SpliceEdit(h[0], b[1]) /\ h[2] = SpliceEdit(h[1], b[2])
      BY <1>2
    <2>2. \A n \in 0..2 : h[n] = IF n = 0 THEN d ELSE SpliceEdit(h[n - 1], b[n])
      <3> TAKE n \in 0..2
      <3> HIDE DEF h
      <3>1. n = 0 \/ n = 1 \/ n = 2
        OBVIOUS
      <3> QED
        BY <2>1, <3>1
    <2> QED
      BY <2>2
  <1>4. g = F(g)
    <2> HIDE DEF F, h
    <2>1. \E f : f = F(f)
      BY <1>3
    <2> QED
      BY <2>1
  <1> HIDE DEF g
  <1>5. g[0] = d /\ g[1] = SpliceEdit(g[0], b[1]) /\ g[2] = SpliceEdit(g[1], b[2])
    <2> DEFINE G == F(g)
    <2>1. G[0] = d /\ G[1] = SpliceEdit(g[0], b[1]) /\ G[2] = SpliceEdit(g[1], b[2])
      OBVIOUS
    <2>2. g = G
      BY <1>4
    <2> HIDE DEF G
    <2> QED
      BY <2>1, <2>2
  <1> QED
    BY <1>1, <1>5 DEF d, b

LEMMA Joined ==
    ASSUME NEW R, NEW a \in Seq(R), NEW b \in Seq(R)
    PROVE  /\ a \o b \in Seq(R) /\ Len(a \o b) = Len(a) + Len(b)
           /\ \A k \in 1..Len(a) : (a \o b)[k] = a[k]
           /\ \A k \in 1..Len(b) : (a \o b)[Len(a) + k] = b[k]
  OBVIOUS

\* What x is, the sequence q with n of its elements after i replaced by data.
Edited(R, x, q, i, n, data) ==
    /\ x \in Seq(R) /\ Len(x) = Len(q) - n + Len(data)
    /\ \A k \in 1..i : x[k] = q[k]
    /\ \A k \in 1..Len(data) : x[i + k] = data[k]
    /\ \A k \in 1..Len(q) - n + Len(data) : k > i + Len(data) => x[k] = q[k - Len(data) + n]

LEMMA SplicedIs ==
    ASSUME NEW R, NEW q \in Seq(R), NEW data \in Seq(R), NEW i \in Nat, NEW n \in Nat,
           i + n <= Len(q)
    PROVE  Edited(R, Spliced(q, i, n, data), q, i, n, data)
  <1> DEFINE l == Len(q)
             w == Len(data)
             front == Slice(q, 0, i)
             rest == Slice(q, i + n, l)
             head == front \o data
  <1>1. l \in Nat /\ w \in Nat
    OBVIOUS
  <1>2. front \in Seq(R) /\ Len(front) = i /\ \A k \in 1..i : front[k] = q[k]
    BY <1>1 DEF Slice
  <1>3. rest \in Seq(R) /\ Len(rest) = l - (i + n) /\ \A k \in 1..l - (i + n) : rest[k] = q[i + n + k]
    BY <1>1 DEF Slice
  <1> HIDE DEF front, rest
  <1>4. /\ head \in Seq(R) /\ Len(head) = i + w
        /\ \A k \in 1..i : head[k] = q[k]
        /\ \A k \in 1..w : head[i + k] = data[k]
    <2>1. front \in Seq(R) /\ data \in Seq(R)
      BY <1>2
    <2>2. /\ head \in Seq(R) /\ Len(head) = Len(front) + w
          /\ \A k \in 1..Len(front) : head[k] = front[k]
          /\ \A k \in 1..w : head[Len(front) + k] = data[k]
      BY <2>1, Joined
    <2> QED
      BY <1>2, <2>2
  <1> HIDE DEF head
  <1>5. Spliced(q, i, n, data) = head \o rest
    BY DEF Spliced, head, front, rest
  <1> DEFINE all == head \o rest
  <1>6. /\ all \in Seq(R) /\ Len(all) = i + w + (l - (i + n))
        /\ \A k \in 1..i + w : all[k] = head[k]
        /\ \A k \in 1..l - (i + n) : all[i + w + k] = rest[k]
    <2>1. head \in Seq(R) /\ rest \in Seq(R)
      BY <1>3, <1>4
    <2>2. /\ all \in Seq(R) /\ Len(all) = Len(head) + Len(rest)
          /\ \A k \in 1..Len(head) : all[k] = head[k]
          /\ \A k \in 1..Len(rest) : all[Len(head) + k] = rest[k]
      BY <2>1, Joined
    <2> HIDE DEF all
    <2> QED
      BY <1>3, <1>4, <2>2
  <1> HIDE DEF all
  <1>7. \A k \in 1..i : all[k] = q[k]
    BY <1>1, <1>4, <1>6
  <1>8. \A k \in 1..w : all[i + k] = data[k]
    BY <1>1, <1>4, <1>6
  <1>9. ASSUME NEW k \in 1..l - n + w, k > i + w
        PROVE  all[k] = q[k - w + n]
    <2> DEFINE j == k - (i + w)
    <2>1. j \in 1..l - (i + n) /\ i + w + j = k /\ i + n + j = k - w + n
      BY <1>1, <1>9
    <2> HIDE DEF j
    <2>2. all[i + w + j] = rest[j] /\ rest[j] = q[i + n + j]
      BY <1>3, <1>6, <2>1
    <2> QED
      BY <2>1, <2>2
  <1>10. i + w + (l - (i + n)) = l - n + w
    BY <1>1
  <1>11. Spliced(q, i, n, data) = all
    BY <1>5 DEF all
  <1> QED
    BY <1>1, <1>6, <1>7, <1>8, <1>9, <1>10, <1>11 DEF Edited

LEMMA SplicedOne ==
    ASSUME NEW V, NEW q \in Seq(Row(V)), NEW data \in Seq(Row(V)), NEW i \in Nat, NEW n \in Nat,
           i + n <= Len(q)
    PROVE  Splice(q, <<TokenEdit(i, n, data)>>) = Spliced(q, i, n, data)
  <1> DEFINE e == TokenEdit(i, n, data)
  <1>1. e.start \in Nat
    BY DEF TokenEdit, SEMANTIC_TOKEN_WIDTH
  <1>2. SpliceEdit(Flat(q), e) = Flat(Spliced(q, i, n, data))
    BY EditOfTokens
  <1>3. Spliced(q, i, n, data) \in Seq(Row(V))
    BY SplicedIs DEF Edited
  <1>4. Chunks(Flat(Spliced(q, i, n, data))) = Spliced(q, i, n, data)
    BY <1>3, ChunksOfFlat
  <1> HIDE DEF e
  <1>5. Splice(q, <<e>>) = Chunks(SpliceEdit(Flat(q), e))
    BY <1>1, SpliceOfOne
  <1> QED
    BY <1>2, <1>4, <1>5 DEF e

\* Two edits in either order.
Either(e, f) == {<<e, f>>, <<f, e>>}

LEMMA SplicedTwo ==
    ASSUME NEW V, NEW q \in Seq(Row(V)), NEW data \in Seq(Row(V)), NEW i \in Nat, NEW n \in Nat,
           NEW later \in Seq(Row(V)), NEW j \in Nat, NEW k \in Nat,
           i < j, i + n <= j, j + k <= Len(q),
           NEW edits, edits \in Either(TokenEdit(i, n, data), TokenEdit(j, k, later))
    PROVE  Splice(q, edits) = Spliced(Spliced(q, j, k, later), i, n, data)
  <1> DEFINE e == TokenEdit(j, k, later)
             f == TokenEdit(i, n, data)
             x == Spliced(q, j, k, later)
             y == Spliced(x, i, n, data)
  <1>1. e.start = 3 * j /\ f.start = 3 * i
    BY DEF TokenEdit, SEMANTIC_TOKEN_WIDTH
  <1>2. SpliceEdit(Flat(q), e) = Flat(x)
    BY EditOfTokens
  <1>3. x \in Seq(Row(V)) /\ Len(x) = Len(q) - k + Len(later) /\ Len(q) \in Nat /\ Len(later) \in Nat
    <2>1. Edited(Row(V), x, q, j, k, later)
      BY SplicedIs
    <2>2. Len(q) \in Nat /\ Len(later) \in Nat
      OBVIOUS
    <2> HIDE DEF x
    <2> QED
      BY <2>1, <2>2 DEF Edited
  <1> HIDE DEF x
  <1>4. i + n <= Len(x)
    BY <1>3
  <1>5. SpliceEdit(Flat(x), f) = Flat(y)
    BY <1>3, <1>4, EditOfTokens
  <1>6. y \in Seq(Row(V))
    BY <1>3, <1>4, SplicedIs DEF Edited
  <1>7. Chunks(Flat(y)) = y
    BY <1>6, ChunksOfFlat
  <1> HIDE DEF e, f, y
  <1>8. edits = <<f, e>> \/ edits = <<e, f>>
    BY DEF Either, e, f
  <1>9. e.start \in Nat /\ f.start \in Nat /\ f.start < e.start
    BY <1>1
  <1>10. /\ BackToFront(<<e, f>>)[1] = e /\ BackToFront(<<e, f>>)[2] = f
         /\ BackToFront(<<f, e>>)[1] = e /\ BackToFront(<<f, e>>)[2] = f
    BY <1>9, TwoToFront
  <1>11. BackToFront(edits)[1] = e /\ BackToFront(edits)[2] = f /\ Len(edits) = 2
    BY <1>8, <1>10
  <1>12. Splice(q, edits) = Chunks(SpliceEdit(SpliceEdit(Flat(q), e), f))
    BY <1>11, SpliceOfTwo
  <1> QED
    BY <1>2, <1>5, <1>7, <1>12 DEF x, y

-----------------------------------------------------------------------------
(* The deltas between two streams *)

\* The streams are the same up to p, and after m in the old and n in the new.
Around(old, new, p, m, n) ==
    /\ p \in Nat /\ m \in p..Len(old) /\ n \in p..Len(new)
    /\ Len(old) - m = Len(new) - n
    /\ \A i \in 1..p : old[i] = new[i]
    /\ \A i \in m + 1 .. Len(old) : old[i] = new[i + n - m]

OneEdit(new, p, m, n) == TokenEdit(p, m - p, Slice(new, p, n))

\* The edits around the token a of the old stream and b of the new one.
EditBefore(new, p, a, b) == TokenEdit(p, a - 1 - p, Slice(new, p, b - 1))
EditAfter(new, a, b, m, n) == TokenEdit(a, m - a, Slice(new, b, n))

TwoEdits(new, p, a, b, m, n) == Either(EditBefore(new, p, a, b), EditAfter(new, a, b, m, n))

LEMMA FrontAndEnd ==
    ASSUME NEW old \in Seq(Token), NEW new \in Seq(Token)
    PROVE  Around(old, new, CommonFront(old, new), Len(old) - CommonEnd(old, new),
                  Len(new) - CommonEnd(old, new))
  <1> DEFINE l == Len(old)
             k == Len(new)
             least == Min({l, k})
             p == CommonFront(old, new)
             z == CommonEnd(old, new)
  <1>1. l \in Nat /\ k \in Nat
    OBVIOUS
  <1>2. least \in Nat /\ least <= l /\ least <= k
    <2> HIDE DEF l, k
    <2>1. CASE l <= k
      <3>1. {l, k} \in SUBSET Int /\ l \in {l, k} /\ \A y \in {l, k} : l <= y
        BY <1>1, <2>1
      <3>2. least = l
        BY <3>1, MinIs
      <3> QED
        BY <1>1, <2>1, <3>2
    <2>2. CASE k <= l
      <3>1. {l, k} \in SUBSET Int /\ k \in {l, k} /\ \A y \in {l, k} : k <= y
        BY <1>1, <2>2
      <3>2. least = k
        BY <3>1, MinIs
      <3> QED
        BY <1>1, <2>2, <3>2
    <2> QED
      BY <1>1, <2>1, <2>2
  <1> DEFINE S == {n \in 0..least : \A i \in 1..n : old[i] = new[i]}
  <1>3. p = Max(S)
    BY DEF CommonFront
  <1> HIDE DEF least
  <1>4. S \in SUBSET (0..least) /\ 0 \in S
    BY <1>2
  <1>5. Max(S) \in S
    <2> HIDE DEF S
    <2>1. S # {}
      BY <1>4
    <2> QED
      BY <1>2, <1>4, <2>1, GreatestNumber
  <1>6. p \in 0..least /\ \A i \in 1..p : old[i] = new[i]
    <2>1. p \in S
      BY <1>3, <1>5
    <2> HIDE DEF p
    <2> QED
      BY <2>1
  <1> DEFINE T == {n \in 0..least - p : \A i \in 0..n - 1 : old[l - i] = new[k - i]}
  <1>7. z = Max(T)
    BY DEF CommonEnd, least
  <1> HIDE DEF p
  <1>8. least - p \in Nat /\ T \in SUBSET (0..least - p) /\ 0 \in T
    BY <1>2, <1>6
  <1>9. Max(T) \in T
    <2> HIDE DEF T
    <2>1. T # {}
      BY <1>8
    <2> QED
      BY <1>8, <2>1, GreatestNumber
  <1>10. z \in 0..least - p /\ \A i \in 0..z - 1 : old[l - i] = new[k - i]
    <2>1. z \in T
      BY <1>7, <1>9
    <2> HIDE DEF z
    <2> QED
      BY <2>1
  <1> HIDE DEF z
  <1>11. p \in Nat /\ l - z \in p..l /\ k - z \in p..k /\ l - (l - z) = k - (k - z)
    BY <1>1, <1>2, <1>6, <1>10
  <1>12. ASSUME NEW i \in l - z + 1 .. l
         PROVE  old[i] = new[i + (k - z) - (l - z)]
    <2> DEFINE d == l - i
    <2>1. d \in 0..z - 1 /\ l - d = i /\ k - d = i + (k - z) - (l - z)
      BY <1>1, <1>2, <1>6, <1>10
    <2> HIDE DEF d, l, k
    <2>2. old[l - d] = new[k - d]
      BY <1>10, <2>1
    <2> QED
      BY <2>1, <2>2
  <1> QED
    BY <1>6, <1>11, <1>12 DEF Around, p, z

LEMMA DeltasAre ==
    ASSUME NEW old \in Seq(Token), NEW new \in Seq(Token), NEW edits \in Deltas(old, new)
    PROVE  \/ old = new /\ edits = <<>>
           \/ \E p, m, n : Around(old, new, p, m, n) /\ edits = <<OneEdit(new, p, m, n)>>
           \/ \E p, m, n : /\ Around(old, new, p, m, n)
                           /\ \E a \in p + 1 .. m, b \in p + 1 .. n :
                                 old[a] = new[b] /\ edits \in TwoEdits(new, p, a, b, m, n)
  <1> DEFINE p == CommonFront(old, new)
             m == Len(old) - CommonEnd(old, new)
             n == Len(new) - CommonEnd(old, new)
  <1>1. CASE old = new
    BY <1>1 DEF Deltas
  <1>2. CASE old # new
    <2>1. Around(old, new, p, m, n)
      BY FrontAndEnd
    <2>2. edits \in {<<OneEdit(new, p, m, n)>>}
             \cup UNION {TwoEdits(new, p, t[1], t[2], m, n) :
                            t \in {u \in (p + 1..m) \X (p + 1..n) : old[u[1]] = new[u[2]]}}
      BY <1>2, Zenon DEF Deltas, OneEdit, TwoEdits, Either, EditBefore, EditAfter
    <2> HIDE DEF p, m, n
    <2>3. CASE edits = <<OneEdit(new, p, m, n)>>
      BY <2>1, <2>3
    <2>4. CASE edits # <<OneEdit(new, p, m, n)>>
      <3>1. PICK t \in (p + 1..m) \X (p + 1..n) :
                old[t[1]] = new[t[2]] /\ edits \in TwoEdits(new, p, t[1], t[2], m, n)
        BY <2>2, <2>4
      <3>2. t[1] \in p + 1..m /\ t[2] \in p + 1..n
        OBVIOUS
      <3> QED
        BY <2>1, <3>1, <3>2
    <2> QED
      BY <2>3, <2>4
  <1> QED
    BY <1>1, <1>2

LEMMA TokensAreRows == Token = Row(Nat)
  BY DEF Token, Row

LEMMA AroundFacts ==
    ASSUME NEW old \in Seq(Token), NEW new \in Seq(Token), NEW p, NEW m, NEW n,
           Around(old, new, p, m, n)
    PROVE  /\ p \in Nat /\ m \in Nat /\ n \in Nat /\ m - p \in Nat /\ n - p \in Nat
           /\ p <= m /\ m <= Len(old) /\ p <= n /\ n <= Len(new)
           /\ Len(old) \in Nat /\ Len(new) \in Nat /\ Len(old) - m = Len(new) - n
           /\ Slice(new, p, n) \in Seq(Token) /\ Len(Slice(new, p, n)) = n - p
           /\ \A i \in 1..n - p : Slice(new, p, n)[i] = new[p + i]
  <1>1. Len(old) \in Nat /\ Len(new) \in Nat
    OBVIOUS
  <1>2. p \in Nat /\ m \in p..Len(old) /\ n \in p..Len(new) /\ Len(old) - m = Len(new) - n
    BY DEF Around
  <1>3. n \in 0..Len(new) /\ p \in 0..n
    BY <1>1, <1>2
  <1>4. /\ Slice(new, p, n) \in Seq(Token) /\ Len(Slice(new, p, n)) = n - p
        /\ \A i \in 1..n - p : Slice(new, p, n)[i] = new[p + i]
    BY <1>3, TokenSlices
  <1> QED
    BY <1>1, <1>2, <1>4

LEMMA OneLeads ==
    ASSUME NEW old \in Seq(Token), NEW new \in Seq(Token), NEW p, NEW m, NEW n,
           Around(old, new, p, m, n)
    PROVE  Spliced(old, p, m - p, Slice(new, p, n)) = new
  <1> DEFINE data == Slice(new, p, n)
             r == m - p
             x == Spliced(old, p, r, data)
  <1>1. /\ p \in Nat /\ m \in Nat /\ n \in Nat /\ m - p \in Nat /\ n - p \in Nat
        /\ p <= m /\ m <= Len(old) /\ p <= n /\ n <= Len(new)
        /\ Len(old) \in Nat /\ Len(new) \in Nat /\ Len(old) - m = Len(new) - n
        /\ data \in Seq(Token) /\ Len(data) = n - p
        /\ \A i \in 1..n - p : data[i] = new[p + i]
    BY AroundFacts
  <1>2. /\ \A i \in 1..p : old[i] = new[i]
        /\ \A i \in m + 1 .. Len(old) : old[i] = new[i + n - m]
    BY DEF Around
  <1>3. r \in Nat /\ p + r <= Len(old) /\ r = m - p
    BY <1>1
  <1> HIDE DEF data, r
  <1>4. /\ x \in Seq(Token)
        /\ Len(x) = Len(old) - r + Len(data)
        /\ \A k \in 1..p : x[k] = old[k]
        /\ \A k \in 1..Len(data) : x[p + k] = data[k]
        /\ \A k \in 1..Len(old) - r + Len(data) : k > p + Len(data) =>
              x[k] = old[k - Len(data) + r]
    <2>1. Edited(Token, x, old, p, r, data)
      BY <1>1, <1>3, SplicedIs
    <2> HIDE DEF x
    <2> QED
      BY <2>1 DEF Edited
  <1> HIDE DEF x
  <1>0. /\ p \in Nat /\ m \in Nat /\ n \in Nat /\ r \in Nat /\ r = m - p
        /\ p <= m /\ m <= Len(old) /\ p <= n /\ n <= Len(new) /\ Len(data) = n - p
        /\ Len(old) \in Nat /\ Len(new) \in Nat /\ Len(old) - m = Len(new) - n
        /\ Len(x) = Len(old) - r + Len(data)
    BY <1>1, <1>3, <1>4
  <1>5. Len(x) = Len(new)
    BY <1>0
  <1>6. ASSUME NEW k \in 1..Len(new)
        PROVE  x[k] = new[k]
    <2>1. CASE k <= p
      <3>1. k \in 1..p
        BY <1>1, <2>1
      <3> QED
        BY <1>2, <1>4, <3>1
    <2>2. CASE k > p /\ k <= n
      <3> DEFINE j == k - p
      <3>1. j \in 1..n - p /\ p + j = k
        BY <1>1, <2>2
      <3> HIDE DEF j
      <3>2. x[p + j] = data[j] /\ data[j] = new[p + j]
        BY <1>1, <1>4, <3>1
      <3> QED
        BY <3>1, <3>2
    <2>3. CASE k > n
      <3> DEFINE j == k - n + m
      <3>1. /\ j \in m + 1 .. Len(old) /\ j + n - m = k /\ k - Len(data) + r = j
            /\ k \in 1..Len(old) - r + Len(data) /\ k > p + Len(data)
        BY <1>0, <2>3
      <3> HIDE DEF j
      <3>2. x[k] = old[j] /\ old[j] = new[k]
        BY <1>2, <1>4, <3>1
      <3> QED
        BY <3>2
    <2> QED
      BY <1>1, <2>1, <2>2, <2>3
  <1>7. x = new
    BY <1>4, <1>5, <1>6
  <1> QED
    BY <1>7 DEF x, data, r

LEMMA TwoLead ==
    ASSUME NEW old \in Seq(Token), NEW new \in Seq(Token), NEW p, NEW m, NEW n,
           Around(old, new, p, m, n), NEW a \in p + 1 .. m, NEW b \in p + 1 .. n, old[a] = new[b]
    PROVE  Spliced(Spliced(old, a, m - a, Slice(new, b, n)), p, a - 1 - p, Slice(new, p, b - 1)) = new
  <1> DEFINE later == Slice(new, b, n)
             data == Slice(new, p, b - 1)
             r == m - a
             t == a - 1 - p
             x == Spliced(old, a, r, later)
             y == Spliced(x, p, t, data)
  <1>1. /\ p \in Nat /\ m \in Nat /\ n \in Nat
        /\ p <= m /\ m <= Len(old) /\ p <= n /\ n <= Len(new)
        /\ Len(old) \in Nat /\ Len(new) \in Nat /\ Len(old) - m = Len(new) - n
    BY AroundFacts
  <1>2. /\ \A i \in 1..p : old[i] = new[i]
        /\ \A i \in m + 1 .. Len(old) : old[i] = new[i + n - m]
    BY DEF Around
  <1>3. /\ a \in Nat /\ b \in Nat /\ r \in Nat /\ a + r <= Len(old) /\ r = m - a
        /\ n \in 0..Len(new) /\ b \in 0..n /\ b - 1 \in 0..Len(new) /\ p \in 0..b - 1
        /\ t \in Nat /\ p + t = a - 1 /\ p < a /\ a <= m /\ p < b /\ b <= n /\ t = a - 1 - p
    BY <1>1
  <1> HIDE DEF r, t
  <1>4. later \in Seq(Token) /\ Len(later) = n - b /\ \A i \in 1..n - b : later[i] = new[b + i]
    BY <1>3, TokenSlices
  <1>5. data \in Seq(Token) /\ Len(data) = b - 1 - p /\ \A i \in 1..b - 1 - p : data[i] = new[p + i]
    BY <1>3, TokenSlices
  <1> HIDE DEF later, data
  <1>6. /\ x \in Seq(Token)
        /\ Len(x) = Len(old) - r + Len(later)
        /\ \A k \in 1..a : x[k] = old[k]
        /\ \A k \in 1..Len(later) : x[a + k] = later[k]
        /\ \A k \in 1..Len(old) - r + Len(later) : k > a + Len(later) =>
              x[k] = old[k - Len(later) + r]
    <2>1. Edited(Token, x, old, a, r, later)
      BY <1>3, <1>4, SplicedIs
    <2> HIDE DEF x
    <2> QED
      BY <2>1 DEF Edited
  <1> HIDE DEF x
  <1>0. /\ p \in Nat /\ m \in Nat /\ n \in Nat /\ a \in Nat /\ b \in Nat /\ t \in Nat /\ r \in Nat
        /\ m <= Len(old) /\ n <= Len(new) /\ p < a /\ a <= m /\ p < b /\ b <= n
        /\ Len(old) \in Nat /\ Len(new) \in Nat /\ Len(old) - m = Len(new) - n
        /\ r = m - a /\ p + t = a - 1 /\ Len(later) = n - b /\ Len(data) = b - 1 - p
        /\ Len(x) = Len(old) - r + Len(later)
    BY <1>1, <1>3, <1>4, <1>5, <1>6
  <1>7. p + t <= Len(x)
    <2>1. Len(x) = Len(old) - (m - a) + (n - b)
      BY <1>0
    <2>2. Len(old) - (m - a) + (n - b) >= a
      BY <1>0
    <2>3. p + t = a - 1 /\ a \in Nat
      BY <1>0
    <2> HIDE DEF y
    <2> QED
      BY <2>1, <2>2, <2>3
  <1>8. /\ y \in Seq(Token)
        /\ Len(y) = Len(x) - t + Len(data)
        /\ \A k \in 1..p : y[k] = x[k]
        /\ \A k \in 1..Len(data) : y[p + k] = data[k]
        /\ \A k \in 1..Len(x) - t + Len(data) : k > p + Len(data) =>
              y[k] = x[k - Len(data) + t]
    <2>1. Edited(Token, y, x, p, t, data)
      BY <1>1, <1>3, <1>5, <1>6, <1>7, SplicedIs
    <2> HIDE DEF y
    <2> QED
      BY <2>1 DEF Edited
  <1> HIDE DEF y
  <1>9. Len(x) = Len(new) - b + a /\ Len(y) = Len(new)
    <2>1. Len(y) = Len(x) - t + Len(data)
      BY <1>8
    <2>2. /\ Len(x) = Len(old) - (m - a) + (n - b) /\ t = a - 1 - p /\ Len(data) = b - 1 - p
          /\ p \in Nat /\ m \in Nat /\ n \in Nat /\ a \in Nat /\ b \in Nat
          /\ Len(old) \in Nat /\ Len(new) \in Nat /\ Len(old) - m = Len(new) - n
      BY <1>0
    <2>3. Len(x) = Len(new) - b + a
      BY <2>2
    <2>4. Len(y) = (Len(new) - b + a) - (a - 1 - p) + (b - 1 - p)
      BY <2>1, <2>2, <2>3
    <2>5. (Len(new) - b + a) - (a - 1 - p) + (b - 1 - p) = Len(new)
      BY <2>2
    <2> QED
      BY <2>3, <2>4, <2>5
  <1>10. ASSUME NEW k \in 1..Len(new), k >= b
         PROVE  x[k - b + a] = new[k]
    <2>1. CASE k = b
      <3>1. k - b + a = a /\ a \in 1..a
        BY <1>3, <2>1
      <3> QED
        BY <1>6, <2>1, <3>1
    <2>2. CASE k > b /\ k <= n
      <3> DEFINE j == k - b
      <3>1. j \in 1..n - b /\ k - b + a = a + j /\ b + j = k
        BY <1>1, <1>3, <2>2
      <3> HIDE DEF j
      <3>2. x[a + j] = later[j] /\ later[j] = new[b + j]
        BY <1>4, <1>6, <3>1
      <3> QED
        BY <3>1, <3>2
    <2>3. CASE k > n
      <3> DEFINE i == k - b + a
                 j == k - n + m
      <3>1. /\ j \in m + 1 .. Len(old) /\ j + n - m = k /\ i - Len(later) + r = j
            /\ i \in 1..Len(old) - r + Len(later) /\ i > a + Len(later)
        BY <1>0, <2>3
      <3> HIDE DEF i, j
      <3>2. x[i] = old[j] /\ old[j] = new[k]
        BY <1>2, <1>6, <3>1
      <3> QED
        BY <3>2 DEF i
    <2>4. k = b \/ k > b
      BY <1>3, <1>10
    <2>5. k <= n \/ k > n
      BY <1>1
    <2> QED
      BY <2>1, <2>2, <2>3, <2>4, <2>5
  <1>11. ASSUME NEW k \in 1..Len(new)
         PROVE  y[k] = new[k]
    <2>1. CASE k <= p
      <3>1. k \in 1..p /\ k \in 1..a
        BY <1>1, <2>1
      <3> QED
        BY <1>2, <1>6, <1>8, <3>1
    <2>2. CASE k > p /\ k < b
      <3> DEFINE j == k - p
      <3>1. j \in 1..b - 1 - p /\ p + j = k
        BY <1>1, <1>3, <2>2
      <3> HIDE DEF j
      <3>2. y[p + j] = data[j] /\ data[j] = new[p + j]
        BY <1>5, <1>8, <3>1
      <3> QED
        BY <3>1, <3>2
    <2>3. CASE k >= b
      <3>1. /\ k \in 1..Len(x) - t + Len(data) /\ k > p + Len(data)
            /\ k - Len(data) + t = k - b + a
        <4>0. Len(x) = Len(new) - b + a /\ k >= b
          BY <1>9, <2>3
        <4>1. /\ p \in Nat /\ a \in Nat /\ b \in Nat /\ k \in Nat /\ k <= Len(new)
              /\ t \in Nat /\ p + t = a - 1 /\ Len(data) = b - 1 - p /\ Len(new) \in Nat
          BY <1>0
        <4>2. Len(x) - t + Len(data) = Len(new) /\ k - Len(data) + t = k - b + a
          BY <4>0, <4>1
        <4>3. k > p + Len(data) /\ k \in 1..Len(new)
          BY <4>0, <4>1
        <4> QED
          BY <4>2, <4>3
      <3>2. y[k] = x[k - b + a]
        BY <1>8, <3>1
      <3> QED
        BY <1>10, <2>3, <3>2
    <2> QED
      BY <1>1, <1>3, <2>1, <2>2, <2>3
  <1>12. y = new
    <2>1. y \in Seq(Token) /\ Len(y) = Len(new)
      BY <1>8, <1>9
    <2> QED
      BY <1>11, <2>1
  <1> QED
    BY <1>12 DEF y, x, later, data, r, t

\* The edits of a delta lead from the one stream to the other.
LEMMA DeltasLead ==
    ASSUME NEW old \in Seq(Token), NEW new \in Seq(Token), NEW edits \in Deltas(old, new)
    PROVE  Splice(old, edits) = new
  <1>0. old \in Seq(Row(Nat)) /\ Token = Row(Nat)
    BY TokensAreRows
  <1>1. CASE old = new /\ edits = <<>>
    <2>1. Splice(old, edits) = Chunks(Flat(old))
      BY <1>1, SpliceOfNone
    <2>2. Chunks(Flat(old)) = old
      BY <1>0, ChunksOfFlat
    <2> QED
      BY <1>1, <2>1, <2>2
  <1>2. CASE \E p, m, n : Around(old, new, p, m, n) /\ edits = <<OneEdit(new, p, m, n)>>
    <2>1. PICK p, m, n : Around(old, new, p, m, n) /\ edits = <<OneEdit(new, p, m, n)>>
      BY <1>2
    <2> DEFINE data == Slice(new, p, n)
    <2>2. /\ p \in Nat /\ m - p \in Nat /\ p + (m - p) <= Len(old)
          /\ data \in Seq(Row(Nat))
      BY <1>0, <2>1, AroundFacts
    <2>3. edits = <<TokenEdit(p, m - p, data)>>
      BY <2>1 DEF OneEdit
    <2> HIDE DEF data
    <2>4. Splice(old, edits) = Spliced(old, p, m - p, data)
      BY <1>0, <2>2, <2>3, SplicedOne
    <2>5. Spliced(old, p, m - p, data) = new
      BY <2>1, OneLeads DEF data
    <2> QED
      BY <2>4, <2>5
  <1>3. CASE \E p, m, n : /\ Around(old, new, p, m, n)
                          /\ \E a \in p + 1 .. m, b \in p + 1 .. n :
                                old[a] = new[b] /\ edits \in TwoEdits(new, p, a, b, m, n)
    <2>1. PICK p, m, n : /\ Around(old, new, p, m, n)
                         /\ \E a \in p + 1 .. m, b \in p + 1 .. n :
                               old[a] = new[b] /\ edits \in TwoEdits(new, p, a, b, m, n)
      BY <1>3
    <2>2. PICK a \in p + 1 .. m, b \in p + 1 .. n :
             old[a] = new[b] /\ edits \in TwoEdits(new, p, a, b, m, n)
      BY <2>1
    <2> DEFINE data == Slice(new, p, b - 1)
               later == Slice(new, b, n)
               r == m - a
               t == a - 1 - p
    <2>3. /\ p \in Nat /\ m \in Nat /\ n \in Nat
          /\ p <= m /\ m <= Len(old) /\ p <= n /\ n <= Len(new)
          /\ Len(old) \in Nat /\ Len(new) \in Nat
      BY <2>1, AroundFacts
    <2>4. /\ a \in Nat /\ t \in Nat /\ r \in Nat /\ p < a /\ p + t <= a
          /\ a + r <= Len(old)
          /\ n \in 0..Len(new) /\ b \in 0..n /\ b - 1 \in 0..Len(new) /\ p \in 0..b - 1
      BY <2>3
    <2>5. data \in Seq(Row(Nat)) /\ later \in Seq(Row(Nat))
      BY <1>0, <2>4, TokenSlices
    <2>6. edits \in Either(TokenEdit(p, t, data), TokenEdit(a, r, later))
      BY <2>2 DEF TwoEdits, EditBefore, EditAfter
    <2> HIDE DEF data, later, r, t
    <2>7. Splice(old, edits) = Spliced(Spliced(old, a, r, later), p, t, data)
      <3>1. /\ old \in Seq(Row(Nat)) /\ p \in Nat /\ t \in Nat /\ a \in Nat /\ r \in Nat
            /\ p < a /\ p + t <= a /\ a + r <= Len(old)
        BY <1>0, <2>3, <2>4
      <3> QED
        BY <2>5, <2>6, <3>1, SplicedTwo, SMTT(60)
    <2>8. Spliced(Spliced(old, a, r, later), p, t, data) = new
      BY <2>1, <2>2, TwoLead DEF data, later, r, t
    <2> QED
      BY <2>7, <2>8
  <1> QED
    BY <1>1, <1>2, <1>3, DeltasAre

-----------------------------------------------------------------------------
(* What the client makes of a delta *)

\* Tokens whose numbers may be anything.
Rows(q) == \E V : q \in Seq(Row(V))

LEMMA WiderRows ==
    ASSUME NEW V, NEW W, V \subseteq W, NEW q \in Seq(Row(V))
    PROVE  q \in Seq(Row(W))
  <1>1. \A x \in Row(V) : x \in Row(W)
    BY DEF Row
  <1>2. Len(q) \in Nat /\ q = [k \in 1..Len(q) |-> q[k]] /\ \A k \in 1..Len(q) : q[k] \in Row(V)
    OBVIOUS
  <1> QED
    BY <1>1, <1>2

LEMMA RowsTogether ==
    ASSUME NEW q, NEW r, NEW t, Rows(q), Rows(r), Rows(t)
    PROVE  \E V : q \in Seq(Row(V)) /\ r \in Seq(Row(V)) /\ t \in Seq(Row(V))
  <1>1. PICK A : q \in Seq(Row(A))
    BY DEF Rows
  <1>2. PICK B : r \in Seq(Row(B))
    BY DEF Rows
  <1>3. PICK C : t \in Seq(Row(C))
    BY DEF Rows
  <1> DEFINE V == A \cup B \cup C
  <1>4. A \subseteq V /\ B \subseteq V /\ C \subseteq V
    OBVIOUS
  <1> HIDE DEF V
  <1>5. q \in Seq(Row(V)) /\ r \in Seq(Row(V)) /\ t \in Seq(Row(V))
    BY <1>1, <1>2, <1>3, <1>4, WiderRows
  <1> QED
    BY <1>5

LEMMA ConvertedRows ==
    ASSUME NEW s, NEW data \in Seq(Token), NEW source, NEW target, NEW p, NEW q
    PROVE  LET x == ConvertSeededTokenStream(s, data, source, target, p, q)
           IN  Rows(x) /\ Len(x) = Len(data)
  <1>1. CASE source = target
    <2>1. ConvertSeededTokenStream(s, data, source, target, p, q) = data
      BY <1>1 DEF ConvertSeededTokenStream
    <2>2. Rows(data)
      BY TokensAreRows DEF Rows
    <2> QED
      BY <2>1, <2>2
  <1>2. CASE source # target
    <2> DEFINE at == Positions(p, data)
               Target(n) == IF n = 0 THEN q ELSE PositionToEncoding(s, at[n], source, target)
               End(n) == PositionToEncoding(s, [line |-> at[n].line,
                                                character |-> at[n].character + data[n].length],
                                            source, target)
               A(n) == Less(Target(n).line, Target(n - 1).line)
               B(n) == IF Target(n).line = Target(n - 1).line
                       THEN Less(Target(n).character, Target(n - 1).character)
                       ELSE Target(n).character
               C(n) == Less(End(n).character, Target(n).character)
               l == Len(data)
               x == [n \in 1..l |-> [line |-> A(n), start |-> B(n), length |-> C(n)]]
               V == {A(n) : n \in 1..l} \cup {B(n) : n \in 1..l} \cup {C(n) : n \in 1..l}
    <2>1. ConvertSeededTokenStream(s, data, source, target, p, q) = x
      BY <1>2, Zenon DEF ConvertSeededTokenStream
    <2>2. l \in Nat
      OBVIOUS
    <2> HIDE DEF A, B, C, l
    <2>3. \A n \in 1..l : [line |-> A(n), start |-> B(n), length |-> C(n)] \in Row(V)
      BY DEF Row
    <2> HIDE DEF V
    <2>4. x \in Seq(Row(V)) /\ Len(x) = l
      BY <2>2, <2>3
    <2> QED
      BY <2>1, <2>4 DEF Rows, l
  <1> QED
    BY <1>1, <1>2

\* The edits a client is sent, converted after from unless that is no stream.
SentEdit(s, from, e) == IF from = NoStream THEN e ELSE ConvertEdit(s, from, e)

Sent(s, from, edits) ==
    IF from = NoStream THEN edits ELSE [i \in 1..Len(edits) |-> ConvertEdit(s, from, edits[i])]

Anchor(stream, i) == AbsolutePosition(Slice(stream, 0, i))

ConvertedData(s, stream, i, data) ==
    ConvertSeededTokenStream(s, data, "utf-8", encoding, Anchor(stream, i),
                             PositionToEncoding(s, Anchor(stream, i), "utf-8", encoding))

LEMMA ConvertEditIs ==
    ASSUME NEW s, NEW stream, Len(stream) \in Nat, NEW i \in 0..Len(stream), NEW n, NEW data
    PROVE  ConvertEdit(s, stream, TokenEdit(i, n, data))
             = TokenEdit(i, n, ConvertedData(s, stream, i, data))
  <1> DEFINE e == TokenEdit(i, n, data)
  <1>1. e.start = 3 * i /\ e.data = data
    BY DEF TokenEdit, SEMANTIC_TOKEN_WIDTH
  <1>2. e.start \div SEMANTIC_TOKEN_WIDTH = i
    <2>1. (3 * i) \div 3 = i
      OBVIOUS
    <2> QED
      BY <1>1, <2>1 DEF SEMANTIC_TOKEN_WIDTH
  <1> HIDE DEF e
  <1>3. Min({i, Len(stream)}) = i
    <2>1. {i, Len(stream)} \in SUBSET Int /\ i \in {i, Len(stream)}
          /\ \A y \in {i, Len(stream)} : i <= y
      OBVIOUS
    <2> QED
      BY <2>1, MinIs
  <1>4. ConvertEdit(s, stream, e) = [e EXCEPT !.data = ConvertedData(s, stream, i, e.data)]
    BY <1>2, <1>3, Zenon DEF ConvertEdit, ConvertedData, Anchor
  <1> DEFINE d == ConvertedData(s, stream, i, data)
  <1>5. ConvertEdit(s, stream, e) = [e EXCEPT !.data = d]
    BY <1>1, <1>4
  <1> HIDE DEF d
  <1>6. [TokenEdit(i, n, data) EXCEPT !.data = d] = TokenEdit(i, n, d)
    BY DEF TokenEdit
  <1> QED
    BY <1>5, <1>6 DEF e, d

LEMMA SentEditIs ==
    ASSUME NEW s, NEW from, NEW old \in Seq(Token), from \in {NoStream, old},
           NEW i \in 0..Len(old), NEW n, NEW data \in Seq(Token)
    PROVE  \E d : Rows(d) /\ Len(d) = Len(data)
                  /\ SentEdit(s, from, TokenEdit(i, n, data)) = TokenEdit(i, n, d)
  <1>1. CASE from = NoStream
    <2>1. Rows(data)
      BY TokensAreRows DEF Rows
    <2> QED
      BY <1>1, <2>1 DEF SentEdit
  <1>2. CASE from # NoStream
    <2>1. from = old /\ Len(old) \in Nat
      BY <1>2
    <2> DEFINE d == ConvertedData(s, old, i, data)
    <2>2. Rows(d) /\ Len(d) = Len(data)
      BY ConvertedRows DEF ConvertedData
    <2> HIDE DEF d
    <2>3. SentEdit(s, from, TokenEdit(i, n, data)) = TokenEdit(i, n, d)
      BY <1>2, <2>1, ConvertEditIs DEF SentEdit, d
    <2> QED
      BY <2>2, <2>3
  <1> QED
    BY <1>1, <1>2

LEMMA NoneSent ==
    ASSUME NEW s, NEW from
    PROVE  Sent(s, from, <<>>) = <<>>
  BY DEF Sent

LEMMA OneSent ==
    ASSUME NEW s, NEW from, NEW e
    PROVE  Sent(s, from, <<e>>) = <<SentEdit(s, from, e)>>
  BY DEF Sent, SentEdit

LEMMA TwoSent ==
    ASSUME NEW s, NEW from, NEW e, NEW f
    PROVE  Sent(s, from, <<e, f>>) = <<SentEdit(s, from, e), SentEdit(s, from, f)>>
  BY DEF Sent, SentEdit

LEMMA HeldGoesOn ==
    ASSUME NEW s, NEW from, NEW old \in Seq(Token), NEW new \in Seq(Token),
           from \in {NoStream, old}, NEW h, Rows(h), Len(h) = Len(old),
           NEW edits \in Deltas(old, new)
    PROVE  Rows(Splice(h, Sent(s, from, edits))) /\ Len(Splice(h, Sent(s, from, edits))) = Len(new)
  <1>0. ASSUME NEW i \in 0..Len(old), NEW n, NEW data \in Seq(Token)
        PROVE  \E d : Rows(d) /\ Len(d) = Len(data)
                      /\ SentEdit(s, from, TokenEdit(i, n, data)) = TokenEdit(i, n, d)
    BY SentEditIs
  <1> DEFINE sent == Sent(s, from, edits)
  <1>1. CASE old = new /\ edits = <<>>
    <2>1. Splice(h, sent) = Chunks(Flat(h))
      BY <1>1, NoneSent, SpliceOfNone
    <2>2. PICK V : h \in Seq(Row(V))
      BY DEF Rows
    <2>3. Chunks(Flat(h)) = h
      BY <2>2, ChunksOfFlat
    <2> QED
      BY <1>1, <2>1, <2>3
  <1>2. CASE \E p, m, n : Around(old, new, p, m, n) /\ edits = <<OneEdit(new, p, m, n)>>
    <2>1. PICK p, m, n : Around(old, new, p, m, n) /\ edits = <<OneEdit(new, p, m, n)>>
      BY <1>2
    <2> DEFINE data == Slice(new, p, n)
               r == m - p
    <2>2. /\ p \in Nat /\ m \in Nat /\ n \in Nat /\ r \in Nat /\ r = m - p
          /\ p <= m /\ m <= Len(old) /\ p <= n /\ n <= Len(new)
          /\ Len(old) \in Nat /\ Len(new) \in Nat /\ Len(old) - m = Len(new) - n
          /\ data \in Seq(Token) /\ Len(data) = n - p
      BY <2>1, AroundFacts
    <2>3. edits = <<TokenEdit(p, r, data)>>
      BY <2>1 DEF OneEdit
    <2> HIDE DEF data, r
    <2>4. p \in 0..Len(old)
      BY <2>2
    <2>5. \E d : Rows(d) /\ Len(d) = Len(data)
                 /\ SentEdit(s, from, TokenEdit(p, r, data)) = TokenEdit(p, r, d)
      BY <1>0, <2>2, <2>4
    <2>6. PICK d : Rows(d) /\ Len(d) = Len(data)
                   /\ SentEdit(s, from, TokenEdit(p, r, data)) = TokenEdit(p, r, d)
      BY <2>5
    <2>7. sent = <<TokenEdit(p, r, d)>>
      <3> DEFINE e == TokenEdit(p, r, data)
      <3> HIDE DEF e
      <3>1. Sent(s, from, <<e>>) = <<SentEdit(s, from, e)>>
        BY OneSent
      <3> QED
        BY <2>3, <2>6, <3>1 DEF e
    <2>8. \E V : h \in Seq(Row(V)) /\ d \in Seq(Row(V)) /\ d \in Seq(Row(V))
      BY <2>6, RowsTogether
    <2>9. PICK V : h \in Seq(Row(V)) /\ d \in Seq(Row(V))
      BY <2>8
    <2> HIDE DEF sent
    <2>10. p + r <= Len(h)
      BY <2>2
    <2>11. Splice(h, sent) = Spliced(h, p, r, d)
      BY <2>2, <2>7, <2>9, <2>10, SplicedOne
    <2>12. Edited(Row(V), Spliced(h, p, r, d), h, p, r, d)
      BY <2>2, <2>9, <2>10, SplicedIs
    <2> DEFINE x == Spliced(h, p, r, d)
    <2> HIDE DEF x
    <2>13. x \in Seq(Row(V)) /\ Len(x) = Len(h) - r + Len(d)
      BY <2>12 DEF Edited, x
    <2>14. Len(x) = Len(new)
      <3>1. Len(h) = Len(old) /\ r = m - p /\ Len(d) = n - p
        BY <2>2, <2>6
      <3>2. Len(x) = Len(old) - (m - p) + (n - p)
        BY <2>13, <3>1
      <3>3. Len(old) - (m - p) + (n - p) = Len(new)
        BY <2>2
      <3> QED
        BY <3>2, <3>3
    <2> QED
      BY <2>11, <2>13, <2>14 DEF Rows, x, sent
  <1>3. CASE \E p, m, n : /\ Around(old, new, p, m, n)
                          /\ \E a \in p + 1 .. m, b \in p + 1 .. n :
                                old[a] = new[b] /\ edits \in TwoEdits(new, p, a, b, m, n)
    <2>1. PICK p, m, n : /\ Around(old, new, p, m, n)
                         /\ \E a \in p + 1 .. m, b \in p + 1 .. n :
                               old[a] = new[b] /\ edits \in TwoEdits(new, p, a, b, m, n)
      BY <1>3
    <2>2. PICK a \in p + 1 .. m, b \in p + 1 .. n :
             old[a] = new[b] /\ edits \in TwoEdits(new, p, a, b, m, n)
      BY <2>1
    <2> DEFINE data == Slice(new, p, b - 1)
               later == Slice(new, b, n)
               r == m - a
               t == a - 1 - p
    <2>3. /\ p \in Nat /\ m \in Nat /\ n \in Nat
          /\ p <= m /\ m <= Len(old) /\ p <= n /\ n <= Len(new)
          /\ Len(old) \in Nat /\ Len(new) \in Nat /\ Len(old) - m = Len(new) - n
      BY <2>1, AroundFacts
    <2>4. /\ a \in Nat /\ b \in Nat /\ t \in Nat /\ r \in Nat /\ p < a /\ p + t <= a
          /\ r = m - a /\ t = a - 1 - p
          /\ a + r <= Len(old) /\ a \in 0..Len(old) /\ p \in 0..Len(old)
          /\ n \in 0..Len(new) /\ b \in 0..n /\ b - 1 \in 0..Len(new) /\ p \in 0..b - 1
      BY <2>3
    <2>5. data \in Seq(Token) /\ later \in Seq(Token) /\ Len(data) = b - 1 - p /\ Len(later) = n - b
      BY <2>4, TokenSlices
    <2>6. edits \in Either(TokenEdit(p, t, data), TokenEdit(a, r, later))
      BY <2>2 DEF TwoEdits, EditBefore, EditAfter
    <2> HIDE DEF data, later, r, t
    <2>7. \E d : Rows(d) /\ Len(d) = Len(data)
                 /\ SentEdit(s, from, TokenEdit(p, t, data)) = TokenEdit(p, t, d)
      <3>1. p \in 0..Len(old)
        BY <2>4
      <3> QED
        BY <1>0, <2>5, <3>1
    <2>8. \E d : Rows(d) /\ Len(d) = Len(later)
                 /\ SentEdit(s, from, TokenEdit(a, r, later)) = TokenEdit(a, r, d)
      <3>1. a \in 0..Len(old)
        BY <2>4
      <3> QED
        BY <1>0, <2>5, <3>1
    <2>9. PICK d : Rows(d) /\ Len(d) = Len(data)
                   /\ SentEdit(s, from, TokenEdit(p, t, data)) = TokenEdit(p, t, d)
      BY <2>7
    <2>10. PICK f : Rows(f) /\ Len(f) = Len(later)
                    /\ SentEdit(s, from, TokenEdit(a, r, later)) = TokenEdit(a, r, f)
      BY <2>8
    <2>11. sent \in Either(TokenEdit(p, t, d), TokenEdit(a, r, f))
      <3> DEFINE e == TokenEdit(p, t, data)
                 g == TokenEdit(a, r, later)
      <3>1. edits = <<e, g>> \/ edits = <<g, e>>
        BY <2>6 DEF Either
      <3> HIDE DEF e, g
      <3>2. \/ sent = <<SentEdit(s, from, e), SentEdit(s, from, g)>>
            \/ sent = <<SentEdit(s, from, g), SentEdit(s, from, e)>>
        <4>1. Sent(s, from, <<e, g>>) = <<SentEdit(s, from, e), SentEdit(s, from, g)>>
          BY TwoSent
        <4>2. Sent(s, from, <<g, e>>) = <<SentEdit(s, from, g), SentEdit(s, from, e)>>
          BY TwoSent
        <4> QED
          BY <3>1, <4>1, <4>2
      <3>3. SentEdit(s, from, e) = TokenEdit(p, t, d) /\ SentEdit(s, from, g) = TokenEdit(a, r, f)
        BY <2>9, <2>10 DEF e, g
      <3> QED
        BY <3>2, <3>3 DEF Either
    <2> HIDE DEF sent
    <2>12. PICK V : h \in Seq(Row(V)) /\ d \in Seq(Row(V)) /\ f \in Seq(Row(V))
      BY <2>9, <2>10, RowsTogether
    <2>13. a + r <= Len(h)
      BY <2>4
    <2> DEFINE x == Spliced(h, a, r, f)
    <2>14. Splice(h, sent) = Spliced(x, p, t, d)
      <3>1. p \in Nat /\ t \in Nat /\ a \in Nat /\ r \in Nat /\ p < a /\ p + t <= a
        BY <2>3, <2>4
      <3> QED
        BY <2>11, <2>12, <2>13, <3>1, SplicedTwo, SMTT(60)
    <2>15. Edited(Row(V), x, h, a, r, f)
      BY <2>4, <2>12, <2>13, SplicedIs
    <2> HIDE DEF x
    <2>16. x \in Seq(Row(V)) /\ Len(x) = Len(h) - r + Len(f)
      BY <2>15 DEF Edited
    <2>17. Len(x) = Len(old) - (m - a) + (n - b)
      BY <2>4, <2>5, <2>10, <2>16
    <2>18. p + t <= Len(x)
      BY <2>3, <2>4, <2>17
    <2> DEFINE y == Spliced(x, p, t, d)
    <2>19. Edited(Row(V), y, x, p, t, d)
      BY <2>3, <2>4, <2>12, <2>16, <2>18, SplicedIs
    <2> HIDE DEF y
    <2>20. y \in Seq(Row(V)) /\ Len(y) = Len(x) - t + Len(d)
      BY <2>19 DEF Edited
    <2>21. Len(y) = Len(new)
      <3>1. Len(y) = Len(old) - (m - a) + (n - b) - (a - 1 - p) + (b - 1 - p)
        <4>1. t = a - 1 - p /\ Len(d) = b - 1 - p
          BY <2>4, <2>5, <2>9
        <4> QED
          BY <2>3, <2>4, <2>17, <2>20, <4>1
      <3> QED
        BY <2>3, <2>4, <3>1
    <2> QED
      BY <2>14, <2>20, <2>21 DEF Rows, y, sent
  <1> QED
    BY <1>1, <1>2, <1>3, DeltasAre

-----------------------------------------------------------------------------
(* Where the tokens of a delta come to stand *)

Grown(e) == Len(e.data) - e.delete_count \div SEMANTIC_TOKEN_WIDTH

LEMMA GrownIs ==
    ASSUME NEW i \in Nat, NEW n \in Nat, NEW data \in Seq(Token)
    PROVE  Grown(TokenEdit(i, n, data)) = Len(data) - n
  <1>1. (3 * n) \div 3 = n
    OBVIOUS
  <1> QED
    BY <1>1 DEF Grown, TokenEdit, SEMANTIC_TOKEN_WIDTH

LEMMA ShiftIs ==
    ASSUME NEW x, NEW n \in 0..2, Len(reply.edits) = n
    PROVE  \E g : /\ Shift(x) = g[n] /\ g[0] = 0
                  /\ \A i \in 1..n : g[i] = IF reply.edits[i].start < x.start
                                            THEN g[i - 1] + Grown(reply.edits[i])
                                            ELSE g[i - 1]
  <1> DEFINE edits == reply.edits
             F(f) == [i \in 0..n |-> IF i = 0 THEN 0
                                     ELSE IF edits[i].start < x.start
                                     THEN f[i - 1] + Grown(edits[i])
                                     ELSE f[i - 1]]
             g == CHOOSE f : f = F(f)
             Next_(y, i) == IF edits[i].start < x.start THEN y + Grown(edits[i]) ELSE y
             h == [i \in 0..n |-> IF i = 0 THEN 0
                                  ELSE IF i = 1 THEN Next_(0, 1)
                                  ELSE Next_(Next_(0, 1), 2)]
  <1>1. Shift(x) = g[n]
    BY Zenon DEF Shift, Grown
  <1> HIDE DEF edits
  <1>2. h = F(h)
    <2>1. \A i \in 0..n : i = 0 \/ i = 1 \/ i = 2
      OBVIOUS
    <2> DEFINE one == Next_(0, 1)
               two == Next_(one, 2)
    <2>2. h = [i \in 0..n |-> IF i = 0 THEN 0 ELSE IF i = 1 THEN one ELSE two]
      OBVIOUS
    <2>3. /\ one = IF edits[1].start < x.start THEN 0 + Grown(edits[1]) ELSE 0
          /\ two = IF edits[2].start < x.start THEN one + Grown(edits[2]) ELSE one
      OBVIOUS
    <2> HIDE DEF h, one, two
    <2>4. \A i \in 0..n : h[i] = IF i = 0 THEN 0
                                 ELSE IF edits[i].start < x.start
                                 THEN h[i - 1] + Grown(edits[i])
                                 ELSE h[i - 1]
      <3> TAKE i \in 0..n
      <3>1. CASE i = 0
        BY <2>2, <3>1
      <3>2. CASE i = 1
        BY <2>2, <2>3, <3>2
      <3>3. CASE i = 2
        BY <2>2, <2>3, <3>3
      <3> QED
        BY <2>1, <3>1, <3>2, <3>3
    <2> QED
      BY <2>2, <2>4
  <1>3. g = F(g)
    <2> HIDE DEF F, h
    <2>1. \E f : f = F(f)
      BY <1>2
    <2> QED
      BY <2>1
  <1> HIDE DEF g
  <1>4. /\ g[0] = 0
        /\ \A i \in 1..n : g[i] = IF edits[i].start < x.start
                                  THEN g[i - 1] + Grown(edits[i])
                                  ELSE g[i - 1]
    <2> DEFINE G == F(g)
    <2>1. /\ G[0] = 0
          /\ \A i \in 1..n : G[i] = IF edits[i].start < x.start
                                    THEN g[i - 1] + Grown(edits[i])
                                    ELSE g[i - 1]
      OBVIOUS
    <2>2. g = G
      BY <1>3
    <2> HIDE DEF G
    <2> QED
      BY <2>1, <2>2
  <1> QED
    BY <1>1, <1>4 DEF edits

LEMMA ShiftOfOne ==
    ASSUME NEW x, NEW e, reply.edits = <<e>>, x.start \in Nat, e.start \in Nat, Grown(e) \in Int
    PROVE  Shift(x) = IF e.start < x.start THEN Grown(e) ELSE 0
  <1>1. Len(reply.edits) = 1 /\ reply.edits[1] = e
    OBVIOUS
  <1>2. PICK g : /\ Shift(x) = g[1] /\ g[0] = 0
                 /\ \A i \in 1..1 : g[i] = IF reply.edits[i].start < x.start
                                           THEN g[i - 1] + Grown(reply.edits[i])
                                           ELSE g[i - 1]
    BY <1>1, ShiftIs
  <1> QED
    BY <1>1, <1>2

LEMMA ShiftOfTwo ==
    ASSUME NEW x, NEW e, NEW f, reply.edits = <<e, f>>, x.start \in Nat,
           e.start \in Nat, f.start \in Nat, Grown(e) \in Int, Grown(f) \in Int
    PROVE  Shift(x) = (IF e.start < x.start THEN Grown(e) ELSE 0)
                      + (IF f.start < x.start THEN Grown(f) ELSE 0)
  <1>1. Len(reply.edits) = 2 /\ reply.edits[1] = e /\ reply.edits[2] = f
    OBVIOUS
  <1>2. PICK g : /\ Shift(x) = g[2] /\ g[0] = 0
                 /\ \A i \in 1..2 : g[i] = IF reply.edits[i].start < x.start
                                           THEN g[i - 1] + Grown(reply.edits[i])
                                           ELSE g[i - 1]
    BY <1>1, ShiftIs
  <1>3. g[1] = IF e.start < x.start THEN g[0] + Grown(e) ELSE g[0]
    BY <1>1, <1>2
  <1>4. g[2] = IF f.start < x.start THEN g[1] + Grown(f) ELSE g[1]
    BY <1>1, <1>2
  <1> QED
    BY <1>2, <1>3, <1>4

LEMMA InsertedConverted ==
    ASSUME NEW s \in Text, NEW kinds \in SUBSET Words, NEW old,
           NEW i, NEW l \in 0..Tokens(s, kinds), NEW j \in 0..l,
           Anchor(old, i) = Anchor(StreamOf(s, kinds, "utf-8"), j)
    PROVE  ConvertedData(s, old, i, Slice(StreamOf(s, kinds, "utf-8"), j, l))
             = Slice(StreamOf(s, kinds, encoding), j, l)
  <1>1. j \in 0..Tokens(s, kinds)
    BY StreamIs
  <1>2. Anchor(old, i) = StartOf(s, kinds, j, "utf-8")
    BY <1>1, AnchorIs DEF Anchor
  <1>3. PositionToEncoding(s, StartOf(s, kinds, j, "utf-8"), "utf-8", encoding)
          = StartOf(s, kinds, j, encoding)
    BY <1>1, StartConverted
  <1>4. ConvertSeededTokenStream(s, Slice(StreamOf(s, kinds, "utf-8"), j, l), "utf-8", encoding,
                                 StartOf(s, kinds, j, "utf-8"), StartOf(s, kinds, j, encoding))
          = Slice(StreamOf(s, kinds, encoding), j, l)
    BY StretchConverted
  <1> QED
    BY <1>2, <1>3, <1>4 DEF ConvertedData

\* Every edit of a delta is about whole tokens; its own are a stretch of the
\* new stream, from where they come to stand in it.
Stretch(e, old, new, u, k, j, l) ==
    /\ u \in 0..Len(old) /\ l \in 0..Len(new) /\ j \in 0..l
    /\ e = TokenEdit(u, k, Slice(new, j, l))
    /\ e.start \div SEMANTIC_TOKEN_WIDTH = u /\ Len(e.data) = l - j
    /\ NewPlace(e) = j

LEMMA StartInTokens ==
    ASSUME NEW u \in Nat, NEW k, NEW data
    PROVE  /\ TokenEdit(u, k, data).start = 3 * u /\ TokenEdit(u, k, data).data = data
           /\ TokenEdit(u, k, data).start \div SEMANTIC_TOKEN_WIDTH = u
  <1>1. (3 * u) \div 3 = u
    OBVIOUS
  <1> QED
    BY <1>1 DEF TokenEdit, SEMANTIC_TOKEN_WIDTH

LEMMA PlaceOfOne ==
    ASSUME NEW old \in Seq(Token), NEW new \in Seq(Token), NEW p, NEW m, NEW n,
           Around(old, new, p, m, n), reply.edits = <<OneEdit(new, p, m, n)>>
    PROVE  Stretch(OneEdit(new, p, m, n), old, new, p, m - p, p, n)
  <1> DEFINE e == OneEdit(new, p, m, n)
             data == Slice(new, p, n)
             r == m - p
  <1>1. /\ p \in Nat /\ n \in Nat /\ r \in Nat /\ p <= Len(old) /\ p <= n /\ n <= Len(new)
        /\ Len(old) \in Nat /\ Len(new) \in Nat /\ data \in Seq(Token) /\ Len(data) = n - p
    <2>1. /\ p \in Nat /\ m \in Nat /\ n \in Nat /\ m - p \in Nat /\ p <= m /\ m <= Len(old)
          /\ p <= n /\ n <= Len(new) /\ Len(old) \in Nat /\ Len(new) \in Nat
          /\ data \in Seq(Token) /\ Len(data) = n - p
      BY AroundFacts
    <2> HIDE DEF data
    <2> QED
      BY <2>1
  <1>2. e = TokenEdit(p, r, data)
    BY DEF OneEdit
  <1> HIDE DEF e, data, r
  <1>3. e.start = 3 * p /\ e.start \div SEMANTIC_TOKEN_WIDTH = p /\ e.data = data
    BY <1>1, <1>2, StartInTokens
  <1>4. Grown(e) \in Int
    <2>1. Grown(TokenEdit(p, r, data)) = Len(data) - r
      BY <1>1, GrownIs
    <2> QED
      BY <1>1, <1>2, <2>1
  <1>5. e.start \in Nat /\ reply.edits = <<e>>
    BY <1>1, <1>3 DEF e
  <1>6. Shift(e) = 0
    <2>1. Shift(e) = IF e.start < e.start THEN Grown(e) ELSE 0
      BY <1>4, <1>5, ShiftOfOne
    <2> QED
      BY <1>5, <2>1
  <1>7. NewPlace(e) = p
    BY <1>1, <1>3, <1>6 DEF NewPlace
  <1>8. p \in 0..Len(old) /\ n \in 0..Len(new) /\ p \in 0..n
    BY <1>1
  <1>9. Stretch(e, old, new, p, m - p, p, n)
    BY <1>1, <1>2, <1>3, <1>7, <1>8 DEF Stretch, data, r
  <1> QED
    BY <1>9 DEF e

LEMMA PlacesOfTwo ==
    ASSUME NEW old \in Seq(Token), NEW new \in Seq(Token), NEW p, NEW m, NEW n,
           Around(old, new, p, m, n), NEW a \in p + 1 .. m, NEW b \in p + 1 .. n,
           reply.edits \in TwoEdits(new, p, a, b, m, n)
    PROVE  /\ Stretch(EditBefore(new, p, a, b), old, new, p, a - 1 - p, p, b - 1)
           /\ Stretch(EditAfter(new, a, b, m, n), old, new, a, m - a, b, n)
  <1> DEFINE e == EditBefore(new, p, a, b)
             f == EditAfter(new, a, b, m, n)
             data == Slice(new, p, b - 1)
             later == Slice(new, b, n)
             r == m - a
             t == a - 1 - p
  <1>1. /\ p \in Nat /\ m \in Nat /\ n \in Nat
        /\ p <= m /\ m <= Len(old) /\ p <= n /\ n <= Len(new)
        /\ Len(old) \in Nat /\ Len(new) \in Nat
    BY AroundFacts
  <1>2. /\ a \in Nat /\ b \in Nat /\ t \in Nat /\ r \in Nat /\ p < a /\ t = a - 1 - p
        /\ a \in 0..Len(old) /\ p \in 0..Len(old)
        /\ n \in 0..Len(new) /\ b \in 0..n /\ b - 1 \in 0..Len(new) /\ p \in 0..b - 1
    BY <1>1
  <1>3. data \in Seq(Token) /\ later \in Seq(Token) /\ Len(data) = b - 1 - p /\ Len(later) = n - b
    BY <1>2, TokenSlices
  <1>4. e = TokenEdit(p, t, data) /\ f = TokenEdit(a, r, later)
    BY DEF EditBefore, EditAfter
  <1>5. reply.edits = <<e, f>> \/ reply.edits = <<f, e>>
    BY DEF TwoEdits, Either
  <1> HIDE DEF e, f, data, later, r, t
  <1>6. e.start = 3 * p /\ e.start \div SEMANTIC_TOKEN_WIDTH = p /\ e.data = data
    BY <1>1, <1>4, StartInTokens
  <1>7. f.start = 3 * a /\ f.start \div SEMANTIC_TOKEN_WIDTH = a /\ f.data = later
    BY <1>2, <1>4, StartInTokens
  <1>8. Grown(e) = b - 1 - p - t
    <2>1. Grown(TokenEdit(p, t, data)) = Len(data) - t
      <3>1. p \in Nat /\ t \in Nat /\ data \in Seq(Token)
        BY <1>1, <1>2, <1>3
      <3> QED
        BY <3>1, GrownIs
    <2> QED
      BY <1>3, <1>4, <2>1
  <1>9. Grown(f) \in Int
    BY <1>2, <1>3, <1>4, GrownIs
  <1>10. Grown(e) = b - a /\ Grown(e) \in Int
    BY <1>1, <1>2, <1>8
  <1>11. e.start \in Nat /\ f.start \in Nat /\ e.start < f.start
    BY <1>1, <1>2, <1>6, <1>7
  <1>12. ASSUME NEW x, x.start \in Nat
         PROVE  Shift(x) = (IF e.start < x.start THEN Grown(e) ELSE 0)
                           + (IF f.start < x.start THEN Grown(f) ELSE 0)
    <2>1. CASE reply.edits = <<e, f>>
      BY <1>9, <1>10, <1>11, <1>12, <2>1, ShiftOfTwo
    <2>2. CASE reply.edits = <<f, e>>
      <3>1. Shift(x) = (IF f.start < x.start THEN Grown(f) ELSE 0)
                       + (IF e.start < x.start THEN Grown(e) ELSE 0)
        BY <1>9, <1>10, <1>11, <1>12, <2>2, ShiftOfTwo
      <3> QED
        BY <1>9, <1>10, <1>11, <1>12, <3>1
    <2> QED
      BY <1>5, <2>1, <2>2
  <1>13. Shift(e) = 0
    <2>1. Shift(e) = (IF e.start < e.start THEN Grown(e) ELSE 0)
                     + (IF f.start < e.start THEN Grown(f) ELSE 0)
      BY <1>11, <1>12
    <2> QED
      BY <1>11, <2>1
  <1>14. Shift(f) = b - a
    <2>1. Shift(f) = (IF e.start < f.start THEN Grown(e) ELSE 0)
                     + (IF f.start < f.start THEN Grown(f) ELSE 0)
      BY <1>11, <1>12
    <2> QED
      BY <1>10, <1>11, <2>1
  <1>15. NewPlace(e) = p
    BY <1>1, <1>6, <1>13 DEF NewPlace
  <1>16. NewPlace(f) = b
    BY <1>2, <1>7, <1>14 DEF NewPlace
  <1>17. Stretch(e, old, new, p, a - 1 - p, p, b - 1)
    BY <1>2, <1>3, <1>4, <1>6, <1>15 DEF Stretch, data, t
  <1>18. Stretch(f, old, new, a, m - a, b, n)
    BY <1>2, <1>3, <1>4, <1>7, <1>16 DEF Stretch, later, r
  <1> QED
    BY <1>17, <1>18 DEF e, f

LEMMA EditsPlaced ==
    ASSUME NEW old \in Seq(Token), NEW new \in Seq(Token), reply.edits \in Deltas(old, new),
           NEW i \in 1..Len(reply.edits)
    PROVE  \E u, k, j, l : Stretch(reply.edits[i], old, new, u, k, j, l)
  <1>1. CASE old = new /\ reply.edits = <<>>
    BY <1>1
  <1>2. CASE \E p, m, n : Around(old, new, p, m, n) /\ reply.edits = <<OneEdit(new, p, m, n)>>
    <2>1. PICK p, m, n : Around(old, new, p, m, n) /\ reply.edits = <<OneEdit(new, p, m, n)>>
      BY <1>2
    <2>2. Stretch(OneEdit(new, p, m, n), old, new, p, m - p, p, n)
      BY <2>1, PlaceOfOne
    <2>3. reply.edits[i] = OneEdit(new, p, m, n)
      BY <2>1
    <2> QED
      BY <2>2, <2>3
  <1>3. CASE \E p, m, n : /\ Around(old, new, p, m, n)
                          /\ \E a \in p + 1 .. m, b \in p + 1 .. n :
                                old[a] = new[b] /\ reply.edits \in TwoEdits(new, p, a, b, m, n)
    <2>1. PICK p, m, n : /\ Around(old, new, p, m, n)
                         /\ \E a \in p + 1 .. m, b \in p + 1 .. n :
                               old[a] = new[b] /\ reply.edits \in TwoEdits(new, p, a, b, m, n)
      BY <1>3
    <2>2. PICK a \in p + 1 .. m, b \in p + 1 .. n : reply.edits \in TwoEdits(new, p, a, b, m, n)
      BY <2>1
    <2>3. /\ Stretch(EditBefore(new, p, a, b), old, new, p, a - 1 - p, p, b - 1)
          /\ Stretch(EditAfter(new, a, b, m, n), old, new, a, m - a, b, n)
      BY <2>1, <2>2, PlacesOfTwo
    <2>4. reply.edits[i] \in {EditBefore(new, p, a, b), EditAfter(new, a, b, m, n)}
      <3> DEFINE e == EditBefore(new, p, a, b)
                 f == EditAfter(new, a, b, m, n)
      <3>1. reply.edits \in Either(e, f)
        BY <2>2 DEF TwoEdits
      <3> HIDE DEF e, f
      <3>2. reply.edits[i] \in {e, f}
        BY <3>1 DEF Either
      <3> QED
        BY <3>2 DEF e, f
    <2> QED
      BY <2>3, <2>4
  <1> QED
    BY <1>1, <1>2, <1>3, DeltasAre

-----------------------------------------------------------------------------
(* The streams *)

\* The client holds the tokens of a stream, whatever their columns.
Follows(stream) == stream \in Seq(Token) /\ Rows(held) /\ Len(held) = Len(stream)

FullReply ==
    /\ reply.kinds \in Highlights
    /\ reply.data = StreamOf(text, reply.kinds, encoding)
    /\ reply.named => served = StreamOf(text, reply.kinds, "utf-8")

DeltaReply ==
    /\ reply.kinds \in Highlights
    /\ named
    /\ served = StreamOf(text, reply.kinds, "utf-8")
    /\ \E old : /\ Follows(old)
                /\ reply.from \in {NoStream, old}
                /\ reply.edits \in Deltas(old, served)
                /\ reply.converted = Sent(text, reply.from, reply.edits)

\* What the implementor's next delta starts from is what the cache holds, and
\* what the client counts its tokens by.
StreamInv ==
    /\ cached \in {NoStream, served}
    /\ reply = NoReply /\ named => Follows(served)
    /\ reply # NoReply => reply.kind \in {"full", "delta"}
    /\ reply.kind = "full" => FullReply
    /\ reply.kind = "delta" => DeltaReply

LEMMA WordsHighlighted ==
    ASSUME TextInv
    PROVE  text \in Text /\ \A kinds \in Highlights : kinds \in SUBSET Words
  <1>1. text \in Texts
    BY DEF TextInv, TextsAgree
  <1>2. Texts \subseteq Text
    BY TextAssumption, TextsAreTexts
  <1>3. \A kinds \in Highlights : kinds \in SUBSET Words
    BY TokenAssumption DEF TokenAssumption, Words
  <1> QED
    BY <1>1, <1>2, <1>3

LEMMA SentStays ==
    ASSUME encoding' = encoding, text' = text, reply' = reply
    PROVE  Sent(text, reply.from, reply.edits)' = Sent(text, reply.from, reply.edits)
  BY DEF Sent, ConvertEdit

LEMMA StreamInit ==
    ASSUME TokenInit
    PROVE  StreamInv
  BY DEF TokenInit, StreamInv, NoReply

LEMMA RestKeeps ==
    ASSUME StreamInv, KeepStreams, cached' \in {NoStream, cached}
    PROVE  StreamInv'
  <1>1. reply = NoReply /\ reply' = NoReply /\ served' = served /\ named' = named
        /\ held' = IF named THEN held ELSE NoStream
    BY DEF KeepStreams
  <1>2. cached' \in {NoStream, served'}
    BY <1>1 DEF StreamInv
  <1>3. named' => Follows(served)'
    BY <1>1 DEF StreamInv, Follows
  <1>4. reply'.kind = "none"
    BY <1>1 DEF NoReply
  <1> QED
    BY <1>1, <1>2, <1>3, <1>4 DEF StreamInv

LEMMA FullKeeps ==
    ASSUME TextInv, StreamInv, SemanticTokensFull
    PROVE  StreamInv'
  <1>1. PICK kinds \in Highlights, id \in {TRUE, cached # NoStream} :
           /\ cached' = IF id THEN StreamOf(text, kinds, "utf-8") ELSE cached
           /\ served' = IF id THEN StreamOf(text, kinds, "utf-8") ELSE NoStream
           /\ reply' = [kind |-> "full", kinds |-> kinds, named |-> id,
                        data |-> ConvertData(text, StreamOf(text, kinds, "utf-8"))]
    BY DEF SemanticTokensFull
  <1>2. text' = text /\ encoding' = encoding
    BY DEF SemanticTokensFull, docVars
  <1>3. ConvertData(text, StreamOf(text, kinds, "utf-8")) = StreamOf(text, kinds, encoding)
    BY WordsHighlighted, FullConverted
  <1>4. cached' \in {NoStream, served'}
    BY <1>1
  <1>5. reply'.kind = "full" /\ reply'.kinds = kinds /\ reply'.named = id
        /\ reply'.data = StreamOf(text, kinds, encoding)
    BY <1>1, <1>3
  <1>6. FullReply'
    BY <1>1, <1>2, <1>5 DEF FullReply
  <1>7. reply' # NoReply
    BY <1>5 DEF NoReply
  <1> QED
    BY <1>4, <1>5, <1>6, <1>7 DEF StreamInv

LEMMA DeltaKeeps ==
    ASSUME TextInv, StreamInv, SemanticTokensFullDelta
    PROVE  StreamInv'
  <1>1. PICK kinds \in Highlights : \E edits \in Deltas(served, StreamOf(text, kinds, "utf-8")) :
           /\ cached' = SplicedCache(edits, ConvertEdits(text, edits))
           /\ served' = StreamOf(text, kinds, "utf-8")
           /\ reply' = [kind |-> "delta", kinds |-> kinds, edits |-> edits,
                        converted |-> ConvertEdits(text, edits), from |-> cached]
    BY DEF SemanticTokensFullDelta
  <1> DEFINE new == StreamOf(text, kinds, "utf-8")
  <1>2. PICK edits \in Deltas(served, new) :
           /\ cached' = SplicedCache(edits, ConvertEdits(text, edits))
           /\ served' = new
           /\ reply' = [kind |-> "delta", kinds |-> kinds, edits |-> edits,
                        converted |-> ConvertEdits(text, edits), from |-> cached]
    BY <1>1
  <1>3. /\ text' = text /\ encoding' = encoding /\ held' = held /\ named' = named
        /\ reply = NoReply /\ named
    BY DEF SemanticTokensFullDelta, docVars
  <1>4. new \in Seq(Token)
    BY WordsHighlighted, StreamIs
  <1>5. Follows(served)
    BY <1>3 DEF StreamInv
  <1>6. cached \in {NoStream, served}
    BY DEF StreamInv
  <1>7. ConvertEdits(text, edits) = Sent(text, cached, edits)
    BY DEF ConvertEdits, Sent
  <1> HIDE DEF new
  <1>8. cached' \in {NoStream, served'}
    <2>1. CASE cached = NoStream
      BY <1>2, <2>1 DEF SplicedCache
    <2>2. CASE cached # NoStream
      <3>1. cached = served /\ cached' = Splice(cached, edits)
        BY <1>2, <1>6, <2>2 DEF SplicedCache
      <3>2. Splice(served, edits) = new
        BY <1>4, <1>5, DeltasLead DEF Follows
      <3> QED
        BY <1>2, <3>1, <3>2
    <2> QED
      BY <2>1, <2>2
  <1>9. reply'.kind = "delta" /\ reply'.kinds = kinds /\ reply'.edits = edits
        /\ reply'.from = cached /\ reply'.converted = Sent(text, cached, edits)
    BY <1>2, <1>7
  <1>10. Sent(text, reply.from, reply.edits)' = Sent(text, cached, edits)
    BY <1>3, <1>9 DEF Sent, ConvertEdit
  <1>11. DeltaReply'
    <2>1. reply'.kinds \in Highlights /\ named' /\ served' = StreamOf(text, reply.kinds, "utf-8")'
      BY <1>2, <1>3, <1>9 DEF new
    <2>3. /\ reply'.from \in {NoStream, served}
          /\ reply'.edits \in Deltas(served, served')
          /\ reply'.converted = Sent(text, reply.from, reply.edits)'
      BY <1>2, <1>6, <1>9, <1>10
    <2>4. served \in Seq(Token) /\ Rows(held') /\ Len(held') = Len(served)
      BY <1>3, <1>5 DEF Follows
    <2> QED
      BY <2>1, <2>3, <2>4 DEF DeltaReply, Follows
  <1>12. reply' # NoReply
    BY <1>9 DEF NoReply
  <1> QED
    BY <1>8, <1>9, <1>11, <1>12 DEF StreamInv

LEMMA ReceiveKeeps ==
    ASSUME TextInv, StreamInv, ClientReceives
    PROVE  StreamInv'
  <1>1. /\ reply # NoReply /\ held' = Received /\ reply' = NoReply
        /\ named' = IF reply.kind = "full" THEN reply.named ELSE named
        /\ served' = served /\ cached' = cached
    BY DEF ClientReceives
  <1>2. text \in Text /\ \A kinds \in Highlights : kinds \in SUBSET Words
    BY WordsHighlighted
  <1>3. cached' \in {NoStream, served'}
    BY <1>1 DEF StreamInv
  <1>4. reply'.kind = "none"
    BY <1>1 DEF NoReply
  <1>5. ASSUME named'
        PROVE  served \in Seq(Token) /\ Rows(held') /\ Len(held') = Len(served)
    <2>1. CASE reply.kind = "full"
      <3>1. FullReply
        BY <2>1 DEF StreamInv
      <3>2. held' = StreamOf(text, reply.kinds, encoding)
            /\ served = StreamOf(text, reply.kinds, "utf-8") /\ reply.kinds \in SUBSET Words
        BY <1>1, <1>2, <1>5, <2>1, <3>1 DEF FullReply, Received
      <3>3. /\ served \in Seq(Token) /\ Len(served) = Tokens(text, reply.kinds)
            /\ held' \in Seq(Token) /\ Len(held') = Tokens(text, reply.kinds)
        BY <1>2, <3>2, StreamIs
      <3>4. Rows(held')
        BY <3>3, TokensAreRows DEF Rows
      <3> QED
        BY <3>3, <3>4
    <2>2. CASE reply.kind = "delta"
      <3>1. DeltaReply
        BY <2>2 DEF StreamInv
      <3>2. PICK old : /\ Follows(old)
                       /\ reply.from \in {NoStream, old}
                       /\ reply.edits \in Deltas(old, served)
                       /\ reply.converted = Sent(text, reply.from, reply.edits)
        BY <3>1 DEF DeltaReply
      <3>3. served \in Seq(Token)
        <4>1. served = StreamOf(text, reply.kinds, "utf-8") /\ reply.kinds \in SUBSET Words
          BY <1>2, <3>1 DEF DeltaReply
        <4> QED
          BY <1>2, <4>1, StreamIs
      <3>4. old \in Seq(Token) /\ Rows(held) /\ Len(held) = Len(old)
        BY <3>2 DEF Follows
      <3>5. held' = Splice(held, Sent(text, reply.from, reply.edits))
        BY <1>1, <2>2, <3>2 DEF Received
      <3> QED
        BY <3>2, <3>3, <3>4, <3>5, HeldGoesOn
    <2> QED
      BY <1>1, <2>1, <2>2 DEF StreamInv
  <1>6. named' => Follows(served)'
    BY <1>1, <1>5 DEF Follows
  <1> QED
    BY <1>1, <1>3, <1>4, <1>6 DEF StreamInv

LEMMA StreamInductive == TokenSpec => []StreamInv
  <1>1. TokenInit => StreamInv
    BY StreamInit
  <1>2. TextInv /\ StreamInv /\ [TokenNext]_vars => StreamInv'
    <2> SUFFICES ASSUME TextInv, StreamInv, [TokenNext]_vars
                 PROVE  StreamInv'
      OBVIOUS
    <2>1. CASE DocumentChanges
      BY <2>1, RestKeeps DEF DocumentChanges
    <2>2. CASE HandleDocumentSave
      BY <2>2, RestKeeps DEF HandleDocumentSave
    <2>3. CASE SemanticTokensFull
      BY <2>3, FullKeeps
    <2>4. CASE SemanticTokensFullDelta
      BY <2>4, DeltaKeeps
    <2>5. CASE ClientReceives
      BY <2>5, ReceiveKeeps
    <2>6. CASE UNCHANGED vars
      <3>1. /\ text' = text /\ encoding' = encoding /\ reply' = reply /\ served' = served
            /\ cached' = cached /\ held' = held /\ named' = named
        BY <2>6 DEF vars, docVars, tokenVars
      <3>2. FullReply => FullReply'
        BY <3>1 DEF FullReply
      <3>3. Sent(text, reply.from, reply.edits)' = Sent(text, reply.from, reply.edits)
        BY <3>1, SentStays
      <3>4. DeltaReply => DeltaReply'
        BY <3>1, <3>3 DEF DeltaReply, Follows
      <3>5. Follows(served) => Follows(served)'
        BY <3>1 DEF Follows
      <3> QED
        BY <3>1, <3>2, <3>4, <3>5 DEF StreamInv
    <2> QED
      BY <2>1, <2>2, <2>3, <2>4, <2>5, <2>6 DEF TokenNext
  <1> QED
    BY <1>1, <1>2, TextInductive, PTL DEF TokenSpec

\* modify_outgoing_semantic_tokens_delta_result (conversion.rs): whatever
\* deltas came, of one edit or of several in any order, the cached stream,
\* spliced with the edits as the implementor sent them, is the stream its next
\* delta is computed against.
THEOREM CacheFollowsImplementor == TokenSpec => []CacheIsServed
  <1>1. StreamInv => CacheIsServed
    BY DEF StreamInv, CacheIsServed
  <1> QED
    BY <1>1, StreamInductive, PTL

LEMMA InsertsFound ==
    ASSUME TextInv, StreamInv
    PROVE  InsertsAsInFull
  <1> SUFFICES ASSUME reply.kind = "delta", reply.from # NoStream,
                      NEW i \in 1..Len(reply.edits), AnchorStays(reply.edits[i])
               PROVE  reply.converted[i].data
                        = Slice(Wanted, NewPlace(reply.edits[i]),
                                NewPlace(reply.edits[i]) + Len(reply.edits[i].data))
    BY DEF InsertsAsInFull
  <1> DEFINE kinds == reply.kinds
             new == StreamOf(text, kinds, "utf-8")
             e == reply.edits[i]
  <1>1. DeltaReply
    BY DEF StreamInv
  <1>2. text \in Text /\ kinds \in SUBSET Words
    BY <1>1, WordsHighlighted DEF DeltaReply
  <1>3. PICK old : /\ Follows(old)
                   /\ reply.from \in {NoStream, old}
                   /\ reply.edits \in Deltas(old, served)
                   /\ reply.converted = Sent(text, reply.from, reply.edits)
    BY <1>1 DEF DeltaReply
  <1>4. served = new /\ new \in Seq(Token) /\ Len(new) = Tokens(text, kinds) /\ old \in Seq(Token)
        /\ reply.from = old
    BY <1>1, <1>2, <1>3, StreamIs DEF DeltaReply, Follows
  <1> HIDE DEF kinds, new
  <1>5. PICK u, k, j, l : Stretch(reply.edits[i], old, new, u, k, j, l)
    BY <1>3, <1>4, EditsPlaced
  <1> HIDE DEF e
  <1>6. /\ u \in 0..Len(old) /\ l \in 0..Tokens(text, kinds) /\ j \in 0..l
        /\ e = TokenEdit(u, k, Slice(new, j, l))
        /\ e.start \div SEMANTIC_TOKEN_WIDTH = u /\ Len(e.data) = l - j
        /\ NewPlace(e) = j
    BY <1>4, <1>5 DEF Stretch, e
  <1>7. reply.converted[i] = ConvertEdit(text, old, e)
    BY <1>3, <1>4 DEF Sent, e
  <1>8. ConvertEdit(text, old, e)
          = TokenEdit(u, k, ConvertedData(text, old, u, Slice(new, j, l)))
    <2>1. Len(old) \in Nat
      BY <1>4
    <2> QED
      BY <1>6, <2>1, ConvertEditIs
  <1>9. Anchor(old, u) = Anchor(new, j)
    <2>1. AnchorStays(e)
      BY DEF e
    <2> QED
      BY <1>4, <1>6, <2>1 DEF AnchorStays, Anchor
  <1>10. ConvertedData(text, old, u, Slice(new, j, l)) = Slice(Wanted, j, l)
    BY <1>2, <1>6, <1>9, InsertedConverted DEF new, Wanted, kinds
  <1>11. reply.converted[i].data = Slice(Wanted, j, l)
    BY <1>7, <1>8, <1>10 DEF TokenEdit
  <1>12. j + Len(e.data) = l
    <2>1. Tokens(text, kinds) \in Nat
      BY <1>2, StreamIs
    <2> QED
      BY <1>6, <2>1
  <1> QED
    BY <1>6, <1>11, <1>12 DEF e

\* convert_semantic_tokens_edits (conversion.rs): the tokens of an edit,
\* converted from the anchor in the cached stream, are the ones a full reply
\* has in their place, in the client's encoding, as long as no other edit of
\* the delta has moved the token before them.
THEOREM InsertsMatchFull == TokenSpec => []InsertsAsInFull
  <1>1. TextInv /\ StreamInv => InsertsAsInFull
    BY InsertsFound
  <1> QED
    BY <1>1, TextInductive, StreamInductive, PTL

\* A place in what the client holds, as Shift counts.
PlaceOf(i) == [start |-> SEMANTIC_TOKEN_WIDTH * (i - 1) + 1]

Deleted(e, i) ==
    /\ e.start <= SEMANTIC_TOKEN_WIDTH * (i - 1)
    /\ SEMANTIC_TOKEN_WIDTH * (i - 1) < e.start + e.delete_count

LEMMA Kept ==
    ASSUME KeepsColumns, NEW i \in 1..Len(held), \A e \in ToSet(reply.edits) : ~Deleted(e, i),
           NEW d, Shift(PlaceOf(i)) = d, i + d # 0
    PROVE  held[i] = Wanted[i + d]
  <1> DEFINE at(k) == IF \E e \in ToSet(reply.edits) :
                            /\ e.start <= SEMANTIC_TOKEN_WIDTH * (k - 1)
                            /\ SEMANTIC_TOKEN_WIDTH * (k - 1) < e.start + e.delete_count
                      THEN 0
                      ELSE k + Shift([start |-> SEMANTIC_TOKEN_WIDTH * (k - 1) + 1])
  <1>1. at(i) # 0 => held[i] = Wanted[at(i)]
    BY Zenon DEF KeepsColumns
  <1>2. at(i) = i + Shift(PlaceOf(i))
    BY Zenon DEF Deleted, PlaceOf
  <1> HIDE DEF at
  <1> QED
    BY <1>1, <1>2

LEMMA NoneKept ==
    ASSUME KeepsColumns, reply.edits = <<>>, NEW i \in 1..Len(held), Len(held) \in Nat
    PROVE  held[i] = Wanted[i]
  <1>1. ToSet(reply.edits) = {}
    BY DEF ToSet
  <1>2. Len(reply.edits) = 0
    OBVIOUS
  <1>3. Shift(PlaceOf(i)) = 0
    <2>1. PICK g : Shift(PlaceOf(i)) = g[0] /\ g[0] = 0
      BY <1>2, ShiftIs
    <2> QED
      BY <2>1
  <1>4. held[i] = Wanted[i + 0]
    BY <1>1, <1>3, Kept
  <1> QED
    BY <1>4

LEMMA OneKept ==
    ASSUME KeepsColumns, NEW p \in Nat, NEW r \in Nat, NEW data \in Seq(Token), Len(held) \in Nat,
           reply.edits = <<TokenEdit(p, r, data)>>, NEW i \in 1..Len(held)
    PROVE  /\ i <= p => held[i] = Wanted[i]
           /\ i > p + r => held[i] = Wanted[i + (Len(data) - r)]
  <1> DEFINE e == TokenEdit(p, r, data)
             x == PlaceOf(i)
  <1>1. e.start = 3 * p /\ e.delete_count = 3 * r
    BY DEF TokenEdit, SEMANTIC_TOKEN_WIDTH
  <1>2. Grown(e) = Len(data) - r /\ Len(data) \in Nat
    BY GrownIs
  <1>3. x.start = 3 * (i - 1) + 1
    BY DEF PlaceOf, SEMANTIC_TOKEN_WIDTH
  <1>4. reply.edits = <<e>> /\ ToSet(reply.edits) = {e}
    BY DEF ToSet
  <1> HIDE DEF e, x
  <1>5. Shift(x) = IF e.start < x.start THEN Grown(e) ELSE 0
    <2>1. e.start \in Nat /\ x.start \in Nat /\ Grown(e) \in Int
      BY <1>1, <1>2, <1>3
    <2> QED
      BY <1>4, <2>1, ShiftOfOne
  <1>6. Deleted(e, i) <=> 3 * p <= 3 * (i - 1) /\ 3 * (i - 1) < 3 * p + 3 * r
    BY <1>1 DEF Deleted, SEMANTIC_TOKEN_WIDTH
  <1>7. ASSUME i <= p
        PROVE  held[i] = Wanted[i]
    <2>1. ~(3 * p <= 3 * (i - 1)) /\ ~(3 * p < 3 * (i - 1) + 1)
      BY <1>7
    <2>2. Shift(PlaceOf(i)) = 0
      BY <1>1, <1>3, <1>5, <2>1 DEF x
    <2>3. \A y \in ToSet(reply.edits) : ~Deleted(y, i)
      BY <1>4, <1>6, <2>1
    <2>4. i + 0 # 0 /\ i + 0 = i
      OBVIOUS
    <2>5. held[i] = Wanted[i + 0]
      BY <2>2, <2>3, <2>4, Kept
    <2> QED
      BY <2>4, <2>5
  <1>8. ASSUME i > p + r
        PROVE  held[i] = Wanted[i + (Len(data) - r)]
    <2> DEFINE d == Len(data) - r
    <2>1. ~(3 * (i - 1) < 3 * p + 3 * r) /\ 3 * p < 3 * (i - 1) + 1 /\ i + d # 0
      BY <1>2, <1>8
    <2>2. Shift(PlaceOf(i)) = d
      BY <1>1, <1>2, <1>3, <1>5, <2>1 DEF x
    <2>3. \A y \in ToSet(reply.edits) : ~Deleted(y, i)
      BY <1>4, <1>6, <2>1
    <2> HIDE DEF d
    <2>4. held[i] = Wanted[i + d]
      BY <2>1, <2>2, <2>3, Kept
    <2> QED
      BY <2>4 DEF d
  <1> QED
    BY <1>7, <1>8

\* What h holds before p, and after the r tokens that follow, is as wanted.
KeptAround(h, want, p, r, n) ==
    /\ p \in Nat /\ r \in Nat /\ n \in p..Len(want) /\ p + r <= Len(h)
    /\ Len(h) - (p + r) = Len(want) - n
    /\ \A i \in 1..Len(h) : i <= p => h[i] = want[i]
    /\ \A i \in 1..Len(h) : i > p + r => h[i] = want[i + (n - p - r)]

LEMMA OneFollowed ==
    ASSUME NEW h, Rows(h), NEW want \in Seq(Token), NEW p, NEW r, NEW n,
           KeptAround(h, want, p, r, n)
    PROVE  Splice(h, <<TokenEdit(p, r, Slice(want, p, n))>>) = want
  <1> USE DEF KeptAround
  <1>01. PICK V : h \in Seq(Row(V))
    BY DEF Rows
  <1>02. /\ p \in Nat /\ r \in Nat /\ n \in p..Len(want) /\ p + r <= Len(h)
         /\ Len(h) - (p + r) = Len(want) - n
    OBVIOUS
  <1>03. /\ \A i \in 1..Len(h) : i <= p => h[i] = want[i]
         /\ \A i \in 1..Len(h) : i > p + r => h[i] = want[i + (n - p - r)]
    OBVIOUS
  <1> HIDE DEF KeptAround
  <1> DEFINE data == Slice(want, p, n)
             x == Spliced(h, p, r, data)
  <1>0. Len(want) \in Nat /\ Len(h) \in Nat /\ n \in 0..Len(want) /\ p \in 0..n /\ n \in Nat
        /\ p \in Nat /\ r \in Nat /\ p <= n /\ n <= Len(want) /\ p + r <= Len(h)
        /\ Len(h) - (p + r) = Len(want) - n
    BY <1>01, <1>02
  <1>1. data \in Seq(Token) /\ Len(data) = n - p /\ \A i \in 1..n - p : data[i] = want[p + i]
    BY <1>0, TokenSlices
  <1> HIDE DEF data
  <1>2. Rows(h) /\ Rows(data)
    BY <1>1, TokensAreRows DEF Rows
  <1>3. \E W : h \in Seq(Row(W)) /\ data \in Seq(Row(W)) /\ data \in Seq(Row(W))
    BY <1>2, RowsTogether
  <1>4. PICK W : h \in Seq(Row(W)) /\ data \in Seq(Row(W))
    BY <1>3
  <1>5. Splice(h, <<TokenEdit(p, r, data)>>) = x
    BY <1>0, <1>4, SplicedOne
  <1>6. Edited(Row(W), x, h, p, r, data)
    BY <1>0, <1>4, SplicedIs
  <1> HIDE DEF x
  <1>7. /\ x \in Seq(Row(W)) /\ Len(x) = Len(h) - r + Len(data)
        /\ \A k \in 1..p : x[k] = h[k]
        /\ \A k \in 1..Len(data) : x[p + k] = data[k]
        /\ \A k \in 1..Len(h) - r + Len(data) : k > p + Len(data) => x[k] = h[k - Len(data) + r]
    BY <1>6 DEF Edited
  <1>8. Len(x) = Len(want)
    BY <1>0, <1>1, <1>7
  <1>9. ASSUME NEW k \in 1..Len(want)
        PROVE  x[k] = want[k]
    <2>1. CASE k <= p
      <3>1. k \in 1..p /\ k \in 1..Len(h)
        BY <1>0, <2>1
      <3> QED
        BY <1>03, <1>7, <2>1, <3>1
    <2>2. CASE k > p /\ k <= n
      <3> DEFINE j == k - p
      <3>1. j \in 1..n - p /\ p + j = k
        BY <1>0, <2>2
      <3> HIDE DEF j
      <3>2. x[p + j] = data[j] /\ data[j] = want[p + j]
        BY <1>1, <1>7, <3>1
      <3> QED
        BY <3>1, <3>2
    <2>3. CASE k > n
      <3> DEFINE j == k - (n - p) + r
      <3>1. /\ j \in 1..Len(h) /\ j > p + r /\ j + (n - p - r) = k /\ k - Len(data) + r = j
            /\ k \in 1..Len(h) - r + Len(data) /\ k > p + Len(data)
        BY <1>0, <1>1, <2>3
      <3> HIDE DEF j
      <3>2. x[k] = h[j] /\ h[j] = want[k]
        BY <1>03, <1>7, <3>1
      <3> QED
        BY <3>2
    <2> QED
      BY <1>0, <2>1, <2>2, <2>3
  <1>10. x = want
    <2>1. x \in Seq(Row(W)) /\ Len(x) = Len(want)
      BY <1>7, <1>8
    <2>2. x = [k \in 1..Len(want) |-> x[k]]
      BY <2>1
    <2>3. want = [k \in 1..Len(want) |-> want[k]]
      OBVIOUS
    <2> QED
      BY <1>9, <2>2, <2>3
  <1> QED
    BY <1>5, <1>10 DEF data

LEMMA Followed ==
    ASSUME TextInv, StreamInv
    PROVE  StreamFollows
  <1>1. ASSUME reply.kind = "full"
        PROVE  Received = Wanted
    BY <1>1 DEF StreamInv, FullReply, Received, Wanted
  <1>2. ASSUME reply.kind = "delta", reply.from # NoStream, Len(reply.edits) <= 1, KeepsColumns
        PROVE  Received = Wanted
    <2> DEFINE kinds == reply.kinds
               new == StreamOf(text, kinds, "utf-8")
               want == Wanted
    <2>1. DeltaReply
      BY <1>2 DEF StreamInv
    <2>2. text \in Text /\ kinds \in SUBSET Words
      BY <2>1, WordsHighlighted DEF DeltaReply
    <2>3. PICK old : /\ Follows(old)
                     /\ reply.from \in {NoStream, old}
                     /\ reply.edits \in Deltas(old, served)
                     /\ reply.converted = Sent(text, reply.from, reply.edits)
      BY <2>1 DEF DeltaReply
    <2>4. /\ served = new /\ new \in Seq(Token) /\ Len(new) = Tokens(text, kinds)
          /\ old \in Seq(Token) /\ reply.from = old
      BY <1>2, <2>1, <2>2, <2>3, StreamIs DEF DeltaReply, Follows
    <2>5. want \in Seq(Token) /\ Len(want) = Len(new)
      BY <2>2, <2>4, StreamIs DEF Wanted
    <2>6. PICK V : held \in Seq(Row(V))
      BY <2>3 DEF Follows, Rows
    <2>7. Len(held) = Len(old) /\ Len(held) \in Nat
      BY <2>3, <2>6 DEF Follows
    <2>8. Received = Splice(held, Sent(text, old, reply.edits))
      BY <1>2, <2>3, <2>4 DEF Received
    <2> HIDE DEF kinds, new, want
    <2>9. CASE old = new /\ reply.edits = <<>>
      <3>1. Received = Chunks(Flat(held))
        BY <2>8, <2>9, NoneSent, SpliceOfNone
      <3>2. Chunks(Flat(held)) = held
        BY <2>6, ChunksOfFlat
      <3>3. \A i \in 1..Len(held) : held[i] = want[i]
        BY <1>2, <2>7, <2>9, NoneKept DEF want
      <3>4. Len(want) = Len(held)
        BY <2>5, <2>7, <2>9
      <3>5. held = [k \in 1..Len(want) |-> held[k]]
        BY <2>6, <3>4
      <3>6. want = [k \in 1..Len(want) |-> want[k]]
        BY <2>5
      <3>7. held = want
        BY <3>3, <3>4, <3>5, <3>6
      <3> QED
        BY <3>1, <3>2, <3>7 DEF want
    <2>10. CASE \E p, m, n : Around(old, new, p, m, n) /\ reply.edits = <<OneEdit(new, p, m, n)>>
      <3>1. PICK p, m, n : Around(old, new, p, m, n) /\ reply.edits = <<OneEdit(new, p, m, n)>>
        BY <2>10
      <3> DEFINE data == Slice(new, p, n)
                 r == m - p
                 inserted == Slice(want, p, n)
      <3>2. /\ p \in Nat /\ m \in Nat /\ n \in Nat /\ r \in Nat /\ r = m - p
            /\ p <= m /\ m <= Len(old) /\ p <= n /\ n <= Len(new)
            /\ Len(old) \in Nat /\ Len(new) \in Nat /\ Len(old) - m = Len(new) - n
            /\ data \in Seq(Token) /\ Len(data) = n - p
        BY <2>4, <3>1, AroundFacts
      <3>3. reply.edits = <<TokenEdit(p, r, data)>>
        BY <3>1 DEF OneEdit
      <3>4. Anchor(old, p) = Anchor(new, p)
        <4>1. \A i \in 1..p : old[i] = new[i]
          BY <3>1 DEF Around
        <4>2. Slice(old, 0, p) = Slice(new, 0, p)
          <5>1. p \in 0..Len(old) /\ p \in 0..Len(new) /\ 0 \in 0..p
            BY <3>2
          <5>2. /\ Slice(old, 0, p) \in Seq(Token) /\ Len(Slice(old, 0, p)) = p - 0
                /\ \A i \in 1..p - 0 : Slice(old, 0, p)[i] = old[0 + i]
            BY <2>4, <5>1, TokenSlices
          <5>3. /\ Slice(new, 0, p) \in Seq(Token) /\ Len(Slice(new, 0, p)) = p - 0
                /\ \A i \in 1..p - 0 : Slice(new, 0, p)[i] = new[0 + i]
            BY <2>4, <5>1, TokenSlices
          <5> DEFINE y == Slice(old, 0, p)
                     z == Slice(new, 0, p)
          <5> HIDE DEF y, z
          <5>4. p - 0 = p /\ \A i \in 1..p : i \in 1..p - 0 /\ 0 + i = i
            BY <3>2
          <5>5. y \in Seq(Token) /\ Len(y) = p /\ \A i \in 1..p : y[i] = old[i]
            BY <5>2, <5>4 DEF y
          <5>6. z \in Seq(Token) /\ Len(z) = p /\ \A i \in 1..p : z[i] = new[i]
            BY <5>3, <5>4 DEF z
          <5>7. y = z
            BY <4>1, <5>5, <5>6
          <5> QED
            BY <5>7 DEF y, z
        <4> QED
          BY <4>2 DEF Anchor
      <3>5. ConvertedData(text, old, p, data) = inserted
        <4>1. n \in 0..Tokens(text, kinds) /\ p \in 0..n
          BY <2>4, <3>2
        <4>2. Anchor(old, p) = Anchor(StreamOf(text, kinds, "utf-8"), p)
          BY <3>4 DEF new
        <4>3. ConvertedData(text, old, p, Slice(StreamOf(text, kinds, "utf-8"), p, n))
                = Slice(StreamOf(text, kinds, encoding), p, n)
          BY <2>2, <4>1, <4>2, InsertedConverted
        <4> QED
          BY <4>3 DEF new, want, Wanted, kinds
      <3> HIDE DEF data, r, inserted
      <3>6. SentEdit(text, old, TokenEdit(p, r, data)) = TokenEdit(p, r, inserted)
        <4>1. p \in 0..Len(old) /\ old # NoStream /\ Len(old) \in Nat
          BY <1>2, <2>4, <3>2
        <4>2. ConvertEdit(text, old, TokenEdit(p, r, data))
                = TokenEdit(p, r, ConvertedData(text, old, p, data))
          BY <4>1, ConvertEditIs
        <4> QED
          BY <3>5, <4>1, <4>2 DEF SentEdit
      <3>7. Received = Splice(held, <<TokenEdit(p, r, inserted)>>)
        <4> DEFINE e == TokenEdit(p, r, data)
        <4> HIDE DEF e
        <4>1. Sent(text, old, <<e>>) = <<SentEdit(text, old, e)>>
          BY OneSent
        <4> QED
          BY <2>8, <3>3, <3>6, <4>1 DEF e
      <3>8. ASSUME NEW i \in 1..Len(held)
            PROVE  /\ i <= p => held[i] = want[i]
                   /\ i > p + r => held[i] = want[i + (n - p - r)]
        <4>1. /\ i <= p => held[i] = Wanted[i]
              /\ i > p + r => held[i] = Wanted[i + (Len(data) - r)]
          <5>1. KeepsColumns /\ p \in Nat /\ r \in Nat /\ data \in Seq(Token) /\ Len(held) \in Nat
            BY <1>2, <2>7, <3>2
          <5> QED
            BY <3>3, <5>1, OneKept
        <4>2. Len(data) - r = n - p - r
          BY <3>2
        <4> QED
          BY <4>1, <4>2 DEF want
      <3>9. /\ p \in Nat /\ r \in Nat /\ n \in p..Len(want) /\ p + r <= Len(held)
            /\ Len(held) - (p + r) = Len(want) - n
        BY <2>5, <2>7, <3>2
      <3>10. Splice(held, <<TokenEdit(p, r, inserted)>>) = want
        <4>1. KeptAround(held, want, p, r, n)
          BY <3>8, <3>9 DEF KeptAround
        <4>2. Rows(held)
          BY <2>6 DEF Rows
        <4> QED
          BY <2>5, <4>1, <4>2, OneFollowed DEF inserted
      <3> QED
        BY <3>7, <3>10 DEF want
    <2>11. CASE \E p, m, n : /\ Around(old, new, p, m, n)
                             /\ \E a \in p + 1 .. m, b \in p + 1 .. n :
                                   old[a] = new[b] /\ reply.edits \in TwoEdits(new, p, a, b, m, n)
      <3>1. PICK p, m, n, a, b : reply.edits \in TwoEdits(new, p, a, b, m, n)
        BY <2>11
      <3>2. Len(reply.edits) = 2
        BY <3>1 DEF TwoEdits, Either
      <3> QED
        BY <1>2, <3>2
    <2>12. reply.edits \in Deltas(old, new)
      BY <2>3, <2>4
    <2> QED
      BY <2>4, <2>9, <2>10, <2>11, <2>12, DeltasAre
  <1> QED
    BY <1>1, <1>2 DEF StreamFollows

\* A client that puts together what the conversion sends it shows the tokens
\* where they are, in its own encoding (server_trait.rs: "edits transforming
\* the previous token stream into the current one"): after every full reply,
\* and after a delta of at most one edit whose kept tokens keep their columns.
THEOREM ClientFollows == TokenSpec => []StreamFollows
  <1>1. TextInv /\ StreamInv => StreamFollows
    BY Followed
  <1> QED
    BY <1>1, TextInductive, StreamInductive, PTL
=============================================================================
