------------------------------ MODULE TextRanges ------------------------------
(***************************************************************************)
(* The three kinds of ranges of src/text_utils/range_ext side by side: one *)
(* stretch of a document as bytes, as LSP positions in UTF-8 and as a      *)
(* tree-sitter range, under the operations of RangeExt, each result the    *)
(* range of the next operation.                                            *)
(*                                                                         *)
(* A text is its bytes: "plain", "newline", "slash", and "lead" with       *)
(* "trail" for a character of two.  An LSP position and a tree-sitter      *)
(* point are both a line and a column of bytes (src/tree_sitter_utils.rs). *)
(***************************************************************************)
EXTENDS Integers, Sequences, FiniteSets

CONSTANTS
    Docs,       \* the documents of this instance
    Amounts     \* how far shrink may be asked to go

ASSUME RangesAssumption ==
    /\ Docs \subseteq Seq({"plain", "newline", "slash", "lead", "trail"})
    /\ Amounts \subseteq Nat

VARIABLES
    doc,        \* the bytes of the document
    bytes,      \* the stretch as a std::ops::Range<usize> ...
    lsp,        \* ... as an lsp_types::Range ...
    ts,         \* ... as a tree_sitter::Range; or what the last operation refused
    counted     \* has every delimiter found been counted in bytes?

rangeVars == <<doc, bytes, lsp, ts, counted>>

\* What an operation answers: the parts it makes, each a range or none.
None         == [none |-> TRUE]
Ok(parts)    == [parts |-> parts]
Err(error)   == [error |-> error]
IsErr(r)     == "error" \in DOMAIN r
Part(r, k)   == IF IsErr(r) THEN r ELSE r.parts[k]

LeastOf(a, b) == IF a < b THEN a ELSE b
MostOf(a, b)  == IF a > b THEN a ELSE b

-----------------------------------------------------------------------------
(* Positions *)

Slice(s, from, to) == SubSeq(s, from + 1, to)

Newlines(s, b) == {i \in 1..b : s[i] = "newline"}

LineStart(s, b) == IF Newlines(s, b) = {} THEN 0
                   ELSE CHOOSE i \in Newlines(s, b) : \A j \in Newlines(s, b) : j <= i

\* The position of a byte, by the protocol and by tree-sitter.
PositionOf(s, b) == [line |-> Cardinality(Newlines(s, b)), col |-> b - LineStart(s, b)]

Boundary(s, b) == b < Len(s) => s[b + 1] # "trail"

AtOrBefore(p, q) == p.line < q.line \/ (p.line = q.line /\ p.col <= q.col)

\* Mutant: the columns of later lines are counted from the range as well.
AbsoluteColumns(start, at) == [line |-> start.line + at.line, col |-> start.col + at.col]

\* A position relative to the start of a range.
Absolute(start, at) ==
    [line |-> start.line + at.line, col |-> IF at.line = 0 THEN start.col + at.col ELSE at.col]

Within(p, start, end) == AtOrBefore(start, p) /\ AtOrBefore(p, end)

-----------------------------------------------------------------------------
(* split_at *)

BytesSplitAt(r, at) ==
    IF at > r.end - r.start THEN Err("PositionOutOfRange")
    ELSE Ok(<<[start |-> r.start, end |-> r.start + at], [start |-> r.start + at, end |-> r.end]>>)

LspSplitAt(r, at) ==
    LET there == Absolute(r.start, at)
    IN  IF ~Within(there, r.start, r.end) THEN Err("PositionOutOfRange")
        ELSE Ok(<<[start |-> r.start, end |-> there], [start |-> there, end |-> r.end]>>)

TsRange(fromByte, toByte, from, to) ==
    [start_byte |-> fromByte, end_byte |-> toByte, start_point |-> from, end_point |-> to]

\* Where a relative point is in the text: at a character, at the end, or
\* nowhere.
TsFound(t, at) == {b \in 0..Len(t) : Boundary(t, b) /\ PositionOf(t, b) = at}

TsSplitAt(r, t, at) ==
    LET there == Absolute(r.start_point, at)
    IN  IF TsFound(t, at) = {} THEN Err("PositionOutOfRange")
        ELSE LET byte == r.start_byte + CHOOSE b \in TsFound(t, at) : TRUE
             IN  Ok(<<TsRange(r.start_byte, byte, r.start_point, there),
                      TsRange(byte, r.end_byte, there, r.end_point)>>)

-----------------------------------------------------------------------------
(* shrink: neither end passes the other's old place *)

ShrunkStart(start, end, left) == LeastOf(start + left, end)
ShrunkEnd(start, end, right)  == MostOf(end - right, start)

BytesShrink(r, left, right) ==
    Ok(<<[start |-> ShrunkStart(r.start, r.end, left), end |-> ShrunkEnd(r.start, r.end, right)]>>)

LspShrink(r, left, right) ==
    IF r.start.line # r.end.line THEN Err("NotSingleLine")
    ELSE Ok(<<[start |-> [r.start EXCEPT !.col = ShrunkStart(@, r.end.col, left)],
               end |-> [r.end EXCEPT !.col = ShrunkEnd(r.start.col, @, right)]]>>)

TsShrink(r, left, right) ==
    IF r.start_point.line # r.end_point.line THEN Err("NotSingleLine")
    ELSE Ok(<<TsRange(ShrunkStart(r.start_byte, r.end_byte, left),
                      ShrunkEnd(r.start_byte, r.end_byte, right),
                      [r.start_point EXCEPT !.col = ShrunkStart(@, r.end_point.col, left)],
                      [r.end_point EXCEPT !.col = ShrunkEnd(r.start_point.col, @, right)])>>)

-----------------------------------------------------------------------------
(* sub: the kinds do not look for the two errors in the same order *)

BytesSub(r, from, to) ==
    IF MostOf(from, to) > r.end - r.start THEN Err("PositionOutOfRange")
    ELSE IF from > to THEN Err("StartAfterEnd")
    ELSE Ok(<<[start |-> r.start + from, end |-> r.start + to]>>)

LspSub(r, from, to) ==
    LET first == Absolute(r.start, from)
        last  == Absolute(r.start, to)
    IN  IF ~AtOrBefore(from, to) THEN Err("StartAfterEnd")
        ELSE IF ~(Within(first, r.start, r.end) /\ Within(last, r.start, r.end))
        THEN Err("PositionOutOfRange")
        ELSE Ok(<<[start |-> first, end |-> last]>>)

TsSub(r, t, from, to) ==
    IF ~AtOrBefore(from, to) THEN Err("StartAfterEnd")
    ELSE IF TsFound(t, from) = {} \/ TsFound(t, to) = {} THEN Err("PositionOutOfRange")
    ELSE Ok(<<TsRange(r.start_byte + (CHOOSE b \in TsFound(t, from) : TRUE),
                      r.start_byte + (CHOOSE b \in TsFound(t, to) : TRUE),
                      Absolute(r.start_point, from), Absolute(r.start_point, to))>>)

-----------------------------------------------------------------------------
(* sub_delimited: the stretch before the first delimiter and the one after *)

Finds(t, delimiter) == \E i \in 1..Len(t) : t[i] = delimiter

\* The offset of the first one.
Find(t, delimiter) == (CHOOSE i \in 1..Len(t) : /\ t[i] = delimiter
                                                /\ \A j \in 1..i - 1 : t[j] # delimiter) - 1

\* None for a side without a byte; one that is refused refuses the call.
Both(left, right) ==
    IF IsErr(left) THEN left ELSE IF IsErr(right) THEN right ELSE Ok(<<left, right>>)

Sides(t, delimiter, left, right) ==
    Both(IF Find(t, delimiter) = 0 THEN None ELSE left,
         IF Find(t, delimiter) + 1 >= Len(t) THEN None ELSE right)

\* Without a delimiter everything is on the left.
OneSide(r, t) == Ok(<<IF t = << >> THEN None ELSE r, None>>)

BytesDelimited(r, t, delimiter) ==
    IF ~Finds(t, delimiter) THEN OneSide(r, t)
    ELSE Sides(t, delimiter, Part(BytesSplitAt(r, Find(t, delimiter)), 1),
                             Part(BytesSplitAt(r, Find(t, delimiter) + 1), 2))

After(t, delimiter, at) ==
    IF delimiter = "newline" THEN [line |-> at.line + 1, col |-> 0] ELSE [at EXCEPT !.col = @ + 1]

\* The column of an LSP delimiter counts the characters of its line before it.
LspDelimited(r, t, delimiter) ==
    IF ~Finds(t, delimiter) THEN OneSide(r, t)
    ELSE LET offset == Find(t, delimiter)
             at == [PositionOf(t, offset) EXCEPT
                       !.col = Cardinality({i \in LineStart(t, offset) + 1..offset : t[i] # "trail"})]
         IN  Sides(t, delimiter, Part(LspSplitAt(r, at), 1),
                                 Part(LspSplitAt(r, After(t, delimiter, at)), 2))

TsDelimited(r, t, delimiter) ==
    IF ~Finds(t, delimiter) THEN OneSide(r, t)
    ELSE LET offset == Find(t, delimiter)
             at     == Absolute(r.start_point, PositionOf(t, offset))
         IN  Sides(t, delimiter,
                   TsRange(r.start_byte, r.start_byte + offset, r.start_point, at),
                   TsRange(r.start_byte + offset + 1, r.end_byte, After(t, delimiter, at), r.end_point))

-----------------------------------------------------------------------------
(* sub_delimited_tri: what follows the first delimiter is delimited again *)

Rest(t, delimiter) == Slice(t, Find(t, delimiter) + 1, Len(t))

Tri(Delimited(_, _, _), r, t, delim0, delim1) ==
    LET once  == Delimited(r, t, delim0)
        again == Delimited(once.parts[2], Rest(t, delim0), delim1)
    IN  IF IsErr(once) THEN once
        ELSE IF once.parts[2] = None THEN Ok(Append(once.parts, None))
        ELSE IF IsErr(again) THEN again
        ELSE Ok(<<once.parts[1]>> \o again.parts)

BytesDelimitedTri(r, t, delim0, delim1) == Tri(BytesDelimited, r, t, delim0, delim1)
LspDelimitedTri(r, t, delim0, delim1)   == Tri(LspDelimited, r, t, delim0, delim1)
TsDelimitedTri(r, t, delim0, delim1)    == Tri(TsDelimited, r, t, delim0, delim1)

-----------------------------------------------------------------------------
(* The operations, on a stretch that ends at characters *)

LspOf(r) == [start |-> PositionOf(doc, r.start), end |-> PositionOf(doc, r.end)]
TsOf(r)  == TsRange(r.start, r.end, PositionOf(doc, r.start), PositionOf(doc, r.end))

Stretches(s) == {r \in [start : 0..Len(s), end : 0..Len(s)] :
                    r.start <= r.end /\ Boundary(s, r.start) /\ Boundary(s, r.end)}

\* Bound: ranges that a miscounted delimiter has taken apart are cut no more.
Applicable == bytes \in Stretches(doc) /\ ~IsErr(lsp) /\ counted

Text == Slice(doc, bytes.start, bytes.end)

Answers(parts, b, l, t) ==
    /\ \E k \in 1..parts : bytes' = Part(b, k) /\ lsp' = Part(l, k) /\ ts' = Part(t, k)
    /\ UNCHANGED doc

\* Relative places: the characters of the text, its end, and one past it.
Places == {b \in 0..Len(Text) : Boundary(Text, b)} \cup {Len(Text) + 1}

PlaceOf(b) == IF b <= Len(Text) THEN PositionOf(Text, b)
              ELSE [PositionOf(Text, Len(Text)) EXCEPT !.col = @ + 1]

SplitsAt ==
    /\ Applicable
    /\ \E at \in Places : Answers(2, BytesSplitAt(bytes, at), LspSplitAt(lsp, PlaceOf(at)),
                                     TsSplitAt(ts, Text, PlaceOf(at)))
    /\ UNCHANGED counted

Shrinks ==
    /\ Applicable
    /\ \E left, right \in Amounts : Answers(1, BytesShrink(bytes, left, right),
                                            LspShrink(lsp, left, right), TsShrink(ts, left, right))
    /\ UNCHANGED counted

Subs ==
    /\ Applicable
    /\ \E from, to \in Places :
          Answers(1, BytesSub(bytes, from, to), LspSub(lsp, PlaceOf(from), PlaceOf(to)),
                     TsSub(ts, Text, PlaceOf(from), PlaceOf(to)))
    /\ UNCHANGED counted

\* Before the delimiter its line has characters of one byte only: the column
\* an LSP range counts is the byte column the other kinds have.
CountedInBytes(t, delimiter) ==
    Finds(t, delimiter) =>
        \A i \in LineStart(t, Find(t, delimiter)) + 1..Find(t, delimiter) : t[i] # "trail"

Delimits ==
    /\ Applicable
    /\ \E d \in {"slash", "newline"} :
          /\ Answers(2, BytesDelimited(bytes, Text, d), LspDelimited(lsp, Text, d), TsDelimited(ts, Text, d))
          /\ counted' = CountedInBytes(Text, d)

DelimitsTwice ==
    /\ Applicable
    /\ \E d, e \in {"slash", "newline"} :
          /\ Answers(3, BytesDelimitedTri(bytes, Text, d, e), LspDelimitedTri(lsp, Text, d, e),
                        TsDelimitedTri(ts, Text, d, e))
          /\ counted' = /\ CountedInBytes(Text, d)
                        /\ Finds(Text, d) => CountedInBytes(Rest(Text, d), e)

\* check_delimiter
RefusesDelimiter ==
    /\ Applicable
    /\ Answers(1, Err("DelimiterNotSingleByte"), Err("DelimiterNotSingleByte"), Err("DelimiterNotSingleByte"))
    /\ UNCHANGED counted

RangesInit ==
    /\ doc \in Docs
    /\ bytes \in Stretches(doc)
    /\ lsp = LspOf(bytes) /\ ts = TsOf(bytes)
    /\ counted = TRUE

RangesNext == SplitsAt \/ Shrinks \/ Subs \/ Delimits \/ DelimitsTwice \/ RefusesDelimiter

RangesSpec == RangesInit /\ [][RangesNext]_rangeVars

-----------------------------------------------------------------------------
(* Properties *)

\* The tree-sitter range is of the same bytes as the byte range, or both
\* refuse; but a byte range has no lines and is shrunk across them.
TreesAgree ==
    /\ IsErr(bytes) => IsErr(ts)
    /\ IsErr(ts) /\ ~IsErr(bytes) => ts = Err("NotSingleLine")
    /\ ~IsErr(ts) => ts = IF bytes = None THEN None ELSE TsOf(bytes)

\* So is the LSP range.
PositionsAgree ==
    /\ IsErr(lsp) <=> IsErr(ts)
    /\ IsErr(lsp) /\ ~IsErr(bytes) => lsp = ts
    /\ ~IsErr(lsp) => lsp = IF bytes = None THEN None ELSE LspOf(bytes)

\* However a stretch was cut, the three kinds of ranges are of the same bytes,
\* or all refuse (range_ext: "Works with different kinds of ranges"), but for
\* an LSP range cut at a delimiter that wider characters stand before, whose
\* column is not one of bytes.
RangesAgree == TreesAgree /\ (counted => PositionsAgree)
=============================================================================
