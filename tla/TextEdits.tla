------------------------------ MODULE TextEdits ------------------------------
(***************************************************************************)
(* The text of an open document and the edits of didChange: positions in   *)
(* the client's encoding become offsets of the rope (src/text_utils,       *)
(* change_char_range), the edit is applied to the text, and the syntax     *)
(* tree is told of it in bytes (tree_sitter_edit).                         *)
(*                                                                         *)
(* A text is a sequence of characters, told apart by their size; offsets   *)
(* count characters from 0.  The client sends positions its text has.      *)
(***************************************************************************)
EXTENDS Integers, Sequences, FiniteSets, SequencesExt

CONSTANTS
    Texts,      \* bound: the texts of this instance
    Inserts,    \* the texts a change may insert
    Encodings   \* the encodings the client may have negotiated

Bytes == [plain |-> 1, accented |-> 2, astral |-> 4, newline |-> 1]
Units == [plain |-> 1, accented |-> 1, astral |-> 2, newline |-> 1]

ASSUME TextAssumption ==
    /\ Texts \subseteq Seq(DOMAIN Bytes)
    /\ Inserts \subseteq Texts
    /\ Encodings \subseteq {"utf-8", "utf-16", "utf-32"}

VARIABLES
    clientText,  \* the document in the editor
    text,        \* the document's rope
    encoding,    \* the negotiated encoding
    tree         \* the syntax tree: "sound", or "misled" by an edit

docVars == <<clientText, text, encoding, tree>>

DocTypeOK ==
    /\ {clientText, text} \subseteq Texts
    /\ encoding \in Encodings
    /\ tree \in {"sound", "misled"}

-----------------------------------------------------------------------------
(* Columns and lines *)

Width(ch, enc) == IF enc = "utf-8" THEN Bytes[ch] ELSE IF enc = "utf-16" THEN Units[ch] ELSE 1

\* The code units of a stretch of text: one for every character, and what
\* the wider ones need beyond it.
Length(s, enc) ==
    LET Beyond(ch) == (Width(ch, enc) - 1) * Cardinality({i \in 1..Len(s) : s[i] = ch})
    IN  Len(s) + Beyond("accented") + Beyond("astral")

\* What lies between two offsets.
Slice(s, from, to) == SubSeq(s, from + 1, to)

LineStarts(s) == {0} \cup {i \in 1..Len(s) : s[i] = "newline"}

Lines(s) == Cardinality(LineStarts(s))

\* try_line_to_char: the line past the last one starts at the end.
LineToChar(s, l) ==
    IF l = Lines(s) THEN Len(s)
    ELSE CHOOSE i \in LineStarts(s) : Cardinality({j \in LineStarts(s) : j < i}) = l

\* A line with its break.
Line(s, l) == Slice(s, LineToChar(s, l), LineToChar(s, l + 1))

\* Mutant: a column counts characters, whatever the encoding.
PositionPerCharacter(s, p, source, target) ==
    LET l == Min({p.line, Lines(s) - 1})
    IN  [line |-> l, character |-> Min({p.character, Len(Line(s, l))})]

\* position_to_encoding: the line and the column are cut to the text, and a
\* column inside a character is the character's start.  One encoding on both
\* sides leaves the position as it is.
PositionToEncoding(s, p, source, target) ==
    IF source = target THEN p
    ELSE LET l    == Min({p.line, Lines(s) - 1})
             line == Line(s, l)
             k    == Max({i \in 0..Len(line) : Length(Slice(line, 0, i), source) <= p.character})
         IN  [line |-> l, character |-> Length(Slice(line, 0, k), target)]

\* The position an offset has by the protocol: the breaks before it, and the
\* code units since the last one.
PositionOf(s, o, enc) ==
    LET breaks == {i \in 1..o : s[i] = "newline"}
    IN  [line |-> Cardinality(breaks),
         character |-> Length(Slice(s, Max(breaks \cup {0}), o), enc)]

-----------------------------------------------------------------------------
(* One change *)

NoRange == [all |-> TRUE]

Refused == <<>>

\* change_char_range: two offsets, or none when a line is out of bounds.
ChangeCharRange(s, range, enc) ==
    IF range.start.line > Lines(s) \/ range.end.line > Lines(s) THEN Refused
    ELSE LET Offset(p) == LineToChar(s, p.line) + PositionToEncoding(s, p, enc, "utf-32").character
             start     == Offset(range.start)
         IN  <<start, Min({Max({Offset(range.end), start}), Len(s)})>>

\* Mutant: the new end is the inserted text's own end.
NewEndOfInsert(start, inserted) == PositionOf(inserted, Len(inserted), "utf-8")

\* The inserted text's end, counted on from its start.
NewEnd(start, inserted) ==
    LET Past(p, ch) == IF ch = "newline" THEN [line |-> p.line + 1, character |-> 0]
                       ELSE [line |-> p.line, character |-> p.character + Width(ch, "utf-8")]
        after[n \in 0..Len(inserted)] ==
            IF n = 0 THEN start ELSE Past(after[n - 1], inserted[n])
    IN  after[Len(inserted)]

\* tree_sitter_edit, on the text before the change.
TreeSitterEdit(s, change, from, to) ==
    LET startByte == Length(Slice(s, 0, from), "utf-8")
        start     == PositionToEncoding(s, change.range.start, encoding, "utf-8")
    IN  [start_byte |-> startByte,
         old_end_byte |-> Length(Slice(s, 0, to), "utf-8"),
         new_end_byte |-> startByte + Length(change.text, "utf-8"),
         start_position |-> start,
         old_end_position |-> PositionToEncoding(s, change.range.end, encoding, "utf-8"),
         new_end_position |-> NewEnd(start, change.text)]

Replace(s, from, to, inserted) == Slice(s, 0, from) \o inserted \o Slice(s, to, Len(s))

\* What tree-sitter must be told of a change: the bytes and the points of
\* three offsets, the third in the text after it.
InputEdit(s, from, to, inserted) ==
    LET new == Replace(s, from, to, inserted)
        end == from + Len(inserted)
    IN  [start_byte |-> Length(Slice(s, 0, from), "utf-8"),
         old_end_byte |-> Length(Slice(s, 0, to), "utf-8"),
         new_end_byte |-> Length(Slice(new, 0, end), "utf-8"),
         start_position |-> PositionOf(s, from, "utf-8"),
         old_end_position |-> PositionOf(s, to, "utf-8"),
         new_end_position |-> PositionOf(new, end, "utf-8")]

\* One change of a batch; a refused one ends the batch.  A tree that was told
\* something untrue is misled until the text is parsed anew.
Change(doc, change) ==
    IF doc.failed THEN doc
    ELSE IF change.range = NoRange
    THEN [doc EXCEPT !.text = change.text, !.tree = "sound"]
    ELSE LET r == ChangeCharRange(doc.text, change.range, encoding)
         IN  IF r = Refused \/ r[1] > r[2] THEN [doc EXCEPT !.failed = TRUE]
             ELSE [text |-> Replace(doc.text, r[1], r[2], change.text),
                   tree |-> IF TreeSitterEdit(doc.text, change, r[1], r[2])
                                    = InputEdit(doc.text, r[1], r[2], change.text)
                            THEN doc.tree ELSE "misled",
                   failed |-> FALSE]

-----------------------------------------------------------------------------
(* didChange *)

Batch(changes) ==
    LET after[n \in 0..Len(changes)] ==
            IF n = 0 THEN [text |-> text, tree |-> tree, failed |-> FALSE]
            ELSE Change(after[n - 1], changes[n])
    IN  after[Len(changes)]

\* handle_document_change.  A batch that fails is recovered from the file, or
\* the text it left is parsed anew.
HandleDocumentChange(changes) ==
    LET doc == Batch(changes)
    IN  /\ text' \in IF doc.failed THEN Texts ELSE {doc.text}
        /\ tree' = IF doc.failed THEN "sound" ELSE doc.tree

RangeOf(s, from, to) ==
    [start |-> PositionOf(s, from, encoding), end |-> PositionOf(s, to, encoding)]

Edit(s, from, to, inserted) == [range |-> RangeOf(s, from, to), text |-> inserted]

Ranges(s) == {r \in (0..Len(s)) \X (0..Len(s)) : r[1] <= r[2]}

\* The editor replaces a stretch of its text.
EditorReplaces ==
    \E r \in Ranges(clientText), inserted \in Inserts :
        /\ clientText' = Replace(clientText, r[1], r[2], inserted)
        /\ clientText' \in Texts
        /\ HandleDocumentChange(<<Edit(clientText, r[1], r[2], inserted)>>)

\* It moves a stretch: two changes of one batch, the second about the text
\* the first one leaves.
EditorMoves ==
    \E r \in Ranges(clientText) :
        LET moved == Slice(clientText, r[1], r[2])
            rest  == Replace(clientText, r[1], r[2], <<>>)
        IN  /\ r[1] < r[2]
            /\ \E o \in 0..Len(rest) :
                 /\ clientText' = Replace(rest, o, o, moved)
                 /\ clientText' \in Texts
                 /\ HandleDocumentChange(<<Edit(clientText, r[1], r[2], <<>>),
                                           Edit(rest, o, o, moved)>>)

\* It sends the whole text.
EditorSendsAll ==
    \E s \in Inserts :
        /\ clientText' = s
        /\ HandleDocumentChange(<<[range |-> NoRange, text |-> s]>>)

DocInit ==
    /\ clientText \in Inserts
    /\ text = clientText
    /\ encoding \in Encodings
    /\ tree = "sound"

-----------------------------------------------------------------------------
(* Properties *)

\* The text is the editor's after every notification, single changes, batches
\* and whole texts in any order, in every encoding (documents.rs: "Convert the
\* LSP positions, using their arbitrary encoding, to what Ropey expects").
TextsAgree == text = clientText

\* The syntax tree was never told of an edit that did not happen: bytes and
\* points name the same places, before and after the change, in every batch
\* (documents.rs: "the tree cannot diverge from the text").
TreeSound == tree = "sound"
=============================================================================
