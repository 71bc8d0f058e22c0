----------------------------- MODULE TokenStream -----------------------------
(***************************************************************************)
(* Semantic tokens of a document the editor changes (src/lsp_requests/     *)
(* conversion.rs, 704-1045): the implementor's stream in UTF-8 columns, its *)
(* conversion to the client's encoding, the cached stream a delta is       *)
(* converted with, and the stream the client puts together from what it    *)
(* is sent.                                                                *)
(*                                                                         *)
(* A token is its line and start relative to the token before it, and its  *)
(* length; type and modifiers pass through and are left out.  The text     *)
(* rests while a reply is made and on its way: RequestDispatch has the     *)
(* changes in between.                                                     *)
(***************************************************************************)
EXTENDS TextEdits

CONSTANTS
    Highlights,  \* the kinds of characters the implementor may highlight
    MaxDeltas,   \* bound: deltas after a full reply
    NoStream     \* no token stream

\* The implementor's tokens are on one line each.
ASSUME TokenAssumption ==
    /\ \A kinds \in Highlights : kinds \subseteq {"plain", "accented", "astral"}
    /\ MaxDeltas \in Nat

VARIABLES
    served,  \* the stream the implementor's next delta starts from, in UTF-8
    cached,  \* CachedSemanticTokens.data, or NoStream
    held,    \* what the client holds, in its encoding, or NoStream
    named,   \* whether what the client holds has a result id
    deltas,  \* how many deltas led to it
    reply    \* the reply on its way to the client, or NoReply

tokenVars == <<served, cached, held, named, deltas, reply>>
vars == <<docVars, tokenVars>>

NoReply  == [kind |-> "none"]

Token == [line: Nat, start: Nat, length: Nat]

IsStream(s) == \A i \in 1..Len(s) : s[i] \in Token

TokenTypeOK ==
    /\ DocTypeOK
    /\ \A s \in {served, cached, held} : s = NoStream \/ IsStream(s)
    /\ named \in BOOLEAN
    /\ named => held # NoStream /\ (served = NoStream => reply # NoReply)
    /\ deltas \in 0..MaxDeltas
    /\ reply.kind \in {"none", "full", "delta"}

-----------------------------------------------------------------------------
(* The implementor *)

\* The tokens of a text: the longest stretches of one highlighted kind.
Spans(s, kinds) ==
    {r \in Ranges(s) :
        /\ r[1] < r[2]
        /\ \E k \in kinds :
             /\ \A i \in r[1] + 1 .. r[2] : s[i] = k
             /\ r[1] > 0 => s[r[1]] # k
             /\ r[2] < Len(s) => s[r[2] + 1] # k}

\* The i-th of them: so many start before it.
Span(s, kinds, i) ==
    CHOOSE r \in Spans(s, kinds) :
        Cardinality({q \in Spans(s, kinds) : q[1] < r[1]}) = i - 1

Origin == [line |-> 0, character |-> 0]

\* Where it starts; the first one is counted from the origin.
StartOf(s, kinds, i, enc) ==
    IF i = 0 THEN Origin ELSE PositionOf(s, Span(s, kinds, i)[1], enc)

Apart(p, q) == IF p.line = q.line THEN q.character - p.character ELSE q.character

\* Their stream in an encoding, by the protocol.
StreamOf(s, kinds, enc) ==
    LET Start(i) == StartOf(s, kinds, i, enc)
        span(i)  == Span(s, kinds, i)
    IN  [i \in 1..Cardinality(Spans(s, kinds)) |->
            [line   |-> Start(i).line - Start(i - 1).line,
             start  |-> Apart(Start(i - 1), Start(i)),
             length |-> Length(Slice(s, span(i)[1], span(i)[2]), enc)]]

\* Numbers per token in the flat array, without the two left out.
SEMANTIC_TOKEN_WIDTH == 3

Numbers(token) == <<token.line, token.start, token.length>>

Flat(stream) ==
    [k \in 1..SEMANTIC_TOKEN_WIDTH * Len(stream) |->
        Numbers(stream[(k - 1) \div SEMANTIC_TOKEN_WIDTH + 1])[((k - 1) % SEMANTIC_TOKEN_WIDTH) + 1]]

\* The edits that turn one stream into another, on whole tokens: one between
\* what the two share at the front and at the end, or two around a token they
\* share in between, in either order.
CommonFront(a, b) == Max({n \in 0..Min({Len(a), Len(b)}) : \A i \in 1..n : a[i] = b[i]})

CommonEnd(a, b) ==
    LET p == CommonFront(a, b)
    IN  Max({n \in 0..Min({Len(a), Len(b)}) - p :
                \A i \in 0..n - 1 : a[Len(a) - i] = b[Len(b) - i]})

TokenEdit(i, n, data) ==
    [start |-> SEMANTIC_TOKEN_WIDTH * i, delete_count |-> SEMANTIC_TOKEN_WIDTH * n, data |-> data]

Deltas(old, new) ==
    LET p == CommonFront(old, new)
        m == Len(old) - CommonEnd(old, new)
        n == Len(new) - CommonEnd(old, new)
    IN  IF old = new THEN {<<>>}
        ELSE {<<TokenEdit(p, m - p, Slice(new, p, n))>>}
             \cup UNION {LET first  == TokenEdit(p, t[1] - 1 - p, Slice(new, p, t[2] - 1))
                             second == TokenEdit(t[1], m - t[1], Slice(new, t[2], n))
                         IN  {<<first, second>>, <<second, first>>} :
                            t \in {u \in (p + 1..m) \X (p + 1..n) : old[u[1]] = new[u[2]]}}

-----------------------------------------------------------------------------
(* The conversion *)

\* saturating_sub
Less(a, b) == IF a > b THEN a - b ELSE 0

\* Where a token starts that comes after one at p.
After(p, token) ==
    [line |-> p.line + token.line,
     character |-> IF token.line = 0 THEN p.character + token.start ELSE token.start]

\* Where the tokens of a stream start that goes on from p.
Positions(p, stream) ==
    LET at[n \in 0..Len(stream)] == IF n = 0 THEN p ELSE After(at[n - 1], stream[n])
    IN  at

\* convert_seeded_token_stream: every token's position and end are put
\* together from the source anchor, converted, and taken apart again from the
\* target anchor.
ConvertSeededTokenStream(s, stream, source, target, previousSource, previousTarget) ==
    LET at        == Positions(previousSource, stream)
        Target(n) == IF n = 0 THEN previousTarget
                     ELSE PositionToEncoding(s, at[n], source, target)
        End(n)    == PositionToEncoding(s, [line |-> at[n].line,
                                            character |-> at[n].character + stream[n].length],
                                        source, target)
    IN  IF source = target THEN stream
        ELSE [n \in 1..Len(stream) |->
                [line |-> Less(Target(n).line, Target(n - 1).line),
                 start |-> IF Target(n).line = Target(n - 1).line
                           THEN Less(Target(n).character, Target(n - 1).character)
                           ELSE Target(n).character,
                 length |-> Less(End(n).character, Target(n).character)]]

\* Mutant: tokens on one line are not counted from one another.
ConvertFromOrigin(s, stream) ==
    FlattenSeq([i \in 1..Len(stream) |->
        ConvertSeededTokenStream(s, <<stream[i]>>, "utf-8", encoding, Origin, Origin)])

\* convert_semantic_tokens_data
ConvertData(s, stream) ==
    ConvertSeededTokenStream(s, stream, "utf-8", encoding, Origin, Origin)

\* absolute_position: where the last token of a stream starts.
AbsolutePosition(prefix) == Positions(Origin, prefix)[Len(prefix)]

\* Mutant: the anchor in the client's frame is the one in UTF-8.
ConvertEditFromSource(s, stream, edit) ==
    LET anchor == Min({edit.start \div SEMANTIC_TOKEN_WIDTH, Len(stream)})
        seed   == AbsolutePosition(Slice(stream, 0, anchor))
    IN  [edit EXCEPT !.data =
            ConvertSeededTokenStream(s, @, "utf-8", encoding, seed, seed)]

\* convert_semantic_tokens_edits, one edit: its tokens follow the token of the
\* cached stream the edit comes after.
ConvertEdit(s, stream, edit) ==
    LET anchor == Min({edit.start \div SEMANTIC_TOKEN_WIDTH, Len(stream)})
        seed   == AbsolutePosition(Slice(stream, 0, anchor))
    IN  [edit EXCEPT !.data =
            ConvertSeededTokenStream(s, @, "utf-8", encoding, seed,
                                     PositionToEncoding(s, seed, "utf-8", encoding))]

\* Without a cached stream nothing is converted.
ConvertEdits(s, edits) ==
    IF cached = NoStream THEN edits
    ELSE [i \in 1..Len(edits) |-> ConvertEdit(s, cached, edits[i])]

SpliceEdit(flat, edit) ==
    LET start == Min({edit.start, Len(flat)})
        end   == Min({start + edit.delete_count, Len(flat)})
    IN  Slice(flat, 0, start) \o Flat(edit.data) \o Slice(flat, end, Len(flat))

\* The tokens of a flat array; what is left over is dropped.
Chunks(flat) ==
    [i \in 1..Len(flat) \div SEMANTIC_TOKEN_WIDTH |->
        LET o == SEMANTIC_TOKEN_WIDTH * (i - 1)
        IN  [line |-> flat[o + 1], start |-> flat[o + 2], length |-> flat[o + 3]]]

\* The edits from the last one on; sort_by_key is stable.
BackToFront(edits) ==
    LET Before(i) == {j \in 1..Len(edits) : \/ edits[j].start < edits[i].start
                                            \/ edits[j].start = edits[i].start /\ j < i}
    IN  [n \in 1..Len(edits) |->
            edits[CHOOSE i \in 1..Len(edits) : Cardinality(Before(i)) = Len(edits) - n]]

\* splice_semantic_tokens_cache: all edits are about the stream as it was, so
\* they are applied from the back.  A client does the same.
Splice(stream, edits) ==
    LET after[n \in 0..Len(edits)] ==
            IF n = 0 THEN Flat(stream) ELSE SpliceEdit(after[n - 1], BackToFront(edits)[n])
    IN  Chunks(after[Len(edits)])

-----------------------------------------------------------------------------
(* Requests and notifications *)

\* modify_outgoing_semantic_tokens_result, and a delta request answered in
\* full: the stream is cached as it came, under its result id if it has one.
\* A server that has named a stream goes on naming them; of one without a
\* name the client cannot ask a delta, and the implementor may forget it.
SemanticTokensFull ==
    /\ reply = NoReply
    /\ \E kinds \in Highlights, id \in {TRUE, cached # NoStream} :
         LET stream == StreamOf(text, kinds, "utf-8")
         IN  /\ cached' = IF id THEN stream ELSE cached
             /\ served' = IF id THEN stream ELSE NoStream
             /\ reply' = [kind |-> "full", kinds |-> kinds, named |-> id,
                          data |-> ConvertData(text, stream)]
    /\ UNCHANGED <<docVars, held, named, deltas>>

\* Mutant: the cached stream is spliced with what the client is sent.
SplicedAfterConversion(original, converted) ==
    IF cached = NoStream THEN cached ELSE Splice(cached, converted)

\* With or without a result id of its own, the delta goes on from the cached
\* stream.
SplicedCache(original, converted) ==
    IF cached = NoStream THEN cached ELSE Splice(cached, original)

\* modify_outgoing_semantic_tokens_delta_result, for a client that holds a
\* stream with a result id.
SemanticTokensFullDelta ==
    /\ reply = NoReply
    /\ named
    /\ deltas < MaxDeltas
    /\ \E kinds \in Highlights :
         LET stream == StreamOf(text, kinds, "utf-8")
         IN  \E edits \in Deltas(served, stream) :
               LET converted == ConvertEdits(text, edits)
               IN  /\ cached' = SplicedCache(edits, converted)
                   /\ served' = stream
                   /\ reply' = [kind |-> "delta", kinds |-> kinds, edits |-> edits,
                                converted |-> converted, from |-> cached]
    /\ UNCHANGED <<docVars, held, named, deltas>>

\* What the client makes of a reply.
Received == IF reply.kind = "full" THEN reply.data ELSE Splice(held, reply.converted)

ClientReceives ==
    /\ reply # NoReply
    /\ held' = Received
    /\ named' = IF reply.kind = "full" THEN reply.named ELSE named
    /\ deltas' = IF reply.kind = "full" THEN 0 ELSE deltas + 1
    /\ reply' = NoReply
    /\ UNCHANGED <<docVars, served, cached>>

\* Once the text has changed the client keeps the stream it can ask a delta
\* for, and the implementor the same.  The bound ends the changes.
KeepStreams ==
    /\ reply = NoReply
    /\ deltas < MaxDeltas
    /\ held' = IF named THEN held ELSE NoStream
    /\ UNCHANGED <<served, named, deltas, reply>>

\* didSave gives the text anew, parses it and drops the cached stream.
HandleDocumentSave ==
    /\ text' = clientText
    /\ tree' = "sound"
    /\ cached' = NoStream
    /\ UNCHANGED <<clientText, encoding>>
    /\ KeepStreams

\* didChange leaves the streams alone.
DocumentChanges ==
    /\ KeepStreams
    /\ EditorReplaces \/ EditorMoves \/ EditorSendsAll
    /\ UNCHANGED <<encoding, cached>>

TokenInit ==
    /\ DocInit
    /\ served = NoStream
    /\ cached = NoStream
    /\ held = NoStream
    /\ named = FALSE
    /\ deltas = 0
    /\ reply = NoReply

TokenNext ==
    \/ DocumentChanges
    \/ HandleDocumentSave
    \/ SemanticTokensFull
    \/ SemanticTokensFullDelta
    \/ ClientReceives

TokenSpec == TokenInit /\ [][TokenNext]_vars

-----------------------------------------------------------------------------
(* Properties *)

\* The cached stream is the one the implementor's next delta starts from,
\* whatever the edits of the deltas before (conversion.rs: "keeping it equal
\* to what the server's next delta is computed against").
CacheIsServed == served # NoStream => cached \in {NoStream, served}

\* The tokens of the present reply in the client's encoding.
Wanted == StreamOf(text, reply.kinds, encoding)

\* Where in the stream a delta leads to its edit's tokens come to stand, and
\* whether the token before them has moved since the last reply.
Shift(edit) ==
    LET Grows(e) == Len(e.data) - e.delete_count \div SEMANTIC_TOKEN_WIDTH
        moved[n \in 0..Len(reply.edits)] ==
            IF n = 0 THEN 0
            ELSE IF reply.edits[n].start < edit.start THEN moved[n - 1] + Grows(reply.edits[n])
            ELSE moved[n - 1]
    IN  moved[Len(reply.edits)]

NewPlace(edit) == edit.start \div SEMANTIC_TOKEN_WIDTH + Shift(edit)

AnchorStays(edit) ==
    AbsolutePosition(Slice(reply.from, 0, edit.start \div SEMANTIC_TOKEN_WIDTH))
        = AbsolutePosition(Slice(served, 0, NewPlace(edit)))

\* What a delta inserts is what a full reply would have in its place: the
\* seeds are right in both frames.  That takes a cached stream, and an anchor
\* no earlier edit of the delta has moved (conversion.rs: "conversion seeds
\* its walk from there, in both the UTF-8 frame and the client-encoding
\* frame").
InsertsAsInFull ==
    reply.kind = "delta" /\ reply.from # NoStream =>
        \A i \in 1..Len(reply.edits) :
            LET edit == reply.edits[i]
                at   == NewPlace(edit)
            IN  AnchorStays(edit) =>
                    reply.converted[i].data = Slice(Wanted, at, at + Len(edit.data))

\* The tokens a delta keeps have the columns in the client's encoding that
\* they had: the code converts only what is inserted.
KeepsColumns ==
    LET at(i) == IF \E e \in ToSet(reply.edits) :
                        /\ e.start <= SEMANTIC_TOKEN_WIDTH * (i - 1)
                        /\ SEMANTIC_TOKEN_WIDTH * (i - 1) < e.start + e.delete_count
                 THEN 0
                 ELSE i + Shift([start |-> SEMANTIC_TOKEN_WIDTH * (i - 1) + 1])
    IN  \A i \in 1..Len(held) : at(i) # 0 => held[i] = Wanted[at(i)]

\* A client that follows the replies shows the tokens where they are: after
\* every full reply, and after a delta of one edit whose kept tokens keep
\* their columns (server_trait.rs: "edits transforming the previous token
\* stream into the current one").
StreamFollows ==
    /\ reply.kind = "full" => Received = Wanted
    /\ reply.kind = "delta" /\ reply.from # NoStream /\ Len(reply.edits) <= 1 /\ KeepsColumns
           => Received = Wanted
=============================================================================
