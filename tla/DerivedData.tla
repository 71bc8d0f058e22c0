------------------------------ MODULE DerivedData ------------------------------
(***************************************************************************)
(* What callers on several threads get out of the snapshots of a document  *)
(* (src/documents/document.rs): derived values, memoized per generation    *)
(* and type under a lock; queries, compiled once per matcher               *)
(* (src/documents/matcher.rs); and readers over the chunks of the rope.    *)
(* The main loop installs generations and hands out snapshots; what a      *)
(* caller does with its own runs beside it, one lock section or one pure   *)
(* stretch per step.  DerivedValues is what all this amounts to.           *)
(***************************************************************************)
EXTENDS Naturals, FiniteSets, SequencesExt

CONSTANTS
    Callers,        \* threads that ask
    Contents,       \* what a generation may be: text as a sequence of chunks,
                    \* matcher, and whether it has a tree
    Grammars,       \* the DocumentMatchers with a grammar
    Types,          \* types of derived values
    Needs,          \* [Types -> SUBSET Types]: the types a value is derived from
    Sources,        \* query strings
    Compiles,       \* pairs of a matcher and a source that compiles
    Buffers,        \* sizes of the buffers given to read
    MayPanic,       \* may compute panic?
    MaxGenerations, \* bound on the generations
    NoOne           \* no holder, no matcher, no call

ASSUME DerivedAssumption ==
    /\ Compiles \subseteq Grammars \X Sources
    /\ Contents \subseteq [text : Seq(Seq(0..255)), matcher : Grammars \cup {NoOne}, parsed : BOOLEAN]
    /\ \A d \in Contents : /\ d.parsed => d.matcher \in Grammars
                           /\ \A i \in DOMAIN d.text : d.text[i] # << >>
    /\ Needs \in [Types -> SUBSET Types]
    /\ Buffers \subseteq Nat /\ \E n \in Buffers : n > 0
    /\ MayPanic \in BOOLEAN /\ MaxGenerations \in Nat

VARIABLES
    generations, \* DocumentInner of each generation, the last in the store
    memo,        \* DocumentInner.derived of each generation
    lock,        \* who holds its mutex
    compiled,    \* DocumentMatcher.compiled_queries of each matcher
    calls        \* what each caller holds and where it is

derivedVars == <<generations, memo, lock, compiled, calls>>

Questions == [ask : {"derive"}, type : Types] \cup [ask : {"query"}, source : Sources]
             \cup {[ask |-> "read"]}

Panicked == [error |-> "panicked"]
Failed(error) == [error |-> error]

\* The answers the documentation promises: a value derived from the text of
\* the snapshot and no other, the captures of its own query in its own text,
\* the bytes of the text in their order.
AnswersOf(question, content) ==
    CASE question.ask = "derive" -> {[from |-> {content.text}]} \cup (IF MayPanic THEN {Panicked} ELSE {})
      [] question.ask = "read" -> {[bytes |-> FlattenSeq(content.text)]}
      [] question.ask = "query" ->
            {IF ~content.parsed THEN Failed("NoTree")
             ELSE IF <<content.matcher, question.source>> \notin Compiles THEN Failed("InvalidQuery")
             ELSE [query |-> <<content.matcher, question.source>>, text |-> content.text]}

\* NoOne is neither a question nor an answer.
ASSUME NoOneIsNothing ==
    \A question \in Questions, d \in Contents :
        /\ NoOne # [content |-> d, question |-> question]
        /\ NoOne \notin AnswersOf(question, d)

-----------------------------------------------------------------------------
(* The main loop: generations *)

Latest == Len(generations)

NoMemo == [t \in {} |-> {}]

\* Mutant: the memo hangs on the shared meta.
MemoOfMeta(shared) == IF shared THEN Last(memo) ELSE NoMemo

\* Document::from_shared_meta: derived starts empty, whatever is shared.
FreshMemo(shared) == NoMemo

Installs(content, shared) ==
    /\ Latest < MaxGenerations
    /\ generations' = Append(generations, content)
    /\ memo' = Append(memo, FreshMemo(shared))
    /\ lock' = Append(lock, NoOne)
    /\ UNCHANGED <<compiled, calls>>

\* didOpen, a disk re-read, a watched file: matcher and tree from scratch.
InstallsFromParts == \E content \in Contents : Installs(content, FALSE)

\* didChange, didSave: the meta and with it the matcher stay; text and tree
\* are written together, and a parse may fail.
InstallsFromSharedMeta ==
    \E content \in Contents :
        /\ content.matcher = Last(generations).matcher
        /\ Installs(content, TRUE)

-----------------------------------------------------------------------------
(* The callers *)

Idle == [at |-> "idle"]

Frame(type) == [type |-> type, missed |-> FALSE, needs |-> Needs[type], from |-> {}]

\* A handler takes its snapshot on the main loop and asks.  Each call carries
\* the frames of its nested derived calls, or the cursor of its reader.
Asked(c) ==
    /\ calls[c] = Idle
    /\ \E question \in Questions :
          calls' = [calls EXCEPT ![c] =
              [at |-> question.ask, question |-> question, document |-> Latest,
               frames |-> IF question.ask = "derive" THEN <<Frame(question.type)>> ELSE << >>,
               chunks |-> generations[Latest].text, current |-> << >>, offset |-> 0,
               bytes |-> << >>, result |-> NoOne]]
    /\ UNCHANGED <<generations, memo, lock, compiled>>

With(c, at, result) == [calls EXCEPT ![c] = [@ EXCEPT !.at = at, !.result = result]]

Returned(c) ==
    /\ calls[c].at = "returned"
    /\ calls' = [calls EXCEPT ![c] = Idle]
    /\ UNCHANGED <<generations, memo, lock, compiled>>

-----------------------------------------------------------------------------
(* Document::derived *)

Deriving(c) == calls[c].at = "derive"

Held(c)  == calls[c].document
Frames(c) == calls[c].frames

\* The innermost call returns a value: to compute of the call around it,
\* or to the caller.
Delivered(c, value) ==
    IF Len(Frames(c)) = 1
    THEN With(c, "returned", [from |-> value])
    ELSE [calls EXCEPT ![c].frames =
            LET outer == Front(Frames(c))
            IN  [outer EXCEPT ![Len(outer)].from = @ \cup value]]

Found(c) ==
    /\ Deriving(c) /\ ~Last(Frames(c)).missed
    /\ lock[Held(c)] = NoOne
    /\ Last(Frames(c)).type \in DOMAIN memo[Held(c)]
    /\ calls' = Delivered(c, memo[Held(c)][Last(Frames(c)).type])
    /\ UNCHANGED <<generations, memo, lock, compiled>>

\* Mutant: the guard of the lookup lives on while compute runs.
GuardKept(c) == c

\* The guard is a temporary of the lookup and dropped with it.
GuardAfterLookup(c) == NoOne

\* A miss: compute starts and reads the text of the document it is given.
Missed(c) ==
    /\ Deriving(c) /\ ~Last(Frames(c)).missed
    /\ lock[Held(c)] = NoOne
    /\ Last(Frames(c)).type \notin DOMAIN memo[Held(c)]
    /\ lock' = [lock EXCEPT ![Held(c)] = GuardAfterLookup(c)]
    /\ calls' = [calls EXCEPT ![c].frames[Len(Frames(c))] =
                    [@ EXCEPT !.missed = TRUE, !.from = {generations[Held(c)].text}]]
    /\ UNCHANGED <<generations, memo, compiled>>

\* compute asks the same document for a value of another type.
Nests(c) ==
    /\ Deriving(c) /\ Last(Frames(c)).missed
    /\ \E type \in Last(Frames(c)).needs :
          calls' = [calls EXCEPT ![c].frames =
              Append([Frames(c) EXCEPT ![Len(Frames(c))].needs = @ \ {type}], Frame(type))]
    /\ UNCHANGED <<generations, memo, lock, compiled>>

\* The value goes into the memo, over that of a racing caller.
Memoizes(c) ==
    /\ Deriving(c) /\ Last(Frames(c)).missed /\ Last(Frames(c)).needs = {}
    /\ lock[Held(c)] \in {NoOne, c}
    /\ memo' = [memo EXCEPT ![Held(c)] =
                   [t \in DOMAIN @ \cup {Last(Frames(c)).type} |->
                       IF t = Last(Frames(c)).type THEN Last(Frames(c)).from ELSE @[t]]]
    /\ lock' = [lock EXCEPT ![Held(c)] = NoOne]
    /\ calls' = Delivered(c, Last(Frames(c)).from)
    /\ UNCHANGED <<generations, compiled>>

\* compute unwinds, through the calls around it; no guard is poisoned.
Panics(c) ==
    /\ MayPanic
    /\ Deriving(c) /\ Last(Frames(c)).missed
    /\ calls' = With(c, "returned", Panicked)
    /\ UNCHANGED <<generations, memo, lock, compiled>>

-----------------------------------------------------------------------------
(* Document::query and DocumentMatcher::compiled_query *)

Querying(c) == calls[c].at = "query"

Snapshot(c) == generations[Held(c)]
Wanted(c)   == <<Snapshot(c).matcher, calls[c].question.source>>

Captures(c, query) == [query |-> query, text |-> Snapshot(c).text]

FindsNoTree(c) ==
    /\ Querying(c) /\ ~Snapshot(c).parsed
    /\ calls' = With(c, "returned", Failed("NoTree"))
    /\ UNCHANGED <<generations, memo, lock, compiled>>

RunsCached(c) ==
    /\ Querying(c) /\ Snapshot(c).parsed
    /\ Wanted(c) \in compiled
    /\ calls' = With(c, "returned", Captures(c, Wanted(c)))
    /\ UNCHANGED <<generations, memo, lock, compiled>>

CompileFails(c) ==
    /\ Querying(c) /\ Snapshot(c).parsed
    /\ Wanted(c) \notin compiled \cup Compiles
    /\ calls' = With(c, "returned", Failed("InvalidQuery"))
    /\ UNCHANGED <<generations, memo, lock, compiled>>

\* Outside the map's guard ...
CompilesQuery(c) ==
    /\ Querying(c) /\ Snapshot(c).parsed
    /\ Wanted(c) \in Compiles \ compiled
    /\ calls' = [calls EXCEPT ![c].at = "compiled"]
    /\ UNCHANGED <<generations, memo, lock, compiled>>

\* ... and in again: entry().or_insert keeps a racing caller's.
InsertsQuery(c) ==
    /\ calls[c].at = "compiled"
    /\ compiled' = compiled \cup {Wanted(c)}
    /\ calls' = With(c, "returned", Captures(c, Wanted(c)))
    /\ UNCHANGED <<generations, memo, lock>>

-----------------------------------------------------------------------------
(* DocumentReader::read *)

\* One turn of the loop: what is left of the chunk, or as much as fits.
Copied(reader, room) ==
    LET chunk  == IF reader.current = << >> THEN Head(reader.chunks) ELSE reader.current
        rest   == IF reader.current = << >> THEN Tail(reader.chunks) ELSE reader.chunks
        offset == IF reader.current = << >> THEN 0 ELSE reader.offset
        length == IF Len(chunk) - offset < room THEN Len(chunk) - offset ELSE room
        done   == offset + length = Len(chunk)
    IN  [reader EXCEPT
            !.chunks = rest,
            !.current = IF done THEN << >> ELSE chunk,
            !.offset = IF done THEN 0 ELSE offset + length,
            !.bytes = @ \o SubSeq(chunk, offset + 1, offset + length)]

\* The loop: until the buffer is full or the chunks are at their end.
Filled(reader, size) ==
    LET turns == Len(reader.chunks) + 1
        after[n \in 0..turns] ==
            IF n = 0 THEN reader
            ELSE LET r    == after[n - 1]
                     room == size - (Len(r.bytes) - Len(reader.bytes))
                 IN  IF room = 0 \/ (r.current = << >> /\ r.chunks = << >>) THEN r ELSE Copied(r, room)
    IN  after[turns]

\* A caller of read_to_end takes a read of nothing for the end.
Reads(c, size) ==
    /\ calls[c].at = "read"
    /\ LET reader == Filled(calls[c], size)
       IN  calls' = [calls EXCEPT ![c] =
              IF size > 0 /\ reader.bytes = @.bytes
              THEN [reader EXCEPT !.at = "returned", !.result = [bytes |-> reader.bytes]] ELSE reader]
    /\ UNCHANGED <<generations, memo, lock, compiled>>

-----------------------------------------------------------------------------
DerivedInit ==
    /\ generations \in {<<content>> : content \in Contents}
    /\ memo = <<NoMemo>> /\ lock = <<NoOne>>
    /\ compiled = {}
    /\ calls = [c \in Callers |-> Idle]

Steps(c) ==
    \/ Found(c) \/ Missed(c) \/ Nests(c) \/ Memoizes(c) \/ Panics(c)
    \/ FindsNoTree(c) \/ RunsCached(c) \/ CompileFails(c) \/ CompilesQuery(c) \/ InsertsQuery(c)
    \/ \E size \in Buffers \ {0} : Reads(c, size)

DerivedNext ==
    \/ InstallsFromParts \/ InstallsFromSharedMeta
    \/ \E c \in Callers : Asked(c) \/ Steps(c) \/ Returned(c)
    \/ \E c \in Callers, size \in Buffers \cap {0} : Reads(c, size)

DerivedSpec == DerivedInit /\ [][DerivedNext]_derivedVars

\* Every thread runs; a reader that is offered no room is not owed an end.
FairDerived == DerivedSpec /\ \A c \in Callers : WF_derivedVars(Steps(c))

-----------------------------------------------------------------------------
(* Properties *)

Values == INSTANCE DerivedValues WITH
    NoCall <- NoOne,
    Answers <- AnswersOf,
    content <- Last(generations),
    asked <- [c \in Callers |-> IF calls[c] = Idle THEN NoOne
                                ELSE [content |-> Snapshot(c), question |-> calls[c].question]],
    answer <- [c \in Callers |-> IF calls[c].at = "returned" THEN calls[c].result ELSE NoOne]

\* A question is answered from the snapshot it is about: no value of another
\* generation, no query of another matcher, no byte of another text, whoever
\* asks beside it and whatever is installed meanwhile (Document::derived "any
\* write ... starts a fresh generation and fresh derived data").
AnswersAreTheSnapshots == Values!ValuesSpec

\* Every call returns: a compute that asks for another type does not wait for
\* itself ("the lock is released before it runs").
CallsReturn == \A c \in Callers : calls[c] # Idle ~> calls[c].at = "returned"
=============================================================================
