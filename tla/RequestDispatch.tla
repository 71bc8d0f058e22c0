--------------------------- MODULE RequestDispatch ---------------------------
(***************************************************************************)
(* The dispatch core of a request that names a document                    *)
(* (macros/src/dispatch.rs, url_anchored_core) beside the store: the       *)
(* version probe before the handler, the staleness probe after it, and the *)
(* semantic-tokens cache that full and delta responses feed                *)
(* (src/lsp_requests/conversion.rs).                                       *)
(*                                                                         *)
(* The handler is the implementor's; all it does here is to look at the    *)
(* document once, at any moment, and to answer from the text it saw.  A    *)
(* token stream is the text it was computed from; a delta leads from the   *)
(* stream the client held when it asked to the stream of the new text.     *)
(***************************************************************************)
EXTENDS DocumentStore

CONSTANT Requests  \* the requests that may be in flight together

VARIABLES
    request,       \* request[r]: where request r stands
    fallback,      \* fallback[u]: the disk snapshot for an untracked URL
    held           \* held[u]: the token stream the client last received

dispatchVars == <<request, fallback, held>>
vars == <<storeVars, dispatchVars>>

NoText == 0
Kinds  == {"full", "delta", "other"}

Request == [pc: {"idle", "prime", "read", "insert", "primed", "handle", "reply"},
            kind: Kinds,
            url: Urls,
            tracked: BOOLEAN, version: Nat,  \* the version probe
            file: File,                      \* what the prime has of the file
            snapshot: Tick,                  \* text of the conversion document
            answer: Tick,                    \* text the handler saw
            base: Tick]                      \* stream a delta starts from

DispatchTypeOK ==
    /\ TypeOK
    /\ request \in [Requests -> Request]
    /\ fallback \in [Urls -> File]
    /\ held \in [Urls -> Tick]

-----------------------------------------------------------------------------
(* Up to the handler *)

\* The conversion document: the tracked snapshot, else the primed fallback.
ConversionText(u) == IF Tracked(u) THEN documents[u].text ELSE fallback[u].text

\* Version probe and conversion document, in one step of the main loop.
Probed(rec) ==
    [rec EXCEPT !.pc = "handle",
                !.tracked = Tracked(rec.url),
                !.version = documents[rec.url].version,
                !.snapshot = ConversionText(rec.url)]

Idle_(rec) == [rec EXCEPT !.pc = "idle", !.kind = "other", !.tracked = FALSE, !.version = 0,
                          !.snapshot = NoText, !.answer = NoText, !.base = NoStream]

\* A delta is asked for by a client that holds a stream.  An untracked URL
\* has its fallback primed first.
Arrives(r, u, kind) ==
    /\ MainLoopFree
    /\ request[r].pc = "idle"
    /\ kind = "delta" => held[u] # NoStream
    /\ LET fresh == [request[r] EXCEPT !.pc = "prime", !.kind = kind, !.url = u,
                                       !.base = IF kind = "delta" THEN held[u] ELSE NoStream]
       IN request' = [request EXCEPT ![r] = IF Tracked(u) THEN Probed(fresh) ELSE fresh]
    /\ UNCHANGED <<storeVars, fallback, held>>

\* prime_conversion_fallback, on the pool: the stamp is probed, and an entry
\* that has it stays ...
PrimeProbes(r) ==
    /\ request[r].pc = "prime"
    /\ LET u == request[r].url
       IN request' = [request EXCEPT ![r] =
              IF fallback[u] # NoFile /\ fallback[u].stamp = disk[u].stamp
              THEN [@ EXCEPT !.pc = "primed"]
              ELSE [@ EXCEPT !.pc = "read", !.file.stamp = disk[u].stamp]]
    /\ UNCHANGED <<storeVars, fallback, held>>

\* ... or the file is read, and one that cannot be leaves the cache alone ...
PrimeReads(r) ==
    /\ request[r].pc = "read"
    /\ LET u == request[r].url
       IN request' = [request EXCEPT ![r] =
              IF Exists(u) THEN [@ EXCEPT !.pc = "insert", !.file.text = disk[u].text]
              ELSE [@ EXCEPT !.pc = "primed", !.file = NoFile]]
    /\ UNCHANGED <<storeVars, fallback, held>>

\* ... and its text goes in under the stamp it was probed with.  The bound of
\* the cache is ConversionFallback's.
PrimeInserts(r) ==
    /\ request[r].pc = "insert"
    /\ fallback' = [fallback EXCEPT ![request[r].url] = request[r].file]
    /\ request' = [request EXCEPT ![r] = [@ EXCEPT !.pc = "primed", !.file = NoFile]]
    /\ UNCHANGED <<storeVars, held>>

Prime(r) == PrimeProbes(r) \/ PrimeReads(r) \/ PrimeInserts(r)

Primed(r) ==
    /\ MainLoopFree
    /\ request[r].pc = "primed"
    /\ request' = [request EXCEPT ![r] = Probed(request[r])]
    /\ UNCHANGED <<storeVars, fallback, held>>

\* The handler looks at the document and answers, or fails; an untracked
\* document gives it nothing to answer from.
HandlerAnswers(r) ==
    /\ request[r].pc = "handle"
    /\ request' = [request EXCEPT ![r].pc = "reply",
                                  ![r].answer = documents[request[r].url].text]
    /\ UNCHANGED <<storeVars, fallback, held>>

HandlerFails(r) ==
    /\ request[r].pc = "handle"
    /\ request' = [request EXCEPT ![r] = Idle_(@)]
    /\ UNCHANGED <<storeVars, fallback, held>>

-----------------------------------------------------------------------------
(* After the handler *)

\* Mutant: a document opened since is no reason to refuse.
StaleWhenBothTracked(r) ==
    LET u == request[r].url
    IN  Tracked(u) /\ request[r].tracked /\ documents[u].version # request[r].version

\* The staleness probe: only a document that is tracked now can be stale.
Stale(r) ==
    LET u == request[r].url
    IN  Tracked(u) /\ ~(request[r].tracked /\ documents[u].version = request[r].version)

ContentModified(r) ==
    /\ MainLoopFree
    /\ request[r].pc = "reply"
    /\ Stale(r)
    /\ request' = [request EXCEPT ![r] = Idle_(@)]
    /\ UNCHANGED <<storeVars, fallback, held>>

\* The response's tokens are converted, and cached, against the conversion
\* document; without one, and without an answer, nothing is.  A request for
\* a delta may be answered with a full stream.
Caches(r) == request[r].snapshot # NoText /\ request[r].answer # NoText

\* Mutant: the edits are not spliced into the cached stream.
SplicedNever(cached, base, answer) == cached

\* splice_semantic_tokens_cache: the edits of a delta turn the stream they
\* were made for into the new one, any other into one nobody knows.
Spliced(cached, base, answer) == IF cached = base THEN answer ELSE Mangled

Reply(r) ==
    /\ MainLoopFree
    /\ request[r].pc = "reply"
    /\ ~Stale(r)
    /\ LET u == request[r].url
           answer == request[r].answer
       IN \/ /\ request[r].kind \in {"full", "delta"}
             /\ semanticCache' = IF Caches(r) THEN [semanticCache EXCEPT ![u] = answer]
                                 ELSE semanticCache
             /\ held' = IF answer # NoText THEN [held EXCEPT ![u] = answer] ELSE held
          \/ /\ request[r].kind = "delta"
             /\ semanticCache' =
                    IF Caches(r) /\ semanticCache[u] # NoStream
                    THEN [semanticCache EXCEPT ![u] = Spliced(@, request[r].base, answer)]
                    ELSE semanticCache
             /\ held' = IF answer # NoText THEN [held EXCEPT ![u] = answer] ELSE held
          \/ /\ request[r].kind = "other"
             /\ UNCHANGED <<semanticCache, held>>
    /\ request' = [request EXCEPT ![r] = Idle_(@)]
    /\ UNCHANGED <<environment, documents, roots, enabled, watching, asked, walkCache, mainLoop,
                   fallback>>

-----------------------------------------------------------------------------
DispatchInit ==
    /\ StoreInit
    /\ request \in [Requests -> {Idle_([pc |-> "idle", kind |-> "other", url |-> u,
           tracked |-> FALSE, version |-> 0, file |-> NoFile, snapshot |-> 0, answer |-> 0,
           base |-> 0]) : u \in Urls}]
    /\ fallback = [u \in Urls |-> NoFile]
    /\ held = [u \in Urls |-> NoStream]

RequestStep(r) ==
    \/ \E u \in Urls, kind \in Kinds : Arrives(r, u, kind)
    \/ Prime(r) \/ Primed(r)
    \/ HandlerAnswers(r) \/ HandlerFails(r)
    \/ ContentModified(r) \/ Reply(r)

DispatchNext ==
    \/ StoreNext /\ UNCHANGED dispatchVars
    \/ \E r \in Requests : RequestStep(r)

DispatchSpec == DispatchInit /\ [][DispatchNext]_vars

-----------------------------------------------------------------------------
(* Properties *)

Replies(r) == request[r].pc = "reply" /\ request'[r].pc = "idle" /\ ~Stale(r)

\* A reply about a tracked document was computed from, and converted
\* against, the text the document still has ("rejects stale results with
\* CONTENT_MODIFIED"; server/tests/staleness.rs: "a document mutated while
\* its request is in flight answers CONTENT_MODIFIED").
AnswersAreFresh ==
    [][\A r \in Requests : LET u == request[r].url IN
          (Replies(r) /\ Tracked(u)) =>
              /\ request[r].answer = documents[u].text
              /\ request[r].snapshot = documents[u].text]_vars

\* A cached stream is the one the client's previous_result_id refers to
\* (mod.rs, cached_semantic_tokens), so a delta seeds and splices from the
\* stream it was made for.
CacheIsClients ==
    \A u \in Urls : semanticCache[u] # NoStream => semanticCache[u] = held[u]
=============================================================================
