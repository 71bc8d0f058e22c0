------------------------------- MODULE Requests -------------------------------
(***************************************************************************)
(* A request on its way through the dispatch engines                       *)
(* (macros/src/dispatch.rs): which documents its params and its response   *)
(* are converted against, while the store, the disk and the other primes   *)
(* of the conversion fallback move.                                        *)
(*                                                                         *)
(* The engines treat every row of the same shape alike: does the request   *)
(* name a document, is it a resolve(...), does its conversion read the     *)
(* disk.  A request in flight is of a shape, and the properties speak of   *)
(* every method of it.  A document is tracked with a text, which is the    *)
(* tick of what installed it and stands for its version too: versions do   *)
(* not repeat here (RequestDispatch has the ones that do).  All positions  *)
(* of a message that name a document by URI name the same one, `other`.    *)
(* The client's encoding is not UTF-8: with UTF-8 every hook does nothing. *)
(* A hook that does not read the disk runs in one step of the main loop.   *)
(***************************************************************************)
EXTENDS ConversionFallback, RequestTable

CONSTANT Requests \* the requests followed; the other primes only prime

ASSUME RequestsAssumption == Requests \subseteq Primes

VARIABLES
    documents,    \* documents[u]: the text of the tracked document, or Missing
    request       \* request[r]: where request r stands

requestVars == <<vars, documents, request>>

Tracked(u) == documents[u] # Missing
TrackedUrls == {u \in Urls : Tracked(u)}

NothingSeen == [u \in Urls |-> Missing]
NoDocument  == [text |-> Missing]
Snapshot(u, text) == [url |-> u, text |-> text]

Shape(m) == [document |-> Row[m].document, resolve |-> Row[m].resolve,
             pool |-> Row[m].standalone_reads_disk]
Shapes == {Shape(m) : m \in Methods}

\* A request at rest.
AtRest(r) == request[r].pc = "idle"
Rest == [pc |-> "idle"]

-----------------------------------------------------------------------------
(* The document of the request *)

\* sole_document
Sole == IF \E u \in Urls : TrackedUrls = {u}
        THEN LET u == CHOOSE u \in Urls : TrackedUrls = {u} IN Snapshot(u, documents[u])
        ELSE NoDocument

\* Mutant: a file that was primed is preferred to the tracked document.
FallbackFirst(u) ==
    IF u \in cache THEN Snapshot(u, snapshot[u].text)
    ELSE IF Tracked(u) THEN Snapshot(u, documents[u]) ELSE NoDocument

\* conversion_document with a URL: the tracked snapshot, else what is primed.
ForUrl(u) ==
    IF Tracked(u) THEN Snapshot(u, documents[u])
    ELSE IF u \in cache THEN Snapshot(u, snapshot[u].text) ELSE NoDocument

ConversionDocument(rec) == IF rec.shape.document THEN ForUrl(rec.url) ELSE Sole

\* The version probe and the conversion document, taken together; the params
\* are converted at once, unless the conversion hops to the pool.
Probed(rec) ==
    LET hop == rec.shape.pool /\ (rec.shape.resolve \/ Sole # NoDocument)
    IN  [rec EXCEPT !.pc = IF hop THEN "params" ELSE "handle",
                    !.version = IF rec.shape.document THEN documents[rec.url] ELSE Missing,
                    !.doc = ConversionDocument(rec)]

-----------------------------------------------------------------------------
(* The engines *)

\* An untracked URL is primed first; the prime is ConversionFallback's.
Arrives(r, shape, u, other) ==
    /\ AtRest(r)
    /\ prime[r].pc = "idle"
    /\ shape.document \/ u = other
    /\ LET fresh == [pc |-> "prime", shape |-> shape, url |-> u, other |-> other,
                     version |-> Missing, doc |-> NoDocument, seen |-> NothingSeen]
           primes == shape.document /\ ~Tracked(u)
       IN  request' = [request EXCEPT ![r] = IF primes THEN fresh ELSE Probed(fresh)]
    /\ UNCHANGED <<vars, documents>>

\* The steps of a prime on the pool; a request's is for its URL.
PrimeStep(p) ==
    /\ \/ \E u \in Urls : /\ IF p \in Requests
                             THEN request[p].pc = "prime" /\ request[p].url = u
                             ELSE ~Tracked(u)
                          /\ ProbeStamp(p, u)
       \/ SkipFresh(p) \/ ReadText(p) \/ ClearAtBound(p) \/ InsertSnapshot(p)
    /\ UNCHANGED <<documents, request>>

\* The prime is over: the request goes on, if it was not cancelled.
Primed(p) ==
    /\ Converts(p)
    /\ request' = IF p \in Requests /\ ~AtRest(p)
                  THEN [request EXCEPT ![p] = Probed(@)] ELSE request
    /\ UNCHANGED documents

\* blocking_arm before the handler.
PoolConvertsParams(r) ==
    /\ request[r].pc = "params"
    /\ request' = [request EXCEPT ![r].pc = "handle"]
    /\ UNCHANGED <<vars, documents>>

\* The handler looks at the store some time and answers, or fails.
HandlerAnswers(r) ==
    /\ request[r].pc = "handle"
    /\ request' = [request EXCEPT
           ![r].pc = "answered",
           ![r].seen = IF request[r].shape.document THEN documents ELSE NothingSeen]
    /\ UNCHANGED <<vars, documents>>

HandlerFails(r) ==
    /\ request[r].pc = "handle"
    /\ request' = [request EXCEPT ![r] = Rest]
    /\ UNCHANGED <<vars, documents>>

\* The staleness probe of the URL-anchored engine.
Stale(rec) ==
    rec.shape.document /\ ~rec.shape.resolve /\ Tracked(rec.url)
        /\ documents[rec.url] # rec.version

ContentModified(r) ==
    /\ request[r].pc = "answered"
    /\ Stale(request[r])
    /\ request' = [request EXCEPT ![r] = Rest]
    /\ UNCHANGED <<vars, documents>>

\* Mutant: the response's document is looked up again.
ResolvedAgain(rec) == ConversionDocument(rec)

\* The response is converted against the document of the params.
ResponseDocument(rec) == rec.doc

\* The response is converted and sent, on the main loop ...
Replies(r) ==
    /\ request[r].pc = "answered"
    /\ ~request[r].shape.pool
    /\ ~Stale(request[r])
    /\ request' = [request EXCEPT ![r] = Rest]
    /\ UNCHANGED <<vars, documents>>

\* ... or, after a hop, on the pool.
PoolReplies(r) ==
    /\ request[r].pc = "answered"
    /\ request[r].shape.pool
    /\ request' = [request EXCEPT ![r] = Rest]
    /\ UNCHANGED <<vars, documents>>

\* $/cancelRequest drops the future; a closure on the pool runs on.
Cancelled(r) ==
    /\ request[r].pc \in {"prime", "params", "handle", "answered"}
    /\ request' = [request EXCEPT ![r] = Rest]
    /\ UNCHANGED <<vars, documents>>

-----------------------------------------------------------------------------
(* The store and the disk beside it *)

DiskMoves ==
    /\ \E u \in Urls : WriteFile(u) \/ DeleteFile(u)
    /\ UNCHANGED <<documents, request>>

\* didOpen, didChange, a load: a snapshot of its own, whoever wrote the text.
StoreInstalls(u) ==
    /\ clock < MaxClock
    /\ clock' = clock + 1
    /\ documents' = [documents EXCEPT ![u] = clock + 1]
    /\ UNCHANGED <<disk, cache, snapshot, prime, request>>

\* didClose, a deletion, a folder that goes.
StoreRemoves(u) ==
    /\ Tracked(u)
    /\ documents' = [documents EXCEPT ![u] = Missing]
    /\ UNCHANGED <<vars, request>>

-----------------------------------------------------------------------------
RequestsInit ==
    /\ FallbackInit
    /\ documents = [u \in Urls |-> Missing]
    /\ request = [r \in Requests |-> Rest]

RequestsNext ==
    \/ \E r \in Requests, shape \in Shapes, u, other \in Urls : Arrives(r, shape, u, other)
    \/ \E p \in Primes : PrimeStep(p) \/ Primed(p)
    \/ \E r \in Requests :
          \/ PoolConvertsParams(r) \/ HandlerAnswers(r) \/ HandlerFails(r)
          \/ ContentModified(r) \/ Replies(r) \/ PoolReplies(r) \/ Cancelled(r)
    \/ DiskMoves
    \/ \E u \in Urls : StoreInstalls(u) \/ StoreRemoves(u)

RequestsSpec == RequestsInit /\ [][RequestsNext]_requestVars

-----------------------------------------------------------------------------
(* What becomes of a position *)

\* The hooks the engines run, by whether there is a document.
ParamsHook(m, anchored) ==
    IF anchored THEN ModifyParams(Row[m])
    ELSE IF Row[m].resolve THEN ModifyParamsStandalone(Row[m]) ELSE NoHook
ResponseHook(m, anchored) ==
    IF anchored THEN ModifyResponse(Row[m]) ELSE ModifyResponseStandalone(Row[m])

\* The conversions a hook makes of one field, in their order.
Hows(hook, field) ==
    LET ofField(step) == step.field = field
        steps == SelectSeq(hook, ofField)
    IN  [i \in DOMAIN steps |-> steps[i].how]

\* The positions of a shape's messages: where they lie, what is made of them.
Fate(positions, hook) == {[lies |-> p.lies, hows |-> Hows(hook, p.field)] : p \in positions}
Of(shape) == {m \in Methods : Shape(m) = shape}
Fates ==
    [shape \in Shapes |-> [anchored \in BOOLEAN |->
        [params   |-> UNION {Fate(Protocol[m].params, ParamsHook(m, anchored)) : m \in Of(shape)},
         response |-> UNION {Fate(Protocol[m].response, ResponseHook(m, anchored)) :
                             m \in Of(shape)}]]]

\* What the responses of a document's requests come to, labels apart: without
\* a document nothing is converted; with one, a position is counted in it or,
\* if it has a URI of its own, by that URI.  (Fates depends on no constant.)
ASSUME DocumentRows ==
    \A shape \in {s \in Shapes : s.document} :
        /\ ~shape.resolve /\ ~shape.pool
        /\ \A fate \in Fates[shape][FALSE].response : DOMAIN fate.hows = {}
        /\ \A fate \in {f \in Fates[shape][TRUE].response : f.lies # "label"} :
              \A i \in DOMAIN fate.hows :
                  \/ fate.hows[i] = "own" /\ fate.lies # "named"
                  \/ fate.hows[i] = "at" /\ fate.lies \in {"named", "item"}

\* The URI of a position that has one: an item's is the request document's.
UriOf(rec, lies) == IF lies = "item" THEN rec.url ELSE rec.other

\* Mutant: a position with a URI of its own is counted in the request's.
CountedInRequest(how, uri, doc) ==
    CASE how \in {"own", "at"} -> doc
      [] how = "store" -> IF Tracked(uri) THEN Snapshot(uri, documents[uri])
                          ELSE IF disk[uri] # Missing THEN Snapshot(uri, disk[uri])
                          ELSE NoDocument
      [] how = "label" -> [label |-> TRUE]

\* convert_position_at_url, convert_symbol_location and the rest: the text
\* the columns are counted in, or NoDocument for a position left alone.
CountedIn(how, uri, doc) ==
    CASE how = "own"   -> doc
      [] how = "at"    -> IF uri # doc.url /\ Tracked(uri) THEN Snapshot(uri, documents[uri])
                          ELSE doc
      [] how = "store" -> IF Tracked(uri) THEN Snapshot(uri, documents[uri])
                          ELSE IF disk[uri] # Missing THEN Snapshot(uri, disk[uri])
                          ELSE NoDocument
      [] how = "label" -> [label |-> TRUE]

\* The conversions of a position, and those of them that find a document.
Counted(rec, fate, doc) ==
    [i \in DOMAIN fate.hows |-> CountedIn(fate.hows[i], UriOf(rec, fate.lies), doc)]
Made(counted) == {i \in DOMAIN counted : counted[i] # NoDocument}

\* The params that a step hands to the handler, the response that it sends.
ParamsPass(r) == request[r].pc # "handle" /\ request'[r].pc = "handle"
ResponsePasses(r) == Replies(r) \/ PoolReplies(r)

Message(rec, doc, side) == [rec |-> rec, doc |-> doc, side |-> side]
FatesOf(msg) == Fates[msg.rec.shape][msg.doc # NoDocument][msg.side]

Passing ==
    {Message(request'[r], request'[r].doc, "params") : r \in {r \in Requests : ParamsPass(r)}}
    \cup {Message(request[r], ResponseDocument(request[r]), "response") :
             r \in {r \in Requests : ResponsePasses(r)}}

-----------------------------------------------------------------------------
(* Properties *)

\* With a document to convert against, every position of a message that the
\* protocol knows is converted exactly once, a symbol's exactly when its
\* file can be had; without one, none is.  (lsp_requests/mod.rs, "Delegation,
\* not a no-op"; macros/src/request.rs, the hooks compose.)
WholeMessage ==
    [][\A msg \in Passing : \A fate \in FatesOf(msg) :
          LET made == Cardinality(Made(Counted(msg.rec, fate, msg.doc)))
          IN  IF msg.rec.shape.pool
              THEN (made = 1) = (Tracked(msg.rec.other) \/ disk[msg.rec.other] # Missing)
              ELSE made = IF msg.doc = NoDocument THEN 0 ELSE 1]_requestVars

\* A position is counted in the document it lies in whenever the server
\* tracks that document: the request's own, or the one its URI names, never
\* the other of the two (conversion.rs, convert_position_at_url).
RightDocument ==
    [][\A msg \in Passing : \A fate \in FatesOf(msg) :
          LET counted == Counted(msg.rec, fate, msg.doc)
              uri     == UriOf(msg.rec, fate.lies)
          IN  \A i \in Made(counted) :
                  /\ fate.lies = "request" => counted[i] = msg.doc
                  /\ fate.lies \in {"named", "item"} /\ Tracked(uri) =>
                         counted[i].url = uri]_requestVars

\* What a resolve request counts in its own document goes out through the
\* text it came in through, whatever opened or closed in between, so that an
\* item the handler leaves alone comes back as it was (dispatch.rs,
\* sole_document_core: one sole document for the whole request).
ResolveRoundTrip ==
    [][\A r \in Requests : (ResponsePasses(r) /\ request[r].shape.resolve) =>
          LET rec == request[r]
              back == ResponseDocument(rec)
              fates == Fates[rec.shape][rec.doc # NoDocument].params
          IN  \A fate \in fates : fate.lies = "request" =>
                  /\ fate \in Fates[rec.shape][back # NoDocument].response
                  /\ Counted(rec, fate, rec.doc) = Counted(rec, fate, back)]_requestVars

\* A reply about a tracked document counts its columns in the text the
\* handler answered from, and a position elsewhere does so if the document
\* it lies in has not changed since ("rejects stale results with
\* CONTENT_MODIFIED").
AnswersCountedAsSeen ==
    [][\A r \in Requests : (ResponsePasses(r) /\ request[r].shape.document) =>
          LET rec == request[r]
              doc == ResponseDocument(rec)
          IN  \A fate \in Fates[rec.shape][doc # NoDocument].response :
                  LET lies == IF fate.lies = "named" THEN rec.other ELSE rec.url
                      counted == Counted(rec, fate, doc)
                  IN  (/\ fate.lies # "label" /\ Tracked(lies)
                       /\ lies = rec.url \/ documents[lies] = rec.seen[lies])
                          => \A i \in Made(counted) :
                                 counted[i] = Snapshot(lies, rec.seen[lies])]_requestVars
=============================================================================
