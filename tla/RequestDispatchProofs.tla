------------------------ MODULE RequestDispatchProofs ------------------------
(***************************************************************************)
(* Proofs about RequestDispatch for any files, versions and bounds: types, *)
(* that an accepted answer is about the text the document still has, for   *)
(* any number of requests in flight, and that the token cache is the       *)
(* client's, for one.                                                      *)
(***************************************************************************)
EXTENDS RequestDispatch, DocumentStoreProofs

-----------------------------------------------------------------------------
(* Types *)

LEMMA DispatchTypeInit ==
    ASSUME DispatchInit
    PROVE  DispatchTypeOK
  <1>1. TypeOK
    BY StoreAssumption, TypeInit DEF DispatchInit
  <1>2. NoFile \in File /\ NoStream \in Tick
    BY StoreAssumption DEF NoFile, File, NoStamp, NoStream, Tick
  <1>3. ASSUME NEW u \in Urls
        PROVE  Idle_([pc |-> "idle", kind |-> "other", url |-> u, tracked |-> FALSE,
                      version |-> 0, file |-> NoFile, snapshot |-> 0, answer |-> 0,
                      base |-> 0]) \in Request
    BY <1>2 DEF Idle_, Request, Kinds, NoText, NoStream
  <1> QED
    BY <1>1, <1>2, <1>3 DEF DispatchInit, DispatchTypeOK

\* The records a request passes through.
LEMMA RequestTypes ==
    ASSUME DispatchTypeOK, NEW r \in Requests
    PROVE  /\ request[r] \in Request /\ request[r].url \in Urls
           /\ Idle_(request[r]) \in Request
           /\ \A u \in Urls : documents[u].text \in Tick /\ documents[u].version \in Nat
  <1>1. request[r] \in Request /\ request[r].url \in Urls
    BY DEF DispatchTypeOK, Request
  <1>2. NoText \in Tick /\ NoStream \in Tick
    BY StoreAssumption DEF NoText, NoStream, Tick
  <1>3. Idle_(request[r]) \in Request
    BY <1>1, <1>2 DEF Idle_, Request, Kinds
  <1>4. \A u \in Urls : documents[u].text \in Tick /\ documents[u].version \in Nat
    BY <1>2, StoreAssumption, EntryTypes DEF DispatchTypeOK, Entry, Untracked, NoText
  <1> QED
    BY <1>1, <1>3, <1>4

LEMMA ProbedTypes ==
    ASSUME DispatchTypeOK, NEW rec \in Request
    PROVE  Probed(rec) \in Request
  <1>1. rec.url \in Urls /\ Tracked(rec.url) \in BOOLEAN
    BY DEF Request, Tracked
  <1>2. documents[rec.url].version \in Nat /\ ConversionText(rec.url) \in Tick
    <2>1. documents[rec.url] \in Entry /\ fallback[rec.url] \in File
      BY <1>1 DEF DispatchTypeOK, TypeOK
    <2>2. documents[rec.url].version \in Nat /\ documents[rec.url].text \in Tick
      BY <2>1, StoreAssumption DEF Entry, Untracked, Tick
    <2> QED
      BY <2>1, <2>2 DEF ConversionText, File
  <1> QED
    BY <1>1, <1>2 DEF Probed, Request

\* The three steps of a prime keep what the request asks for.
LEMMA PrimeSteps ==
    ASSUME DispatchTypeOK, NEW r \in Requests, Prime(r)
    PROVE  /\ UNCHANGED <<storeVars, held>>
           /\ fallback' \in [Urls -> File]
           /\ request[r].pc \in {"prime", "read", "insert"}
           /\ request'[r] \in Request
           /\ request'[r].pc \in {"read", "insert", "primed"}
           /\ request'[r].url = request[r].url /\ request'[r].kind = request[r].kind
           /\ request'[r].base = request[r].base
           /\ request' = [request EXCEPT ![r] = request'[r]]
  <1> DEFINE q == request[r]
             u == q.url
  <1>0. /\ q \in Request /\ u \in Urls /\ q.file \in File /\ disk[u] \in File
        /\ request \in [Requests -> Request] /\ fallback \in [Urls -> File]
        /\ NoFile \in File
    BY StoreAssumption, RequestTypes
       DEF DispatchTypeOK, TypeOK, Request, NoFile, File, NoStamp, Tick
  <1>1. ASSUME NEW next \in Request, request' = [request EXCEPT ![r] = next],
               next.pc \in {"read", "insert", "primed"}, next.url = u, next.kind = q.kind,
               next.base = q.base
        PROVE  /\ request'[r] \in Request
               /\ request'[r].pc \in {"read", "insert", "primed"}
               /\ request'[r].url = u /\ request'[r].kind = q.kind /\ request'[r].base = q.base
               /\ request' = [request EXCEPT ![r] = request'[r]]
    BY <1>0, <1>1
  <1>2. CASE PrimeProbes(r)
    <2> DEFINE same == [q EXCEPT !.pc = "primed"]
               read == [q EXCEPT !.pc = "read", !.file.stamp = disk[u].stamp]
    <2>1. /\ same \in Request /\ same.pc = "primed" /\ same.url = u /\ same.kind = q.kind
          /\ same.base = q.base
      BY <1>0 DEF Request
    <2>2. [q.file EXCEPT !.stamp = disk[u].stamp] \in File
      BY <1>0 DEF File
    <2>3. /\ read \in Request /\ read.pc = "read" /\ read.url = u /\ read.kind = q.kind
          /\ read.base = q.base
      BY <1>0, <2>2 DEF Request
    <2> HIDE DEF same, read
    <2>4. \/ request' = [request EXCEPT ![r] = same]
          \/ request' = [request EXCEPT ![r] = read]
      BY <1>0, <1>2 DEF PrimeProbes, same, read
    <2>5. /\ UNCHANGED <<storeVars, fallback, held>> /\ q.pc = "prime"
      BY <1>2 DEF PrimeProbes
    <2> QED
      BY <1>0, <1>1, <2>1, <2>3, <2>4, <2>5
  <1>3. CASE PrimeReads(r)
    <2> DEFINE read == [q EXCEPT !.pc = "insert", !.file.text = disk[u].text]
               none == [q EXCEPT !.pc = "primed", !.file = NoFile]
    <2>1. /\ none \in Request /\ none.pc = "primed" /\ none.url = u /\ none.kind = q.kind
          /\ none.base = q.base
      BY <1>0 DEF Request
    <2>2. [q.file EXCEPT !.text = disk[u].text] \in File
      BY <1>0 DEF File
    <2>3. /\ read \in Request /\ read.pc = "insert" /\ read.url = u /\ read.kind = q.kind
          /\ read.base = q.base
      BY <1>0, <2>2 DEF Request
    <2> HIDE DEF none, read
    <2>4. \/ request' = [request EXCEPT ![r] = none]
          \/ request' = [request EXCEPT ![r] = read]
      BY <1>0, <1>3 DEF PrimeReads, none, read
    <2>5. /\ UNCHANGED <<storeVars, fallback, held>> /\ q.pc = "read"
      BY <1>3 DEF PrimeReads
    <2> QED
      BY <1>0, <1>1, <2>1, <2>3, <2>4, <2>5
  <1>4. CASE PrimeInserts(r)
    <2> DEFINE done == [q EXCEPT !.pc = "primed", !.file = NoFile]
    <2>1. /\ done \in Request /\ done.pc = "primed" /\ done.url = u /\ done.kind = q.kind
          /\ done.base = q.base
      BY <1>0 DEF Request
    <2> HIDE DEF done
    <2>2. request' = [request EXCEPT ![r] = done]
      BY <1>0, <1>4 DEF PrimeInserts, done
    <2>3. fallback' \in [Urls -> File] /\ UNCHANGED <<storeVars, held>> /\ q.pc = "insert"
      BY <1>0, <1>4 DEF PrimeInserts
    <2> QED
      BY <1>1, <2>1, <2>2, <2>3
  <1> QED
    BY <1>2, <1>3, <1>4 DEF Prime

LEMMA RequestStepTypes ==
    ASSUME DispatchTypeOK, NEW r \in Requests, RequestStep(r)
    PROVE  DispatchTypeOK'
  <1> USE DEF storeVars, environment, store
  <1>0. /\ request[r] \in Request /\ request[r].url \in Urls
        /\ Idle_(request[r]) \in Request
        /\ \A u \in Urls : documents[u].text \in Tick
        /\ NoStream \in Tick
    BY StoreAssumption, RequestTypes DEF NoStream, Tick
  <1>1. ASSUME NEW u \in Urls, NEW kind \in Kinds, Arrives(r, u, kind)
        PROVE  DispatchTypeOK'
    <2> DEFINE fresh == [request[r] EXCEPT !.pc = "prime", !.kind = kind, !.url = u,
                                           !.base = IF kind = "delta" THEN held[u] ELSE NoStream]
               next  == IF Tracked(u) THEN Probed(fresh) ELSE fresh
    <2>1. fresh \in Request
      BY <1>0 DEF DispatchTypeOK, Request
    <2>2. next \in Request
      BY <2>1, ProbedTypes
    <2>3. request' = [request EXCEPT ![r] = next]
      BY <1>1 DEF Arrives
    <2>4. request' \in [Requests -> Request]
      BY <2>2, <2>3 DEF DispatchTypeOK
    <2> QED
      BY <1>1, <2>4 DEF Arrives, DispatchTypeOK, TypeOK
  <1>2. CASE Prime(r)
    <2>1. request' \in [Requests -> Request]
      BY <1>2, PrimeSteps DEF DispatchTypeOK
    <2> QED
      BY <1>2, <2>1, PrimeSteps DEF DispatchTypeOK, TypeOK
  <1>3. CASE Primed(r)
    <2>1. request' \in [Requests -> Request]
      BY <1>0, <1>3, ProbedTypes DEF Primed, DispatchTypeOK
    <2> QED
      BY <1>3, <2>1 DEF Primed, DispatchTypeOK, TypeOK
  <1>4. CASE HandlerAnswers(r)
    <2> DEFINE answered == [request[r] EXCEPT !.pc = "reply",
                                              !.answer = documents[request[r].url].text]
    <2>1. answered \in Request
      BY <1>0 DEF Request
    <2>2. request' = [request EXCEPT ![r] = answered]
      BY <1>4 DEF HandlerAnswers
    <2>3. request' \in [Requests -> Request]
      BY <2>1, <2>2 DEF DispatchTypeOK
    <2> QED
      BY <1>4, <2>3 DEF HandlerAnswers, DispatchTypeOK, TypeOK
  <1>5. CASE HandlerFails(r) \/ ContentModified(r)
    <2>1. request' \in [Requests -> Request]
      BY <1>0, <1>5 DEF HandlerFails, ContentModified, DispatchTypeOK
    <2> QED
      BY <1>5, <2>1 DEF HandlerFails, ContentModified, DispatchTypeOK, TypeOK
  <1>6. CASE Reply(r)
    <2>1. request' \in [Requests -> Request]
      BY <1>0, <1>6 DEF Reply, DispatchTypeOK
    <2>2. request[r].answer \in Tick
      BY <1>0 DEF Request
    <2>3. \A c, b : Spliced(c, b, request[r].answer) \in Tick
      BY <2>2, StoreAssumption DEF Spliced, Mangled, Tick
    <2>4. semanticCache' \in [Urls -> Tick] /\ held' \in [Urls -> Tick]
      BY <1>0, <1>6, <2>2, <2>3 DEF Reply, DispatchTypeOK, TypeOK
    <2> QED
      BY <1>6, <2>1, <2>4 DEF Reply, DispatchTypeOK, TypeOK
  <1> QED
    BY <1>1, <1>2, <1>3, <1>4, <1>5, <1>6 DEF RequestStep

LEMMA DispatchTypeStep ==
    ASSUME DispatchTypeOK, [DispatchNext]_vars
    PROVE  DispatchTypeOK'
  <1>1. CASE StoreNext /\ UNCHANGED dispatchVars
    BY <1>1, StoreAssumption, TypeStep DEF DispatchTypeOK, dispatchVars
  <1>2. CASE \E r \in Requests : RequestStep(r)
    BY <1>2, RequestStepTypes
  <1>3. CASE UNCHANGED vars
    BY <1>3 DEF vars, dispatchVars, storeVars, environment, store, DispatchTypeOK, TypeOK
  <1> QED
    BY <1>1, <1>2, <1>3 DEF DispatchNext

\* Every variable of store and requests keeps its type, whatever interleaves:
\* a reply caches a text that is one, though the splice may have mangled it.
THEOREM DispatchTypes == DispatchSpec => []DispatchTypeOK
  <1>1. DispatchInit => DispatchTypeOK
    BY DispatchTypeInit
  <1>2. DispatchTypeOK /\ [DispatchNext]_vars => DispatchTypeOK'
    BY DispatchTypeStep
  <1> QED
    BY <1>1, <1>2, PTL DEF DispatchSpec

-----------------------------------------------------------------------------
(* Answers about the text the document has.  Versions tell texts apart     *)
(* only as far as the editor's do: a client that counts on when it reopens *)
(* a document and sends the text with didSave, and a store without         *)
(* workspace documents, whose version is always 0.                         *)

EditorsOnly == Folders = {} /\ FreshVersions /\ \A u \in Urls : SaveTexts[u] \subseteq {TRUE}

\* The store then holds what the editor has open, under its version and with
\* its text, and no handler ever reads the disk.
Editors == mainLoop = Idle /\ \A u \in Urls : Tracked(u) => editor[u].open

\* A buffer grows older, or stays what it is.
BufferStep(u) ==
    \/ /\ editor'[u].open = editor[u].open
       /\ editor'[u].text = editor[u].text
       /\ editor'[u].version = editor[u].version
    \/ editor'[u].version > editor[u].version
    \/ ~editor[u].open /\ editor'[u].version >= editor[u].version

\* What a request knows of a document that was tracked when it was probed:
\* while the buffer has the probed version, its text is the one the request
\* was converted against and answered from.
Current(r) ==
    LET q == request[r]
        b == editor[q.url]
    IN  (q.pc \in {"handle", "reply"} /\ q.tracked) =>
            /\ q.version <= b.version
            /\ ~b.open => q.version < b.version
            /\ b.version = q.version => /\ q.snapshot = b.text
                                        /\ q.pc = "reply" => q.answer = b.text

LEMMA BufferSteps ==
    ASSUME EditorsOnly, TypeOK, StoreNext
    PROVE  \A u \in Urls : BufferStep(u)
  <1> USE DEF environment, store
  <1>0. \A u \in Urls : editor[u] \in Buffer /\ editor[u].version \in Nat
    BY DEF TypeOK, Buffer
  <1>1. CASE Disk
    BY <1>1, <1>0 DEF Disk, WriteFile, DeleteFile, EditorWrites, EditIgnoreFile, TypeOK, Buffer,
                      BufferStep
  <1>2. ASSUME NEW u \in Urls, NEW version \in ClientVersions, DidOpen(u, version)
        PROVE  \A w \in Urls : BufferStep(w)
    BY <1>2, <1>0 DEF DidOpen, TypeOK, BufferStep
  <1>3. ASSUME NEW u \in Urls, NEW version \in ClientVersions, DidChange(u, version)
        PROVE  \A w \in Urls : BufferStep(w)
    <2>1. editor' = [editor EXCEPT ![u] = [@ EXCEPT !.text = clock', !.version = version]]
      BY <1>3 DEF DidChange
    <2>2. editor'[u].version = version /\ \A w \in Urls \ {u} : editor'[w] = editor[w]
      BY <2>1, <1>0 DEF TypeOK, Buffer
    <2> QED
      BY <1>3, <2>2 DEF DidChange, BufferStep
  <1>4. ASSUME NEW u \in Urls, NEW withText, DidSave(u, withText)
        PROVE  \A w \in Urls : BufferStep(w)
    BY <1>4, <1>0 DEF DidSave, TypeOK, Buffer, BufferStep
  <1>5. ASSUME NEW u \in Urls, DidClose(u)
        PROVE  \A w \in Urls : BufferStep(w)
    <2>1. editor'[u].version = editor[u].version + 1
          /\ \A w \in Urls \ {u} : editor'[w] = editor[w]
      BY <1>5, <1>0 DEF DidClose, EditorsOnly, Closed, TypeOK
    <2> QED
      BY <2>1, <1>0 DEF BufferStep
  <1>6. ASSUME UNCHANGED editor
        PROVE  \A w \in Urls : BufferStep(w)
    BY <1>6 DEF BufferStep
  <1>7. CASE Installations
    BY <1>6, <1>7 DEF Installations, DidCloseInstall, DidChangeRecover, WatchedFileInstall
  <1>8. CASE Notifications
    BY <1>2, <1>3, <1>4, <1>5, <1>6, <1>8
       DEF Notifications, FileGone, WatchedFileEvent, IgnoreFileEvent, FoldersChange,
           SetEnabled, WatchersAccepted
  <1> QED
    BY <1>1, <1>7, <1>8 DEF StoreNext

LEMMA EditorsStep ==
    ASSUME EditorsOnly, TypeOK, Owner, Editors, StoreNext
    PROVE  Editors'
  <1> USE DEF environment, store
  <1>0. /\ mainLoop = Idle
        /\ \A u \in Urls : Tracked(u) => editor[u].open
        /\ \A u \in Urls : Tracked(u) => Mirrored(u)
    BY DEF Editors, Owner, MirrorsEditor
  <1>1. \A u \in Urls : ~OwnedByDisk(u) /\ ~KeepAsWorkspace(u)
    BY <1>0, StoreAssumption
       DEF Mirrored, OwnedByDisk, Tracked, KeepAsWorkspace, InRoots, EditorsOnly, TypeOK
  <1>2. CASE Disk
    <2>1. UNCHANGED <<documents, mainLoop>> /\ \A u \in Urls : editor'[u].open = editor[u].open
      BY <1>2 DEF Disk, WriteFile, DeleteFile, EditorWrites, EditIgnoreFile, TypeOK, Buffer
    <2> QED
      BY <1>0, <2>1 DEF Editors, Tracked
  <1>3. ASSUME NEW u \in Urls, NEW version \in ClientVersions, DidOpen(u, version)
        PROVE  Editors'
    BY <1>0, <1>3, InsertAt DEF DidOpen, Editors, Tracked, TypeOK
  <1>4. ASSUME NEW u \in Urls, NEW version \in ClientVersions, DidChange(u, version)
        PROVE  Editors'
    <2>1. editor' = [editor EXCEPT ![u] = [@ EXCEPT !.text = clock', !.version = version]]
      BY <1>4 DEF DidChange
    <2>2. editor'[u].open /\ \A w \in Urls \ {u} : editor'[w] = editor[w]
      BY <1>4, <2>1 DEF DidChange, TypeOK, Buffer
    <2>3. \A w \in Urls \ {u} : documents'[w] = documents[w]
      BY <1>4 DEF DidChange, TypeOK
    <2>4. mainLoop' = Idle
      BY <1>0, <1>4 DEF DidChange, Mirrored, EditorsOnly
    <2> QED
      BY <1>0, <2>2, <2>3, <2>4 DEF Editors, Tracked
  <1>5. ASSUME NEW u \in Urls, NEW withText \in SaveTexts[u], DidSave(u, withText)
        PROVE  Editors'
    <2>1. \A w \in Urls : editor'[w].open = editor[w].open
      BY <1>5 DEF DidSave, TypeOK, Buffer
    <2>2. \A w \in Urls \ {u} : documents'[w] = documents[w]
      BY <1>5, RemoveAt DEF DidSave, TypeOK
    <2>3. editor[u].open /\ mainLoop' = Idle
      BY <1>0, <1>5 DEF DidSave
    <2> QED
      BY <1>0, <2>1, <2>2, <2>3 DEF Editors, Tracked
  <1>6. ASSUME NEW u \in Urls, DidClose(u)
        PROVE  Editors'
    <2>1. \A w \in Urls \ {u} : editor'[w] = editor[w] /\ documents'[w] = documents[w]
      BY <1>6, RemoveAt DEF DidClose, TypeOK
    <2>2. ~Tracked(u)' /\ mainLoop' = Idle
      BY <1>0, <1>1, <1>6, RemoveAt DEF DidClose, Tracked
    <2> QED
      BY <1>0, <2>1, <2>2 DEF Editors, Tracked
  <1>7. ASSUME UNCHANGED <<documents, editor, mainLoop>>
        PROVE  Editors'
    BY <1>0, <1>7 DEF Editors, Tracked
  <1>8. ASSUME NEW S, RemoveDocuments(S), UNCHANGED <<editor, mainLoop>>
        PROVE  Editors'
    BY <1>0, <1>8, RemoveAt DEF Editors, Tracked
  <1>9. CASE Notifications
    <2>1. ASSUME NEW u \in Urls, NEW kind, WatchedFileEvent(kind, u)
          PROVE  Editors'
      BY <1>1, <1>7, <2>1 DEF WatchedFileEvent
    <2>2. ASSUME NEW removed, NEW added, FoldersChange(removed, added)
          PROVE  Editors'
      BY <1>8, <2>2 DEF FoldersChange
    <2>3. ASSUME NEW on, SetEnabled(on)
          PROVE  Editors'
      BY <1>8, <2>3 DEF SetEnabled
    <2>4. ASSUME NEW u \in Urls, FileGone(u)
          PROVE  Editors'
      BY <1>8, <2>4 DEF FileGone
    <2>5. CASE IgnoreFileEvent \/ WatchersAccepted
      BY <1>7, <2>5 DEF IgnoreFileEvent, WatchersAccepted
    <2> QED
      BY <1>3, <1>4, <1>5, <1>6, <1>9, <2>1, <2>2, <2>3, <2>4, <2>5 DEF Notifications
  <1>10. ~Installations
    BY <1>0 DEF Installations, DidCloseInstall, DidChangeRecover, WatchedFileInstall, Idle
  <1> QED
    BY <1>2, <1>9, <1>10 DEF StoreNext

\* What the editor knows of a document that is tracked.
LEMMA TrackedIsEditors ==
    ASSUME EditorsOnly, Owner, Editors, NEW u \in Urls, Tracked(u)
    PROVE  /\ editor[u].open
           /\ documents[u].version = editor[u].version
           /\ documents[u].text = editor[u].text
  BY DEF EditorsOnly, Owner, Editors, MirrorsEditor, Mirrored

LEMMA CurrentStoreStep ==
    ASSUME EditorsOnly, DispatchTypeOK, NEW r \in Requests, Current(r),
           StoreNext, UNCHANGED dispatchVars
    PROVE  Current(r)'
  <1> DEFINE u == request[r].url
  <1>1. u \in Urls /\ request[r].version \in Nat
    BY DEF DispatchTypeOK, Request
  <1>2. /\ BufferStep(u)
        /\ editor[u].version \in Nat
    BY <1>1, BufferSteps DEF DispatchTypeOK, TypeOK, Buffer
  <1>3. editor'[u].version \in Nat
    BY <1>1, StoreAssumption, TypeStep DEF DispatchTypeOK, TypeOK, Buffer
  <1>4. request' = request
    BY DEF dispatchVars
  <1> QED
    BY <1>1, <1>2, <1>3, <1>4 DEF Current, BufferStep

LEMMA CurrentProbed ==
    ASSUME EditorsOnly, DispatchTypeOK, Owner, Editors, NEW r \in Requests, NEW rec \in Request,
           request'[r] = Probed(rec), UNCHANGED storeVars
    PROVE  Current(r)'
  <1> DEFINE u == rec.url
  <1>1. u \in Urls
    BY DEF Request
  <1>2. /\ request'[r].url = u
        /\ request'[r].pc = "handle"
        /\ request'[r].tracked = Tracked(u)
        /\ request'[r].version = documents[u].version
        /\ request'[r].snapshot = ConversionText(u)
    BY DEF Probed, Request
  <1>3. UNCHANGED editor
    BY DEF storeVars, environment
  <1>4. CASE Tracked(u)
    <2>1. /\ editor[u].open
          /\ request'[r].version = editor[u].version
          /\ request'[r].snapshot = editor[u].text
      BY <1>1, <1>2, <1>4, TrackedIsEditors DEF ConversionText
    <2>2. editor[u].version \in Nat
      BY <1>1 DEF DispatchTypeOK, TypeOK, Buffer
    <2> QED
      BY <1>2, <1>3, <2>1, <2>2 DEF Current
  <1>5. CASE ~Tracked(u)
    BY <1>2, <1>5 DEF Current
  <1> QED
    BY <1>4, <1>5

LEMMA CurrentRequestStep ==
    ASSUME EditorsOnly, DispatchTypeOK, Owner, Editors,
           \A r \in Requests : Current(r), NEW r \in Requests, RequestStep(r)
    PROVE  \A s \in Requests : Current(s)'
  <1> USE DEF environment
  <1>0. /\ request[r] \in Request /\ Idle_(request[r]) \in Request
        /\ request \in [Requests -> Request]
        /\ \A s \in Requests : request'[s].url \in Urls
    <2>1. DispatchTypeOK'
      BY RequestStepTypes
    <2> QED
      BY <2>1, RequestTypes DEF DispatchTypeOK, Request
  <1>1. UNCHANGED <<documents, editor, mainLoop>>
    BY DEF RequestStep, Arrives, Prime, PrimeProbes, PrimeReads, PrimeInserts, Primed,
             HandlerAnswers, HandlerFails, ContentModified,
           Reply, storeVars, store
  <1>2. \A s \in Requests \ {r} : request'[s] = request[s]
    BY <1>0 DEF RequestStep, Arrives, Prime, PrimeProbes, PrimeReads, PrimeInserts, Primed,
                HandlerAnswers, HandlerFails,
                ContentModified, Reply
  <1>3. \A s \in Requests \ {r} : Current(s)'
    BY <1>1, <1>2 DEF Current
  <1>4. Current(r)'
    <2>1. ASSUME NEW u \in Urls, NEW kind \in Kinds, Arrives(r, u, kind)
          PROVE  Current(r)'
      <3> DEFINE fresh == [request[r] EXCEPT !.pc = "prime", !.kind = kind, !.url = u,
                               !.base = IF kind = "delta" THEN held[u] ELSE NoStream]
      <3>1. fresh \in Request /\ fresh.pc = "prime"
        <4>1. NoStream \in Tick /\ held[u] \in Tick
          BY StoreAssumption DEF DispatchTypeOK, NoStream, Tick
        <4> QED
          BY <1>0, <4>1 DEF Request
      <3>2. request'[r] = IF Tracked(u) THEN Probed(fresh) ELSE fresh
        BY <1>0, <2>1 DEF Arrives
      <3>3. UNCHANGED storeVars
        BY <2>1 DEF Arrives
      <3>4. CASE Tracked(u)
        BY <3>1, <3>2, <3>3, <3>4, CurrentProbed
      <3>5. CASE ~Tracked(u)
        BY <3>1, <3>2, <3>5 DEF Current
      <3> QED
        BY <3>4, <3>5
    <2>2. CASE Prime(r)
      <3>1. request'[r].pc \notin {"handle", "reply"}
        BY <2>2, PrimeSteps
      <3> QED
        BY <3>1 DEF Current
    <2>3. CASE Primed(r)
      BY <1>0, <2>3, CurrentProbed DEF Primed
    <2>4. CASE HandlerAnswers(r)
      <3> DEFINE u == request[r].url
      <3>1. /\ request[r].pc = "handle"
            /\ request'[r] = [request[r] EXCEPT !.pc = "reply", !.answer = documents[u].text]
        BY <1>0, <2>4 DEF HandlerAnswers
      <3>2. /\ request'[r].url = u
            /\ request'[r].tracked = request[r].tracked
            /\ request'[r].version = request[r].version
            /\ request'[r].snapshot = request[r].snapshot
            /\ request'[r].answer = documents[u].text
        BY <1>0, <3>1 DEF Request
      <3>3. /\ u \in Urls /\ request[r].version \in Nat /\ editor[u].version \in Nat
            /\ SaveTexts[u] \subseteq {TRUE}
        BY <1>0 DEF Request, DispatchTypeOK, TypeOK, Buffer, EditorsOnly
      <3>4. editor[u].open => documents[u].text = editor[u].text
        BY <3>3 DEF Owner, MirrorsEditor, Mirrored
      <3> QED
        BY <1>1, <3>1, <3>2, <3>3, <3>4 DEF Current
    <2>5. CASE HandlerFails(r) \/ ContentModified(r) \/ Reply(r)
      <3>1. request'[r] = Idle_(request[r])
        BY <1>0, <2>5 DEF HandlerFails, ContentModified, Reply
      <3>2. request'[r].pc = "idle"
        BY <1>0, <3>1 DEF Idle_, Request
      <3> QED
        BY <3>2 DEF Current
    <2> QED
      BY <2>1, <2>2, <2>3, <2>4, <2>5 DEF RequestStep
  <1> QED
    BY <1>3, <1>4

Fresh == Owner /\ Editors /\ \A r \in Requests : Current(r)

LEMMA FreshInit ==
    ASSUME DispatchInit
    PROVE  Fresh
  <1>1. Owner
    BY OwnerInit DEF DispatchInit
  <1>2. Editors
    BY DEF DispatchInit, StoreInit, Editors, Tracked, Untracked
  <1>3. ASSUME NEW r \in Requests
        PROVE  request[r].pc = "idle"
    <2>1. PICK u \in Urls : request[r] =
             Idle_([pc |-> "idle", kind |-> "other", url |-> u, tracked |-> FALSE,
                    version |-> 0, file |-> NoFile, snapshot |-> 0, answer |-> 0,
                    base |-> 0])
      BY DEF DispatchInit
    <2> QED
      BY <2>1 DEF Idle_
  <1> QED
    BY <1>1, <1>2, <1>3 DEF Fresh, Current

LEMMA FreshStep ==
    ASSUME EditorsOnly, DispatchTypeOK, Fresh, [DispatchNext]_vars
    PROVE  Fresh'
  <1>0. TypeOK /\ Owner /\ Editors /\ \A r \in Requests : Current(r)
    BY DEF Fresh, DispatchTypeOK
  <1>1. CASE StoreNext /\ UNCHANGED dispatchVars
    BY <1>0, <1>1, OwnerStep, EditorsStep, CurrentStoreStep DEF Fresh
  <1>2. ASSUME UNCHANGED <<documents, editor, mainLoop>>
        PROVE  Owner' /\ Editors'
    BY <1>0, <1>2 DEF Owner, MirrorsEditor, Mirrored, HandlesOwn, Editors, Tracked
  <1>3. ASSUME NEW r \in Requests, RequestStep(r)
        PROVE  Fresh'
    <2>1. UNCHANGED <<documents, editor, mainLoop>>
      BY <1>3 DEF RequestStep, Arrives, Prime, PrimeProbes, PrimeReads, PrimeInserts, Primed,
             HandlerAnswers, HandlerFails,
                  ContentModified, Reply, storeVars, store, environment
    <2>2. \A s \in Requests : Current(s)'
      BY <1>0, <1>3, CurrentRequestStep
    <2> QED
      BY <1>2, <2>1, <2>2 DEF Fresh
  <1>4. CASE UNCHANGED vars
    <2>1. UNCHANGED <<documents, editor, mainLoop, request>>
      BY <1>4 DEF vars, dispatchVars, storeVars, store, environment
    <2> QED
      BY <1>0, <1>2, <2>1 DEF Fresh, Current
  <1> QED
    BY <1>1, <1>3, <1>4 DEF DispatchNext

\* A reply about a tracked document was computed from, and converted against,
\* the text the document has when it leaves: the two probes of
\* url_anchored_core suffice, for any number of requests in flight.
THEOREM DispatchAnswersFresh ==
    ASSUME EditorsOnly
    PROVE  DispatchSpec => AnswersAreFresh
  <1>1. DispatchInit => DispatchTypeOK /\ Fresh
    BY DispatchTypeInit, FreshInit
  <1>2. DispatchTypeOK /\ Fresh /\ [DispatchNext]_vars => DispatchTypeOK' /\ Fresh'
    BY DispatchTypeStep, FreshStep
  <1>3. DispatchTypeOK /\ Fresh =>
            \A r \in Requests : LET u == request[r].url IN
               (Replies(r) /\ Tracked(u)) => /\ request[r].answer = documents[u].text
                                             /\ request[r].snapshot = documents[u].text
    <2> SUFFICES ASSUME DispatchTypeOK, Fresh, NEW r \in Requests,
                        request[r].pc = "reply", ~Stale(r), Tracked(request[r].url)
                 PROVE  /\ request[r].answer = documents[request[r].url].text
                        /\ request[r].snapshot = documents[request[r].url].text
      BY DEF Replies
    <2>1. request[r].url \in Urls /\ Current(r) /\ Owner /\ Editors
      BY RequestTypes DEF Fresh
    <2>2. /\ documents[request[r].url].version = editor[request[r].url].version
          /\ documents[request[r].url].text = editor[request[r].url].text
      BY <2>1, TrackedIsEditors
    <2> QED
      BY <2>1, <2>2 DEF Current, Stale
  <1> QED
    BY <1>1, <1>2, <1>3, PTL DEF DispatchSpec, AnswersAreFresh

-----------------------------------------------------------------------------
(* The token cache.  With one request at a time the cached stream of a     *)
(* document is the one the client holds, or none: only replies move        *)
(* either.  The reply to a request without a conversion document moves     *)
(* just the client's; it finds no stream cached, since the document was    *)
(* installed after the request was probed.                                 *)

OneRequest == \A r, s \in Requests : r = s

\* No file, buffer, entry or handler that exists has the text of none.
Real(u) ==
    /\ Exists(u) => disk[u].text # NoText
    /\ editor[u].open => editor[u].text # NoText
    /\ Tracked(u) => documents[u].text # NoText

TextsReal ==
    /\ \A u \in Urls : Real(u)
    /\ (mainLoop # Idle /\ mainLoop.readable) => mainLoop.text # NoText

\* What a request in flight knows of the client's stream and of the cache.
RequestKnows(r) ==
    LET q == request[r]
        u == q.url
    IN  /\ (q.pc # "idle" /\ q.kind = "delta") => q.base = held[u]
        /\ (q.pc = "handle" /\ q.snapshot = NoText /\ Tracked(u)) => semanticCache[u] = NoStream
        /\ (q.pc = "reply" /\ q.snapshot = NoText /\ q.answer # NoText)
              => semanticCache[u] = NoStream

\* What a step of the store does to the cached stream of a document.
StreamStep(u) ==
    /\ semanticCache'[u] \in {semanticCache[u], NoStream}
    /\ (~Tracked(u) /\ Tracked(u)') => semanticCache'[u] = NoStream

LEMMA StreamSteps ==
    ASSUME TypeOK, StoreNext
    PROVE  \A u \in Urls : StreamStep(u)
  <1> USE DEF environment, store
  <1>1. ASSUME UNCHANGED <<documents, semanticCache>>
        PROVE  \A u \in Urls : StreamStep(u)
    BY <1>1 DEF StreamStep, Tracked
  <1>2. ASSUME NEW v \in Urls, NEW text, NEW version, NEW origin,
               InsertDocument(v, text, version, origin)
        PROVE  \A u \in Urls : StreamStep(u)
    BY <1>2 DEF InsertDocument, StreamStep, Tracked, TypeOK
  <1>3. ASSUME NEW S, RemoveDocuments(S)
        PROVE  \A u \in Urls : StreamStep(u)
    BY <1>3 DEF RemoveDocuments, StreamStep, Tracked, Untracked
  <1>4. CASE Disk
    BY <1>1, <1>4 DEF Disk, WriteFile, DeleteFile, EditorWrites, EditIgnoreFile
  <1>5. ASSUME NEW v \in Urls, NEW version, DidChange(v, version)
        PROVE  \A u \in Urls : StreamStep(u)
    <2>1. CASE ~Tracked(v)
      BY <1>1, <1>5, <2>1 DEF DidChange
    <2>2. CASE Tracked(v)
      <3>1. semanticCache' = semanticCache
        BY <1>5 DEF DidChange
      <3>2. \A u \in Urls : u # v => documents'[u] = documents[u]
        BY <1>5, <2>2 DEF DidChange, TypeOK
      <3> QED
        BY <2>2, <3>1, <3>2 DEF StreamStep, Tracked
    <2> QED
      BY <2>1, <2>2
  <1>6. ASSUME NEW v \in Urls, NEW withText, DidSave(v, withText)
        PROVE  \A u \in Urls : StreamStep(u)
    <2>1. CASE UNCHANGED <<documents, semanticCache>>
      BY <1>1, <2>1
    <2>2. CASE RemoveDocuments({v})
      BY <1>3, <2>2
    <2>3. CASE /\ semanticCache' = [semanticCache EXCEPT ![v] = NoStream]
               /\ \A u \in Urls : u # v => documents'[u] = documents[u]
      BY <2>3 DEF StreamStep, Tracked, TypeOK
    <2> QED
      BY <1>6, <2>1, <2>2, <2>3 DEF DidSave, TypeOK
  <1>7. ASSUME NEW v \in Urls, NEW version, DidOpen(v, version)
        PROVE  \A u \in Urls : StreamStep(u)
    BY <1>2, <1>7 DEF DidOpen
  <1>8. ASSUME NEW v \in Urls, DidClose(v)
        PROVE  \A u \in Urls : StreamStep(u)
    BY <1>1, <1>3, <1>8 DEF DidClose
  <1>9. CASE Installations
    <2>1. mainLoop.url \in Urls
      BY <1>9 DEF Installations, DidCloseInstall, DidChangeRecover, WatchedFileInstall, TypeOK,
                  Handler, Idle
    <2> QED
      BY <1>1, <1>2, <1>3, <1>9, <2>1
         DEF Installations, DidCloseInstall, DidChangeRecover, WatchedFileInstall
  <1>10. CASE Notifications
    <2>1. ASSUME NEW v \in Urls, NEW kind, WatchedFileEvent(kind, v)
          PROVE  \A u \in Urls : StreamStep(u)
      BY <1>1, <1>3, <2>1 DEF WatchedFileEvent
    <2>2. ASSUME NEW removed, NEW added, FoldersChange(removed, added)
          PROVE  \A u \in Urls : StreamStep(u)
      BY <1>3, <2>2 DEF FoldersChange
    <2>3. ASSUME NEW on, SetEnabled(on)
          PROVE  \A u \in Urls : StreamStep(u)
      BY <1>3, <2>3 DEF SetEnabled
    <2>4. ASSUME NEW v \in Urls, FileGone(v)
          PROVE  \A u \in Urls : StreamStep(u)
      BY <1>3, <2>4 DEF FileGone
    <2>5. CASE IgnoreFileEvent \/ WatchersAccepted
      BY <1>1, <2>5 DEF IgnoreFileEvent, WatchersAccepted
    <2> QED
      BY <1>5, <1>6, <1>7, <1>8, <1>10, <2>1, <2>2, <2>3, <2>4, <2>5 DEF Notifications
  <1> QED
    BY <1>4, <1>9, <1>10 DEF StoreNext

LEMMA TextsRealInit ==
    ASSUME StoreInit
    PROVE  TextsReal
  BY DEF StoreInit, TextsReal, Real, Exists, NoFile, NoStamp, NoText, Closed, Tracked, Untracked

LEMMA TextsRealStep ==
    ASSUME TypeOK, TextsReal, StoreNext
    PROVE  TextsReal'
  <1> USE DEF environment, store
  <1>0. /\ \A u \in Urls : Real(u)
        /\ \A u \in Urls : ReadableByPath(u) => disk[u].text # NoText
        /\ clock \in Nat /\ clock + 1 # NoText /\ Mangled # NoText
    BY StoreAssumption DEF TextsReal, Real, ReadableByPath, TypeOK, Tick, Mangled, NoText
  <1>1. ASSUME NEW v \in Urls, NEW text, NEW version, NEW origin, text # NoText,
               InsertDocument(v, text, version, origin)
        PROVE  \A u \in Urls : Tracked(u)' => documents'[u].text # NoText
    BY <1>0, <1>1, InsertAt DEF Real, Tracked
  <1>2. ASSUME NEW S, RemoveDocuments(S)
        PROVE  \A u \in Urls : Tracked(u)' => documents'[u].text # NoText
    BY <1>0, <1>2, RemoveAt DEF Real, Tracked
  <1>3. ASSUME UNCHANGED <<disk, editor, mainLoop>>,
               \A u \in Urls : Tracked(u)' => documents'[u].text # NoText
        PROVE  TextsReal'
    BY <1>3 DEF TextsReal, Real, Exists
  <1>4. CASE Disk
    <2>1. UNCHANGED <<documents, mainLoop>>
      BY <1>4 DEF Disk, WriteFile, DeleteFile, EditorWrites, EditIgnoreFile
    <2>2. \A u \in Urls : /\ editor'[u].open = editor[u].open
                          /\ editor'[u].text = editor[u].text
      BY <1>4 DEF Disk, WriteFile, DeleteFile, EditorWrites, EditIgnoreFile, TypeOK, Buffer
    <2>3. \A u \in Urls : disk'[u] \in {disk[u], NoFile} \/ disk'[u].text # NoText
      BY <1>0, <1>4 DEF Disk, WriteFile, DeleteFile, EditorWrites, EditIgnoreFile, TypeOK, Real
    <2> QED
      BY <1>0, <2>1, <2>2, <2>3 DEF TextsReal, Real, Exists, Tracked
  <1>5. ASSUME NEW u \in Urls, NEW version, DidOpen(u, version)
        PROVE  TextsReal'
    <2> DEFINE text == IF clock' = clock THEN disk[u].text ELSE clock'
    <2>1. text # NoText
      BY <1>0, <1>5 DEF DidOpen, Real
    <2>2. InsertDocument(u, text, version, "Open")
      BY <1>5 DEF DidOpen
    <2>3. \A w \in Urls : Tracked(w)' => documents'[w].text # NoText
      BY <1>1, <2>1, <2>2
    <2>4. \A w \in Urls : editor'[w].open => editor'[w].text # NoText
      BY <1>0, <1>5, <2>1 DEF DidOpen, Real, TypeOK
    <2>5. UNCHANGED <<disk, mainLoop>>
      BY <1>5 DEF DidOpen
    <2> QED
      BY <1>0, <2>3, <2>4, <2>5 DEF TextsReal, Real, Exists
  <1>6. ASSUME NEW u \in Urls, NEW version \in ClientVersions, DidChange(u, version)
        PROVE  TextsReal'
    <2>1. editor' = [editor EXCEPT ![u] = [@ EXCEPT !.text = clock', !.version = version]]
          /\ clock' # NoText /\ disk' = disk
      BY <1>0, <1>6 DEF DidChange
    <2>2. \A w \in Urls : editor'[w].open => editor'[w].text # NoText
      BY <1>0, <2>1 DEF Real, TypeOK, Buffer
    <2>3. ASSUME NEW text, text # NoText, Tracked(u),
                 documents' = [documents EXCEPT ![u] = EditedEntry(@, text, version)]
          PROVE  \A w \in Urls : Tracked(w)' => documents'[w].text # NoText
      <3>1. documents'[u].text = text /\ \A w \in Urls \ {u} : documents'[w] = documents[w]
        BY <2>3, EditedAt
      <3> QED
        BY <1>0, <2>3, <3>1 DEF Real, Tracked
    <2>4. \A w \in Urls : Tracked(w)' => documents'[w].text # NoText
      <3>1. CASE documents' = documents
        BY <1>0, <3>1 DEF Real, Tracked
      <3> QED
        BY <1>0, <1>6, <2>1, <2>3, <3>1 DEF DidChange
    <2>5. (mainLoop' # Idle /\ mainLoop'.readable) => mainLoop'.text # NoText
      BY <1>0, <1>6 DEF DidChange, MainLoopFree
    <2> QED
      BY <1>0, <2>1, <2>2, <2>4, <2>5 DEF TextsReal, Real, Exists
  <1>7. ASSUME NEW u \in Urls, NEW withText, DidSave(u, withText)
        PROVE  TextsReal'
    <2>1. \A w \in Urls : /\ editor'[w].open = editor[w].open
                          /\ editor'[w].text = editor[w].text
      BY <1>7 DEF DidSave, TypeOK, Buffer
    <2>2. UNCHANGED <<disk, mainLoop>> /\ editor[u].open
      BY <1>7 DEF DidSave
    <2>3. ASSUME NEW text, text # NoText, Tracked(u),
                 documents' = [documents EXCEPT ![u].text = text]
          PROVE  \A w \in Urls : Tracked(w)' => documents'[w].text # NoText
      BY <1>0, <2>3, SavedAt DEF Real, Tracked
    <2>4. \A w \in Urls : Tracked(w)' => documents'[w].text # NoText
      <3>1. CASE documents' = documents
        BY <1>0, <3>1 DEF Real, Tracked
      <3>2. CASE RemoveDocuments({u})
        BY <1>2, <3>2
      <3>3. CASE /\ Tracked(u) /\ (withText \/ ReadableByPath(u))
                 /\ documents' = [documents EXCEPT ![u].text =
                        IF withText THEN editor[u].text ELSE disk[u].text]
        <4>1. (IF withText THEN editor[u].text ELSE disk[u].text) # NoText
          BY <1>0, <2>2, <3>3 DEF Real
        <4> QED
          BY <2>3, <3>3, <4>1
      <3> QED
        BY <1>7, <3>1, <3>2, <3>3 DEF DidSave
    <2> QED
      BY <1>0, <2>1, <2>2, <2>4 DEF TextsReal, Real, Exists
  <1>8. ASSUME NEW u \in Urls, DidClose(u)
        PROVE  TextsReal'
    <2>1. \A w \in Urls : Tracked(w)' => documents'[w].text # NoText
      BY <1>0, <1>2, <1>8 DEF DidClose, Real, Tracked
    <2>2. disk' = disk /\ \A w \in Urls : editor'[w].open => editor'[w] = editor[w]
      BY <1>8 DEF DidClose, Closed, TypeOK
    <2>3. (mainLoop' # Idle /\ mainLoop'.readable) => mainLoop'.text # NoText
      BY <1>0, <1>8 DEF DidClose, MainLoopFree
    <2> QED
      BY <1>0, <2>1, <2>2, <2>3 DEF TextsReal, Real, Exists
  <1>9. CASE Installations
    <2>0. UNCHANGED <<disk, editor>> /\ mainLoop' = Idle /\ mainLoop # Idle
      BY <1>9 DEF Installations, DidCloseInstall, DidChangeRecover, WatchedFileInstall, Idle
    <2>1. /\ UNCHANGED <<disk, editor>> /\ mainLoop' = Idle /\ mainLoop # Idle
          /\ mainLoop.url \in Urls
      BY <2>0 DEF TypeOK, Handler
    <2>2. mainLoop.readable => mainLoop.text # NoText
      BY <2>1 DEF TextsReal
    <2>3. \A w \in Urls : Tracked(w)' => documents'[w].text # NoText
      <3>1. CASE documents' = documents
        BY <1>0, <3>1 DEF Real, Tracked
      <3>2. ASSUME NEW origin, mainLoop.readable,
                   InsertDocument(mainLoop.url, mainLoop.text, mainLoop.version, origin)
            PROVE  \A w \in Urls : Tracked(w)' => documents'[w].text # NoText
        BY <1>1, <2>1, <2>2, <3>2
      <3> QED
        BY <1>2, <1>9, <3>1, <3>2
           DEF Installations, DidCloseInstall, DidChangeRecover, WatchedFileInstall
    <2> QED
      BY <1>0, <2>1, <2>3 DEF TextsReal, Real, Exists
  <1>10. CASE Notifications
    <2>1. ASSUME NEW u \in Urls, NEW kind, WatchedFileEvent(kind, u)
          PROVE  TextsReal'
      <3>1. UNCHANGED <<disk, editor>> /\ mainLoop = Idle
        BY <2>1 DEF WatchedFileEvent, MainLoopFree
      <3>2. \A w \in Urls : Tracked(w)' => documents'[w].text # NoText
        BY <1>0, <1>2, <2>1 DEF WatchedFileEvent, Real, Tracked
      <3>3. (mainLoop' # Idle /\ mainLoop'.readable) => mainLoop'.text # NoText
        BY <1>0, <2>1, <3>1 DEF WatchedFileEvent
      <3> QED
        BY <1>0, <3>1, <3>2, <3>3 DEF TextsReal, Real, Exists
    <2>2. ASSUME NEW removed, NEW added, FoldersChange(removed, added)
          PROVE  TextsReal'
      BY <1>2, <1>3, <2>2 DEF FoldersChange
    <2>3. ASSUME NEW on, SetEnabled(on)
          PROVE  TextsReal'
      BY <1>2, <1>3, <2>3 DEF SetEnabled
    <2>4. ASSUME NEW u \in Urls, FileGone(u)
          PROVE  TextsReal'
      BY <1>2, <1>3, <2>4 DEF FileGone
    <2>5. CASE IgnoreFileEvent \/ WatchersAccepted
      <3>1. UNCHANGED <<disk, editor, mainLoop, documents>>
        BY <2>5 DEF IgnoreFileEvent, WatchersAccepted
      <3> QED
        BY <1>0, <1>3, <3>1 DEF Real, Tracked
    <2> QED
      BY <1>5, <1>6, <1>7, <1>8, <1>10, <2>1, <2>2, <2>3, <2>4, <2>5 DEF Notifications
  <1> QED
    BY <1>4, <1>9, <1>10 DEF StoreNext

CacheSound ==
    /\ TextsReal
    /\ CacheIsClients
    /\ \A r \in Requests : RequestKnows(r)

LEMMA CacheInit ==
    ASSUME DispatchInit
    PROVE  CacheSound
  <1>1. TextsReal
    BY TextsRealInit DEF DispatchInit
  <1>2. CacheIsClients
    BY DEF DispatchInit, StoreInit, CacheIsClients
  <1>3. ASSUME NEW r \in Requests
        PROVE  RequestKnows(r)
    <2>1. PICK u \in Urls : request[r] =
             Idle_([pc |-> "idle", kind |-> "other", url |-> u, tracked |-> FALSE,
                    version |-> 0, file |-> NoFile, snapshot |-> 0, answer |-> 0,
                    base |-> 0])
      BY DEF DispatchInit
    <2> QED
      BY <2>1 DEF Idle_, RequestKnows
  <1> QED
    BY <1>1, <1>2, <1>3 DEF CacheSound

LEMMA CacheStoreStep ==
    ASSUME DispatchTypeOK, CacheSound, StoreNext, UNCHANGED dispatchVars
    PROVE  CacheSound'
  <1>1. TypeOK /\ TextsReal /\ CacheIsClients /\ (\A r \in Requests : RequestKnows(r))
        /\ request' = request /\ held' = held
    BY DEF DispatchTypeOK, CacheSound, dispatchVars
  <1>2. \A u \in Urls : StreamStep(u)
    BY <1>1, StreamSteps
  <1>3. TextsReal'
    BY <1>1, TextsRealStep
  <1>4. CacheIsClients'
    BY <1>1, <1>2 DEF CacheIsClients, StreamStep
  <1>5. ASSUME NEW r \in Requests
        PROVE  RequestKnows(r)'
    <2>1. request[r].url \in Urls
      BY RequestTypes
    <2> QED
      BY <1>1, <1>2, <2>1 DEF RequestKnows, StreamStep
  <1> QED
    BY <1>3, <1>4, <1>5 DEF CacheSound

\* Whichever stream the reply carries, cache and client end with the same.
LEMMA ReplyCaches ==
    ASSUME DispatchTypeOK, CacheSound, NEW r \in Requests, Reply(r)
    PROVE  CacheIsClients'
  <1> DEFINE u == request[r].url
             answer == request[r].answer
  <1>0. /\ u \in Urls
        /\ CacheIsClients /\ RequestKnows(r)
        /\ held \in [Urls -> Tick] /\ semanticCache \in [Urls -> Tick]
        /\ request[r].pc = "reply"
    BY RequestTypes DEF CacheSound, DispatchTypeOK, TypeOK, Reply
  <1>1. CASE UNCHANGED <<semanticCache, held>>
    BY <1>0, <1>1 DEF CacheIsClients
  <1>2. CASE /\ Caches(r)
             /\ held' = [held EXCEPT ![u] = answer]
             /\ semanticCache' = [semanticCache EXCEPT ![u] = answer]
    BY <1>0, <1>2 DEF CacheIsClients
  <1>3. CASE /\ semanticCache' = semanticCache
             /\ semanticCache[u] = NoStream
             /\ held' = [held EXCEPT ![u] = answer]
    BY <1>0, <1>3 DEF CacheIsClients
  <1>4. answer # NoText /\ ~Caches(r) => semanticCache[u] = NoStream
    BY <1>0 DEF RequestKnows, Caches
  <1>5. CASE /\ semanticCache' = IF Caches(r) THEN [semanticCache EXCEPT ![u] = answer]
                                 ELSE semanticCache
             /\ held' = IF answer # NoText THEN [held EXCEPT ![u] = answer] ELSE held
    <2>1. CASE Caches(r)
      BY <1>2, <1>5, <2>1 DEF Caches
    <2>2. CASE ~Caches(r)
      BY <1>1, <1>3, <1>4, <1>5, <2>2
    <2> QED
      BY <2>1, <2>2
  <1>6. CASE /\ request[r].kind = "delta"
             /\ semanticCache' =
                    IF Caches(r) /\ semanticCache[u] # NoStream
                    THEN [semanticCache EXCEPT ![u] = Spliced(@, request[r].base, answer)]
                    ELSE semanticCache
             /\ held' = IF answer # NoText THEN [held EXCEPT ![u] = answer] ELSE held
    <2>1. CASE Caches(r) /\ semanticCache[u] # NoStream
      <3>1. semanticCache[u] = request[r].base
        BY <1>0, <1>6, <2>1 DEF RequestKnows, CacheIsClients
      <3>2. semanticCache' = [semanticCache EXCEPT ![u] = answer]
        BY <1>6, <2>1, <3>1 DEF Spliced
      <3> QED
        BY <1>2, <1>6, <2>1, <3>2 DEF Caches
    <2>2. CASE ~(Caches(r) /\ semanticCache[u] # NoStream)
      BY <1>1, <1>3, <1>4, <1>6, <2>2
    <2> QED
      BY <2>1, <2>2
  <1> QED
    BY <1>1, <1>5, <1>6 DEF Reply

LEMMA CacheRequestStep ==
    ASSUME OneRequest, DispatchTypeOK, CacheSound, NEW r \in Requests, RequestStep(r)
    PROVE  CacheSound'
  <1> USE DEF storeVars, environment, store
  <1>0. /\ request[r] \in Request /\ Idle_(request[r]) \in Request
        /\ request \in [Requests -> Request] /\ request[r].url \in Urls
        /\ TextsReal /\ CacheIsClients /\ RequestKnows(r)
    BY RequestTypes DEF DispatchTypeOK, CacheSound
  <1>1. TextsReal'
    <2>1. UNCHANGED <<disk, editor, documents, mainLoop>>
      BY DEF RequestStep, Arrives, Prime, PrimeProbes, PrimeReads, PrimeInserts, Primed,
             HandlerAnswers, HandlerFails,
             ContentModified, Reply
    <2> QED
      BY <1>0, <2>1 DEF TextsReal, Real, Exists, Tracked
  <1>2. CacheIsClients'
    <2>1. CASE Reply(r)
      BY <2>1, ReplyCaches
    <2>2. CASE UNCHANGED <<semanticCache, held>>
      BY <1>0, <2>2 DEF CacheIsClients
    <2> QED
      BY <2>1, <2>2 DEF RequestStep, Arrives, Prime, PrimeProbes, PrimeReads, PrimeInserts, Primed,
                        HandlerAnswers, HandlerFails,
                        ContentModified
  <1>3. ASSUME NEW rec \in Request, request'[r] = Probed(rec),
               rec.kind = "delta" => rec.base = held[rec.url],
               UNCHANGED <<documents, semanticCache, held>>
        PROVE  RequestKnows(r)'
    <2>1. /\ request'[r].url = rec.url
          /\ request'[r].pc = "handle"
          /\ request'[r].kind = rec.kind
          /\ request'[r].base = rec.base
          /\ request'[r].snapshot = ConversionText(rec.url)
      BY <1>3 DEF Probed, Request
    <2>2. rec.url \in Urls
      BY DEF Request
    <2>3. Tracked(rec.url) => ConversionText(rec.url) # NoText
      BY <1>0, <2>2 DEF ConversionText, TextsReal, Real
    <2> QED
      BY <1>3, <2>1, <2>3 DEF RequestKnows, Tracked
  <1>4. RequestKnows(r)'
    <2>1. ASSUME NEW u \in Urls, NEW kind \in Kinds, Arrives(r, u, kind)
          PROVE  RequestKnows(r)'
      <3> DEFINE fresh == [request[r] EXCEPT !.pc = "prime", !.kind = kind, !.url = u,
                               !.base = IF kind = "delta" THEN held[u] ELSE NoStream]
      <3>1. /\ fresh \in Request /\ fresh.pc = "prime" /\ fresh.url = u
            /\ fresh.kind = "delta" => fresh.base = held[u]
        <4>1. NoStream \in Tick /\ held[u] \in Tick
          BY StoreAssumption DEF DispatchTypeOK, NoStream, Tick
        <4> QED
          BY <1>0, <4>1 DEF Request
      <3>2. request'[r] = IF Tracked(u) THEN Probed(fresh) ELSE fresh
        BY <1>0, <2>1 DEF Arrives
      <3>3. UNCHANGED <<documents, semanticCache, held>>
        BY <2>1 DEF Arrives
      <3>4. CASE Tracked(u)
        BY <1>3, <3>1, <3>2, <3>3, <3>4
      <3>5. CASE ~Tracked(u)
        BY <3>1, <3>2, <3>3, <3>5 DEF RequestKnows
      <3> QED
        BY <3>4, <3>5
    <2>2. CASE Prime(r)
      <3>1. /\ request'[r].pc \in {"read", "insert", "primed"} /\ request'[r].url = request[r].url
            /\ request'[r].kind = request[r].kind /\ request'[r].base = request[r].base
            /\ request[r].pc \in {"prime", "read", "insert"} /\ held' = held
        BY <2>2, PrimeSteps
      <3> QED
        BY <1>0, <3>1 DEF RequestKnows
    <2>3. CASE Primed(r)
      <3>1. /\ request[r].pc = "primed" /\ UNCHANGED <<documents, semanticCache, held>>
            /\ request'[r] = Probed(request[r])
        BY <1>0, <2>3 DEF Primed
      <3>2. request[r].kind = "delta" => request[r].base = held[request[r].url]
        BY <1>0, <3>1 DEF RequestKnows
      <3> QED
        BY <1>0, <1>3, <3>1, <3>2
    <2>4. CASE HandlerAnswers(r)
      <3> DEFINE u == request[r].url
      <3>1. /\ request[r].pc = "handle" /\ UNCHANGED <<semanticCache, held>>
            /\ request'[r] = [request[r] EXCEPT !.pc = "reply", !.answer = documents[u].text]
        BY <1>0, <2>4 DEF HandlerAnswers
      <3>2. /\ request'[r].pc = "reply" /\ request'[r].url = u
            /\ request'[r].kind = request[r].kind /\ request'[r].base = request[r].base
            /\ request'[r].snapshot = request[r].snapshot
            /\ request'[r].answer = documents[u].text
        BY <1>0, <3>1 DEF Request
      <3>3. documents[u].text # NoText => Tracked(u)
        <4>1. documents[u] \in Entry
          BY <1>0 DEF DispatchTypeOK, TypeOK
        <4> QED
          BY <4>1 DEF Entry, Tracked, Untracked, NoText
      <3> QED
        BY <1>0, <3>1, <3>2, <3>3 DEF RequestKnows
    <2>5. CASE HandlerFails(r) \/ ContentModified(r) \/ Reply(r)
      <3>1. request'[r] = Idle_(request[r])
        BY <1>0, <2>5 DEF HandlerFails, ContentModified, Reply
      <3>2. request'[r].pc = "idle"
        BY <1>0, <3>1 DEF Idle_, Request
      <3> QED
        BY <3>2 DEF RequestKnows
    <2> QED
      BY <2>1, <2>2, <2>3, <2>4, <2>5 DEF RequestStep
  <1>5. \A s \in Requests : RequestKnows(s)'
    BY <1>4 DEF OneRequest
  <1> QED
    BY <1>1, <1>2, <1>5 DEF CacheSound

LEMMA CacheStep ==
    ASSUME OneRequest, DispatchTypeOK, CacheSound, [DispatchNext]_vars
    PROVE  CacheSound'
  <1>1. CASE StoreNext /\ UNCHANGED dispatchVars
    BY <1>1, CacheStoreStep
  <1>2. CASE \E r \in Requests : RequestStep(r)
    BY <1>2, CacheRequestStep
  <1>3. CASE UNCHANGED vars
    BY <1>3 DEF vars, dispatchVars, storeVars, environment, store, CacheSound, TextsReal, Real,
                Exists, Tracked, CacheIsClients, RequestKnows
  <1> QED
    BY <1>1, <1>2, <1>3 DEF DispatchNext

\* With one token request at a time, whichever documents they name and
\* whatever becomes of those meanwhile, a cached stream is the one the client
\* holds: a delta is spliced into the stream it was made for.
THEOREM DispatchCacheIsClients ==
    ASSUME OneRequest
    PROVE  DispatchSpec => []CacheIsClients
  <1>1. DispatchInit => DispatchTypeOK /\ CacheSound
    BY DispatchTypeInit, CacheInit
  <1>2. DispatchTypeOK /\ CacheSound /\ [DispatchNext]_vars => DispatchTypeOK' /\ CacheSound'
    BY DispatchTypeStep, CacheStep
  <1>3. CacheSound => CacheIsClients
    BY DEF CacheSound
  <1> QED
    BY <1>1, <1>2, <1>3, PTL DEF DispatchSpec

=============================================================================
