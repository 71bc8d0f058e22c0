------------------------- MODULE DocumentStoreProofs -------------------------
(***************************************************************************)
(* Proofs about DocumentStore for any files, folders and bounds: the type  *)
(* invariant, and who owns a document.                                     *)
(***************************************************************************)
EXTENDS DocumentStore, TLAPS

-----------------------------------------------------------------------------
(* The two ways an entry comes and goes keep the types *)

LEMMA EntryTypes ==
    ASSUME StoreAssumption, TypeOK, NEW u \in Urls
    PROVE  /\ disk[u].text \in Tick /\ disk[u].stamp \in Tick
           /\ documents[u] \in Entry
           /\ Tracked(u) => documents[u] \in
                [text: Tick, version: Nat, stamp: Tick, origin: {"Open", "Workspace"}]
           /\ editor[u].text \in Tick /\ editor[u].version \in Nat
           /\ Untracked \in Entry /\ NoFile \in File
           /\ NoStamp \in Tick /\ NoStream \in Tick /\ Mangled \in Tick
  BY SMT DEF StoreAssumption, TypeOK, Tick, File, Entry, Untracked, Tracked, Buffer, NoFile,
             NoStamp, NoStream, Mangled

LEMMA BufferEdited ==
    ASSUME NEW f \in [Urls -> Buffer], NEW u \in Urls, NEW text \in Tick, NEW version \in Nat
    PROVE  [f EXCEPT ![u] = [@ EXCEPT !.text = text,
                                      !.version = version]] \in [Urls -> Buffer]
  BY DEF Buffer

LEMMA EntryEdited ==
    ASSUME StoreAssumption, TypeOK, NEW u \in Urls, Tracked(u), NEW text \in Tick,
           NEW version \in Nat
    PROVE  [documents EXCEPT ![u] = EditedEntry(@, text, version)] \in [Urls -> Entry]
  <1>1. EditedEntry(documents[u], text, version) \in Entry
    BY EntryTypes DEF EditedEntry, Entry
  <1> QED
    BY <1>1 DEF TypeOK

LEMMA HandlerTypes ==
    ASSUME StoreAssumption, TypeOK, NEW u \in Urls, NEW version \in Nat,
           NEW op \in {"close", "watch", "recover"}
    PROVE  [op |-> op, url |-> u, text |-> disk[u].text, readable |-> ReadableByPath(u),
            version |-> version] \in Handler
  <1>1. ReadableByPath(u) \in BOOLEAN
    BY DEF ReadableByPath, Exists
  <1> QED
    BY <1>1, EntryTypes DEF Handler

LEMMA InsertTypes ==
    ASSUME StoreAssumption, TypeOK, NEW u \in Urls, NEW text \in Tick, NEW version \in Nat,
           NEW origin \in {"Open", "Workspace"}, InsertDocument(u, text, version, origin)
    PROVE  documents' \in [Urls -> Entry] /\ semanticCache' \in [Urls -> Tick]
  <1>1. [text |-> text, version |-> version, stamp |-> NoStamp, origin |-> origin] \in Entry
    BY EntryTypes DEF Entry
  <1>2. NoStream \in Tick
    BY EntryTypes
  <1> QED
    BY <1>1, <1>2 DEF InsertDocument, TypeOK

LEMMA RemoveTypes ==
    ASSUME StoreAssumption, TypeOK, NEW S, RemoveDocuments(S)
    PROVE  documents' \in [Urls -> Entry] /\ semanticCache' \in [Urls -> Tick]
  BY EntryTypes DEF RemoveDocuments, TypeOK

LEMMA WalkCacheTypes ==
    ASSUME TypeOK, WalkCacheInvalidate \/ WalkCacheClear
    PROVE  walkCache' \in WalkList
  <1>1. CASE WalkCacheInvalidate
    BY <1>1 DEF TypeOK, WalkList, WalkCacheInvalidate
  <1>2. CASE WalkCacheClear
    BY <1>2 DEF WalkList, WalkCacheClear
  <1> QED
    BY <1>1, <1>2

LEMMA NoticeTypes ==
    ASSUME TypeOK, NEW u \in Urls, NEW kind \in {"created", "changed", "deleted"},
           Notice(kind, u)
    PROVE  events' \subseteq Event
  BY DEF TypeOK, Event, Notice

LEMMA ClockTypes ==
    ASSUME StoreAssumption, TypeOK, clock < MaxClock, clock' = clock + 1
    PROVE  clock' \in Tick
  BY DEF StoreAssumption, TypeOK, Tick

-----------------------------------------------------------------------------
(* The type invariant *)

LEMMA TypeInit ==
    ASSUME StoreAssumption, StoreInit
    PROVE  TypeOK
  <1> DEFINE first == [text |-> 1, stamp |-> 1]
  <1>0. NoFile \in File /\ first \in File
    BY DEF StoreAssumption, NoFile, NoStamp, File, Tick
  <1>1. disk \in [Urls -> File]
    BY <1>0 DEF StoreInit
  <1>2. documents \in [Urls -> Entry] /\ semanticCache \in [Urls -> Tick]
    BY DEF StoreInit, StoreAssumption, Entry, NoStream, Tick
  <1>3. editor \in [Urls -> Buffer]
    BY DEF StoreInit, StoreAssumption, Buffer, Closed, Tick
  <1>4. walkCache \in WalkList
    BY DEF StoreInit, WalkCacheNew, WalkList
  <1>5. clock \in Tick
    BY DEF StoreInit, StoreAssumption, Tick
  <1> QED
    BY <1>1, <1>2, <1>3, <1>4, <1>5 DEF StoreInit, TypeOK

LEMMA TypeStep ==
    ASSUME StoreAssumption, TypeOK, [StoreNext]_storeVars
    PROVE  TypeOK'
  <1> USE DEF environment, store
  <1>1. ASSUME NEW u \in Urls, WriteFile(u)
        PROVE  TypeOK'
    <2>1. clock' \in Tick
      BY <1>1, ClockTypes DEF WriteFile
    <2>2. disk' \in [Urls -> File]
      BY <1>1, <2>1 DEF WriteFile, TypeOK, File
    <2>3. events' \subseteq Event
      BY <1>1, NoticeTypes DEF WriteFile
    <2> QED
      BY <1>1, <2>1, <2>2, <2>3 DEF WriteFile, TypeOK
  <1>2. ASSUME NEW u \in Urls, DeleteFile(u)
        PROVE  TypeOK'
    <2>1. clock' \in Tick
      BY <1>2, ClockTypes DEF DeleteFile
    <2>2. disk' \in [Urls -> File]
      BY <1>2, EntryTypes DEF DeleteFile, TypeOK
    <2>3. events' \subseteq Event
      BY <1>2, NoticeTypes DEF DeleteFile
    <2> QED
      BY <1>2, <2>1, <2>2, <2>3 DEF DeleteFile, TypeOK
  <1>3. ASSUME NEW u \in Urls, EditorWrites(u)
        PROVE  TypeOK'
    <2>1. clock' \in Tick
      BY <1>3, ClockTypes DEF EditorWrites
    <2>2. disk' \in [Urls -> File]
      BY <1>3, <2>1, EntryTypes DEF EditorWrites, TypeOK, File
    <2>3. events' \subseteq Event
      BY <1>3, NoticeTypes DEF EditorWrites
    <2>4. editor' \in [Urls -> Buffer]
      BY <1>3 DEF EditorWrites, TypeOK, Buffer
    <2> QED
      BY <1>3, <2>1, <2>2, <2>3, <2>4 DEF EditorWrites, TypeOK
  <1>4. ASSUME NEW S \in SUBSET Ignorable, EditIgnoreFile(S)
        PROVE  TypeOK'
    <2>1. clock' \in Tick
      BY <1>4, ClockTypes DEF EditIgnoreFile
    <2>2. events' \subseteq Event
      BY <1>4 DEF EditIgnoreFile, TypeOK, Event
    <2> QED
      BY <1>4, <2>1, <2>2 DEF EditIgnoreFile, TypeOK
  <1>5. ASSUME NEW u \in Urls, NEW version \in ClientVersions, DidOpen(u, version)
        PROVE  TypeOK'
    <2> DEFINE text == IF clock' = clock THEN disk[u].text ELSE clock'
    <2>0. version \in Nat
      BY DEF StoreAssumption
    <2>1. clock' \in Tick
      BY <1>5, ClockTypes DEF DidOpen, TypeOK
    <2>2. text \in Tick
      BY <2>1, EntryTypes
    <2>3. editor' \in [Urls -> Buffer]
      BY <1>5, <2>0, <2>2 DEF DidOpen, TypeOK, Buffer
    <2>4. documents' \in [Urls -> Entry] /\ semanticCache' \in [Urls -> Tick]
      BY <1>5, <2>0, <2>2, InsertTypes DEF DidOpen
    <2> QED
      BY <1>5, <2>1, <2>3, <2>4 DEF DidOpen, TypeOK
  <1>6. ASSUME NEW u \in Urls, NEW version \in ClientVersions, DidChange(u, version)
        PROVE  TypeOK'
    <2>0. version \in Nat
      BY DEF StoreAssumption
    <2>1. clock' \in Tick
      BY <1>6, ClockTypes DEF DidChange
    <2>2. editor' \in [Urls -> Buffer]
      BY <1>6, <2>0, <2>1, BufferEdited DEF DidChange, TypeOK
    <2>3. documents' \in [Urls -> Entry]
      <3>1. CASE ~Tracked(u)
        BY <1>6, <3>1 DEF DidChange, TypeOK
      <3>2. CASE Tracked(u)
        <4>1. PICK text \in {clock', Mangled} :
                 documents' = [documents EXCEPT ![u] = EditedEntry(@, text, version)]
          BY <1>6, <3>2 DEF DidChange
        <4>2. text \in Tick
          BY <2>1, EntryTypes
        <4> QED
          BY <2>0, <3>2, <4>1, <4>2, EntryEdited
      <3> QED
        BY <3>1, <3>2
    <2>4. mainLoop' \in Handler \cup {Idle}
      <3> DEFINE handler == [op |-> "recover", url |-> u, text |-> disk[u].text,
                             readable |-> ReadableByPath(u), version |-> version]
      <3>1. handler \in Handler
        BY <2>0, HandlerTypes
      <3>2. mainLoop' \in {mainLoop, handler}
        BY <1>6 DEF DidChange
      <3> QED
        BY <3>1, <3>2 DEF TypeOK
    <2> QED
      BY <1>6, <2>1, <2>2, <2>3, <2>4 DEF DidChange, TypeOK
  <1>7. ASSUME NEW u \in Urls, NEW withText \in SaveTexts[u], DidSave(u, withText)
        PROVE  TypeOK'
    <2>1. editor' \in [Urls -> Buffer]
      BY <1>7 DEF DidSave, TypeOK, Buffer
    <2>2. ASSUME Tracked(u), NEW text \in Tick
          PROVE  [documents EXCEPT ![u].text = text] \in [Urls -> Entry]
      BY <2>2, EntryTypes DEF Entry, TypeOK
    <2>3. documents' \in [Urls -> Entry] /\ semanticCache' \in [Urls -> Tick]
      BY <1>7, <2>2, EntryTypes, RemoveTypes DEF DidSave, TypeOK
    <2> QED
      BY <1>7, <2>1, <2>3 DEF DidSave, TypeOK
  <1>8. ASSUME NEW u \in Urls, DidClose(u)
        PROVE  TypeOK'
    <2>1. editor' \in [Urls -> Buffer]
      BY <1>8, EntryTypes DEF DidClose, TypeOK, Buffer, Closed, StoreAssumption, Tick
    <2>2. documents' \in [Urls -> Entry] /\ semanticCache' \in [Urls -> Tick]
      BY <1>8, RemoveTypes DEF DidClose, TypeOK
    <2>3. mainLoop' \in Handler \cup {Idle}
      <3> DEFINE handler == [op |-> "close", url |-> u, text |-> disk[u].text,
                             readable |-> ReadableByPath(u), version |-> 0]
      <3>1. handler \in Handler
        BY HandlerTypes
      <3>2. mainLoop' \in {mainLoop, handler}
        BY <1>8 DEF DidClose
      <3> QED
        BY <3>1, <3>2 DEF TypeOK
    <2> QED
      BY <1>8, <2>1, <2>2, <2>3 DEF DidClose, TypeOK
  <1>9. ASSUME NEW u \in Urls, FileGone(u)
        PROVE  TypeOK'
    BY <1>9, RemoveTypes DEF FileGone, TypeOK
  <1>10. ASSUME NEW u \in Urls, NEW kind \in {"created", "changed", "deleted"},
                WatchedFileEvent(kind, u)
         PROVE  TypeOK'
    <2>1. walkCache' \in WalkList
      BY <1>10, WalkCacheTypes DEF WatchedFileEvent, TypeOK
    <2>2. documents' \in [Urls -> Entry] /\ semanticCache' \in [Urls -> Tick]
      BY <1>10, RemoveTypes DEF WatchedFileEvent, TypeOK
    <2>3. mainLoop' \in Handler \cup {Idle}
      <3> DEFINE handler == [op |-> "watch", url |-> u, text |-> disk[u].text,
                             readable |-> ReadableByPath(u), version |-> 0]
      <3>1. handler \in Handler
        BY HandlerTypes
      <3>2. mainLoop' \in {mainLoop, handler}
        BY <1>10 DEF WatchedFileEvent
      <3> QED
        BY <3>1, <3>2 DEF TypeOK
    <2> QED
      BY <1>10, <2>1, <2>2, <2>3 DEF WatchedFileEvent, TypeOK
  <1>11. CASE IgnoreFileEvent
    <2>1. walkCache' \in WalkList
      BY <1>11, WalkCacheTypes DEF IgnoreFileEvent
    <2> QED
      BY <1>11, <2>1 DEF IgnoreFileEvent, TypeOK
  <1>12. ASSUME NEW removed \in SUBSET Folders, NEW added \in SUBSET Folders,
                FoldersChange(removed, added)
         PROVE  TypeOK'
    <2>1. walkCache' \in WalkList
      BY <1>12, WalkCacheTypes DEF FoldersChange
    <2>2. documents' \in [Urls -> Entry] /\ semanticCache' \in [Urls -> Tick]
      BY <1>12, RemoveTypes DEF FoldersChange
    <2> QED
      BY <1>12, <2>1, <2>2 DEF FoldersChange, TypeOK
  <1>13. ASSUME NEW on \in BOOLEAN, SetEnabled(on)
         PROVE  TypeOK'
    <2>1. walkCache' \in WalkList
      BY <1>13, WalkCacheTypes DEF SetEnabled
    <2>2. documents' \in [Urls -> Entry] /\ semanticCache' \in [Urls -> Tick]
      BY <1>13, RemoveTypes DEF SetEnabled
    <2> QED
      BY <1>13, <2>1, <2>2 DEF SetEnabled, TypeOK
  <1>14. CASE WatchersAccepted
    BY <1>14 DEF WatchersAccepted, TypeOK
  <1>15. CASE Installations
    <2>0. mainLoop \in Handler
      BY <1>15 DEF Installations, DidCloseInstall, DidChangeRecover, WatchedFileInstall,
                   TypeOK, Idle
    <2>1. mainLoop.url \in Urls /\ mainLoop.text \in Tick /\ mainLoop.version \in Nat
      BY <2>0 DEF Handler
    <2>2. documents' \in [Urls -> Entry] /\ semanticCache' \in [Urls -> Tick]
      <3>1. CASE DidCloseInstall
        BY <3>1, <2>1, InsertTypes, RemoveTypes DEF DidCloseInstall
      <3>2. CASE DidChangeRecover
        BY <3>2, <2>1, InsertTypes DEF DidChangeRecover, TypeOK
      <3>3. CASE WatchedFileInstall
        BY <3>3, <2>1, InsertTypes DEF WatchedFileInstall, TypeOK
      <3> QED
        BY <1>15, <3>1, <3>2, <3>3 DEF Installations
    <2> QED
      BY <1>15, <2>2 DEF Installations, DidCloseInstall, DidChangeRecover, WatchedFileInstall,
                         TypeOK
  <1>16. CASE UNCHANGED storeVars
    BY <1>16 DEF storeVars, TypeOK
  <1> QED
    BY <1>1, <1>2, <1>3, <1>4, <1>5, <1>6, <1>7, <1>8, <1>9, <1>10, <1>11, <1>12, <1>13,
       <1>14, <1>15, <1>16 DEF StoreNext, Disk, Notifications

\* Every variable of the store keeps its type, whatever the editor, the disk
\* and the client send: an entry has an origin and a text or is not there at
\* all, and a handler that reads the disk keeps what it needs to install.
THEOREM StoreTypeOK == StoreSpec => []TypeOK
  <1>1. StoreInit => TypeOK
    BY StoreAssumption, TypeInit
  <1>2. TypeOK /\ [StoreNext]_storeVars => TypeOK'
    BY StoreAssumption, TypeStep
  <1> QED
    BY <1>1, <1>2, PTL DEF StoreSpec

-----------------------------------------------------------------------------
(* Who owns a document *)

LEMMA InsertAt ==
    ASSUME TypeOK, NEW u \in Urls, NEW text, NEW version, NEW origin,
           InsertDocument(u, text, version, origin), NEW w \in Urls
    PROVE  /\ w # u => documents'[w] = documents[w]
           /\ documents'[u].text = text
           /\ documents'[u].version = version
           /\ documents'[u].origin = origin
  BY DEF InsertDocument, TypeOK

LEMMA RemoveAt ==
    ASSUME NEW S, RemoveDocuments(S), NEW w \in Urls
    PROVE  /\ w \notin S => documents'[w] = documents[w]
           /\ w \in S => documents'[w].origin = "Untracked"
  BY DEF RemoveDocuments, Untracked

\* What an edit and a save make of an entry.
LEMMA EditedAt ==
    ASSUME TypeOK, NEW u \in Urls, Tracked(u), NEW text, NEW version,
           documents' = [documents EXCEPT ![u] = EditedEntry(@, text, version)]
    PROVE  /\ documents'[u].text = text
           /\ documents'[u].version = version
           /\ documents'[u].origin = "Open"
           /\ \A w \in Urls \ {u} : documents'[w] = documents[w]
  <1>1. documents[u] \in [text: Tick, version: Nat, stamp: Tick, origin: {"Open", "Workspace"}]
    BY StoreAssumption, EntryTypes
  <1> DEFINE edited == EditedEntry(documents[u], text, version)
  <1>2. edited.text = text /\ edited.version = version /\ edited.origin = "Open"
    BY <1>1 DEF EditedEntry
  <1>3. documents' = [documents EXCEPT ![u] = edited]
    OBVIOUS
  <1> HIDE DEF edited
  <1> QED
    BY <1>2, <1>3 DEF TypeOK

LEMMA SavedAt ==
    ASSUME TypeOK, NEW u \in Urls, Tracked(u), NEW text,
           documents' = [documents EXCEPT ![u].text = text]
    PROVE  /\ documents'[u].text = text
           /\ documents'[u].version = documents[u].version
           /\ documents'[u].origin = documents[u].origin
           /\ \A w \in Urls \ {u} : documents'[w] = documents[w]
  <1>1. documents[u] \in [text: Tick, version: Nat, stamp: Tick, origin: {"Open", "Workspace"}]
    BY StoreAssumption, EntryTypes
  <1> QED
    BY <1>1 DEF TypeOK

\* MirrorsEditor is not inductive: a handler that has read the disk goes on
\* to install it, so its document must be one the editor does not have open,
\* or one whose client leaves the text of didSave to the server.
HandlesOwn ==
    mainLoop # Idle =>
        \/ mainLoop.op \in {"close", "watch"} /\ ~editor[mainLoop.url].open
        \/ /\ mainLoop.op = "recover"
           /\ editor[mainLoop.url].open
           /\ mainLoop.version = editor[mainLoop.url].version
           /\ ~(SaveTexts[mainLoop.url] \subseteq {TRUE})

Owner == MirrorsEditor /\ HandlesOwn

LEMMA OwnerInit ==
    ASSUME StoreInit
    PROVE  Owner
  BY DEF StoreInit, Owner, MirrorsEditor, HandlesOwn, Closed

\* A document and a buffer that a step leaves alone stay as they were.
LEMMA MirroredKept ==
    ASSUME NEW u \in Urls, Mirrored(u), documents'[u] = documents[u],
           editor'[u].text = editor[u].text, editor'[u].version = editor[u].version
    PROVE  Mirrored(u)'
  BY DEF Mirrored, Tracked

\* An action that leaves the editor alone and takes only workspace documents
\* away keeps the editor's documents.
LEMMA RemoveKeepsOwner ==
    ASSUME TypeOK, MirrorsEditor, NEW S \in SUBSET WorkspaceOrigin, RemoveDocuments(S),
           UNCHANGED editor
    PROVE  MirrorsEditor'
  <1> SUFFICES ASSUME NEW u \in Urls, editor[u].open
               PROVE  Mirrored(u)'
    BY DEF MirrorsEditor
  <1>1. Mirrored(u) /\ u \notin S
    BY DEF MirrorsEditor, Mirrored, WorkspaceOrigin, OwnedByDisk
  <1> QED
    BY <1>1, RemoveAt, MirroredKept

LEMMA DidChangeOwner ==
    ASSUME TypeOK, Owner, NEW u \in Urls, NEW version \in ClientVersions, DidChange(u, version)
    PROVE  Owner'
  <1>1. /\ Mirrored(u) /\ MirrorsEditor /\ mainLoop = Idle /\ editor[u].open
        /\ editor' = [editor EXCEPT ![u] = [@ EXCEPT !.text = clock',
                                                     !.version = version]]
    BY DEF DidChange, Owner, MirrorsEditor, MainLoopFree
  <1>2. /\ \A w \in Urls \ {u} : editor'[w] = editor[w]
        /\ editor'[u].open /\ editor'[u].text = clock' /\ editor'[u].version = version
    BY <1>1 DEF TypeOK, Buffer
  <1>3. /\ \A w \in Urls \ {u} : documents'[w] = documents[w]
        /\ Mirrored(u)'
        /\ \/ mainLoop' = Idle
           \/ /\ mainLoop'.op = "recover" /\ mainLoop'.url = u /\ mainLoop'.version = version
              /\ ~(SaveTexts[u] \subseteq {TRUE})
    <2>1. CASE ~Tracked(u) /\ UNCHANGED <<documents, mainLoop>>
      BY <1>1, <2>1 DEF Mirrored, Tracked
    <2>2. CASE /\ Tracked(u)
               /\ \E text \in {clock'} \cup
                     (IF documents[u].text = editor[u].text THEN {} ELSE {Mangled}) :
                   documents' = [documents EXCEPT ![u] = EditedEntry(@, text, version)]
               /\ UNCHANGED mainLoop
      <3>1. PICK text \in {clock'} \cup
                     (IF documents[u].text = editor[u].text THEN {} ELSE {Mangled}) :
                documents' = [documents EXCEPT ![u] = EditedEntry(@, text, version)]
        BY <2>2
      <3>2. SaveTexts[u] \subseteq {TRUE} => text = clock'
        BY <1>1, <3>1 DEF Mirrored
      <3>3. /\ documents'[u].text = text
            /\ documents'[u].version = version
            /\ documents'[u].origin = "Open"
            /\ \A w \in Urls \ {u} : documents'[w] = documents[w]
        BY <2>2, <3>1, EditedAt
      <3> QED
        BY <1>1, <1>2, <2>2, <3>2, <3>3 DEF Mirrored, Tracked
    <2>3. CASE /\ Tracked(u)
               /\ documents[u].text # editor[u].text
               /\ documents' = [documents EXCEPT ![u] = EditedEntry(@, Mangled, version)]
               /\ mainLoop' = [op |-> "recover", url |-> u, text |-> disk[u].text,
                               readable |-> ReadableByPath(u), version |-> version]
      <3>1. /\ documents'[u].version = version
            /\ documents'[u].origin = "Open"
            /\ \A w \in Urls \ {u} : documents'[w] = documents[w]
        <4>1. Tracked(u) /\ documents' = [documents EXCEPT ![u] = EditedEntry(@, Mangled, version)]
          BY <2>3
        <4>2. /\ documents'[u].text = Mangled
              /\ documents'[u].version = version
              /\ documents'[u].origin = "Open"
              /\ \A w \in Urls \ {u} : documents'[w] = documents[w]
          BY <4>1, EditedAt
        <4> QED
          BY <4>2
      <3>2. ~(SaveTexts[u] \subseteq {TRUE})
        BY <1>1, <2>3 DEF Mirrored
      <3> QED
        BY <1>2, <2>3, <3>1, <3>2 DEF Mirrored, Tracked
    <2> QED
      BY <2>1, <2>2, <2>3 DEF DidChange
  <1>4. MirrorsEditor'
    BY <1>1, <1>2, <1>3, MirroredKept DEF MirrorsEditor
  <1> QED
    BY <1>2, <1>3, <1>4 DEF Owner, HandlesOwn, Idle

LEMMA DidSaveOwner ==
    ASSUME TypeOK, Owner, NEW u \in Urls, NEW withText \in SaveTexts[u], DidSave(u, withText)
    PROVE  Owner'
  <1>1. Mirrored(u) /\ MirrorsEditor /\ mainLoop' = Idle
    BY DEF DidSave, Owner, MirrorsEditor, MainLoopFree
  <1>2. /\ \A w \in Urls \ {u} : editor'[w] = editor[w]
        /\ editor'[u].text = editor[u].text /\ editor'[u].version = editor[u].version
        /\ editor'[u].open
    BY DEF DidSave, TypeOK, Buffer
  <1>3. SaveTexts[u] \subseteq {TRUE} => withText
    OBVIOUS
  <1>4. /\ \A w \in Urls \ {u} : documents'[w] = documents[w]
        /\ Mirrored(u)'
    <2>1. CASE ~Tracked(u) /\ UNCHANGED documents
      BY <1>1, <1>2, <2>1 DEF Mirrored, Tracked
    <2>2. CASE /\ Tracked(u)
               /\ documents' = [documents EXCEPT ![u].text =
                      IF withText THEN editor[u].text ELSE disk[u].text]
      <3>0. PICK text \in {IF withText THEN editor[u].text ELSE disk[u].text} :
                documents' = [documents EXCEPT ![u].text = text]
        BY <2>2
      <3>1. /\ documents'[u].text = IF withText THEN editor[u].text ELSE disk[u].text
            /\ documents'[u].version = documents[u].version
            /\ documents'[u].origin = documents[u].origin
            /\ \A w \in Urls \ {u} : documents'[w] = documents[w]
        BY <2>2, <3>0, SavedAt
      <3> QED
        BY <1>1, <1>2, <1>3, <3>1 DEF Mirrored, Tracked
    <2>3. CASE ~withText /\ RemoveDocuments({u})
      BY <1>3, <2>3, RemoveAt DEF Mirrored, Tracked
    <2> QED
      BY <2>1, <2>2, <2>3 DEF DidSave
  <1>5. MirrorsEditor'
    BY <1>1, <1>2, <1>4, MirroredKept DEF MirrorsEditor
  <1> QED
    BY <1>1, <1>5 DEF Owner, HandlesOwn

LEMMA OwnerStep ==
    ASSUME TypeOK, Owner, [StoreNext]_storeVars
    PROVE  Owner'
  <1> USE DEF environment, store
  <1>0. MirrorsEditor /\ HandlesOwn
    BY DEF Owner
  <1>1. ASSUME Disk
        PROVE  Owner'
    <2>1. UNCHANGED <<documents, mainLoop>>
      BY <1>1 DEF Disk, WriteFile, DeleteFile, EditorWrites, EditIgnoreFile
    <2>2. \A u \in Urls : /\ editor'[u].open = editor[u].open
                          /\ editor'[u].text = editor[u].text
                          /\ editor'[u].version = editor[u].version
      BY <1>1 DEF Disk, WriteFile, DeleteFile, EditorWrites, EditIgnoreFile, TypeOK, Buffer
    <2>3. mainLoop # Idle => mainLoop.url \in Urls
      BY DEF TypeOK, Handler
    <2>4. MirrorsEditor'
      BY <1>0, <2>1, <2>2, MirroredKept DEF MirrorsEditor
    <2> QED
      BY <1>0, <2>1, <2>2, <2>3, <2>4 DEF Owner, HandlesOwn
  <1>2. ASSUME NEW u \in Urls, NEW version \in ClientVersions, DidOpen(u, version)
        PROVE  Owner'
    <2> DEFINE text == IF clock' = clock THEN disk[u].text ELSE clock'
    <2>1. /\ InsertDocument(u, text, version, "Open")
          /\ editor' = [editor EXCEPT ![u] =
                 [open |-> TRUE, text |-> text, version |-> version, saved |-> FALSE]]
          /\ mainLoop' = Idle
      BY <1>2 DEF DidOpen, MainLoopFree
    <2>2. /\ Mirrored(u)'
          /\ \A w \in Urls \ {u} : editor'[w] = editor[w] /\ documents'[w] = documents[w]
      <3>1. /\ documents'[u].text = text /\ documents'[u].version = version
            /\ documents'[u].origin = "Open"
            /\ \A w \in Urls \ {u} : documents'[w] = documents[w]
        BY <2>1, InsertAt
      <3>2. /\ editor'[u].text = text /\ editor'[u].version = version
            /\ \A w \in Urls \ {u} : editor'[w] = editor[w]
        BY <2>1 DEF TypeOK
      <3> QED
        BY <3>1, <3>2 DEF Mirrored, Tracked
    <2>3. MirrorsEditor'
      BY <1>0, <2>2, MirroredKept DEF MirrorsEditor
    <2> QED
      BY <2>1, <2>3 DEF Owner, HandlesOwn
  <1>3. ASSUME NEW u \in Urls, NEW version \in ClientVersions, DidChange(u, version)
        PROVE  Owner'
    BY <1>3, DidChangeOwner
  <1>4. ASSUME NEW u \in Urls, NEW withText \in SaveTexts[u], DidSave(u, withText)
        PROVE  Owner'
    BY <1>4, DidSaveOwner
  <1>5. ASSUME NEW u \in Urls, DidClose(u)
        PROVE  Owner'
    <2>1. /\ editor' = [editor EXCEPT ![u] = editor'[u]]
          /\ ~editor'[u].open
      BY <1>5 DEF DidClose, Closed, TypeOK
    <2>2. \A w \in Urls \ {u} : documents'[w] = documents[w] /\ editor'[w] = editor[w]
      BY <1>5, <2>1, RemoveAt DEF DidClose, TypeOK
    <2>3. mainLoop' # Idle => mainLoop'.op = "close" /\ mainLoop'.url = u
      BY <1>5 DEF DidClose, MainLoopFree
    <2>4. MirrorsEditor'
      BY <1>0, <2>1, <2>2, MirroredKept DEF MirrorsEditor
    <2> QED
      BY <2>1, <2>3, <2>4 DEF Owner, HandlesOwn
  <1>6. ASSUME NEW u \in Urls, FileGone(u)
        PROVE  Owner'
    <2>1. u \in WorkspaceOrigin
      BY <1>6 DEF FileGone, WorkspaceOrigin
    <2>2. MirrorsEditor'
      BY <1>0, <1>6, <2>1, RemoveKeepsOwner DEF FileGone
    <2> QED
      BY <1>6, <2>2 DEF FileGone, MainLoopFree, Owner, HandlesOwn
  <1>7. ASSUME NEW u \in Urls, NEW kind \in {"created", "changed", "deleted"},
               WatchedFileEvent(kind, u)
        PROVE  Owner'
    <2>1. MirrorsEditor'
      <3>1. CASE UNCHANGED documents
        BY <1>0, <1>7, <3>1, MirroredKept DEF WatchedFileEvent, MirrorsEditor
      <3>2. CASE OwnedByDisk(u) /\ RemoveDocuments({u})
        BY <1>0, <1>7, <3>2, RemoveKeepsOwner DEF WatchedFileEvent, WorkspaceOrigin
      <3> QED
        BY <1>7, <3>1, <3>2 DEF WatchedFileEvent
    <2>2. mainLoop' # Idle => mainLoop'.op = "watch" /\ mainLoop'.url = u /\ OwnedByDisk(u)
      BY <1>7 DEF WatchedFileEvent, MainLoopFree
    <2>3. OwnedByDisk(u) => ~editor[u].open
      BY <1>0 DEF MirrorsEditor, Mirrored, OwnedByDisk
    <2> QED
      BY <1>7, <2>1, <2>2, <2>3 DEF WatchedFileEvent, Owner, HandlesOwn
  <1>8. ASSUME IgnoreFileEvent \/ WatchersAccepted \/ UNCHANGED storeVars
        PROVE  Owner'
    <2>1. UNCHANGED <<documents, editor, mainLoop>>
      BY <1>8 DEF IgnoreFileEvent, WatchersAccepted, storeVars
    <2>2. MirrorsEditor'
      BY <1>0, <2>1, MirroredKept DEF MirrorsEditor
    <2> QED
      BY <1>0, <2>1, <2>2 DEF Owner, HandlesOwn
  <1>9. ASSUME NEW removed \in SUBSET Folders, NEW added \in SUBSET Folders,
               FoldersChange(removed, added)
        PROVE  Owner'
    <2>1. MirrorsEditor'
      BY <1>0, <1>9, RemoveKeepsOwner DEF FoldersChange
    <2> QED
      BY <1>9, <2>1 DEF FoldersChange, MainLoopFree, Owner, HandlesOwn
  <1>10. ASSUME NEW on \in BOOLEAN, SetEnabled(on)
         PROVE  Owner'
    <2>1. MirrorsEditor'
      BY <1>0, <1>10, RemoveKeepsOwner DEF SetEnabled
    <2> QED
      BY <1>0, <1>10, <2>1 DEF SetEnabled, Owner, HandlesOwn
  <1>11. ASSUME DidCloseInstall \/ WatchedFileInstall
         PROVE  Owner'
    <2>1. mainLoop.op \in {"close", "watch"} /\ mainLoop # Idle
      BY <1>11 DEF DidCloseInstall, WatchedFileInstall, Idle
    <2>2. mainLoop.url \in Urls /\ ~editor[mainLoop.url].open
      BY <1>0, <2>1 DEF HandlesOwn, TypeOK, Handler
    <2>3. UNCHANGED editor /\ mainLoop' = Idle
      BY <1>11 DEF DidCloseInstall, WatchedFileInstall
    <2>4. \A w \in Urls \ {mainLoop.url} : documents'[w] = documents[w]
      BY <1>11, <2>2, InsertAt, RemoveAt DEF DidCloseInstall, WatchedFileInstall
    <2>5. MirrorsEditor'
      BY <1>0, <2>2, <2>3, <2>4, MirroredKept DEF MirrorsEditor
    <2> QED
      BY <2>3, <2>5 DEF Owner, HandlesOwn
  <1>12. ASSUME DidChangeRecover
         PROVE  Owner'
    <2>0. mainLoop.op = "recover" /\ mainLoop # Idle
      BY <1>12 DEF DidChangeRecover, Idle
    <2>1. PICK url \in Urls : /\ url = mainLoop.url
                              /\ mainLoop.version = editor[url].version
                              /\ ~(SaveTexts[url] \subseteq {TRUE})
                              /\ editor[url].open
      <3>1. mainLoop.url \in Urls
        BY <2>0 DEF TypeOK, Handler
      <3> QED
        BY <1>0, <2>0, <3>1 DEF HandlesOwn
    <2>2. UNCHANGED editor /\ mainLoop' = Idle
      BY <1>12 DEF DidChangeRecover
    <2>3. CASE UNCHANGED documents
      BY <1>0, <2>2, <2>3, MirroredKept DEF MirrorsEditor, Owner, HandlesOwn
    <2>4. CASE InsertDocument(url, mainLoop.text, mainLoop.version, "Open")
      <3>1. Mirrored(url)' /\ \A w \in Urls \ {url} : documents'[w] = documents[w]
        <4>1. /\ documents'[url].version = mainLoop.version
              /\ documents'[url].origin = "Open"
              /\ \A w \in Urls \ {url} : documents'[w] = documents[w]
          BY <2>1, <2>4, InsertAt
        <4> QED
          BY <2>1, <2>2, <4>1 DEF Mirrored, Tracked
      <3>2. MirrorsEditor'
        <4> SUFFICES ASSUME NEW w \in Urls, editor[w].open
                     PROVE  Mirrored(w)'
          BY <2>2 DEF MirrorsEditor
        <4> QED
          BY <1>0, <2>2, <3>1, MirroredKept DEF MirrorsEditor
      <3> QED
        BY <2>2, <3>2 DEF Owner, HandlesOwn
    <2> QED
      BY <1>12, <2>1, <2>3, <2>4 DEF DidChangeRecover
  <1> QED
    BY <1>1, <1>2, <1>3, <1>4, <1>5, <1>6, <1>7, <1>8, <1>9, <1>10, <1>11, <1>12
       DEF StoreNext, Notifications, Installations

\* For every set of files and folders, every client and any number of
\* threads: a document the editor has open is in the store under its version
\* or not at all, and with its text if the client sends that with didSave,
\* whatever the disk and the other handlers do.
THEOREM StoreMirrorsEditor == StoreSpec => []MirrorsEditor
  <1>1. StoreInit => Owner
    BY OwnerInit
  <1>2. TypeOK /\ Owner /\ [StoreNext]_storeVars => Owner'
    BY OwnerStep
  <1>3. Owner => MirrorsEditor
    BY DEF Owner
  <1> QED
    BY <1>1, <1>2, <1>3, StoreTypeOK, PTL DEF StoreSpec

-----------------------------------------------------------------------------
(* Which workspace documents exist *)

Closing(u) == mainLoop.op = "close" /\ mainLoop.url = u

\* WorkspaceJustified is silent while didClose reads the disk; the other
\* documents must stay justified meanwhile, and what a handler is about to
\* install must be.
Justification ==
    /\ \A u \in Urls : (Tracked(u) /\ ~editor[u].open /\ ~Closing(u)) =>
          OwnedByDisk(u) /\ KeepAsWorkspace(u)
    /\ mainLoop.op \in {"close", "watch"} => KeepAsWorkspace(mainLoop.url)

LEMMA JustificationInit ==
    ASSUME StoreInit
    PROVE  Justification
  BY DEF StoreInit, Justification, Tracked, Untracked, Idle

\* Removing documents disturbs nothing as long as the others' reasons stay.
LEMMA RemoveKeepsJustified ==
    ASSUME Justification, mainLoop = Idle, UNCHANGED <<editor, mainLoop>>,
           NEW S \in SUBSET Urls, RemoveDocuments(S),
           \A u \in Urls \ S : OwnedByDisk(u) /\ KeepAsWorkspace(u) => KeepAsWorkspace(u)'
    PROVE  Justification'
  <1> SUFFICES ASSUME NEW u \in Urls, Tracked(u)', ~editor[u].open
               PROVE  OwnedByDisk(u)' /\ KeepAsWorkspace(u)'
    BY DEF Justification, Idle
  <1>1. u \notin S /\ documents'[u] = documents[u]
    BY RemoveAt DEF Tracked
  <1>2. OwnedByDisk(u) /\ KeepAsWorkspace(u)
    BY <1>1 DEF Justification, Tracked, Closing, Idle
  <1> QED
    BY <1>1, <1>2 DEF OwnedByDisk

LEMMA JustificationStep ==
    ASSUME ~MultiThread, StoreAssumption, TypeOK, Owner, Justification,
           [StoreNext]_storeVars
    PROVE  Justification'
  <1> USE DEF environment, store
  <1>0. MirrorsEditor /\ HandlesOwn
    BY DEF Owner
  <1>1. ASSUME Disk \/ WatchersAccepted \/ IgnoreFileEvent \/ UNCHANGED storeVars
        PROVE  Justification'
    <2>1. UNCHANGED <<documents, enabled, roots, mainLoop>>
      BY <1>1 DEF Disk, WriteFile, DeleteFile, EditorWrites, EditIgnoreFile, WatchersAccepted,
                  IgnoreFileEvent, storeVars
    <2>2. \A u \in Urls : editor'[u].open = editor[u].open
      BY <1>1 DEF Disk, WriteFile, DeleteFile, EditorWrites, EditIgnoreFile, WatchersAccepted,
                  IgnoreFileEvent, storeVars, TypeOK, Buffer
    <2> QED
      BY <2>1, <2>2
         DEF Justification, Tracked, Closing, OwnedByDisk, KeepAsWorkspace, InRoots
  <1>2. ASSUME NEW u \in Urls, NEW version \in ClientVersions, DidOpen(u, version)
        PROVE  Justification'
    <2>1. /\ editor'[u].open
          /\ \A w \in Urls \ {u} : editor'[w] = editor[w]
          /\ UNCHANGED <<enabled, roots, mainLoop>>
          /\ mainLoop = Idle
      BY <1>2 DEF DidOpen, TypeOK, MainLoopFree
    <2>2. \A w \in Urls \ {u} : documents'[w] = documents[w]
      BY <1>2, InsertAt DEF DidOpen
    <2> QED
      BY <2>1, <2>2 DEF Justification, Tracked, Closing, OwnedByDisk, KeepAsWorkspace, InRoots
  <1>3. ASSUME NEW u \in Urls, NEW version \in ClientVersions, DidChange(u, version)
        PROVE  Justification'
    <2>1. /\ editor'[u].open
          /\ \A w \in Urls \ {u} : editor'[w] = editor[w]
          /\ UNCHANGED <<enabled, roots>>
          /\ mainLoop = Idle
      <3>1. editor' = [editor EXCEPT ![u] = [@ EXCEPT !.text = clock',
                                                      !.version = version]]
        BY <1>3 DEF DidChange
      <3>2. editor[u].open /\ UNCHANGED <<enabled, roots>> /\ mainLoop = Idle
        BY <1>3 DEF DidChange, MainLoopFree
      <3> QED
        BY <3>1, <3>2 DEF TypeOK, Buffer
    <2>2. mainLoop'.op \notin {"close", "watch"}
      <3>1. mainLoop' = mainLoop \/ mainLoop'.op = "recover"
        <4>1. CASE UNCHANGED mainLoop
          BY <4>1
        <4>2. CASE mainLoop' = [op |-> "recover", url |-> u, text |-> disk[u].text,
                                readable |-> ReadableByPath(u), version |-> version]
          BY <4>2
        <4> QED
          BY <1>3, <4>1, <4>2 DEF DidChange
      <3> QED
        BY <2>1, <3>1 DEF Idle
    <2>3. \A w \in Urls \ {u} : documents'[w] = documents[w]
      BY <1>3 DEF DidChange, TypeOK
    <2> QED
      BY <2>1, <2>2, <2>3
         DEF Justification, Tracked, Closing, OwnedByDisk, KeepAsWorkspace, InRoots, Idle
  <1>4. ASSUME NEW u \in Urls, NEW withText \in SaveTexts[u], DidSave(u, withText)
        PROVE  Justification'
    <2>1. /\ editor'[u].open
          /\ \A w \in Urls \ {u} : editor'[w] = editor[w]
          /\ UNCHANGED <<enabled, roots, mainLoop>>
          /\ mainLoop = Idle
      BY <1>4 DEF DidSave, TypeOK, Buffer, MainLoopFree
    <2>2. \A w \in Urls \ {u} : documents'[w] = documents[w]
      BY <1>4, RemoveAt DEF DidSave, TypeOK
    <2> QED
      BY <2>1, <2>2
         DEF Justification, Tracked, Closing, OwnedByDisk, KeepAsWorkspace, InRoots, Idle
  <1>5. ASSUME NEW u \in Urls, DidClose(u)
        PROVE  Justification'
    <2>1. /\ \A w \in Urls \ {u} : editor'[w] = editor[w]
          /\ UNCHANGED <<enabled, roots>>
          /\ mainLoop = Idle
      BY <1>5 DEF DidClose, TypeOK, MainLoopFree
    <2>2. \A w \in Urls \ {u} : documents'[w] = documents[w]
      BY <1>5, RemoveAt DEF DidClose, TypeOK
    <2>3. \/ ~Tracked(u)' /\ mainLoop' = Idle
          \/ KeepAsWorkspace(u) /\ mainLoop'.op = "close" /\ mainLoop'.url = u
      BY <1>5, RemoveAt DEF DidClose, MainLoopFree, Tracked
    <2> QED
      BY <2>1, <2>2, <2>3
         DEF Justification, Tracked, Closing, OwnedByDisk, KeepAsWorkspace, InRoots, Idle
  <1>6. ASSUME NEW u \in Urls, FileGone(u)
        PROVE  Justification'
    BY <1>6, RemoveKeepsJustified DEF FileGone, MainLoopFree, KeepAsWorkspace, InRoots
  <1>7. ASSUME NEW u \in Urls, NEW kind \in {"created", "changed", "deleted"},
               WatchedFileEvent(kind, u)
        PROVE  Justification'
    <2>1. mainLoop = Idle /\ UNCHANGED <<editor, enabled, roots>>
      BY <1>7 DEF WatchedFileEvent, MainLoopFree
    <2>2. CASE RemoveDocuments({u}) /\ UNCHANGED mainLoop
      BY <2>1, <2>2, RemoveKeepsJustified DEF KeepAsWorkspace, InRoots
    <2>3. CASE UNCHANGED <<documents, mainLoop>>
      BY <2>1, <2>3 DEF Justification, Tracked, Closing, OwnedByDisk, KeepAsWorkspace, InRoots
    <2>4. CASE /\ OwnedByDisk(u)
               /\ mainLoop'.op = "watch"
               /\ mainLoop'.url = u
               /\ UNCHANGED documents
      <3>1. ~editor[u].open /\ Tracked(u) /\ ~Closing(u)
        BY <1>0, <2>1, <2>4 DEF MirrorsEditor, Mirrored, OwnedByDisk, Tracked, Closing, Idle
      <3>2. KeepAsWorkspace(u)
        BY <3>1 DEF Justification
      <3> QED
        BY <2>1, <2>4, <3>2
           DEF Justification, Tracked, Closing, OwnedByDisk, KeepAsWorkspace, InRoots, Idle
    <2> QED
      BY <1>7, <2>2, <2>3, <2>4 DEF WatchedFileEvent
  <1>8. ASSUME NEW removed \in SUBSET Folders, NEW added \in SUBSET Folders,
               FoldersChange(removed, added)
        PROVE  Justification'
    <2> DEFINE S == {u \in WorkspaceOrigin : InRoots(u, removed \cap roots)}
    <2>1. S \in SUBSET Urls /\ RemoveDocuments(S)
      BY <1>8 DEF FoldersChange, WorkspaceOrigin
    <2>2. \A u \in Urls \ S : OwnedByDisk(u) /\ KeepAsWorkspace(u) => KeepAsWorkspace(u)'
      BY <1>8 DEF FoldersChange, KeepAsWorkspace, InRoots, WorkspaceOrigin
    <2> QED
      BY <1>8, <2>1, <2>2, RemoveKeepsJustified DEF FoldersChange, MainLoopFree
  <1>9. ASSUME NEW on \in BOOLEAN, SetEnabled(on)
        PROVE  Justification'
    <2> DEFINE S == IF on THEN {} ELSE WorkspaceOrigin
    <2>1. S \in SUBSET Urls /\ RemoveDocuments(S) /\ mainLoop = Idle
      BY <1>9 DEF SetEnabled, WorkspaceOrigin, MainLoopFree
    <2>2. \A u \in Urls \ S : OwnedByDisk(u) /\ KeepAsWorkspace(u) => KeepAsWorkspace(u)'
      BY <1>9 DEF SetEnabled, KeepAsWorkspace, InRoots, WorkspaceOrigin
    <2> QED
      BY <1>9, <2>1, <2>2, RemoveKeepsJustified DEF SetEnabled
  <1>10. CASE Installations
    <2>0. mainLoop # Idle
      BY <1>10 DEF Installations, DidCloseInstall, DidChangeRecover, WatchedFileInstall, Idle
    <2>1. PICK url \in Urls : url = mainLoop.url
      BY <2>0 DEF TypeOK, Handler
    <2>2. UNCHANGED <<editor, enabled, roots>> /\ mainLoop' = Idle
      BY <1>10 DEF Installations, DidCloseInstall, DidChangeRecover, WatchedFileInstall
    <2>3. \A w \in Urls \ {url} : documents'[w] = documents[w]
      BY <1>10, <2>1, InsertAt, RemoveAt
         DEF Installations, DidCloseInstall, DidChangeRecover, WatchedFileInstall
    <2>4. Tracked(url)' /\ ~editor[url].open => OwnedByDisk(url)' /\ KeepAsWorkspace(url)
      <3>1. CASE DidCloseInstall
        BY <2>1, <3>1, InsertAt, RemoveAt
           DEF DidCloseInstall, Justification, Tracked, OwnedByDisk
      <3>2. CASE DidChangeRecover
        BY <1>0, <2>0, <2>1, <3>2 DEF DidChangeRecover, HandlesOwn
      <3>3. CASE WatchedFileInstall
        <4>1. ~editor[url].open /\ ~Closing(url) /\ KeepAsWorkspace(url)
          BY <1>0, <2>0, <2>1, <3>3 DEF HandlesOwn, WatchedFileInstall, Closing, Justification
        <4>2. CASE mainLoop.readable
          BY <2>1, <3>3, <4>1, <4>2, InsertAt DEF WatchedFileInstall, OwnedByDisk
        <4>3. CASE ~mainLoop.readable
          BY <2>1, <3>3, <4>1, <4>3
             DEF WatchedFileInstall, Justification, Tracked, OwnedByDisk
        <4> QED
          BY <4>2, <4>3
      <3> QED
        BY <1>10, <3>1, <3>2, <3>3 DEF Installations
    <2>5. ASSUME NEW w \in Urls, Tracked(w)', ~editor[w].open
          PROVE  OwnedByDisk(w)' /\ KeepAsWorkspace(w)
      <3>1. CASE w = url
        BY <2>4, <2>5, <3>1
      <3>2. CASE w # url
        BY <2>1, <2>3, <2>5, <3>2 DEF Justification, Tracked, Closing, OwnedByDisk
      <3> QED
        BY <3>1, <3>2
    <2> QED
      BY <2>2, <2>5 DEF Justification, KeepAsWorkspace, InRoots, Idle
  <1> QED
    BY <1>1, <1>2, <1>3, <1>4, <1>5, <1>6, <1>7, <1>8, <1>9, <1>10 DEF StoreNext, Notifications

\* For every set of files, matchers, folders, clients and bounds, and a
\* runtime of one thread: a document nobody has open is a workspace document,
\* matched, under a root, while the workspace diagnostics are on.  On several
\* threads the switch may go off while a handler reads the disk.
THEOREM StoreWorkspaceJustified ==
    ASSUME ~MultiThread
    PROVE  StoreSpec => []WorkspaceJustified
  <1>1. StoreInit => Owner /\ Justification
    BY OwnerInit, JustificationInit
  <1>2. TypeOK /\ Owner /\ Justification /\ [StoreNext]_storeVars => Owner' /\ Justification'
    BY StoreAssumption, OwnerStep, JustificationStep
  <1>3. Justification => WorkspaceJustified
    BY DEF Justification, WorkspaceJustified, Closing, OwnedByDisk, KeepAsWorkspace
  <1> QED
    BY <1>1, <1>2, <1>3, StoreTypeOK, PTL DEF StoreSpec

-----------------------------------------------------------------------------
(* The snapshot of a watched file *)

\* The client has yet to tell the server about u.
Announcing(u) ==
    \E kind \in {"created", "changed", "deleted"} : [kind |-> kind, url |-> u] \in events

\* A handler that finds nothing to read keeps the old snapshot: that is
\* right because whoever still has an event of a file that is gone also has
\* the event of its deletion.
DeletionKnown(u) ==
    (~Exists(u) /\ (Installing(u) \/ OwnedByDisk(u)) /\ Announcing(u))
        => [kind |-> "deleted", url |-> u] \in events

Deletions ==
    /\ ~watching => events = {}
    /\ \A u \in Urls : DeletionKnown(u)

\* What a step may do to the file of one URL.
FileKept(u) ==
    /\ DeletionKnown(u)'
    /\ u \notin Encoded => (watching /\ ~SilentlyStale(u) => ~SilentlyStale(u)')

\* What the server may do to a snapshot: have none, carry on as before, read
\* the file, or install what it read.
SnapshotStep(u) ==
    \/ ~Installing(u)' /\ documents'[u].origin # "Workspace"
    \/ /\ Installing(u)' <=> Installing(u)
       /\ Installing(u) => mainLoop'.text = mainLoop.text
       /\ documents'[u] = documents[u] \/ documents'[u].origin # "Workspace"
    \/ Installing(u)' /\ mainLoop'.text = disk[u].text /\ Exists(u)
    \/ Installing(u) /\ ~Installing(u)' /\ documents'[u].text = mainLoop.text

SameEvents(u) ==
    \A kind \in {"created", "changed", "deleted"} :
        [kind |-> kind, url |-> u] \in events' <=> [kind |-> kind, url |-> u] \in events

LEMMA SnapshotKept ==
    ASSUME NEW u, DeletionKnown(u), disk'[u] = disk[u], SameEvents(u), SnapshotStep(u)
    PROVE  FileKept(u)
  <1>1. Exists(u)' = Exists(u) /\ Announcing(u)' = Announcing(u)
    BY DEF Exists, Announcing, SameEvents
  <1>2. DeletionKnown(u)'
    BY <1>1 DEF DeletionKnown, SameEvents, SnapshotStep, OwnedByDisk
  <1>3. ~SilentlyStale(u) => ~SilentlyStale(u)'
    BY DEF SilentlyStale, SnapshotStep, SameEvents
  <1> QED
    BY <1>2, <1>3 DEF FileKept

\* The disk moves: the watching client has an event for it.
LEMMA DiskKept ==
    ASSUME TypeOK, Deletions, Disk, NEW u \in Urls
    PROVE  FileKept(u)
  <1>0. DeletionKnown(u) /\ UNCHANGED <<documents, mainLoop>>
    BY DEF Deletions, Disk, WriteFile, DeleteFile, EditorWrites, EditIgnoreFile, store
  <1>1. SnapshotStep(u) /\ Installing(u)' = Installing(u) /\ OwnedByDisk(u)' = OwnedByDisk(u)
    BY <1>0 DEF SnapshotStep, Installing, OwnedByDisk
  <1>2. CASE disk'[u] = disk[u] /\ SameEvents(u)
    BY <1>0, <1>1, <1>2, SnapshotKept
  <1>3. ASSUME NEW w \in Urls, WriteFile(w) \/ EditorWrites(w)
        PROVE  FileKept(u)
    <2>1. CASE w # u
      BY <1>2, <1>3, <2>1 DEF WriteFile, EditorWrites, Notice, SameEvents, TypeOK
    <2>2. CASE w = u
      <3>1. Exists(u)'
        BY <1>3, <2>2 DEF WriteFile, EditorWrites, Exists, TypeOK, NoFile, NoStamp, Tick
      <3>2. watching => Announcing(u)'
        BY <1>3, <2>2 DEF WriteFile, EditorWrites, Notice, Announcing
      <3> QED
        BY <3>1, <3>2 DEF FileKept, DeletionKnown, SilentlyStale, Announcing
    <2> QED
      BY <2>1, <2>2
  <1>4. ASSUME NEW w \in Urls, DeleteFile(w)
        PROVE  FileKept(u)
    <2>1. CASE w # u
      BY <1>2, <1>4, <2>1 DEF DeleteFile, Notice, SameEvents, TypeOK
    <2>2. CASE w = u /\ watching
      <3>1. [kind |-> "deleted", url |-> u] \in events'
        BY <1>4, <2>2 DEF DeleteFile, Notice
      <3> QED
        BY <3>1 DEF FileKept, DeletionKnown, SilentlyStale
    <2>3. CASE w = u /\ ~watching
      <3>1. events' = {}
        BY <1>4, <2>3 DEF DeleteFile, Notice, Deletions
      <3> QED
        BY <2>3, <3>1 DEF FileKept, DeletionKnown, Announcing
    <2> QED
      BY <2>1, <2>2, <2>3
  <1>5. ASSUME NEW S \in SUBSET Ignorable, EditIgnoreFile(S)
        PROVE  FileKept(u)
    <2>1. disk' = disk /\ events' \in {events, events \cup {[kind |-> "ignoreFile"]}}
      BY <1>5 DEF EditIgnoreFile
    <2>2. \A kind : [kind |-> kind, url |-> u] # [kind |-> "ignoreFile"]
      OBVIOUS
    <2>3. SameEvents(u)
      BY <2>1, <2>2 DEF SameEvents
    <2> QED
      BY <1>2, <2>1, <2>3
  <1> QED
    BY <1>3, <1>4, <1>5 DEF Disk

\* One event of the batch, for the file it names.
LEMMA WatchedFileKept ==
    ASSUME TypeOK, Deletions, NEW u \in Urls, NEW kind \in {"created", "changed", "deleted"},
           WatchedFileEvent(kind, u)
    PROVE  FileKept(u)
  <1>0. /\ disk' = disk /\ events' = events \ {[kind |-> kind, url |-> u]}
        /\ [kind |-> kind, url |-> u] \in events
        /\ mainLoop = Idle
    BY DEF WatchedFileEvent, MainLoopFree
  <1>1. CASE mainLoop' = Idle /\ documents'[u].origin # "Workspace"
    BY <1>1 DEF FileKept, DeletionKnown, SilentlyStale, Installing, OwnedByDisk, Idle
  <1>2. CASE /\ OwnedByDisk(u) /\ kind # "deleted" /\ UNCHANGED documents
             /\ mainLoop' = [op |-> "watch", url |-> u, text |-> disk[u].text,
                             readable |-> ReadableByPath(u), version |-> 0]
    <2>1. CASE Exists(u)
      <3>1. DeletionKnown(u)'
        BY <1>0, <2>1 DEF DeletionKnown, Exists
      <3>2. u \notin Encoded => ~SilentlyStale(u)'
        BY <1>0, <1>2, <2>1 DEF SilentlyStale, Installing, ReadableByPath
      <3> QED
        BY <3>1, <3>2 DEF FileKept
    <2>2. CASE ~Exists(u)
      <3>1. [kind |-> "deleted", url |-> u] \in events
        BY <1>0, <1>2, <2>2 DEF Deletions, DeletionKnown, Announcing
      <3>2. [kind |-> "deleted", url |-> u] \in events'
        BY <1>0, <1>2, <3>1
      <3> QED
        BY <3>2 DEF FileKept, DeletionKnown, SilentlyStale
    <2> QED
      BY <2>1, <2>2
  <1> QED
    BY <1>0, <1>1, <1>2, RemoveAt DEF WatchedFileEvent, OwnedByDisk

\* The handlers that neither wait for the disk nor take an event.
LEMMA HandlerKept ==
    ASSUME TypeOK, Owner, Deletions, NEW u \in Urls, UNCHANGED <<disk, events>>,
           \/ \E w \in Urls, version \in ClientVersions : DidOpen(w, version)
           \/ \E w \in Urls, version \in ClientVersions : DidChange(w, version)
           \/ \E w \in Urls : \E withText \in SaveTexts[w] : DidSave(w, withText)
           \/ \E w \in Urls : DidClose(w)
           \/ \E w \in Urls : FileGone(w)
           \/ \E removed, added \in SUBSET Folders : FoldersChange(removed, added)
           \/ \E on \in BOOLEAN : SetEnabled(on)
           \/ WatchersAccepted
    PROVE  FileKept(u)
  <1>0. DeletionKnown(u) /\ SameEvents(u)
    BY DEF Deletions, SameEvents
  <1> SUFFICES SnapshotStep(u)
    BY <1>0, SnapshotKept
  <1>1. ASSUME UNCHANGED mainLoop, documents'[u] = documents[u] \/ documents'[u].origin # "Workspace"
        PROVE  SnapshotStep(u)
    BY <1>1 DEF SnapshotStep, Installing
  <1>2. ASSUME NEW w \in Urls, editor[w].open
        PROVE  documents[w].origin # "Workspace"
    BY <1>2 DEF Owner, MirrorsEditor, Mirrored
  <1>3. ASSUME NEW w \in Urls, NEW version \in ClientVersions, DidOpen(w, version)
        PROVE  SnapshotStep(u)
    <2>1. documents'[u] = documents[u] \/ documents'[u].origin # "Workspace"
      BY <1>3, InsertAt DEF DidOpen
    <2> QED
      BY <1>1, <1>3, <2>1 DEF DidOpen
  <1>4. ASSUME NEW w \in Urls, NEW version \in ClientVersions, DidChange(w, version)
        PROVE  SnapshotStep(u)
    <2>1. documents'[u] = documents[u] \/ documents'[u].origin # "Workspace"
      <3>1. CASE ~Tracked(w)
        BY <1>4, <3>1 DEF DidChange
      <3>2. CASE Tracked(w)
        <4>1. PICK text \in {clock', Mangled} :
                 documents' = [documents EXCEPT ![w] = EditedEntry(@, text, version)]
          BY <1>4, <3>2 DEF DidChange
        <4> QED
          BY <3>2, <4>1, EditedAt
      <3> QED
        BY <3>1, <3>2
    <2>2. CASE mainLoop' = mainLoop
      BY <1>1, <2>1, <2>2
    <2>3. CASE mainLoop' = [op |-> "recover", url |-> w, text |-> disk[w].text,
                            readable |-> ReadableByPath(w), version |-> version]
      <3>1. mainLoop = Idle
        BY <1>4 DEF DidChange, MainLoopFree
      <3>2. ~Installing(u) /\ ~Installing(u)'
        BY <2>3, <3>1 DEF Installing, Idle
      <3> QED
        BY <2>1, <3>2 DEF SnapshotStep
    <2> QED
      BY <1>4, <2>2, <2>3 DEF DidChange
  <1>5. ASSUME NEW w \in Urls, NEW withText \in SaveTexts[w], DidSave(w, withText)
        PROVE  SnapshotStep(u)
    <2>1. documents[w].origin # "Workspace" /\ UNCHANGED mainLoop
      BY <1>2, <1>5 DEF DidSave
    <2>2. CASE ~Tracked(w) /\ UNCHANGED documents
      BY <1>1, <2>1, <2>2
    <2>3. CASE /\ Tracked(w)
               /\ documents' = [documents EXCEPT ![w].text =
                      IF withText THEN editor[w].text ELSE disk[w].text]
      <3>0. PICK text \in {IF withText THEN editor[w].text ELSE disk[w].text} :
                documents' = [documents EXCEPT ![w].text = text]
        BY <2>3
      <3>1. /\ documents'[w].origin = documents[w].origin
            /\ \A v \in Urls \ {w} : documents'[v] = documents[v]
        BY <2>3, <3>0, SavedAt
      <3> QED
        BY <1>1, <2>1, <3>1
    <2>4. CASE RemoveDocuments({w})
      BY <1>1, <2>1, <2>4, RemoveAt
    <2> QED
      BY <1>5, <2>2, <2>3, <2>4 DEF DidSave
  <1>6. ASSUME NEW w \in Urls, DidClose(w)
        PROVE  SnapshotStep(u)
    <2>1. documents[w].origin # "Workspace"
      BY <1>2, <1>6 DEF DidClose
    <2>2. CASE UNCHANGED <<documents, mainLoop>>
      BY <1>1, <2>2
    <2>3. CASE RemoveDocuments({w}) /\ UNCHANGED mainLoop
      BY <1>1, <2>3, RemoveAt
    <2>4. CASE /\ UNCHANGED documents
               /\ mainLoop' = [op |-> "close", url |-> w, text |-> disk[w].text,
                               readable |-> ReadableByPath(w), version |-> 0]
      <3>1. ~Installing(u)
        BY <1>6 DEF DidClose, MainLoopFree, Installing, Idle
      <3>2. CASE u = w /\ ReadableByPath(w)
        <4>1. Installing(u)' /\ mainLoop'.text = disk[u].text
          BY <2>4, <3>2 DEF Installing
        <4> QED
          BY <3>2, <4>1 DEF SnapshotStep, ReadableByPath
      <3>3. CASE u # w \/ ~ReadableByPath(w)
        BY <2>1, <2>4, <3>1, <3>3 DEF SnapshotStep, Installing
      <3> QED
        BY <3>2, <3>3
    <2> QED
      BY <1>6, <2>2, <2>3, <2>4 DEF DidClose
  <1>7. ASSUME UNCHANGED mainLoop, NEW S, RemoveDocuments(S)
        PROVE  SnapshotStep(u)
    BY <1>1, <1>7, RemoveAt
  <1> QED
    BY <1>1, <1>3, <1>4, <1>5, <1>6, <1>7
       DEF FileGone, FoldersChange, SetEnabled, WatchersAccepted

LEMMA InstallationKept ==
    ASSUME TypeOK, Deletions, Installations, NEW u \in Urls
    PROVE  FileKept(u)
  <1>0. /\ DeletionKnown(u) /\ UNCHANGED <<disk, events>> /\ mainLoop' = Idle
        /\ mainLoop \in Handler /\ mainLoop.url \in Urls
    BY DEF Deletions, Installations, DidCloseInstall, DidChangeRecover, WatchedFileInstall,
           environment, TypeOK, Idle, Handler
  <1>1. SameEvents(u) /\ ~Installing(u)'
    BY <1>0 DEF SameEvents, Installing, Idle
  <1> SUFFICES SnapshotStep(u)
    BY <1>0, <1>1, SnapshotKept
  <1>2. ASSUME NEW version, NEW origin, InsertDocument(mainLoop.url, mainLoop.text, version, origin),
               origin = "Open" \/ (mainLoop.op \in {"close", "watch"} /\ mainLoop.readable)
        PROVE  SnapshotStep(u)
    <2>1. CASE u = mainLoop.url
      <3>1. documents'[u].text = mainLoop.text /\ documents'[u].origin = origin
        BY <1>0, <1>2, <2>1, InsertAt
      <3> QED
        BY <1>1, <1>2, <2>1, <3>1 DEF SnapshotStep, Installing
    <2>2. CASE u # mainLoop.url
      <3>1. documents'[u] = documents[u] /\ ~Installing(u)
        BY <1>0, <1>2, <2>2, InsertAt DEF Installing
      <3> QED
        BY <1>1, <3>1 DEF SnapshotStep
    <2> QED
      BY <2>1, <2>2
  <1>3. ASSUME ~mainLoop.readable, UNCHANGED documents \/ RemoveDocuments({mainLoop.url})
        PROVE  SnapshotStep(u)
    <2>1. documents'[u] = documents[u] \/ documents'[u].origin # "Workspace"
      BY <1>3, RemoveAt
    <2> QED
      BY <1>1, <1>3, <2>1 DEF SnapshotStep, Installing
  <1>4. CASE DidCloseInstall
    BY <1>2, <1>3, <1>4 DEF DidCloseInstall
  <1>5. CASE DidChangeRecover
    BY <1>2, <1>3, <1>5 DEF DidChangeRecover
  <1>6. CASE WatchedFileInstall
    BY <1>2, <1>3, <1>6 DEF WatchedFileInstall
  <1> QED
    BY <1>4, <1>5, <1>6 DEF Installations

LEMMA FreshnessStep ==
    ASSUME TypeOK, Owner, Deletions, [StoreNext]_storeVars, NEW u \in Urls
    PROVE  FileKept(u)
  <1>0. DeletionKnown(u)
    BY DEF Deletions
  <1>1. ASSUME UNCHANGED <<disk, documents, mainLoop>>, SameEvents(u)
        PROVE  FileKept(u)
    BY <1>0, <1>1, SnapshotKept DEF SnapshotStep, Installing
  <1>2. CASE Disk
    BY <1>2, DiskKept
  <1>3. CASE Installations
    BY <1>3, InstallationKept
  <1>4. ASSUME NEW w \in Urls, NEW kind \in {"created", "changed", "deleted"},
               WatchedFileEvent(kind, w)
        PROVE  FileKept(u)
    <2>1. CASE w = u
      BY <1>4, <2>1, WatchedFileKept
    <2>2. CASE w # u
      <3>1. /\ disk' = disk /\ SameEvents(u)
            /\ mainLoop = Idle /\ (mainLoop' = Idle \/ mainLoop'.url = w)
        BY <1>4, <2>2 DEF WatchedFileEvent, MainLoopFree, SameEvents
      <3>2. documents'[u] = documents[u]
        BY <1>4, <2>2, RemoveAt DEF WatchedFileEvent
      <3>3. ~Installing(u) /\ ~Installing(u)'
        BY <1>4, <2>2, <3>1 DEF WatchedFileEvent, MainLoopFree, Installing, Idle
      <3> QED
        BY <1>0, <3>1, <3>2, <3>3, SnapshotKept DEF SnapshotStep
    <2> QED
      BY <2>1, <2>2
  <1>5. CASE IgnoreFileEvent
    <2>1. \A kind : [kind |-> kind, url |-> u] # [kind |-> "ignoreFile"]
      OBVIOUS
    <2>2. SameEvents(u)
      BY <1>5, <2>1 DEF IgnoreFileEvent, SameEvents
    <2> QED
      BY <1>1, <1>5, <2>2 DEF IgnoreFileEvent
  <1>6. CASE UNCHANGED storeVars
    BY <1>1, <1>6 DEF storeVars, environment, store, SameEvents
  <1>7. CASE \/ \E w \in Urls, version \in ClientVersions : DidOpen(w, version)
             \/ \E w \in Urls, version \in ClientVersions : DidChange(w, version)
             \/ \E w \in Urls : \E withText \in SaveTexts[w] : DidSave(w, withText)
             \/ \E w \in Urls : DidClose(w)
             \/ \E w \in Urls : FileGone(w)
             \/ \E removed, added \in SUBSET Folders : FoldersChange(removed, added)
             \/ \E on \in BOOLEAN : SetEnabled(on)
             \/ WatchersAccepted
    <2>1. UNCHANGED <<disk, events>>
      BY <1>7 DEF DidOpen, DidChange, DidSave, DidClose, FileGone, FoldersChange, SetEnabled,
                  WatchersAccepted, environment
    <2> QED
      BY <1>7, <2>1, HandlerKept
  <1> QED
    BY <1>2, <1>3, <1>4, <1>5, <1>6, <1>7 DEF StoreNext, Notifications

LEMMA DeletionsStep ==
    ASSUME TypeOK, Owner, Deletions, [StoreNext]_storeVars
    PROVE  Deletions'
  <1>1. \A u \in Urls : DeletionKnown(u)'
    BY FreshnessStep DEF FileKept
  <1>2. ~watching' => events' = {}
    <2>1. ~watching' => ~watching /\ events = {}
      BY DEF Deletions, StoreNext, Disk, WriteFile, DeleteFile, EditorWrites, EditIgnoreFile,
             Notifications, DidOpen, DidChange, DidSave, DidClose, FileGone, WatchedFileEvent,
             IgnoreFileEvent, FoldersChange, SetEnabled, WatchersAccepted, Installations,
             DidCloseInstall, DidChangeRecover, WatchedFileInstall, storeVars, store
    <2>2. ~watching /\ events = {} => events' = {}
      BY DEF StoreNext, Disk, WriteFile, DeleteFile, EditorWrites, EditIgnoreFile, Notice,
             Notifications, DidOpen, DidChange, DidSave, DidClose, FileGone, WatchedFileEvent,
             IgnoreFileEvent, FoldersChange, SetEnabled, WatchersAccepted, Installations,
             DidCloseInstall, DidChangeRecover, WatchedFileInstall, storeVars, environment
    <2> QED
      BY <2>1, <2>2
  <1> QED
    BY <1>1, <1>2 DEF Deletions

\* For every set of files, folders, clients and bounds: under a watching
\* client no step of the editor, the disk or the server makes a snapshot
\* differ from its file with no event on the way to say so.  Reading the file
\* again, or keeping the snapshot when there is nothing to read, is enough.
THEOREM StoreNeverSilentlyStale == StoreSpec => NeverSilentlyStale
  <1>1. StoreInit => Owner /\ Deletions
    <2>1. StoreInit => ~watching /\ events = {} /\ \A u \in Urls : DeletionKnown(u)
      BY DEF StoreInit, DeletionKnown, Announcing
    <2> QED
      BY <2>1, OwnerInit DEF Deletions
  <1>2. TypeOK /\ Owner /\ Deletions /\ [StoreNext]_storeVars => Owner' /\ Deletions'
    BY OwnerStep, DeletionsStep
  <1>3. TypeOK /\ Owner /\ Deletions /\ [StoreNext]_storeVars
            => [\A u \in Urls \ Encoded :
                   watching /\ ~SilentlyStale(u) => ~SilentlyStale(u)']_storeVars
    BY FreshnessStep DEF FileKept
  <1> QED
    BY <1>1, <1>2, <1>3, StoreTypeOK, PTL DEF StoreSpec, NeverSilentlyStale
=============================================================================
