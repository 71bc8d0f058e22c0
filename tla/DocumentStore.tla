---------------------------- MODULE DocumentStore ----------------------------
(***************************************************************************)
(* The document store of the server (src/server/state): the map of tracked *)
(* documents with their origin and disk stamp, the semantic-tokens cache,  *)
(* the workspace roots, the walk cache, and the notification handlers that *)
(* change them.  The editor and the disk are its environment.              *)
(*                                                                         *)
(* The server runs every notification handler and every continuation of a  *)
(* request on one task, the main loop, while closures handed to the        *)
(* blocking pool run beside it.  A handler that reads the disk without a   *)
(* lock on the entry is two actions, the read and the installation of what *)
(* it read, with `mainLoop` held in between: the disk and the blocking     *)
(* pool may move there, the main loop may not.                             *)
(*                                                                         *)
(* A text is a number.  The editor and the disk take fresh ones from       *)
(* `clock`; a disk stamp (mtime, size) is the tick of the write that made  *)
(* the file what it is, so equal stamps mean the same write.               *)
(***************************************************************************)
EXTENDS Naturals, FiniteSets

CONSTANTS
    Urls,          \* the file URLs of the instance
    Folders,       \* the workspace folders a client may open
    Matched,       \* URLs that some document matcher claims
    Encoded,       \* URLs whose path is percent-encoded (spaces, ...)
    Ignorable,     \* URLs an ignore file may hide from the walk
    Under,         \* Under[u]: the folders whose path is a prefix of u's
    SaveTexts,     \* SaveTexts[u]: does u's didSave carry the text?  a subset of BOOLEAN
    ClientVersions,\* the versions a client may give its documents
    FreshVersions, \* does a reopened document go on counting its versions?
    FileWatching,  \* does the client register watchers dynamically?
    MultiThread,   \* do spawned tasks run beside the main loop?
    MaxClock       \* bound on disk writes and edits

ASSUME StoreAssumption ==
    /\ Matched \subseteq Urls
    /\ Encoded \subseteq Urls
    /\ Ignorable \subseteq Urls
    /\ Under \in [Urls -> SUBSET Folders]
    /\ SaveTexts \in [Urls -> SUBSET BOOLEAN]
    /\ ClientVersions \subseteq Nat
    /\ FreshVersions \in BOOLEAN
    /\ FileWatching \in BOOLEAN
    /\ MultiThread \in BOOLEAN
    /\ MaxClock \in Nat \ {0}

VARIABLES
    disk,          \* disk[u]: the file at u, or NoFile
    ignored,       \* the URLs the ignore files hide at this moment
    clock,         \* the last tick used
    editor,        \* editor[u]: the buffer, as the handled notifications say
    events,        \* watched-file events the client has yet to deliver
    documents,     \* documents[u]: the store's entry, or Untracked
    semanticCache, \* semanticCache[u]: the text its token stream describes
    roots,         \* the workspace roots
    enabled,       \* workspace diagnostics are switched on
    watching,      \* the client accepted the watcher registration
    asked,         \* a registration of watchers was sent to the client
    walkCache,     \* the list of walked files between invalidations
    mainLoop       \* the handler between its disk read and its installation

environment == <<disk, ignored, clock, editor, events>>
store       == <<documents, semanticCache, roots, enabled, watching, asked, walkCache>>
storeVars   == <<environment, store, mainLoop>>

-----------------------------------------------------------------------------
(* Values *)

NoStamp  == 0
NoFile   == [text |-> 0, stamp |-> NoStamp]
Mangled  == MaxClock + 1   \* what an edit makes of a text it was not made for
NoStream == 0              \* no cached token stream

Tick   == 0..MaxClock + 1
File   == [text: Tick, stamp: Tick]
Untracked == [text |-> 0, version |-> 0, stamp |-> NoStamp, origin |-> "Untracked"]
Entry  == [text: Tick, version: Nat, stamp: Tick, origin: {"Open", "Workspace"}]
              \cup {Untracked}
Buffer == [open: BOOLEAN, text: Tick, version: Nat, saved: BOOLEAN]
Event  == [kind: {"created", "changed", "deleted"}, url: Urls]
              \cup [kind: {"ignoreFile"}]
WalkList == [entries: SUBSET (Folders \X Urls), present: BOOLEAN, dirty: BOOLEAN]
Handler  == [op: {"close", "watch", "recover"}, url: Urls, text: Tick,
             readable: BOOLEAN, version: Nat]
Idle     == [op |-> "idle"]

Closed(version) == [open |-> FALSE, text |-> 0, version |-> version, saved |-> FALSE]

TypeOK ==
    /\ disk \in [Urls -> File]
    /\ ignored \subseteq Ignorable
    /\ clock \in Tick
    /\ editor \in [Urls -> Buffer]
    /\ events \subseteq Event
    /\ documents \in [Urls -> Entry]
    /\ semanticCache \in [Urls -> Tick]
    /\ roots \subseteq Folders
    /\ enabled \in BOOLEAN
    /\ watching \in BOOLEAN
    /\ asked \in BOOLEAN
    /\ walkCache \in WalkList
    /\ mainLoop \in Handler \cup {Idle}

Exists(u)      == disk[u] # NoFile
Tracked(u)     == documents[u].origin # "Untracked"
InRoots(u, rs) == Under[u] \cap rs # {}

\* What a walk of the roots rs lists: files that are matched, on disk and not
\* ignored, once for every root above them.
WalkOf(rs) == {k \in rs \X (Matched \ ignored) : Exists(k[2]) /\ k[1] \in Under[k[2]]}

\* read_to_string(url.path()): the path is not percent-decoded, so an
\* encoded URL names no file.
ReadableByPath(u) == Exists(u) /\ u \notin Encoded

-----------------------------------------------------------------------------
(* The walk cache (walk_cache.rs) *)

WalkCacheNew      == [entries |-> {}, present |-> FALSE, dirty |-> FALSE]
WalkCacheValid    == walkCache.present /\ ~walkCache.dirty
WalkCacheStore(S) == walkCache' = [entries |-> S, present |-> TRUE, dirty |-> FALSE]
WalkCacheInvalidate == walkCache' = [walkCache EXCEPT !.dirty = TRUE]
WalkCacheClear    == walkCache' = [entries |-> {}, present |-> FALSE, dirty |-> TRUE]

-----------------------------------------------------------------------------
(* The two ways an entry comes and goes *)

\* insert_document: a fresh entry without a stamp; the cached token stream
\* predates the new text and goes.
InsertDocument(u, text, version, origin) ==
    /\ documents' = [documents EXCEPT ![u] =
           [text |-> text, version |-> version, stamp |-> NoStamp, origin |-> origin]]
    /\ semanticCache' = [semanticCache EXCEPT ![u] = NoStream]

\* Mutant: a removal that only forgets who owns the document.
RemoveDocumentsKeepsText(S) ==
    /\ documents' = [u \in Urls |-> IF u \in S THEN [documents[u] EXCEPT !.origin = "Untracked"]
                                    ELSE documents[u]]
    /\ semanticCache' = [u \in Urls |-> IF u \in S THEN NoStream ELSE semanticCache[u]]

\* remove, remove_if and retain_documents: the entries of S go, each with
\* its cached token stream.
RemoveDocuments(S) ==
    /\ documents' = [u \in Urls |-> IF u \in S THEN Untracked ELSE documents[u]]
    /\ semanticCache' = [u \in Urls |-> IF u \in S THEN NoStream ELSE semanticCache[u]]

\* Mutant: the comparison of the origin, inverted.
OwnedByEditor(u) == documents[u].origin = "Open"

OwnedByDisk(u)  == documents[u].origin = "Workspace"
WorkspaceOrigin == {u \in Urls : OwnedByDisk(u)}

-----------------------------------------------------------------------------
(* The disk and the client's watcher *)

Notice(kind, u) ==
    events' = IF watching THEN events \cup {[kind |-> kind, url |-> u]} ELSE events

\* Somebody other than the editor creates or rewrites the file.
WriteFile(u) ==
    /\ clock < MaxClock
    /\ clock' = clock + 1
    /\ disk' = [disk EXCEPT ![u] = [text |-> clock', stamp |-> clock']]
    /\ Notice(IF Exists(u) THEN "changed" ELSE "created", u)
    /\ UNCHANGED <<ignored, editor, store, mainLoop>>

DeleteFile(u) ==
    /\ Exists(u)
    /\ clock < MaxClock
    /\ clock' = clock + 1
    /\ disk' = [disk EXCEPT ![u] = NoFile]
    /\ Notice("deleted", u)
    /\ UNCHANGED <<ignored, editor, store, mainLoop>>

EditIgnoreFile(S) ==
    /\ clock < MaxClock
    /\ S # ignored
    /\ clock' = clock + 1
    /\ ignored' = S
    /\ events' = IF watching THEN events \cup {[kind |-> "ignoreFile"]} ELSE events
    /\ UNCHANGED <<disk, editor, store, mainLoop>>

\* The editor writes its buffer; didSave follows.
EditorWrites(u) ==
    /\ editor[u].open
    /\ clock < MaxClock
    /\ clock' = clock + 1
    /\ disk' = [disk EXCEPT ![u] = [text |-> editor[u].text, stamp |-> clock']]
    /\ editor' = [editor EXCEPT ![u].saved = TRUE]
    /\ Notice(IF Exists(u) THEN "changed" ELSE "created", u)
    /\ UNCHANGED <<ignored, store, mainLoop>>

-----------------------------------------------------------------------------
(* Notification handlers of documents.rs *)

MainLoopFree == mainLoop = Idle

\* handle_document_open.  The buffer starts as the file's text or as one of
\* its own (no file yet, or a restored buffer).
DidOpen(u, version) ==
    /\ MainLoopFree
    /\ ~editor[u].open
    /\ version >= editor[u].version
    /\ \/ Exists(u) /\ clock' = clock
       \/ clock < MaxClock /\ clock' = clock + 1
    /\ LET text == IF clock' = clock THEN disk[u].text ELSE clock'
       IN  /\ editor' = [editor EXCEPT ![u] =
                  [open |-> TRUE, text |-> text, version |-> version, saved |-> FALSE]]
           /\ InsertDocument(u, text, version, "Open")
    /\ UNCHANGED <<disk, ignored, events, roots, enabled, watching, asked, walkCache, mainLoop>>

\* Mutant: any matched file stays, whichever the roots.
KeepWhenMatched(u) == enabled /\ u \in Matched

KeepAsWorkspace(u) == enabled /\ u \in Matched /\ InRoots(u, roots)

\* handle_document_close, up to the disk read.  An untracked document is
\* left alone; one the workspace has no use for goes at once.
DidClose(u) ==
    /\ MainLoopFree
    /\ editor[u].open
    /\ editor' = [editor EXCEPT ![u] =
           Closed(IF FreshVersions THEN editor[u].version + 1 ELSE 0)]
    /\ \/ /\ ~Tracked(u)
          /\ UNCHANGED <<documents, semanticCache, mainLoop>>
       \/ /\ Tracked(u)
          /\ ~KeepAsWorkspace(u)
          /\ RemoveDocuments({u})
          /\ UNCHANGED mainLoop
       \/ /\ Tracked(u)
          /\ KeepAsWorkspace(u)
          /\ mainLoop' = [op |-> "close", url |-> u, text |-> disk[u].text,
                          readable |-> ReadableByPath(u), version |-> 0]
          /\ UNCHANGED <<documents, semanticCache>>
    /\ UNCHANGED <<disk, ignored, clock, events, roots, enabled, watching, asked, walkCache>>

DidCloseInstall ==
    /\ mainLoop.op = "close"
    /\ IF mainLoop.readable
       THEN InsertDocument(mainLoop.url, mainLoop.text, mainLoop.version, "Workspace")
       ELSE RemoveDocuments({mainLoop.url})
    /\ mainLoop' = Idle
    /\ UNCHANGED <<environment, roots, enabled, watching, asked, walkCache>>

\* The entry of the new generation.
EditedEntry(entry, text, version) ==
    [entry EXCEPT !.text = text, !.version = version, !.origin = "Open"]

\* handle_document_change.  A whole-text change installs the client's text;
\* an incremental one does when it meets the text it was made for, and
\* otherwise either fails, and the file is read again, or yields a text
\* nobody has.  The cached token stream and the stamp stay.
DidChange(u, version) ==
    /\ MainLoopFree
    /\ editor[u].open
    /\ version > editor[u].version
    /\ clock < MaxClock
    /\ clock' = clock + 1
    /\ editor' = [editor EXCEPT ![u] = [@ EXCEPT !.text = clock', !.version = version]]
    /\ \/ /\ ~Tracked(u)
          /\ UNCHANGED <<documents, mainLoop>>
       \/ /\ Tracked(u)
          /\ \E text \in {clock'} \cup
                  (IF documents[u].text = editor[u].text THEN {} ELSE {Mangled}) :
                documents' = [documents EXCEPT ![u] = EditedEntry(@, text, version)]
          /\ UNCHANGED mainLoop
       \/ /\ Tracked(u)
          /\ documents[u].text # editor[u].text
          /\ documents' = [documents EXCEPT ![u] = EditedEntry(@, Mangled, version)]
          /\ mainLoop' = [op |-> "recover", url |-> u, text |-> disk[u].text,
                          readable |-> ReadableByPath(u), version |-> version]
    /\ UNCHANGED <<disk, ignored, events, semanticCache, roots, enabled, watching, asked,
                   walkCache>>

\* recover_failed_incremental_update: a failed read keeps the text.
DidChangeRecover ==
    /\ mainLoop.op = "recover"
    /\ IF mainLoop.readable
       THEN InsertDocument(mainLoop.url, mainLoop.text, mainLoop.version, "Open")
       ELSE UNCHANGED <<documents, semanticCache>>
    /\ mainLoop' = Idle
    /\ UNCHANGED <<environment, roots, enabled, watching, asked, walkCache>>

\* handle_document_save: the text is the notification's, else the file's,
\* and takes the place of the old one under its version, origin and stamp.
\* Without either the document goes.  The entry is locked across the read.
DidSave(u, withText) ==
    /\ MainLoopFree
    /\ editor[u].open
    /\ editor[u].saved
    /\ editor' = [editor EXCEPT ![u].saved = FALSE]
    /\ \/ /\ ~Tracked(u)
          /\ UNCHANGED <<documents, semanticCache>>
       \/ /\ Tracked(u)
          /\ withText \/ ReadableByPath(u)
          /\ documents' = [documents EXCEPT ![u].text =
                 IF withText THEN editor[u].text ELSE disk[u].text]
          /\ semanticCache' = [semanticCache EXCEPT ![u] = NoStream]
       \/ /\ Tracked(u)
          /\ ~(withText \/ ReadableByPath(u))
          /\ RemoveDocuments({u})
    /\ UNCHANGED <<disk, ignored, clock, events, roots, enabled, watching, asked, walkCache,
                   mainLoop>>

\* handle_watched_files_change, one event of the batch.  An ignore file, a
\* creation and a deletion change what a walk finds.  Open documents are the
\* editor's; a tracked workspace document goes with its file or is read again.
IgnoreFileEvent ==
    /\ MainLoopFree
    /\ [kind |-> "ignoreFile"] \in events
    /\ events' = events \ {[kind |-> "ignoreFile"]}
    /\ WalkCacheInvalidate
    /\ UNCHANGED <<disk, ignored, clock, editor, documents, semanticCache, roots, enabled,
                   watching, asked, mainLoop>>

\* Mutant: a deletion leaves the list as it is.
AddsToList(kind) == kind = "created"

ChangesList(kind) == kind \in {"created", "deleted"}

WatchedFileEvent(kind, u) ==
    /\ MainLoopFree
    /\ [kind |-> kind, url |-> u] \in events
    /\ events' = events \ {[kind |-> kind, url |-> u]}
    /\ IF ChangesList(kind) THEN WalkCacheInvalidate ELSE UNCHANGED walkCache
    /\ \/ /\ ~OwnedByDisk(u)
          /\ UNCHANGED <<documents, semanticCache, mainLoop>>
       \/ /\ OwnedByDisk(u)
          /\ kind = "deleted"
          /\ RemoveDocuments({u})
          /\ UNCHANGED mainLoop
       \/ /\ OwnedByDisk(u)
          /\ kind # "deleted"
          /\ mainLoop' = [op |-> "watch", url |-> u, text |-> disk[u].text,
                          readable |-> ReadableByPath(u), version |-> 0]
          /\ UNCHANGED <<documents, semanticCache>>
    /\ UNCHANGED <<disk, ignored, clock, editor, roots, enabled, watching, asked>>

\* A failed read keeps the old snapshot.
WatchedFileInstall ==
    /\ mainLoop.op = "watch"
    /\ IF mainLoop.readable
       THEN InsertDocument(mainLoop.url, mainLoop.text, mainLoop.version, "Workspace")
       ELSE UNCHANGED <<documents, semanticCache>>
    /\ mainLoop' = Idle
    /\ UNCHANGED <<environment, roots, enabled, watching, asked, walkCache>>

\* handle_files_renamed and handle_files_deleted: the workspace snapshot of
\* the old name goes.
FileGone(u) ==
    /\ MainLoopFree
    /\ OwnedByDisk(u)
    /\ RemoveDocuments({u})
    /\ UNCHANGED <<environment, roots, enabled, watching, asked, walkCache, mainLoop>>

-----------------------------------------------------------------------------
(* Roots and the switch (workspace.rs, mod.rs, diagnostics.rs) *)

\* handle_workspace_folders_change
FoldersChange(removed, added) ==
    /\ MainLoopFree
    /\ WalkCacheClear
    /\ RemoveDocuments({u \in WorkspaceOrigin : InRoots(u, removed \cap roots)})
    /\ roots' = (roots \ removed) \cup added
    /\ UNCHANGED <<environment, enabled, watching, asked, mainLoop>>

\* apply_enabled: switching off drops the workspace documents and the walk
\* list, switching on asks for a new walk and for watchers nobody accepted
\* yet.  It runs in a handler or in the task that awaited the configuration.
SetEnabled(on) ==
    /\ MainLoopFree \/ MultiThread
    /\ on # enabled
    /\ enabled' = on
    /\ RemoveDocuments(IF on THEN {} ELSE WorkspaceOrigin)
    /\ IF on THEN WalkCacheInvalidate ELSE WalkCacheClear
    /\ asked' = (asked \/ (on /\ FileWatching /\ ~watching))
    /\ UNCHANGED <<environment, roots, watching, mainLoop>>

\* The registration's success arm, whatever the switch is by then; from here
\* on the client sends events.  A registration it refuses is one that is never
\* accepted.
WatchersAccepted ==
    /\ asked
    /\ ~watching
    /\ watching' = TRUE
    /\ UNCHANGED <<environment, documents, semanticCache, roots, enabled, asked, walkCache,
                   mainLoop>>

-----------------------------------------------------------------------------
(* The store on its own *)

StoreInit ==
    /\ disk \in [Urls -> {NoFile, [text |-> 1, stamp |-> 1]}]
    /\ ignored = {}
    /\ clock = 1
    /\ editor = [u \in Urls |-> Closed(0)]
    /\ events = {}
    /\ documents = [u \in Urls |-> Untracked]
    /\ semanticCache = [u \in Urls |-> NoStream]
    /\ roots \in SUBSET Folders
    /\ enabled \in BOOLEAN
    /\ watching = FALSE
    /\ asked = (FileWatching /\ enabled)
    /\ walkCache = WalkCacheNew
    /\ mainLoop = Idle

Disk ==
    \/ \E u \in Urls : WriteFile(u) \/ DeleteFile(u) \/ EditorWrites(u)
    \/ \E S \in SUBSET Ignorable : EditIgnoreFile(S)

Notifications ==
    \/ \E u \in Urls, version \in ClientVersions : DidOpen(u, version) \/ DidChange(u, version)
    \/ \E u \in Urls : \E withText \in SaveTexts[u] : DidSave(u, withText)
    \/ \E u \in Urls : DidClose(u) \/ FileGone(u)
    \/ \E u \in Urls, kind \in {"created", "changed", "deleted"} : WatchedFileEvent(kind, u)
    \/ IgnoreFileEvent
    \/ \E removed, added \in SUBSET Folders :
          removed \cup added # {} /\ FoldersChange(removed, added)
    \/ \E on \in BOOLEAN : SetEnabled(on)
    \/ WatchersAccepted

Installations == DidCloseInstall \/ DidChangeRecover \/ WatchedFileInstall

StoreNext == Disk \/ Notifications \/ Installations

StoreSpec == StoreInit /\ [][StoreNext]_storeVars

-----------------------------------------------------------------------------
(* Properties of the store on its own: no poll runs *)

\* The store's entry of a document the editor has open: never a workspace
\* snapshot, and under the editor's version if there is one.  A client that
\* sends the text with every didSave, as the server asks it to, also finds
\* its own text there: each edit meets the text it was made for.
Mirrored(u) ==
    /\ documents[u].origin # "Workspace"
    /\ Tracked(u) => documents[u].version = editor[u].version
    /\ SaveTexts[u] \subseteq {TRUE} => Tracked(u) /\ documents[u].text = editor[u].text

\* The editor's documents are the editor's: no watched-file event, folder
\* change, switch or file operation reaches them (documents.rs: "The editor
\* owns open documents; disk events never touch them").
MirrorsEditor == \A u \in Urls : editor[u].open => Mirrored(u)

\* A document nobody has open is a workspace document, and those exist only
\* under enabled diagnostics, for matched files under a root: closing, folder
\* changes and the switch leave no other (register_watchers relies on it).
\* While didClose reads the disk the closed document is still in the store.
WorkspaceJustified ==
    \A u \in Urls : (Tracked(u) /\ ~editor[u].open /\ mainLoop.op # "close") =>
        /\ documents[u].origin = "Workspace"
        /\ enabled
        /\ u \in Matched
        /\ InRoots(u, roots)

\* The snapshot of u is, or is about to be, another text than the file's
\* with no event on the way to say so.
Installing(u) == mainLoop.op \in {"close", "watch"} /\ mainLoop.url = u /\ mainLoop.readable

SilentlyStale(u) ==
    /\ \/ Installing(u) /\ mainLoop.text # disk[u].text
       \/ ~Installing(u) /\ documents[u].origin = "Workspace"
                        /\ documents[u].text # disk[u].text
    /\ \A kind \in {"created", "changed", "deleted"} : [kind |-> kind, url |-> u] \notin events

\* No step makes the snapshot of a watched file silently stale
\* (handle_watched_files_change reads tracked workspace files again).
NeverSilentlyStale ==
    [][\A u \in Urls \ Encoded : watching /\ ~SilentlyStale(u) => ~SilentlyStale(u)']_storeVars
=============================================================================
