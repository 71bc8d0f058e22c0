----------------------- MODULE WorkspaceRefreshProofs -----------------------
(***************************************************************************)
(* Proofs about WorkspaceRefresh for any files, folders and bounds: the    *)
(* types of the polls, and that the stamp gate is sound as long as one     *)
(* poll runs at a time and no file lies under two roots; and, with the     *)
(* history of WalkListHistory, any number of polls and cancellations, that *)
(* nothing but a load takes an open document from the editor and nothing   *)
(* but a crossed walk leaves a stale list.                                 *)
(***************************************************************************)
EXTENDS WalkListHistory, DocumentStoreProofs

-----------------------------------------------------------------------------
(* Types *)

LEMMA RefreshTypeInit ==
    ASSUME RefreshInit
    PROVE  RefreshTypeOK
  <1>1. TypeOK
    BY StoreAssumption, TypeInit DEF RefreshInit
  <1>2. IdlePoll \in Poll
    BY DEF IdlePoll, Poll
  <1>3. NoLoad \in Load
    BY StoreAssumption DEF NoLoad, Load, NoStamp, Tick
  <1> QED
    BY <1>1, <1>2, <1>3 DEF RefreshInit, RefreshTypeOK

\* What a poll does to the store keeps its types.
LEMMA WalkTypes ==
    ASSUME NEW rs \in SUBSET Folders
    PROVE  WalkOf(rs) \subseteq Keys
  BY StoreAssumption DEF WalkOf, Keys

LEMMA StartTypes ==
    ASSUME RefreshTypeOK, NEW p \in Polls, NEW rs \in SUBSET Folders, NEW keys \in SUBSET Keys,
           StartLoads(p, rs, keys)
    PROVE  poll' \in [Polls -> Poll] /\ load' \in [Polls -> [Keys -> Load]]
  <1> DEFINE fresh == [pc |-> "load", roots |-> rs, caching |-> FALSE,
                       found |-> {}, urls |-> OpenDocuments(keys)]
             started == [k \in Keys |-> IF k \in keys /\ documents[k[2]].origin # "Open"
                                        THEN [NoLoad EXCEPT !.pc = "probe"] ELSE NoLoad]
  <1>1. fresh \in Poll
    BY DEF Poll, OpenDocuments
  <1>2. NoLoad \in Load /\ [NoLoad EXCEPT !.pc = "probe"] \in Load
    BY StoreAssumption DEF NoLoad, Load, NoStamp, Tick
  <1>3. started \in [Keys -> Load]
    BY <1>2
  <1> QED
    BY <1>1, <1>3 DEF StartLoads, RefreshTypeOK

LEMMA LoadTypes ==
    ASSUME RefreshTypeOK, NEW p \in Polls, NEW k \in Keys, LoadStep(p, k)
    PROVE  RefreshTypeOK'
  <1> USE DEF RefreshTypeOK
  <1>0. /\ k[2] \in Urls
        /\ load[p][k] \in Load
        /\ disk[k[2]].text \in Tick /\ disk[k[2]].stamp \in Tick
    BY StoreAssumption, EntryTypes DEF Keys
  <1>1. ASSUME NEW l \in Load, load' = [load EXCEPT ![p][k] = l]
        PROVE  load' \in [Polls -> [Keys -> Load]]
    BY <1>1
  <1>2. CASE Probe(p, k)
    <2>1. [load[p][k] EXCEPT !.pc = "check", !.stamp = disk[k[2]].stamp] \in Load
      BY <1>0 DEF Load
    <2>2. load' \in [Polls -> [Keys -> Load]]
      BY <1>2, <2>1 DEF Probe
    <2> QED
      BY <1>2, <2>2 DEF Probe, storeVars, environment, store, TypeOK
  <1>3. CASE CheckStamp(p, k)
    <2>1. \A pc \in {"loaded", "read"} : [load[p][k] EXCEPT !.pc = pc] \in Load
      BY <1>0 DEF Load
    <2>2. load' \in [Polls -> [Keys -> Load]]
      BY <1>3, <2>1 DEF CheckStamp
    <2> QED
      BY <1>3, <2>2 DEF CheckStamp, storeVars, environment, store, TypeOK
  <1>4. CASE Read(p, k)
    <2> DEFINE read == [load[p][k] EXCEPT !.pc = IF Exists(k[2]) THEN "install" ELSE "skipped",
                                          !.text = disk[k[2]].text]
    <2>1. read \in Load
      BY <1>0 DEF Load
    <2>2. load' = [load EXCEPT ![p][k] = read]
      BY <1>4 DEF Read
    <2>3. load' \in [Polls -> [Keys -> Load]]
      BY <2>1, <2>2
    <2> QED
      BY <1>4, <2>3 DEF Read, storeVars, environment, store, TypeOK
  <1>5. CASE Install(p, k)
    <2>1. [load[p][k] EXCEPT !.pc = "stamp"] \in Load /\ load[p][k].text \in Tick
      BY <1>0 DEF Load
    <2>2. load' \in [Polls -> [Keys -> Load]]
      BY <1>5, <2>1 DEF Install
    <2>3. documents' \in [Urls -> Entry] /\ semanticCache' \in [Urls -> Tick]
      BY <1>0, <1>5, <2>1, StoreAssumption, InsertTypes DEF Install
    <2> QED
      BY <1>5, <2>2, <2>3 DEF Install, environment, TypeOK
  <1>6. CASE StampEntry(p, k)
    <2>1. [load[p][k] EXCEPT !.pc = "loaded"] \in Load /\ load[p][k].stamp \in Tick
      BY <1>0 DEF Load
    <2>2. load' \in [Polls -> [Keys -> Load]]
      BY <1>6, <2>1 DEF StampEntry
    <2>3. Tracked(k[2]) => [documents[k[2]] EXCEPT !.stamp = load[p][k].stamp] \in Entry
      BY <1>0, <2>1, StoreAssumption, EntryTypes DEF Entry
    <2>4. documents' \in [Urls -> Entry]
      BY <1>0, <1>6, <2>3 DEF StampEntry, TypeOK
    <2> QED
      BY <1>6, <2>2, <2>4 DEF StampEntry, environment, TypeOK
  <1> QED
    BY <1>2, <1>3, <1>4, <1>5, <1>6 DEF LoadStep

LEMMA PollTypes ==
    ASSUME RefreshTypeOK, NEW p \in Polls, PollStep(p)
    PROVE  RefreshTypeOK'
  <1> USE DEF RefreshTypeOK
  <1>0. /\ poll[p] \in Poll /\ IdlePoll \in Poll
        /\ roots \in SUBSET Folders /\ walkCache.entries \in SUBSET Keys
        /\ [k \in Keys |-> NoLoad] \in [Keys -> Load]
    BY StoreAssumption
       DEF TypeOK, WalkList, Keys, IdlePoll, Poll, NoLoad, Load, NoStamp, Tick
  <1>1. CASE PollSkips(p)
    <2> DEFINE done == [poll[p] EXCEPT !.pc = "done", !.urls = {u \in Urls : Tracked(u)}]
    <2>1. done \in Poll
      BY <1>0 DEF Poll
    <2>2. poll' = [poll EXCEPT ![p] = done]
      BY <1>1 DEF PollSkips
    <2>3. poll' \in [Polls -> Poll]
      BY <2>1, <2>2
    <2> QED
      BY <1>1, <2>3 DEF PollSkips, storeVars, environment, store, TypeOK
  <1>2. CASE PollServesCache(p)
    <2>1. poll' \in [Polls -> Poll] /\ load' \in [Polls -> [Keys -> Load]]
      BY <1>0, <1>2, StartTypes DEF PollServesCache
    <2> QED
      BY <1>2, <2>1 DEF PollServesCache, storeVars, environment, store, TypeOK
  <1>3. CASE PollWalks(p)
    <2> DEFINE walk == [poll[p] EXCEPT !.pc = "walk", !.roots = roots, !.caching = watching]
    <2>1. walk \in Poll
      BY <1>0 DEF Poll, TypeOK
    <2>2. poll' = [poll EXCEPT ![p] = walk]
      BY <1>3 DEF PollWalks
    <2>3. poll' \in [Polls -> Poll]
      BY <2>1, <2>2
    <2> QED
      BY <1>3, <2>3 DEF PollWalks, storeVars, environment, store, TypeOK
  <1>4. CASE Walk(p)
    <2> DEFINE walked == [poll[p] EXCEPT !.pc = "walked", !.found = WalkOf(poll[p].roots)]
    <2>1. WalkOf(poll[p].roots) \subseteq Keys
      BY <1>0, WalkTypes DEF Poll
    <2>2. walked \in Poll
      BY <1>0, <2>1 DEF Poll
    <2>3. poll' = [poll EXCEPT ![p] = walked]
      BY <1>4 DEF Walk
    <2>4. poll' \in [Polls -> Poll]
      BY <2>2, <2>3
    <2> QED
      BY <1>4, <2>4 DEF Walk, storeVars, environment, store, TypeOK
  <1>5. CASE WalkFails(p)
    BY <1>0, <1>5 DEF WalkFails, storeVars, environment, store, TypeOK
  <1>6. CASE PollWalked(p)
    <2>1. poll[p].roots \in SUBSET Folders /\ poll[p].found \in SUBSET Keys
      BY <1>0 DEF Poll
    <2>2. poll' \in [Polls -> Poll] /\ load' \in [Polls -> [Keys -> Load]]
      BY <1>6, <2>1, StartTypes DEF PollWalked
    <2>3. walkCache' \in WalkList
      <3>1. CASE poll[p].caching
        <4>1. walkCache' = [entries |-> poll[p].found, present |-> TRUE, dirty |-> FALSE]
          BY <1>6, <3>1 DEF PollWalked, WalkCacheStore
        <4> QED
          BY <2>1, <4>1 DEF WalkList, Keys
      <3>2. CASE ~poll[p].caching
        BY <1>6, <3>2 DEF PollWalked, TypeOK
      <3> QED
        BY <3>1, <3>2
    <2> QED
      BY <1>6, <2>2, <2>3 DEF PollWalked, environment, TypeOK
  <1>7. ASSUME NEW k \in Keys, LoadStep(p, k)
        PROVE  RefreshTypeOK'
    BY <1>7, LoadTypes
  <1>8. CASE PollRetains(p)
    <2>1. PICK urls \in SUBSET Urls :
             /\ RemoveDocuments({u \in Urls : Tracked(u) /\ ~Keeps(u, poll[p].roots, urls)})
             /\ poll' = [poll EXCEPT ![p] = [IdlePoll EXCEPT !.pc = "done", !.urls = urls]]
      <3> DEFINE loaded == {u \in Urls : \E k \in Keys : k[2] = u /\ load[p][k].pc = "loaded"}
      <3>1. poll[p].urls \cup loaded \in SUBSET Urls
        BY <1>0 DEF Poll
      <3> QED
        BY <1>8, <3>1 DEF PollRetains
    <2>2. [IdlePoll EXCEPT !.pc = "done", !.urls = urls] \in Poll
      BY DEF IdlePoll, Poll
    <2>3. poll' \in [Polls -> Poll]
      BY <2>1, <2>2
    <2>4. load' \in [Polls -> [Keys -> Load]]
      BY <1>0, <1>8 DEF PollRetains
    <2>5. documents' \in [Urls -> Entry] /\ semanticCache' \in [Urls -> Tick]
      BY <2>1, StoreAssumption, RemoveTypes
    <2> QED
      BY <1>8, <2>3, <2>4, <2>5 DEF PollRetains, environment, TypeOK
  <1>9. CASE PollReturns(p)
    BY <1>0, <1>9 DEF PollReturns, storeVars, environment, store, TypeOK
  <1> QED
    BY <1>1, <1>2, <1>3, <1>4, <1>5, <1>6, <1>7, <1>8, <1>9 DEF PollStep

LEMMA RefreshTypeStep ==
    ASSUME RefreshTypeOK, [RefreshNext]_vars
    PROVE  RefreshTypeOK'
  <1>1. CASE StoreNext /\ UNCHANGED <<poll, load, orphans>>
    BY <1>1, StoreAssumption, TypeStep DEF RefreshTypeOK
  <1>2. CASE \E p \in Polls : PollStep(p)
    BY <1>2, PollTypes
  <1>3. CASE UNCHANGED vars
    BY <1>3 DEF vars, storeVars, environment, store, RefreshTypeOK, TypeOK
  <1> QED
    BY <1>1, <1>2, <1>3 DEF RefreshNext

\* Every variable of store and polls keeps its type, whatever interleaves:
\* a load carries the stamp it probed and the text it read to the store it
\* finds.
THEOREM RefreshTypes == RefreshSpec => []RefreshTypeOK
  <1>1. RefreshInit => RefreshTypeOK
    BY RefreshTypeInit
  <1>2. RefreshTypeOK /\ [RefreshNext]_vars => RefreshTypeOK'
    BY RefreshTypeStep
  <1> QED
    BY <1>1, <1>2, PTL DEF RefreshSpec

-----------------------------------------------------------------------------
(* The stamp gate.  A load stamps what it finds in the store with a stamp  *)
(* it probed before it read: that is sound because a stamp never comes     *)
(* back, so a file that still has the probed stamp still has the text that *)
(* was read.  What two loads of one file may do to each other is excluded: *)
(* one poll at a time, and no file under two folders.                      *)

OnePoll  == \A p, q \in Polls : p = q
Unnested == \A u \in Urls : \A f, g \in Under[u] : f = g

\* The entry of u is the editor's, or is about to be written by didClose.
EditorHolds(u) == editor[u].open \/ (mainLoop.op = "close" /\ mainLoop.url = u)

\* A file without an owner in the editor, when the gate would skip it.
GateSound(u) ==
    (~EditorHolds(u) /\ Fresh(documents[u], disk[u].stamp)) => documents[u].text = disk[u].text

\* As long as the file has the stamp that a load probed, everything that may
\* become its entry before that stamp is set is the file's text.
Current(l, u) == l.stamp # NoStamp /\ l.stamp = disk[u].stamp

LoadSound(p, k) ==
    LET u == k[2]
        l == load[p][k]
    IN  (l.pc \in {"read", "install", "stamp"} /\ Current(l, u))
            => /\ Installing(u) => mainLoop.text = disk[u].text
               /\ l.pc = "install" => l.text = disk[u].text
               /\ (l.pc = "stamp" /\ ~EditorHolds(u) /\ OwnedByDisk(u))
                      => documents[u].text = disk[u].text

\* No stamp is younger than the clock.
Dated ==
    /\ \A u \in Urls : disk[u].stamp <= clock /\ documents[u].stamp <= clock
    /\ \A p \in Polls, k \in Keys : load[p][k].stamp <= clock

\* What is listed, found or loaded as <<root, url>> lies under that root.
Placed(keys) == \A k \in keys : k[1] \in Under[k[2]]
Listed ==
    /\ Placed(walkCache.entries)
    /\ \A p \in Polls : Placed(poll[p].found)
    /\ \A p \in Polls : Placed({k \in Keys : load[p][k].pc # "none"})

Gate ==
    /\ Dated
    /\ Listed
    /\ \A u \in Urls : GateSound(u)
    /\ \A p \in Polls, k \in Keys : LoadSound(p, k)

LEMMA GateInit ==
    ASSUME RefreshInit
    PROVE  Gate
  <1>0. TypeOK
    BY StoreAssumption, TypeInit DEF RefreshInit
  <1>1. /\ \A u \in Urls : documents[u] = Untracked
        /\ \A p \in Polls : poll[p] = IdlePoll /\ \A k \in Keys : load[p][k] = NoLoad
        /\ walkCache.entries = {}
        /\ clock = 1
    BY DEF RefreshInit, StoreInit, WalkCacheNew
  <1>2. \A u \in Urls : disk[u].stamp \in {0, 1}
    BY DEF RefreshInit, StoreInit, NoFile, NoStamp
  <1>3. Dated
    BY <1>1, <1>2 DEF Dated, Untracked, NoLoad, NoStamp
  <1>4. Listed
    BY <1>1 DEF Listed, Placed, IdlePoll, NoLoad
  <1>5. (\A u \in Urls : GateSound(u)) /\ \A p \in Polls, k \in Keys : LoadSound(p, k)
    BY <1>1 DEF GateSound, Fresh, Untracked, LoadSound, NoLoad
  <1> QED
    BY <1>3, <1>4, <1>5 DEF Gate

\* What a step of the store does to one file, as far as the gate can tell.
EntryStep(u) ==
    /\ documents'[u].stamp \in {documents[u].stamp, NoStamp}
    /\ \/ EditorHolds(u)'
       \/ documents'[u].origin # "Workspace"
       \/ documents'[u] = documents[u] /\ ~EditorHolds(u)
       \/ Installing(u) /\ documents'[u].text = mainLoop.text
                        /\ documents'[u].stamp = NoStamp

FileStep(u) ==
    \/ disk'[u] = disk[u]
    \/ disk'[u].stamp = NoStamp
    \/ disk'[u].stamp = clock + 1 /\ clock' = clock + 1

HandlerStep(u) ==
    Installing(u)' => \/ Installing(u) /\ mainLoop' = mainLoop
                      \/ mainLoop'.text = disk[u].text /\ disk' = disk

StoreStep ==
    /\ clock' \in {clock, clock + 1}
    /\ walkCache'.entries \in {walkCache.entries, {}}
    /\ \A u \in Urls : EntryStep(u) /\ FileStep(u) /\ HandlerStep(u)

LEMMA DiskStep ==
    ASSUME TypeOK, Disk
    PROVE  StoreStep
  <1>1. UNCHANGED <<documents, mainLoop, walkCache>> /\ clock' = clock + 1
    BY DEF Disk, WriteFile, DeleteFile, EditorWrites, EditIgnoreFile, store
  <1>2. \A u \in Urls : editor'[u].open = editor[u].open
    BY DEF Disk, WriteFile, DeleteFile, EditorWrites, EditIgnoreFile, TypeOK, Buffer
  <1>3. \A u \in Urls : FileStep(u)
    BY <1>1 DEF Disk, WriteFile, DeleteFile, EditorWrites, EditIgnoreFile, FileStep, NoFile,
                TypeOK
  <1>4. \A u \in Urls : EntryStep(u) /\ HandlerStep(u)
    BY <1>1, <1>2 DEF EntryStep, HandlerStep, EditorHolds, Installing
  <1> QED
    BY <1>1, <1>3, <1>4 DEF StoreStep

\* A step that leaves the disk, the editor and the handlers alone and only
\* takes documents away.
LEMMA RemovalStep ==
    ASSUME TypeOK, UNCHANGED <<disk, clock, editor, mainLoop>>,
           walkCache'.entries \in {walkCache.entries, {}},
           NEW S, RemoveDocuments(S)
    PROVE  StoreStep
  <1> SUFFICES ASSUME NEW u \in Urls
               PROVE  EntryStep(u) /\ FileStep(u) /\ HandlerStep(u)
    BY DEF StoreStep
  <1>1. documents'[u] \in {documents[u], Untracked}
    BY DEF RemoveDocuments
  <1>2. EditorHolds(u)' = EditorHolds(u) /\ Installing(u)' = Installing(u)
    BY DEF EditorHolds, Installing
  <1>3. EntryStep(u)
    BY <1>1, <1>2 DEF EntryStep, Untracked
  <1> QED
    BY <1>2, <1>3 DEF FileStep, HandlerStep

\* The editor's own notifications leave every other document to itself.
LEMMA EditorStep ==
    ASSUME TypeOK, NEW u \in Urls, NEW version, NEW withText,
           DidOpen(u, version) \/ DidChange(u, version) \/ DidSave(u, withText) \/ DidClose(u)
    PROVE  StoreStep
  <1>0. /\ mainLoop = Idle /\ UNCHANGED <<disk, walkCache>>
        /\ clock' \in {clock, clock + 1}
    BY DEF DidOpen, DidChange, DidSave, DidClose, MainLoopFree
  <1>1. \A w \in Urls \ {u} : editor'[w] = editor[w] /\ documents'[w] = documents[w]
    <2>1. CASE DidOpen(u, version)
      BY <2>1, InsertAt DEF DidOpen, TypeOK
    <2>2. CASE DidChange(u, version)
      BY <2>2 DEF DidChange, TypeOK
    <2>3. CASE DidSave(u, withText)
      BY <2>3, RemoveAt DEF DidSave, TypeOK
    <2>4. CASE DidClose(u)
      BY <2>4, RemoveAt DEF DidClose, TypeOK
    <2> QED
      BY <2>1, <2>2, <2>3, <2>4
  <1>2. \/ mainLoop' = Idle
        \/ mainLoop'.url = u /\ mainLoop'.op = "recover" /\ editor[u].open
        \/ mainLoop'.url = u /\ mainLoop'.op = "close" /\ mainLoop'.text = disk[u].text
    BY <1>0 DEF DidOpen, DidChange, DidSave, DidClose
  <1>3. HandlerStep(u) /\ \A w \in Urls \ {u} : ~Installing(w)'
    BY <1>0, <1>2 DEF HandlerStep, Installing, Idle
  <1>4. \A w \in Urls \ {u} : EntryStep(w)
    BY <1>0, <1>1, <1>2 DEF EntryStep, EditorHolds, Idle
  <1>5. /\ documents'[u].stamp \in {documents[u].stamp, NoStamp}
        /\ EditorHolds(u)' \/ documents'[u].origin # "Workspace"
    <2>1. CASE DidOpen(u, version)
      BY <2>1 DEF DidOpen, InsertDocument, EditorHolds, TypeOK
    <2>2. CASE DidChange(u, version)
      <3>1. editor'[u].open
        BY <2>2 DEF DidChange, TypeOK, Buffer
      <3>2. documents'[u].stamp = documents[u].stamp
        <4>1. ASSUME NEW text, Tracked(u),
                     documents' = [documents EXCEPT ![u] = EditedEntry(@, text, version)]
              PROVE  documents'[u].stamp = documents[u].stamp
          <5>1. documents[u] \in
                  [text: Tick, version: Nat, stamp: Tick, origin: {"Open", "Workspace"}]
            BY <4>1, StoreAssumption, EntryTypes
          <5>2. documents'[u] = EditedEntry(documents[u], text, version)
            BY <4>1 DEF TypeOK
          <5> QED
            BY <5>1, <5>2 DEF EditedEntry
        <4> QED
          BY <2>2, <4>1 DEF DidChange
      <3> QED
        BY <3>1, <3>2 DEF EditorHolds
    <2>3. CASE DidSave(u, withText)
      <3>1. editor'[u].open
        BY <2>3 DEF DidSave, TypeOK, Buffer
      <3>2. documents'[u].stamp \in {documents[u].stamp, NoStamp}
        BY <2>3 DEF DidSave, RemoveDocuments, TypeOK, Tracked, Entry, Untracked
      <3> QED
        BY <3>1, <3>2 DEF EditorHolds
    <2>4. CASE DidClose(u)
      BY <2>4 DEF DidClose, RemoveDocuments, Untracked, EditorHolds, Tracked
    <2> QED
      BY <2>1, <2>2, <2>3, <2>4
  <1> QED
    BY <1>0, <1>3, <1>4, <1>5 DEF StoreStep, EntryStep, FileStep, HandlerStep

LEMMA InstallationStep ==
    ASSUME TypeOK, Installations
    PROVE  StoreStep
  <1>0. /\ UNCHANGED <<disk, clock, editor, walkCache>> /\ mainLoop' = Idle
        /\ mainLoop \in Handler
    BY DEF Installations, DidCloseInstall, DidChangeRecover, WatchedFileInstall, environment,
           TypeOK, Idle
  <1> SUFFICES ASSUME NEW u \in Urls
               PROVE  EntryStep(u) /\ FileStep(u) /\ HandlerStep(u)
    BY <1>0 DEF StoreStep
  <1>1. FileStep(u) /\ HandlerStep(u)
    BY <1>0 DEF FileStep, HandlerStep, Installing, Idle
  <1>2. mainLoop.url \in Urls
    BY <1>0 DEF Handler
  <1>3. EntryStep(u)
    <2>1. CASE DidCloseInstall /\ mainLoop.readable
      <3>1. InsertDocument(mainLoop.url, mainLoop.text, mainLoop.version, "Workspace")
        BY <2>1 DEF DidCloseInstall
      <3>2. CASE u = mainLoop.url
        BY <2>1, <3>1, <3>2 DEF DidCloseInstall, InsertDocument, TypeOK, EntryStep, Installing
      <3>3. CASE u # mainLoop.url
        <4>1. documents'[u] = documents[u]
          BY <3>1, <3>3, <1>2 DEF InsertDocument, TypeOK
        <4> QED
          BY <4>1, <3>3, <1>0 DEF EntryStep, EditorHolds, Idle
      <3> QED
        BY <3>2, <3>3
    <2>2. CASE DidCloseInstall /\ ~mainLoop.readable
      BY <2>2, <1>0 DEF DidCloseInstall, RemoveDocuments, Untracked, EntryStep, EditorHolds, Idle
    <2>3. CASE DidChangeRecover
      <3>1. \/ documents'[u] = documents[u]
            \/ documents'[u].stamp = NoStamp /\ documents'[u].origin = "Open"
        <4>1. CASE InsertDocument(mainLoop.url, mainLoop.text, mainLoop.version, "Open")
          BY <4>1, <1>2 DEF InsertDocument, TypeOK
        <4>2. CASE UNCHANGED documents
          BY <4>2
        <4> QED
          BY <2>3, <4>1, <4>2 DEF DidChangeRecover
      <3> QED
        BY <2>3, <3>1, <1>0 DEF DidChangeRecover, EntryStep, EditorHolds, Idle
    <2>4. CASE WatchedFileInstall /\ mainLoop.readable
      <3>1. InsertDocument(mainLoop.url, mainLoop.text, mainLoop.version, "Workspace")
        BY <2>4 DEF WatchedFileInstall
      <3>2. CASE u = mainLoop.url
        BY <2>4, <3>1, <3>2 DEF WatchedFileInstall, InsertDocument, TypeOK, EntryStep, Installing
      <3>3. CASE u # mainLoop.url
        <4>1. documents'[u] = documents[u]
          BY <3>1, <3>3, <1>2 DEF InsertDocument, TypeOK
        <4> QED
          BY <4>1, <3>3, <1>0 DEF EntryStep, EditorHolds, Idle
      <3> QED
        BY <3>2, <3>3
    <2>5. CASE WatchedFileInstall /\ ~mainLoop.readable
      BY <2>5, <1>0 DEF WatchedFileInstall, EntryStep, EditorHolds, Idle
    <2> QED
      BY <2>1, <2>2, <2>3, <2>4, <2>5 DEF Installations
  <1> QED
    BY <1>1, <1>3

LEMMA StoreSteps ==
    ASSUME TypeOK, StoreNext
    PROVE  StoreStep
  <1> USE DEF environment, store
  <1>1. ASSUME NEW u \in Urls, NEW kind \in {"created", "changed", "deleted"},
               WatchedFileEvent(kind, u)
        PROVE  StoreStep
    <2>0. UNCHANGED <<disk, clock, editor>> /\ mainLoop = Idle
          /\ walkCache'.entries = walkCache.entries
      BY <1>1 DEF WatchedFileEvent, MainLoopFree, WalkCacheInvalidate, TypeOK, WalkList
    <2>1. CASE RemoveDocuments({u}) /\ UNCHANGED mainLoop
      BY <2>0, <2>1, RemovalStep
    <2>2. CASE UNCHANGED <<documents, mainLoop>>
      BY <2>0, <2>2 DEF StoreStep, EntryStep, FileStep, HandlerStep, EditorHolds, Installing
    <2>3. CASE /\ UNCHANGED documents
               /\ mainLoop' = [op |-> "watch", url |-> u, text |-> disk[u].text,
                               readable |-> ReadableByPath(u), version |-> 0]
      BY <2>0, <2>3
         DEF StoreStep, EntryStep, FileStep, HandlerStep, EditorHolds, Installing, Idle
    <2> QED
      BY <1>1, <2>1, <2>2, <2>3 DEF WatchedFileEvent
  <1>2. CASE IgnoreFileEvent \/ WatchersAccepted
    <2>1. UNCHANGED <<disk, clock, editor, documents, mainLoop>>
          /\ walkCache'.entries = walkCache.entries
      BY <1>2 DEF IgnoreFileEvent, WatchersAccepted, WalkCacheInvalidate, TypeOK, WalkList
    <2> QED
      BY <2>1 DEF StoreStep, EntryStep, FileStep, HandlerStep, EditorHolds, Installing
  <1>3. ASSUME NEW u \in Urls, FileGone(u)
        PROVE  StoreStep
    BY <1>3, RemovalStep DEF FileGone
  <1>4. ASSUME NEW removed, NEW added, FoldersChange(removed, added)
        PROVE  StoreStep
    BY <1>4, RemovalStep DEF FoldersChange, WalkCacheClear
  <1>5. ASSUME NEW on, SetEnabled(on)
        PROVE  StoreStep
    <2>1. walkCache'.entries \in {walkCache.entries, {}}
      BY <1>5 DEF SetEnabled, WalkCacheInvalidate, WalkCacheClear, TypeOK, WalkList
    <2> QED
      BY <1>5, <2>1, RemovalStep DEF SetEnabled
  <1>6. ASSUME NEW u \in Urls, NEW version \in ClientVersions,
               DidOpen(u, version) \/ DidChange(u, version)
        PROVE  StoreStep
    BY <1>6, EditorStep
  <1>7. ASSUME NEW u \in Urls, NEW withText, DidSave(u, withText)
        PROVE  StoreStep
    BY <1>7, EditorStep
  <1>8. ASSUME NEW u \in Urls, DidClose(u)
        PROVE  StoreStep
    BY <1>8, EditorStep
  <1>9. Notifications => StoreStep
    BY <1>1, <1>2, <1>3, <1>4, <1>5, <1>6, <1>7, <1>8 DEF Notifications
  <1> QED
    BY <1>9, DiskStep, InstallationStep DEF StoreNext

LEMMA StampTypes ==
    ASSUME RefreshTypeOK
    PROVE  /\ clock \in Nat
           /\ \A u \in Urls : disk[u].stamp \in Nat /\ documents[u].stamp \in Nat
           /\ \A p \in Polls, k \in Keys : load[p][k] \in Load /\ load[p][k].stamp \in Nat
  <1>1. \A t \in Tick : t \in Nat
    BY StoreAssumption DEF Tick
  <1>2. ASSUME NEW u \in Urls
        PROVE  disk[u].stamp \in Tick /\ documents[u].stamp \in Tick
    BY StoreAssumption, EntryTypes DEF RefreshTypeOK, Entry, Untracked, NoStamp, Tick
  <1>3. ASSUME NEW p \in Polls, NEW k \in Keys
        PROVE  load[p][k] \in Load /\ load[p][k].stamp \in Tick
    BY DEF RefreshTypeOK, Load
  <1> QED
    BY <1>1, <1>2, <1>3 DEF RefreshTypeOK, TypeOK

LEMMA GateStoreStep ==
    ASSUME RefreshTypeOK, Gate, StoreStep, UNCHANGED <<poll, load, orphans>>
    PROVE  Gate'
  <1>0. /\ Dated /\ Listed
        /\ \A u \in Urls : GateSound(u)
        /\ \A p \in Polls, k \in Keys : LoadSound(p, k)
        /\ \A u \in Urls : EntryStep(u) /\ FileStep(u) /\ HandlerStep(u)
    BY DEF Gate, StoreStep
  <1>1. Dated'
    BY <1>0, StampTypes DEF Dated, StoreStep, EntryStep, FileStep, NoStamp
  <1>2. Listed'
    BY <1>0 DEF Listed, Placed, StoreStep
  <1>3. ASSUME NEW u \in Urls
        PROVE  GateSound(u)'
    <2> SUFFICES ASSUME ~EditorHolds(u)', documents'[u].origin = "Workspace",
                        documents'[u].stamp # NoStamp, documents'[u].stamp = disk'[u].stamp
                 PROVE  documents'[u].text = disk'[u].text
      BY DEF GateSound, Fresh, StampUnchanged
    <2>1. documents'[u] = documents[u] /\ ~EditorHolds(u)
      BY <1>0 DEF EntryStep
    <2>2. disk'[u] = disk[u]
      BY <1>0, <2>1, StampTypes DEF FileStep, Dated
    <2> QED
      BY <1>0, <2>1, <2>2 DEF GateSound, Fresh, StampUnchanged
  <1>4. ASSUME NEW p \in Polls, NEW k \in Keys
        PROVE  LoadSound(p, k)'
    <2> DEFINE u == k[2]
               l == load[p][k]
    <2>0. u \in Urls
      BY DEF Keys
    <2> SUFFICES ASSUME l.pc \in {"read", "install", "stamp"}, Current(l, u)'
                 PROVE  /\ Installing(u)' => mainLoop'.text = disk'[u].text
                        /\ l.pc = "install" => l.text = disk'[u].text
                        /\ (l.pc = "stamp" /\ ~EditorHolds(u)' /\ OwnedByDisk(u)')
                               => documents'[u].text = disk'[u].text
      BY DEF LoadSound, Current
    <2>1. disk'[u] = disk[u]
      BY <1>0, <2>0, StampTypes DEF FileStep, Dated, Current
    <2>2. /\ Installing(u) => mainLoop.text = disk[u].text
          /\ l.pc = "install" => l.text = disk[u].text
          /\ (l.pc = "stamp" /\ ~EditorHolds(u) /\ OwnedByDisk(u))
                 => documents[u].text = disk[u].text
      BY <1>0, <2>1 DEF LoadSound, Current
    <2>3. Installing(u)' => mainLoop'.text = disk'[u].text
      BY <1>0, <2>0, <2>1, <2>2 DEF HandlerStep
    <2>4. (l.pc = "stamp" /\ ~EditorHolds(u)' /\ OwnedByDisk(u)')
              => documents'[u].text = disk'[u].text
      BY <1>0, <2>0, <2>1, <2>2 DEF EntryStep, OwnedByDisk
    <2> QED
      BY <2>1, <2>2, <2>3, <2>4
  <1> QED
    BY <1>1, <1>2, <1>3, <1>4 DEF Gate

\* A step that leaves the files, their entries and the handlers alone keeps
\* the gate sound if the loads it changes have yet to pass the check, and
\* what it stores or starts is listed.
LEMMA GateIdleStep ==
    ASSUME RefreshTypeOK, Gate, UNCHANGED <<disk, clock, editor, documents, mainLoop>>,
           Placed(walkCache'.entries),
           \A p \in Polls : Placed(poll'[p].found),
           \A p \in Polls, k \in Keys :
              \/ load'[p][k] = load[p][k]
              \/ /\ load'[p][k].stamp <= clock
                 /\ load'[p][k].pc \notin {"read", "install", "stamp"}
                 /\ load'[p][k].pc # "none" => k[1] \in Under[k[2]]
    PROVE  Gate'
  <1>1. Dated'
    BY DEF Gate, Dated
  <1>2. Listed'
    BY DEF Gate, Listed, Placed
  <1>3. \A u \in Urls : GateSound(u)'
    BY DEF Gate, GateSound, EditorHolds
  <1>4. \A p \in Polls, k \in Keys : LoadSound(p, k)'
    BY DEF Gate, LoadSound, EditorHolds, Current, Installing, OwnedByDisk
  <1> QED
    BY <1>1, <1>2, <1>3, <1>4 DEF Gate

LEMMA StartsPlaced ==
    ASSUME RefreshTypeOK, NEW p \in Polls, NEW rs, NEW keys, Placed(keys), StartLoads(p, rs, keys)
    PROVE  /\ \A q \in Polls : poll'[q].found \in {poll[q].found, {}}
           /\ \A q \in Polls, k \in Keys :
                 \/ load'[q][k] = load[q][k]
                 \/ /\ load'[q][k].stamp = NoStamp
                    /\ load'[q][k].pc \in {"none", "probe"}
                    /\ load'[q][k].pc # "none" => k[1] \in Under[k[2]]
  <1>1. \A q \in Polls : poll'[q].found \in {poll[q].found, {}}
    BY DEF StartLoads, RefreshTypeOK
  <1>2. \A q \in Polls, k \in Keys : q # p => load'[q][k] = load[q][k]
    BY DEF StartLoads, RefreshTypeOK
  <1>3. \A k \in Keys :
           \/ load'[p][k] = NoLoad
           \/ k \in keys /\ load'[p][k] = [NoLoad EXCEPT !.pc = "probe"]
    BY DEF StartLoads, RefreshTypeOK
  <1> QED
    BY <1>1, <1>2, <1>3 DEF NoLoad, Placed

LEMMA GatePollStep ==
    ASSUME RefreshTypeOK, Gate, NEW p \in Polls,
           \/ PollSkips(p) \/ PollServesCache(p) \/ PollWalks(p)
           \/ Walk(p) \/ WalkFails(p) \/ PollWalked(p) \/ PollReturns(p)
    PROVE  Gate'
  <1> USE DEF storeVars, environment, store
  <1>0. /\ Listed /\ clock \in Nat /\ poll[p] \in Poll
        /\ poll \in [Polls -> Poll]
        /\ \A q \in Polls : Placed(poll[q].found)
    BY StampTypes DEF Gate, Listed, RefreshTypeOK
  <1>1. CASE PollSkips(p) \/ PollWalks(p) \/ WalkFails(p) \/ PollReturns(p)
    <2>1. poll'[p].found \in {poll[p].found, {}} /\ \A q \in Polls \ {p} : poll'[q] = poll[q]
      BY <1>0, <1>1 DEF PollSkips, PollWalks, WalkFails, PollReturns, Poll, IdlePoll
    <2>2. \A q \in Polls : Placed(poll'[q].found)
      BY <1>0, <2>1 DEF Placed
    <2>3. UNCHANGED <<disk, clock, editor, documents, mainLoop, walkCache, load>>
      BY <1>1 DEF PollSkips, PollWalks, WalkFails, PollReturns
    <2> QED
      BY <1>0, <2>2, <2>3, GateIdleStep DEF Listed
  <1>2. CASE Walk(p)
    <2>1. \A q \in Polls : poll'[q].found = IF q = p THEN WalkOf(poll[p].roots) ELSE poll[q].found
      BY <1>0, <1>2 DEF Walk, Poll
    <2>2. Placed(WalkOf(poll[p].roots))
      BY DEF Placed, WalkOf
    <2>3. \A q \in Polls : Placed(poll'[q].found)
      BY <1>0, <2>1, <2>2
    <2>4. UNCHANGED <<disk, clock, editor, documents, mainLoop, walkCache, load>>
      BY <1>2 DEF Walk
    <2> QED
      BY <1>0, <2>3, <2>4, GateIdleStep DEF Listed
  <1>3. CASE PollServesCache(p) \/ PollWalked(p)
    <2>1. PICK rs, keys : StartLoads(p, rs, keys) /\ Placed(keys)
      BY <1>0, <1>3 DEF PollServesCache, PollWalked, Listed
    <2>2. Placed(walkCache'.entries)
      <3>1. walkCache'.entries \in {walkCache.entries, poll[p].found}
        BY <1>3 DEF PollServesCache, PollWalked, WalkCacheStore
      <3> QED
        BY <1>0, <3>1 DEF Listed
    <2>3. \A q \in Polls : Placed(poll'[q].found)
      BY <1>0, <2>1, StartsPlaced DEF Placed
    <2>4. \A q \in Polls, k \in Keys :
             \/ load'[q][k] = load[q][k]
             \/ /\ load'[q][k].stamp <= clock
                /\ load'[q][k].pc \notin {"read", "install", "stamp"}
                /\ load'[q][k].pc # "none" => k[1] \in Under[k[2]]
      BY <1>0, <2>1, StartsPlaced DEF NoStamp
    <2>5. UNCHANGED <<disk, clock, editor, documents, mainLoop>>
      BY <1>3 DEF PollServesCache, PollWalked
    <2> QED
      BY <2>2, <2>3, <2>4, <2>5, GateIdleStep
  <1> QED
    BY <1>1, <1>2, <1>3

LEMMA GateRetains ==
    ASSUME RefreshTypeOK, Gate, NEW p \in Polls, PollRetains(p)
    PROVE  Gate'
  <1>0. UNCHANGED <<disk, clock, editor, mainLoop, walkCache>>
    BY DEF PollRetains, environment
  <1>1. \A u \in Urls : documents'[u] \in {documents[u], Untracked}
    BY DEF PollRetains, RemoveDocuments
  <1>2. \A q \in Polls, k \in Keys : load'[q][k] \in {load[q][k], NoLoad}
    BY DEF PollRetains, RefreshTypeOK
  <1>3. \A q \in Polls : poll'[q].found \in {poll[q].found, {}}
    BY DEF PollRetains, RefreshTypeOK, IdlePoll
  <1>4. Dated'
    BY <1>0, <1>1, <1>2, StampTypes DEF Gate, Dated, Untracked, NoLoad, NoStamp
  <1>5. Listed'
    BY <1>0, <1>2, <1>3 DEF Gate, Listed, Placed, NoLoad
  <1>6. \A u \in Urls : GateSound(u)'
    BY <1>0, <1>1 DEF Gate, GateSound, EditorHolds, Fresh, Untracked
  <1>7. \A q \in Polls, k \in Keys : LoadSound(q, k)'
    <2> SUFFICES ASSUME NEW q \in Polls, NEW k \in Keys
                 PROVE  LoadSound(q, k)'
      OBVIOUS
    <2>1. CASE load'[q][k] = NoLoad
      BY <2>1 DEF LoadSound, NoLoad
    <2>2. CASE load'[q][k] = load[q][k]
      <3>1. LoadSound(q, k) /\ k[2] \in Urls
        BY DEF Gate, Keys
      <3>2. OwnedByDisk(k[2])' => documents'[k[2]] = documents[k[2]]
        BY <1>1, <3>1 DEF OwnedByDisk, Untracked
      <3> QED
        BY <1>0, <2>2, <3>1, <3>2 DEF LoadSound, Current, Installing, EditorHolds, OwnedByDisk
    <2> QED
      BY <1>2, <2>1, <2>2
  <1> QED
    BY <1>4, <1>5, <1>6, <1>7 DEF Gate

\* One file has one load.
LEMMA OneLoad ==
    ASSUME OnePoll, Unnested, StoreAssumption, Listed,
           NEW p \in Polls, NEW k \in Keys, load[p][k].pc # "none",
           NEW q \in Polls, NEW j \in Keys, load[q][j].pc # "none", j[2] = k[2]
    PROVE  q = p /\ j = k
  <1>1. q = p
    BY DEF OnePoll
  <1>2. k[1] \in Under[k[2]] /\ j[1] \in Under[k[2]] /\ k[2] \in Urls
    BY DEF Listed, Placed, Keys
  <1>3. j[1] = k[1]
    BY <1>2 DEF Unnested
  <1> QED
    BY <1>1, <1>3 DEF Keys

\* What every step of a load leaves as it was.
LEMMA LoadFrame ==
    ASSUME RefreshTypeOK, Listed, NEW p \in Polls, NEW k \in Keys, LoadStep(p, k)
    PROVE  /\ UNCHANGED <<disk, clock, editor, mainLoop, walkCache, poll>>
           /\ load[p][k].pc # "none"
           /\ Listed'
           /\ \A q \in Polls, j \in Keys : <<q, j>> # <<p, k>> => load'[q][j] = load[q][j]
  <1> USE DEF storeVars, environment, store
  <1>1. /\ UNCHANGED <<disk, clock, editor, mainLoop, walkCache, poll>>
        /\ load[p][k].pc # "none"
    BY DEF LoadStep, Probe, CheckStamp, Read, Install, StampEntry
  <1>2. \A q \in Polls, j \in Keys : <<q, j>> # <<p, k>> => load'[q][j] = load[q][j]
    BY DEF LoadStep, Probe, CheckStamp, Read, Install, StampEntry, RefreshTypeOK
  <1>3. k[1] \in Under[k[2]]
    BY <1>1 DEF Listed, Placed
  <1>4. Listed'
    BY <1>1, <1>2, <1>3 DEF Listed, Placed
  <1> QED
    BY <1>1, <1>2, <1>4

\* The steps before the installation.
LEMMA GateReads ==
    ASSUME RefreshTypeOK, Gate, NEW p \in Polls, NEW k \in Keys,
           Probe(p, k) \/ CheckStamp(p, k) \/ Read(p, k)
    PROVE  Gate'
  <1> DEFINE u == k[2]
             l == load[p][k]
  <1> USE DEF storeVars, environment, store
  <1>0. /\ u \in Urls /\ l \in Load /\ l.stamp \in Nat /\ clock \in Nat
        /\ Dated /\ Listed /\ LoadSound(p, k)
        /\ documents' = documents
    BY StampTypes DEF Gate, Keys, Probe, CheckStamp, Read
  <1>1. /\ UNCHANGED <<disk, clock, editor, mainLoop, walkCache, poll>>
        /\ Listed'
        /\ \A q \in Polls, j \in Keys : <<q, j>> # <<p, k>> => load'[q][j] = load[q][j]
    BY <1>0, LoadFrame DEF LoadStep
  <1>2. \A v \in Urls : GateSound(v)'
    BY <1>0, <1>1 DEF Gate, GateSound, EditorHolds
  <1>3. load'[p][k].stamp \in {l.stamp, disk[u].stamp}
    <2>1. CASE Probe(p, k)
      BY <2>1, <1>0 DEF Probe, RefreshTypeOK, Load
    <2>2. CASE CheckStamp(p, k)
      BY <2>2, <1>0 DEF CheckStamp, RefreshTypeOK, Load
    <2>3. CASE Read(p, k)
      BY <2>3, <1>0 DEF Read, RefreshTypeOK, Load
    <2> QED
      BY <2>1, <2>2, <2>3
  <1>4. Dated'
    BY <1>0, <1>1, <1>3 DEF Dated
  <1>5. LoadSound(p, k)'
    <2>1. CASE Probe(p, k)
      <3>1. load'[p][k].pc = "check"
        BY <2>1, <1>0 DEF Probe, RefreshTypeOK, Load
      <3> QED
        BY <3>1 DEF LoadSound
    <2>2. CASE CheckStamp(p, k)
      <3>1. load'[p][k].pc \in {"loaded", "read"} /\ ~Installing(u)'
        BY <2>2, <1>0, <1>1
           DEF CheckStamp, RefreshTypeOK, Load, Installing, MainLoopFree, Idle
      <3> QED
        BY <3>1 DEF LoadSound
    <2>3. CASE Read(p, k)
      <3>1. /\ load'[p][k].pc \in {"install", "skipped"}
            /\ load'[p][k].text = disk[u].text
            /\ load'[p][k].stamp = l.stamp
            /\ l.pc = "read"
        BY <2>3, <1>0 DEF Read, RefreshTypeOK, Load
      <3> QED
        BY <3>1, <1>0, <1>1 DEF LoadSound, Current, Installing
    <2> QED
      BY <2>1, <2>2, <2>3
  <1>6. ASSUME NEW q \in Polls, NEW j \in Keys, <<q, j>> # <<p, k>>
        PROVE  LoadSound(q, j)'
    BY <1>0, <1>1, <1>6 DEF Gate, LoadSound, Current, Installing, EditorHolds, OwnedByDisk
  <1> QED
    BY <1>1, <1>2, <1>4, <1>5, <1>6 DEF Gate

\* The steps that write the entry.
LEMMA GateWrites ==
    ASSUME OnePoll, Unnested, RefreshTypeOK, Gate, NEW p \in Polls, NEW k \in Keys,
           Install(p, k) \/ StampEntry(p, k)
    PROVE  Gate'
  <1> DEFINE u == k[2]
             l == load[p][k]
  <1>0. /\ u \in Urls /\ l \in Load /\ l.stamp \in Nat /\ clock \in Nat
        /\ Dated /\ Listed /\ LoadSound(p, k)
    BY StampTypes DEF Gate, Keys
  <1>1. /\ UNCHANGED <<disk, clock, editor, mainLoop, walkCache, poll>>
        /\ l.pc # "none"
        /\ Listed'
        /\ \A q \in Polls, j \in Keys : <<q, j>> # <<p, k>> => load'[q][j] = load[q][j]
    BY <1>0, LoadFrame DEF LoadStep
  <1>2. \A v \in Urls \ {u} : documents'[v] = documents[v]
    BY <1>0, InsertAt DEF Install, StampEntry, RefreshTypeOK, TypeOK
  <1>3. load'[p][k].stamp = l.stamp
    BY <1>0 DEF Install, StampEntry, RefreshTypeOK, Load
  <1>4. documents'[u].stamp \in {documents[u].stamp, NoStamp, l.stamp}
    <2>1. CASE Install(p, k)
      BY <2>1, <1>0 DEF Install, InsertDocument, RefreshTypeOK, TypeOK
    <2>2. CASE StampEntry(p, k) /\ Tracked(u)
      <3>1. documents[u] \in
              [text: Tick, version: Nat, stamp: Tick, origin: {"Open", "Workspace"}]
        BY <2>2, <1>0, StoreAssumption, EntryTypes DEF RefreshTypeOK
      <3>2. documents'[u] = [documents[u] EXCEPT !.stamp = l.stamp]
        BY <2>2, <1>0 DEF StampEntry, RefreshTypeOK, TypeOK
      <3> QED
        BY <3>1, <3>2
    <2>3. CASE StampEntry(p, k) /\ ~Tracked(u)
      BY <2>3 DEF StampEntry
    <2> QED
      BY <2>1, <2>2, <2>3
  <1>5. Dated'
    BY <1>0, <1>1, <1>2, <1>3, <1>4 DEF Dated, NoStamp
  <1>6. GateSound(u)' /\ LoadSound(p, k)'
    <2>1. CASE Install(p, k)
      <3>1. /\ documents'[u].text = l.text /\ documents'[u].stamp = NoStamp
            /\ l.pc = "install" /\ load'[p][k].pc = "stamp"
        BY <2>1, <1>0 DEF Install, InsertDocument, RefreshTypeOK, TypeOK, Load
      <3>2. GateSound(u)'
        BY <3>1 DEF GateSound, Fresh, StampUnchanged
      <3>3. LoadSound(p, k)'
        BY <3>1, <1>0, <1>1, <1>3 DEF LoadSound, Current, Installing
      <3> QED
        BY <3>2, <3>3
    <2>2. CASE StampEntry(p, k)
      <3>1. load'[p][k].pc = "loaded" /\ l.pc = "stamp"
        BY <2>2, <1>0 DEF StampEntry, RefreshTypeOK, Load
      <3>2. LoadSound(p, k)'
        BY <3>1 DEF LoadSound
      <3>3. CASE Tracked(u)
        <4>1. documents[u] \in
                [text: Tick, version: Nat, stamp: Tick, origin: {"Open", "Workspace"}]
          BY <3>3, <1>0, StoreAssumption, EntryTypes DEF RefreshTypeOK
        <4>2. documents'[u] = [documents[u] EXCEPT !.stamp = l.stamp]
          BY <2>2, <3>3, <1>0 DEF StampEntry, RefreshTypeOK, TypeOK
        <4>3. /\ documents'[u].stamp = l.stamp
              /\ documents'[u].text = documents[u].text
              /\ documents'[u].origin = documents[u].origin
          BY <4>1, <4>2
        <4>4. (~EditorHolds(u) /\ Current(l, u) /\ OwnedByDisk(u))
                  => documents[u].text = disk[u].text
          BY <3>1, <1>0 DEF LoadSound
        <4> QED
          BY <3>2, <4>3, <4>4, <1>1
             DEF GateSound, Fresh, StampUnchanged, EditorHolds, Current, OwnedByDisk
      <3>4. CASE ~Tracked(u)
        <4>1. documents' = documents
          BY <2>2, <3>4 DEF StampEntry
        <4>2. GateSound(u)'
          BY <4>1, <3>4 DEF GateSound, Fresh, Tracked
        <4> QED
          BY <3>2, <4>2
      <3> QED
        BY <3>3, <3>4
    <2> QED
      BY <2>1, <2>2
  <1>7. \A v \in Urls \ {u} : GateSound(v)'
    BY <1>1, <1>2 DEF Gate, GateSound, EditorHolds
  <1>8. ASSUME NEW q \in Polls, NEW j \in Keys, <<q, j>> # <<p, k>>
        PROVE  LoadSound(q, j)'
    <2>1. load'[q][j] = load[q][j] /\ LoadSound(q, j) /\ j[2] \in Urls
      BY <1>1, <1>8 DEF Gate, Keys
    <2>2. CASE load[q][j].pc = "none"
      BY <2>1, <2>2 DEF LoadSound
    <2>3. CASE load[q][j].pc # "none"
      <3>1. j[2] # u
        BY <1>0, <1>1, <1>8, <2>3, StoreAssumption, OneLoad
      <3>2. documents'[j[2]] = documents[j[2]]
        BY <1>2, <2>1, <3>1
      <3> QED
        BY <1>1, <2>1, <3>2 DEF LoadSound, Current, Installing, EditorHolds, OwnedByDisk
    <2> QED
      BY <2>2, <2>3
  <1> QED
    BY <1>1, <1>5, <1>6, <1>7, <1>8 DEF Gate

LEMMA GateStep ==
    ASSUME OnePoll, Unnested, RefreshTypeOK, Gate, [RefreshNext]_vars
    PROVE  Gate'
  <1>1. CASE StoreNext /\ UNCHANGED <<poll, load, orphans>>
    BY <1>1, StoreSteps, GateStoreStep DEF RefreshTypeOK
  <1>2. ASSUME NEW p \in Polls, NEW k \in Keys, LoadStep(p, k)
        PROVE  Gate'
    BY <1>2, GateReads, GateWrites DEF LoadStep
  <1>3. ASSUME NEW p \in Polls, PollStep(p)
        PROVE  Gate'
    BY <1>2, <1>3, GatePollStep, GateRetains DEF PollStep
  <1>4. CASE UNCHANGED vars
    <2>1. UNCHANGED <<disk, clock, editor, documents, mainLoop, walkCache, poll, load>>
      BY <1>4 DEF vars, storeVars, environment, store
    <2> QED
      BY <2>1, GateIdleStep DEF Gate, Listed
  <1> QED
    BY <1>1, <1>3, <1>4 DEF RefreshNext

\* A snapshot that the next poll would keep for its stamp holds the file's
\* present text (mod.rs: "Any doubt re-reads"), whatever the disk, the editor
\* and the handlers do between the steps of the loads.
THEOREM RefreshStampSound ==
    ASSUME OnePoll, Unnested
    PROVE  RefreshSpec => []StampSound
  <1>1. RefreshInit => RefreshTypeOK /\ Gate
    BY RefreshTypeInit, GateInit
  <1>2. RefreshTypeOK /\ Gate /\ [RefreshNext]_vars => RefreshTypeOK' /\ Gate'
    BY RefreshTypeStep, GateStep
  <1>3. Gate => StampSound
    BY DEF Gate, GateSound, EditorHolds, StampSound
  <1> QED
    BY <1>1, <1>2, <1>3, PTL DEF RefreshSpec

-----------------------------------------------------------------------------
(* Polls that may be cancelled, and the history of their walks *)

\* A handler that goes on to install what the disk holds has a document that
\* is not the editor's, and keeps the main loop until it has installed it.
HandlerLeavesOpen ==
    /\ mainLoop.op = "watch" => documents[mainLoop.url].origin # "Open"
    /\ mainLoop.op = "close" => ~editor[mainLoop.url].open

\* An event on its way that makes the next poll walk again for k.
Announced(k) ==
    \/ [kind |-> "ignoreFile"] \in events
    \/ \E kind \in {"created", "deleted"} : [kind |-> kind, url |-> k[2]] \in events

\* The list S is what a walk would find now, but for events on their way.
Accounted(S) == \A k \in Keys : (k \in S <=> k \in WalkOf(roots)) \/ Announced(k)

\* A walk that stores its list was begun under a watching client, and as long
\* as no invalidation has crossed it its list is as good as a new one.
WalkSound(p) ==
    /\ poll[p].caching => watching
    /\ poll[p].pc \in {"walk", "walked"} /\ poll[p].caching /\ p \notin crossed
           => poll[p].roots = roots
    /\ poll[p].pc = "walked" /\ poll[p].caching /\ p \notin crossed
           => Accounted(poll[p].found)

ListSound ==
    /\ walkCache.present => watching
    /\ WalkCacheValid /\ ~tainted => Accounted(walkCache.entries)

HistoryInv ==
    /\ RefreshTypeOK
    /\ HandlerLeavesOpen
    /\ \A p \in Polls : WalkSound(p)
    /\ ListSound

\* Dropping the future of a poll leaves closures on the pool behind.
LEMMA CancelTypes ==
    ASSUME RefreshTypeOK, NEW p \in Polls, PollCancelled(p)
    PROVE  RefreshTypeOK'
  <1>1. IdlePoll \in Poll /\ [k \in Keys |-> NoLoad] \in [Keys -> Load]
    BY StoreAssumption DEF IdlePoll, Poll, NoLoad, Load, NoStamp, Tick
  <1>2. poll' \in [Polls -> Poll] /\ load' \in [Polls -> [Keys -> Load]]
    BY <1>1 DEF PollCancelled, RefreshTypeOK
  <1>3. Detached(p) \subseteq [key: Keys, pc: {"read", "install"}, text: Tick]
    BY DEF Detached, RefreshTypeOK, Load
  <1>4. orphans' \subseteq [key: Keys, pc: {"read", "install"}, text: Tick]
    BY <1>3 DEF PollCancelled, RefreshTypeOK
  <1> QED
    BY <1>2, <1>4
       DEF PollCancelled, RefreshTypeOK, TypeOK, storeVars, environment, store

LEMMA OrphanTypes ==
    ASSUME RefreshTypeOK, NEW o \in orphans, OrphanReads(o) \/ OrphanInstalls(o)
    PROVE  RefreshTypeOK'
  <1>0. /\ o \in [key: Keys, pc: {"read", "install"}, text: Tick]
        /\ o.key \in Keys /\ o.key[2] \in Urls /\ o.text \in Tick
    BY DEF RefreshTypeOK, Keys
  <1>1. CASE OrphanReads(o)
    <2> DEFINE holding == [o EXCEPT !.pc = "install", !.text = disk[o.key[2]].text]
    <2>1. disk[o.key[2]].text \in Tick
      BY <1>0, StoreAssumption, EntryTypes DEF RefreshTypeOK
    <2>2. holding \in [key: Keys, pc: {"read", "install"}, text: Tick]
      BY <1>0, <2>1
    <2>3. orphans' \subseteq (orphans \ {o}) \cup {holding}
      BY <1>1 DEF OrphanReads
    <2> HIDE DEF holding
    <2>4. orphans' \subseteq [key: Keys, pc: {"read", "install"}, text: Tick]
      BY <2>2, <2>3 DEF RefreshTypeOK
    <2> QED
      BY <1>1, <2>4 DEF OrphanReads, RefreshTypeOK, TypeOK, storeVars, environment, store
  <1>2. CASE OrphanInstalls(o)
    <2>1. documents' \in [Urls -> Entry] /\ semanticCache' \in [Urls -> Tick]
      BY <1>0, <1>2, StoreAssumption, InsertTypes DEF OrphanInstalls, RefreshTypeOK
    <2> QED
      BY <1>2, <2>1 DEF OrphanInstalls, RefreshTypeOK, TypeOK, environment
  <1> QED
    BY <1>1, <1>2

LEMMA HistoryTypeStep ==
    ASSUME RefreshTypeOK, [HistoryNext]_historyVars
    PROVE  RefreshTypeOK'
  <1>1. CASE RefreshNext
    BY <1>1, RefreshTypeStep
  <1>2. CASE \E p \in Polls : PollCancelled(p)
    BY <1>2, CancelTypes
  <1>3. CASE \E o \in orphans : OrphanReads(o) \/ OrphanInstalls(o)
    BY <1>3, OrphanTypes
  <1>4. CASE UNCHANGED historyVars
    BY <1>4, RefreshTypeStep DEF historyVars
  <1> QED
    BY <1>1, <1>2, <1>3, <1>4 DEF HistoryNext

-----------------------------------------------------------------------------
(* Who takes an open document from the editor *)

LEMMA StampedOrigins ==
    ASSUME RefreshTypeOK, NEW p \in Polls, NEW k \in Keys, StampEntry(p, k), NEW u \in Urls
    PROVE  documents'[u].origin = documents[u].origin
  <1>1. k[2] \in Urls
    BY DEF Keys
  <1>2. CASE ~Tracked(k[2])
    BY <1>2 DEF StampEntry
  <1>3. CASE Tracked(k[2])
    <2>1. documents[k[2]] \in [text: Tick, version: Nat, stamp: Tick,
                               origin: {"Open", "Workspace"}]
      BY <1>1, <1>3, StoreAssumption, EntryTypes DEF RefreshTypeOK
    <2> DEFINE stamped == [documents[k[2]] EXCEPT !.stamp = load[p][k].stamp]
    <2>2. stamped.origin = documents[k[2]].origin
      BY <2>1
    <2>3. documents' = [documents EXCEPT ![k[2]] = stamped]
      BY <1>3 DEF StampEntry
    <2> HIDE DEF stamped
    <2> QED
      BY <1>1, <2>2, <2>3 DEF RefreshTypeOK, TypeOK
  <1> QED
    BY <1>2, <1>3

\* Polls open nothing, and what they take from the editor they install.
LEMMA PollSparesOpen ==
    ASSUME RefreshTypeOK, NEW p \in Polls, PollStep(p) \/ PollCancelled(p), NEW u \in Urls
    PROVE  /\ UNCHANGED <<mainLoop, editor>>
           /\ documents'[u].origin = "Open" => documents[u].origin = "Open"
           /\ documents[u].origin = "Open" => documents'[u].origin = "Open" \/ Overtaken(u)
  <1>1. ASSUME NEW k \in Keys, LoadStep(p, k)
        PROVE  /\ UNCHANGED <<mainLoop, editor>>
               /\ documents'[u].origin = "Open" => documents[u].origin = "Open"
               /\ documents[u].origin = "Open" => documents'[u].origin = "Open" \/ Overtaken(u)
    <2>1. CASE Probe(p, k) \/ CheckStamp(p, k) \/ Read(p, k)
      BY <2>1 DEF Probe, CheckStamp, Read, storeVars, environment, store
    <2>2. CASE StampEntry(p, k)
      BY <2>2, StampedOrigins DEF StampEntry, environment
    <2>3. CASE Install(p, k)
      <3>1. k[2] \in Urls /\ UNCHANGED <<mainLoop, editor>>
        BY <2>3 DEF Install, environment, Keys
      <3>2. /\ u # k[2] => documents'[u] = documents[u]
            /\ documents'[k[2]].origin = "Workspace"
        BY <2>3, <3>1, InsertAt DEF Install, RefreshTypeOK
      <3>3. load[p][k].pc = "install" /\ load'[p][k].pc = "stamp"
        BY <2>3 DEF Install, RefreshTypeOK, Load
      <3>4. u = k[2] => Overtaken(u)
        BY <3>3 DEF Overtaken
      <3> QED
        BY <3>1, <3>2, <3>4
    <2> QED
      BY <1>1, <2>1, <2>2, <2>3 DEF LoadStep
  <1>2. CASE PollRetains(p)
    <2>1. PICK urls : RemoveDocuments({w \in Urls : Tracked(w) /\ ~Keeps(w, poll[p].roots, urls)})
      BY <1>2 DEF PollRetains
    <2>2. documents'[u] \in {documents[u], Untracked}
      BY <2>1 DEF RemoveDocuments
    <2>3. documents[u].origin = "Open" => documents'[u] = documents[u]
      BY <2>1, RemoveAt DEF Keeps
    <2> QED
      BY <1>2, <2>2, <2>3 DEF PollRetains, environment, Untracked
  <1>3. CASE \/ PollSkips(p) \/ PollServesCache(p) \/ PollWalks(p) \/ Walk(p)
             \/ WalkFails(p) \/ PollWalked(p) \/ PollReturns(p) \/ PollCancelled(p)
    BY <1>3 DEF PollSkips, PollServesCache, PollWalks, Walk, WalkFails, PollWalked,
                PollReturns, PollCancelled, storeVars, environment, store
  <1> QED
    BY <1>1, <1>2, <1>3 DEF PollStep

LEMMA OrphanSparesOpen ==
    ASSUME RefreshTypeOK, NEW o \in orphans, OrphanReads(o) \/ OrphanInstalls(o), NEW u \in Urls
    PROVE  /\ UNCHANGED <<mainLoop, editor>>
           /\ documents'[u].origin = "Open" => documents[u].origin = "Open"
           /\ documents[u].origin = "Open" => documents'[u].origin = "Open" \/ Overtaken(u)
  <1>1. CASE OrphanReads(o)
    BY <1>1 DEF OrphanReads, storeVars, environment, store
  <1>2. CASE OrphanInstalls(o)
    <2>1. o.key[2] \in Urls /\ UNCHANGED <<mainLoop, editor>>
      BY <1>2 DEF OrphanInstalls, environment, RefreshTypeOK, Keys
    <2>2. /\ u # o.key[2] => documents'[u] = documents[u]
          /\ documents'[o.key[2]].origin = "Workspace"
      BY <1>2, <2>1, InsertAt DEF OrphanInstalls, RefreshTypeOK
    <2>3. o.pc = "install" /\ o \notin orphans'
      BY <1>2 DEF OrphanInstalls
    <2>4. u = o.key[2] => Overtaken(u)
      BY <2>3 DEF Overtaken
    <2> QED
      BY <2>1, <2>2, <2>4
  <1> QED
    BY <1>1, <1>2

\* What the handlers and the disk leave of an open document.
LEMMA StoreSparesOpen ==
    ASSUME TypeOK, HandlerLeavesOpen, StoreNext, NEW u \in Urls,
           documents[u].origin = "Open", editor'[u].open
    PROVE  documents'[u].origin = "Open" \/ NothingSaved(u)
  <1>0. ASSUME NEW S, RemoveDocuments(S), u \notin S
        PROVE  documents'[u].origin = "Open"
    BY <1>0, RemoveAt
  <1>1. CASE Disk \/ WatchersAccepted \/ IgnoreFileEvent
    BY <1>1 DEF Disk, WriteFile, DeleteFile, EditorWrites, EditIgnoreFile, WatchersAccepted,
                IgnoreFileEvent, store
  <1>2. ASSUME NEW w \in Urls, NEW version \in ClientVersions, DidOpen(w, version)
        PROVE  documents'[u].origin = "Open"
    BY <1>2, InsertAt DEF DidOpen
  <1>3. ASSUME NEW w \in Urls, NEW version \in ClientVersions, DidChange(w, version)
        PROVE  documents'[u].origin = "Open"
    <2>1. CASE ~Tracked(w)
      BY <1>3, <2>1 DEF DidChange
    <2>2. CASE Tracked(w)
      <3>1. PICK text \in {clock', Mangled} :
               documents' = [documents EXCEPT ![w] = EditedEntry(@, text, version)]
        BY <1>3, <2>2 DEF DidChange
      <3> QED
        BY <2>2, <3>1, EditedAt
    <2> QED
      BY <2>1, <2>2
  <1>4. ASSUME NEW w \in Urls, NEW withText \in SaveTexts[w], DidSave(w, withText)
        PROVE  documents'[u].origin = "Open" \/ NothingSaved(u)
    <2>1. CASE ~Tracked(w)
      BY <1>4, <2>1 DEF DidSave
    <2>2. CASE Tracked(w) /\ (withText \/ ReadableByPath(w))
      BY <1>4, <2>2, SavedAt DEF DidSave
    <2>3. CASE Tracked(w) /\ ~(withText \/ ReadableByPath(w))
      <3>1. RemoveDocuments({w}) /\ editor[w].saved /\ ~editor'[w].saved
        BY <1>4, <2>3 DEF DidSave, TypeOK, Buffer
      <3>2. w = u => NothingSaved(u)
        BY <2>3, <3>1 DEF NothingSaved
      <3> QED
        BY <1>0, <3>1, <3>2
    <2> QED
      BY <2>1, <2>2, <2>3
  <1>5. ASSUME NEW w \in Urls, DidClose(w)
        PROVE  documents'[u].origin = "Open"
    <2>1. u # w
      BY <1>5 DEF DidClose, TypeOK, Closed
    <2> QED
      BY <1>0, <1>5, <2>1 DEF DidClose
  <1>6. ASSUME NEW w \in Urls, FileGone(w)
        PROVE  documents'[u].origin = "Open"
    BY <1>0, <1>6 DEF FileGone, OwnedByDisk
  <1>7. ASSUME NEW w \in Urls, NEW kind \in {"created", "changed", "deleted"},
               WatchedFileEvent(kind, w)
        PROVE  documents'[u].origin = "Open"
    BY <1>0, <1>7 DEF WatchedFileEvent, OwnedByDisk
  <1>8. ASSUME NEW removed \in SUBSET Folders, NEW added \in SUBSET Folders,
               FoldersChange(removed, added)
        PROVE  documents'[u].origin = "Open"
    BY <1>0, <1>8 DEF FoldersChange, WorkspaceOrigin, OwnedByDisk
  <1>9. ASSUME NEW on \in BOOLEAN, SetEnabled(on)
        PROVE  documents'[u].origin = "Open"
    BY <1>0, <1>9 DEF SetEnabled, WorkspaceOrigin, OwnedByDisk
  <1>10. CASE Installations
    <2>0. mainLoop \in Handler /\ mainLoop.url \in Urls
      BY <1>10 DEF Installations, DidCloseInstall, DidChangeRecover, WatchedFileInstall,
                   TypeOK, Idle, Handler
    <2>1. CASE DidCloseInstall
      <3>1. u # mainLoop.url
        BY <2>1 DEF DidCloseInstall, HandlerLeavesOpen, environment
      <3> QED
        BY <1>0, <2>0, <2>1, <3>1, InsertAt DEF DidCloseInstall
    <2>2. CASE DidChangeRecover
      BY <2>0, <2>2, InsertAt DEF DidChangeRecover
    <2>3. CASE WatchedFileInstall
      <3>1. u # mainLoop.url
        BY <2>3 DEF WatchedFileInstall, HandlerLeavesOpen
      <3> QED
        BY <2>0, <2>3, <3>1, InsertAt DEF WatchedFileInstall
    <2> QED
      BY <1>10, <2>1, <2>2, <2>3 DEF Installations
  <1> QED
    BY <1>1, <1>2, <1>3, <1>4, <1>5, <1>6, <1>7, <1>8, <1>9, <1>10 DEF StoreNext, Notifications

LEMMA HandlerStoreStep ==
    ASSUME TypeOK, HandlerLeavesOpen, StoreNext
    PROVE  HandlerLeavesOpen'
  <1>0. ASSUME mainLoop' = Idle
        PROVE  HandlerLeavesOpen'
    BY <1>0 DEF HandlerLeavesOpen, Idle
  <1>1. CASE Disk \/ WatchersAccepted
    <2>1. UNCHANGED <<documents, mainLoop>>
      BY <1>1 DEF Disk, WriteFile, DeleteFile, EditorWrites, EditIgnoreFile, WatchersAccepted,
                  store
    <2>2. \A u \in Urls : editor'[u].open = editor[u].open
      BY <1>1 DEF Disk, WriteFile, DeleteFile, EditorWrites, EditIgnoreFile, WatchersAccepted,
                  environment, TypeOK, Buffer
    <2>3. mainLoop.op = "close" => mainLoop.url \in Urls
      BY DEF TypeOK, Handler, Idle
    <2> QED
      BY <2>1, <2>2, <2>3 DEF HandlerLeavesOpen
  <1>2. ASSUME NEW u \in Urls, DidClose(u)
        PROVE  HandlerLeavesOpen'
    <2>1. ~editor'[u].open /\ mainLoop = Idle
      BY <1>2 DEF DidClose, TypeOK, Closed, MainLoopFree
    <2>2. CASE mainLoop' = mainLoop
      BY <1>0, <2>1, <2>2
    <2>3. CASE mainLoop' = [op |-> "close", url |-> u, text |-> disk[u].text,
                            readable |-> ReadableByPath(u), version |-> 0]
      BY <2>1, <2>3 DEF HandlerLeavesOpen
    <2> QED
      BY <1>2, <2>2, <2>3 DEF DidClose
  <1>3. ASSUME NEW u \in Urls, NEW version \in ClientVersions, DidChange(u, version)
        PROVE  HandlerLeavesOpen'
    <2>1. CASE mainLoop' = mainLoop
      BY <1>0, <1>3, <2>1 DEF DidChange, MainLoopFree
    <2>2. CASE mainLoop' = [op |-> "recover", url |-> u, text |-> disk[u].text,
                            readable |-> ReadableByPath(u), version |-> version]
      BY <2>2 DEF HandlerLeavesOpen
    <2> QED
      BY <1>3, <2>1, <2>2 DEF DidChange
  <1>4. ASSUME NEW u \in Urls, NEW kind \in {"created", "changed", "deleted"},
               WatchedFileEvent(kind, u)
        PROVE  HandlerLeavesOpen'
    <2>1. CASE mainLoop' = mainLoop
      BY <1>0, <1>4, <2>1 DEF WatchedFileEvent, MainLoopFree
    <2>2. CASE /\ OwnedByDisk(u) /\ UNCHANGED documents
               /\ mainLoop' = [op |-> "watch", url |-> u, text |-> disk[u].text,
                               readable |-> ReadableByPath(u), version |-> 0]
      BY <2>2 DEF HandlerLeavesOpen, OwnedByDisk
    <2> QED
      BY <1>4, <2>1, <2>2 DEF WatchedFileEvent
  <1>5. ASSUME NEW on \in BOOLEAN, SetEnabled(on)
        PROVE  HandlerLeavesOpen'
    <2>1. UNCHANGED <<editor, mainLoop>>
      BY <1>5 DEF SetEnabled, environment
    <2>2. \A u \in Urls : documents'[u] = documents[u] \/ documents'[u].origin = "Untracked"
      BY <1>5, RemoveAt DEF SetEnabled
    <2>3. mainLoop.op = "watch" => mainLoop.url \in Urls
      BY DEF TypeOK, Handler, Idle
    <2> QED
      BY <2>1, <2>2, <2>3 DEF HandlerLeavesOpen
  <1>6. CASE \/ \E u \in Urls, version \in ClientVersions : DidOpen(u, version)
             \/ \E u \in Urls : \E withText \in SaveTexts[u] : DidSave(u, withText)
             \/ \E u \in Urls : FileGone(u)
             \/ IgnoreFileEvent
             \/ \E removed, added \in SUBSET Folders : FoldersChange(removed, added)
             \/ Installations
    BY <1>0, <1>6 DEF DidOpen, DidSave, FileGone, IgnoreFileEvent, FoldersChange, MainLoopFree,
                      Installations, DidCloseInstall, DidChangeRecover, WatchedFileInstall
  <1> QED
    BY <1>1, <1>2, <1>3, <1>4, <1>5, <1>6 DEF StoreNext, Notifications

LEMMA HandlerPollStep ==
    ASSUME TypeOK, HandlerLeavesOpen, UNCHANGED <<mainLoop, editor>>,
           \A u \in Urls : documents'[u].origin = "Open" => documents[u].origin = "Open"
    PROVE  HandlerLeavesOpen'
  <1>1. mainLoop.op = "watch" => mainLoop.url \in Urls
    BY DEF TypeOK, Handler, Idle
  <1> QED
    BY <1>1 DEF HandlerLeavesOpen

LEMMA HandlerHistoryStep ==
    ASSUME RefreshTypeOK, HandlerLeavesOpen, [HistoryNext]_historyVars
    PROVE  HandlerLeavesOpen'
  <1>0. TypeOK
    BY DEF RefreshTypeOK
  <1>1. CASE StoreNext
    BY <1>0, <1>1, HandlerStoreStep
  <1>2. ASSUME NEW p \in Polls, PollStep(p) \/ PollCancelled(p)
        PROVE  HandlerLeavesOpen'
    <2>1. \A u \in Urls : /\ UNCHANGED <<mainLoop, editor>>
                          /\ documents'[u].origin = "Open" => documents[u].origin = "Open"
      BY <1>2, PollSparesOpen
    <2>2. UNCHANGED <<mainLoop, editor>>
      <3>1. CASE Urls = {}
        <4>1. ASSUME NEW k \in Keys
              PROVE  FALSE
          BY <3>1 DEF Keys
        <4>2. UNCHANGED storeVars \/ UNCHANGED <<environment, mainLoop>>
          BY <1>2, <4>1
             DEF PollStep, PollSkips, PollServesCache, PollWalks, Walk, WalkFails, PollWalked,
                 PollRetains, PollReturns, PollCancelled
        <4> QED
          BY <4>2 DEF storeVars, environment
      <3>2. CASE Urls # {}
        BY <2>1, <3>2
      <3> QED
        BY <3>1, <3>2
    <2> QED
      BY <1>0, <2>1, <2>2, HandlerPollStep
  <1>3. ASSUME NEW o \in orphans, OrphanReads(o) \/ OrphanInstalls(o)
        PROVE  HandlerLeavesOpen'
    <2>1. o.key[2] \in Urls
      BY DEF RefreshTypeOK, Keys
    <2>2. \A u \in Urls : /\ UNCHANGED <<mainLoop, editor>>
                          /\ documents'[u].origin = "Open" => documents[u].origin = "Open"
      BY <1>3, OrphanSparesOpen
    <2> QED
      BY <1>0, <2>1, <2>2, HandlerPollStep
  <1>4. CASE UNCHANGED historyVars
    BY <1>4 DEF historyVars, vars, storeVars, environment, store, HandlerLeavesOpen
  <1> QED
    BY <1>1, <1>2, <1>3, <1>4 DEF HistoryNext, RefreshNext

\* What a step of any of them leaves of an open document.
LEMMA OpenStep ==
    ASSUME RefreshTypeOK, HandlerLeavesOpen, [HistoryNext]_historyVars
    PROVE  [\A u \in Urls :
              (documents[u].origin = "Open" /\ documents'[u].origin # "Open" /\ editor'[u].open)
                  => Overtaken(u) \/ NothingSaved(u)]_vars
  <1> SUFFICES ASSUME NEW u \in Urls, documents[u].origin = "Open",
                      documents'[u].origin # "Open", editor'[u].open
               PROVE  Overtaken(u) \/ NothingSaved(u)
    OBVIOUS
  <1>1. CASE StoreNext
    BY <1>1, StoreSparesOpen DEF RefreshTypeOK
  <1>2. CASE \E p \in Polls : PollStep(p) \/ PollCancelled(p)
    BY <1>2, PollSparesOpen
  <1>3. CASE \E o \in orphans : OrphanReads(o) \/ OrphanInstalls(o)
    BY <1>3, OrphanSparesOpen
  <1>4. CASE UNCHANGED historyVars
    BY <1>4 DEF historyVars, vars, storeVars, store
  <1> QED
    BY <1>1, <1>2, <1>3, <1>4 DEF HistoryNext, RefreshNext

\* With any number of polls, loads and cancellations in flight an open
\* document stays the editor's until the editor closes it, a didSave has
\* nothing to install, or a load that passed its check before the document
\* was opened installs what it read: load_workspace_document's last check is
\* the only gap.
THEOREM HistoryOpenLostOnlyToLoad == HistorySpec => OpenLostOnlyToLoad
  <1>1. HistoryInit => RefreshTypeOK /\ HandlerLeavesOpen
    <2>1. HistoryInit => RefreshInit /\ mainLoop = Idle
      BY DEF HistoryInit, RefreshInit, StoreInit
    <2>2. mainLoop = Idle => HandlerLeavesOpen
      BY DEF HandlerLeavesOpen, Idle
    <2> QED
      BY <2>1, <2>2, RefreshTypeInit
  <1>2. RefreshTypeOK /\ HandlerLeavesOpen /\ [HistoryNext]_historyVars
            => RefreshTypeOK' /\ HandlerLeavesOpen'
    BY HistoryTypeStep, HandlerHistoryStep
  <1> QED
    BY <1>1, <1>2, OpenStep, PTL DEF HistorySpec, OpenLostOnlyToLoad

-----------------------------------------------------------------------------
(* Workspace documents that no poll looks at again *)

\* What a handler may install: the file it closes is still one to keep, but
\* for a switch that went off, and the file an event told of is still there,
\* but for a switch that dropped it.
HandlerMayInstall ==
    /\ mainLoop.op = "close" => /\ mainLoop.url \in Matched
                                /\ InRoots(mainLoop.url, roots)
                                /\ MultiThread \/ enabled
    /\ mainLoop.op = "watch" => MultiThread \/ OwnedByDisk(mainLoop.url)

LEMMA MayInstallStoreStep ==
    ASSUME TypeOK, HandlerMayInstall, StoreNext
    PROVE  HandlerMayInstall'
  <1>0. ASSUME mainLoop' = Idle
        PROVE  HandlerMayInstall'
    BY <1>0 DEF HandlerMayInstall, Idle
  <1>1. CASE Disk \/ WatchersAccepted
    <2>1. UNCHANGED <<documents, mainLoop, roots, enabled>>
      BY <1>1 DEF Disk, WriteFile, DeleteFile, EditorWrites, EditIgnoreFile, WatchersAccepted,
                  store
    <2> QED
      BY <2>1 DEF HandlerMayInstall, InRoots, OwnedByDisk
  <1>2. ASSUME NEW u \in Urls, DidClose(u)
        PROVE  HandlerMayInstall'
    <2>1. CASE mainLoop' = mainLoop
      BY <1>0, <1>2, <2>1 DEF DidClose, MainLoopFree
    <2>2. CASE /\ KeepAsWorkspace(u)
               /\ mainLoop' = [op |-> "close", url |-> u, text |-> disk[u].text,
                               readable |-> ReadableByPath(u), version |-> 0]
      <3>1. UNCHANGED <<roots, enabled>>
        BY <1>2 DEF DidClose
      <3> QED
        BY <2>2, <3>1 DEF HandlerMayInstall, KeepAsWorkspace, InRoots
    <2> QED
      BY <1>2, <2>1, <2>2 DEF DidClose
  <1>3. ASSUME NEW u \in Urls, NEW version \in ClientVersions, DidChange(u, version)
        PROVE  HandlerMayInstall'
    <2>1. CASE mainLoop' = mainLoop
      BY <1>0, <1>3, <2>1 DEF DidChange, MainLoopFree
    <2>2. CASE mainLoop' = [op |-> "recover", url |-> u, text |-> disk[u].text,
                            readable |-> ReadableByPath(u), version |-> version]
      BY <2>2 DEF HandlerMayInstall
    <2> QED
      BY <1>3, <2>1, <2>2 DEF DidChange
  <1>4. ASSUME NEW u \in Urls, NEW kind \in {"created", "changed", "deleted"},
               WatchedFileEvent(kind, u)
        PROVE  HandlerMayInstall'
    <2>1. CASE mainLoop' = mainLoop
      BY <1>0, <1>4, <2>1 DEF WatchedFileEvent, MainLoopFree
    <2>2. CASE /\ OwnedByDisk(u) /\ UNCHANGED documents
               /\ mainLoop' = [op |-> "watch", url |-> u, text |-> disk[u].text,
                               readable |-> ReadableByPath(u), version |-> 0]
      BY <2>2 DEF HandlerMayInstall, OwnedByDisk
    <2> QED
      BY <1>4, <2>1, <2>2 DEF WatchedFileEvent
  <1>5. ASSUME NEW on \in BOOLEAN, SetEnabled(on)
        PROVE  HandlerMayInstall'
    <2>1. UNCHANGED <<mainLoop, roots>>
      BY <1>5 DEF SetEnabled
    <2>2. MainLoopFree \/ MultiThread
      BY <1>5 DEF SetEnabled
    <2> QED
      BY <1>0, <2>1, <2>2 DEF HandlerMayInstall, MainLoopFree, InRoots
  <1>6. CASE \/ \E u \in Urls, version \in ClientVersions : DidOpen(u, version)
             \/ \E u \in Urls : \E withText \in SaveTexts[u] : DidSave(u, withText)
             \/ \E u \in Urls : FileGone(u)
             \/ IgnoreFileEvent
             \/ \E removed, added \in SUBSET Folders : FoldersChange(removed, added)
             \/ Installations
    BY <1>0, <1>6 DEF DidOpen, DidSave, FileGone, IgnoreFileEvent, FoldersChange, MainLoopFree,
                      Installations, DidCloseInstall, DidChangeRecover, WatchedFileInstall
  <1> QED
    BY <1>1, <1>2, <1>3, <1>4, <1>5, <1>6 DEF StoreNext, Notifications

\* What the handlers and the disk leave behind: a folder change takes what
\* lies under the removed roots, the switch takes everything.
LEMMA StrayStoreStep ==
    ASSUME TypeOK, HandlerMayInstall, StoreNext, NEW u \in Urls, ~Stray(u), Stray(u)'
    PROVE  SwitchCrossed(u)
  <1>0. ASSUME UNCHANGED <<roots, enabled>>,
               documents'[u].origin \in {documents[u].origin, "Open", "Untracked"}
        PROVE  FALSE
    BY <1>0 DEF Stray, InRoots
  <1>1. CASE Disk \/ WatchersAccepted \/ IgnoreFileEvent
    <2>1. UNCHANGED <<documents, roots, enabled>>
      BY <1>1 DEF Disk, WriteFile, DeleteFile, EditorWrites, EditIgnoreFile, WatchersAccepted,
                  IgnoreFileEvent, store
    <2> QED
      BY <1>0, <2>1
  <1>2. ASSUME NEW w \in Urls, NEW version \in ClientVersions, DidOpen(w, version)
        PROVE  FALSE
    <2>1. PICK text : InsertDocument(w, text, version, "Open")
      BY <1>2 DEF DidOpen
    <2>2. documents'[u].origin \in {documents[u].origin, "Open"}
      BY <2>1, InsertAt
    <2> QED
      BY <1>0, <1>2, <2>2 DEF DidOpen
  <1>3. ASSUME NEW w \in Urls, NEW version \in ClientVersions, DidChange(w, version)
        PROVE  FALSE
    <2>1. CASE ~Tracked(w)
      BY <1>0, <1>3, <2>1 DEF DidChange
    <2>2. CASE Tracked(w)
      <3>1. PICK text : documents' = [documents EXCEPT ![w] = EditedEntry(@, text, version)]
        BY <1>3, <2>2 DEF DidChange
      <3>2. documents'[u].origin \in {documents[u].origin, "Open"}
        BY <2>2, <3>1, EditedAt
      <3> QED
        BY <1>0, <1>3, <3>2 DEF DidChange
    <2> QED
      BY <2>1, <2>2
  <1>4. ASSUME NEW w \in Urls, NEW withText \in SaveTexts[w], DidSave(w, withText)
        PROVE  FALSE
    <2>1. CASE ~Tracked(w)
      BY <1>0, <1>4, <2>1 DEF DidSave
    <2>2. CASE Tracked(w) /\ (withText \/ ReadableByPath(w))
      <3>1. documents'[u].origin = documents[u].origin
        BY <1>4, <2>2, SavedAt DEF DidSave
      <3> QED
        BY <1>0, <1>4, <3>1 DEF DidSave
    <2>3. CASE Tracked(w) /\ ~(withText \/ ReadableByPath(w))
      BY <1>0, <1>4, <2>3, RemoveAt DEF DidSave
    <2> QED
      BY <2>1, <2>2, <2>3
  <1>5. ASSUME NEW w \in Urls, DidClose(w)
        PROVE  FALSE
    BY <1>0, <1>5, RemoveAt DEF DidClose
  <1>6. ASSUME NEW w \in Urls, FileGone(w)
        PROVE  FALSE
    BY <1>0, <1>6, RemoveAt DEF FileGone
  <1>7. ASSUME NEW w \in Urls, NEW kind \in {"created", "changed", "deleted"},
               WatchedFileEvent(kind, w)
        PROVE  FALSE
    BY <1>0, <1>7, RemoveAt DEF WatchedFileEvent
  <1>8. ASSUME NEW removed \in SUBSET Folders, NEW added \in SUBSET Folders,
               FoldersChange(removed, added)
        PROVE  FALSE
    <2>1. /\ RemoveDocuments({w \in WorkspaceOrigin : InRoots(w, removed \cap roots)})
          /\ roots' = (roots \ removed) \cup added
          /\ enabled' = enabled
      BY <1>8 DEF FoldersChange
    <2>2. documents'[u].origin = "Workspace" /\ ~(enabled /\ u \in Matched /\ InRoots(u, roots'))
      BY <2>1 DEF Stray, InRoots
    <2>3. /\ documents'[u] = documents[u]
          /\ ~(u \in WorkspaceOrigin /\ InRoots(u, removed \cap roots))
      <3> DEFINE gone == {w \in WorkspaceOrigin : InRoots(w, removed \cap roots)}
      <3>1. u \notin gone
        <4>1. RemoveDocuments(gone)
          BY <2>1
        <4> HIDE DEF gone
        <4> QED
          BY <2>2, <4>1, RemoveAt
      <3>2. documents'[u] = documents[u]
        <4>1. RemoveDocuments(gone)
          BY <2>1
        <4> HIDE DEF gone
        <4> QED
          BY <3>1, <4>1, RemoveAt
      <3> QED
        BY <3>1, <3>2
    <2>4. documents[u].origin = "Workspace" /\ ~InRoots(u, removed \cap roots)
      BY <2>2, <2>3 DEF WorkspaceOrigin, OwnedByDisk
    <2>5. enabled /\ u \in Matched /\ InRoots(u, roots)
      BY <2>4 DEF Stray
    <2>6. InRoots(u, roots')
      BY <2>1, <2>4, <2>5 DEF InRoots
    <2> QED
      BY <2>2, <2>5, <2>6
  <1>9. ASSUME NEW on \in BOOLEAN, SetEnabled(on)
        PROVE  FALSE
    <2>1. /\ roots' = roots /\ enabled' = on /\ on # enabled
          /\ RemoveDocuments(IF on THEN {} ELSE WorkspaceOrigin)
      BY <1>9 DEF SetEnabled
    <2>2. CASE on
      <3>1. documents'[u] = documents[u]
        BY <2>1, <2>2, RemoveAt
      <3>2. ~enabled /\ enabled'
        BY <2>1, <2>2 DEF TypeOK
      <3> QED
        BY <2>1, <3>1, <3>2 DEF Stray, InRoots
    <2>3. CASE ~on
      BY <2>1, <2>3, RemoveAt DEF Stray, WorkspaceOrigin, OwnedByDisk
    <2> QED
      BY <2>2, <2>3
  <1>10. CASE Installations
    <2>0. mainLoop \in Handler /\ mainLoop.url \in Urls /\ UNCHANGED <<roots, enabled>>
      BY <1>10 DEF Installations, DidCloseInstall, DidChangeRecover, WatchedFileInstall,
                   TypeOK, Idle, Handler
    <2>1. CASE DidCloseInstall
      <3>1. CASE ~mainLoop.readable
        BY <1>0, <2>0, <2>1, <3>1, RemoveAt DEF DidCloseInstall
      <3>2. CASE mainLoop.readable
        <4>1. u # mainLoop.url => documents'[u] = documents[u]
          BY <2>0, <2>1, <3>2, InsertAt DEF DidCloseInstall
        <4>2. u = mainLoop.url
          BY <1>0, <2>0, <4>1
        <4>3. ~(enabled /\ u \in Matched /\ InRoots(u, roots))
          BY <2>0 DEF Stray, InRoots
        <4> QED
          BY <2>1, <4>2, <4>3 DEF DidCloseInstall, HandlerMayInstall, SwitchCrossed
      <3> QED
        BY <3>1, <3>2
    <2>2. CASE DidChangeRecover
      <3>1. documents'[u].origin \in {documents[u].origin, "Open"}
        BY <2>0, <2>2, InsertAt DEF DidChangeRecover
      <3> QED
        BY <1>0, <2>0, <3>1
    <2>3. CASE WatchedFileInstall
      <3>1. CASE u # mainLoop.url \/ ~mainLoop.readable
        <4>1. documents'[u] = documents[u]
          BY <2>0, <2>3, <3>1, InsertAt DEF WatchedFileInstall
        <4> QED
          BY <1>0, <2>0, <4>1
      <3>2. CASE u = mainLoop.url /\ mainLoop.readable
        <4>1. documents'[u].origin = "Workspace"
          BY <2>0, <2>3, <3>2, InsertAt DEF WatchedFileInstall
        <4>2. ~OwnedByDisk(u)
          BY <1>0, <2>0, <4>1 DEF OwnedByDisk
        <4> QED
          BY <2>3, <3>2, <4>2 DEF WatchedFileInstall, HandlerMayInstall, SwitchCrossed
      <3> QED
        BY <3>1, <3>2
    <2> QED
      BY <1>10, <2>1, <2>2, <2>3 DEF Installations
  <1> QED
    BY <1>1, <1>2, <1>3, <1>4, <1>5, <1>6, <1>7, <1>8, <1>9, <1>10 DEF StoreNext, Notifications

\* Neither a poll nor what a cancelled one left moves the roots, the switch or
\* the handler.
LEMMA PollsMove ==
    ASSUME \/ \E p \in Polls : PollStep(p) \/ PollCancelled(p)
           \/ \E o \in orphans : OrphanReads(o) \/ OrphanInstalls(o)
    PROVE  UNCHANGED <<mainLoop, roots, enabled>>
  <1>1. ASSUME NEW p \in Polls, NEW k \in Keys, LoadStep(p, k)
        PROVE  UNCHANGED <<mainLoop, roots, enabled>>
    BY <1>1 DEF LoadStep, Probe, CheckStamp, Read, Install, StampEntry, storeVars, store
  <1>2. ASSUME NEW p \in Polls,
               \/ PollSkips(p) \/ PollServesCache(p) \/ PollWalks(p) \/ Walk(p) \/ WalkFails(p)
               \/ PollWalked(p) \/ PollRetains(p) \/ PollReturns(p) \/ PollCancelled(p)
        PROVE  UNCHANGED <<mainLoop, roots, enabled>>
    BY <1>2 DEF PollSkips, PollServesCache, PollWalks, Walk, WalkFails, PollWalked, PollRetains,
                PollReturns, PollCancelled, storeVars, store
  <1>3. ASSUME NEW o \in orphans, OrphanReads(o) \/ OrphanInstalls(o)
        PROVE  UNCHANGED <<mainLoop, roots, enabled>>
    BY <1>3 DEF OrphanReads, OrphanInstalls, storeVars, store
  <1> QED
    BY <1>1, <1>2, <1>3 DEF PollStep

\* A poll makes a workspace document of none but what it installs, and drops
\* none while a handler has yet to install.
LEMMA PollOrigins ==
    ASSUME RefreshTypeOK, NEW p \in Polls, PollStep(p) \/ PollCancelled(p), NEW u \in Urls
    PROVE  /\ documents'[u].origin \in {documents[u].origin, "Untracked"} \/ Overtaken(u)
           /\ ~MainLoopFree /\ OwnedByDisk(u) => OwnedByDisk(u)'
  <1>1. ASSUME NEW k \in Keys, Install(p, k)
        PROVE  /\ documents'[u].origin \in {documents[u].origin, "Untracked"} \/ Overtaken(u)
               /\ OwnedByDisk(u) => OwnedByDisk(u)'
    <2>1. k[2] \in Urls
      BY DEF Keys
    <2>2. /\ u # k[2] => documents'[u] = documents[u]
          /\ documents'[k[2]].origin = "Workspace"
      BY <1>1, <2>1, InsertAt DEF Install, RefreshTypeOK
    <2>3. load[p][k].pc = "install" /\ load'[p][k].pc = "stamp"
      BY <1>1 DEF Install, RefreshTypeOK, Load
    <2>4. u = k[2] => Overtaken(u)
      BY <2>3 DEF Overtaken
    <2> QED
      BY <2>2, <2>4 DEF OwnedByDisk
  <1>2. ASSUME NEW k \in Keys, StampEntry(p, k)
        PROVE  documents'[u].origin = documents[u].origin
    BY <1>2, StampedOrigins
  <1>3. CASE PollRetains(p)
    <2>1. PICK urls : RemoveDocuments({w \in Urls : Tracked(w) /\ ~Keeps(w, poll[p].roots, urls)})
      BY <1>3 DEF PollRetains
    <2>2. documents'[u] \in {documents[u], Untracked}
      BY <2>1 DEF RemoveDocuments
    <2> QED
      BY <1>3, <2>2 DEF PollRetains, Untracked
  <1>4. CASE \/ PollSkips(p) \/ PollServesCache(p) \/ PollWalks(p) \/ Walk(p)
             \/ WalkFails(p) \/ PollWalked(p) \/ PollReturns(p) \/ PollCancelled(p)
             \/ \E k \in Keys : Probe(p, k) \/ CheckStamp(p, k) \/ Read(p, k)
    <2>1. UNCHANGED documents
      BY <1>4 DEF PollSkips, PollServesCache, PollWalks, Walk, WalkFails, PollWalked, PollReturns,
                  PollCancelled, Probe, CheckStamp, Read, storeVars, store
    <2> QED
      BY <2>1 DEF OwnedByDisk
  <1> QED
    BY <1>1, <1>2, <1>3, <1>4 DEF PollStep, LoadStep, OwnedByDisk

LEMMA OrphanOrigins ==
    ASSUME RefreshTypeOK, NEW o \in orphans, OrphanReads(o) \/ OrphanInstalls(o), NEW u \in Urls
    PROVE  /\ documents'[u].origin = documents[u].origin \/ Overtaken(u)
           /\ OwnedByDisk(u) => OwnedByDisk(u)'
  <1>1. CASE OrphanReads(o)
    BY <1>1 DEF OrphanReads, storeVars, store, OwnedByDisk
  <1>2. CASE OrphanInstalls(o)
    <2>1. o.key[2] \in Urls
      BY DEF RefreshTypeOK, Keys
    <2>2. /\ u # o.key[2] => documents'[u] = documents[u]
          /\ documents'[o.key[2]].origin = "Workspace"
      BY <1>2, <2>1, InsertAt DEF OrphanInstalls, RefreshTypeOK
    <2>3. o.pc = "install" /\ o \notin orphans'
      BY <1>2 DEF OrphanInstalls
    <2>4. u = o.key[2] => Overtaken(u)
      BY <2>3 DEF Overtaken
    <2> QED
      BY <2>2, <2>4 DEF OwnedByDisk
  <1> QED
    BY <1>1, <1>2

LEMMA MayInstallStep ==
    ASSUME RefreshTypeOK, HandlerMayInstall, [HistoryNext]_historyVars
    PROVE  HandlerMayInstall'
  <1>0. ASSUME UNCHANGED <<mainLoop, roots, enabled>>,
               mainLoop.op = "watch" /\ OwnedByDisk(mainLoop.url) => OwnedByDisk(mainLoop.url)'
        PROVE  HandlerMayInstall'
    BY <1>0 DEF HandlerMayInstall, InRoots, OwnedByDisk
  <1>1. mainLoop.op = "watch" => mainLoop.url \in Urls /\ ~MainLoopFree
    BY DEF RefreshTypeOK, TypeOK, Handler, Idle, MainLoopFree
  <1>2. CASE StoreNext
    BY <1>2, MayInstallStoreStep DEF RefreshTypeOK
  <1>3. CASE \E p \in Polls : PollStep(p) \/ PollCancelled(p)
    BY <1>0, <1>1, <1>3, PollsMove, PollOrigins DEF OwnedByDisk
  <1>4. CASE \E o \in orphans : OrphanReads(o) \/ OrphanInstalls(o)
    BY <1>0, <1>1, <1>4, PollsMove, OrphanOrigins DEF OwnedByDisk
  <1>5. CASE UNCHANGED historyVars
    BY <1>0, <1>5 DEF historyVars, vars, storeVars, store, OwnedByDisk
  <1> QED
    BY <1>2, <1>3, <1>4, <1>5 DEF HistoryNext, RefreshNext

LEMMA StrayStep ==
    ASSUME RefreshTypeOK, HandlerMayInstall, [HistoryNext]_historyVars
    PROVE  [\A u \in Urls : ~Stray(u) /\ Stray(u)' => Overtaken(u) \/ SwitchCrossed(u)]_vars
  <1> SUFFICES ASSUME NEW u \in Urls, ~Stray(u), Stray(u)'
               PROVE  Overtaken(u) \/ SwitchCrossed(u)
    OBVIOUS
  <1>0. ASSUME UNCHANGED <<roots, enabled>>,
               documents'[u].origin \in {documents[u].origin, "Untracked"}
        PROVE  FALSE
    BY <1>0 DEF Stray, InRoots
  <1>1. CASE StoreNext
    BY <1>1, StrayStoreStep DEF RefreshTypeOK
  <1>2. CASE \E p \in Polls : PollStep(p) \/ PollCancelled(p)
    BY <1>0, <1>2, PollsMove, PollOrigins
  <1>3. CASE \E o \in orphans : OrphanReads(o) \/ OrphanInstalls(o)
    BY <1>0, <1>3, PollsMove, OrphanOrigins
  <1>4. CASE UNCHANGED historyVars
    BY <1>0, <1>4 DEF historyVars, vars, storeVars, store
  <1> QED
    BY <1>1, <1>2, <1>3, <1>4 DEF HistoryNext, RefreshNext

\* No folder change, no flip of the switch, no closing and no poll forgets a
\* workspace document outside the roots or under a switch that is off: with
\* any number of polls and threads, what is left there was installed by a
\* load that had passed its check, or by a handler that the switch crossed.
THEOREM HistoryStrayOnlyByLoad == HistorySpec => StrayOnlyByLoad
  <1>1. HistoryInit => RefreshTypeOK /\ HandlerMayInstall
    <2>1. HistoryInit => RefreshInit /\ mainLoop = Idle
      BY DEF HistoryInit, RefreshInit, StoreInit
    <2>2. mainLoop = Idle => HandlerMayInstall
      BY DEF HandlerMayInstall, Idle
    <2> QED
      BY <2>1, <2>2, RefreshTypeInit
  <1>2. RefreshTypeOK /\ HandlerMayInstall /\ [HistoryNext]_historyVars
            => RefreshTypeOK' /\ HandlerMayInstall'
    BY HistoryTypeStep, MayInstallStep
  <1> QED
    BY <1>1, <1>2, StrayStep, PTL DEF HistorySpec, StrayOnlyByLoad

-----------------------------------------------------------------------------
(* What makes the list in the walk cache stale *)

\* What a step of the store does to the list and to what a walk would find.
ListStep ==
    /\ watching => watching'
    /\ \/ walkCache' = walkCache
       \/ ~WalkCacheValid' /\ (walkCache'.present => walkCache.present)
    /\ Invalidates => ~WalkCacheValid'
    /\ ~Invalidates =>
          /\ roots' = roots
          /\ \A k \in Keys : Announced(k) => Announced(k)'
          /\ watching => \A k \in Keys :
                (k \in WalkOf(roots) <=> k \in WalkOf(roots)') \/ Announced(k)'

\* A write, a deletion or a new ignore file changes what a walk finds, and
\* the watching client knows.
LEMMA DiskListStep ==
    ASSUME TypeOK, Disk
    PROVE  ListStep
  <1>1. /\ UNCHANGED <<roots, enabled, watching, walkCache>>
        /\ events \subseteq events'
    BY DEF Disk, WriteFile, DeleteFile, EditorWrites, EditIgnoreFile, Notice, store
  <1>2. ~Invalidates /\ WalkCacheValid' = WalkCacheValid
    BY <1>1 DEF Invalidates, WalkCacheValid
  <1>3. \A k \in Keys : Announced(k) => Announced(k)'
    BY <1>1 DEF Announced
  <1>4. ASSUME watching, NEW k \in Keys
        PROVE  (k \in WalkOf(roots) <=> k \in WalkOf(roots)') \/ Announced(k)'
    <2>0. k[2] \in Urls
      BY DEF Keys
    <2>1. CASE \E S \in SUBSET Ignorable : EditIgnoreFile(S)
      BY <1>4, <2>1 DEF EditIgnoreFile, Announced
    <2>2. ASSUME NEW u \in Urls, WriteFile(u) \/ EditorWrites(u)
          PROVE  (k \in WalkOf(roots) <=> k \in WalkOf(roots)') \/ Announced(k)'
      <3>1. disk'[u] # NoFile /\ ignored' = ignored
        BY <2>2 DEF WriteFile, EditorWrites, TypeOK, NoFile, NoStamp, Tick
      <3>2. CASE k[2] = u /\ ~Exists(u)
        BY <1>4, <2>2, <3>2 DEF WriteFile, EditorWrites, Notice, Announced
      <3>3. CASE k[2] # u \/ Exists(u)
        <4>1. Exists(k[2])' = Exists(k[2])
          BY <2>0, <2>2, <3>1, <3>3 DEF WriteFile, EditorWrites, TypeOK, Exists
        <4> QED
          BY <1>1, <3>1, <4>1 DEF WalkOf
      <3> QED
        BY <3>2, <3>3
    <2>3. ASSUME NEW u \in Urls, DeleteFile(u)
          PROVE  (k \in WalkOf(roots) <=> k \in WalkOf(roots)') \/ Announced(k)'
      <3>1. CASE k[2] = u
        BY <1>4, <2>3, <3>1 DEF DeleteFile, Notice, Announced
      <3>2. CASE k[2] # u
        <4>1. Exists(k[2])' = Exists(k[2])
          BY <2>0, <2>3, <3>2 DEF DeleteFile, TypeOK, Exists
        <4> QED
          BY <1>1, <2>3, <4>1 DEF WalkOf, DeleteFile
      <3> QED
        BY <3>1, <3>2
    <2> QED
      BY <2>1, <2>2, <2>3 DEF Disk
  <1> QED
    BY <1>1, <1>2, <1>3, <1>4 DEF ListStep

\* A step that leaves the disk and the events alone.
LEMMA SettledListStep ==
    ASSUME TypeOK, UNCHANGED <<disk, ignored, events>>, watching => watching',
           \/ UNCHANGED <<roots, enabled, walkCache>>
           \/ WalkCacheClear
           \/ WalkCacheInvalidate /\ roots' = roots
    PROVE  ListStep
  <1>1. CASE WalkCacheClear \/ WalkCacheInvalidate
    <2>1. ~WalkCacheValid' /\ (walkCache'.present => walkCache.present)
      BY <1>1 DEF WalkCacheClear, WalkCacheInvalidate, WalkCacheValid, TypeOK, WalkList
    <2>2. ~Invalidates => UNCHANGED <<roots, disk, ignored, events>>
      BY DEF Invalidates
    <2>3. ~Invalidates => \A k \in Keys : /\ Announced(k)' = Announced(k)
                                          /\ k \in WalkOf(roots) <=> k \in WalkOf(roots)'
      BY <2>2 DEF Announced, WalkOf, Exists
    <2> QED
      BY <2>1, <2>2, <2>3 DEF ListStep
  <1>2. CASE UNCHANGED <<roots, enabled, walkCache>>
    <2>1. ~Invalidates
      BY <1>2 DEF Invalidates
    <2>2. \A k \in Keys : /\ Announced(k)' = Announced(k)
                          /\ k \in WalkOf(roots) <=> k \in WalkOf(roots)'
      BY <1>2 DEF Announced, WalkOf, Exists
    <2> QED
      BY <1>2, <2>1, <2>2 DEF ListStep
  <1> QED
    BY <1>1, <1>2

LEMMA StoreListStep ==
    ASSUME TypeOK, StoreNext
    PROVE  ListStep
  <1>1. CASE Disk
    BY <1>1, DiskListStep
  <1>2. CASE Installations
    BY <1>2, SettledListStep
       DEF Installations, DidCloseInstall, DidChangeRecover, WatchedFileInstall, environment
  <1>3. ASSUME UNCHANGED <<disk, ignored, events, roots, enabled, walkCache>>,
               watching => watching'
        PROVE  ListStep
    BY <1>3, SettledListStep
  <1>4. CASE \/ \E u \in Urls, version \in ClientVersions : DidOpen(u, version)
             \/ \E u \in Urls, version \in ClientVersions : DidChange(u, version)
             \/ \E u \in Urls : \E withText \in SaveTexts[u] : DidSave(u, withText)
             \/ \E u \in Urls : DidClose(u) \/ FileGone(u)
             \/ WatchersAccepted
    <2>1. UNCHANGED <<disk, ignored, events, roots, enabled, walkCache>>
      BY <1>4 DEF DidOpen, DidChange, DidSave, DidClose, FileGone, WatchersAccepted, environment
    <2>2. watching => watching'
      BY <1>4 DEF DidOpen, DidChange, DidSave, DidClose, FileGone, WatchersAccepted
    <2> QED
      BY <1>3, <2>1, <2>2
  <1>8. ASSUME NEW removed \in SUBSET Folders, NEW added \in SUBSET Folders,
               FoldersChange(removed, added)
        PROVE  ListStep
    <2>1. WalkCacheClear /\ UNCHANGED <<disk, ignored, events, watching>>
      BY <1>8 DEF FoldersChange, environment
    <2> QED
      BY <2>1, SettledListStep
  <1>9. ASSUME NEW on \in BOOLEAN, SetEnabled(on)
        PROVE  ListStep
    <2>1. /\ WalkCacheClear \/ WalkCacheInvalidate
          /\ UNCHANGED <<disk, ignored, events, roots, watching>>
      BY <1>9 DEF SetEnabled, environment
    <2> QED
      BY <2>1, SettledListStep
  <1>5. ASSUME NEW event \in events, event.kind # "changed", events' = events \ {event},
               WalkCacheInvalidate, UNCHANGED watching
        PROVE  ListStep
    <2>1. Invalidates
      BY <1>5 DEF Invalidates
    <2>2. ~WalkCacheValid' /\ (walkCache'.present => walkCache.present)
      BY <1>5 DEF WalkCacheInvalidate, WalkCacheValid, TypeOK, WalkList
    <2> QED
      BY <1>5, <2>1, <2>2 DEF ListStep
  <1>6. CASE IgnoreFileEvent
    BY <1>5, <1>6 DEF IgnoreFileEvent
  <1>7. ASSUME NEW u \in Urls, NEW kind \in {"created", "changed", "deleted"},
               WatchedFileEvent(kind, u)
        PROVE  ListStep
    <2> DEFINE event == [kind |-> kind, url |-> u]
    <2>1. event \in events /\ events' = events \ {event} /\ event.kind = kind
      BY <1>7 DEF WatchedFileEvent
    <2>2. UNCHANGED <<disk, ignored, roots, enabled, watching>>
      BY <1>7 DEF WatchedFileEvent
    <2>3. CASE ChangesList(kind)
      <3>1. WalkCacheInvalidate /\ kind # "changed"
        BY <1>7, <2>3 DEF WatchedFileEvent, ChangesList
      <3> QED
        BY <1>5, <2>1, <2>2, <3>1
    <2>4. CASE ~ChangesList(kind)
      <3>1. kind = "changed" /\ walkCache' = walkCache
        BY <1>7, <2>4 DEF WatchedFileEvent, ChangesList
      <3>2. ~Invalidates
        BY <2>1, <2>2, <3>1 DEF Invalidates
      <3>3. \A k \in Keys : Announced(k) => Announced(k)'
        BY <2>1, <3>1 DEF Announced
      <3>4. \A k \in Keys : k \in WalkOf(roots) <=> k \in WalkOf(roots)'
        BY <2>2 DEF WalkOf, Exists
      <3> QED
        BY <2>2, <3>1, <3>2, <3>3, <3>4 DEF ListStep
    <2> QED
      BY <2>3, <2>4
  <1> QED
    BY <1>1, <1>2, <1>4, <1>6, <1>7, <1>8, <1>9 DEF StoreNext, Notifications

LEMMA HistoryStoreStep ==
    ASSUME HistoryInv, ListStep, UNCHANGED poll, Remember
    PROVE  (\A p \in Polls : WalkSound(p)') /\ ListSound'
  <1>0. ~(\E p \in Polls : Stores(p))
    BY DEF Stores
  <1>1. tainted' = tainted
    BY <1>0 DEF Remember
  <1>2. ASSUME NEW S, ~Invalidates, watching, Accounted(S)
        PROVE  \A k \in Keys : (k \in S <=> k \in WalkOf(roots)') \/ Announced(k)'
    BY <1>2 DEF ListStep, Accounted
  <1>3. ASSUME NEW p \in Polls
        PROVE  WalkSound(p)'
    <2>0. WalkSound(p)
      BY DEF HistoryInv
    <2>1. CASE Invalidates
      <3>1. poll[p].pc \in {"walk", "walked"} => p \in crossed'
        BY <2>1 DEF Remember, InFlight
      <3> QED
        BY <2>0, <3>1 DEF WalkSound, ListStep
    <2>2. CASE ~Invalidates
      <3>1. poll[p].pc \in {"walk", "walked"} /\ p \notin crossed' => p \notin crossed
        BY <2>2 DEF Remember, InFlight
      <3>2. poll[p].caching => watching
        BY <2>0 DEF WalkSound
      <3>3. poll[p].pc = "walked" /\ poll[p].caching /\ p \notin crossed'
                => Accounted(poll[p].found)'
        <4>1. HAVE poll[p].pc = "walked" /\ poll[p].caching /\ p \notin crossed'
        <4>2. Accounted(poll[p].found)
          BY <2>0, <3>1, <4>1 DEF WalkSound
        <4> QED
          BY <1>2, <2>2, <3>2, <4>1, <4>2 DEF Accounted
      <3>4. roots' = roots /\ (watching => watching')
        BY <2>2 DEF ListStep
      <3> QED
        BY <2>0, <3>1, <3>2, <3>3, <3>4 DEF WalkSound
    <2> QED
      BY <2>1, <2>2
  <1>4. ListSound'
    <2>1. walkCache.present => watching
      BY DEF HistoryInv, ListSound
    <2>2. walkCache'.present => walkCache.present
      BY DEF ListStep
    <2>3. CASE WalkCacheValid' /\ ~tainted'
      <3>1. walkCache' = walkCache /\ ~Invalidates /\ WalkCacheValid
        BY <2>3 DEF ListStep, WalkCacheValid
      <3>2. Accounted(walkCache.entries) /\ watching
        BY <1>1, <2>1, <2>3, <3>1 DEF HistoryInv, ListSound, WalkCacheValid
      <3>3. Accounted(walkCache.entries)'
        BY <1>2, <3>1, <3>2 DEF Accounted
      <3> QED
        BY <2>1, <2>2, <3>3 DEF ListSound, ListStep
    <2>4. CASE ~(WalkCacheValid' /\ ~tainted')
      BY <2>1, <2>2, <2>4 DEF ListSound, ListStep
    <2> QED
      BY <2>3, <2>4
  <1> QED
    BY <1>3, <1>4

\* What a step of a poll does to its walk and to the list.
LEMMA PollListStep ==
    ASSUME RefreshTypeOK, NEW p \in Polls, PollStep(p) \/ PollCancelled(p)
    PROVE  /\ UNCHANGED <<disk, ignored, events, roots, enabled, watching>>
           /\ \A q \in Polls \ {p} : poll'[q] = poll[q]
           /\ \/ walkCache' = walkCache /\ ~Stores(p)
              \/ /\ Stores(p)
                 /\ walkCache' = [entries |-> poll[p].found, present |-> TRUE, dirty |-> FALSE]
           /\ \/ ~poll'[p].caching
              \/ poll'[p].caching = poll[p].caching /\ poll'[p].pc \notin {"walk", "walked"}
              \/ poll'[p] = poll[p]
              \/ poll'[p].pc = "walk" /\ poll'[p].roots = roots /\ poll'[p].caching = watching
              \/ /\ poll[p].pc = "walk" /\ poll'[p].pc = "walked"
                 /\ poll'[p].roots = poll[p].roots
                 /\ poll'[p].caching = poll[p].caching
                 /\ poll'[p].found = WalkOf(poll[p].roots)
  <1>0. poll[p] \in Poll /\ poll \in [Polls -> Poll]
    BY DEF RefreshTypeOK
  <1>1. ASSUME NEW k \in Keys, LoadStep(p, k)
        PROVE  UNCHANGED <<disk, ignored, events, roots, enabled, watching, walkCache, poll>>
    BY <1>1 DEF LoadStep, Probe, CheckStamp, Read, Install, StampEntry, storeVars, environment,
                store
  <1>2. CASE \E k \in Keys : LoadStep(p, k)
    BY <1>1, <1>2 DEF Stores
  <1>3. CASE PollSkips(p)
    <2> DEFINE done == [poll[p] EXCEPT !.pc = "done", !.urls = {u \in Urls : Tracked(u)}]
    <2>1. done.pc = "done" /\ done.caching = poll[p].caching
      BY <1>0 DEF Poll
    <2>2. poll' = [poll EXCEPT ![p] = done]
      BY <1>3 DEF PollSkips
    <2> HIDE DEF done
    <2> QED
      BY <1>0, <1>3, <2>1, <2>2 DEF PollSkips, Stores, storeVars, environment, store
  <1>4. CASE PollWalks(p)
    <2> DEFINE walk == [poll[p] EXCEPT !.pc = "walk", !.roots = roots, !.caching = watching]
    <2>1. walk.pc = "walk" /\ walk.roots = roots /\ walk.caching = watching
      BY <1>0 DEF Poll
    <2>2. poll' = [poll EXCEPT ![p] = walk]
      BY <1>4 DEF PollWalks
    <2> HIDE DEF walk
    <2> QED
      BY <1>0, <1>4, <2>1, <2>2 DEF PollWalks, Stores, storeVars, environment, store
  <1>5. CASE Walk(p)
    <2> DEFINE walked == [poll[p] EXCEPT !.pc = "walked", !.found = WalkOf(poll[p].roots)]
    <2>1. /\ walked.pc = "walked" /\ walked.found = WalkOf(poll[p].roots)
          /\ walked.roots = poll[p].roots /\ walked.caching = poll[p].caching
      BY <1>0 DEF Poll
    <2>2. poll' = [poll EXCEPT ![p] = walked] /\ poll[p].pc = "walk"
      BY <1>5 DEF Walk
    <2> HIDE DEF walked
    <2> QED
      BY <1>0, <1>5, <2>1, <2>2 DEF Walk, Stores, storeVars, environment, store
  <1>6. ASSUME NEW next, poll' = [poll EXCEPT ![p] = next], next.caching = FALSE
        PROVE  (\A q \in Polls \ {p} : poll'[q] = poll[q]) /\ poll'[p] = next /\ ~poll'[p].caching
    BY <1>0, <1>6
  <1>7. CASE WalkFails(p) \/ PollReturns(p) \/ PollCancelled(p)
    <2>1. poll' = [poll EXCEPT ![p] = IdlePoll]
      BY <1>7 DEF WalkFails, PollReturns, PollCancelled
    <2>2. poll'[p].pc = "idle"
      BY <1>0, <2>1 DEF IdlePoll
    <2>3. UNCHANGED <<disk, ignored, events, roots, enabled, watching, walkCache>>
      BY <1>7 DEF WalkFails, PollReturns, PollCancelled, storeVars, environment, store
    <2>4. IdlePoll.caching = FALSE
      BY DEF IdlePoll
    <2>5. (\A q \in Polls \ {p} : poll'[q] = poll[q]) /\ ~poll'[p].caching
      BY <1>6, <2>1, <2>4
    <2>6. ~Stores(p)
      BY <2>2 DEF Stores
    <2> QED
      BY <2>3, <2>5, <2>6
  <1>8. CASE PollRetains(p)
    <2>1. PICK urls : poll' = [poll EXCEPT ![p] = [IdlePoll EXCEPT !.pc = "done", !.urls = urls]]
      BY <1>8 DEF PollRetains
    <2> DEFINE done == [IdlePoll EXCEPT !.pc = "done", !.urls = urls]
    <2>2. done.pc = "done" /\ done.caching = FALSE
      BY DEF IdlePoll
    <2>3. poll' = [poll EXCEPT ![p] = done]
      BY <2>1
    <2> HIDE DEF done
    <2>4. UNCHANGED <<disk, ignored, events, roots, enabled, watching, walkCache>>
      BY <1>8 DEF PollRetains, environment
    <2> QED
      BY <1>6, <2>2, <2>3, <2>4 DEF Stores
  <1>9. ASSUME NEW rs, NEW keys, StartLoads(p, rs, keys)
        PROVE  /\ \A q \in Polls \ {p} : poll'[q] = poll[q]
               /\ poll'[p].pc = "load" /\ ~poll'[p].caching
    <2> DEFINE fresh == [pc |-> "load", roots |-> rs, caching |-> FALSE,
                         found |-> {}, urls |-> OpenDocuments(keys)]
    <2>1. poll' = [poll EXCEPT ![p] = fresh]
      BY <1>9 DEF StartLoads
    <2>2. fresh.pc = "load" /\ fresh.caching = FALSE
      OBVIOUS
    <2> HIDE DEF fresh
    <2> QED
      BY <1>6, <2>1, <2>2
  <1>10. CASE PollServesCache(p)
    <2>1. UNCHANGED <<disk, ignored, events, roots, enabled, watching, walkCache>>
      BY <1>10 DEF PollServesCache, storeVars, environment, store
    <2>2. poll[p].pc = "idle"
      BY <1>10 DEF PollServesCache
    <2> QED
      BY <1>9, <1>10, <2>1, <2>2 DEF PollServesCache, Stores
  <1>11. CASE PollWalked(p)
    <2>1. UNCHANGED <<disk, ignored, events, roots, enabled, watching>>
      BY <1>11 DEF PollWalked, environment
    <2>2. /\ \A q \in Polls \ {p} : poll'[q] = poll[q]
          /\ poll'[p].pc = "load" /\ ~poll'[p].caching
      BY <1>9, <1>11 DEF PollWalked
    <2>3. CASE poll[p].caching
      BY <1>11, <2>1, <2>2, <2>3 DEF PollWalked, WalkCacheStore, Stores
    <2>4. CASE ~poll[p].caching
      BY <1>11, <2>1, <2>2, <2>4 DEF PollWalked, Stores
    <2> QED
      BY <2>3, <2>4
  <1> QED
    BY <1>2, <1>3, <1>4, <1>5, <1>7, <1>8, <1>10, <1>11 DEF PollStep

LEMMA HistoryPollStep ==
    ASSUME HistoryInv, NEW p \in Polls, PollStep(p) \/ PollCancelled(p), Remember
    PROVE  (\A q \in Polls : WalkSound(q)') /\ ListSound'
  <1>0. /\ UNCHANGED <<disk, ignored, events, roots, enabled, watching>>
        /\ \A q \in Polls \ {p} : poll'[q] = poll[q]
    BY PollListStep DEF HistoryInv
  <1>1. ~Invalidates
    BY <1>0 DEF Invalidates
  <1>2. \A q \in Polls : poll'[q].pc \in {"walk", "walked"} /\ q \notin crossed' => q \notin crossed
    BY <1>1 DEF Remember, InFlight
  <1>3. \A q \in Polls : WalkSound(q)
    BY DEF HistoryInv
  <1>4. ASSUME NEW S
        PROVE  /\ Accounted(S) => \A k \in Keys : (k \in S <=> k \in WalkOf(roots)') \/ Announced(k)'
               /\ Accounted(WalkOf(roots))
    BY <1>0 DEF Accounted, Announced, WalkOf, Exists
  <1>5. ASSUME NEW q \in Polls \ {p}
        PROVE  WalkSound(q)'
    <2>1. poll'[q] = poll[q] /\ WalkSound(q)
      BY <1>0, <1>3
    <2>2. Accounted(poll[q].found) => Accounted(poll[q].found)'
      BY <1>4, <2>1 DEF Accounted
    <2> QED
      BY <1>0, <1>2, <2>1, <2>2 DEF WalkSound
  <1>6. WalkSound(p)'
    <2>0. WalkSound(p)
      BY <1>3
    <2>1. CASE \/ ~poll'[p].caching
               \/ poll'[p].caching = poll[p].caching /\ poll'[p].pc \notin {"walk", "walked"}
      BY <1>0, <2>0, <2>1 DEF WalkSound
    <2>2. CASE poll'[p] = poll[p]
      <3>1. Accounted(poll[p].found) => Accounted(poll[p].found)'
        BY <1>4, <2>2 DEF Accounted
      <3> QED
        BY <1>0, <1>2, <2>0, <2>2, <3>1 DEF WalkSound
    <2>3. CASE poll'[p].pc = "walk" /\ poll'[p].roots = roots /\ poll'[p].caching = watching
      BY <1>0, <2>3 DEF WalkSound
    <2>4. CASE /\ poll[p].pc = "walk" /\ poll'[p].pc = "walked"
               /\ poll'[p].roots = poll[p].roots
               /\ poll'[p].caching = poll[p].caching
               /\ poll'[p].found = WalkOf(poll[p].roots)
      <3>1. poll[p].caching /\ p \notin crossed' => poll[p].roots = roots
        BY <1>2, <2>0, <2>4 DEF WalkSound
      <3>2. poll[p].roots = roots => Accounted(poll[p].found)'
        <4>1. HAVE poll[p].roots = roots
        <4>2. poll'[p].found = WalkOf(roots)
          BY <2>4, <4>1
        <4>3. \A k \in Keys : (k \in WalkOf(roots) <=> k \in WalkOf(roots)') \/ Announced(k)'
          BY <1>4
        <4> QED
          BY <4>2, <4>3 DEF Accounted
      <3> QED
        BY <1>0, <2>0, <2>4, <3>1, <3>2 DEF WalkSound
    <2> QED
      BY <2>1, <2>2, <2>3, <2>4, PollListStep DEF HistoryInv
  <1>7. ListSound'
    <2>0. ListSound
      BY DEF HistoryInv
    <2>1. \A q \in Polls \ {p} : ~Stores(q)
      BY <1>0 DEF Stores
    <2>2. CASE walkCache' = walkCache /\ ~Stores(p)
      <3>1. tainted' = tainted
        BY <2>1, <2>2 DEF Remember
      <3>2. Accounted(walkCache.entries) => Accounted(walkCache.entries)'
        BY <1>4, <2>2 DEF Accounted
      <3> QED
        BY <1>0, <2>0, <2>2, <3>1, <3>2 DEF ListSound, WalkCacheValid
    <2>3. CASE /\ Stores(p)
               /\ walkCache' = [entries |-> poll[p].found, present |-> TRUE, dirty |-> FALSE]
      <3>1. tainted' = (\E q \in crossed : Stores(q))
        BY <2>3 DEF Remember
      <3>2. poll[p].pc = "walked" /\ poll[p].caching /\ watching /\ WalkSound(p)
        BY <1>3, <2>3 DEF Stores, WalkSound
      <3>3. ~tainted' => Accounted(poll[p].found)
        BY <2>3, <3>1, <3>2 DEF WalkSound
      <3>4. walkCache'.entries = poll[p].found
        BY <2>3
      <3>5. ~tainted' => Accounted(walkCache.entries)'
        BY <1>4, <3>3, <3>4 DEF Accounted
      <3> QED
        BY <1>0, <3>2, <3>5 DEF ListSound
    <2> QED
      BY <2>2, <2>3, PollListStep DEF HistoryInv
  <1> QED
    BY <1>5, <1>6, <1>7

LEMMA HistoryStep ==
    ASSUME HistoryInv, [HistoryNext]_historyVars
    PROVE  HistoryInv'
  <1>0. RefreshTypeOK /\ TypeOK /\ HandlerLeavesOpen
    BY DEF HistoryInv, RefreshTypeOK
  <1>1. (\A p \in Polls : WalkSound(p)') /\ ListSound'
    <2>1. CASE StoreNext /\ UNCHANGED poll /\ Remember
      BY <1>0, <2>1, StoreListStep, HistoryStoreStep
    <2>2. CASE \E p \in Polls : (PollStep(p) \/ PollCancelled(p)) /\ Remember
      BY <2>2, HistoryPollStep
    <2>3. CASE \E o \in orphans : (OrphanReads(o) \/ OrphanInstalls(o)) /\ Remember
      <3>1. UNCHANGED <<disk, ignored, events, watching, roots, enabled, walkCache, poll>>
        BY <2>3 DEF OrphanReads, OrphanInstalls, storeVars, environment, store
      <3>2. ListStep
        BY <1>0, <3>1, SettledListStep
      <3> QED
        BY <2>3, <3>1, <3>2, HistoryStoreStep
    <2>4. CASE UNCHANGED historyVars
      <3>1. UNCHANGED <<disk, ignored, events, watching, roots, enabled, walkCache, poll,
                        crossed, tainted>>
        BY <2>4 DEF historyVars, vars, storeVars, environment, store
      <3>2. \A p \in Polls : WalkSound(p) => WalkSound(p)'
        BY <3>1 DEF WalkSound, Accounted, Announced, WalkOf, Exists
      <3>3. ListSound => ListSound'
        BY <3>1 DEF ListSound, WalkCacheValid, Accounted, Announced, WalkOf, Exists
      <3> QED
        BY <3>2, <3>3 DEF HistoryInv
    <2> QED
      BY <2>1, <2>2, <2>3, <2>4 DEF HistoryNext, RefreshNext
  <1> QED
    BY <1>0, <1>1, HistoryTypeStep, HandlerHistoryStep DEF HistoryInv

\* A list in the cache that no invalidation crossed on its way there is, under
\* a watching client, what a walk would find now, up to the events the client
\* has yet to deliver: the flag of invalidate, the gate on the registration
\* and the two ways of dropping the list leave no other way to a stale list.
THEOREM HistoryListStale == HistorySpec => []ListStaleOnlyIfCrossed
  <1>1. HistoryInit => HistoryInv
    <2>1. HistoryInit => RefreshInit /\ RefreshTypeOK
      BY RefreshTypeInit DEF HistoryInit
    <2>2. RefreshInit => mainLoop = Idle /\ walkCache = WalkCacheNew
                         /\ \A p \in Polls : poll[p] = IdlePoll
      BY DEF RefreshInit, StoreInit
    <2>3. mainLoop = Idle => HandlerLeavesOpen
      BY DEF HandlerLeavesOpen, Idle
    <2>4. \A p \in Polls : poll[p] = IdlePoll => WalkSound(p)
      BY DEF WalkSound, IdlePoll
    <2>5. walkCache = WalkCacheNew => ListSound
      BY DEF ListSound, WalkCacheNew, WalkCacheValid
    <2> QED
      BY <2>1, <2>2, <2>3, <2>4, <2>5 DEF HistoryInv
  <1>2. HistoryInv /\ [HistoryNext]_historyVars => HistoryInv'
    BY HistoryStep
  <1>3. HistoryInv => ListStaleOnlyIfCrossed
    BY DEF HistoryInv, ListSound, ListStaleOnlyIfCrossed, WalkListFresh, Accounted, Announced
  <1> QED
    BY <1>1, <1>2, <1>3, PTL DEF HistorySpec
=============================================================================
