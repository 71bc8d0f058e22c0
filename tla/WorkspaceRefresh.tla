-------------------------- MODULE WorkspaceRefresh --------------------------
(***************************************************************************)
(* refresh_workspace_documents and load_workspace_document                 *)
(* (src/server/state/workspace.rs) beside the store they refresh: a poll   *)
(* takes the list of files from the walk cache or from a walk on the       *)
(* blocking pool, loads every file the editor does not have open, and      *)
(* drops the workspace documents the list no longer has.                   *)
(*                                                                         *)
(* A load is five steps: the stamp probe, the comparison with the entry's  *)
(* stamp, the read, the installation, and the stamping of what is then in  *)
(* the store.  The comparison and the stamping run on the main loop, the   *)
(* others on the pool.  Every load of a poll may be in flight at once: the *)
(* width of for_each_bounded only takes interleavings away.                *)
(***************************************************************************)
EXTENDS DocumentStore

CONSTANTS
    Polls,         \* the workspace/diagnostic requests that may overlap
    MaxOrphans,    \* bound on the closures that cancelled polls leave behind
    WalkMayFail    \* can a root vanish, so that canonicalizing it fails?

ASSUME RefreshAssumption ==
    MaxOrphans \in Nat /\ WalkMayFail \in BOOLEAN

VARIABLES
    poll,          \* poll[p]: where poll p stands
    load,          \* load[p][k]: the load of k = <<root, url>> by poll p
    orphans        \* the closures on the pool that a cancelled poll left behind

vars == <<storeVars, poll, load, orphans>>

Keys == Folders \X Urls

Poll == [pc: {"idle", "walk", "walked", "load", "done"},
         roots: SUBSET Folders,   \* the roots when it began
         caching: BOOLEAN,        \* will it store the list it walks?
         found: SUBSET Keys,
         urls: SUBSET Urls]       \* the documents it reports
Load == [pc: {"none", "probe", "check", "read", "install", "stamp", "loaded", "skipped"},
         stamp: Tick,
         text: Tick]

IdlePoll == [pc |-> "idle", roots |-> {}, caching |-> FALSE, found |-> {}, urls |-> {}]
NoLoad   == [pc |-> "none", stamp |-> NoStamp, text |-> 0]

RefreshTypeOK ==
    /\ TypeOK
    /\ poll \in [Polls -> Poll]
    /\ load \in [Polls -> [Keys -> Load]]
    /\ orphans \subseteq [key: Keys, pc: {"read", "install"}, text: Tick]

-----------------------------------------------------------------------------
(* The list *)

\* Switched off, or without roots, a poll reports what is tracked.
PollSkips(p) ==
    /\ MainLoopFree
    /\ poll[p].pc = "idle"
    /\ ~enabled \/ roots = {}
    /\ poll' = [poll EXCEPT ![p].pc = "done", ![p].urls = {u \in Urls : Tracked(u)}]
    /\ UNCHANGED <<storeVars, load, orphans>>

\* Open documents are reported as they are, the other files are loaded.
OpenDocuments(keys) == {u \in Urls : documents[u].origin = "Open"
                                     /\ \E k \in keys : k[2] = u}

StartLoads(p, rs, keys) ==
    /\ poll' = [poll EXCEPT ![p] = [pc |-> "load", roots |-> rs, caching |-> FALSE,
                                    found |-> {}, urls |-> OpenDocuments(keys)]]
    /\ load' = [load EXCEPT ![p] = [k \in Keys |->
           IF k \in keys /\ documents[k[2]].origin # "Open"
           THEN [NoLoad EXCEPT !.pc = "probe"] ELSE NoLoad]]

\* A valid list in the walk cache is used only while the client watches.
PollServesCache(p) ==
    /\ MainLoopFree
    /\ poll[p].pc = "idle"
    /\ enabled /\ roots # {}
    /\ watching /\ WalkCacheValid
    /\ StartLoads(p, roots, walkCache.entries)
    /\ UNCHANGED <<storeVars, orphans>>

PollWalks(p) ==
    /\ MainLoopFree
    /\ poll[p].pc = "idle"
    /\ enabled /\ roots # {}
    /\ ~(watching /\ WalkCacheValid)
    /\ poll' = [poll EXCEPT ![p].pc = "walk", ![p].roots = roots, ![p].caching = watching]
    /\ UNCHANGED <<storeVars, load, orphans>>

\* walk_blocking, on the pool.
Walk(p) ==
    /\ poll[p].pc = "walk"
    /\ poll' = [poll EXCEPT ![p].pc = "walked", ![p].found = WalkOf(poll[p].roots)]
    /\ UNCHANGED <<storeVars, load, orphans>>

\* The error ends the poll; nothing was stored.
WalkFails(p) ==
    /\ WalkMayFail
    /\ poll[p].pc = "walk"
    /\ poll' = [poll EXCEPT ![p] = IdlePoll]
    /\ UNCHANGED <<storeVars, load, orphans>>

PollWalked(p) ==
    /\ MainLoopFree
    /\ poll[p].pc = "walked"
    /\ IF poll[p].caching THEN WalkCacheStore(poll[p].found) ELSE UNCHANGED walkCache
    /\ StartLoads(p, poll[p].roots, poll[p].found)
    /\ UNCHANGED <<environment, documents, semanticCache, roots, enabled, watching, asked, mainLoop,
                   orphans>>

-----------------------------------------------------------------------------
(* One load *)

\* file_stamp, on the pool.
Probe(p, k) ==
    /\ load[p][k].pc = "probe"
    /\ load' = [load EXCEPT ![p][k] = [@ EXCEPT !.pc = "check", !.stamp = disk[k[2]].stamp]]
    /\ UNCHANGED <<storeVars, poll, orphans>>

\* stamp_unchanged: only a workspace entry with the very stamp is kept.
StampUnchanged(entryStamp, diskStamp) ==
    entryStamp # NoStamp /\ diskStamp # NoStamp /\ entryStamp = diskStamp

\* Mutant: any tracked workspace entry is kept.
FreshWhenTracked(entry, stamp) ==
    entry.origin = "Workspace"

Fresh(entry, stamp) ==
    entry.origin = "Workspace" /\ StampUnchanged(entry.stamp, stamp)

CheckStamp(p, k) ==
    /\ MainLoopFree
    /\ load[p][k].pc = "check"
    /\ load' = [load EXCEPT ![p][k].pc =
           IF Fresh(documents[k[2]], load[p][k].stamp) THEN "loaded" ELSE "read"]
    /\ UNCHANGED <<storeVars, poll, orphans>>

\* One closure on the pool reads the file and installs it; a file that
\* cannot be read is skipped.
Read(p, k) ==
    /\ load[p][k].pc = "read"
    /\ load' = [load EXCEPT ![p][k] = [@ EXCEPT !.pc = IF Exists(k[2]) THEN "install" ELSE "skipped",
                                               !.text = disk[k[2]].text]]
    /\ UNCHANGED <<storeVars, poll, orphans>>

Install(p, k) ==
    /\ load[p][k].pc = "install"
    /\ InsertDocument(k[2], load[p][k].text, 0, "Workspace")
    /\ load' = [load EXCEPT ![p][k].pc = "stamp"]
    /\ UNCHANGED <<environment, roots, enabled, watching, asked, walkCache, mainLoop, poll,
                   orphans>>

\* Mutant: the stamp is probed again, after the read.
StampEntryProbesAgain(p, k) ==
    /\ MainLoopFree
    /\ load[p][k].pc = "stamp"
    /\ documents' = IF Tracked(k[2])
                    THEN [documents EXCEPT ![k[2]].stamp = disk[k[2]].stamp]
                    ELSE documents
    /\ load' = [load EXCEPT ![p][k].pc = "loaded"]
    /\ UNCHANGED <<environment, semanticCache, roots, enabled, watching, asked, walkCache,
                   mainLoop, poll, orphans>>

\* Whatever entry the URL has by now takes the probed stamp.
StampEntry(p, k) ==
    /\ MainLoopFree
    /\ load[p][k].pc = "stamp"
    /\ documents' = IF Tracked(k[2])
                    THEN [documents EXCEPT ![k[2]].stamp = load[p][k].stamp]
                    ELSE documents
    /\ load' = [load EXCEPT ![p][k].pc = "loaded"]
    /\ UNCHANGED <<environment, semanticCache, roots, enabled, watching, asked, walkCache,
                   mainLoop, poll, orphans>>

-----------------------------------------------------------------------------
(* The end of a poll *)

\* Mutant: an open document the walk did not list goes too.
KeepsListed(u, rs, urls) == ~InRoots(u, rs) \/ u \in urls

\* A document leaves when it is a workspace document under the poll's roots
\* that the poll neither found open nor loaded.
Keeps(u, rs, urls) == documents[u].origin = "Open" \/ ~InRoots(u, rs) \/ u \in urls

PollRetains(p) ==
    /\ MainLoopFree
    /\ poll[p].pc = "load"
    /\ \A k \in Keys : load[p][k].pc \in {"none", "loaded", "skipped"}
    /\ LET loaded == {u \in Urls : \E k \in Keys : k[2] = u /\ load[p][k].pc = "loaded"}
           urls   == poll[p].urls \cup loaded
       IN  /\ RemoveDocuments({u \in Urls : Tracked(u) /\ ~Keeps(u, poll[p].roots, urls)})
           /\ poll' = [poll EXCEPT ![p] = [IdlePoll EXCEPT !.pc = "done", !.urls = urls]]
    /\ load' = [load EXCEPT ![p] = [k \in Keys |-> NoLoad]]
    /\ UNCHANGED <<environment, roots, enabled, watching, asked, walkCache, mainLoop, orphans>>

\* The list goes to workspace_diagnostic_items.
PollReturns(p) ==
    /\ poll[p].pc = "done"
    /\ poll' = [poll EXCEPT ![p] = IdlePoll]
    /\ UNCHANGED <<storeVars, load, orphans>>

-----------------------------------------------------------------------------
(* A cancelled poll *)

\* $/cancelRequest drops the future of the request (serve.rs, the
\* concurrency layer).  What the pool has been given stays there: a load
\* that passed its check still reads and installs, with nobody to stamp it.
Detached(p) == {[key |-> k, pc |-> load[p][k].pc, text |-> load[p][k].text] :
                   k \in {k \in Keys : load[p][k].pc \in {"read", "install"}}}

PollCancelled(p) ==
    /\ MainLoopFree
    /\ poll[p].pc # "idle"
    /\ orphans' = orphans \cup Detached(p)
    /\ Cardinality(orphans') <= MaxOrphans
    /\ poll' = [poll EXCEPT ![p] = IdlePoll]
    /\ load' = [load EXCEPT ![p] = [k \in Keys |-> NoLoad]]
    /\ UNCHANGED storeVars

OrphanReads(o) ==
    /\ o.pc = "read"
    /\ orphans' = (orphans \ {o}) \cup
           (IF Exists(o.key[2]) THEN {[o EXCEPT !.pc = "install", !.text = disk[o.key[2]].text]}
            ELSE {})
    /\ UNCHANGED <<storeVars, poll, load>>

OrphanInstalls(o) ==
    /\ o.pc = "install"
    /\ InsertDocument(o.key[2], o.text, 0, "Workspace")
    /\ orphans' = orphans \ {o}
    /\ UNCHANGED <<environment, roots, enabled, watching, asked, walkCache, mainLoop, poll, load>>

-----------------------------------------------------------------------------
RefreshInit ==
    /\ StoreInit
    /\ poll = [p \in Polls |-> IdlePoll]
    /\ load = [p \in Polls |-> [k \in Keys |-> NoLoad]]
    /\ orphans = {}

LoadStep(p, k) ==
    Probe(p, k) \/ CheckStamp(p, k) \/ Read(p, k) \/ Install(p, k) \/ StampEntry(p, k)

PollStep(p) ==
    \/ PollSkips(p) \/ PollServesCache(p) \/ PollWalks(p)
    \/ Walk(p) \/ WalkFails(p) \/ PollWalked(p)
    \/ \E k \in Keys : LoadStep(p, k)
    \/ PollRetains(p) \/ PollReturns(p)

RefreshNext ==
    \/ StoreNext /\ UNCHANGED <<poll, load, orphans>>
    \/ \E p \in Polls : PollStep(p)

\* Polls that nobody cancels.
RefreshSpec == RefreshInit /\ [][RefreshNext]_vars

-----------------------------------------------------------------------------
(* Properties *)

\* The stamp gate is sound: a workspace entry that the next poll would skip,
\* its stamp being the file's present one, holds the file's present text
\* (mod.rs: "Any doubt re-reads").  For files the editor has open the editor
\* decides, and while didClose reads the disk the entry is still the editor's.
StampSound ==
    \A u \in Urls :
        (~editor[u].open /\ mainLoop.op # "close" /\ Fresh(documents[u], disk[u].stamp))
            => documents[u].text = disk[u].text

\* An open document stops being one only when the editor closes it, when a
\* didSave has nothing to install, or when a load that passed its check
\* before the document was opened installs what it read.
Overtaken(u) ==
    \/ \E p \in Polls, k \in Keys :
          k[2] = u /\ load[p][k].pc = "install" /\ load'[p][k].pc = "stamp"
    \/ \E o \in orphans : o.key[2] = u /\ o.pc = "install" /\ o \notin orphans'

NothingSaved(u) == editor[u].saved /\ ~editor'[u].saved /\ ~ReadableByPath(u)

OpenLostOnlyToLoad ==
    [][\A u \in Urls :
          (documents[u].origin = "Open" /\ documents'[u].origin # "Open" /\ editor'[u].open)
              => Overtaken(u) \/ NothingSaved(u)]_vars

\* A workspace document outside the roots or under a switch that is off: no
\* later poll looks at it (refresh_workspace_documents keeps what lies outside
\* its roots), so it is there for good.
Stray(u) ==
    documents[u].origin = "Workspace" /\ ~(enabled /\ u \in Matched /\ InRoots(u, roots))

\* On several threads the switch may go off between the read and the
\* installation of a handler.
SwitchCrossed(u) ==
    /\ MultiThread
    /\ mainLoop.op \in {"close", "watch"} /\ mainLoop.url = u /\ mainLoop' = Idle
    /\ mainLoop.op = "close" => ~enabled
    /\ mainLoop.op = "watch" => ~OwnedByDisk(u)

\* Nothing leaves such a document behind but a load that had passed its check
\* and a handler that the switch crossed: folders, the switch, closings and
\* the polls' own retain forget none.
StrayOnlyByLoad ==
    [][\A u \in Urls : ~Stray(u) /\ Stray(u)' => Overtaken(u) \/ SwitchCrossed(u)]_vars

\* Nobody but the editor decides what an open document is (documents.rs:
\* "The editor owns open documents; disk events never touch them").
EditorOwnsOpen ==
    \A u \in Urls : editor[u].open => documents[u].origin = "Open"

\* A valid walk list under a watching client is what a walk would find now,
\* up to the events the client has yet to deliver (documents.rs: "List
\* membership changed: the next poll re-walks").
WalkListFresh ==
    (watching /\ WalkCacheValid) =>
        \A k \in Keys :
            \/ k \in walkCache.entries <=> k \in WalkOf(roots)
            \/ [kind |-> "ignoreFile"] \in events
            \/ \E kind \in {"created", "deleted"} : [kind |-> kind, url |-> k[2]] \in events

-----------------------------------------------------------------------------
(* Progress *)

\* The client goes on polling, the runtime runs every task it has, and a
\* handler that started returns.
FairRefresh ==
    /\ RefreshSpec
    /\ WF_vars(Installations /\ UNCHANGED <<poll, load, orphans>>)
    /\ \A p \in Polls : WF_vars(PollStep(p))

\* The store agrees with the disk on every file the editor does not have
\* open: under the roots it tracks the files a walk finds, with their text.
Settled ==
    \A u \in Urls : ~editor[u].open =>
        LET listed == \E k \in WalkOf(roots) : k[2] = u
        IN  /\ listed => documents[u].origin = "Workspace" /\ documents[u].text = disk[u].text
            /\ InRoots(u, roots) /\ ~listed => ~Tracked(u)

\* A step of the disk or of the client, and none of a poll's.
Changes == (Disk \/ Notifications) /\ UNCHANGED <<poll, load, orphans>>

\* Every step is a poll's or completes a handler, and walks succeed.
Resting == ~Changes /\ \A p \in Polls : ~WalkFails(p)

\* Once the disk and the client rest (Resting), the polls bring the store there
\* and it stays (refresh_workspace_documents).  For clients that do not watch
\* files: every poll walks.
Settles ==
    <>[][Resting]_vars /\ []~watching => <>[](enabled /\ roots # {} => Settled)
=============================================================================
