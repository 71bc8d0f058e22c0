# async-language-server in TLA+

TLA+ specifications of the `async-language-server` crate: the library under a
language server that tracks the client's documents, refreshes the files of the
workspace for `workspace/diagnostic`, converts positions between encodings and
refuses results that are out of date. The modules are translated from `src/`;
TLC checks them on small instances and TLAPS proves some of their properties
for every instance. `PROJECT.json` maps every definition to the lines it
stands for.

## The system

A server runs one *main loop* (`server/serve.rs`, on the async-lsp library):
one task that handles every notification to its end and drives the futures of
the requests in between. Beside it run closures on tokio's blocking pool (the
walk of the workspace, stamp probes and file reads) and spawned tasks (every
request the server sends to its client). `$/cancelRequest` drops the future of
a request; a closure the pool has started goes on.

| component | state | operations |
|---|---|---|
| document store, `server/state/documents.rs`, `mod.rs` | map of URL to entry (document, origin `Open` or `Workspace`, disk stamp); semantic-tokens cache; roots | didOpen, didChange, didSave, didClose, watched files, renames, deletions, folder changes |
| walk cache, `server/state/walk_cache.rs` | list of walked files, dirty flag | `get_valid`, `store`, `invalidate`, `clear` |
| workspace refresh, `server/state/workspace.rs` | none of its own | walk or cached list, load every file the editor does not have, drop what left |
| file walker, `workspace/walker.rs` | none | list the matched, unignored files under the roots |
| bounded fan-out, `workspace/parallel.rs` | futures in flight, results | run items `width` at a time, answer as the serial loop would |
| diagnostics switch, `workspace/diagnostics.rs` | enabled, generation, watchers registered | initialized, didChangeConfiguration, pull of the setting, registration, refresh |
| diagnostic report, `workspace/diagnostics.rs` | the reports of one poll | run the document handler on every URL, fold related reports |
| request dispatch, `macros/src/dispatch.rs` | none of its own | probe, convert, call the handler, probe again, convert back |
| request conversions, `lsp_requests/*`, `macros/src/request.rs` | none of their own | three hooks on either side of a handler: rewrite every position of params and response |
| text and tokens, `text_utils/*`, `lsp_requests/conversion.rs` | semantic-tokens cache (in the store) | positions, ranges, edits and token streams between encodings |
| conversion fallback, `server/state/mod.rs` | bounded map of disk snapshots | prime, look up |
| method inventory, `server/inventory.rs` | advertised methods, warn-once bits | gate, warn |
| negotiation, `server/with_state/initialize.rs` | encoding, capabilities | initialize |
| documents and matchers, `documents/*` | immutable snapshots with a memo of derived values; compiled queries and globs | derive, query, read, find a matcher |
| watchers, `server/state/mod.rs`, `documents.rs` | none of their own (the client's registrations) | ask for globs, tell an event that makes the list old |
| oneshot, `oneshot/*` | a server without a client, its store, the report | read, open, diagnose every matched file |

The store is what they share: notification handlers write it, polls write it
from the pool, the switch empties it, requests read it twice and write its
semantic-tokens cache. What is hard here:

- a poll's load is five steps on two threads, and didOpen, didClose, folder
  changes, the switch, the disk, another poll and a cancellation fit between
  any two of them;
- the stamp gate must never skip a file whose text in the store is old;
- the walk cache must lose its list whenever a walk would find another;
- a reply is converted against a document that may have changed since;
- the token cache must be the stream the client's next delta refers to;
- news of the setting comes pushed, announced and pulled, in any order;
- a diagnostic poll runs many handlers at once and must answer as if it had run
  them one by one, about documents that change meanwhile;
- the gate, the client and the implementor must agree on the capabilities
  although the wrapper rewrites them in three steps;
- a position in a message lies in the request's document, in one a URI names,
  or in none, and must be converted once and in the right one;
- snapshots are asked by several threads while the next is installed, and a
  computation may ask its own document again;
- what the walk honours, the client watches and the handler knows are three
  lists of ignore files in three places;
- edits and token deltas are counted in the client's units, the rope in
  characters, the tree in bytes, each delta in two of the three.

`PROJECT.json` lists these hazards at their lines with the properties that
cover them.

## Modules

Texts are numbers. `clock` gives every write of the disk and every edit a
fresh one, and the stamp of a file (mtime and size in the code) is the tick of
its last write: two stamps are equal when the write was the same. `MaxClock`
bounds the number of writes and edits.

**DocumentStore.** One action per handler of `documents.rs`. A handler that
reads the disk without holding the entry's lock is two actions: the first
reads and takes `mainLoop`, the second installs and gives it back. In between
the disk and the pool move and the main loop does not (`MainLoopFree`).
`handle_document_save` reads under the entry's lock and is one action.
`documents[u]` is `Untracked` or the entry; `InsertDocument` clears the stamp
and the cached token stream as `insert_document` does; `RemoveDocuments` is
`remove`, `remove_if` and `retain`. Incremental edits: an edit that meets the
text it was made for gives the client's text; one that does not fails, and the
file is read again, or gives a text nobody has (`Mangled`). The environment is
the editor (`editor`), the disk, and the client's watcher (`events`, unordered:
a client may batch and reorder them). `asked` says that a registration of
watchers is, or was, on its way to the client: `WatchersAccepted` is its success,
which sets the flag whatever the switch is by then.

**WorkspaceRefresh** extends it with `refresh_workspace_documents`. `poll[p]`
is where poll `p` stands (no list yet, walking, walked, loading, done), and
`load[p][k]` where its load of the walked file `k` stands, a file being listed
once for every root above it. Probe, read and installation run on the pool;
the comparison with the entry's stamp and the stamping run on the main loop.
`orphans` are the closures of cancelled polls. All loads of a poll may be in
flight at once, which is every width of the fan-out.

**WalkListHistory** adds two history variables to say which walks an
invalidation crossed and whether the cached list came from one.

**RequestDispatch** extends the store with requests about one document: the
version probe and the conversion document before the handler, the handler as
one look at the document at any time, the staleness probe, the conversion and
the token cache after it. A request that finds its document untracked primes the
snapshot of the file as the pool does, the probe, the read and the insertion each
a step. `held[u]` is the token stream the client received
last. A stream is the number of the text it describes; splicing a delta into
any other stream than the one it was made for gives `Mangled`.

**RequestConversions** has the conversions of `lsp_requests/conversion.rs` as
sequences: a hook is what it converts, in its order, each with the field and
the document the columns are counted in. **RequestTable** has the request files
and the rows of the dispatch table: the hooks on either side of each method,
and beside them what the *protocol* says, the positions in its params and
response and where each lies. The two are written from different sources, and
**Requests** holds the one to the other: it extends ConversionFallback with
requests in flight, of every shape the engines tell apart (does the request name
a document, is it a resolve request, does its conversion read the disk), the
document each is converted against, the hops to the pool and the cancellation.
`FatesOf` is what becomes of a position: where it lies and which conversions
reach it.

**DiagnosticsSwitch** is the configurable switch with its client: ordered
wires in both directions, the main loop that handles the inbox, and the
spawned tasks. On one thread (`around.multiThread` is false) tasks run in the
order they became ready and to their next await; on several they run in any
order and the comparison of the generation is a step of its own. What a flip
does to documents and walk cache is `SetEnabled` in DocumentStore. `around`
holds the surroundings a behaviour starts in, so that one run has several.

**Watching** is what a walk lists and what of it the server hears of: the kinds
of ignore file in the order the walk applies them, by directory; the globs the
client is asked to watch, which match in the client's way and not in the
server's; and the handler that tells which event makes the list old.
`unheard` are the changes no event told of since the last walk.

**SerialBatch** is what `for_each_bounded` promises: every item ends once, with
an outcome that shows when it ends, and the answer is what a loop over the items
makes of the outcomes. **ForEachBounded** is how it does it, with futures in
flight and results in completion order, and implements it (`ImplementsSerial`).

**WorkspaceReport** extends ForEachBounded with what the items are in a poll of
`workspace/diagnostic`: the listed URLs. An item starts with a look at its
document (`probed`), its handler looks at documents when it likes (`seen`), and
the item ends as skipped, failed, modified or with a sink of reports. Versions
are named when the sink is made. The fold of the sinks (`FoldSinks`, `Items_`)
is the code's, report by report; `ReportsMerged` says of it, without a fold, which
report wins. Meanwhile documents open, change, close, load and go. A text is
the tick it came at, and an open document's version its text: an editor never
gives two texts one version. **Oneshot** extends ForEachBounded with the other
caller: the matched files of a walk, each read and opened on the pool, asked for
its diagnostics through the gate and the handler, in one store that all items
share, while the disk moves.

**Session** is what comes before all of that: `initialize` as one action (the
kill switch, folder tracking, the setting in the options, the encoding, the
wrapper's own capabilities, the inventory, in the code's order), `initialized`
with what it asks of the client, and then requests at the gate, side by side,
with the warn-once bits. It has the whole dispatch table, each method with the
capability it needs. A capability block is the shape of every provider (absent,
no, yes, options) and the set of the options that are set. `Granted` is the
table as the trait's documentation states it, `Advertised` as the inventory
computes it. The client of a oneshot run (`OneshotClient`) is one of its clients.

**TextEdits** is a document as text: a sequence of characters of one, two or
four bytes and one or two UTF-16 units. A didChange is one replacement, a move
(a deletion and an insertion, in one notification) or a whole text; positions
become rope indexes by the code's loops, and `tree_sitter_edit` is told points
and bytes (`InputEdit`). **TokenStream** extends it with semantic tokens, token
by token in the relative encoding: the implementor's stream in UTF-8, full
replies and deltas, the seeded conversion, the splice into the cached stream,
and the client that applies what it receives.

**DerivedValues** is what a document promises whoever holds a snapshot: a
question is answered from that snapshot. **DerivedData** is how: generations,
each with a memo under a mutex (look up, compute without the lock, insert), the
query cache of a matcher (look up, compile outside the guard, insert), readers
over the chunks of the rope, callers on several threads and nested derived
values; it implements DerivedValues (`AnswersAreTheSnapshots`, a refinement
mapping). **TextRanges** runs the operations of `RangeExt` on the three kinds of
range side by side: bytes, LSP positions and tree-sitter ranges of one stretch. `counted` says
whether the delimiters that made the present ranges were counted in bytes; ranges
made from a miscounted one are not cut on.

**ConversionFallback** is the bounded cache of disk snapshots with any number
of primes in flight, each step of `prime_conversion_fallback` a step of its own.

`MC*` modules give the constants their instances; the `.cfg` files name them.
Three of them hold independent components next to each other, of which a
behaviour runs one (`half`, `part`): MCReport a poll or a oneshot run, MCClient
the session, the switch or the watchers, MCDocument callers or ranges. Every
component is checked there as it would be alone.
Operators marked `Mutant` are the code with a plausible bug; `PROJECT.json`
says which property each of them breaks.

## Runs

| run | instance | what it shows |
|---|---|---|
| `store` | 2 files, 1 folder, one file percent-encoded, one ignorable, didSave with the text for one and either way for the other, 3 writes or edits | `TypeOK`; `MirrorsEditor`: an open document that is tracked has the editor's version and, where didSave carries the text, the editor's text; `WorkspaceJustified`: every other document is a matched file under a root of an enabled switch; `NeverSilentlyStale`: no step leaves a watched snapshot old with no event on its way |
| `refresh` | 1 file, 1 folder, 1 poll at a time, the file ignorable, client watching or not, didSave either way | `StampSound`: what the stamp gate skips is the file's text; `Settles`: once disk and client rest (`Resting`: every step from then on is a poll's or completes a handler, and no walk fails) and the client does not watch, polls bring the store to the disk and it stays there |
| `walk_list` | 1 file, 1 folder, watched, ignorable, didSave with and without the text, polls that are cancelled | `ListStaleOnlyIfCrossed`: a valid list is what a walk would find, up to events on their way, unless an invalidation crossed its walk; `OpenLostOnlyToLoad`: an open document is lost to nothing but a load past its check, or a didSave that brings no text when the file cannot be read; `StrayOnlyByLoad`: no folder change, flip, closing or poll leaves a workspace document outside the roots or under a switch that is off, where no poll looks again; a load past its check may, and a handler that the switch crosses on several threads |
| `dispatch` | 1 file, 1 request at a time | `AnswersAreFresh`: replies are computed and converted against the present text; `CacheIsClients`: the cached stream is the client's |
| `requests` | 2 files, 1 request of every shape and 1 more prime, bound 1, every method of the table | `WholeMessage`: every position the protocol knows is converted once; `RightDocument`: in the document it lies in; `ResolveRoundTrip`: an item that is resolved goes back through the document it came in by; `AnswersCountedAsSeen`: the columns of a reply are counted in the text the handler saw; `SizeBound`, `SnapshotCurrent`: the fallback cache outgrows its bound by fewer entries than there are primes, and an entry with the file's stamp has its text |
| `report` | a poll of 2 listed URLs and one that is not, widths 0 and 2, one edit or write, handlers that look at up to 2 documents; a oneshot run over 2 files, or over one listed twice | `ImplementsSerial`, `Finishes`: the fan-out under both callers does what a serial loop does, and ends even when asked for no width; `PollMerged`: one report per URL, a document's own before all others; `PollOwnVersions`: it never names a version it was not computed from; `EntriesOfOwnRead`: an entry of a oneshot report tells of the text its item has read |
| `session` | 5 capability blocks, 4 modes, 5 clients, 4 methods, 2 requests at a time; 3 changes of the setting on one thread with watchers accepted, 2 on several threads with rejections and failures; 4 files, 10 ignore files and 2 changes of the disk | `GateAgreesWithClient`: the gate lets through what the client was told; `WarnsOnce`; `EncodingAgreed`; `ImplementorDecides`: the wrapper takes away and adds what it may; `AsksWithinMandate`: so do its requests to the client; `QuiescentAgrees`, `Converges`: the switch gets to the client's setting and stays; `RegisteredTruthful`, `ClientLearns`: the registration flag is the truth, and every flip makes the client poll; `ListFollowsDisk`: a valid list is what a walk would find, unless something changed in a blind spot |
| `conversion` | texts of up to 3 characters, UTF-8 and UTF-16, one delta after a full reply | `TextsAgree`: the rope is the editor's text; `TreeSound`: the tree is told where the edit was; `CacheIsServed`, `InsertsAsInFull`, `StreamFollows`: cached, inserted and resulting tokens are the text's |
| `document` | 2 callers, 2 generations, 2 grammars, one derived type that needs the other, reads of 0 and 2 bytes; ranges in texts of up to 4 characters | `AnswersAreTheSnapshots`: DerivedData implements DerivedValues; `CallsReturn`: no caller waits for ever; `RangesAgree`: bytes and tree-sitter ranges are cut alike, and LSP ranges with them while delimiters are counted in bytes |
| `editor_owns_open` | as `refresh`, texts saved always | violated, see below |
| `declared_served` | as `session`, 1 request | violated, see below |
| `ignores_watched` | the watchers of `session` | violated, see below |

*Bounds.* Every handler and load concerns one file; two files appear where an
action takes a set of them (`store`: folder changes and the switch), one where
the interleaving is the question. `MaxClock = 3` gives two writes or edits
after the initial file: one that a step misses and one that should repair it;
`store` has a third.
One folder and its removal say what a folder does to the files under it. Polls of
one client come one after another, so one poll with its orphans stands for
them; `MaxOrphans` bounds the orphans. Versions 1 to 3 let a document be
reopened and changed; `FreshVersions` says whether a client goes on counting
when it reopens a document. The texts of `conversion` never hold a
character of two bytes together with one of four and at most one newline: one
such character before the edit and one in it tell every unit from every other.
One delta is enough, since after it the cache is again the implementor's stream
(`CacheIsServed`). In `report` two items may wait for each other, report on each
other and on a third document; one edit or write in the middle of it is what the
probe looks for. In `requests` one URL is the request's and one the other that
its positions name; the bound 1 makes primes clear each other's entries. Two
generations in `document` are the one a caller holds and the one that is
installed over it; two callers race for one memo, one query. In `session` the
directories above, at and below the root tell the reach of an ignore file and of
a flat glob, and two changes are one that is heard and one that is not. A poll
that has answered ends the instance of `report`, and the bounds end those of
`session`, `requests` and `document`: these are run without the deadlock check.

*Fairness.* `FairRefresh`: handlers that have read the disk return, and every
step of a poll is taken some time: the runtime polls every woken future and
the pool runs every closure; that a client polls again is the protocol of
`workspace/diagnostic`. `ClientSpec`: the main loop handles what arrives, ready
tasks run, and the client answers; the user's changes are not fair.
`BatchesSpec`: some step of the poll, or of the oneshot run, is taken, so
handlers return, which the implementor owes; the changes around it are not fair.
`DocumentSpec`: every thread that asks a document runs, each for itself
(`\A c : WF(Steps(c))`); a reader offered no room is owed nothing.

## What the code says and does not do

Three statements of the repository do not hold, and the runs show how.

- *`editor_owns_open`* -- "The editor owns open documents; disk events never
  touch them" (`documents.rs:397`). A load passes its origin check, the editor
  opens the file, the load installs what it read: the open document becomes a
  workspace one with version 0 and the disk's text. `OpenLostOnlyToLoad`
  (in `walk_list`, and proved) shows that a load does not take an open document
  in any other way; the only step besides that loses one is the server's own
  recovery, when a didSave brings no text and the file cannot be read.
- *`declared_served`* -- a server that declares `will_save_wait_until` in its
  text synchronization options, as `server_trait.rs:237` asks, and implements
  it, is never asked: `initialize` writes options of its own over the
  implementor's (`initialize.rs:62`) and takes the inventory afterwards.
- *`ignores_watched`* -- the watchers cover "the ignore file names the walk
  honors -- the configured names and the built-in `.gitignore`"
  (`state/mod.rs:242`; `options.rs:66`: "no ignore files beyond the built-in git
  family"). The walk honours `.ignore` too (`walker.rs:158`, and the test at
  `walker.rs:199`), no watcher asks for it and `is_ignore_file` does not know it:
  polls go on with the list of before.

Checked properties are stated for conditions under which they hold. Outside
these the same properties fail in the model, each in a way that is
in the code:

- `StampSound` with two nested roots: the walk lists the file twice, one load
  stamps the text the other has read (`walker.rs:202`, `workspace.rs:252`).
- `StampSound` with cancelled polls: an orphan installs its old text between
  the next poll's installation and its stamping.
- `ListStaleOnlyIfCrossed` without its exception: `WalkCache::store` clears
  the dirty flag of an invalidation that came during the walk.
- `AnswersAreFresh` when versions repeat, and for workspace snapshots, whose
  version is always 0: the probe compares versions only (`dispatch.rs:412`).
- `CacheIsClients` with two requests in flight on one document: the splice
  does not compare the result ids (`conversion.rs:1010`).
- `QuiescentAgrees` on several threads: a notification handled between the
  comparison of the generation and the application of the answer is undone.
- Documents outside the roots "cannot exist" for the plan of folder removal
  (`2026-09-18-invariants-cycle.md:79`). A load that installs after the removal
  of its folder leaves one, and no later poll drops it, since `retain` keeps
  what lies outside the roots. `StrayOnlyByLoad` (checked, and proved) says that
  nothing else does, but a handler that the switch crosses on several threads.
- Edits of a delta "are converted seeded against the cached previous stream"
  (`server_trait.rs:391`) only when there is one: didSave drops it while the
  client keeps its result id, and the next delta passes unconverted.
- `InsertsAsInFull` when an earlier edit of the delta moves the token before a
  later one: all edits are seeded from the stream before the delta
  (`conversion.rs:924`).
- `StreamFollows` when a kept token keeps its bytes and not its units: a delta
  converts only what it inserts.
- `TextsAgree` for positions the text does not have: a column past the end of
  a line goes past its newline. The rope also breaks lines at characters other
  than the newline; the models have only that.
- `PollOwnVersions` for reports on related documents: the version is read when the
  handler has ended (`diagnostics.rs:675`), and the probe compares only the
  document the handler ran for.
- `WorkspaceJustified` on several threads: the switch goes off while didClose
  or a watched event reads the disk, and the snapshot is installed afterwards.
- `ListFollowsDisk` in its blind spots (`BlindSpots`): an exclude file, git's
  global file, the global ignore file, ignore files above the root, configured
  names that make no glob, and files below the root that only a flat glob claims,
  which matches deeper in the server than in the client.
- `EntriesOfOwnRead` for two items of one file that run side by side: they open
  over each other. And "one entry per document"
  (`oneshot/workspace_diagnostics.rs:84`) is two for a file that two nested roots
  list.
- `RangesAgree` when characters of several bytes stand before a delimiter: the
  LSP range counts characters where the others count bytes
  (`range_ext/lsp.rs:133`). `CountedInBytes` tells these cuts apart: after one
  `RangesAgree` compares bytes and tree-sitter only.
- `AnswersCountedAsSeen` for positions in documents the probe does not look at,
  when these change while the handler runs (`conversion.rs:60`).
- A resolve request is converted only when exactly one document is tracked
  (`dispatch.rs:329`); with none or several its positions pass as the client
  counts them. `will_create_files`, `will_rename_files` and `will_delete_files`
  are converted under the same condition, and no probe guards them.
- A failed edit drops the entry's lock before it recovers (`documents.rs:241`):
  on several threads a request in between sees the document half edited.

## Proofs

| module | theorem | argument |
|---|---|---|
| `DocumentStoreProofs` | `StoreTypeOK` | `TypeOK` is inductive |
| | `StoreMirrorsEditor` | `Owner`: `MirrorsEditor`, and a handler between its read and its installation works on a document the editor does not have open. Without the second part a snapshot could be installed over an open document. A failed edit re-reads the file, so where didSave does not carry the text the text is not promised: the server asks for it (`includeText`) |
| | `StoreWorkspaceJustified` | `Justification`: every document but the one being closed is justified, and so is the one a handler is about to install. Assumes one thread (`~MultiThread`) |
| | `StoreNeverSilentlyStale` | as an action property, from `Owner` and `Deletions`: where a file is gone that the server still has, or is about to install, its deletion event is on its way. So every step leaves a watched snapshot the file's text, or with news on its way |
| `BatchProofs` | `BatchEachItemOnce` | `BatchInv`: types, the bound on what runs together (`WithinWidth`), the places of the items, and that an item has an outcome when it has completed and the one it completed with (`Faithful`) |
| | `BatchImplementsSerial` | the sorted results are the outcomes, and a batch with an error has a first one (`LeastElement`) |
| | `ReportTypes` | `ReportInv`: types, and that handlers have looked at finitely many documents, so that their sinks are sequences |
| | `ReportImplementsBatch`, `ReportImplementsSerial` | an item ends with an outcome of the batch (`ItemEndsSo`), everything else is a step of the batch or none of it; so the theorems about ForEachBounded hold of the poll. Both assume that the batch's values hold the sinks |
| | `ReportMerged`, `ReportVersions`; `PollsMerged`, `PollVersions` | `PollInv`: the batch's and the report's invariants, what a handler has looked at in its own document lies between what it was probed with and what the server has now (`LooksOrdered`), and a report that replaces others is about the item's own document and of the version it names (`SinksSound`). The rest is about the operators: the flattened sinks are the items' one after the other (`FlattenIsLaid`), the fold leaves one report per URL, one that replaces if there is one and the first otherwise (`FoldIsFolded`, by a least counterexample), and ranking by URL orders them (`ItemsInOrder`). A URL is listed once, so only one item's report replaces. The second pair says it of `BatchesSpec` |
| | `OneshotTypes`, `OneshotEntries`, `OneshotImplementsSerial` | the same for the oneshot run. `OneshotInv`: types, the batch's invariant, an item's stage is what the batch knows of it (`StagesAgree`), and an item that has its file to itself finds in the store, and reports, the text it has read (`TextIsRead`) |
| `SessionProofs` | `SessionTypes`, `SessionGate`, `SessionWarnsOnce`, `SessionEncodings` | `SessionInv`: types, what client, inventory and negotiation hold is one (`SettledAgree`), nothing of it changes later (`Untouched`), what a request was told is what the gate says (`RequestsGated`), the bits count the warnings (`WarningsCounted`). `AdvertisedIsGranted`: the inventory computes the table |
| | `SessionAsks`, `SessionImplementor` | `Provenance`: what the client was sent is the declaration after the three steps of `initialize` |
| | `WatchingListFollowsDisk` | `ListAccountedFor`: with nothing changed in a blind spot a valid list is the walk's, or an event is on its way that makes it invalid; for every name and glob the client watches is one the handler knows (`WatchedIsHandled`) |
| | `SwitchRegistered`, `SwitchClientLearns` | `Flags`: acceptance comes before the flag (`AcceptedFirst`); a switch that is on without watchers has something on its way that registers them (`AsksForWatchers`); a flip the client has not seen has a refresh or a poll on its way (`AsksToPoll`). On any number of threads |
| | `SwitchQuiescent` | `Agreement`: no request is ahead of the generation (`NoneAhead`), the last value pushed is the setting (`LastNews`), with no news on its way the switch agrees or is being told under the present generation (`Asked`), and before the client notifies of changes nothing it could outdate has been read, since the request for the setting follows the one for the notifications on both queues (`BeforeSubscription`, `Guarded`). On one thread, where the tasks are a queue; on several it fails, see above |
| `ConversionFallbackProofs` | `FallbackTypes`, `FallbackSize` | both inductive, the second with the finiteness of the cache |
| | `FallbackSnapshotCurrent` | `StampInv`: no stamp is of a write to come, and what is about to be inserted is as sound as what is there |
| | `RequestsSize`, `RequestsSnapshotCurrent` | the same two of Requests, whose steps are the cache's but for the clock that an installation moves (`RequestsStepsCache`) |
| | `RequestsCountAsSeen` | `DocumentInv`: a request that has probed a version has that version's text as its document (`Anchored`), and if it has its answer and the version is still the document's, the handler saw that text, since no text ever comes back. What the request table comes to is `DocumentRows`, which TLC evaluates: it depends on no constant |
| `WorkspaceRefreshProofs` | `RefreshTypes` | `RefreshTypeOK` is inductive |
| | `RefreshStampSound` | `Gate`: no stamp is of a write to come (`Dated`), what is listed lies under its root (`Listed`), an entry with the file's stamp has its text (`GateSound`), and as long as the file has the stamp a load probed, whatever may become its entry before the load sets that stamp is the file's text (`LoadSound`). Stamps never come back, so a stamp that still is the file's says that nothing was written since the probe. Assumes one poll at a time (`OnePoll`), which nobody cancels (`RefreshSpec` has no `PollCancelled`), and no file under two roots (`Unnested`): outside these it fails, see above |
| | `HistoryOpenLostOnlyToLoad` | as an action property, from `HandlerLeavesOpen`: a handler that has read the disk works on a document the editor does not have open |
| | `HistoryStrayOnlyByLoad` | as an action property, from `HandlerMayInstall`: what didClose is about to install is still a file to keep, and what a watched event is about to install is still there, unless the switch went. For any number of polls and threads |
| | `HistoryListStale` | `HistoryInv`: what a walk under way has found, and the list it left, is what a walk of now would find, up to changes since whose event is on its way (`WalkSound`, `ListSound`), unless an invalidation crossed the walk |
| `RequestDispatchProofs` | `DispatchTypes` | `DispatchTypeOK` is inductive, over a splice that may mangle |
| | `DispatchAnswersFresh` | `Fresh`: the store holds what the editor has open (`Editors`), versions only grow, and a request that has probed a version has, as long as the document has that version, the document's text (`Current`); for any number of requests. Assumes `EditorsOnly`: no folder, versions that go on counting when a document is reopened, saves that carry the text; workspace snapshots all have the version 0 |
| | `DispatchCacheIsClients` | `CacheSound`: texts are real (`TextsReal`), a delta in flight was asked for on the stream the client still holds, and where a document came after the request had found none there is no cached stream to splice into (`RequestKnows`). Assumes `OneRequest` |
| `DocumentProofs` | `RangesAlwaysAgree` | every operation of `RangeExt` on a stretch of a document gives the stretch the other two kinds give, so agreement is inductive. By lemmas about positions: the position of a place in a stretch, added to the stretch's start, is its position in the document (`PositionAbsolute`), later places have greater positions (`PositionOrder`), and a place is found again from its position. Bytes and tree-sitter agree on every document. The LSP range does while what precedes the delimiters on their lines is of one byte a character (`LspDelimitedInBytes`, `LspTriInBytes`); after a miscounted one the property promises nothing of it |
| | `SnapshotsAnswer` | the refinement of DerivedValues by DerivedData. `SnapshotsInv`: a memo holds values of its own generation's text, the cache only queries that compile, the frames of nested calls what was derived from their snapshot's text, and a reader has handed out a beginning of it (`ReaderAt`). A turn of the loop of read goes on in the text (`CopiedKeeps`), and a read that had room and took nothing is at its end (`FilledReads`). No assumption about the locks is needed: a racing caller overwrites a value with its equal |
| `TextProofs` | `TextsAlwaysAgree`, `TreesStaySound` | `TextInv`: the rope is the editor's text and the tree is sound. By lemmas about the operators: lengths in code units add up (`LengthConcat`) and grow with the stretch (`LengthOrder`), a line is found by the breaks before it (`LineFound`, `LinesAround`), so a position of the text converts to the same place's (`PositionConverted`) and a range gives back its offsets (`RangeFound`); the point counted on through an insertion is that of its end in the text after it (`NewEndIs`, by a least counterexample), so the tree is told what happens (`EditTold`), once and twice in a batch (`BatchOfOne`, `BatchOfTwo`) |
| | `CacheFollowsImplementor` | `StreamInv`: the cached stream is the one the implementor's next delta starts from, or none; while no reply is on its way a client that may ask a delta holds as many tokens as that stream; and a reply on its way is what `FullReply` or `DeltaReply` says of it. That the splice keeps this is `DeltasLead`: the flat array of a stretch is a stretch of the flat array (`FlatStretch`, `ChunksOfFlat`), and two edits sorted from the back leave each other's places alone (`SpliceOfTwo`, `TwoLead`) |
| | `FullConverted`, `InsertsMatchFull` | the tokens of a text are ranked by their places (`Ranked`, `SpanFound`), so adding up a stretch of a stream from the token before it gives where the stretch's tokens start (`PositionsOfStretch`); each start and end converts to its own by `PositionConverted`, hence a stretch converted from the right anchor in both frames is that stretch of the client's stream (`StretchConverted`). An anchor no earlier edit has moved is the right one (`InsertsFound`) |
| | `ClientFollows` | what the client does with one edit, from the two before (`OneFollowed`). The kept tokens need the premise of `StreamFollows` that their columns stay |

They hold for every set of files, folders, clients, items, callers, documents
and primes, and every bound, from the assumptions the modules state about their
constants and the ones the table names. One of the former is `TokenAssumption`:
a token the implementor highlights does not run past the end of its line. What
takes induction over data (the walk along a stream, the point counted through an
insertion) is proved by a least counterexample.
Model-checked only are:

- liveness (`Settles`, `Converges`, `Finishes`, `CallsReturn`): fairness is out
  of the prover's reach;
- what the request table says for each of its finitely many methods
  (`WholeMessage`, `RightDocument`, `ResolveRoundTrip`): the run has them all,
  and a proof would only restate the table.

## Not modelled yet, and the plan

In this order:

1. Two polls of a client at once, and the report of a poll on the store as the
   refresh leaves it: WorkspaceReport and WorkspaceRefresh share only the
   listing so far.
2. The answer of a switched-off poll, and full against unchanged reports.
3. Lines that end otherwise than with a newline, in TextEdits.

Left out for good: the syntax trees (tree-sitter), the compilation of globs
(globset), the directory traversal (ignore), the transports and the middleware
of async-lsp, the boilerplate the macros generate beyond hooks and dispatch
rows, the test support, and logging.
