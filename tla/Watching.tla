------------------------------- MODULE Watching -------------------------------
(***************************************************************************)
(* What a walk lists and which changes of it the server hears of: the      *)
(* walker (src/workspace/walker.rs) applies globs, hidden names and every  *)
(* kind of ignore file; the client is asked to watch the matchers' globs   *)
(* and some of the ignore files (watcher_globs), and a watched event makes *)
(* the cached list be walked again or not (handle_watched_files_change).   *)
(* The watchers are registered throughout: without them nothing is cached. *)
(*                                                                         *)
(* Patterns in ignore files speak of the claimed files and of no           *)
(* directory: an ignore file ignores them, or asks to keep them.           *)
(***************************************************************************)
EXTENDS Naturals, FiniteSets

CONSTANTS
    Files,        \* files of the workspace, records of File
    Matchers,     \* the globs of each matcher, in their order
    CustomNames,  \* configured ignore file names (with_ignore_filenames)
    InvalidNames, \* those that make no glob
    IgnoreFiles,  \* ignore files of the instance, records of IgnoreFile
    MaxEdits      \* bound on the changes of the disk

\* Directories by depth: above the root, the root, below it.
Depths == 0..2
Root == 1

\* "deep" globs begin with **/, "flat" ones do not; a slash in either no.
File == [name: STRING, ending: STRING, depth: {1, 2}, hidden: BOOLEAN]
Glob == [ending: STRING, kind: {"deep", "flat", "invalid"}]

\* The kinds of ignore file the ignore crate reads, the strongest first.
Chain == <<"custom", ".ignore", ".gitignore", "exclude", "git global">>
IgnoreFile == [kind: {Chain[k] : k \in 1..5} \cup {"global"}, name: STRING, depth: Depths]

ASSUME WatchingAssumption ==
    /\ Files \subseteq File /\ IgnoreFiles \subseteq IgnoreFile
    /\ \A m \in Matchers : \A k \in DOMAIN m : m[k] \in Glob
    /\ InvalidNames \subseteq CustomNames /\ MaxEdits \in Nat
    /\ \A r \in IgnoreFiles : /\ (r.kind = "custom") <=> (r.name \in CustomNames)
                              /\ r.kind = ".gitignore" => r.name = ".gitignore"

VARIABLES
    present,    \* the files on disk
    rules,      \* rules[r]: what ignore file r asks for
    repository, \* is the root in a git repository?
    walkList,   \* WalkCacheInner.entries
    dirty,      \* WalkCacheInner.dirty
    events,     \* watched events on their way
    unheard,    \* files the client need not report, changed since the last walk
    edits       \* changes of the disk so far

watchingVars == <<present, rules, repository, walkList, dirty, events, unheard, edits>>

-----------------------------------------------------------------------------
(* The walk *)

\* DocumentMatchers::new keeps the globs that compile.
Globs == {g \in UNION {{m[k] : k \in DOMAIN m} : m \in Matchers} : g.kind # "invalid"}

\* find_path: a star of globset crosses directories.
Claims(g, f) == g.ending = f.ending

Claimed(f) == \E g \in Globs : Claims(g, f)

\* WalkBuilder, as configure_walker sets it up: the strongest kind that has
\* something to say about a file decides, within a kind the nearest file.
OfGit(kind) == kind \in {".gitignore", "exclude", "git global"}

Speaking(kind, f) ==
    {r \in IgnoreFiles : /\ r.kind = kind /\ r.depth <= f.depth
                         /\ rules[r] # "nothing"
                         /\ OfGit(kind) => repository}

Nearest(rs) == CHOOSE r \in rs : \A s \in rs : s.depth <= r.depth

Verdict(f) ==
    LET spoken == {k \in 1..5 : Speaking(Chain[k], f) # {}}
    IN  IF spoken = {} THEN "nothing"
        ELSE rules[Nearest(Speaking(Chain[CHOOSE k \in spoken : \A l \in spoken : k <= l], f))]

\* A hidden file is listed only when it is asked for.
Passes(f) == Verdict(f) = "keep" \/ (Verdict(f) = "nothing" /\ ~f.hidden)

\* global_ignore_matcher: consulted for every file, after the others.
IgnoredByGlobal(f) == \E r \in IgnoreFiles : r.kind = "global" /\ rules[r] = "ignore"

Walked == {f \in present : Claimed(f) /\ Passes(f) /\ ~IgnoredByGlobal(f)}

-----------------------------------------------------------------------------
(* The watchers *)

\* watcher_globs: **/.gitignore and **/name for the names that make a glob.
WatchedName(name) == name = ".gitignore" \/ name \in CustomNames \ InvalidNames

\* A client watches under the folders of the workspace, and a star of the
\* protocol stays within a directory.
Covers(g, f) == g.ending = f.ending /\ (g.kind = "deep" \/ f.depth = Root)

Reported(f) == \E g \in Globs : Covers(g, f)

ReportedRules(r) == WatchedName(r.name) /\ r.depth >= Root

-----------------------------------------------------------------------------
(* The events *)

\* Mutant: only what git calls an ignore file.
GitIgnoreOnly(name) == name = ".gitignore"

\* is_ignore_file
IsIgnoreFile(name) == name = ".gitignore" \/ name \in CustomNames

Invalidates(e) == IsIgnoreFile(e.name) \/ e.type \in {"created", "deleted"}

EventHandled(e) ==
    /\ e \in events
    /\ events' = events \ {e}
    /\ dirty' = (dirty \/ Invalidates(e))
    /\ UNCHANGED <<present, rules, repository, walkList, unheard, edits>>

\* A poll on a list that is not valid.
PollWalksAgain ==
    /\ dirty
    /\ walkList' = Walked /\ dirty' = FALSE /\ unheard' = {}
    /\ UNCHANGED <<present, rules, repository, events, edits>>

-----------------------------------------------------------------------------
(* The disk *)

Edits == edits < MaxEdits /\ edits' = edits + 1

Hears(heard, what, type) ==
    IF heard THEN /\ events' = events \cup {[name |-> what.name, depth |-> what.depth, type |-> type]}
                  /\ UNCHANGED unheard
             ELSE unheard' = unheard \cup {what} /\ UNCHANGED events

FileAppears(f) ==
    /\ Edits
    /\ f \notin present /\ present' = present \cup {f}
    /\ Hears(Reported(f), f, "created")
    /\ UNCHANGED <<rules, repository, walkList, dirty>>

FileGoes(f) ==
    /\ Edits
    /\ f \in present /\ present' = present \ {f}
    /\ Hears(Reported(f), f, "deleted")
    /\ UNCHANGED <<rules, repository, walkList, dirty>>

\* An ignore file is written; whether it was there before makes no difference
\* to handle_watched_files_change.
RulesChange(r) ==
    /\ Edits
    /\ \E asks \in {"nothing", "ignore", "keep"} \ {rules[r]} : rules' = [rules EXCEPT ![r] = asks]
    /\ Hears(ReportedRules(r), r, "changed")
    /\ UNCHANGED <<present, repository, walkList, dirty>>

-----------------------------------------------------------------------------
WatchingInit ==
    /\ present \in SUBSET Files
    /\ rules = [r \in IgnoreFiles |-> "nothing"]
    /\ repository \in BOOLEAN
    /\ walkList = {} /\ dirty = TRUE
    /\ events = {} /\ unheard = {} /\ edits = 0

WatchingNext ==
    \/ \E e \in events : EventHandled(e)
    \/ PollWalksAgain
    \/ \E f \in Files : FileAppears(f) \/ FileGoes(f)
    \/ \E r \in IgnoreFiles : RulesChange(r)

WatchingSpec == WatchingInit /\ [][WatchingNext]_watchingVars

-----------------------------------------------------------------------------
(* Properties *)

\* What the walk reads and nobody reports: ignore files of other kinds, those
\* above the root, names that make no glob; and files below the root that only
\* a flat glob claims.
BlindSpots ==
    {r \in IgnoreFiles : \/ r.kind \notin {"custom", ".gitignore"}
                         \/ r.depth < Root \/ r.name \in InvalidNames}
        \cup {f \in Files : f.depth > Root /\ \A g \in Globs : Claims(g, f) => g.kind = "flat"}

\* With no event on its way a valid list is what a walk would find, unless
\* something has changed in a blind spot since (watcher_globs: "whose edits
\* change walk membership"): no name is honoured by the walk and forgotten by
\* the watchers, or watched and forgotten by the handler.
ListFollowsDisk ==
    ~dirty /\ events = {} /\ unheard \cap BlindSpots = {} => walkList = Walked

\* Every ignore file that the walk honours below the root is watched: with no
\* event on its way the list has all of them in it (state/mod.rs: "plus the
\* ignore file names the walk honors").
HonouredAreWatched ==
    ~dirty /\ events = {} /\ (\A r \in unheard : r \in IgnoreFiles /\ r.depth >= Root /\ r.kind = ".ignore")
        => walkList = Walked
=============================================================================
