---------------------------- MODULE WorkspaceReport ----------------------------
(***************************************************************************)
(* The report of a workspace/diagnostic poll (src/workspace/diagnostics.rs, *)
(* workspace_diagnostic_items): the implementor's document handler runs on *)
(* every listed URL through for_each_bounded while the documents change,   *)
(* each item leaves a sink of reports, and the sinks are folded into one   *)
(* report per URL.  The items of ForEachBounded are the listed URLs and    *)
(* their values the sinks.                                                 *)
(*                                                                         *)
(* A report is the text it was computed from and the version it names;     *)
(* whether it is a full or an unchanged one makes no difference here.      *)
(***************************************************************************)
EXTENDS ForEachBounded, SequencesExt

CONSTANTS
    Urls,     \* URLs, as their places in the order of their strings
    Listings, \* bound: the lists of this instance
    MaxLooks, \* bound: documents one handler looks at
    MaxClock  \* bound: edits and writes of the disk

ASSUME ReportAssumption ==
    /\ Urls \subseteq Nat
    /\ Listings \subseteq {f \in [Items -> Urls] : \A i, j \in Items : f[i] = f[j] => i = j}
    /\ MaxLooks \in Nat /\ MaxClock \in Nat \ {0}
    /\ {"handler", "content_modified"} \subseteq Errors

VARIABLES
    listed,    \* listed[i]: the URL of item i
    documents, \* documents[u]: origin and text, a text being the time it came
    clock,
    probed,    \* probed[i]: the document the handler of item i runs for
    seen       \* seen[i]: the texts this handler looked at, by URL

documentVars == <<listed, documents, clock>>
itemVars     == <<probed, seen>>
vars         == <<batchVars, documentVars, itemVars>>

Untracked == [origin |-> "untracked", text |-> 0]
Document  == [origin: {"open", "workspace"}, text: 1..MaxClock] \cup {Untracked}
Look      == [url: Urls, text: 1..MaxClock]

\* A report with the flag it was pushed with.
NoVersion == -1
Pushed    == [url: Urls, version: {NoVersion} \cup 1..MaxClock, text: 1..MaxClock, replace: BOOLEAN]

ReportTypeOK ==
    /\ BatchTypeOK
    /\ listed \in [Items -> Urls]
    /\ documents \in [Urls -> Document]
    /\ clock \in 1..MaxClock
    /\ probed \in [Items -> Document]
    /\ seen \in [Items -> SUBSET Look]

-----------------------------------------------------------------------------
(* The sink *)

\* Mutant: a related report takes the place of the document's own.
LastPushed(sink, report) ==
    LET Others(r) == r.url # report.url
    IN  Append(SelectSeq(sink, Others), report)

\* push_workspace_report: the first report about a URL stays, unless the
\* document itself reports.
Push(sink, report) ==
    LET at == {k \in 1..Len(sink) : sink[k].url = report.url}
    IN  IF at = {} THEN Append(sink, report)
        ELSE IF report.replace THEN [k \in 1..Len(sink) |-> IF k \in at THEN report ELSE sink[k]]
        ELSE sink

\* An editor gives every text a version of its own; a workspace snapshot has
\* version 0.
Version(d) == IF d.origin = "open" THEN d.text ELSE 0

\* document_workspace_version: only what the editor has open has one.
WorkspaceVersion(d) == IF d.origin = "open" THEN d.text ELSE NoVersion

Reported(look, replace) ==
    [url |-> look.url, version |-> WorkspaceVersion(documents[look.url]),
     text |-> look.text, replace |-> replace]

\* push_workspace_reports_from_document_result: the document's own report
\* first, or none when the result is a partial one, then the related ones,
\* all about URLs of their own.
ItemSink(i, own) ==
    SetToSeq({Reported(l, TRUE) : l \in own})
        \o SetToSeq({Reported(l, FALSE) : l \in seen[i] \ own})

\* The sinks in input order, every report with its flag.
FoldSinks(sinks) ==
    LET all == FlattenSeq(sinks)
        after[n \in 0..Len(all)] == IF n = 0 THEN <<>> ELSE Push(after[n - 1], all[n])
    IN  after[Len(all)]

\* The answer's reports, by URL: a report has as many before it as there are
\* with a smaller one.
Items_(sinks) ==
    LET reports   == ToSet(FoldSinks(sinks))
        Before(r) == {q \in reports : q.url < r.url}
    IN  [k \in 1..Len(FoldSinks(sinks)) |->
            CHOOSE r \in reports : Cardinality(Before(r)) = k - 1]

-----------------------------------------------------------------------------
(* The poll *)

\* An item begins with a look at its document.
ItemStarts ==
    /\ Start
    /\ probed' = [probed EXCEPT ![next] = documents[listed[next]]]
    /\ UNCHANGED <<documentVars, seen>>

Ends(i, result) ==
    /\ Complete(i, result)
    /\ probed' = [probed EXCEPT ![i] = Untracked]
    /\ seen' = [seen EXCEPT ![i] = {}]
    /\ UNCHANGED documentVars

\* A document gone since the listing is passed over.
ItemSkipped(i) ==
    /\ probed[i] = Untracked
    /\ Ends(i, [ok |-> TRUE, value |-> <<>>])

\* The handler looks at documents, its own among them, whenever it likes.
HandlerLooks(i, u) ==
    /\ i \in running
    /\ probed[i] # Untracked
    /\ Cardinality(seen[i]) < MaxLooks
    /\ \A l \in seen[i] : l.url # u
    /\ documents[u] # Untracked
    /\ seen' = [seen EXCEPT ![i] = @ \cup {[url |-> u, text |-> documents[u].text]}]
    /\ UNCHANGED <<batchVars, documentVars, probed>>

HandlerFails(i) ==
    /\ probed[i] # Untracked
    /\ Ends(i, [ok |-> FALSE, value |-> "handler"])

\* Mutant: only a document the editor has closed since counts as modified.
StaleOnceClosed(i) ==
    LET d == documents[listed[i]]
    IN  d.origin = "workspace" /\ Version(d) # Version(probed[i])

Stale(i) ==
    LET d == documents[listed[i]]
    IN  d # Untracked /\ Version(d) # Version(probed[i])

ItemModified(i) ==
    /\ probed[i] # Untracked
    /\ Stale(i)
    /\ Ends(i, [ok |-> FALSE, value |-> "content_modified"])

\* With its own report among what it found, or in a partial result without.
ItemReports(i) ==
    /\ probed[i] # Untracked
    /\ ~Stale(i)
    /\ \E own \in {{l \in seen[i] : l.url = listed[i]}, {}} :
         Ends(i, [ok |-> TRUE, value |-> ItemSink(i, own)])

PollCollects == Collect /\ UNCHANGED <<documentVars, itemVars>>

-----------------------------------------------------------------------------
(* What goes on meanwhile *)

Becomes(u, d) ==
    /\ documents' = [documents EXCEPT ![u] = d]
    /\ UNCHANGED <<batchVars, listed, itemVars>>

Tick == clock < MaxClock /\ clock' = clock + 1

\* didOpen, didChange
Edited(u) == Tick /\ Becomes(u, [origin |-> "open", text |-> clock + 1])

\* didClose
Closed(u) ==
    /\ documents[u].origin = "open"
    /\ UNCHANGED clock
    /\ \/ Becomes(u, Untracked)
       \/ Becomes(u, [documents[u] EXCEPT !.origin = "workspace"])

\* A watched event, or another poll's load.
Loaded(u) ==
    /\ documents[u].origin # "open"
    /\ Tick
    /\ Becomes(u, [origin |-> "workspace", text |-> clock + 1])

\* A deletion, a folder change or the switch.
Removed(u) ==
    /\ documents[u].origin = "workspace"
    /\ UNCHANGED clock
    /\ Becomes(u, Untracked)

-----------------------------------------------------------------------------
\* The listed documents were there when they were listed.
ReportInit ==
    /\ BatchInit
    /\ clock = 1
    /\ listed \in Listings
    /\ documents \in [Urls -> {Untracked, [origin |-> "open", text |-> 1],
                                          [origin |-> "workspace", text |-> 1]}]
    /\ \A i \in Items : documents[listed[i]] # Untracked
    /\ probed = [i \in Items |-> Untracked]
    /\ seen = [i \in Items |-> {}]

ItemStep(i) ==
    \/ ItemSkipped(i)
    \/ \E u \in Urls : HandlerLooks(i, u)
    \/ HandlerFails(i) \/ ItemModified(i) \/ ItemReports(i)

PollStep == ItemStarts \/ (\E i \in Items : ItemStep(i)) \/ PollCollects

\* The bound ends the changes with the poll.
DocumentStep ==
    /\ answer = Pending
    /\ \E u \in Urls : Edited(u) \/ Closed(u) \/ Loaded(u) \/ Removed(u)

ReportNext == PollStep \/ DocumentStep

ReportSpec     == ReportInit /\ [][ReportNext]_vars
FairReportSpec == ReportSpec /\ WF_vars(PollStep)

-----------------------------------------------------------------------------
(* Properties *)

Answered == answer # Pending /\ answer.ok

\* What a loop over the items makes of their sinks: about every URL the
\* report of its own document, if that reported, else the first anybody made.
OwnItems(sinks, u) ==
    {i \in Items : \E r \in ToSet(sinks[i]) : r.url = u /\ r.replace}

Speakers(sinks, u) == {i \in Items : \E r \in ToSet(sinks[i]) : r.url = u}

Speaker(sinks, u) ==
    LET own == OwnItems(sinks, u)
    IN  Min(IF own # {} THEN own ELSE Speakers(sinks, u))

\* The client gets one report about every URL anybody reported on, in order,
\* and a document's own before all others, whoever spoke first
\* (diagnostics.rs: "folding the per-item sinks in sequence replays the serial
\* loop's push order").
ReportsMerged ==
    Answered =>
        LET reports == Items_(answer.value)
        IN  /\ \A k, l \in 1..Len(reports) : k < l => reports[k].url < reports[l].url
            /\ {r.url : r \in ToSet(reports)} = {u \in Urls : Speakers(answer.value, u) # {}}
            /\ \A r \in ToSet(reports) :
                   r \in ToSet(answer.value[Speaker(answer.value, r.url)])

\* A document's own report names the version it was computed from, or none,
\* whatever the editor did to it, and to the other items, during the poll
\* (server/tests/staleness.rs: "a document mutated while its request is in
\* flight answers CONTENT_MODIFIED").
OwnVersions ==
    Answered =>
        \A r \in ToSet(Items_(answer.value)) :
            OwnItems(answer.value, r.url) # {} => r.version \in {NoVersion, r.text}
=============================================================================
