-------------------------------- MODULE Oneshot --------------------------------
(***************************************************************************)
(* The batch run over a workspace without a client (src/oneshot): the      *)
(* matched files of a walk go through for_each_bounded; each is read and   *)
(* opened on the blocking pool, and its diagnostics are asked of clones of *)
(* one wrapper, so all items share one store.  The files change on disk    *)
(* meanwhile.  The items of ForEachBounded are the places of the list,     *)
(* their values the entries they add to the report, one or none.           *)
(***************************************************************************)
EXTENDS ForEachBounded

CONSTANTS
    Paths,     \* files the matchers claim, as their places in path order
    Walks,     \* bound: what walks may list; a file under two roots twice
    MaxWrites  \* bound on the writes of the disk

ASSUME OneshotAssumption ==
    /\ Paths \subseteq Nat /\ MaxWrites \in Nat \ {0}
    /\ \A w \in Walks : /\ w \in [Items -> Paths]
                        /\ \A i, j \in Items : i < j => w[i] <= w[j]
    /\ {"io", "method_not_found", "handler"} \subseteq Errors

VARIABLES
    paths,      \* paths[i]: the file of item i
    advertised, \* does the server advertise its diagnostic provider?
    disk,       \* disk[p]: the text of the file, NoText when it cannot be read
    writes,     \* texts written so far
    opened,     \* opened[p]: the text of the document in the store, or NoText
    stage,      \* stage[i]: where item i is
    read,       \* read[i]: the text item i has read
    shown       \* shown[i]: the text its handler has seen

oneshotVars == <<paths, advertised, disk, writes, opened, stage, read, shown>>

NoText == 0

\* An entry of the report; every document is opened as version 1.
Entry == [path: Paths, version: {1}, text: 1..MaxWrites]

Stages == {"waiting", "reading", "opening", "opened", "handled", "ended"}

OneshotTypeOK ==
    /\ BatchTypeOK
    /\ paths \in Walks
    /\ advertised \in BOOLEAN
    /\ disk \in [Paths -> {NoText} \cup 1..MaxWrites]
    /\ writes \in 1..MaxWrites
    /\ opened \in [Paths -> {NoText} \cup 1..MaxWrites]
    /\ stage \in [Items -> Stages]
    /\ read \in [Items -> {NoText} \cup 1..MaxWrites]
    /\ shown \in [Items -> {NoText} \cup 1..MaxWrites]

OneshotInit ==
    /\ BatchInit
    /\ paths \in Walks
    /\ advertised \in BOOLEAN
    /\ disk = [p \in Paths |-> 1] /\ writes = 1
    /\ opened = [p \in Paths |-> NoText]
    /\ stage = [i \in Items |-> "waiting"]
    /\ read = [i \in Items |-> NoText]
    /\ shown = [i \in Items |-> NoText]

To(i, s) == stage' = [stage EXCEPT ![i] = s]

FileBegins ==
    /\ Start
    /\ To(next, "reading")
    /\ UNCHANGED <<paths, advertised, disk, writes, opened, read, shown>>

FileEnds(i, result) ==
    /\ Complete(i, result)
    /\ To(i, "ended")
    /\ UNCHANGED <<paths, advertised, disk, writes, opened, read, shown>>

Failed(error) == [ok |-> FALSE, value |-> error]

FileRead(i) ==
    /\ stage[i] = "reading" /\ disk[paths[i]] # NoText
    /\ To(i, "opening")
    /\ read' = [read EXCEPT ![i] = disk[paths[i]]]
    /\ UNCHANGED <<batchVars, paths, advertised, disk, writes, opened, shown>>

FileUnreadable(i) ==
    /\ stage[i] = "reading" /\ disk[paths[i]] = NoText
    /\ FileEnds(i, Failed("io"))

\* Mutant: a document that is open already is not opened again.
OpensFirst(p, t) == IF opened[p] = NoText THEN [opened EXCEPT ![p] = t] ELSE opened

\* did_open: the document in the store is the one just opened.
Opens(p, t) == [opened EXCEPT ![p] = t]

\* In the same closure on the pool, beside the closures of other items.
FileOpened(i) ==
    /\ stage[i] = "opening"
    /\ opened' = Opens(paths[i], read[i])
    /\ To(i, "opened")
    /\ UNCHANGED <<batchVars, paths, advertised, disk, writes, read, shown>>

\* document_diagnostic: the gate turns away what is not advertised.
GateRefuses(i) ==
    /\ stage[i] = "opened" /\ ~advertised
    /\ FileEnds(i, Failed("method_not_found"))

\* The handler takes its document from the store.
FileHandled(i) ==
    /\ stage[i] = "opened" /\ advertised
    /\ To(i, "handled")
    /\ shown' = [shown EXCEPT ![i] = opened[paths[i]]]
    /\ UNCHANGED <<batchVars, paths, advertised, disk, writes, opened, read>>

FileHandlerFails(i) ==
    /\ stage[i] = "handled"
    /\ FileEnds(i, Failed("handler"))

\* Every document is of version 1, so the probe finds no reply stale.
FileReported(i) ==
    /\ stage[i] = "handled"
    /\ FileEnds(i, [ok |-> TRUE, value |-> <<[path |-> paths[i], version |-> 1, text |-> shown[i]]>>])

OneshotCollects ==
    /\ Collect
    /\ UNCHANGED oneshotVars

\* The bound ends the writes with the run.
FileWritten(p) ==
    /\ answer = Pending /\ writes < MaxWrites
    /\ writes' = writes + 1
    /\ disk' = [disk EXCEPT ![p] = writes + 1]
    /\ UNCHANGED <<batchVars, paths, advertised, opened, stage, read, shown>>

FileRemoved(p) ==
    /\ answer = Pending /\ disk[p] # NoText
    /\ disk' = [disk EXCEPT ![p] = NoText]
    /\ UNCHANGED <<batchVars, paths, advertised, writes, opened, stage, read, shown>>

FileStep(i) ==
    \/ FileRead(i) \/ FileUnreadable(i) \/ FileOpened(i) \/ GateRefuses(i)
    \/ FileHandled(i) \/ FileHandlerFails(i) \/ FileReported(i)

OneshotStep == FileBegins \/ (\E i \in Items : FileStep(i)) \/ OneshotCollects

OneshotNext == OneshotStep \/ \E p \in Paths : FileWritten(p) \/ FileRemoved(p)

OneshotSpec ==
    /\ OneshotInit /\ [][OneshotNext]_<<batchVars, oneshotVars>>
    /\ WF_<<batchVars, oneshotVars>>(OneshotStep)

-----------------------------------------------------------------------------
(* Properties *)

\* No other item runs on this one's file while it does.
HasItsFile(i) == Slots = 1 \/ \A j \in Items : paths[j] = paths[i] => j = i

\* The report of a run is in path order, and an entry tells of the text its own
\* item has read, although all items open into one store and a file may be
\* listed again after it has changed (oneshot::workspace_diagnostics).  Two
\* items of one file that run side by side open over each other: left out.
EntriesOfOwnRead ==
    answer # Pending /\ answer.ok =>
        \A i \in {j \in Items : stage[j] = "ended"} :
            LET entry == answer.value[i][1]
            IN  /\ HasItsFile(i) => entry.text = read[i]
                /\ \A j \in 1..i - 1 : answer.value[j][1].path <= entry.path
=============================================================================
