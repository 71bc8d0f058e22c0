------------------------------ MODULE MCReport ------------------------------
(* Instances of WorkspaceReport (two listed URLs and one that is not) and of   *)
(* Oneshot (two files, or one that two roots list).  A behaviour is one of a   *)
(* poll or one of a run without a client: the halves never meet.               *)
EXTENDS WorkspaceReport, Oneshot

VARIABLE half

Poll   == half = "poll" /\ UNCHANGED <<half, oneshotVars>>
Single == half = "oneshot" /\ UNCHANGED <<half, documentVars, itemVars>>

\* refresh_workspace_documents sorts what it lists.
MCListings == {<<1, 2>>}
MCWalks    == {<<1, 2>>, <<1, 1>>}

MCValues == Seq(Pushed \cup Entry)

PollIdle ==
    /\ listed = <<1, 2>>
    /\ documents = [u \in Urls |-> Untracked]
    /\ clock = 1
    /\ probed = [i \in Items |-> Untracked]
    /\ seen = [i \in Items |-> {}]

OneshotIdle ==
    /\ paths = <<1, 2>> /\ advertised = FALSE
    /\ disk = <<NoText, NoText>> /\ writes = 0 /\ opened = <<NoText, NoText>>
    /\ stage = <<"waiting", "waiting">>
    /\ read = <<NoText, NoText>> /\ shown = <<NoText, NoText>>

BatchesInit ==
    \/ half = "poll" /\ ReportInit /\ OneshotIdle
    \/ half = "oneshot" /\ OneshotInit /\ PollIdle

BatchesNext ==
    \/ Poll /\ ItemStarts
    \/ \E i \in Items :
          \/ Poll /\ ItemSkipped(i)
          \/ \E u \in Urls : Poll /\ HandlerLooks(i, u)
          \/ Poll /\ HandlerFails(i)
          \/ Poll /\ ItemModified(i)
          \/ Poll /\ ItemReports(i)
          \/ Single /\ FileRead(i)
          \/ Single /\ FileUnreadable(i)
          \/ Single /\ FileOpened(i)
          \/ Single /\ GateRefuses(i)
          \/ Single /\ FileHandled(i)
          \/ Single /\ FileHandlerFails(i)
          \/ Single /\ FileReported(i)
    \/ Poll /\ PollCollects
    \/ Poll /\ DocumentStep
    \/ Single /\ FileBegins
    \/ Single /\ OneshotCollects
    \/ \E p \in Paths :
          \/ Single /\ FileWritten(p)
          \/ Single /\ FileRemoved(p)

BatchesSpec ==
    /\ BatchesInit /\ [][BatchesNext]_<<half, vars, oneshotVars>>
    /\ WF_vars(Poll /\ PollStep)
    /\ WF_<<batchVars, oneshotVars>>(Single /\ OneshotStep)

-----------------------------------------------------------------------------
(* Properties *)

\* In a poll: one report per URL, a document's own before the related ones
\* (workspace_diagnostic_items folds the sinks).
PollMerged == half = "poll" => ReportsMerged

\* In a poll: a document's own report names the version it was computed from
\* (the staleness probe of workspace_diagnostic_items).
PollOwnVersions == half = "poll" => OwnVersions
=============================================================================
