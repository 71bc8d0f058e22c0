--------------------------- MODULE DiagnosticsSwitch ---------------------------
(***************************************************************************)
(* The switch of the workspace diagnostics (src/workspace/diagnostics.rs)  *)
(* for a server that lets the client configure it and a client that        *)
(* answers workspace/configuration: the setting reaches the server in      *)
(* notifications that carry it and in answers to the requests the server   *)
(* sends, each request under a generation that any later news outdates.    *)
(*                                                                         *)
(* Messages keep their order on the wire.  The main loop handles what      *)
(* arrives; every request to the client is a spawned task, which runs      *)
(* first to send it and once more when the answer is there.  On a runtime  *)
(* of one thread the tasks run in the order they became ready and each     *)
(* runs to its next await; on several threads they run in any order, and   *)
(* the main loop runs between any two of their steps.                      *)
(***************************************************************************)
EXTENDS Naturals, Sequences

CONSTANTS
    Carries,  \* may a notification carry the value?  of BOOLEAN
    Settings  \* the surroundings to start in, see Surroundings

Surroundings ==
    [needsRegistration : BOOLEAN, \* does the client notify only once registered for?
     fileWatching : BOOLEAN,      \* does the client register watchers dynamically?
     mayReject : BOOLEAN,         \* may the client reject the watchers?
     mayFail : BOOLEAN,           \* may workspace/configuration fail?
     multiThread : BOOLEAN,       \* does the runtime have several threads?
     maxChanges : Nat]            \* bound on the changes of the setting

ASSUME SwitchAssumption == Carries \subseteq BOOLEAN /\ Settings \subseteq Surroundings

VARIABLES
    around,     \* the surroundings this behaviour started in
    setting,    \* the client's setting
    changes,    \* how often it changed
    subscribed, \* the client notifies of changes
    watches,    \* the client accepted the watchers
    reading,    \* the requests the client has read the setting for
    seen,       \* the switch as the client's last poll found it
    outbox,     \* requests on the wire to the client
    inbox,      \* messages on the wire to the server
    ready,      \* the spawned tasks that can run
    checked,    \* answers whose generation was found current
    enabled,    \* WorkspaceDiagnosticsState.enabled
    generation, \* WorkspaceDiagnosticsState.generation
    registered  \* watchers_registered

clientVars == <<around, setting, changes, subscribed, watches, reading, seen>>
switch     == <<enabled, generation, registered>>
switchVars == <<clientVars, outbox, inbox, ready, checked, switch>>

NeedsRegistration == around.needsRegistration
FileWatching == around.fileWatching
MultiThread  == around.multiThread

Kinds == {"initialized", "poll", "notice", "push", "answer", "accepted",
          "registerConfiguration", "configuration", "registerWatchers", "refresh"}
ToClient == {"registerConfiguration", "configuration", "registerWatchers", "refresh"}

Message == [kind: Kinds, generation: Nat, value: BOOLEAN]

Plain(kind)      == [kind |-> kind, generation |-> 0, value |-> FALSE]
Valued(kind, g, v) == [kind |-> kind, generation |-> g, value |-> v]

-----------------------------------------------------------------------------
(* What the handlers spawn *)

\* register_watchers: on an enabled switch, and only until accepted.
WatcherJobs(on) ==
    IF FileWatching /\ on /\ ~registered THEN <<Plain("registerWatchers")>> ELSE << >>

\* Mutant: only switching on tells the client.
RefreshOnEnable(v) == IF v THEN <<Plain("refresh")>> ELSE << >>

RefreshJobs(v) == <<Plain("refresh")>>

\* apply_enabled: a flip re-enters the registration when it switches on and
\* asks the client to poll again.  What it does to the documents and to the
\* walk cache is SetEnabled in DocumentStore.
Applied(v) == IF v # enabled THEN WatcherJobs(v) \o RefreshJobs(v) ELSE << >>

\* request_configuration
ConfigurationJobs == <<Valued("configuration", generation + 1, FALSE)>>

-----------------------------------------------------------------------------
(* The main loop handles the head of the inbox *)

Arrives(kind) == inbox # << >> /\ Head(inbox).kind = kind /\ inbox' = Tail(inbox)

InitializedHandled ==
    /\ Arrives("initialized")
    /\ ready' = ready \o WatcherJobs(enabled) \o <<Plain("registerConfiguration")>>
                      \o ConfigurationJobs
    /\ generation' = generation + 1
    /\ UNCHANGED <<clientVars, outbox, checked, enabled, registered>>

\* Mutant: a pushed value leaves the generation as it is.
NextOnPull(carried) == IF carried THEN generation ELSE generation + 1

NextGeneration(carried) == generation + 1

\* did_change_configuration with the value in the settings.
PushHandled ==
    /\ Arrives("push")
    /\ generation' = NextGeneration(TRUE)
    /\ enabled' = Head(inbox).value
    /\ ready' = ready \o Applied(Head(inbox).value)
    /\ UNCHANGED <<clientVars, outbox, checked, registered>>

\* ... and without it.
NoticeHandled ==
    /\ Arrives("notice")
    /\ generation' = NextGeneration(FALSE)
    /\ ready' = ready \o ConfigurationJobs
    /\ UNCHANGED <<clientVars, outbox, checked, enabled, registered>>

\* A response makes the task that awaits it ready.
ResponseArrives(kind) ==
    /\ Arrives(kind)
    /\ ready' = Append(ready, Head(inbox))
    /\ UNCHANGED <<clientVars, outbox, checked, switch>>

\* workspace_diagnostic
PollHandled ==
    /\ Arrives("poll")
    /\ seen' = enabled
    /\ UNCHANGED <<around, setting, changes, subscribed, watches, reading, outbox, ready, checked, switch>>

-----------------------------------------------------------------------------
(* The tasks *)

MayRun(i) == i \in 1..Len(ready) /\ (MultiThread \/ i = 1)

Without(s, i) == SubSeq(s, 1, i - 1) \o SubSeq(s, i + 1, Len(s))

\* Mutant: the flag is set when the registration is sent.
TaskSendsReserving(i) ==
    /\ MayRun(i)
    /\ ready[i].kind \in ToClient
    /\ outbox' = Append(outbox, ready[i])
    /\ ready' = Without(ready, i)
    /\ registered' = (registered \/ ready[i].kind = "registerWatchers")
    /\ UNCHANGED <<clientVars, inbox, checked, enabled, generation>>

TaskSends(i) ==
    /\ MayRun(i)
    /\ ready[i].kind \in ToClient
    /\ outbox' = Append(outbox, ready[i])
    /\ ready' = Without(ready, i)
    /\ UNCHANGED <<clientVars, inbox, checked, switch>>

\* Mutant: the generation is not compared.
AnyGeneration(g) == TRUE

Current(g) == g = generation

AnswerDropped(i) ==
    /\ MayRun(i)
    /\ ready[i].kind = "answer"
    /\ ~Current(ready[i].generation)
    /\ ready' = Without(ready, i)
    /\ UNCHANGED <<clientVars, outbox, inbox, checked, switch>>

AnswerApplied(i) ==
    /\ ~MultiThread
    /\ MayRun(i)
    /\ ready[i].kind = "answer"
    /\ Current(ready[i].generation)
    /\ enabled' = ready[i].value
    /\ ready' = Without(ready, i) \o Applied(ready[i].value)
    /\ UNCHANGED <<clientVars, outbox, inbox, checked, generation, registered>>

\* On several threads the main loop may run after the comparison.
AnswerChecked(i) ==
    /\ MultiThread
    /\ MayRun(i)
    /\ ready[i].kind = "answer"
    /\ Current(ready[i].generation)
    /\ checked' = checked \cup {ready[i]}
    /\ ready' = Without(ready, i)
    /\ UNCHANGED <<clientVars, outbox, inbox, switch>>

CheckedApplies(m) ==
    /\ checked' = checked \ {m}
    /\ enabled' = m.value
    /\ ready' = ready \o Applied(m.value)
    /\ UNCHANGED <<clientVars, outbox, inbox, generation, registered>>

\* The success arm of the watcher registration.
AcceptedRuns(i) ==
    /\ MayRun(i)
    /\ ready[i].kind = "accepted"
    /\ registered' = TRUE
    /\ ready' = Without(ready, i)
    /\ UNCHANGED <<clientVars, outbox, inbox, checked, enabled, generation>>

-----------------------------------------------------------------------------
(* The client *)

UserChanges ==
    /\ changes < around.maxChanges
    /\ changes' = changes + 1
    /\ setting' = ~setting
    /\ \E carried \in Carries :
          inbox' = IF subscribed \/ ~NeedsRegistration
                   THEN Append(inbox, IF carried THEN Valued("push", 0, setting')
                                      ELSE Plain("notice"))
                   ELSE inbox
    /\ UNCHANGED <<around, subscribed, watches, reading, seen, outbox, ready, checked, switch>>

Reaches(kind) == outbox # << >> /\ Head(outbox).kind = kind /\ outbox' = Tail(outbox)

Subscribes ==
    /\ Reaches("registerConfiguration")
    /\ subscribed' = TRUE
    /\ UNCHANGED <<around, setting, changes, watches, reading, seen, inbox, ready, checked, switch>>

\* The client reads its setting and answers later, whatever it sent since.
ReadsSetting ==
    /\ Reaches("configuration")
    /\ reading' = reading \cup {Valued("answer", Head(outbox).generation, setting)}
    /\ UNCHANGED <<around, setting, changes, subscribed, watches, seen, inbox, ready, checked, switch>>

AnswersSetting(m) ==
    /\ reading' = reading \ {m}
    /\ inbox' = Append(inbox, m)
    /\ UNCHANGED <<around, setting, changes, subscribed, watches, seen, outbox, ready, checked, switch>>

\* An error ends the task without more ado.
FailsSetting(m) ==
    /\ around.mayFail
    /\ reading' = reading \ {m}
    /\ UNCHANGED <<around, setting, changes, subscribed, watches, seen, outbox, inbox, ready, checked, switch>>

AcceptsWatchers ==
    /\ Reaches("registerWatchers")
    /\ watches' = TRUE
    /\ inbox' = Append(inbox, Plain("accepted"))
    /\ UNCHANGED <<around, setting, changes, subscribed, reading, seen, ready, checked, switch>>

RejectsWatchers ==
    /\ around.mayReject
    /\ Reaches("registerWatchers")
    /\ UNCHANGED <<clientVars, inbox, ready, checked, switch>>

\* workspace/diagnostic/refresh makes the client poll.
Repolls ==
    /\ Reaches("refresh")
    /\ inbox' = Append(inbox, Plain("poll"))
    /\ UNCHANGED <<clientVars, ready, checked, switch>>

-----------------------------------------------------------------------------
SwitchInit ==
    /\ around \in Settings
    /\ setting \in BOOLEAN /\ enabled \in BOOLEAN /\ seen \in BOOLEAN
    /\ changes = 0 /\ generation = 0
    /\ subscribed = FALSE /\ watches = FALSE /\ registered = FALSE
    /\ reading = {} /\ checked = {}
    /\ outbox = << >> /\ ready = << >>
    /\ inbox = <<Plain("initialized"), Plain("poll")>>

MainLoop ==
    \/ InitializedHandled \/ PushHandled \/ NoticeHandled \/ PollHandled
    \/ \E kind \in {"answer", "accepted"} : ResponseArrives(kind)

Tasks ==
    \/ \E i \in 1..Len(ready) : TaskSends(i) \/ AnswerDropped(i) \/ AnswerApplied(i)
                                \/ AnswerChecked(i) \/ AcceptedRuns(i)
    \/ \E m \in checked : CheckedApplies(m)

ClientSteps ==
    \/ Subscribes \/ ReadsSetting \/ AcceptsWatchers \/ RejectsWatchers \/ Repolls
    \/ \E m \in reading : AnswersSetting(m) \/ FailsSetting(m)

SwitchNext == MainLoop \/ Tasks \/ ClientSteps \/ UserChanges

SwitchSpec == SwitchInit /\ [][SwitchNext]_switchVars

\* The main loop handles, the runtime runs and the client answers.
FairSwitch == SwitchSpec /\ WF_switchVars(MainLoop) /\ WF_switchVars(Tasks)
                         /\ WF_switchVars(ClientSteps)

-----------------------------------------------------------------------------
(* Properties *)

Quiet == inbox = << >> /\ outbox = << >> /\ ready = << >> /\ reading = {} /\ checked = {}

\* On one thread, and with a client that answers.
Dependable == ~MultiThread /\ ~around.mayFail

\* When nothing is on its way the switch is where the client's setting is:
\* no late answer has undone a newer value (request_configuration compares
\* the generation; state tests, configuration_reply_applies_only_if_...).
\* On several threads a late answer can: see AnswerChecked.
QuiescentAgrees == Quiet /\ Dependable => enabled = setting

\* When nothing is on its way the client has polled since the last flip
\* (apply_enabled: "changed && supported" asks for a refresh).
ClientLearns == Quiet => seen = enabled

\* The flag is a truthful input for the walk cache: set only for watchers
\* the client accepted ("'Registered' means accepted"), and then it stays so;
\* and an enabled switch whose client accepts ends up with watchers, because
\* the enable transition re-enters the registration.
RegisteredTruthful ==
    /\ registered => watches
    /\ Quiet /\ watches => registered
    /\ Quiet /\ enabled /\ FileWatching /\ ~around.mayReject => registered

\* The switch reaches the client's last setting and stays there.
Converges == Dependable => <>[](enabled = setting)
=============================================================================
