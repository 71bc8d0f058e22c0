------------------------------- MODULE MCClient -------------------------------
(* Instances of Session, DiagnosticsSwitch and Watching: what the server and  *)
(* its client settle, the setting the client changes afterwards, and the      *)
(* events it was asked to send.  A behaviour is one of them: they never meet. *)
EXTENDS MCSession, MCSwitch, MCWatching

VARIABLE part

Settles == part = "session" /\ UNCHANGED <<part, switchVars, watchingVars>>
Flips   == part = "switch" /\ UNCHANGED <<part, vars, watchingVars>>
Watches == part = "watching" /\ UNCHANGED <<part, vars, switchVars>>

SessionIdle ==
    /\ phase = "uninitialized" /\ mode = "disabled"
    /\ declared = Block(Bare, {})
    /\ client = CHOOSE c \in MCClients : c.encodings = {}
    /\ result = NoResult /\ encoding = "utf-16"
    /\ advertised = {} /\ warned = {} /\ asked = {}
    /\ diagnostics = [supported |-> FALSE, enabled |-> FALSE]
    /\ requests = [r \in Requests |-> Idle]
    /\ warnings = [m \in Methods |-> 0]

SwitchIdle == SwitchInit /\ ~MultiThread /\ ~setting /\ ~enabled /\ ~seen

WatchingIdle == WatchingInit /\ present = {} /\ ~repository

ClientInit ==
    \/ part = "session" /\ SessionInit /\ SwitchIdle /\ WatchingIdle
    \/ part = "switch" /\ SwitchInit /\ SessionIdle /\ WatchingIdle
    \/ part = "watching" /\ WatchingInit /\ SessionIdle /\ SwitchIdle

ClientNext ==
    \/ Settles /\ Initialize
    \/ Settles /\ Initialized
    \/ \E r \in Requests :
          \/ \E m \in Called : Settles /\ Dispatch(r, m)
          \/ Settles /\ HandlerReturns(r)
          \/ Settles /\ DispatchPoll(r)
          \/ Settles /\ Answered(r)
    \/ Flips /\ InitializedHandled
    \/ Flips /\ PushHandled
    \/ Flips /\ NoticeHandled
    \/ Flips /\ PollHandled
    \/ \E kind \in {"answer", "accepted"} : Flips /\ ResponseArrives(kind)
    \/ \E i \in 1..Len(ready) :
          \/ Flips /\ TaskSends(i)
          \/ Flips /\ AnswerDropped(i)
          \/ Flips /\ AnswerApplied(i)
          \/ Flips /\ AnswerChecked(i)
          \/ Flips /\ AcceptedRuns(i)
    \/ \E m \in checked : Flips /\ CheckedApplies(m)
    \/ Flips /\ Subscribes
    \/ Flips /\ ReadsSetting
    \/ Flips /\ AcceptsWatchers
    \/ Flips /\ RejectsWatchers
    \/ Flips /\ Repolls
    \/ \E m \in reading :
          \/ Flips /\ AnswersSetting(m)
          \/ Flips /\ FailsSetting(m)
    \/ Flips /\ UserChanges
    \/ \E e \in events : Watches /\ EventHandled(e)
    \/ Watches /\ PollWalksAgain
    \/ \E f \in Files :
          \/ Watches /\ FileAppears(f)
          \/ Watches /\ FileGoes(f)
    \/ \E r \in IgnoreFiles : Watches /\ RulesChange(r)

ClientSpec ==
    /\ ClientInit /\ [][ClientNext]_<<part, vars, switchVars, watchingVars>>
    /\ WF_switchVars(Flips /\ MainLoop)
    /\ WF_switchVars(Flips /\ Tasks)
    /\ WF_switchVars(Flips /\ ClientSteps)
=============================================================================
