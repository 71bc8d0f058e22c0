---------------------------- MODULE SessionProofs ----------------------------
(***************************************************************************)
(* Proofs about what a session is set up with: Session, for every          *)
(* implementor, client, mode and number of requests in flight; Watching,   *)
(* for any files, matchers, configured names and ignore files: a list that *)
(* is served although a walk would find another is one whose event is on   *)
(* its way, or one that a blind spot has changed; and DiagnosticsSwitch,   *)
(* for any surroundings and any number of changes of the setting: that the *)
(* watcher flag is truthful and that the client learns of every flip, on   *)
(* any number of threads; and that on one thread no late answer undoes a   *)
(* newer value.                                                            *)
(***************************************************************************)
EXTENDS Session, Watching, DiagnosticsSwitch, SequenceTheorems, TLAPS

\* The three ways a method can be advertised do not overlap, and none of them
\* covers the exempt methods.
LEMMA TableIsDisjoint ==
    /\ (Switches \cup Blocks) \cap DOMAIN Companion = {}
    /\ (Switches \cup Blocks) \cap DOMAIN FollowUp = {}
    /\ DOMAIN Companion \cap DOMAIN FollowUp = {}
    /\ Exempt \cap (Switches \cup Blocks \cup DOMAIN Companion \cup DOMAIN FollowUp) = {}
BY DEF Switches, Blocks, Companion, FollowUp, Exempt

\* Every follow-up and companion names a provider.
LEMMA TableNamesProviders ==
    /\ \A m \in DOMAIN Companion : Companion[m] \in Providers
    /\ \A m \in DOMAIN FollowUp : FollowUp[m] \in Providers
BY DEF Switches, Blocks, Holders, Providers, Companion, FollowUp

\* What the inventory advertises is what the docs say of the capabilities.
LEMMA AdvertisedIsGranted ==
    ASSUME NEW c \in Capabilities, NEW m \in Methods
    PROVE  m \in Advertised(c) <=> Granted(m, c)
<1> USE TableIsDisjoint, TableNamesProviders
<1>1. \A p \in Providers : c.shape[p] \in {"absent", "no", "yes", "options"}
  BY DEF Capabilities
<1>2. CASE m \in Switches \cup Blocks
  <2>1. m \in Providers
    BY <1>2 DEF Providers
  <2>2. ProviderOf(m) = m /\ m \notin DOMAIN FollowUp /\ m \notin Exempt
    BY <1>2 DEF ProviderOf
  <2>3. m \in Advertised(c) <=> c.shape[m] \in {"yes", "options"}
    BY <1>2 DEF Advertised, ByProvider, ByCompanion, ByOption
  <2> QED
    BY <2>1, <2>2, <2>3, <1>1 DEF Granted
<1>3. CASE m \in DOMAIN Companion
  <2>1. ProviderOf(m) = Companion[m] /\ m \notin DOMAIN FollowUp /\ m \notin Exempt
    BY <1>3 DEF ProviderOf
  <2>2. m \in Advertised(c) <=> c.shape[Companion[m]] \in {"yes", "options"}
    BY <1>3 DEF Advertised, ByProvider, ByCompanion, ByOption
  <2> QED
    BY <2>1, <2>2, <1>1, <1>3 DEF Granted
<1>4. CASE m \in DOMAIN FollowUp
  <2>1. ProviderOf(m) = FollowUp[m] /\ m \notin Exempt
    BY <1>4 DEF ProviderOf
  <2>2. m \in Advertised(c) <=> c.shape[FollowUp[m]] = "options" /\ m \in c.set
    BY <1>4 DEF Advertised, ByProvider, ByCompanion, ByOption
  <2>3. m \in c.set => c.shape[FollowUp[m]] = "options"
    BY <1>4 DEF Capabilities
  <2> QED
    BY <2>1, <2>2, <2>3, <1>1, <1>4 DEF Granted
<1>5. CASE m \in Exempt
  BY <1>5 DEF Advertised, ByProvider, ByCompanion, ByOption, Granted
<1> QED
  BY <1>2, <1>3, <1>4, <1>5 DEF Methods

-----------------------------------------------------------------------------
(* What initialize makes of a capability block is one *)

LEMMA NegotiatedEncoding ==
    ASSUME NEW offers
    PROVE  Negotiated(offers) \in Encodings
BY DEF Negotiated, Encodings

LEMMA KillSwitchKeepsBlock ==
    ASSUME NEW c \in Capabilities
    PROVE  KillSwitch(c) \in Capabilities
BY DEF KillSwitch, Capabilities, FollowUp

LEMMA FolderTrackingKeepsBlock ==
    ASSUME NEW c \in Capabilities
    PROVE  /\ FolderTracking(c) \in Capabilities
           /\ Supported(FolderTracking(c)) <=> Supported(c)
<1>1. CASE ~Supported(c)
  BY <1>1 DEF FolderTracking
<1>2. CASE Supported(c)
  <2> DEFINE d == FolderTracking(c)
  <2>1. /\ d.shape = [c.shape EXCEPT !["workspace_folders"] = "options"]
        /\ d.set = c.set \cup {"folders", "folder_changes"}
        /\ d.encoding = c.encoding
        /\ d \in [shape: [Providers -> {"absent", "no", "yes", "options"}],
                  set: SUBSET Options, encoding: Encodings]
    BY <1>2 DEF FolderTracking, Capabilities, Options
  <2>2. "workspace_folders" \in Providers /\ "workspace_folders" \notin Switches
    BY DEF Providers, Holders, Switches
  <2>3. \A p \in Providers : d.shape[p] \in Shapes(p)
    BY <2>1, <2>2 DEF Capabilities, Shapes
  <2>4. \A m \in d.set \cap DOMAIN FollowUp : d.shape[FollowUp[m]] = "options"
    <3>1. \A m \in d.set \cap DOMAIN FollowUp : m \in c.set
      BY <2>1 DEF FollowUp
    <3> QED
      BY <3>1, <2>1, <2>2, TableNamesProviders DEF Capabilities
  <2>5. d.shape["document_diagnostics"] = c.shape["document_diagnostics"]
    BY <2>1
  <2>6. d.shape["workspace_folders"] = "options"
    BY <2>1, <2>2 DEF Capabilities
  <2>7. d \in Capabilities
    BY <2>1, <2>3, <2>4, <2>5, <2>6 DEF Capabilities
  <2> QED
    BY <2>1, <2>5, <2>7 DEF Supported
<1> QED
  BY <1>1, <1>2

LEMMA WrapperKeepsBlock ==
    ASSUME NEW c \in Capabilities
    PROVE  /\ WrapperCapabilities(c) \in Capabilities
           /\ WrapperCapabilities(c).encoding = Negotiated(client.encodings)
           /\ Supported(WrapperCapabilities(c)) <=> Supported(c)
<1> DEFINE d == WrapperCapabilities(c)
<1>1. /\ d.shape = [c.shape EXCEPT !["text_document_sync"] = "options"]
      /\ d.set = (c.set \ {"will_save_wait_until"})
                     \cup {"open_close", "incremental", "include_text"}
      /\ d.encoding = Negotiated(client.encodings)
      /\ d \in [shape: [Providers -> {"absent", "no", "yes", "options"}],
                set: SUBSET Options, encoding: Encodings]
  BY NegotiatedEncoding DEF WrapperCapabilities, Capabilities, Options
<1>2. "text_document_sync" \in Providers /\ "text_document_sync" \notin Switches
  BY DEF Providers, Holders, Switches
<1>3. \A p \in Providers : d.shape[p] \in Shapes(p)
  BY <1>1, <1>2 DEF Capabilities, Shapes
<1>4. \A m \in d.set \cap DOMAIN FollowUp : d.shape[FollowUp[m]] = "options"
  <2>1. \A m \in d.set \cap DOMAIN FollowUp : m \in c.set
    BY <1>1 DEF FollowUp
  <2> QED
    BY <2>1, <1>1, <1>2, TableNamesProviders DEF Capabilities
<1>5. \A p \in {"document_diagnostics", "workspace_folders"} : d.shape[p] = c.shape[p]
  BY <1>1
<1>6. d \in Capabilities
  BY <1>1, <1>3, <1>4, <1>5 DEF Capabilities
<1> QED
  BY <1>1, <1>5, <1>6 DEF Supported

-----------------------------------------------------------------------------
(* The invariant: what initialize settled stays as it is, and requests and *)
(* warnings are what the gate made of it.                                  *)

SettledAgree ==
    phase # "uninitialized" =>
        /\ advertised = Advertised(result)
        /\ diagnostics.supported = Supported(result)
        /\ encoding = result.encoding
        /\ encoding = Negotiated(client.encodings)

Untouched ==
    phase # "ready" => \A r \in Requests : requests[r] = Idle

RequestsGated ==
    \A r \in Requests :
        LET m == requests[r].method
        IN  /\ requests[r].status = "idle" => requests[r] = Idle
            /\ m = Polled => /\ requests[r].status # "running"
                             /\ requests[r].status = "rejected" <=> ~diagnostics.supported
            /\ m = "none" => requests[r].status = "idle"
            /\ m \notin {Polled, "none"} =>
                  /\ requests[r].status \in {"running", "rejected", "done"}
                  /\ requests[r].status = "rejected" <=> ~DispatchAllowed(m)

WarningsCounted ==
    /\ phase = "uninitialized" => warned = {}
    /\ \A m \in Methods :
          /\ warnings[m] = IF m \in warned THEN 1 ELSE 0
          /\ m \in warned \cap advertised => m \notin Implemented \cup Resolves

SessionInv ==
    /\ SessionTypeOK
    /\ SettledAgree
    /\ Untouched
    /\ RequestsGated
    /\ WarningsCounted

LEMMA SessionInitInv == SessionInit => SessionInv
<1> SUFFICES ASSUME SessionInit PROVE SessionInv
  OBVIOUS
<1> USE DEF SessionInit
<1>1. SessionTypeOK
  BY DEF SessionTypeOK, Idle, Encodings
<1>2. SettledAgree /\ Untouched /\ RequestsGated /\ WarningsCounted
  BY DEF SettledAgree, Untouched, RequestsGated, WarningsCounted, Idle, Polled
<1> QED
  BY <1>1, <1>2 DEF SessionInv

LEMMA InitializeInv ==
    ASSUME SessionInv, Initialize
    PROVE  SessionInv'
<1> DEFINE configured == FolderTracking(KillSwitch(declared))
           final == WrapperCapabilities(configured)
<1>1. declared \in Capabilities
  BY SessionAssumption DEF SessionInv, SessionTypeOK
<1>2. /\ configured \in Capabilities
      /\ Supported(configured) <=> Supported(KillSwitch(declared))
  BY <1>1, KillSwitchKeepsBlock, FolderTrackingKeepsBlock
<1>3. /\ final \in Capabilities
      /\ final.encoding = Negotiated(client.encodings)
      /\ Supported(final) <=> Supported(KillSwitch(declared))
  BY <1>2, WrapperKeepsBlock
<1>4. /\ phase = "uninitialized" /\ phase' = "initializing"
      /\ result' = final /\ advertised' = Advertised(final) /\ encoding' = final.encoding
      /\ diagnostics' = [supported |-> Supported(KillSwitch(declared)),
                         enabled |-> InitiallyEnabled]
      /\ warned' = {}
      /\ UNCHANGED <<declared, mode, client, asked, requests, warnings>>
  BY DEF Initialize, Inventory, given
<1>5. InitiallyEnabled \in BOOLEAN /\ Supported(KillSwitch(declared)) \in BOOLEAN
  <2>1. InitiallyEnabled \in BOOLEAN
    BY Zenon DEF InitiallyEnabled
  <2>2. Supported(KillSwitch(declared)) \in BOOLEAN
    BY Zenon DEF Supported
  <2> QED
    BY <2>1, <2>2
<1>6. Advertised(final) \subseteq Methods \ Exempt
  BY TableIsDisjoint DEF Advertised, ByProvider, ByCompanion, ByOption, Methods
<1>7. final.encoding \in Encodings
  BY <1>3, NegotiatedEncoding
<1>8. SessionTypeOK'
  BY <1>3, <1>4, <1>5, <1>6, <1>7 DEF SessionInv, SessionTypeOK
<1>9. SettledAgree'
  <2>1. Supported(final) = Supported(KillSwitch(declared))
    BY <1>3 DEF Supported
  <2> QED
    BY <2>1, <1>3, <1>4 DEF SettledAgree
<1>10. Untouched' /\ RequestsGated'
  BY <1>4 DEF SessionInv, Untouched, RequestsGated, Idle, Polled
<1>11. WarningsCounted'
  BY <1>4 DEF SessionInv, WarningsCounted
<1> QED
  BY <1>8, <1>9, <1>10, <1>11 DEF SessionInv

LEMMA InitializedInv ==
    ASSUME SessionInv, Initialized
    PROVE  SessionInv'
<1> USE DEF SessionInv, Initialized, given, settled
<1>1. SessionTypeOK'
  BY DEF SessionTypeOK
<1>2. SettledAgree' /\ Untouched'
  BY DEF SettledAgree, Untouched
<1>3. RequestsGated' /\ WarningsCounted'
  BY DEF RequestsGated, WarningsCounted, DispatchAllowed
<1> QED
  BY <1>1, <1>2, <1>3

LEMMA WarnOnceCounts ==
    ASSUME SessionTypeOK, WarningsCounted, NEW m \in Methods, WarnOnce(m),
           m \in advertised => m \notin Implemented \cup Resolves,
           UNCHANGED <<phase, advertised>>, phase = "ready"
    PROVE  /\ WarningsCounted'
           /\ warned' \subseteq Methods
           /\ warnings' \in [Methods -> Nat]
BY DEF SessionTypeOK, WarningsCounted, WarnOnce

LEMMA DispatchInv ==
    ASSUME SessionInv, NEW r \in Requests, NEW m \in Called, Dispatch(r, m)
    PROVE  SessionInv'
<1> USE DEF SessionInv, given, settled
<1>1. m \in Methods /\ m \notin {Polled, "none"}
  BY SessionAssumption DEF Methods, Switches, Blocks, Companion, FollowUp, Exempt, Polled
<1>2. /\ phase = "ready" /\ phase' = "ready"
      /\ UNCHANGED <<declared, mode, client, result, encoding, advertised, diagnostics, asked>>
  BY DEF Dispatch
<1>3. /\ WarningsCounted'
      /\ warned' \subseteq Methods
      /\ warnings' \in [Methods -> Nat]
  <2>1. CASE DispatchAllowed(m)
    BY <2>1, <1>2 DEF Dispatch, WarningsCounted, SessionTypeOK
  <2>2. CASE ~DispatchAllowed(m)
    <3>1. WarnOnce(m) /\ m \notin advertised
      BY <2>2 DEF Dispatch, DispatchAllowed
    <3> QED
      BY <3>1, <1>1, <1>2, WarnOnceCounts
  <2> QED
    BY <2>1, <2>2
<1>4. /\ requests' = [requests EXCEPT ![r] = [method |-> m, status |->
             IF DispatchAllowed(m) THEN "running" ELSE "rejected"]]
  BY DEF Dispatch, At
<1>5. SessionTypeOK'
  BY <1>1, <1>2, <1>3, <1>4 DEF SessionTypeOK
<1>6. SettledAgree' /\ Untouched'
  BY <1>2 DEF SettledAgree, Untouched
<1>7. RequestsGated'
  BY <1>1, <1>2, <1>4 DEF RequestsGated, SessionTypeOK, DispatchAllowed
<1> QED
  BY <1>3, <1>5, <1>6, <1>7

LEMMA HandlerReturnsInv ==
    ASSUME SessionInv, NEW r \in Requests, HandlerReturns(r)
    PROVE  SessionInv'
<1> USE DEF SessionInv, given, settled
<1> DEFINE m == requests[r].method
<1>1. m \in Methods /\ m \notin {Polled, "none"}
  BY DEF HandlerReturns, RequestsGated, SessionTypeOK, Idle, Polled
<1>2. phase = "ready"
  BY DEF HandlerReturns, Untouched, Idle
<1>3. UNCHANGED <<phase, declared, mode, client, result, encoding, advertised, diagnostics, asked>>
  BY DEF HandlerReturns
<1>4. /\ WarningsCounted'
      /\ warned' \subseteq Methods
      /\ warnings' \in [Methods -> Nat]
  <2>1. CASE m \notin Implemented \cup Resolves /\ m \in advertised
    <3>1. WarnOnce(m)
      BY <2>1 DEF HandlerReturns
    <3> QED
      BY <3>1, <2>1, <1>1, <1>2, <1>3, WarnOnceCounts
  <2>2. CASE ~(m \notin Implemented \cup Resolves /\ m \in advertised)
    BY <2>2, <1>3 DEF HandlerReturns, WarningsCounted, SessionTypeOK
  <2> QED
    BY <2>1, <2>2
<1>5. requests' = [requests EXCEPT ![r] = [method |-> m, status |-> "done"]]
  BY DEF HandlerReturns, At
<1>6. SessionTypeOK'
  BY <1>1, <1>3, <1>4, <1>5 DEF SessionTypeOK
<1>7. SettledAgree' /\ Untouched'
  BY <1>2, <1>3 DEF SettledAgree, Untouched
<1>8. RequestsGated'
  BY <1>1, <1>3, <1>5 DEF RequestsGated, SessionTypeOK, DispatchAllowed, HandlerReturns
<1> QED
  BY <1>4, <1>6, <1>7, <1>8

LEMMA DispatchPollInv ==
    ASSUME SessionInv, NEW r \in Requests, DispatchPoll(r)
    PROVE  SessionInv'
<1> USE DEF SessionInv, given, settled
<1>1. /\ phase = "ready"
      /\ UNCHANGED <<phase, declared, mode, client, result, encoding, advertised, diagnostics,
                     asked, warned, warnings>>
      /\ requests' = [requests EXCEPT ![r] = [method |-> Polled, status |->
             IF ~diagnostics.supported THEN "rejected"
             ELSE IF diagnostics.enabled THEN "done" ELSE "empty"]]
  BY DEF DispatchPoll, At
<1>2. SessionTypeOK'
  BY <1>1 DEF SessionTypeOK
<1>3. SettledAgree' /\ Untouched' /\ WarningsCounted'
  BY <1>1 DEF SettledAgree, Untouched, WarningsCounted
<1>4. RequestsGated'
  BY <1>1 DEF RequestsGated, SessionTypeOK, DispatchAllowed, Polled
<1> QED
  BY <1>2, <1>3, <1>4

LEMMA AnsweredInv ==
    ASSUME SessionInv, NEW r \in Requests, Answered(r)
    PROVE  SessionInv'
<1> USE DEF SessionInv, given, settled
<1>1. /\ UNCHANGED <<phase, declared, mode, client, result, encoding, advertised, diagnostics,
                     asked, warned, warnings>>
      /\ requests' = [requests EXCEPT ![r] = Idle]
  BY DEF Answered
<1>2. SessionTypeOK'
  BY <1>1 DEF SessionTypeOK, Idle
<1>3. SettledAgree' /\ Untouched' /\ WarningsCounted'
  BY <1>1 DEF SettledAgree, Untouched, WarningsCounted
<1>4. RequestsGated'
  BY <1>1 DEF RequestsGated, SessionTypeOK, DispatchAllowed, Idle, Polled
<1> QED
  BY <1>2, <1>3, <1>4

LEMMA SessionStepInv ==
    ASSUME SessionInv, [SessionNext]_vars
    PROVE  SessionInv'
<1>1. CASE Initialize
  BY <1>1, InitializeInv
<1>2. CASE Initialized
  BY <1>2, InitializedInv
<1>3. CASE \E r \in Requests, m \in Called : Dispatch(r, m)
  BY <1>3, DispatchInv
<1>4. CASE \E r \in Requests : HandlerReturns(r)
  BY <1>4, HandlerReturnsInv
<1>5. CASE \E r \in Requests : DispatchPoll(r)
  BY <1>5, DispatchPollInv
<1>6. CASE \E r \in Requests : Answered(r)
  BY <1>6, AnsweredInv
<1>7. CASE UNCHANGED vars
  BY <1>7 DEF SessionInv, SessionTypeOK, SettledAgree, Untouched, RequestsGated,
       WarningsCounted, DispatchAllowed, vars, given, settled
<1> QED
  BY <1>1, <1>2, <1>3, <1>4, <1>5, <1>6, <1>7 DEF SessionNext

LEMMA SessionAlways == SessionSpec => []SessionInv
<1>1. SessionInv /\ [SessionNext]_vars => SessionInv'
  BY SessionStepInv
<1> QED
  BY SessionInitInv, <1>1, PTL DEF SessionSpec

-----------------------------------------------------------------------------
(* Theorems *)

\* Types, and that every block the client is sent is a capability block.
THEOREM SessionTypes == SessionSpec => []SessionTypeOK
<1>1. SessionInv => SessionTypeOK
  BY DEF SessionInv
<1> QED
  BY SessionAlways, <1>1, PTL

\* Gate and client read the same capabilities, whatever the implementor
\* declares and whichever requests are in flight.
THEOREM SessionGate == SessionSpec => []GateAgreesWithClient
<1>1. SessionInv => GateAgreesWithClient
  <2> SUFFICES ASSUME SessionInv, NEW r \in Requests
               PROVE  GateAgreesWithClient!(r)
    BY DEF GateAgreesWithClient
  <2> DEFINE m == requests[r].method
  <2>1. requests[r].status # "idle" => phase = "ready" /\ result \in Capabilities
    BY DEF SessionInv, SessionTypeOK, Untouched, Idle
  <2>2. requests[r].status # "idle" /\ m # Polled => m \in Methods
    BY DEF SessionInv, SessionTypeOK, RequestsGated, Idle
  <2>3. requests[r].status # "idle" /\ m # Polled => (m \in advertised <=> Granted(m, result))
    BY <2>1, <2>2, AdvertisedIsGranted DEF SessionInv, SettledAgree
  <2>4. m # Polled => m # "none" \/ requests[r].status = "idle"
    BY DEF SessionInv, SessionTypeOK, RequestsGated
  <2> QED
    BY <2>1, <2>2, <2>3, <2>4 DEF SessionInv, RequestsGated, SettledAgree, DispatchAllowed, Granted
<1> QED
  BY SessionAlways, <1>1, PTL

\* One warning for a method, and none for what is granted and implemented.
THEOREM SessionWarnsOnce == SessionSpec => []WarnsOnce
<1>1. SessionInv => WarnsOnce
  <2> SUFFICES ASSUME SessionInv, NEW m \in Methods
               PROVE  WarnsOnce!(m)
    BY DEF WarnsOnce
  <2>1. warnings[m] = IF m \in warned THEN 1 ELSE 0
    BY DEF SessionInv, WarningsCounted
  <2>2. ASSUME warnings[m] = 1, Granted(m, result) PROVE m \notin Implemented \cup Resolves
    <3>1. m \in warned /\ phase # "uninitialized"
      BY <2>1, <2>2 DEF SessionInv, WarningsCounted
    <3>2. m \in advertised
      BY <3>1, <2>2, AdvertisedIsGranted DEF SessionInv, SessionTypeOK, SettledAgree
    <3> QED
      BY <3>1, <3>2 DEF SessionInv, WarningsCounted
  <2> QED
    BY <2>1, <2>2
<1> QED
  BY SessionAlways, <1>1, PTL

\* One encoding for both sides, whatever a client offers.
THEOREM SessionEncodings == SessionSpec => []EncodingAgreed
<1>1. SessionInv => EncodingAgreed
  BY DEF SessionInv, SettledAgree, EncodingAgreed, Negotiated
<1> QED
  BY SessionAlways, <1>1, PTL

-----------------------------------------------------------------------------
(* Where the block the client was sent comes from, and what follows *)

Provenance ==
    /\ phase # "uninitialized" =>
           result = WrapperCapabilities(FolderTracking(KillSwitch(declared)))
    /\ phase # "ready" => asked = {}
    /\ AsksWithinMandate

LEMMA ProvenanceInv ==
    ASSUME SessionInv, SessionInv', Provenance, [SessionNext]_vars
    PROVE  Provenance'
<1> USE DEF Provenance
<1>1. CASE Initialize
  <2>1. /\ phase # "ready" /\ phase' = "initializing"
        /\ result' = WrapperCapabilities(FolderTracking(KillSwitch(declared)))
        /\ UNCHANGED <<declared, mode, client, asked>>
    BY <1>1 DEF Initialize, given
  <2>2. (result = WrapperCapabilities(FolderTracking(KillSwitch(declared))))'
    BY <2>1 DEF WrapperCapabilities, FolderTracking, KillSwitch, Supported
  <2>3. asked' = {}
    BY <2>1
  <2> QED
    BY <2>1, <2>2, <2>3 DEF AsksWithinMandate
<1>2. CASE Initialized
  <2>1. /\ phase = "initializing" /\ phase' = "ready"
        /\ UNCHANGED <<declared, mode, client, result, diagnostics>>
        /\ asked' =
             (IF client.watching /\ diagnostics.supported /\ diagnostics.enabled
              THEN {"registerWatchers"} ELSE {})
             \cup (IF MayConfigure /\ client.dynamicConfiguration
                   THEN {"registerConfiguration"} ELSE {})
             \cup (IF MayConfigure /\ client.configuration THEN {"configuration"} ELSE {})
    BY <1>2 DEF Initialized, given, settled
  <2>2. diagnostics.supported = Supported(result)
    BY <2>1 DEF SessionInv, SettledAgree
  <2>3. AsksWithinMandate'
    BY <2>1, <2>2 DEF AsksWithinMandate, MayConfigure, Supported
  <2>4. (result = WrapperCapabilities(FolderTracking(KillSwitch(declared))))'
    BY <2>1 DEF WrapperCapabilities, FolderTracking, KillSwitch, Supported
  <2> QED
    BY <2>1, <2>3, <2>4
<1>3. CASE UNCHANGED <<phase, given, settled, diagnostics, asked>>
  BY <1>3 DEF given, settled, AsksWithinMandate, WrapperCapabilities, FolderTracking, KillSwitch,
     Supported
<1>4. CASE \E r \in Requests, m \in Called : Dispatch(r, m)
  BY <1>4, <1>3 DEF Dispatch
<1>5. CASE \E r \in Requests : HandlerReturns(r) \/ DispatchPoll(r) \/ Answered(r)
  BY <1>5, <1>3 DEF HandlerReturns, DispatchPoll, Answered
<1>6. CASE UNCHANGED vars
  BY <1>6, <1>3 DEF vars
<1> QED
  BY <1>1, <1>2, <1>4, <1>5, <1>6 DEF SessionNext

LEMMA ProvenanceAlways == SessionSpec => []Provenance
<1>1. SessionInit => Provenance
  BY DEF SessionInit, Provenance, AsksWithinMandate
<1>2. SessionInv /\ SessionInv' /\ Provenance /\ [SessionNext]_vars => Provenance'
  BY ProvenanceInv
<1> QED
  BY SessionAlways, <1>1, <1>2, PTL DEF SessionSpec

\* The server asks nothing its client has not offered.
THEOREM SessionAsks == SessionSpec => []AsksWithinMandate
<1>1. Provenance => AsksWithinMandate
  BY DEF Provenance
<1> QED
  BY ProvenanceAlways, <1>1, PTL

\* No method but the wrapper's own needs what the steps of initialize change.
LEMMA TableSparesOthers ==
    /\ \A m \in Methods : ProviderOf(m) # "workspace_folders"
    /\ {"workspace_diagnostics", "folders", "folder_changes", "open_close", "incremental",
        "include_text"} \cap DOMAIN FollowUp = {}
    /\ FollowUp["will_save_wait_until"] = "text_document_sync"
    /\ "will_save_wait_until" \in DOMAIN FollowUp
BY DEF Methods, Switches, Blocks, Companion, FollowUp, Exempt, ProviderOf

LEMMA GrantsSurvive ==
    ASSUME NEW c \in Capabilities, NEW m \in Methods, ProviderOf(m) # "text_document_sync"
    PROVE  /\ Granted(m, KillSwitch(c)) <=> Granted(m, c)
           /\ Granted(m, FolderTracking(c)) <=> Granted(m, c)
           /\ Granted(m, WrapperCapabilities(c)) <=> Granted(m, c)
<1> USE TableSparesOthers
<1>1. /\ KillSwitch(c).shape[ProviderOf(m)] = c.shape[ProviderOf(m)]
      /\ m \in DOMAIN FollowUp => (m \in KillSwitch(c).set <=> m \in c.set)
  BY DEF KillSwitch, Capabilities
<1>2. /\ FolderTracking(c).shape[ProviderOf(m)] = c.shape[ProviderOf(m)]
      /\ m \in DOMAIN FollowUp => (m \in FolderTracking(c).set <=> m \in c.set)
  BY DEF FolderTracking, Capabilities
<1>3. /\ WrapperCapabilities(c).shape[ProviderOf(m)] = c.shape[ProviderOf(m)]
      /\ m \in DOMAIN FollowUp => (m \in WrapperCapabilities(c).set <=> m \in c.set)
  <2>1. m \in DOMAIN FollowUp => m # "will_save_wait_until"
    BY DEF ProviderOf
  <2> QED
    BY <2>1 DEF WrapperCapabilities, Capabilities
<1> QED
  BY <1>1, <1>2, <1>3 DEF Granted

\* The implementor's word reaches client and gate, but for the kill switch
\* and the text synchronization.
THEOREM SessionImplementor == SessionSpec => []ImplementorDecides
<1>1. SessionInv /\ Provenance => ImplementorDecides
  <2> SUFFICES ASSUME SessionInv, Provenance, phase # "uninitialized"
               PROVE  ImplementorDecides
    BY DEF ImplementorDecides
  <2> DEFINE killed == KillSwitch(declared)
             tracked == FolderTracking(killed)
  <2>1. /\ declared \in Capabilities /\ killed \in Capabilities /\ tracked \in Capabilities
        /\ result = WrapperCapabilities(tracked)
    BY SessionAssumption, KillSwitchKeepsBlock, FolderTrackingKeepsBlock
       DEF SessionInv, SessionTypeOK, Provenance
  <2>2. \A m \in Methods : ProviderOf(m) # "text_document_sync"
            => (Granted(m, result) <=> Granted(m, declared))
    BY <2>1, GrantsSurvive
  <2>3. Supported(result) <=> Supported(killed)
    BY <2>1, FolderTrackingKeepsBlock, WrapperKeepsBlock
  <2>4. Supported(killed) <=> Supported(declared) /\ mode # "disabled"
    BY <2>1 DEF KillSwitch, Supported, Capabilities
  <2>5. Supported(result) => {"folders", "folder_changes"} \subseteq result.set
    <3>1. Supported(killed) => {"folders", "folder_changes"} \subseteq tracked.set
      BY <2>1 DEF FolderTracking, Capabilities
    <3>2. {"folders", "folder_changes"} \cap tracked.set \subseteq result.set
      BY <2>1 DEF WrapperCapabilities, Capabilities
    <3> QED
      BY <2>3, <3>1, <3>2
  <2> QED
    BY <2>2, <2>3, <2>4, <2>5 DEF ImplementorDecides
<1> QED
  BY SessionAlways, ProvenanceAlways, <1>1, PTL

-----------------------------------------------------------------------------
(* The list of a walk and the events that renew it *)

\* Outside the blind spots a valid list is the walk's, or an event that makes
\* it invalid is on its way.
ListAccountedFor ==
    ~dirty /\ unheard \cap BlindSpots = {} =>
        walkList = Walked \/ \E e \in events : Invalidates(e)

-----------------------------------------------------------------------------
(* Names and globs *)

\* watcher_globs asks for no name that is_ignore_file does not know.
LEMMA WatchedIsHandled ==
    ASSUME NEW name, WatchedName(name)
    PROVE  IsIgnoreFile(name)
  BY WatchingAssumption DEF WatchedName, IsIgnoreFile

\* What the walk honours outside the blind spots is watched.
LEMMA HonouredIsWatched ==
    ASSUME NEW r \in IgnoreFiles, r \notin BlindSpots
    PROVE  ReportedRules(r)
  <1>1. /\ r.kind \in {"custom", ".gitignore"}
        /\ ~(r.depth < Root) /\ r.name \notin InvalidNames
    BY DEF BlindSpots
  <1>2. r \in IgnoreFile
    BY WatchingAssumption
  <1>3. r.depth >= Root
    BY <1>1, <1>2 DEF IgnoreFile, Depths, Root
  <1>4. WatchedName(r.name)
    BY <1>1, WatchingAssumption DEF WatchedName
  <1> QED
    BY <1>3, <1>4 DEF ReportedRules

LEMMA GlobKinds ==
    \A g \in Globs : g.kind \in {"deep", "flat"}
  <1> SUFFICES ASSUME NEW g \in Globs
               PROVE  g.kind \in {"deep", "flat"}
    OBVIOUS
  <1>1. g \in UNION {{m[k] : k \in DOMAIN m} : m \in Matchers} /\ g.kind # "invalid"
    BY DEF Globs
  <1>2. g \in Glob
    BY <1>1, WatchingAssumption
  <1> QED
    BY <1>1, <1>2 DEF Glob

\* A file outside the blind spots that some glob claims is reported.
LEMMA ClaimedIsReported ==
    ASSUME NEW f \in Files, f \notin BlindSpots, Claimed(f)
    PROVE  Reported(f)
  <1>1. PICK g \in Globs : Claims(g, f)
    BY DEF Claimed
  <1>2. f \in File
    BY WatchingAssumption
  <1>3. CASE f.depth = Root
    BY <1>1, <1>3 DEF Reported, Covers, Claims
  <1>4. CASE f.depth # Root
    <2>1. f.depth > Root
      BY <1>2, <1>4 DEF File, Root
    <2>2. PICK h \in Globs : Claims(h, f) /\ h.kind # "flat"
      BY <2>1 DEF BlindSpots
    <2>3. h.kind = "deep"
      BY <2>2, GlobKinds
    <2> QED
      BY <2>2, <2>3 DEF Reported, Covers, Claims
  <1> QED
    BY <1>3, <1>4

\* A file that no glob claims makes no difference to a walk.
LEMMA UnclaimedIsUnlisted ==
    ASSUME NEW f, ~Claimed(f), UNCHANGED <<rules, repository>>,
           present' = present \cup {f} \/ present' = present \ {f}
    PROVE  Walked' = Walked
  <1>1. \A g : /\ Passes(g)' <=> Passes(g)
               /\ IgnoredByGlobal(g)' <=> IgnoredByGlobal(g)
    BY DEF Passes, Verdict, Speaking, IgnoredByGlobal
  <1> QED
    BY <1>1 DEF Walked

-----------------------------------------------------------------------------
(* The invariant *)

LEMMA WalkedUnchanged ==
    ASSUME UNCHANGED <<present, rules, repository>>
    PROVE  Walked' = Walked
  BY DEF Walked, Passes, Verdict, Speaking, IgnoredByGlobal

LEMMA FileChangeAccounted ==
    ASSUME ListAccountedFor, NEW f \in Files, FileAppears(f) \/ FileGoes(f)
    PROVE  ListAccountedFor'
  <1> SUFFICES ASSUME ~dirty', unheard' \cap BlindSpots = {},
                      \A e \in events' : ~Invalidates(e)
               PROVE  walkList' = Walked'
    BY DEF ListAccountedFor, BlindSpots, Invalidates
  <1>1. PICK type \in {"created", "deleted"} : Hears(Reported(f), f, type)
    BY DEF FileAppears, FileGoes
  <1>2. UNCHANGED <<rules, repository, walkList, dirty>>
    BY DEF FileAppears, FileGoes
  <1>3. present' = present \cup {f} \/ present' = present \ {f}
    BY DEF FileAppears, FileGoes
  <1>4. ~Reported(f)
    <2>1. Invalidates([name |-> f.name, depth |-> f.depth, type |-> type])
      BY DEF Invalidates
    <2> QED
      BY <1>1, <2>1 DEF Hears
  <1>5. unheard' = unheard \cup {f} /\ events' = events
    BY <1>1, <1>4 DEF Hears
  <1>6. ~Claimed(f)
    BY <1>4, <1>5, ClaimedIsReported
  <1>7. walkList = Walked
    BY <1>2, <1>5 DEF ListAccountedFor
  <1> QED
    BY <1>2, <1>3, <1>6, <1>7, UnclaimedIsUnlisted

LEMMA RulesChangeAccounted ==
    ASSUME ListAccountedFor, NEW r \in IgnoreFiles, RulesChange(r)
    PROVE  ListAccountedFor'
  <1> SUFFICES ASSUME unheard' \cap BlindSpots = {}
               PROVE  \E e \in events' : Invalidates(e)
    BY DEF ListAccountedFor, BlindSpots, Invalidates
  <1>1. Hears(ReportedRules(r), r, "changed")
    BY DEF RulesChange
  <1>2. ReportedRules(r)
    <2>1. CASE r \in BlindSpots
      BY <1>1, <2>1 DEF Hears
    <2>2. CASE r \notin BlindSpots
      BY <2>2, HonouredIsWatched
    <2> QED
      BY <2>1, <2>2
  <1> DEFINE e == [name |-> r.name, depth |-> r.depth, type |-> "changed"]
  <1>3. e \in events'
    BY <1>1, <1>2 DEF Hears
  <1>4. Invalidates(e)
    BY <1>2, WatchedIsHandled DEF ReportedRules, Invalidates
  <1> QED
    BY <1>3, <1>4

LEMMA AccountedStep ==
    ASSUME ListAccountedFor, [WatchingNext]_watchingVars
    PROVE  ListAccountedFor'
  <1>1. ASSUME NEW e \in events, EventHandled(e)
        PROVE  ListAccountedFor'
    <2>1. /\ UNCHANGED <<present, rules, repository, walkList, unheard>>
          /\ events' = events \ {e} /\ dirty' = (dirty \/ Invalidates(e))
      BY <1>1 DEF EventHandled
    <2>2. Walked' = Walked
      BY <2>1, WalkedUnchanged
    <2> QED
      BY <2>1, <2>2 DEF ListAccountedFor, BlindSpots, Invalidates
  <1>2. CASE PollWalksAgain
    <2>1. Walked' = Walked /\ walkList' = Walked
      BY <1>2, WalkedUnchanged DEF PollWalksAgain
    <2> QED
      BY <2>1 DEF ListAccountedFor
  <1>3. ASSUME NEW f \in Files, FileAppears(f) \/ FileGoes(f)
        PROVE  ListAccountedFor'
    BY <1>3, FileChangeAccounted
  <1>4. ASSUME NEW r \in IgnoreFiles, RulesChange(r)
        PROVE  ListAccountedFor'
    BY <1>4, RulesChangeAccounted
  <1>5. CASE UNCHANGED watchingVars
    <2>1. Walked' = Walked
      BY <1>5, WalkedUnchanged DEF watchingVars
    <2> QED
      BY <1>5, <2>1 DEF watchingVars, ListAccountedFor, BlindSpots, Invalidates
  <1> QED
    BY <1>1, <1>2, <1>3, <1>4, <1>5 DEF WatchingNext

\* Whatever globs and names are configured and whatever ignore files there
\* are, at any depth: while nothing has changed in a blind spot, a valid list
\* with no event on its way is what a walk would find.  No name is honoured by
\* the walk and forgotten by watcher_globs, or asked for by watcher_globs and
\* forgotten by handle_watched_files_change.
THEOREM WatchingListFollowsDisk == WatchingSpec => []ListFollowsDisk
  <1>1. WatchingInit => ListAccountedFor
    BY DEF WatchingInit, ListAccountedFor
  <1>2. ListAccountedFor /\ [WatchingNext]_watchingVars => ListAccountedFor'
    BY AccountedStep
  <1>3. ListAccountedFor => ListFollowsDisk
    BY DEF ListAccountedFor, ListFollowsDisk
  <1> QED
    BY <1>1, <1>2, <1>3, PTL DEF WatchingSpec

-----------------------------------------------------------------------------
(* What is on a wire or in the queue *)

On(s)   == {s[i].kind : i \in 1..Len(s)}
Msgs(s) == {s[i] : i \in 1..Len(s)}

LEMMA OnEmpty == On(<< >>) = {} /\ Msgs(<< >>) = {} /\ << >> \in Seq(Message)
  <1>1. 1..Len(<< >>) = {} /\ << >> \in Seq(Message)
    BY EmptySeq
  <1> QED
    BY <1>1 DEF On, Msgs

LEMMA OnAppend ==
    ASSUME NEW s \in Seq(Message), NEW m \in Message
    PROVE  /\ Append(s, m) \in Seq(Message)
           /\ On(Append(s, m)) = On(s) \cup {m.kind}
           /\ Msgs(Append(s, m)) = Msgs(s) \cup {m}
  <1>1. /\ Append(s, m) \in Seq(Message)
        /\ Len(Append(s, m)) = Len(s) + 1
        /\ \A i \in 1..Len(s) : Append(s, m)[i] = s[i]
        /\ Append(s, m)[Len(s) + 1] = m
    BY AppendProperties
  <1>2. Len(s) \in Nat
    BY LenProperties
  <1>3. \A i : i \in 1..Len(s) + 1 <=> (i \in 1..Len(s) \/ i = Len(s) + 1)
    BY <1>2
  <1> QED
    BY <1>1, <1>2, <1>3 DEF On, Msgs

LEMMA OnTail ==
    ASSUME NEW s \in Seq(Message), s # << >>
    PROVE  /\ Head(s) \in Message /\ Tail(s) \in Seq(Message)
           /\ On(s) = {Head(s).kind} \cup On(Tail(s))
           /\ Msgs(s) = {Head(s)} \cup Msgs(Tail(s))
  <1>1. /\ Head(s) \in Message /\ Tail(s) \in Seq(Message)
        /\ Len(Tail(s)) = Len(s) - 1
        /\ \A i \in 1..Len(Tail(s)) : Tail(s)[i] = s[i + 1]
    BY HeadTailProperties
  <1>2. Len(s) \in Nat \ {0} /\ Head(s) = s[1]
    BY EmptySeq
  <1>3. \A i \in 1..Len(s) : i = 1 \/ (i - 1 \in 1..Len(s) - 1 /\ Tail(s)[i - 1] = s[i])
    BY <1>1, <1>2
  <1>4. \A i \in 1..Len(s) - 1 : i + 1 \in 1..Len(s) /\ Tail(s)[i] = s[i + 1]
    BY <1>1, <1>2
  <1>5. On(s) = {Head(s).kind} \cup On(Tail(s))
    BY <1>1, <1>2, <1>3, <1>4 DEF On
  <1>6. Msgs(s) = {Head(s)} \cup Msgs(Tail(s))
    BY <1>1, <1>2, <1>3, <1>4 DEF Msgs
  <1> QED
    BY <1>1, <1>5, <1>6

LEMMA OnConcat ==
    ASSUME NEW s \in Seq(Message), NEW t \in Seq(Message)
    PROVE  /\ s \o t \in Seq(Message)
           /\ On(s \o t) = On(s) \cup On(t)
           /\ Msgs(s \o t) = Msgs(s) \cup Msgs(t)
  <1>1. /\ s \o t \in Seq(Message)
        /\ Len(s \o t) = Len(s) + Len(t)
        /\ \A i \in 1..Len(s) + Len(t) :
              (s \o t)[i] = IF i <= Len(s) THEN s[i] ELSE t[i - Len(s)]
    BY ConcatProperties
  <1>2. Len(s) \in Nat /\ Len(t) \in Nat
    BY LenProperties
  <1>3. \A i \in 1..Len(s) + Len(t) :
           \/ i \in 1..Len(s) /\ (s \o t)[i] = s[i]
           \/ i - Len(s) \in 1..Len(t) /\ (s \o t)[i] = t[i - Len(s)]
    BY <1>1, <1>2
  <1>4. \A i \in 1..Len(s) : i \in 1..Len(s) + Len(t) /\ (s \o t)[i] = s[i]
    BY <1>1, <1>2
  <1>5. \A i \in 1..Len(t) : Len(s) + i \in 1..Len(s) + Len(t) /\ (s \o t)[Len(s) + i] = t[i]
    BY <1>1, <1>2
  <1>6. On(s \o t) = On(s) \cup On(t)
    BY <1>1, <1>3, <1>4, <1>5 DEF On
  <1>7. Msgs(s \o t) = Msgs(s) \cup Msgs(t)
    BY <1>1, <1>3, <1>4, <1>5 DEF Msgs
  <1> QED
    BY <1>1, <1>6, <1>7

LEMMA OnOne ==
    ASSUME NEW m \in Message
    PROVE  <<m>> \in Seq(Message) /\ On(<<m>>) = {m.kind} /\ Msgs(<<m>>) = {m}
  BY DEF On, Msgs

\* The task that runs leaves the queue, the others stay.
LEMMA OnWithout ==
    ASSUME NEW s \in Seq(Message), NEW i \in 1..Len(s)
    PROVE  /\ Without(s, i) \in Seq(Message)
           /\ On(Without(s, i)) \subseteq On(s) /\ On(s) \subseteq On(Without(s, i)) \cup {s[i].kind}
           /\ s[i] \in Message /\ s[i].kind \in On(s)
  <1> DEFINE a == SubSeq(s, 1, i - 1)
             b == SubSeq(s, i + 1, Len(s))
  <1>1. Len(s) \in Nat /\ i \in Int /\ \A j \in 1..Len(s) : s[j] \in Message
    BY ElementOfSeq, LenProperties
  <1>2. /\ a \in Seq(Message) /\ Len(a) = i - 1
        /\ \A j \in 1..i - 1 : a[j] = s[j]
    <2>1. \A j \in 1..i - 1 : s[j] \in Message
      BY <1>1
    <2> QED
      BY <1>1, <2>1, SubSeqProperties
  <1>3. /\ b \in Seq(Message) /\ Len(b) = Len(s) - i
        /\ \A j \in 1..Len(s) - i : b[j] = s[i + j]
    <2>1. \A j \in i + 1..Len(s) : s[j] \in Message
      BY <1>1
    <2>2. /\ b \in Seq(Message)
          /\ Len(b) = IF i + 1 <= Len(s) THEN Len(s) - (i + 1) + 1 ELSE 0
          /\ \A j \in 1..Len(s) - (i + 1) + 1 : b[j] = s[(i + 1) + j - 1]
      BY <1>1, <2>1, SubSeqProperties
    <2> QED
      BY <1>1, <2>2
  <1>4. On(Without(s, i)) = On(a) \cup On(b) /\ Without(s, i) \in Seq(Message)
    BY <1>2, <1>3, OnConcat DEF Without
  <1> HIDE DEF a, b
  <1>5. On(a) \subseteq On(s) /\ On(b) \subseteq On(s)
    BY <1>1, <1>2, <1>3 DEF On
  <1>6. ASSUME NEW j \in 1..Len(s)
        PROVE  s[j].kind \in On(a) \cup On(b) \cup {s[i].kind}
    <2>1. CASE j < i
      BY <1>1, <1>2, <2>1 DEF On
    <2>2. CASE j > i
      <3>1. j - i \in 1..Len(s) - i /\ b[j - i] = s[j]
        BY <1>1, <1>3, <2>2
      <3> QED
        BY <1>3, <3>1 DEF On
    <2> QED
      BY <1>1, <2>1, <2>2
  <1> QED
    BY <1>1, <1>4, <1>5, <1>6 DEF On

-----------------------------------------------------------------------------
(* Types *)

Types ==
    /\ around \in Surroundings
    /\ setting \in BOOLEAN /\ subscribed \in BOOLEAN /\ watches \in BOOLEAN
    /\ seen \in BOOLEAN /\ enabled \in BOOLEAN /\ registered \in BOOLEAN
    /\ changes \in Nat /\ generation \in Nat
    /\ reading \subseteq Message /\ checked \subseteq Message
    /\ inbox \in Seq(Message) /\ outbox \in Seq(Message) /\ ready \in Seq(Message)

LEMMA MessageTypes ==
    /\ \A kind \in Kinds : Plain(kind) \in Message /\ Plain(kind).kind = kind
    /\ \A kind \in Kinds, g \in Nat, v \in BOOLEAN :
          /\ Valued(kind, g, v) \in Message
          /\ Valued(kind, g, v).kind = kind
          /\ Valued(kind, g, v).generation = g
          /\ Valued(kind, g, v).value = v
  BY DEF Plain, Valued, Message

\* What the handlers spawn.
LEMMA WatcherJobsAre ==
    ASSUME Types, NEW v \in BOOLEAN
    PROVE  /\ WatcherJobs(v) \in Seq(Message)
           /\ On(WatcherJobs(v)) \subseteq {"registerWatchers"}
           /\ (FileWatching /\ v /\ ~registered) => "registerWatchers" \in On(WatcherJobs(v))
           /\ Msgs(WatcherJobs(v)) \subseteq {Plain("registerWatchers")}
  <1>1. Plain("registerWatchers") \in Message
        /\ Plain("registerWatchers").kind = "registerWatchers"
    BY MessageTypes DEF Kinds
  <1>2. CASE FileWatching /\ v /\ ~registered
    BY <1>1, <1>2, OnOne DEF WatcherJobs
  <1>3. CASE ~(FileWatching /\ v /\ ~registered)
    BY <1>3, OnEmpty DEF WatcherJobs
  <1> QED
    BY <1>2, <1>3

LEMMA AppliedJobsAre ==
    ASSUME Types, NEW v \in BOOLEAN
    PROVE  /\ Applied(v) \in Seq(Message)
           /\ On(Applied(v)) \subseteq {"registerWatchers", "refresh"}
           /\ v # enabled => "refresh" \in On(Applied(v))
           /\ (v # enabled /\ FileWatching /\ v /\ ~registered)
                 => "registerWatchers" \in On(Applied(v))
           /\ Msgs(Applied(v)) \subseteq {Plain("registerWatchers"), Plain("refresh")}
  <1>1. Plain("refresh") \in Message /\ Plain("refresh").kind = "refresh"
    BY MessageTypes DEF Kinds
  <1>2. /\ RefreshJobs(v) \in Seq(Message) /\ On(RefreshJobs(v)) = {"refresh"}
        /\ Msgs(RefreshJobs(v)) = {Plain("refresh")}
    BY <1>1, OnOne DEF RefreshJobs
  <1>3. CASE v # enabled
    BY <1>2, <1>3, WatcherJobsAre, OnConcat DEF Applied
  <1>4. CASE v = enabled
    BY <1>4, OnEmpty DEF Applied
  <1> QED
    BY <1>3, <1>4

LEMMA ConfigurationJobsAre ==
    ASSUME Types
    PROVE  /\ ConfigurationJobs \in Seq(Message)
           /\ On(ConfigurationJobs) = {"configuration"}
           /\ Msgs(ConfigurationJobs) = {Valued("configuration", generation + 1, FALSE)}
  <1>1. Valued("configuration", generation + 1, FALSE) \in Message
        /\ Valued("configuration", generation + 1, FALSE).kind = "configuration"
    <2>1. generation + 1 \in Nat /\ FALSE \in BOOLEAN /\ "configuration" \in Kinds
      BY DEF Types, Kinds
    <2> QED
      BY <2>1, MessageTypes
  <1> QED
    BY <1>1, OnOne DEF ConfigurationJobs

LEMMA TypesInit ==
    ASSUME SwitchInit
    PROVE  Types
  <1>1. inbox \in Seq(Message)
    <2>1. Plain("initialized") \in Message /\ Plain("poll") \in Message
      BY MessageTypes DEF Kinds
    <2>2. <<Plain("initialized"), Plain("poll")>> \in Seq(Message)
      BY <2>1
    <2> QED
      BY <2>2 DEF SwitchInit
  <1> QED
    BY <1>1, SwitchAssumption, OnEmpty DEF SwitchInit, Types

LEMMA HeadIsMessage ==
    ASSUME Types, NEW kind, Arrives(kind)
    PROVE  /\ inbox # << >> /\ Head(inbox) \in Message /\ Head(inbox).kind = kind
           /\ inbox' \in Seq(Message)
           /\ On(inbox) = {kind} \cup On(inbox')
           /\ Msgs(inbox) = {Head(inbox)} \cup Msgs(inbox')
           /\ Head(inbox).value \in BOOLEAN /\ Head(inbox).generation \in Nat
  BY OnTail DEF Types, Arrives, Message

LEMMA ReachedIsMessage ==
    ASSUME Types, NEW kind, Reaches(kind)
    PROVE  /\ outbox # << >> /\ Head(outbox) \in Message /\ Head(outbox).kind = kind
           /\ outbox' \in Seq(Message)
           /\ On(outbox) = {kind} \cup On(outbox')
           /\ Msgs(outbox) = {Head(outbox)} \cup Msgs(outbox')
           /\ Head(outbox).generation \in Nat
  BY OnTail DEF Types, Reaches, Message

LEMMA RunIsMessage ==
    ASSUME Types, NEW i, MayRun(i)
    PROVE  /\ i \in 1..Len(ready)
           /\ ready[i] \in Message /\ ready[i].value \in BOOLEAN /\ ready[i].generation \in Nat
           /\ Without(ready, i) \in Seq(Message)
           /\ On(Without(ready, i)) \subseteq On(ready)
           /\ On(ready) \subseteq On(Without(ready, i)) \cup {ready[i].kind}
           /\ ready[i].kind \in On(ready)
  BY OnWithout DEF Types, MayRun, Message

LEMMA TypesStep ==
    ASSUME Types, [SwitchNext]_switchVars
    PROVE  Types'
  <1> USE DEF clientVars, switch
  <1>1. CASE InitializedHandled
    <2>1. inbox' \in Seq(Message)
      BY <1>1, HeadIsMessage DEF InitializedHandled
    <2>2. <<Plain("registerConfiguration")>> \in Seq(Message)
      BY MessageTypes, OnOne DEF Kinds
    <2>3. ready' \in Seq(Message)
      <3>1. /\ WatcherJobs(enabled) \in Seq(Message) /\ ConfigurationJobs \in Seq(Message)
            /\ ready \in Seq(Message)
        BY WatcherJobsAre, ConfigurationJobsAre DEF Types
      <3> QED
        BY <1>1, <2>2, <3>1, ConcatProperties DEF InitializedHandled
    <2> QED
      BY <1>1, <2>1, <2>3 DEF InitializedHandled, Types
  <1>2. CASE PushHandled
    <2>1. inbox' \in Seq(Message) /\ Head(inbox).value \in BOOLEAN
      BY <1>2, HeadIsMessage DEF PushHandled
    <2>2. ready' \in Seq(Message)
      BY <1>2, <2>1, AppliedJobsAre, OnConcat DEF PushHandled, Types
    <2> QED
      BY <1>2, <2>1, <2>2 DEF PushHandled, NextGeneration, Types
  <1>3. CASE NoticeHandled
    <2>1. inbox' \in Seq(Message) /\ ready' \in Seq(Message)
      BY <1>3, HeadIsMessage, ConfigurationJobsAre, OnConcat DEF NoticeHandled, Types
    <2> QED
      BY <1>3, <2>1 DEF NoticeHandled, NextGeneration, Types
  <1>4. CASE PollHandled
    BY <1>4, HeadIsMessage DEF PollHandled, Types
  <1>5. ASSUME NEW kind, ResponseArrives(kind)
        PROVE  Types'
    BY <1>5, HeadIsMessage, OnAppend DEF ResponseArrives, Types
  <1>6. ASSUME NEW i, TaskSends(i) \/ AnswerDropped(i) \/ AcceptedRuns(i)
        PROVE  Types'
    <2>1. ready' \in Seq(Message)
      BY <1>6, RunIsMessage DEF TaskSends, AnswerDropped, AcceptedRuns
    <2>2. outbox' \in Seq(Message)
      <3>1. CASE TaskSends(i)
        <4>1. ready[i] \in Message /\ outbox \in Seq(Message)
          BY <3>1, RunIsMessage DEF TaskSends, Types
        <4> QED
          BY <3>1, <4>1, OnAppend DEF TaskSends
      <3>2. CASE UNCHANGED outbox
        BY <3>2 DEF Types
      <3> QED
        BY <1>6, <3>1, <3>2 DEF AnswerDropped, AcceptedRuns
    <2> QED
      BY <1>6, <2>1, <2>2 DEF TaskSends, AnswerDropped, AcceptedRuns, Types
  <1>7. ASSUME NEW i, AnswerApplied(i)
        PROVE  Types'
    <2>1. ready' \in Seq(Message) /\ ready[i].value \in BOOLEAN
      BY <1>7, RunIsMessage, AppliedJobsAre, OnConcat DEF AnswerApplied
    <2> QED
      BY <1>7, <2>1 DEF AnswerApplied, Types
  <1>8. ASSUME NEW i, AnswerChecked(i)
        PROVE  Types'
    BY <1>8, RunIsMessage DEF AnswerChecked, Types
  <1>9. ASSUME NEW m \in checked, CheckedApplies(m)
        PROVE  Types'
    <2>1. m.value \in BOOLEAN
      BY DEF Types, Message
    <2>2. ready' \in Seq(Message)
      BY <1>9, <2>1, AppliedJobsAre, OnConcat DEF CheckedApplies, Types
    <2> QED
      BY <1>9, <2>1, <2>2 DEF CheckedApplies, Types
  <1>10. CASE UserChanges
    <2>1. setting' \in BOOLEAN
      BY <1>10 DEF UserChanges, Types
    <2>2. Valued("push", 0, setting') \in Message /\ Plain("notice") \in Message
      BY <2>1, MessageTypes DEF Kinds
    <2>3. inbox' \in Seq(Message)
      BY <1>10, <2>2, OnAppend DEF UserChanges, Types
    <2> QED
      BY <1>10, <2>1, <2>3 DEF UserChanges, Types
  <1>11. CASE Subscribes \/ RejectsWatchers
    BY <1>11, ReachedIsMessage DEF Subscribes, RejectsWatchers, Types
  <1>12. CASE ReadsSetting
    <2>1. outbox' \in Seq(Message) /\ Head(outbox).generation \in Nat
      BY <1>12, ReachedIsMessage DEF ReadsSetting
    <2>2. Valued("answer", Head(outbox).generation, setting) \in Message
      BY <2>1, MessageTypes DEF Types, Kinds
    <2> QED
      BY <1>12, <2>1, <2>2 DEF ReadsSetting, Types
  <1>13. ASSUME NEW m \in reading, AnswersSetting(m) \/ FailsSetting(m)
        PROVE  Types'
    <2>1. m \in Message /\ Append(inbox, m) \in Seq(Message) /\ reading \ {m} \subseteq Message
      BY OnAppend DEF Types
    <2>2. inbox' \in Seq(Message) /\ reading' \subseteq Message
      BY <1>13, <2>1 DEF AnswersSetting, FailsSetting, Types
    <2>3. UNCHANGED <<around, setting, changes, subscribed, watches, seen, outbox, ready,
                      checked, switch>>
      BY <1>13 DEF AnswersSetting, FailsSetting
    <2> QED
      BY <2>2, <2>3 DEF Types
  <1>14. CASE AcceptsWatchers \/ Repolls
    <2>1. outbox' \in Seq(Message)
      BY <1>14, ReachedIsMessage DEF AcceptsWatchers, Repolls
    <2>2. Plain("accepted") \in Message /\ Plain("poll") \in Message
      BY MessageTypes DEF Kinds
    <2>3. inbox' \in Seq(Message)
      BY <1>14, <2>2, OnAppend DEF AcceptsWatchers, Repolls, Types
    <2> QED
      BY <1>14, <2>1, <2>3 DEF AcceptsWatchers, Repolls, Types
  <1>15. CASE UNCHANGED switchVars
    BY <1>15 DEF switchVars, Types
  <1>16. CASE MainLoop
    BY <1>1, <1>2, <1>3, <1>4, <1>5, <1>16 DEF MainLoop
  <1>17. CASE Tasks
    <2>1. CASE \E m \in checked : CheckedApplies(m)
      BY <1>9, <2>1
    <2>2. ASSUME NEW i \in 1..Len(ready),
                 TaskSends(i) \/ AnswerDropped(i) \/ AnswerApplied(i) \/ AnswerChecked(i)
                     \/ AcceptedRuns(i)
          PROVE  Types'
      BY <1>6, <1>7, <1>8, <2>2
    <2> QED
      BY <1>17, <2>1, <2>2 DEF Tasks
  <1>18. CASE ClientSteps
    <2>1. CASE \E m \in reading : AnswersSetting(m) \/ FailsSetting(m)
      BY <1>13, <2>1
    <2>2. CASE Subscribes \/ ReadsSetting \/ AcceptsWatchers \/ RejectsWatchers \/ Repolls
      BY <1>11, <1>12, <1>14, <2>2
    <2> QED
      BY <1>18, <2>1, <2>2 DEF ClientSteps
  <1> QED
    BY <1>10, <1>15, <1>16, <1>17, <1>18 DEF SwitchNext

-----------------------------------------------------------------------------
(* The flag of the registration and the client's last poll *)

Pending(kind) == kind \in On(inbox) \cup On(ready)
Sent(kind)    == kind \in On(ready) \cup On(outbox)

\* A registration is accepted first and noted later, and the answer is on its
\* way meanwhile.
AcceptedFirst ==
    /\ registered => watches
    /\ Pending("accepted") => watches
    /\ watches => registered \/ Pending("accepted")

\* While the switch is on and no watchers are registered, something that will
\* register them is on its way.
AsksForWatchers ==
    enabled /\ FileWatching /\ ~around.mayReject /\ ~registered =>
        \/ "initialized" \in On(inbox)
        \/ Sent("registerWatchers")
        \/ Pending("accepted")

\* While the client has not polled since the last flip, something that makes
\* it poll is on its way.
AsksToPoll == seen # enabled => "poll" \in On(inbox) \/ Sent("refresh")

\* The client reads its setting to answer with it.
ReadsToAnswer == \A m \in reading : m.kind = "answer"

Flags == AcceptedFirst /\ AsksForWatchers /\ AsksToPoll /\ ReadsToAnswer

LEMMA FlagsInit ==
    ASSUME SwitchInit
    PROVE  Flags
  <1>1. On(inbox) = {"initialized", "poll"}
    <2>1. /\ Plain("initialized") \in Message /\ Plain("initialized").kind = "initialized"
          /\ Plain("poll") \in Message /\ Plain("poll").kind = "poll"
      BY MessageTypes DEF Kinds
    <2>2. inbox = Append(<<Plain("initialized")>>, Plain("poll"))
      BY DEF SwitchInit
    <2> QED
      BY <2>1, <2>2, OnOne, OnAppend
  <1>2. On(ready) = {} /\ On(outbox) = {}
    BY OnEmpty DEF SwitchInit
  <1> QED
    BY <1>1, <1>2 DEF SwitchInit, Flags, AcceptedFirst, AsksForWatchers, AsksToPoll,
                       ReadsToAnswer, Pending, Sent

\* Each action in terms of the kinds on the wires and in the queue.
LEMMA FlagsStep ==
    ASSUME Types, Flags, [SwitchNext]_switchVars
    PROVE  Flags'
  <1> USE DEF clientVars, switch, Flags, AcceptedFirst, AsksForWatchers, AsksToPoll,
              ReadsToAnswer, Pending, Sent, FileWatching
  <1>1. CASE InitializedHandled
    <2>1. On(inbox) = {"initialized"} \cup On(inbox')
      BY <1>1, HeadIsMessage DEF InitializedHandled
    <2>2. On(ready') = On(ready) \cup On(WatcherJobs(enabled))
                         \cup {"registerConfiguration"} \cup {"configuration"}
      <3>1. /\ <<Plain("registerConfiguration")>> \in Seq(Message)
            /\ On(<<Plain("registerConfiguration")>>) = {"registerConfiguration"}
        BY MessageTypes, OnOne DEF Kinds
      <3>2. /\ ready \in Seq(Message) /\ WatcherJobs(enabled) \in Seq(Message)
            /\ ConfigurationJobs \in Seq(Message) /\ On(ConfigurationJobs) = {"configuration"}
        BY WatcherJobsAre, ConfigurationJobsAre DEF Types
      <3> DEFINE r1 == ready \o WatcherJobs(enabled)
                 r2 == r1 \o <<Plain("registerConfiguration")>>
      <3>3. r1 \in Seq(Message) /\ On(r1) = On(ready) \cup On(WatcherJobs(enabled))
        BY <3>2, OnConcat
      <3>4. r2 \in Seq(Message) /\ On(r2) = On(r1) \cup {"registerConfiguration"}
        BY <3>1, <3>3, OnConcat
      <3>5. ready' = r2 \o ConfigurationJobs
        BY <1>1 DEF InitializedHandled
      <3> HIDE DEF r1, r2
      <3> QED
        BY <3>2, <3>3, <3>4, <3>5, OnConcat
    <2>3. /\ On(WatcherJobs(enabled)) \subseteq {"registerWatchers"}
          /\ (FileWatching /\ enabled /\ ~registered)
                => "registerWatchers" \in On(WatcherJobs(enabled))
      BY WatcherJobsAre DEF Types
    <2> QED
      BY <1>1, <2>1, <2>2, <2>3 DEF InitializedHandled
  <1>2. ASSUME NEW v \in BOOLEAN, enabled' = v, UNCHANGED <<clientVars, outbox, registered>>,
               On(ready) \subseteq On(ready') \cup {"answer"},
               On(Applied(v)) \subseteq On(ready'),
               On(ready') \subseteq On(ready) \cup On(Applied(v)),
               On(inbox) \subseteq On(inbox') \cup {"push"}, On(inbox') \subseteq On(inbox)
        PROVE  Flags'
    <2>1. /\ On(Applied(v)) \subseteq {"registerWatchers", "refresh"}
          /\ v # enabled => "refresh" \in On(Applied(v))
          /\ (v # enabled /\ FileWatching /\ v /\ ~registered)
                => "registerWatchers" \in On(Applied(v))
      BY AppliedJobsAre
    <2>2. AcceptedFirst'
      BY <1>2, <2>1
    <2>3. AsksForWatchers'
      BY <1>2, <2>1 DEF Types
    <2>4. AsksToPoll'
      BY <1>2, <2>1
    <2>5. ReadsToAnswer'
      BY <1>2
    <2> QED
      BY <2>2, <2>3, <2>4, <2>5
  <1>3. CASE PushHandled
    <2>1. /\ On(inbox) = {"push"} \cup On(inbox') /\ Head(inbox).value \in BOOLEAN
      BY <1>3, HeadIsMessage DEF PushHandled
    <2>2. On(ready') = On(ready) \cup On(Applied(Head(inbox).value))
      BY <1>3, <2>1, AppliedJobsAre, OnConcat DEF PushHandled, Types
    <2> QED
      BY <1>2, <1>3, <2>1, <2>2 DEF PushHandled
  <1>4. CASE NoticeHandled
    <2>1. On(inbox) = {"notice"} \cup On(inbox')
      BY <1>4, HeadIsMessage DEF NoticeHandled
    <2>2. On(ready') = On(ready) \cup {"configuration"}
      BY <1>4, ConfigurationJobsAre, OnConcat DEF NoticeHandled, Types
    <2> QED
      BY <1>4, <2>1, <2>2 DEF NoticeHandled
  <1>5. CASE PollHandled
    <2>1. On(inbox) = {"poll"} \cup On(inbox')
      BY <1>5, HeadIsMessage DEF PollHandled
    <2> QED
      BY <1>5, <2>1 DEF PollHandled
  <1>6. ASSUME NEW kind \in {"answer", "accepted"}, ResponseArrives(kind)
        PROVE  Flags'
    <2>1. /\ On(inbox) = {kind} \cup On(inbox')
          /\ Head(inbox) \in Message /\ Head(inbox).kind = kind
      BY <1>6, HeadIsMessage DEF ResponseArrives
    <2>2. On(ready') = On(ready) \cup {kind}
      BY <1>6, <2>1, OnAppend DEF ResponseArrives, Types
    <2> QED
      BY <1>6, <2>1, <2>2 DEF ResponseArrives
  <1>7. ASSUME NEW i, TaskSends(i)
        PROVE  Flags'
    <2>1. /\ ready[i] \in Message /\ On(ready') \subseteq On(ready)
          /\ On(ready) \subseteq On(ready') \cup {ready[i].kind}
          /\ ready[i].kind \in On(ready)
      BY <1>7, RunIsMessage DEF TaskSends
    <2>2. On(outbox') = On(outbox) \cup {ready[i].kind}
      BY <1>7, <2>1, OnAppend DEF TaskSends, Types
    <2>3. ready[i].kind # "accepted" /\ UNCHANGED <<inbox, around, watches, reading, seen, enabled, registered>>
      BY <1>7 DEF TaskSends, ToClient
    <2> QED
      BY <2>1, <2>2, <2>3
  <1>8. ASSUME NEW i, AnswerDropped(i) \/ AnswerChecked(i)
        PROVE  Flags'
    <2>1. On(ready') \subseteq On(ready) /\ On(ready) \subseteq On(ready') \cup {"answer"}
      BY <1>8, RunIsMessage DEF AnswerDropped, AnswerChecked
    <2>2. UNCHANGED <<inbox, outbox, around, watches, reading, seen, enabled, registered>>
      BY <1>8 DEF AnswerDropped, AnswerChecked
    <2> QED
      BY <2>1, <2>2
  <1>9. ASSUME NEW i, AnswerApplied(i)
        PROVE  Flags'
    <2>1. /\ ready[i].value \in BOOLEAN /\ Without(ready, i) \in Seq(Message)
          /\ On(Without(ready, i)) \subseteq On(ready)
          /\ On(ready) \subseteq On(Without(ready, i)) \cup {"answer"}
      BY <1>9, RunIsMessage DEF AnswerApplied
    <2>2. On(ready') = On(Without(ready, i)) \cup On(Applied(ready[i].value))
      BY <1>9, <2>1, AppliedJobsAre, OnConcat DEF AnswerApplied
    <2> QED
      BY <1>2, <1>9, <2>1, <2>2 DEF AnswerApplied
  <1>10. ASSUME NEW m \in checked, CheckedApplies(m)
         PROVE  Flags'
    <2>1. m.value \in BOOLEAN
      BY DEF Types, Message
    <2>2. On(ready') = On(ready) \cup On(Applied(m.value))
      BY <1>10, <2>1, AppliedJobsAre, OnConcat DEF CheckedApplies, Types
    <2> QED
      BY <1>2, <1>10, <2>1, <2>2 DEF CheckedApplies
  <1>11. ASSUME NEW i, AcceptedRuns(i)
         PROVE  Flags'
    <2>1. /\ On(ready') \subseteq On(ready) /\ On(ready) \subseteq On(ready') \cup {"accepted"}
          /\ "accepted" \in On(ready)
      BY <1>11, RunIsMessage DEF AcceptedRuns
    <2> QED
      BY <1>11, <2>1 DEF AcceptedRuns
  <1>12. CASE UserChanges
    <2>1. On(inbox') = On(inbox) \/ On(inbox') = On(inbox) \cup {"push"}
             \/ On(inbox') = On(inbox) \cup {"notice"}
      <3>1. setting' \in BOOLEAN
        BY <1>12 DEF UserChanges, Types
      <3>2. /\ Valued("push", 0, setting') \in Message /\ Plain("notice") \in Message
            /\ Valued("push", 0, setting').kind = "push" /\ Plain("notice").kind = "notice"
        BY <3>1, MessageTypes DEF Kinds
      <3> QED
        BY <1>12, <3>2, OnAppend DEF UserChanges, Types
    <2>2. UNCHANGED <<outbox, ready, around, watches, reading, seen, enabled, registered>>
      BY <1>12 DEF UserChanges
    <2> QED
      BY <2>1, <2>2
  <1>13. CASE Subscribes \/ ReadsSetting
    <2>1. \E kind \in {"registerConfiguration", "configuration"} :
             On(outbox) = {kind} \cup On(outbox')
      BY <1>13, ReachedIsMessage DEF Subscribes, ReadsSetting
    <2>2. UNCHANGED <<inbox, ready, around, watches, seen, enabled, registered>>
      BY <1>13 DEF Subscribes, ReadsSetting
    <2>3. ReadsToAnswer'
      BY <1>13 DEF Subscribes, ReadsSetting, Valued
    <2> QED
      BY <2>1, <2>2, <2>3
  <1>14. ASSUME NEW m \in reading, AnswersSetting(m) \/ FailsSetting(m)
         PROVE  Flags'
    <2>1. UNCHANGED <<ready, outbox, around, watches, seen, enabled, registered>>
      BY <1>14 DEF AnswersSetting, FailsSetting
    <2>2. m.kind = "answer" /\ reading' \subseteq reading
      BY <1>14 DEF AnswersSetting, FailsSetting
    <2>3. On(inbox) \subseteq On(inbox') /\ On(inbox') \subseteq On(inbox) \cup {"answer"}
      <3>1. m \in Message /\ inbox \in Seq(Message)
        BY DEF Types
      <3>2. CASE AnswersSetting(m)
        BY <2>2, <3>1, <3>2, OnAppend DEF AnswersSetting
      <3>3. CASE FailsSetting(m)
        BY <3>3 DEF FailsSetting
      <3> QED
        BY <1>14, <3>2, <3>3
    <2> QED
      BY <2>1, <2>2, <2>3
  <1>15. CASE AcceptsWatchers
    <2>1. On(inbox') = On(inbox) \cup {"accepted"}
      <3>1. Plain("accepted") \in Message /\ Plain("accepted").kind = "accepted"
        BY MessageTypes DEF Kinds
      <3> QED
        BY <1>15, <3>1, OnAppend DEF AcceptsWatchers, Types
    <2>2. On(outbox) = {"registerWatchers"} \cup On(outbox')
      BY <1>15, ReachedIsMessage DEF AcceptsWatchers
    <2> QED
      BY <1>15, <2>1, <2>2 DEF AcceptsWatchers
  <1>16. CASE RejectsWatchers
    <2>1. On(outbox) = {"registerWatchers"} \cup On(outbox')
      BY <1>16, ReachedIsMessage DEF RejectsWatchers
    <2> QED
      BY <1>16, <2>1 DEF RejectsWatchers
  <1>17. CASE Repolls
    <2>1. On(inbox') = On(inbox) \cup {"poll"}
      <3>1. Plain("poll") \in Message /\ Plain("poll").kind = "poll"
        BY MessageTypes DEF Kinds
      <3> QED
        BY <1>17, <3>1, OnAppend DEF Repolls, Types
    <2>2. On(outbox) = {"refresh"} \cup On(outbox')
      BY <1>17, ReachedIsMessage DEF Repolls
    <2> QED
      BY <1>17, <2>1, <2>2 DEF Repolls
  <1>18. CASE UNCHANGED switchVars
    BY <1>18 DEF switchVars
  <1>19. CASE MainLoop
    BY <1>1, <1>3, <1>4, <1>5, <1>6, <1>19 DEF MainLoop
  <1>20. CASE Tasks
    <2>1. CASE \E m \in checked : CheckedApplies(m)
      BY <1>10, <2>1
    <2>2. ASSUME NEW i \in 1..Len(ready),
                 TaskSends(i) \/ AnswerDropped(i) \/ AnswerApplied(i) \/ AnswerChecked(i)
                     \/ AcceptedRuns(i)
          PROVE  Flags'
      BY <1>7, <1>8, <1>9, <1>11, <2>2
    <2> QED
      BY <1>20, <2>1, <2>2 DEF Tasks
  <1>21. CASE ClientSteps
    <2>1. CASE \E m \in reading : AnswersSetting(m) \/ FailsSetting(m)
      BY <1>14, <2>1
    <2>2. CASE Subscribes \/ ReadsSetting \/ AcceptsWatchers \/ RejectsWatchers \/ Repolls
      BY <1>13, <1>15, <1>16, <1>17, <2>2
    <2> QED
      BY <1>21, <2>1, <2>2 DEF ClientSteps
  <1> QED
    BY <1>12, <1>18, <1>19, <1>20, <1>21 DEF SwitchNext

LEMMA FlagsAlways == SwitchSpec => [](Types /\ Flags)
  <1>1. SwitchInit => Types /\ Flags
    BY TypesInit, FlagsInit
  <1>2. Types /\ Flags /\ [SwitchNext]_switchVars => Types' /\ Flags'
    BY TypesStep, FlagsStep
  <1> QED
    BY <1>1, <1>2, PTL DEF SwitchSpec

\* watchers_registered says what the client did, in any surroundings and on
\* any number of threads (register_watchers, apply_enabled).
THEOREM SwitchRegistered == SwitchSpec => []RegisteredTruthful
  <1>1. Types /\ Flags => RegisteredTruthful
    BY OnEmpty DEF Flags, AcceptedFirst, AsksForWatchers, Pending, Sent, RegisteredTruthful, Quiet
  <1> QED
    BY <1>1, FlagsAlways, PTL

\* However often the switch flips, the client polls after the last flip
\* (apply_enabled).
THEOREM SwitchClientLearns == SwitchSpec => []ClientLearns
  <1>1. Types /\ Flags => ClientLearns
    BY OnEmpty DEF Flags, AsksToPoll, Sent, ClientLearns, Quiet
  <1> QED
    BY <1>1, FlagsAlways, PTL

-----------------------------------------------------------------------------
(* On one thread: what has been asked for and what is coming *)

News == {"initialized", "push", "notice"}

OnWay == Msgs(inbox) \cup Msgs(ready) \cup Msgs(outbox) \cup reading

Configurations == {m \in Msgs(ready) \cup Msgs(outbox) : m.kind = "configuration"}
Answers == {m \in Msgs(inbox) \cup Msgs(ready) \cup reading : m.kind = "answer"}

\* No request is ahead of the generation, and those of an earlier one are
\* outdated for good.
NoneAhead ==
    /\ \A m \in OnWay : m.generation <= generation
    /\ checked = {}

\* The last news on its way, when it carries a value, carries the setting.
LastPush(s, v) ==
    \A i \in 1..Len(s) :
        s[i].kind = "push" /\ (\A j \in i + 1..Len(s) : s[j].kind \notin News) => s[i].value = v

LastNews == LastPush(inbox, setting)

\* With no news on its way the switch agrees, or the client has been asked or
\* is being asked under the present generation; and what it answers agrees.
Asked ==
    On(inbox) \cap News = {} =>
        /\ \/ enabled = setting
           \/ \E m \in Configurations \cup Answers : m.generation = generation
        /\ \A m \in Answers : m.generation = generation => m.value = setting

\* A request for the setting comes after one for the notifications.
Guarded(s) ==
    \A i \in 1..Len(s) :
        s[i].kind = "configuration" =>
            \E j \in 1..Len(s) : j < i /\ s[j].kind = "registerConfiguration"

\* Before it is registered for, a change reaches the server in no message:
\* the client has read nothing and is yet to be asked.
BeforeSubscription ==
    NeedsRegistration /\ ~subscribed =>
        /\ Answers = {} /\ On(inbox) \cap {"push", "notice"} = {}
        /\ \/ "initialized" \in On(inbox)
           \/ \E m \in Configurations : m.generation = generation
        /\ Guarded(outbox)
        /\ "registerConfiguration" \in On(outbox) \/ Guarded(ready)

Agreement == Dependable => NoneAhead /\ LastNews /\ Asked /\ BeforeSubscription

LEMMA GuardedTail ==
    ASSUME NEW s \in Seq(Message), s # << >>, Guarded(s)
    PROVE  /\ Head(s).kind # "configuration"
           /\ Head(s).kind # "registerConfiguration" => Guarded(Tail(s))
  <1>1. /\ Len(s) \in Nat \ {0} /\ Head(s) = s[1]
        /\ Len(Tail(s)) = Len(s) - 1
        /\ \A i \in 1..Len(Tail(s)) : Tail(s)[i] = s[i + 1]
    BY HeadTailProperties, EmptySeq
  <1>2. Head(s).kind # "configuration"
    BY <1>1 DEF Guarded
  <1>3. ASSUME Head(s).kind # "registerConfiguration",
               NEW i \in 1..Len(Tail(s)), Tail(s)[i].kind = "configuration"
        PROVE  \E j \in 1..Len(Tail(s)) : j < i /\ Tail(s)[j].kind = "registerConfiguration"
    <2>1. PICK j \in 1..Len(s) : j < i + 1 /\ s[j].kind = "registerConfiguration"
      BY <1>1, <1>3 DEF Guarded
    <2>2. j - 1 \in 1..Len(Tail(s)) /\ j - 1 < i /\ Tail(s)[j - 1] = s[j]
      BY <1>1, <1>3, <2>1
    <2> QED
      BY <2>1, <2>2
  <1> QED
    BY <1>2, <1>3 DEF Guarded

LEMMA GuardedAppend ==
    ASSUME NEW s \in Seq(Message), NEW m \in Message, Guarded(s),
           m.kind # "configuration" \/ "registerConfiguration" \in On(s)
    PROVE  Guarded(Append(s, m))
  <1>1. /\ Len(s) \in Nat /\ Len(Append(s, m)) = Len(s) + 1
        /\ \A i \in 1..Len(s) : Append(s, m)[i] = s[i]
        /\ Append(s, m)[Len(s) + 1] = m
    BY AppendProperties, LenProperties
  <1>2. ASSUME NEW i \in 1..Len(s), s[i].kind = "configuration"
        PROVE  \E j \in 1..Len(s) + 1 : j < i /\ Append(s, m)[j].kind = "registerConfiguration"
    <2>1. PICK j \in 1..Len(s) : j < i /\ s[j].kind = "registerConfiguration"
      BY <1>2 DEF Guarded
    <2> QED
      BY <1>1, <2>1
  <1>3. ASSUME m.kind = "configuration"
        PROVE  \E j \in 1..Len(s) + 1 :
                  j < Len(s) + 1 /\ Append(s, m)[j].kind = "registerConfiguration"
    <2>1. PICK j \in 1..Len(s) : s[j].kind = "registerConfiguration"
      BY <1>3 DEF On
    <2> QED
      BY <1>1, <2>1
  <1>4. \A i \in 1..Len(s) + 1 : i \in 1..Len(s) \/ i = Len(s) + 1
    BY <1>1
  <1> QED
    BY <1>1, <1>2, <1>3, <1>4 DEF Guarded

LEMMA GuardedConcat ==
    ASSUME NEW s \in Seq(Message), NEW t \in Seq(Message), Guarded(s),
           "configuration" \notin On(t)
    PROVE  Guarded(s \o t)
  <1>1. /\ Len(s) \in Nat /\ Len(t) \in Nat /\ Len(s \o t) = Len(s) + Len(t)
        /\ \A i \in 1..Len(s) + Len(t) :
              (s \o t)[i] = IF i <= Len(s) THEN s[i] ELSE t[i - Len(s)]
    BY ConcatProperties, LenProperties
  <1>2. ASSUME NEW i \in 1..Len(s \o t), (s \o t)[i].kind = "configuration"
        PROVE  \E j \in 1..Len(s \o t) : j < i /\ (s \o t)[j].kind = "registerConfiguration"
    <2>1. i <= Len(s)
      <3>1. ASSUME i > Len(s)
            PROVE  FALSE
        <4>1. i - Len(s) \in 1..Len(t) /\ t[i - Len(s)].kind = "configuration"
          BY <1>1, <1>2, <3>1
        <4> QED
          BY <4>1 DEF On
      <3> QED
        BY <1>1, <3>1
    <2>2. i \in 1..Len(s) /\ s[i].kind = "configuration"
      BY <1>1, <1>2, <2>1
    <2>3. PICK j \in 1..Len(s) : j < i /\ s[j].kind = "registerConfiguration"
      BY <2>2 DEF Guarded
    <2> QED
      BY <1>1, <2>3
  <1> QED
    BY <1>2 DEF Guarded

LEMMA LastPushTail ==
    ASSUME NEW s \in Seq(Message), s # << >>, NEW v, LastPush(s, v)
    PROVE  /\ LastPush(Tail(s), v)
           /\ (Head(s).kind = "push" /\ On(Tail(s)) \cap News = {}) => Head(s).value = v
  <1>1. /\ Len(s) \in Nat \ {0} /\ Head(s) = s[1]
        /\ Len(Tail(s)) = Len(s) - 1
        /\ \A i \in 1..Len(Tail(s)) : Tail(s)[i] = s[i + 1]
    BY HeadTailProperties, EmptySeq
  <1>2. \A j \in 2..Len(s) : j - 1 \in 1..Len(Tail(s)) /\ Tail(s)[j - 1] = s[j]
    BY <1>1
  <1>3. ASSUME NEW i \in 1..Len(Tail(s)), Tail(s)[i].kind = "push",
               \A j \in i + 1..Len(Tail(s)) : Tail(s)[j].kind \notin News
        PROVE  Tail(s)[i].value = v
    <2>1. i + 1 \in 1..Len(s) /\ Tail(s)[i] = s[i + 1]
      BY <1>1
    <2>2. ASSUME NEW j \in (i + 1) + 1..Len(s)
          PROVE  s[j].kind \notin News
      <3>1. j - 1 \in i + 1..Len(Tail(s)) /\ j \in 2..Len(s)
        BY <1>1
      <3> QED
        BY <1>2, <1>3, <3>1
    <2> QED
      BY <1>3, <2>1, <2>2 DEF LastPush
  <1>4. ASSUME Head(s).kind = "push", On(Tail(s)) \cap News = {}
        PROVE  Head(s).value = v
    <2>1. ASSUME NEW j \in 1 + 1..Len(s)
          PROVE  s[j].kind \notin News
      <3>1. j \in 2..Len(s)
        BY <1>1
      <3>2. s[j].kind \in On(Tail(s))
        BY <1>2, <3>1 DEF On
      <3> QED
        BY <1>4, <3>2
    <2> QED
      BY <1>1, <1>4, <2>1 DEF LastPush
  <1> QED
    BY <1>3, <1>4 DEF LastPush

LEMMA LastPushAppend ==
    ASSUME NEW s \in Seq(Message), NEW m \in Message, NEW v,
           \/ m.kind \notin News /\ LastPush(s, v)
           \/ m.kind \in News /\ (m.kind = "push" => m.value = v)
    PROVE  LastPush(Append(s, m), v)
  <1>1. /\ Len(s) \in Nat /\ Len(Append(s, m)) = Len(s) + 1
        /\ \A i \in 1..Len(s) : Append(s, m)[i] = s[i]
        /\ Append(s, m)[Len(s) + 1] = m
    BY AppendProperties, LenProperties
  <1> DEFINE t == Append(s, m)
  <1>2. ASSUME NEW i \in 1..Len(t), t[i].kind = "push",
               \A j \in i + 1..Len(t) : t[j].kind \notin News
        PROVE  t[i].value = v
    <2>1. CASE i = Len(s) + 1
      BY <1>1, <1>2, <2>1 DEF News
    <2>2. CASE i <= Len(s)
      <3>1. Len(s) + 1 \in i + 1..Len(t)
        BY <1>1, <2>2
      <3>2. m.kind \notin News /\ LastPush(s, v)
        BY <1>1, <1>2, <3>1
      <3>3. \A j \in i + 1..Len(s) : j \in i + 1..Len(t) /\ j \in 1..Len(s)
        BY <1>1, <2>2
      <3>4. \A j \in i + 1..Len(s) : s[j].kind \notin News
        BY <1>1, <1>2, <3>3
      <3>5. i \in 1..Len(s) /\ t[i] = s[i]
        BY <1>1, <2>2
      <3> QED
        BY <1>2, <3>2, <3>4, <3>5 DEF LastPush
    <2> QED
      BY <1>1, <2>1, <2>2
  <1> QED
    BY <1>2 DEF LastPush

LEMMA LastPushNone ==
    ASSUME NEW s \in Seq(Message), NEW v, "push" \notin On(s)
    PROVE  LastPush(s, v)
  BY DEF On, LastPush

\* On one thread the first of the ready tasks runs.
LEMMA FirstRuns ==
    ASSUME Types, ~MultiThread, NEW i, MayRun(i)
    PROVE  /\ ready # << >> /\ Head(ready) = ready[i]
           /\ Without(ready, i) = Tail(ready)
           /\ ready[i] \in Message /\ Tail(ready) \in Seq(Message)
           /\ Msgs(ready) = {ready[i]} \cup Msgs(Tail(ready))
           /\ On(ready) = {ready[i].kind} \cup On(Tail(ready))
  <1>1. i = 1 /\ 1 \in 1..Len(ready) /\ ready \in Seq(Message) /\ Len(ready) \in Nat
    BY LenProperties DEF MayRun, Types
  <1>2. ready # << >>
    BY <1>1, EmptySeq
  <1>3. Head(ready) = ready[1] /\ Tail(ready) = SubSeq(ready, 2, Len(ready))
    BY <1>1, <1>2
  <1>4. SubSeq(ready, 1, 1 - 1) = << >>
    BY <1>1, SubSeqProperties, EmptySeq
  <1>5. Without(ready, i) = << >> \o Tail(ready)
    BY <1>1, <1>3, <1>4 DEF Without
  <1>6. Tail(ready) \in Seq(Message)
    BY <1>1, <1>2, OnTail
  <1>7. << >> \o Tail(ready) = Tail(ready)
    BY <1>6, ConcatEmptySeq
  <1> QED
    BY <1>1, <1>2, <1>3, <1>5, <1>7, OnTail

LEMMA AgreementInit ==
    ASSUME SwitchInit
    PROVE  Agreement
  <1>1. /\ On(inbox) = {"initialized", "poll"}
        /\ Msgs(inbox) = {Plain("initialized"), Plain("poll")}
    <2>1. /\ Plain("initialized") \in Message /\ Plain("initialized").kind = "initialized"
          /\ Plain("poll") \in Message /\ Plain("poll").kind = "poll"
      BY MessageTypes DEF Kinds
    <2>2. inbox = Append(<<Plain("initialized")>>, Plain("poll"))
      BY DEF SwitchInit
    <2> QED
      BY <2>1, <2>2, OnOne, OnAppend
  <1>2. Msgs(ready) = {} /\ Msgs(outbox) = {} /\ reading = {} /\ checked = {}
    BY OnEmpty DEF SwitchInit
  <1>3. NoneAhead
    BY <1>1, <1>2 DEF NoneAhead, OnWay, Plain, SwitchInit
  <1>4. LastNews
    <2>1. inbox \in Seq(Message) /\ "push" \notin On(inbox)
      BY <1>1, TypesInit DEF Types
    <2> QED
      BY <2>1, LastPushNone DEF LastNews
  <1>5. Asked
    BY <1>1 DEF Asked, News
  <1>6. Guarded(outbox) /\ Guarded(ready)
    <2>1. Len(outbox) = 0 /\ Len(ready) = 0
      BY EmptySeq DEF SwitchInit
    <2> QED
      BY <2>1 DEF Guarded
  <1>7. Answers = {}
    BY <1>1, <1>2 DEF Answers, Plain
  <1>8. BeforeSubscription
    BY <1>1, <1>6, <1>7 DEF BeforeSubscription
  <1> QED
    BY <1>3, <1>4, <1>5, <1>8 DEF Agreement

\* A step that only moves messages on, or ends one that is outdated.
LEMMA MovesAgree ==
    ASSUME Asked, BeforeSubscription,
           UNCHANGED <<around, setting, subscribed, enabled, generation>>,
           On(inbox') \cap News = On(inbox) \cap News,
           Answers' \subseteq Answers,
           \A m \in Configurations \cup Answers :
              m.generation = generation => m \in (Configurations \cup Answers)',
           NeedsRegistration /\ ~subscribed =>
              /\ Guarded(outbox')
              /\ "registerConfiguration" \in On(outbox') \/ Guarded(ready')
    PROVE  Asked' /\ BeforeSubscription'
  <1>1. Asked'
    BY DEF Asked
  <1>2. ASSUME NeedsRegistration, ~subscribed
        PROVE  /\ Answers' = {} /\ On(inbox') \cap {"push", "notice"} = {}
               /\ \/ "initialized" \in On(inbox')
                  \/ \E m \in Configurations' : m.generation = generation
    <2>1. Answers' = {}
      BY <1>2 DEF BeforeSubscription
    <2>2. On(inbox') \cap {"push", "notice"} = {}
      BY <1>2 DEF BeforeSubscription, News
    <2>3. CASE "initialized" \in On(inbox)
      BY <2>1, <2>2, <2>3 DEF News
    <2>4. CASE \E m \in Configurations : m.generation = generation
      BY <2>1, <2>2, <2>4
    <2> QED
      BY <1>2, <2>3, <2>4, <2>1, <2>2 DEF BeforeSubscription
  <1>3. BeforeSubscription'
    BY <1>2 DEF BeforeSubscription, NeedsRegistration
  <1> QED
    BY <1>1, <1>3

Parts == NoneAhead /\ LastNews /\ Asked /\ BeforeSubscription

\* News handled outdates every answer on its way, and the request it spawns
\* is of the new generation.
LEMMA AsksAgree ==
    ASSUME Types, Parts,
           UNCHANGED <<around, setting, subscribed, outbox, reading, checked>>,
           generation' = generation + 1,
           inbox # << >>, inbox' = Tail(inbox),
           Msgs(inbox') \subseteq Msgs(inbox), On(inbox') \subseteq On(inbox),
           NEW c \in Msgs(ready'), c.kind = "configuration", c.generation = generation + 1,
           \A m \in Msgs(ready') :
              m \in Msgs(ready) \/ m = c \/ (m.kind # "answer" /\ m.generation = 0),
           NeedsRegistration /\ ~subscribed =>
              "registerConfiguration" \in On(outbox) \/ Guarded(ready')
    PROVE  Parts'
  <1> USE DEF Parts
  <1>1. generation \in Nat
    BY DEF Types
  <1>2. \A m \in OnWay : m.generation <= generation
    BY DEF NoneAhead
  <1>3. \A m \in OnWay' : m \in OnWay \/ m.generation = 0 \/ m.generation = generation + 1
    BY DEF OnWay
  <1>4. NoneAhead'
    <2>1. ASSUME NEW m \in OnWay'
          PROVE  m.generation <= generation + 1
      <3>1. CASE m \in OnWay
        <4>1. m.generation \in Nat /\ m.generation <= generation
          <5>1. m \in Message
            BY <3>1, ElementOfSeq DEF OnWay, Msgs, Types
          <5> QED
            BY <1>2, <3>1, <5>1 DEF Message
        <4> QED
          BY <1>1, <4>1
      <3> QED
        BY <1>1, <1>3, <2>1, <3>1
    <2> QED
      BY <2>1 DEF NoneAhead
  <1>5. LastNews'
    BY LastPushTail DEF LastNews, Types
  <1>6. Answers' \subseteq Answers /\ c \in Configurations'
    BY DEF Answers, Configurations
  <1>7. \A m \in Answers' : m.generation # generation'
    <2>1. \A m \in Answers : m \in OnWay
      BY DEF Answers, OnWay
    <2>2. \A n : n <= generation /\ n = generation + 1 => FALSE
      BY <1>1
    <2> QED
      BY <1>2, <1>6, <2>1, <2>2
  <1>8. Asked'
    BY <1>6, <1>7 DEF Asked
  <1>9. BeforeSubscription'
    BY <1>6 DEF BeforeSubscription, NeedsRegistration
  <1> QED
    BY <1>4, <1>5, <1>8, <1>9

LEMMA InitializedAgrees ==
    ASSUME Types, Parts, InitializedHandled
    PROVE  Parts'
  <1>1. /\ inbox # << >> /\ inbox' = Tail(inbox)
        /\ Msgs(inbox') \subseteq Msgs(inbox) /\ On(inbox') \subseteq On(inbox)
    BY HeadIsMessage DEF InitializedHandled, Arrives
  <1> DEFINE w == WatcherJobs(enabled)
             r == Plain("registerConfiguration")
             c == Valued("configuration", generation + 1, FALSE)
             a == ready \o w
             b == a \o <<r>>
  <1>2. /\ w \in Seq(Message) /\ On(w) \subseteq {"registerWatchers"}
        /\ Msgs(w) \subseteq {Plain("registerWatchers")}
    BY WatcherJobsAre DEF Types
  <1>3. /\ r \in Message /\ r.kind = "registerConfiguration" /\ r.generation = 0
        /\ Plain("registerWatchers").kind = "registerWatchers"
        /\ Plain("registerWatchers").generation = 0
    BY MessageTypes DEF Kinds, Plain
  <1>4. c \in Message /\ c.kind = "configuration" /\ c.generation = generation + 1
    <2>1. generation + 1 \in Nat /\ FALSE \in BOOLEAN /\ "configuration" \in Kinds
      BY DEF Types, Kinds
    <2> QED
      BY <2>1, MessageTypes
  <1>5. /\ UNCHANGED <<around, setting, subscribed, outbox, reading, checked>>
        /\ generation' = generation + 1 /\ ready' = b \o <<c>>
    BY DEF InitializedHandled, ConfigurationJobs, clientVars
  <1> HIDE DEF w, r, c
  <1>6. a \in Seq(Message) /\ Msgs(a) = Msgs(ready) \cup Msgs(w) /\ On(a) = On(ready) \cup On(w)
    BY <1>2, OnConcat DEF Types
  <1> HIDE DEF a
  <1>7. b = Append(a, r)
    BY <1>3, <1>6, AppendIsConcat
  <1>8. b \in Seq(Message) /\ Msgs(b) = Msgs(a) \cup {r} /\ On(b) = On(a) \cup {r.kind}
    BY <1>3, <1>6, <1>7, OnAppend
  <1> HIDE DEF b
  <1>9. b \o <<c>> = Append(b, c)
    BY <1>4, <1>8, AppendIsConcat
  <1>10. Msgs(ready') = Msgs(b) \cup {c}
    BY <1>4, <1>5, <1>8, <1>9, OnAppend
  <1>11. ASSUME NeedsRegistration, ~subscribed
         PROVE  "registerConfiguration" \in On(outbox) \/ Guarded(ready')
    <2>1. CASE Guarded(ready)
      <3>1. Guarded(ready \o w)
        BY <1>2, <2>1, GuardedConcat DEF Types
      <3>2. Guarded(Append(a, r))
        BY <1>3, <1>6, <3>1, GuardedAppend DEF a
      <3>3. Guarded(Append(b, c))
        BY <1>3, <1>4, <1>7, <1>8, <3>2, GuardedAppend
      <3> QED
        BY <1>5, <1>9, <3>3
    <2> QED
      BY <1>11, <2>1 DEF Parts, BeforeSubscription
  <1>12. c \in Msgs(ready')
    BY <1>10
  <1>13. \A m \in Msgs(ready') :
            m \in Msgs(ready) \/ m = c \/ (m.kind # "answer" /\ m.generation = 0)
    BY <1>2, <1>3, <1>6, <1>8, <1>10
  <1> QED
    BY <1>1, <1>4, <1>5, <1>11, <1>12, <1>13, AsksAgree

LEMMA NoticeAgrees ==
    ASSUME Types, Parts, NoticeHandled
    PROVE  Parts'
  <1>1. /\ inbox # << >> /\ inbox' = Tail(inbox) /\ "notice" \in On(inbox)
        /\ Msgs(inbox') \subseteq Msgs(inbox) /\ On(inbox') \subseteq On(inbox)
    BY HeadIsMessage DEF NoticeHandled, Arrives
  <1> DEFINE c == Valued("configuration", generation + 1, FALSE)
  <1>2. c.kind = "configuration" /\ c.generation = generation + 1
    BY DEF Valued
  <1>3. /\ UNCHANGED <<around, setting, subscribed, outbox, reading, checked>>
        /\ generation' = generation + 1
    BY DEF NoticeHandled, NextGeneration, clientVars
  <1>4. Msgs(ready') = Msgs(ready) \cup {c}
    BY ConfigurationJobsAre, OnConcat DEF NoticeHandled, Types
  <1>5. ~(NeedsRegistration /\ ~subscribed)
    BY <1>1 DEF Parts, BeforeSubscription
  <1> HIDE DEF c
  <1>6. c \in Msgs(ready')
    BY <1>4
  <1>7. \A m \in Msgs(ready') :
            m \in Msgs(ready) \/ m = c \/ (m.kind # "answer" /\ m.generation = 0)
    BY <1>4
  <1> QED
    BY <1>1, <1>2, <1>3, <1>5, <1>6, <1>7, AsksAgree

LEMMA PushAgrees ==
    ASSUME Types, Parts, PushHandled
    PROVE  Parts'
  <1> USE DEF Parts
  <1>1. /\ inbox # << >> /\ inbox' = Tail(inbox) /\ "push" \in On(inbox)
        /\ Msgs(inbox') \subseteq Msgs(inbox) /\ On(inbox') \subseteq On(inbox)
        /\ Head(inbox).kind = "push" /\ Head(inbox).value \in BOOLEAN
        /\ inbox \in Seq(Message)
    BY HeadIsMessage DEF PushHandled, Arrives, Types
  <1>2. /\ UNCHANGED <<around, setting, subscribed, outbox, reading, checked>>
        /\ generation' = generation + 1 /\ enabled' = Head(inbox).value
    BY DEF PushHandled, NextGeneration, clientVars
  <1>3. \A m \in Msgs(ready') : m \in Msgs(ready) \/ (m.kind # "answer" /\ m.generation = 0)
    <2>1. Msgs(ready') = Msgs(ready) \cup Msgs(Applied(Head(inbox).value))
      BY <1>1, AppliedJobsAre, OnConcat DEF PushHandled, Types
    <2>2. Msgs(Applied(Head(inbox).value)) \subseteq {Plain("registerWatchers"), Plain("refresh")}
      BY <1>1, AppliedJobsAre
    <2> QED
      BY <2>1, <2>2 DEF Plain
  <1>4. generation \in Nat /\ \A m \in OnWay : m.generation \in Nat /\ m.generation <= generation
    <2>1. \A m \in OnWay : m \in Message
      BY ElementOfSeq DEF OnWay, Msgs, Types
    <2> QED
      BY <2>1 DEF NoneAhead, Message, Types
  <1>5. NoneAhead'
    <2>1. \A m \in OnWay' : m \in OnWay \/ m.generation = 0
      BY <1>1, <1>2, <1>3 DEF OnWay
    <2>2. \A m \in OnWay' : m.generation <= generation + 1
      BY <1>4, <2>1
    <2> QED
      BY <1>2, <2>2 DEF NoneAhead
  <1>6. LastNews'
    BY <1>1, <1>2, LastPushTail DEF LastNews
  <1>7. Asked'
    <2>1. On(inbox') \cap News = {} => enabled' = setting'
      BY <1>1, <1>2, LastPushTail DEF LastNews
    <2>2. ASSUME NEW m \in Answers'
          PROVE  m.generation # generation'
      <3>1. m \in OnWay
        BY <1>1, <1>2, <1>3, <2>2 DEF Answers, OnWay
      <3> QED
        BY <1>2, <1>4, <3>1
    <2> QED
      BY <2>1, <2>2 DEF Asked
  <1>8. BeforeSubscription'
    BY <1>1, <1>2 DEF BeforeSubscription, NeedsRegistration
  <1> QED
    BY <1>5, <1>6, <1>7, <1>8

LEMMA NoneAheadMoves ==
    ASSUME Types, NoneAhead, UNCHANGED <<generation, checked>>,
           \A m \in OnWay' : m \in OnWay \/ m.generation = 0
    PROVE  NoneAhead'
  <1>1. generation \in Nat
    BY DEF Types
  <1> QED
    BY <1>1 DEF NoneAhead

LEMMA ArrivalAgrees ==
    ASSUME Types, Parts,
           PollHandled \/ (\E kind \in {"answer", "accepted"} : ResponseArrives(kind))
    PROVE  Parts'
  <1> USE DEF Parts
  <1>1. PICK kind \in {"poll", "answer", "accepted"} : Arrives(kind)
    BY DEF PollHandled, ResponseArrives
  <1> DEFINE h == Head(inbox)
  <1>2. /\ inbox # << >> /\ inbox' = Tail(inbox) /\ h \in Message /\ h.kind = kind
        /\ On(inbox) = {kind} \cup On(inbox') /\ Msgs(inbox) = {h} \cup Msgs(inbox')
        /\ inbox \in Seq(Message)
    BY <1>1, HeadIsMessage DEF Arrives, Types
  <1>3. UNCHANGED <<around, setting, subscribed, enabled, generation, reading, outbox, checked>>
    BY DEF PollHandled, ResponseArrives, clientVars, switch
  <1>4. \/ ready' = Append(ready, h)
        \/ ready' = ready /\ kind = "poll"
    BY <1>2 DEF PollHandled, ResponseArrives, Arrives
  <1> HIDE DEF h
  <1>5. \/ Msgs(ready') = Msgs(ready) \cup {h}
        \/ Msgs(ready') = Msgs(ready) /\ kind = "poll"
    BY <1>2, <1>4, OnAppend DEF Types
  <1>6. NoneAhead'
    <2>1. OnWay' \subseteq OnWay
      BY <1>2, <1>3, <1>5 DEF OnWay
    <2> QED
      BY <1>3, <2>1, NoneAheadMoves
  <1>7. LastNews'
    BY <1>2, <1>3, LastPushTail DEF LastNews
  <1>8. On(inbox') \cap News = On(inbox) \cap News
    BY <1>2 DEF News
  <1>9. Answers' = Answers /\ Configurations' = Configurations
    BY <1>2, <1>3, <1>5 DEF Answers, Configurations
  <1>10. ASSUME NeedsRegistration, ~subscribed
         PROVE  /\ Guarded(outbox')
                /\ "registerConfiguration" \in On(outbox') \/ Guarded(ready')
    <2>1. Guarded(ready) => Guarded(ready')
      BY <1>2, <1>4, GuardedAppend DEF Types
    <2> QED
      BY <1>3, <1>10, <2>1 DEF BeforeSubscription
  <1>11. Asked' /\ BeforeSubscription'
    BY <1>3, <1>8, <1>9, <1>10, MovesAgree
  <1> QED
    BY <1>6, <1>7, <1>11

\* A task that sends, that finds its answer outdated, or that notes an
\* acceptance.
LEMMA TaskAgrees ==
    ASSUME Types, Parts, ~MultiThread,
           NEW i, TaskSends(i) \/ AnswerDropped(i) \/ AcceptedRuns(i)
    PROVE  Parts'
  <1> USE DEF Parts
  <1> DEFINE m == ready[i]
  <1>1. MayRun(i)
    BY DEF TaskSends, AnswerDropped, AcceptedRuns
  <1>2. /\ ready # << >> /\ Head(ready) = m /\ m \in Message /\ ready' = Tail(ready)
        /\ Msgs(ready) = {m} \cup Msgs(ready') /\ On(ready) = {m.kind} \cup On(ready')
        /\ ready \in Seq(Message) /\ outbox \in Seq(Message)
    BY <1>1, FirstRuns DEF TaskSends, AnswerDropped, AcceptedRuns, Types
  <1>3. UNCHANGED <<around, setting, subscribed, enabled, generation, reading, inbox, checked>>
    BY DEF TaskSends, AnswerDropped, AcceptedRuns, clientVars, switch
  <1>4. \/ m.kind \in ToClient /\ outbox' = Append(outbox, m)
        \/ m.kind = "answer" /\ m.generation # generation /\ outbox' = outbox
        \/ m.kind = "accepted" /\ outbox' = outbox
    BY DEF TaskSends, AnswerDropped, AcceptedRuns, Current
  <1> HIDE DEF m
  <1>5. \/ /\ m.kind \in ToClient
           /\ Msgs(outbox') = Msgs(outbox) \cup {m} /\ On(outbox') = On(outbox) \cup {m.kind}
        \/ m.kind = "answer" /\ m.generation # generation /\ outbox' = outbox
        \/ m.kind = "accepted" /\ outbox' = outbox
    BY <1>2, <1>4, OnAppend
  <1>6. NoneAhead'
    <2>1. OnWay' \subseteq OnWay
      BY <1>2, <1>3, <1>5 DEF OnWay
    <2> QED
      BY <1>3, <2>1, NoneAheadMoves
  <1>7. LastNews'
    BY <1>3 DEF LastNews
  <1>8. Answers' \subseteq Answers
    BY <1>2, <1>3 DEF Answers
  <1>9. ASSUME NEW n \in Configurations \cup Answers, n.generation = generation
        PROVE  n \in (Configurations \cup Answers)'
    BY <1>2, <1>3, <1>5, <1>9 DEF Configurations, Answers, ToClient
  <1>10. ASSUME NeedsRegistration, ~subscribed
         PROVE  /\ Guarded(outbox')
                /\ "registerConfiguration" \in On(outbox') \/ Guarded(ready')
    <2>1. /\ Guarded(outbox)
          /\ "registerConfiguration" \in On(outbox) \/ Guarded(ready)
      BY <1>10 DEF BeforeSubscription
    <2>2. Guarded(ready) => /\ m.kind # "configuration"
                            /\ m.kind # "registerConfiguration" => Guarded(ready')
      BY <1>2, GuardedTail
    <2>3. Guarded(outbox')
      <3>1. CASE outbox' = outbox
        BY <2>1, <3>1
      <3>2. CASE outbox' = Append(outbox, m)
        <4>1. m.kind # "configuration" \/ "registerConfiguration" \in On(outbox)
          BY <2>1, <2>2
        <4>2. Guarded(Append(outbox, m))
          BY <1>2, <2>1, <4>1, GuardedAppend
        <4> QED
          BY <3>2, <4>2
      <3> QED
        BY <1>4, <3>1, <3>2
    <2>4. /\ On(outbox) \subseteq On(outbox')
          /\ m.kind = "registerConfiguration" => m.kind \in On(outbox')
      BY <1>5 DEF ToClient
    <2> QED
      BY <2>1, <2>2, <2>3, <2>4
  <1>11. Asked' /\ BeforeSubscription'
    BY <1>3, <1>8, <1>9, <1>10, MovesAgree
  <1> QED
    BY <1>6, <1>7, <1>11

LEMMA AnswerAgrees ==
    ASSUME Types, Parts, NEW i, AnswerApplied(i)
    PROVE  Parts'
  <1> USE DEF Parts
  <1> DEFINE m == ready[i]
  <1>1. /\ m.kind = "answer" /\ m.generation = generation /\ enabled' = m.value
        /\ UNCHANGED <<around, setting, subscribed, generation, reading, inbox, outbox, checked>>
        /\ ready' = Without(ready, i) \o Applied(m.value)
        /\ ~MultiThread /\ MayRun(i)
    BY DEF AnswerApplied, Current, clientVars
  <1>2. /\ m \in Message /\ Msgs(ready) = {m} \cup Msgs(Without(ready, i))
        /\ Without(ready, i) \in Seq(Message) /\ m.value \in BOOLEAN
    BY <1>1, FirstRuns DEF Message
  <1>3. Applied(m.value) \in Seq(Message)
        /\ Msgs(Applied(m.value)) \subseteq {Plain("registerWatchers"), Plain("refresh")}
    BY <1>2, AppliedJobsAre
  <1> HIDE DEF m
  <1>4. Msgs(ready') = Msgs(Without(ready, i)) \cup Msgs(Applied(m.value))
    BY <1>1, <1>2, <1>3, OnConcat
  <1>5. \A n \in Msgs(ready') : n \in Msgs(ready) \/ (n.kind # "answer" /\ n.generation = 0)
    BY <1>2, <1>3, <1>4 DEF Plain
  <1>6. m \in Answers
    BY <1>1, <1>2 DEF Answers
  <1>7. NoneAhead'
    <2>1. \A n \in OnWay' : n \in OnWay \/ n.generation = 0
      BY <1>1, <1>5 DEF OnWay
    <2> QED
      BY <1>1, <2>1, NoneAheadMoves
  <1>8. LastNews'
    BY <1>1 DEF LastNews
  <1>9. Asked'
    <2>1. Answers' \subseteq Answers
      BY <1>1, <1>5 DEF Answers
    <2> QED
      BY <1>1, <1>6, <2>1 DEF Asked
  <1>10. BeforeSubscription'
    <2>1. ~(NeedsRegistration /\ ~subscribed)
      BY <1>6 DEF BeforeSubscription
    <2> QED
      BY <1>1, <2>1 DEF BeforeSubscription, NeedsRegistration
  <1> QED
    BY <1>7, <1>8, <1>9, <1>10

\* A notified change is news and ends what is said of the setting before it;
\* one that is not finds nothing read yet.
LEMMA ChangeAgrees ==
    ASSUME Types, Parts, UserChanges
    PROVE  Parts'
  <1> USE DEF Parts
  <1>1. /\ UNCHANGED <<around, subscribed, enabled, generation, reading, outbox, ready, checked>>
        /\ setting' = ~setting /\ setting' \in BOOLEAN
    BY DEF UserChanges, switch, Types
  <1>2. CASE subscribed \/ ~NeedsRegistration
    <2>1. PICK m \in {Valued("push", 0, setting'), Plain("notice")} : inbox' = Append(inbox, m)
      BY <1>2 DEF UserChanges
    <2>2. /\ m \in Message /\ m.kind \in {"push", "notice"} /\ m.generation = 0
          /\ m.kind = "push" => m.value = setting'
      <3> DEFINE a == Valued("push", 0, setting')
                 b == Plain("notice")
      <3>1. a \in Message /\ b \in Message /\ b.kind = "notice"
        BY <1>1, MessageTypes DEF Kinds
      <3>2. a.kind = "push" /\ a.generation = 0 /\ a.value = setting' /\ b.generation = 0
        BY DEF Valued, Plain
      <3> HIDE DEF a, b
      <3>3. m = a \/ m = b
        BY <2>1 DEF a, b
      <3> QED
        BY <3>1, <3>2, <3>3
    <2>3. /\ Msgs(inbox') = Msgs(inbox) \cup {m} /\ m.kind \in On(inbox')
      BY <2>1, <2>2, OnAppend DEF Types
    <2>4. NoneAhead'
      <3>1. \A n \in OnWay' : n \in OnWay \/ n.generation = 0
        BY <1>1, <2>2, <2>3 DEF OnWay
      <3> QED
        BY <1>1, <3>1, NoneAheadMoves
    <2>5. LastNews'
      BY <2>1, <2>2, LastPushAppend DEF LastNews, Types, News
    <2>6. Asked'
      BY <2>2, <2>3 DEF Asked, News
    <2>7. BeforeSubscription'
      BY <1>1, <1>2 DEF BeforeSubscription, NeedsRegistration
    <2> QED
      BY <2>4, <2>5, <2>6, <2>7
  <1>3. CASE ~subscribed /\ NeedsRegistration
    <2>1. inbox' = inbox
      BY <1>3 DEF UserChanges
    <2>2. Answers' = Answers /\ Configurations' = Configurations /\ OnWay' = OnWay
      BY <1>1, <2>1 DEF Answers, Configurations, OnWay
    <2>3. NoneAhead'
      BY <1>1, <2>2 DEF NoneAhead
    <2>4. LastNews'
      <3>1. "push" \notin On(inbox)
        BY <1>3 DEF BeforeSubscription
      <3>2. LastPush(inbox, setting')
        BY <3>1, LastPushNone DEF Types
      <3> QED
        BY <2>1, <3>2 DEF LastNews
    <2>5. Asked'
      <3>1. Answers = {} /\ ("initialized" \in On(inbox)
                              \/ \E m \in Configurations : m.generation = generation)
        BY <1>3 DEF BeforeSubscription
      <3> QED
        BY <1>1, <2>1, <2>2, <3>1 DEF Asked, News
    <2>6. BeforeSubscription'
      BY <1>1, <1>3, <2>1, <2>2 DEF BeforeSubscription, NeedsRegistration
    <2> QED
      BY <2>3, <2>4, <2>5, <2>6
  <1> QED
    BY <1>2, <1>3

LEMMA SubscribesAgrees ==
    ASSUME Types, Parts, Subscribes
    PROVE  Parts'
  <1> USE DEF Parts
  <1>1. /\ UNCHANGED <<around, setting, enabled, generation, reading, inbox, ready, checked>>
        /\ subscribed' = TRUE
    BY DEF Subscribes, switch
  <1>2. Msgs(outbox) = {Head(outbox)} \cup Msgs(outbox')
        /\ Head(outbox).kind = "registerConfiguration"
    BY ReachedIsMessage DEF Subscribes
  <1>3. Answers' = Answers /\ Configurations' = Configurations /\ OnWay' \subseteq OnWay
    BY <1>1, <1>2 DEF Answers, Configurations, OnWay
  <1>4. NoneAhead'
    BY <1>1, <1>3 DEF NoneAhead
  <1>5. LastNews'
    BY <1>1 DEF LastNews
  <1>6. Asked'
    BY <1>1, <1>3 DEF Asked
  <1>7. BeforeSubscription'
    BY <1>1 DEF BeforeSubscription
  <1> QED
    BY <1>4, <1>5, <1>6, <1>7

\* The setting is read under the generation of the request.
LEMMA ReadAgrees ==
    ASSUME Types, Parts, ReadsSetting
    PROVE  Parts'
  <1> USE DEF Parts
  <1> DEFINE c == Head(outbox)
             a == Valued("answer", c.generation, setting)
  <1>1. /\ UNCHANGED <<around, setting, subscribed, enabled, generation, inbox, ready, checked>>
        /\ reading' = reading \cup {a}
    BY DEF ReadsSetting, switch
  <1>2. /\ Msgs(outbox) = {c} \cup Msgs(outbox') /\ c.kind = "configuration"
        /\ outbox # << >> /\ outbox \in Seq(Message)
    BY ReachedIsMessage DEF ReadsSetting, Types
  <1>3. a.kind = "answer" /\ a.generation = c.generation /\ a.value = setting
    BY DEF Valued
  <1>4. ~(NeedsRegistration /\ ~subscribed)
    BY <1>2, GuardedTail DEF BeforeSubscription
  <1> HIDE DEF c, a
  <1>5. /\ c \in Configurations /\ Answers' = Answers \cup {a}
        /\ Configurations = Configurations' \cup {c}
    <2>1. c \in Configurations /\ Configurations = Configurations' \cup {c}
      BY <1>1, <1>2 DEF Configurations
    <2>2. Answers' = Answers \cup {a}
      BY <1>1, <1>3 DEF Answers
    <2> QED
      BY <2>1, <2>2
  <1>6. NoneAhead'
    <2>1. c \in OnWay /\ \A n \in OnWay' : n \in OnWay \/ n = a
      BY <1>1, <1>2 DEF OnWay
    <2> QED
      BY <1>1, <1>3, <2>1 DEF NoneAhead
  <1>7. LastNews'
    BY <1>1 DEF LastNews
  <1>8. Asked'
    <2>1. ASSUME On(inbox) \cap News = {}
          PROVE  \/ enabled = setting
                 \/ \E m \in (Configurations \cup Answers)' : m.generation = generation
      <3>1. CASE \E m \in Configurations \cup Answers : m.generation = generation
        <4>1. PICK m \in Configurations \cup Answers : m.generation = generation
          BY <3>1
        <4>2. a \in Answers' /\ (m = c \/ m \in (Configurations \cup Answers)')
          BY <1>5
        <4> QED
          BY <1>3, <4>1, <4>2
      <3> QED
        BY <2>1, <3>1 DEF Asked
    <2>2. ASSUME On(inbox) \cap News = {}, NEW m \in Answers', m.generation = generation
          PROVE  m.value = setting
      BY <1>3, <1>5, <2>2 DEF Asked
    <2> QED
      BY <1>1, <2>1, <2>2 DEF Asked
  <1>9. BeforeSubscription'
    BY <1>1, <1>4 DEF BeforeSubscription, NeedsRegistration
  <1> QED
    BY <1>6, <1>7, <1>8, <1>9

LEMMA AnswerSent ==
    ASSUME Types, Flags, Parts, NEW m \in reading, AnswersSetting(m)
    PROVE  Parts'
  <1> USE DEF Parts
  <1>1. /\ UNCHANGED <<around, setting, subscribed, enabled, generation, outbox, ready, checked>>
        /\ reading' = reading \ {m} /\ inbox' = Append(inbox, m)
    BY DEF AnswersSetting, switch
  <1>2. m \in Message /\ m.kind = "answer" /\ inbox \in Seq(Message)
    BY DEF Types, Flags, ReadsToAnswer
  <1>3. Msgs(inbox') = Msgs(inbox) \cup {m} /\ On(inbox') = On(inbox) \cup {"answer"}
    BY <1>1, <1>2, OnAppend
  <1>4. NoneAhead'
    <2>1. OnWay' \subseteq OnWay
      BY <1>1, <1>3 DEF OnWay
    <2> QED
      BY <1>1, <2>1, NoneAheadMoves
  <1>5. LastNews'
    BY <1>1, <1>2, LastPushAppend DEF LastNews, News
  <1>6. Answers' = Answers /\ Configurations' = Configurations
    BY <1>1, <1>3 DEF Answers, Configurations
  <1>7. On(inbox') \cap News = On(inbox) \cap News
    BY <1>3 DEF News
  <1>8. Asked' /\ BeforeSubscription'
    <2>1. NeedsRegistration /\ ~subscribed =>
             /\ Guarded(outbox')
             /\ "registerConfiguration" \in On(outbox') \/ Guarded(ready')
      BY <1>1 DEF BeforeSubscription
    <2> QED
      BY <1>1, <1>6, <1>7, <2>1, MovesAgree
  <1> QED
    BY <1>4, <1>5, <1>8

\* What the client does with the other requests.
LEMMA ReachedAgrees ==
    ASSUME Types, Parts, AcceptsWatchers \/ RejectsWatchers \/ Repolls
    PROVE  Parts'
  <1> USE DEF Parts
  <1> DEFINE h == Head(outbox)
  <1>1. UNCHANGED <<around, setting, subscribed, enabled, generation, reading, ready, checked>>
    BY DEF AcceptsWatchers, RejectsWatchers, Repolls, clientVars, switch
  <1>2. PICK kind \in {"registerWatchers", "refresh"} : Reaches(kind)
    BY DEF AcceptsWatchers, RejectsWatchers, Repolls
  <1>3. /\ outbox # << >> /\ outbox' = Tail(outbox) /\ h.kind = kind
        /\ On(outbox) = {kind} \cup On(outbox') /\ Msgs(outbox) = {h} \cup Msgs(outbox')
        /\ outbox \in Seq(Message)
    BY <1>2, ReachedIsMessage DEF Reaches, Types
  <1> HIDE DEF h
  <1> DEFINE p == {Plain("accepted"), Plain("poll")}
  <1>4. inbox' = inbox \/ \E m \in p : inbox' = Append(inbox, m)
    BY DEF AcceptsWatchers, RejectsWatchers, Repolls
  <1>5. \A m \in p : m \in Message /\ m.kind \in {"accepted", "poll"} /\ m.generation = 0
    <2>1. /\ Plain("accepted") \in Message /\ Plain("accepted").kind = "accepted"
          /\ Plain("poll") \in Message /\ Plain("poll").kind = "poll"
      BY MessageTypes DEF Kinds
    <2>2. Plain("accepted").generation = 0 /\ Plain("poll").generation = 0
      BY DEF Plain
    <2> QED
      BY <2>1, <2>2
  <1> HIDE DEF p
  <1>6. /\ \A n \in Msgs(inbox') : n \in Msgs(inbox) \/ n \in p
        /\ Msgs(inbox) \subseteq Msgs(inbox')
        /\ On(inbox') \cap News = On(inbox) \cap News
        /\ LastNews'
    <2>1. CASE inbox' = inbox
      BY <1>1, <2>1 DEF LastNews
    <2>2. ASSUME NEW m \in p, inbox' = Append(inbox, m)
          PROVE  /\ Msgs(inbox') = Msgs(inbox) \cup {m}
                 /\ On(inbox') \cap News = On(inbox) \cap News
                 /\ LastNews'
      <3>1. m \in Message /\ inbox \in Seq(Message) /\ m.kind \notin News
        BY <1>5 DEF Types, News
      <3>2. Msgs(inbox') = Msgs(inbox) \cup {m} /\ On(inbox') = On(inbox) \cup {m.kind}
        BY <2>2, <3>1, OnAppend
      <3>3. LastNews'
        BY <1>1, <2>2, <3>1, LastPushAppend DEF LastNews
      <3> QED
        BY <3>1, <3>2, <3>3
    <2> QED
      BY <1>4, <2>1, <2>2
  <1>7. NoneAhead'
    <2>1. \A n \in OnWay' : n \in OnWay \/ n.generation = 0
      BY <1>1, <1>3, <1>5, <1>6 DEF OnWay
    <2> QED
      BY <1>1, <2>1, NoneAheadMoves
  <1>8. Answers' = Answers /\ Configurations' = Configurations
    <2>1. Configurations' = Configurations
      BY <1>1, <1>3 DEF Configurations
    <2>2. Answers' = Answers
      BY <1>1, <1>5, <1>6 DEF Answers
    <2> QED
      BY <2>1, <2>2
  <1>9. ASSUME NeedsRegistration, ~subscribed
        PROVE  /\ Guarded(outbox')
               /\ "registerConfiguration" \in On(outbox') \/ Guarded(ready')
    <2>1. Guarded(outbox')
      BY <1>3, <1>9, GuardedTail DEF BeforeSubscription, h
    <2> QED
      BY <1>1, <1>3, <1>9, <2>1 DEF BeforeSubscription
  <1>10. Asked' /\ BeforeSubscription'
    BY <1>1, <1>6, <1>8, <1>9, MovesAgree
  <1> QED
    BY <1>6, <1>7, <1>10

LEMMA AgreementStep ==
    ASSUME Types, Flags, Agreement, [SwitchNext]_switchVars
    PROVE  Agreement'
  <1>1. around' = around
    BY DEF SwitchNext, MainLoop, Tasks, ClientSteps, switchVars, clientVars, InitializedHandled,
           PushHandled, NoticeHandled, PollHandled, ResponseArrives, TaskSends, AnswerDropped,
           AnswerApplied, AnswerChecked, AcceptedRuns, CheckedApplies, Subscribes, ReadsSetting,
           AcceptsWatchers, RejectsWatchers, Repolls, AnswersSetting, FailsSetting, UserChanges
  <1> SUFFICES ASSUME Dependable
               PROVE  Parts'
    BY <1>1 DEF Agreement, Parts, Dependable, MultiThread
  <1>2. Parts /\ ~MultiThread /\ ~around.mayFail /\ checked = {}
    BY DEF Agreement, Parts, Dependable, NoneAhead
  <1>3. CASE MainLoop
    BY <1>2, <1>3, InitializedAgrees, PushAgrees, NoticeAgrees, ArrivalAgrees DEF MainLoop
  <1>4. CASE Tasks
    <2>1. PICK i \in 1..Len(ready) : TaskSends(i) \/ AnswerDropped(i) \/ AnswerApplied(i)
                                        \/ AnswerChecked(i) \/ AcceptedRuns(i)
      BY <1>2, <1>4 DEF Tasks
    <2>2. ~AnswerChecked(i)
      BY <1>2 DEF AnswerChecked
    <2> QED
      BY <1>2, <2>1, <2>2, TaskAgrees, AnswerAgrees
  <1>5. CASE ClientSteps
    <2>1. CASE \E m \in reading : AnswersSetting(m) \/ FailsSetting(m)
      <3>1. PICK m \in reading : AnswersSetting(m) \/ FailsSetting(m)
        BY <2>1
      <3>2. AnswersSetting(m)
        BY <1>2, <3>1 DEF FailsSetting
      <3> QED
        BY <1>2, <3>2, AnswerSent
    <2>2. CASE Subscribes \/ ReadsSetting \/ AcceptsWatchers \/ RejectsWatchers \/ Repolls
      BY <1>2, <2>2, SubscribesAgrees, ReadAgrees, ReachedAgrees
    <2> QED
      BY <1>5, <2>1, <2>2 DEF ClientSteps
  <1>6. CASE UNCHANGED switchVars
    <2>1. /\ UNCHANGED <<around, setting, subscribed, enabled, generation, reading, inbox,
                          outbox, ready, checked>>
      BY <1>6 DEF switchVars, clientVars, switch
    <2> QED
      BY <1>2, <2>1 DEF Parts, NoneAhead, LastNews, Asked, BeforeSubscription, OnWay, Answers,
                        Configurations, NeedsRegistration
  <1> QED
    BY <1>2, <1>3, <1>4, <1>5, <1>6, ChangeAgrees DEF SwitchNext

\* On one thread, and with a client that answers, no late answer undoes a
\* newer value, whatever the number of changes and the way each is announced
\* (did_change_configuration, request_configuration).
THEOREM SwitchQuiescent == SwitchSpec => []QuiescentAgrees
  <1>1. SwitchInit => Types /\ Flags /\ Agreement
    BY TypesInit, FlagsInit, AgreementInit
  <1>2. Types /\ Flags /\ Agreement /\ [SwitchNext]_switchVars => Types' /\ Flags' /\ Agreement'
    BY TypesStep, FlagsStep, AgreementStep
  <1>3. Types /\ Flags /\ Agreement => QuiescentAgrees
    BY OnEmpty DEF Agreement, Asked, Answers, Configurations, QuiescentAgrees, Quiet
  <1> QED
    BY <1>1, <1>2, <1>3, PTL DEF SwitchSpec
=============================================================================
