------------------------------- MODULE Session -------------------------------
(***************************************************************************)
(* The session: what initialize settles between client, implementor and    *)
(* wrapper (src/server/with_state/initialize.rs, src/workspace/            *)
(* diagnostics.rs), the inventory of advertised methods it leaves behind   *)
(* (src/server/inventory.rs), and the gate every request passes            *)
(* (macros/src/dispatch.rs), with requests running side by side.           *)
(*                                                                         *)
(* A capability block says for every provider how it is declared -- not at *)
(* all, with a plain no or yes, or with a block of options -- and which    *)
(* options are set.  The life cycle of the protocol is async-lsp's: the    *)
(* first message is initialize, requests come after initialized.           *)
(***************************************************************************)
EXTENDS Naturals, FiniteSets

CONSTANTS
    Declarations,  \* the capability blocks the implementor may declare
    Implemented,   \* the methods the implementor overrides
    Modes,         \* the ways the server exposes workspace diagnostics
    Clients,       \* the clients: what their initialize offers and can do
    Called,        \* the methods a client calls, granted or not
    Requests       \* the requests that may be in flight together

-----------------------------------------------------------------------------
(* The dispatch table and the capability each of its methods needs *)

\* Providers that are a switch or a block of options.
Switches == {"hover", "declaration", "definition", "references", "rename",
             "document_format", "document_range_format", "implementation",
             "type_definition", "document_highlight", "folding_range",
             "linked_editing_range", "document_color", "prepare_call_hierarchy",
             "moniker", "inlay_hint", "document_symbol", "code_action",
             "selection_range", "inline_value", "symbol"}

\* Providers that are a block of options or nothing.
Blocks == {"link", "on_type_formatting", "code_lens", "execute_command",
           "completion", "document_diagnostics", "signature_help"}

\* Capabilities that are no method of their own.
Holders == {"text_document_sync", "semantic_tokens", "file_operations",
            "workspace_folders"}

Providers == Switches \cup Blocks \cup Holders

\* Methods that need the capability of another.
Companion == [color_presentation |-> "document_color",
              incoming_calls     |-> "prepare_call_hierarchy",
              outgoing_calls     |-> "prepare_call_hierarchy"]

\* Methods that need an option of the same name in a provider's block.  The
\* full leg of the semantic tokens may be set without the delta leg, never
\* the delta leg alone: one field holds both.
FollowUp == [rename_prepare             |-> "rename",
             will_save_wait_until       |-> "text_document_sync",
             will_create_files          |-> "file_operations",
             will_rename_files          |-> "file_operations",
             will_delete_files          |-> "file_operations",
             semantic_tokens_full       |-> "semantic_tokens",
             semantic_tokens_range      |-> "semantic_tokens",
             semantic_tokens_full_delta |-> "semantic_tokens",
             completion_resolve         |-> "completion",
             code_action_resolve        |-> "code_action",
             link_resolve               |-> "link",
             code_lens_resolve          |-> "code_lens",
             inlay_hint_resolve         |-> "inlay_hint",
             workspace_symbol_resolve   |-> "symbol"]

\* lsp-types has no capability for these, so the gate lets them pass.
Exempt == {"prepare_type_hierarchy", "supertypes", "subtypes"}

Resolves == {"completion_resolve", "code_action_resolve", "link_resolve",
             "code_lens_resolve", "inlay_hint_resolve", "workspace_symbol_resolve"}

Methods == Switches \cup Blocks \cup DOMAIN Companion \cup DOMAIN FollowUp \cup Exempt

Options == DOMAIN FollowUp \cup {"workspace_diagnostics", "folders", "folder_changes",
                                 "open_close", "incremental", "include_text"}

Shapes(p) == IF p \in Switches THEN {"absent", "no", "yes", "options"}
                               ELSE {"absent", "options"}

Encodings == {"utf-8", "utf-16", "utf-32"}

\* Options stand in a block.
Capabilities ==
    {c \in [shape: [Providers -> {"absent", "no", "yes", "options"}],
            set: SUBSET Options, encoding: Encodings] :
        /\ \A p \in Providers : c.shape[p] \in Shapes(p)
        /\ \A m \in c.set \cap DOMAIN FollowUp : c.shape[FollowUp[m]] = "options"
        /\ "workspace_diagnostics" \in c.set => c.shape["document_diagnostics"] = "options"
        /\ {"folders", "folder_changes"} \cap c.set # {} => c.shape["workspace_folders"] = "options"
        /\ "semantic_tokens_full_delta" \in c.set => "semantic_tokens_full" \in c.set}

\* `setting` is what the setting's key finds in the initialization options:
\* {} for nothing.  `encodings` may name some this server does not know.
Client == [encodings: SUBSET (Encodings \cup {"other"}), setting: {{}, {TRUE}, {FALSE}},
           configuration: BOOLEAN, dynamicConfiguration: BOOLEAN, watching: BOOLEAN]

\* What a batch run offers in the place of a client (oneshot/server.rs).
OneshotClient == [encodings |-> {"utf-8"}, setting |-> {}, configuration |-> FALSE,
                  dynamicConfiguration |-> FALSE, watching |-> FALSE]

Mode == {"disabled", "enabled", "configurable", "configurableOff"}

ASSUME SessionAssumption ==
    /\ \A c \in Declarations : c \in Capabilities
    /\ Implemented \subseteq Methods
    /\ Modes \subseteq Mode
    /\ Clients \subseteq Client
    /\ Called \subseteq Methods

VARIABLES
    phase,      \* where the life cycle stands
    declared,   \* what the implementor declares
    mode,       \* ServerOptions.workspace_diagnostics
    client,     \* the client of this session
    result,     \* the capabilities the client was sent, or NoResult
    encoding,   \* the encoding the state converts with
    advertised, \* MethodInventory.advertised
    warned,     \* MethodInventory.warned
    diagnostics,\* WorkspaceDiagnosticsState: supported, enabled
    asked,      \* what the server has asked of the client
    requests,   \* requests[r]: its method and where it stands
    warnings    \* warnings[m]: the warnings drawn so far

given   == <<declared, mode, client>>
settled == <<result, encoding, advertised>>
vars    == <<phase, given, settled, warned, diagnostics, asked, requests, warnings>>

NoResult == "no result"
Idle     == [method |-> "none", status |-> "idle"]

Polled == "workspace/diagnostic"

SessionTypeOK ==
    /\ phase \in {"uninitialized", "initializing", "ready"}
    /\ declared \in Declarations
    /\ mode \in Modes
    /\ client \in Clients
    /\ phase = "uninitialized" => result = NoResult
    /\ phase # "uninitialized" => result \in Capabilities
    /\ encoding \in Encodings
    /\ advertised \subseteq Methods \ Exempt
    /\ warned \subseteq Methods
    /\ diagnostics \in [supported: BOOLEAN, enabled: BOOLEAN]
    /\ asked \subseteq {"registerConfiguration", "configuration", "registerWatchers"}
    /\ requests \in [Requests -> [method: Methods \cup {Polled, "none"},
                        status: {"idle", "running", "rejected", "empty", "done"}]]
    /\ warnings \in [Methods -> Nat]

-----------------------------------------------------------------------------
(* The inventory (inventory.rs) *)

\* A switch advertises unless it is a plain no, a block when it is there.
ByProvider(c) == {m \in Switches \cup Blocks : c.shape[m] \in {"yes", "options"}}

\* Some need the provider of another method, some an option of their own.
ByCompanion(c) == {m \in DOMAIN Companion : c.shape[Companion[m]] \in {"yes", "options"}}

ByOption(c) ==
    {m \in DOMAIN FollowUp : c.shape[FollowUp[m]] = "options" /\ m \in c.set}

Advertised(c) == ByProvider(c) \cup ByCompanion(c) \cup ByOption(c)

DispatchAllowed(m) == m \in Exempt \/ m \in advertised

\* Mutant: the bit is read and never set.
WarnAgain(m) ==
    /\ warnings' = [warnings EXCEPT ![m] = IF m \in warned THEN @ ELSE @ + 1]
    /\ UNCHANGED warned

\* warn_once_unadvertised and warn_once_default swap the same bit.
WarnOnce(m) ==
    /\ warnings' = [warnings EXCEPT ![m] = IF m \in warned THEN @ ELSE @ + 1]
    /\ warned' = warned \cup {m}

-----------------------------------------------------------------------------
(* initialize *)

\* The kill switch turns the advertisement off; every other mode leaves the
\* implementor's word as it is.
KillSwitch(c) ==
    IF mode = "disabled" THEN [c EXCEPT !.set = @ \ {"workspace_diagnostics"}] ELSE c

Supported(c) ==
    c.shape["document_diagnostics"] = "options" /\ "workspace_diagnostics" \in c.set

\* Mutant: a new workspace section takes the place of the declared one.
NewWorkspaceSection(c) ==
    IF Supported(c)
    THEN [c EXCEPT !.shape["workspace_folders"] = "options",
                   !.shape["file_operations"] = "absent",
                   !.set = @ \cup {"folders", "folder_changes"}]
    ELSE c

\* enable_workspace_folder_tracking
FolderTracking(c) ==
    IF Supported(c)
    THEN [c EXCEPT !.shape["workspace_folders"] = "options",
                   !.set = @ \cup {"folders", "folder_changes"}]
    ELSE c

\* Mutant: the first encoding the server likes, offered or not.
PreferredEncoding(offers) == IF offers = {} THEN "utf-16" ELSE "utf-8"

\* POSITION_ENCODING_PREFERRED_ORDER; kinds the server does not know do not
\* count, and UTF-16 is the default.
Negotiated(offers) ==
    IF "utf-8" \in offers THEN "utf-8"
    ELSE IF "utf-32" \in offers THEN "utf-32" ELSE "utf-16"

\* The wrapper's own capabilities take the place of the implementor's.
WrapperCapabilities(c) ==
    [c EXCEPT !.encoding = Negotiated(client.encodings),
              !.shape["text_document_sync"] = "options",
              !.set = (@ \ {"will_save_wait_until"})
                          \cup {"open_close", "incremental", "include_text"}]

\* The switch's value before the client's configuration is known: the
\* initialization options decide over the default, if the setting is there.
InitiallyEnabled ==
    \/ mode = "enabled"
    \/ mode = "configurable" /\ client.setting # {FALSE}
    \/ mode = "configurableOff" /\ client.setting = {TRUE}

\* Mutant: the inventory is taken before the wrapper's capabilities are in.
InventoryBefore(configured, final) == Advertised(configured)

Inventory(configured, final) == Advertised(final)

Initialize ==
    /\ phase = "uninitialized"
    /\ phase' = "initializing"
    /\ LET configured == FolderTracking(KillSwitch(declared))
           final      == WrapperCapabilities(configured)
       IN  /\ diagnostics' = [supported |-> Supported(KillSwitch(declared)),
                              enabled |-> InitiallyEnabled]
           /\ advertised' = Inventory(configured, final)
           /\ encoding' = final.encoding
           /\ result' = final
    /\ warned' = {}
    /\ UNCHANGED <<given, asked, requests, warnings>>

\* Mutant: the setting is asked for whether or not anybody uses it.
MayConfigureAlways == mode \in {"configurable", "configurableOff"}

\* configuration_gate
MayConfigure == diagnostics.supported /\ mode \in {"configurable", "configurableOff"}

\* initialized: the watchers and the configuration, each behind its gates.
Initialized ==
    /\ phase = "initializing"
    /\ phase' = "ready"
    /\ asked' =
         (IF client.watching /\ diagnostics.supported /\ diagnostics.enabled
          THEN {"registerWatchers"} ELSE {})
         \cup (IF MayConfigure /\ client.dynamicConfiguration
               THEN {"registerConfiguration"} ELSE {})
         \cup (IF MayConfigure /\ client.configuration THEN {"configuration"} ELSE {})
    /\ UNCHANGED <<given, settled, warned, diagnostics, requests, warnings>>

-----------------------------------------------------------------------------
(* Requests *)

At(r, m, status) == requests' = [requests EXCEPT ![r] = [method |-> m, status |-> status]]

\* The gate: what was not advertised is rejected before anything runs.
Dispatch(r, m) ==
    /\ phase = "ready"
    /\ requests[r] = Idle
    /\ IF DispatchAllowed(m)
       THEN At(r, m, "running") /\ UNCHANGED <<warned, warnings>>
       ELSE At(r, m, "rejected") /\ WarnOnce(m)
    /\ UNCHANGED <<phase, given, settled, diagnostics, asked>>

\* The handler answers.  A trait default answers for a method nobody
\* overrode: it resolves the item, or fails as not implemented, which is
\* worth a warning on an advertised method.
HandlerReturns(r) ==
    /\ requests[r].status = "running"
    /\ LET m == requests[r].method
       IN  /\ At(r, m, "done")
           /\ IF m \notin Implemented \cup Resolves /\ m \in advertised
              THEN WarnOnce(m)
              ELSE UNCHANGED <<warned, warnings>>
    /\ UNCHANGED <<phase, given, settled, diagnostics, asked>>

\* workspace_diagnostic has a gate of its own.
DispatchPoll(r) ==
    /\ phase = "ready"
    /\ requests[r] = Idle
    /\ At(r, Polled, IF ~diagnostics.supported THEN "rejected"
                     ELSE IF diagnostics.enabled THEN "done" ELSE "empty")
    /\ UNCHANGED <<phase, given, settled, warned, diagnostics, asked, warnings>>

\* The client has the reply.
Answered(r) ==
    /\ requests[r].status \in {"rejected", "empty", "done"}
    /\ requests' = [requests EXCEPT ![r] = Idle]
    /\ UNCHANGED <<phase, given, settled, warned, diagnostics, asked, warnings>>

-----------------------------------------------------------------------------
SessionInit ==
    /\ phase = "uninitialized"
    /\ declared \in Declarations
    /\ mode \in Modes
    /\ client \in Clients
    /\ result = NoResult
    /\ encoding = "utf-16"
    /\ advertised = {}
    /\ warned = {}
    /\ diagnostics = [supported |-> FALSE, enabled |-> mode \in {"enabled", "configurable"}]
    /\ asked = {}
    /\ requests = [r \in Requests |-> Idle]
    /\ warnings = [m \in Methods |-> 0]

SessionNext ==
    \/ Initialize
    \/ Initialized
    \/ \E r \in Requests, m \in Called : Dispatch(r, m)
    \/ \E r \in Requests : HandlerReturns(r) \/ DispatchPoll(r) \/ Answered(r)

SessionSpec == SessionInit /\ [][SessionNext]_vars

-----------------------------------------------------------------------------
(* Properties *)

\* The provider behind a method, and what a client or a reader of the docs
\* takes from a capability block (server_trait.rs: "Requires a rename
\* provider with `prepare_provider` enabled").
ProviderOf(m) ==
    IF m \in DOMAIN FollowUp THEN FollowUp[m]
    ELSE IF m \in DOMAIN Companion THEN Companion[m] ELSE m

Granted(m, c) ==
    /\ m \notin Exempt
    /\ c.shape[ProviderOf(m)] \notin {"absent", "no"}
    /\ m \in DOMAIN FollowUp => m \in c.set

\* What the gate lets through is what the client was told it may call, and
\* what it turns away is what the client was not told of, with requests of
\* every kind in flight (initialize.rs: the inventory "must see the result
\* exactly as the client receives it").
GateAgreesWithClient ==
    \A r \in Requests :
        LET m == requests[r].method
        IN  /\ requests[r].status \in {"running", "done"} /\ m # Polled
                   => Granted(m, result) \/ m \in Exempt
            /\ requests[r].status = "rejected" /\ m # Polled => ~Granted(m, result)
            /\ requests[r].status # "idle" /\ m = Polled
                   => (requests[r].status = "rejected" <=> ~Supported(result))

\* A method is warned about once, however many requests for it run at the
\* same time and for whichever of the two reasons, and a granted one only
\* when its implementation is missing (server_trait.rs: "The wrapper warns
\* once per method when a method advertised in server_capabilities reaches
\* its default implementation").
WarnsOnce ==
    \A m \in Methods :
        /\ warnings[m] <= 1
        /\ warnings[m] = 1 /\ Granted(m, result) => m \notin Implemented \cup Resolves

\* Client and server count positions alike: in an encoding the client offers
\* or else in UTF-16, and in none the server likes less than another offered
\* one (encoding.rs: "this encoding must always be used").
EncodingAgreed ==
    phase # "uninitialized" =>
        /\ encoding = result.encoding
        /\ encoding \in client.encodings \cup {"utf-16"}
        /\ "utf-8" \in client.encodings => encoding = "utf-8"
        /\ encoding = "utf-16" => "utf-32" \notin client.encodings

\* The implementor's block reaches the client as it is but for the wrapper's
\* own part, the text synchronization and the folder tracking that workspace
\* diagnostics need, and for the kill switch (options.rs: "The implementor's
\* capabilities block is authoritative except for the Disabled kill-switch").
ImplementorDecides ==
    phase # "uninitialized" =>
        /\ \A m \in Methods : ProviderOf(m) # "text_document_sync"
               => (Granted(m, result) <=> Granted(m, declared))
        /\ Supported(result) <=> Supported(declared) /\ mode # "disabled"
        /\ Supported(result) => {"folders", "folder_changes"} \subseteq result.set

\* The server asks of the client only what the client said it can do, and
\* nothing for diagnostics it did not advertise (diagnostics.rs: "nothing
\* wakes unless the final advertisement said supported").
AsksWithinMandate ==
    /\ asked # {} => Supported(result)
    /\ "registerWatchers" \in asked => client.watching /\ diagnostics.enabled
    /\ "registerConfiguration" \in asked => client.dynamicConfiguration
    /\ "configuration" \in asked => client.configuration

\* A method whose capability the implementor declares as the docs require is
\* not turned away (server_trait.rs: "Requires `will_save_wait_until` enabled
\* in the text-document sync options of Server::server_capabilities").
DeclaredIsServed ==
    \A r \in Requests :
        requests[r].status = "rejected" /\ requests[r].method # Polled
            => ~Granted(requests[r].method, declared)
=============================================================================
