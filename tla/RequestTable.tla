------------------------------ MODULE RequestTable ------------------------------
(***************************************************************************)
(* The requests: one definition per file of src/lsp_requests with its      *)
(* hooks, the rows of the dispatch table, and, for each row, what the      *)
(* protocol says of the positions in its params and its response.          *)
(***************************************************************************)
EXTENDS RequestConversions, TLC

-----------------------------------------------------------------------------
(* A position in the request document, and back *)

AtPosition == [Document EXCEPT !.incoming_position = convert_position("position")]

Hover             == [AtPosition EXCEPT !.outgoing = modify_outgoing_hover]
Declaration       == [AtPosition EXCEPT !.outgoing = modify_outgoing_goto_response]
Definition        == [AtPosition EXCEPT !.outgoing = modify_outgoing_goto_response]
Implementation    == [AtPosition EXCEPT !.outgoing = modify_outgoing_goto_response]
TypeDefinition    == [AtPosition EXCEPT !.outgoing = modify_outgoing_goto_response]
References        == [AtPosition EXCEPT !.outgoing = modify_outgoing_locations]
Rename            == [AtPosition EXCEPT !.outgoing = modify_outgoing_workspace_edit]
RenamePrepare     == [AtPosition EXCEPT !.outgoing = modify_outgoing_prepare_rename_response]
DocumentHighlight == [AtPosition EXCEPT !.outgoing = modify_outgoing_document_highlights]
LinkedEditingRange == [AtPosition EXCEPT !.outgoing = modify_outgoing_linked_editing_ranges]
OnTypeFormatting  == [AtPosition EXCEPT !.outgoing = modify_outgoing_text_edits]
CallHierarchyPrepare == [AtPosition EXCEPT !.outgoing = modify_outgoing_call_hierarchy_items]
TypeHierarchyPrepare == [AtPosition EXCEPT !.outgoing = modify_outgoing_type_hierarchy_items]
Moniker           == AtPosition

Completion ==
    [AtPosition EXCEPT !.outgoing =
        Under("text_edit", convert_completion_text_edit)
        \o Under("additional_text_edits", convert_text_edit)]

\* The echoed signature help goes in, after the position.
SignatureHelp ==
    [AtPosition EXCEPT !.incoming_custom = convert_signature_help_label_offsets,
                       !.outgoing = modify_outgoing_signature_help]

-----------------------------------------------------------------------------
(* A range of the request document, or nothing, and back *)

InRange == [Document EXCEPT !.incoming_range = convert_range("range")]

ColorPresentation   == [InRange EXCEPT !.outgoing = modify_outgoing_color_presentations]
DocumentRangeFormat == [InRange EXCEPT !.outgoing = modify_outgoing_text_edits]
InlayHint           == [InRange EXCEPT !.outgoing = modify_outgoing_inlay_hints]
SemanticTokensRange == [InRange EXCEPT !.outgoing = modify_outgoing_semantic_tokens_range_result]

InlineValue ==
    [Document EXCEPT
        !.incoming_custom = convert_range("range") \o convert_range("stopped_location"),
        !.outgoing = convert_range("range")]

CodeAction ==
    [Document EXCEPT
        !.incoming_custom = convert_range("range") \o Under("diagnostics", convert_diagnostic),
        !.outgoing = Under("diagnostics", convert_diagnostic)
                     \o Under("edit", convert_workspace_edit)]

\* A chain of ranges, to a depth of two.
SelectionRange ==
    [Document EXCEPT
        !.incoming_custom = convert_position("positions"),
        !.outgoing = convert_range("range") \o Under("parent", convert_range("range"))]

DocumentLink      == [Document EXCEPT !.outgoing = modify_outgoing_document_links]
DocumentFormat    == [Document EXCEPT !.outgoing = modify_outgoing_text_edits]
WillSaveWaitUntil == [Document EXCEPT !.outgoing = modify_outgoing_text_edits]
FoldingRange      == [Document EXCEPT !.outgoing = modify_outgoing_folding_ranges]
CodeLens          == [Document EXCEPT !.outgoing = modify_outgoing_code_lenses]
DocumentColor     == [Document EXCEPT !.outgoing = modify_outgoing_color_informations]
DocumentSymbol    == [Document EXCEPT !.outgoing = modify_outgoing_document_symbols]
SemanticTokensFull ==
    [Document EXCEPT !.outgoing = modify_outgoing_semantic_tokens_result]
SemanticTokensFullDelta ==
    [Document EXCEPT !.outgoing = modify_outgoing_semantic_tokens_delta_result]

\* The report of the document and those of its related documents, in the
\* three forms a response may have.
DocumentDiagnostics ==
    LET related == modify_outgoing_diagnostic_report_kind_at_url
    IN  [Document EXCEPT !.outgoing =
            Under("items", convert_diagnostic) \o Under("full", related)
            \o Under("unchanged", related) \o Under("partial", related)]

-----------------------------------------------------------------------------
(* An item of a hierarchy, whose document is the request's *)

IncomingCalls ==
    [Document EXCEPT !.incoming_custom = Under("item", convert_call_hierarchy_item),
                     !.outgoing = convert_call_hierarchy_incoming_call]
OutgoingCalls ==
    [Document EXCEPT !.incoming_custom = Under("item", convert_call_hierarchy_item),
                     !.outgoing = convert_call_hierarchy_outgoing_call]
Supertypes ==
    [Document EXCEPT !.incoming_custom = Under("item", convert_type_hierarchy_item),
                     !.outgoing = modify_outgoing_type_hierarchy_items]
Subtypes ==
    [Document EXCEPT !.incoming_custom = Under("item", convert_type_hierarchy_item),
                     !.outgoing = modify_outgoing_type_hierarchy_items]

-----------------------------------------------------------------------------
(* No document in the params *)

WillCreateFiles == [Request EXCEPT !.outgoing = modify_outgoing_workspace_edit]
WillRenameFiles == [Request EXCEPT !.outgoing = modify_outgoing_workspace_edit]
WillDeleteFiles == [Request EXCEPT !.outgoing = modify_outgoing_workspace_edit]
ExecuteCommand  == Request

\* Each symbol against its own document, whatever is tracked.
Symbol ==
    [Request EXCEPT
        !.outgoing_standalone = Under("flat", Under("location", convert_symbol_location))
                                \o Under("nested", Under("location", convert_symbol_location)),
        !.standalone_reads_disk = TRUE]

\* An item that comes back to be completed: the same fields both ways.
Item(hook) == [Resolve EXCEPT !.incoming_custom = hook, !.outgoing = hook]

CompletionResolve ==
    Item(Under("text_edit", convert_completion_text_edit)
         \o Under("additional_text_edits", convert_text_edit))
CodeActionResolve ==
    Item(Under("diagnostics", convert_diagnostic) \o Under("edit", convert_workspace_edit))
DocumentLinkResolve == Item(convert_range("range"))
CodeLensResolve     == Item(convert_range("range"))
InlayHintResolve    == Item(convert_inlay_hint)

WorkspaceSymbolResolve ==
    [Resolve EXCEPT
        !.incoming_standalone = Under("location", convert_workspace_symbol_location),
        !.outgoing_standalone = Under("location", convert_workspace_symbol_location),
        !.standalone_reads_disk = TRUE]

-----------------------------------------------------------------------------
\* lsp_dispatch!: the trait's method and the request it is dispatched with.
Row ==
    [hover |-> Hover, declaration |-> Declaration, definition |-> Definition,
     references |-> References, link |-> DocumentLink, rename |-> Rename,
     rename_prepare |-> RenamePrepare, document_format |-> DocumentFormat,
     document_range_format |-> DocumentRangeFormat, implementation |-> Implementation,
     type_definition |-> TypeDefinition, document_highlight |-> DocumentHighlight,
     on_type_formatting |-> OnTypeFormatting, folding_range |-> FoldingRange,
     linked_editing_range |-> LinkedEditingRange, code_lens |-> CodeLens,
     will_save_wait_until |-> WillSaveWaitUntil, document_color |-> DocumentColor,
     color_presentation |-> ColorPresentation,
     prepare_call_hierarchy |-> CallHierarchyPrepare,
     prepare_type_hierarchy |-> TypeHierarchyPrepare, moniker |-> Moniker,
     will_create_files |-> WillCreateFiles, will_rename_files |-> WillRenameFiles,
     will_delete_files |-> WillDeleteFiles, inlay_hint |-> InlayHint,
     document_symbol |-> DocumentSymbol, execute_command |-> ExecuteCommand,
     semantic_tokens_full |-> SemanticTokensFull,
     semantic_tokens_range |-> SemanticTokensRange,
     semantic_tokens_full_delta |-> SemanticTokensFullDelta, completion |-> Completion,
     code_action |-> CodeAction, document_diagnostics |-> DocumentDiagnostics,
     selection_range |-> SelectionRange, inline_value |-> InlineValue,
     incoming_calls |-> IncomingCalls, outgoing_calls |-> OutgoingCalls,
     supertypes |-> Supertypes, subtypes |-> Subtypes, symbol |-> Symbol,
     signature_help |-> SignatureHelp, completion_resolve |-> CompletionResolve,
     code_action_resolve |-> CodeActionResolve, link_resolve |-> DocumentLinkResolve,
     code_lens_resolve |-> CodeLensResolve, inlay_hint_resolve |-> InlayHintResolve,
     workspace_symbol_resolve |-> WorkspaceSymbolResolve]

Methods == DOMAIN Row

-----------------------------------------------------------------------------
(* The protocol's types: their positions and where these lie *)

Position(field, lies) == {[field |-> <<field>>, lies |-> lies]}
InRequest(field)      == Position(field, "request")
Named(field)          == Position(field, "named")
Inside(prefix, ps)    == {[p EXCEPT !.field = <<prefix>> \o @] : p \in ps}
InRequestAll(fields)  == UNION {InRequest(f) : f \in fields}

\* A hierarchy's params are an item, and its URI names the request document.
OwnItem      == Inside("item", Position("range", "item") \cup Position("selection_range", "item"))
LocationType == Named("range")
LinkType     == InRequest("origin_selection_range") \cup Named("target_range")
                \cup Named("target_selection_range")
GotoType     == Inside("scalar", LocationType) \cup Inside("array", LocationType)
                \cup Inside("link", LinkType)
ItemType     == Named("range") \cup Named("selection_range")
EditType     == InRequest("range")
OneOfEdits   == Named("left") \cup Named("right")
WorkspaceEditType == Named("changes") \cup Inside("edits", OneOfEdits)
                     \cup Inside("operations", OneOfEdits)
RelatedInfo  == Inside("related_information", LocationType)
DiagnosticType == InRequest("range") \cup RelatedInfo
RelatedReport  == Inside("items", Named("range") \cup RelatedInfo)
HintType     == InRequest("position") \cup Inside("text_edits", EditType)
                \cup Inside("label", Inside("location", LocationType))
CompletionType ==
    Inside("text_edit", Inside("edit", EditType)
                        \cup Inside("insert_and_replace", InRequestAll({"insert", "replace"})))
    \cup Inside("additional_text_edits", EditType)
ActionType   == Inside("diagnostics", DiagnosticType) \cup Inside("edit", WorkspaceEditType)
SymbolTree   == InRequestAll({"range", "selection_range"})
Labels       == Position("label", "label")
InLocation   == Inside("location", LocationType)

Signature(params, response) == [params |-> params, response |-> response]
AtPositionOf(response)      == Signature(InRequest("position"), response)
InRangeOf(response)         == Signature(InRequest("range"), response)
DocumentOf(response)        == Signature({}, response)
ItemOf(type)                == Signature(type, type)

Protocol ==
    [m \in {"hover", "rename_prepare", "document_highlight", "on_type_formatting"}
        |-> AtPositionOf(InRequest("range"))]
    @@ [m \in {"declaration", "definition", "implementation", "type_definition"}
        |-> AtPositionOf(GotoType)]
    @@ [m \in {"prepare_call_hierarchy", "prepare_type_hierarchy"} |-> AtPositionOf(ItemType)]
    @@ [m \in {"link", "document_format", "code_lens", "will_save_wait_until", "document_color"}
        |-> DocumentOf(InRequest("range"))]
    @@ [m \in {"will_create_files", "will_rename_files", "will_delete_files"}
        |-> DocumentOf(WorkspaceEditType)]
    @@ [m \in {"link_resolve", "code_lens_resolve"} |-> ItemOf(InRequest("range"))]
    @@ [m \in {"supertypes", "subtypes"} |-> Signature(OwnItem, ItemType)]
    @@ [references |-> AtPositionOf(LocationType),
        rename |-> AtPositionOf(WorkspaceEditType),
        linked_editing_range |-> AtPositionOf(InRequest("ranges")),
        moniker |-> AtPositionOf({}),
        completion |-> AtPositionOf(CompletionType),
        signature_help |-> Signature(InRequest("position") \cup Labels, Labels),
        document_range_format |-> InRangeOf(EditType),
        color_presentation |->
            InRangeOf(Inside("text_edit", EditType) \cup Inside("additional_text_edits", EditType)),
        inlay_hint |-> InRangeOf(HintType),
        semantic_tokens_range |-> InRangeOf(InRequest("data")),
        semantic_tokens_full |-> DocumentOf(InRequest("data")),
        semantic_tokens_full_delta |-> DocumentOf(InRequestAll({"data", "edits"})),
        inline_value |-> Signature(InRequestAll({"range", "stopped_location"}),
                                   InRequest("range")),
        code_action |-> Signature(InRequest("range") \cup Inside("diagnostics", DiagnosticType),
                                  ActionType),
        selection_range |-> Signature(InRequest("positions"),
                                      InRequest("range") \cup Inside("parent", InRequest("range"))),
        folding_range |-> DocumentOf(InRequestAll({"start_character", "end_character"})),
        document_symbol |-> DocumentOf(Inside("flat", InLocation)
                                       \cup Inside("nested", SymbolTree \cup
                                                             Inside("children", SymbolTree))),
        document_diagnostics |->
            DocumentOf(Inside("items", DiagnosticType) \cup Inside("full", RelatedReport)
                       \cup Inside("unchanged", RelatedReport)
                       \cup Inside("partial", RelatedReport)),
        incoming_calls |-> Signature(OwnItem,
                                     Inside("from", ItemType) \cup Named("from_ranges")),
        outgoing_calls |-> Signature(OwnItem,
                                     Inside("to", ItemType) \cup InRequest("from_ranges")),
        execute_command |-> DocumentOf({}),
        symbol |-> DocumentOf(Inside("flat", InLocation) \cup Inside("nested", InLocation)),
        completion_resolve |-> ItemOf(CompletionType),
        code_action_resolve |-> ItemOf(ActionType),
        inlay_hint_resolve |-> ItemOf(HintType),
        workspace_symbol_resolve |-> ItemOf(InLocation)]
=============================================================================
