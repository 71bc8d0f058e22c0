-------------------------- MODULE RequestConversions --------------------------
(***************************************************************************)
(* What the request files (src/lsp_requests) convert.  A hook is the       *)
(* sequence of conversions it makes, in its order; a conversion names the  *)
(* field it rewrites and the document it counts the columns in:            *)
(*   "own"    the document the engine resolved for the request,            *)
(*   "at"     that document if the position's URI is its own, else the     *)
(*            tracked document of the URI, else that document after all,   *)
(*   "store"  the tracked document of the URI, else its file, else none,   *)
(*   "label"  no document: the offsets count in a label string.            *)
(* A range stands for its two ends, a field for all its elements.          *)
(*                                                                         *)
(* Beside it stands what the protocol says: which fields of the params and *)
(* the response hold positions, and whether a position lies in the request *)
(* document, in the document a URI next to it names, or in a label.  The   *)
(* module Requests lets the engine run the first and holds it to the       *)
(* second.                                                                 *)
(***************************************************************************)
EXTENDS Sequences

Conversion(field, how) == <<[field |-> <<field>>, how |-> how]>>

Under(prefix, hook) == [i \in DOMAIN hook |-> [hook[i] EXCEPT !.field = <<prefix>> \o @]]

NoHook == << >>

-----------------------------------------------------------------------------
(* conversion.rs: positions, ranges and what is made of them *)

convert_position(field)     == Conversion(field, "own")
convert_range(field)        == Conversion(field, "own")
convert_range_at_url(field) == Conversion(field, "at")

convert_location == convert_range_at_url("range")

convert_call_hierarchy_item ==
    convert_range_at_url("range") \o convert_range_at_url("selection_range")

convert_type_hierarchy_item ==
    convert_range_at_url("range") \o convert_range_at_url("selection_range")

\* The ranges of an incoming call lie in the caller's document, the item's.
convert_call_hierarchy_incoming_call ==
    Under("from", convert_call_hierarchy_item) \o convert_range_at_url("from_ranges")

\* Those of an outgoing call lie in the request's.
convert_call_hierarchy_outgoing_call ==
    Under("to", convert_call_hierarchy_item) \o convert_range("from_ranges")

convert_text_edit == convert_range("range")

convert_completion_text_edit ==
    Under("edit", convert_text_edit)
    \o Under("insert_and_replace", convert_range("insert") \o convert_range("replace"))

convert_diagnostic ==
    convert_range("range") \o Under("related_information", convert_location)

modify_outgoing_diagnostic_at_url ==
    convert_range_at_url("range") \o Under("related_information", convert_location)

modify_outgoing_diagnostic_report_kind_at_url ==
    Under("items", modify_outgoing_diagnostic_at_url)

modify_outgoing_location_link ==
    convert_range("origin_selection_range") \o convert_range_at_url("target_range")
    \o convert_range_at_url("target_selection_range")

modify_outgoing_goto_response ==
    Under("scalar", convert_location) \o Under("array", convert_location)
    \o Under("link", modify_outgoing_location_link)

modify_outgoing_hover                 == convert_range("range")
modify_outgoing_locations             == convert_location
modify_outgoing_document_links        == convert_range("range")
modify_outgoing_document_highlights   == convert_range("range")
convert_folding_range                 == convert_position("start_character")
                                         \o convert_position("end_character")
modify_outgoing_folding_ranges        == convert_folding_range
modify_outgoing_linked_editing_ranges == convert_range("ranges")
modify_outgoing_code_lenses           == convert_range("range")
modify_outgoing_color_informations    == convert_range("range")
modify_outgoing_color_presentations   ==
    Under("text_edit", convert_text_edit) \o Under("additional_text_edits", convert_text_edit)
modify_outgoing_call_hierarchy_items  == convert_call_hierarchy_item
modify_outgoing_type_hierarchy_items  == convert_type_hierarchy_item
modify_outgoing_text_edits            == convert_text_edit

\* Every edit at the URI its document change names.
convert_workspace_edit ==
    LET edits == convert_range_at_url("left") \o convert_range_at_url("right")
    IN  convert_range_at_url("changes") \o Under("edits", edits) \o Under("operations", edits)

modify_outgoing_workspace_edit == convert_workspace_edit

modify_outgoing_prepare_rename_response == convert_range("range")

convert_inlay_hint ==
    convert_position("position") \o Under("text_edits", convert_text_edit)
    \o Under("label", Under("location", convert_location))

modify_outgoing_inlay_hints == convert_inlay_hint

\* A symbol and its children, to a depth of two.
convert_document_symbol ==
    LET symbol == convert_range("range") \o convert_range("selection_range")
    IN  symbol \o Under("children", symbol)

modify_outgoing_document_symbols ==
    Under("flat", Under("location", convert_location)) \o Under("nested", convert_document_symbol)

convert_signature_help_label_offsets == Conversion("label", "label")
modify_outgoing_signature_help       == convert_signature_help_label_offsets

\* The token streams of TokenStream, as one field each.
modify_outgoing_semantic_tokens_result       == convert_position("data")
modify_outgoing_semantic_tokens_range_result == convert_position("data")
modify_outgoing_semantic_tokens_delta_result ==
    convert_position("data") \o convert_position("edits")

\* symbol.rs and workspace_symbol_resolve.rs
convert_symbol_location           == Conversion("range", "store")
convert_workspace_symbol_location == Conversion("range", "store")

-----------------------------------------------------------------------------
(* lsp_request: a file of hooks becomes an implementation of Request *)

\* The trait's defaults: no URL, no hook; the row says whether it is one of
\* the six resolve(...).
Request ==
    [document |-> FALSE, resolve |-> FALSE,
     incoming_position |-> NoHook, incoming_range |-> NoHook, incoming_custom |-> NoHook,
     outgoing |-> NoHook, incoming_standalone |-> NoHook, outgoing_standalone |-> NoHook,
     standalone_reads_disk |-> FALSE]

Document == [Request EXCEPT !.document = TRUE]
Resolve  == [Request EXCEPT !.resolve = TRUE]

\* modify_params_fn: the position, the range, then the custom hook.
AnchoredParams(m) == m.incoming_position \o m.incoming_range \o m.incoming_custom

\* Mutant: the anchored hook's default does nothing.
ResponseWithoutDelegation(m) == m.outgoing

\* The anchored hooks; a request without one runs its standalone hook.
ModifyParams(m)   == IF AnchoredParams(m) # NoHook THEN AnchoredParams(m)
                     ELSE m.incoming_standalone
ModifyResponse(m) == IF m.outgoing # NoHook THEN m.outgoing ELSE m.outgoing_standalone

ModifyParamsStandalone(m)   == m.incoming_standalone
ModifyResponseStandalone(m) == m.outgoing_standalone
=============================================================================
