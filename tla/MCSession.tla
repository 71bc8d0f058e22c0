------------------------------ MODULE MCSession ------------------------------
(* Instances of Session: a few declarations and clients, two requests at a  *)
(* time.                                                                    *)
EXTENDS Session

Bare == [p \in Providers |-> "absent"]

Block(shape, set) == [shape |-> shape, set |-> set, encoding |-> "utf-16"]

MCDeclarations ==
    {Block(Bare, {}),
     Block([Bare EXCEPT !["rename"] = "no", !["document_diagnostics"] = "options"], {}),
     Block([Bare EXCEPT !["rename"] = "yes", !["document_diagnostics"] = "options"],
           {"workspace_diagnostics"}),
     Block([Bare EXCEPT !["rename"] = "options", !["file_operations"] = "options",
                         !["document_diagnostics"] = "options"],
           {"will_create_files", "workspace_diagnostics"}),
     Block([Bare EXCEPT !["rename"] = "options", !["text_document_sync"] = "options",
                         !["document_diagnostics"] = "options"],
           {"rename_prepare", "will_save_wait_until", "workspace_diagnostics"})}

MCClients ==
    {OneshotClient,
     [encodings |-> {}, setting |-> {}, configuration |-> FALSE,
      dynamicConfiguration |-> FALSE, watching |-> FALSE],
     [encodings |-> {"utf-16"}, setting |-> {TRUE}, configuration |-> TRUE,
      dynamicConfiguration |-> FALSE, watching |-> TRUE],
     [encodings |-> {"utf-16", "utf-32"}, setting |-> {FALSE}, configuration |-> FALSE,
      dynamicConfiguration |-> TRUE, watching |-> TRUE],
     [encodings |-> {"utf-8", "utf-16", "other"}, setting |-> {}, configuration |-> TRUE,
      dynamicConfiguration |-> TRUE, watching |-> FALSE]}
=============================================================================
