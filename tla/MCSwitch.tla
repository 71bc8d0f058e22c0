------------------------------ MODULE MCSwitch ------------------------------
(* Instances of DiagnosticsSwitch: one thread under a client that does as    *)
(* asked, and several threads under one that rejects and fails.              *)
EXTENDS DiagnosticsSwitch

MCSettings ==
    {[needsRegistration |-> TRUE, fileWatching |-> TRUE, mayReject |-> FALSE,
      mayFail |-> FALSE, multiThread |-> FALSE, maxChanges |-> 3],
     [needsRegistration |-> FALSE, fileWatching |-> TRUE, mayReject |-> TRUE,
      mayFail |-> TRUE, multiThread |-> TRUE, maxChanges |-> 2]}
=============================================================================
