------------------------------ MODULE MCRefresh ------------------------------
(* Instances of WorkspaceRefresh: one file, under one folder or under two   *)
(* nested ones.                                                             *)
EXTENDS WorkspaceRefresh

CONSTANTS u1, f1, f2

MCUnder == [u \in Urls |-> Folders]
MCTextSaves == [u \in Urls |-> {TRUE}]
MCAnySaves  == [u \in Urls |-> BOOLEAN]
=============================================================================
