----------------------------- MODULE MCWalkList -----------------------------
(* Instances of WalkListHistory: one file under one folder. *)
EXTENDS WalkListHistory

CONSTANTS u1, f1

MCUnder == [u \in Urls |-> Folders]
MCSaves == [u \in Urls |-> BOOLEAN]
=============================================================================
