----------------------------- MODULE MCDispatch -----------------------------
(* Instances of RequestDispatch: one file under one folder. *)
EXTENDS RequestDispatch

CONSTANTS u1, f1, r1

MCUnder == [u \in Urls |-> Folders]
MCTextSaves == [u \in Urls |-> {TRUE}]
=============================================================================
