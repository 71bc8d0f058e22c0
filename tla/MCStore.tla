------------------------------- MODULE MCStore -------------------------------
(* Instances of DocumentStore: two files under one folder. *)
EXTENDS DocumentStore

CONSTANTS u1, u2, f1

MCUnder == [u \in Urls |-> Folders]

\* The client sends u2's text with didSave and may leave u1's to the server.
MCSaveTexts == [u \in Urls |-> IF u = u1 THEN BOOLEAN ELSE {TRUE}]
=============================================================================
