------------------------------ MODULE MCRequests ------------------------------
(* Instances of Requests: one request of every shape and one more prime. *)
EXTENDS Requests
=============================================================================
