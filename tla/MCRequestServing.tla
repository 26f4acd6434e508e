-------------------------- MODULE MCRequestServing --------------------------
(* An instance of RequestServing for TLC. *)
EXTENDS RequestServing, TLC

CONSTANTS q1, q2, q3

MCRequests == {q1, q2, q3}

\* Writes that contend for the row, an ingest, a read, and GET /health.
MCKinds == (q1 :> {"write"}) @@ (q2 :> {"write", "ingest"}) @@ (q3 :> {"health", "read"})
=============================================================================
