------------------------------ MODULE MCIngest ------------------------------
(* Ingest for TLC: the state space is finite, so only constants are given. *)
EXTENDS Ingest
=============================================================================
