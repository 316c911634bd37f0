----------------------------- MODULE MCLogFiles -----------------------------
(* LogFiles for TLC. *)
EXTENDS LogFiles, TLC

CONSTANTS w1, w2

MCWorkers == {w1, w2}
=============================================================================
