----------------------------- MODULE MCWatcher -----------------------------
(* Watcher for TLC: the state space is finite, so only constants are given.  *)
EXTENDS Watcher
=============================================================================
