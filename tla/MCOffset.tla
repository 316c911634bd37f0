----------------------------- MODULE MCOffset -----------------------------
(* OffsetHistory for TLC: two logs, the offset of one of them changes.       *)
EXTENDS OffsetHistory, TLC

CONSTANTS a, b

MCPaths == {a, b}
MCMaxOffset == a :> 1 @@ b :> 0
=============================================================================
