---------------------------- MODULE MCRetention ----------------------------
(* Retention for TLC. *)
EXTENDS Retention, TLC

MCUnits == ("h" :> 1) @@ ("d" :> 3)

LOCAL Part(value, unit) == [value |-> value, unit |-> unit]

\* One part and two, an unknown unit, and one that wraps to a negative period.
MCPeriods == {<<Part(2, "h")>>, <<Part(1, "d"), Part(2, "h")>>,
              <<Part(1, "w"), Part(1, "h")>>, <<Part(12, "d")>>}
MCIntervals == {<<Part(1, "h")>>, <<Part(0, "h")>>}
=============================================================================
