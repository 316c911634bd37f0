------------------------------- MODULE MCTail -------------------------------
(* Tail for TLC: a short line, a blank one, and a line that is longer than   *)
(* the buffers and that a cut can tear with something left on both sides.    *)
EXTENDS Tail, TLC

MCNL == {2, 3, 6}
MCKind == [e \in MCNL |-> "row"]

\* For the panic: a line the parser makes no fields of, between two others.
MCNLPanic == {2, 4, 7}
MCKindPanic == [e \in MCNLPanic |-> IF e = 4 THEN "nil" ELSE "row"]
=============================================================================
