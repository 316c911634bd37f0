------------------------------ MODULE Trigger ------------------------------
(***************************************************************************)
(* What a user of pkg/debounce may rely on.  A trigger owes its function a *)
(* number of runs: an Emit makes it owe at least one, two Emits may be     *)
(* merged into one run, and a debt is only paid by beginning a run that    *)
(* starts after the Emit.  Runs never overlap.  Closing the trigger lets   *)
(* it go away with its debts unpaid, but does not forbid a last run.       *)
(*                                                                         *)
(* Debounce implements this module; the modules of the components that own *)
(* a debouncer (OffsetStore, Tail) are built from its actions.             *)
(***************************************************************************)
EXTENDS Naturals

VARIABLES
  owed,     \* runs not yet begun
  phase,    \* "idle", "busy" while the function runs, "exited"
  closed    \* Stop was called

trigVars == <<owed, phase, closed>>

\* An immediate debouncer owes a run from the start.
TrigInit == /\ owed \in 0..1
            /\ phase = "idle"
            /\ closed = FALSE

Emit == /\ owed' \in 1..2
        /\ owed' >= owed
        /\ UNCHANGED <<phase, closed>>

Coalesce == /\ owed = 2
            /\ owed' = 1
            /\ UNCHANGED <<phase, closed>>

Begin == /\ phase = "idle"
         /\ owed > 0
         /\ owed' = owed - 1
         /\ phase' = "busy"
         /\ UNCHANGED closed

End == /\ phase = "busy"
       /\ phase' = "idle"
       /\ UNCHANGED <<owed, closed>>

Close == /\ closed' = TRUE
         /\ UNCHANGED <<owed, phase>>

Exit == /\ closed
        /\ phase = "idle"
        /\ phase' = "exited"
        /\ owed' \in 0..owed
        /\ UNCHANGED closed

TrigNext == Emit \/ Coalesce \/ Begin \/ End \/ Close \/ Exit

TrigSafe == TrigInit /\ [][TrigNext]_trigVars

\* An owed run is begun, a run whose function returns ends, and a closed trigger
\* exits, though it may be busy now and then.
TrigFairSpec == /\ TrigSafe
                /\ WF_trigVars(Begin)
                /\ WF_trigVars(End)
                /\ SF_trigVars(Exit)
=============================================================================
