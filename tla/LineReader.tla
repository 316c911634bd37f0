----------------------------- MODULE LineReader -----------------------------
(***************************************************************************)
(* What a file worker promises of a log that is only appended to: in runs  *)
(* that do not overlap it takes the complete lines one after the other,    *)
(* from the one after the kept offset, and at the end of a run keeps the   *)
(* offset of the last line it took.  Offsets are counted in lines.         *)
(*                                                                         *)
(* Tail implements this module; Ingest is built from its actions.          *)
(***************************************************************************)
EXTENDS Naturals

CONSTANT Lines      \* lines that are ever logged

VARIABLES
  logged,    \* complete lines in the file
  kept,      \* the offset for the next run: fw.offset
  taken,     \* the lines taken so far, in this run
  reading    \* a run is under way

readVars == <<logged, kept, taken, reading>>

ReadInit == /\ logged \in 0..Lines
            /\ kept \in 0..logged
            /\ taken = kept
            /\ reading = FALSE

Log == /\ logged' \in (logged + 1)..Lines
       /\ UNCHANGED <<kept, taken, reading>>

\* Mutant: a run begins with the first line.
Begin_FromStart == /\ ~reading
                   /\ reading' = TRUE
                   /\ taken' = 0
                   /\ UNCHANGED <<logged, kept>>

Begin == /\ ~reading
         /\ reading' = TRUE
         /\ UNCHANGED <<logged, kept, taken>>

Take == /\ reading
        /\ taken < logged
        /\ taken' = taken + 1
        /\ UNCHANGED <<logged, kept, reading>>

\* Mutant: the end of the file is kept.
Finish_KeepsEnd == /\ reading
                   /\ kept' = logged
                   /\ taken' = logged
                   /\ reading' = FALSE
                   /\ UNCHANGED logged

Finish == /\ reading
          /\ kept' = taken
          /\ reading' = FALSE
          /\ UNCHANGED <<logged, taken>>

ReadNext == Log \/ Begin \/ Take \/ Finish

ReadSpec == ReadInit /\ [][ReadNext]_readVars
=============================================================================
