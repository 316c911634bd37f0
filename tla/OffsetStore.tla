---------------------------- MODULE OffsetStore ----------------------------
(***************************************************************************)
(* FileConfig (internal/input/file/file.go): the map from log path to the  *)
(* offset up to which the log has been read, and the offsets file it is    *)
(* kept in across restarts.                                                *)
(*                                                                         *)
(* setOffset updates the map under the mutex and emits on a debouncer; the *)
(* debouncer's goroutine saves the map; Close stops the debouncer and      *)
(* saves once more from the main goroutine, without waiting for a save     *)
(* that is under way.  A save marshals the map under the mutex, then       *)
(* os.WriteFile opens the file with O_TRUNC and writes the text.           *)
(*                                                                         *)
(* The process may be killed between any two steps; the file survives it.  *)
(***************************************************************************)
EXTENDS Integers, FiniteSetsExt

CONSTANTS
  Paths,       \* the log files, each the key of one entry
  MaxOffset,   \* MaxOffset[p]: bound on the offsets of p
  Faults,      \* whether writing the offsets file may fail
  ShortWrites, \* whether the text may have been written in part when it fails
  Crashes      \* whether the process may be killed

ASSUME OffsetStoreAssumption == /\ MaxOffset \in [Paths -> Nat]
                                /\ Faults \in BOOLEAN
                                /\ ShortWrites \in BOOLEAN
                                /\ Crashes \in BOOLEAN

None == -1                          \* a path without an entry
Offsets(p) == 0..MaxOffset[p]
Maps == {m \in [Paths -> Int] : \A p \in Paths : m[p] \in Offsets(p) \cup {None}}
NoEntries == [p \in Paths |-> None]
Savers == {"debounce", "close"}     \* the goroutines that call save

VARIABLES
  offsets,     \* the map in memory
  disk,        \* the entries a reader of the offsets file would find
  broken,      \* the offsets file does not parse
  saver,       \* saver[s]: where saver s is in save()
  snap,        \* snap[s]: the map saver s marshalled, while it is in save()
  saveOwed, savePhase, saveClosed,   \* the debouncer
  life         \* "up", "closing" from FileConfig.Close on, "down"

diskVars == <<disk, broken>>
trigVars == <<saveOwed, savePhase, saveClosed>>
offsetVars == <<offsets, disk, broken, saver, snap, trigVars, life>>

D == INSTANCE Trigger WITH owed <- saveOwed, phase <- savePhase,
                           closed <- saveClosed

Idle == [s \in Savers |-> "idle"]
Entries(m) == {p \in Paths : m[p] # None}

OffsetInit == /\ offsets = NoEntries
              /\ disk = NoEntries
              /\ broken = FALSE
              /\ saver = Idle
              /\ snap = [s \in Savers |-> NoEntries]
              /\ saveOwed = 0 /\ savePhase = "idle" /\ saveClosed = FALSE
              /\ life = "up"

-----------------------------------------------------------------------------
(* The map.  The workers' goroutines outlive Close, up to the exit of the  *)
(* process.                                                                *)

\* Mutant: the emit is left out during a save.
SetOffset_EmitsIdle(p, v) ==
  /\ life # "down"
  /\ offsets' = [offsets EXCEPT ![p] = v]
  /\ IF savePhase = "idle" THEN D!Emit ELSE UNCHANGED trigVars
  /\ UNCHANGED <<diskVars, saver, snap, life>>

SetOffset(p, v) == /\ life # "down"
                   /\ offsets' = [offsets EXCEPT ![p] = v]
                   /\ D!Emit
                   /\ UNCHANGED <<diskVars, saver, snap, life>>

Coalesce == /\ life # "down"
            /\ D!Coalesce
            /\ UNCHANGED <<offsets, diskVars, saver, snap, life>>

-----------------------------------------------------------------------------
(* save(): a snapshot, an open that truncates, a write.                    *)

Busy(s) == saver[s] \in {"prepared", "truncated"}

Prepare(s) == /\ saver' = [saver EXCEPT ![s] = "prepared"]
              /\ snap' = [snap EXCEPT ![s] = offsets]

DebouncedSave == /\ life # "down"
                 /\ D!Begin
                 /\ Prepare("debounce")
                 /\ UNCHANGED <<offsets, diskVars, life>>

Truncate(s) == /\ saver[s] = "prepared"
               /\ saver' = [saver EXCEPT ![s] = "truncated"]
               /\ disk' = NoEntries
               /\ broken' = FALSE
               /\ UNCHANGED <<offsets, snap, trigVars, life>>

\* The length of the YAML text, in a model where a longer number takes more
\* room: only which of two texts is longer matters.
TextLen(m) == MapThenSumSet(LAMBDA p : m[p] + 1, Paths)

\* The file holds more than the text about to be written from its start: the
\* other saver wrote it after this one truncated it, and its end stays behind,
\* as junk, as entries of its own or as a text that does not parse.
Leftover(mine) == TextLen(disk) > TextLen(mine)

Overlay(mine) == [p \in Paths |-> IF mine[p] = None THEN disk[p] ELSE mine[p]]

\* Mutant: the emits that came during the save are forgotten.
Returned_Forgets(s) ==
  /\ saver' = [saver EXCEPT ![s] = IF s = "close" THEN "returned" ELSE "idle"]
  /\ snap' = [snap EXCEPT ![s] = NoEntries]
  /\ saveOwed' = 0
  /\ savePhase' = IF s = "debounce" THEN "idle" ELSE savePhase
  /\ UNCHANGED saveClosed

\* save() has returned to the debouncer, or to Close, and its text is gone.
Returned(s) ==
  /\ saver' = [saver EXCEPT ![s] = IF s = "close" THEN "returned" ELSE "idle"]
  /\ snap' = [snap EXCEPT ![s] = NoEntries]
  /\ IF s = "debounce" THEN D!End ELSE UNCHANGED trigVars

WriteText(s) == /\ saver[s] = "truncated"
                /\ IF Leftover(snap[s])
                   THEN /\ disk' \in {snap[s], Overlay(snap[s])}
                        /\ broken' \in BOOLEAN
                   ELSE /\ disk' = snap[s]
                        /\ broken' = FALSE
                /\ Returned(s)
                /\ UNCHANGED <<offsets, life>>

\* What the file may hold after a part of the text: the entries in done, and p
\* with fewer digits, or none.
Partly(mine, done, p, v) ==
  [q \in Paths |-> IF q = p THEN v ELSE IF q \in done THEN mine[q] ELSE disk[q]]

\* An error of WriteFile is logged.  It could not open the file, which keeps what
\* it held; or it could not write it, or only a part of it.
WriteFails(s) ==
  /\ Faults
  /\ Busy(s)
  /\ \/ UNCHANGED diskVars
     \/ /\ ShortWrites
        /\ saver[s] = "truncated"
        /\ \E done \in SUBSET Entries(snap[s]) : \E p \in Entries(snap[s]) :
             \E v \in {disk[p]} \cup 0..snap[s][p] : disk' = Partly(snap[s], done, p, v)
        /\ disk' # snap[s]
        /\ broken' \in BOOLEAN
  /\ Returned(s)
  /\ UNCHANGED <<offsets, life>>

-----------------------------------------------------------------------------
(* Shutdown, exit, crash, restart.                                         *)

Close == /\ life = "up"
         /\ life' = "closing"
         /\ D!Close
         /\ UNCHANGED <<offsets, diskVars, saver, snap>>

\* Mutant: Close stops the debouncer and no more.
CloseSave_Skips == /\ life = "closing"
                   /\ saver["close"] = "idle"
                   /\ saver' = [saver EXCEPT !["close"] = "returned"]
                   /\ UNCHANGED <<offsets, diskVars, snap, trigVars, life>>

\* A stopped debouncer may still begin a run, beside this one.
CloseSave == /\ life = "closing"
             /\ saver["close"] = "idle"
             /\ Prepare("close")
             /\ UNCHANGED <<offsets, diskVars, trigVars, life>>

DebounceExits == /\ life # "down"
                 /\ D!Exit
                 /\ UNCHANGED <<offsets, diskVars, saver, snap, life>>

\* A process that starts has a map, savers and a debouncer of its own.
Reset(m) == /\ offsets' = m
            /\ saver' = Idle
            /\ snap' = [s \in Savers |-> NoEntries]
            /\ saveOwed' = 0
            /\ savePhase' = "idle"
            /\ saveClosed' = FALSE

Ends == /\ life' = "down"
        /\ Reset(NoEntries)
        /\ UNCHANGED diskVars

\* main returns after Close, whatever the debouncer's goroutine is doing.
Exit == /\ saver["close"] = "returned"
        /\ Ends

Crash == /\ Crashes
         /\ life # "down"
         /\ Ends

\* Mutant: the file is not loaded.
Open_Empty == /\ life = "down"
              /\ ~broken
              /\ life' = "up"
              /\ Reset(NoEntries)
              /\ UNCHANGED diskVars

\* Open refuses an offsets file that does not parse, and the program ends.
Open == /\ life = "down"
        /\ ~broken
        /\ life' = "up"
        /\ Reset(disk)
        /\ UNCHANGED diskVars

-----------------------------------------------------------------------------
Save == \/ DebouncedSave
        \/ CloseSave
        \/ \E s \in Savers : Truncate(s) \/ WriteText(s) \/ WriteFails(s)

OffsetNext == \/ \E p \in Paths : \E v \in Offsets(p) : SetOffset(p, v)
              \/ Coalesce
              \/ Save
              \/ Close \/ DebounceExits \/ Exit \/ Crash \/ Open

OffsetSpec == OffsetInit /\ [][OffsetNext]_offsetVars

\* The debouncer runs what it owes (Debounce implements Trigger), and system
\* calls return.  Nothing forces a Close or a restart.
OffsetFairness == /\ WF_offsetVars(DebouncedSave)
                  /\ \A s \in Savers : /\ WF_offsetVars(Truncate(s))
                                       /\ WF_offsetVars(WriteText(s))

-----------------------------------------------------------------------------
(* Correctness.                                                            *)

=============================================================================
