--------------------------- MODULE OffsetHistory ---------------------------
(***************************************************************************)
(* OffsetStore with variables that remember, to say what the offsets file  *)
(* keeps across stops, crashes and restarts.                               *)
(***************************************************************************)
EXTENDS OffsetStore

VARIABLES
  entered,     \* the paths that have ever had an entry in the file
  sinceClose,  \* the maps held since Close was called
  disturbed,   \* two saves have overlapped, or one was cut short
  failed       \* a save has failed with no other owed, and no offset has been set since

historyVars == <<offsetVars, entered, sinceClose, disturbed, failed>>

HistoryInit == /\ OffsetInit
               /\ entered = {}
               /\ sinceClose = {}
               /\ disturbed = FALSE
               /\ failed = FALSE

Overlap == \A s \in Savers : saver[s] # "idle"

SaveFails == \E s \in Savers : WriteFails(s)

OffsetSet == \E p \in Paths : \E v \in Offsets(p) : SetOffset(p, v)

CutShort == \/ life' = "down" /\ \E s \in Savers : saver[s] = "truncated"
            \/ SaveFails

HistoryNext ==
  /\ OffsetNext
  /\ entered' = entered \cup Entries(disk')
  /\ sinceClose' = IF life' = "closing" THEN sinceClose \cup {offsets'} ELSE {}
  /\ disturbed' = (disturbed \/ Overlap' \/ CutShort)
  /\ failed' = (life' # "down" /\ ~OffsetSet /\ (failed \/ (SaveFails /\ saveOwed = 0)))

HistorySpec == HistoryInit /\ [][HistoryNext]_historyVars

HistoryFairSpec == HistorySpec /\ OffsetFairness

-----------------------------------------------------------------------------
\* What the save under way, or the last one, leaves in the file.
Saving == IF saver["debounce"] = "idle" THEN disk ELSE snap["debounce"]

\* While the process is up, a map that differs from what the file holds, or
\* is about to hold, has a save owed: the Emit of setOffset is not lost when
\* it falls between the snapshot and the return of the save under way, whether
\* that save succeeds or fails, and the first offset set after a save that
\* failed has the whole map saved.  Excepted is the time between: save only
\* logs an error, and a map that is then left alone is owed nothing.
UnsavedIsOwed ==
  ~failed /\ life = "up" /\ Saving # offsets => saveOwed > 0

\* A map that is left alone is in the file in the end, unless the last save of
\* it failed, or they fail again and again.
QuietMapSaved ==
  \/ []<>(disk = offsets \/ life # "up" \/ failed)
  \/ []<><<offsets' # offsets \/ SaveFails>>_historyVars

\* An entry that a save has put in the file stays in it, through exits,
\* crashes and restarts, unless two saves overlapped or one was cut short:
\* Open loads what the file holds before anything is saved over it.
EntriesSurvive ==
  \/ disturbed
  \/ \E s \in Savers : saver[s] = "truncated"
  \/ entered \subseteq Entries(disk)

\* A stop whose save is alone leaves in the file the map Close found, or one
\* set after it by a worker that is still running.
CleanExitSaves ==
  [][saver["close"] = "returned" /\ life' = "down" /\ ~disturbed'
       => disk' \in sinceClose]_historyVars

=============================================================================
