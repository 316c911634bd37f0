----------------------------- MODULE OffsetProofs -----------------------------
(***************************************************************************)
(* What the offsets file keeps, for every set of logs and every offset,    *)
(* through failures, crashes and restarts: what is not saved is owed, an   *)
(* entry stays, and a stop whose save is alone leaves a map of its own.    *)
(* Before that, the debouncer that begins the saves, which OffsetStore     *)
(* knows as Trigger: it loses no Emit, spaces its runs and implements      *)
(* Trigger, for every Delay, with and without the immediate run.           *)
(***************************************************************************)
EXTENDS OffsetHistory, Debounce, TLAPS

(***************************************************************************)
(* The debouncer.                                                          *)
(***************************************************************************)

\* IInv is inductive: timerActive, the timer and the channel always account
\* for what has been emitted, at every point of watch's loop.
LEMMA DebounceInvariant == Spec => []IInv
<1> USE DebounceAssumption DEF Off
<1>1. Init => IInv
  <2> SUFFICES ASSUME Init PROVE IInv
    OBVIOUS
  <2>1. /\ ~slot /\ ~timerActive /\ ~unserved
        /\ {immediate, slot, stop, timerActive, unserved} \subseteq BOOLEAN
    BY DEF Init
  <2>2. QED
    BY <2>1 DEF Init, IInv, TypeOK, TimerTracked, NoLostEmit, GapCovered
<1>2. IInv /\ [Next]_vars => IInv'
  <2> SUFFICES ASSUME IInv, [Next]_vars PROVE IInv'
    OBVIOUS
  <2> USE DEF IInv, TypeOK, TimerTracked, NoLostEmit, GapCovered
  <2>1. CASE Emit
    BY <2>1 DEF Emit
  <2>2. CASE Stop
    BY <2>2 DEF Stop
  <2>3. CASE Tick
    BY <2>3 DEF Tick
  <2>4. CASE StartImmediate
    <3>1. ~unserved' /\ unserved' \in BOOLEAN
      BY <2>4 DEF StartImmediate, BeginRun
    <3>2. QED
      BY <2>4, <3>1 DEF StartImmediate, BeginRun
  <2>5. CASE StartWaiting
    BY <2>5 DEF StartWaiting
  <2>6. CASE ReturnImmediate
    BY <2>6 DEF ReturnImmediate
  <2>7. CASE TakeStop
    BY <2>7 DEF TakeStop
  <2>8. CASE TakeSignal
    <3>1. ~slot' /\ slot' \in BOOLEAN
      BY <2>8 DEF TakeSignal
    <3>2. QED
      BY <2>8, <3>1 DEF TakeSignal
  <2>9. CASE TakeTimer
    <3>1. ~unserved' /\ unserved' \in BOOLEAN
      BY <2>9 DEF TakeTimer, BeginRun
    <3>2. QED
      BY <2>9, <3>1 DEF TakeTimer, BeginRun
  <2>10. CASE Return
    <3>1. ~timerActive' /\ timerActive' \in BOOLEAN
      BY <2>10 DEF Return
    <3>2. QED
      BY <2>10, <3>1 DEF Return
  <2>11. CASE UNCHANGED vars
    BY <2>11 DEF vars
  <2>12. QED
    BY <2>1, <2>2, <2>3, <2>4, <2>5, <2>6, <2>7, <2>8, <2>9, <2>10, <2>11
       DEF Next, Goroutine
<1>3. QED
  BY <1>1, <1>2, PTL DEF Spec

\* No signal disappears in watch: neither the dropped send of Emit nor a
\* signal absorbed while timerActive leaves an Emit unanswered.
THEOREM NoEmitIsLost == Spec => []NoLostEmit
<1>1. IInv => NoLostEmit
  BY DEF IInv
<1>2. QED
  BY <1>1, DebounceInvariant, PTL

\* watch begins two runs at least Delay apart, whenever Emits arrive.
THEOREM RunsAreSpaced == Spec => RunsSpaced
<1>1. IInv /\ [Next]_vars => [pc' = "running" /\ pc # "running" => gap = Delay]_vars
  <2> SUFFICES ASSUME IInv, Next, pc' = "running", pc # "running"
               PROVE  gap = Delay
    OBVIOUS
  <2>1. TakeTimer
    BY DEF Next, Goroutine, Emit, Stop, Tick, StartImmediate, StartWaiting,
           ReturnImmediate, TakeStop, TakeSignal, Return
  <2>2. QED
    BY <2>1, DebounceAssumption DEF TakeTimer, IInv, TypeOK, GapCovered, Off
<1>2. QED
  BY <1>1, DebounceInvariant, PTL DEF Spec, RunsSpaced

\* Every step of watch and of its callers is a step of Trigger or changes
\* nothing a user of the debouncer can see.
THEOREM SafelyImplementsTrigger == Spec => T!TrigSafe
<1> USE DebounceAssumption DEF Off, One
<1>1. Init => T!TrigInit
  BY DEF Init, T!TrigInit
<1>2. IInv /\ [Next]_vars => [T!TrigNext]_(T!trigVars)
  <2> SUFFICES ASSUME IInv, [Next]_vars PROVE [T!TrigNext]_(T!trigVars)
    OBVIOUS
  <2> USE DEF IInv, TypeOK, TimerTracked, T!TrigNext, T!trigVars
  <2>1. CASE Emit
    BY <2>1 DEF Emit, T!Emit
  <2>2. CASE Stop
    BY <2>2 DEF Stop, T!Close
  <2>3. CASE Tick
    BY <2>3 DEF Tick
  <2>4. CASE StartImmediate
    BY <2>4 DEF StartImmediate, BeginRun, T!Begin
  <2>5. CASE StartWaiting
    BY <2>5 DEF StartWaiting
  <2>6. CASE ReturnImmediate
    BY <2>6 DEF ReturnImmediate, T!End
  <2>7. CASE TakeStop
    BY <2>7 DEF TakeStop, T!Exit
  <2>8. CASE TakeSignal
    BY <2>8 DEF TakeSignal, T!Coalesce
  <2>9. CASE TakeTimer
    BY <2>9 DEF TakeTimer, BeginRun, T!Begin
  <2>10. CASE Return
    BY <2>10 DEF Return, T!End
  <2>11. CASE UNCHANGED vars
    BY <2>11 DEF vars
  <2>12. QED
    BY <2>1, <2>2, <2>3, <2>4, <2>5, <2>6, <2>7, <2>8, <2>9, <2>10, <2>11
       DEF Next, Goroutine
<1>3. QED
  BY <1>1, <1>2, DebounceInvariant, PTL DEF Spec, T!TrigSafe

-----------------------------------------------------------------------------
(***************************************************************************)
(* The offsets.                                                            *)
(***************************************************************************)

IntMaps == [Paths -> Int]

\* The types that the steps need.
Shape == /\ offsets \in IntMaps /\ disk \in IntMaps
         /\ saver \in [Savers -> {"idle", "prepared", "truncated", "returned"}]
         /\ saver["debounce"] # "returned"
         /\ snap \in [Savers -> IntMaps]
         /\ life \in {"up", "closing", "down"}
         /\ saveOwed \in Nat

\* The savers follow the life of the process.
SaversLive == /\ life = "up" => saver["close"] = "idle" /\ ~saveClosed
              /\ life = "down" => saver = Idle
              /\ saver["debounce"] # "idle" => savePhase = "busy"
              /\ failed => life # "down"

Truncated(s) == saver[s] = "truncated"

\* Between the two steps of a save that is alone the file is empty.
EmptyInBetween ==
  \A s \in Savers : Truncated(s) /\ (life = "up" \/ ~disturbed) => disk = NoEntries

\* While no save has overlapped another, one saver is at rest, and the map, the
\* text being saved and the file hold every entry there has been.
EntriesHeld ==
  /\ Entries(disk) \subseteq entered
  /\ ~disturbed =>
       /\ ~Overlap
       /\ life # "down" => entered \subseteq Entries(offsets)
       /\ \A s \in Savers : Busy(s) => /\ entered \subseteq Entries(snap[s])
                                       /\ Entries(snap[s]) \subseteq Entries(offsets)
       /\ (\A s \in Savers : ~Truncated(s)) => entered \subseteq Entries(disk)

\* What Close saves, and leaves in the file, is a map held since it was called.
CloseHolds ==
  life = "closing" =>
    /\ offsets \in sinceClose
    /\ Busy("close") => snap["close"] \in sinceClose
    /\ ~disturbed /\ saver["close"] = "returned" => disk \in sinceClose

HInv == /\ Shape /\ SaversLive /\ EmptyInBetween
        /\ EntriesHeld /\ CloseHolds /\ UnsavedIsOwed

-----------------------------------------------------------------------------
\* A process that starts on an empty offsets file owes nothing.
LEMMA InitEstablishes == HistoryInit => HInv
<1> SUFFICES ASSUME HistoryInit PROVE HInv
  OBVIOUS
<1> USE DEF HistoryInit, OffsetInit, NoEntries, Idle, None, Savers, Busy
<1>1. Entries(disk) = {}
  BY DEF Entries
<1>2. Shape
  BY DEF Shape, IntMaps
<1>3. SaversLive /\ EmptyInBetween /\ CloseHolds
  BY DEF SaversLive, EmptyInBetween, CloseHolds, Truncated
<1>4. EntriesHeld
  BY <1>1 DEF EntriesHeld, Overlap, Truncated
<1>5. UnsavedIsOwed
  BY DEF UnsavedIsOwed, Saving
<1> QED
  BY <1>2, <1>3, <1>4, <1>5 DEF HInv

\* Every step of the workers, of the two savers and of the life of the process
\* keeps the invariant.
LEMMA StepPreserves == HInv /\ [HistoryNext]_historyVars => HInv'
<1> SUFFICES ASSUME HInv, [HistoryNext]_historyVars PROVE HInv'
  OBVIOUS
<1> USE OffsetStoreAssumption
<1> USE DEF HInv, Shape, IntMaps, SaversLive, Truncated, EmptyInBetween, EntriesHeld,
            CloseHolds, UnsavedIsOwed, Saving, Savers, Busy, None, NoEntries,
            Idle, Overlap, Offsets
<1>1. Entries(NoEntries) = {}
  BY DEF Entries
<1>2. ASSUME HistoryNext PROVE HInv'
  <2>1. /\ entered' = entered \cup Entries(disk')
        /\ sinceClose' = IF life' = "closing" THEN sinceClose \cup {offsets'} ELSE {}
        /\ disturbed' = (disturbed \/ Overlap' \/ CutShort)
        /\ failed' = (life' # "down" /\ ~OffsetSet /\ (failed \/ (SaveFails /\ saveOwed = 0)))
        /\ OffsetSet => saveOwed' > 0
    BY <1>2 DEF HistoryNext, OffsetSet, SetOffset, D!Emit
  <2>2. ASSUME NEW p \in Paths, NEW v \in Offsets(p), SetOffset(p, v) PROVE HInv'
    <3>1. Entries(offsets) \subseteq Entries(offsets')
      BY <2>2 DEF SetOffset, Entries
    <3>2. /\ saveOwed' \in Nat /\ saveOwed' > 0
          /\ offsets' \in IntMaps
          /\ UNCHANGED <<disk, saver, snap, savePhase, saveClosed, life>>
      BY <2>2 DEF SetOffset, D!Emit, diskVars
    <3>3. Shape' /\ UnsavedIsOwed'
      BY <3>2
    <3>4. SaversLive' /\ EmptyInBetween'
      BY <2>1, <2>2, <3>2 DEF SetOffset, CutShort, SaveFails, WriteFails
    <3>5. EntriesHeld' /\ CloseHolds'
      BY <2>1, <3>1, <3>2
    <3> QED
      BY <3>3, <3>4, <3>5
  <2>3. CASE Coalesce
    <3>1. /\ saveOwed = 2 /\ saveOwed' = 1
          /\ UNCHANGED <<offsets, disk, saver, snap, savePhase, saveClosed, life>>
          /\ ~SaveFails
      BY <2>3 DEF Coalesce, D!Coalesce, diskVars, SaveFails, WriteFails, Returned
    <3>2. Shape'
      BY <3>1
    <3>3. SaversLive'
      BY <2>1, <3>1
    <3>4. EmptyInBetween'
      BY <2>1, <3>1
    <3>5. EntriesHeld'
      BY <1>1, <2>1, <3>1
    <3>6. CloseHolds'
      BY <2>1, <3>1
    <3>7. UnsavedIsOwed'
      BY <2>1, <3>1
    <3> QED
      BY <3>2, <3>3, <3>4, <3>5, <3>6, <3>7
  <2>4. CASE DebouncedSave
    <3>1. /\ saver' = [saver EXCEPT !["debounce"] = "prepared"]
          /\ snap' = [snap EXCEPT !["debounce"] = offsets]
          /\ saveOwed' \in Nat
          /\ savePhase' = "busy"
          /\ saver["debounce"] = "idle"
          /\ life # "down"
          /\ UNCHANGED <<offsets, disk, saveClosed, life>>
          /\ ~SaveFails
      BY <2>4 DEF DebouncedSave, D!Begin, Prepare, diskVars, SaveFails, WriteFails, Returned
    <3>2. Shape'
      BY <3>1
    <3>3. SaversLive' /\ EmptyInBetween' /\ UnsavedIsOwed'
      BY <2>1, <3>1
    <3>4. EntriesHeld'
      BY <1>1, <2>1, <3>1
    <3>5. CloseHolds'
      BY <2>1, <3>1
    <3> QED
      BY <3>2, <3>3, <3>4, <3>5
  <2>5. CASE CloseSave
    <3>1. Shape' /\ SaversLive' /\ EmptyInBetween'
      BY <2>1, <2>5 DEF CloseSave, Prepare, trigVars, diskVars,
         CutShort, SaveFails, WriteFails
    <3>2. EntriesHeld'
      BY <2>1, <2>5 DEF CloseSave, Prepare, trigVars, diskVars,
         CutShort, SaveFails, WriteFails
    <3>3. CloseHolds' /\ UnsavedIsOwed'
      BY <2>1, <2>5 DEF CloseSave, Prepare, trigVars, diskVars,
         CutShort, SaveFails, WriteFails
    <3> QED
      BY <3>1, <3>2, <3>3
  <2>6. ASSUME NEW s \in Savers, Truncate(s) PROVE HInv'
    <3>1. /\ saver[s] = "prepared"
          /\ saver' = [saver EXCEPT ![s] = "truncated"]
          /\ disk' = NoEntries
          /\ UNCHANGED <<offsets, snap, saveOwed, savePhase, saveClosed, life>>
          /\ ~SaveFails
      BY <2>6 DEF Truncate, trigVars, SaveFails, WriteFails, Returned
    <3>2. Shape'
      BY <3>1
    <3>3. SaversLive' /\ EmptyInBetween' /\ UnsavedIsOwed'
      BY <2>1, <3>1
    <3>4. EntriesHeld'
      BY <1>1, <2>1, <3>1
    <3>5. CloseHolds'
      BY <2>1, <3>1
    <3> QED
      BY <3>2, <3>3, <3>4, <3>5
  <2>7. ASSUME NEW s \in Savers, WriteText(s) PROVE HInv'
    <3>1. /\ saver[s] = "truncated" /\ saver' = [saver EXCEPT ![s] =
                IF s = "close" THEN "returned" ELSE "idle"]
          /\ snap' = [snap EXCEPT ![s] = NoEntries]
          /\ saveOwed' = saveOwed
          /\ UNCHANGED <<offsets, saveClosed, life>>
      BY <2>7 DEF WriteText, Returned, D!End, trigVars
    <3>2. disk' \in {snap[s], Overlay(snap[s])}
      BY <2>7 DEF WriteText
    <3>3. disk' = snap[s] \/ (life # "up" /\ disturbed /\ disk' = Overlay(snap[s]))
      <4>1. SUFFICES ASSUME disk = NoEntries PROVE Overlay(snap[s]) = snap[s]
        BY <3>1, <3>2
      <4>2. snap[s] \in [Paths -> Int]
        OBVIOUS
      <4> QED
        BY <4>1, <4>2 DEF Overlay
    <3>4. Overlay(snap[s]) \in IntMaps
      BY DEF Overlay
    <3>5. disk' \in IntMaps
      BY <3>2, <3>4
    <3>6. Shape'
      BY <3>1, <3>5
    <3>7. SaversLive'
      <4>1. s = "debounce" \/ (s = "close" /\ UNCHANGED savePhase)
        BY <2>7 DEF WriteText, Returned, trigVars
      <4> QED
        BY <2>1, <3>1, <4>1
    <3>8. EmptyInBetween'
      <4>1. ASSUME NEW q \in Savers, Truncated(q)', life = "up" \/ ~disturbed
            PROVE  FALSE
        BY <3>1, <4>1
      <4> QED
        BY <2>1, <3>1, <4>1
    <3>9. EntriesHeld'
      BY <2>1, <3>1, <3>3
    <3>10. CloseHolds'
      BY <2>1, <3>1, <3>3
    <3>11. UnsavedIsOwed'
      BY <2>1, <3>1, <3>3
    <3> QED
      BY <3>6, <3>7, <3>8, <3>9, <3>10, <3>11
  <2>8. ASSUME NEW s \in Savers, WriteFails(s) PROVE HInv'
    <3>1. /\ saver[s] \in {"prepared", "truncated"} /\ SaveFails
          /\ saver' = [saver EXCEPT ![s] = IF s = "close" THEN "returned" ELSE "idle"]
          /\ snap' = [snap EXCEPT ![s] = NoEntries]
          /\ s = "debounce" \/ (s = "close" /\ UNCHANGED savePhase)
          /\ UNCHANGED <<offsets, saveOwed, saveClosed, life>>
      BY <2>8 DEF WriteFails, Returned, D!End, trigVars, SaveFails
    <3>2. disk' \in IntMaps
      BY <2>8 DEF WriteFails, Partly, diskVars
    <3>3. Shape'
      BY <3>1, <3>2
    <3>4. SaversLive'
      BY <2>1, <3>1
    <3>5. EmptyInBetween'
      BY <2>1, <3>1
    <3>6. EntriesHeld'
      BY <1>1, <2>1, <3>1 DEF CutShort
    <3>7. CloseHolds'
      BY <2>1, <3>1 DEF CutShort
    <3>8. UnsavedIsOwed'
      <4> SUFFICES ASSUME ~failed', life = "up" PROVE saveOwed' > 0
        BY <3>1
      <4>1. CASE saveOwed = 0
        BY <2>1, <3>1, <4>1
      <4>2. CASE saveOwed # 0
        BY <3>1, <4>2
      <4> QED
        BY <4>1, <4>2
    <3> QED
      BY <3>3, <3>4, <3>5, <3>6, <3>7, <3>8
  <2>9. CASE Close
    <3>1. Shape' /\ SaversLive' /\ EmptyInBetween'
      BY <2>1, <2>9 DEF Close, D!Close, diskVars,
         CutShort, SaveFails, WriteFails
    <3>2. EntriesHeld'
      BY <2>1, <2>9 DEF Close, D!Close, diskVars,
         CutShort, SaveFails, WriteFails
    <3>3. CloseHolds' /\ UnsavedIsOwed'
      BY <2>1, <2>9 DEF Close, D!Close, diskVars,
         CutShort, SaveFails, WriteFails
    <3> QED
      BY <3>1, <3>2, <3>3
  <2>10. CASE DebounceExits
    <3>1. /\ life # "down" /\ savePhase = "idle" /\ savePhase' = "exited"
          /\ saveClosed /\ saveOwed' \in Nat
          /\ UNCHANGED <<offsets, disk, saver, snap, saveClosed, life>>
          /\ ~SaveFails
      BY <2>10 DEF DebounceExits, D!Exit, diskVars, SaveFails, WriteFails, Returned
    <3>2. Shape'
      BY <3>1
    <3>3. SaversLive'
      BY <2>1, <3>1
    <3>4. EmptyInBetween'
      BY <2>1, <3>1
    <3>5. EntriesHeld'
      BY <1>1, <2>1, <3>1
    <3>6. CloseHolds'
      BY <2>1, <3>1
    <3>7. UnsavedIsOwed'
      BY <2>1, <3>1
    <3> QED
      BY <3>2, <3>3, <3>4, <3>5, <3>6, <3>7
  <2>11. CASE Exit \/ Crash
    <3>1. /\ life # "down" /\ life' = "down"
          /\ saver' = Idle /\ saveClosed' = FALSE /\ saveOwed' = 0
          /\ offsets' = NoEntries /\ snap' = [s \in Savers |-> NoEntries]
          /\ UNCHANGED disk
      BY <2>11 DEF Exit, Crash, Ends, Reset, diskVars
    <3>2. Shape'
      BY <3>1
    <3>3. SaversLive'
      BY <2>1, <3>1
    <3>4. EmptyInBetween'
      BY <2>1, <3>1
    <3>5. EntriesHeld'
      BY <1>1, <2>1, <3>1 DEF CutShort
    <3>6. CloseHolds'
      BY <2>1, <3>1
    <3>7. UnsavedIsOwed'
      BY <2>1, <3>1
    <3> QED
      BY <3>2, <3>3, <3>4, <3>5, <3>6, <3>7
  <2>12. CASE Open
    <3>1. /\ life = "down" /\ life' = "up"
          /\ offsets' = disk
          /\ saver' = Idle /\ saveClosed' = FALSE
          /\ snap' = [s \in Savers |-> NoEntries]
          /\ saveOwed' \in Nat
          /\ UNCHANGED disk
      BY <2>12 DEF Open, Reset, diskVars
    <3>2. Shape'
      BY <3>1
    <3>3. UnsavedIsOwed'
      BY <3>1
    <3>4. SaversLive' /\ EmptyInBetween' /\ CloseHolds'
      BY <3>1, <2>1
    <3>5. EntriesHeld'
      BY <3>1, <2>1
    <3> QED
      BY <3>2, <3>3, <3>4, <3>5
  <2> QED
    BY <1>2, <2>2, <2>3, <2>4, <2>5, <2>6, <2>7, <2>8, <2>9, <2>10, <2>11, <2>12
    DEF HistoryNext, OffsetNext, Save
<1>3. CASE UNCHANGED historyVars
  BY <1>3 DEF historyVars, offsetVars, trigVars
<1> QED
  BY <1>2, <1>3

\* The inductive invariant holds in every state of the offsets' history.
THEOREM HistoryInvariant == HistorySpec => []HInv
<1> QED
  BY InitEstablishes, StepPreserves, PTL DEF HistorySpec

-----------------------------------------------------------------------------
\* The Emit of setOffset is never lost to the save under way: for every set of
\* logs, while the process is up, a map that differs from what the file holds
\* or is about to hold has a save owed, except between a failed write that had
\* no other save owed behind it and the next offset that is set.
THEOREM UnsavedOwed == HistorySpec => []UnsavedIsOwed
<1>1. HInv => UnsavedIsOwed
  BY DEF HInv
<1> QED
  BY <1>1, HistoryInvariant, PTL

\* Every log that a save has put in the offsets file keeps an entry there,
\* through failed writes, crashes and restarts, unless a save of Close
\* overlapped one of the debouncer or a save was cut short.
THEOREM EntriesStay == HistorySpec => []EntriesSurvive
<1>1. HInv => EntriesSurvive
  BY DEF HInv, EntriesHeld, EntriesSurvive, Truncated
<1> QED
  BY <1>1, HistoryInvariant, PTL

\* A program that stops by itself, with no overlap and no failed save in its
\* past, leaves in the file a map that it held after Close was called.
THEOREM CleanExit == HistorySpec => CleanExitSaves
<1>1. ASSUME HInv, [HistoryNext]_historyVars,
             saver["close"] = "returned", life' = "down", ~disturbed'
      PROVE  disk' \in sinceClose
  <2>1. saver["close"] # "idle"
    BY <1>1
  <2>2. life = "closing"
    BY <1>1, <2>1 DEF HInv, Shape, SaversLive, Idle, Savers
  <2>3. HistoryNext
    BY <1>1, <2>2 DEF historyVars, offsetVars
  <2>4. ~disturbed
    BY <1>1, <2>3 DEF HistoryNext
  <2>5. Exit \/ Crash
    BY <1>1, <2>2, <2>3
       DEF HistoryNext, OffsetNext, Save, SetOffset, Coalesce, DebouncedSave, CloseSave,
           Truncate, WriteText, WriteFails, Close, DebounceExits, Open
  <2>6. UNCHANGED disk
    BY <2>5 DEF Exit, Crash, Ends, diskVars
  <2> QED
    BY <1>1, <2>2, <2>4, <2>6 DEF HInv, CloseHolds
<1> QED
  BY <1>1, HistoryInvariant, PTL DEF HistorySpec, CleanExitSaves
=============================================================================
