---------------------------- MODULE IngestProofs ----------------------------
(***************************************************************************)
(* One log from file to table, for every number of lines, limit and        *)
(* capacity, through failed inserts, failed saves, stops and crashes: no   *)
(* line is passed over, and one process inserts each at most once, in      *)
(* order; and the pipeline implements the offsets and the storage that it  *)
(* is built from.                                                          *)
(***************************************************************************)
EXTENDS Ingest, Sequences, TLAPS

Held == S!InFlight \cup S!Stored \cup gone

\* The offsets before which each line has become a row, is on its way, was left
\* out or was lost.
Safe == {o \in Nat \cup {-1} : \A n \in 1..o : n \in skipped \/ Row(n) \in Held}

OffsetsIn(C) == /\ offsets \in [{Path} -> C]
                /\ disk \in [{Path} -> C]
                /\ snap \in [O!Savers -> [{Path} -> C]]

LogRows == {Path} \X Nat

IngestShape == /\ logged \in Nat /\ kept \in Nat /\ taken \in Nat
               /\ openAt \in Nat /\ seq \in Nat /\ openSeq \in Nat
               /\ queue \in Seq(LogRows)
               /\ IF watch = "insert" THEN \E r \in LogRows : hand = <<r>>
                  ELSE hand = <<>>
               /\ ~Up => queue = <<>> /\ watch # "insert"

\* Every offset that the process or a later one may resume from is safe.
OffsetsSafe == kept \in Safe /\ taken \in Safe /\ OffsetsIn(Safe)

\* The rows that this process has inserted.
Mine == {r \in table : r.cursor > openSeq}

\* What is in flight are lines that this process has taken, in their order.
FlightInOrder ==
  /\ openAt <= taken
  /\ \A i \in 1..Len(queue) : openAt < queue[i][2] /\ queue[i][2] <= taken
  /\ \A i, j \in 1..Len(queue) : i < j => queue[i][2] < queue[j][2]
  /\ watch = "insert" =>
       /\ openAt < hand[1][2] /\ hand[1][2] <= taken
       /\ \A i \in 1..Len(queue) : hand[1][2] < queue[i][2]

\* What it has inserted came before, in order.
InsertedInOrder ==
  /\ openSeq <= seq
  /\ \A r \in table : r.cursor \in Int /\ r.cursor <= seq
  /\ \A r \in Mine :
       /\ r.row[2] \in Nat /\ openAt < r.row[2] /\ r.row[2] <= taken
       /\ \A q \in Mine : q.cursor < r.cursor => q.row[2] < r.row[2]
       /\ \A i \in 1..Len(queue) : r.row[2] < queue[i][2]
       /\ watch = "insert" => r.row[2] < hand[1][2]

IngestInv == /\ IngestShape
             /\ OffsetsSafe
             /\ FlightInOrder
             /\ InsertedInOrder

-----------------------------------------------------------------------------
(***************************************************************************)
(* The offsets.                                                            *)
(***************************************************************************)

\* What FileConfig does with offsets: it keeps the one a run ends with, and
\* copies those it has, between map, text and file; a text written in part may
\* leave a smaller one.
LEMMA OffsetsMove ==
  ASSUME NEW C, O!None \in C, taken \in C, OffsetsIn(C),
         \A c \in C : \A v \in 0..c : v \in C,
         \/ O!SetOffset(Path, taken) \/ O!Coalesce \/ O!Save \/ O!DebounceExits
         \/ O!Close \/ O!Exit \/ O!Crash \/ O!Open \/ UNCHANGED offsetVars
  PROVE  /\ offsets' \in [{Path} -> C]
         /\ disk' \in [{Path} -> C]
         /\ snap' \in [O!Savers -> [{Path} -> C]]
<1> USE DEF OffsetsIn
<1>1. O!NoEntries \in [{Path} -> C]
  BY DEF O!NoEntries
<1>2. CASE O!SetOffset(Path, taken)
  BY <1>2 DEF O!SetOffset, O!diskVars
<1>3. CASE O!Coalesce \/ O!DebounceExits \/ O!Close \/ UNCHANGED offsetVars
  BY <1>3 DEF O!Coalesce, O!DebounceExits, O!Close, O!diskVars, offsetVars
<1>4. CASE O!Exit \/ O!Crash \/ O!Open
  <2>1. offsets' \in {O!NoEntries, disk} /\ disk' = disk
        /\ snap' = [s \in O!Savers |-> O!NoEntries]
    BY <1>4 DEF O!Exit, O!Crash, O!Open, O!Ends, O!Reset, O!diskVars
  <2> QED
    BY <1>1, <2>1
<1>5. CASE O!Save
  <2>1. ASSUME NEW s \in O!Savers, NEW m \in [{Path} -> C]
        PROVE  [snap EXCEPT ![s] = m] \in [O!Savers -> [{Path} -> C]]
    OBVIOUS
  <2>2. CASE O!DebouncedSave \/ O!CloseSave
    <3>1. PICK s \in O!Savers : snap' = [snap EXCEPT ![s] = offsets]
      BY <2>2 DEF O!DebouncedSave, O!CloseSave, O!Prepare, O!Savers
    <3>2. UNCHANGED <<offsets, disk>>
      BY <2>2 DEF O!DebouncedSave, O!CloseSave, O!diskVars
    <3> QED
      BY <2>1, <3>1, <3>2
  <2>3. ASSUME NEW s \in O!Savers, O!Truncate(s) PROVE OffsetsIn(C)'
    BY <1>1, <2>3 DEF O!Truncate
  <2>4. ASSUME NEW s \in O!Savers, O!Returned(s)
        PROVE  snap' \in [O!Savers -> [{Path} -> C]]
    <3>1. snap' = [snap EXCEPT ![s] = O!NoEntries]
      BY <2>4 DEF O!Returned
    <3> QED
      BY <1>1, <2>1, <3>1
  <2>5. ASSUME NEW s \in O!Savers, O!WriteFails(s) PROVE OffsetsIn(C)'
    <3>1. O!Returned(s) /\ offsets' = offsets
      BY <2>5 DEF O!WriteFails
    <3>2. CASE disk' = disk
      BY <2>4, <3>1, <3>2
    <3>3. CASE disk' # disk
      <4>1. PICK done \in SUBSET O!Entries(snap[s]) :
              \E p \in O!Entries(snap[s]) : \E v \in {disk[p]} \cup 0..snap[s][p] :
                disk' = O!Partly(snap[s], done, p, v)
        BY <2>5, <3>3 DEF O!WriteFails, O!diskVars
      <4>2. PICK p \in O!Entries(snap[s]) : \E v \in {disk[p]} \cup 0..snap[s][p] :
                disk' = O!Partly(snap[s], done, p, v)
        BY <4>1
      <4>3. PICK v \in {disk[p]} \cup 0..snap[s][p] :
                disk' = O!Partly(snap[s], done, p, v)
        BY <4>2
      <4>4. p \in {Path} /\ snap[s][p] \in C /\ disk[p] \in C
        BY DEF O!Entries
      <4>5. v \in C
        BY <4>4
      <4>6. disk' \in [{Path} -> C]
        BY <4>3, <4>5 DEF O!Partly
      <4> QED
        BY <2>4, <3>1, <4>6
    <3> QED
      BY <3>2, <3>3
  <2>6. ASSUME NEW s \in O!Savers, O!WriteText(s) PROVE OffsetsIn(C)'
    <3>1. disk' \in {snap[s], O!Overlay(snap[s])} /\ O!Returned(s) /\ offsets' = offsets
      BY <2>6 DEF O!WriteText
    <3>2. O!Overlay(snap[s]) \in [{Path} -> C]
      BY DEF O!Overlay
    <3> QED
      BY <2>4, <3>1, <3>2
  <2> QED
    BY <1>5, <2>2, <2>3, <2>5, <2>6 DEF O!Save
<1> QED
  BY <1>2, <1>3, <1>4, <1>5
-----------------------------------------------------------------------------
(***************************************************************************)
(* The rows.                                                               *)
(***************************************************************************)

\* The channel as a sequence.
LEMMA QueueFacts ==
  ASSUME IngestShape
  PROVE  /\ Len(queue) \in Nat
         /\ DOMAIN queue = 1..Len(queue)
         /\ \A i \in 1..Len(queue) : queue[i][1] = Path /\ queue[i][2] \in Nat
         /\ queue # <<>> => Len(queue) > 0 /\ Head(queue) = queue[1]
         /\ queue # <<>> =>
              /\ Tail(queue) \in Seq(LogRows)
              /\ Len(Tail(queue)) = Len(queue) - 1
              /\ \A i \in 1..(Len(queue) - 1) : Tail(queue)[i] = queue[i + 1]
<1> USE DEF IngestShape
<1>1. \A i \in 1..Len(queue) : queue[i] \in LogRows
  OBVIOUS
<1>2. \A r \in LogRows : r[1] = Path /\ r[2] \in Nat
  BY DEF LogRows
<1>3. ASSUME queue # <<>>
      PROVE  /\ Len(queue) > 0 /\ Head(queue) = queue[1]
             /\ Tail(queue) \in Seq(LogRows)
             /\ Len(Tail(queue)) = Len(queue) - 1
             /\ \A i \in 1..(Len(queue) - 1) : Tail(queue)[i] = queue[i + 1]
  BY <1>3
<1> QED
  BY <1>1, <1>2, <1>3

\* The row in hand, and what is held of the two.
LEMMA HandFacts ==
  ASSUME IngestShape
  PROVE  /\ watch = "insert" => /\ hand[1][1] = Path /\ hand[1][2] \in Nat
                                /\ hand = <<hand[1]>> /\ S!ToSet(hand) = {hand[1]}
         /\ watch # "insert" => S!ToSet(hand) = {}
<1>1. ASSUME watch = "insert"
      PROVE  /\ hand[1][1] = Path /\ hand[1][2] \in Nat
             /\ hand = <<hand[1]>> /\ S!ToSet(hand) = {hand[1]}
  <2>1. PICK r \in LogRows : hand = <<r>>
    BY <1>1 DEF IngestShape
  <2>2. hand[1] = r /\ DOMAIN hand = {1}
    BY <2>1
  <2> QED
    BY <2>1, <2>2 DEF LogRows, S!ToSet
<1> QED
  BY <1>1 DEF IngestShape, S!ToSet

\* tail writes the next line.
LEMMA WriteQueues ==
  ASSUME IngestShape, S!Write(Path)
  PROVE  /\ queue' \in Seq(LogRows)
         /\ Len(queue') = Len(queue) + 1
         /\ queue'[Len(queue) + 1] = Row(taken + 1)
         /\ \A i \in 1..Len(queue) : queue'[i] = queue[i]
         /\ UNCHANGED <<hand, watch, stop, dbOpen, table, seq, gone>>
         /\ Held' = Held \cup {Row(taken + 1)}
<1> USE DEF IngestShape
<1> DEFINE x == Row(taken + 1)
<1>1. /\ queue' = Append(queue, x)
      /\ UNCHANGED <<hand, watch, stop, dbOpen, table, seq, gone>>
  BY DEF S!Write, S!dbVars, Row
<1>2. x \in LogRows
  BY DEF LogRows, Row
<1> HIDE DEF x
<1>3. /\ queue' \in Seq(LogRows)
      /\ Len(queue') = Len(queue) + 1
      /\ queue'[Len(queue) + 1] = x
      /\ \A i \in 1..Len(queue) : queue'[i] = queue[i]
      /\ DOMAIN queue' = 1..(Len(queue) + 1)
  BY <1>1, <1>2
<1>4. S!ToSet(queue') = S!ToSet(queue) \cup {x}
  <2>1. /\ Len(queue) \in Nat /\ DOMAIN queue = 1..Len(queue)
        /\ \A i \in 1..(Len(queue) + 1) : i \in 1..Len(queue) \/ i = Len(queue) + 1
        /\ Len(queue) + 1 \in 1..(Len(queue) + 1)
        /\ 1..Len(queue) \subseteq 1..(Len(queue) + 1)
    BY QueueFacts
  <2>2. S!ToSet(queue') \subseteq S!ToSet(queue) \cup {x}
    BY <1>3, <2>1 DEF S!ToSet
  <2>3. S!ToSet(queue) \subseteq S!ToSet(queue') /\ x \in S!ToSet(queue')
    BY <1>3, <2>1 DEF S!ToSet
  <2> QED
    BY <2>2, <2>3
<1>5. Held' = Held \cup {x}
  BY <1>1, <1>4 DEF Held, S!InFlight, S!Stored
<1> QED
  BY <1>1, <1>3, <1>5 DEF x

\* watch takes the head of the channel.
LEMMA TakeHolds ==
  ASSUME IngestShape, S!WatchTakes
  PROVE  Held' = Held
<1>1. /\ queue # <<>> /\ queue' = Tail(queue) /\ hand' = <<Head(queue)>>
      /\ watch # "insert"
      /\ UNCHANGED <<table, gone>>
  BY DEF S!WatchTakes, S!dbVars
<1>2. /\ DOMAIN queue' = 1..(Len(queue) - 1)
      /\ \A i \in 1..(Len(queue) - 1) : queue'[i] = queue[i + 1]
      /\ hand'[1] = queue[1] /\ DOMAIN hand' = {1}
      /\ Len(queue) \in Nat \ {0} /\ DOMAIN queue = 1..Len(queue)
  <2>1. queue' \in Seq(LogRows) /\ Len(queue') = Len(queue) - 1
    BY <1>1, QueueFacts
  <2> QED
    BY <1>1, <2>1, QueueFacts
<1>3. S!ToSet(hand') = {queue[1]} /\ S!ToSet(hand) = {}
  BY <1>1, <1>2, HandFacts DEF S!ToSet
<1>4. \A i \in 1..Len(queue) : i = 1 \/ (i - 1 \in 1..(Len(queue) - 1) /\ (i - 1) + 1 = i)
  BY <1>2
<1>5. \A i \in 1..(Len(queue) - 1) : i + 1 \in 1..Len(queue)
  BY <1>2
<1>6. S!ToSet(queue) = {queue[1]} \cup S!ToSet(queue')
  <2>1. ASSUME NEW i \in 1..Len(queue) PROVE queue[i] \in {queue[1]} \cup S!ToSet(queue')
    <3>1. CASE i = 1
      BY <3>1
    <3>2. CASE i # 1
      <4>1. i - 1 \in DOMAIN queue' /\ queue'[i - 1] = queue[i]
        BY <1>2, <1>4, <3>2
      <4> QED
        BY <4>1 DEF S!ToSet
    <3> QED
      BY <3>1, <3>2
  <2>2. S!ToSet(queue) \subseteq {queue[1]} \cup S!ToSet(queue')
    BY <1>2, <2>1 DEF S!ToSet
  <2>3. queue[1] \in S!ToSet(queue)
    BY <1>2 DEF S!ToSet
  <2>4. S!ToSet(queue') \subseteq S!ToSet(queue)
    BY <1>2, <1>5 DEF S!ToSet
  <2> QED
    BY <2>2, <2>3, <2>4
<1> QED
  BY <1>1, <1>3, <1>6 DEF Held, S!InFlight, S!Stored

\* Nothing that is held is dropped.
LEMMA HeldStays ==
  ASSUME IngestShape, [IngestNext]_ingestVars
  PROVE  Held \subseteq Held'
<1>1. ASSUME UNCHANGED <<queue, hand, table, gone>> PROVE Held \subseteq Held'
  BY <1>1 DEF Held, S!InFlight, S!Stored
<1>2. CASE LogLine \/ BeginTail \/ FinishTail \/ OffsetStep \/ CloseFileInput
           \/ UNCHANGED ingestVars
  BY <1>1, <1>2 DEF LogLine, BeginTail, FinishTail, OffsetStep, CloseFileInput,
                    ingestVars, queueVars
<1>3. CASE TakeLine
  BY <1>3, WriteQueues DEF TakeLine
<1>4. CASE StorageStep
  <2>1. CASE S!WatchTakes
    BY <2>1, TakeHolds
  <2>2. CASE S!WatchStops
    BY <1>1, <2>2 DEF S!WatchStops, S!dbVars
  <2>3. CASE S!InsertSucceeds
    <3> DEFINE new == [cursor |-> seq + 1, row |-> hand[1]]
    <3>1. /\ watch = "insert" /\ UNCHANGED <<queue, gone>>
          /\ table' = table \cup {new} /\ new.row = hand[1]
      BY <2>3 DEF S!InsertSucceeds, S!Inserted
    <3> HIDE DEF new
    <3>2. S!ToSet(hand) = {hand[1]} /\ S!ToSet(queue') = S!ToSet(queue)
      BY <3>1, HandFacts
    <3>3. S!Stored' = S!Stored \cup {hand[1]}
      BY <3>1 DEF S!Stored
    <3> QED
      BY <3>1, <3>2, <3>3 DEF Held, S!InFlight
  <2>4. CASE S!InsertFails
    BY <2>4 DEF S!InsertFails, S!Inserted, S!dbVars, Held, S!InFlight, S!Stored
  <2> QED
    BY <1>4, <2>1, <2>2, <2>3, <2>4 DEF StorageStep, S!Watcher
<1>5. CASE CloseStorage
  BY <1>1, <1>5 DEF CloseStorage, S!CloseStop, S!CloseDB, S!dbVars
<1>6. CASE Exit \/ Crash
  BY <1>6 DEF Exit, Crash, S!Exit, S!Crash, S!Ends, S!dbVars, Held, S!Stored
<1>7. CASE Start
  BY <1>1, <1>7 DEF Start, S!Open, S!dbVars
<1> QED
  BY <1>2, <1>3, <1>4, <1>5, <1>6, <1>7 DEF IngestNext
-----------------------------------------------------------------------------
(***************************************************************************)
(* One step.                                                               *)
(***************************************************************************)

\* A new process begins with no rows, and has no entry or the one it kept.
LEMMA InitEstablishes == IngestInit => IngestInv
<1> SUFFICES ASSUME IngestInit PROVE IngestInv
  OBVIOUS
<1> USE DEF IngestInit
<1>1. logged \in Nat /\ kept = 0 /\ taken = 0
  BY IngestAssumption DEF R!ReadInit
<1>2. IngestShape
  BY <1>1 DEF IngestShape, O!OffsetInit, Up
<1>3. 0 \in Safe /\ -1 \in Safe
  BY DEF Safe
<1>4. OffsetsIn(Safe)
  BY <1>3 DEF OffsetsIn, O!OffsetInit, O!NoEntries, O!None
<1>5. FlightInOrder /\ InsertedInOrder
  BY <1>1 DEF FlightInOrder, InsertedInOrder, Mine
<1> QED
  BY <1>1, <1>2, <1>3, <1>4, <1>5 DEF IngestInv, OffsetsSafe

\* The offset a process starts from is that of its entry, or leaves out what
\* becomes skipped.
LEMMA StartFacts ==
  ASSUME IngestInv, Start
  PROVE  \E from \in Nat :
           /\ kept' = from /\ taken' = from /\ openAt' = from
           /\ disk[Path] = from \/ 1..from \subseteq skipped'
           /\ skipped \subseteq skipped'
           /\ openSeq' = seq /\ O!Open /\ ~Up /\ logged' = logged
           /\ watch' = "select" /\ UNCHANGED <<queue, hand, table, seq, gone>>
<1> DEFINE from == getOffset(disk)
<1>1. disk[Path] \in Nat \cup {-1}
  BY DEF IngestInv, OffsetsSafe, OffsetsIn, Safe
<1>2. FirstRead \in Nat
  BY IngestAssumption DEF IngestInv, IngestShape, FirstRead
<1>3. from \in Nat /\ (disk[Path] # O!None => from = disk[Path])
  BY <1>1, <1>2 DEF getOffset, O!None
<1>4. /\ kept' = from /\ taken' = from /\ openAt' = from
      /\ disk[Path] = O!None => 1..from \subseteq skipped'
      /\ skipped \subseteq skipped'
  BY DEF Start
<1> HIDE DEF from
<1>5. /\ openSeq' = seq /\ O!Open /\ ~Up /\ logged' = logged
      /\ watch' = "select" /\ UNCHANGED <<queue, hand, table, seq, gone>>
  BY DEF Start, S!Open, S!dbVars, O!Open, Up
<1> QED
  BY <1>3, <1>4, <1>5

\* What each step does with offsets: copies them, or keeps that of the next line
\* once its row is in the channel.
LEMMA OffsetsStaySafe ==
  ASSUME IngestInv, [IngestNext]_ingestVars
  PROVE  OffsetsSafe'
<1> USE DEF IngestInv
<1>1. Held \subseteq Held' /\ skipped \subseteq skipped'
  <2>1. skipped \subseteq skipped'
    <3>1. CASE Start
      BY <3>1, StartFacts
    <3>2. CASE ~Start
      BY <3>2 DEF IngestNext, LogLine, BeginTail, TakeLine, FinishTail,
                  StorageStep, OffsetStep, CloseStorage, CloseFileInput, Exit,
                  Crash, openVars, ingestVars
    <3> QED
      BY <3>1, <3>2
  <2> QED
    BY <2>1, HeldStays
<1>2. Safe \subseteq Safe'
  BY <1>1 DEF Safe
<1>3. PICK C : C = Safe
  OBVIOUS
<1>4. PICK D : D = Safe'
  OBVIOUS
<1>5. C \subseteq D /\ O!None \in C /\ taken \in C /\ OffsetsIn(C)
  BY <1>2, <1>3, <1>4 DEF OffsetsSafe, OffsetsIn, Safe, O!None
<1>6. \A c \in C : \A v \in 0..c : v \in C
  BY <1>3 DEF Safe
<1>7. ASSUME \/ O!SetOffset(Path, taken) \/ O!Coalesce \/ O!Save
             \/ O!DebounceExits \/ O!Close \/ O!Exit \/ O!Crash \/ O!Open
             \/ UNCHANGED offsetVars
      PROVE  OffsetsIn(Safe)'
  <2>1. /\ offsets' \in [{Path} -> C]
        /\ disk' \in [{Path} -> C]
        /\ snap' \in [O!Savers -> [{Path} -> C]]
    BY <1>5, <1>6, <1>7, OffsetsMove
  <2>2. [{Path} -> C] \subseteq [{Path} -> D]
    BY <1>5
  <2>3. snap' \in [O!Savers -> [{Path} -> D]]
    BY <2>1, <2>2
  <2> QED
    BY <1>4, <2>1, <2>2, <2>3 DEF OffsetsIn
<1>8. CASE LogLine \/ BeginTail \/ StorageStep \/ CloseStorage \/ UNCHANGED ingestVars
  <2>1. UNCHANGED <<kept, taken, offsetVars>>
    BY <1>8 DEF LogLine, BeginTail, StorageStep, CloseStorage, ingestVars,
                readVars, R!Log, R!Begin
  <2> QED
    BY <1>2, <1>7, <2>1 DEF OffsetsSafe
<1>9. CASE FinishTail
  <2>1. kept' = taken /\ taken' = taken /\ O!SetOffset(Path, taken)
    BY <1>9 DEF FinishTail, R!Finish
  <2> QED
    BY <1>2, <1>7, <2>1 DEF OffsetsSafe
<1>10. CASE OffsetStep \/ CloseFileInput
  <2>1. UNCHANGED <<kept, taken>>
    BY <1>10 DEF OffsetStep, CloseFileInput, readVars
  <2>2. O!Coalesce \/ O!Save \/ O!DebounceExits \/ O!Close
    BY <1>10 DEF OffsetStep, CloseFileInput
  <2> QED
    BY <1>2, <1>7, <2>1, <2>2 DEF OffsetsSafe
<1>11. CASE Exit \/ Crash
  <2>1. UNCHANGED <<kept, taken>> /\ (O!Exit \/ O!Crash)
    BY <1>11 DEF Exit, Crash, ReaderEnds
  <2> QED
    BY <1>2, <1>7, <2>1 DEF OffsetsSafe
<1>12. CASE TakeLine
  <2>1. kept' = kept /\ taken' = taken + 1 /\ UNCHANGED offsetVars
    BY <1>12 DEF TakeLine, R!Take
  <2>2. Row(taken + 1) \in Held'
    BY <1>12, WriteQueues DEF TakeLine
  <2>3. taken \in Nat /\ taken \in Safe'
    BY <1>2 DEF OffsetsSafe, IngestShape
  <2>4. taken + 1 \in Safe'
    <3>1. \A n \in 1..(taken + 1) : n \in 1..taken \/ n = taken + 1
      BY <2>3
    <3> QED
      BY <2>2, <2>3, <3>1 DEF Safe
  <2> QED
    BY <1>2, <1>7, <2>1, <2>4 DEF OffsetsSafe
<1>13. CASE Start
  <2>1. PICK from \in Nat :
          /\ kept' = from /\ taken' = from
          /\ disk[Path] = from \/ 1..from \subseteq skipped'
          /\ O!Open
    BY <1>13, StartFacts
  <2>2. from \in Safe'
    <3>1. CASE disk[Path] = from
      BY <1>2, <3>1 DEF OffsetsSafe, OffsetsIn
    <3>2. CASE 1..from \subseteq skipped'
      BY <3>2 DEF Safe
    <3> QED
      BY <2>1, <3>1, <3>2
  <2> QED
    BY <1>7, <2>1, <2>2 DEF OffsetsSafe
<1> QED
  BY <1>8, <1>9, <1>10, <1>11, <1>12, <1>13 DEF IngestNext
\* What the steps of the storage's goroutine change.
LEMMA GoroutineFacts ==
  ASSUME IngestShape, StorageStep
  PROVE  /\ UNCHANGED <<logged, kept, taken, openAt, openSeq, life>>
         /\ \/ /\ watch # "insert" /\ watch' = "insert" /\ queue # <<>>
              /\ queue' = Tail(queue) /\ hand' = <<Head(queue)>>
              /\ UNCHANGED <<table, seq>> /\ Up
           \/ /\ watch # "insert" /\ watch' # "insert"
              /\ UNCHANGED <<queue, hand, table, seq>>
           \/ /\ watch = "insert" /\ watch' # "insert" /\ hand' = <<>>
              /\ UNCHANGED <<queue, table, seq>>
           \/ /\ watch = "insert" /\ watch' # "insert" /\ hand' = <<>>
              /\ queue' = queue /\ seq' = seq + 1
              /\ table' = table \cup {[cursor |-> seq + 1, row |-> hand[1]]}
<1>1. UNCHANGED <<logged, kept, taken, openAt, openSeq, life>>
  BY DEF StorageStep, readVars, openVars, offsetVars
<1>2. CASE S!WatchTakes
  BY <1>1, <1>2 DEF S!WatchTakes, S!dbVars, Up
<1>3. CASE S!WatchStops
  BY <1>1, <1>3 DEF S!WatchStops, S!dbVars
<1>4. CASE S!InsertSucceeds
  BY <1>1, <1>4 DEF S!InsertSucceeds, S!Inserted
<1>5. CASE S!InsertFails
  BY <1>1, <1>5 DEF S!InsertFails, S!Inserted, S!dbVars
<1> QED
  BY <1>2, <1>3, <1>4, <1>5 DEF StorageStep, S!Watcher

\* What is left alone by the steps that touch neither rows nor lines taken.
LEMMA OtherFacts ==
  ASSUME LogLine \/ BeginTail \/ FinishTail \/ OffsetStep \/ CloseStorage
         \/ CloseFileInput \/ UNCHANGED ingestVars
  PROVE  /\ UNCHANGED <<taken, openAt, openSeq, queue, hand, watch, table, seq>>
         /\ Up' <=> Up
<1>1. CASE LogLine \/ BeginTail \/ FinishTail \/ UNCHANGED ingestVars
  BY <1>1 DEF LogLine, BeginTail, FinishTail, R!Log, R!Begin, R!Finish,
              O!SetOffset, ingestVars, readVars, queueVars, offsetVars, openVars, Up
<1>2. CASE CloseStorage
  BY <1>2 DEF CloseStorage, S!CloseStop, S!CloseDB, S!dbVars, readVars,
              offsetVars, openVars, Up
<1>3. CASE CloseFileInput
  BY <1>3 DEF CloseFileInput, O!Close, readVars, queueVars, openVars, Up
<1>4. CASE OffsetStep
  <2>1. life' = life
    BY <1>4 DEF OffsetStep, O!Coalesce, O!DebounceExits, O!Save, O!DebouncedSave,
                O!CloseSave, O!Truncate, O!WriteText, O!WriteFails
  <2> QED
    BY <1>4, <2>1 DEF OffsetStep, readVars, queueVars, openVars, Up
<1> QED
  BY <1>1, <1>2, <1>3, <1>4

\* A process that ends has nothing in flight.
LEMMA EndFacts ==
  ASSUME Exit \/ Crash
  PROVE  /\ UNCHANGED <<logged, kept, taken, openAt, openSeq, table, seq>>
         /\ queue' = <<>> /\ hand' = <<>> /\ watch' = "exited" /\ ~Up'
  BY DEF Exit, Crash, ReaderEnds, S!Exit, S!Crash, S!Ends, S!dbVars, openVars,
         O!Exit, O!Crash, O!Ends, Up

\* The state stays well formed.
LEMMA ShapeStays ==
  ASSUME IngestInv, [IngestNext]_ingestVars
  PROVE  IngestShape'
<1> USE DEF IngestInv, IngestShape
<1>1. /\ logged' \in Nat /\ kept' \in Nat /\ taken' \in Nat
      /\ openAt' \in Nat /\ openSeq' \in Nat
  <2>1. CASE Start
    BY <2>1, StartFacts
  <2>2. CASE Exit \/ Crash
    BY <2>2, EndFacts
  <2>3. CASE ~(Start \/ Exit \/ Crash)
    <3>1. logged' \in Nat /\ kept' \in Nat /\ taken' \in Nat
      BY <2>3, IngestAssumption
         DEF IngestNext, LogLine, BeginTail, TakeLine, FinishTail, StorageStep,
             OffsetStep, CloseStorage, CloseFileInput, ingestVars, readVars,
             R!Log, R!Begin, R!Take, R!Finish
    <3>2. UNCHANGED <<openAt, openSeq>>
      BY <2>3 DEF IngestNext, LogLine, BeginTail, TakeLine, FinishTail,
                  StorageStep, OffsetStep, CloseStorage, CloseFileInput,
                  ingestVars, openVars
    <3> QED
      BY <3>1, <3>2
  <2> QED
    BY <2>1, <2>2, <2>3
<1> DEFINE Handed == IF watch = "insert" THEN \E r \in LogRows : hand = <<r>>
                     ELSE hand = <<>>
           Rest == /\ seq \in Nat /\ queue \in Seq(LogRows) /\ Handed
                   /\ ~Up => queue = <<>> /\ watch # "insert"
<1>2. Rest'
  <2>1. CASE LogLine \/ BeginTail \/ FinishTail \/ OffsetStep \/ CloseStorage
             \/ CloseFileInput \/ UNCHANGED ingestVars
    BY <2>1, OtherFacts
  <2>2. CASE TakeLine
    <3>1. life' = life /\ Up
      BY <2>2 DEF TakeLine, offsetVars, S!Write, Up
    <3> QED
      BY <2>2, <3>1, WriteQueues DEF TakeLine, Up
  <2>3. CASE StorageStep
    <3>1. queue # <<>> => /\ Tail(queue) \in Seq(LogRows)
                          /\ Head(queue) \in LogRows
      BY QueueFacts
    <3>2. (Up' <=> Up) /\ seq' \in Nat
      BY <2>3, GoroutineFacts DEF Up
    <3>3. queue' \in Seq(LogRows) /\ Handed'
      BY <2>3, <3>1, GoroutineFacts
    <3>4. ~Up => queue' = <<>> /\ watch' # "insert"
      BY <2>3, GoroutineFacts
    <3> QED
      BY <3>2, <3>3, <3>4
  <2>4. CASE Exit \/ Crash
    <3>1. /\ queue' = <<>> /\ hand' = <<>> /\ watch' # "insert" /\ seq' = seq
          /\ seq \in Nat
      BY <2>4, EndFacts
    <3>2. queue' \in Seq(LogRows)
      BY <3>1
    <3> QED
      BY <3>1, <3>2
  <2>5. CASE Start
    <3>1. /\ ~Up /\ watch' = "select" /\ UNCHANGED <<queue, hand, seq>>
      BY <2>5, StartFacts
    <3>2. queue' = <<>> /\ hand' = <<>> /\ watch' # "insert" /\ seq' \in Nat
      BY <3>1
    <3>3. queue' \in Seq(LogRows)
      BY <3>1
    <3> QED
      BY <3>2, <3>3
  <2> QED
    BY <2>1, <2>2, <2>3, <2>4, <2>5 DEF IngestNext
<1> QED
  BY <1>1, <1>2

\* Lines are queued, and rows inserted, in the order of the log.
LEMMA OrderStays ==
  ASSUME IngestInv, [IngestNext]_ingestVars
  PROVE  FlightInOrder' /\ InsertedInOrder'
<1> USE DEF IngestInv
<1>1. taken \in Nat /\ openAt \in Nat /\ seq \in Nat /\ openSeq \in Nat
  BY DEF IngestShape
<1>2. CASE LogLine \/ BeginTail \/ FinishTail \/ OffsetStep \/ CloseStorage
           \/ CloseFileInput \/ UNCHANGED ingestVars
  BY <1>2, OtherFacts DEF FlightInOrder, InsertedInOrder, Mine
<1>3. CASE TakeLine
  <2>1. taken' = taken + 1 /\ UNCHANGED <<openAt, openSeq>>
    BY <1>3 DEF TakeLine, R!Take, openVars
  <2>2. /\ Len(queue') = Len(queue) + 1
        /\ queue'[Len(queue) + 1][2] = taken + 1
        /\ \A i \in 1..Len(queue) : queue'[i] = queue[i]
        /\ UNCHANGED <<hand, watch, table, seq>>
    BY <1>3, WriteQueues DEF TakeLine, Row
  <2>3. /\ Len(queue) \in Nat
        /\ \A i \in 1..Len(queue) : queue[i][2] \in Nat
        /\ watch = "insert" => hand[1][2] \in Nat
    BY QueueFacts, HandFacts
  <2>4. \A i \in 1..Len(queue') : i \in 1..Len(queue) \/ i = Len(queue) + 1
    BY <2>2, <2>3
  <2>5. FlightInOrder
    OBVIOUS
  <2>6. \A i \in 1..Len(queue') : openAt < queue'[i][2] /\ queue'[i][2] <= taken + 1
    BY <1>1, <2>2, <2>3, <2>4, <2>5 DEF FlightInOrder
  <2>7. \A i, j \in 1..Len(queue') : i < j => queue'[i][2] < queue'[j][2]
    <3> SUFFICES ASSUME NEW i \in 1..Len(queue'), NEW j \in 1..Len(queue'), i < j
                 PROVE  queue'[i][2] < queue'[j][2]
      OBVIOUS
    <3>1. i \in 1..Len(queue) /\ queue[i][2] \in Nat /\ queue[i][2] <= taken
      BY <2>3, <2>4, <2>5 DEF FlightInOrder
    <3> QED
      BY <1>1, <2>2, <2>3, <2>4, <2>5, <3>1 DEF FlightInOrder
  <2>8. watch = "insert" =>
           /\ openAt < hand[1][2] /\ hand[1][2] <= taken + 1
           /\ \A i \in 1..Len(queue') : hand[1][2] < queue'[i][2]
    BY <1>1, <2>2, <2>3, <2>4, <2>5 DEF FlightInOrder
  <2>9. FlightInOrder'
    BY <1>1, <2>1, <2>2, <2>5, <2>6, <2>7, <2>8 DEF FlightInOrder
  <2>10. Mine' = Mine /\ \A r \in Mine : r.row[2] \in Nat
    BY <2>1, <2>2 DEF Mine, InsertedInOrder
  <2>11. \A r \in Mine : r.row[2] <= taken /\ r.row[2] < taken + 1
    BY <1>1, <2>10 DEF InsertedInOrder
  <2>12. InsertedInOrder'
    <3>1. InsertedInOrder
      OBVIOUS
    <3>2. \A r \in Mine : /\ openAt < r.row[2] /\ r.row[2] <= taken + 1
                          /\ \A i \in 1..Len(queue') : r.row[2] < queue'[i][2]
      BY <1>1, <2>2, <2>4, <2>10, <2>11, <3>1 DEF InsertedInOrder
    <3> QED
      BY <2>1, <2>2, <2>10, <3>1, <3>2 DEF InsertedInOrder
  <2> QED
    BY <2>9, <2>12
<1>4. CASE StorageStep
  <2>1. UNCHANGED <<taken, openAt, openSeq>>
    BY <1>4, GoroutineFacts
  <2>2. CASE /\ watch # "insert" /\ watch' = "insert" /\ queue # <<>>
             /\ queue' = Tail(queue) /\ hand' = <<Head(queue)>>
             /\ UNCHANGED <<table, seq>>
    <3>1. /\ Len(queue) \in Nat /\ Len(queue) > 0
          /\ Len(queue') = Len(queue) - 1
          /\ \A i \in 1..Len(queue') : queue'[i] = queue[i + 1]
          /\ hand'[1] = queue[1]
          /\ \A i \in 1..Len(queue) : queue[i][2] \in Nat
      BY <2>2, QueueFacts
    <3>2. \A i \in 1..Len(queue') : i + 1 \in 1..Len(queue) /\ 1 < i + 1
      BY <3>1
    <3>3. FlightInOrder /\ 1 \in 1..Len(queue)
      BY <3>1
    <3>4. /\ \A i \in 1..Len(queue') : openAt < queue'[i][2] /\ queue'[i][2] <= taken
          /\ \A i \in 1..Len(queue') : queue[1][2] < queue'[i][2]
          /\ openAt < queue[1][2] /\ queue[1][2] <= taken
      BY <3>1, <3>2, <3>3 DEF FlightInOrder
    <3>5. \A i, j \in 1..Len(queue') : i < j => queue'[i][2] < queue'[j][2]
      <4> SUFFICES ASSUME NEW i \in 1..Len(queue'), NEW j \in 1..Len(queue'), i < j
                   PROVE  queue'[i][2] < queue'[j][2]
        OBVIOUS
      <4>1. i + 1 \in 1..Len(queue) /\ j + 1 \in 1..Len(queue) /\ i + 1 < j + 1
        BY <3>1, <3>2
      <4>2. queue[i + 1][2] < queue[j + 1][2]
        BY <3>3, <4>1 DEF FlightInOrder
      <4> QED
        BY <3>1, <4>2
    <3>6. FlightInOrder'
      BY <2>1, <2>2, <3>1, <3>3, <3>4, <3>5 DEF FlightInOrder
    <3>7. Mine' = Mine
      BY <2>1, <2>2 DEF Mine
    <3> QED
      BY <2>1, <2>2, <3>1, <3>2, <3>6, <3>7 DEF InsertedInOrder
  <2>3. CASE watch' # "insert" /\ UNCHANGED <<queue, table, seq>>
    <3>1. Mine' = Mine
      BY <2>1, <2>3 DEF Mine
    <3> QED
      BY <2>1, <2>3, <3>1 DEF FlightInOrder, InsertedInOrder
  <2>4. CASE /\ watch = "insert" /\ watch' # "insert"
             /\ queue' = queue /\ seq' = seq + 1
             /\ table' = table \cup {[cursor |-> seq + 1, row |-> hand[1]]}
    <3> DEFINE new == [cursor |-> seq + 1, row |-> hand[1]]
    <3>1. new.cursor = seq + 1 /\ new.row[2] = hand[1][2] /\ hand[1][2] \in Nat
      BY <2>4, HandFacts
    <3>2. table' = table \cup {new}
      BY <2>4
    <3> HIDE DEF new
    <3>3. Mine' = Mine \cup {new}
      BY <1>1, <2>1, <3>1, <3>2 DEF Mine, InsertedInOrder
    <3>4. FlightInOrder'
      BY <2>1, <2>4 DEF FlightInOrder
    <3>5. \A r \in Mine : /\ r.cursor \in Int /\ r.cursor <= seq
                          /\ r.row[2] \in Nat
                          /\ r.row[2] < new.row[2]
      BY <2>4, <3>1 DEF InsertedInOrder, Mine
    <3>6. /\ openAt < new.row[2] /\ new.row[2] <= taken
          /\ \A i \in 1..Len(queue) : new.row[2] < queue[i][2]
      BY <2>4, <3>1 DEF FlightInOrder
    <3>7. \A r \in Mine' : /\ r.row[2] \in Nat /\ openAt < r.row[2] /\ r.row[2] <= taken
                           /\ \A q \in Mine' : q.cursor < r.cursor => q.row[2] < r.row[2]
                           /\ \A i \in 1..Len(queue) : r.row[2] < queue[i][2]
      BY <1>1, <3>1, <3>3, <3>5, <3>6 DEF InsertedInOrder
    <3>8. openSeq <= seq' /\ \A r \in table' : r.cursor \in Int /\ r.cursor <= seq'
      BY <1>1, <2>4, <3>1, <3>2 DEF InsertedInOrder
    <3> QED
      BY <2>1, <2>4, <3>4, <3>7, <3>8 DEF InsertedInOrder
  <2> QED
    BY <1>4, <2>2, <2>3, <2>4, GoroutineFacts
<1>5. CASE Exit \/ Crash
  <2>1. Mine' = Mine /\ Len(queue') = 0
    BY <1>5, EndFacts DEF Mine
  <2> QED
    BY <1>5, <2>1, EndFacts DEF FlightInOrder, InsertedInOrder
<1>6. CASE Start
  <2>1. Mine' = {}
    BY <1>1, <1>6, StartFacts DEF Mine, InsertedInOrder
  <2>2. queue' = <<>> /\ watch' # "insert" /\ openAt' = taken' /\ taken' \in Nat
        /\ openSeq' = seq /\ seq' = seq /\ table' = table
    BY <1>6, StartFacts DEF IngestShape
  <2> QED
    BY <1>1, <2>1, <2>2 DEF FlightInOrder, InsertedInOrder
<1> QED
  BY <1>2, <1>3, <1>4, <1>5, <1>6 DEF IngestNext

-----------------------------------------------------------------------------
(***************************************************************************)
(* The theorems.                                                           *)
(***************************************************************************)

\* The rows of a process, its lines and its offsets fit together, whatever fails
\* and whenever it ends.
THEOREM IngestInvariant == IngestSpec => []IngestInv
<1>1. IngestInv /\ [IngestNext]_ingestVars => IngestInv'
  BY ShapeStays, OffsetsStaySafe, OrderStays DEF IngestInv
<1> QED
  BY InitEstablishes, <1>1, PTL DEF IngestSpec

\* No line lies before an offset that reading may resume from, unless it became
\* a row, is on its way, was left out by Limit or was lost with its row.
THEOREM NoneIsPassedOver == IngestSpec => []NoLinePassedOver
<1>1. IngestInv => NoLinePassedOver
  <2> SUFFICES ASSUME IngestInv, NEW n \in 1..Lines, NEW o \in Resumable, n <= o
               PROVE  n \in skipped \/ Row(n) \in Held
    BY DEF NoLinePassedOver, Held
  <2>1. o \in Safe
    BY DEF Resumable, IngestInv, OffsetsSafe, OffsetsIn
  <2>2. o \in Int /\ n \in 1..o
    BY <2>1, IngestAssumption DEF Safe
  <2> QED
    BY <2>1, <2>2 DEF Safe
<1> QED
  BY IngestInvariant, <1>1, PTL

\* A process inserts each line at most once, in the order of the log, and none
\* that lies before the offset it began to read at.
THEOREM InsertedOnce == IngestSpec => []InsertsOnceInOrder
<1>1. IngestInv => InsertsOnceInOrder
  BY DEF IngestInv, InsertedInOrder, Mine, InsertsOnceInOrder
<1> QED
  BY IngestInvariant, <1>1, PTL

-----------------------------------------------------------------------------
(***************************************************************************)
(* The pipeline and its parts.                                             *)
(***************************************************************************)

EntryTo(n) == 0..n \cup {O!None}

\* A run takes what is logged, and no entry is beyond what has been taken.
NotBeyond == /\ logged \in 0..Lines /\ taken \in 0..logged /\ kept \in 0..taken
             /\ OffsetsIn(EntryTo(taken))

\* Where a process starts, as seen from its entry.
LEMMA StartsBehind ==
  ASSUME NotBeyond, Start
  PROVE  NotBeyond' /\ (disk[Path] # O!None => getOffset(disk) <= taken)
<1> USE IngestAssumption DEF O!None
<1>1. /\ logged \in 0..Lines /\ taken \in 0..logged
      /\ disk \in [{Path} -> EntryTo(taken)]
  BY DEF NotBeyond, OffsetsIn
<1>2. disk[Path] \in 0..taken \/ disk[Path] = -1
  BY <1>1 DEF EntryTo
<1>3. FirstRead \in 0..logged
  BY <1>1 DEF FirstRead
<1>4. getOffset(disk) = IF disk[Path] # -1 THEN disk[Path] ELSE FirstRead
  BY DEF getOffset
<1>5. PICK from : from = getOffset(disk)
  OBVIOUS
<1>6. from \in 0..logged /\ (disk[Path] # -1 => from = disk[Path] /\ from <= taken)
  BY <1>1, <1>2, <1>3, <1>4, <1>5
<1>7. kept' = from /\ taken' = from /\ logged' = logged
  BY <1>5 DEF Start
<1>8. /\ offsets' = disk /\ disk' = disk
      /\ snap' = [s \in O!Savers |-> [p \in {Path} |-> -1]]
  BY DEF Start, O!Open, O!Reset, O!diskVars, O!NoEntries
<1>9. PICK C : C = 0..from \cup {-1}
  OBVIOUS
<1>10. disk \in [{Path} -> C]
  <2>1. disk[Path] \in C
    BY <1>2, <1>6, <1>9
  <2> QED
    BY <1>1, <2>1
<1>11. [p \in {Path} |-> -1] \in [{Path} -> C]
  BY <1>9
<1>12. snap' \in [O!Savers -> [{Path} -> C]]
  BY <1>8, <1>11
<1>13. EntryTo(taken)' = C
  BY <1>7, <1>9 DEF EntryTo
<1>14. OffsetsIn(EntryTo(taken))'
  BY <1>8, <1>10, <1>12, <1>13 DEF OffsetsIn
<1>15. logged' \in 0..Lines /\ taken' \in 0..logged' /\ kept' \in 0..taken'
  BY <1>1, <1>6, <1>7
<1> QED
  BY <1>5, <1>6, <1>14, <1>15 DEF NotBeyond

\* No step takes more than is logged, or keeps more than is taken.
LEMMA StaysBehind ==
  ASSUME NotBeyond, [IngestNext]_ingestVars
  PROVE  NotBeyond'
<1> USE IngestAssumption
<1>1. logged \in 0..Lines /\ taken \in 0..logged /\ kept \in 0..taken
  BY DEF NotBeyond
<1>2. PICK C : C = EntryTo(taken)
  OBVIOUS
<1>3. PICK D : D = EntryTo(taken)'
  OBVIOUS
<1>4. O!None \in C /\ taken \in C /\ OffsetsIn(C)
  BY <1>1, <1>2 DEF NotBeyond, EntryTo
<1>5. \A c \in C : \A v \in 0..c : v \in C
  <2>1. C = 0..taken \cup {-1}
    BY <1>2 DEF EntryTo, O!None
  <2> QED
    BY <1>1, <2>1
<1>6. ASSUME \/ O!SetOffset(Path, taken) \/ O!Coalesce \/ O!Save
             \/ O!DebounceExits \/ O!Close \/ O!Exit \/ O!Crash \/ O!Open
             \/ UNCHANGED offsetVars,
             taken' \in {taken, taken + 1}
      PROVE  OffsetsIn(EntryTo(taken))'
  <2>1. /\ offsets' \in [{Path} -> C]
        /\ disk' \in [{Path} -> C]
        /\ snap' \in [O!Savers -> [{Path} -> C]]
    BY <1>4, <1>5, <1>6, OffsetsMove
  <2>2. C \subseteq D
    BY <1>1, <1>2, <1>3, <1>6 DEF EntryTo
  <2>3. [{Path} -> C] \subseteq [{Path} -> D]
    BY <2>2
  <2>4. snap' \in [O!Savers -> [{Path} -> D]]
    BY <2>1, <2>3
  <2> QED
    BY <1>3, <2>1, <2>3, <2>4 DEF OffsetsIn
<1>7. CASE Start
  BY <1>7, StartsBehind
<1>8. CASE TakeLine
  <2>1. /\ kept' = kept /\ taken' = taken + 1 /\ logged' = logged
        /\ taken < logged /\ UNCHANGED offsetVars
    BY <1>8 DEF TakeLine, R!Take
  <2> QED
    BY <1>1, <1>6, <2>1 DEF NotBeyond
<1>9. CASE FinishTail
  <2>1. kept' = taken /\ taken' = taken /\ logged' = logged /\ O!SetOffset(Path, taken)
    BY <1>9 DEF FinishTail, R!Finish
  <2> QED
    BY <1>1, <1>6, <2>1 DEF NotBeyond
<1>10. CASE LogLine \/ BeginTail \/ StorageStep \/ CloseStorage \/ UNCHANGED ingestVars
  <2>1. /\ UNCHANGED <<kept, taken, offsetVars>>
        /\ logged' = logged \/ logged' \in (logged + 1)..Lines
    BY <1>10 DEF LogLine, BeginTail, StorageStep, CloseStorage, ingestVars,
                readVars, R!Log, R!Begin
  <2>2. logged' \in 0..Lines /\ taken' \in 0..logged' /\ kept' \in 0..taken'
    BY <1>1, <2>1
  <2> QED
    BY <1>6, <2>1, <2>2 DEF NotBeyond
<1>11. CASE OffsetStep \/ CloseFileInput \/ Exit \/ Crash
  <2>1. UNCHANGED <<logged, kept, taken>>
    BY <1>11 DEF OffsetStep, CloseFileInput, Exit, Crash, ReaderEnds, readVars
  <2>2. O!Coalesce \/ O!Save \/ O!DebounceExits \/ O!Close \/ O!Exit \/ O!Crash
    BY <1>11 DEF OffsetStep, CloseFileInput, Exit, Crash
  <2> QED
    BY <1>1, <1>6, <2>1, <2>2 DEF NotBeyond
<1> QED
  BY <1>7, <1>8, <1>9, <1>10, <1>11 DEF IngestNext

\* The bounds hold in every state.
LEMMA BehindInvariant == IngestSpec => []NotBeyond
<1>1. IngestInit => NotBeyond
  BY IngestAssumption DEF IngestInit, NotBeyond, R!ReadInit, O!OffsetInit,
     O!NoEntries, O!None, OffsetsIn, EntryTo
<1> QED
  BY <1>1, StaysBehind, PTL DEF IngestSpec

\* What is said of the offsets in OffsetStore holds in the pipeline: every step
\* of it is one that FileConfig takes by itself, or does not touch the offsets.
THEOREM OffsetsImplemented == IngestSpec => O!OffsetSpec
<1>1. IngestInit => O!OffsetInit
  BY DEF IngestInit
<1>2. NotBeyond /\ [IngestNext]_ingestVars => [O!OffsetNext]_(O!offsetVars)
  <2> SUFFICES ASSUME NotBeyond, [IngestNext]_ingestVars
               PROVE  O!OffsetNext \/ UNCHANGED offsetVars
    BY DEF offsetVars, O!offsetVars, O!diskVars, O!trigVars
  <2>1. CASE FinishTail
    <3>1. O!SetOffset(Path, taken)
      BY <2>1 DEF FinishTail
    <3>2. taken \in O!Offsets(Path)
      BY IngestAssumption DEF NotBeyond, O!Offsets
    <3> QED
      BY <3>1, <3>2 DEF O!OffsetNext
  <2>2. CASE OffsetStep \/ CloseFileInput \/ Exit \/ Crash \/ Start
    BY <2>2 DEF OffsetStep, CloseFileInput, Exit, Crash, Start, O!OffsetNext
  <2>3. CASE LogLine \/ BeginTail \/ TakeLine \/ StorageStep \/ CloseStorage
             \/ UNCHANGED ingestVars
    BY <2>3 DEF LogLine, BeginTail, TakeLine, StorageStep, CloseStorage, ingestVars
  <2> QED
    BY <2>1, <2>2, <2>3 DEF IngestNext
<1> QED
  BY <1>1, <1>2, BehindInvariant, PTL DEF IngestSpec, O!OffsetSpec

\* The pipeline keeps to what SQLiteStorage lets producers and processes do: one
\* that starts with an entry begins no later than after the last line that the
\* worker before it has written.  Without an entry Limit decides where it begins.
ImplementsStorage ==
  /\ S!StorageInit
  /\ [][S!StorageNext \/ (Start /\ disk[Path] = O!None)]_(S!storageVars)

\* What is said of the rows in SQLiteStorage holds in the pipeline: a process that
\* starts with an entry is one whose producer begins again before where the last
\* one ended; only one without an entry may begin behind it.
THEOREM StorageImplemented == IngestSpec => ImplementsStorage
<1>1. IngestInit => S!StorageInit
  BY DEF IngestInit, R!ReadInit, O!OffsetInit, S!StorageInit
<1>2. NotBeyond /\ [IngestNext]_ingestVars
        => [S!StorageNext \/ (Start /\ disk[Path] = O!None)]_(S!storageVars)
  <2> SUFFICES ASSUME NotBeyond, [IngestNext]_ingestVars,
                      ~(Start /\ disk[Path] = O!None)
               PROVE  S!StorageNext \/ UNCHANGED (S!storageVars)
    OBVIOUS
  <2>1. CASE Start
    <3>1. S!Open([p \in {Path} |-> getOffset(disk)])
      BY <2>1 DEF Start
    <3>2. getOffset(disk) \in 0..Lines /\ getOffset(disk) <= taken
      <4>1. NotBeyond' /\ taken' = getOffset(disk) /\ getOffset(disk) <= taken
        BY <2>1, StartsBehind DEF Start
      <4> QED
        BY <4>1, IngestAssumption DEF NotBeyond
    <3> QED
      BY <3>1, <3>2 DEF S!StorageNext, S!Restart
  <2>2. CASE TakeLine \/ StorageStep \/ CloseStorage \/ Exit \/ Crash
    BY <2>2 DEF TakeLine, StorageStep, CloseStorage, Exit, Crash, S!StorageNext
  <2>3. CASE LogLine \/ BeginTail \/ FinishTail \/ OffsetStep \/ CloseFileInput
             \/ UNCHANGED ingestVars
    <3>1. /\ UNCHANGED <<queueVars, taken>>
          /\ Up' <=> Up
      BY <2>3, OtherFacts DEF LogLine, BeginTail, FinishTail, OffsetStep,
         CloseFileInput, ingestVars
    <3> QED
      BY <3>1 DEF S!storageVars, S!dbVars, queueVars, Up
  <2> QED
    BY <2>1, <2>2, <2>3 DEF IngestNext
<1> QED
  BY <1>1, <1>2, BehindInvariant, PTL DEF IngestSpec, ImplementsStorage
=============================================================================
