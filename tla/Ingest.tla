------------------------------- MODULE Ingest -------------------------------
(***************************************************************************)
(* The path of one log's lines to the database, and what is left of it     *)
(* after a stop or a crash: the worker (LineReader), the channel and the   *)
(* goroutine of SQLiteStorage, and the offsets of FileConfig (OffsetStore),*)
(* in one process that main.go starts and stops.                           *)
(*                                                                         *)
(* The log is only appended to, and outlives the process; each line makes  *)
(* one row.  The worker's goroutine runs until the process is gone: Stop   *)
(* of its debouncer does not interrupt a run, nor forbid the next one.     *)
(***************************************************************************)
EXTENDS Integers, FiniteSetsExt

CONSTANTS
  Path,        \* the path of the log
  Lines,       \* lines ever logged
  Limit,       \* FileConfig.Limit, the lines read of a file without an entry
  QueueCap,    \* capacity of the insert queue
  Faults,      \* whether inserts and writes of the offsets file may fail
  ShortWrites, \* whether a write that fails may leave a part of the text
  Crashes,     \* whether the process may be killed
  MaxCursor    \* bound on the rows ever inserted

ASSUME IngestAssumption == Lines \in Nat /\ Limit \in Nat

VARIABLES
  logged, kept, taken, reading,                              \* LineReader
  queue, hand, watch, stop, dbOpen, table, seq, gone,        \* SQLiteStorage
  offsets, disk, broken, saver, snap,
  saveOwed, savePhase, saveClosed, life,                     \* OffsetStore
  skipped,   \* history: lines that a first read left out
  openAt,    \* history: the offset this process began to read at
  openSeq    \* history: the last cursor given before this process

readVars == <<logged, kept, taken, reading>>
queueVars == <<queue, hand, watch, stop, dbOpen, table, seq, gone>>
offsetVars == <<offsets, disk, broken, saver, snap, saveOwed, savePhase,
                saveClosed, life>>
openVars == <<skipped, openAt, openSeq>>
ingestVars == <<readVars, queueVars, offsetVars, openVars>>

R == INSTANCE LineReader

O == INSTANCE OffsetStore WITH Paths <- {Path},
                            MaxOffset <- [p \in {Path} |-> Lines]

S == INSTANCE SQLiteStorage WITH
       Producers <- {Path}, PerProducer <- Lines,
       Time <- [row \in {Path} \X (1..Lines) |-> 0],
       up <- life # "down",
       sent <- [p \in {Path} |-> taken]

Up == life # "down"

IngestInit == /\ R!ReadInit
              /\ kept = 0
              /\ O!OffsetInit
              /\ queue = <<>> /\ hand = <<>> /\ watch = "select"
              /\ stop = FALSE /\ dbOpen = TRUE
              /\ table = {} /\ seq = 0 /\ gone = {}
              /\ skipped = {} /\ openAt = 0 /\ openSeq = 0

-----------------------------------------------------------------------------
(* The worker.                                                             *)

LogLine == /\ R!Log
           /\ UNCHANGED <<queueVars, offsetVars, openVars>>

BeginTail == /\ Up
             /\ R!Begin
             /\ UNCHANGED <<queueVars, offsetVars, openVars>>

\* tail blocks in Write while the channel is full.
TakeLine == /\ R!Take
            /\ UNCHANGED <<offsetVars, openVars>>
            /\ S!Write(Path)

FinishTail == /\ R!Finish
              /\ O!SetOffset(Path, taken)
              /\ UNCHANGED <<queueVars, openVars>>

-----------------------------------------------------------------------------
(* The goroutines of the storage and of the offsets' debouncer.            *)

StorageStep == /\ UNCHANGED <<readVars, offsetVars, openVars>>
               /\ S!Watcher

OffsetStep == /\ O!Coalesce \/ O!Save \/ O!DebounceExits
              /\ UNCHANGED <<readVars, queueVars, openVars>>

-----------------------------------------------------------------------------
(* appInstance.stop: Storage.Close, then FileInput.Close, then main        *)
(* returns.                                                                *)

CloseStorage == /\ life = "up"
                /\ UNCHANGED <<readVars, offsetVars, openVars>>
                /\ S!CloseStop \/ S!CloseDB

CloseFileInput == /\ stop /\ ~dbOpen
                  /\ O!Close
                  /\ UNCHANGED <<readVars, queueVars, openVars>>

ReaderEnds == /\ reading' = FALSE
              /\ UNCHANGED <<logged, kept, taken>>

Exit == /\ ReaderEnds
        /\ O!Exit
        /\ S!Exit
        /\ UNCHANGED openVars

Crash == /\ ReaderEnds
         /\ O!Crash
         /\ S!Crash
         /\ UNCHANGED openVars

-----------------------------------------------------------------------------
(* appInstance.start: Storage.Open, FileInput.Open, and a worker whose     *)
(* offset is getOffset(path).                                              *)

FirstRead == IF Limit = 0 \/ logged <= Limit THEN 0 ELSE logged - Limit

getOffset(m) == IF m[Path] # O!None THEN m[Path] ELSE FirstRead

Start == /\ O!Open
         /\ LET from == getOffset(disk)
            IN /\ kept' = from
               /\ taken' = from
               /\ openAt' = from
               /\ skipped' = IF disk[Path] = O!None THEN skipped \cup 1..from
                             ELSE skipped
         /\ reading' = FALSE
         /\ openSeq' = seq
         /\ UNCHANGED logged
         /\ S!Open([p \in {Path} |-> getOffset(disk)])

-----------------------------------------------------------------------------
IngestNext == \/ LogLine \/ BeginTail \/ TakeLine \/ FinishTail
              \/ StorageStep \/ OffsetStep
              \/ CloseStorage \/ CloseFileInput \/ Exit \/ Crash \/ Start

IngestSpec == IngestInit /\ [][IngestNext]_ingestVars

\* The worker's debouncer runs after a write event, and a run reads on to the
\* end of the file (Tail, LineDelivered): a line that can be taken in run
\* after run is taken.  The goroutines are scheduled.
IngestFairSpec == /\ IngestSpec
                  /\ WF_ingestVars(BeginTail)
                  /\ SF_ingestVars(TakeLine)
                  /\ WF_ingestVars(taken = logged /\ FinishTail)
                  /\ WF_ingestVars(StorageStep)

-----------------------------------------------------------------------------
(* Correctness.                                                            *)

Row(n) == <<Path, n>>

\* Every offset that the process or a later one may resume from.
Resumable == {kept, taken, disk[Path], offsets[Path]}
               \cup {snap[s][Path] : s \in O!Savers}

\* No line is passed over: one that lies before any offset that reading may
\* resume from has become a row, or is on its way, or was left out by Limit,
\* or was lost with a failed insert or with the queue of a process.
NoLinePassedOver ==
  \A n \in 1..Lines :
    (\E o \in Resumable : n <= o) =>
      n \in skipped \/ Row(n) \in S!InFlight \cup S!Stored \cup gone

\* Within one process each line is inserted at most once, in the order of the
\* log, and none that lies before the offset the process resumed from.
InsertsOnceInOrder ==
  LET mine == {r \in table : r.cursor > openSeq}
  IN \A r \in mine :
       /\ r.row[2] > openAt
       /\ \A q \in mine : q.cursor < r.cursor => q.row[2] < r.row[2]

\* When the log has ended, each of its lines reaches the table while the
\* process stays up, through a queue that is shorter than the log, unless its
\* insert fails (and while the bound gives cursors): none waits for another
\* line to come.
LinesReachTable ==
  logged = Lines ~>
    \/ \A n \in (openAt + 1)..Lines : Row(n) \in S!Stored \cup gone
    \/ stop \/ ~Up \/ seq = MaxCursor

=============================================================================
