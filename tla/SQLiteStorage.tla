--------------------------- MODULE SQLiteStorage ---------------------------
(***************************************************************************)
(* The write path of SQLiteStorage (internal/storage/sqlite.go).  The      *)
(* goroutines of the agents put rows on a channel of bounded capacity and  *)
(* block while it is full; one goroutine, watch, takes them off and        *)
(* inserts them into the database, whose AUTOINCREMENT key `_cursor` never *)
(* repeats.  Cleanup deletes rows by their timestamp.  Close stops watch   *)
(* without waiting for it and closes the database.                         *)
(*                                                                         *)
(* A row is <<p, n>>, the n-th one of producer p.  All agents share the    *)
(* channel; one table is modelled.  The database survives the process: a   *)
(* finished INSERT is committed.                                           *)
(***************************************************************************)
EXTENDS Integers, SequencesExt

CONSTANTS
  Producers,    \* goroutines that write rows: one per tailed file
  PerProducer,  \* bound on the rows of a producer
  Time,         \* Time[row]: the timestamp Cleanup looks at
  QueueCap,     \* capacity of insertQueue (256 in the code)
  Faults,       \* whether an INSERT may fail (a busy database, a full disk)
  Crashes,      \* whether the process may be killed
  MaxCursor     \* bound on the rows ever inserted

Rows == Producers \X (1..PerProducer)

ASSUME StorageAssumption == /\ PerProducer \in Nat
                            /\ Time \in [Rows -> Nat]
                            /\ QueueCap \in Nat \ {0}
                            /\ Faults \in BOOLEAN
                            /\ Crashes \in BOOLEAN
                            /\ MaxCursor \in Nat

VARIABLES
  queue,     \* insertQueue
  hand,      \* <<row>> while watch inserts it, <<>> otherwise
  watch,     \* where watch is: "select", "insert", "exited"
  stop,      \* the stop channel is closed
  dbOpen,    \* the database handle is open
  up,        \* the process is running
  table,     \* the rows in the database: records of cursor and row
  seq,       \* the largest cursor ever given (sqlite_sequence)
  sent,      \* sent[p]: the last row producer p has written
  gone       \* history: rows that failed, were cleaned up, or were in flight
             \* when a process ended

dbVars == <<table, seq>>
storageVars == <<queue, hand, watch, stop, dbOpen, up, table, seq, sent, gone>>

InFlight == ToSet(queue) \cup ToSet(hand)
Stored == {r.row : r \in table}

StorageInit == /\ queue = <<>> /\ hand = <<>>
               /\ watch = "select"
               /\ stop = FALSE /\ dbOpen = TRUE /\ up = TRUE
               /\ table = {} /\ seq = 0
               /\ sent = [p \in Producers |-> 0]
               /\ gone = {}

-----------------------------------------------------------------------------
(* Agent.Write and Write: a send that blocks while the channel is full,    *)
(* whether or not anyone is left to receive.                               *)

\* Mutant: a row that finds the channel full is dropped.
Write_Drops(p) == /\ up
                  /\ sent[p] < PerProducer
                  /\ sent' = [sent EXCEPT ![p] = @ + 1]
                  /\ queue' = IF Len(queue) < QueueCap
                              THEN Append(queue, <<p, sent[p] + 1>>) ELSE queue
                  /\ UNCHANGED <<hand, watch, stop, dbOpen, up, dbVars, gone>>

Write(p) == /\ up
            /\ sent[p] < PerProducer
            /\ Len(queue) < QueueCap
            /\ sent' = [sent EXCEPT ![p] = @ + 1]
            /\ queue' = Append(queue, <<p, sent[p] + 1>>)
            /\ UNCHANGED <<hand, watch, stop, dbOpen, up, dbVars, gone>>

-----------------------------------------------------------------------------
(* watch: select picks any ready case, so it may go on after stop.         *)

WatchTakes == /\ up
              /\ watch = "select"
              /\ queue # <<>>
              /\ hand' = <<Head(queue)>>
              /\ queue' = Tail(queue)
              /\ watch' = "insert"
              /\ UNCHANGED <<stop, dbOpen, up, dbVars, sent, gone>>

WatchStops == /\ up
              /\ watch = "select"
              /\ stop
              /\ watch' = "exited"
              /\ UNCHANGED <<queue, hand, stop, dbOpen, up, dbVars, sent, gone>>

Inserted == /\ up
            /\ watch = "insert"
            /\ hand' = <<>>
            /\ watch' = "select"
            /\ UNCHANGED <<queue, stop, dbOpen, up, sent>>

\* Mutant: a plain rowid, one more than the largest that is in the table.
InsertSucceeds_Rowid ==
  LET next == CHOOSE c \in 1..(seq + 1) :
                /\ \A r \in table : r.cursor < c
                /\ c = 1 \/ \E r \in table : r.cursor = c - 1
  IN /\ dbOpen
     /\ seq < MaxCursor
     /\ Inserted
     /\ seq' = next
     /\ table' = table \cup {[cursor |-> next, row |-> hand[1]]}
     /\ UNCHANGED gone

InsertSucceeds == /\ dbOpen
                  /\ seq < MaxCursor
                  /\ Inserted
                  /\ seq' = seq + 1
                  /\ table' = table \cup {[cursor |-> seq + 1, row |-> hand[1]]}
                  /\ UNCHANGED gone

\* Mutants: a failed row is queued again, a failure ends watch.
InsertFails_Requeues == /\ Faults \/ ~dbOpen
                        /\ up
                        /\ watch = "insert"
                        /\ hand' = <<>>
                        /\ watch' = "select"
                        /\ queue' = queue \o hand
                        /\ UNCHANGED <<stop, dbOpen, up, dbVars, sent, gone>>

InsertFails_EndsWatch == /\ Faults \/ ~dbOpen
                         /\ up
                         /\ watch = "insert"
                         /\ hand' = <<>>
                         /\ watch' = "exited"
                         /\ gone' = gone \cup ToSet(hand)
                         /\ UNCHANGED <<queue, stop, dbOpen, up, dbVars, sent>>

\* The error is logged and the row dropped.
InsertFails == /\ Faults \/ ~dbOpen
               /\ Inserted
               /\ gone' = gone \cup ToSet(hand)
               /\ UNCHANGED dbVars

-----------------------------------------------------------------------------
(* Cleanup: the rows before now - retention.  The cut is on the timestamps *)
(* of the log, which say nothing of the order of insertion.                *)

Cleanup(cut) == LET old == {r \in table : Time[r.row] < cut}
                IN /\ up /\ dbOpen
                   /\ table' = table \ old
                   /\ gone' = gone \cup {r.row : r \in old}
                   /\ UNCHANGED <<queue, hand, watch, stop, dbOpen, up, seq, sent>>

-----------------------------------------------------------------------------
(* Close: the stop channel, then the database; the process goes on to exit *)
(* without waiting for watch.                                              *)

CloseStop == /\ up
             /\ ~stop
             /\ stop' = TRUE
             /\ UNCHANGED <<queue, hand, watch, dbOpen, up, dbVars, sent, gone>>

CloseDB == /\ up
           /\ stop
           /\ dbOpen
           /\ dbOpen' = FALSE
           /\ UNCHANGED <<queue, hand, watch, stop, up, dbVars, sent, gone>>

Ends == /\ up
        /\ up' = FALSE
        /\ dbOpen' = FALSE
        /\ queue' = <<>> /\ hand' = <<>>
        /\ watch' = "exited"
        /\ gone' = gone \cup InFlight
        /\ UNCHANGED <<stop, dbVars, sent>>

Exit == stop /\ ~dbOpen /\ Ends

Crash == Crashes /\ Ends

\* Open, in a process whose producers begin again somewhere before.
Open(from) == /\ ~up
              /\ up' = TRUE
              /\ dbOpen' = TRUE
              /\ watch' = "select"
              /\ stop' = FALSE
              /\ sent' = from
              /\ UNCHANGED <<queue, hand, dbVars, gone>>

Restart == \E from \in [Producers -> 0..PerProducer] :
             /\ \A p \in Producers : from[p] <= sent[p]
             /\ Open(from)

-----------------------------------------------------------------------------
Watcher == WatchTakes \/ WatchStops \/ InsertSucceeds \/ InsertFails

StorageNext == \/ \E p \in Producers : Write(p)
               \/ Watcher
               \/ \E row \in Rows : Cleanup(Time[row])
               \/ CloseStop \/ CloseDB \/ Exit \/ Crash \/ Restart

StorageSpec == StorageInit /\ [][StorageNext]_storageVars

\* watch is scheduled, and its statements return.
StorageFairness == WF_storageVars(Watcher)

-----------------------------------------------------------------------------
(* Correctness.                                                            *)

\* The state is well formed: the channel, watch and the database.
StorageTypeOK == /\ queue \in Seq(Rows) /\ Len(queue) <= QueueCap
                 /\ hand \in Seq(Rows)
                 /\ watch \in {"select", "insert", "exited"}
                 /\ watch = "insert" <=> Len(hand) = 1
                 /\ watch # "insert" <=> Len(hand) = 0
                 /\ stop \in BOOLEAN /\ dbOpen \in BOOLEAN /\ up \in BOOLEAN
                 /\ table \subseteq [cursor : 1..MaxCursor, row : Rows]
                 /\ seq \in 0..MaxCursor
                 /\ sent \in [Producers -> 0..PerProducer]
                 /\ gone \subseteq Rows

\* A row that Write accepted is on its way, in the table, or was lost by a
\* failed INSERT, a Cleanup or the end of a process: watch drops nothing.
RowsAccounted ==
  \A p \in Producers : \A n \in 1..sent[p] :
    <<p, n>> \in InFlight \cup Stored \cup gone

\* The rows of one producer reach the table in the order they were written:
\* what is in flight is what it wrote last, in order.
RowsInOrder ==
  LET flight == hand \o queue
  IN \A i, j \in DOMAIN flight :
       i < j /\ flight[i][1] = flight[j][1] => flight[i][2] < flight[j][2]

\* Whatever the inserts do, a full channel has room again while storage is
\* open: a failed INSERT does not end watch, no producer is blocked for ever.
ProducersReleased == Len(queue) = QueueCap ~> (Len(queue) < QueueCap \/ stop)
=============================================================================
