---------------------------- MODULE CursorReader ----------------------------
(***************************************************************************)
(* A client that pages through a table by cursor, while watch inserts,     *)
(* Cleanup deletes and the process restarts: first the newest rows, then   *)
(* pages before the first cursor it has and after the last one (SetAfter:  *)
(* "Move to the next page, or refresh tail").  All its requests carry the  *)
(* same filters, which handleQuery takes from a map, in any order.         *)
(***************************************************************************)
EXTENDS SQLiteStorage, Query

CONSTANTS
  Limit,      \* rows in a page
  Filters     \* the sets of filters a client may use

ASSUME ReaderAssumption == /\ Limit \in Nat \ {0}
                           /\ \A fs \in Filters : IsFiniteSet(fs)

VARIABLES
  filters,     \* the filters of the client
  first, last, \* the least and the greatest cursor it has been sent
  received     \* the rows it has been sent

clientVars == <<filters, first, last, received>>
readerVars == <<storageVars, clientVars>>

ReaderInit == /\ StorageInit
              /\ filters \in Filters
              /\ first = Unset
              /\ last = Unset
              /\ received = {}

TimeOf == [r \in table |-> [time |-> Time[r.row]]]

Answers(after, before) ==
  {Page(NewQuery(after, before, Limit, fs), table, TimeOf) :
     fs \in SetToSeqs(filters)}

Ask(after, before) ==
  /\ up /\ dbOpen
  /\ \E page \in Answers(after, before) :
       /\ page # {}
       /\ received' = received \cup page
       /\ LET cursors == {r.cursor : r \in received \cup page}
          IN /\ first' \in cursors /\ last' \in cursors
             /\ \A c \in cursors : first' <= c /\ c <= last'
  /\ UNCHANGED <<storageVars, filters>>

Newest == first = Unset /\ Ask(Unset, Unset)

Older == first # Unset /\ Ask(Unset, first)

Newer == last # Unset /\ Ask(last, Unset)

ReaderNext == \/ Newest \/ Older \/ Newer
              \/ StorageNext /\ UNCHANGED clientVars

ReaderSpec == ReaderInit /\ [][ReaderNext]_readerVars

ReaderFairSpec == ReaderSpec /\ StorageFairness

-----------------------------------------------------------------------------
\* Pages by until are the newest rows of what is left: they do not join.
PagesJoin == \A f \in filters : f.op # "until"

Wanted(r) == \A f \in filters : Compare(f.op, TimeOf[r][f.name], f.val)

\* A row that lies between two cursors the client has been sent has been sent
\* to it: pages join without a gap, cursors are committed in order and never
\* given twice, even when Cleanup has deleted the newest rows or the process
\* has restarted.
ReaderMissesNothing ==
  PagesJoin =>
    \A r \in table :
      Wanted(r) /\ r.cursor \in first..last => r \in received

\* No cursor names two rows in the life of the database.
CursorsUnique ==
  \A r, q \in received \cup table : r.cursor = q.cursor => r = q
=============================================================================
