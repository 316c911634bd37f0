------------------------------- MODULE Query -------------------------------
(***************************************************************************)
(* What SQLiteStorage.Query sends back for a request (internal/storage:    *)
(* sqlite.go, query.go): the rows that match, from one end of the table as *)
(* far as the limit goes, in the order of their cursors.                   *)
(*                                                                         *)
(* A row of a table is a record with a cursor; valueOf[r][name] is its     *)
(* column.  The text operators (exact, like, prefix, suffix) select rows   *)
(* and nothing more, as the integer ones do, and are left out.             *)
(***************************************************************************)
EXTENDS Integers, FiniteSets, SequencesExt

Unset == -1     \* a cursor or a limit that the request does not give

\* SetAfter, SetBefore, SetLimit, and SetFilter called in this order.
NewQuery(after, before, limit, filters) ==
  [after |-> after, before |-> before, limit |-> limit, filters |-> filters]

Compare(op, x, v) == CASE op = "eq" -> x = v
                       [] op = "ne" -> x # v
                       [] op \in {"lt", "until"} -> x < v
                       [] op = "lte" -> x <= v
                       [] op \in {"gt", "since"} -> x > v
                       [] op = "gte" -> x >= v

\* A before cursor beside an after cursor is not looked at.
InCursors(q, c) ==
  /\ q.after # Unset => c > q.after
  /\ q.after = Unset /\ q.before # Unset => c < q.before

\* since goes with a before cursor only, until with an after cursor only: the
\* answer to other combinations is empty.
Rejected(q) == \E f \in ToSet(q.filters) :
                 \/ f.op = "since" /\ q.after # Unset
                 \/ f.op = "until" /\ q.before # Unset

\* Mutant: the cursors do not choose the end.
NewestFirst_Always(q) == TRUE

\* The end that the limit is counted from: the last since or until decides.
NewestFirst(q) ==
  LET dated == {i \in DOMAIN q.filters : q.filters[i].op \in {"since", "until"}}
  IN IF dated = {} THEN q.after = Unset
     ELSE \E i \in dated : q.filters[i].op = "until" /\ \A j \in dated : j <= i

Page(q, table, valueOf) ==
  LET match == {r \in table :
                  /\ InCursors(q, r.cursor)
                  /\ \A f \in ToSet(q.filters) :
                       Compare(f.op, valueOf[r][f.name], f.val)}
      before(r) == {o \in match : IF NewestFirst(q) THEN o.cursor > r.cursor
                                                    ELSE o.cursor < r.cursor}
  IN IF Rejected(q) THEN {}
     ELSE {r \in match : q.limit = Unset \/ Cardinality(before(r)) < q.limit}
=============================================================================
