----------------------------- MODULE MCStorage -----------------------------
(* SQLiteStorage and a client of it for TLC: timestamps that do not follow   *)
(* the order of rows; no filter, two on the time, since, and until.           *)
EXTENDS CursorReader

MCTime == [row \in Rows |-> (row[2] + 1) % 2]

On(op, v) == [op |-> op, name |-> "time", val |-> v]

MCFilters == {{}, {On("gte", 1), On("ne", 2)}, {On("since", 0)},
              {On("until", 1)}}
=============================================================================
