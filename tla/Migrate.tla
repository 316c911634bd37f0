------------------------------ MODULE Migrate ------------------------------
(***************************************************************************)
(* SQLiteStorage.Migrate (internal/storage/sqlite.go): when an agent is    *)
(* loaded, its table is created or brought, statement by statement, to the *)
(* fields of its configuration, which may be edited between two starts.    *)
(* Each statement commits by itself and may fail, and the process may be   *)
(* killed between any two of them; the database survives.                  *)
(*                                                                         *)
(* The loops go through Go maps, in any order.  The columns whose name     *)
(* begins with `_` are left out: no field may have such a name.            *)
(***************************************************************************)
EXTENDS FiniteSets

CONSTANTS
  Columns,     \* names of fields
  Types,       \* SQL types
  None,        \* the type of a column that is not there
  Faults       \* whether a statement may fail (a busy database, a full disk)

ASSUME MigrateAssumption == None \notin Types /\ Faults \in BOOLEAN

Schemas == [Columns -> Types \cup {None}]

Present(schema) == {c \in Columns : schema[c] # None}

VARIABLES
  exists,     \* the table is in the database
  columns,    \* its columns and their types
  indexes,    \* the columns that have an index
  want,       \* the fields of the configuration (desiredColumns)
  wantIndex,  \* the fields with index: true
  phase,      \* where Migrate is
  known,      \* currentColumns
  todo,       \* what is left of the loop Migrate is in
  faulted     \* history: a statement has failed by itself in this process

dbVars == <<exists, columns, indexes>>
fieldVars == <<want, wantIndex>>
migrateVars == <<dbVars, fieldVars, phase, known, todo, faulted>>

NoColumns == [c \in Columns |-> None]

MigrateInit == /\ exists = FALSE
               /\ columns = NoColumns
               /\ indexes = {}
               /\ want = NoColumns
               /\ wantIndex = {}
               /\ phase = "down"
               /\ known = NoColumns
               /\ todo = {}
               /\ faulted = FALSE

-----------------------------------------------------------------------------
\* The process starts with the configuration as it is now.
Start(schema, indexed) == /\ phase = "down"
                          /\ phase' = "check"
                          /\ want' = schema
                          /\ wantIndex' = indexed
                          /\ faulted' = FALSE
                          /\ UNCHANGED <<dbVars, known, todo>>

Goes(to) == /\ phase' = to
            /\ UNCHANGED <<fieldVars, faulted>>

createTable == /\ phase = "check"
               /\ ~exists
               /\ exists' = TRUE
               /\ columns' = want
               /\ todo' = wantIndex
               /\ Goes("createIndexes")
               /\ UNCHANGED <<indexes, known>>

CreateIndexes == \E c \in todo : /\ phase = "createIndexes"
                                 /\ indexes' = indexes \cup {c}
                                 /\ todo' = todo \ {c}
                                 /\ Goes(phase)
                                 /\ UNCHANGED <<exists, columns, known>>

getColumns == /\ phase = "check"
              /\ exists
              /\ known' = columns
              /\ todo' = {c \in Present(columns) : columns[c] # want[c]}
              /\ Goes("drop")
              /\ UNCHANGED dbVars

\* Mutants: a column whose type has changed is thought to be there still, all
\* the columns are dropped.
DropColumn_StaysKnown == \E c \in todo \ indexes :
                /\ phase = "drop"
                /\ columns' = [columns EXCEPT ![c] = None]
                /\ todo' = todo \ {c}
                /\ Goes(phase)
                /\ UNCHANGED <<exists, indexes, known>>

DropColumn_Any == \E c \in Present(columns) \ indexes :
                /\ phase = "drop"
                /\ columns' = [columns EXCEPT ![c] = None]
                /\ known' = [known EXCEPT ![c] = None]
                /\ todo' = todo \ {c}
                /\ Goes(phase)
                /\ UNCHANGED <<exists, indexes>>

\* currentColumns loses the column only if it is to be added again.
DropColumn == \E c \in todo \ indexes :
                /\ phase = "drop"
                /\ columns' = [columns EXCEPT ![c] = None]
                /\ known' = IF want[c] = None THEN known
                            ELSE [known EXCEPT ![c] = None]
                /\ todo' = todo \ {c}
                /\ Goes(phase)
                /\ UNCHANGED <<exists, indexes>>

\* What SQLite refuses: to drop a column that has an index, to add one that
\* is there.
Impossible == {c \in todo : \/ phase = "drop" /\ c \in indexes
                            \/ phase = "add" /\ c \in Present(columns)}

Refused == /\ Impossible # {}
           /\ Goes("failed")
           /\ UNCHANGED <<dbVars, known, todo>>

\* Mutant: every field is added, not only the missing ones.
AllDropped_AddsAll == /\ phase = "drop"
                      /\ todo = {}
                      /\ todo' = Present(want)
                      /\ Goes("add")
                      /\ UNCHANGED <<dbVars, known>>

AllDropped == /\ phase = "drop"
              /\ todo = {}
              /\ todo' = Present(want) \ Present(known)
              /\ Goes("add")
              /\ UNCHANGED <<dbVars, known>>

AddColumn == \E c \in todo \ Present(columns) :
               /\ phase = "add"
               /\ columns' = [columns EXCEPT ![c] = want[c]]
               /\ todo' = todo \ {c}
               /\ Goes(phase)
               /\ UNCHANGED <<exists, indexes, known>>

\* The fields whose index differs from what it should be; the index of a
\* column that is no field is not looked at.
getIndexes == /\ phase = "add"
              /\ todo = {}
              /\ todo' = {c \in Present(want) : (c \in wantIndex) # (c \in indexes)}
              /\ Goes("index")
              /\ UNCHANGED <<dbVars, known>>

\* createIndex, dropIndex
ChangeIndex == \E c \in todo :
                 /\ phase = "index"
                 /\ indexes' = IF c \in wantIndex THEN indexes \cup {c}
                                                  ELSE indexes \ {c}
                 /\ todo' = todo \ {c}
                 /\ Goes(phase)
                 /\ UNCHANGED <<exists, columns, known>>

Migrated == /\ phase \in {"createIndexes", "index"}
            /\ todo = {}
            /\ Goes("done")
            /\ UNCHANGED <<dbVars, known, todo>>

\* The error of the statement is returned up to main, which ends the program.
StatementFails == /\ Faults
                  /\ phase \in {"check", "add"} \/ todo # {}
                  /\ phase # "failed"
                  /\ phase' = "failed"
                  /\ faulted' = TRUE
                  /\ UNCHANGED <<dbVars, fieldVars, known, todo>>

\* The program ends, by itself or killed.
Ends == /\ phase # "down"
        /\ Goes("down")
        /\ known' = NoColumns
        /\ todo' = {}
        /\ UNCHANGED dbVars

-----------------------------------------------------------------------------
Statement == \/ createTable \/ CreateIndexes
             \/ getColumns \/ DropColumn \/ AllDropped
             \/ AddColumn \/ Refused \/ getIndexes \/ ChangeIndex \/ Migrated

MigrateNext == \/ \E schema \in Schemas : \E indexed \in SUBSET Present(schema) :
                    Start(schema, indexed)
               \/ Statement \/ StatementFails \/ Ends

MigrateSpec == MigrateInit /\ [][MigrateNext]_migrateVars

-----------------------------------------------------------------------------
(* Correctness.                                                            *)

\* The state is well formed; an index belongs to a column, and a table that is
\* not there has none.
MigrateTypeOK ==
  /\ exists \in BOOLEAN
  /\ columns \in Schemas /\ want \in Schemas /\ known \in Schemas
  /\ indexes \subseteq Present(columns)
  /\ wantIndex \subseteq Present(want)
  /\ ~exists => columns = NoColumns
  /\ phase \in {"down", "check", "createIndexes", "drop", "add", "index",
                "failed", "done"}
  /\ todo \subseteq Columns
  /\ faulted \in BOOLEAN

\* A migration that succeeds leaves the table as configured, whatever earlier
\* migrations to this or other configurations had done before they failed or
\* were killed: an INSERT finds its columns, and no index is missing or left.
DoneMeansConfigured ==
  phase = "done" => columns = want /\ indexes = wantIndex

\* The column is as configured, and so is whether it has an index.
ColumnDone(c) == columns[c] = want[c]
IndexDone(c) == (c \in indexes) = (c \in wantIndex)

\* Run again on what it left, a migration goes on: no column that is as
\* configured, with the values in it, is dropped, no index that is asked for is
\* dropped, and none is built that is not asked for.
NeverUndone ==
  [][UNCHANGED fieldVars =>
       \A c \in Columns : /\ ColumnDone(c) => ColumnDone(c)'
                          /\ IndexDone(c) => IndexDone(c)']_migrateVars

\* Unless a statement fails by itself, a migration is refused only where a
\* column that has an index must go: such a configuration can never be loaded.
\* The fields of a configuration are a function here: one that names a field
\* twice, which CREATE TABLE refuses for ever, is not among the schemas.
RefusedOnlyForIndex ==
  phase = "failed" =>
    faulted \/ \E c \in indexes : columns[c] # want[c]
=============================================================================
