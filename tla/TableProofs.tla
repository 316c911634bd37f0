---------------------------- MODULE TableProofs ----------------------------
(***************************************************************************)
(* What is kept in a table.  Its columns: for every set of fields and      *)
(* types, the table is as configured when a migration succeeds, and a      *)
(* migration is only refused for an index; the invariant says, for each    *)
(* loop of migrateTable what it has left to do, in terms of the database   *)
(* as it is now.  Its rows: for every period, unit and int64, retention    *)
(* deletes no row whose line is not old enough.                            *)
(***************************************************************************)
EXTENDS Migrate, Retention, WellFoundedInduction, TLAPS

(***************************************************************************)
(* Migrate.                                                                *)
(***************************************************************************)

\* In the loop of CREATE INDEX statements, the indexes left to create.
CreatingInv == phase = "createIndexes" => /\ columns = want
                                          /\ indexes \cup todo = wantIndex

\* In the loop of DROP COLUMN statements, the columns left to drop.
DroppingInv == phase = "drop" =>
                 /\ \A c \in Present(want) : known[c] = columns[c]
                 /\ todo = {c \in Present(columns) : columns[c] # want[c]}

\* In the loop of ADD COLUMN statements, the columns left to add.
AddingInv == phase = "add" =>
               /\ todo = {c \in Columns : columns[c] # want[c]}
               /\ \A c \in todo : columns[c] = None

\* In the loop of the index statements, the indexes left to change.
IndexingInv ==
  phase = "index" =>
    /\ columns = want
    /\ todo = {c \in Columns : (c \in wantIndex) # (c \in indexes)}

\* The loops run on a table that is there.
RunsOnTable == phase \in {"createIndexes", "drop", "add", "index"} => exists

MInv == /\ MigrateTypeOK
        /\ RunsOnTable
        /\ CreatingInv /\ DroppingInv /\ AddingInv /\ IndexingInv
        /\ DoneMeansConfigured
        /\ RefusedOnlyForIndex

-----------------------------------------------------------------------------
\* A new database has nothing to migrate.
LEMMA InitEstablishes == MigrateInit => MInv
  BY MigrateAssumption DEF MigrateInit, MInv, MigrateTypeOK, RunsOnTable,
     CreatingInv, DroppingInv, AddingInv, IndexingInv, DoneMeansConfigured,
     RefusedOnlyForIndex, NoColumns, Schemas, Present

\* Two tables with the same columns are equal.
LEMMA SchemasEqual ==
  ASSUME NEW s \in Schemas, NEW t \in Schemas, \A c \in Columns : s[c] = t[c]
  PROVE  s = t
  BY DEF Schemas

\* Each statement leaves the loop it is in with what is left to do.
LEMMA StepPreserves == MInv /\ [MigrateNext]_migrateVars => MInv'
<1> SUFFICES ASSUME MInv, [MigrateNext]_migrateVars PROVE MInv'
  OBVIOUS
<1> USE MigrateAssumption
<1> USE DEF MInv, MigrateTypeOK, RunsOnTable, Schemas, Present
<1>1. ASSUME NEW schema \in Schemas, NEW indexed \in SUBSET Present(schema),
             Start(schema, indexed)
      PROVE  MInv'
  BY <1>1 DEF Start, CreatingInv, DroppingInv, AddingInv, IndexingInv,
     DoneMeansConfigured, RefusedOnlyForIndex, dbVars
<1>2. CASE createTable
  BY <1>2 DEF createTable, Goes, fieldVars, CreatingInv, DroppingInv, AddingInv,
     IndexingInv, DoneMeansConfigured, RefusedOnlyForIndex, NoColumns
<1>3. CASE CreateIndexes
  BY <1>3 DEF CreateIndexes, Goes, fieldVars, CreatingInv, DroppingInv, AddingInv,
     IndexingInv, DoneMeansConfigured, RefusedOnlyForIndex
<1>4. CASE getColumns
  BY <1>4 DEF getColumns, Goes, fieldVars, dbVars, CreatingInv, DroppingInv,
     AddingInv, IndexingInv, DoneMeansConfigured, RefusedOnlyForIndex
<1>5. CASE DropColumn
  <2>1. PICK c \in todo \ indexes :
          /\ phase = "drop" /\ phase' = "drop"
          /\ columns' = [columns EXCEPT ![c] = None]
          /\ known' = IF want[c] = None THEN known
                      ELSE [known EXCEPT ![c] = None]
          /\ todo' = todo \ {c}
          /\ UNCHANGED <<exists, indexes, want, wantIndex, faulted>>
    BY <1>5 DEF DropColumn, Goes, fieldVars
  <2>2. c \in Columns /\ \A d \in Columns \ {c} : columns'[d] = columns[d]
    BY <2>1
  <2>3. columns'[c] = None /\ columns' \in Schemas
    BY <2>1, <2>2
  <2>4. MigrateTypeOK'
    BY <2>1, <2>2, <2>3
  <2>5. DroppingInv'
    BY <2>1, <2>2, <2>3 DEF DroppingInv
  <2>6. QED
    BY <2>1, <2>4, <2>5 DEF CreatingInv, AddingInv, IndexingInv,
       DoneMeansConfigured, RefusedOnlyForIndex
<1>6. CASE AllDropped
  BY <1>6 DEF AllDropped, Goes, fieldVars, dbVars, CreatingInv, DroppingInv,
     AddingInv, IndexingInv, DoneMeansConfigured, RefusedOnlyForIndex
<1>7. CASE AddColumn
  <2>1. PICK c \in todo \ Present(columns) :
          /\ phase = "add" /\ phase' = "add"
          /\ columns' = [columns EXCEPT ![c] = want[c]]
          /\ todo' = todo \ {c}
          /\ UNCHANGED <<exists, indexes, known, want, wantIndex, faulted>>
    BY <1>7 DEF AddColumn, Goes, fieldVars
  <2>2. /\ c \in Columns /\ columns[c] = None /\ want[c] # None
        /\ \A d \in Columns \ {c} : columns'[d] = columns[d]
    BY <2>1 DEF AddingInv
  <2>3. columns'[c] = want[c] /\ columns' \in Schemas
    BY <2>1, <2>2
  <2>4. MigrateTypeOK'
    <3>1. Present(columns) \subseteq Present(columns)'
      BY <2>2, <2>3
    <3>2. exists
      BY <2>1 DEF RunsOnTable
    <3>3. QED
      BY <2>1, <2>3, <3>1, <3>2
  <2>5. AddingInv'
    BY <2>1, <2>2, <2>3 DEF AddingInv
  <2>6. QED
    BY <2>1, <2>4, <2>5 DEF CreatingInv, DroppingInv, IndexingInv,
       DoneMeansConfigured, RefusedOnlyForIndex
<1>8. CASE Refused
  BY <1>8 DEF Refused, Impossible, Goes, fieldVars, dbVars, CreatingInv,
     DroppingInv, AddingInv, IndexingInv, DoneMeansConfigured, RefusedOnlyForIndex
<1>9. CASE getIndexes
  <2>1. columns = want
    BY <1>9, SchemasEqual DEF getIndexes, AddingInv
  <2>2. QED
    BY <1>9, <2>1 DEF getIndexes, Goes, fieldVars, dbVars, CreatingInv,
       DroppingInv, AddingInv, IndexingInv, DoneMeansConfigured, RefusedOnlyForIndex
<1>10. CASE ChangeIndex
  BY <1>10 DEF ChangeIndex, Goes, fieldVars, CreatingInv, DroppingInv, AddingInv,
     IndexingInv, DoneMeansConfigured, RefusedOnlyForIndex
<1>11. CASE Migrated
  BY <1>11 DEF Migrated, Goes, fieldVars, dbVars, CreatingInv, DroppingInv,
     AddingInv, IndexingInv, DoneMeansConfigured, RefusedOnlyForIndex
<1>12. CASE StatementFails
  BY <1>12 DEF StatementFails, fieldVars, dbVars, CreatingInv, DroppingInv,
     AddingInv, IndexingInv, DoneMeansConfigured, RefusedOnlyForIndex
<1>13. CASE Ends
  BY <1>13 DEF Ends, Goes, fieldVars, dbVars, NoColumns, CreatingInv, DroppingInv,
     AddingInv, IndexingInv, DoneMeansConfigured, RefusedOnlyForIndex
<1>14. CASE UNCHANGED migrateVars
  BY <1>14 DEF migrateVars, fieldVars, dbVars, CreatingInv, DroppingInv,
     AddingInv, IndexingInv, DoneMeansConfigured, RefusedOnlyForIndex
<1>15. QED
  BY <1>1, <1>2, <1>3, <1>4, <1>5, <1>6, <1>7, <1>8, <1>9, <1>10, <1>11, <1>12,
     <1>13, <1>14 DEF MigrateNext, Statement

\* The invariant holds in every state.
LEMMA Invariant == MigrateSpec => []MInv
  BY InitEstablishes, StepPreserves, PTL DEF MigrateSpec

-----------------------------------------------------------------------------
\* The table, the locals of migrateTable and its phases are well formed; an
\* index belongs to a column.
THEOREM MigrateTyped == MigrateSpec => []MigrateTypeOK
  BY Invariant, PTL DEF MInv

\* A migration that succeeds leaves the configured columns and indexes,
\* whatever the migrations before it did until they failed or were killed.
THEOREM SuccessMeansConfigured == MigrateSpec => []DoneMeansConfigured
  BY Invariant, PTL DEF MInv

\* A migration in which no statement fails by itself is refused only where a
\* column that has an index must go.
THEOREM OnlyIndexesRefuse == MigrateSpec => []RefusedOnlyForIndex
  BY Invariant, PTL DEF MInv

\* No statement drops or adds a column that is as configured.
LEMMA ColumnsKept ==
  ASSUME MInv, [MigrateNext]_migrateVars, UNCHANGED fieldVars,
         NEW c \in Columns, ColumnDone(c)
  PROVE  ColumnDone(c)'
<1> USE DEF MInv, MigrateTypeOK, Schemas, Present, ColumnDone, fieldVars
<1>1. ASSUME UNCHANGED columns PROVE ColumnDone(c)'
  BY <1>1
<1>2. CASE createTable
  BY <1>2 DEF createTable
<1>3. CASE DropColumn
  BY <1>3 DEF DropColumn, DroppingInv
<1>4. CASE AddColumn
  BY <1>4 DEF AddColumn, AddingInv
<1> QED
  BY <1>1, <1>2, <1>3, <1>4 DEF MigrateNext, Statement, Start, CreateIndexes,
     getColumns, AllDropped, Refused, getIndexes, ChangeIndex, Migrated,
     StatementFails, Ends, migrateVars, dbVars

\* No statement changes an index that is as configured.
LEMMA IndexesKept ==
  ASSUME MInv, [MigrateNext]_migrateVars, UNCHANGED fieldVars,
         NEW c \in Columns, IndexDone(c)
  PROVE  IndexDone(c)'
<1> USE DEF MInv, IndexDone, fieldVars
<1>1. ASSUME UNCHANGED indexes PROVE IndexDone(c)'
  BY <1>1
<1>2. CASE CreateIndexes
  <2>1. PICK d \in todo : phase = "createIndexes" /\ indexes' = indexes \cup {d}
    BY <1>2 DEF CreateIndexes
  <2>2. d \in wantIndex
    BY <2>1 DEF CreatingInv
  <2> QED
    BY <2>1, <2>2
<1>3. CASE ChangeIndex
  <2>1. PICK d \in todo : /\ phase = "index"
                          /\ indexes' = IF d \in wantIndex THEN indexes \cup {d}
                                                           ELSE indexes \ {d}
    BY <1>3 DEF ChangeIndex
  <2>2. (d \in wantIndex) # (d \in indexes)
    BY <2>1 DEF IndexingInv
  <2> QED
    BY <2>1, <2>2
<1> QED
  BY <1>1, <1>2, <1>3 DEF MigrateNext, Statement, Start, createTable, getColumns,
     DropColumn, AllDropped, AddColumn, Refused, getIndexes, Migrated,
     StatementFails, Ends, migrateVars, dbVars

\* Run again on what it left, a migration never undoes what is done, neither
\* to a column nor to an index.
THEOREM MigrationGoesOn == MigrateSpec => NeverUndone
<1>1. MInv /\ [MigrateNext]_migrateVars
        => [UNCHANGED fieldVars =>
              \A c \in Columns : /\ ColumnDone(c) => ColumnDone(c)'
                                 /\ IndexDone(c) => IndexDone(c)']_migrateVars
  BY ColumnsKept, IndexesKept
<1> QED
  BY <1>1, Invariant, PTL DEF MigrateSpec, NeverUndone
-----------------------------------------------------------------------------
(***************************************************************************)
(* Retention: the sum of a duration.                                       *)
(***************************************************************************)

\* A set of numbers has a least element.
LEMMA LeastExists ==
  ASSUME NEW S, S \subseteq Nat, S # {}
  PROVE  \E x \in S : \A y \in S : x <= y
<1>1. \E Less : /\ IsWellFoundedOn(Less, Nat)
                /\ \A x, y \in Nat : y < x => <<y, x>> \in Less
  <2>1. \A x, y \in Nat : y < x => <<y, x>> \in OpToRel(<, Nat)
    BY Zenon DEF OpToRel
  <2> QED
    BY <2>1, NatLessThanWellFounded, Zenon
<1>2. PICK Less : /\ IsWellFoundedOn(Less, Nat)
                  /\ \A x, y \in Nat : y < x => <<y, x>> \in Less
  BY <1>1
<1>3. PICK x \in S : \A y \in S : ~(<<y, x>> \in Less)
  BY <1>2, WFMin
<1>4. \A y \in S : ~(y < x)
  BY <1>2, <1>3
<1> QED
  BY <1>4

\* Numbers that hold a set which 0 is in, and n + 1 with n, are all in it.
LEMMA AllReached ==
  ASSUME NEW S, NEW n \in Nat, 0 \in S, \A i \in 0..n : i \in S => i + 1 \in S
  PROVE  0..n \subseteq S
<1> DEFINE Missing == {i \in 0..n : i \notin S}
<1> SUFFICES ASSUME Missing # {} PROVE FALSE
  OBVIOUS
<1>1. Missing \subseteq Nat
  OBVIOUS
<1>2. PICK i \in Missing : \A k \in Missing : i <= k
  BY <1>1, LeastExists
<1>3. i \in 0..n /\ i \notin S /\ i # 0
  OBVIOUS
<1>4. i - 1 \in 0..n /\ i - 1 \in S /\ i - 1 + 1 = i
  BY <1>2, <1>3
<1> QED
  BY <1>3, <1>4

\* The sum of a duration with one more part, in the configuration or in an int64.
Added(sum, amount, as) == IF as = "int64" THEN Wrap(sum + amount) ELSE sum + amount

\* f holds the sums of the first parts, up to n of them.
Sums(f, n, a, as) ==
  \A i \in 0..n : f[i] = IF i = 0 THEN 0 ELSE Added(f[i - 1], a[i], as)

\* There is a function that sums the parts one after the other.
LEMMA SumExists ==
  ASSUME NEW n \in Nat, NEW a, NEW as
  PROVE  \E f : Sums(f, n, a, as)
<1> DEFINE S == {m \in Nat : \E g : Sums(g, m, a, as)}
<1>1. 0 \in S
  <2>1. PICK g : g = [i \in {0} |-> 0]
    OBVIOUS
  <2>2. Sums(g, 0, a, as)
    BY <2>1 DEF Sums
  <2> QED
    BY <2>2
<1>2. ASSUME NEW m \in Nat, m \in S PROVE m + 1 \in S
  <2>1. PICK g : Sums(g, m, a, as)
    BY <1>2
  <2>2. \A i \in 0..m : g[i] = IF i = 0 THEN 0 ELSE Added(g[i - 1], a[i], as)
    BY <2>1 DEF Sums
  <2>3. PICK last : last = Added(g[m], a[m + 1], as)
    OBVIOUS
  <2>4. PICK h : h = [i \in 0..(m + 1) |-> IF i <= m THEN g[i] ELSE last]
    OBVIOUS
  <2>5. (\A i \in 0..m : h[i] = g[i]) /\ h[m + 1] = last
    BY <2>4
  <2>6. h[0] = 0
    <3>1. 0 \in 0..m
      OBVIOUS
    <3>2. g[0] = 0
      BY <2>2, <3>1
    <3> QED
      BY <2>5, <3>1, <3>2
  <2>7. ASSUME NEW i \in 1..m PROVE h[i] = Added(h[i - 1], a[i], as)
    <3>1. i \in 0..m /\ i - 1 \in 0..m /\ i # 0
      OBVIOUS
    <3>2. g[i] = Added(g[i - 1], a[i], as)
      BY <2>2, <3>1
    <3>3. h[i] = g[i] /\ h[i - 1] = g[i - 1]
      BY <2>5, <3>1
    <3> QED
      BY <3>2, <3>3
  <2>8. h[m + 1] = Added(h[(m + 1) - 1], a[m + 1], as)
    <3>1. (m + 1) - 1 = m /\ m \in 0..m
      OBVIOUS
    <3>2. h[(m + 1) - 1] = g[m]
      BY <2>5, <3>1
    <3> QED
      BY <2>3, <2>5, <3>2
  <2>9. \A i \in 0..(m + 1) : i = 0 \/ i \in 1..m \/ i = m + 1
    OBVIOUS
  <2>10. \A i \in 0..(m + 1) : h[i] = IF i = 0 THEN 0 ELSE Added(h[i - 1], a[i], as)
    BY <2>6, <2>7, <2>8, <2>9
  <2>11. Sums(h, m + 1, a, as)
    BY <2>10 DEF Sums
  <2>12. m + 1 \in Nat
    OBVIOUS
  <2> QED
    BY <2>11, <2>12, Zenon
<1>3. n \in S
  <2> HIDE DEF S
  <2>1. \A i \in 0..n : i \in S => i + 1 \in S
    BY <1>2
  <2> QED
    BY <1>1, <2>1, AllReached
<1> QED
  BY <1>3

\* The sums of Exact and of Parse, part by part.
LEMMA SumsAre ==
  ASSUME NEW parts, NEW n \in Nat, n = Len(parts)
  PROVE  \E e, p :
           /\ Exact(parts) = e[n] /\ e[0] = 0
           /\ Parse(parts) = p[n] /\ p[0] = 0
           /\ \A i \in 1..n :
                /\ e[i] = e[i - 1] + Amount(parts[i].value, parts[i].unit)
                /\ p[i] = Wrap(p[i - 1] + Wrap(Amount(Atoi(parts[i].value), parts[i].unit)))
<1> DEFINE a(i) == Amount(parts[i].value, parts[i].unit)
           b(i) == Wrap(Amount(Atoi(parts[i].value), parts[i].unit))
           e == CHOOSE f : f = [i \in 0..n |-> IF i = 0 THEN 0 ELSE f[i - 1] + a(i)]
           p == CHOOSE f : f = [i \in 0..n |-> IF i = 0 THEN 0 ELSE Wrap(f[i - 1] + b(i))]
<1>1. Exact(parts) = e[n] /\ Parse(parts) = p[n]
  BY Zenon DEF Exact, Parse
<1> HIDE DEF a, b
<1>2. e = [i \in 0..n |-> IF i = 0 THEN 0 ELSE e[i - 1] + a(i)]
  <2>1. PICK s : s = [i \in 0..n |-> a(i)]
    OBVIOUS
  <2>2. PICK f : Sums(f, n, s, "number")
    BY SumExists
  <2> DEFINE g == [i \in 0..n |-> f[i]]
  <2>3. \A i \in 0..n : g[i] = f[i] /\ (i # 0 => g[i - 1] = f[i - 1])
    OBVIOUS
  <2>4. g = [i \in 0..n |-> g[i]]
    OBVIOUS
  <2> HIDE DEF g
  <2>5. \A i \in 0..n : g[i] = IF i = 0 THEN 0 ELSE g[i - 1] + a(i)
    BY <2>1, <2>2, <2>3 DEF Sums, Added
  <2>6. g = [i \in 0..n |-> IF i = 0 THEN 0 ELSE g[i - 1] + a(i)]
    BY <2>4, <2>5
  <2> QED
    BY <2>6, Zenon
<1>3. p = [i \in 0..n |-> IF i = 0 THEN 0 ELSE Wrap(p[i - 1] + b(i))]
  <2>1. PICK s : s = [i \in 0..n |-> b(i)]
    OBVIOUS
  <2>2. PICK f : Sums(f, n, s, "int64")
    BY SumExists
  <2> DEFINE g == [i \in 0..n |-> f[i]]
  <2>3. \A i \in 0..n : g[i] = f[i] /\ (i # 0 => g[i - 1] = f[i - 1])
    OBVIOUS
  <2>4. g = [i \in 0..n |-> g[i]]
    OBVIOUS
  <2> HIDE DEF g
  <2>5. \A i \in 0..n : g[i] = IF i = 0 THEN 0 ELSE Wrap(g[i - 1] + b(i))
    BY <2>1, <2>2, <2>3 DEF Sums, Added
  <2>6. g = [i \in 0..n |-> IF i = 0 THEN 0 ELSE Wrap(g[i - 1] + b(i))]
    BY <2>4, <2>5
  <2> QED
    BY <2>6, Zenon
<1> HIDE DEF e, p
<1>4. \A i \in 1..n : i \in 0..n /\ i # 0
  OBVIOUS
<1>5. e[0] = 0 /\ p[0] = 0
  BY <1>2, <1>3
<1>6. \A i \in 1..n : e[i] = e[i - 1] + a(i) /\ p[i] = Wrap(p[i - 1] + b(i))
  BY <1>2, <1>3, <1>4
<1> QED
  BY <1>1, <1>5, <1>6 DEF a, b

\* A number that fits an int64 does not wrap.
LEMMA WrapFits ==
  ASSUME NEW k \in Nat, k <= MaxInt
  PROVE  Wrap(k) = k
<1>1. ASSUME NEW m \in Nat, k <= m
      PROVE  ((k + m + 1) % (2 * (m + 1))) - (m + 1) = k
  BY <1>1
<1> QED
  BY <1>1, RetentionAssumption DEF Wrap

\* A duration that fits an int64 is parsed as what it says, also if a number in
\* it or a product does not fit.
LEMMA ParseExact ==
  ASSUME NEW parts \in Seq([value : Nat, unit : STRING])
  PROVE  Exact(parts) \in Nat /\ (Exact(parts) <= MaxInt => Parse(parts) = Exact(parts))
<1>1. PICK n \in Nat : n = Len(parts)
  OBVIOUS
<1>2. \A i \in 1..n : parts[i].value \in Nat
  <2>1. \A i \in 1..n : parts[i] \in [value : Nat, unit : STRING]
    <3>1. PICK V : V = [value : Nat, unit : STRING]
      OBVIOUS
    <3>2. parts \in Seq(V)
      BY <3>1
    <3>3. \A i \in 1..Len(parts) : parts[i] \in V
      BY <3>2
    <3> QED
      BY <1>1, <3>1, <3>3
  <2> QED
    BY <2>1
<1>3. PICK e, p :
        /\ Exact(parts) = e[n] /\ e[0] = 0
        /\ Parse(parts) = p[n] /\ p[0] = 0
        /\ \A i \in 1..n :
             /\ e[i] = e[i - 1] + Amount(parts[i].value, parts[i].unit)
             /\ p[i] = Wrap(p[i - 1] + Wrap(Amount(Atoi(parts[i].value), parts[i].unit)))
  BY <1>1, SumsAre
<1>4. MaxInt \in Nat
  BY RetentionAssumption
<1>5. ASSUME NEW v \in Nat, NEW unit
      PROVE  /\ Amount(v, unit) \in Nat
             /\ Amount(v, unit) <= MaxInt => Amount(Atoi(v), unit) = Amount(v, unit)
  <2>1. CASE unit \notin DOMAIN UnitLength
    BY <2>1 DEF Amount
  <2>2. CASE unit \in DOMAIN UnitLength
    <3>1. PICK u \in Nat : u = UnitLength[unit]
      BY <2>2, RetentionAssumption
    <3>2. v * u \in Nat
      BY <3>1
    <3>3. CASE u = 0
      BY <1>4, <2>2, <3>1, <3>3 DEF Amount, Atoi
    <3>4. CASE u # 0
      <4>1. v <= v * u
        BY <3>1, <3>4
      <4> QED
        BY <1>4, <2>2, <3>1, <3>2, <4>1 DEF Amount, Atoi
    <3> QED
      BY <3>3, <3>4
  <2> QED
    BY <2>1, <2>2
<1>6. \A k \in 0..MaxInt : Wrap(k) = k
  BY <1>4, WrapFits
<1> DEFINE S == {i \in 0..n : e[i] \in Nat /\ (e[i] <= MaxInt => p[i] = e[i])}
<1>7. 0 \in S
  BY <1>2, <1>3
<1>8. ASSUME NEW i \in 0..n, i \in S, i # n PROVE i + 1 \in S
  <2> DEFINE v == parts[i + 1].value
             unit == parts[i + 1].unit
  <2>1. i + 1 \in 1..n /\ (i + 1) - 1 = i /\ i + 1 \in 0..n
    BY <1>2, <1>8
  <2>2. v \in Nat
    BY <1>2, <2>1
  <2>3. /\ e[i + 1] = e[i] + Amount(v, unit)
        /\ p[i + 1] = Wrap(p[i] + Wrap(Amount(Atoi(v), unit)))
    BY <1>3, <2>1
  <2> HIDE DEF v, unit
  <2>4. Amount(v, unit) \in Nat /\ e[i] \in Nat
    BY <1>5, <1>8, <2>2
  <2>5. ASSUME e[i + 1] <= MaxInt PROVE p[i + 1] = e[i + 1]
    <3>1. /\ e[i] <= MaxInt /\ Amount(v, unit) \in 0..MaxInt
          /\ e[i] + Amount(v, unit) \in 0..MaxInt
      BY <1>4, <2>3, <2>4, <2>5
    <3>2. Wrap(Amount(Atoi(v), unit)) = Amount(v, unit)
      BY <1>5, <1>6, <2>2, <3>1
    <3> QED
      BY <1>6, <1>8, <2>3, <3>1, <3>2
  <2> QED
    BY <2>1, <2>3, <2>4, <2>5
<1>9. n \in S
  <2> DEFINE T == S \cup {n + 1}
  <2>1. 0 \in T /\ \A i \in 0..n : i \in T => i + 1 \in T
    BY <1>2, <1>7, <1>8
  <2> HIDE DEF T
  <2>2. 0..n \subseteq T
    BY <2>1, AllReached
  <2>3. n \in T /\ n # n + 1
    BY <2>2
  <2> QED
    BY <2>3 DEF T
<1> QED
  BY <1>3, <1>9

-----------------------------------------------------------------------------
(***************************************************************************)
(* Retention: the ages.                                                    *)
(***************************************************************************)

\* The year that is inferred never makes a line look older than it is.
LEMMA InferredYoung ==
  ASSUME month \in 1..12, NEW late \in Nat
  PROVE  stdTimeParser(StampMonth(late)) \in Int /\ stdTimeParser(StampMonth(late)) <= late
  BY DEF stdTimeParser, StampMonth

\* A row with a converted timestamp was given an age at most that of its line,
\* and the period is what was parsed.
RetentionInv ==
  /\ conf.period \in Periods
  /\ period = Parse(conf.period)
  /\ month \in 1..12
  /\ DOMAIN row = {"stored", "kind", "age", "given"}
  /\ row.age \in Int /\ row.given \in Int
  /\ row.kind # "bad" => row.given <= row.age
  /\ OnlyOldRowsCleaned

\* The invariant holds in every state.
LEMMA RetentionInvariant == RetentionSpec => []RetentionInv
<1> USE RetentionAssumption
<1>1. RetentionInit => RetentionInv
  BY DEF RetentionInit, RetentionInv, NoRow, OnlyOldRowsCleaned
<1>2. RetentionInv /\ [RetentionNext]_retentionVars => RetentionInv'
  <2> SUFFICES ASSUME RetentionInv, [RetentionNext]_retentionVars
               PROVE  RetentionInv'
    OBVIOUS
  <2> USE DEF RetentionInv
  <2>1. CASE Read
    <3>1. PICK kind \in {"full", "stamp", "bad"}, late \in 0..MaxLate :
            row' = [stored |-> TRUE, kind |-> kind, age |-> AtMost(late),
                    given |-> AtMost(Converted(kind, late))]
      BY <2>1 DEF Read
    <3>2. /\ late \in Nat
          /\ Converted(kind, late) \in Int
          /\ kind # "bad" => Converted(kind, late) <= late
      BY InferredYoung DEF Converted
    <3>3. /\ AtMost(late) \in Int /\ AtMost(Converted(kind, late)) \in Int
          /\ kind # "bad" => AtMost(Converted(kind, late)) <= AtMost(late)
      BY <3>2 DEF AtMost
    <3>4. row'.age = AtMost(late) /\ row'.given = AtMost(Converted(kind, late))
          /\ row'.kind = kind /\ DOMAIN row' = {"stored", "kind", "age", "given"}
      BY <3>1
    <3>5. UNCHANGED <<conf, period, month, early>>
      BY <2>1 DEF Read
    <3> QED
      BY <3>3, <3>4, <3>5 DEF OnlyOldRowsCleaned
  <2>2. CASE Month
    <3>1. month' \in 1..12 /\ UNCHANGED <<conf, period, early>>
      <4>1. month' = (month % 12) + 1 /\ UNCHANGED <<conf, period, early>>
        BY <2>2, Zenon DEF Month
      <4> QED
        BY <4>1
    <3>2. \/ row' = row
          \/ /\ row'.age = AtMost(row.age + 1) /\ row'.given = AtMost(row.given + 1)
             /\ row'.kind = row.kind /\ DOMAIN row' = DOMAIN row
      BY <2>2 DEF Month
    <3>3. /\ DOMAIN row' = DOMAIN row /\ row'.age \in Int /\ row'.given \in Int
          /\ row'.kind # "bad" => row'.given <= row'.age
      BY <3>2 DEF AtMost
    <3> QED
      BY <3>1, <3>3 DEF OnlyOldRowsCleaned
  <2>3. CASE Cleanup
    <3>1. UNCHANGED <<conf, period, month>>
      BY <2>3 DEF Cleanup
    <3>2. CASE row' = row /\ early' = early
      BY <3>1, <3>2 DEF OnlyOldRowsCleaned
    <3>3. CASE /\ row.given > period /\ row' = NoRow
               /\ early' = (early \/ (row.kind # "bad" /\ row.age <= Exact(conf.period)))
      <4>1. conf.period \in Seq([value : Nat, unit : STRING])
        OBVIOUS
      <4>2. /\ Exact(conf.period) \in Nat
            /\ Exact(conf.period) <= MaxInt => Parse(conf.period) = Exact(conf.period)
        BY <4>1, ParseExact
      <4>3. row.kind # "bad" /\ row.age <= Exact(conf.period) =>
              Exact(conf.period) > MaxInt
        BY <3>3, <4>2
      <4>4. OnlyOldRowsCleaned'
        BY <3>1, <3>3, <4>3 DEF OnlyOldRowsCleaned
      <4> QED
        BY <3>1, <3>3, <4>4 DEF NoRow
    <3> QED
      BY <2>3, <3>2, <3>3 DEF Cleanup
  <2>4. CASE Tick \/ Stop \/ Restart \/ NewTicker \/ TakeTick \/ TakeStop
             \/ CleanupFails \/ UNCHANGED retentionVars
    BY <2>4 DEF Tick, Stop, Restart, NewTicker, TakeTick, TakeStop, CleanupFails,
                retentionVars, OnlyOldRowsCleaned
  <2> QED
    BY <2>1, <2>2, <2>3, <2>4 DEF RetentionNext, Goroutine
<1> QED
  BY <1>1, <1>2, PTL DEF RetentionSpec

\* A row is only deleted when its line is older than the configured period,
\* however late it was read and whatever year was inferred; except lines whose
\* timestamp cannot be converted, and periods that do not fit an int64.
THEOREM OldRowsOnly == RetentionSpec => []OnlyOldRowsCleaned
  BY RetentionInvariant, PTL DEF RetentionInv
=============================================================================
