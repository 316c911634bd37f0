------------------------ MODULE SQLiteStorageProofs ------------------------
(***************************************************************************)
(* What the write path of SQLiteStorage keeps for any number of producers, *)
(* rows and places in the channel: the state is well formed, the rows of a *)
(* producer stay in order, and no row that Write accepted is dropped       *)
(* silently.  The order needs a stronger invariant than RowsInOrder: a row *)
(* in flight is one its producer has written, so the next one comes after. *)
(* And what a client that pages by cursor keeps, for pages of any size: no *)
(* cursor names two rows, and what it has been sent has no gap.            *)
(***************************************************************************)
EXTENDS CursorReader, SequenceTheorems, FiniteSetTheorems, TLAPS

\* The rows in flight, the one in hand first.
QueueWritten == \A i \in 1..Len(queue) : queue[i][2] <= sent[queue[i][1]]

QueueInOrder ==
  \A i, j \in 1..Len(queue) :
    i < j /\ queue[i][1] = queue[j][1] => queue[i][2] < queue[j][2]

HandFirst ==
  watch = "insert" =>
    /\ hand[1][2] <= sent[hand[1][1]]
    /\ \A j \in 1..Len(queue) :
         queue[j][1] = hand[1][1] => hand[1][2] < queue[j][2]

\* A process that is down has nothing in flight.
DownEmpty == ~up => queue = <<>> /\ watch = "exited"

SInv == /\ StorageTypeOK
        /\ QueueWritten /\ QueueInOrder /\ HandFirst
        /\ DownEmpty
        /\ RowsAccounted

-----------------------------------------------------------------------------
(* Sequences: what taking from one end and adding at the other does.       *)

\* Appending adds the one element.
LEMMA ToSetAppend ==
  ASSUME NEW S, NEW s \in Seq(S), NEW x \in S
  PROVE  ToSet(Append(s, x)) = ToSet(s) \cup {x}
<1>1. /\ DOMAIN s = 1..Len(s)
      /\ DOMAIN Append(s, x) = 1..(Len(s) + 1)
      /\ \A i \in 1..Len(s) : Append(s, x)[i] = s[i]
      /\ Append(s, x)[Len(s) + 1] = x
      /\ Len(s) \in Nat
  OBVIOUS
<1>2. QED
  BY <1>1 DEF ToSet

\* Taking the head takes the one element.
LEMMA ToSetTail ==
  ASSUME NEW S, NEW s \in Seq(S), s # <<>>
  PROVE  ToSet(s) = {Head(s)} \cup ToSet(Tail(s))
<1>1. /\ Len(s) \in Nat \ {0}
      /\ DOMAIN s = 1..Len(s)
      /\ DOMAIN Tail(s) = 1..(Len(s) - 1)
      /\ \A i \in 1..(Len(s) - 1) : Tail(s)[i] = s[i + 1]
      /\ Head(s) = s[1]
  OBVIOUS
<1>2. ASSUME NEW i \in 1..Len(s), i # 1 PROVE s[i] \in ToSet(Tail(s))
  <2>1. i - 1 \in 1..(Len(s) - 1) /\ Tail(s)[i - 1] = s[i]
    BY <1>1, <1>2
  <2>2. QED
    BY <1>1, <2>1 DEF ToSet
<1>3. ToSet(s) \subseteq {s[1]} \cup ToSet(Tail(s))
  BY <1>1, <1>2 DEF ToSet
<1>4. {s[1]} \cup ToSet(Tail(s)) \subseteq ToSet(s)
  <2>1. s[1] \in ToSet(s)
    BY <1>1 DEF ToSet
  <2>2. ASSUME NEW i \in 1..(Len(s) - 1) PROVE Tail(s)[i] \in ToSet(s)
    <3>1. i + 1 \in 1..Len(s) /\ Tail(s)[i] = s[i + 1]
      BY <1>1
    <3>2. QED
      BY <1>1, <3>1 DEF ToSet
  <2>3. QED
    BY <1>1, <2>1, <2>2 DEF ToSet
<1>5. QED
  BY <1>1, <1>3, <1>4

LEMMA ToSetEmpty == ToSet(<<>>) = {}
  BY DEF ToSet

-----------------------------------------------------------------------------
\* The first process starts with an empty channel and table.
LEMMA InitEstablishes == StorageInit => SInv
<1> SUFFICES ASSUME StorageInit PROVE SInv
  OBVIOUS
<1> USE StorageAssumption DEF StorageInit
<1>1. StorageTypeOK
  <2>1. queue \in Seq(Rows) /\ Len(queue) = 0 /\ hand \in Seq(Rows) /\ Len(hand) = 0
    OBVIOUS
  <2>2. stop \in BOOLEAN /\ dbOpen \in BOOLEAN /\ up \in BOOLEAN
    BY Zenon
  <2>3. sent \in [Producers -> 0..PerProducer]
    OBVIOUS
  <2>4. QED
    BY <2>1, <2>2, <2>3 DEF StorageTypeOK
<1>2. QueueWritten /\ QueueInOrder
  BY DEF QueueWritten, QueueInOrder
<1>3. HandFirst /\ DownEmpty
  BY DEF HandFirst, DownEmpty
<1>4. RowsAccounted
  BY DEF RowsAccounted
<1>5. QED
  BY <1>1, <1>2, <1>3, <1>4 DEF SInv

-----------------------------------------------------------------------------
(* One step per action.                                                    *)

\* What the state says of the row in hand and of those in the channel.
LEMMA InFlightTyped ==
  ASSUME StorageTypeOK
  PROVE  /\ InFlight \subseteq Rows
         /\ ToSet(hand) \subseteq Rows
         /\ watch = "insert" => ToSet(hand) = {hand[1]} /\ hand[1] \in Rows
         /\ watch # "insert" => ToSet(hand) = {} /\ hand = <<>>
<1> USE DEF StorageTypeOK
<1>1. DOMAIN hand = 1..Len(hand) /\ DOMAIN queue = 1..Len(queue)
  OBVIOUS
<1>2. ToSet(hand) \subseteq Rows /\ ToSet(queue) \subseteq Rows
  BY <1>1 DEF ToSet
<1>3. watch = "insert" => ToSet(hand) = {hand[1]} /\ hand[1] \in Rows
  BY <1>1 DEF ToSet
<1>4. watch # "insert" => ToSet(hand) = {} /\ hand = <<>>
  BY <1>1 DEF ToSet
<1>5. QED
  BY <1>2, <1>3, <1>4 DEF InFlight

\* The next row of a producer is a row.
LEMMA NextRow ==
  ASSUME NEW p \in Producers, NEW f \in [Producers -> 0..PerProducer],
         f[p] < PerProducer
  PROVE  <<p, f[p] + 1>> \in Rows
<1>1. PerProducer \in Nat /\ f[p] \in 0..PerProducer
  BY StorageAssumption
<1>2. f[p] + 1 \in 1..PerProducer
  BY <1>1
<1>3. QED
  BY <1>2 DEF Rows

\* The state stays well formed.
LEMMA StepTyped ==
  ASSUME SInv, [StorageNext]_storageVars
  PROVE  StorageTypeOK'
<1> USE StorageAssumption, InFlightTyped DEF SInv, StorageTypeOK
<1>1. ASSUME NEW p \in Producers, Write(p) PROVE StorageTypeOK'
  <2>1. <<p, sent[p] + 1>> \in Rows
    BY <1>1, NextRow DEF Write
  <2>2. queue' \in Seq(Rows) /\ Len(queue') = Len(queue) + 1
    <3> DEFINE x == <<p, sent[p] + 1>>
    <3>1. queue' = Append(queue, x) /\ x \in Rows
      BY <1>1, <2>1 DEF Write
    <3> HIDE DEF x
    <3>2. QED
      BY <3>1
  <2>3. sent' \in [Producers -> 0..PerProducer]
    BY <1>1 DEF Write
  <2>4. Len(queue') <= QueueCap
    BY <1>1, <2>2 DEF Write
  <2>5. QED
    BY <1>1, <2>2, <2>3, <2>4 DEF Write, dbVars
<1>2. CASE WatchTakes
  BY <1>2 DEF WatchTakes, dbVars
<1>3. CASE WatchStops
  BY <1>3 DEF WatchStops, dbVars
<1>4. CASE InsertSucceeds
  BY <1>4 DEF InsertSucceeds, Inserted
<1>5. CASE InsertFails
  BY <1>5 DEF InsertFails, Inserted, dbVars
<1>6. ASSUME NEW cut, Cleanup(cut) PROVE StorageTypeOK'
  BY <1>6 DEF Cleanup
<1>7. CASE CloseStop \/ CloseDB
  <2>1. stop' \in BOOLEAN /\ dbOpen' \in BOOLEAN
    BY <1>7, Zenon DEF CloseStop, CloseDB
  <2>2. QED
    BY <1>7, <2>1 DEF CloseStop, CloseDB, dbVars
<1>8. CASE Exit \/ Crash
  <2>1. up' \in BOOLEAN /\ dbOpen' \in BOOLEAN
    BY <1>8, Zenon DEF Exit, Crash, Ends
  <2>2. gone' \subseteq Rows
    BY <1>8 DEF Exit, Crash, Ends
  <2>3. /\ Len(queue') = 0 /\ queue' \in Seq(Rows)
        /\ Len(hand') = 0 /\ hand' \in Seq(Rows)
        /\ watch' = "exited"
    <3>1. queue' = <<>> /\ hand' = <<>> /\ watch' = "exited"
      BY <1>8, Zenon DEF Exit, Crash, Ends
    <3>2. QED
      BY <3>1
  <2>4. stop' = stop /\ table' = table /\ seq' = seq /\ sent' = sent
    BY <1>8 DEF Exit, Crash, Ends, dbVars
  <2>5. /\ Len(queue') <= QueueCap
        /\ watch' = "insert" <=> Len(hand') = 1
        /\ watch' # "insert" <=> Len(hand') = 0
    BY <2>3
  <2>6. QED
    BY <2>1, <2>2, <2>3, <2>4, <2>5
<1>9. CASE Restart
  <2>1. PICK from \in [Producers -> 0..PerProducer] : Open(from)
    BY <1>9 DEF Restart
  <2>2. up' \in BOOLEAN /\ dbOpen' \in BOOLEAN /\ stop' \in BOOLEAN
    BY <2>1, Zenon DEF Open
  <2>3. hand = <<>>
    BY <2>1 DEF Open, DownEmpty
  <2>4. QED
    BY <2>1, <2>2, <2>3 DEF Open, dbVars
<1>10. CASE UNCHANGED storageVars
  BY <1>10 DEF storageVars, dbVars
<1>11. QED
  BY <1>1, <1>2, <1>3, <1>4, <1>5, <1>6, <1>7, <1>8, <1>9, <1>10
     DEF StorageNext, Watcher

\* What is in flight stays in the order its producer wrote it.
InOrder == QueueWritten /\ QueueInOrder /\ HandFirst /\ DownEmpty

\* An element of the channel is a row, and an old place of it stays or moves up.
LEMMA QueueFacts ==
  ASSUME StorageTypeOK
  PROVE  /\ Len(queue) \in Nat
         /\ \A i \in 1..Len(queue) :
              queue[i][1] \in Producers /\ queue[i][2] \in Nat
         /\ \A x \in Rows :
              /\ Len(Append(queue, x)) = Len(queue) + 1
              /\ Append(queue, x)[Len(queue) + 1] = x
              /\ \A i \in 1..Len(queue) : Append(queue, x)[i] = queue[i]
         /\ queue # <<>> =>
              /\ Len(queue) # 0
              /\ Head(queue) = queue[1]
              /\ Len(Tail(queue)) = Len(queue) - 1
              /\ \A i \in 1..(Len(queue) - 1) : Tail(queue)[i] = queue[i + 1]
<1> USE DEF StorageTypeOK
<1>1. \A i \in 1..Len(queue) : queue[i] \in Rows
  OBVIOUS
<1>2. \A i \in 1..Len(queue) : queue[i][1] \in Producers /\ queue[i][2] \in Nat
  <2>1. ASSUME NEW r \in Rows PROVE r[1] \in Producers /\ r[2] \in Nat
    BY StorageAssumption DEF Rows
  <2>2. QED
    BY <1>1, <2>1
<1>3. Len(queue) \in Nat
  OBVIOUS
<1>4. ASSUME NEW x \in Rows
      PROVE  /\ Len(Append(queue, x)) = Len(queue) + 1
             /\ Append(queue, x)[Len(queue) + 1] = x
             /\ \A i \in 1..Len(queue) : Append(queue, x)[i] = queue[i]
  OBVIOUS
<1>5. ASSUME queue # <<>>
      PROVE  /\ Len(queue) # 0
             /\ Head(queue) = queue[1]
             /\ Len(Tail(queue)) = Len(queue) - 1
             /\ \A i \in 1..(Len(queue) - 1) : Tail(queue)[i] = queue[i + 1]
  BY <1>5
<1>6. QED
  BY <1>2, <1>3, <1>4, <1>5

\* Write: the new row is one more than any its producer has in flight.
LEMMA WriteOrdered ==
  ASSUME SInv, NEW p \in Producers, Write(p)
  PROVE  InOrder'
<1> USE DEF SInv
<1> DEFINE x == <<p, sent[p] + 1>>
<1>1. /\ queue' = Append(queue, x) /\ x \in Rows
      /\ x[1] = p /\ x[2] = sent[p] + 1
      /\ sent[p] \in Nat
  BY NextRow, StorageAssumption DEF Write, StorageTypeOK
<1>2. /\ Len(queue') = Len(queue) + 1
      /\ queue'[Len(queue) + 1] = x
      /\ \A i \in 1..Len(queue) : queue'[i] = queue[i]
  BY <1>1, QueueFacts
<1>3. \A q \in Producers : /\ sent[q] \in Nat /\ sent'[q] \in Nat
                           /\ sent'[q] = IF q = p THEN sent[q] + 1 ELSE sent[q]
  BY StorageAssumption DEF Write, StorageTypeOK
<1>4. hand' = hand /\ watch' = watch /\ up' = up /\ up
  BY Zenon DEF Write
<1> HIDE DEF x
<1>5. QueueWritten'
  BY <1>1, <1>2, <1>3, QueueFacts DEF QueueWritten
<1>6. QueueInOrder'
  BY <1>1, <1>2, QueueFacts DEF QueueInOrder, QueueWritten
<1>7. HandFirst'
  <2>1. SUFFICES ASSUME watch = "insert" PROVE HandFirst'
    BY <1>4 DEF HandFirst
  <2>2. hand[1][1] \in Producers /\ hand[1][2] \in Nat
    BY <2>1, InFlightTyped, StorageAssumption DEF Rows
  <2>3. hand'[1][2] <= sent'[hand'[1][1]]
    BY <1>3, <1>4, <2>1, <2>2 DEF HandFirst
  <2>4. \A j \in 1..Len(queue) :
          queue'[j][1] = hand'[1][1] => hand'[1][2] < queue'[j][2]
    BY <1>2, <1>4, <2>1 DEF HandFirst
  <2>5. x[1] = hand[1][1] => hand[1][2] < x[2]
    BY <1>1, <2>1, <2>2 DEF HandFirst
  <2>6. Len(queue) \in Nat
    BY QueueFacts
  <2>7. \A j \in 1..Len(queue') : j \in 1..Len(queue) \/ j = Len(queue) + 1
    BY <1>2, <2>6
  <2>8. QED
    BY <1>2, <1>4, <2>3, <2>4, <2>5, <2>7 DEF HandFirst
<1>8. DownEmpty'
  BY <1>4 DEF DownEmpty
<1>9. QED
  BY <1>5, <1>6, <1>7, <1>8 DEF InOrder

\* WatchTakes: the head of the channel comes before the rest of it.
LEMMA TakeOrdered ==
  ASSUME SInv, WatchTakes
  PROVE  InOrder'
<1> USE DEF SInv
<1>1. /\ queue # <<>> /\ queue' = Tail(queue)
      /\ hand' = <<Head(queue)>> /\ UNCHANGED <<sent, up>> /\ up
  BY DEF WatchTakes
<1>2. /\ Len(queue) \in Nat \ {0}
      /\ hand'[1] = queue[1]
      /\ Len(queue') = Len(queue) - 1
      /\ \A i \in 1..Len(queue') : queue'[i] = queue[i + 1] /\ i + 1 \in 1..Len(queue)
  BY <1>1, QueueFacts
<1>3. QueueWritten'
  BY <1>1, <1>2 DEF QueueWritten
<1>4. QueueInOrder'
  BY <1>2 DEF QueueInOrder
<1>5. HandFirst'
  BY <1>1, <1>2 DEF HandFirst, QueueWritten, QueueInOrder
<1>6. DownEmpty'
  BY <1>1 DEF DownEmpty
<1>7. QED
  BY <1>3, <1>4, <1>5, <1>6 DEF InOrder

\* Every other step leaves the channel alone or ends with nothing in flight.
LEMMA StepOrdered ==
  ASSUME SInv, [StorageNext]_storageVars
  PROVE  InOrder'
<1> USE DEF SInv
<1>1. ASSUME UNCHANGED <<queue, sent>>, watch' # "insert", up' = up, up
      PROVE  InOrder'
  BY <1>1 DEF InOrder, QueueWritten, QueueInOrder, HandFirst, DownEmpty
<1>2. ASSUME UNCHANGED <<queue, hand, watch, sent, up>>
      PROVE  InOrder'
  BY <1>2 DEF InOrder, QueueWritten, QueueInOrder, HandFirst, DownEmpty
<1>3. ASSUME queue' = <<>>, watch' # "insert", up' \/ watch' = "exited"
      PROVE  InOrder'
  BY <1>3 DEF InOrder, QueueWritten, QueueInOrder, HandFirst, DownEmpty
<1>4. ASSUME NEW p \in Producers, Write(p) PROVE InOrder'
  BY <1>4, WriteOrdered
<1>5. CASE WatchTakes
  BY <1>5, TakeOrdered
<1>6. CASE WatchStops
  BY <1>1, <1>6 DEF WatchStops
<1>7. CASE InsertSucceeds \/ InsertFails
  BY <1>1, <1>7 DEF InsertSucceeds, InsertFails, Inserted
<1>8. ASSUME NEW cut, Cleanup(cut) PROVE InOrder'
  BY <1>2, <1>8 DEF Cleanup
<1>9. CASE CloseStop \/ CloseDB
  BY <1>2, <1>9 DEF CloseStop, CloseDB
<1>10. CASE Exit \/ Crash
  BY <1>3, <1>10 DEF Exit, Crash, Ends
<1>11. CASE Restart
  BY <1>3, <1>11 DEF Restart, Open, DownEmpty
<1>12. CASE UNCHANGED storageVars
  BY <1>2, <1>12 DEF storageVars
<1>13. QED
  BY <1>4, <1>5, <1>6, <1>7, <1>8, <1>9, <1>10, <1>11, <1>12
     DEF StorageNext, Watcher

-----------------------------------------------------------------------------
\* Where a row that Write accepted may be.
Places == InFlight \cup Stored \cup gone

\* No step but Write adds to what was sent, and none takes a row from where it
\* is without putting it somewhere else.
LEMMA StepAccounts ==
  ASSUME SInv, [StorageNext]_storageVars
  PROVE  RowsAccounted'
<1> USE DEF SInv
<1>1. ASSUME Places \subseteq Places', sent' = sent PROVE RowsAccounted'
  BY <1>1 DEF RowsAccounted, Places
<1>2. ASSUME NEW p \in Producers, Write(p) PROVE RowsAccounted'
  <2> DEFINE x == <<p, sent[p] + 1>>
  <2>1. queue' = Append(queue, x) /\ x \in Rows
    BY <1>2, NextRow DEF Write, StorageTypeOK
  <2>2. ToSet(queue') = ToSet(queue) \cup {x}
    BY <2>1, ToSetAppend DEF StorageTypeOK
  <2>3. Places' = Places \cup {x}
    BY <1>2, <2>2 DEF Write, Places, InFlight, Stored, dbVars
  <2>4. \A q \in Producers : \A n \in 1..sent'[q] :
          n \in 1..sent[q] \/ (q = p /\ n = sent[p] + 1)
    BY <1>2, StorageAssumption DEF Write, StorageTypeOK
  <2>5. QED
    BY <2>3, <2>4 DEF RowsAccounted, Places
<1>3. CASE WatchTakes
  <2>1. ToSet(queue) = {Head(queue)} \cup ToSet(queue')
    BY <1>3, ToSetTail DEF WatchTakes, StorageTypeOK
  <2>2. ToSet(hand') = {Head(queue)} /\ ToSet(hand) = {}
    BY <1>3, InFlightTyped DEF WatchTakes, ToSet
  <2>3. QED
    BY <1>1, <1>3, <2>1, <2>2 DEF WatchTakes, Places, InFlight, Stored, dbVars
<1>4. CASE InsertSucceeds
  <2>1. ToSet(hand) = {hand[1]}
    BY <1>4, InFlightTyped DEF InsertSucceeds, Inserted
  <2>2. Stored' = Stored \cup {hand[1]}
    <3> DEFINE new == [cursor |-> seq + 1, row |-> hand[1]]
    <3>1. table' = table \cup {new} /\ new.row = hand[1]
      BY <1>4 DEF InsertSucceeds
    <3> HIDE DEF new
    <3>2. QED
      BY <3>1 DEF Stored
  <2>3. QED
    BY <1>1, <1>4, <2>1, <2>2 DEF InsertSucceeds, Inserted, Places, InFlight
<1>5. CASE InsertFails
  BY <1>1, <1>5 DEF InsertFails, Inserted, Places, InFlight, Stored, dbVars
<1>6. ASSUME NEW cut, Cleanup(cut) PROVE RowsAccounted'
  BY <1>1, <1>6 DEF Cleanup, Places, InFlight, Stored
<1>7. CASE WatchStops \/ CloseStop \/ CloseDB
  BY <1>1, <1>7 DEF WatchStops, CloseStop, CloseDB, Places, InFlight, Stored, dbVars
<1>8. CASE Exit \/ Crash
  BY <1>1, <1>8 DEF Exit, Crash, Ends, Places, Stored, dbVars
<1>9. CASE Restart
  <2>1. PICK from \in [Producers -> 0..PerProducer] :
          (\A p \in Producers : from[p] <= sent[p]) /\ Open(from)
    BY <1>9 DEF Restart
  <2>2. \A p \in Producers : 1..sent'[p] \subseteq 1..sent[p]
    BY <2>1, StorageAssumption DEF Open, StorageTypeOK
  <2>3. Places' = Places
    BY <2>1 DEF Open, Places, InFlight, Stored, dbVars
  <2>4. QED
    BY <2>2, <2>3 DEF RowsAccounted, Places
<1>10. CASE UNCHANGED storageVars
  BY <1>1, <1>10 DEF storageVars, dbVars, Places, InFlight, Stored
<1>11. QED
  BY <1>2, <1>3, <1>4, <1>5, <1>6, <1>7, <1>8, <1>9, <1>10
     DEF StorageNext, Watcher

-----------------------------------------------------------------------------
\* The invariant holds in every state.
LEMMA Invariant == StorageSpec => []SInv
<1>1. SInv /\ [StorageNext]_storageVars => SInv'
  BY StepTyped, StepOrdered, StepAccounts DEF SInv, InOrder
<1>2. QED
  BY InitEstablishes, <1>1, PTL DEF StorageSpec

\* In the invariant, what is in flight is in order from the hand to the end of
\* the channel.
LEMMA FlightInOrder == SInv => RowsInOrder
<1> SUFFICES ASSUME SInv PROVE RowsInOrder
  OBVIOUS
<1> DEFINE flight == hand \o queue
<1> USE DEF SInv
<1>1. CASE watch = "insert"
  <2>1. /\ Len(hand) = 1 /\ Len(queue) \in Nat
        /\ hand \in Seq(Rows) /\ queue \in Seq(Rows)
    BY <1>1 DEF StorageTypeOK
  <2>2. /\ DOMAIN flight = 1..(Len(queue) + 1)
        /\ flight[1] = hand[1]
        /\ \A i \in 2..(Len(queue) + 1) : flight[i] = queue[i - 1]
    <3>1. /\ flight \in Seq(Rows)
          /\ Len(flight) = Len(hand) + Len(queue)
          /\ \A i \in 1..Len(hand) + Len(queue) :
               flight[i] = IF i <= Len(hand) THEN hand[i] ELSE queue[i - Len(hand)]
      BY <2>1, ConcatProperties, Zenon
    <3> HIDE DEF flight
    <3>2. Len(flight) = Len(queue) + 1 /\ DOMAIN flight = 1..Len(flight)
      BY <2>1, <3>1
    <3>3. flight[1] = hand[1]
      BY <2>1, <3>1
    <3>4. ASSUME NEW i \in 2..(Len(queue) + 1) PROVE flight[i] = queue[i - 1]
      BY <2>1, <3>1
    <3>5. QED
      BY <3>2, <3>3, <3>4
  <2>3. ASSUME NEW i \in DOMAIN flight, NEW j \in DOMAIN flight,
               i < j, flight[i][1] = flight[j][1]
        PROVE  flight[i][2] < flight[j][2]
    <3>1. j \in 2..(Len(queue) + 1) /\ flight[j] = queue[j - 1]
          /\ j - 1 \in 1..Len(queue)
      BY <2>1, <2>2, <2>3
    <3>2. CASE i = 1
      BY <1>1, <2>2, <2>3, <3>1, <3>2 DEF HandFirst
    <3>3. CASE i # 1
      <4>1. flight[i] = queue[i - 1] /\ i - 1 \in 1..Len(queue) /\ i - 1 < j - 1
        BY <2>1, <2>2, <2>3, <3>3
      <4>2. QED
        BY <2>3, <3>1, <4>1 DEF QueueInOrder
    <3>4. QED
      BY <3>2, <3>3
  <2>4. QED
    BY <2>3 DEF RowsInOrder, flight
<1>2. CASE watch # "insert"
  <2>1. flight = queue /\ DOMAIN queue = 1..Len(queue)
    BY <1>2, InFlightTyped DEF StorageTypeOK
  <2>2. QED
    BY <2>1 DEF RowsInOrder, QueueInOrder
<1>3. QED
  BY <1>1, <1>2

\* The channel, the goroutine and the database are well formed, whatever the
\* number of producers and rows and the capacity of the channel.
THEOREM StorageTyped == StorageSpec => []StorageTypeOK
  BY Invariant, PTL DEF SInv

\* What is in flight between a producer and the table is in the order in which
\* the producer wrote it.
THEOREM RowsStayInOrder == StorageSpec => []RowsInOrder
  BY Invariant, FlightInOrder, PTL

\* A row that Write accepted is in flight, in the table, or was lost by a failed
\* INSERT, a Cleanup or the end of a process.
THEOREM RowsAreAccounted == StorageSpec => []RowsAccounted
  BY Invariant, PTL DEF SInv
-----------------------------------------------------------------------------
(***************************************************************************)
(* The client that pages by cursor.                                        *)
(***************************************************************************)

\* The rows there are, and those the client has.
Seen == received \cup table

CursorsGiven == /\ IsFiniteSet(table)
                /\ \A r \in Seen : r.cursor \in 1..seq

\* first and last are the ends of what the client has been sent.
EndsHeld ==
  IF received = {} THEN first = Unset /\ last = Unset
  ELSE /\ \E r \in received : first = r.cursor
       /\ \E r \in received : last = r.cursor
       /\ \A r \in received : first <= r.cursor /\ r.cursor <= last

Dated(fs) == \E f \in fs : f.op = "since"

\* Pages by since begin with the oldest row.
OldestFirst ==
  PagesJoin /\ Dated(filters) /\ received # {} =>
    \A r \in table : Wanted(r) => first <= r.cursor

ReaderInv == /\ filters \in Filters
             /\ CursorsGiven /\ EndsHeld /\ OldestFirst
             /\ ReaderMissesNothing /\ CursorsUnique

\* The filters of a request are those of the client, in some order.
LEMMA AllFilters ==
  ASSUME filters \in Filters, NEW fs \in SetToSeqs(filters)
  PROVE  ToSet(fs) = filters /\ DOMAIN fs = 1..Cardinality(filters)
<1> DEFINE n == Cardinality(filters)
<1>1. IsFiniteSet(filters) /\ n \in Nat
  BY ReaderAssumption, FS_CardinalityType
<1>2. fs \in [1..n -> filters] /\ \A i, j \in 1..n : i # j => fs[i] # fs[j]
  BY DEF SetToSeqs
<1>3. fs \in Injection(1..n, filters)
  BY <1>2 DEF Injection, IsInjective
<1>4. IsFiniteSet(1..n) /\ Cardinality(1..n) = n
  BY <1>1, FS_Interval
<1>5. fs \in Surjection(1..n, filters)
  BY <1>1, <1>3, <1>4, FS_Injection
<1>6. \A f \in filters : \E i \in 1..n : fs[i] = f
  BY <1>5 DEF Surjection
<1> QED
  BY <1>2, <1>6 DEF ToSet
\* The rows of the table that a request asks for.
Asked(after, before) ==
  {r \in table : Wanted(r) /\ InCursors(NewQuery(after, before, Limit, <<>>), r.cursor)}

\* A page is one end of the rows that are asked for, the newest unless the
\* request gives a cursor to go on from or asks for rows since a time.
LEMMA PageIsAnEnd ==
  ASSUME ReaderInv, NEW after \in Int, NEW before \in Int,
         NEW page \in Answers(after, before), page # {}
  PROVE  /\ page \subseteq Asked(after, before)
         /\ PagesJoin =>
              /\ Dated(filters) => after = Unset
              /\ IF after = Unset /\ ~Dated(filters)
                 THEN \A p \in page, r \in Asked(after, before) :
                        p.cursor <= r.cursor => r \in page
                 ELSE \A p \in page, r \in Asked(after, before) :
                        r.cursor <= p.cursor => r \in page
<1>1. PICK fs \in SetToSeqs(filters) :
        page = Page(NewQuery(after, before, Limit, fs), table, TimeOf)
  BY Zenon DEF Answers
<1> DEFINE q == NewQuery(after, before, Limit, fs)
           newest == NewestFirst(q)
           asked == Asked(after, before)
           beyond(r) == {o \in asked : IF newest THEN o.cursor > r.cursor
                                                 ELSE o.cursor < r.cursor}
<1>2. /\ q.after = after /\ q.before = before /\ q.filters = fs
      /\ q.limit = Limit /\ Limit \in Nat \ {0} /\ q.limit # Unset
  BY ReaderAssumption DEF NewQuery, Unset
<1>3. ToSet(q.filters) = filters /\ DOMAIN q.filters = 1..Cardinality(filters)
  BY <1>2, AllFilters DEF ReaderInv
<1>4. {r \in table : /\ InCursors(q, r.cursor)
                     /\ \A f \in ToSet(q.filters) :
                          Compare(f.op, TimeOf[r][f.name], f.val)} = asked
  <2>1. \A r \in table :
          InCursors(q, r.cursor) <=> InCursors(NewQuery(after, before, Limit, <<>>), r.cursor)
    BY DEF InCursors, NewQuery
  <2> HIDE DEF q
  <2> QED
    BY <1>3, <2>1 DEF Asked, Wanted
<1> HIDE DEF q
<1>5. ~Rejected(q) /\ page = {r \in asked : q.limit = Unset \/ Cardinality(beyond(r)) < q.limit}
  BY <1>1, <1>4 DEF Page, q
<1>6. page = {r \in asked : Cardinality(beyond(r)) < Limit}
  BY <1>2, <1>5
<1>7. ASSUME NEW p \in page, NEW r \in asked,
             IF newest THEN p.cursor <= r.cursor ELSE r.cursor <= p.cursor
      PROVE  r \in page
  <2>1. p \in asked /\ p \in table /\ r \in table
    BY <1>6 DEF Asked
  <2>2. \A o \in asked : o.cursor \in Int
    BY DEF ReaderInv, CursorsGiven, Seen, Asked
  <2>3. beyond(r) \subseteq beyond(p)
    BY <1>7, <2>1, <2>2
  <2>4. IsFiniteSet(beyond(p))
    <3>1. beyond(p) \subseteq table
      BY DEF Asked
    <3> QED
      BY <3>1, FS_Subset DEF ReaderInv, CursorsGiven
  <2>5. /\ Cardinality(beyond(r)) <= Cardinality(beyond(p))
        /\ Cardinality(beyond(r)) \in Nat /\ Cardinality(beyond(p)) \in Nat
    <3> HIDE DEF beyond
    <3> QED
      BY <2>3, <2>4, FS_Subset, FS_CardinalityType
  <2>6. Cardinality(beyond(p)) < Limit
    BY <1>6
  <2>7. Cardinality(beyond(r)) < Limit
    BY <1>2, <2>5, <2>6
  <2> QED
    BY <1>6, <2>7
<1>8. ASSUME PagesJoin
      PROVE  /\ Dated(filters) => after = Unset
             /\ newest <=> after = Unset /\ ~Dated(filters)
  <2>1. Dated(filters) => after = Unset
    BY <1>2, <1>3, <1>5 DEF Rejected, Dated
  <2> DEFINE dated == {i \in DOMAIN q.filters : q.filters[i].op \in {"since", "until"}}
  <2>2. \A i \in DOMAIN q.filters : q.filters[i] \in filters /\ q.filters[i].op # "until"
    BY <1>3, <1>8 DEF ToSet, PagesJoin
  <2>3. \A f \in filters : \E i \in DOMAIN q.filters : q.filters[i] = f
    BY <1>3 DEF ToSet
  <2>4. dated # {} <=> Dated(filters)
    BY <2>2, <2>3 DEF Dated
  <2>5. newest <=> dated = {} /\ after = Unset
    BY <1>2, <2>2 DEF NewestFirst
  <2> QED
    BY <2>1, <2>4, <2>5
<1> QED
  BY <1>6, <1>7, <1>8
\* The client starts with nothing.
LEMMA ReaderBegins == ReaderInit => ReaderInv
<1> SUFFICES ASSUME ReaderInit PROVE ReaderInv
  OBVIOUS
<1>1. received = {} /\ table = {} /\ first = Unset /\ last = Unset /\ filters \in Filters
  BY DEF ReaderInit, StorageInit
<1>2. CursorsGiven
  BY <1>1, FS_EmptySet DEF CursorsGiven, Seen
<1> QED
  BY <1>1, <1>2 DEF ReaderInv, EndsHeld, OldestFirst, ReaderMissesNothing,
                    CursorsUnique

\* Whatever happens to the table, the client misses nothing: rows come with
\* cursors greater than any there has been, or go.
LEMMA TableStep ==
  ASSUME ReaderInv, SInv, [StorageNext]_storageVars, UNCHANGED clientVars
  PROVE  ReaderInv'
<1> USE DEF ReaderInv
<1>1. /\ UNCHANGED <<filters, first, last, received>>
      /\ seq \in Nat
  BY StorageAssumption DEF clientVars, SInv, StorageTypeOK
<1>2. ASSUME table' \subseteq table, seq' = seq PROVE ReaderInv'
  <2>1. IsFiniteSet(table')
    BY <1>2, FS_Subset DEF CursorsGiven
  <2>2. CursorsGiven' /\ CursorsUnique'
    BY <1>1, <1>2, <2>1 DEF CursorsGiven, CursorsUnique, Seen
  <2>3. \A r \in table' : TimeOf'[r] = TimeOf[r]
    BY <1>2 DEF TimeOf
  <2>4. \A r \in table' : Wanted(r)' <=> Wanted(r)
    BY <1>1, <2>3 DEF Wanted
  <2>5. PagesJoin' <=> PagesJoin
    BY <1>1 DEF PagesJoin
  <2>6. OldestFirst' /\ ReaderMissesNothing'
    BY <1>1, <1>2, <2>4, <2>5 DEF OldestFirst, ReaderMissesNothing, Dated
  <2> QED
    BY <1>1, <2>2, <2>6 DEF EndsHeld
<1>3. ASSUME NEW row, seq' = seq + 1,
             table' = table \cup {[cursor |-> seq + 1, row |-> row]}
      PROVE  ReaderInv'
  <2> DEFINE new == [cursor |-> seq + 1, row |-> row]
  <2>1. new.cursor = seq + 1 /\ table' = table \cup {new}
    BY <1>3
  <2> HIDE DEF new
  <2>2. IsFiniteSet(table')
    BY <2>1, FS_AddElement DEF CursorsGiven
  <2>3. \A r \in Seen : r.cursor \in 1..seq
    BY DEF CursorsGiven
  <2>4. Seen' = Seen \cup {new}
    BY <1>1, <2>1 DEF Seen
  <2>5. CursorsGiven'
    BY <1>1, <1>3, <2>1, <2>2, <2>3, <2>4 DEF CursorsGiven
  <2>6. CursorsUnique'
    BY <1>1, <2>1, <2>3, <2>4 DEF CursorsUnique, Seen
  <2>7. \A r \in table : TimeOf'[r] = TimeOf[r]
    BY <2>1 DEF TimeOf
  <2>8. \A r \in table : Wanted(r)' <=> Wanted(r)
    BY <1>1, <2>7 DEF Wanted
  <2>9. PagesJoin' <=> PagesJoin
    BY <1>1 DEF PagesJoin
  <2>10. received # {} => first < new.cursor /\ last < new.cursor /\ first \in Int
    BY <1>1, <2>1, <2>3 DEF EndsHeld, Seen
  <2>11. OldestFirst'
    BY <1>1, <2>1, <2>8, <2>9, <2>10 DEF OldestFirst, Dated
  <2>12. ~(new.cursor \in first..last)
    <3>1. CASE received = {}
      BY <1>1, <2>1, <3>1 DEF EndsHeld, Unset
    <3>2. CASE received # {}
      <4>1. last \in Int
        BY <2>3, <3>2 DEF EndsHeld, Seen
      <4> QED
        BY <1>1, <2>1, <2>10, <3>2, <4>1
    <3> QED
      BY <3>1, <3>2
  <2>13. ReaderMissesNothing'
    BY <1>1, <2>1, <2>8, <2>9, <2>12 DEF ReaderMissesNothing
  <2> QED
    BY <1>1, <2>5, <2>6, <2>11, <2>13 DEF EndsHeld
<1>4. CASE InsertSucceeds
  BY <1>3, <1>4 DEF InsertSucceeds
<1>5. CASE ~InsertSucceeds
  <2>1. table' \subseteq table /\ seq' = seq
    BY <1>5 DEF StorageNext, Watcher, Write, WatchTakes, WatchStops, InsertFails,
                Cleanup, CloseStop, CloseDB, Exit, Crash, Ends, Restart, Open,
                storageVars, dbVars
  <2> QED
    BY <1>2, <2>1
<1> QED
  BY <1>4, <1>5

\* A request for the newest rows, or for those on either side of what the
\* client has, leaves no gap.
LEMMA AskStep ==
  ASSUME ReaderInv, Newest \/ Older \/ Newer
  PROVE  ReaderInv'
<1> USE DEF ReaderInv
<1> DEFINE Sent(page) == /\ page # {}
                         /\ received' = received \cup page
                         /\ \E r \in received' : first' = r.cursor
                         /\ \E r \in received' : last' = r.cursor
                         /\ \A r \in received' : first' <= r.cursor /\ r.cursor <= last'
                         /\ UNCHANGED <<table, seq, filters>>
<1>1. ASSUME NEW after \in Int, NEW before \in Int, Ask(after, before)
       PROVE  \E page \in Answers(after, before) : Sent(page)
  BY <1>1 DEF Ask, storageVars, dbVars
<1>2. PICK after \in Int, before \in Int :
        /\ \/ after = Unset /\ before = Unset /\ first = Unset
           \/ after = Unset /\ before = first /\ first # Unset
           \/ after = last /\ before = Unset /\ last # Unset
        /\ \E page \in Answers(after, before) : Sent(page)
  <2>1. Unset \in Int /\ first \in Int /\ last \in Int
    BY DEF Unset, EndsHeld, CursorsGiven, Seen
  <2> QED
    BY <1>1, <2>1 DEF Newest, Older, Newer
<1>3. PICK page \in Answers(after, before) : Sent(page)
  BY <1>2
<1>4. /\ \/ after = Unset /\ before = Unset /\ first = Unset
         \/ after = Unset /\ before = first /\ first # Unset
         \/ after = last /\ before = Unset /\ last # Unset
      /\ Sent(page)
  BY <1>2, <1>3
<1>5. /\ page \subseteq Asked(after, before)
      /\ PagesJoin =>
           /\ Dated(filters) => after = Unset
           /\ IF after = Unset /\ ~Dated(filters)
              THEN \A p \in page, r \in Asked(after, before) :
                     p.cursor <= r.cursor => r \in page
              ELSE \A p \in page, r \in Asked(after, before) :
                     r.cursor <= p.cursor => r \in page
  BY <1>4, PageIsAnEnd
<1>6. page \subseteq table /\ Seen' = Seen
  BY <1>4, <1>5 DEF Asked, Seen
<1>7. \A r \in Seen : r.cursor \in 1..seq /\ r.cursor \in Int /\ r.cursor > 0
  <2>1. \A c \in 1..seq : c \in Int /\ c > 0
    OBVIOUS
  <2> QED
    BY <2>1 DEF CursorsGiven
<1>8. CursorsGiven' /\ CursorsUnique' /\ EndsHeld'
  BY <1>4, <1>6 DEF CursorsGiven, CursorsUnique, EndsHeld, Seen
<1>9. \A r : Wanted(r)' <=> Wanted(r)
  BY <1>4 DEF Wanted, TimeOf
<1>10. PagesJoin' <=> PagesJoin
  BY <1>4 DEF PagesJoin
<1>11. \A r \in table : r \in Asked(after, before) <=>
        Wanted(r) /\ IF after # Unset THEN r.cursor > after
                     ELSE before # Unset => r.cursor < before
  BY DEF Asked, InCursors, NewQuery
<1>12. (first = Unset <=> received = {}) /\ (last = Unset <=> received = {})
  BY <1>7 DEF EndsHeld, Seen, Unset
<1>13. ASSUME PagesJoin, Dated(filters)
       PROVE  received = {} /\ after = Unset /\ before = Unset
  <2>1. after = Unset
    BY <1>5, <1>13
  <2>2. ASSUME received # {} PROVE FALSE
    <3>1. before = first /\ first # Unset
      BY <1>4, <1>12, <2>1, <2>2
    <3>2. PICK r \in page : r \in table /\ Wanted(r) /\ r.cursor < first
      BY <1>4, <1>5, <1>6, <1>11, <2>1, <3>1
    <3>3. first <= r.cursor /\ first \in Int
      BY <1>7, <1>13, <2>2, <3>2 DEF OldestFirst, EndsHeld, Seen
    <3> QED
      BY <1>7, <3>2, <3>3 DEF Seen
  <2> QED
    BY <1>4, <1>12, <2>1, <2>2
<1>14. OldestFirst'
  <2> SUFFICES ASSUME PagesJoin, Dated(filters), NEW r \in table, Wanted(r)
               PROVE  first' <= r.cursor
    BY <1>4, <1>9, <1>10 DEF OldestFirst, Dated
  <2>1. received' = page /\ r \in Asked(after, before)
    BY <1>4, <1>11, <1>13
  <2>2. PICK p \in page : first' = p.cursor
    BY <1>4, <2>1
  <2>3. r.cursor <= p.cursor => r \in page
    BY <1>5, <2>1
  <2>4. r.cursor \in Int /\ p.cursor \in Int
    BY <1>6, <1>7 DEF Seen
  <2> QED
    BY <1>4, <2>1, <2>2, <2>3, <2>4
<1>15. ReaderMissesNothing'
  <2> SUFFICES ASSUME PagesJoin, NEW r \in table, Wanted(r),
                      r.cursor \in first'..last'
               PROVE  r \in received'
    BY <1>4, <1>9, <1>10 DEF ReaderMissesNothing
  <2>1. PICK p \in received' : first' = p.cursor
    BY <1>4
  <2>2. PICK q \in received' : last' = q.cursor
    BY <1>4
  <2>3. /\ r.cursor \in Int /\ p.cursor \in Int /\ q.cursor \in Int
        /\ p.cursor <= r.cursor /\ r.cursor <= q.cursor
    BY <1>4, <1>6, <1>7, <2>1, <2>2 DEF Seen
  <2>4. received # {} => /\ first \in Int /\ last \in Int
                         /\ \A x \in received : first <= x.cursor /\ x.cursor <= last
    BY <1>7 DEF EndsHeld, Seen
  <2>5. ASSUME received # {}, first <= r.cursor, r.cursor <= last PROVE r \in received
    BY <2>3, <2>4, <2>5 DEF ReaderMissesNothing
  <2>6. CASE received = {}
    <3>1. r \in Asked(after, before) /\ p \in page /\ q \in page
      BY <1>4, <1>11, <1>12, <2>6
    <3> QED
      BY <1>4, <1>5, <2>3, <3>1
  <2>7. CASE received # {} /\ after = Unset
    <3>1. before = first /\ first # Unset /\ ~Dated(filters)
      BY <1>4, <1>12, <1>13, <2>7
    <3>2. CASE first <= r.cursor
      <4>1. \A x \in page : x.cursor < first
        BY <1>5, <1>6, <1>11, <2>7, <3>1
      <4>2. q \in received
        BY <1>4, <1>7, <2>3, <2>4, <2>7, <3>2, <4>1
      <4> QED
        BY <1>4, <1>7, <2>3, <2>4, <2>5, <2>7, <3>2, <4>2
    <3>3. CASE ~(first <= r.cursor)
      <4>1. r \in Asked(after, before)
        BY <1>11, <2>3, <2>4, <2>7, <3>1, <3>3
      <4>2. p \in page
        BY <1>4, <2>3, <2>4, <2>7, <3>3
      <4> QED
        BY <1>4, <1>5, <2>3, <2>7, <3>1, <4>1, <4>2
    <3> QED
      BY <3>2, <3>3
  <2>8. CASE received # {} /\ after # Unset
    <3>1. after = last /\ last # Unset
      BY <1>4, <2>8
    <3>2. CASE r.cursor <= last
      <4>1. \A x \in page : x.cursor > last
        BY <1>5, <1>6, <1>11, <2>8, <3>1
      <4>2. p \in received
        BY <1>4, <1>7, <2>3, <2>4, <2>8, <3>2, <4>1
      <4> QED
        BY <1>4, <1>7, <2>3, <2>4, <2>5, <2>8, <3>2, <4>2
    <3>3. CASE ~(r.cursor <= last)
      <4>1. r \in Asked(after, before)
        BY <1>11, <2>3, <2>4, <2>8, <3>1, <3>3
      <4>2. q \in page
        BY <1>4, <2>3, <2>4, <2>8, <3>3
      <4> QED
        BY <1>4, <1>5, <2>3, <2>8, <3>1, <4>1, <4>2
    <3> QED
      BY <3>2, <3>3
  <2> QED
    BY <2>6, <2>7, <2>8
<1> QED
  BY <1>4, <1>8, <1>14, <1>15

-----------------------------------------------------------------------------
\* The client's invariant holds beside that of the storage.
LEMMA ReaderInvariant == ReaderSpec => []ReaderInv
<1>1. ReaderInit => SInv /\ ReaderInv
  BY InitEstablishes, ReaderBegins DEF ReaderInit
<1>2. SInv /\ ReaderInv /\ [ReaderNext]_readerVars => (SInv /\ ReaderInv)'
  <2> SUFFICES ASSUME SInv, ReaderInv, [ReaderNext]_readerVars
               PROVE  SInv' /\ ReaderInv'
    OBVIOUS
  <2>1. [StorageNext]_storageVars
    BY DEF ReaderNext, Newest, Older, Newer, Ask, readerVars
  <2>2. SInv'
    BY <2>1, StepTyped, StepOrdered, StepAccounts DEF SInv, InOrder
  <2>3. ASSUME Newest \/ Older \/ Newer PROVE ReaderInv'
    BY <2>3, AskStep
  <2>4. ASSUME ~(Newest \/ Older \/ Newer) PROVE ReaderInv'
    <3>1. UNCHANGED clientVars
      BY <2>4 DEF ReaderNext, readerVars
    <3> QED
      BY <2>1, <3>1, TableStep
  <2> QED
    BY <2>2, <2>3, <2>4
<1>3. ReaderSpec => [](SInv /\ ReaderInv)
  BY <1>1, <1>2, PTL DEF ReaderSpec
<1> QED
  BY <1>3, PTL

\* No cursor names two rows, among those in the table and those a client has
\* been sent, in all processes on a database.
THEOREM CursorsNameRows == ReaderSpec => []CursorsUnique
  BY ReaderInvariant, PTL DEF ReaderInv

\* A client that pages by cursor has every row it wants between the first and
\* the last cursor it was sent, whatever the size of a page and its filters
\* (but until), beside inserts, clean-ups, stops and crashes.
THEOREM PagesLeaveNoGap == ReaderSpec => []ReaderMissesNothing
  BY ReaderInvariant, PTL DEF ReaderInv
=============================================================================
