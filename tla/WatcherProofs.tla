---------------------------- MODULE WatcherProofs ----------------------------
(***************************************************************************)
(* The file watcher for every set of logs, every capacity of the event     *)
(* queue and every order of the events: the map of workers follows the     *)
(* directory, and no write of a log that is watched goes unnoticed; no     *)
(* worker is left behind but those of logs that were replaced, and Stop    *)
(* misses none but those that are started after it was called.             *)
(***************************************************************************)
EXTENDS Watcher, TLAPS

Ev(op, f) == [op |-> op, name |-> f]

Ops == {"create", "remove", "write"}

Events == {Ev(op, f) : op \in Ops, f \in Names} \cup {Overflow}

(***************************************************************************)
(* What a queue says of one log.                                           *)
(***************************************************************************)

Holds(q, op, f) == \E i \in 1..Len(q) : q[i] = Ev(op, f)

\* It says op, and does not say other after it.
Ends(q, op, other, f) ==
  \E i \in 1..Len(q) : /\ q[i] = Ev(op, f)
                       /\ \A j \in 1..Len(q) : i < j => q[j] # Ev(other, f)

\* Between two creations there is a removal.
Alternates(q, f) ==
  \A i, j \in 1..Len(q) :
    i < j /\ q[i] = Ev("create", f) /\ q[j] = Ev("create", f) =>
      \E k \in 1..Len(q) : i < k /\ k < j /\ q[k] = Ev("remove", f)

\* Before the first creation there is a removal.
RemovalFirst(q, f) ==
  \A i \in 1..Len(q) :
    q[i] = Ev("create", f) =>
      \E k \in 1..Len(q) : k < i /\ q[k] = Ev("remove", f)

-----------------------------------------------------------------------------
(***************************************************************************)
(* The inductive invariant.                                                *)
(***************************************************************************)

WatcherShape == /\ events \in Seq(Events)
                /\ workers \in [Names -> {"none", "new", "running", "stopped"}]
                /\ todo \subseteq Names
                /\ starting \subseteq Names
                /\ files \subseteq Names
                /\ dirty \subseteq files
                /\ phase \in {"start", "listed", "list", "loop", "exited"}

\* What each phase of watch has done, and has still to do.
PhaseHolds ==
  /\ phase \in {"start", "listed"} =>
       events = <<>> /\ ownWatch = {} /\ workers = [f \in Names |-> "none"]
  /\ phase \in {"start", "listed", "exited"} => ~watched
  /\ phase \in {"start", "loop"} => todo = {}
  /\ \A f \in todo : workers[f] = "none"
  /\ toStop # {} => stop

\* startWorker is at work on one log, whose worker alone may not be started.
OneAtATime ==
  /\ starting # {} => phase \in {"list", "loop"}
  /\ \A f, g \in starting : f = g
  /\ \A f \in Names : workers[f] = "new" => f \in starting

Known(f) == /\ phase \in {"listed", "list", "loop"}
            /\ f \notin disturbed

Has(f) == f \in todo \/ workers[f] \in {"new", "running"}

\* A log that has a worker, or is about to have one, is not created again
\* before it is removed.
OneWorkerEach ==
  \A f \in Names : Known(f) => /\ Alternates(events, f)
                               /\ Has(f) => RemovalFirst(events, f)

\* The last thing the queue says of a log is true, and if it says nothing the
\* map is right.
AbsentKnown ==
  \A f \in Names \ files :
    Known(f) /\ ~Overflowed =>
      \/ Ends(events, "remove", "create", f)
      \/ ~Holds(events, "create", f) /\ ~Has(f)

PresentKnown ==
  \A f \in files :
    Known(f) /\ ~Overflowed /\ ~stop =>
      \/ Ends(events, "create", "remove", f)
      \/ ~Holds(events, "remove", f) /\ Has(f)

WritesKnown ==
  \A f \in dirty :
    Known(f) /\ ~Overflowed /\ ~stop =>
      \/ f \in todo
      \/ workers[f] = "new"
      \/ Holds(events, "create", f)
      \/ Holds(events, "remove", f)
      \/ Holds(events, "write", f)

\* The parts of NoStrayWorker.
InMap == strays \subseteq disturbed

StopReaches == stop => \A f \in Names : workers[f] = "running" => f \in toStop \cup late

WInv == /\ WatcherShape /\ PhaseHolds /\ OneAtATime /\ OneWorkerEach /\ AbsentKnown
        /\ PresentKnown /\ WritesKnown /\ InMap /\ StopReaches
-----------------------------------------------------------------------------
(***************************************************************************)
(* Events, and what the queue says when one comes or goes.                 *)
(***************************************************************************)

\* Events of different kinds or different logs differ, and none is the mark.
LEMMA EvFacts ==
  ASSUME NEW op, NEW f, NEW other, NEW g
  PROVE  /\ Ev(op, f) = Ev(other, g) <=> op = other /\ f = g
         /\ Ev(op, f) # Overflow
         /\ Ev(op, f).op = op /\ Ev(op, f).name = f
<1>1. DOMAIN Ev(op, f) # DOMAIN Overflow
  <2>1. "name" \in DOMAIN Ev(op, f) /\ "name" \notin DOMAIN Overflow
    BY DEF Ev, Overflow
  <2> QED
    BY <2>1
<1>2. Ev(op, f).op = op /\ Ev(op, f).name = f /\ Ev(other, g).op = other /\ Ev(other, g).name = g
  BY DEF Ev
<1> QED
  BY <1>1, <1>2

\* An event that is appended is the last word on its log.
LEMMA AppendSays ==
  ASSUME NEW q \in Seq(Events), NEW e \in Events, NEW f,
         NEW op, NEW other, op # other
  PROVE  /\ Holds(Append(q, e), op, f) <=> Holds(q, op, f) \/ e = Ev(op, f)
         /\ Ends(Append(q, e), op, other, f)
              <=> e = Ev(op, f) \/ (Ends(q, op, other, f) /\ e # Ev(other, f))
<1> DEFINE a == Append(q, e)
<1>1. /\ Len(a) = Len(q) + 1 /\ Len(q) \in Nat
      /\ a[Len(q) + 1] = e
      /\ \A i \in 1..Len(q) : a[i] = q[i]
  OBVIOUS
<1>2. Ev(op, f) # Ev(other, f)
  BY EvFacts
<1> HIDE DEF a
<1>3. Holds(a, op, f) <=> Holds(q, op, f) \/ e = Ev(op, f)
  BY <1>1 DEF Holds
<1>4. e = Ev(op, f) => Ends(a, op, other, f)
  BY <1>1 DEF Ends
<1>5. Ends(q, op, other, f) /\ e # Ev(other, f) => Ends(a, op, other, f)
  BY <1>1 DEF Ends
<1>6. Ends(a, op, other, f) /\ e # Ev(op, f) => Ends(q, op, other, f) /\ e # Ev(other, f)
  BY <1>1 DEF Ends
<1> QED
  BY <1>3, <1>4, <1>5, <1>6 DEF a

\* An event that is appended keeps the order of those before it.
LEMMA AppendKeepsOrder ==
  ASSUME NEW q \in Seq(Events), NEW e \in Events, NEW f
  PROVE  /\ /\ Alternates(q, f)
            /\ e = Ev("create", f) =>
                 Ends(q, "remove", "create", f) \/ ~Holds(q, "create", f)
            => Alternates(Append(q, e), f)
         /\ /\ RemovalFirst(q, f)
            /\ e = Ev("create", f) => Holds(q, "remove", f)
            => RemovalFirst(Append(q, e), f)
<1> DEFINE a == Append(q, e)
<1>1. /\ Len(a) = Len(q) + 1 /\ Len(q) \in Nat
      /\ a[Len(q) + 1] = e
      /\ \A i \in 1..Len(q) : a[i] = q[i]
  OBVIOUS
<1> HIDE DEF a
<1>2. ASSUME Alternates(q, f),
             e = Ev("create", f) =>
               Ends(q, "remove", "create", f) \/ ~Holds(q, "create", f)
      PROVE  Alternates(a, f)
  <2> SUFFICES ASSUME NEW i \in 1..Len(a), NEW j \in 1..Len(a), i < j,
                      a[i] = Ev("create", f), a[j] = Ev("create", f)
               PROVE  \E k \in 1..Len(a) : i < k /\ k < j /\ a[k] = Ev("remove", f)
    BY DEF Alternates
  <2>1. CASE j = Len(q) + 1
    BY <1>1, <1>2, <2>1, EvFacts DEF Ends, Holds
  <2>2. CASE j \in 1..Len(q)
    BY <1>1, <1>2, <2>2 DEF Alternates
  <2> QED
    BY <1>1, <2>1, <2>2
<1>3. ASSUME RemovalFirst(q, f), e = Ev("create", f) => Holds(q, "remove", f)
      PROVE  RemovalFirst(a, f)
  BY <1>1, <1>3 DEF RemovalFirst, Holds
<1> QED
  BY <1>2, <1>3 DEF a

\* Behind the event that is taken, the rest says what it said.
LEMMA TailSays ==
  ASSUME NEW q \in Seq(Events), q # <<>>, NEW f, NEW op, NEW other, op # other
  PROVE  /\ Holds(q, op, f) <=> Holds(Tail(q), op, f) \/ Head(q) = Ev(op, f)
         /\ Ends(q, op, other, f)
              <=> \/ Ends(Tail(q), op, other, f)
                  \/ Head(q) = Ev(op, f) /\ ~Holds(Tail(q), other, f)
<1> DEFINE t == Tail(q)
<1>1. /\ Len(t) = Len(q) - 1 /\ Len(q) \in Nat \ {0}
      /\ Head(q) = q[1]
      /\ \A i \in 1..Len(t) : t[i] = q[i + 1]
  OBVIOUS
<1>2. \A i \in 2..Len(q) : i - 1 \in 1..Len(t) /\ q[i] = t[i - 1]
  BY <1>1
<1>3. Ev(op, f) # Ev(other, f)
  BY EvFacts
<1> HIDE DEF t
<1>4. Holds(q, op, f) <=> Holds(t, op, f) \/ Head(q) = Ev(op, f)
  BY <1>1, <1>2 DEF Holds
<1>5. Ends(t, op, other, f) => Ends(q, op, other, f)
  <2> SUFFICES ASSUME NEW i \in 1..Len(t), t[i] = Ev(op, f),
                      \A j \in 1..Len(t) : i < j => t[j] # Ev(other, f)
               PROVE  Ends(q, op, other, f)
    BY DEF Ends
  <2>1. i + 1 \in 1..Len(q) /\ q[i + 1] = Ev(op, f)
    BY <1>1
  <2>2. \A j \in 1..Len(q) : i + 1 < j => q[j] # Ev(other, f)
    <3> TAKE j \in 1..Len(q)
    <3>1. i + 1 < j => j - 1 \in 1..Len(t) /\ i < j - 1 /\ q[j] = t[j - 1]
      BY <1>1, <1>2
    <3> QED
      BY <3>1
  <2> QED
    BY <2>1, <2>2 DEF Ends
<1>6. Head(q) = Ev(op, f) /\ ~Holds(t, other, f) => Ends(q, op, other, f)
  BY <1>1, <1>2 DEF Ends, Holds
<1>7. Ends(q, op, other, f) =>
        Ends(t, op, other, f) \/ (Head(q) = Ev(op, f) /\ ~Holds(t, other, f))
  <2> SUFFICES ASSUME NEW i \in 1..Len(q), q[i] = Ev(op, f),
                      \A j \in 1..Len(q) : i < j => q[j] # Ev(other, f)
               PROVE  Ends(t, op, other, f) \/ (Head(q) = Ev(op, f) /\ ~Holds(t, other, f))
    BY DEF Ends
  <2>1. CASE i = 1
    BY <1>1, <2>1 DEF Holds
  <2>2. CASE i \in 2..Len(q)
    <3>1. i - 1 \in 1..Len(t) /\ t[i - 1] = Ev(op, f)
      BY <1>2, <2>2
    <3>2. \A j \in 1..Len(t) : i - 1 < j => t[j] # Ev(other, f)
      BY <1>1, <2>2
    <3> QED
      BY <3>1, <3>2 DEF Ends
  <2> QED
    BY <2>1, <2>2, <1>1
<1> QED
  BY <1>4, <1>5, <1>6, <1>7 DEF t

\* The order is kept behind the event that is taken, and that event tells what
\* comes first now.
LEMMA TailKeepsOrder ==
  ASSUME NEW q \in Seq(Events), q # <<>>, NEW f
  PROVE  /\ Alternates(q, f) => Alternates(Tail(q), f)
         /\ Alternates(q, f) /\ Head(q) = Ev("create", f) => RemovalFirst(Tail(q), f)
         /\ RemovalFirst(q, f) => Head(q) # Ev("create", f)
         /\ RemovalFirst(q, f) /\ Head(q) # Ev("remove", f) => RemovalFirst(Tail(q), f)
<1> DEFINE t == Tail(q)
<1>1. /\ Len(t) = Len(q) - 1 /\ Len(q) \in Nat \ {0}
      /\ Head(q) = q[1]
      /\ \A i \in 1..Len(t) : t[i] = q[i + 1]
  OBVIOUS
<1>2. \A i \in 2..Len(q) : i - 1 \in 1..Len(t) /\ q[i] = t[i - 1]
  BY <1>1
<1> HIDE DEF t
<1>3. ASSUME Alternates(q, f) PROVE Alternates(t, f)
  <2> SUFFICES ASSUME NEW i \in 1..Len(t), NEW j \in 1..Len(t), i < j,
                      t[i] = Ev("create", f), t[j] = Ev("create", f)
               PROVE  \E k \in 1..Len(t) : i < k /\ k < j /\ t[k] = Ev("remove", f)
    BY DEF Alternates
  <2>1. PICK k \in 1..Len(q) : i + 1 < k /\ k < j + 1 /\ q[k] = Ev("remove", f)
    BY <1>1, <1>3 DEF Alternates
  <2> QED
    BY <1>1, <1>2, <2>1
<1>4. ASSUME Alternates(q, f), Head(q) = Ev("create", f) PROVE RemovalFirst(t, f)
  <2> SUFFICES ASSUME NEW j \in 1..Len(t), t[j] = Ev("create", f)
               PROVE  \E k \in 1..Len(t) : k < j /\ t[k] = Ev("remove", f)
    BY DEF RemovalFirst
  <2>1. PICK k \in 1..Len(q) : 1 < k /\ k < j + 1 /\ q[k] = Ev("remove", f)
    BY <1>1, <1>4 DEF Alternates
  <2> QED
    BY <1>1, <1>2, <2>1
<1>5. RemovalFirst(q, f) => Head(q) # Ev("create", f)
  BY <1>1 DEF RemovalFirst
<1>6. ASSUME RemovalFirst(q, f), Head(q) # Ev("remove", f) PROVE RemovalFirst(t, f)
  <2> SUFFICES ASSUME NEW j \in 1..Len(t), t[j] = Ev("create", f)
               PROVE  \E k \in 1..Len(t) : k < j /\ t[k] = Ev("remove", f)
    BY DEF RemovalFirst
  <2>1. PICK k \in 1..Len(q) : k < j + 1 /\ q[k] = Ev("remove", f)
    BY <1>1, <1>6 DEF RemovalFirst
  <2> QED
    BY <1>1, <1>2, <1>6, <2>1
<1> QED
  BY <1>3, <1>4, <1>5, <1>6 DEF t

\* The mark of the overflow stays in the queue.
LEMMA OverflowStays ==
  ASSUME NEW q \in Seq(Events), NEW e \in Events
  PROVE  /\ Overflow \in ToSet(q) \/ e = Overflow <=> Overflow \in ToSet(Append(q, e))
         /\ q # <<>> /\ Head(q) # Overflow =>
              (Overflow \in ToSet(q) <=> Overflow \in ToSet(Tail(q)))
<1>1. Overflow \in ToSet(q) \/ e = Overflow <=> Overflow \in ToSet(Append(q, e))
  <2> DEFINE a == Append(q, e)
  <2>1. /\ Len(a) = Len(q) + 1 /\ Len(q) \in Nat
        /\ DOMAIN q = 1..Len(q) /\ DOMAIN a = 1..Len(a)
        /\ a[Len(q) + 1] = e
        /\ \A i \in 1..Len(q) : a[i] = q[i]
    OBVIOUS
  <2> HIDE DEF a
  <2> QED
    BY <2>1 DEF ToSet, a
<1>2. ASSUME q # <<>>, Head(q) # Overflow
      PROVE  Overflow \in ToSet(q) <=> Overflow \in ToSet(Tail(q))
  <2> DEFINE t == Tail(q)
  <2>1. /\ Len(t) = Len(q) - 1 /\ Len(q) \in Nat \ {0}
        /\ DOMAIN q = 1..Len(q) /\ DOMAIN t = 1..Len(t)
        /\ q[1] # Overflow
        /\ \A i \in 1..Len(t) : t[i] = q[i + 1]
    BY <1>2
  <2>2. \A i \in 2..Len(q) : i - 1 \in 1..Len(t) /\ q[i] = t[i - 1]
    BY <2>1
  <2> HIDE DEF t
  <2>3. Overflow \in ToSet(q) => Overflow \in ToSet(t)
    BY <2>1, <2>2 DEF ToSet
  <2>4. Overflow \in ToSet(t) => Overflow \in ToSet(q)
    BY <2>1 DEF ToSet
  <2> QED
    BY <2>3, <2>4 DEF t
<1> QED
  BY <1>1, <1>2

\* The queue says op of f, unless nobody listens or it is full, and says what it
\* said of everything else.
Told(op, f) ==
  /\ events' \in Seq(Events)
  /\ Overflowed => events' = events
  /\ ~(watched \/ f \in ownWatch) => events' = events
  /\ (watched \/ f \in ownWatch) /\ ~Overflowed' =>
       /\ Holds(events', op, f)
       /\ \A p \in Ops \ {op} : Ends(events', op, p, f)
  /\ \A g \in Names, o \in Ops : op # o \/ f # g =>
       (Holds(events', o, g) <=> Holds(events, o, g))
  /\ \A g \in Names, o, p \in Ops :
       o # p /\ (op \notin {o, p} \/ f # g) =>
       (Ends(events', o, p, g) <=> Ends(events, o, p, g))
  /\ \A g \in Names :
       /\ Alternates(events, g)
       /\ op = "create" /\ f = g =>
            Ends(events, "remove", "create", g) \/ ~Holds(events, "create", g)
       => Alternates(events', g)
  /\ \A g \in Names :
       /\ RemovalFirst(events, g)
       /\ op = "create" /\ f = g => Holds(events, "remove", g)
       => RemovalFirst(events', g)

\* Notify does just that.
LEMMA Notified ==
  ASSUME events \in Seq(Events), NEW op \in Ops, NEW f \in Names, Notify(op, f)
  PROVE  Told(op, f)
<1> DEFINE heard == watched \/ f \in ownWatch
           merged == events # <<>> /\ Last(events) = Ev(op, f)
<1>1. Ev(op, f) \in Events /\ Overflow \in Events
  BY DEF Events
<1>2. \/ events' = events /\ (~heard \/ Overflowed \/ merged)
      \/ events' = Append(events, Ev(op, f)) /\ heard /\ ~Overflowed
      \/ events' = Append(events, Overflow) /\ heard /\ ~Overflowed
  BY DEF Notify, Ev
<1>3. CASE events' = events
  <2>1. ASSUME heard, ~Overflowed'
        PROVE  /\ Holds(events', op, f)
               /\ \A p \in Ops \ {op} : Ends(events', op, p, f)
    <3>1. \A g : Overflow # Ev(op, g)
      BY EvFacts
    <3>2. ~Overflowed
      BY <1>3, <2>1 DEF Overflowed
    <3>3. merged
      BY <1>1, <1>2, <1>3, <2>1, <3>2
    <3>4. Len(events) \in 1..Len(events) /\ events[Len(events)] = Ev(op, f)
      BY <3>3 DEF Last
    <3> QED
      BY <1>3, <3>4 DEF Holds, Ends
  <2> QED
    BY <1>3, <2>1 DEF Told, Overflowed
<1>4. CASE events' = Append(events, Ev(op, f)) /\ heard /\ ~Overflowed
  <2>1. \A g, o : Ev(op, f) = Ev(o, g) <=> op = o /\ f = g
    BY EvFacts
  <2>2. ASSUME NEW g \in Names, NEW o \in Ops, NEW p \in Ops, o # p
        PROVE  /\ Holds(events', o, g) <=> Holds(events, o, g) \/ (op = o /\ f = g)
               /\ Ends(events', o, p, g) <=>
                    \/ op = o /\ f = g
                    \/ Ends(events, o, p, g) /\ ~(op = p /\ f = g)
    BY <1>1, <1>4, <2>1, <2>2, AppendSays
  <2>3. \A o \in Ops : \E p \in Ops : o # p
    BY DEF Ops
  <2>4. events' \in Seq(Events)
    BY <1>1, <1>4
  <2>5. /\ \A g \in Names :
             /\ Alternates(events, g)
             /\ op = "create" /\ f = g =>
                  Ends(events, "remove", "create", g) \/ ~Holds(events, "create", g)
             => Alternates(events', g)
        /\ \A g \in Names :
             /\ RemovalFirst(events, g)
             /\ op = "create" /\ f = g => Holds(events, "remove", g)
             => RemovalFirst(events', g)
    BY <1>1, <1>4, <2>1, AppendKeepsOrder
  <2> QED
    BY <1>4, <2>2, <2>4, <2>5, <2>3 DEF Told
<1>5. CASE events' = Append(events, Overflow) /\ heard /\ ~Overflowed
  <2>1. \A g, o : Overflow # Ev(o, g)
    BY EvFacts
  <2>2. ASSUME NEW g \in Names, NEW o \in Ops, NEW p \in Ops, o # p
        PROVE  /\ Holds(events', o, g) <=> Holds(events, o, g)
               /\ Ends(events', o, p, g) <=> Ends(events, o, p, g)
    BY <1>1, <1>5, <2>1, <2>2, AppendSays
  <2>3. \A o \in Ops : \E p \in Ops : o # p
    BY DEF Ops
  <2>4. Overflowed'
    BY <1>1, <1>5, OverflowStays DEF Overflowed
  <2>5. \A g \in Names : /\ Alternates(events, g) => Alternates(events', g)
                         /\ RemovalFirst(events, g) => RemovalFirst(events', g)
    BY <1>1, <1>5, <2>1, AppendKeepsOrder
  <2>6. events' \in Seq(Events)
    BY <1>1, <1>5
  <2> QED
    BY <1>5, <2>2, <2>4, <2>5, <2>6, <2>3 DEF Told
<1> QED
  BY <1>2, <1>3, <1>4, <1>5

\* The queue has one op on f less.
TakenFrom(op, f) ==
  /\ events' \in Seq(Events)
  /\ Overflowed <=> Overflowed'
  /\ Holds(events, op, f)
  /\ \A p \in Ops \ {op} : Ends(events, op, p, f) <=>
       Ends(events', op, p, f) \/ ~Holds(events', p, f)
  /\ \A g \in Names, o \in Ops :
       /\ Holds(events', o, g) => Holds(events, o, g)
       /\ op # o \/ f # g => (Holds(events', o, g) <=> Holds(events, o, g))
  /\ \A g \in Names, o, p \in Ops :
       o # p /\ (op # o \/ f # g) =>
       (Ends(events', o, p, g) <=> Ends(events, o, p, g))
  /\ \A g \in Names : Alternates(events, g) => Alternates(events', g)
  /\ \A g \in Names :
       RemovalFirst(events, g) =>
         /\ op # "create" \/ f # g
         /\ op # "remove" \/ f # g => RemovalFirst(events', g)
  /\ op = "create" /\ Alternates(events, f) => RemovalFirst(events', f)

\* Take does just that.
LEMMA Taken ==
  ASSUME events \in Seq(Events), NEW op \in Ops, NEW f \in Names, Take(op, f)
  PROVE  TakenFrom(op, f)
<1>1. events # <<>> /\ Head(events) = Ev(op, f) /\ events' = Tail(events)
  BY DEF Take, Ev
<1>2. \A g, o : Ev(op, f) = Ev(o, g) <=> op = o /\ f = g
  BY EvFacts
<1>3. Ev(op, f) # Overflow
  BY EvFacts
<1>4. ASSUME NEW g \in Names, NEW o \in Ops, NEW p \in Ops, o # p
      PROVE  /\ Holds(events, o, g) <=> Holds(events', o, g) \/ (op = o /\ f = g)
             /\ Ends(events, o, p, g) <=>
                  \/ Ends(events', o, p, g)
                  \/ op = o /\ f = g /\ ~Holds(events', p, g)
  BY <1>1, <1>2, <1>4, TailSays
<1>5. \A o \in Ops : \E p \in Ops : o # p
  BY DEF Ops
<1>6. events' \in Seq(Events)
  BY <1>1
<1>7. Overflowed <=> Overflowed'
  <2>1. Ev(op, f) \in Events
    BY DEF Events
  <2> QED
    BY <1>1, <1>3, <2>1, OverflowStays DEF Overflowed
<1>8. /\ \A g \in Names : Alternates(events, g) => Alternates(events', g)
      /\ \A g \in Names :
           RemovalFirst(events, g) =>
             /\ op # "create" \/ f # g
             /\ op # "remove" \/ f # g => RemovalFirst(events', g)
      /\ op = "create" /\ Alternates(events, f) => RemovalFirst(events', f)
  BY <1>1, <1>2, TailKeepsOrder
<1> QED
  BY <1>4, <1>6, <1>7, <1>8, <1>5 DEF TakenFrom

-----------------------------------------------------------------------------
(***************************************************************************)
(* The invariant holds.                                                    *)
(***************************************************************************)

\* An empty queue says nothing.
LEMMA EmptyQueue ==
  ASSUME NEW f, NEW op
  PROVE  /\ ~Holds(<<>>, op, f) /\ Alternates(<<>>, f) /\ RemovalFirst(<<>>, f)
         /\ <<>> \in Seq(Events)
BY DEF Holds, Alternates, RemovalFirst

\* A watcher that has not started knows nothing.
LEMMA InitEstablishes == WatcherInit => WInv
BY DEF WatcherInit, WInv, WatcherShape, PhaseHolds, OneAtATime, OneWorkerEach,
       AbsentKnown, PresentKnown, WritesKnown, InMap, StopReaches, Known

\* Every step of the other programs, of watch and of Stop keeps the invariant.
LEMMA StepPreserves == WInv /\ [WatcherNext]_watcherVars => WInv'
<1> SUFFICES ASSUME WInv, [WatcherNext]_watcherVars PROVE WInv'
  OBVIOUS
<1> USE DEF WInv, WatcherShape, PhaseHolds, OneAtATime, OneWorkerEach, AbsentKnown,
            PresentKnown, WritesKnown, InMap, StopReaches, Known, Has, Told, TakenFrom
<1>1. events' = events => (Overflowed' <=> Overflowed)
  BY DEF Overflowed
<1>2. "create" \in Ops /\ "remove" \in Ops /\ "write" \in Ops
  BY DEF Ops
<1>3. \A op, p, g : Ends(events, op, p, g) => Holds(events, op, g)
  BY DEF Ends, Holds
<1>4. ASSUME NEW f \in Names, Create(f) PROVE WInv'
  <2>1. /\ f \notin files /\ files' = files \cup {f} /\ dirty' = dirty \cup {f}
        /\ ownWatch' = ownWatch \ {f}
        /\ disturbed' = IF ~watched /\ phase # "start" THEN disturbed \cup {f} ELSE disturbed
        /\ Notify("create", f)
        /\ UNCHANGED <<watched, phase, todo, starting, workers, strays, stop, toStop, late>>
    BY <1>4 DEF Create, Change, mapVars, stopVars
  <2>2. Told("create", f)
    BY <1>2, <2>1, Notified
  <2>3. WatcherShape' /\ PhaseHolds' /\ OneAtATime' /\ InMap'
    BY <1>1, <1>2, <1>3, <2>1, <2>2
  <2>4. OneWorkerEach'
    BY <1>1, <1>2, <1>3, <2>1, <2>2
  <2>5. AbsentKnown'
    BY <1>1, <1>2, <1>3, <2>1, <2>2
  <2>6. PresentKnown'
    BY <1>1, <1>2, <1>3, <2>1, <2>2
  <2>7. StopReaches'
    BY <2>1
  <2>8. WritesKnown'
    BY <1>1, <1>2, <1>3, <2>1, <2>2
  <2> QED
    BY <2>3, <2>4, <2>5, <2>6, <2>7, <2>8
<1>5. ASSUME NEW f \in Names, Delete(f) PROVE WInv'
  <2>1. /\ f \in files /\ files' = files \ {f} /\ dirty' = dirty \ {f}
        /\ ownWatch' = ownWatch \ {f}
        /\ disturbed' = IF ~watched /\ phase # "start" THEN disturbed \cup {f} ELSE disturbed
        /\ Notify("remove", f)
        /\ UNCHANGED <<watched, phase, todo, starting, workers, strays, stop, toStop, late>>
    BY <1>5 DEF Delete, Change, mapVars, stopVars
  <2>2. Told("remove", f)
    BY <1>2, <2>1, Notified
  <2>3. WatcherShape' /\ PhaseHolds' /\ OneAtATime' /\ InMap'
    BY <1>1, <1>2, <1>3, <2>1, <2>2
  <2>4. OneWorkerEach'
    BY <1>1, <1>2, <1>3, <2>1, <2>2
  <2>5. AbsentKnown'
    BY <1>1, <1>2, <1>3, <2>1, <2>2
  <2>6. PresentKnown'
    BY <1>1, <1>2, <1>3, <2>1, <2>2
  <2>7. StopReaches'
    BY <2>1
  <2>8. WritesKnown'
    BY <1>1, <1>2, <1>3, <2>1, <2>2
  <2> QED
    BY <2>3, <2>4, <2>5, <2>6, <2>7, <2>8
<1>6. ASSUME NEW f \in Names, Replace(f) PROVE WInv'
  <2>1. /\ f \in files /\ dirty' = dirty \cup {f} /\ ownWatch' = ownWatch \ {f}
        /\ disturbed' = disturbed \cup {f}
        /\ Notify(IF watched THEN "create" ELSE "remove", f)
        /\ UNCHANGED <<files, watched, phase, todo, starting, workers, strays, stop, toStop, late>>
    BY <1>6 DEF Replace, mapVars, stopVars
  <2>2. Told("create", f) \/ Told("remove", f)
    BY <1>2, <2>1, Notified
  <2> QED
    BY <1>1, <1>2, <1>3, <2>1, <2>2
<1>7. ASSUME NEW f \in Names, LogWrite(f) PROVE WInv'
  <2>1. /\ f \in files /\ dirty' = dirty \cup {f}
        /\ Notify("write", f)
        /\ disturbed' = IF Unwatched(f) THEN disturbed \cup {f} ELSE disturbed
        /\ UNCHANGED <<files, watched, ownWatch, phase, todo, starting, workers, strays, stop, toStop, late>>
    BY <1>7 DEF LogWrite, watchVars, mapVars, stopVars
  <2>2. Told("write", f)
    BY <1>2, <2>1, Notified
  <2>3. WatcherShape' /\ PhaseHolds' /\ OneAtATime' /\ InMap'
    BY <1>1, <1>2, <1>3, <2>1, <2>2
  <2>4. OneWorkerEach'
    BY <1>1, <1>2, <1>3, <2>1, <2>2
  <2>5. AbsentKnown'
    BY <1>1, <1>2, <1>3, <2>1, <2>2
  <2>6. PresentKnown'
    BY <1>1, <1>2, <1>3, <2>1, <2>2
  <2>7. StopReaches'
    BY <2>1
  <2>8. WritesKnown'
    BY <1>1, <1>2, <1>3, <2>1, <2>2 DEF Unwatched
  <2> QED
    BY <2>3, <2>4, <2>5, <2>6, <2>7, <2>8
<1>8. CASE StartFails
  <2>1. /\ phase = "start" /\ phase' = "exited"
        /\ UNCHANGED <<late, starting, toStop, files, dirty, disturbed, events, watched, ownWatch, todo, workers, strays, stop>>
    BY <1>8 DEF StartFails, dirVars, watchVars, mapVars, stopVars
  <2> QED
    BY <1>1, <2>1
<1>9. CASE ListDir
  <2>1. /\ phase = "start" /\ phase' = "listed" /\ todo' = files
        /\ UNCHANGED <<late, starting, toStop, files, dirty, disturbed, events, watched, ownWatch, workers, strays, stop>>
    BY <1>9 DEF ListDir, dirVars, watchVars, mapVars, stopVars
  <2>2. events = <<>> /\ \A f, op : /\ ~Holds(events, op, f)
                                       /\ Alternates(events, f) /\ RemovalFirst(events, f)
    BY <2>1, EmptyQueue
  <2> QED
    BY <1>1, <1>2, <1>3, <2>1, <2>2
<1>10. CASE WatchDir \/ WatchDirFails
  <2>1. /\ phase = "listed" /\ phase' = "list"
        /\ watched' = TRUE \/ UNCHANGED watched
        /\ UNCHANGED <<late, starting, toStop, files, dirty, disturbed, events, ownWatch, todo, workers, strays, stop>>
    BY <1>10 DEF WatchDir, WatchDirFails, dirVars, watchVars, mapVars, stopVars
  <2> QED
    BY <1>1, <2>1
<1>11. ASSUME NEW f \in Names, StartListed(f) PROVE WInv'
  <2>1. /\ phase = "list" /\ f \in todo /\ todo' = todo \ {f}
        /\ starting = {} /\ starting' = {f}
        /\ workers' = [workers EXCEPT ![f] = "new"]
        /\ strays' = IF workers[f] = "running" THEN strays \cup {f} ELSE strays
        /\ toStop \subseteq toStop' /\ (toStop' = {} \/ toStop # {})
        /\ UNCHANGED <<files, dirty, disturbed, events, watched, ownWatch, phase, stop, late>>
    BY <1>11 DEF StartListed, startWorker, Free
  <2>2. WatcherShape' /\ PhaseHolds' /\ OneAtATime' /\ InMap'
    BY <1>1, <2>1
  <2>3. OneWorkerEach'
    BY <1>1, <2>1
  <2>4. AbsentKnown'
    BY <1>1, <2>1
  <2>5. PresentKnown'
    BY <1>1, <2>1
  <2>6. StopReaches'
    BY <2>1
  <2>7. WritesKnown'
    BY <1>1, <2>1
  <2> QED
    BY <2>2, <2>3, <2>4, <2>5, <2>6, <2>7
<1>12. ASSUME NEW f \in Names, StartTail(f) PROVE WInv'
  <2>1. /\ f \in starting /\ workers[f] = "new"
        /\ workers' = [workers EXCEPT ![f] = "running"]
        /\ dirty' = dirty \ {f}
        /\ late' = IF stop THEN late \cup {f} ELSE late
        /\ UNCHANGED <<files, disturbed, events, watched, ownWatch, phase, todo, starting, strays, stop, toStop>>
    BY <1>12 DEF StartTail, watchVars
  <2>2. WatcherShape' /\ PhaseHolds' /\ OneAtATime' /\ InMap'
    BY <1>1, <2>1
  <2>3. OneWorkerEach'
    BY <1>1, <2>1
  <2>4. AbsentKnown'
    BY <1>1, <2>1
  <2>5. PresentKnown'
    BY <1>1, <2>1
  <2>6. StopReaches'
    BY <2>1
  <2>7. WritesKnown'
    BY <1>1, <2>1
  <2> QED
    BY <2>2, <2>3, <2>4, <2>5, <2>6, <2>7
<1>13. ASSUME NEW f \in Names, WatchLog(f) PROVE WInv'
  <2>1. /\ f \in starting /\ workers[f] # "new" /\ starting' = {}
        /\ UNCHANGED <<files, dirty, disturbed, events, watched, phase, todo, workers, strays, stop, toStop, late>>
    BY <1>13 DEF WatchLog, dirVars, stopVars
  <2>2. WatcherShape' /\ PhaseHolds' /\ OneAtATime' /\ InMap'
    BY <1>1, <2>1
  <2>3. OneWorkerEach' /\ AbsentKnown' /\ PresentKnown' /\ WritesKnown' /\ StopReaches'
    BY <1>1, <2>1
  <2> QED
    BY <2>2, <2>3
<1>14. CASE AllListed
  <2>1. /\ phase = "list" /\ phase' = "loop" /\ todo = {}
        /\ UNCHANGED <<late, starting, toStop, files, dirty, disturbed, events, watched, ownWatch, todo, workers, strays, stop>>
    BY <1>14 DEF AllListed, dirVars, watchVars, mapVars, stopVars
  <2> QED
    BY <1>1, <2>1
<1>15. ASSUME NEW f \in Names, HandleWrite(f) PROVE WInv'
  <2>1. /\ Take("write", f) /\ phase = "loop" /\ starting = {}
        /\ dirty' = IF workers[f] = "running" THEN dirty \ {f} ELSE dirty
        /\ UNCHANGED <<late, starting, toStop, files, disturbed, watched, ownWatch, phase, todo, workers, strays, stop>>
    BY <1>15 DEF HandleWrite, Take, Free
  <2>2. TakenFrom("write", f)
    BY <1>2, <2>1, Taken
  <2>3. WatcherShape' /\ PhaseHolds' /\ OneAtATime' /\ InMap'
    BY <1>1, <1>2, <1>3, <2>1, <2>2
  <2>4. OneWorkerEach'
    BY <1>1, <1>2, <1>3, <2>1, <2>2
  <2>5. AbsentKnown'
    BY <1>1, <1>2, <1>3, <2>1, <2>2
  <2>6. PresentKnown'
    BY <1>1, <1>2, <1>3, <2>1, <2>2
  <2>7. StopReaches'
    BY <2>1
  <2>8. WritesKnown'
    BY <1>1, <1>2, <1>3, <2>1, <2>2
  <2> QED
    BY <2>3, <2>4, <2>5, <2>6, <2>7, <2>8
<1>16. ASSUME NEW f \in Names, HandleCreate(f), f \in files PROVE WInv'
  <2>1. /\ f \in files
        /\ Take("create", f) /\ phase = "loop"
        /\ starting = {} /\ starting' = {f}
        /\ workers' = [workers EXCEPT ![f] = "new"]
        /\ strays' = IF workers[f] = "running" THEN strays \cup {f} ELSE strays
        /\ toStop \subseteq toStop' /\ (toStop' = {} \/ toStop # {})
        /\ UNCHANGED <<files, dirty, disturbed, watched, ownWatch, phase, todo, stop, late>>
    BY <1>16 DEF HandleCreate, startWorker, Take, Free
  <2>2. TakenFrom("create", f)
    BY <1>2, <2>1, Taken
  <2>3. WatcherShape' /\ PhaseHolds' /\ OneAtATime' /\ InMap'
    BY <1>1, <1>2, <1>3, <2>1, <2>2
  <2>4. OneWorkerEach'
    BY <1>1, <1>2, <1>3, <2>1, <2>2
  <2>5. AbsentKnown'
    BY <1>1, <1>2, <1>3, <2>1, <2>2
  <2>6. PresentKnown'
    BY <1>1, <1>2, <1>3, <2>1, <2>2
  <2>7. StopReaches'
    BY <2>1
  <2>8. WritesKnown'
    BY <1>1, <1>2, <1>3, <2>1, <2>2
  <2> QED
    BY <2>3, <2>4, <2>5, <2>6, <2>7, <2>8
<1>17. ASSUME NEW f \in Names, HandleCreate(f), f \notin files PROVE WInv'
  <2>1. /\ f \notin files
        /\ Take("create", f) /\ phase = "loop"
        /\ UNCHANGED <<late, starting, toStop, files, dirty, disturbed, watched, ownWatch, phase, todo, workers, strays, stop>>
    BY <1>17 DEF HandleCreate, Take
  <2>2. TakenFrom("create", f)
    BY <1>2, <2>1, Taken
  <2>3. WatcherShape' /\ PhaseHolds' /\ OneAtATime' /\ InMap'
    BY <1>1, <1>2, <1>3, <2>1, <2>2
  <2>4. OneWorkerEach'
    BY <1>1, <1>2, <1>3, <2>1, <2>2
  <2>5. AbsentKnown'
    BY <1>1, <1>2, <1>3, <2>1, <2>2
  <2>6. PresentKnown'
    BY <1>1, <1>2, <1>3, <2>1, <2>2
  <2>7. StopReaches'
    BY <2>1
  <2>8. WritesKnown'
    BY <1>1, <1>2, <1>3, <2>1, <2>2
  <2> QED
    BY <2>3, <2>4, <2>5, <2>6, <2>7, <2>8
<1>18. ASSUME NEW f \in Names, HandleRemove(f) PROVE WInv'
  <2>1. /\ Take("remove", f) /\ phase = "loop" /\ starting = {}
        /\ workers' = [workers EXCEPT ![f] = "none"]
        /\ ownWatch' = IF workers[f] = "none" THEN ownWatch ELSE ownWatch \ {f}
        /\ UNCHANGED <<late, starting, toStop, files, dirty, disturbed, watched, phase, todo, strays, stop>>
    BY <1>18 DEF HandleRemove, stopWorker, Take, Free
  <2>2. TakenFrom("remove", f)
    BY <1>2, <2>1, Taken
  <2>3. WatcherShape' /\ PhaseHolds' /\ OneAtATime' /\ InMap'
    BY <1>1, <1>2, <1>3, <2>1, <2>2
  <2>4. OneWorkerEach'
    BY <1>1, <1>2, <1>3, <2>1, <2>2
  <2>5. AbsentKnown'
    BY <1>1, <1>2, <1>3, <2>1, <2>2
  <2>6. PresentKnown'
    BY <1>1, <1>2, <1>3, <2>1, <2>2
  <2>7. StopReaches'
    BY <2>1
  <2>8. WritesKnown'
    BY <1>1, <1>2, <1>3, <2>1, <2>2
  <2> QED
    BY <2>3, <2>4, <2>5, <2>6, <2>7, <2>8
<1>19. CASE TakeStop
  <2>1. /\ phase = "loop" /\ phase' = "exited" /\ watched' = FALSE
        /\ starting = {} /\ events' = <<>>
        /\ UNCHANGED <<late, starting, toStop, files, dirty, disturbed, todo, workers, strays, stop>>
    BY <1>19 DEF TakeStop, Free, dirVars, watchVars, mapVars, stopVars
  <2> QED
    BY <1>1, <2>1
<1>20. CASE Stop
  <2>1. /\ ~stop /\ stop' = TRUE /\ toStop' = {f \in Names : workers[f] # "none"}
        /\ UNCHANGED <<late, starting, files, dirty, disturbed, events, watched, ownWatch, phase, todo, workers, strays>>
    BY <1>20 DEF Stop, dirVars, watchVars, mapVars, stopVars
  <2>2. StopReaches'
    BY <2>1
  <2> QED
    BY <1>1, <2>1, <2>2
<1>21. ASSUME NEW f \in Names, StopOne(f) PROVE WInv'
  <2>1. /\ f \in toStop /\ toStop' = toStop \ {f}
        /\ workers' = [workers EXCEPT ![f] = IF workers[f] = "running" THEN "stopped" ELSE workers[f]]
        /\ UNCHANGED <<late, starting, files, dirty, disturbed, events, watched, ownWatch, phase, todo, strays, stop>>
    BY <1>21 DEF StopOne, dirVars, watchVars, mapVars, stopVars
  <2>2. \A g \in Names : workers'[g] = workers[g] \/ (g = f /\ workers[g] = "running" /\ workers'[g] = "stopped")
    BY <2>1
  <2>3. StopReaches'
    BY <2>1, <2>2
  <2>4. WatcherShape' /\ PhaseHolds' /\ OneAtATime' /\ InMap'
    BY <1>1, <2>1
  <2>5. OneWorkerEach' /\ AbsentKnown' /\ PresentKnown' /\ WritesKnown'
    BY <1>1, <2>1, <2>2
  <2> QED
    BY <2>3, <2>4, <2>5
<1>22. CASE MapRace
  <2>1. UNCHANGED <<late, starting, toStop, files, dirty, disturbed, events, watched, ownWatch, phase, todo, workers, strays, stop>>
    BY <1>22 DEF MapRace, dirVars, watchVars, mapVars, stopVars
  <2> QED
    BY <1>1, <2>1
<1>23. CASE UNCHANGED watcherVars
  <2>1. UNCHANGED <<late, starting, toStop, files, dirty, disturbed, events, watched, ownWatch, phase, todo, workers, strays, stop>>
    BY <1>23 DEF watcherVars, dirVars, watchVars, mapVars, stopVars
  <2> QED
    BY <1>1, <2>1
<1> QED
  BY <1>4, <1>5, <1>6, <1>7, <1>8, <1>9, <1>10, <1>11, <1>12, <1>13, <1>14, <1>15, <1>16, <1>17,
     <1>18, <1>19, <1>20, <1>21, <1>22, <1>23 DEF WatcherNext, Directory, Watch, Handler

\* The inductive invariant holds in every state of the watcher.
THEOREM WatcherInvariant == WatcherSpec => []WInv
<1> QED
  BY InitEstablishes, StepPreserves, PTL DEF WatcherSpec

-----------------------------------------------------------------------------
(***************************************************************************)
(* What the watcher promises.                                              *)
(***************************************************************************)

\* What the queue holds of a log is on its way to watch.
LEMMA HeldIsPending ==
  ASSUME events \in Seq(Events), NEW f, NEW op, Holds(events, op, f)
  PROVE  Pending(f)
<1>1. PICK i \in 1..Len(events) : events[i] = Ev(op, f)
  BY DEF Holds
<1>2. events[i] \in ToSet(events)
  BY DEF ToSet
<1>3. events[i] # Overflow /\ events[i].name = f
  BY <1>1, EvFacts
<1> QED
  BY <1>2, <1>3 DEF Pending

\* For every set of logs, startWorker covers no worker that runs, unless the file
\* was replaced or came and went while the directory was not watched; and a worker
\* that runs after Stop was called is one that Stop has yet to reach, or one that
\* was started after the call.
THEOREM NoStrays == WatcherSpec => []NoStrayWorker
<1>1. WInv => NoStrayWorker
  BY DEF WInv, InMap, StopReaches, NoStrayWorker, Running
<1> QED
  BY <1>1, WatcherInvariant, PTL

\* However the listing, the creations and the removals fall, a log whose events
\* watch has handled has a worker in the map exactly if it is there.
THEOREM MapFollowsDirectory == WatcherSpec => []MapMatchesDirectory
<1>1. ASSUME WInv, NEW f \in Names, Undisturbed(f), ~Pending(f)
      PROVE  workers[f] = "running" <=> f \in files
  <2>1. Known(f) /\ ~Overflowed /\ ~stop /\ f \notin todo /\ workers[f] # "new"
    BY <1>1 DEF Undisturbed, Known, Pending
  <2>2. ~Holds(events, "create", f) /\ ~Holds(events, "remove", f)
    BY <1>1, HeldIsPending DEF WInv, WatcherShape
  <2>3. ~Ends(events, "create", "remove", f) /\ ~Ends(events, "remove", "create", f)
    BY <2>2 DEF Ends, Holds
  <2>4. f \notin files => workers[f] # "running"
    BY <1>1, <2>1, <2>3 DEF WInv, AbsentKnown, Has
  <2>5. f \in files => workers[f] = "running"
    BY <1>1, <2>1, <2>3 DEF WInv, PresentKnown, Has
  <2> QED
    BY <2>4, <2>5
<1>2. WInv => MapMatchesDirectory
  BY <1>1 DEF MapMatchesDirectory
<1> QED
  BY <1>2, WatcherInvariant, PTL

\* However the writes of the programs fall between the listing, the watches and
\* the steps of startWorker, text that nobody has been told to read has an event
\* on its way, or its log is still to be started, unless it was written while
\* nothing watched the log.
THEOREM NoWriteMissed == WatcherSpec => []NoUnnoticedWrite
<1>1. ASSUME WInv, NEW f \in dirty, Undisturbed(f)
      PROVE  Pending(f)
  <2>1. Known(f) /\ ~Overflowed /\ ~stop
    BY <1>1 DEF Undisturbed, Known
  <2>2. \/ f \in todo
        \/ workers[f] = "new"
        \/ Holds(events, "create", f)
        \/ Holds(events, "remove", f)
        \/ Holds(events, "write", f)
    BY <1>1, <2>1 DEF WInv, WritesKnown
  <2>3. f \in todo \/ workers[f] = "new" => Pending(f)
    BY DEF Pending
  <2> QED
    BY <1>1, <2>2, <2>3, HeldIsPending DEF WInv, WatcherShape
<1>2. WInv => NoUnnoticedWrite
  BY <1>1 DEF NoUnnoticedWrite
<1> QED
  BY <1>2, WatcherInvariant, PTL
=============================================================================
