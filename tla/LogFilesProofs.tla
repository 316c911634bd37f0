---------------------------- MODULE LogFilesProofs ----------------------------
(***************************************************************************)
(* The files that follow each other at a path, for every number of files,  *)
(* lines, workers and crashes: one worker is open, and no offset passes    *)
(* over a line that has not become a row.                                  *)
(***************************************************************************)
EXTENDS LogFiles, TLAPS

Pcs == {"none", "idle", "read", "rotate", "create", "reset"}
Events == {"write", "create", "remove"}
OffsetRecords == [at : Nat, of : 0..MaxFiles]

\* The fields of a worker; that the flags are flags is not needed.
IsWorker(w) == /\ DOMAIN w = {"pc", "owed", "closed", "offset", "file", "big", "pos"}
               /\ w.pc \in Pcs /\ w.offset \in OffsetRecords
               /\ w.file \in 0..MaxFiles /\ w.pos \in Nat

-----------------------------------------------------------------------------
(***************************************************************************)
(* What a queue of events says of the path.                                *)
(***************************************************************************)

Holds(q, op) == \E i \in 1..Len(q) : q[i] = op

\* A removal is in the queue, and no creation after it.
EndsRemoved(q) ==
  \E i \in 1..Len(q) : /\ q[i] = "remove"
                       /\ \A j \in 1..Len(q) : i < j => q[j] # "create"

\* Between two creations there is a removal.
Alternates(q) ==
  \A i, j \in 1..Len(q) :
    i < j /\ q[i] = "create" /\ q[j] = "create" =>
      \E k \in 1..Len(q) : i < k /\ k < j /\ q[k] = "remove"

\* Before the first creation there is a removal.
RemovalFirst(q) ==
  \A i \in 1..Len(q) :
    q[i] = "create" => \E k \in 1..Len(q) : k < i /\ q[k] = "remove"

-----------------------------------------------------------------------------
(***************************************************************************)
(* The inductive invariant.                                                *)
(***************************************************************************)

Shape == /\ content \in [Files -> Seq(Nat)]
         /\ used \in Files /\ writer \in Files /\ path \in 0..MaxFiles
         /\ logged \in Nat
         /\ events \in Seq(Events)
         /\ DOMAIN worker = Workers /\ \A g \in Workers : IsWorker(worker[g])
         /\ entry \in OffsetRecords /\ saved \in OffsetRecords

\* A path that is in the map is not created again before it is removed; a path
\* that is gone says so, or is in no map.
OneCurrent ==
  /\ ~up => events = <<>> /\ current = {} /\ \A g \in Workers : worker[g].pc = "none"
  /\ Alternates(events)
  /\ current # {} => RemovalFirst(events)
  /\ path = 0 => \/ EndsRemoved(events)
                 \/ ~Holds(events, "create") /\ current = {}

\* Of the first n lines of file f all are rows, unless a worker has begun to
\* read it at an offset of another file.
Read(files, done, skewed, n, f) ==
  /\ n <= Len(files[f])
  /\ f \notin skewed => \A i \in 1..n : files[f][i] \in done

Covered(files, done, skewed, o) ==
  IF o.of = 0 THEN o.at = 0 ELSE Read(files, done, skewed, o.at, o.of)

Covers(o) == Covered(content, rows, outgrown, o)

AllCover ==
  /\ Covers(entry) /\ Covers(saved)
  /\ \A g \in Workers :
       /\ Covers(worker[g].offset)
       /\ worker[g].pc = "read" =>
            /\ worker[g].file # 0
            /\ Read(content, rows, outgrown, worker[g].pos, worker[g].file)

LogFilesInv == Shape /\ OneCurrent /\ OneWorkerOpen /\ AllCover

-----------------------------------------------------------------------------
(***************************************************************************)
(* Events that come and go.                                                *)
(***************************************************************************)

\* An event that is appended keeps the order of those before it.
LEMMA AppendSays ==
  ASSUME NEW q \in Seq(Events), NEW op \in Events
  PROVE  /\ op = "remove" => EndsRemoved(Append(q, op))
         /\ op # "create" /\ EndsRemoved(q) => EndsRemoved(Append(q, op))
         /\ op # "create" /\ ~Holds(q, "create") => ~Holds(Append(q, op), "create")
         /\ /\ Alternates(q)
            /\ op = "create" => EndsRemoved(q) \/ ~Holds(q, "create")
            => Alternates(Append(q, op))
         /\ /\ RemovalFirst(q)
            /\ op = "create" => EndsRemoved(q)
            => RemovalFirst(Append(q, op))
<1> DEFINE a == Append(q, op)
<1>1. /\ Len(a) = Len(q) + 1 /\ Len(q) \in Nat
      /\ a[Len(q) + 1] = op
      /\ \A i \in 1..Len(q) : a[i] = q[i]
  OBVIOUS
<1> HIDE DEF a
<1>2. op = "remove" => EndsRemoved(a)
  BY <1>1 DEF EndsRemoved
<1>3. op # "create" /\ EndsRemoved(q) => EndsRemoved(a)
  BY <1>1 DEF EndsRemoved
<1>4. op # "create" /\ ~Holds(q, "create") => ~Holds(a, "create")
  BY <1>1 DEF Holds
<1>5. ASSUME Alternates(q), op = "create" => EndsRemoved(q) \/ ~Holds(q, "create")
      PROVE  Alternates(a)
  <2> SUFFICES ASSUME NEW i \in 1..Len(a), NEW j \in 1..Len(a), i < j,
                      a[i] = "create", a[j] = "create"
               PROVE  \E k \in 1..Len(a) : i < k /\ k < j /\ a[k] = "remove"
    BY DEF Alternates
  <2>1. CASE j = Len(q) + 1
    BY <1>1, <1>5, <2>1 DEF EndsRemoved, Holds
  <2>2. CASE j \in 1..Len(q)
    BY <1>1, <1>5, <2>2 DEF Alternates
  <2> QED
    BY <1>1, <2>1, <2>2
<1>6. ASSUME RemovalFirst(q), op = "create" => EndsRemoved(q)
      PROVE  RemovalFirst(a)
  BY <1>1, <1>6 DEF RemovalFirst, EndsRemoved
<1> QED
  BY <1>2, <1>3, <1>4, <1>5, <1>6 DEF a

\* What the queue says behind the event that is taken.
LEMMA TailSays ==
  ASSUME NEW q \in Seq(Events), q # <<>>
  PROVE  /\ Alternates(q) => Alternates(Tail(q))
         /\ Alternates(q) /\ Head(q) = "create" => RemovalFirst(Tail(q))
         /\ RemovalFirst(q) => Head(q) # "create"
         /\ RemovalFirst(q) /\ Head(q) # "remove" => RemovalFirst(Tail(q))
         /\ EndsRemoved(q) => \/ EndsRemoved(Tail(q))
                              \/ Head(q) = "remove" /\ ~Holds(Tail(q), "create")
         /\ Holds(Tail(q), "create") => Holds(q, "create")
<1> DEFINE t == Tail(q)
<1>1. /\ Len(t) = Len(q) - 1 /\ Len(q) \in Nat \ {0}
      /\ Head(q) = q[1]
      /\ \A i \in 1..Len(t) : t[i] = q[i + 1]
  OBVIOUS
<1>2. \A i \in 2..Len(q) : i - 1 \in 1..Len(t) /\ q[i] = t[i - 1]
  BY <1>1
<1> HIDE DEF t
<1>3. ASSUME Alternates(q) PROVE Alternates(t)
  <2> SUFFICES ASSUME NEW i \in 1..Len(t), NEW j \in 1..Len(t), i < j,
                      t[i] = "create", t[j] = "create"
               PROVE  \E k \in 1..Len(t) : i < k /\ k < j /\ t[k] = "remove"
    BY DEF Alternates
  <2>1. PICK k \in 1..Len(q) : i + 1 < k /\ k < j + 1 /\ q[k] = "remove"
    BY <1>1, <1>3 DEF Alternates
  <2> QED
    BY <1>1, <1>2, <2>1
<1>4. ASSUME Alternates(q), Head(q) = "create" PROVE RemovalFirst(t)
  <2> SUFFICES ASSUME NEW j \in 1..Len(t), t[j] = "create"
               PROVE  \E k \in 1..Len(t) : k < j /\ t[k] = "remove"
    BY DEF RemovalFirst
  <2>1. PICK k \in 1..Len(q) : 1 < k /\ k < j + 1 /\ q[k] = "remove"
    BY <1>1, <1>4 DEF Alternates
  <2> QED
    BY <1>1, <1>2, <2>1
<1>5. RemovalFirst(q) => Head(q) # "create"
  BY <1>1 DEF RemovalFirst
<1>6. ASSUME RemovalFirst(q), Head(q) # "remove" PROVE RemovalFirst(t)
  <2> SUFFICES ASSUME NEW j \in 1..Len(t), t[j] = "create"
               PROVE  \E k \in 1..Len(t) : k < j /\ t[k] = "remove"
    BY DEF RemovalFirst
  <2>1. PICK k \in 1..Len(q) : k < j + 1 /\ q[k] = "remove"
    BY <1>1, <1>6 DEF RemovalFirst
  <2> QED
    BY <1>1, <1>2, <1>6, <2>1
<1>7. ASSUME EndsRemoved(q)
      PROVE  EndsRemoved(t) \/ (Head(q) = "remove" /\ ~Holds(t, "create"))
  <2>1. PICK i \in 1..Len(q) : /\ q[i] = "remove"
                               /\ \A j \in 1..Len(q) : i < j => q[j] # "create"
    BY <1>7 DEF EndsRemoved
  <2>2. CASE i = 1
    BY <1>1, <2>1, <2>2 DEF Holds
  <2>3. CASE i \in 2..Len(q)
    <3>1. i - 1 \in 1..Len(t) /\ t[i - 1] = "remove"
      BY <1>2, <2>1, <2>3
    <3>2. \A j \in 1..Len(t) : i - 1 < j => t[j] # "create"
      BY <1>1, <2>1, <2>3
    <3> QED
      BY <3>1, <3>2 DEF EndsRemoved
  <2> QED
    BY <1>1, <2>2, <2>3
<1>8. Holds(t, "create") => Holds(q, "create")
  BY <1>1 DEF Holds
<1> QED
  BY <1>3, <1>4, <1>5, <1>6, <1>7, <1>8 DEF t

\* What is notified is the last word on the path.
LEMMA NotifiedSays ==
  ASSUME events \in Seq(Events), NEW op \in Events
  PROVE  /\ Notified(op) \in Seq(Events)
         /\ ~up => Notified(op) = events
         /\ op = "remove" /\ up => EndsRemoved(Notified(op))
         /\ op # "create" /\ EndsRemoved(events) => EndsRemoved(Notified(op))
         /\ op # "create" /\ ~Holds(events, "create") => ~Holds(Notified(op), "create")
         /\ /\ Alternates(events)
            /\ op = "create" => EndsRemoved(events) \/ ~Holds(events, "create")
            => Alternates(Notified(op))
         /\ /\ RemovalFirst(events)
            /\ op = "create" => EndsRemoved(events)
            => RemovalFirst(Notified(op))
<1> DEFINE n == Notified(op)
<1>1. \/ n = events /\ (~up \/ (events # <<>> /\ Last(events) = op))
      \/ n = Append(events, op) /\ up
  BY DEF Notified
<1> HIDE DEF n
<1>2. CASE n = events /\ (~up \/ (events # <<>> /\ Last(events) = op))
  <2>1. op = "remove" /\ up => EndsRemoved(events)
    BY <1>2 DEF EndsRemoved, Last
  <2> QED
    BY <1>2, <2>1 DEF n
<1>3. CASE n = Append(events, op) /\ up
  <2>1. n \in Seq(Events)
    BY <1>3
  <2> QED
    BY <1>3, <2>1, AppendSays DEF n
<1> QED
  BY <1>1, <1>2, <1>3
-----------------------------------------------------------------------------
(***************************************************************************)
(* The types.                                                              *)
(***************************************************************************)

\* A worker that starts is a worker, under a name that is free.
LEMMA NewWorkers ==
  ASSUME Shape
  PROVE  /\ IsWorker(NoWorker) /\ IsWorker(NewWorker)
         /\ IsWorker([NewWorker EXCEPT !.offset = saved])
         /\ (\E g \in Workers : worker[g].pc = "none") =>
              Free \in Workers /\ worker[Free].pc = "none"
<1> USE LogFilesAssumption
<1>1. IsWorker(NoWorker)
  BY DEF IsWorker, NoWorker, Offset, OffsetRecords, Pcs
<1>2. IsWorker(NewWorker) /\ IsWorker([NewWorker EXCEPT !.offset = saved])
  BY DEF Shape, IsWorker, NoWorker, NewWorker, Offset, OffsetRecords, Pcs
<1>3. ASSUME NEW g \in Workers, worker[g].pc = "none"
      PROVE  Free \in Workers /\ worker[Free].pc = "none"
  BY <1>3, Zenon DEF Free
<1> QED
  BY <1>1, <1>2, <1>3

\* Becomes changes one worker.
LEMMA OneBecomes ==
  ASSUME Shape, NEW g \in Workers, NEW w, IsWorker(w), Becomes(g, w)
  PROVE  /\ DOMAIN worker' = Workers /\ worker'[g] = w
         /\ \A h \in Workers \ {g} : worker'[h] = worker[h]
         /\ \A h \in Workers : IsWorker(worker'[h])
BY DEF Shape, Becomes

-----------------------------------------------------------------------------
(***************************************************************************)
(* Offsets and rows.                                                       *)
(***************************************************************************)

\* The start of any file, and of none, is covered.
LEMMA StartCovered ==
  ASSUME Shape, NEW f \in 0..MaxFiles, NEW done, NEW skewed
  PROVE  /\ Covered(content, done, skewed, Offset(0, f))
         /\ f # 0 => Read(content, done, skewed, 0, f)
<1>1. f # 0 => Len(content[f]) \in Nat
  BY LogFilesAssumption DEF Shape, Files
<1> QED
  BY <1>1 DEF Covered, Read, Offset

\* What is covered stays covered when lines are logged, rows are added and files
\* are outgrown.
LEMMA CoverKept ==
  ASSUME Shape, rows \subseteq rows', outgrown \subseteq outgrown',
         \/ content' = content
         \/ \E n \in Nat :
              content' = [content EXCEPT ![writer] = Append(content[writer], n)]
  PROVE  /\ \A n \in Nat, f \in Files : Read(content, rows, outgrown, n, f) =>
              Read(content', rows', outgrown', n, f)
         /\ \A o \in OffsetRecords : Covered(content, rows, outgrown, o) =>
              Covered(content', rows', outgrown', o)
<1>1. ASSUME NEW n \in Nat, NEW f \in Files, Read(content, rows, outgrown, n, f)
      PROVE  Read(content', rows', outgrown', n, f)
  <2>1. /\ Len(content[f]) <= Len(content'[f])
        /\ \A i \in 1..Len(content[f]) : content'[f][i] = content[f][i]
    <3>1. content[f] \in Seq(Nat) /\ content[writer] \in Seq(Nat) /\ DOMAIN content = Files
      BY DEF Shape
    <3>2. CASE content' = content
      BY <3>1, <3>2
    <3>3. CASE \E m \in Nat :
                 content' = [content EXCEPT ![writer] = Append(content[writer], m)]
      BY <3>1, <3>3
    <3> QED
      BY <3>2, <3>3
  <2>2. Len(content[f]) \in Nat
    BY DEF Shape
  <2>3. n <= Len(content'[f])
    BY <1>1, <2>1, <2>2 DEF Read, Shape
  <2> QED
    BY <1>1, <2>1, <2>2, <2>3 DEF Read
<1>2. ASSUME NEW o \in OffsetRecords, Covered(content, rows, outgrown, o)
      PROVE  Covered(content', rows', outgrown', o)
  BY <1>1, <1>2 DEF Covered, OffsetRecords, Files
<1> QED
  BY <1>1, <1>2

-----------------------------------------------------------------------------
(***************************************************************************)
(* What the kinds of steps keep.                                           *)
(***************************************************************************)

\* How the path and the events change together.
PathMoves == \/ UNCHANGED <<path, events>>
             \/ path' # 0 /\ events' = Notified("write")
             \/ path = 0 /\ path' # 0 /\ events' = Notified("create")
             \/ path' = 0 /\ events' = Notified("remove")

\* Whatever happens to the path, the events tell the watcher.
LEMMA PathStep ==
  ASSUME Shape, OneCurrent, PathMoves, UNCHANGED <<current, up>>,
         \A h \in Workers : worker[h].pc = "none" => worker'[h].pc = "none"
  PROVE  OneCurrent' /\ events' \in Seq(Events)
<1> USE DEF Shape, OneCurrent
<1>1. "write" \in Events /\ "create" \in Events /\ "remove" \in Events
  BY DEF Events
<1>2. CASE UNCHANGED <<path, events>>
  BY <1>2
<1>3. CASE path' # 0 /\ events' = Notified("write")
  BY <1>1, <1>3, NotifiedSays
<1>4. CASE path = 0 /\ path' # 0 /\ events' = Notified("create")
  BY <1>1, <1>4, NotifiedSays
<1>5. CASE path' = 0 /\ events' = Notified("remove")
  <2>1. ~up => events' = <<>> /\ current = {} /\ ~Holds(<<>>, "create")
    BY <1>1, <1>5, NotifiedSays DEF Holds
  <2> QED
    BY <1>1, <1>5, <2>1, NotifiedSays
<1> QED
  BY <1>2, <1>3, <1>4, <1>5 DEF PathMoves

\* An offset or a place in a file is covered after a step if it was before, or
\* if the step has put it where it is covered.
LEMMA CoverStep ==
  ASSUME Shape, AllCover, rows \subseteq rows', outgrown \subseteq outgrown',
         \/ content' = content
         \/ \E n \in Nat :
              content' = [content EXCEPT ![writer] = Append(content[writer], n)],
         \A o \in {entry', saved'} \cup {worker'[h].offset : h \in Workers} :
           \/ o \in {entry, saved} \cup {worker[h].offset : h \in Workers}
           \/ Covered(content', rows', outgrown', o),
         \A h \in Workers : worker'[h].pc = "read" =>
           \/ /\ worker[h].pc = "read"
              /\ worker'[h].file = worker[h].file /\ worker'[h].pos = worker[h].pos
           \/ /\ worker'[h].file # 0
              /\ Read(content', rows', outgrown', worker'[h].pos, worker'[h].file)
  PROVE  AllCover'
<1>1. \A o \in {entry, saved} \cup {worker[h].offset : h \in Workers} :
        o \in OffsetRecords /\ Covered(content, rows, outgrown, o)
  BY DEF Shape, IsWorker, AllCover, Covers
<1>2. \A o \in {entry', saved'} \cup {worker'[h].offset : h \in Workers} :
        Covered(content', rows', outgrown', o)
  BY <1>1, CoverKept
<1>3. \A h \in Workers : worker[h].pc = "read" =>
        /\ worker[h].file \in Files /\ worker[h].pos \in Nat
        /\ Read(content, rows, outgrown, worker[h].pos, worker[h].file)
  BY LogFilesAssumption DEF Shape, IsWorker, AllCover, Files
<1>4. \A h \in Workers : worker'[h].pc = "read" =>
        /\ worker'[h].file # 0
        /\ Read(content', rows', outgrown', worker'[h].pos, worker'[h].file)
  BY <1>3, CoverKept, LogFilesAssumption DEF Files
<1> QED
  BY <1>2, <1>4 DEF AllCover, Covers

\* A step of a worker in tail, to w, that moves the path as it may be moved and
\* leaves the offsets and the worker's place covered.
LEMMA WorkerKeeps ==
  ASSUME LogFilesInv, NEW g \in Workers, NEW w, IsWorker(w), Becomes(g, w),
         worker[g].pc # "none", w.pc # "none", w.closed = worker[g].closed,
         UNCHANGED <<content, logged, up, current, saved>>,
         rows \subseteq rows', outgrown \subseteq outgrown',
         used' \in Files, writer' \in Files, path' \in 0..MaxFiles, PathMoves,
         entry' \in OffsetRecords,
         entry' = entry \/ Covered(content', rows', outgrown', entry'),
         w.offset = worker[g].offset \/ w.offset = entry',
         w.pc = "read" =>
           \/ /\ worker[g].pc = "read"
              /\ w.file = worker[g].file /\ w.pos = worker[g].pos
           \/ w.file # 0 /\ Read(content', rows', outgrown', w.pos, w.file)
  PROVE  LogFilesInv'
<1>1. /\ DOMAIN worker' = Workers /\ worker'[g] = w
      /\ \A h \in Workers \ {g} : worker'[h] = worker[h]
      /\ \A h \in Workers : IsWorker(worker'[h])
  BY OneBecomes DEF LogFilesInv
<1>2. OneCurrent' /\ events' \in Seq(Events)
  BY <1>1, PathStep DEF LogFilesInv
<1>3. Shape'
  BY <1>1, <1>2 DEF LogFilesInv, Shape
<1>4. OneWorkerOpen'
  BY <1>1 DEF LogFilesInv, OneWorkerOpen
<1>5. \A o \in {entry', saved'} \cup {worker'[h].offset : h \in Workers} :
        \/ o \in {entry, saved} \cup {worker[h].offset : h \in Workers}
        \/ Covered(content', rows', outgrown', o)
  BY <1>1
<1>6. \A h \in Workers : worker'[h].pc = "read" =>
        \/ /\ worker[h].pc = "read"
           /\ worker'[h].file = worker[h].file /\ worker'[h].pos = worker[h].pos
        \/ /\ worker'[h].file # 0
           /\ Read(content', rows', outgrown', worker'[h].pos, worker'[h].file)
  BY <1>1
<1>7. AllCover'
  BY <1>5, <1>6, CoverStep DEF LogFilesInv
<1> QED
  BY <1>2, <1>3, <1>4, <1>7 DEF LogFilesInv

-----------------------------------------------------------------------------
(***************************************************************************)
(* The invariant holds.                                                    *)
(***************************************************************************)

\* No file has been read, and no process runs.
LEMMA InitEstablishes == LogFilesInit => LogFilesInv
<1> SUFFICES ASSUME LogFilesInit PROVE LogFilesInv
  OBVIOUS
<1> USE LogFilesAssumption DEF LogFilesInit, Offset, OffsetRecords, Files
<1>1. /\ Alternates(<<>>) /\ RemovalFirst(<<>>) /\ ~Holds(<<>>, "create")
      /\ <<>> \in Seq(Events) /\ <<>> \in Seq(Nat)
  BY DEF Alternates, RemovalFirst, Holds
<1>2. IsWorker(NoWorker)
  BY DEF IsWorker, NoWorker, Pcs
<1>3. Shape
  BY <1>1, <1>2 DEF Shape
<1>4. OneCurrent /\ OneWorkerOpen
  BY <1>1 DEF OneCurrent, OneWorkerOpen, NoWorker
<1>5. AllCover
  BY DEF AllCover, Covers, Covered, NoWorker
<1> QED
  BY <1>3, <1>4, <1>5 DEF LogFilesInv

\* Every step of the logger, of the watcher, of the workers and of the process
\* keeps the invariant.
LEMMA StepPreserves == LogFilesInv /\ [LogFilesNext]_lfVars => LogFilesInv'
<1> SUFFICES ASSUME LogFilesInv, [LogFilesNext]_lfVars PROVE LogFilesInv'
  OBVIOUS
<1> USE LogFilesAssumption
<1>1. Shape /\ OneCurrent /\ OneWorkerOpen /\ AllCover
  BY DEF LogFilesInv
<1>2. CASE LogLine
  <2>1. /\ content' = [content EXCEPT ![writer] = Append(content[writer], logged + 1)]
        /\ logged' = logged + 1
        /\ UNCHANGED <<path, writer, used, up, current, worker, entry, saved, rows, outgrown>>
    BY <1>2 DEF LogLine, procVars, offsetVars, historyVars
  <2>2. PathMoves
    BY <1>1, <1>2 DEF LogLine, PathMoves, Shape, Files
  <2>3. OneCurrent' /\ events' \in Seq(Events)
    BY <1>1, <2>1, <2>2, PathStep
  <2>4. logged + 1 \in Nat /\ content' \in [Files -> Seq(Nat)]
    BY <1>1, <2>1 DEF Shape
  <2>5. Shape' /\ OneWorkerOpen'
    BY <1>1, <2>1, <2>3, <2>4 DEF Shape, OneWorkerOpen
  <2>6. AllCover'
    BY <1>1, <2>1, <2>4, CoverStep
  <2> QED
    BY <2>3, <2>5, <2>6 DEF LogFilesInv
<1>3. CASE Reopen \/ RemoveLog
  <2>1. /\ UNCHANGED <<content, logged, up, current, worker, entry, saved, rows, outgrown>>
        /\ used' \in Files /\ writer' \in Files /\ path' \in 0..MaxFiles
    BY <1>1, <1>3 DEF Reopen, RemoveLog, Created, NewFile, procVars, offsetVars,
       historyVars, Shape, Files
  <2>2. PathMoves
    BY <1>1, <1>3 DEF Reopen, RemoveLog, Created, NewFile, PathMoves, Shape, Files
  <2>3. OneCurrent' /\ events' \in Seq(Events)
    BY <1>1, <2>1, <2>2, PathStep
  <2>4. Shape' /\ OneWorkerOpen'
    BY <1>1, <2>1, <2>3 DEF Shape, OneWorkerOpen
  <2>5. AllCover'
    BY <1>1, <2>1, CoverStep
  <2> QED
    BY <2>3, <2>4, <2>5 DEF LogFilesInv
<1>4. CASE HandleWrite \/ HandleRemove
  <2>1. /\ events # <<>> /\ events' = Tail(events) /\ Head(events) \in {"write", "remove"}
        /\ current' = IF Head(events) = "remove" THEN {} ELSE current
        /\ up
        /\ UNCHANGED <<content, path, writer, used, logged, up, entry, saved, rows, outgrown>>
    BY <1>4 DEF HandleWrite, HandleRemove, Take, logVars, procVars, offsetVars, historyVars
  <2>2. \/ worker' = [g \in Workers |->
                        [worker[g] EXCEPT !.owed = @ \/ g \in current]]
           /\ current' = current
        \/ worker' = [g \in Workers |->
                        [worker[g] EXCEPT !.closed = @ \/ g \in current]]
           /\ current' = {}
    BY <1>4 DEF HandleWrite, HandleRemove
  <2>3. /\ DOMAIN worker' = Workers
        /\ \A g \in Workers : /\ DOMAIN worker'[g] = DOMAIN worker[g]
                              /\ worker'[g].pc = worker[g].pc
                              /\ worker'[g].offset = worker[g].offset
                              /\ worker'[g].file = worker[g].file
                              /\ worker'[g].pos = worker[g].pos
    BY <1>1, <2>2 DEF Shape, IsWorker
  <2>4. Shape'
    BY <1>1, <2>1, <2>3 DEF Shape, IsWorker
  <2>5. OneCurrent'
    BY <1>1, <2>1, <2>3, TailSays DEF OneCurrent, Shape
  <2>6. OneWorkerOpen'
    <3>1. CASE /\ worker' = [g \in Workers |->
                              [worker[g] EXCEPT !.owed = @ \/ g \in current]]
               /\ current' = current
      <4>1. \A g \in Workers : worker'[g].closed = worker[g].closed
        BY <1>1, <3>1 DEF Shape, IsWorker
      <4> QED
        BY <1>1, <2>3, <3>1, <4>1 DEF OneWorkerOpen
    <3>2. CASE /\ worker' = [g \in Workers |->
                              [worker[g] EXCEPT !.closed = @ \/ g \in current]]
               /\ current' = {}
      <4>1. \A g \in Workers : worker'[g].closed <=> worker[g].closed \/ g \in current
        BY <1>1, <3>2 DEF Shape, IsWorker
      <4> QED
        BY <1>1, <2>3, <3>2, <4>1 DEF OneWorkerOpen
    <3> QED
      BY <2>2, <3>1, <3>2
  <2>7. AllCover'
    BY <1>1, <2>1, <2>3, CoverStep
  <2> QED
    BY <2>4, <2>5, <2>6, <2>7 DEF LogFilesInv
<1>5. CASE HandleCreate
  <2>1. /\ events # <<>> /\ events' = Tail(events) /\ Head(events) = "create"
        /\ up
        /\ UNCHANGED <<content, path, writer, used, logged, up, entry, saved, rows, outgrown>>
    BY <1>5 DEF HandleCreate, Take, logVars, procVars, offsetVars, historyVars
  <2>2. events' \in Seq(Events)
    BY <1>1, <2>1 DEF Shape
  <2>3. CASE path = 0 /\ UNCHANGED <<worker, current>>
    <3>1. Shape' /\ OneWorkerOpen'
      BY <1>1, <2>1, <2>2, <2>3 DEF Shape, OneWorkerOpen
    <3>2. OneCurrent'
      BY <1>1, <2>1, <2>3, TailSays DEF OneCurrent, Shape
    <3>3. AllCover'
      BY <1>1, <2>1, <2>3, CoverStep
    <3> QED
      BY <3>1, <3>2, <3>3 DEF LogFilesInv
  <2>4. CASE path # 0 /\ StartWorker
    <3>1. /\ Free \in Workers /\ worker[Free].pc = "none" /\ IsWorker(NewWorker)
          /\ worker' = [worker EXCEPT ![Free] = NewWorker]
          /\ current' = {Free}
      BY <1>1, <2>4, NewWorkers DEF StartWorker
    <3>2. current = {}
      BY <1>1, <2>1, TailSays DEF OneCurrent, Shape
    <3>3. NewWorker.pc = "idle" /\ NewWorker.offset = entry
      BY DEF NewWorker, NoWorker
    <3>4. Shape'
      BY <1>1, <2>1, <2>2, <3>1 DEF Shape
    <3>5. OneWorkerOpen'
      BY <1>1, <3>1, <3>2 DEF OneWorkerOpen, Shape
    <3>6. OneCurrent'
      BY <1>1, <2>1, <2>4, <3>1, TailSays DEF OneCurrent, Shape
    <3>7. AllCover'
      <4>1. \A h \in Workers : worker'[h] = IF h = Free THEN NewWorker ELSE worker[h]
        BY <1>1, <3>1 DEF Shape
      <4> QED
        BY <1>1, <2>1, <3>3, <4>1, CoverStep
    <3> QED
      BY <3>4, <3>5, <3>6, <3>7 DEF LogFilesInv
  <2> QED
    BY <1>5, <2>3, <2>4 DEF HandleCreate
<1>6. ASSUME NEW g \in Workers, WorkerExits(g) PROVE LogFilesInv'
  <2>1. /\ worker' = [worker EXCEPT ![g] = NoWorker]
        /\ UNCHANGED <<content, path, writer, used, logged, up, events, current, entry, saved,
                       rows, outgrown>>
    BY <1>6 DEF WorkerExits, Becomes, logVars, procVars, offsetVars, historyVars
  <2>2. /\ IsWorker(NoWorker) /\ NoWorker.pc = "none"
        /\ Covered(content, rows, outgrown, NoWorker.offset)
    BY <1>1, NewWorkers DEF NoWorker, Covered, Offset
  <2>3. \A h \in Workers : worker'[h] = IF h = g THEN NoWorker ELSE worker[h]
    BY <1>1, <2>1 DEF Shape
  <2>4. Shape'
    BY <1>1, <2>1, <2>2, <2>3 DEF Shape
  <2>5. OneCurrent'
    BY <1>1, <2>1, <2>2, <2>3 DEF OneCurrent
  <2>6. OneWorkerOpen'
    BY <1>1, <2>1, <2>2, <2>3 DEF OneWorkerOpen
  <2>7. AllCover'
    BY <1>1, <2>1, <2>2, <2>3, CoverStep
  <2> QED
    BY <2>4, <2>5, <2>6, <2>7 DEF LogFilesInv
<1>7. ASSUME NEW g \in Workers, BeginTail(g) PROVE LogFilesInv'
  <2> DEFINE w == [worker[g] EXCEPT !.owed = FALSE]
             at == worker[g].offset.at
             of == worker[g].offset.of
  <2>1. /\ worker[g].pc = "idle"
        /\ UNCHANGED <<content, path, writer, used, logged, up, events, current, saved, rows>>
    BY <1>7 DEF BeginTail, Step, logVars, procVars, historyVars
  <2>2. PathMoves
    BY <2>1 DEF PathMoves
  <2>3. used \in Files /\ writer \in Files /\ path \in 0..MaxFiles /\ entry \in OffsetRecords
    BY <1>1 DEF Shape
  <2>4. /\ IsWorker(w) /\ w.pc = "idle" /\ w.closed = worker[g].closed
        /\ w.offset = worker[g].offset /\ at \in Nat /\ of \in 0..MaxFiles
    BY <1>1, <2>1 DEF Shape, IsWorker, OffsetRecords
  <2> HIDE DEF w
  <2>5. CASE path = 0 /\ Becomes(g, w) /\ UNCHANGED <<entry, outgrown>>
    BY <2>1, <2>2, <2>3, <2>4, <2>5, WorkerKeeps
  <2>6. CASE /\ path # 0 /\ entry' = Offset(0, path)
             /\ Becomes(g, [w EXCEPT !.offset = entry'])
             /\ UNCHANGED outgrown
    <3>1. PICK v : v = [w EXCEPT !.offset = entry']
      OBVIOUS
    <3>2. entry' \in OffsetRecords
      BY <2>3, <2>6 DEF Offset, OffsetRecords
    <3>3. /\ IsWorker(v) /\ v.pc = "idle" /\ v.closed = worker[g].closed /\ v.offset = entry'
      BY <2>4, <3>1, <3>2 DEF IsWorker
    <3>4. Covered(content', rows', outgrown', entry')
      BY <1>1, <2>1, <2>3, <2>6, StartCovered
    <3>5. Becomes(g, v)
      BY <2>6, <3>1
    <3> QED
      BY <2>1, <2>2, <2>3, <2>6, <3>2, <3>3, <3>4, <3>5, WorkerKeeps
  <2>7. CASE /\ path # 0
             /\ Becomes(g, [w EXCEPT !.pc = "read", !.file = path, !.big = CheckSize(path),
                                     !.pos = IF at > Size(path) THEN 0 ELSE at])
             /\ outgrown' = outgrown \cup
                  {f \in {path} : at > 0 /\ of # path /\ at <= Size(f)}
             /\ UNCHANGED entry
    <3>1. PICK v : v = [w EXCEPT !.pc = "read", !.file = path, !.big = CheckSize(path),
                                 !.pos = IF at > Size(path) THEN 0 ELSE at]
      OBVIOUS
    <3>2. /\ IsWorker(v) /\ v.pc = "read" /\ v.closed = worker[g].closed
          /\ v.offset = worker[g].offset /\ v.file = path
          /\ v.pos = IF at > Size(path) THEN 0 ELSE at
      BY <2>3, <2>4, <3>1 DEF IsWorker, Pcs
    <3>3. Read(content', rows', outgrown', v.pos, v.file)
      <4>1. path \in Files
        BY <2>3, <2>7 DEF Files
      <4>2. Size(path) \in Nat
        BY <1>1, <4>1 DEF Shape, Size
      <4>3. CASE at > Size(path) \/ at = 0
        BY <1>1, <2>1, <2>3, <2>7, <3>2, <4>2, <4>3, StartCovered
      <4>4. CASE at <= Size(path) /\ at # 0 /\ of = path
        <5>1. Covers(worker[g].offset)
          BY <1>1 DEF AllCover
        <5>2. outgrown \subseteq outgrown'
          BY <2>7
        <5> QED
          BY <2>1, <2>4, <2>7, <3>2, <4>2, <4>4, <5>1, <5>2 DEF Covers, Covered, Read
      <4>5. CASE at <= Size(path) /\ at # 0 /\ of # path
        <5>1. path \in outgrown'
          BY <2>4, <2>7, <4>5
        <5> QED
          BY <2>1, <2>4, <3>2, <4>2, <4>5, <5>1 DEF Read, Size
      <4> QED
        BY <2>4, <4>2, <4>3, <4>4, <4>5
    <3>4. Becomes(g, v) /\ outgrown \subseteq outgrown'
      BY <2>7, <3>1
    <3> QED
      BY <2>1, <2>2, <2>3, <2>7, <3>2, <3>3, <3>4, WorkerKeeps
  <2> QED
    BY <1>7, <2>4, <2>5, <2>6, <2>7 DEF BeginTail, w
<1>8. ASSUME NEW g \in Workers, TakeLine(g) PROVE LogFilesInv'
  <2> DEFINE file == worker[g].file
             pos == worker[g].pos
  <2>1. /\ worker[g].pc = "read" /\ pos < Size(file)
        /\ rows' = rows \cup {content[file][pos + 1]}
        /\ UNCHANGED <<content, path, writer, used, logged, up, events, current, entry, saved,
                       outgrown>>
    BY <1>8 DEF TakeLine, Step, logVars, procVars, offsetVars
  <2>2. PICK v : v = [worker[g] EXCEPT !.pos = pos + 1]
    OBVIOUS
  <2>3. Becomes(g, v)
    BY <1>8, <2>2 DEF TakeLine
  <2>4. file \in Files /\ pos \in Nat /\ Read(content, rows, outgrown, pos, file)
    BY <1>1, <2>1 DEF AllCover, Shape, IsWorker, Files
  <2>5. /\ IsWorker(v) /\ v.pc = "read" /\ v.closed = worker[g].closed
        /\ v.offset = worker[g].offset /\ v.file = file /\ v.pos = pos + 1
    BY <1>1, <2>1, <2>2 DEF Shape, IsWorker
  <2>6. Read(content', rows', outgrown', v.pos, v.file)
    <3>1. Size(file) \in Nat
      BY <1>1, <2>4 DEF Shape, Size
    <3> QED
      BY <2>1, <2>4, <2>5, <3>1 DEF Read, Size
  <2>7. /\ used \in Files /\ writer \in Files /\ path \in 0..MaxFiles /\ entry \in OffsetRecords
        /\ PathMoves /\ file # 0
    BY <1>1, <2>1, <2>4 DEF Shape, PathMoves, Files
  <2> QED
    BY <2>1, <2>3, <2>5, <2>6, <2>7, WorkerKeeps
<1>9. ASSUME NEW g \in Workers, Finish(g) PROVE LogFilesInv'
  <2>1. /\ worker[g].pc = "read" /\ entry' = Offset(worker[g].pos, worker[g].file)
        /\ UNCHANGED <<content, path, writer, used, logged, up, events, current, saved, rows,
                       outgrown>>
    BY <1>9 DEF Finish, Step, logVars, procVars, historyVars
  <2>2. PICK v : /\ Becomes(g, v)
                 /\ \/ v = [worker[g] EXCEPT !.pc = "rotate", !.offset = entry']
                    \/ v = [worker[g] EXCEPT !.pc = "idle", !.offset = entry', !.file = 0,
                                             !.big = FALSE, !.pos = 0]
    BY <1>9 DEF Finish, Returns
  <2>3. /\ worker[g].file \in Files /\ worker[g].pos \in Nat
        /\ Read(content, rows, outgrown, worker[g].pos, worker[g].file)
    BY <1>1, <2>1 DEF AllCover, Shape, IsWorker, Files
  <2>4. entry' \in OffsetRecords /\ Covered(content', rows', outgrown', entry')
    BY <2>1, <2>3 DEF Offset, OffsetRecords, Covered, Files
  <2>5. /\ IsWorker(v) /\ v.pc \in {"rotate", "idle"} /\ v.closed = worker[g].closed
        /\ v.offset = entry'
    <3>1. IsWorker(worker[g])
      BY <1>1 DEF Shape
    <3>2. CASE v = [worker[g] EXCEPT !.pc = "rotate", !.offset = entry']
      BY <2>4, <3>1, <3>2 DEF IsWorker, Pcs
    <3>3. CASE v = [worker[g] EXCEPT !.pc = "idle", !.offset = entry', !.file = 0,
                                     !.big = FALSE, !.pos = 0]
      BY <2>4, <3>1, <3>3 DEF IsWorker, Pcs
    <3> QED
      BY <2>2, <3>2, <3>3
  <2>6. used \in Files /\ writer \in Files /\ path \in 0..MaxFiles /\ PathMoves
    BY <1>1, <2>1 DEF Shape, PathMoves
  <2> QED
    BY <2>1, <2>2, <2>4, <2>5, <2>6, WorkerKeeps
<1>10. ASSUME NEW g \in Workers,
              \/ Truncate(g) \/ RenameAway(g) \/ CreateNew(g)
              \/ CreateFails(g) \/ RotateFails(g)
       PROVE  LogFilesInv'
  <2>1. /\ worker[g].pc \in {"rotate", "create"}
        /\ UNCHANGED <<content, logged, up, current, entry, saved, rows, outgrown>>
        /\ used' \in Files /\ writer' \in Files /\ path' \in 0..MaxFiles
    BY <1>1, <1>10 DEF Truncate, RenameAway, CreateNew, CreateFails, RotateFails, Step,
       Created, Emptied, NewFile, logVars, procVars, offsetVars, historyVars, Shape, Files
  <2>2. PathMoves
    BY <1>1, <1>10 DEF Truncate, RenameAway, CreateNew, CreateFails, RotateFails, Created,
       Emptied, NewFile, logVars, PathMoves, Shape, Files
  <2>3. PICK v : /\ Becomes(g, v)
                 /\ \/ v = [worker[g] EXCEPT !.pc = "reset"]
                    \/ v = [worker[g] EXCEPT !.pc = "create"]
                    \/ v = [worker[g] EXCEPT !.pc = "idle", !.offset = worker[g].offset,
                                             !.file = 0, !.big = FALSE, !.pos = 0]
    BY <1>10 DEF Truncate, RenameAway, CreateNew, CreateFails, RotateFails, Returns
  <2>4. /\ IsWorker(v) /\ v.pc \in {"reset", "create", "idle"} /\ v.closed = worker[g].closed
        /\ v.offset = worker[g].offset
    <3>1. IsWorker(worker[g])
      BY <1>1 DEF Shape
    <3>2. CASE v = [worker[g] EXCEPT !.pc = "reset"]
      BY <3>1, <3>2 DEF IsWorker, Pcs
    <3>3. CASE v = [worker[g] EXCEPT !.pc = "create"]
      BY <3>1, <3>3 DEF IsWorker, Pcs
    <3>4. CASE v = [worker[g] EXCEPT !.pc = "idle", !.offset = worker[g].offset,
                                     !.file = 0, !.big = FALSE, !.pos = 0]
      BY <3>1, <3>4 DEF IsWorker, Pcs
    <3> QED
      BY <2>3, <3>2, <3>3, <3>4
  <2>5. entry \in OffsetRecords
    BY <1>1 DEF Shape
  <2> QED
    BY <2>1, <2>2, <2>3, <2>4, <2>5, WorkerKeeps
<1>11. ASSUME NEW g \in Workers, Reset(g) PROVE LogFilesInv'
  <2>1. /\ worker[g].pc = "reset" /\ entry' = Offset(0, path)
        /\ UNCHANGED <<content, path, writer, used, logged, up, events, current, saved, rows,
                       outgrown>>
    BY <1>11 DEF Reset, Step, logVars, procVars, historyVars
  <2>2. PICK v : v = [worker[g] EXCEPT !.pc = "idle", !.offset = entry', !.file = 0,
                                       !.big = FALSE, !.pos = 0]
    OBVIOUS
  <2>3. Becomes(g, v)
    BY <1>11, <2>2 DEF Reset, Returns
  <2>4. /\ used \in Files /\ writer \in Files /\ path \in 0..MaxFiles /\ PathMoves
        /\ entry' \in OffsetRecords
    BY <1>1, <2>1 DEF Shape, PathMoves, Offset, OffsetRecords
  <2>5. /\ IsWorker(v) /\ v.pc = "idle" /\ v.closed = worker[g].closed /\ v.offset = entry'
    BY <1>1, <2>2, <2>4 DEF Shape, IsWorker, Pcs
  <2>6. Covered(content', rows', outgrown', entry')
    BY <1>1, <2>1, <2>4, StartCovered
  <2> QED
    BY <2>1, <2>3, <2>4, <2>5, <2>6, WorkerKeeps
<1>12. CASE Save
  <2>1. /\ saved' = entry
        /\ UNCHANGED <<content, path, writer, used, logged, up, events, current, worker, entry,
                       rows, outgrown>>
    BY <1>12 DEF Save, logVars, procVars, historyVars
  <2>2. Shape' /\ OneCurrent' /\ OneWorkerOpen'
    BY <1>1, <2>1 DEF Shape, OneCurrent, OneWorkerOpen
  <2>3. AllCover'
    BY <1>1, <2>1, CoverStep
  <2> QED
    BY <2>2, <2>3 DEF LogFilesInv
<1>13. CASE Crash
  <2>1. /\ up' = FALSE /\ events' = <<>> /\ current' = {}
        /\ worker' = [g \in Workers |-> NoWorker]
        /\ UNCHANGED <<content, path, writer, used, logged, entry, saved, rows, outgrown>>
    BY <1>13 DEF Crash, logVars, offsetVars, historyVars
  <2>2. /\ IsWorker(NoWorker) /\ NoWorker.pc = "none"
        /\ Covered(content, rows, outgrown, NoWorker.offset)
    BY <1>1, NewWorkers DEF NoWorker, Covered, Offset
  <2>3. Shape' /\ OneWorkerOpen'
    BY <1>1, <2>1, <2>2 DEF Shape, OneWorkerOpen
  <2>4. OneCurrent'
    BY <2>1, <2>2 DEF OneCurrent, Alternates, RemovalFirst, Holds
  <2>5. AllCover'
    BY <1>1, <2>1, <2>2, CoverStep
  <2> QED
    BY <2>3, <2>4, <2>5 DEF LogFilesInv
<1>14. CASE StartProcess
  <2>1. /\ ~up /\ up' = TRUE
        /\ entry' = saved
        /\ saved' = saved \/ saved' = Offset(0, 0)
        /\ UNCHANGED <<content, path, writer, used, logged, events, rows, outgrown>>
    BY <1>14 DEF StartProcess, logVars, historyVars
  <2>2. events = <<>> /\ current = {} /\ \A g \in Workers : worker[g].pc = "none"
    BY <1>1, <2>1 DEF OneCurrent
  <2>3. /\ Alternates(events) /\ RemovalFirst(events) /\ ~Holds(events, "create")
    BY <2>2 DEF Alternates, RemovalFirst, Holds
  <2>4. /\ saved' \in OffsetRecords
        /\ saved' = saved \/ Covered(content', rows', outgrown', saved')
    BY <1>1, <2>1 DEF Shape, Offset, OffsetRecords, Covered
  <2>5. CASE path = 0 /\ UNCHANGED <<worker, current>>
    <3>1. Shape' /\ OneCurrent' /\ OneWorkerOpen'
      BY <1>1, <2>1, <2>2, <2>3, <2>4, <2>5 DEF Shape, OneCurrent, OneWorkerOpen
    <3>2. AllCover'
      BY <1>1, <2>1, <2>4, <2>5, CoverStep
    <3> QED
      BY <3>1, <3>2 DEF LogFilesInv
  <2>6. CASE /\ path # 0 /\ current' = {Free}
             /\ worker' = [worker EXCEPT ![Free] = [NewWorker EXCEPT !.offset = saved]]
    <3> DEFINE v == [NewWorker EXCEPT !.offset = saved]
    <3>1. IsWorker(v) /\ v.pc = "idle" /\ v.offset = saved
      BY <1>1, NewWorkers DEF NewWorker, NoWorker
    <3> HIDE DEF v
    <3>2. \A h \in Workers : worker'[h] = IF h = Free THEN v ELSE worker[h]
      BY <1>1, <2>6 DEF Shape, v
    <3>3. Shape'
      BY <1>1, <2>1, <2>4, <2>6, <3>1, <3>2 DEF Shape
    <3>4. OneCurrent' /\ OneWorkerOpen'
      BY <2>1, <2>2, <2>3, <2>6, <3>2 DEF OneCurrent, OneWorkerOpen
    <3>5. AllCover'
      BY <1>1, <2>1, <2>4, <3>1, <3>2, CoverStep
    <3> QED
      BY <3>3, <3>4, <3>5 DEF LogFilesInv
  <2> QED
    BY <1>14, <2>5, <2>6 DEF StartProcess
<1>15. CASE UNCHANGED lfVars
  BY <1>1, <1>15 DEF lfVars, logVars, procVars, offsetVars, historyVars, LogFilesInv, Shape,
     OneCurrent, OneWorkerOpen, AllCover, Covers
<1> QED
  BY <1>2, <1>3, <1>4, <1>5, <1>6, <1>7, <1>8, <1>9, <1>10, <1>11, <1>12, <1>13, <1>14, <1>15
     DEF LogFilesNext, WatcherStep, WorkerStep

\* The inductive invariant holds in every state of the path's history.
THEOREM LogFilesInvariant == LogFilesSpec => []LogFilesInv
<1> QED
  BY InitEstablishes, StepPreserves, PTL DEF LogFilesSpec

-----------------------------------------------------------------------------
(***************************************************************************)
(* What is promised.                                                       *)
(***************************************************************************)

\* For every number of files and workers, at most one worker of the path has not
\* been told to stop, however rotations, removals and creations follow each
\* other, and HandleRemove finds it in the map.
THEOREM OneOpen == LogFilesSpec => []OneWorkerOpen
<1>1. LogFilesInv => OneWorkerOpen
  BY DEF LogFilesInv
<1> QED
  BY <1>1, LogFilesInvariant, PTL

\* The offsets a worker may resume from, in this process or after a crash, never
\* pass over a line that has not become a row, in a file no worker has begun to
\* read at an offset of another file.
THEOREM OffsetsCover == LogFilesSpec => []OffsetsCoverRows
<1>1. ASSUME LogFilesInv,
             NEW o \in {entry, saved} \cup {worker[g].offset : g \in Workers},
             o.of \notin outgrown \cup {0}, NEW i \in 1..o.at
      PROVE  content[o.of][i] \in rows
  BY <1>1 DEF LogFilesInv, AllCover, Covers, Covered, Read
<1>2. LogFilesInv => OffsetsCoverRows
  BY <1>1 DEF OffsetsCoverRows
<1> QED
  BY <1>2, LogFilesInvariant, PTL
=============================================================================
