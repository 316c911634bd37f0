------------------------------ MODULE LogFiles ------------------------------
(***************************************************************************)
(* One path and the files that follow each other there: the worker renames *)
(* its log away and creates a new one (renameFile.Rotate), or truncates    *)
(* it, another program removes it, the logger goes on writing to the file  *)
(* it has open until it reopens the path.  The watcher stops the worker of *)
(* a file that goes and starts one for a file that comes, while the old    *)
(* worker may still be in tail, and both set the path's entry of the       *)
(* offsets.  The process may be killed and start again.                    *)
(*                                                                         *)
(* Lines are numbered as they are logged and have the same length; offsets *)
(* count lines (Tail has the bytes).  Truncating a file is modelled as     *)
(* putting a new one in its place that the logger has open: nobody but the *)
(* worker that truncates has read from it.                                 *)
(***************************************************************************)
EXTENDS Integers, SequencesExt

CONSTANTS
  Lines,        \* bound on the lines logged
  MaxFiles,     \* bound on the files that follow each other at the path
  RotateSize,   \* size at which a worker rotates its log
  Workers,      \* names for the workers: bounds those alive at once
  MaxEvents,    \* bound on the events not yet handled
  MaxCrashes    \* bound on the crashes

ASSUME LogFilesAssumption == /\ Lines \in Nat
                             /\ MaxFiles \in Nat \ {0}
                             /\ RotateSize \in Nat \ {0}
                             /\ MaxEvents \in Nat
                             /\ MaxCrashes \in Nat

VARIABLES
  content,   \* the lines of each file
  path,      \* the file at the path, 0 if there is none
  writer,    \* the file the logger has open
  used,      \* files there have been
  logged,    \* lines logged so far
  method,    \* of rotation: "truncate", "rename"
  events,    \* "write", "create" and "remove" events not yet handled
  current,   \* the worker in the watcher's map, as a set of at most one
  worker,    \* the workers: debouncer, offset, place in tail and its locals
  entry,     \* the path's entry of FileConfig.offsets
  saved,     \* the entry in the offsets file
  up,        \* the process runs
  crashes,   \* crashes so far
  rows,      \* history: the lines that have become rows
  outgrown   \* history: the files that a worker has begun to read at an offset
             \* counted in another file, which they had outgrown

logVars == <<content, path, writer, used, logged>>
procVars == <<up, crashes, method>>
offsetVars == <<entry, saved>>
historyVars == <<rows, outgrown>>
lfVars == <<logVars, procVars, events, current, worker, offsetVars, historyVars>>

Files == 1..MaxFiles

\* An offset, and (history) the file it was counted in.
Offset(n, f) == [at |-> n, of |-> f]

NoWorker == [pc |-> "none", owed |-> FALSE, closed |-> FALSE,
             offset |-> Offset(0, 0), file |-> 0, big |-> FALSE, pos |-> 0]

\* newFileWorker and Start: the offset is the entry, or 0 without one (and
\* without Limit); the debouncer owes a first run.
NewWorker == [NoWorker EXCEPT !.pc = "idle", !.owed = TRUE, !.offset = entry]

LogFilesInit == /\ content = [f \in Files |-> <<>>]
                /\ path = 1 /\ writer = 1 /\ used = 1
                /\ logged = 0
                /\ method \in {"truncate", "rename"}
                /\ events = <<>>
                /\ current = {}
                /\ worker = [g \in Workers |-> NoWorker]
                /\ entry = Offset(0, 0) /\ saved = Offset(0, 0)
                /\ up = FALSE /\ crashes = 0
                /\ rows = {}
                /\ outgrown = {}

-----------------------------------------------------------------------------
(* The path, the logger and inotify.                                       *)

Size(f) == Len(content[f])

\* The events that follow after op: one like the last is merged with it.
Notified(op) == IF ~up \/ (events # <<>> /\ Last(events) = op) THEN events
                ELSE Append(events, op)

Room == Len(events) < MaxEvents

NewFile == used + 1

\* A file is created at the path.
Created == /\ path = 0
           /\ used < MaxFiles
           /\ path' = NewFile /\ used' = NewFile
           /\ events' = Notified("create")

\* The file at the path loses its content.
Emptied == /\ path # 0
           /\ used < MaxFiles
           /\ path' = NewFile /\ used' = NewFile
           /\ writer' = IF writer = path THEN NewFile ELSE writer
           /\ events' = Notified("write")

LogLine == /\ Room
           /\ logged < Lines
           /\ logged' = logged + 1
           /\ content' = [content EXCEPT ![writer] = Append(@, logged')]
           /\ events' = IF writer = path THEN Notified("write") ELSE events
           /\ UNCHANGED <<path, writer, used, procVars, current, worker,
                          offsetVars, historyVars>>

\* The Run script, or the program that removed the log, has the logger open
\* the path again.
Reopen == /\ Room
          /\ writer # path
          /\ \/ /\ path # 0
                /\ writer' = path
                /\ UNCHANGED <<path, used, events>>
             \/ /\ Created
                /\ writer' = NewFile
          /\ UNCHANGED <<content, logged, procVars, current, worker, offsetVars,
                         historyVars>>

RemoveLog == /\ Room
             /\ path # 0
             /\ used < MaxFiles
             /\ path' = 0
             /\ events' = Notified("remove")
             /\ UNCHANGED <<content, writer, used, logged, procVars, current, worker,
                            offsetVars, historyVars>>

-----------------------------------------------------------------------------
(* The watcher: events in the order they came.                             *)

Take(op) == /\ up
            /\ events # <<>>
            /\ Head(events) = op
            /\ events' = Tail(events)
            /\ UNCHANGED <<logVars, procVars, offsetVars, historyVars>>

\* Mutant: a write is noticed only by a worker that waits for one.
HandleWrite_WhenIdle ==
  /\ Take("write")
  /\ worker' = [g \in Workers |->
       [worker[g] EXCEPT !.owed = @ \/ (g \in current /\ worker[g].pc = "idle")]]
  /\ UNCHANGED current

\* The debouncer of the worker owes a run; two owed before the first begins are
\* left out, they are as one owed by a slower watcher.
HandleWrite == /\ Take("write")
               /\ worker' = [g \in Workers |->
                    [worker[g] EXCEPT !.owed = @ \/ g \in current]]
               /\ UNCHANGED current

\* The name of the next worker; there is none when all are taken.
Free == CHOOSE g \in Workers : worker[g].pc = "none"

StartWorker == /\ \E g \in Workers : worker[g].pc = "none"
               /\ worker' = [worker EXCEPT ![Free] = NewWorker]
               /\ current' = {Free}

HandleCreate == /\ Take("create")
                /\ \/ path = 0 /\ UNCHANGED <<worker, current>>
                   \/ path # 0 /\ StartWorker

\* Mutant: the worker is only taken out of the map.
HandleRemove_Leaks == /\ Take("remove")
                      /\ current' = {}
                      /\ UNCHANGED worker

HandleRemove == /\ Take("remove")
                /\ worker' = [g \in Workers |->
                     [worker[g] EXCEPT !.closed = @ \/ g \in current]]
                /\ current' = {}

-----------------------------------------------------------------------------
(* A worker: its debouncer, and tail with both ways of rotating.           *)

CheckSize(f) == Size(f) >= RotateSize

Step(g, pc) == up /\ worker[g].pc = pc

Becomes(g, w) == worker' = [worker EXCEPT ![g] = w]

\* tail returns with offset o.
Returns(g, o) == Becomes(g, [worker[g] EXCEPT !.pc = "idle", !.offset = o,
                                              !.file = 0, !.big = FALSE, !.pos = 0])

WorkerExits(g) == /\ Step(g, "idle")
                  /\ worker[g].closed
                  /\ Becomes(g, NoWorker)
                  /\ UNCHANGED <<logVars, procVars, events, current, offsetVars,
                                 historyVars>>

\* Open, Stat and Seek.
BeginTail(g) ==
  LET w == [worker[g] EXCEPT !.owed = FALSE]
      stale == w.offset.at > 0 /\ w.offset.of # path
  IN /\ Step(g, "idle")
     /\ worker[g].owed
     /\ \/ /\ path = 0
           /\ Becomes(g, w)
           /\ UNCHANGED <<entry, outgrown>>
        \/ /\ path # 0
           /\ Size(path) = 0
           /\ entry' = Offset(0, path)
           /\ Becomes(g, [w EXCEPT !.offset = entry'])
           /\ UNCHANGED outgrown
        \/ /\ path # 0
           /\ Size(path) > 0
           /\ Becomes(g, [w EXCEPT
                !.pc = "read", !.file = path, !.big = CheckSize(path),
                !.pos = IF w.offset.at > Size(path) THEN 0 ELSE w.offset.at])
           /\ outgrown' = outgrown \cup
                {f \in {path} : stale /\ w.offset.at <= Size(f)}
           /\ UNCHANGED entry
     /\ UNCHANGED <<logVars, procVars, events, current, saved, rows>>

TakeLine(g) ==
  LET w == worker[g]
  IN /\ Step(g, "read")
     /\ w.pos < Size(w.file)
     /\ Becomes(g, [w EXCEPT !.pos = @ + 1])
     /\ rows' = rows \cup {content[w.file][w.pos + 1]}
     /\ UNCHANGED <<logVars, procVars, events, current, offsetVars, outgrown>>

\* Mutant: the kept offset is the size of the file.
Finish_KeepsSize(g) ==
  LET w == worker[g]
  IN /\ Step(g, "read")
     /\ w.pos = Size(w.file) \/ w.file # path
     /\ entry' = Offset(Size(w.file), w.file)
     /\ \/ /\ w.big
           /\ Becomes(g, [w EXCEPT !.pc = "rotate", !.offset = entry'])
        \/ /\ ~w.big
           /\ Returns(g, entry')
     /\ UNCHANGED <<logVars, procVars, events, current, saved, historyVars>>

\* The end of the file.  A file that is not at the path any more may have been
\* emptied under the worker.
Finish(g) ==
  LET w == worker[g]
  IN /\ Step(g, "read")
     /\ w.pos = Size(w.file) \/ w.file # path
     /\ entry' = Offset(w.pos, w.file)
     /\ \/ /\ w.big
           /\ Becomes(g, [w EXCEPT !.pc = "rotate", !.offset = entry'])
        \/ /\ ~w.big
           /\ Returns(g, entry')
     /\ UNCHANGED <<logVars, procVars, events, current, saved, historyVars>>

\* truncateFile.Rotate, by name; it fails if nothing has the name.
Truncate(g) ==
  /\ Step(g, "rotate")
  /\ method = "truncate"
  /\ \/ /\ path = 0
        /\ Returns(g, worker[g].offset)
        /\ UNCHANGED <<path, writer, used, events>>
     \/ /\ Emptied
        /\ Becomes(g, [worker[g] EXCEPT !.pc = "reset"])
  /\ UNCHANGED <<content, logged, procVars, current, offsetVars, historyVars>>

\* renameFile.Rotate: Stat and Rename; nothing to do if nothing has the name.
RenameAway(g) ==
  /\ Step(g, "rotate")
  /\ method = "rename"
  /\ \/ /\ path = 0
        /\ Becomes(g, [worker[g] EXCEPT !.pc = "reset"])
        /\ UNCHANGED <<path, events>>
     \/ /\ path # 0
        /\ used < MaxFiles
        /\ path' = 0
        /\ events' = Notified("remove")
        /\ Becomes(g, [worker[g] EXCEPT !.pc = "create"])
  /\ UNCHANGED <<content, writer, used, logged, procVars, current, offsetVars,
                 historyVars>>

\* OpenFile with O_CREATE and O_TRUNC: what the logger has created meanwhile is
\* emptied.
CreateNew(g) ==
  /\ Step(g, "create")
  /\ (Created /\ UNCHANGED writer) \/ Emptied
  /\ Becomes(g, [worker[g] EXCEPT !.pc = "reset"])
  /\ UNCHANGED <<content, logged, procVars, current, offsetVars, historyVars>>

\* OpenFile fails, or Chown after it: the error keeps the offset as it is, with
\* nothing at the path or with the new file.
CreateFails(g) ==
  /\ Step(g, "create")
  /\ \/ UNCHANGED <<path, used, writer, events>>
     \/ Created /\ UNCHANGED writer
     \/ Emptied
  /\ Returns(g, worker[g].offset)
  /\ UNCHANGED <<content, logged, procVars, current, offsetVars, historyVars>>

\* A system call of Rotate fails before anything has changed: the error keeps the
\* offset as it is, with the file at the path.
RotateFails(g) ==
  /\ Step(g, "rotate")
  /\ Returns(g, worker[g].offset)
  /\ UNCHANGED <<logVars, procVars, events, current, offsetVars, historyVars>>

Reset(g) ==
  /\ Step(g, "reset")
  /\ entry' = Offset(0, path)
  /\ Returns(g, entry')
  /\ UNCHANGED <<logVars, procVars, events, current, saved, historyVars>>

-----------------------------------------------------------------------------
(* The process.                                                            *)

\* FileConfig.save, by its debouncer or by Close.  After the last crash the file
\* is not read again: it is left out then.
Save == /\ up
        /\ crashes < MaxCrashes
        /\ saved' = entry
        /\ UNCHANGED <<logVars, procVars, events, current, worker, entry, historyVars>>

Crash == /\ up
         /\ crashes < MaxCrashes
         /\ crashes' = crashes + 1
         /\ up' = FALSE
         /\ events' = <<>>
         /\ current' = {}
         /\ worker' = [g \in Workers |-> NoWorker]
         /\ UNCHANGED <<logVars, method, offsetVars, historyVars>>

\* FileConfig.Open, and the start of the watcher (Watcher has its steps).
StartProcess == /\ ~up
                /\ up' = TRUE
                /\ entry' = saved
                /\ \/ path = 0 /\ UNCHANGED <<worker, current>>
                   \/ /\ path # 0
                      /\ worker' = [worker EXCEPT
                           ![Free] = [NewWorker EXCEPT !.offset = saved]]
                      /\ current' = {Free}
                /\ saved' = IF crashes < MaxCrashes THEN saved ELSE Offset(0, 0)
                /\ UNCHANGED <<logVars, crashes, method, events, historyVars>>

-----------------------------------------------------------------------------
WatcherStep == HandleWrite \/ HandleCreate \/ HandleRemove

WorkerStep(g) == \/ BeginTail(g) \/ TakeLine(g) \/ Finish(g)
                 \/ Truncate(g) \/ RenameAway(g) \/ CreateNew(g) \/ Reset(g)

LogFilesNext == \/ LogLine \/ Reopen \/ RemoveLog
                \/ WatcherStep
                \/ \E g \in Workers : WorkerStep(g) \/ RotateFails(g) \/ CreateFails(g)
                                        \/ WorkerExits(g)
                \/ Save \/ Crash \/ StartProcess

LogFilesSpec == LogFilesInit /\ [][LogFilesNext]_lfVars

\* The watcher and the workers are scheduled, a stopped worker ends.
LogFilesFairSpec == /\ LogFilesSpec
                    /\ WF_lfVars(WatcherStep)
                    /\ \A g \in Workers : /\ WF_lfVars(WorkerStep(g))
                                          /\ SF_lfVars(WorkerExits(g))

-----------------------------------------------------------------------------
(* Correctness.                                                            *)

\* Line n is in the file at the path.
Present(n) == path # 0 /\ n \in ToSet(content[path])

\* A line that is in the file at the path becomes a row while the process is
\* up and the file stays there, whoever put the file there and however the
\* old worker, the new one and the events overlap; unless a worker has begun to
\* read that file at an offset of another one.  It is followed until the bound
\* on the files is reached.
NewFileRead ==
  \A n \in 1..Lines :
    up /\ Present(n) ~> \/ n \in rows \/ ~Present(n) \/ path \in outgrown
                        \/ ~up \/ used = MaxFiles

\* No offset that reading may resume from, in this process or after a crash,
\* passes over a line of the file it was counted in that has not become a row
\* (unless reading that file began at an offset of another one).
OffsetsCoverRows ==
  \A o \in {entry, saved} \cup {worker[g].offset : g \in Workers} :
    o.of \notin outgrown \cup {0} =>
      \A i \in 1..o.at : i <= Size(o.of) => content[o.of][i] \in rows

\* However removals, creations and rotations follow each other, at most one
\* worker has not been told to stop, and it is the one in the map.
OneWorkerOpen ==
  \A g \in Workers : worker[g].pc # "none" /\ ~worker[g].closed => current = {g}
=============================================================================
