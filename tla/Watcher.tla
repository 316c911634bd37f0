------------------------------ MODULE Watcher ------------------------------
(***************************************************************************)
(* FileWatcher (internal/input/file/watcher.go): the goroutine that lists  *)
(* a directory, watches it with inotify and keeps a worker for each log,   *)
(* beside the programs that create, write and remove logs and the Stop of  *)
(* the agent.  A worker that starts reads its log at once, and again when  *)
(* it is handed an event (Tail); here it is there or not.                  *)
(*                                                                         *)
(* All names match the pattern and are regular files.  The events are the  *)
(* kernel's queue and the channel of fsnotify taken together, in order.    *)
(***************************************************************************)
EXTENDS Integers, SequencesExt

CONSTANTS
  Names,       \* the logs of the directory
  MaxEvents,   \* capacity of the event queue
  MaxChanges,  \* bound on the creations, removals and replacements
  Faults       \* whether the watcher may fail to start, or a watch be refused

ASSUME WatcherAssumption == /\ MaxEvents \in Nat \ {0}
                            /\ MaxChanges \in Nat
                            /\ Faults \in BOOLEAN

VARIABLES
  files,     \* the logs there are
  dirty,     \* logs with text that no worker has been told to read
  changes,   \* creations, removals and replacements so far
  events,    \* events not yet handled: [op, name]
  watched,   \* the directory is watched
  ownWatch,  \* the logs that are watched themselves
  phase,     \* the goroutine: "start", "listed", "list", "loop", "exited"
  todo,      \* entries of the listing that have no worker yet
  starting,  \* the log startWorker is at work on, as a set
  workers,   \* the map: "none", "new" before worker.Start, "running", "stopped"
  strays,    \* logs with a running worker that is not in the map
  stop,      \* the stop channel is closed
  toStop,    \* workers that Stop has yet to reach
  fatal,     \* the runtime has ended the program: map written while iterated
  disturbed, \* history: logs that came, went or were written while nothing
             \* watched them, or whose file was replaced
  late       \* history: logs whose worker was started after Stop was called

dirVars == <<files, dirty, changes, disturbed>>
watchVars == <<watched, ownWatch, phase>>
mapVars == <<todo, starting, workers, strays>>
stopVars == <<stop, toStop, fatal, late>>
watcherVars == <<dirVars, events, watchVars, mapVars, stopVars>>

WatcherInit == /\ files \in SUBSET Names
               /\ dirty = files
               /\ changes = 0
               /\ events = <<>>
               /\ watched = FALSE /\ ownWatch = {}
               /\ phase = "start"
               /\ todo = {} /\ starting = {}
               /\ workers = [f \in Names |-> "none"]
               /\ strays = {}
               /\ stop = FALSE /\ toStop = {} /\ fatal = FALSE
               /\ disturbed = {} /\ late = {}

-----------------------------------------------------------------------------
(* The directory and inotify.                                              *)

Overflow == [op |-> "overflow"]

Overflowed == Overflow \in ToSet(events)

\* An event like the last one is merged with it; one that finds the queue full
\* is lost, and a mark is left in its place.
Notify(op, f) ==
  LET e == [op |-> op, name |-> f]
      heard == watched \/ f \in ownWatch
      merged == events # <<>> /\ Last(events) = e
  IN events' = IF ~heard \/ Overflowed \/ merged THEN events
               ELSE Append(events, IF Len(events) < MaxEvents THEN e ELSE Overflow)

\* What becomes of the logs after the goroutine has ended is not followed.
Followed == ~fatal /\ phase # "exited"

Change(f) == /\ Followed
             /\ changes < MaxChanges
             /\ changes' = changes + 1
             /\ disturbed' = IF ~watched /\ phase # "start"
                             THEN disturbed \cup {f} ELSE disturbed
             /\ ownWatch' = ownWatch \ {f}
             /\ UNCHANGED <<watched, phase, mapVars, stopVars>>

Create(f) == /\ f \notin files
             /\ Change(f)
             /\ files' = files \cup {f}
             /\ dirty' = dirty \cup {f}
             /\ Notify("create", f)

\* The log is removed, or renamed to a name that does not match.
Delete(f) == /\ f \in files
             /\ Change(f)
             /\ files' = files \ {f}
             /\ dirty' = dirty \ {f}
             /\ Notify("remove", f)

\* Another file is renamed over the log: the directory has a new entry, and
\* no entry of it was removed.
Replace(f) == /\ f \in files
              /\ Followed
              /\ changes < MaxChanges
              /\ changes' = changes + 1
              /\ disturbed' = disturbed \cup {f}
              /\ ownWatch' = ownWatch \ {f}
              /\ dirty' = dirty \cup {f}
              /\ Notify(IF watched THEN "create" ELSE "remove", f)
              /\ UNCHANGED <<files, watched, phase, mapVars, stopVars>>

\* The worker of f was told to read, and no watch tells it of more.
Unwatched(f) == /\ phase \in {"list", "loop"}
                /\ ~watched /\ f \notin ownWatch
                /\ f \notin todo /\ workers[f] # "new"

LogWrite(f) == /\ f \in files
               /\ Followed
               /\ dirty' = dirty \cup {f}
               /\ disturbed' = IF Unwatched(f) THEN disturbed \cup {f} ELSE disturbed
               /\ Notify("write", f)
               /\ UNCHANGED <<files, changes, watchVars, mapVars, stopVars>>

-----------------------------------------------------------------------------
(* startWorker, stopWorker.  The goroutine is in one of them, or free.      *)

Free == ~fatal /\ starting = {}

\* newFileWorker and the entry of the map, over one that may be there.  Stop may
\* or may not reach an entry that is added while it iterates.
startWorker(f) ==
  /\ starting' = {f}
  /\ workers' = [workers EXCEPT ![f] = "new"]
  /\ strays' = IF workers[f] = "running" THEN strays \cup {f} ELSE strays
  /\ toStop' \in IF toStop = {} THEN {{}} ELSE {toStop, toStop \cup {f}}
  /\ UNCHANGED <<dirty, ownWatch>>

\* worker.Start: the worker is about to read.
StartTail(f) ==
  /\ ~fatal
  /\ f \in starting
  /\ workers[f] = "new"
  /\ workers' = [workers EXCEPT ![f] = "running"]
  /\ dirty' = dirty \ {f}
  /\ late' = IF stop THEN late \cup {f} ELSE late
  /\ UNCHANGED <<files, changes, disturbed, events, watchVars, todo, starting,
                 strays, stop, toStop, fatal>>

\* watcher.Add(path), whose error is not looked at
WatchLog(f) ==
  /\ ~fatal
  /\ f \in starting
  /\ workers[f] # "new"
  /\ starting' = {}
  /\ \/ f \in files /\ ownWatch' = ownWatch \cup {f}
     \/ (Faults \/ f \notin files) /\ UNCHANGED ownWatch
  /\ UNCHANGED <<dirVars, events, watched, phase, todo, workers, strays, stopVars>>

\* Mutant: the worker is taken out of the map and not stopped.
stopWorker_Leaks(f) ==
  /\ workers' = [workers EXCEPT ![f] = "none"]
  /\ strays' = IF workers[f] = "running" THEN strays \cup {f} ELSE strays
  /\ ownWatch' = ownWatch \ {f}
  /\ UNCHANGED <<starting, dirty, toStop>>

stopWorker(f) ==
  /\ workers' = [workers EXCEPT ![f] = "none"]
  /\ ownWatch' = IF workers[f] = "none" THEN ownWatch ELSE ownWatch \ {f}
  /\ UNCHANGED <<strays, starting, dirty, toStop>>

-----------------------------------------------------------------------------
(* watch.                                                                  *)

StartFails == /\ Faults
              /\ ~fatal
              /\ phase = "start"
              /\ phase' = "exited"
              /\ UNCHANGED <<dirVars, events, watched, ownWatch, mapVars, stopVars>>

\* NewWatcher, ReadDir
ListDir == /\ ~fatal
           /\ phase = "start"
           /\ phase' = "listed"
           /\ todo' = files
           /\ UNCHANGED <<dirVars, events, watched, ownWatch, starting, workers,
                          strays, stopVars>>

\* watcher.Add(dir), whose error is not looked at
WatchDir == /\ ~fatal
            /\ phase = "listed"
            /\ phase' = "list"
            /\ watched' = TRUE
            /\ UNCHANGED <<dirVars, events, ownWatch, mapVars, stopVars>>

WatchDirFails == /\ Faults
                 /\ ~fatal
                 /\ phase = "listed"
                 /\ phase' = "list"
                 /\ UNCHANGED <<dirVars, events, watched, ownWatch, mapVars, stopVars>>

StartListed(f) == /\ Free
                  /\ phase = "list"
                  /\ f \in todo
                  /\ todo' = todo \ {f}
                  /\ startWorker(f)
                  /\ UNCHANGED <<files, changes, disturbed, events, watched, phase,
                                 stop, fatal, late>>

\* Mutant: the rest of the listing is left.
AllListed_Early == /\ Free
                   /\ phase = "list"
                   /\ phase' = "loop"
                   /\ UNCHANGED <<dirVars, events, watched, ownWatch, mapVars,
                                  stopVars>>

AllListed == /\ Free
             /\ phase = "list"
             /\ todo = {}
             /\ phase' = "loop"
             /\ UNCHANGED <<dirVars, events, watched, ownWatch, mapVars, stopVars>>

\* The error channel of fsnotify is never read: behind an error, no event
\* comes through.
Take(op, f) == /\ Free
               /\ phase = "loop"
               /\ events # <<>>
               /\ Head(events) = [op |-> op, name |-> f]
               /\ events' = Tail(events)
               /\ UNCHANGED <<files, changes, disturbed, watched, phase, todo,
                              stop, fatal, late>>

HandleWrite(f) == /\ Take("write", f)
                  /\ dirty' = IF workers[f] = "running" THEN dirty \ {f} ELSE dirty
                  /\ UNCHANGED <<ownWatch, starting, workers, strays, toStop>>

\* Mutant: only the logs of the listing get a worker.
HandleCreate_Ignored(f) == /\ Take("create", f)
                           /\ UNCHANGED <<ownWatch, starting, dirty, workers,
                                          strays, toStop>>

HandleCreate(f) == /\ Take("create", f)
                   /\ IF f \in files
                      THEN startWorker(f)
                      ELSE UNCHANGED <<ownWatch, starting, dirty, workers,
                                        strays, toStop>>

\* Mutant: the worker of a log that is gone is kept.
HandleRemove_Ignored(f) == /\ Take("remove", f)
                           /\ UNCHANGED <<ownWatch, starting, dirty, workers,
                                          strays, toStop>>

HandleRemove(f) == /\ Take("remove", f)
                   /\ stopWorker(f)

\* Mutant: stop waits for the events.
TakeStop_Drains == /\ Free
                   /\ phase = "loop"
                   /\ stop
                   /\ events = <<>>
                   /\ phase' = "exited"
                   /\ watched' = FALSE
                   /\ ownWatch' = {}
                   /\ UNCHANGED <<dirVars, events, mapVars, stopVars>>

\* watcher.Close drops the watches and the events.
TakeStop == /\ Free
            /\ phase = "loop"
            /\ stop
            /\ phase' = "exited"
            /\ watched' = FALSE
            /\ ownWatch' = {}
            /\ events' = <<>>
            /\ UNCHANGED <<dirVars, mapVars, stopVars>>

-----------------------------------------------------------------------------
(* Stop, in the main goroutine.                                            *)

Running == {f \in Names : workers[f] = "running"}

Stop == /\ ~fatal
        /\ ~stop
        /\ stop' = TRUE
        /\ toStop' = {f \in Names : workers[f] # "none"}
        /\ UNCHANGED <<dirVars, events, watchVars, mapVars, fatal, late>>

\* Entries that were deleted meanwhile are not met.  A worker that has not been
\* started has no debouncer to stop, and will be started.
StopOne(f) == /\ ~fatal
              /\ f \in toStop
              /\ toStop' = toStop \ {f}
              /\ workers' = [workers EXCEPT ![f] = IF @ = "running" THEN "stopped"
                                                   ELSE @]
              /\ UNCHANGED <<dirVars, events, watchVars, todo, starting, strays,
                             stop, fatal, late>>

\* The runtime may notice that the map is written while Stop iterates over it.
WritesMap == \/ phase = "list" /\ todo # {}
             \/ /\ phase = "loop" /\ events # <<>> /\ Head(events) # Overflow
                /\ LET e == Head(events)
                   IN \/ e.op = "create" /\ e.name \in files
                      \/ e.op = "remove" /\ workers[e.name] # "none"

MapRace == /\ toStop # {}
           /\ Free
           /\ WritesMap
           /\ fatal' = TRUE
           /\ UNCHANGED <<dirVars, events, watchVars, mapVars, stop, toStop,
                          late>>

-----------------------------------------------------------------------------
Directory == \E f \in Names : Create(f) \/ Delete(f) \/ Replace(f) \/ LogWrite(f)

Handler == \E f \in Names : HandleWrite(f) \/ HandleCreate(f) \/ HandleRemove(f)

Watch == \/ StartFails \/ ListDir \/ WatchDir \/ WatchDirFails
         \/ \E f \in Names : StartListed(f) \/ StartTail(f) \/ WatchLog(f)
         \/ AllListed \/ Handler \/ TakeStop

WatcherNext == \/ Directory
               \/ Watch
               \/ Stop \/ MapRace
               \/ \E f \in Names : StopOne(f)

WatcherSpec == WatcherInit /\ [][WatcherNext]_watcherVars

\* The goroutine runs; select takes stop in the end, however many events come.
WatcherFairSpec == /\ WatcherSpec
                   /\ WF_watcherVars(Watch)
                   /\ SF_watcherVars(TakeStop)

-----------------------------------------------------------------------------
(* Correctness.                                                            *)

\* On its way to the worker that is, or will be, there for f.
Pending(f) == \/ f \in todo
              \/ workers[f] = "new"
              \/ \E e \in ToSet(events) : e # Overflow /\ e.name = f

\* Nothing is known to have gone wrong for log f.
Undisturbed(f) == /\ phase \in {"list", "loop"}
                  /\ ~stop /\ ~Overflowed
                  /\ f \notin disturbed

\* A log with text that nobody has been told to read has an event on its way
\* or is still to be started: no write falls between the listing, the steps of
\* startWorker and the events, in whatever order they come.  Excepted are logs
\* that were written while nothing watched them: if the directory could not be
\* watched, a write between the first run of a worker and the watch on its own
\* log goes unnoticed, and so do all writes after that watch has failed too.
NoUnnoticedWrite == \A f \in dirty : Undisturbed(f) => Pending(f)

\* Once the events are handled, the map has a worker for each log there is and
\* for no other: creations and removals are applied in the order they happened.
MapMatchesDirectory ==
  \A f \in Names :
    Undisturbed(f) /\ ~Pending(f) => (workers[f] = "running" <=> f \in files)

\* No log is read by two workers, and none by one that has left the map, unless
\* its file was replaced or came and went unwatched; and a worker that runs
\* after Stop was called will be reached by Stop, or was started after the call:
\* watch goes on with the listing, or with an event, after Stop has walked the
\* map, and nobody stops what it starts then.
NoStrayWorker ==
  /\ strays \subseteq disturbed
  /\ stop => Running \subseteq toStop \cup late

\* Text that is written is read in the end, or the log goes, or the watcher
\* stops, fails to start, loses events, never knew the log or does not watch it.
WriteNoticed ==
  \A f \in Names :
    f \in dirty ~> \/ f \notin dirty \/ f \in disturbed
                   \/ stop \/ phase = "exited" \/ Overflowed

\* The goroutine ends after Stop, even when events keep coming.
WatchExits == stop ~> (phase = "exited" \/ fatal)

=============================================================================
