# fugo in TLA+

[fugo](../src/README.md) follows log files, parses their lines, keeps them as
rows of an SQLite table per agent and serves them over HTTP.  This directory
models the parts of it whose correctness depends on order: goroutines that meet
at channels, timers and mutexes, files that other programs write, truncate and
replace, and a process that is stopped or killed and starts again.

Every module is translated from the Go code; `PROJECT.json` says for each
definition which lines it stands for, for each property which run checks it,
and for each hazard of the code which property would catch it.

    tlc -workers 2 -config MCTail.cfg MCTail           # a run
    tlapm SQLiteStorageProofs.tla                      # the proofs of a module

## 1. The system

One process.  `main` opens the storage and the file input, loads the agents
(one per YAML file), starts them, serves HTTP, and on a signal closes the
server, the agents, the storage and the file input, in this order, and returns.
At any other time a signal ends the process: before the agents are started, and
again while `stop` is at work.

| part | state | operations | talks to |
|---|---|---|---|
| **debounce** (`pkg/debounce`) | a channel of one element, a stop channel, a timer, the flag `timerActive` | `Emit`, `Stop`, the goroutine `watch` | calls its function: `fileWorker.tail`, `FileConfig.save` |
| **file watcher** (`input/file/watcher.go`) | the map of workers, the inotify instance, a stop channel | `Start`, `Stop`, the goroutine `watch`, `startWorker`, `stopWorker` | inotify events in, `Handle` on a worker out |
| **file worker** (`worker.go`, parsers) | `offset`, a debouncer, its rotator | `Start`, `Handle`, `Stop`, `tail` | reads the log; `Agent.Write`; `setOffset`; `Rotate` |
| **log rotation** (`rotation.go`) | the configuration | `CheckSize`, `Rotate` by truncation or renaming | called by `tail` |
| **file offsets** (`file.go`) | the map of offsets under a mutex, a debouncer, the offsets file | `Open`, `Close`, `getOffset`, `setOffset`, `save` | called by workers and by `main` |
| **agent** (`agent/agent.go`) | the configuration | `Init`, `Start`, `Stop`, `Write`, `Serialize` | owns inputs and retention; `Migrate`, `Write` of storage |
| **storage, write path** (`storage/sqlite.go`) | the channel `insertQueue`, a stop channel, the database | `Open`, `Close`, `Write`, `Cleanup`, the goroutine `watch` | all agents write to it, retention cleans up |
| **storage, migrations** | tables, columns, indexes | `Migrate`, `createTable`, `migrateTable` | called when an agent is loaded |
| **storage, queries** (`sqlite.go`, `query.go`) | none | `NewQuery`, `Set...`, `Query` | called by the server |
| **retention** (`retention.go`) | a ticker | `Init`, `Start`, `Stop` | `Cleanup` |
| **system watcher** (`input/system`) | the last counters, a ticker, a stop channel | `Start`, `Stop`, `watch`, collectors | `Agent.Write` |
| **HTTP server** (`server`) | the listener and the active requests | `Open`, `Close`, `handleQuery`, `handleSchema`, `handleAgents` | reads the agents map and `Query` |
| **fields, timestamps, durations** | none | conversions | called by the agent |
| **application** (`cmd/fugo/main.go`) | the agents map | `start`, `stop`, `loadAgents` | everything |

### What is hard in it

* **Debounce.**  An `Emit` must cause a run that begins after it.  It can fall
  between the timer and the reset of `timerActive`, during the run, or behind a
  `Stop`.  *Correct when* no emit is lost, a stream of emits neither starves
  the function nor makes it run more often than the delay, runs do not overlap,
  and the goroutine ends.
* **File worker.**  The writer appends at any byte; inotify, the watcher, the
  debouncer and `tail` interleave with it; the log is truncated by logrotate or
  by the worker; system calls fail.  *Correct when* a line becomes one row, in
  order, half lines are left for later, and the offset that is kept passes over
  nothing.
* **File watcher.**  Logs come and go while the directory is being listed and
  watched; `Stop` walks the worker map in another goroutine.  *Correct when*
  each log has one worker, every write is noticed, and no worker is left behind.
* **File offsets.**  `setOffset`, the debounced save and the save of `Close`
  run in three goroutines; a save truncates the file before it writes it.
  *Correct when* a change has a save owed until it is in the file, and entries
  survive stops, crashes and restarts.
* **Storage, write path.**  A bounded channel, one consumer that may fail an
  insert, a `Close` that does not wait for it, `Cleanup` by a timestamp that
  says nothing of the order of insertion.  *Correct when* no accepted row is
  dropped silently or overtaken, producers are released, and cursors order the
  rows for ever.
* **Migrations.**  Each statement commits by itself; a failure or a crash leaves
  the table between two configurations, and the next start may bring a third.
  *Correct when* success means the configured table, and work done is kept.
* **Queries.**  Clients page by cursor while rows are inserted and deleted.
  *Correct when* pages join without a gap.
* **Rotation and succession.**  A log is renamed away, truncated, removed and
  created again, and the logger may still write to the file that was there
  before.  The old worker can be in `tail` while the events of the new file
  start another, and both set the one entry of the path.  *Correct when* the
  file at the path is read, by one worker, from an offset of its own.
* **The system watcher.**  A collection gives up at the first part that fails,
  after other parts have kept their counters.  *Correct when* the deltas of the
  rows add up to what the counters did.
* **Retention.**  A row is deleted by the time its line was given, which may come
  from a timestamp without a year, read months later, and by a period parsed
  from text.  *Correct when* nothing is deleted early and everything in the end.
* **The life of the process.**  The server answers while agents are still being
  loaded into an unguarded map; `Shutdown` has a second, then the storage is
  closed under the requests; two files may have one agent's name.  *Correct
  when* rows fit their tables, what the server names can be queried, and a
  signal ends the process.
* **The pipeline.**  The offset is kept when a row is *queued*; what happens
  between the queue and the database decides which lines a restart re-reads.

## 2. The modules

| module | models | lines up with the code as |
|---|---|---|
| `Trigger` | the promise of a debouncer: runs *owed*, one running, closed | abstract; its actions are reused by the owners of debouncers |
| `Debounce` | `pkg/debounce` | one action per select case, plus the callers and the clock; `pc` is the position in `watch` |
| `LineReader` | the promise of a worker on a log that only grows, in lines | abstract; its actions are reused by `Ingest` |
| `Tail` | `fileWorker`, truncate rotation, with writer, logrotate and inotify; `getFileOffset` | one action per system call of `tail`; the file is the positions `base+1..sent` of a stream; the backward scan is an operator, block by block |
| `LogFiles` | both methods of rotation, the worker and the entry of one path, the watcher's handling of its events, crash and restart | one action per system call of `renameFile.Rotate`, each of which may fail; files are numbered as they come, offsets remember (as history) the file they were counted in |
| `Watcher` | `FileWatcher.watch`, `startWorker`, `stopWorker`, `Stop` | one action per entry of the listing, per event, per worker that `Stop` reaches; `startWorker` is three: the map, `worker.Start`, and the watch on the log, which may be refused |
| `OffsetStore` | `FileConfig` | `save` is three steps: snapshot, truncation, write, of which the last two may fail and the write may leave a part of the text; `Close` and the debouncer are two savers |
| `OffsetHistory` | `OffsetStore` and variables that remember | the properties that span processes |
| `SQLiteStorage` | `Write`, `watch`, `insertData`, `Cleanup`, `Open`, `Close` | one action per select case and per outcome of an insert |
| `Query` | `NewQuery`, `SetFilter`, ..., `Query` | operators: the set of rows a request is answered with |
| `CursorReader` | `SQLiteStorage` and a client of `handleQuery` | the client asks for the newest page, older and newer ones |
| `Migrate` | `Migrate`, `createTable`, `migrateTable`, `getColumns`, `getIndexes` | one action per SQL statement; `todo` is what is left of the loop |
| `Ingest` | one log from file to table, in a process that stops, crashes and restarts | instances of `LineReader`, `OffsetStore` and `SQLiteStorage` share `life` and `taken`; each action joins the steps the code takes together |
| `SystemWatcher` | `SystemWatcher` with `cpuInfo`, `diskInfo`, `netInfo` | one action per part of a collection and per select case; used by `Application`, which starts and stops it |
| `Application` | `main`, `start`, `loadAgents`, `stop`; `Agent.Init`, `Start`, `Stop`, `Serialize`, `Write`; `ServerConfig.Open`, `Close` and its handlers; `Field.Clone`; the choice of a storage | `main` is the place of the main goroutine; the assignment to the agents map has a begin and an end |
| `Retention` | `RetentionConfig`, `duration.Parse`, `stdTimeParser.Parse`, the default of a failed conversion | one action per select case and outcome of `Cleanup`; ages count back from the present |
| `...Proofs` | theorems: `OffsetProofs` about `Debounce` and `OffsetHistory`, `TailProofs`, `LogFilesProofs`, `WatcherProofs`, `SQLiteStorageProofs` also about `CursorReader`, `TableProofs` about `Migrate` and `Retention`, `IngestProofs`, `ApplicationProofs` | |
| `MC...` | constants for TLC | |

How they compose:

    Debounce ==implements==> Trigger --used by--> Tail, OffsetStore
    Tail     ==implements==> LineReader --+
    OffsetStore --------------------------+--> Ingest
    SQLiteStorage ------------------------+
    SQLiteStorage + Query --> CursorReader
    SystemWatcher ----------> Application

A definition whose name has an underscore (`Finish_KeepsSize`) is a *mutant*: a
plausible bug of the definition after it.  No specification uses it; it is
there to show that the property named in `PROJECT.json` notices the bug.

### Abstractions

* Text is abstracted to what is told apart.  A line is the position of its
  newline and what the parser makes of it (a row, an error, no fields); a line
  torn by a truncation may become any of the three.  A row is its producer, its
  number and its timestamp.  An offset in `OffsetStore` is a number, and of the
  YAML text only the relative length counts (for what a shorter text leaves of
  a longer one).  A text written in part loses entries, digits of one offset (any
  smaller number stands for them), or cannot be parsed.  In `Ingest` an offset is
  a number of lines: that a shortened one may lie within a line, which is then
  read torn, is not told apart.
* `Tail` reads through a buffer of `Chunk` bytes, as `bufio` does through 64 KiB:
  lines are shorter, equal to and longer than it.
* `LogFiles` counts in lines, `Tail` in bytes.  Emptying a file is modelled there
  as a new file in its place that the logger has open.  A second run that the
  debouncer owes before the first has begun is left out: it is as one owed by a
  slower watcher.
* `SystemWatcher` keeps one counter for the disk and one for the network; the
  percentages are left out.  A zero interval is an outcome of the first
  collection (`NewTicker` panics after it).
* In `Application` a table is its columns and indexes, and an agent its columns
  and the fact that it writes; whether a row is queued, stored or dropped is
  left to `SQLiteStorage` and `Ingest`.
* `Retention` counts in months, a year has 12, and the logger and this host
  agree on the time, in UTC: the hours by which `time.Parse` misreads a local
  timestamp without a zone do not show.  The greatest int64 is the constant
  `MaxInt`, 31 in the run, and the units of a duration are scaled up to match.
* Time is a number of ticks in `Debounce`, of months in `Retention`; elsewhere a
  delay is only an order.
* Go 1.24 (`go.mod`): a stopped or reset timer delivers no stale value, so
  `timer` is one number.
* `select` picks any ready case, so stop may be passed over.
* The process may be killed between any two steps; what was written to a file
  or committed stays.  The loss of written pages in a power failure is left out.

## 3. The runs

| run | question | bounds | why they are enough |
|---|---|---|---|
| `debounce` | does `watch` keep the promises of `Trigger`? | delay of 3 ticks; emits and stops at any time | finite without a bound on emits; an emit may fall before the delay, at two points within it and at its end |
| `tail` | is every complete line delivered, once, in order, whatever fails? | 6 bytes in 3 lines, one blank, one as long as the buffer; rotation from 3 bytes or none; 1 failing system call, 1 truncation; blocks of 2 bytes for the first read | the file can be rotated with lines before, across and after the cut; the failure and the truncation may fall at each step; the block ends before, at and behind a newline |
| `tail_panic` | does a line without fields only lose itself? (no) | 7 bytes, path with named groups, no failures | |
| `log_files` | is the file at a path read, from an offset of its own? | 2 lines, 3 files, 2 workers, 2 events beside those of a rotation, 1 crash; every file with a line is rotated | two successions, so that an old worker, a new one and a third file meet (`NewFileRead` is checked until the third file is there); a crash between any two steps of either |
| `watcher` | does each log have one worker, is each write noticed, does `Stop` end the goroutine? | 2 logs, 2 changes of the directory, queue of 2 events; any watch may be refused | a log is created, removed or replaced around each step of the start, twice, or beside the other one; writes fall between the steps of `startWorker`; the queue overflows.  The proofs hold for any number of logs, changes and events |
| `offset` | is what `setOffset` keeps saved, and kept? | 2 logs, the offset of one changes between 0 and 1, the other's entry is fixed | two texts of different length, entries that come and stay; crashes, failing saves, texts written in part, and any number of restarts |
| `storage` | do rows and cursors keep their order to the client? | 1 producer of 3 rows, queue of 2, 4 cursors, pages of 1 row, 4 sets of filters: none, two on the time, `since`, `until` | the row in hand, a full queue and a row that waits exist together; 4 cursors and 3 rows: a row is inserted again after a restart.  The proofs hold for any number of producers and filters |
| `migrate` | does a migration reach its configuration? | 3 fields, 2 types, any sequence of configurations | one field to drop, one to change and one to add in one migration, each with an index or not |
| `ingest` | does any offset pass over a line that is lost? | 2 lines, Limit 1, queue of 1, 2 cursors; a failed write of the offsets leaves the file as it was or empty (`ShortWrites` is false) | one line in hand and one queued when the process ends; a first read that leaves a line out.  The proofs include texts written in part |
| `application` | do rows, requests and the end of the process fit together? | 3 agents directories: two files of one name; a file and the system input; a system input with fields of its own.  1 request at a time, 2 signals, counters of 0 and 1 | one request is enough to be in the map, or in the storage, at each step of main; the second signal falls after the first; a counter goes up, is reset and is unreadable in any order |
| `index_lost` | has a field configured with an index got one? (no) | 1 agent | |
| `retention` | is every row deleted, and none too early? | lines up to 13 months late, ages up to 8, periods of 1, 2, 5 and -28 months (12d wrapped), intervals of 1 and 0 | every pair of month of the stamp and month of the reading, in the same year, the next and the one after it |

Deadlock is checked only in `debounce` and `migrate`.  The others may stop: a
stopped worker or watcher of a finite log does nothing, a program that
panicked or has ended neither, an offsets file that does not parse keeps the program from
starting, and the bound on cursors stops the database.

### Properties

*Debounce.*  `NoLostEmit`: an emit that no run has answered is still in the
channel or in the timer.  `RunsSpaced`: two runs begin at least a delay apart.
`ImplementsTrigger`: all of `Trigger`, with its fairness: what is owed is begun,
and a stopped debouncer ends however many emits come.

*Worker.*  `AtMostOnce`, `OffsetCovers` (but for the step between a
truncation and the offset 0), `InOrder`, `RotateKeepsSeen` (rotation
cuts off only what had not ended when the run met the end of the file),
`LineDelivered`, `TruncationNoticed`, `ImplementsLineReader` for a worker whose
file only grows, and `FirstReadLimited`: the backward scan leaves exactly
`Limit` complete lines, wherever blocks end and whether or not the log ends in a
newline.

*Succession.*  `NewFileRead`: a line in the file at the path becomes a row,
whoever put the file there.  `OffsetsCoverRows`: no entry, saved entry or
worker's offset passes over a line of the file it was counted in.  Both except a
file that reading began in the middle of, at an offset of another file that it
had outgrown: the code compares sizes only (below).  `OneWorkerOpen`.

*Watcher.*  `NoUnnoticedWrite` and `MapMatchesDirectory` say that the listing,
the steps of `startWorker` and the events leave nothing between them, as long as
the directory or the log itself is watched; `WriteNoticed` and `WatchExits` that
what has an event is read, and that `Stop` ends the goroutine.  `NoStrayWorker`:
no worker runs that has left the map, and each one that runs after `Stop` was
called will be reached by it, or was started after the call.  They except
(`disturbed`) logs that came, went or were written while nothing watched them,
and logs whose file was replaced by a rename; and everything after an overflow.
A worker started after the call of `Stop` is excepted by name (`late`): the code
does not stop it (section 5).

*Offsets.*  `UnsavedIsOwed`: a map that is not in the file has a save owed, also
when it was set during a save and also when that save fails; excepted is the
time between a failed save with no other owed and the next offset that is set,
since `save` only logs the error.  `QuietMapSaved`: a map that is left alone is
saved in the end, unless its last save failed or saves go on failing.
`EntriesSurvive` and `CleanExitSaves` except overlapping saves and failed ones.

*Storage.*  `RowsAccounted`, `RowsInOrder`, `ProducersReleased`;
`ReaderMissesNothing` (pages join without a gap, in both directions, with
filters other than `until`, whose pages are always the newest rows) and
`CursorsUnique`.

*Migrations.*  `DoneMeansConfigured`; `RefusedOnlyForIndex`; `NeverUndone`: no
step takes away a configured column that has its type, or a configured index on
its column.

*Application.*  `WritesFitTable`: a row that an agent hands over has only
columns that its table has; `QueriesServed`: a query for a name that the server
has answered fails only after `Shutdown` has timed out; `SignalEndsProcess`;
`DeltasAddUp`: first reading plus all deltas written is the reading kept last.

*Retention.*  `OnlyOldRowsCleaned`: an inferred year is never before the year of
the line, so no row is deleted before its line is older than the period; lines
whose timestamp cannot be converted (they get 1970) and periods that do not fit
an int64 are excepted.  `OldRowsGo`: a row with a year inferred wrongly goes too,
some months later.

*Pipeline.*  `NoLinePassedOver` relates every offset a process may resume from
to the queue, the database and what is known to be lost;
`InsertsOnceInOrder`; `LinesReachTable`.

### Fairness

* Goroutines are scheduled and system calls return: weak fairness of their
  steps.  Nothing forces a writer, a `Stop`, a crash or a restart.
* Strong fairness is assumed where Go's `select` chooses uniformly among ready
  cases: `TakeStop` in `Debounce` and `Watcher`.  The closed channel is ready at
  each select, but the action is not enabled while the function or a handler
  runs.
* `Ingest` takes two things over from `Tail`, where they are checked
  (`LineDelivered`): a run begins after a line was logged, and reads on to the
  end of the file.  So `TakeLine` is strongly fair and `FinishTail` is weakly fair
  when all lines are taken.  A run may still end early, and another begin.
* `LogFiles` takes over from `Tail` and `Watcher` that a run reads on and that
  events are handled; nothing forces a logger to reopen its file.
* `Application` assumes only that main goes on, `Shutdown`'s timeout included:
  nothing of requests, agents and signals.  `Retention` assumes that time passes
  and that a clean-up that is tried over and over succeeds at last (a database
  is not busy for ever).
* Owners of a debouncer assume of it what `Trigger` promises, which `Debounce`
  implements.

## 4. The proofs

Every safety property that a run checks is also proved, for every value of the
constants that satisfies the named assumptions: `DebounceAssumption`,
`TailAssumption`, `LogFilesAssumption`, `OffsetStoreAssumption`,
`StorageAssumption`, `ReaderAssumption`, `MigrateAssumption`,
`IngestAssumption` and `RetentionAssumption` (the proofs about `Watcher` and
`Application` need none).  They give types, sizes above zero where the code has
them, and finite sets of filters; none bounds a log, a queue, a file system or
a history.  Few of the properties are inductive, and the argument is the same
everywhere: an invariant that says more holds initially, each action keeps it
(one step of the proof per action), and it implies the property.

* **OffsetProofs** has the debouncer and the file that it saves.  For
  `NoEmitIsLost`, whether an absorbed emit is safe depends on what `timerActive`
  says of the timer at each point of the loop (`TimerTracked`); for
  `RunsAreSpaced`, on how long the timer has been running (`GapCovered`).
  `SafelyImplementsTrigger` shows that each step is one of `Trigger` or a
  stutter, under the mapping of the run `debounce`.  `UnsavedOwed`,
  `EntriesStay` and `CleanExit` need that the savers follow the life of the
  process (`SaversLive`), that the file is empty between the two steps of a save
  that is alone (`EmptyInBetween`), that map, snapshot and file all hold what
  ever was an entry (`EntriesHeld`), and what `Close` may find (`CloseHolds`).
* **TailProofs.**  The run holds lines in a buffer, and the file under it is
  rotated and truncated.  `BufferAhead` says which bytes of the stream the buffer
  holds, `RowsBehind` that a row's line ends before the place where reading goes
  on, `PlaceIsLine` and `PlaceCovers`, without other programs, that this place
  is the start of a line and that nothing is left before it.  `RowsOnce`,
  `OffsetNeverAhead`, `RowsInOrder` and `RotationKeepsSeen` follow.
  `ReadsLineByLine` is the refinement of `LineReader`: the numbers of lines up
  to the end of the log, the kept offset and the place change in each step as
  one of its actions says, or not at all.
  `FirstReadIsLimited` is about a recursive function, the backward scan, for
  every text, limit and size of block.  The induction theorems of the library
  take an operator and cannot be used here, so the proof takes the least number
  for which a claim fails (`LeastExists`, from the well-foundedness of the
  naturals), which needs no operator, and shows that it does not fail there.
* **LogFilesProofs.**  `OneOpen` depends on what the queue of events says of the
  path: between two creations there is a removal, and one comes before the first
  creation if the path is in the map (`OneCurrent`).  `OffsetsCover` needs the
  same cover of the entry, the saved entry and each worker at each point of a
  run and of a rotation (`AllCover`).
* **WatcherProofs.**  The same idea for each log: the last thing the queue says of
  it is true, and if it says nothing the map is right (`AbsentKnown`,
  `PresentKnown`); `WritesKnown` says where a write is known between the steps of
  `startWorker`, `OneAtATime` that the goroutine is in one call of it, `PhaseHolds`
  what each phase of `watch` has still to do, and `InMap` and `StopReaches` which
  workers `Stop` can meet.  `NoStrays`,
  `MapFollowsDirectory` and `NoWriteMissed` follow.
* **SQLiteStorageProofs.**  `RowsInOrder` alone says nothing of the row that is
  written next; `SInv` adds that each row in flight is one its producer has
  written (`QueueWritten`), that the one in hand comes before the channel
  (`HandFirst`), and that a process that is down has nothing in flight
  (`DownEmpty`), which a restart that begins again needs.  `StorageTyped`,
  `RowsStayInOrder` and `RowsAreAccounted` follow.  For the client, `ReaderInv`
  says that all cursors seen were given (`CursorsGiven`), that `first` and `last`
  are the ends of what was sent (`EndsHeld`), and that pages by `since` begin
  with the oldest row (`OldestFirst`).  The lemma about `Page` on which
  `PagesLeaveNoGap` rests: a page is an end of the rows that match, so no row
  lies between it and the cursor it was asked with.
* **TableProofs** has what is done to a table.  Migrations are four loops, each
  with an invariant that says what it has left to do in terms of the database as
  it is now, not as it was read: that is what makes a crash harmless.
  `SuccessMeansConfigured`, `OnlyIndexesRefuse` and, for steps,
  `MigrationGoesOn` follow.  `OldRowsOnly`, of retention, rests on two lemmas: an
  inferred year never makes a line look older than it is (`InferredYoung`), and
  a duration that fits an int64 is parsed exactly, although a number may be
  cut off and sums and products wrap (`ParseExact`).  The second is about two
  recursive functions, and uses the least-number principle too.
* **IngestProofs.**  `OffsetsSafe` says of all places an offset can be in, the
  map, the snapshots, the file, the worker, that each line before it is
  accounted for; what `FileConfig` does is only to copy offsets among them,
  or to leave a smaller one in a text written in part (`OffsetsMove`).  `FlightInOrder` and `InsertedInOrder` relate the rows in
  flight and those of this process in the table to the lines it has taken.
  `NoneIsPassedOver` and `InsertedOnce` follow.
  Two refinements: that no entry is beyond what has been taken (`NotBeyond`)
  makes each start with an entry a restart of `SQLiteStorage`
  (`StorageImplemented`; one without an entry may begin behind it, where Limit
  says) and each step one of `OffsetStore` or a stutter
  (`OffsetsImplemented`), so that what is proved of `OffsetStore` and of its
  history holds in the pipeline.
* **ApplicationProofs.**  Three invariants over the same steps.  `SystemInv`: only
  the part that has just been read has a delta in flight (`RowInFlight`), which
  is what the order of the parts in `_collect` gives; with it `DeltasSumUp`
  follows from a lemma that each step of the process is one of the system input
  or leaves it alone.  `QueryInv`: clients know loaded agents only, a loaded
  agent has its table, and the storage is closed after the last request or after
  a timeout (`NamesCanBeQueried`).  `FitInv`: no agent runs while tables change,
  the table of a name has the columns of the file the map holds for it, except
  between `Migrate` and the assignment to the map, and a system input writes
  only with both parts (`RowsFitTables`).

Only model-checked: liveness, since the prover has no rules for fairness and
`ENABLED` (`LineDelivered`, `TruncationNoticed`, `NewFileRead`, `WriteNoticed`,
`WatchExits`, `QuietMapSaved`, `ProducersReleased`, `LinesReachTable`,
`SignalEndsProcess`, `OldRowsGo`), and the liveness part of the refinement of
`Trigger`.

## 5. What the runs found

| run | finding |
|---|---|
| `tail_panic` | A parser that finds no fields returns nil without an error (`plain.go:24`, `json.go:24`); `maps.Copy` (`worker.go:114`) then writes the named groups of the path into a nil map: the program ends, and does so again after each restart, at the same line. |
| `index_lost` | `Field.Clone` (`field.go:41`) copies neither `Index` nor `Description`, and `Agent.Init` migrates the clones (`agent.go:46`): an index that the configuration asks for is never created, and one that the table has is dropped.  `Migrate` itself keeps its promise (`DoneMeansConfigured`) for whoever calls it with indexed fields, as the tests do. |

Seen while modelling, outside the claims the repository makes:

* a log that is truncated and grows beyond the kept offset between two runs is
  not noticed (`worker.go:83`);
* the entry of a path does not say which file it was counted in: after a
  rotation whose offset 0 was not saved before a crash (`worker.go:138`), after
  a removal and a new file (`file.go:80`), or when the new file's worker starts
  before the old one's last `setOffset`, reading begins in the middle of the new
  file if it has outgrown the offset (`outgrown` in `LogFiles`);
* `Stop` of the watcher closes its channel and walks the map once
  (`watcher.go:111`-`116`); `watch` looks at the channel only between events, after
  the whole listing, and starts workers that `Stop` has passed.  Such a worker
  reads its log and writes rows after the agent was stopped, and is never stopped,
  although the comment says that `Stop` "stops monitoring the log files"
  (`watcher.go:108`).  The shortest way there in `Watcher` is `ListDir`, `Stop`,
  `WatchDir`, `StartListed`, `StartTail` (`late` holds the log);
* the watch on a log is set after the first run of its worker, and an error of
  it is not looked at, nor that of the watch on the directory (`watcher.go:142`,
  `169`): without the latter, a write in between, or any after both have failed,
  is not noticed (`disturbed` in `Watcher`);
* a save that fails is not tried again until the next offset is set
  (`file.go:123`; `failed` in `OffsetHistory`), and may leave the file empty, cut
  off or unparsable;
* an error after `Rename` leaves no file at the path, or a new one with the old
  offset, until the logger opens it (`rotation.go:150`);
* the directory is listed before it is watched (`watcher.go:163`, `169`): a log
  created in between is not followed until it is created again;
* `Close` saves beside a debounced save that it does not wait for; main can
  return between that save's truncation and its write, and the offsets file is
  left empty (`file.go:71`; `EntriesSurvive` and `CleanExitSaves` except it);
* `stop` closes storage, which drops the rows in the channel, and then saves
  offsets that were set when these rows were queued (`main.go:212`): these lines
  are never stored (`NoLinePassedOver` counts them as handed to storage);
* the call that undoes `NotifyContext` is deferred last and so runs first: a
  second signal while `stop` is at work kills the process (`main.go:54`-`58`);
* `disk` and `net` may be left out of a system agent, and its table then has no
  columns for them, but the first collection uses them and panics
  (`system/watcher.go:138`, `142`); an interval of zero panics after it;
* a system agent with fields of its own is accepted, and no row of it fits its
  table (`agent.go:39`; the exception of `WritesFitTable`);
* a timestamp without a year that is read in February or later, from December,
  is placed in the future, and its row stays a year longer (`timestamp.go:98`);
* a unit that `duration.Parse` does not know is passed over with its number
  (`1w2h` is two hours), and a period too long for an int64 becomes negative: the
  next clean-up then deletes everything (`duration.go:47`);
* a read error breaks the loop, and `tail` goes on to rotate: lines behind the
  error are cut off unread (`worker.go:95`);
* `Stop` of the watcher iterates over the worker map while the goroutine writes
  it: the runtime may end the program before the offsets are saved
  (`MapRace`);
* a file renamed over a log replaces its worker in the map without stopping it:
  two workers read the log (`watcher.go:140`);
* fsnotify's error channel is not read: behind the first error no event comes
  through (`watcher.go:185`);
* after a field with an index is removed or retyped, SQLite refuses the
  `DROP COLUMN` and the program cannot start (`RefusedOnlyForIndex`);
* a request for the page after a cursor with `until` and a limit gets the newest
  rows of the range, not those that follow the cursor: its pages do not join
  (`sqlite.go:206`; `PagesJoin` excepts them);
* `since` and `until` in one request: the direction depends on the iteration
  order of a Go map (`sqlite.go:218`), which `Query` models.

## 6. What is not modelled

* Parsing of regular expressions, JSON, YAML; CORS, JSON output, flags, the
  writing of a default configuration: pure conversions and I/O.
* `Init` functions that only check a configuration, and those of the disk and
  net parts, which look up a device and an interface once.
* The converters of fields other than time, each of which maps one value; the
  fraction of a unix timestamp; February 29; `duration.Match`, which only tests
  use.
* `since` beside `until`, whose order depends on a Go map; the text operators.
* Two agents on one log: they share its entry, and the repository does not say
  what they should get.
* Several tables: they share the channel and the database handle; the names of
  indexes, which two tables may share (`CREATE INDEX` is then refused), are left
  out.
* A configuration that names a field twice: `Agent.Init` accepts it, and
  `CREATE TABLE` refuses it at each start.  The schemas of `Migrate` are functions,
  and cannot express it.
* Rows of a table whose time column a later migration adds: their time is NULL,
  and no clean-up deletes them.
* A directory after its watcher has ended (`Watcher` follows it until then), and
  the kept counters of `cpuInfo`, which are kept as those of disk and net are.

## 7. Plan

Done, in this order: `Trigger` and `Debounce` with their proofs; `LineReader`
and `Tail`; `OffsetStore`; `SQLiteStorage`, `Query` and `CursorReader`;
`Ingest`; `Watcher`; `Migrate` and its proofs; the proofs of the write path;
`getFileOffset` in `Tail`; `LogFiles`; `SystemWatcher` and `Application` with
their proofs; `Retention`; the proofs of the file offsets, the watcher, the
succession of files, the worker and its refinement of `LineReader`, the client
of `CursorReader`, the pipeline and its refinement of its parts, and retention.

Next, to extend the model: `since` beside `until`; two agents on one log in
`LogFiles`.
