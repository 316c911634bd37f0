------------------------------- MODULE Tail --------------------------------
(***************************************************************************)
(* fileWorker (internal/input/file/worker.go): one log file is read from   *)
(* where the last run stopped, line by line, each time the watcher reports *)
(* a write.                                                                *)
(*                                                                         *)
(* What is ever logged is a stream of bytes, known by their positions      *)
(* 1..StreamLen; NL holds the positions of the newlines.  The file holds   *)
(* positions base+1..sent: an append moves sent, a truncation moves base.  *)
(* Offset o of the file is position base+o.  The writer opens the file for *)
(* appending, and an append may end anywhere in a line.                    *)
(*                                                                         *)
(* The worker's debouncer is a Trigger.  The writer, a log rotator outside *)
(* the program, inotify and the goroutine interleave at system calls.      *)
(***************************************************************************)
EXTENDS Integers, FiniteSetsExt, SequencesExt

CONSTANTS
  StreamLen,    \* bytes logged
  NL,           \* where the newlines are
  Kind,         \* Kind[e]: what the parser makes of the line that ends at e
  Chunk,        \* bytes the reader's buffer holds
  HasExt,       \* the path pattern has named groups
  RotateSize,   \* size at which a worker with a rotator rotates the file
  BufferSize,   \* bytes getFileOffset reads at once
  Limit,        \* lines of a log to read at first (FileConfig.Limit)
  MaxErrors,    \* bound on failures of open, read and truncate
  MaxTruncs     \* bound on truncations by an external rotator

Outcomes == {"row",    \* fields: a row is written
             "error",  \* the parser refuses the line
             "nil"}    \* no fields and no error

ASSUME TailAssumption == /\ StreamLen \in Nat
                         /\ NL \subseteq 1..StreamLen
                         /\ Kind \in [NL -> Outcomes]
                         /\ Chunk \in Nat \ {0}
                         /\ HasExt \in BOOLEAN
                         /\ RotateSize \in Nat
                         /\ BufferSize \in Nat \ {0}
                         /\ Limit \in Nat
                         /\ MaxErrors \in Nat
                         /\ MaxTruncs \in Nat

VARIABLES
  sent, base,                    \* the file
  truncs,                        \* external truncations so far
  rotator,                       \* the worker has a rotator (truncate method)
  errors,                        \* failed system calls so far
  event,                         \* an inotify write event is waiting
  tailOwed, tailPhase, tailClosed,   \* the worker's debouncer
  offset,                        \* fw.offset, and the entry of FileConfig
  pc,                            \* where tail is
  size, pos,                     \* its locals fileSize and offset
  buf,                           \* positions read and not yet taken
  eof,                           \* history: sent when this run met the end
  rows                           \* history: rows written for the line ending at e

fileVars == <<sent, base, truncs>>
envVars == <<rotator, errors>>
trigVars == <<tailOwed, tailPhase, tailClosed>>
runVars == <<size, pos, buf, eof>>
tailVars == <<fileVars, envVars, event, trigVars, offset, pc, runVars, rows>>

D == INSTANCE Trigger WITH owed <- tailOwed, phase <- tailPhase,
                           closed <- tailClosed

FileSize == sent - base

LineStart(e) == Max({0} \cup {n \in NL : n < e}) + 1
Blank(e) == LineStart(e) = e

-----------------------------------------------------------------------------
(* newFileWorker.                                                          *)

\* The newlines among bytes from+1..to of the file.
NewlinesIn(from, to) == {i \in (from + 1)..to : base + i \in NL}

\* The log is read backward from byte last in blocks, until one newline more
\* than the lines asked for is found; count newlines have been found before.
ScanBack(lines, last, count) ==
  LET scan[o \in 0..last] ==
        LET start == IF o < BufferSize THEN 0 ELSE o - BufferSize
            found == NewlinesIn(start, o)
            missing == lines + 1 - (count + Cardinality(NewlinesIn(o, last)))
        IN IF o = 0 \/ missing <= 0 THEN 0
           ELSE IF Cardinality(found) < missing THEN scan[start]
           ELSE CHOOSE i \in found :
                  Cardinality({j \in found : j >= i}) = missing
  IN scan[last]

\* Mutant: the newline that ends the file is not counted.
getFileOffset_NoTrailing(lines) ==
  IF FileSize = 0 THEN 0 ELSE ScanBack(lines, FileSize - 1, 0)

\* The last byte is looked at first.
getFileOffset(lines) ==
  IF FileSize = 0 THEN 0
  ELSE LET last == FileSize - 1
       IN ScanBack(lines, last, Cardinality(NewlinesIn(last, FileSize)))

\* getOffset: the entry of an earlier process, or what Limit allows.
FirstOffsets == {0} \cup {n \in NL : n <= sent}
                    \cup (IF Limit = 0 THEN {} ELSE {getFileOffset(Limit)})

\* What lies before the first offset counts as written.  The debouncer is
\* immediate: it owes a first run.
TailInit == /\ sent \in 0..StreamLen
            /\ base = 0
            /\ truncs = 0
            /\ rotator \in BOOLEAN
            /\ errors = 0
            /\ event = FALSE
            /\ tailOwed = 1 /\ tailPhase = "idle" /\ tailClosed = FALSE
            /\ offset \in FirstOffsets
            /\ pc = "idle"
            /\ size = 0 /\ pos = 0 /\ buf = <<>> /\ eof = 0
            /\ rows = [e \in NL |-> IF e <= offset THEN 1 ELSE 0]

Alive == pc # "panic"

\* A system call fails.
Failure == /\ errors < MaxErrors
           /\ errors' = errors + 1
           /\ UNCHANGED rotator

-----------------------------------------------------------------------------
(* The writer, the external rotator, inotify and the watcher.              *)

LogWrite == \E n \in 1..StreamLen :
            /\ Alive
            /\ sent + n <= StreamLen
            /\ sent' = sent + n
            /\ event' = TRUE
            /\ UNCHANGED <<base, truncs, envVars, trigVars, offset, pc, runVars, rows>>

\* logrotate's copytruncate.
ExternalTruncate == /\ Alive
                    /\ truncs < MaxTruncs
                    /\ base < sent
                    /\ base' = sent
                    /\ truncs' = truncs + 1
                    /\ event' = TRUE
                    /\ UNCHANGED <<sent, envVars, trigVars, offset, pc, runVars, rows>>

\* Mutant: an event that comes during a run is dropped.
Handle_WhenIdle == /\ Alive
                   /\ event
                   /\ event' = FALSE
                   /\ IF tailPhase = "idle" THEN D!Emit ELSE UNCHANGED trigVars
                   /\ UNCHANGED <<fileVars, envVars, offset, pc, runVars, rows>>

Handle == /\ Alive
          /\ event
          /\ event' = FALSE
          /\ D!Emit
          /\ UNCHANGED <<fileVars, envVars, offset, pc, runVars, rows>>

Coalesce == /\ Alive
            /\ D!Coalesce
            /\ UNCHANGED <<fileVars, envVars, event, offset, pc, runVars, rows>>

Stop == /\ Alive
        /\ ~tailClosed
        /\ D!Close
        /\ UNCHANGED <<fileVars, envVars, event, offset, pc, runVars, rows>>

DebounceExits == /\ Alive
                 /\ D!Exit
                 /\ UNCHANGED <<fileVars, envVars, event, offset, pc, runVars, rows>>

-----------------------------------------------------------------------------
(* tail().                                                                 *)

BeginTail == /\ Alive
             /\ D!Begin
             /\ pc' = "open"
             /\ UNCHANGED <<fileVars, envVars, event, offset, runVars, rows>>

\* tail returns.
EndTail == /\ pc' = "idle"
           /\ D!End

OpenFails == /\ pc = "open"
             /\ Failure
             /\ EndTail
             /\ UNCHANGED <<fileVars, event, offset, runVars, rows>>

OpenEmpty == /\ pc = "open"
             /\ FileSize = 0
             /\ offset' = 0
             /\ EndTail
             /\ UNCHANGED <<fileVars, envVars, event, runVars, rows>>

\* Mutants: the file is read again from its start, a file that was read to its
\* end counts as truncated, truncation is not looked for.
OpenAt(p) == /\ pc = "open"
             /\ FileSize > 0
             /\ size' = FileSize
             /\ pos' = p
             /\ buf' = <<>>
             /\ pc' = "read"
             /\ UNCHANGED <<fileVars, envVars, event, trigVars, offset, eof, rows>>

Open_FromStart == OpenAt(0)
Open_AtEndRestarts == OpenAt(IF offset >= FileSize THEN 0 ELSE offset)
Open_Unchecked == OpenAt(offset)

\* Open, Stat and Seek: a file shorter than the offset has been truncated.
Open == /\ pc = "open"
        /\ FileSize > 0
        /\ size' = FileSize
        /\ pos' = IF offset > FileSize THEN 0 ELSE offset
        /\ buf' = <<>>
        /\ pc' = "read"
        /\ UNCHANGED <<fileVars, envVars, event, trigVars, offset, eof, rows>>

NoLine == \A i \in 1..Len(buf) : buf[i] \notin NL

\* The file position is pos + Len(buf) whatever happens to the file.
Unread == FileSize - (pos + Len(buf))

\* bufio fills the room left in its buffer, full ones being set aside.
Fill == /\ pc = "read"
        /\ NoLine
        /\ Unread > 0
        /\ LET room == Chunk - (Len(buf) % Chunk)
               n == IF Unread < room THEN Unread ELSE room
               from == base + pos + Len(buf)
           IN buf' = buf \o [i \in 1..n |-> from + i]
        /\ UNCHANGED <<fileVars, envVars, event, trigVars, offset, pc, size, pos, eof, rows>>

\* A line as it was logged, rather than one put together from two files or
\* begun by a file that is gone.
Intact(line) == /\ \A i \in 2..Len(line) : line[i] = line[i - 1] + 1
                /\ line[1] = LineStart(Last(line))

\* The parser decides on an intact line by what it says, and may make
\* anything of a torn one.
Parsed(line) == IF Intact(line) THEN {Kind[Last(line)]} ELSE Outcomes

\* maps.Copy(raw, fw.ext) writes to the nil map of a line without fields.
TakeLine ==
  \E i \in 1..Len(buf) :
    LET line == SubSeq(buf, 1, i)
        e == buf[i]
    IN /\ pc = "read"
       /\ e \in NL
       /\ \A j \in 1..(i - 1) : buf[j] \notin NL
       /\ buf' = SubSeq(buf, i + 1, Len(buf))
       /\ pos' = pos + i
       /\ \/ i = 1 /\ UNCHANGED <<pc, rows>>
          \/ /\ i > 1
             /\ \E outcome \in Parsed(line) :
                  /\ pc' = IF outcome = "nil" /\ HasExt THEN "panic" ELSE "read"
                  /\ rows' = IF outcome = "row" /\ Intact(line) /\ rows[e] < 2
                             THEN [rows EXCEPT ![e] = @ + 1] ELSE rows
       /\ UNCHANGED <<fileVars, envVars, event, trigVars, offset, size, eof>>

\* Mutant: a line longer than the buffer ends the run.
EndOfFile_ShortRead ==
  /\ pc = "read"
  /\ NoLine
  /\ eof' = sent
  /\ pc' = "finish"
  /\ UNCHANGED <<fileVars, envVars, event, trigVars, offset, size, pos, buf, rows>>

EndOfFile == /\ pc = "read"
             /\ NoLine
             /\ Unread <= 0
             /\ eof' = sent
             /\ pc' = "finish"
             /\ UNCHANGED <<fileVars, envVars, event, trigVars, offset, size, pos, buf, rows>>

\* Mutant: what was read of the line is skipped.
ReadFails_Skips == /\ pc = "read"
                   /\ Failure
                   /\ NoLine
                   /\ pos' = pos + Len(buf)
                   /\ pc' = "finish"
                   /\ UNCHANGED <<fileVars, event, trigVars, offset, size, buf, eof, rows>>

ReadFails == /\ pc = "read"
             /\ Failure
             /\ NoLine
             /\ pc' = "finish"
             /\ UNCHANGED <<fileVars, event, trigVars, offset, runVars, rows>>

CheckSize == rotator /\ RotateSize > 0 /\ size >= RotateSize

\* Mutant: the size of the file is kept.
Finish_KeepsSize == /\ pc = "finish"
                    /\ offset' = size
                    /\ \/ /\ CheckSize
                          /\ pc' = "rotate"
                          /\ UNCHANGED trigVars
                       \/ /\ ~CheckSize
                          /\ EndTail
                    /\ UNCHANGED <<fileVars, envVars, event, runVars, rows>>

\* fw.offset and setOffset, then the rotator's CheckSize on the size at Open.
Finish == /\ pc = "finish"
          /\ offset' = pos
          /\ \/ /\ CheckSize
                /\ pc' = "rotate"
                /\ UNCHANGED trigVars
             \/ /\ ~CheckSize
                /\ EndTail
          /\ UNCHANGED <<fileVars, envVars, event, runVars, rows>>

Rotate == /\ pc = "rotate"
          /\ base' = sent
          /\ event' = TRUE
          /\ pc' = "reset"
          /\ UNCHANGED <<sent, truncs, envVars, trigVars, offset, runVars, rows>>

RotateFails == /\ pc = "rotate"
               /\ Failure
               /\ EndTail
               /\ UNCHANGED <<fileVars, event, offset, runVars, rows>>

Reset == /\ pc = "reset"
         /\ offset' = 0
         /\ EndTail
         /\ UNCHANGED <<fileVars, envVars, event, runVars, rows>>

-----------------------------------------------------------------------------
TailStep == \/ OpenEmpty \/ Open \/ Fill \/ TakeLine \/ EndOfFile
            \/ Finish \/ Rotate \/ Reset

TailError == OpenFails \/ ReadFails \/ RotateFails

TailNext == \/ LogWrite \/ ExternalTruncate \/ Handle \/ Coalesce
            \/ Stop \/ DebounceExits
            \/ BeginTail \/ TailStep \/ TailError

TailSpec == TailInit /\ [][TailNext]_tailVars

\* inotify reports, the watcher's goroutine forwards, the debouncer runs what
\* it owes, and tail's system calls return.
TailFairness == /\ WF_tailVars(Handle)
                /\ WF_tailVars(BeginTail)
                /\ WF_tailVars(TailStep)

TailFairSpec == TailSpec /\ TailFairness

-----------------------------------------------------------------------------
(* Correctness.                                                            *)

RowLines == {e \in NL : Kind[e] = "row" /\ ~Blank(e)}

\* No line becomes two rows, however runs, truncations, rotations, failures
\* and resets of the offset fall.
AtMostOnce == \A e \in RowLines : rows[e] <= 1

\* The offset that is kept for the next run, and across restarts, never
\* passes over a line of the file that has not become a row, whichever system
\* calls fail, as long as no other program truncates the file.  Excepted is one
\* step: between the truncation by Rotate and the offset 0 that follows it the
\* kept offset belongs to the file that was (LogFiles says what a crash there does).
OffsetCovers ==
  truncs = 0 /\ pc # "reset" =>
    \A e \in RowLines :
      base < LineStart(e) /\ e <= base + offset => rows[e] = 1

\* Rows are written in the order the lines were logged; only lines that fell
\* to the cut of a rotation are missing among them.
InOrder ==
  [][\A e, f \in RowLines :
       truncs = 0 /\ rows'[e] > rows[e] /\ f < e
         => rows[f] > 0 \/ base >= LineStart(f)]_tailVars

\* The worker's rotation discards only lines that ended after the run had
\* met the end of the file, and lines whose start it discarded before.
RotateKeepsSeen ==
  [][truncs' = 0 /\ base' # base =>
       \A e \in RowLines : base < LineStart(e) /\ e <= eof => rows[e] = 1]_tailVars

\* A worker whose file only grows is a LineReader: bytes, buffers and half
\* lines do not show.
LinesIn(n) == Cardinality({e \in NL : e <= n})

R == INSTANCE LineReader WITH
       Lines <- Cardinality(NL),
       logged <- LinesIn(sent),
       kept <- LinesIn(offset),
       taken <- IF pc \in {"read", "finish", "panic"} THEN LinesIn(pos)
                ELSE LinesIn(offset),
       reading <- pc \notin {"idle", "rotate", "reset"}

OnlyGrows == ~rotator /\ truncs' = 0

ImplementsLineReader == /\ R!ReadInit
                        /\ [][OnlyGrows => [R!ReadNext]_(R!readVars)]_tailVars

\* A line that has been logged completely becomes a row, unless it falls to
\* the cut of a rotation, the worker is stopped, a system call fails or
\* another program truncates the log: the write event that completes it is
\* not lost to a run under way.
LineDelivered ==
  \A e \in RowLines :
    sent >= e ~> \/ rows[e] > 0 \/ base >= LineStart(e)
                 \/ tailClosed \/ errors > 0 \/ truncs > 0

\* A first read delivers the last lines of the log, as many as asked for: the
\* offset is the start of a line, and that many complete lines follow it, or
\* all there are, wherever blocks end and whether the log ends in a newline or
\* in half a line.  It is said of the file as it is in each state.
FirstReadLimited ==
  \A lines \in 1..Cardinality(NL) :
    LET o == getFileOffset(lines)
        after == Cardinality(NewlinesIn(o, FileSize))
    IN \/ o = 0 /\ after <= lines
       \/ o \in NewlinesIn(0, FileSize) /\ after = lines

\* A file that has become shorter than the offset is noticed, unless system
\* calls fail: the worker does not wait at an offset beyond the end.
TruncationNoticed ==
  offset > FileSize ~> (offset <= FileSize \/ tailClosed \/ errors > 0)
=============================================================================
