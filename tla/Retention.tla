------------------------------ MODULE Retention ------------------------------
(***************************************************************************)
(* The retention goroutine of an agent, and the timestamps that decide     *)
(* what it deletes: a log line is stamped, read later, its timestamp is    *)
(* converted (perhaps with the year inferred), and its row is deleted when *)
(* the time it was given is older than the period, which was parsed from   *)
(* the configuration.                                                      *)
(*                                                                         *)
(* The unit of time is the month; ages count back from the present, so     *)
(* that time can go on for ever.  The clocks of the logger and of this     *)
(* host agree, in UTC.  Rows do not interact: one at a time is enough.     *)
(***************************************************************************)
EXTENDS Integers, Sequences

CONSTANTS
  MaxInt,      \* the largest int64, 2^63 - 1, scaled down
  UnitLength,  \* months of each unit, scaled up
  Periods,     \* configured periods: sequences of [value, unit]
  Intervals,   \* configured intervals
  MaxLate,     \* bound on the months between the stamp and the reading
  MaxAge       \* ages are counted up to here

\* duration.Parse finds a part; otherwise RetentionConfig.Init returns its error,
\* and the agent is not loaded.
Accepted(parts) == \E i \in DOMAIN parts : parts[i].unit \in DOMAIN UnitLength

ASSUME RetentionAssumption ==
  /\ MaxInt \in Nat /\ MaxLate \in Nat /\ MaxAge \in Nat
  /\ UnitLength \in [DOMAIN UnitLength -> Nat]
  /\ Periods \subseteq Seq([value : Nat, unit : STRING])
  /\ \A parts \in Periods \cup Intervals : Accepted(parts)

VARIABLES
  conf,    \* the configured period and interval
  period,  \* RetentionConfig.period
  month,   \* the month of the year, 1..12
  gc,      \* the goroutine: its place, its tick and stop channels
  row,     \* a row: what its timestamp was, and the ages of the line and of
           \* the time the row was given
  early    \* history: a row has been deleted whose line was not old enough

retentionVars == <<conf, period, month, gc, row, early>>

-----------------------------------------------------------------------------
(* duration.Parse.                                                         *)

\* n as an int64.
Wrap(n) == ((n + MaxInt + 1) % (2 * (MaxInt + 1))) - (MaxInt + 1)

\* A part with an unknown unit is passed over, beside others.
Amount(value, unit) ==
  IF unit \in DOMAIN UnitLength THEN value * UnitLength[unit] ELSE 0

\* A number that is too large is the largest.
Atoi(value) == IF value <= MaxInt THEN value ELSE MaxInt

\* What the configuration says.
Exact(parts) ==
  LET sum[i \in 0..Len(parts)] ==
        IF i = 0 THEN 0
        ELSE sum[i - 1] + Amount(parts[i].value, parts[i].unit)
  IN sum[Len(parts)]

\* Mutant: each part replaces the ones before it.
Parse_LastPart(parts) ==
  LET sum[i \in 0..Len(parts)] ==
        IF i = 0 THEN 0
        ELSE Wrap(Amount(Atoi(parts[i].value), parts[i].unit))
  IN sum[Len(parts)]

\* What it becomes: product and sum wrap.
Parse(parts) ==
  LET sum[i \in 0..Len(parts)] ==
        IF i = 0 THEN 0
        ELSE Wrap(sum[i - 1] + Wrap(Amount(Atoi(parts[i].value), parts[i].unit)))
  IN sum[Len(parts)]

-----------------------------------------------------------------------------
(* The conversion of timestamps.                                           *)

AtMost(n) == IF n < MaxAge THEN n ELSE MaxAge

\* The month, late months ago.
StampMonth(late) == ((month - 1 - late) % 12) + 1

\* Mutant: a line of December is always of the last year.
stdTimeParser_December(stamp) ==
  IF stamp = 12 THEN month ELSE month - stamp

\* The age of a timestamp without a year: it is of this year, or of the last if
\* it says December and this is January.
stdTimeParser(stamp) ==
  IF stamp = 12 /\ month = 1 THEN 1 ELSE month - stamp

\* The age a row is given.  A timestamp that cannot be converted is Default, 0,
\* which is 1970.
Converted(kind, late) ==
  IF kind = "full" THEN late
  ELSE IF kind = "stamp" THEN stdTimeParser(StampMonth(late))
  ELSE MaxAge

NoRow == [stored |-> FALSE, kind |-> "full", age |-> 0, given |-> 0]

\* A line that was stamped late months ago is read, and stored.
Read == /\ ~row.stored
        /\ \E kind \in {"full", "stamp", "bad"}, late \in 0..MaxLate :
             row' = [stored |-> TRUE, kind |-> kind, age |-> AtMost(late),
                     given |-> AtMost(Converted(kind, late))]
        /\ UNCHANGED <<conf, period, month, gc, early>>

\* A month passes.
Month == /\ month' = (month % 12) + 1
         /\ row' = IF ~row.stored THEN row
                   ELSE [row EXCEPT !.age = AtMost(@ + 1), !.given = AtMost(@ + 1)]
         /\ UNCHANGED <<conf, period, gc, early>>

-----------------------------------------------------------------------------
(* RetentionConfig.                                                        *)

\* RetentionConfig.Init and Start.
RetentionInit == /\ conf \in [period : Periods, interval : Intervals]
                 /\ period = Parse(conf.period)
                 /\ month \in 1..12
                 /\ gc = [pc |-> "new", tick |-> FALSE, stop |-> FALSE]
                 /\ row = NoRow
                 /\ early = FALSE

\* NewTicker panics if the interval is not positive.
NewTicker == /\ gc.pc = "new"
             /\ gc' = [gc EXCEPT !.pc =
                         IF Parse(conf.interval) > 0 THEN "first" ELSE "panic"]
             /\ UNCHANGED <<conf, period, month, row, early>>

Tick == /\ gc.pc \in {"first", "select", "cleanup"}
        /\ ~gc.tick
        /\ gc' = [gc EXCEPT !.tick = TRUE]
        /\ UNCHANGED <<conf, period, month, row, early>>

\* RetentionConfig.Stop.
Stop == /\ gc.pc \in {"new", "first", "select", "cleanup"}
        /\ ~gc.stop
        /\ gc' = [gc EXCEPT !.stop = TRUE]
        /\ UNCHANGED <<conf, period, month, row, early>>

TakeTick == /\ gc.pc = "select"
            /\ gc.tick
            /\ gc' = [gc EXCEPT !.pc = "cleanup", !.tick = FALSE]
            /\ UNCHANGED <<conf, period, month, row, early>>

TakeStop == /\ gc.pc = "select"
            /\ gc.stop
            /\ gc' = [gc EXCEPT !.pc = "done", !.tick = FALSE]
            /\ UNCHANGED <<conf, period, month, row, early>>

\* SQLiteStorage.Cleanup, of the first call and of the later ones.
Cleanup ==
  /\ gc.pc \in {"first", "cleanup"}
  /\ gc' = [gc EXCEPT !.pc = "select"]
  /\ IF row.stored /\ row.given > period
     THEN /\ row' = NoRow
          /\ early' = (early \/ (row.kind # "bad" /\ row.age <= Exact(conf.period)))
     ELSE UNCHANGED <<row, early>>
  /\ UNCHANGED <<conf, period, month>>

\* Mutant: an error ends the goroutine.
CleanupFails_Returns == /\ gc.pc \in {"first", "cleanup"}
                        /\ gc' = [gc EXCEPT !.pc = "returned"]
                        /\ UNCHANGED <<conf, period, month, row, early>>

\* An error of the database, as after Close, changes nothing.
CleanupFails == /\ gc.pc \in {"first", "cleanup"}
                /\ gc' = [gc EXCEPT !.pc = "select"]
                /\ UNCHANGED <<conf, period, month, row, early>>

\* The process is started again.
Restart == /\ gc.pc \in {"done", "panic"}
           /\ gc' = [gc EXCEPT !.pc = "new", !.stop = FALSE]
           /\ UNCHANGED <<conf, period, month, row, early>>

-----------------------------------------------------------------------------
Goroutine == NewTicker \/ TakeTick \/ TakeStop \/ Cleanup \/ CleanupFails

RetentionNext == Read \/ Month \/ Tick \/ Stop \/ Restart \/ Goroutine

RetentionSpec == RetentionInit /\ [][RetentionNext]_retentionVars

\* Time passes, the ticker ticks, the goroutine is scheduled, and a clean-up
\* that is tried over and over succeeds at last.
RetentionFairSpec == /\ RetentionSpec
                     /\ WF_retentionVars(Month)
                     /\ WF_retentionVars(Tick)
                     /\ WF_retentionVars(Goroutine)
                     /\ SF_retentionVars(Cleanup)

-----------------------------------------------------------------------------
(* Correctness.                                                            *)

\* A row is only deleted when its line is older than the configured period,
\* however late it was read and whatever year was inferred; except lines whose
\* timestamp cannot be converted, and periods that do not fit an int64.
OnlyOldRowsCleaned == early => Exact(conf.period) > MaxInt

\* Every row is deleted in the end, also when clean-ups fail or its year was
\* inferred wrongly, unless the goroutine is stopped or cannot start.
OldRowsGo == row.stored ~> ~row.stored \/ gc.stop \/ gc.pc = "panic"
=============================================================================
