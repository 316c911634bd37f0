---------------------------- MODULE SystemWatcher ----------------------------
(***************************************************************************)
(* The system input of an agent: one goroutine that collects at once, then *)
(* at every tick until Stop closes its channel.  A collection reads the    *)
(* parts in a fixed order and gives up at the first error: only this order *)
(* keeps a counter from belonging to a row that is never written.          *)
(*                                                                         *)
(* One disk counter and one network counter stand for all of them (each is *)
(* kept and subtracted by itself); the percentages are left out.           *)
(***************************************************************************)
EXTENDS Integers

CONSTANTS
  MaxCounter   \* bound on the counters of the system

ASSUME SystemAssumption == MaxCounter \in Nat

VARIABLES
  sysConf,    \* the parts that are configured
  sw,         \* the goroutine: its place, its tick and stop channels, diskInfo,
              \* netInfo and the row being collected
  counter,    \* the system's counters
  total       \* history: per counter, its first reading and the deltas written

systemVars == <<sysConf, sw, counter, total>>

Parts == {"disk", "net"}

Unread == [ok |-> FALSE, last |-> 0]
NoDelta == [p \in Parts |-> 0]

SystemInit ==
  /\ sysConf \in SUBSET Parts
  /\ sw = [pc |-> "none", tick |-> FALSE, stop |-> FALSE, ticker |-> FALSE,
           kept |-> [p \in Parts |-> Unread], row |-> NoDelta]
  /\ counter = [p \in Parts |-> 0]
  /\ total = [p \in Parts |-> 0]

\* The fields of the rows that _collect writes.
RowFields == {"time", "base"} \cup Parts

\* SystemWatcher.Fields: those of the table.
SystemFields == {"time", "base"} \cup sysConf

-----------------------------------------------------------------------------
(* The system, whose counters matter while the goroutine runs.             *)

Watched == sw.pc \notin {"none", "done", "panic"}

Count(p) == /\ Watched
            /\ counter[p] < MaxCounter
            /\ counter' = [counter EXCEPT ![p] = @ + 1]
            /\ UNCHANGED <<sysConf, sw, total>>

\* The interface or the device is set up anew.
ResetCounter(p) == /\ Watched
                   /\ counter[p] > 0
                   /\ counter' = [counter EXCEPT ![p] = 0]
                   /\ UNCHANGED <<sysConf, sw, total>>

Tick == /\ sw.ticker
        /\ ~sw.tick
        /\ sw' = [sw EXCEPT !.tick = TRUE]
        /\ UNCHANGED <<sysConf, counter, total>>

-----------------------------------------------------------------------------
(* Start, Stop and watch.                                                  *)

SystemStart == /\ sw.pc = "none"
               /\ sw' = [sw EXCEPT !.pc = "collect"]
               /\ UNCHANGED <<sysConf, counter, total>>

SystemStop == /\ sw.pc # "none"
              /\ sw' = [sw EXCEPT !.stop = TRUE]
              /\ UNCHANGED <<sysConf, counter, total>>

At(pc) == sw.pc = pc /\ UNCHANGED sysConf

\* A collection has ended: the first one is followed by NewTicker, which
\* panics if the configured interval is zero.
Collected == \/ sw' = [sw EXCEPT !.row = NoDelta, !.pc = "select", !.ticker = TRUE]
             \/ /\ ~sw.ticker
                /\ sw' = [sw EXCEPT !.row = NoDelta, !.pc = "panic"]

TakeTick == /\ At("select")
            /\ sw.tick
            /\ sw' = [sw EXCEPT !.pc = "collect", !.tick = FALSE]
            /\ UNCHANGED <<counter, total>>

TakeStop == /\ At("select")
            /\ sw.stop
            /\ sw' = [sw EXCEPT !.pc = "done", !.ticker = FALSE, !.tick = FALSE]
            /\ UNCHANGED <<counter, total>>

-----------------------------------------------------------------------------
(* _collect.                                                               *)

\* A part gives up the collection: the row is not written.
CollectFails == /\ sw.pc \in {"collect", "disk"} /\ UNCHANGED sysConf
                /\ sw.pc = "disk" => "disk" \in sysConf
                /\ Collected
                /\ UNCHANGED <<counter, total>>

\* Uptime, cpu and memory.
CollectBase == /\ At("collect")
               /\ sw' = [sw EXCEPT !.pc = "disk"]
               /\ UNCHANGED <<counter, total>>

\* A part that is not configured is called all the same.
PartMissing == /\ \/ At("disk") /\ "disk" \notin sysConf
                  \/ At("net") /\ "net" \notin sysConf
               /\ sw' = [sw EXCEPT !.pc = "panic"]
               /\ UNCHANGED <<counter, total>>

\* Part p has read value v; the collection goes on at pc.
Reading(p, v, pc) ==
  LET k == sw.kept[p]
  IN /\ sw' = [sw EXCEPT !.pc = pc,
                         !.kept[p] = [ok |-> TRUE, last |-> v],
                         !.row[p] = IF k.ok THEN v - k.last ELSE 0]
     /\ total' = [total EXCEPT ![p] = IF k.ok THEN @ ELSE v]
     /\ UNCHANGED counter

\* Without a device, or without its counters, the delta is 0.
CollectDisk == /\ At("disk")
               /\ "disk" \in sysConf
               /\ \/ Reading("disk", counter["disk"], "net")
                  \/ /\ sw' = [sw EXCEPT !.pc = "net"]
                     /\ UNCHANGED <<counter, total>>

\* Mutant: a counter that cannot be read has no delta, and is kept as 0.
CollectNet_NoDelta ==
  /\ At("net")
  /\ "net" \in sysConf
  /\ \/ Reading("net", counter["net"], "write")
     \/ /\ sw' = [sw EXCEPT !.pc = "write", !.kept["net"] = [ok |-> TRUE, last |-> 0]]
        /\ UNCHANGED <<counter, total>>

\* A counter that cannot be read counts as 0.
CollectNet == /\ At("net")
              /\ "net" \in sysConf
              /\ \E v \in {counter["net"], 0} : Reading("net", v, "write")

WriteRow == /\ At("write")
            /\ Collected
            /\ total' = [p \in Parts |-> total[p] + sw.row[p]]
            /\ UNCHANGED counter

-----------------------------------------------------------------------------
\* The steps of the goroutine that write no row, and those of the system.
SystemStep == \/ \E p \in Parts : Count(p) \/ ResetCounter(p)
              \/ Tick \/ TakeTick \/ TakeStop
              \/ CollectFails \/ CollectBase \/ PartMissing
              \/ CollectDisk \/ CollectNet

-----------------------------------------------------------------------------
\* What a part reported in all rows, from its first reading on, is what it kept
\* last: no collection that fails, no counter that cannot be read or begins
\* again takes a delta away or counts it twice.
DeltasAddUp == \A p \in Parts : total[p] + sw.row[p] = sw.kept[p].last
=============================================================================
