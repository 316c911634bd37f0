------------------------------ MODULE Debounce ------------------------------
(***************************************************************************)
(* pkg/debounce: the goroutine that turns bursts of Emit calls into spaced *)
(* runs of one function.  Emit is a non-blocking send on a channel of      *)
(* capacity one, the goroutine selects over the stop channel, that channel *)
(* and a timer, and an Emit that finds the timer running is absorbed.      *)
(*                                                                         *)
(* Time is counted in ticks of the delay.  Since Go 1.23 (go.mod requires  *)
(* 1.24) a stopped or reset timer delivers no stale value, so the timer is *)
(* one number.  The function itself is abstract: it returns.               *)
(***************************************************************************)
EXTENDS Integers

CONSTANT
  Delay        \* ticks between the first absorbed Emit and the run

ASSUME DebounceAssumption == Delay \in Nat

Off == -1

VARIABLES
  immediate,     \* run the function once when the goroutine starts
  slot,          \* the debounce channel holds its one element
  stop,          \* the stop channel is closed
  timer,         \* Off, or the ticks left; at 0 timer.C is ready
  timerActive,   \* the goroutine's local flag
  pc,            \* where the goroutine is
  unserved,      \* history: some Emit has had no run begin after it
  gap            \* history: ticks since a run last began, up to Delay

vars == <<immediate, slot, stop, timer, timerActive, pc, unserved, gap>>

Init == /\ immediate \in BOOLEAN
        /\ slot = FALSE
        /\ stop = FALSE
        /\ timer = Off
        /\ timerActive = FALSE
        /\ pc = "start"
        /\ unserved = FALSE
        /\ gap = Delay

-----------------------------------------------------------------------------
(* The callers and the clock.                                              *)

Emit == /\ slot' = TRUE
        /\ unserved' = TRUE
        /\ UNCHANGED <<immediate, stop, timer, timerActive, pc, gap>>

Stop == /\ ~stop
        /\ stop' = TRUE
        /\ UNCHANGED <<immediate, slot, timer, timerActive, pc, unserved, gap>>

Tick == /\ timer > 0 \/ gap < Delay
        /\ timer' = IF timer > 0 THEN timer - 1 ELSE timer
        /\ gap' = IF gap < Delay THEN gap + 1 ELSE gap
        /\ UNCHANGED <<immediate, slot, stop, timerActive, pc, unserved>>

-----------------------------------------------------------------------------
(* The goroutine.                                                          *)

BeginRun == /\ unserved' = FALSE
            /\ gap' = 0

StartImmediate == /\ pc = "start"
                  /\ immediate
                  /\ pc' = "immediate"
                  /\ BeginRun
                  /\ UNCHANGED <<immediate, slot, stop, timer, timerActive>>

StartWaiting == /\ pc = "start"
                /\ ~immediate
                /\ pc' = "select"
                /\ UNCHANGED <<immediate, slot, stop, timer, timerActive, unserved, gap>>

ReturnImmediate == /\ pc = "immediate"
                   /\ pc' = "select"
                   /\ UNCHANGED <<immediate, slot, stop, timer, timerActive, unserved, gap>>

\* Mutant: the loop is not left.
TakeStop_BreaksSelect == /\ pc = "select"
                         /\ stop
                         /\ timer' = IF timerActive THEN Off ELSE timer
                         /\ UNCHANGED <<immediate, slot, stop, timerActive, pc, unserved, gap>>

TakeStop == /\ pc = "select"
            /\ stop
            /\ timer' = IF timerActive THEN Off ELSE timer
            /\ pc' = "exited"
            /\ UNCHANGED <<immediate, slot, stop, timerActive, unserved, gap>>

\* Mutant: no delay.
TakeSignal_AtOnce == /\ pc = "select"
                     /\ slot
                     /\ slot' = FALSE
                     /\ timer' = IF timerActive THEN timer ELSE 0
                     /\ timerActive' = TRUE
                     /\ UNCHANGED <<immediate, stop, pc, unserved, gap>>

\* The delay runs from the first signal: a later one does not reset it.
TakeSignal == /\ pc = "select"
              /\ slot
              /\ slot' = FALSE
              /\ timer' = IF timerActive THEN timer ELSE Delay
              /\ timerActive' = TRUE
              /\ UNCHANGED <<immediate, stop, pc, unserved, gap>>

TakeTimer == /\ pc = "select"
             /\ timer = 0
             /\ timer' = Off
             /\ pc' = "running"
             /\ BeginRun
             /\ UNCHANGED <<immediate, slot, stop, timerActive>>

\* Mutant: timerActive is not reset.
Return_StaysActive == /\ pc = "running"
                      /\ pc' = "select"
                      /\ UNCHANGED <<immediate, slot, stop, timer, timerActive, unserved, gap>>

Return == /\ pc = "running"
          /\ pc' = "select"
          /\ timerActive' = FALSE
          /\ UNCHANGED <<immediate, slot, stop, timer, unserved, gap>>

Goroutine == \/ StartImmediate \/ StartWaiting \/ ReturnImmediate
             \/ TakeStop \/ TakeSignal \/ TakeTimer \/ Return

Next == Emit \/ Stop \/ Tick \/ Goroutine

Spec == Init /\ [][Next]_vars

\* The scheduler runs the goroutine, the function returns and the clock
\* advances.  Go's select picks uniformly among the ready cases: a case that
\* stays ready is eventually taken, and so is the closed stop channel, which
\* is ready at every select (hence SF: it is not one while the function runs).
Fairness == /\ WF_vars(StartImmediate \/ StartWaiting)
            /\ WF_vars(ReturnImmediate \/ Return)
            /\ SF_vars(TakeStop)
            /\ WF_vars(TakeSignal)
            /\ WF_vars(TakeTimer)
            /\ WF_vars(Tick)

FairSpec == Spec /\ Fairness

-----------------------------------------------------------------------------
(* Correctness.                                                            *)

\* The state is well formed: watch's locals, its channels and its timer.
TypeOK == /\ immediate \in BOOLEAN
          /\ slot \in BOOLEAN
          /\ stop \in BOOLEAN
          /\ timer \in Off..Delay
          /\ timerActive \in BOOLEAN
          /\ pc \in {"start", "immediate", "select", "running", "exited"}
          /\ unserved \in BOOLEAN
          /\ gap \in 0..Delay

\* An Emit that no run has answered yet is still visible to watch, in the
\* channel or in the timer: the default branch of Emit and the signals
\* absorbed while timerActive lose nothing, even during a run of fn.
NoLostEmit == unserved /\ pc # "exited" => slot \/ timer # Off

\* watch's timerActive agrees with the timer whenever watch can test it.
TimerTracked ==
  /\ pc \in {"start", "immediate"} => ~timerActive /\ timer = Off
  /\ pc = "select" => (timerActive <=> timer # Off)
  /\ pc = "running" => timerActive /\ timer = Off
  /\ pc = "exited" => timer = Off

\* A timer that has been running for so many ticks leaves a gap at least as
\* long behind it, since watch arms it after the previous run has begun.
GapCovered == timer # Off => gap >= Delay - timer

\* The inductive invariant of watch.
IInv == TypeOK /\ TimerTracked /\ NoLostEmit /\ GapCovered

\* Runs caused by signals begin at least Delay after the run before them,
\* however the Emits fall: the rate limit the debouncer exists for.
RunsSpaced == [][pc' = "running" /\ pc # "running" => gap = Delay]_vars

\* watch keeps the promises of Trigger: the runs owed are the signal in the
\* channel, the one in the timer, and the immediate run not yet begun.
One(b) == IF b THEN 1 ELSE 0

T == INSTANCE Trigger WITH
       owed <- One(slot) + One(timer # Off) + One(pc = "start" /\ immediate),
       phase <- CASE pc \in {"start", "select"} -> "idle"
                  [] pc \in {"immediate", "running"} -> "busy"
                  [] OTHER -> "exited",
       closed <- stop

ImplementsTrigger == T!TrigFairSpec
=============================================================================
