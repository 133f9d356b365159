------------------------------- MODULE Timers -------------------------------
(***************************************************************************)
(* Intervals and timeouts (natives.go, native_misc.go).  An interval is a  *)
(* goroutine that selects between its done channel and a Go ticker and     *)
(* runs the callback; a timeout is a Go timer that runs it once on a       *)
(* goroutine of its own.  The handle a program holds is a pointer shared   *)
(* by every goroutine that has a copy of the value, and the cancel words   *)
(* check, stop, close and clear it in separate steps with no lock.         *)
(*                                                                         *)
(* The goroutines that cancel are the programs (top-level runs, whose      *)
(* engine turns a panic into an error) and the callbacks themselves (a     *)
(* sub-engine on a timer goroutine, where a panic ends the process).       *)
(***************************************************************************)
EXTENDS Naturals, FiniteSets

CONSTANTS
    Intervals, Timeouts,   \* the timers, by kind
    Programs,              \* the goroutines of top-level runs
    MaxTicks,              \* bound on the ticks of an interval
    MaxCancels             \* bound on the cancels a goroutine calls

Timers == Intervals \cup Timeouts
Goroutines == Programs \cup Timers     \* a timer's callback is named after it

ASSUME TimersAssumption ==
    /\ Intervals \cap Timeouts = {}
    /\ Programs \cap Timers = {}
    /\ MaxTicks \in Nat
    /\ MaxCancels \in Nat

VARIABLES
    armed,      \* the Go timer or ticker is running
    pending,    \* a tick waits in the ticker's channel
    stage,      \* "new", "idle", "received" (the callback is due), "running", "ended"
    handle,     \* the Timer or Ticker field of the handle is not nil
    done,       \* the interval's done channel is closed
    ticks,      \* the ticks of an interval so far
    cancel,     \* the step of the cancel a goroutine is in, and its timer
    cancels,    \* the cancels a goroutine has called
    failed,     \* the goroutines in which a cancel has panicked
    crashed,    \* the process has ended by a panic nobody recovers
    late,       \* callbacks begun since a cancel of the timer returned
    returned,   \* the timers a cancel of which has returned
    raced       \* the goroutines whose cancel overlapped another of the timer

timersVars == <<armed, pending, stage, handle, done, ticks, cancel, cancels, failed,
          crashed, late, returned, raced>>

timerVars == <<armed, pending, stage, handle, done, ticks>>
cancelVars == <<cancel, cancels, failed, crashed>>
history == <<late, returned, raced>>

NotCancelling == [step |-> "none"]
Cancelling(g, t) == cancel[g].step # "none" /\ cancel[g].timer = t

TimersInit ==
    /\ armed = [t \in Timers |-> FALSE]
    /\ pending = [t \in Timers |-> FALSE]
    /\ stage = [t \in Timers |-> "new"]
    /\ handle = [t \in Timers |-> FALSE]
    /\ done = [t \in Timers |-> FALSE]
    /\ ticks = [t \in Timers |-> 0]
    /\ cancel = [g \in Goroutines |-> NotCancelling]
    /\ cancels = [g \in Goroutines |-> 0]
    /\ failed = {}
    /\ crashed = FALSE
    /\ late = [t \in Timers |-> 0]
    /\ returned = {}
    /\ raced = {}

\* startInterval and doTimeout.
Start(t) ==
    /\ ~crashed
    /\ stage[t] = "new"
    /\ stage' = [stage EXCEPT ![t] = "idle"]
    /\ armed' = [armed EXCEPT ![t] = TRUE]
    /\ handle' = [handle EXCEPT ![t] = TRUE]
    /\ UNCHANGED <<pending, done, ticks, cancelVars, history>>

\* The ticker's channel holds one tick; the ticks it has no room for are lost.
Tick(t) ==
    /\ ~crashed
    /\ t \in Intervals
    /\ armed[t]
    /\ ~pending[t]
    /\ ticks[t] < MaxTicks
    /\ pending' = [pending EXCEPT ![t] = TRUE]
    /\ ticks' = [ticks EXCEPT ![t] = @ + 1]
    /\ UNCHANGED <<armed, stage, handle, done, cancelVars, history>>

\* The select of the interval's goroutine chooses the tick.
Take(t) ==
    /\ ~crashed
    /\ stage[t] = "idle"
    /\ pending[t]
    /\ pending' = [pending EXCEPT ![t] = FALSE]
    /\ stage' = [stage EXCEPT ![t] = "received"]
    /\ UNCHANGED <<armed, handle, done, ticks, cancelVars, history>>

\* The select of the interval's goroutine chooses the done channel.
LoopEnd(t) ==
    /\ ~crashed
    /\ stage[t] = "idle"
    /\ done[t]
    /\ stage' = [stage EXCEPT ![t] = "ended"]
    /\ UNCHANGED <<armed, pending, handle, done, ticks, cancelVars, history>>

\* The Go timer expires and its function is started.
Fire(t) ==
    /\ ~crashed
    /\ t \in Timeouts
    /\ armed[t]
    /\ armed' = [armed EXCEPT ![t] = FALSE]
    /\ stage' = [stage EXCEPT ![t] = "received"]
    /\ UNCHANGED <<pending, handle, done, ticks, cancelVars, history>>

\* RunTimerCallback begins.
Begin(t) ==
    /\ ~crashed
    /\ stage[t] = "received"
    /\ stage' = [stage EXCEPT ![t] = "running"]
    /\ late' = [late EXCEPT ![t] = @ + IF t \in returned THEN 1 ELSE 0]
    /\ UNCHANGED <<armed, pending, handle, done, ticks, cancelVars, returned, raced>>

\* RunTimerCallback returns.
Return(t) ==
    /\ ~crashed
    /\ stage[t] = "running"
    /\ cancel[t] = NotCancelling
    /\ stage' = [stage EXCEPT ![t] = IF t \in Intervals THEN "idle" ELSE "ended"]
    /\ UNCHANGED <<armed, pending, handle, done, ticks, cancelVars, history>>

(***************************************************************************)
(* cancel-interval and cancel-timeout.  The check: a handle whose field is *)
(* nil has been cancelled and there is nothing to do.                      *)
(***************************************************************************)
Cancel(g, t) ==
    /\ ~crashed
    /\ g \in Timers => stage[g] = "running"
    /\ g \notin failed
    /\ cancel[g] = NotCancelling
    /\ cancels[g] < MaxCancels
    /\ stage[t] # "new"
    /\ cancels' = [cancels EXCEPT ![g] = @ + 1]
    /\ \/ /\ handle[t]
          /\ cancel' = [cancel EXCEPT ![g] = [step |-> "stop", timer |-> t]]
          /\ LET others == {h \in Goroutines : Cancelling(h, t)}
             IN  raced' = IF others = {} THEN raced ELSE raced \cup others \cup {g}
          /\ UNCHANGED returned
       \/ /\ ~handle[t]
          /\ returned' = returned \cup {t}
          /\ UNCHANGED <<cancel, raced>>
    /\ UNCHANGED <<timerVars, failed, crashed, late>>

\* A panic in g's cancel: a program's engine recovers, a callback's does not.
Panic(g) ==
    /\ cancel' = [cancel EXCEPT ![g] = NotCancelling]
    /\ failed' = failed \cup {g}
    /\ crashed' = (g \in Timers)
    /\ UNCHANGED <<timerVars, cancels, history>>

StepTo(g, step) == cancel' = [cancel EXCEPT ![g].step = step]

\* Mutant of StopTimer: a tick that waits in the channel stays there (the
\* semantics of Go before 1.23).
StopTimer_LeavesTick(g) ==
    LET t == cancel[g].timer
    IN  /\ ~crashed
        /\ cancel[g].step = "stop"
        /\ \/ /\ ~handle[t]
              /\ Panic(g)
           \/ /\ handle[t]
              /\ armed' = [armed EXCEPT ![t] = FALSE]
              /\ StepTo(g, IF t \in Intervals THEN "close" ELSE "clear")
              /\ UNCHANGED <<pending, stage, handle, done, ticks, cancels, failed,
                             crashed, history>>

(***************************************************************************)
(* Stop reads the field again: it may have become nil.  It leaves no tick  *)
(* behind in the channel (the semantics of Go 1.23 and later; the module   *)
(* asks for 1.24.7).  A timeout that has fired is not taken back.          *)
(***************************************************************************)
StopTimer(g) ==
    LET t == cancel[g].timer
    IN  /\ ~crashed
        /\ cancel[g].step = "stop"
        /\ \/ /\ ~handle[t]
              /\ Panic(g)
           \/ /\ handle[t]
              /\ armed' = [armed EXCEPT ![t] = FALSE]
              /\ pending' = [pending EXCEPT ![t] = FALSE]
              /\ StepTo(g, IF t \in Intervals THEN "close" ELSE "clear")
              /\ UNCHANGED <<stage, handle, done, ticks, cancels, failed, crashed,
                             history>>

\* Mutant of CloseDone: the ticker is stopped and its goroutine left waiting.
CloseDone_Skipped(g) ==
    /\ ~crashed
    /\ cancel[g].step = "close"
    /\ StepTo(g, "clear")
    /\ UNCHANGED <<timerVars, cancels, failed, crashed, history>>

\* close(ii.Done), which panics when the channel is closed.
CloseDone(g) ==
    LET t == cancel[g].timer
    IN  /\ ~crashed
        /\ cancel[g].step = "close"
        /\ \/ /\ done[t]
              /\ Panic(g)
           \/ /\ ~done[t]
              /\ done' = [done EXCEPT ![t] = TRUE]
              /\ StepTo(g, "clear")
              /\ UNCHANGED <<armed, pending, stage, handle, ticks, cancels, failed,
                             crashed, history>>

\* Mutant of ClearHandle: the field keeps pointing to the stopped ticker.
ClearHandle_Not(g) ==
    /\ ~crashed
    /\ cancel[g].step = "clear"
    /\ cancel' = [cancel EXCEPT ![g] = NotCancelling]
    /\ returned' = returned \cup {cancel[g].timer}
    /\ UNCHANGED <<timerVars, cancels, failed, crashed, late, raced>>

ClearHandle(g) ==
    LET t == cancel[g].timer
    IN  /\ ~crashed
        /\ cancel[g].step = "clear"
        /\ handle' = [handle EXCEPT ![t] = FALSE]
        /\ cancel' = [cancel EXCEPT ![g] = NotCancelling]
        /\ returned' = returned \cup {t}
        /\ UNCHANGED <<armed, pending, stage, done, ticks, cancels, failed, crashed,
                       late, raced>>

CancelStep(g) == StopTimer(g) \/ CloseDone(g) \/ ClearHandle(g)

TimersNext ==
    \/ \E t \in Timers : Start(t) \/ Tick(t) \/ Take(t) \/ LoopEnd(t) \/ Fire(t)
                         \/ Begin(t) \/ Return(t)
    \/ \E g \in Goroutines :
          \/ \E t \in Timers : Cancel(g, t)
          \/ StopTimer(g)
          \/ CloseDone(g)
          \/ ClearHandle(g)

(***************************************************************************)
(* The goroutines are scheduled and the callbacks return.  No timer has to *)
(* be started and no program has to cancel.                                *)
(***************************************************************************)
TimersFairness ==
    /\ \A t \in Timers : /\ WF_timersVars(Take(t)) /\ WF_timersVars(LoopEnd(t))
                         /\ WF_timersVars(Fire(t))
                         /\ WF_timersVars(Begin(t)) /\ WF_timersVars(Return(t))
    /\ \A g \in Goroutines : WF_timersVars(CancelStep(g))

TimersSpec == TimersInit /\ [][TimersNext]_timersVars /\ TimersFairness

(***************************************************************************)
(* Properties.                                                             *)
(***************************************************************************)

(***************************************************************************)
(* After a cancel has returned at most the callback that was already due   *)
(* begins: a tick left in the channel, or a goroutine that still chooses   *)
(* ticks over the closed done channel, would make it more.                 *)
(***************************************************************************)
AtMostOneLate == \A t \in Timers : late[t] <= 1

(***************************************************************************)
(* A cancel panics only when it overlaps another cancel of the same timer: *)
(* cancelling twice in a row, cancelling a timeout that has fired, and     *)
(* cancelling a timer from its own callback are no-ops or do their work.   *)
(***************************************************************************)
OnlyOverlapsPanic == failed \subseteq raced

\* The timer runs no callback and never will.
AtRest(t) ==
    IF t \in Intervals THEN stage[t] = "ended"
    ELSE ~armed[t] /\ stage[t] \in {"idle", "ended"}

(***************************************************************************)
(* A timer that is cancelled comes to rest for good: the interval's        *)
(* goroutine ends, the timeout is stopped or has run, also when two        *)
(* cancels collide, unless the collision ends the process.                 *)
(***************************************************************************)
CancelEnds ==
    \A t \in Timers :
        (\E g \in Goroutines : Cancelling(g, t)) ~> (crashed \/ [](AtRest(t) \/ crashed))

=============================================================================
