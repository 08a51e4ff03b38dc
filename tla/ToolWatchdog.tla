----------------------------- MODULE ToolWatchdog -----------------------------
(***************************************************************************)
(* agent/tool_watchdog.go executeToolCall: one tool call on its own          *)
(* goroutine, raced against the run's context, the pause poll and the        *)
(* per-call ceiling.  Three actors take steps: the Run goroutine in the      *)
(* select loop, the detached goroutine, and the environment (host, clock).   *)
(***************************************************************************)
EXTENDS Naturals

CONSTANTS
    Configs,    \* [pause : pauseChecker # nil, ceiling : toolCallTimeout > 0, not exempt]
    Behaviours  \* what Execute does, see BehaviourAssumption

(* A tool returns by itself, only once its context ends, or never.           *)
ASSUME BehaviourAssumption == Behaviours \subseteq {"returns", "cooperative", "stuck"}
ASSUME WatchdogConfigsAssumption == Configs \subseteq [pause : BOOLEAN, ceiling : BOOLEAN]

VARIABLES
    cfg, tool,   \* the executor's settings; the tool's behaviour
    ctx,         \* the run's context: "live" or "cancelled"
    released,    \* cancelCall has been called
    g,           \* the detached goroutine
    done,        \* the result channel of capacity one
    tick,        \* a tick waits in the ticker's channel
    timer,       \* the ceiling's timer: "off", "armed", "fired", "read"
    pause,       \* what the pause checker answers
    pc,          \* where the Run goroutine is
    out,         \* what executeToolCall returned
    wasDone,     \* history: the result was there when the arm was taken
    wasCancelled \* history: the context was cancelled when the arm was taken

envVars == <<cfg, tool, ctx, pause, tick, timer>>
runVars == <<pc, out, released, wasDone, wasCancelled>>
vars == <<envVars, g, done, runVars>>

Waits == {"first", "select", "tickCtx", "timeCtx", "drainCtx", "drainTick", "drainTime", "poll"}

TypeOK ==
    /\ cfg \in Configs /\ tool \in Behaviours
    /\ ctx \in {"live", "cancelled"} /\ pause \in BOOLEAN
    /\ released \in BOOLEAN /\ tick \in BOOLEAN
    /\ g \in {"run", "send", "recover", "gone"} /\ done \in {"empty", "result", "panic"}
    /\ timer \in {"off", "armed", "fired", "read"}
    /\ pc \in Waits \union {"returned"}
    /\ out \in {"none", "result", "panic", "cancelled", "paused", "timeout"}
    /\ wasDone \in BOOLEAN /\ wasCancelled \in BOOLEAN

(* The call's context ends with the run's or with the call.                  *)
CallCtxDone == ctx = "cancelled" \/ released

Init ==
    /\ cfg \in Configs /\ tool \in Behaviours
    /\ ctx \in {"live", "cancelled"} /\ pause \in BOOLEAN
    /\ released = FALSE /\ g = "run" /\ done = "empty" /\ tick = FALSE
    /\ timer = (IF cfg.ceiling THEN "armed" ELSE "off")
    /\ pc = "first" /\ out = "none" /\ wasDone = FALSE /\ wasCancelled = FALSE

-----------------------------------------------------------------------------
(* The environment                                                           *)

CancelRun ==
    /\ ctx = "live" /\ ctx' = "cancelled"
    /\ UNCHANGED <<cfg, tool, pause, tick, timer, g, done, runVars>>

RequestPause ==
    /\ ~pause /\ pause' = TRUE
    /\ UNCHANGED <<cfg, tool, ctx, tick, timer, g, done, runVars>>

(* A ticker drops ticks nobody reads.                                        *)
TickFires ==
    /\ cfg.pause /\ pc \notin {"first", "returned"} /\ ~tick
    /\ tick' = TRUE
    /\ UNCHANGED <<cfg, tool, ctx, pause, timer, g, done, runVars>>

TimerFires ==
    /\ timer = "armed" /\ pc \notin {"first", "returned"}
    /\ timer' = "fired"
    /\ UNCHANGED <<cfg, tool, ctx, pause, tick, g, done, runVars>>

-----------------------------------------------------------------------------
(* The detached goroutine                                                    *)

(* tools.Execute returns, or panics and is recovered.                        *)
ExecuteEnds ==
    /\ g = "run"
    /\ tool = "returns" \/ (tool = "cooperative" /\ CallCtxDone)
    /\ g' \in {"send", "recover"}
    /\ UNCHANGED <<envVars, done, runVars>>

(* Mutant: the channel has no buffer, a send needs a receiver in select.     *)
SendOutcomeUnbuffered ==
    /\ g \in {"send", "recover"} /\ done = "empty" /\ pc = "select"
    /\ done' = (IF g = "send" THEN "result" ELSE "panic")
    /\ g' = "gone"
    /\ UNCHANGED <<envVars, runVars>>

SendOutcome ==
    /\ g \in {"send", "recover"} /\ done = "empty"
    /\ done' = (IF g = "send" THEN "result" ELSE "panic")
    /\ g' = "gone"
    /\ UNCHANGED <<envVars, runVars>>

-----------------------------------------------------------------------------
(* executeToolCall                                                           *)

(* Mutant: the call's context is not cancelled on the way out.               *)
ReturnWithUncancelled(o) == pc' = "returned" /\ out' = o /\ UNCHANGED released

(* Every return runs the deferred cancelCall.                                *)
ReturnWith(o) == pc' = "returned" /\ out' = o /\ released' = TRUE

(* drainToolResult, then whatever the arm does without a result.             *)
DrainOr(elseStep) ==
    \/ done # "empty" /\ ReturnWith(done) /\ done' = "empty"
    \/ done = "empty" /\ elseStep /\ UNCHANGED done

GoTo(where) == pc' = where /\ UNCHANGED <<out, released>>

DrainFirst ==
    /\ pc = "first" /\ DrainOr(GoTo("select"))
    /\ UNCHANGED <<envVars, g, wasDone, wasCancelled>>

(* select takes any arm that is ready.                                       *)
Observe == wasDone' = (done # "empty") /\ wasCancelled' = (ctx = "cancelled")

(* Mutant: a receive that succeeds although nothing was sent (a closed        *)
(* channel).                                                                 *)
SelectDoneClosed ==
    /\ pc = "select"
    /\ ReturnWith(done) /\ done' = "empty" /\ Observe
    /\ UNCHANGED <<envVars, g>>

SelectDone ==
    /\ pc = "select" /\ done # "empty"
    /\ ReturnWith(done) /\ done' = "empty" /\ Observe
    /\ UNCHANGED <<envVars, g>>

SelectCtx ==
    /\ pc = "select" /\ ctx = "cancelled"
    /\ GoTo("drainCtx") /\ Observe
    /\ UNCHANGED <<envVars, g, done>>

SelectTick ==
    /\ pc = "select" /\ tick /\ tick' = FALSE
    /\ GoTo("tickCtx") /\ Observe
    /\ UNCHANGED <<cfg, tool, ctx, pause, timer, g, done>>

SelectTimeout ==
    /\ pc = "select" /\ timer = "fired" /\ timer' = "read"
    /\ GoTo("timeCtx") /\ Observe
    /\ UNCHANGED <<cfg, tool, ctx, pause, tick, g, done>>

(* Mutant: the pause arm does not look at the context.                       *)
CheckCtxTimeoutOnly ==
    /\ \/ pc = "timeCtx" /\ ctx = "cancelled" /\ GoTo("drainCtx")
       \/ pc = "tickCtx" /\ GoTo("drainTick")
       \/ pc = "timeCtx" /\ ctx = "live" /\ GoTo("drainTime")
    /\ UNCHANGED <<envVars, g, done, wasDone, wasCancelled>>

(* Cancellation goes before a pause and a timeout.                           *)
CheckCtx ==
    /\ \/ pc \in {"tickCtx", "timeCtx"} /\ ctx = "cancelled" /\ GoTo("drainCtx")
       \/ pc = "tickCtx" /\ ctx = "live" /\ GoTo("drainTick")
       \/ pc = "timeCtx" /\ ctx = "live" /\ GoTo("drainTime")
    /\ UNCHANGED <<envVars, g, done, wasDone, wasCancelled>>

(* Mutant: a cancelled wait goes back to waiting for the tool.               *)
DrainCtxWaits ==
    /\ pc = "drainCtx" /\ DrainOr(GoTo("select"))
    /\ UNCHANGED <<envVars, g, wasDone, wasCancelled>>

DrainCtx ==
    /\ pc = "drainCtx" /\ DrainOr(ReturnWith("cancelled"))
    /\ UNCHANGED <<envVars, g, wasDone, wasCancelled>>

DrainTick ==
    /\ pc = "drainTick" /\ DrainOr(GoTo("poll"))
    /\ UNCHANGED <<envVars, g, wasDone, wasCancelled>>

(* Mutant: the ceiling returns without looking for a result.                 *)
DrainTimeoutNoDrain ==
    /\ pc = "drainTime" /\ ReturnWith("timeout")
    /\ UNCHANGED <<envVars, g, done, wasDone, wasCancelled>>

DrainTimeout ==
    /\ pc = "drainTime" /\ DrainOr(ReturnWith("timeout"))
    /\ UNCHANGED <<envVars, g, wasDone, wasCancelled>>

PollPause ==
    /\ pc = "poll"
    /\ IF pause THEN ReturnWith("paused") ELSE GoTo("select")
    /\ UNCHANGED <<envVars, g, done, wasDone, wasCancelled>>

Returned == pc = "returned" /\ UNCHANGED vars

RunSide == \/ DrainFirst \/ SelectDone \/ SelectCtx \/ SelectTick \/ SelectTimeout \/ CheckCtx
        \/ DrainCtx \/ DrainTick \/ DrainTimeout \/ PollPause
Goroutine == ExecuteEnds \/ SendOutcome
Environment == CancelRun \/ RequestPause \/ TickFires \/ TimerFires

Next == RunSide \/ Goroutine \/ Environment \/ Returned

Spec == Init /\ [][Next]_vars

(* Goroutines are scheduled and clocks advance; select chooses at random, so *)
(* no arm that keeps being ready is passed over for ever.                    *)
Fairness ==
    /\ WF_vars(RunSide) /\ WF_vars(Goroutine) /\ WF_vars(TickFires) /\ WF_vars(TimerFires)
    /\ SF_vars(SelectTimeout) /\ SF_vars(SelectTick)

LiveSpec == Spec /\ Fairness

-----------------------------------------------------------------------------
(* Properties                                                                *)

(* A result that was delivered when an arm was taken is what the call        *)
(* returns: a cancellation, a pause or a timeout ready at the same moment    *)
(* never discards finished work.                                             *)
FinishedWorkWins == out \in {"cancelled", "paused", "timeout"} => ~wasDone

(* A run whose context was cancelled when an arm was taken is not reported   *)
(* as paused or timed out, whichever arm select picked.                      *)
CancellationWins == out \in {"paused", "timeout"} => ~wasCancelled

(* The detached goroutine ends once Execute has: its send never blocks,      *)
(* whether or not somebody still waits for the result.                       *)
NoGoroutineLeak == (g \in {"send", "recover"}) ~> (g = "gone")

(* A tool that honours its context is dismissed when the call is abandoned.  *)
AbandonedIsDismissed == (pc = "returned" /\ tool = "cooperative") ~> (g = "gone")

(* Cancellation, a pause while polling and the ceiling each end the wait,    *)
(* also for a tool that never returns.                                       *)
CallReturns ==
    (ctx = "cancelled" \/ (pause /\ cfg.pause) \/ cfg.ceiling) ~> (pc = "returned")

(* Whichever arm select picks among those ready, the outcome is ranked:      *)
(* finished work, then cancellation, then pause and timeout.                 *)
RightOutcome ==
    /\ TypeOK
    /\ FinishedWorkWins
    /\ CancellationWins

(* Neither the caller nor the detached goroutine nor an abandoned prompt     *)
(* waits for ever.                                                           *)
NobodyHangs ==
    /\ NoGoroutineLeak
    /\ AbandonedIsDismissed
    /\ CallReturns
=============================================================================
