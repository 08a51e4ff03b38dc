------------------------------- MODULE Executor -------------------------------
(***************************************************************************)
(* agent/executor.go Run and agent/executor_run.go: the ReAct loop.  Each    *)
(* iteration asks the model once and works through the calls of its reply:   *)
(* finish and stop tools behind their gates, every other tool through the    *)
(* repeat breaker, the human in the loop, the watchdog, the result           *)
(* detectors and the verify-on-edit hook.  What the model, the tools and the *)
(* human answer is chosen by the environment.                                *)
(*                                                                          *)
(* A reply is its number of calls; each call is chosen when its turn comes.  *)
(* A batch is spliced into the reply as calls marked batched.  The           *)
(* trajectory allSteps is kept as what the gates read from it.               *)
(***************************************************************************)
EXTENDS Integers

CONSTANTS
    Tools, Args,                \* the task's tools; tool inputs
    Mutating, FileEdits,        \* mutatingTools; IsFileEditTool
    Bookkeeping,                \* the other members of circuitBreakerExemptTools
    StopTools, ChecklistTool,   \* e.stopTools; update_checklist
    Configs,                    \* executor configurations, see CfgType
    Answers,                    \* what OnStepLimit may answer
    MaxSteps,                   \* e.maxSteps
    StepBound,                  \* bound: grants stop before effMax exceeds it
    CountBound,                 \* bound: breaker counters saturate here
    MaxCalls,                   \* bound: calls in one reply
    ResumeLens,                 \* lengths of the resumed trajectory
    RepeatNudge, RepeatAbort, FruitNudge, FruitAbort, SameNudge, SameAbort,
    ParseAbort, TruncAbort      \* CircuitBreakerConfig; 0 disables

CfgType == [verify : BOOLEAN, mutation : BOOLEAN, checklist : BOOLEAN,
            suppress : BOOLEAN, hasTools : BOOLEAN]

Thresholds == {RepeatNudge, RepeatAbort, FruitNudge, FruitAbort, SameNudge, SameAbort,
               ParseAbort, TruncAbort}

ASSUME ToolsAssumption ==
    /\ "finish" \notin Tools /\ "batch" \notin Tools /\ "none" \notin Tools
    /\ Mutating \subseteq Tools /\ FileEdits \subseteq Mutating
    /\ ChecklistTool \notin Mutating
ASSUME ConfigsAssumption == Configs \subseteq CfgType
ASSUME AnswersAssumption ==
    Answers \subseteq {"once", "more", "always", "deny"} /\ "deny" \in Answers
ASSUME BoundsAssumption ==
    /\ MaxSteps \in Nat /\ StepBound \in Nat /\ CountBound \in Nat /\ MaxCalls \in Nat
    /\ CountBound > 0 /\ MaxSteps <= StepBound /\ ResumeLens \subseteq 0 .. StepBound
    /\ \A t \in Thresholds : t \in 0 .. CountBound

VARIABLES
    cfg,        \* the executor's configuration
    ctx,        \* "live" or "cancelled"
    pc,         \* where Run is
    stepNum, effMax, unlimited,  \* state.stepNum, effectiveMaxSteps, unlimitedSteps
    reactive,   \* state.reactiveCompactAttempted
    resp,       \* the reply: calls, group (ResponseGroup # 0), stop, syntax
    pos,        \* index of the call being processed
    cur,        \* the call: tool, arg, batched
    res,        \* its result: "long", "short", or an error: "parse", "error"
    trig,       \* state.circuitBreakerTriggered
    pending,    \* state.pendingVerifyEdit
    nudged,     \* the nudge counters and flags
    traj,       \* what the gates read from state.allSteps
    brk,        \* the breakers' counters, and the ones AllowAlways disabled
    exit,       \* how Run returned, "none" while it runs
    resume,     \* history: length of the resumed trajectory
    llmCalls,   \* history: model calls of this run
    mutDone,    \* history: some mutating tool executed successfully
    runs,       \* history: executions of the last call in a row, since the user last allowed it
    told,       \* history: how this reply's thought is rendered
    denied      \* history: the user denied at a breaker

loopVars == <<stepNum, effMax, unlimited, reactive, resume, llmCalls>>
callVars == <<resp, pos, cur, res>>
gateVars == <<pending, nudged, traj>>
histVars == <<mutDone, runs, told, denied>>
vars == <<cfg, ctx, pc, loopVars, callVars, trig, gateVars, brk, exit, histVars>>

Exits == {"finish", "rejected", "implicit", "stop", "limit", "aborted", "syntax",
          "pause", "pauseCall", "error", "cancelled"}
TrivialThreshold == 2  \* checklistTrivialThreshold

LoopType ==
    /\ cfg \in Configs /\ ctx \in {"live", "cancelled"}
    /\ pc \in {"boundary", "start", "llm", "reply", "call", "hitl", "exec", "fruitless",
               "same", "parse", "record", "after", "done"}
    /\ stepNum \in 1 .. StepBound + 1 /\ effMax \in 0 .. StepBound
    /\ unlimited \in BOOLEAN /\ reactive \in BOOLEAN
    /\ resume \in ResumeLens /\ llmCalls \in 0 .. StepBound + 1
    /\ exit \in Exits \union {"none"}
RespType == [n : 0 .. MaxCalls, group : BOOLEAN, stop : {"end_turn", "max_tokens"},
             syntax : BOOLEAN]
CurType == [tool : Tools \union {"none"}, arg : Args \union {"none"}, batched : BOOLEAN]
CallType ==
    /\ resp \in RespType /\ pos \in 1 .. MaxCalls + 1 /\ cur \in CurType
    /\ res \in {"long", "short", "parse", "error"}
NudgedType == [syntax : 0 .. 3, implicit : 0 .. 2, finish : BOOLEAN,
               mutation : BOOLEAN, missing : BOOLEAN, unchecked : BOOLEAN]
TrajType == [mutated : BOOLEAN, list : {"none", "open", "done"},
             productive : 0 .. TrivialThreshold + 1]
GateType ==
    trig \in BOOLEAN /\ pending \in BOOLEAN /\ nudged \in NudgedType /\ traj \in TrajType
BrkType ==
    [key : (Tools \union {"none"}) \X (Args \union {"none"}), rep : 0 .. CountBound,
     err : BOOLEAN, fruit : 0 .. CountBound, fruitNudged : BOOLEAN,
     sameTool : Tools \union {"none"}, same : 0 .. CountBound, sameErr : BOOLEAN,
     sameNudged : BOOLEAN, parseTool : Tools \union {"none"}, parse : 0 .. CountBound,
     trunc : 0 .. CountBound, off : SUBSET {"rep", "fruit", "same", "parse", "trunc"}]
BreakerType == brk \in BrkType
HistoryType ==
    /\ mutDone \in BOOLEAN /\ runs \in 0 .. CountBound /\ denied \in BOOLEAN
    /\ told \in {"none", "bare", "once", "twice"}

TypeOK == LoopType /\ CallType /\ GateType /\ BreakerType /\ HistoryType

NoCall == [tool |-> "none", arg |-> "none", batched |-> FALSE]
NoReply == [n |-> 0, group |-> FALSE, stop |-> "end_turn", syntax |-> FALSE]

(* A fresh executor; a resumed run starts after the steps it is given, which *)
(* may hold any work.                                                        *)
Init ==
    /\ cfg \in Configs /\ ctx = "live" /\ pc = "boundary"
    /\ resume \in ResumeLens /\ stepNum = resume + 1 /\ effMax = MaxSteps
    /\ unlimited = FALSE /\ reactive = FALSE
    /\ resp = NoReply
    /\ pos = 1 /\ cur = NoCall /\ res = "long"
    /\ trig = FALSE /\ pending = FALSE
    /\ nudged = [syntax |-> 0, implicit |-> 0, finish |-> FALSE, mutation |-> FALSE,
                 missing |-> FALSE, unchecked |-> FALSE]
    /\ IF resume = 0
       THEN traj = [mutated |-> FALSE, list |-> "none", productive |-> 0]
       ELSE traj \in TrajType
    /\ brk = [key |-> <<"none", "none">>, rep |-> 0, err |-> FALSE, fruit |-> 0,
              fruitNudged |-> FALSE, sameTool |-> "none", same |-> 0, sameErr |-> FALSE,
              sameNudged |-> FALSE, parseTool |-> "none", parse |-> 0, trunc |-> 0, off |-> {}]
    /\ exit = "none" /\ llmCalls = 0 /\ mutDone = traj.mutated /\ runs = 0
    /\ told = "none" /\ denied = FALSE

-----------------------------------------------------------------------------
(* Operators                                                                 *)

Step(n) == IF n <= StepBound THEN n + 1 ELSE n
Bump(n) == IF n < CountBound THEN n + 1 ELSE n
IsErr(r) == r \in {"parse", "error"}
Reached(count, threshold) == threshold > 0 /\ count >= threshold

(* Mutant: file mutations count as fruitless and repetitive results.         *)
ExemptBookkeepingOnly == Bookkeeping

(* circuitBreakerExemptTools                                                 *)
Exempt == Mutating \union Bookkeeping

(* A step with an Action is appended: isSuccessfulMutationStep,              *)
(* hasChecklistUpdate, lastChecklistUnchecked and isProductiveCall read it.  *)
Appended(tool, isErr, list) ==
    [mutated |-> traj.mutated \/ (tool \in Mutating /\ ~isErr),
     list |-> IF tool = ChecklistTool /\ ~isErr THEN list ELSE traj.list,
     productive |-> IF tool \in {ChecklistTool, "finish"} \/ traj.productive > TrivialThreshold
                    THEN traj.productive ELSE traj.productive + 1]

(* Rendering of a step of the reply by ContextWindow: within a group only    *)
(* the first step's thought is read, a standalone step's always is.          *)
Tell(carries, group) ==
    CASE told = "none" -> IF carries THEN "once" ELSE "bare"
      [] told = "once" /\ carries /\ ~group -> "twice"
      [] OTHER -> told

(* runVerifyOnEditHook                                                       *)
VerifyHook(tool, isErr, last) ==
    pending' = ((pending \/ (cfg.verify /\ tool \in FileEdits /\ ~isErr)) /\ ~last)

LastCall == pos = resp.n

(* The loop's post statement; the reply and its calls are forgotten.         *)
NextIteration ==
    /\ pc' = "boundary" /\ stepNum' = Step(stepNum)
    /\ resp' = NoReply /\ pos' = 1 /\ cur' = NoCall /\ res' = "long" /\ told' = "none"
Return(how) == pc' = "done" /\ exit' = how
NextCall == pc' = (IF LastCall THEN "after" ELSE "call") /\ pos' = pos + 1

(* A lone batch has no group; calls outside a batch side by side do.         *)
BatchedChoices == IF resp.n = 1 \/ resp.group THEN BOOLEAN ELSE {TRUE}

(* A breaker asks the user: counted is its state, cleared the state after a  *)
(* reprieve.  A denial returns unless the reply already triggered a breaker. *)
AskBreaker(name, counted, cleared) ==
    \/ /\ Answers \intersect {"once", "more"} # {}
       /\ brk' = cleared /\ trig' = TRUE /\ pc' = "after"
       /\ UNCHANGED <<exit, denied>>
    \/ /\ "always" \in Answers
       /\ brk' = [cleared EXCEPT !.off = @ \union {name}]
       /\ trig' = TRUE /\ pc' = "after"
       /\ UNCHANGED <<exit, denied>>
    \/ /\ brk' = counted /\ denied' = TRUE
       /\ IF trig THEN pc' = "after" /\ UNCHANGED exit ELSE Return("aborted")
       /\ UNCHANGED trig

-----------------------------------------------------------------------------
(* The loop                                                                  *)

(* The context may be cancelled at any time.                                 *)
Cancel ==
    /\ ctx = "live" /\ pc # "done"
    /\ ctx' = "cancelled"
    /\ UNCHANGED <<cfg, pc, loopVars, callVars, trig, gateVars, brk, exit, histVars>>

(* The loop condition and handleStepLimitBoundary's first return.            *)
UnderLimit ==
    /\ pc = "boundary" /\ (unlimited \/ stepNum <= effMax)
    /\ pc' = "start"
    /\ UNCHANGED <<cfg, ctx, loopVars, callVars, trig, gateVars, brk, exit, histVars>>

(* A resumed trajectory longer than the budget ends without asking.          *)
PastLimit ==
    /\ pc = "boundary" /\ ~unlimited /\ stepNum > effMax + 1
    /\ Return("limit")
    /\ UNCHANGED <<cfg, ctx, loopVars, callVars, trig, gateVars, brk, histVars>>

AtLimit == pc = "boundary" /\ ~unlimited /\ stepNum = effMax + 1

(* handleStepLimitBoundary: the user grants one step, a batch, or all.       *)
LimitExtended ==
    /\ AtLimit
    /\ \/ /\ "once" \in Answers /\ effMax + 1 <= StepBound
          /\ effMax' = effMax + 1 /\ UNCHANGED unlimited
       \/ LET grant == IF MaxSteps < 1 THEN 1 ELSE MaxSteps IN
          /\ "more" \in Answers /\ effMax + grant <= StepBound
          /\ effMax' = effMax + grant /\ UNCHANGED unlimited
       \/ "always" \in Answers /\ unlimited' = TRUE /\ UNCHANGED effMax
    /\ pc' = "start"
    /\ UNCHANGED <<cfg, ctx, stepNum, reactive, resume, llmCalls, callVars, trig, gateVars,
                   brk, exit, histVars>>

(* A denial, an unknown answer and a callback error end the run.             *)
LimitDenied ==
    /\ AtLimit
    /\ Return("limit")
    /\ UNCHANGED <<cfg, ctx, loopVars, callVars, trig, gateVars, brk, histVars>>

CancelledAtStep ==
    /\ pc = "start" /\ ctx = "cancelled"
    /\ Return("cancelled")
    /\ UNCHANGED <<cfg, ctx, loopVars, callVars, trig, gateVars, brk, histVars>>

(* The pause checker trips at the step boundary.                             *)
PauseAtStep ==
    /\ pc = "start" /\ ctx = "live"
    /\ Return("pause")
    /\ UNCHANGED <<cfg, ctx, loopVars, callVars, trig, gateVars, brk, histVars>>

(* Mutant: the iteration starts without looking at the context.              *)
CallLLMUnchecked ==
    /\ pc = "start"
    /\ pc' = "llm" /\ llmCalls' = Step(llmCalls)
    /\ UNCHANGED <<cfg, ctx, stepNum, effMax, unlimited, reactive, resume, callVars, trig,
                   gateVars, brk, exit, histVars>>

CallLLM ==
    /\ pc = "start" /\ ctx = "live"
    /\ pc' = "llm" /\ llmCalls' = Step(llmCalls)
    /\ UNCHANGED <<cfg, ctx, stepNum, effMax, unlimited, reactive, resume, callVars, trig,
                   gateVars, brk, exit, histVars>>

(* Mutant: the compaction retry does not take a step of the budget.          *)
LLMContextExceededInPlace ==
    /\ pc = "llm" /\ ~reactive
    /\ reactive' = TRUE /\ pc' = "boundary" /\ UNCHANGED stepNum
    /\ UNCHANGED <<cfg, ctx, effMax, unlimited, resume, llmCalls, callVars, trig, gateVars,
                   brk, exit, histVars>>

(* Mutant: the compaction retry is neither latched nor counted.              *)
LLMContextExceededUnlatched ==
    /\ pc = "llm" /\ pc' = "start" /\ UNCHANGED <<stepNum, reactive>>
    /\ UNCHANGED <<cfg, ctx, effMax, unlimited, resume, llmCalls, callVars, trig, gateVars,
                   brk, exit, histVars>>

(* Context exceeded with nothing streamed: compact and go on, once.          *)
LLMContextExceeded ==
    /\ pc = "llm" /\ ~reactive
    /\ reactive' = TRUE /\ NextIteration
    /\ UNCHANGED <<cfg, ctx, effMax, unlimited, resume, llmCalls, trig, gateVars,
                   brk, exit, mutDone, runs, denied>>

(* Any other error, a second overflow, or one after a delivered delta.       *)
LLMError ==
    /\ pc = "llm"
    /\ Return(IF ctx = "cancelled" THEN "cancelled" ELSE "error")
    /\ UNCHANGED <<cfg, ctx, loopVars, callVars, trig, gateVars, brk, histVars>>

(* A reply.  Only end_turn is told apart without calls and only max_tokens   *)
(* with calls.  processToolCalls gives several calls a response group.       *)
LLMReplies ==
    /\ pc = "llm"
    /\ \E n \in 0 .. MaxCalls, g \in BOOLEAN, s \in {"end_turn", "max_tokens"}, x \in BOOLEAN :
        /\ g => n > 1
        /\ x => n = 0
        /\ resp' = [n |-> n, group |-> g, stop |-> s, syntax |-> x]
    /\ pc' = "reply"
    /\ UNCHANGED <<cfg, ctx, loopVars, pos, cur, res, trig, gateVars, brk, exit, histVars>>

-----------------------------------------------------------------------------
(* handleImplicitFinish: a reply without calls                               *)

TextReply == pc = "reply" /\ resp.n = 0
StuckSyntax == cfg.hasTools /\ resp.syntax
ImplicitNudgeDue == resp.stop # "end_turn" /\ cfg.hasTools /\ nudged.implicit < 2
FinishNudgeDue == cfg.suppress /\ ~nudged.finish

(* Mutant: the nudge for tool-call syntax in the text has no limit.          *)
TextNudgeUncapped ==
    /\ TextReply /\ StuckSyntax
    /\ nudged' = [nudged EXCEPT !.syntax = @ + 1]
    /\ NextIteration
    /\ UNCHANGED <<cfg, ctx, effMax, unlimited, reactive, resume, llmCalls, trig,
                   pending, traj, brk, exit, mutDone, runs, denied>>

(* Tool-call syntax printed as text, a reply that did not mean to end, and   *)
(* in plan steps a missing finish call: nudged thrice, twice, once.          *)
TextNudge ==
    /\ TextReply
    /\ \/ /\ StuckSyntax /\ nudged.syntax < 3
          /\ nudged' = [nudged EXCEPT !.syntax = @ + 1]
       \/ /\ ~StuckSyntax /\ ImplicitNudgeDue
          /\ nudged' = [nudged EXCEPT !.implicit = @ + 1]
       \/ /\ ~StuckSyntax /\ ~ImplicitNudgeDue /\ FinishNudgeDue
          /\ nudged' = [nudged EXCEPT !.finish = TRUE]
    /\ NextIteration
    /\ UNCHANGED <<cfg, ctx, effMax, unlimited, reactive, resume, llmCalls, trig,
                   pending, traj, brk, exit, mutDone, runs, denied>>

SyntaxAbort ==
    /\ TextReply /\ StuckSyntax /\ nudged.syntax = 3
    /\ Return("syntax")
    /\ UNCHANGED <<cfg, ctx, loopVars, callVars, trig, gateVars, brk, histVars>>

(* Mutant: the implicit finish forgets the verification still pending.       *)
ImplicitFinishNoFlush ==
    /\ TextReply /\ ~StuckSyntax /\ ~ImplicitNudgeDue /\ ~FinishNudgeDue
    /\ Return("implicit")
    /\ UNCHANGED <<cfg, ctx, loopVars, callVars, trig, gateVars, brk, histVars>>

(* Accepted as the answer; flushPendingVerifyOnEdit runs first.              *)
ImplicitFinish ==
    /\ TextReply /\ ~StuckSyntax /\ ~ImplicitNudgeDue /\ ~FinishNudgeDue
    /\ Return("implicit") /\ pending' = FALSE
    /\ UNCHANGED <<cfg, ctx, loopVars, callVars, trig, nudged, traj, brk, histVars>>

-----------------------------------------------------------------------------
(* handleTruncationStopReason: max_tokens with calls                         *)

Truncated == pc = "reply" /\ resp.n > 0 /\ resp.stop = "max_tokens"
TruncTrips == Reached(Bump(brk.trunc), IF "trunc" \in brk.off THEN 0 ELSE TruncAbort)

(* Mutant: the step of the truncated call is not marked as an error.         *)
TruncatedStepNoError ==
    /\ Truncated /\ ~TruncTrips
    /\ brk' = [brk EXCEPT !.trunc = Bump(@)]
    /\ \E t \in Tools, l \in {"open", "done"} : traj' = Appended(t, FALSE, l)
    /\ NextIteration
    /\ UNCHANGED <<cfg, ctx, effMax, unlimited, reactive, resume, llmCalls, trig,
                   pending, nudged, exit, mutDone, runs, denied>>

(* The first call is recorded as not executed; no other call is looked at.   *)
TruncatedStep ==
    /\ Truncated /\ ~TruncTrips
    /\ brk' = [brk EXCEPT !.trunc = Bump(@)]
    /\ \E t \in Tools \union {"batch", "finish"} : traj' = Appended(t, TRUE, "none")
    /\ NextIteration
    /\ UNCHANGED <<cfg, ctx, effMax, unlimited, reactive, resume, llmCalls, trig,
                   pending, nudged, exit, mutDone, runs, denied>>

TruncationReprieve ==
    /\ Truncated /\ TruncTrips
    /\ \/ Answers \intersect {"once", "more"} # {} /\ brk' = [brk EXCEPT !.trunc = 0]
       \/ /\ "always" \in Answers
          /\ brk' = [brk EXCEPT !.trunc = 0, !.off = @ \union {"trunc"}]
    /\ NextIteration
    /\ UNCHANGED <<cfg, ctx, effMax, unlimited, reactive, resume, llmCalls, trig,
                   gateVars, exit, mutDone, runs, denied>>

TruncationDenied ==
    /\ Truncated /\ TruncTrips
    /\ brk' = [brk EXCEPT !.trunc = Bump(@)]
    /\ denied' = TRUE /\ Return("aborted")
    /\ UNCHANGED <<cfg, ctx, loopVars, callVars, trig, gateVars, mutDone, runs, told>>

(* The counter is reset and processToolCalls starts.                         *)
BeginCalls ==
    /\ pc = "reply" /\ resp.n > 0 /\ resp.stop # "max_tokens"
    /\ brk' = [brk EXCEPT !.trunc = 0]
    /\ trig' = FALSE /\ pos' = 1 /\ pc' = "call"
    /\ UNCHANGED <<cfg, ctx, loopVars, resp, cur, res, gateVars, exit, histVars>>

-----------------------------------------------------------------------------
(* processSingleToolCall and processBatchTool: meta-tools                    *)

(* Mutant: every nested batch carries the reply's thought.                   *)
BatchErrorUngated ==
    /\ pc = "call"
    /\ \E b \in BatchedChoices : told' = Tell(TRUE, resp.group)
    /\ traj' = Appended("batch", TRUE, "none")
    /\ NextCall
    /\ UNCHANGED <<cfg, ctx, loopVars, resp, cur, res, trig, pending, nudged, brk, exit,
                   mutDone, runs, denied>>

(* An unreadable or empty batch (thought ungated), or a batch nested in one  *)
(* (gated).  The verify hook does not run.                                   *)
BatchError ==
    /\ pc = "call"
    /\ \E b \in BatchedChoices : told' = Tell(b => pos = 1, resp.group)
    /\ traj' = Appended("batch", TRUE, "none")
    /\ cur' = NoCall /\ NextCall
    /\ UNCHANGED <<cfg, ctx, loopVars, resp, res, trig, pending, nudged, brk, exit,
                   mutDone, runs, denied>>

MutationNudgeDue == cfg.mutation /\ ~traj.mutated /\ ~nudged.mutation
MissingNudgeDue ==
    /\ cfg.checklist /\ traj.list = "none" /\ traj.productive > TrivialThreshold
    /\ ~nudged.missing
UncheckedNudgeDue == cfg.checklist /\ ~nudged.unchecked /\ traj.list = "open"

(* handleFinishCall: the finish guard, or the first gate that applies, turns *)
(* the call into a nudge, which is the only step made for it.                *)
FinishNudged ==
    /\ pc = "call"
    /\ \/ UNCHANGED nudged
       \/ MutationNudgeDue /\ nudged' = [nudged EXCEPT !.mutation = TRUE]
       \/ /\ ~MutationNudgeDue /\ MissingNudgeDue
          /\ nudged' = [nudged EXCEPT !.missing = TRUE]
       \/ /\ ~MutationNudgeDue /\ ~MissingNudgeDue /\ UncheckedNudgeDue
          /\ nudged' = [nudged EXCEPT !.unchecked = TRUE]
    /\ told' = IF pos = 1 THEN Tell(TRUE, FALSE) ELSE told
    /\ pc' = "after"
    /\ UNCHANGED <<cfg, ctx, loopVars, callVars, trig, pending, traj, brk, exit, mutDone,
                   runs, denied>>

(* handleFinishCall: accepted, but not as finished without a due mutation.   *)
FinishAccepted ==
    /\ pc = "call"
    /\ ~MutationNudgeDue /\ ~MissingNudgeDue /\ ~UncheckedNudgeDue
    /\ told' = Tell(pos = 1, resp.group)
    /\ VerifyHook("finish", FALSE, TRUE)
    /\ Return(IF cfg.mutation /\ ~traj.mutated THEN "rejected" ELSE "finish")
    /\ UNCHANGED <<cfg, ctx, loopVars, callVars, trig, nudged, traj, brk, mutDone, runs,
                   denied>>

-----------------------------------------------------------------------------
(* processSingleToolCall and processBatchTool: an ordinary call              *)

(* checkRepeatIdenticalTool's counting: identical calls in a row, and        *)
(* whether the last execution of this call failed.                           *)
Repeated(c) ==
    IF brk.key = <<c.tool, c.arg>>
    THEN [brk EXCEPT !.rep = Bump(@)]
    ELSE [brk EXCEPT !.rep = 1, !.key = <<c.tool, c.arg>>, !.err = FALSE]

(* The thresholds are one lower after a failure.                             *)
Lowered(b, threshold) == IF b.err /\ threshold > 0 THEN threshold - 1 ELSE threshold

(* Mutant: the nudge comes one call late.                                    *)
RepeatNudgesLate(b) == b.rep > Lowered(b, RepeatNudge) /\ Lowered(b, RepeatNudge) > 0

RepeatNudges(b) == Reached(b.rep, Lowered(b, RepeatNudge))
RepeatAborts(b) == "rep" \notin b.off /\ Reached(b.rep, Lowered(b, RepeatAbort))

NextCalls ==
    {c \in [tool : Tools, arg : Args, batched : BOOLEAN] : c.batched \in BatchedChoices}

SameKey(c) == brk.key = <<c.tool, c.arg>>

(* Mutant: the call goes through although the nudge is due.                  *)
RepeatPassesAny ==
    /\ pc = "call"
    /\ \E c \in NextCalls :
        LET b == Repeated(c) IN
        /\ ~RepeatAborts(b)
        /\ cur' = c /\ brk' = b
        /\ runs' = IF SameKey(c) THEN runs ELSE 0
    /\ pc' = "hitl"
    /\ UNCHANGED <<cfg, ctx, loopVars, resp, pos, res, trig, gateVars, exit, mutDone, told,
                   denied>>

(* checkRepeatIdenticalTool lets the call through.                           *)
RepeatPasses ==
    /\ pc = "call"
    /\ \E c \in NextCalls :
        LET b == Repeated(c) IN
        /\ ~RepeatAborts(b) /\ ~RepeatNudges(b)
        /\ cur' = c /\ brk' = b
        /\ runs' = IF SameKey(c) THEN runs ELSE 0
    /\ pc' = "hitl"
    /\ UNCHANGED <<cfg, ctx, loopVars, resp, pos, res, trig, gateVars, exit, mutDone, told,
                   denied>>

(* The breaker trips and asks the user; a reprieve restarts the count.       *)
RepeatAsks ==
    /\ pc = "call"
    /\ \E c \in NextCalls :
        LET b == Repeated(c) IN
        /\ RepeatAborts(b)
        /\ AskBreaker("rep", b, [b EXCEPT !.rep = 0])
        /\ cur' = c
        /\ runs' = IF SameKey(c) /\ brk'.rep # 0 THEN runs ELSE 0
    /\ UNCHANGED <<cfg, ctx, loopVars, resp, pos, res, gateVars, mutDone, told>>

(* The call is answered with a nudge; its step carries the thought only at   *)
(* callIdx 0, which is never the index of a batched call.                    *)
RepeatNudged ==
    /\ pc = "call"
    /\ \E c \in NextCalls :
        LET b == Repeated(c) IN
        /\ ~RepeatAborts(b) /\ RepeatNudges(b)
        /\ cur' = c /\ brk' = b
        /\ traj' = Appended(c.tool, TRUE, "none")
        /\ told' = Tell(pos = 1 /\ ~c.batched, resp.group)
        /\ runs' = IF SameKey(c) THEN runs ELSE 0
    /\ trig' = TRUE /\ pc' = "after"
    /\ UNCHANGED <<cfg, ctx, loopVars, resp, pos, res, pending, nudged, exit, mutDone, denied>>

HitlAllows ==
    /\ pc = "hitl" /\ pc' = "exec"
    /\ UNCHANGED <<cfg, ctx, loopVars, callVars, trig, gateVars, brk, exit, histVars>>

(* Mutant: a rejected call does not run the verify hook.                     *)
HitlRejectsUnhooked ==
    /\ pc = "hitl"
    /\ traj' = Appended(cur.tool, TRUE, "none")
    /\ told' = Tell(cur.batched => pos = 1, resp.group)
    /\ trig' = TRUE
    /\ NextCall
    /\ UNCHANGED <<cfg, ctx, loopVars, resp, cur, res, pending, nudged, brk, exit, mutDone, runs,
                   denied>>

(* Rejected by the user: an error step; the reply's other calls go on.       *)
HitlRejects ==
    /\ pc = "hitl"
    /\ VerifyHook(cur.tool, TRUE, LastCall)
    /\ traj' = Appended(cur.tool, TRUE, "none")
    /\ told' = Tell(cur.batched => pos = 1, resp.group)
    /\ trig' = TRUE
    /\ NextCall
    /\ UNCHANGED <<cfg, ctx, loopVars, resp, cur, res, nudged, brk, exit, mutDone, runs, denied>>

(* The handler fails: an error result for a batched call, else the run fails.*)
HitlFails ==
    /\ pc = "hitl"
    /\ IF cur.batched
       THEN /\ res' = "error" /\ pc' = "fruitless" /\ UNCHANGED exit
            /\ brk' = [brk EXCEPT !.err = TRUE]
       ELSE Return("error") /\ UNCHANGED <<res, brk>>
    /\ UNCHANGED <<cfg, ctx, loopVars, resp, pos, cur, trig, gateVars, histVars>>

(* executeToolCall returns a result; a result that is ready wins over        *)
(* everything else.                                                          *)
ToolReturns ==
    /\ pc = "exec"
    /\ res' \in {"long", "short", "parse", "error"}
    /\ brk' = [brk EXCEPT !.err = IsErr(res')]
    /\ mutDone' = (mutDone \/ (cur.tool \in Mutating /\ ~IsErr(res')))
    /\ runs' = Bump(runs)
    /\ pc' = "fruitless"
    /\ UNCHANGED <<cfg, ctx, loopVars, resp, pos, cur, trig, gateVars, exit, told, denied>>

(* An infrastructure error: an error result for a batched call.              *)
ToolInfraError ==
    /\ pc = "exec"
    /\ IF cur.batched
       THEN /\ res' = "error" /\ pc' = "fruitless" /\ UNCHANGED exit
            /\ brk' = [brk EXCEPT !.err = TRUE]
       ELSE Return("error") /\ UNCHANGED <<res, brk>>
    /\ runs' = Bump(runs)
    /\ UNCHANGED <<cfg, ctx, loopVars, resp, pos, cur, trig, gateVars, mutDone, told, denied>>

ToolCancelled ==
    /\ pc = "exec" /\ ctx = "cancelled"
    /\ Return("cancelled")
    /\ UNCHANGED <<cfg, ctx, loopVars, callVars, trig, gateVars, brk, histVars>>

(* The per-call ceiling: no checkpoint, so nothing is flushed.               *)
ToolTimesOut ==
    /\ pc = "exec" /\ ctx = "live"
    /\ Return("error")
    /\ UNCHANGED <<cfg, ctx, loopVars, callVars, trig, gateVars, brk, histVars>>

(* A pause while the tool is in flight flushes a pending verification.       *)
PauseInTool ==
    /\ pc = "exec" /\ ctx = "live"
    /\ pending' = FALSE
    /\ Return("pauseCall")
    /\ UNCHANGED <<cfg, ctx, loopVars, callVars, trig, nudged, traj, brk, histVars>>

-----------------------------------------------------------------------------
(* Detectors over the result                                                 *)

(* checkFruitlessResult's counting                                           *)
FruitCount ==
    CASE cur.tool \in Exempt -> 0
      [] cur.tool \notin Exempt /\ res = "short" -> Bump(brk.fruit)
      [] cur.tool \notin Exempt /\ res = "long" -> 0
      [] OTHER -> brk.fruit
FruitAborts ==
    cur.tool \notin Exempt /\ "fruit" \notin brk.off /\ Reached(FruitCount, FruitAbort)
FruitNudges ==
    cur.tool \notin Exempt /\ Reached(FruitCount, FruitNudge) /\ ~brk.fruitNudged

FruitlessPasses ==
    /\ pc = "fruitless" /\ ~FruitAborts /\ ~FruitNudges
    /\ brk' = [brk EXCEPT !.fruit = FruitCount]
    /\ pc' = "same"
    /\ UNCHANGED <<cfg, ctx, loopVars, callVars, trig, gateVars, exit, histVars>>

FruitlessAsks ==
    /\ pc = "fruitless" /\ FruitAborts
    /\ AskBreaker("fruit", [brk EXCEPT !.fruit = FruitCount],
                  [brk EXCEPT !.fruit = 0, !.fruitNudged = FALSE])
    /\ UNCHANGED <<cfg, ctx, loopVars, callVars, gateVars, mutDone, runs, told>>

(* The result is replaced by a nudge: the call leaves no step.               *)
FruitlessNudged ==
    /\ pc = "fruitless" /\ ~FruitAborts /\ FruitNudges
    /\ brk' = [brk EXCEPT !.fruit = FruitCount, !.fruitNudged = TRUE]
    /\ trig' = TRUE /\ pc' = "after"
    /\ UNCHANGED <<cfg, ctx, loopVars, callVars, gateVars, exit, histVars>>

(* checkSameToolRepetition's counting; result sizes are similar or not.      *)
SameCount(similar) ==
    IF brk.sameErr /\ ~IsErr(res) THEN 1
    ELSE IF brk.sameTool = cur.tool /\ similar THEN Bump(brk.same)
    ELSE 1
SameTracked(similar) ==
    IF cur.tool \in Exempt
    THEN [brk EXCEPT !.same = 0, !.sameTool = "none", !.sameErr = FALSE]
    ELSE [brk EXCEPT !.same = SameCount(similar), !.sameTool = cur.tool, !.sameErr = IsErr(res)]
SameAborts(b) ==
    cur.tool \notin Exempt /\ "same" \notin b.off /\ Reached(b.same, SameAbort)
SameNudges(b) == cur.tool \notin Exempt /\ Reached(b.same, SameNudge) /\ ~b.sameNudged

SamePasses ==
    /\ pc = "same"
    /\ \E similar \in BOOLEAN :
        LET b == SameTracked(similar) IN
        ~SameAborts(b) /\ ~SameNudges(b) /\ brk' = b
    /\ pc' = IF cur.batched THEN "record" ELSE "parse"
    /\ UNCHANGED <<cfg, ctx, loopVars, callVars, trig, gateVars, exit, histVars>>

SameAsks ==
    /\ pc = "same"
    /\ \E similar \in BOOLEAN :
        LET b == SameTracked(similar) IN
        /\ SameAborts(b)
        /\ AskBreaker("same", b, [b EXCEPT !.same = 0, !.sameNudged = FALSE])
    /\ UNCHANGED <<cfg, ctx, loopVars, callVars, gateVars, mutDone, runs, told>>

SameNudged ==
    /\ pc = "same"
    /\ \E similar \in BOOLEAN :
        LET b == SameTracked(similar) IN
        ~SameAborts(b) /\ SameNudges(b) /\ brk' = [b EXCEPT !.sameNudged = TRUE]
    /\ trig' = TRUE /\ pc' = "after"
    /\ UNCHANGED <<cfg, ctx, loopVars, callVars, gateVars, exit, histVars>>

(* checkParseErrors, which batched calls skip                                *)
ParseTracked ==
    CASE res = "parse" ->
            [brk EXCEPT !.parseTool = cur.tool,
                        !.parse = IF brk.parseTool = cur.tool THEN Bump(@) ELSE 1]
      [] ~IsErr(res) -> [brk EXCEPT !.parseTool = "none", !.parse = 0]
      [] OTHER -> brk
ParseAborts == res = "parse" /\ "parse" \notin brk.off /\ Reached(ParseTracked.parse, ParseAbort)

ParsePasses ==
    /\ pc = "parse" /\ ~ParseAborts
    /\ brk' = ParseTracked
    /\ pc' = "record"
    /\ UNCHANGED <<cfg, ctx, loopVars, callVars, trig, gateVars, exit, histVars>>

ParseAsks ==
    /\ pc = "parse" /\ ParseAborts
    /\ AskBreaker("parse", ParseTracked, [ParseTracked EXCEPT !.parse = 0])
    /\ UNCHANGED <<cfg, ctx, loopVars, callVars, gateVars, mutDone, runs, told>>

-----------------------------------------------------------------------------
(* The step                                                                  *)

(* Mutant: a batched call's step never carries the thought.                  *)
StepAppendedByIndex ==
    /\ pc = "record"
    /\ VerifyHook(cur.tool, IsErr(res), LastCall)
    /\ \E l \in {"open", "done"} : traj' = Appended(cur.tool, IsErr(res), l)
    /\ told' = Tell(pos = 1 /\ ~cur.batched, resp.group)

(* The hook runs, then the step is appended; only the first carries the      *)
(* reply's thought.                                                          *)
StepAppended ==
    /\ pc = "record"
    /\ VerifyHook(cur.tool, IsErr(res), LastCall)
    /\ \E l \in {"open", "done"} : traj' = Appended(cur.tool, IsErr(res), l)
    /\ told' = Tell(pos = 1, resp.group)

Stops == cur.tool \in StopTools /\ ~IsErr(res)

RecordStep ==
    /\ StepAppended /\ ~Stops
    /\ NextCall
    /\ UNCHANGED <<cfg, ctx, loopVars, resp, cur, res, trig, nudged, brk, exit, mutDone, runs,
                   denied>>

(* stopToolTermination: the finish guard turns the stop into a nudge.        *)
StopGuarded ==
    /\ StepAppended /\ Stops
    /\ pc' = "after"
    /\ UNCHANGED <<cfg, ctx, loopVars, callVars, trig, nudged, brk, exit, mutDone, runs, denied>>

StopTerminates ==
    /\ StepAppended /\ Stops
    /\ Return("stop")
    /\ UNCHANGED <<cfg, ctx, loopVars, callVars, trig, nudged, brk, mutDone, runs, denied>>

-----------------------------------------------------------------------------
(* After the calls of a reply                                                *)

(* A triggered breaker goes straight to the next model call.                 *)
AfterTriggered ==
    /\ pc = "after" /\ trig
    /\ trig' = FALSE /\ NextIteration
    /\ UNCHANGED <<cfg, ctx, effMax, unlimited, reactive, resume, llmCalls, gateVars, brk,
                   exit, mutDone, runs, denied>>

(* handleCompactionAfterStep: fine, or compacted; or over-full once more.    *)
AfterFits ==
    /\ pc = "after" /\ ~trig
    /\ \/ reactive' = FALSE
       \/ ~reactive /\ reactive' = TRUE
    /\ NextIteration
    /\ UNCHANGED <<cfg, ctx, effMax, unlimited, resume, llmCalls, trig, gateVars,
                   brk, exit, mutDone, runs, denied>>

(* Over-full with no usable budget, or after a reactive compaction.          *)
AfterOverfull ==
    /\ pc = "after" /\ ~trig
    /\ Return("error")
    /\ UNCHANGED <<cfg, ctx, loopVars, callVars, trig, gateVars, brk, histVars>>

Done == pc = "done" /\ UNCHANGED vars

LoopNext == UnderLimit \/ PastLimit \/ LimitExtended \/ LimitDenied \/ CancelledAtStep
            \/ PauseAtStep \/ CallLLM \/ LLMContextExceeded \/ LLMError \/ LLMReplies
TextNext == TextNudge \/ SyntaxAbort \/ ImplicitFinish
TruncNext == TruncatedStep \/ TruncationReprieve \/ TruncationDenied \/ BeginCalls
MetaNext == BatchError \/ FinishNudged \/ FinishAccepted
CallNext == RepeatPasses \/ RepeatAsks \/ RepeatNudged \/ HitlAllows \/ HitlRejects
            \/ HitlFails \/ ToolReturns \/ ToolInfraError \/ ToolCancelled \/ ToolTimesOut
            \/ PauseInTool
ResultNext == FruitlessPasses \/ FruitlessAsks \/ FruitlessNudged \/ SamePasses \/ SameAsks
              \/ SameNudged \/ ParsePasses \/ ParseAsks \/ RecordStep \/ StopGuarded
              \/ StopTerminates
AfterNext == AfterTriggered \/ AfterFits \/ AfterOverfull

Run == LoopNext \/ TextNext \/ TruncNext \/ MetaNext \/ CallNext \/ ResultNext \/ AfterNext

Next == Run \/ Cancel \/ Done

Spec == Init /\ [][Next]_vars

(* Run goes on as long as the model, the tools and the user answer: every    *)
(* call of theirs returns, by the context or the watchdog at the latest.     *)
LiveSpec == Spec /\ WF_vars(Run)

-----------------------------------------------------------------------------
(* Properties                                                                *)

(* The model is asked at most once per step of the budget and the steps the  *)
(* user granted (effectiveMaxSteps), counting the steps resumed from;        *)
(* retries after a context overflow and nudges included.                     *)
BudgetRespected == unlimited \/ llmCalls = 0 \/ resume + llmCalls <= effMax

(* Once the context is cancelled no further model call starts, on whatever   *)
(* path the loop comes around.                                               *)
NoCallAfterCancel == [][ctx = "cancelled" => llmCalls' = llmCalls]_vars

AtRest == pc \in {"boundary", "start", "llm", "reply", "call", "hitl", "after"}

(* Between calls, hasMutatingToolExecuted sees exactly the mutations that    *)
(* were executed: no detector drops one, no rejected, intercepted or         *)
(* truncated call counts as one.                                             *)
MutationExact == AtRest => (traj.mutated <=> mutDone)

(* A finish call of a run that requires a mutation is reported as finished   *)
(* only when some mutating tool was executed successfully.                   *)
FinishedMeansMutated == exit = "finish" /\ cfg.mutation => mutDone

(* The same call is executed fewer than RepeatNudgeThreshold times in a row  *)
(* unless the user allowed it: through batches, rejections and other breakers.*)
IdenticalRunsBounded == RepeatNudge > 0 => runs < RepeatNudge

(* No two steps of a reply carry its thought into the prompt.                *)
ThoughtNotTwice == told # "twice"

(* The thought is lost on one path only: the first call of a leading batch   *)
(* is answered by the repeat nudge, which looks for callIdx 0 where a batch  *)
(* counts from 10000 (executor_run.go 1957, against the comment at 1960).    *)
ThoughtNotLost ==
    told = "bare" => pc = "after" /\ pos = 1 /\ cur.batched /\ RepeatNudges(brk)

(* The thought of a reply, with its reasoning items, is on the first of its  *)
(* steps and on no other the prompt renders, whatever mixture of batched,    *)
(* rejected and failed calls the reply made; but for the one path above.     *)
ThoughtOnce ==
    /\ ThoughtNotTwice
    /\ ThoughtNotLost

(* A finish, explicit or implicit, and a pause inside a tool never leave a   *)
(* verification pending, also when a breaker cut the group of the edit       *)
(* short; a stop tool does only when it is not the last call of its reply.   *)
FinishVerified ==
    /\ exit \in {"finish", "rejected", "implicit", "pauseCall"} => ~pending
    /\ exit = "stop" /\ pending => pos # resp.n

(* The verification of an edit outlives the calls of a reply only when the   *)
(* reply was cut short, by a breaker, a nudge or a guard, or when its last   *)
(* call was a batch that could not be read.                                  *)
ReplyVerified == pc = "after" /\ pending => pos <= resp.n \/ cur = NoCall

(* executor.md: every pending run is flushed before finish or pause returns  *)
(* control.  The pause at the step boundary does not: a reply cut short by   *)
(* a breaker or a nudge has left its verification pending there.             *)
FlushedBeforeReturn ==
    exit \in {"finish", "rejected", "implicit", "pause", "pauseCall"} => ~pending

(* With bounded grants every run returns.                                    *)
RunEnds == <>(pc = "done")

(* executor.md: a denial at a breaker stops the run.                         *)
DenyStops == denied => exit = "aborted"

(* The gates hold on every path to them.  A finish call of a run that        *)
(* requires a mutation is not reported as finished without one; a reply      *)
(* without calls is not under that gate.  An edit is verified by the end of  *)
(* its reply unless the reply was cut short, and then before the run         *)
(* finishes; a stop tool before the end of its reply and the pause at a step *)
(* boundary may leave it pending.  A run that is aborted, fails or uses up   *)
(* its steps is under neither gate.                                          *)
FinishGated ==
    /\ FinishedMeansMutated
    /\ FinishVerified
    /\ ReplyVerified

(* The loop is bounded whatever the model repeats and the user grants: the   *)
(* model is asked within the budget, and the same call is not executed over  *)
(* and over.                                                                 *)
LoopBounded ==
    /\ TypeOK
    /\ BudgetRespected
    /\ IdenticalRunsBounded

(* The loop comes to an end: always when grants are bounded, and without     *)
(* another model call once the context is cancelled.                         *)
RunStops ==
    /\ RunEnds
    /\ NoCallAfterCancel
=============================================================================
