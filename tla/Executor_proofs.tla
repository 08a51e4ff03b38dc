---------------------------- MODULE Executor_proofs ----------------------------
(***************************************************************************)
(* Proofs about Executor for every set of tools and inputs, every            *)
(* configuration, every budget and every setting of the breakers.            *)
(***************************************************************************)
EXTENDS Executor, TLAPS

InCall == pc \in {"call", "hitl", "exec", "fruitless", "same", "parse", "record"}
InResult == pc \in {"fruitless", "same", "parse", "record"}

(* Run has an outcome only when it has returned.                             *)
ExitInv == pc # "done" => exit = "none"

(* The step number counts the model calls; a step past the budget is only    *)
(* ever looked at, at the boundary.                                          *)
BudgetInv ==
    ~unlimited =>
        /\ pc \in {"boundary", "start"} => resume + llmCalls = stepNum - 1
        /\ pc \notin {"boundary", "start", "done"} => resume + llmCalls = stepNum
        /\ pc \notin {"boundary", "done"} => stepNum <= effMax
        /\ pc = "boundary" => stepNum <= effMax + 1 \/ llmCalls = 0

(* A mutation executed by the current call is not in the trajectory until    *)
(* its step is.                                                              *)
MutationInv ==
    /\ pc \notin {"fruitless", "same", "parse", "record", "done"} =>
          (traj.mutated <=> mutDone)
    /\ InResult => ((traj.mutated \/ (cur.tool \in Mutating /\ ~IsErr(res))) <=> mutDone)

(* The repeat counter is ahead of the executions it stands for; a threshold  *)
(* of one lets no call through at all.                                       *)
RunsInv ==
    RepeatNudge > 0 =>
        /\ runs <= brk.rep
        /\ pc \in {"hitl", "exec"} => runs < brk.rep /\ brk.rep < RepeatNudge
        /\ RepeatNudge = 1 => ~brk.err /\ pc \notin {"hitl", "exec"} /\ ~InResult

(* The call in hand is one of the reply's; the first one finds the thought   *)
(* untold.                                                                   *)
ThoughtInv ==
    /\ InCall => pos <= resp.n
    /\ InCall /\ pc # "call" => cur.batched \in BatchedChoices
    /\ InCall /\ pos = 1 => told = "none"
    /\ pc \in {"boundary", "start", "llm", "reply"} => told = "none"

(* A later call finds the thought told; a lost one ends its reply.           *)
CarryInv ==
    /\ InCall => told # "bare" /\ (pos # 1 => told # "none")
    /\ told = "bare" => trig

IInv ==
    /\ TypeOK /\ ExitInv /\ BudgetInv /\ MutationInv /\ RunsInv /\ ThoughtInv /\ CarryInv
    /\ BudgetRespected /\ FinishedMeansMutated /\ IdenticalRunsBounded /\ ThoughtNotTwice
    /\ ThoughtNotLost /\ FinishVerified /\ ReplyVerified

(* The counters and their thresholds are natural numbers within the bound.   *)
LEMMA BoundFacts ==
    /\ MaxSteps \in Nat /\ StepBound \in Nat /\ CountBound \in Nat /\ CountBound > 0
    /\ MaxSteps <= StepBound /\ MaxCalls \in Nat
    /\ \A r \in ResumeLens : r \in 0 .. StepBound
    /\ RepeatNudge \in 0 .. CountBound
  BY BoundsAssumption DEF Thresholds

(* Saturating increments stay in their range.                                *)
LEMMA BumpFacts ==
    \A n \in 0 .. CountBound : Bump(n) \in 0 .. CountBound /\ Bump(n) >= n
  BY BoundFacts DEF Bump

(* What a step with an Action makes of the trajectory.                       *)
LEMMA AppendedFacts ==
    ASSUME traj \in TrajType, NEW t, NEW e \in BOOLEAN, NEW l \in {"none", "open", "done"}
    PROVE  /\ Appended(t, e, l) \in TrajType
           /\ Appended(t, e, l).mutated <=> (traj.mutated \/ (t \in Mutating /\ ~e))
<1>1. Appended(t, e, l).mutated = (traj.mutated \/ (t \in Mutating /\ ~e))
  BY DEF Appended
<1>2. Appended(t, e, l).list \in {"none", "open", "done"}
  BY DEF Appended, TrajType
<1>3. Appended(t, e, l).productive \in 0 .. TrivialThreshold + 1
  BY DEF Appended, TrajType, TrivialThreshold
<1>4. Appended(t, e, l).mutated \in BOOLEAN
  BY <1>1
<1>5. Appended(t, e, l) = [mutated |-> Appended(t, e, l).mutated,
                           list |-> Appended(t, e, l).list,
                           productive |-> Appended(t, e, l).productive]
  BY DEF Appended
<1> QED
  BY <1>1, <1>2, <1>3, <1>4, <1>5 DEF TrajType

(* What recording an executed call does.                                     *)
LEMMA StepAppendedFacts ==
    ASSUME StepAppended, CallType, GateType
    PROVE  /\ pending' \in BOOLEAN /\ traj' \in TrajType
           /\ traj'.mutated <=> (traj.mutated \/ (cur.tool \in Mutating /\ ~IsErr(res)))
<1>1. PICK l \in {"open", "done"} : traj' = Appended(cur.tool, IsErr(res), l)
  BY DEF StepAppended
<1>2. pending' \in BOOLEAN
  BY DEF StepAppended, VerifyHook
<1>3. IsErr(res) \in BOOLEAN /\ traj \in TrajType
  BY DEF IsErr, GateType
<1> QED
  BY <1>1, <1>2, <1>3, AppendedFacts

(* The empty reply and call are of their types.                              *)
LEMMA EmptyFacts == NoReply \in RespType /\ NoCall \in CurType
  BY BoundFacts DEF NoReply, NoCall, RespType, CurType

(* Single updates of the breakers' record keep its type.                     *)
LEMMA BrkUpdate ==
    ASSUME NEW b \in BrkType, NEW n \in 0 .. CountBound, NEW e \in BOOLEAN
    PROVE  /\ [b EXCEPT !.rep = n] \in BrkType
           /\ [b EXCEPT !.err = e] \in BrkType
           /\ [b EXCEPT !.fruit = n] \in BrkType
           /\ [b EXCEPT !.fruitNudged = e] \in BrkType
           /\ [b EXCEPT !.same = n] \in BrkType
           /\ [b EXCEPT !.sameNudged = e] \in BrkType
           /\ [b EXCEPT !.parse = n] \in BrkType
           /\ [b EXCEPT !.trunc = n] \in BrkType
<1>1. [b EXCEPT !.rep = n] \in BrkType
  BY DEF BrkType
<1>2. [b EXCEPT !.err = e] \in BrkType
  BY DEF BrkType
<1>3. [b EXCEPT !.fruit = n] \in BrkType
  BY DEF BrkType
<1>4. [b EXCEPT !.fruitNudged = e] \in BrkType
  BY DEF BrkType
<1>5. [b EXCEPT !.same = n] \in BrkType
  BY DEF BrkType
<1>6. [b EXCEPT !.sameNudged = e] \in BrkType
  BY DEF BrkType
<1>7. [b EXCEPT !.parse = n] \in BrkType
  BY DEF BrkType
<1>8. [b EXCEPT !.trunc = n] \in BrkType
  BY DEF BrkType
<1> QED
  BY <1>1, <1>2, <1>3, <1>4, <1>5, <1>6, <1>7, <1>8

(* AllowAlways adds the breaker to the disabled ones and nothing else.       *)
LEMMA BrkOff ==
    ASSUME NEW b \in BrkType, NEW name \in {"rep", "fruit", "same", "parse", "trunc"}
    PROVE  /\ [b EXCEPT !.off = @ \union {name}] \in BrkType
           /\ [b EXCEPT !.off = @ \union {name}].rep = b.rep
           /\ [b EXCEPT !.off = @ \union {name}].err = b.err
<1>1. b.off \union {name} \in SUBSET {"rep", "fruit", "same", "parse", "trunc"}
  BY DEF BrkType
<1>2. [b EXCEPT !.off = @ \union {name}] \in BrkType
  BY <1>1 DEF BrkType
<1>3. /\ [b EXCEPT !.off = @ \union {name}].rep = b.rep
      /\ [b EXCEPT !.off = @ \union {name}].err = b.err
  BY DEF BrkType
<1> QED
  BY <1>2, <1>3

(* Zero and one are counts.                                                  *)
LEMMA SmallCounts == 0 \in 0 .. CountBound /\ 1 \in 0 .. CountBound
  BY BoundFacts

(* The breakers' counting keeps the record's type.                           *)
LEMMA BreakerFacts ==
    ASSUME brk \in BrkType, cur \in CurType
    PROVE  /\ \A c \in [tool : Tools, arg : Args, batched : BOOLEAN] : Repeated(c) \in BrkType
           /\ FruitCount \in 0 .. CountBound
           /\ \A similar \in BOOLEAN : SameTracked(similar) \in BrkType
           /\ ParseTracked \in BrkType
<1> USE BoundFacts
<1>1. ASSUME NEW c \in [tool : Tools, arg : Args, batched : BOOLEAN]
      PROVE  Repeated(c) \in BrkType
  <2>1. Bump(brk.rep) \in 0 .. CountBound /\ 1 \in 0 .. CountBound
    BY BumpFacts DEF BrkType
  <2>2. <<c.tool, c.arg>> \in (Tools \union {"none"}) \X (Args \union {"none"})
    OBVIOUS
  <2> QED
    BY <2>1, <2>2 DEF Repeated, BrkType
<1>2. FruitCount \in 0 .. CountBound
  BY BumpFacts DEF FruitCount, BrkType
<1>3. ASSUME NEW similar \in BOOLEAN
      PROVE  SameTracked(similar) \in BrkType
  <2>1. SameCount(similar) \in 0 .. CountBound
    BY BumpFacts DEF SameCount, BrkType
  <2>2. IsErr(res) \in BOOLEAN
    BY DEF IsErr
  <2>3. 0 \in 0 .. CountBound /\ cur.tool \in Tools \union {"none"}
    BY DEF CurType
  <2> QED
    BY <2>1, <2>2, <2>3 DEF SameTracked, BrkType
<1>4. ParseTracked \in BrkType
  <2>1. Bump(brk.parse) \in 0 .. CountBound /\ 1 \in 0 .. CountBound /\ 0 \in 0 .. CountBound
    BY BumpFacts DEF BrkType
  <2>2. cur.tool \in Tools \union {"none"}
    BY DEF CurType
  <2> QED
    BY <2>1, <2>2 DEF ParseTracked, BrkType
<1> QED
  BY <1>1, <1>2, <1>3, <1>4

(* What the repeat breaker counts for a call.                                *)
LEMMA RepeatedFacts ==
    ASSUME brk \in BrkType, NEW c
    PROVE  /\ Repeated(c).rep = IF SameKey(c) THEN Bump(brk.rep) ELSE 1
           /\ Repeated(c).err = IF SameKey(c) THEN brk.err ELSE FALSE
<1>1. CASE SameKey(c)
  <2>1. Repeated(c) = [brk EXCEPT !.rep = Bump(@)]
    BY <1>1 DEF SameKey, Repeated
  <2> QED
    BY <1>1, <2>1 DEF BrkType
<1>2. CASE ~SameKey(c)
  <2>1. Repeated(c) = [brk EXCEPT !.rep = 1, !.key = <<c.tool, c.arg>>, !.err = FALSE]
    BY <1>2 DEF SameKey, Repeated
  <2> QED
    BY <1>2, <2>1 DEF BrkType
<1> QED
  BY <1>1, <1>2

(* The other breakers leave the repeat counter and its failure flag alone.   *)
LEMMA BrkKept ==
    ASSUME NEW b \in BrkType, NEW x, NEW y
    PROVE  /\ [b EXCEPT !.trunc = x].rep = b.rep /\ [b EXCEPT !.trunc = x].err = b.err
           /\ [b EXCEPT !.fruit = x].rep = b.rep /\ [b EXCEPT !.fruit = x].err = b.err
           /\ [b EXCEPT !.parse = x].rep = b.rep /\ [b EXCEPT !.parse = x].err = b.err
           /\ [b EXCEPT !.sameNudged = x].rep = b.rep /\ [b EXCEPT !.sameNudged = x].err = b.err
           /\ [b EXCEPT !.fruit = x, !.fruitNudged = y].rep = b.rep
           /\ [b EXCEPT !.fruit = x, !.fruitNudged = y].err = b.err
           /\ [b EXCEPT !.same = x, !.sameNudged = y].rep = b.rep
           /\ [b EXCEPT !.same = x, !.sameNudged = y].err = b.err
  BY DEF BrkType

(* Neither do the detectors over results.                                    *)
LEMMA TrackedKept ==
    ASSUME brk \in BrkType
    PROVE  /\ \A similar \in BOOLEAN : /\ SameTracked(similar).rep = brk.rep
                                      /\ SameTracked(similar).err = brk.err
           /\ ParseTracked.rep = brk.rep /\ ParseTracked.err = brk.err
<1>1. ASSUME NEW similar \in BOOLEAN
      PROVE  SameTracked(similar).rep = brk.rep /\ SameTracked(similar).err = brk.err
  BY DEF SameTracked, BrkType
<1>2. ParseTracked.rep = brk.rep /\ ParseTracked.err = brk.err
  BY DEF ParseTracked, BrkType
<1> QED
  BY <1>1, <1>2

(* Asking the user leaves the record as counted or as cleared; only          *)
(* AllowAlways changes more, and no repeat count or failure flag.            *)
LEMMA AskFacts ==
    ASSUME NEW name \in {"rep", "fruit", "same", "parse"}, NEW counted \in BrkType,
           NEW cleared \in BrkType, AskBreaker(name, counted, cleared)
    PROVE  /\ brk' \in BrkType /\ denied' \in {denied, TRUE}
           /\ brk'.rep \in {counted.rep, cleared.rep}
           /\ brk'.err \in {counted.err, cleared.err}
           /\ pc' \in {"after", "done"}
<1>1. CASE brk' = cleared /\ pc' = "after" /\ UNCHANGED denied
  BY <1>1
<1>2. CASE brk' = [cleared EXCEPT !.off = @ \union {name}] /\ pc' = "after" /\ UNCHANGED denied
  BY <1>2, BrkOff
<1>3. CASE brk' = counted /\ denied' = TRUE /\ pc' \in {"after", "done"}
  BY <1>3
<1> QED
  BY <1>1, <1>2, <1>3 DEF AskBreaker, Return

(* Step numbers, budgets and outcomes keep their types.                     *)
LEMMA LoopTypeStep ==
    ASSUME LoopType, BudgetInv, [Next]_vars
    PROVE  LoopType'
<1> USE BoundFacts
<1>1. CASE LoopNext
  <2>1. CASE UnderLimit
    BY <2>1
       DEF UnderLimit, loopVars, callVars, gateVars, histVars, LoopType, Exits
  <2>2. CASE PastLimit
    BY <2>2
       DEF PastLimit, Return, loopVars, callVars, gateVars, histVars, LoopType,
         Exits
  <2>3. CASE LimitExtended
    <3>1. effMax' \in 0 .. StepBound /\ unlimited' \in BOOLEAN
      <4>1. CASE effMax' = effMax + 1 /\ effMax + 1 <= StepBound /\ UNCHANGED unlimited
        BY <4>1 DEF LoopType
      <4>2. CASE effMax' = effMax + MaxSteps /\ effMax + MaxSteps <= StepBound /\ UNCHANGED unlimited
        BY <4>2 DEF LoopType
      <4>3. CASE unlimited' = TRUE /\ UNCHANGED effMax
        BY <4>3 DEF LoopType
      <4> QED
        BY <2>3, <4>1, <4>2, <4>3 DEF LimitExtended
    <3> QED
      BY <2>3, <3>1 DEF LimitExtended, LoopType
  <2>4. CASE LimitDenied
    BY <2>4
       DEF LimitDenied, AtLimit, Return, loopVars, callVars, gateVars,
         histVars, LoopType, Exits
  <2>5. CASE CancelledAtStep
    BY <2>5
       DEF CancelledAtStep, Return, loopVars, callVars, gateVars, histVars,
         LoopType, Exits
  <2>6. CASE PauseAtStep
    BY <2>6
       DEF PauseAtStep, Return, loopVars, callVars, gateVars, histVars,
         LoopType, Exits
  <2>7. CASE CallLLM
    BY <2>7
       DEF CallLLM, loopVars, callVars, gateVars, histVars, LoopType, Exits,
         Step
  <2>8. CASE LLMContextExceeded
    BY <2>8
       DEF LLMContextExceeded, NextIteration, loopVars, callVars, gateVars,
         histVars, LoopType, Exits, Step
  <2>9. CASE LLMError
    BY <2>9
       DEF LLMError, Return, loopVars, callVars, gateVars, histVars, LoopType,
         Exits
  <2>10. CASE LLMReplies
    BY <2>10
       DEF LLMReplies, loopVars, callVars, gateVars, histVars, LoopType, Exits
  <2> QED
    BY <1>1, <2>1, <2>2, <2>3, <2>4, <2>5, <2>6, <2>7, <2>8, <2>9, <2>10 DEF LoopNext
<1>2. CASE TextNext
  <2>1. CASE TextNudge
    BY <2>1
       DEF TextNudge, NextIteration, TextReply, loopVars, callVars, gateVars,
         histVars, LoopType, Exits, Step
  <2>2. CASE SyntaxAbort
    BY <2>2
       DEF SyntaxAbort, Return, TextReply, loopVars, callVars, gateVars,
         histVars, LoopType, Exits
  <2>3. CASE ImplicitFinish
    BY <2>3
       DEF ImplicitFinish, Return, TextReply, loopVars, callVars, gateVars,
         histVars, LoopType, Exits
  <2> QED
    BY <1>2, <2>1, <2>2, <2>3 DEF TextNext
<1>3. CASE TruncNext
  <2>1. CASE TruncatedStep
    BY <2>1
       DEF TruncatedStep, NextIteration, Truncated, loopVars, callVars,
         gateVars, histVars, LoopType, Exits, Step
  <2>2. CASE TruncationReprieve
    BY <2>2
       DEF TruncationReprieve, NextIteration, Truncated, loopVars, callVars,
         gateVars, histVars, LoopType, Exits, Step
  <2>3. CASE TruncationDenied
    BY <2>3
       DEF TruncationDenied, Return, Truncated, loopVars, callVars, gateVars,
         histVars, LoopType, Exits
  <2>4. CASE BeginCalls
    BY <2>4
       DEF BeginCalls, loopVars, callVars, gateVars, histVars, LoopType, Exits
  <2> QED
    BY <1>3, <2>1, <2>2, <2>3, <2>4 DEF TruncNext
<1>4. CASE MetaNext
  <2>1. CASE BatchError
    BY <2>1
       DEF BatchError, NextCall, LastCall, loopVars, callVars, gateVars,
         histVars, LoopType, Exits
  <2>2. CASE FinishNudged
    BY <2>2
       DEF FinishNudged, loopVars, callVars, gateVars, histVars, LoopType,
         Exits
  <2>3. CASE FinishAccepted
    BY <2>3
       DEF FinishAccepted, Return, VerifyHook, loopVars, callVars, gateVars,
         histVars, LoopType, Exits
  <2> QED
    BY <1>4, <2>1, <2>2, <2>3 DEF MetaNext
<1>5. CASE CallNext
  <2>1. CASE RepeatPasses
    BY <2>1
       DEF RepeatPasses, loopVars, callVars, gateVars, histVars, LoopType,
         Exits
  <2>2. CASE RepeatAsks
    BY <2>2
       DEF RepeatAsks, Return, AskBreaker, loopVars, callVars, gateVars,
         histVars, LoopType, Exits
  <2>3. CASE RepeatNudged
    BY <2>3
       DEF RepeatNudged, loopVars, callVars, gateVars, histVars, LoopType,
         Exits
  <2>4. CASE HitlAllows
    BY <2>4
       DEF HitlAllows, loopVars, callVars, gateVars, histVars, LoopType, Exits
  <2>5. CASE HitlRejects
    BY <2>5
       DEF HitlRejects, NextCall, LastCall, VerifyHook, loopVars, callVars,
         gateVars, histVars, LoopType, Exits
  <2>6. CASE HitlFails
    BY <2>6
       DEF HitlFails, Return, loopVars, callVars, gateVars, histVars, LoopType,
         Exits
  <2>7. CASE ToolReturns
    BY <2>7
       DEF ToolReturns, loopVars, callVars, gateVars, histVars, LoopType, Exits
  <2>8. CASE ToolInfraError
    BY <2>8
       DEF ToolInfraError, Return, loopVars, callVars, gateVars, histVars,
         LoopType, Exits
  <2>9. CASE ToolCancelled
    BY <2>9
       DEF ToolCancelled, Return, loopVars, callVars, gateVars, histVars,
         LoopType, Exits
  <2>10. CASE ToolTimesOut
    BY <2>10
       DEF ToolTimesOut, Return, loopVars, callVars, gateVars, histVars,
         LoopType, Exits
  <2>11. CASE PauseInTool
    BY <2>11
       DEF PauseInTool, Return, loopVars, callVars, gateVars, histVars,
         LoopType, Exits
  <2> QED
    BY <1>5, <2>1, <2>2, <2>3, <2>4, <2>5, <2>6, <2>7, <2>8, <2>9, <2>10, <2>11 DEF CallNext
<1>6. CASE ResultNext
  <2>1. CASE FruitlessPasses
    BY <2>1
       DEF FruitlessPasses, loopVars, callVars, gateVars, histVars, LoopType,
         Exits
  <2>2. CASE FruitlessAsks
    BY <2>2
       DEF FruitlessAsks, Return, AskBreaker, loopVars, callVars, gateVars,
         histVars, LoopType, Exits
  <2>3. CASE FruitlessNudged
    BY <2>3
       DEF FruitlessNudged, loopVars, callVars, gateVars, histVars, LoopType,
         Exits
  <2>4. CASE SamePasses
    BY <2>4
       DEF SamePasses, loopVars, callVars, gateVars, histVars, LoopType, Exits
  <2>5. CASE SameAsks
    BY <2>5
       DEF SameAsks, Return, AskBreaker, loopVars, callVars, gateVars,
         histVars, LoopType, Exits
  <2>6. CASE SameNudged
    BY <2>6
       DEF SameNudged, loopVars, callVars, gateVars, histVars, LoopType, Exits
  <2>7. CASE ParsePasses
    BY <2>7
       DEF ParsePasses, loopVars, callVars, gateVars, histVars, LoopType, Exits
  <2>8. CASE ParseAsks
    BY <2>8
       DEF ParseAsks, Return, AskBreaker, loopVars, callVars, gateVars,
         histVars, LoopType, Exits
  <2>9. CASE RecordStep
    BY <2>9
       DEF RecordStep, NextCall, LastCall, StepAppended, VerifyHook, loopVars,
         callVars, gateVars, histVars, LoopType, Exits
  <2>10. CASE StopGuarded
    BY <2>10
       DEF StopGuarded, StepAppended, VerifyHook, loopVars, callVars,
         gateVars, histVars, LoopType, Exits
  <2>11. CASE StopTerminates
    BY <2>11
       DEF StopTerminates, Return, StepAppended, VerifyHook, loopVars,
         callVars, gateVars, histVars, LoopType, Exits
  <2> QED
    BY <1>6, <2>1, <2>2, <2>3, <2>4, <2>5, <2>6, <2>7, <2>8, <2>9, <2>10, <2>11 DEF ResultNext
<1>7. CASE AfterNext
  <2>1. CASE AfterTriggered
    BY <2>1
       DEF AfterTriggered, NextIteration, loopVars, callVars, gateVars,
         histVars, LoopType, Exits, Step
  <2>2. CASE AfterFits
    <3>1. reactive' \in BOOLEAN
      BY <2>2 DEF AfterFits
    <3> QED
      BY <2>2, <3>1 DEF AfterFits, NextIteration, Step, LoopType
  <2>3. CASE AfterOverfull
    BY <2>3
       DEF AfterOverfull, Return, loopVars, callVars, gateVars, histVars,
         LoopType, Exits
  <2> QED
    BY <1>7, <2>1, <2>2, <2>3 DEF AfterNext
<1>8. CASE Cancel
  <2>1. CASE Cancel
    BY <2>1
       DEF Cancel, loopVars, callVars, gateVars, histVars, LoopType, Exits
  <2> QED
    BY <1>8, <2>1 DEF Cancel
<1>9. CASE UNCHANGED vars
  BY <1>9 DEF vars, loopVars, callVars, gateVars, histVars, LoopType, Exits
<1> QED
  BY <1>1, <1>2, <1>3, <1>4, <1>5, <1>6, <1>7, <1>8, <1>9 DEF Next, Run, Done

(* The reply and the call in hand keep their types.                         *)
LEMMA CallTypeStep ==
    ASSUME CallType, ThoughtInv, [Next]_vars
    PROVE  CallType'
<1> USE BoundFacts, EmptyFacts
<1>1. CASE LoopNext
  <2>1. CASE UnderLimit
    BY <2>1
       DEF UnderLimit, loopVars, callVars, gateVars, histVars, CallType
  <2>2. CASE PastLimit
    BY <2>2
       DEF PastLimit, Return, loopVars, callVars, gateVars, histVars, CallType
  <2>3. CASE LimitExtended
    BY <2>3
       DEF LimitExtended, AtLimit, loopVars, callVars, gateVars, histVars,
         CallType
  <2>4. CASE LimitDenied
    BY <2>4
       DEF LimitDenied, AtLimit, Return, loopVars, callVars, gateVars,
         histVars, CallType
  <2>5. CASE CancelledAtStep
    BY <2>5
       DEF CancelledAtStep, Return, loopVars, callVars, gateVars, histVars,
         CallType
  <2>6. CASE PauseAtStep
    BY <2>6
       DEF PauseAtStep, Return, loopVars, callVars, gateVars, histVars,
         CallType
  <2>7. CASE CallLLM
    BY <2>7
       DEF CallLLM, loopVars, callVars, gateVars, histVars, CallType
  <2>8. CASE LLMContextExceeded
    BY <2>8
       DEF LLMContextExceeded, NextIteration, loopVars, callVars, gateVars,
         histVars, CallType
  <2>9. CASE LLMError
    BY <2>9
       DEF LLMError, Return, loopVars, callVars, gateVars, histVars, CallType
  <2>10. CASE LLMReplies
    BY <2>10
       DEF LLMReplies, loopVars, callVars, gateVars, histVars, CallType,
         RespType
  <2> QED
    BY <1>1, <2>1, <2>2, <2>3, <2>4, <2>5, <2>6, <2>7, <2>8, <2>9, <2>10 DEF LoopNext
<1>2. CASE TextNext
  BY <1>2
     DEF TextNext, TextNudge, SyntaxAbort, ImplicitFinish, Return, NextIteration,
         TextReply, loopVars, callVars, gateVars, histVars, CallType
<1>3. CASE TruncNext
  <2>1. CASE TruncatedStep
    BY <2>1
       DEF TruncatedStep, NextIteration, Truncated, loopVars, callVars,
         gateVars, histVars, CallType
  <2>2. CASE TruncationReprieve
    BY <2>2
       DEF TruncationReprieve, NextIteration, Truncated, loopVars, callVars,
         gateVars, histVars, CallType
  <2>3. CASE TruncationDenied
    BY <2>3
       DEF TruncationDenied, Return, Truncated, loopVars, callVars, gateVars,
         histVars, CallType
  <2>4. CASE BeginCalls
    BY <2>4
       DEF BeginCalls, loopVars, callVars, gateVars, histVars, CallType
  <2> QED
    BY <1>3, <2>1, <2>2, <2>3, <2>4 DEF TruncNext
<1>4. CASE MetaNext
  <2>1. CASE BatchError
    BY <2>1
       DEF BatchError, NextCall, LastCall, loopVars, callVars, gateVars,
         histVars, CallType, ThoughtInv, InCall, RespType
  <2>2. CASE FinishNudged
    BY <2>2
       DEF FinishNudged, loopVars, callVars, gateVars, histVars, CallType
  <2>3. CASE FinishAccepted
    BY <2>3
       DEF FinishAccepted, Return, VerifyHook, loopVars, callVars, gateVars,
         histVars, CallType
  <2> QED
    BY <1>4, <2>1, <2>2, <2>3 DEF MetaNext
<1>5. CASE CallNext
  <2>1. CASE RepeatPasses
    BY <2>1
       DEF RepeatPasses, loopVars, callVars, gateVars, histVars, CallType,
         NextCalls, CurType
  <2>2. CASE RepeatAsks
    BY <2>2
       DEF RepeatAsks, Return, AskBreaker, loopVars, callVars, gateVars,
         histVars, CallType, NextCalls, CurType
  <2>3. CASE RepeatNudged
    BY <2>3
       DEF RepeatNudged, loopVars, callVars, gateVars, histVars, CallType,
         NextCalls, CurType
  <2>4. CASE HitlAllows
    BY <2>4
       DEF HitlAllows, loopVars, callVars, gateVars, histVars, CallType
  <2>5. CASE HitlRejects
    BY <2>5
       DEF HitlRejects, NextCall, LastCall, VerifyHook, loopVars, callVars,
         gateVars, histVars, CallType, ThoughtInv, InCall, RespType
  <2>6. CASE HitlFails
    BY <2>6
       DEF HitlFails, Return, loopVars, callVars, gateVars, histVars, CallType
  <2>7. CASE ToolReturns
    BY <2>7
       DEF ToolReturns, loopVars, callVars, gateVars, histVars, CallType
  <2>8. CASE ToolInfraError
    BY <2>8
       DEF ToolInfraError, Return, loopVars, callVars, gateVars, histVars,
         CallType
  <2>9. CASE ToolCancelled
    BY <2>9
       DEF ToolCancelled, Return, loopVars, callVars, gateVars, histVars,
         CallType
  <2>10. CASE ToolTimesOut
    BY <2>10
       DEF ToolTimesOut, Return, loopVars, callVars, gateVars, histVars,
         CallType
  <2>11. CASE PauseInTool
    BY <2>11
       DEF PauseInTool, Return, loopVars, callVars, gateVars, histVars,
         CallType
  <2> QED
    BY <1>5, <2>1, <2>2, <2>3, <2>4, <2>5, <2>6, <2>7, <2>8, <2>9, <2>10, <2>11 DEF CallNext
<1>6. CASE ResultNext
  <2>1. CASE FruitlessPasses
    BY <2>1
       DEF FruitlessPasses, loopVars, callVars, gateVars, histVars, CallType
  <2>2. CASE FruitlessAsks
    BY <2>2
       DEF FruitlessAsks, Return, AskBreaker, loopVars, callVars, gateVars,
         histVars, CallType
  <2>3. CASE FruitlessNudged
    BY <2>3
       DEF FruitlessNudged, loopVars, callVars, gateVars, histVars, CallType
  <2>4. CASE SamePasses
    BY <2>4
       DEF SamePasses, loopVars, callVars, gateVars, histVars, CallType
  <2>5. CASE SameAsks
    BY <2>5
       DEF SameAsks, Return, AskBreaker, loopVars, callVars, gateVars,
         histVars, CallType
  <2>6. CASE SameNudged
    BY <2>6
       DEF SameNudged, loopVars, callVars, gateVars, histVars, CallType
  <2>7. CASE ParsePasses
    BY <2>7
       DEF ParsePasses, loopVars, callVars, gateVars, histVars, CallType
  <2>8. CASE ParseAsks
    BY <2>8
       DEF ParseAsks, Return, AskBreaker, loopVars, callVars, gateVars,
         histVars, CallType
  <2>9. CASE RecordStep
    BY <2>9
       DEF RecordStep, NextCall, LastCall, StepAppended, VerifyHook, loopVars,
         callVars, gateVars, histVars, CallType, ThoughtInv, InCall, RespType
  <2>10. CASE StopGuarded
    BY <2>10
       DEF StopGuarded, StepAppended, VerifyHook, loopVars, callVars,
         gateVars, histVars, CallType
  <2>11. CASE StopTerminates
    BY <2>11
       DEF StopTerminates, Return, StepAppended, VerifyHook, loopVars,
         callVars, gateVars, histVars, CallType
  <2> QED
    BY <1>6, <2>1, <2>2, <2>3, <2>4, <2>5, <2>6, <2>7, <2>8, <2>9, <2>10, <2>11 DEF ResultNext
<1>7. CASE AfterNext
  BY <1>7
     DEF AfterNext, AfterTriggered, AfterFits, AfterOverfull, Return,
         NextIteration, loopVars, callVars, gateVars, histVars, CallType
<1>8. CASE Cancel
  BY <1>8
     DEF Cancel, loopVars, callVars, gateVars, histVars, CallType
<1>9. CASE UNCHANGED vars
  BY <1>9 DEF vars, loopVars, callVars, gateVars, histVars, CallType
<1> QED
  BY <1>1, <1>2, <1>3, <1>4, <1>5, <1>6, <1>7, <1>8, <1>9 DEF Next, Run, Done

(* The nudge counters stay within their limits.                             *)
LEMMA GateTypeStep ==
    ASSUME GateType, CallType, [Next]_vars
    PROVE  GateType'
<1> USE AppendedFacts
<1>1. CASE LoopNext
  BY <1>1
     DEF LoopNext, UnderLimit, PastLimit, LimitExtended, LimitDenied,
         CancelledAtStep, PauseAtStep, CallLLM, LLMContextExceeded, LLMError, LLMReplies,
         AtLimit, Return, NextIteration, loopVars, callVars, gateVars, histVars, GateType,
         IsErr
<1>2. CASE TextNext
  <2>1. CASE TextNudge
    <3>1. CASE nudged.syntax < 3 /\ nudged' = [nudged EXCEPT !.syntax = nudged.syntax + 1]
      BY <2>1, <3>1 DEF TextNudge, GateType, NudgedType
    <3>2. CASE nudged.implicit < 2 /\ nudged' = [nudged EXCEPT !.implicit = nudged.implicit + 1]
      BY <2>1, <3>2 DEF TextNudge, GateType, NudgedType
    <3>3. CASE nudged' = [nudged EXCEPT !.finish = TRUE]
      BY <2>1, <3>3 DEF TextNudge, GateType, NudgedType
    <3>4. \/ nudged.syntax < 3 /\ nudged' = [nudged EXCEPT !.syntax = nudged.syntax + 1]
          \/ nudged.implicit < 2 /\ nudged' = [nudged EXCEPT !.implicit = nudged.implicit + 1]
          \/ nudged' = [nudged EXCEPT !.finish = TRUE]
      BY <2>1 DEF TextNudge, ImplicitNudgeDue
    <3> QED
      BY <3>1, <3>2, <3>3, <3>4
  <2>2. CASE SyntaxAbort
    BY <2>2
       DEF SyntaxAbort, Return, TextReply, loopVars, callVars, gateVars,
         histVars, GateType, IsErr
  <2>3. CASE ImplicitFinish
    BY <2>3
       DEF ImplicitFinish, Return, TextReply, loopVars, callVars, gateVars,
         histVars, GateType, IsErr
  <2> QED
    BY <1>2, <2>1, <2>2, <2>3 DEF TextNext
<1>3. CASE TruncNext
  <2>1. CASE TruncatedStep
    BY <2>1
       DEF TruncatedStep, NextIteration, Truncated, loopVars, callVars,
         gateVars, histVars, GateType, IsErr
  <2>2. CASE TruncationReprieve
    BY <2>2
       DEF TruncationReprieve, NextIteration, Truncated, loopVars, callVars,
         gateVars, histVars, GateType, IsErr
  <2>3. CASE TruncationDenied
    BY <2>3
       DEF TruncationDenied, Return, Truncated, loopVars, callVars, gateVars,
         histVars, GateType, IsErr
  <2>4. CASE BeginCalls
    BY <2>4
       DEF BeginCalls, loopVars, callVars, gateVars, histVars, GateType, IsErr
  <2> QED
    BY <1>3, <2>1, <2>2, <2>3, <2>4 DEF TruncNext
<1>4. CASE MetaNext
  <2>1. CASE BatchError
    BY <2>1
       DEF BatchError, NextCall, LastCall, loopVars, callVars, gateVars,
         histVars, GateType, IsErr
  <2>2. CASE FinishNudged
    BY <2>2
       DEF FinishNudged, loopVars, callVars, gateVars, histVars, GateType,
         IsErr, NudgedType
  <2>3. CASE FinishAccepted
    BY <2>3
       DEF FinishAccepted, Return, VerifyHook, loopVars, callVars, gateVars,
         histVars, GateType, IsErr
  <2> QED
    BY <1>4, <2>1, <2>2, <2>3 DEF MetaNext
<1>5. CASE CallNext
  <2>1. CASE RepeatPasses
    BY <2>1
       DEF RepeatPasses, loopVars, callVars, gateVars, histVars, GateType,
         IsErr
  <2>2. CASE RepeatAsks
    BY <2>2
       DEF RepeatAsks, Return, AskBreaker, loopVars, callVars, gateVars,
         histVars, GateType, IsErr
  <2>3. CASE RepeatNudged
    BY <2>3
       DEF RepeatNudged, loopVars, callVars, gateVars, histVars, GateType,
         IsErr
  <2>4. CASE HitlAllows
    BY <2>4
       DEF HitlAllows, loopVars, callVars, gateVars, histVars, GateType, IsErr
  <2>5. CASE HitlRejects
    BY <2>5
       DEF HitlRejects, NextCall, LastCall, VerifyHook, loopVars, callVars,
         gateVars, histVars, GateType, IsErr
  <2>6. CASE HitlFails
    BY <2>6
       DEF HitlFails, Return, loopVars, callVars, gateVars, histVars, GateType,
         IsErr
  <2>7. CASE ToolReturns
    BY <2>7
       DEF ToolReturns, loopVars, callVars, gateVars, histVars, GateType, IsErr
  <2>8. CASE ToolInfraError
    BY <2>8
       DEF ToolInfraError, Return, loopVars, callVars, gateVars, histVars,
         GateType, IsErr
  <2>9. CASE ToolCancelled
    BY <2>9
       DEF ToolCancelled, Return, loopVars, callVars, gateVars, histVars,
         GateType, IsErr
  <2>10. CASE ToolTimesOut
    BY <2>10
       DEF ToolTimesOut, Return, loopVars, callVars, gateVars, histVars,
         GateType, IsErr
  <2>11. CASE PauseInTool
    BY <2>11
       DEF PauseInTool, Return, loopVars, callVars, gateVars, histVars,
         GateType, IsErr
  <2> QED
    BY <1>5, <2>1, <2>2, <2>3, <2>4, <2>5, <2>6, <2>7, <2>8, <2>9, <2>10, <2>11 DEF CallNext
<1>6. CASE ResultNext
  <2>1. CASE FruitlessPasses
    BY <2>1
       DEF FruitlessPasses, loopVars, callVars, gateVars, histVars, GateType,
         IsErr
  <2>2. CASE FruitlessAsks
    BY <2>2
       DEF FruitlessAsks, Return, AskBreaker, loopVars, callVars, gateVars,
         histVars, GateType, IsErr
  <2>3. CASE FruitlessNudged
    BY <2>3
       DEF FruitlessNudged, loopVars, callVars, gateVars, histVars, GateType,
         IsErr
  <2>4. CASE SamePasses
    BY <2>4
       DEF SamePasses, loopVars, callVars, gateVars, histVars, GateType, IsErr
  <2>5. CASE SameAsks
    BY <2>5
       DEF SameAsks, Return, AskBreaker, loopVars, callVars, gateVars,
         histVars, GateType, IsErr
  <2>6. CASE SameNudged
    BY <2>6
       DEF SameNudged, loopVars, callVars, gateVars, histVars, GateType, IsErr
  <2>7. CASE ParsePasses
    BY <2>7
       DEF ParsePasses, loopVars, callVars, gateVars, histVars, GateType, IsErr
  <2>8. CASE ParseAsks
    BY <2>8
       DEF ParseAsks, Return, AskBreaker, loopVars, callVars, gateVars,
         histVars, GateType, IsErr
  <2>9. CASE RecordStep
    BY <2>9, StepAppendedFacts DEF RecordStep, GateType
  <2>10. CASE StopGuarded
    BY <2>10, StepAppendedFacts DEF StopGuarded, GateType
  <2>11. CASE StopTerminates
    BY <2>11, StepAppendedFacts DEF StopTerminates, GateType
  <2> QED
    BY <1>6, <2>1, <2>2, <2>3, <2>4, <2>5, <2>6, <2>7, <2>8, <2>9, <2>10, <2>11 DEF ResultNext
<1>7. CASE AfterNext
  BY <1>7
     DEF AfterNext, AfterTriggered, AfterFits, AfterOverfull, Return,
         NextIteration, loopVars, callVars, gateVars, histVars, GateType, IsErr
<1>8. CASE Cancel
  BY <1>8
     DEF Cancel, loopVars, callVars, gateVars, histVars, GateType, IsErr
<1>9. CASE UNCHANGED vars
  BY <1>9 DEF vars, loopVars, callVars, gateVars, histVars, GateType, IsErr
<1> QED
  BY <1>1, <1>2, <1>3, <1>4, <1>5, <1>6, <1>7, <1>8, <1>9 DEF Next, Run, Done

(* No step but a return sets an outcome.                                    *)
LEMMA ExitStep ==
    ASSUME ExitInv, [Next]_vars
    PROVE  ExitInv'
<1>1. CASE LoopNext
  BY <1>1
     DEF LoopNext, UnderLimit, PastLimit, LimitExtended, LimitDenied,
         CancelledAtStep, PauseAtStep, CallLLM, LLMContextExceeded, LLMError, LLMReplies,
         AtLimit, Return, NextIteration, loopVars, callVars, gateVars, histVars, ExitInv
<1>2. CASE TextNext
  BY <1>2
     DEF TextNext, TextNudge, SyntaxAbort, ImplicitFinish, Return, NextIteration,
         TextReply, loopVars, callVars, gateVars, histVars, ExitInv
<1>3. CASE TruncNext
  BY <1>3
     DEF TruncNext, TruncatedStep, TruncationReprieve, TruncationDenied,
         BeginCalls, Return, NextIteration, Truncated, loopVars, callVars, gateVars,
         histVars, ExitInv
<1>4. CASE MetaNext
  BY <1>4
     DEF MetaNext, BatchError, FinishNudged, FinishAccepted, Return, NextCall,
         LastCall, VerifyHook, loopVars, callVars, gateVars, histVars, ExitInv
<1>5. CASE CallNext
  <2>1. CASE RepeatPasses
    BY <2>1
       DEF RepeatPasses, loopVars, callVars, gateVars, histVars, ExitInv
  <2>2. CASE RepeatAsks
    BY <2>2
       DEF RepeatAsks, Return, AskBreaker, loopVars, callVars, gateVars,
         histVars, ExitInv
  <2>3. CASE RepeatNudged
    BY <2>3
       DEF RepeatNudged, loopVars, callVars, gateVars, histVars, ExitInv
  <2>4. CASE HitlAllows
    BY <2>4
       DEF HitlAllows, loopVars, callVars, gateVars, histVars, ExitInv
  <2>5. CASE HitlRejects
    BY <2>5
       DEF HitlRejects, NextCall, LastCall, VerifyHook, loopVars, callVars,
         gateVars, histVars, ExitInv
  <2>6. CASE HitlFails
    BY <2>6
       DEF HitlFails, Return, loopVars, callVars, gateVars, histVars, ExitInv
  <2>7. CASE ToolReturns
    BY <2>7
       DEF ToolReturns, loopVars, callVars, gateVars, histVars, ExitInv
  <2>8. CASE ToolInfraError
    BY <2>8
       DEF ToolInfraError, Return, loopVars, callVars, gateVars, histVars,
         ExitInv
  <2>9. CASE ToolCancelled
    BY <2>9
       DEF ToolCancelled, Return, loopVars, callVars, gateVars, histVars,
         ExitInv
  <2>10. CASE ToolTimesOut
    BY <2>10
       DEF ToolTimesOut, Return, loopVars, callVars, gateVars, histVars,
         ExitInv
  <2>11. CASE PauseInTool
    BY <2>11
       DEF PauseInTool, Return, loopVars, callVars, gateVars, histVars,
         ExitInv
  <2> QED
    BY <1>5, <2>1, <2>2, <2>3, <2>4, <2>5, <2>6, <2>7, <2>8, <2>9, <2>10, <2>11 DEF CallNext
<1>6. CASE ResultNext
  <2>1. CASE FruitlessPasses
    BY <2>1
       DEF FruitlessPasses, loopVars, callVars, gateVars, histVars, ExitInv
  <2>2. CASE FruitlessAsks
    BY <2>2
       DEF FruitlessAsks, Return, AskBreaker, loopVars, callVars, gateVars,
         histVars, ExitInv
  <2>3. CASE FruitlessNudged
    BY <2>3
       DEF FruitlessNudged, loopVars, callVars, gateVars, histVars, ExitInv
  <2>4. CASE SamePasses
    BY <2>4
       DEF SamePasses, loopVars, callVars, gateVars, histVars, ExitInv
  <2>5. CASE SameAsks
    BY <2>5
       DEF SameAsks, Return, AskBreaker, loopVars, callVars, gateVars,
         histVars, ExitInv
  <2>6. CASE SameNudged
    BY <2>6
       DEF SameNudged, loopVars, callVars, gateVars, histVars, ExitInv
  <2>7. CASE ParsePasses
    BY <2>7
       DEF ParsePasses, loopVars, callVars, gateVars, histVars, ExitInv
  <2>8. CASE ParseAsks
    BY <2>8
       DEF ParseAsks, Return, AskBreaker, loopVars, callVars, gateVars,
         histVars, ExitInv
  <2>9. CASE RecordStep
    BY <2>9
       DEF RecordStep, NextCall, LastCall, StepAppended, VerifyHook, loopVars,
         callVars, gateVars, histVars, ExitInv
  <2>10. CASE StopGuarded
    BY <2>10
       DEF StopGuarded, StepAppended, VerifyHook, loopVars, callVars,
         gateVars, histVars, ExitInv
  <2>11. CASE StopTerminates
    BY <2>11
       DEF StopTerminates, Return, StepAppended, VerifyHook, loopVars,
         callVars, gateVars, histVars, ExitInv
  <2> QED
    BY <1>6, <2>1, <2>2, <2>3, <2>4, <2>5, <2>6, <2>7, <2>8, <2>9, <2>10, <2>11 DEF ResultNext
<1>7. CASE AfterNext
  BY <1>7
     DEF AfterNext, AfterTriggered, AfterFits, AfterOverfull, Return,
         NextIteration, loopVars, callVars, gateVars, histVars, ExitInv
<1>8. CASE Cancel
  BY <1>8
     DEF Cancel, loopVars, callVars, gateVars, histVars, ExitInv
<1>9. CASE UNCHANGED vars
  BY <1>9 DEF vars, loopVars, callVars, gateVars, histVars, ExitInv
<1> QED
  BY <1>1, <1>2, <1>3, <1>4, <1>5, <1>6, <1>7, <1>8, <1>9 DEF Next, Run, Done

(* The budget invariant.                                                    *)
LEMMA BudgetStep ==
    ASSUME LoopType, BudgetInv, [Next]_vars
    PROVE  BudgetInv'
<1> USE BoundFacts
<1>1. CASE LoopNext
  <2>1. CASE UnderLimit
    BY <2>1
       DEF UnderLimit, loopVars, callVars, gateVars, histVars, BudgetInv,
         LoopType
  <2>2. CASE PastLimit
    BY <2>2
       DEF PastLimit, Return, loopVars, callVars, gateVars, histVars,
         BudgetInv, LoopType
  <2>3. CASE LimitExtended
    BY <2>3
       DEF LimitExtended, AtLimit, loopVars, callVars, gateVars, histVars,
         BudgetInv, LoopType
  <2>4. CASE LimitDenied
    BY <2>4
       DEF LimitDenied, AtLimit, Return, loopVars, callVars, gateVars,
         histVars, BudgetInv, LoopType
  <2>5. CASE CancelledAtStep
    BY <2>5
       DEF CancelledAtStep, Return, loopVars, callVars, gateVars, histVars,
         BudgetInv, LoopType
  <2>6. CASE PauseAtStep
    BY <2>6
       DEF PauseAtStep, Return, loopVars, callVars, gateVars, histVars,
         BudgetInv, LoopType
  <2>7. CASE CallLLM
    BY <2>7
       DEF CallLLM, loopVars, callVars, gateVars, histVars, BudgetInv,
         LoopType, Step
  <2>8. CASE LLMContextExceeded
    BY <2>8
       DEF LLMContextExceeded, NextIteration, loopVars, callVars, gateVars,
         histVars, BudgetInv, LoopType, Step
  <2>9. CASE LLMError
    BY <2>9
       DEF LLMError, Return, loopVars, callVars, gateVars, histVars, BudgetInv,
         LoopType
  <2>10. CASE LLMReplies
    BY <2>10
       DEF LLMReplies, loopVars, callVars, gateVars, histVars, BudgetInv,
         LoopType
  <2> QED
    BY <1>1, <2>1, <2>2, <2>3, <2>4, <2>5, <2>6, <2>7, <2>8, <2>9, <2>10 DEF LoopNext
<1>2. CASE TextNext
  BY <1>2
     DEF TextNext, TextNudge, SyntaxAbort, ImplicitFinish, Return, NextIteration,
         TextReply, loopVars, callVars, gateVars, histVars, BudgetInv, LoopType, Step
<1>3. CASE TruncNext
  <2>1. CASE TruncatedStep
    BY <2>1
       DEF TruncatedStep, NextIteration, Truncated, loopVars, callVars,
         gateVars, histVars, BudgetInv, LoopType, Step
  <2>2. CASE TruncationReprieve
    BY <2>2
       DEF TruncationReprieve, NextIteration, Truncated, loopVars, callVars,
         gateVars, histVars, BudgetInv, LoopType, Step
  <2>3. CASE TruncationDenied
    BY <2>3
       DEF TruncationDenied, Return, Truncated, loopVars, callVars, gateVars,
         histVars, BudgetInv, LoopType
  <2>4. CASE BeginCalls
    BY <2>4
       DEF BeginCalls, loopVars, callVars, gateVars, histVars, BudgetInv,
         LoopType
  <2> QED
    BY <1>3, <2>1, <2>2, <2>3, <2>4 DEF TruncNext
<1>4. CASE MetaNext
  BY <1>4
     DEF MetaNext, BatchError, FinishNudged, FinishAccepted, Return, NextCall,
         LastCall, VerifyHook, loopVars, callVars, gateVars, histVars, BudgetInv, LoopType
<1>5. CASE CallNext
  <2>1. CASE RepeatPasses
    BY <2>1
       DEF RepeatPasses, loopVars, callVars, gateVars, histVars, BudgetInv,
         LoopType
  <2>2. CASE RepeatAsks
    BY <2>2
       DEF RepeatAsks, Return, AskBreaker, loopVars, callVars, gateVars,
         histVars, BudgetInv, LoopType
  <2>3. CASE RepeatNudged
    BY <2>3
       DEF RepeatNudged, loopVars, callVars, gateVars, histVars, BudgetInv,
         LoopType
  <2>4. CASE HitlAllows
    BY <2>4
       DEF HitlAllows, loopVars, callVars, gateVars, histVars, BudgetInv,
         LoopType
  <2>5. CASE HitlRejects
    BY <2>5
       DEF HitlRejects, NextCall, LastCall, VerifyHook, loopVars, callVars,
         gateVars, histVars, BudgetInv, LoopType
  <2>6. CASE HitlFails
    BY <2>6
       DEF HitlFails, Return, loopVars, callVars, gateVars, histVars,
         BudgetInv, LoopType
  <2>7. CASE ToolReturns
    BY <2>7
       DEF ToolReturns, loopVars, callVars, gateVars, histVars, BudgetInv,
         LoopType
  <2>8. CASE ToolInfraError
    BY <2>8
       DEF ToolInfraError, Return, loopVars, callVars, gateVars, histVars,
         BudgetInv, LoopType
  <2>9. CASE ToolCancelled
    BY <2>9
       DEF ToolCancelled, Return, loopVars, callVars, gateVars, histVars,
         BudgetInv, LoopType
  <2>10. CASE ToolTimesOut
    BY <2>10
       DEF ToolTimesOut, Return, loopVars, callVars, gateVars, histVars,
         BudgetInv, LoopType
  <2>11. CASE PauseInTool
    BY <2>11
       DEF PauseInTool, Return, loopVars, callVars, gateVars, histVars,
         BudgetInv, LoopType
  <2> QED
    BY <1>5, <2>1, <2>2, <2>3, <2>4, <2>5, <2>6, <2>7, <2>8, <2>9, <2>10, <2>11 DEF CallNext
<1>6. CASE ResultNext
  <2>1. CASE FruitlessPasses
    BY <2>1
       DEF FruitlessPasses, loopVars, callVars, gateVars, histVars, BudgetInv,
         LoopType
  <2>2. CASE FruitlessAsks
    BY <2>2
       DEF FruitlessAsks, Return, AskBreaker, loopVars, callVars, gateVars,
         histVars, BudgetInv, LoopType
  <2>3. CASE FruitlessNudged
    BY <2>3
       DEF FruitlessNudged, loopVars, callVars, gateVars, histVars, BudgetInv,
         LoopType
  <2>4. CASE SamePasses
    BY <2>4
       DEF SamePasses, loopVars, callVars, gateVars, histVars, BudgetInv,
         LoopType
  <2>5. CASE SameAsks
    BY <2>5
       DEF SameAsks, Return, AskBreaker, loopVars, callVars, gateVars,
         histVars, BudgetInv, LoopType
  <2>6. CASE SameNudged
    BY <2>6
       DEF SameNudged, loopVars, callVars, gateVars, histVars, BudgetInv,
         LoopType
  <2>7. CASE ParsePasses
    BY <2>7
       DEF ParsePasses, loopVars, callVars, gateVars, histVars, BudgetInv,
         LoopType
  <2>8. CASE ParseAsks
    BY <2>8
       DEF ParseAsks, Return, AskBreaker, loopVars, callVars, gateVars,
         histVars, BudgetInv, LoopType
  <2>9. CASE RecordStep
    BY <2>9
       DEF RecordStep, NextCall, LastCall, StepAppended, VerifyHook, loopVars,
         callVars, gateVars, histVars, BudgetInv, LoopType
  <2>10. CASE StopGuarded
    BY <2>10
       DEF StopGuarded, StepAppended, VerifyHook, loopVars, callVars,
         gateVars, histVars, BudgetInv, LoopType
  <2>11. CASE StopTerminates
    BY <2>11
       DEF StopTerminates, Return, StepAppended, VerifyHook, loopVars,
         callVars, gateVars, histVars, BudgetInv, LoopType
  <2> QED
    BY <1>6, <2>1, <2>2, <2>3, <2>4, <2>5, <2>6, <2>7, <2>8, <2>9, <2>10, <2>11 DEF ResultNext
<1>7. CASE AfterNext
  BY <1>7
     DEF AfterNext, AfterTriggered, AfterFits, AfterOverfull, Return,
         NextIteration, loopVars, callVars, gateVars, histVars, BudgetInv, LoopType, Step
<1>8. CASE Cancel
  BY <1>8
     DEF Cancel, loopVars, callVars, gateVars, histVars, BudgetInv, LoopType
<1>9. CASE UNCHANGED vars
  BY <1>9 DEF vars, loopVars, callVars, gateVars, histVars, BudgetInv
<1> QED
  BY <1>1, <1>2, <1>3, <1>4, <1>5, <1>6, <1>7, <1>8, <1>9 DEF Next, Run, Done

(* Every path keeps the trajectory in step with what was executed.          *)
LEMMA MutationStep ==
    ASSUME MutationInv, CallType, GateType, HistoryType, [Next]_vars
    PROVE  MutationInv'
<1> USE ToolsAssumption, AppendedFacts
<1>1. CASE LoopNext
  <2>1. CASE UnderLimit
    BY <2>1
       DEF UnderLimit, loopVars, callVars, gateVars, histVars, MutationInv,
         InResult, IsErr
  <2>2. CASE PastLimit
    BY <2>2
       DEF PastLimit, Return, loopVars, callVars, gateVars, histVars,
         MutationInv, InResult, IsErr
  <2>3. CASE LimitExtended
    BY <2>3
       DEF LimitExtended, AtLimit, loopVars, callVars, gateVars, histVars,
         MutationInv, InResult, IsErr
  <2>4. CASE LimitDenied
    BY <2>4
       DEF LimitDenied, AtLimit, Return, loopVars, callVars, gateVars,
         histVars, MutationInv, InResult, IsErr
  <2>5. CASE CancelledAtStep
    BY <2>5
       DEF CancelledAtStep, Return, loopVars, callVars, gateVars, histVars,
         MutationInv, InResult, IsErr
  <2>6. CASE PauseAtStep
    BY <2>6
       DEF PauseAtStep, Return, loopVars, callVars, gateVars, histVars,
         MutationInv, InResult, IsErr
  <2>7. CASE CallLLM
    BY <2>7
       DEF CallLLM, loopVars, callVars, gateVars, histVars, MutationInv,
         InResult, IsErr
  <2>8. CASE LLMContextExceeded
    BY <2>8
       DEF LLMContextExceeded, NextIteration, loopVars, callVars, gateVars,
         histVars, MutationInv, InResult, IsErr
  <2>9. CASE LLMError
    BY <2>9
       DEF LLMError, Return, loopVars, callVars, gateVars, histVars,
         MutationInv, InResult, IsErr
  <2>10. CASE LLMReplies
    BY <2>10
       DEF LLMReplies, loopVars, callVars, gateVars, histVars, MutationInv,
         InResult, IsErr
  <2> QED
    BY <1>1, <2>1, <2>2, <2>3, <2>4, <2>5, <2>6, <2>7, <2>8, <2>9, <2>10 DEF LoopNext
<1>2. CASE TextNext
  <2>1. CASE TextNudge
    BY <2>1
       DEF TextNudge, NextIteration, TextReply, loopVars, callVars, gateVars,
         histVars, MutationInv, InResult, IsErr
  <2>2. CASE SyntaxAbort
    BY <2>2
       DEF SyntaxAbort, Return, TextReply, loopVars, callVars, gateVars,
         histVars, MutationInv, InResult, IsErr
  <2>3. CASE ImplicitFinish
    BY <2>3
       DEF ImplicitFinish, Return, TextReply, loopVars, callVars, gateVars,
         histVars, MutationInv, InResult, IsErr
  <2> QED
    BY <1>2, <2>1, <2>2, <2>3 DEF TextNext
<1>3. CASE TruncNext
  <2>1. CASE TruncatedStep
    BY <2>1
       DEF TruncatedStep, NextIteration, Truncated, loopVars, callVars,
         gateVars, histVars, MutationInv, InResult, IsErr, GateType
  <2>2. CASE TruncationReprieve
    BY <2>2
       DEF TruncationReprieve, NextIteration, Truncated, loopVars, callVars,
         gateVars, histVars, MutationInv, InResult, IsErr
  <2>3. CASE TruncationDenied
    BY <2>3
       DEF TruncationDenied, Return, Truncated, loopVars, callVars, gateVars,
         histVars, MutationInv, InResult, IsErr
  <2>4. CASE BeginCalls
    BY <2>4
       DEF BeginCalls, loopVars, callVars, gateVars, histVars, MutationInv,
         InResult, IsErr
  <2> QED
    BY <1>3, <2>1, <2>2, <2>3, <2>4 DEF TruncNext
<1>4. CASE MetaNext
  <2>1. CASE BatchError
    BY <2>1
       DEF BatchError, NextCall, LastCall, loopVars, callVars, gateVars,
         histVars, MutationInv, InResult, IsErr, GateType
  <2>2. CASE FinishNudged
    BY <2>2
       DEF FinishNudged, loopVars, callVars, gateVars, histVars, MutationInv,
         InResult, IsErr
  <2>3. CASE FinishAccepted
    BY <2>3
       DEF FinishAccepted, Return, VerifyHook, loopVars, callVars, gateVars,
         histVars, MutationInv, InResult, IsErr
  <2> QED
    BY <1>4, <2>1, <2>2, <2>3 DEF MetaNext
<1>5. CASE CallNext
  <2>1. CASE RepeatPasses
    BY <2>1
       DEF RepeatPasses, loopVars, callVars, gateVars, histVars, MutationInv,
         InResult, IsErr
  <2>2. CASE RepeatAsks
    BY <2>2
       DEF RepeatAsks, Return, AskBreaker, loopVars, callVars, gateVars,
         histVars, MutationInv, InResult, IsErr
  <2>3. CASE RepeatNudged
    BY <2>3
       DEF RepeatNudged, loopVars, callVars, gateVars, histVars, MutationInv,
         InResult, IsErr, GateType
  <2>4. CASE HitlAllows
    BY <2>4
       DEF HitlAllows, loopVars, callVars, gateVars, histVars, MutationInv,
         InResult, IsErr
  <2>5. CASE HitlRejects
    BY <2>5
       DEF HitlRejects, NextCall, LastCall, VerifyHook, loopVars, callVars,
         gateVars, histVars, MutationInv, InResult, IsErr, GateType
  <2>6. CASE HitlFails
    BY <2>6
       DEF HitlFails, Return, loopVars, callVars, gateVars, histVars,
         MutationInv, InResult, IsErr
  <2>7. CASE ToolReturns
    BY <2>7
       DEF ToolReturns, loopVars, callVars, gateVars, histVars, MutationInv,
         InResult, IsErr
  <2>8. CASE ToolInfraError
    BY <2>8
       DEF ToolInfraError, Return, loopVars, callVars, gateVars, histVars,
         MutationInv, InResult, IsErr
  <2>9. CASE ToolCancelled
    BY <2>9
       DEF ToolCancelled, Return, loopVars, callVars, gateVars, histVars,
         MutationInv, InResult, IsErr
  <2>10. CASE ToolTimesOut
    BY <2>10
       DEF ToolTimesOut, Return, loopVars, callVars, gateVars, histVars,
         MutationInv, InResult, IsErr
  <2>11. CASE PauseInTool
    BY <2>11
       DEF PauseInTool, Return, loopVars, callVars, gateVars, histVars,
         MutationInv, InResult, IsErr
  <2> QED
    BY <1>5, <2>1, <2>2, <2>3, <2>4, <2>5, <2>6, <2>7, <2>8, <2>9, <2>10, <2>11 DEF CallNext
<1>6. CASE ResultNext
  <2>1. CASE FruitlessPasses
    BY <2>1
       DEF FruitlessPasses, loopVars, callVars, gateVars, histVars,
         MutationInv, InResult, IsErr
  <2>2. CASE FruitlessAsks
    BY <2>2
       DEF FruitlessAsks, Return, AskBreaker, loopVars, callVars, gateVars,
         histVars, MutationInv, InResult, IsErr, Exempt, FruitAborts, FruitNudges,
         SameAborts, SameNudges, ParseAborts
  <2>3. CASE FruitlessNudged
    BY <2>3
       DEF FruitlessNudged, loopVars, callVars, gateVars, histVars,
         MutationInv, InResult, IsErr, Exempt, FruitAborts, FruitNudges, SameAborts,
         SameNudges, ParseAborts
  <2>4. CASE SamePasses
    BY <2>4
       DEF SamePasses, loopVars, callVars, gateVars, histVars, MutationInv,
         InResult, IsErr
  <2>5. CASE SameAsks
    BY <2>5
       DEF SameAsks, Return, AskBreaker, loopVars, callVars, gateVars,
         histVars, MutationInv, InResult, IsErr, Exempt, FruitAborts, FruitNudges,
         SameAborts, SameNudges, ParseAborts
  <2>6. CASE SameNudged
    BY <2>6
       DEF SameNudged, loopVars, callVars, gateVars, histVars, MutationInv,
         InResult, IsErr, Exempt, FruitAborts, FruitNudges, SameAborts, SameNudges,
         ParseAborts
  <2>7. CASE ParsePasses
    BY <2>7
       DEF ParsePasses, loopVars, callVars, gateVars, histVars, MutationInv,
         InResult, IsErr
  <2>8. CASE ParseAsks
    BY <2>8
       DEF ParseAsks, Return, AskBreaker, loopVars, callVars, gateVars,
         histVars, MutationInv, InResult, IsErr, Exempt, FruitAborts, FruitNudges,
         SameAborts, SameNudges, ParseAborts
  <2>9. CASE RecordStep
    BY <2>9, StepAppendedFacts DEF RecordStep, StepAppended, NextCall, MutationInv, InResult
  <2>10. CASE StopGuarded
    BY <2>10, StepAppendedFacts DEF StopGuarded, StepAppended, MutationInv, InResult
  <2>11. CASE StopTerminates
    BY <2>11, StepAppendedFacts DEF StopTerminates, StepAppended, Return, MutationInv, InResult
  <2> QED
    BY <1>6, <2>1, <2>2, <2>3, <2>4, <2>5, <2>6, <2>7, <2>8, <2>9, <2>10, <2>11 DEF ResultNext
<1>7. CASE AfterNext
  <2>1. CASE AfterTriggered
    BY <2>1
       DEF AfterTriggered, NextIteration, loopVars, callVars, gateVars,
         histVars, MutationInv, InResult, IsErr
  <2>2. CASE AfterFits
    BY <2>2
       DEF AfterFits, NextIteration, loopVars, callVars, gateVars, histVars,
         MutationInv, InResult, IsErr
  <2>3. CASE AfterOverfull
    BY <2>3
       DEF AfterOverfull, Return, loopVars, callVars, gateVars, histVars,
         MutationInv, InResult, IsErr
  <2> QED
    BY <1>7, <2>1, <2>2, <2>3 DEF AfterNext
<1>8. CASE Cancel
  <2>1. CASE Cancel
    BY <2>1
       DEF Cancel, loopVars, callVars, gateVars, histVars, MutationInv,
         InResult, IsErr
  <2> QED
    BY <1>8, <2>1 DEF Cancel
<1>9. CASE UNCHANGED vars
  BY <1>9 DEF vars, loopVars, callVars, gateVars, histVars, MutationInv, InResult, IsErr
<1> QED
  BY <1>1, <1>2, <1>3, <1>4, <1>5, <1>6, <1>7, <1>8, <1>9 DEF Next, Run, Done

(* Who carries the thought.                                                 *)
LEMMA ThoughtStep ==
    ASSUME ThoughtInv, ThoughtNotTwice, CallType, [Next]_vars
    PROVE  ThoughtInv' /\ ThoughtNotTwice'
<1>1. CASE LoopNext
  <2>1. CASE UnderLimit
    BY <2>1
       DEF UnderLimit, loopVars, callVars, gateVars, histVars, ThoughtInv,
         ThoughtNotTwice, InCall, CallType, BatchedChoices, RespType
  <2>2. CASE PastLimit
    BY <2>2
       DEF PastLimit, Return, loopVars, callVars, gateVars, histVars,
         ThoughtInv, ThoughtNotTwice, InCall, CallType, BatchedChoices, RespType
  <2>3. CASE LimitExtended
    BY <2>3
       DEF LimitExtended, AtLimit, loopVars, callVars, gateVars, histVars,
         ThoughtInv, ThoughtNotTwice, InCall, CallType, BatchedChoices, RespType
  <2>4. CASE LimitDenied
    BY <2>4
       DEF LimitDenied, AtLimit, Return, loopVars, callVars, gateVars,
         histVars, ThoughtInv, ThoughtNotTwice, InCall, CallType, BatchedChoices, RespType
  <2>5. CASE CancelledAtStep
    BY <2>5
       DEF CancelledAtStep, Return, loopVars, callVars, gateVars, histVars,
         ThoughtInv, ThoughtNotTwice, InCall, CallType, BatchedChoices, RespType
  <2>6. CASE PauseAtStep
    BY <2>6
       DEF PauseAtStep, Return, loopVars, callVars, gateVars, histVars,
         ThoughtInv, ThoughtNotTwice, InCall, CallType, BatchedChoices, RespType
  <2>7. CASE CallLLM
    BY <2>7
       DEF CallLLM, loopVars, callVars, gateVars, histVars, ThoughtInv,
         ThoughtNotTwice, InCall, CallType, BatchedChoices, RespType
  <2>8. CASE LLMContextExceeded
    BY <2>8
       DEF LLMContextExceeded, NextIteration, loopVars, callVars, gateVars,
         histVars, ThoughtInv, ThoughtNotTwice, InCall, CallType, BatchedChoices, RespType
  <2>9. CASE LLMError
    BY <2>9
       DEF LLMError, Return, loopVars, callVars, gateVars, histVars,
         ThoughtInv, ThoughtNotTwice, InCall, CallType, BatchedChoices, RespType
  <2>10. CASE LLMReplies
    BY <2>10
       DEF LLMReplies, loopVars, callVars, gateVars, histVars, ThoughtInv,
         ThoughtNotTwice, InCall, CallType, BatchedChoices, RespType
  <2> QED
    BY <1>1, <2>1, <2>2, <2>3, <2>4, <2>5, <2>6, <2>7, <2>8, <2>9, <2>10 DEF LoopNext
<1>2. CASE TextNext
  <2>1. CASE TextNudge
    BY <2>1
       DEF TextNudge, NextIteration, TextReply, loopVars, callVars, gateVars,
         histVars, ThoughtInv, ThoughtNotTwice, InCall, CallType, BatchedChoices, RespType
  <2>2. CASE SyntaxAbort
    BY <2>2
       DEF SyntaxAbort, Return, TextReply, loopVars, callVars, gateVars,
         histVars, ThoughtInv, ThoughtNotTwice, InCall, CallType, BatchedChoices, RespType
  <2>3. CASE ImplicitFinish
    BY <2>3
       DEF ImplicitFinish, Return, TextReply, loopVars, callVars, gateVars,
         histVars, ThoughtInv, ThoughtNotTwice, InCall, CallType, BatchedChoices, RespType
  <2> QED
    BY <1>2, <2>1, <2>2, <2>3 DEF TextNext
<1>3. CASE TruncNext
  <2>1. CASE TruncatedStep
    BY <2>1
       DEF TruncatedStep, NextIteration, Truncated, loopVars, callVars,
         gateVars, histVars, ThoughtInv, ThoughtNotTwice, InCall, CallType, BatchedChoices,
         RespType
  <2>2. CASE TruncationReprieve
    BY <2>2
       DEF TruncationReprieve, NextIteration, Truncated, loopVars, callVars,
         gateVars, histVars, ThoughtInv, ThoughtNotTwice, InCall, CallType, BatchedChoices,
         RespType
  <2>3. CASE TruncationDenied
    BY <2>3
       DEF TruncationDenied, Return, Truncated, loopVars, callVars, gateVars,
         histVars, ThoughtInv, ThoughtNotTwice, InCall, CallType, BatchedChoices, RespType
  <2>4. CASE BeginCalls
    BY <2>4
       DEF BeginCalls, loopVars, callVars, gateVars, histVars, ThoughtInv,
         ThoughtNotTwice, InCall, CallType, BatchedChoices, RespType
  <2> QED
    BY <1>3, <2>1, <2>2, <2>3, <2>4 DEF TruncNext
<1>4. CASE MetaNext
  <2>1. CASE BatchError
    <3>1. PICK b \in BatchedChoices : told' = Tell(b => pos = 1, resp.group)
      BY <2>1 DEF BatchError
    <3>2. pos <= resp.n /\ resp.n \in Nat /\ pos \in Nat /\ pos >= 1
      BY <2>1 DEF BatchError, ThoughtInv, InCall, CallType, RespType
    <3>3. ~b /\ pos # 1 => resp.group
      <4> SUFFICES ASSUME ~resp.group, ~b, pos # 1 PROVE FALSE
        OBVIOUS
      <4>1. resp.n # 1
        BY <3>2
      <4>2. b \in {TRUE}
        BY <4>1 DEF BatchedChoices
      <4> QED
        BY <4>2
    <3>4. pos = 1 => told = "none"
      BY <2>1 DEF BatchError, ThoughtInv, InCall
    <3>5. told' # "twice"
      BY <3>1, <3>3, <3>4 DEF Tell, ThoughtNotTwice
    <3> QED
      BY <2>1, <3>2, <3>5 DEF BatchError, NextCall, LastCall, ThoughtInv, ThoughtNotTwice, InCall,
         BatchedChoices
  <2>2. CASE FinishNudged
    BY <2>2
       DEF FinishNudged, loopVars, callVars, gateVars, histVars, ThoughtInv,
         ThoughtNotTwice, InCall, CallType, BatchedChoices, RespType, Tell
  <2>3. CASE FinishAccepted
    BY <2>3
       DEF FinishAccepted, Return, VerifyHook, loopVars, callVars, gateVars,
         histVars, ThoughtInv, ThoughtNotTwice, InCall, CallType, BatchedChoices, RespType,
         Tell
  <2> QED
    BY <1>4, <2>1, <2>2, <2>3 DEF MetaNext
<1>5. CASE CallNext
  <2>1. CASE RepeatPasses
    BY <2>1
       DEF RepeatPasses, loopVars, callVars, gateVars, histVars, ThoughtInv,
         ThoughtNotTwice, InCall, CallType, BatchedChoices, RespType, Tell, NextCalls
  <2>2. CASE RepeatAsks
    BY <2>2
       DEF RepeatAsks, Return, AskBreaker, loopVars, callVars, gateVars,
         histVars, ThoughtInv, ThoughtNotTwice, InCall, CallType, BatchedChoices, RespType,
         Tell, NextCalls
  <2>3. CASE RepeatNudged
    BY <2>3
       DEF RepeatNudged, loopVars, callVars, gateVars, histVars, ThoughtInv,
         ThoughtNotTwice, InCall, CallType, BatchedChoices, RespType, Tell, NextCalls
  <2>4. CASE HitlAllows
    BY <2>4
       DEF HitlAllows, loopVars, callVars, gateVars, histVars, ThoughtInv,
         ThoughtNotTwice, InCall, CallType, BatchedChoices, RespType
  <2>5. CASE HitlRejects
    <3>1. told' = Tell(cur.batched => pos = 1, resp.group)
      BY <2>5 DEF HitlRejects
    <3>2. pos <= resp.n /\ resp.n \in Nat /\ pos \in Nat /\ pos >= 1
      BY <2>5 DEF HitlRejects, ThoughtInv, InCall, CallType, RespType
    <3>3. ~cur.batched /\ pos # 1 => resp.group
      <4> SUFFICES ASSUME ~resp.group, ~cur.batched, pos # 1 PROVE FALSE
        OBVIOUS
      <4>1. resp.n # 1
        BY <3>2
      <4>2. cur.batched \in {TRUE}
        BY <2>5, <4>1 DEF HitlRejects, ThoughtInv, InCall, BatchedChoices
      <4> QED
        BY <4>2
    <3>4. pos = 1 => told = "none"
      BY <2>5 DEF HitlRejects, ThoughtInv, InCall
    <3>5. told' # "twice"
      BY <3>1, <3>3, <3>4 DEF Tell, ThoughtNotTwice
    <3> QED
      BY <2>5, <3>2, <3>5 DEF HitlRejects, NextCall, LastCall, ThoughtInv, ThoughtNotTwice, InCall,
         BatchedChoices
  <2>6. CASE HitlFails
    BY <2>6
       DEF HitlFails, Return, loopVars, callVars, gateVars, histVars,
         ThoughtInv, ThoughtNotTwice, InCall, CallType, BatchedChoices, RespType
  <2>7. CASE ToolReturns
    BY <2>7
       DEF ToolReturns, loopVars, callVars, gateVars, histVars, ThoughtInv,
         ThoughtNotTwice, InCall, CallType, BatchedChoices, RespType
  <2>8. CASE ToolInfraError
    BY <2>8
       DEF ToolInfraError, Return, loopVars, callVars, gateVars, histVars,
         ThoughtInv, ThoughtNotTwice, InCall, CallType, BatchedChoices, RespType
  <2>9. CASE ToolCancelled
    BY <2>9
       DEF ToolCancelled, Return, loopVars, callVars, gateVars, histVars,
         ThoughtInv, ThoughtNotTwice, InCall, CallType, BatchedChoices, RespType
  <2>10. CASE ToolTimesOut
    BY <2>10
       DEF ToolTimesOut, Return, loopVars, callVars, gateVars, histVars,
         ThoughtInv, ThoughtNotTwice, InCall, CallType, BatchedChoices, RespType
  <2>11. CASE PauseInTool
    BY <2>11
       DEF PauseInTool, Return, loopVars, callVars, gateVars, histVars,
         ThoughtInv, ThoughtNotTwice, InCall, CallType, BatchedChoices, RespType
  <2> QED
    BY <1>5, <2>1, <2>2, <2>3, <2>4, <2>5, <2>6, <2>7, <2>8, <2>9, <2>10, <2>11 DEF CallNext
<1>6. CASE ResultNext
  <2>1. CASE FruitlessPasses
    BY <2>1
       DEF FruitlessPasses, loopVars, callVars, gateVars, histVars, ThoughtInv,
         ThoughtNotTwice, InCall, CallType, BatchedChoices, RespType
  <2>2. CASE FruitlessAsks
    BY <2>2
       DEF FruitlessAsks, Return, AskBreaker, loopVars, callVars, gateVars,
         histVars, ThoughtInv, ThoughtNotTwice, InCall, CallType, BatchedChoices, RespType
  <2>3. CASE FruitlessNudged
    BY <2>3
       DEF FruitlessNudged, loopVars, callVars, gateVars, histVars, ThoughtInv,
         ThoughtNotTwice, InCall, CallType, BatchedChoices, RespType
  <2>4. CASE SamePasses
    BY <2>4
       DEF SamePasses, loopVars, callVars, gateVars, histVars, ThoughtInv,
         ThoughtNotTwice, InCall, CallType, BatchedChoices, RespType
  <2>5. CASE SameAsks
    BY <2>5
       DEF SameAsks, Return, AskBreaker, loopVars, callVars, gateVars,
         histVars, ThoughtInv, ThoughtNotTwice, InCall, CallType, BatchedChoices, RespType
  <2>6. CASE SameNudged
    BY <2>6
       DEF SameNudged, loopVars, callVars, gateVars, histVars, ThoughtInv,
         ThoughtNotTwice, InCall, CallType, BatchedChoices, RespType
  <2>7. CASE ParsePasses
    BY <2>7
       DEF ParsePasses, loopVars, callVars, gateVars, histVars, ThoughtInv,
         ThoughtNotTwice, InCall, CallType, BatchedChoices, RespType
  <2>8. CASE ParseAsks
    BY <2>8
       DEF ParseAsks, Return, AskBreaker, loopVars, callVars, gateVars,
         histVars, ThoughtInv, ThoughtNotTwice, InCall, CallType, BatchedChoices, RespType
  <2>9. CASE RecordStep
    BY <2>9
       DEF RecordStep, NextCall, LastCall, StepAppended, VerifyHook, loopVars,
         callVars, gateVars, histVars, ThoughtInv, ThoughtNotTwice, InCall, CallType,
         BatchedChoices, RespType, Tell
  <2>10. CASE StopGuarded
    BY <2>10
       DEF StopGuarded, StepAppended, VerifyHook, loopVars, callVars,
         gateVars, histVars, ThoughtInv, ThoughtNotTwice, InCall, CallType, BatchedChoices,
         RespType, Tell
  <2>11. CASE StopTerminates
    BY <2>11
       DEF StopTerminates, Return, StepAppended, VerifyHook, loopVars,
         callVars, gateVars, histVars, ThoughtInv, ThoughtNotTwice, InCall, CallType,
         BatchedChoices, RespType, Tell
  <2> QED
    BY <1>6, <2>1, <2>2, <2>3, <2>4, <2>5, <2>6, <2>7, <2>8, <2>9, <2>10, <2>11 DEF ResultNext
<1>7. CASE AfterNext
  <2>1. CASE AfterTriggered
    BY <2>1
       DEF AfterTriggered, NextIteration, loopVars, callVars, gateVars,
         histVars, ThoughtInv, ThoughtNotTwice, InCall, CallType, BatchedChoices, RespType
  <2>2. CASE AfterFits
    BY <2>2
       DEF AfterFits, NextIteration, loopVars, callVars, gateVars, histVars,
         ThoughtInv, ThoughtNotTwice, InCall, CallType, BatchedChoices, RespType
  <2>3. CASE AfterOverfull
    BY <2>3
       DEF AfterOverfull, Return, loopVars, callVars, gateVars, histVars,
         ThoughtInv, ThoughtNotTwice, InCall, CallType, BatchedChoices, RespType
  <2> QED
    BY <1>7, <2>1, <2>2, <2>3 DEF AfterNext
<1>8. CASE Cancel
  <2>1. CASE Cancel
    BY <2>1
       DEF Cancel, loopVars, callVars, gateVars, histVars, ThoughtInv,
         ThoughtNotTwice, InCall, CallType, BatchedChoices, RespType
  <2> QED
    BY <1>8, <2>1 DEF Cancel
<1>9. CASE UNCHANGED vars
  BY <1>9 DEF vars, loopVars, callVars, gateVars, histVars, ThoughtInv, ThoughtNotTwice,
         InCall, CallType, BatchedChoices, RespType
<1> QED
  BY <1>1, <1>2, <1>3, <1>4, <1>5, <1>6, <1>7, <1>8, <1>9 DEF Next, Run, Done

(* What an early exit from a reply leaves behind: the thought and the        *)
(* verification of an edit.                                                  *)
LEMMA CutShortStep ==
    ASSUME CallType, ThoughtInv, CarryInv, ThoughtNotLost, ReplyVerified, [Next]_vars
    PROVE  CarryInv' /\ ThoughtNotLost' /\ ReplyVerified'
<1> USE DEF CallType, ThoughtInv, CarryInv, ThoughtNotLost, ReplyVerified, InCall, RespType,
         loopVars, callVars, gateVars, histVars
<1>1. CASE LoopNext
  <2>1. CASE UnderLimit
    BY <2>1 DEF UnderLimit, AtLimit, Return, NextIteration
  <2>2. CASE PastLimit
    BY <2>2 DEF PastLimit, AtLimit, Return, NextIteration
  <2>3. CASE LimitExtended
    BY <2>3 DEF LimitExtended, AtLimit, Return, NextIteration
  <2>4. CASE LimitDenied
    BY <2>4 DEF LimitDenied, AtLimit, Return, NextIteration
  <2>5. CASE CancelledAtStep
    BY <2>5 DEF CancelledAtStep, AtLimit, Return, NextIteration
  <2>6. CASE PauseAtStep
    BY <2>6 DEF PauseAtStep, AtLimit, Return, NextIteration
  <2>7. CASE CallLLM
    BY <2>7 DEF CallLLM, AtLimit, Return, NextIteration
  <2>8. CASE LLMContextExceeded
    BY <2>8 DEF LLMContextExceeded, AtLimit, Return, NextIteration
  <2>9. CASE LLMError
    BY <2>9 DEF LLMError, AtLimit, Return, NextIteration
  <2>10. CASE LLMReplies
    BY <2>10 DEF LLMReplies, AtLimit, Return, NextIteration
  <2> QED
    BY <1>1, <2>1, <2>2, <2>3, <2>4, <2>5, <2>6, <2>7, <2>8, <2>9, <2>10 DEF LoopNext
<1>2. CASE TextNext
  <2>1. CASE TextNudge
    BY <2>1 DEF TextNudge, Return, NextIteration, TextReply
  <2>2. CASE SyntaxAbort
    BY <2>2 DEF SyntaxAbort, Return, NextIteration, TextReply
  <2>3. CASE ImplicitFinish
    BY <2>3 DEF ImplicitFinish, Return, NextIteration, TextReply
  <2> QED
    BY <1>2, <2>1, <2>2, <2>3 DEF TextNext
<1>3. CASE TruncNext
  <2>1. CASE TruncatedStep
    BY <2>1 DEF TruncatedStep, Return, NextIteration, Truncated
  <2>2. CASE TruncationReprieve
    BY <2>2 DEF TruncationReprieve, Return, NextIteration, Truncated
  <2>3. CASE TruncationDenied
    BY <2>3 DEF TruncationDenied, Return, NextIteration, Truncated
  <2>4. CASE BeginCalls
    BY <2>4 DEF BeginCalls, Return, NextIteration, Truncated
  <2> QED
    BY <1>3, <2>1, <2>2, <2>3, <2>4 DEF TruncNext
<1>4. CASE MetaNext
  <2>1. CASE BatchError
    BY <2>1 DEF BatchError, Return, NextCall, LastCall, VerifyHook, Tell
  <2>2. CASE FinishNudged
    BY <2>2 DEF FinishNudged, Return, NextCall, LastCall, VerifyHook, Tell
  <2>3. CASE FinishAccepted
    BY <2>3 DEF FinishAccepted, Return, NextCall, LastCall, VerifyHook, Tell
  <2> QED
    BY <1>4, <2>1, <2>2, <2>3 DEF MetaNext
<1>5. CASE CallNext
  <2>1. CASE RepeatPasses
    BY <2>1 DEF RepeatPasses, Return, NextCall, LastCall, VerifyHook, Tell, AskBreaker, NextCalls
  <2>2. CASE RepeatAsks
    BY <2>2 DEF RepeatAsks, Return, NextCall, LastCall, VerifyHook, Tell, AskBreaker, NextCalls
  <2>3. CASE RepeatNudged
    BY <2>3 DEF RepeatNudged, Return, NextCall, LastCall, VerifyHook, Tell, AskBreaker, NextCalls
  <2>4. CASE HitlAllows
    BY <2>4 DEF HitlAllows, Return, NextCall, LastCall, VerifyHook, Tell, AskBreaker, NextCalls
  <2>5. CASE HitlRejects
    BY <2>5 DEF HitlRejects, Return, NextCall, LastCall, VerifyHook, Tell, AskBreaker, NextCalls
  <2>6. CASE HitlFails
    BY <2>6 DEF HitlFails, Return, NextCall, LastCall, VerifyHook, Tell, AskBreaker, NextCalls
  <2>7. CASE ToolReturns
    BY <2>7 DEF ToolReturns, Return, NextCall, LastCall, VerifyHook, Tell, AskBreaker, NextCalls
  <2>8. CASE ToolInfraError
    BY <2>8 DEF ToolInfraError, Return, NextCall, LastCall, VerifyHook, Tell, AskBreaker, NextCalls
  <2>9. CASE ToolCancelled
    BY <2>9 DEF ToolCancelled, Return, NextCall, LastCall, VerifyHook, Tell, AskBreaker, NextCalls
  <2>10. CASE ToolTimesOut
    BY <2>10 DEF ToolTimesOut, Return, NextCall, LastCall, VerifyHook, Tell, AskBreaker, NextCalls
  <2>11. CASE PauseInTool
    BY <2>11 DEF PauseInTool, Return, NextCall, LastCall, VerifyHook, Tell, AskBreaker, NextCalls
  <2> QED
    BY <1>5, <2>1, <2>2, <2>3, <2>4, <2>5, <2>6, <2>7, <2>8, <2>9, <2>10, <2>11 DEF CallNext
<1>6. CASE ResultNext
  <2>1. CASE FruitlessPasses
    BY <2>1 DEF FruitlessPasses, Return, NextCall, LastCall, StepAppended, VerifyHook, Tell, AskBreaker
  <2>2. CASE FruitlessAsks
    BY <2>2 DEF FruitlessAsks, Return, NextCall, LastCall, StepAppended, VerifyHook, Tell, AskBreaker
  <2>3. CASE FruitlessNudged
    BY <2>3 DEF FruitlessNudged, Return, NextCall, LastCall, StepAppended, VerifyHook, Tell, AskBreaker
  <2>4. CASE SamePasses
    BY <2>4 DEF SamePasses, Return, NextCall, LastCall, StepAppended, VerifyHook, Tell, AskBreaker
  <2>5. CASE SameAsks
    BY <2>5 DEF SameAsks, Return, NextCall, LastCall, StepAppended, VerifyHook, Tell, AskBreaker
  <2>6. CASE SameNudged
    BY <2>6 DEF SameNudged, Return, NextCall, LastCall, StepAppended, VerifyHook, Tell, AskBreaker
  <2>7. CASE ParsePasses
    BY <2>7 DEF ParsePasses, Return, NextCall, LastCall, StepAppended, VerifyHook, Tell, AskBreaker
  <2>8. CASE ParseAsks
    BY <2>8 DEF ParseAsks, Return, NextCall, LastCall, StepAppended, VerifyHook, Tell, AskBreaker
  <2>9. CASE RecordStep
    BY <2>9 DEF RecordStep, Return, NextCall, LastCall, StepAppended, VerifyHook, Tell, AskBreaker
  <2>10. CASE StopGuarded
    BY <2>10 DEF StopGuarded, Return, NextCall, LastCall, StepAppended, VerifyHook, Tell, AskBreaker
  <2>11. CASE StopTerminates
    BY <2>11 DEF StopTerminates, Return, NextCall, LastCall, StepAppended, VerifyHook, Tell, AskBreaker
  <2> QED
    BY <1>6, <2>1, <2>2, <2>3, <2>4, <2>5, <2>6, <2>7, <2>8, <2>9, <2>10, <2>11 DEF ResultNext
<1>7. CASE AfterNext
  <2>1. CASE AfterTriggered
    BY <2>1 DEF AfterTriggered, Return, NextIteration
  <2>2. CASE AfterFits
    BY <2>2 DEF AfterFits, Return, NextIteration
  <2>3. CASE AfterOverfull
    BY <2>3 DEF AfterOverfull, Return, NextIteration
  <2> QED
    BY <1>7, <2>1, <2>2, <2>3 DEF AfterNext
<1>8. CASE Cancel
  BY <1>8 DEF Cancel
<1>9. CASE UNCHANGED vars
  BY <1>9 DEF vars
<1> QED
  BY <1>1, <1>2, <1>3, <1>4, <1>5, <1>6, <1>7, <1>8, <1>9 DEF Next, Run, Done

(* The breakers keep their types: no counter leaves its range.              *)
LEMMA BreakerTypeStep ==
    ASSUME BreakerType, CallType, [Next]_vars
    PROVE  BreakerType'
<1> USE BoundFacts
<1>1. CASE LoopNext
  BY <1>1
     DEF LoopNext, UnderLimit, PastLimit, LimitExtended, LimitDenied,
         CancelledAtStep, PauseAtStep, CallLLM, LLMContextExceeded, LLMError, LLMReplies,
         AtLimit, Return, NextIteration, loopVars, callVars, gateVars, histVars,
         BreakerType
<1>2. CASE TextNext
  BY <1>2
     DEF TextNext, TextNudge, SyntaxAbort, ImplicitFinish, Return, NextIteration,
         TextReply, loopVars, callVars, gateVars, histVars, BreakerType
<1>3. CASE TruncNext
  <2>1. CASE TruncatedStep
    <3>1. Bump(brk.trunc) \in 0 .. CountBound
      BY BumpFacts DEF BreakerType, BrkType
    <3> QED
      BY <2>1, <3>1 DEF TruncatedStep, BreakerType, BrkType
  <2>2. CASE TruncationReprieve
    <3>1. [brk EXCEPT !.trunc = 0] \in BrkType
      BY BrkUpdate, SmallCounts DEF BreakerType
    <3>2. [brk EXCEPT !.trunc = 0].off = brk.off
      BY DEF BreakerType, BrkType
    <3>3. [[brk EXCEPT !.trunc = 0] EXCEPT !.off = brk.off \union {"trunc"}] \in BrkType
      <4> DEFINE b == [brk EXCEPT !.trunc = 0]
      <4>1. b \in BrkType /\ b.off = brk.off
        BY <3>1, <3>2
      <4> HIDE DEF b
      <4>2. [b EXCEPT !.off = b.off \union {"trunc"}] \in BrkType
        BY <4>1, BrkOff
      <4> QED
        BY <4>1, <4>2 DEF b
    <3> QED
      BY <2>2, <3>1, <3>2, <3>3 DEF TruncationReprieve, BreakerType
  <2>3. CASE TruncationDenied
    <3>1. Bump(brk.trunc) \in 0 .. CountBound
      BY BumpFacts DEF BreakerType, BrkType
    <3> QED
      BY <2>3, <3>1 DEF TruncationDenied, BreakerType, BrkType
  <2>4. CASE BeginCalls
    BY <2>4, BrkUpdate, SmallCounts DEF BeginCalls, BreakerType
  <2> QED
    BY <1>3, <2>1, <2>2, <2>3, <2>4 DEF TruncNext
<1>4. CASE MetaNext
  BY <1>4
     DEF MetaNext, BatchError, FinishNudged, FinishAccepted, Return, NextCall,
         LastCall, VerifyHook, loopVars, callVars, gateVars, histVars, BreakerType
<1>5. CASE CallNext
  <2>1. CASE RepeatPasses
    BY <2>1, BreakerFacts DEF RepeatPasses, NextCalls, CallType, BreakerType
  <2>2. CASE RepeatAsks
    <3>1. PICK c \in NextCalls :
            AskBreaker("rep", Repeated(c), [Repeated(c) EXCEPT !.rep = 0])
      BY <2>2 DEF RepeatAsks
    <3>2. Repeated(c) \in BrkType
      BY BreakerFacts DEF NextCalls, CallType, BreakerType
    <3>3. [Repeated(c) EXCEPT !.rep = 0] \in BrkType
      BY <3>2, BrkUpdate, SmallCounts
    <3> QED
      BY <3>1, <3>2, <3>3, AskFacts DEF BreakerType
  <2>3. CASE RepeatNudged
    BY <2>3, BreakerFacts DEF RepeatNudged, NextCalls, CallType, BreakerType
  <2>4. CASE HitlAllows
    BY <2>4
       DEF HitlAllows, loopVars, callVars, gateVars, histVars, BreakerType
  <2>5. CASE HitlRejects
    BY <2>5
       DEF HitlRejects, NextCall, LastCall, VerifyHook, loopVars, callVars,
         gateVars, histVars, BreakerType
  <2>6. CASE HitlFails
    <3>1. brk' = brk \/ \E e \in BOOLEAN : brk' = [brk EXCEPT !.err = e]
      <4>1. IsErr(res') \in BOOLEAN
        BY DEF IsErr
      <4> QED
        BY <2>6, <4>1 DEF HitlFails
    <3> QED
      BY <3>1, BrkUpdate, SmallCounts DEF BreakerType
  <2>7. CASE ToolReturns
    <3>1. brk' = brk \/ \E e \in BOOLEAN : brk' = [brk EXCEPT !.err = e]
      <4>1. IsErr(res') \in BOOLEAN
        BY DEF IsErr
      <4> QED
        BY <2>7, <4>1 DEF ToolReturns
    <3> QED
      BY <3>1, BrkUpdate, SmallCounts DEF BreakerType
  <2>8. CASE ToolInfraError
    <3>1. brk' = brk \/ \E e \in BOOLEAN : brk' = [brk EXCEPT !.err = e]
      <4>1. IsErr(res') \in BOOLEAN
        BY DEF IsErr
      <4> QED
        BY <2>8, <4>1 DEF ToolInfraError
    <3> QED
      BY <3>1, BrkUpdate, SmallCounts DEF BreakerType
  <2>9. CASE ToolCancelled
    BY <2>9
       DEF ToolCancelled, Return, loopVars, callVars, gateVars, histVars,
         BreakerType
  <2>10. CASE ToolTimesOut
    BY <2>10
       DEF ToolTimesOut, Return, loopVars, callVars, gateVars, histVars,
         BreakerType
  <2>11. CASE PauseInTool
    BY <2>11
       DEF PauseInTool, Return, loopVars, callVars, gateVars, histVars,
         BreakerType
  <2> QED
    BY <1>5, <2>1, <2>2, <2>3, <2>4, <2>5, <2>6, <2>7, <2>8, <2>9, <2>10, <2>11 DEF CallNext
<1>6. CASE ResultNext
  <2>1. CASE FruitlessPasses
    BY <2>1, BreakerFacts DEF FruitlessPasses, BrkType, CallType, BreakerType
  <2>2. CASE FruitlessAsks
    <3>1. [brk EXCEPT !.fruit = FruitCount] \in BrkType
      BY BreakerFacts DEF BrkType, CallType, BreakerType
    <3>2. [brk EXCEPT !.fruit = 0, !.fruitNudged = FALSE] \in BrkType
      BY BrkUpdate, SmallCounts DEF BreakerType
    <3> QED
      BY <2>2, <3>1, <3>2, AskFacts DEF FruitlessAsks, BreakerType
  <2>3. CASE FruitlessNudged
    BY <2>3, BreakerFacts DEF FruitlessNudged, BrkType, CallType, BreakerType
  <2>4. CASE SamePasses
    BY <2>4, BreakerFacts DEF SamePasses, CallType, BreakerType
  <2>5. CASE SameAsks
    <3>1. PICK similar \in BOOLEAN :
            AskBreaker("same", SameTracked(similar),
                       [SameTracked(similar) EXCEPT !.same = 0, !.sameNudged = FALSE])
      BY <2>5 DEF SameAsks
    <3>2. SameTracked(similar) \in BrkType
      BY BreakerFacts DEF CallType, BreakerType
    <3>3. [SameTracked(similar) EXCEPT !.same = 0, !.sameNudged = FALSE] \in BrkType
      BY <3>2, BrkUpdate, SmallCounts
    <3> QED
      BY <3>1, <3>2, <3>3, AskFacts DEF BreakerType
  <2>6. CASE SameNudged
    <3>1. PICK similar \in BOOLEAN : brk' = [SameTracked(similar) EXCEPT !.sameNudged = TRUE]
      BY <2>6 DEF SameNudged
    <3>2. SameTracked(similar) \in BrkType
      BY BreakerFacts DEF CallType, BreakerType
    <3> QED
      BY <3>1, <3>2 DEF BrkType, BreakerType
  <2>7. CASE ParsePasses
    BY <2>7, BreakerFacts DEF ParsePasses, CallType, BreakerType
  <2>8. CASE ParseAsks
    <3>1. ParseTracked \in BrkType
      BY BreakerFacts DEF CallType, BreakerType
    <3>2. [ParseTracked EXCEPT !.parse = 0] \in BrkType
      BY <3>1, BrkUpdate, SmallCounts
    <3> QED
      BY <2>8, <3>1, <3>2, AskFacts DEF ParseAsks, BreakerType
  <2>9. CASE RecordStep
    BY <2>9
       DEF RecordStep, NextCall, LastCall, StepAppended, VerifyHook, loopVars,
         callVars, gateVars, histVars, BreakerType
  <2>10. CASE StopGuarded
    BY <2>10
       DEF StopGuarded, StepAppended, VerifyHook, loopVars, callVars,
         gateVars, histVars, BreakerType
  <2>11. CASE StopTerminates
    BY <2>11
       DEF StopTerminates, Return, StepAppended, VerifyHook, loopVars,
         callVars, gateVars, histVars, BreakerType
  <2> QED
    BY <1>6, <2>1, <2>2, <2>3, <2>4, <2>5, <2>6, <2>7, <2>8, <2>9, <2>10, <2>11 DEF ResultNext
<1>7. CASE AfterNext
  BY <1>7
     DEF AfterNext, AfterTriggered, AfterFits, AfterOverfull, Return,
         NextIteration, loopVars, callVars, gateVars, histVars, BreakerType
<1>8. CASE Cancel
  BY <1>8
     DEF Cancel, loopVars, callVars, gateVars, histVars, BreakerType
<1>9. CASE UNCHANGED vars
  BY <1>9 DEF vars, loopVars, callVars, gateVars, histVars, BreakerType
<1> QED
  BY <1>1, <1>2, <1>3, <1>4, <1>5, <1>6, <1>7, <1>8, <1>9 DEF Next, Run, Done

(* The history variables keep their types.                                  *)
LEMMA HistoryTypeStep ==
    ASSUME HistoryType, [Next]_vars
    PROVE  HistoryType'
<1> USE BoundFacts
<1>1. CASE LoopNext
  <2>1. CASE UnderLimit
    BY <2>1
       DEF UnderLimit, loopVars, callVars, gateVars, histVars, HistoryType
  <2>2. CASE PastLimit
    BY <2>2
       DEF PastLimit, Return, loopVars, callVars, gateVars, histVars,
         HistoryType
  <2>3. CASE LimitExtended
    BY <2>3
       DEF LimitExtended, AtLimit, loopVars, callVars, gateVars, histVars,
         HistoryType
  <2>4. CASE LimitDenied
    BY <2>4
       DEF LimitDenied, AtLimit, Return, loopVars, callVars, gateVars,
         histVars, HistoryType
  <2>5. CASE CancelledAtStep
    BY <2>5
       DEF CancelledAtStep, Return, loopVars, callVars, gateVars, histVars,
         HistoryType
  <2>6. CASE PauseAtStep
    BY <2>6
       DEF PauseAtStep, Return, loopVars, callVars, gateVars, histVars,
         HistoryType
  <2>7. CASE CallLLM
    BY <2>7
       DEF CallLLM, loopVars, callVars, gateVars, histVars, HistoryType
  <2>8. CASE LLMContextExceeded
    BY <2>8
       DEF LLMContextExceeded, NextIteration, loopVars, callVars, gateVars,
         histVars, HistoryType
  <2>9. CASE LLMError
    BY <2>9
       DEF LLMError, Return, loopVars, callVars, gateVars, histVars,
         HistoryType
  <2>10. CASE LLMReplies
    BY <2>10
       DEF LLMReplies, loopVars, callVars, gateVars, histVars, HistoryType
  <2> QED
    BY <1>1, <2>1, <2>2, <2>3, <2>4, <2>5, <2>6, <2>7, <2>8, <2>9, <2>10 DEF LoopNext
<1>2. CASE TextNext
  <2>1. CASE TextNudge
    BY <2>1
       DEF TextNudge, NextIteration, TextReply, loopVars, callVars, gateVars,
         histVars, HistoryType
  <2>2. CASE SyntaxAbort
    BY <2>2
       DEF SyntaxAbort, Return, TextReply, loopVars, callVars, gateVars,
         histVars, HistoryType
  <2>3. CASE ImplicitFinish
    BY <2>3
       DEF ImplicitFinish, Return, TextReply, loopVars, callVars, gateVars,
         histVars, HistoryType
  <2> QED
    BY <1>2, <2>1, <2>2, <2>3 DEF TextNext
<1>3. CASE TruncNext
  <2>1. CASE TruncatedStep
    BY <2>1
       DEF TruncatedStep, NextIteration, Truncated, loopVars, callVars,
         gateVars, histVars, HistoryType
  <2>2. CASE TruncationReprieve
    BY <2>2
       DEF TruncationReprieve, NextIteration, Truncated, loopVars, callVars,
         gateVars, histVars, HistoryType
  <2>3. CASE TruncationDenied
    BY <2>3
       DEF TruncationDenied, Return, Truncated, loopVars, callVars, gateVars,
         histVars, HistoryType
  <2>4. CASE BeginCalls
    BY <2>4
       DEF BeginCalls, loopVars, callVars, gateVars, histVars, HistoryType
  <2> QED
    BY <1>3, <2>1, <2>2, <2>3, <2>4 DEF TruncNext
<1>4. CASE MetaNext
  <2>1. CASE BatchError
    BY <2>1
       DEF BatchError, NextCall, LastCall, loopVars, callVars, gateVars,
         histVars, HistoryType, Tell
  <2>2. CASE FinishNudged
    BY <2>2
       DEF FinishNudged, loopVars, callVars, gateVars, histVars, HistoryType,
         Tell
  <2>3. CASE FinishAccepted
    BY <2>3
       DEF FinishAccepted, Return, VerifyHook, loopVars, callVars, gateVars,
         histVars, HistoryType, Tell
  <2> QED
    BY <1>4, <2>1, <2>2, <2>3 DEF MetaNext
<1>5. CASE CallNext
  <2>1. CASE RepeatPasses
    BY <2>1
       DEF RepeatPasses, loopVars, callVars, gateVars, histVars, HistoryType
  <2>2. CASE RepeatAsks
    <3>1. denied' \in {denied, TRUE}
      BY <2>2 DEF RepeatAsks, AskBreaker
    <3>2. runs' \in {runs, 0} /\ UNCHANGED <<mutDone, told>>
      BY <2>2 DEF RepeatAsks
    <3> QED
      BY <3>1, <3>2, SmallCounts DEF HistoryType
  <2>3. CASE RepeatNudged
    BY <2>3
       DEF RepeatNudged, loopVars, callVars, gateVars, histVars, HistoryType,
         Tell
  <2>4. CASE HitlAllows
    BY <2>4
       DEF HitlAllows, loopVars, callVars, gateVars, histVars, HistoryType
  <2>5. CASE HitlRejects
    BY <2>5
       DEF HitlRejects, NextCall, LastCall, VerifyHook, loopVars, callVars,
         gateVars, histVars, HistoryType, Tell
  <2>6. CASE HitlFails
    BY <2>6
       DEF HitlFails, Return, loopVars, callVars, gateVars, histVars,
         HistoryType
  <2>7. CASE ToolReturns
    <3>1. Bump(runs) \in 0 .. CountBound
      BY BumpFacts DEF HistoryType
    <3>2. mutDone' \in BOOLEAN
      BY <2>7 DEF ToolReturns, HistoryType
    <3> QED
      BY <2>7, <3>1, <3>2 DEF ToolReturns, HistoryType
  <2>8. CASE ToolInfraError
    <3>1. Bump(runs) \in 0 .. CountBound
      BY BumpFacts DEF HistoryType
    <3>2. mutDone' \in BOOLEAN
      BY <2>8 DEF ToolInfraError, HistoryType
    <3> QED
      BY <2>8, <3>1, <3>2 DEF ToolInfraError, HistoryType
  <2>9. CASE ToolCancelled
    BY <2>9
       DEF ToolCancelled, Return, loopVars, callVars, gateVars, histVars,
         HistoryType
  <2>10. CASE ToolTimesOut
    BY <2>10
       DEF ToolTimesOut, Return, loopVars, callVars, gateVars, histVars,
         HistoryType
  <2>11. CASE PauseInTool
    BY <2>11
       DEF PauseInTool, Return, loopVars, callVars, gateVars, histVars,
         HistoryType
  <2> QED
    BY <1>5, <2>1, <2>2, <2>3, <2>4, <2>5, <2>6, <2>7, <2>8, <2>9, <2>10, <2>11 DEF CallNext
<1>6. CASE ResultNext
  <2>1. CASE FruitlessPasses
    BY <2>1
       DEF FruitlessPasses, loopVars, callVars, gateVars, histVars, HistoryType
  <2>2. CASE FruitlessAsks
    BY <2>2
       DEF FruitlessAsks, Return, AskBreaker, loopVars, callVars, gateVars,
         histVars, HistoryType
  <2>3. CASE FruitlessNudged
    BY <2>3
       DEF FruitlessNudged, loopVars, callVars, gateVars, histVars, HistoryType
  <2>4. CASE SamePasses
    BY <2>4
       DEF SamePasses, loopVars, callVars, gateVars, histVars, HistoryType
  <2>5. CASE SameAsks
    BY <2>5
       DEF SameAsks, Return, AskBreaker, loopVars, callVars, gateVars,
         histVars, HistoryType
  <2>6. CASE SameNudged
    BY <2>6
       DEF SameNudged, loopVars, callVars, gateVars, histVars, HistoryType
  <2>7. CASE ParsePasses
    BY <2>7
       DEF ParsePasses, loopVars, callVars, gateVars, histVars, HistoryType
  <2>8. CASE ParseAsks
    BY <2>8
       DEF ParseAsks, Return, AskBreaker, loopVars, callVars, gateVars,
         histVars, HistoryType
  <2>9. CASE RecordStep
    BY <2>9
       DEF RecordStep, NextCall, LastCall, StepAppended, VerifyHook, loopVars,
         callVars, gateVars, histVars, HistoryType, Tell
  <2>10. CASE StopGuarded
    BY <2>10
       DEF StopGuarded, StepAppended, VerifyHook, loopVars, callVars,
         gateVars, histVars, HistoryType, Tell
  <2>11. CASE StopTerminates
    BY <2>11
       DEF StopTerminates, Return, StepAppended, VerifyHook, loopVars,
         callVars, gateVars, histVars, HistoryType, Tell
  <2> QED
    BY <1>6, <2>1, <2>2, <2>3, <2>4, <2>5, <2>6, <2>7, <2>8, <2>9, <2>10, <2>11 DEF ResultNext
<1>7. CASE AfterNext
  <2>1. CASE AfterTriggered
    BY <2>1
       DEF AfterTriggered, NextIteration, loopVars, callVars, gateVars,
         histVars, HistoryType
  <2>2. CASE AfterFits
    BY <2>2
       DEF AfterFits, NextIteration, loopVars, callVars, gateVars, histVars,
         HistoryType
  <2>3. CASE AfterOverfull
    BY <2>3
       DEF AfterOverfull, Return, loopVars, callVars, gateVars, histVars,
         HistoryType
  <2> QED
    BY <1>7, <2>1, <2>2, <2>3 DEF AfterNext
<1>8. CASE Cancel
  <2>1. CASE Cancel
    BY <2>1
       DEF Cancel, loopVars, callVars, gateVars, histVars, HistoryType
  <2> QED
    BY <1>8, <2>1 DEF Cancel
<1>9. CASE UNCHANGED vars
  BY <1>9 DEF vars, loopVars, callVars, gateVars, histVars, HistoryType
<1> QED
  BY <1>1, <1>2, <1>3, <1>4, <1>5, <1>6, <1>7, <1>8, <1>9 DEF Next, Run, Done

(* The repeat counter bounds the executions in a row.                       *)
LEMMA RunsStep ==
    ASSUME RunsInv, IdenticalRunsBounded, BreakerType, CallType, HistoryType, [Next]_vars
    PROVE  RunsInv' /\ IdenticalRunsBounded'
<1> USE BoundFacts
<1>1. CASE LoopNext
  <2>1. CASE UnderLimit
    BY <2>1
       DEF UnderLimit, loopVars, callVars, gateVars, histVars, RunsInv,
         IdenticalRunsBounded, InResult
  <2>2. CASE PastLimit
    BY <2>2
       DEF PastLimit, Return, loopVars, callVars, gateVars, histVars, RunsInv,
         IdenticalRunsBounded, InResult
  <2>3. CASE LimitExtended
    BY <2>3
       DEF LimitExtended, AtLimit, loopVars, callVars, gateVars, histVars,
         RunsInv, IdenticalRunsBounded, InResult
  <2>4. CASE LimitDenied
    BY <2>4
       DEF LimitDenied, AtLimit, Return, loopVars, callVars, gateVars,
         histVars, RunsInv, IdenticalRunsBounded, InResult
  <2>5. CASE CancelledAtStep
    BY <2>5
       DEF CancelledAtStep, Return, loopVars, callVars, gateVars, histVars,
         RunsInv, IdenticalRunsBounded, InResult
  <2>6. CASE PauseAtStep
    BY <2>6
       DEF PauseAtStep, Return, loopVars, callVars, gateVars, histVars,
         RunsInv, IdenticalRunsBounded, InResult
  <2>7. CASE CallLLM
    BY <2>7
       DEF CallLLM, loopVars, callVars, gateVars, histVars, RunsInv,
         IdenticalRunsBounded, InResult
  <2>8. CASE LLMContextExceeded
    BY <2>8
       DEF LLMContextExceeded, NextIteration, loopVars, callVars, gateVars,
         histVars, RunsInv, IdenticalRunsBounded, InResult
  <2>9. CASE LLMError
    BY <2>9
       DEF LLMError, Return, loopVars, callVars, gateVars, histVars, RunsInv,
         IdenticalRunsBounded, InResult
  <2>10. CASE LLMReplies
    BY <2>10
       DEF LLMReplies, loopVars, callVars, gateVars, histVars, RunsInv,
         IdenticalRunsBounded, InResult
  <2> QED
    BY <1>1, <2>1, <2>2, <2>3, <2>4, <2>5, <2>6, <2>7, <2>8, <2>9, <2>10 DEF LoopNext
<1>2. CASE TextNext
  <2>1. CASE TextNudge
    BY <2>1
       DEF TextNudge, NextIteration, TextReply, loopVars, callVars, gateVars,
         histVars, RunsInv, IdenticalRunsBounded, InResult
  <2>2. CASE SyntaxAbort
    BY <2>2
       DEF SyntaxAbort, Return, TextReply, loopVars, callVars, gateVars,
         histVars, RunsInv, IdenticalRunsBounded, InResult
  <2>3. CASE ImplicitFinish
    BY <2>3
       DEF ImplicitFinish, Return, TextReply, loopVars, callVars, gateVars,
         histVars, RunsInv, IdenticalRunsBounded, InResult
  <2> QED
    BY <1>2, <2>1, <2>2, <2>3 DEF TextNext
<1>3. CASE TruncNext
  <2>1. CASE TruncatedStep
    <3>1. brk'.rep = brk.rep /\ brk'.err = brk.err
      BY <2>1, BrkKept DEF TruncatedStep, BreakerType
    <3>2. /\ runs' = runs /\ pc' \notin {"hitl", "exec"}
          /\ InResult' => InResult
      BY <2>1 DEF TruncatedStep, InResult, AskBreaker, Return, histVars, NextIteration
    <3> QED
      BY <3>1, <3>2 DEF RunsInv, IdenticalRunsBounded
  <2>2. CASE TruncationReprieve
    <3>1. brk'.rep = brk.rep /\ brk'.err = brk.err
      <4>1. [brk EXCEPT !.trunc = 0] \in BrkType
        BY BrkUpdate, SmallCounts DEF BreakerType
      <4>2. CASE brk' = [brk EXCEPT !.trunc = 0]
        BY <4>2, BrkKept DEF BreakerType
      <4>3. CASE brk' = [brk EXCEPT !.trunc = 0, !.off = brk.off \union {"trunc"}]
        BY <4>3 DEF BreakerType, BrkType
      <4> QED
        BY <2>2, <4>2, <4>3 DEF TruncationReprieve
    <3>2. /\ runs' = runs /\ pc' \notin {"hitl", "exec"}
          /\ InResult' => InResult
      BY <2>2 DEF TruncationReprieve, InResult, AskBreaker, Return, histVars, NextIteration
    <3> QED
      BY <3>1, <3>2 DEF RunsInv, IdenticalRunsBounded
  <2>3. CASE TruncationDenied
    <3>1. brk'.rep = brk.rep /\ brk'.err = brk.err
      BY <2>3, BrkKept DEF TruncationDenied, BreakerType
    <3>2. /\ runs' = runs /\ pc' \notin {"hitl", "exec"}
          /\ InResult' => InResult
      BY <2>3 DEF TruncationDenied, InResult, AskBreaker, Return, histVars, NextIteration
    <3> QED
      BY <3>1, <3>2 DEF RunsInv, IdenticalRunsBounded
  <2>4. CASE BeginCalls
    <3>1. brk'.rep = brk.rep /\ brk'.err = brk.err
      BY <2>4, BrkKept DEF BeginCalls, BreakerType
    <3>2. /\ runs' = runs /\ pc' \notin {"hitl", "exec"}
          /\ InResult' => InResult
      BY <2>4 DEF BeginCalls, InResult, AskBreaker, Return, histVars, NextIteration
    <3> QED
      BY <3>1, <3>2 DEF RunsInv, IdenticalRunsBounded
  <2> QED
    BY <1>3, <2>1, <2>2, <2>3, <2>4 DEF TruncNext
<1>4. CASE MetaNext
  <2>1. CASE BatchError
    BY <2>1
       DEF BatchError, NextCall, LastCall, loopVars, callVars, gateVars,
         histVars, RunsInv, IdenticalRunsBounded, InResult
  <2>2. CASE FinishNudged
    BY <2>2
       DEF FinishNudged, loopVars, callVars, gateVars, histVars, RunsInv,
         IdenticalRunsBounded, InResult
  <2>3. CASE FinishAccepted
    BY <2>3
       DEF FinishAccepted, Return, VerifyHook, loopVars, callVars, gateVars,
         histVars, RunsInv, IdenticalRunsBounded, InResult
  <2> QED
    BY <1>4, <2>1, <2>2, <2>3 DEF MetaNext
<1>5. CASE CallNext
  <2>1. CASE RepeatPasses
    <3>0. brk.rep \in 0 .. CountBound /\ runs \in 0 .. CountBound
      BY DEF BreakerType, BrkType, HistoryType
    <3>1. PICK c \in NextCalls :
            /\ ~RepeatNudges(Repeated(c)) /\ brk' = Repeated(c)
            /\ runs' = IF SameKey(c) THEN runs ELSE 0
      BY <2>1 DEF RepeatPasses
    <3> SUFFICES ASSUME RepeatNudge > 0
                 PROVE  RunsInv' /\ IdenticalRunsBounded'
      BY DEF RunsInv, IdenticalRunsBounded
    <3>2. brk' \in BrkType /\ brk'.rep \in 0 .. CountBound
      BY <3>1, BreakerFacts DEF BrkType, NextCalls, CallType, BreakerType
    <3>3. /\ brk'.rep = IF SameKey(c) THEN Bump(brk.rep) ELSE 1
          /\ brk'.err = IF SameKey(c) THEN brk.err ELSE FALSE
      BY <3>1, RepeatedFacts DEF BreakerType
    <3>4. brk'.rep >= 1
      BY <3>0, <3>3, BoundFacts DEF Bump
    <3>5. ~Reached(brk'.rep, Lowered(brk', RepeatNudge))
      BY <3>1 DEF RepeatNudges
    <3>6. RepeatNudge # 1
      <4> SUFFICES ASSUME RepeatNudge = 1 PROVE FALSE
        OBVIOUS
      <4>1. ~brk'.err
        BY <3>3 DEF RunsInv
      <4> QED
        BY <3>2, <3>4, <3>5, <4>1 DEF Reached, Lowered
    <3>7. brk'.rep < RepeatNudge
      BY <3>2, <3>5, <3>6, BoundFacts DEF Reached, Lowered
    <3>8. runs' < brk'.rep
      <4>1. CASE SameKey(c)
        BY <3>0, <3>1, <3>3, <3>7, <4>1, BoundFacts DEF RunsInv, Bump
      <4>2. CASE ~SameKey(c)
        BY <3>1, <3>3, <4>2
      <4> QED
        BY <4>1, <4>2
    <3>9. pc' = "hitl" /\ runs' \in 0 .. CountBound
      BY <2>1, <3>0, <3>1 DEF RepeatPasses
    <3> QED
      BY <3>2, <3>6, <3>7, <3>8, <3>9, BoundFacts DEF RunsInv, IdenticalRunsBounded, InResult
  <2>2. CASE RepeatAsks
    <3>0. brk.rep \in 0 .. CountBound /\ runs \in 0 .. CountBound
      BY DEF BreakerType, BrkType, HistoryType
    <3>1. PICK c \in NextCalls :
            /\ AskBreaker("rep", Repeated(c), [Repeated(c) EXCEPT !.rep = 0])
            /\ runs' = IF SameKey(c) /\ brk'.rep # 0 THEN runs ELSE 0
      BY <2>2 DEF RepeatAsks
    <3>2. Repeated(c) \in BrkType
      BY BreakerFacts DEF BrkType, NextCalls, CallType, BreakerType
    <3>3. /\ Repeated(c).rep = IF SameKey(c) THEN Bump(brk.rep) ELSE 1
          /\ Repeated(c).err = IF SameKey(c) THEN brk.err ELSE FALSE
      BY RepeatedFacts DEF BreakerType
    <3>4. /\ [Repeated(c) EXCEPT !.rep = 0] \in BrkType
          /\ [Repeated(c) EXCEPT !.rep = 0].rep = 0
          /\ [Repeated(c) EXCEPT !.rep = 0].err = Repeated(c).err
      <4>1. [Repeated(c) EXCEPT !.rep = 0] \in BrkType
        BY <3>2, BrkUpdate, SmallCounts
      <4> QED
        BY <3>2, <4>1 DEF BrkType
    <3>5. /\ brk'.rep \in {Repeated(c).rep, 0} /\ brk'.err = Repeated(c).err
          /\ pc' \in {"after", "done"}
      BY <3>1, <3>2, <3>4, AskFacts
    <3>6. RepeatNudge > 0 => runs' <= brk'.rep /\ runs' <= runs
      BY <3>0, <3>1, <3>3, <3>5, BumpFacts DEF RunsInv
    <3>7. RepeatNudge = 1 => ~brk'.err
      BY <3>3, <3>5 DEF RunsInv
    <3>8. runs' \in 0 .. CountBound
      BY <3>0, <3>1, SmallCounts
    <3> QED
      BY <3>0, <3>5, <3>6, <3>7, <3>8, BoundFacts DEF RunsInv, IdenticalRunsBounded, InResult
  <2>3. CASE RepeatNudged
    <3>0. brk.rep \in 0 .. CountBound /\ runs \in 0 .. CountBound
      BY DEF BreakerType, BrkType, HistoryType
    <3>1. PICK c \in NextCalls :
            brk' = Repeated(c) /\ runs' = IF SameKey(c) THEN runs ELSE 0
      BY <2>3 DEF RepeatNudged
    <3>2. brk' \in BrkType /\ brk'.rep \in 0 .. CountBound
      BY <3>1, BreakerFacts DEF BrkType, NextCalls, CallType, BreakerType
    <3>3. /\ brk'.rep = IF SameKey(c) THEN Bump(brk.rep) ELSE 1
          /\ brk'.err = IF SameKey(c) THEN brk.err ELSE FALSE
      BY <3>1, RepeatedFacts DEF BreakerType
    <3>4. RepeatNudge > 0 => runs' <= brk'.rep /\ runs' <= runs
      BY <3>0, <3>1, <3>3, BumpFacts DEF RunsInv
    <3>5. pc' = "after" /\ runs' \in 0 .. CountBound
      BY <2>3, <3>0, <3>1 DEF RepeatNudged
    <3>6. RepeatNudge = 1 => ~brk'.err
      BY <3>3 DEF RunsInv
    <3> QED
      BY <3>0, <3>2, <3>4, <3>5, <3>6, BoundFacts DEF RunsInv, IdenticalRunsBounded, InResult
  <2>4. CASE HitlAllows
    BY <2>4
       DEF HitlAllows, loopVars, callVars, gateVars, histVars, RunsInv,
         IdenticalRunsBounded, InResult
  <2>5. CASE HitlRejects
    BY <2>5
       DEF HitlRejects, NextCall, LastCall, VerifyHook, loopVars, callVars,
         gateVars, histVars, RunsInv, IdenticalRunsBounded, InResult
  <2>6. CASE HitlFails
    <3>1. RepeatNudge > 0 => RepeatNudge # 1
      BY <2>6 DEF HitlFails, RunsInv
    <3>2. brk'.rep = brk.rep /\ runs' = runs /\ pc' \in {"fruitless", "done"}
      BY <2>6 DEF HitlFails, Return, histVars, BreakerType, BrkType
    <3> QED
      BY <3>1, <3>2 DEF RunsInv, IdenticalRunsBounded
  <2>7. CASE ToolReturns
    <3>0. brk.rep \in 0 .. CountBound /\ runs \in 0 .. CountBound
      BY DEF BreakerType, BrkType, HistoryType
    <3>1. RepeatNudge > 0 => runs < brk.rep /\ brk.rep < RepeatNudge /\ RepeatNudge # 1
      BY <2>7 DEF ToolReturns, RunsInv
    <3>2. brk'.rep = brk.rep
      BY <2>7 DEF ToolReturns, BreakerType, BrkType
    <3>3. pc' \in {"fruitless", "done"} /\ runs' = Bump(runs)
      BY <2>7 DEF ToolReturns, Return
    <3>4. RepeatNudge > 0 => runs' <= brk'.rep /\ runs' < RepeatNudge
      BY <3>0, <3>1, <3>2, <3>3, BoundFacts DEF Bump
    <3> QED
      BY <3>1, <3>3, <3>4 DEF RunsInv, IdenticalRunsBounded
  <2>8. CASE ToolInfraError
    <3>0. brk.rep \in 0 .. CountBound /\ runs \in 0 .. CountBound
      BY DEF BreakerType, BrkType, HistoryType
    <3>1. RepeatNudge > 0 => runs < brk.rep /\ brk.rep < RepeatNudge /\ RepeatNudge # 1
      BY <2>8 DEF ToolInfraError, RunsInv
    <3>2. brk'.rep = brk.rep
      BY <2>8 DEF ToolInfraError, BreakerType, BrkType
    <3>3. pc' \in {"fruitless", "done"} /\ runs' = Bump(runs)
      BY <2>8 DEF ToolInfraError, Return
    <3>4. RepeatNudge > 0 => runs' <= brk'.rep /\ runs' < RepeatNudge
      BY <3>0, <3>1, <3>2, <3>3, BoundFacts DEF Bump
    <3> QED
      BY <3>1, <3>3, <3>4 DEF RunsInv, IdenticalRunsBounded
  <2>9. CASE ToolCancelled
    BY <2>9
       DEF ToolCancelled, Return, loopVars, callVars, gateVars, histVars,
         RunsInv, IdenticalRunsBounded, InResult
  <2>10. CASE ToolTimesOut
    BY <2>10
       DEF ToolTimesOut, Return, loopVars, callVars, gateVars, histVars,
         RunsInv, IdenticalRunsBounded, InResult
  <2>11. CASE PauseInTool
    BY <2>11
       DEF PauseInTool, Return, loopVars, callVars, gateVars, histVars,
         RunsInv, IdenticalRunsBounded, InResult
  <2> QED
    BY <1>5, <2>1, <2>2, <2>3, <2>4, <2>5, <2>6, <2>7, <2>8, <2>9, <2>10, <2>11 DEF CallNext
<1>6. CASE ResultNext
  <2>1. CASE FruitlessPasses
    <3>1. brk'.rep = brk.rep /\ brk'.err = brk.err
      BY <2>1, BrkKept DEF FruitlessPasses, BreakerType
    <3>2. /\ runs' = runs /\ pc' \notin {"hitl", "exec"}
          /\ InResult' => InResult
      BY <2>1 DEF FruitlessPasses, InResult, AskBreaker, Return, histVars, NextIteration
    <3> QED
      BY <3>1, <3>2 DEF RunsInv, IdenticalRunsBounded
  <2>2. CASE FruitlessAsks
    <3>1. brk'.rep = brk.rep /\ brk'.err = brk.err
      <4>1. /\ [brk EXCEPT !.fruit = FruitCount] \in BrkType
            /\ [brk EXCEPT !.fruit = 0, !.fruitNudged = FALSE] \in BrkType
        BY BrkUpdate, SmallCounts, BreakerFacts DEF BreakerType, CallType
      <4>2. /\ brk'.rep \in {[brk EXCEPT !.fruit = FruitCount].rep,
                         [brk EXCEPT !.fruit = 0, !.fruitNudged = FALSE].rep}
            /\ brk'.err \in {[brk EXCEPT !.fruit = FruitCount].err,
                         [brk EXCEPT !.fruit = 0, !.fruitNudged = FALSE].err}
        BY <2>2, <4>1, AskFacts DEF FruitlessAsks
      <4> QED
        BY <4>2, BrkKept DEF BreakerType
    <3>2. /\ runs' = runs /\ pc' \notin {"hitl", "exec"}
          /\ InResult' => InResult
      BY <2>2 DEF FruitlessAsks, InResult, AskBreaker, Return, histVars, NextIteration
    <3> QED
      BY <3>1, <3>2 DEF RunsInv, IdenticalRunsBounded
  <2>3. CASE FruitlessNudged
    <3>1. brk'.rep = brk.rep /\ brk'.err = brk.err
      BY <2>3, BrkKept DEF FruitlessNudged, BreakerType
    <3>2. /\ runs' = runs /\ pc' \notin {"hitl", "exec"}
          /\ InResult' => InResult
      BY <2>3 DEF FruitlessNudged, InResult, AskBreaker, Return, histVars, NextIteration
    <3> QED
      BY <3>1, <3>2 DEF RunsInv, IdenticalRunsBounded
  <2>4. CASE SamePasses
    <3>1. brk'.rep = brk.rep /\ brk'.err = brk.err
      BY <2>4, TrackedKept DEF SamePasses, BreakerType
    <3>2. /\ runs' = runs /\ pc' \notin {"hitl", "exec"}
          /\ InResult' => InResult
      BY <2>4 DEF SamePasses, InResult, AskBreaker, Return, histVars, NextIteration
    <3> QED
      BY <3>1, <3>2 DEF RunsInv, IdenticalRunsBounded
  <2>5. CASE SameAsks
    <3>1. brk'.rep = brk.rep /\ brk'.err = brk.err
      <4>1. PICK similar \in BOOLEAN :
              AskBreaker("same", SameTracked(similar),
                         [SameTracked(similar) EXCEPT !.same = 0, !.sameNudged = FALSE])
        BY <2>5 DEF SameAsks
      <4>2. SameTracked(similar) \in BrkType
        BY BreakerFacts DEF CallType, BreakerType
      <4>3. [SameTracked(similar) EXCEPT !.same = 0, !.sameNudged = FALSE] \in BrkType
        BY <4>2, BrkUpdate, SmallCounts
      <4>4. /\ brk'.rep \in {SameTracked(similar).rep,
                         [SameTracked(similar) EXCEPT !.same = 0, !.sameNudged = FALSE].rep}
            /\ brk'.err \in {SameTracked(similar).err,
                         [SameTracked(similar) EXCEPT !.same = 0, !.sameNudged = FALSE].err}
        BY <4>1, <4>2, <4>3, AskFacts
      <4> QED
        BY <4>2, <4>4, BrkKept, TrackedKept DEF BreakerType
    <3>2. /\ runs' = runs /\ pc' \notin {"hitl", "exec"}
          /\ InResult' => InResult
      BY <2>5 DEF SameAsks, InResult, AskBreaker, Return, histVars, NextIteration
    <3> QED
      BY <3>1, <3>2 DEF RunsInv, IdenticalRunsBounded
  <2>6. CASE SameNudged
    <3>1. brk'.rep = brk.rep /\ brk'.err = brk.err
      <4>1. PICK similar \in BOOLEAN : brk' = [SameTracked(similar) EXCEPT !.sameNudged = TRUE]
        BY <2>6 DEF SameNudged
      <4>2. SameTracked(similar) \in BrkType
        BY BreakerFacts DEF CallType, BreakerType
      <4> QED
        BY <4>1, <4>2, BrkKept, TrackedKept DEF BreakerType
    <3>2. /\ runs' = runs /\ pc' \notin {"hitl", "exec"}
          /\ InResult' => InResult
      BY <2>6 DEF SameNudged, InResult, AskBreaker, Return, histVars, NextIteration
    <3> QED
      BY <3>1, <3>2 DEF RunsInv, IdenticalRunsBounded
  <2>7. CASE ParsePasses
    <3>1. brk'.rep = brk.rep /\ brk'.err = brk.err
      BY <2>7, TrackedKept DEF ParsePasses, BreakerType
    <3>2. /\ runs' = runs /\ pc' \notin {"hitl", "exec"}
          /\ InResult' => InResult
      BY <2>7 DEF ParsePasses, InResult, AskBreaker, Return, histVars, NextIteration
    <3> QED
      BY <3>1, <3>2 DEF RunsInv, IdenticalRunsBounded
  <2>8. CASE ParseAsks
    <3>1. brk'.rep = brk.rep /\ brk'.err = brk.err
      <4>1. ParseTracked \in BrkType
        BY BreakerFacts DEF CallType, BreakerType
      <4>2. [ParseTracked EXCEPT !.parse = 0] \in BrkType
        BY <4>1, BrkUpdate, SmallCounts
      <4>3. /\ brk'.rep \in {ParseTracked.rep, [ParseTracked EXCEPT !.parse = 0].rep}
            /\ brk'.err \in {ParseTracked.err, [ParseTracked EXCEPT !.parse = 0].err}
        BY <2>8, <4>1, <4>2, AskFacts DEF ParseAsks
      <4> QED
        BY <4>1, <4>3, BrkKept, TrackedKept DEF BreakerType
    <3>2. /\ runs' = runs /\ pc' \notin {"hitl", "exec"}
          /\ InResult' => InResult
      BY <2>8 DEF ParseAsks, InResult, AskBreaker, Return, histVars, NextIteration
    <3> QED
      BY <3>1, <3>2 DEF RunsInv, IdenticalRunsBounded
  <2>9. CASE RecordStep
    BY <2>9
       DEF RecordStep, NextCall, LastCall, StepAppended, VerifyHook, loopVars,
         callVars, gateVars, histVars, RunsInv, IdenticalRunsBounded, InResult
  <2>10. CASE StopGuarded
    BY <2>10
       DEF StopGuarded, StepAppended, VerifyHook, loopVars, callVars,
         gateVars, histVars, RunsInv, IdenticalRunsBounded, InResult
  <2>11. CASE StopTerminates
    BY <2>11
       DEF StopTerminates, Return, StepAppended, VerifyHook, loopVars,
         callVars, gateVars, histVars, RunsInv, IdenticalRunsBounded, InResult
  <2> QED
    BY <1>6, <2>1, <2>2, <2>3, <2>4, <2>5, <2>6, <2>7, <2>8, <2>9, <2>10, <2>11 DEF ResultNext
<1>7. CASE AfterNext
  <2>1. CASE AfterTriggered
    BY <2>1
       DEF AfterTriggered, NextIteration, loopVars, callVars, gateVars,
         histVars, RunsInv, IdenticalRunsBounded, InResult
  <2>2. CASE AfterFits
    BY <2>2
       DEF AfterFits, NextIteration, loopVars, callVars, gateVars, histVars,
         RunsInv, IdenticalRunsBounded, InResult
  <2>3. CASE AfterOverfull
    BY <2>3
       DEF AfterOverfull, Return, loopVars, callVars, gateVars, histVars,
         RunsInv, IdenticalRunsBounded, InResult
  <2> QED
    BY <1>7, <2>1, <2>2, <2>3 DEF AfterNext
<1>8. CASE Cancel
  <2>1. CASE Cancel
    BY <2>1
       DEF Cancel, loopVars, callVars, gateVars, histVars, RunsInv,
         IdenticalRunsBounded, InResult
  <2> QED
    BY <1>8, <2>1 DEF Cancel
<1>9. CASE UNCHANGED vars
  BY <1>9 DEF vars, loopVars, callVars, gateVars, histVars, RunsInv, IdenticalRunsBounded,
         InResult
<1> QED
  BY <1>1, <1>2, <1>3, <1>4, <1>5, <1>6, <1>7, <1>8, <1>9 DEF Next, Run, Done

(* What a return says about the work done.                                  *)
LEMMA OutcomeStep ==
    ASSUME ExitInv, LoopType, MutationInv, BudgetInv, BudgetRespected, FinishedMeansMutated, FinishVerified, [Next]_vars
    PROVE  BudgetRespected' /\ FinishedMeansMutated' /\ FinishVerified'
<1> USE BoundFacts
<1>1. CASE LoopNext
  <2>1. CASE UnderLimit
    BY <2>1
       DEF UnderLimit, loopVars, callVars, gateVars, histVars, ExitInv,
         BudgetRespected, FinishedMeansMutated, FinishVerified, LoopType
  <2>2. CASE PastLimit
    BY <2>2
       DEF PastLimit, Return, loopVars, callVars, gateVars, histVars, ExitInv,
         BudgetRespected, FinishedMeansMutated, FinishVerified, LoopType
  <2>3. CASE LimitExtended
    BY <2>3
       DEF LimitExtended, AtLimit, loopVars, callVars, gateVars, histVars,
         ExitInv, BudgetRespected, FinishedMeansMutated, FinishVerified, LoopType,
         BudgetInv
  <2>4. CASE LimitDenied
    BY <2>4
       DEF LimitDenied, AtLimit, Return, loopVars, callVars, gateVars,
         histVars, ExitInv, BudgetRespected, FinishedMeansMutated, FinishVerified, LoopType
  <2>5. CASE CancelledAtStep
    BY <2>5
       DEF CancelledAtStep, Return, loopVars, callVars, gateVars, histVars,
         ExitInv, BudgetRespected, FinishedMeansMutated, FinishVerified, LoopType
  <2>6. CASE PauseAtStep
    BY <2>6
       DEF PauseAtStep, Return, loopVars, callVars, gateVars, histVars,
         ExitInv, BudgetRespected, FinishedMeansMutated, FinishVerified, LoopType
  <2>7. CASE CallLLM
    BY <2>7
       DEF CallLLM, loopVars, callVars, gateVars, histVars, ExitInv,
         BudgetRespected, FinishedMeansMutated, FinishVerified, LoopType, BudgetInv, Step
  <2>8. CASE LLMContextExceeded
    BY <2>8
       DEF LLMContextExceeded, NextIteration, loopVars, callVars, gateVars,
         histVars, ExitInv, BudgetRespected, FinishedMeansMutated, FinishVerified, LoopType
  <2>9. CASE LLMError
    BY <2>9
       DEF LLMError, Return, loopVars, callVars, gateVars, histVars, ExitInv,
         BudgetRespected, FinishedMeansMutated, FinishVerified, LoopType
  <2>10. CASE LLMReplies
    BY <2>10
       DEF LLMReplies, loopVars, callVars, gateVars, histVars, ExitInv,
         BudgetRespected, FinishedMeansMutated, FinishVerified, LoopType
  <2> QED
    BY <1>1, <2>1, <2>2, <2>3, <2>4, <2>5, <2>6, <2>7, <2>8, <2>9, <2>10 DEF LoopNext
<1>2. CASE TextNext
  <2>1. CASE TextNudge
    BY <2>1
       DEF TextNudge, NextIteration, TextReply, loopVars, callVars, gateVars,
         histVars, ExitInv, BudgetRespected, FinishedMeansMutated, FinishVerified, LoopType
  <2>2. CASE SyntaxAbort
    BY <2>2
       DEF SyntaxAbort, Return, TextReply, loopVars, callVars, gateVars,
         histVars, ExitInv, BudgetRespected, FinishedMeansMutated, FinishVerified, LoopType
  <2>3. CASE ImplicitFinish
    BY <2>3
       DEF ImplicitFinish, Return, TextReply, loopVars, callVars, gateVars,
         histVars, ExitInv, BudgetRespected, FinishedMeansMutated, FinishVerified, LoopType
  <2> QED
    BY <1>2, <2>1, <2>2, <2>3 DEF TextNext
<1>3. CASE TruncNext
  <2>1. CASE TruncatedStep
    BY <2>1
       DEF TruncatedStep, NextIteration, Truncated, loopVars, callVars,
         gateVars, histVars, ExitInv, BudgetRespected, FinishedMeansMutated,
         FinishVerified, LoopType
  <2>2. CASE TruncationReprieve
    BY <2>2
       DEF TruncationReprieve, NextIteration, Truncated, loopVars, callVars,
         gateVars, histVars, ExitInv, BudgetRespected, FinishedMeansMutated,
         FinishVerified, LoopType
  <2>3. CASE TruncationDenied
    BY <2>3
       DEF TruncationDenied, Return, Truncated, loopVars, callVars, gateVars,
         histVars, ExitInv, BudgetRespected, FinishedMeansMutated, FinishVerified, LoopType
  <2>4. CASE BeginCalls
    BY <2>4
       DEF BeginCalls, loopVars, callVars, gateVars, histVars, ExitInv,
         BudgetRespected, FinishedMeansMutated, FinishVerified, LoopType
  <2> QED
    BY <1>3, <2>1, <2>2, <2>3, <2>4 DEF TruncNext
<1>4. CASE MetaNext
  <2>1. CASE BatchError
    BY <2>1
       DEF BatchError, NextCall, LastCall, loopVars, callVars, gateVars,
         histVars, ExitInv, BudgetRespected, FinishedMeansMutated, FinishVerified, LoopType
  <2>2. CASE FinishNudged
    BY <2>2
       DEF FinishNudged, loopVars, callVars, gateVars, histVars, ExitInv,
         BudgetRespected, FinishedMeansMutated, FinishVerified, LoopType
  <2>3. CASE FinishAccepted
    BY <2>3
       DEF FinishAccepted, Return, VerifyHook, loopVars, callVars, gateVars,
         histVars, ExitInv, BudgetRespected, FinishedMeansMutated, FinishVerified,
         LoopType, MutationInv
  <2> QED
    BY <1>4, <2>1, <2>2, <2>3 DEF MetaNext
<1>5. CASE CallNext
  <2>1. CASE RepeatPasses
    BY <2>1
       DEF RepeatPasses, loopVars, callVars, gateVars, histVars, ExitInv,
         BudgetRespected, FinishedMeansMutated, FinishVerified, LoopType
  <2>2. CASE RepeatAsks
    BY <2>2
       DEF RepeatAsks, Return, AskBreaker, loopVars, callVars, gateVars,
         histVars, ExitInv, BudgetRespected, FinishedMeansMutated, FinishVerified, LoopType
  <2>3. CASE RepeatNudged
    BY <2>3
       DEF RepeatNudged, loopVars, callVars, gateVars, histVars, ExitInv,
         BudgetRespected, FinishedMeansMutated, FinishVerified, LoopType
  <2>4. CASE HitlAllows
    BY <2>4
       DEF HitlAllows, loopVars, callVars, gateVars, histVars, ExitInv,
         BudgetRespected, FinishedMeansMutated, FinishVerified, LoopType
  <2>5. CASE HitlRejects
    BY <2>5
       DEF HitlRejects, NextCall, LastCall, VerifyHook, loopVars, callVars,
         gateVars, histVars, ExitInv, BudgetRespected, FinishedMeansMutated,
         FinishVerified, LoopType
  <2>6. CASE HitlFails
    BY <2>6
       DEF HitlFails, Return, loopVars, callVars, gateVars, histVars, ExitInv,
         BudgetRespected, FinishedMeansMutated, FinishVerified, LoopType
  <2>7. CASE ToolReturns
    BY <2>7
       DEF ToolReturns, loopVars, callVars, gateVars, histVars, ExitInv,
         BudgetRespected, FinishedMeansMutated, FinishVerified, LoopType
  <2>8. CASE ToolInfraError
    BY <2>8
       DEF ToolInfraError, Return, loopVars, callVars, gateVars, histVars,
         ExitInv, BudgetRespected, FinishedMeansMutated, FinishVerified, LoopType
  <2>9. CASE ToolCancelled
    BY <2>9
       DEF ToolCancelled, Return, loopVars, callVars, gateVars, histVars,
         ExitInv, BudgetRespected, FinishedMeansMutated, FinishVerified, LoopType
  <2>10. CASE ToolTimesOut
    BY <2>10
       DEF ToolTimesOut, Return, loopVars, callVars, gateVars, histVars,
         ExitInv, BudgetRespected, FinishedMeansMutated, FinishVerified, LoopType
  <2>11. CASE PauseInTool
    BY <2>11
       DEF PauseInTool, Return, loopVars, callVars, gateVars, histVars,
         ExitInv, BudgetRespected, FinishedMeansMutated, FinishVerified, LoopType
  <2> QED
    BY <1>5, <2>1, <2>2, <2>3, <2>4, <2>5, <2>6, <2>7, <2>8, <2>9, <2>10, <2>11 DEF CallNext
<1>6. CASE ResultNext
  <2>1. CASE FruitlessPasses
    BY <2>1
       DEF FruitlessPasses, loopVars, callVars, gateVars, histVars, ExitInv,
         BudgetRespected, FinishedMeansMutated, FinishVerified, LoopType
  <2>2. CASE FruitlessAsks
    BY <2>2
       DEF FruitlessAsks, Return, AskBreaker, loopVars, callVars, gateVars,
         histVars, ExitInv, BudgetRespected, FinishedMeansMutated, FinishVerified, LoopType
  <2>3. CASE FruitlessNudged
    BY <2>3
       DEF FruitlessNudged, loopVars, callVars, gateVars, histVars, ExitInv,
         BudgetRespected, FinishedMeansMutated, FinishVerified, LoopType
  <2>4. CASE SamePasses
    BY <2>4
       DEF SamePasses, loopVars, callVars, gateVars, histVars, ExitInv,
         BudgetRespected, FinishedMeansMutated, FinishVerified, LoopType
  <2>5. CASE SameAsks
    BY <2>5
       DEF SameAsks, Return, AskBreaker, loopVars, callVars, gateVars,
         histVars, ExitInv, BudgetRespected, FinishedMeansMutated, FinishVerified, LoopType
  <2>6. CASE SameNudged
    BY <2>6
       DEF SameNudged, loopVars, callVars, gateVars, histVars, ExitInv,
         BudgetRespected, FinishedMeansMutated, FinishVerified, LoopType
  <2>7. CASE ParsePasses
    BY <2>7
       DEF ParsePasses, loopVars, callVars, gateVars, histVars, ExitInv,
         BudgetRespected, FinishedMeansMutated, FinishVerified, LoopType
  <2>8. CASE ParseAsks
    BY <2>8
       DEF ParseAsks, Return, AskBreaker, loopVars, callVars, gateVars,
         histVars, ExitInv, BudgetRespected, FinishedMeansMutated, FinishVerified, LoopType
  <2>9. CASE RecordStep
    BY <2>9
       DEF RecordStep, NextCall, LastCall, StepAppended, VerifyHook, loopVars,
         callVars, gateVars, histVars, ExitInv, BudgetRespected, FinishedMeansMutated,
         FinishVerified, LoopType
  <2>10. CASE StopGuarded
    BY <2>10
       DEF StopGuarded, StepAppended, VerifyHook, loopVars, callVars,
         gateVars, histVars, ExitInv, BudgetRespected, FinishedMeansMutated,
         FinishVerified, LoopType
  <2>11. CASE StopTerminates
    BY <2>11
       DEF StopTerminates, Return, StepAppended, VerifyHook, LastCall, loopVars,
         callVars, gateVars, histVars, ExitInv, BudgetRespected, FinishedMeansMutated,
         FinishVerified, LoopType
  <2> QED
    BY <1>6, <2>1, <2>2, <2>3, <2>4, <2>5, <2>6, <2>7, <2>8, <2>9, <2>10, <2>11 DEF ResultNext
<1>7. CASE AfterNext
  <2>1. CASE AfterTriggered
    BY <2>1
       DEF AfterTriggered, NextIteration, loopVars, callVars, gateVars,
         histVars, ExitInv, BudgetRespected, FinishedMeansMutated, FinishVerified, LoopType
  <2>2. CASE AfterFits
    BY <2>2
       DEF AfterFits, NextIteration, loopVars, callVars, gateVars, histVars,
         ExitInv, BudgetRespected, FinishedMeansMutated, FinishVerified, LoopType
  <2>3. CASE AfterOverfull
    BY <2>3
       DEF AfterOverfull, Return, loopVars, callVars, gateVars, histVars,
         ExitInv, BudgetRespected, FinishedMeansMutated, FinishVerified, LoopType
  <2> QED
    BY <1>7, <2>1, <2>2, <2>3 DEF AfterNext
<1>8. CASE Cancel
  <2>1. CASE Cancel
    BY <2>1
       DEF Cancel, loopVars, callVars, gateVars, histVars, ExitInv,
         BudgetRespected, FinishedMeansMutated, FinishVerified, LoopType
  <2> QED
    BY <1>8, <2>1 DEF Cancel
<1>9. CASE UNCHANGED vars
  BY <1>9 DEF vars, loopVars, callVars, gateVars, histVars, ExitInv, BudgetRespected,
         FinishedMeansMutated, FinishVerified, LoopType
<1> QED
  BY <1>1, <1>2, <1>3, <1>4, <1>5, <1>6, <1>7, <1>8, <1>9 DEF Next, Run, Done

(* Every initial state satisfies the invariant.                              *)
LEMMA InitInv == Init => IInv
<1> SUFFICES ASSUME Init PROVE IInv
  OBVIOUS
<1> USE BoundFacts
<1>1. LoopType
  <2>1. resume \in 0 .. StepBound /\ resume \in ResumeLens
    BY DEF Init
  <2>2. stepNum \in 1 .. StepBound + 1 /\ effMax \in 0 .. StepBound
    BY <2>1 DEF Init
  <2>3. llmCalls \in 0 .. StepBound + 1
    BY DEF Init
  <2> QED
    BY <2>1, <2>2, <2>3 DEF Init, LoopType
<1>2. CallType
  BY EmptyFacts DEF Init, CallType
<1>3. GateType /\ mutDone = traj.mutated /\ mutDone \in BOOLEAN
  <2>1. traj \in TrajType
    <3>1. [mutated |-> FALSE, list |-> "none", productive |-> 0] \in TrajType
      <4>1. FALSE \in BOOLEAN /\ 0 \in 0 .. TrivialThreshold + 1
        BY DEF TrivialThreshold
      <4> QED
        BY <4>1 DEF TrajType
    <3> QED
      BY <3>1 DEF Init
  <2>2. nudged \in NudgedType
    BY DEF Init, NudgedType
  <2>3. traj.mutated \in BOOLEAN
    BY <2>1 DEF TrajType
  <2> QED
    BY <2>1, <2>2, <2>3 DEF Init, GateType
<1>4. BreakerType /\ brk.rep = 0 /\ ~brk.err
  BY DEF Init, BreakerType, BrkType
<1>5. HistoryType
  BY <1>3, SmallCounts DEF Init, HistoryType
<1>6. BudgetInv
  BY <1>1 DEF Init, BudgetInv, LoopType
<1> QED
  BY <1>1, <1>2, <1>3, <1>4, <1>5, <1>6
     DEF Init, IInv, TypeOK, ExitInv, MutationInv, RunsInv, ThoughtInv, BudgetRespected,
         FinishedMeansMutated, IdenticalRunsBounded, ThoughtNotTwice, FinishVerified, InCall, InResult,
         CarryInv, ThoughtNotLost, ReplyVerified

(* The inductive invariant holds in every reachable state.                   *)
THEOREM Invariance == Spec => []IInv
<1>1. IInv /\ [Next]_vars => IInv'
  <2> SUFFICES ASSUME IInv, [Next]_vars PROVE IInv'
    OBVIOUS
  <2> USE DEF IInv, TypeOK
  <2>1. TypeOK'
    BY LoopTypeStep, CallTypeStep, GateTypeStep, BreakerTypeStep, HistoryTypeStep
  <2>2. ExitInv' /\ BudgetInv' /\ MutationInv'
    BY ExitStep, BudgetStep, MutationStep
  <2>3. RunsInv' /\ IdenticalRunsBounded' /\ ThoughtInv' /\ ThoughtNotTwice'
    BY RunsStep, ThoughtStep
  <2>4. BudgetRespected' /\ FinishedMeansMutated' /\ FinishVerified'
    BY OutcomeStep
  <2>5. CarryInv' /\ ThoughtNotLost' /\ ReplyVerified'
    BY CutShortStep
  <2> QED
    BY <2>1, <2>2, <2>3, <2>4, <2>5
<1> QED
  BY InitInv, <1>1, PTL DEF Spec

(* Type correctness: nudge counters, step numbers and breaker counters stay  *)
(* in their ranges.                                                          *)
THEOREM TypeCorrect == Spec => []TypeOK
<1>1. IInv => TypeOK
  BY DEF IInv
<1> QED
  BY <1>1, Invariance, PTL

(* The model is called at most once per step of the budget, for every        *)
(* budget, resume length and sequence of grants.                             *)
THEOREM BudgetCorrect == Spec => []BudgetRespected
<1>1. IInv => BudgetRespected
  BY DEF IInv
<1> QED
  BY <1>1, Invariance, PTL

(* The mutation gate sees exactly the mutations that were executed.          *)
THEOREM MutationCorrect == Spec => []MutationExact
<1>1. IInv => MutationExact
  BY DEF IInv, MutationInv, MutationExact, AtRest
<1> QED
  BY <1>1, Invariance, PTL

(* A finish reported under the mutation gate comes with a mutation.          *)
THEOREM FinishCorrect == Spec => []FinishedMeansMutated
<1>1. IInv => FinishedMeansMutated
  BY DEF IInv
<1> QED
  BY <1>1, Invariance, PTL

(* Identical calls in a row stay below the threshold, whatever the other     *)
(* breakers and the user do.                                                 *)
THEOREM RepeatCorrect == Spec => []IdenticalRunsBounded
<1>1. IInv => IdenticalRunsBounded
  BY DEF IInv
<1> QED
  BY <1>1, Invariance, PTL

(* No reply's thought is rendered twice, and none is lost but on the one     *)
(* path through the repeat nudge of a leading batch.                         *)
THEOREM ThoughtCorrect == Spec => []ThoughtOnce
<1>1. IInv => ThoughtOnce
  BY DEF IInv, ThoughtOnce
<1> QED
  BY <1>1, Invariance, PTL

(* No finish leaves a verification pending, and no reply that is worked      *)
(* through to its last call does.                                            *)
THEOREM VerifyCorrect == Spec => [](FinishVerified /\ ReplyVerified)
<1>1. IInv => FinishVerified /\ ReplyVerified
  BY DEF IInv
<1> QED
  BY <1>1, Invariance, PTL

(* Cancellation keeps every later step from starting a model call.           *)
THEOREM CancelCorrect == Spec => NoCallAfterCancel
<1>1. [Next]_vars => [ctx = "cancelled" => llmCalls' = llmCalls]_vars
  <2> SUFFICES ASSUME Next, ctx = "cancelled" PROVE llmCalls' = llmCalls
    OBVIOUS
  <2>1. CASE LoopNext
    BY <2>1 DEF LoopNext, UnderLimit, PastLimit, LimitExtended, LimitDenied,
         CancelledAtStep, PauseAtStep, CallLLM, LLMContextExceeded, LLMError, LLMReplies,
         loopVars
  <2>2. CASE TextNext
    BY <2>2 DEF TextNext, TextNudge, SyntaxAbort, ImplicitFinish, loopVars
  <2>3. CASE TruncNext
    BY <2>3 DEF TruncNext, TruncatedStep, TruncationReprieve, TruncationDenied, BeginCalls,
         loopVars
  <2>4. CASE MetaNext
    BY <2>4 DEF MetaNext, BatchError, FinishNudged, FinishAccepted, loopVars
  <2>5. CASE CallNext
    BY <2>5 DEF CallNext, RepeatPasses, RepeatAsks, RepeatNudged, HitlAllows, HitlRejects,
         HitlFails, ToolReturns, ToolInfraError, ToolCancelled, ToolTimesOut, PauseInTool,
         loopVars
  <2>6. CASE ResultNext
    BY <2>6 DEF ResultNext, FruitlessPasses, FruitlessAsks, FruitlessNudged, SamePasses,
         SameAsks, SameNudged, ParsePasses, ParseAsks, RecordStep, StopGuarded,
         StopTerminates, loopVars
  <2>7. CASE AfterNext
    BY <2>7 DEF AfterNext, AfterTriggered, AfterFits, AfterOverfull, loopVars
  <2>8. CASE Cancel
    BY <2>8 DEF Cancel, loopVars
  <2>9. CASE UNCHANGED vars
    BY <2>9 DEF vars, loopVars
  <2> QED
    BY <2>1, <2>2, <2>3, <2>4, <2>5, <2>6, <2>7, <2>8, <2>9 DEF Next, Run, Done
<1> QED
  BY <1>1, PTL DEF Spec, NoCallAfterCancel

(* No finish call slips past its gates: a required mutation was executed, no *)
(* finish leaves a verification pending, and only a reply that was cut short *)
(* leaves one to the next.                                                   *)
THEOREM GateCorrect == Spec => []FinishGated
<1>1. FinishedMeansMutated /\ FinishVerified /\ ReplyVerified => FinishGated
  BY DEF FinishGated
<1> QED
  BY FinishCorrect, VerifyCorrect, <1>1, PTL

(* The loop stays within its budget and does not repeat itself, whatever the *)
(* user grants.                                                              *)
THEOREM BoundCorrect == Spec => []LoopBounded
<1>1. TypeOK /\ BudgetRespected /\ IdenticalRunsBounded => LoopBounded
  BY DEF LoopBounded
<1> QED
  BY TypeCorrect, BudgetCorrect, RepeatCorrect, <1>1, PTL
=============================================================================
