----------------------------- MODULE PlanExecution -----------------------------
(***************************************************************************)
(* task.go: TaskBuilder.runPlanned and runStep, with the graph helpers of   *)
(* orchestration/dag.go.  A task is planned into a DAG of steps; waves of    *)
(* ready steps are run one after the other, each with retries; a failed      *)
(* attempt may be reflected on, and the reflection may abort the task or     *)
(* replace the plan, carrying completed work forward.  The context may be    *)
(* cancelled between any two of these steps, and a run may be paused.        *)
(*                                                                          *)
(* A plan is the function from its step IDs to their DependsOn sets.  The    *)
(* order of plan.Steps is left out: it only decides the order within a       *)
(* wave, which is any here.  What conductor.Run, Reflect, Replan and         *)
(* SetModel return is chosen by the environment.                             *)
(***************************************************************************)
EXTENDS Naturals, FiniteSets

CONSTANTS
    Steps,       \* step IDs
    Plans,       \* the plans the planner may return
    MaxRetries,  \* b.maxRetries
    MaxReplans,  \* b.maxReplans
    Configs      \* b.useReflector, b.planModel # "", b.execModel # ""

(* validatePlanDAG: what planner.Plan and planner.Replan let through.        *)
ValidPlan(p) ==
    /\ DOMAIN p # {}
    /\ \A s \in DOMAIN p : p[s] \subseteq DOMAIN p
    /\ \A S \in SUBSET DOMAIN p : S # {} => \E s \in S : p[s] \intersect S = {}

ASSUME StepsAssumption == IsFiniteSet(Steps)
ASSUME PlansAssumption ==
    \A p \in Plans : ValidPlan(p) /\ DOMAIN p \subseteq Steps
ASSUME BudgetAssumption == MaxRetries \in Nat /\ MaxReplans \in Nat
ASSUME ConfigsAssumption ==
    Configs \subseteq [reflector : BOOLEAN, planModel : BOOLEAN, execModel : BOOLEAN]

VARIABLES
    cfg,        \* the builder's configuration
    ctx,        \* "live" or "cancelled"
    pc,         \* where runPlanned and runStep are
    plan,       \* the plan being executed
    bbPlan,     \* bb.GetPlan()
    completed,  \* completed: "none", "ok", or "err" (Error # nil) for each step
    bbResult,   \* the step results on the blackboard: "none", "ok", "paused"
    wave,       \* the ready steps of this wave still to run
    cur,        \* the step in runStep
    attempt,    \* its attempt
    runLive,    \* the context was live when this attempt started
    replanPlan, \* the plan proposed by a replan, or NoPlan
    carried,    \* BuildCarryForward's map while it is being built
    replans,    \* adopted replans
    aborted, paused,
    model,      \* the router's active model: "default", "plan", "exec"
    switchFailed,  \* some switchModelMidLoop failed
    lateFailures,  \* steps recorded as failed although the context was cancelled
    status      \* "none", "error", or ExecutionResult.Status

vars == <<cfg, ctx, pc, plan, bbPlan, completed, bbResult, wave, cur, attempt, runLive,
          replanPlan, carried, replans, aborted, paused, model, switchFailed,
          lateFailures, status>>

graphVars == <<plan, bbPlan, replanPlan, carried, replans>>
resultVars == <<completed, bbResult, lateFailures>>
stepVars == <<wave, cur, attempt, runLive>>
flagVars == <<aborted, paused, status>>
modelVars == <<model, switchFailed>>

NoPlan == <<>>

ControlType ==
    /\ cfg \in Configs /\ ctx \in {"live", "cancelled"}
    /\ pc \in {"plan", "loop", "wave", "run", "reflect", "replan", "carry",
               "end", "done"}
    /\ attempt \in 0 .. MaxRetries + 1 /\ replans \in 0 .. MaxReplans
    /\ runLive \in BOOLEAN /\ aborted \in BOOLEAN /\ paused \in BOOLEAN
    /\ model \in {"default", "plan", "exec"} /\ switchFailed \in BOOLEAN
    /\ status \in {"none", "error", "aborted", "paused", "failed", "partial", "success"}

DataType ==
    /\ plan \in Plans \union {NoPlan} /\ bbPlan \in Plans \union {NoPlan}
    /\ replanPlan \in Plans \union {NoPlan}
    /\ completed \in [Steps -> {"none", "ok", "err"}]
    /\ bbResult \in [Steps -> {"none", "ok", "paused"}]
    /\ wave \in SUBSET Steps /\ carried \in SUBSET Steps /\ lateFailures \in SUBSET Steps
    /\ cur \in Steps \union {""}

TypeOK == ControlType /\ DataType

Init ==
    /\ cfg \in Configs
    /\ ctx = "live" /\ pc = "plan"
    /\ plan = NoPlan /\ bbPlan = NoPlan /\ replanPlan = NoPlan
    /\ completed = [s \in Steps |-> "none"]
    /\ bbResult = [s \in Steps |-> "none"]
    /\ wave = {} /\ carried = {} /\ cur = "" /\ attempt = 0 /\ runLive = FALSE
    /\ replans = 0 /\ aborted = FALSE /\ paused = FALSE
    /\ model = "default" /\ switchFailed = FALSE /\ lateFailures = {}
    /\ status = "none"

-----------------------------------------------------------------------------
(* Operators of dag.go and of task.go's bookkeeping                          *)

(* Mutant: a failed dependency counts as done.                               *)
FindReadyStepsAnyOutcome(p, c) ==
    {s \in DOMAIN p : c[s] = "none" /\ \A d \in p[s] : c[d] # "none"}

(* FindReadySteps: not completed, every dependency completed without error.  *)
FindReadySteps(p, c) ==
    {s \in DOMAIN p : c[s] = "none" /\ \A d \in p[s] : c[d] = "ok"}

(* completedInOrder and phase 1 of BuildCarryForward: successful steps of    *)
(* the plan on the blackboard whose ID is in the new plan.                   *)
Candidates(c, old, new) ==
    {s \in DOMAIN old \intersect DOMAIN new : c[s] = "ok"}

(* Mutant: the dependencies of a step that runs again are dropped as well.   *)
StaleBothWays(C, p) ==
    {s \in C : \E d \in DOMAIN p \ C : d \in p[s] \/ s \in p[d]}

(* Phase 2 removes a step with a dependency that will be executed again.     *)
Stale(C, p) == {s \in C : \E d \in p[s] : d \in DOMAIN p /\ d \notin C}

(* Both models are configured: only then does runStep switch back and forth. *)
Switching == cfg.planModel /\ cfg.execModel

(* switchModelMidLoop: a failed switch is reported and ignored.              *)
SwitchMidLoop(m) ==
    IF Switching
    THEN \/ model' = m /\ UNCHANGED switchFailed
         \/ UNCHANGED model /\ switchFailed' = TRUE
    ELSE UNCHANGED modelVars

(* Mutant: partial before failed.                                            *)
PlanCompletionStatusPartialFirst(c, p, ab, pa) ==
    CASE ab -> "aborted"
      [] ~ab /\ pa -> "paused"
      [] ~ab /\ ~pa /\ \E s \in Steps : c[s] = "none" /\ s \in DOMAIN p -> "partial"
      [] OTHER -> "success"

(* planCompletionStatus                                                      *)
PlanCompletionStatus(c, p, ab, pa) ==
    CASE ab -> "aborted"
      [] ~ab /\ pa -> "paused"
      [] ~ab /\ ~pa /\ (\E s \in Steps : c[s] = "err") -> "failed"
      [] ~ab /\ ~pa /\ (\A s \in Steps : c[s] # "err") ->
            IF Cardinality({s \in Steps : c[s] # "none"}) < Cardinality(DOMAIN p)
            THEN "partial" ELSE "success"

-----------------------------------------------------------------------------
(* The context is cancelled by the caller, at any time.                      *)
Cancel ==
    /\ ctx = "live" /\ pc # "done"
    /\ ctx' = "cancelled"
    /\ UNCHANGED <<cfg, pc, graphVars, resultVars, stepVars, flagVars, modelVars>>

(* runPlanned up to the loop: switch to the planning model, plan, store the  *)
(* plan on the blackboard, switch to the execution model.                    *)
MakePlan(p) ==
    /\ pc = "plan"
    /\ plan' = p /\ bbPlan' = p
    /\ model' = IF cfg.execModel THEN "exec" ELSE IF cfg.planModel THEN "plan" ELSE model
    /\ pc' = "loop"
    /\ UNCHANGED <<cfg, ctx, replanPlan, carried, replans, resultVars, stepVars,
                   flagVars, switchFailed>>

(* One of these switches, or planning, fails: Execute returns an error.      *)
PlanFails ==
    /\ pc = "plan"
    /\ \/ UNCHANGED <<model, bbPlan>>
       \/ cfg.planModel /\ model' = "plan" /\ UNCHANGED bbPlan
       \/ cfg.execModel /\ (\E p \in Plans : bbPlan' = p)
             /\ model' = IF cfg.planModel THEN "plan" ELSE model
    /\ status' = "error"
    /\ pc' = "done"
    /\ UNCHANGED <<cfg, ctx, plan, replanPlan, carried, replans, resultVars, stepVars,
                   aborted, paused, switchFailed>>

(* The loop head: for ctx.Err() == nil, and no ready step ends it as well.   *)
WaveStart ==
    /\ pc = "loop" /\ ctx = "live"
    /\ FindReadySteps(plan, completed) # {}
    /\ wave' = FindReadySteps(plan, completed)
    /\ pc' = "wave"
    /\ UNCHANGED <<cfg, ctx, graphVars, resultVars, cur, attempt, runLive, flagVars, modelVars>>

LoopEnd ==
    /\ pc = "loop"
    /\ ctx = "cancelled" \/ FindReadySteps(plan, completed) = {}
    /\ pc' = "end"
    /\ UNCHANGED <<cfg, ctx, graphVars, resultVars, stepVars, flagVars, modelVars>>

(* runStep for the next ready step; the context is not looked at here.       *)
StepStart(s) ==
    /\ pc = "wave" /\ s \in wave
    /\ wave' = wave \ {s}
    /\ cur' = s /\ attempt' = 1
    /\ runLive' = (ctx = "live")
    /\ pc' = "run"
    /\ UNCHANGED <<cfg, ctx, graphVars, resultVars, flagVars, modelVars>>

WaveEnd ==
    /\ pc = "wave" /\ wave = {}
    /\ pc' = "loop"
    /\ UNCHANGED <<cfg, ctx, graphVars, resultVars, stepVars, flagVars, modelVars>>

-----------------------------------------------------------------------------
(* runStep: one attempt is one conductor.Run                                 *)

(* runStep has recorded cur as failed and returns to the wave.               *)
RecordFailure ==
    /\ completed' = [completed EXCEPT ![cur] = "err"]
    /\ pc' = "wave"
    /\ UNCHANGED <<cfg, ctx, graphVars, bbResult, stepVars, flagVars, modelVars>>

NextAttempt ==
    /\ attempt' = attempt + 1
    /\ runLive' = (ctx = "live")
    /\ pc' = "run"

RunSuccess ==
    /\ pc = "run" /\ runLive
    /\ completed' = [completed EXCEPT ![cur] = "ok"]
    /\ bbResult' = [bbResult EXCEPT ![cur] = "ok"]
    /\ pc' = "wave"
    /\ UNCHANGED <<cfg, ctx, graphVars, lateFailures, stepVars, flagVars, modelVars>>

(* A cooperative pause stops the DAG; the trajectory goes to the blackboard. *)
RunPaused ==
    /\ pc = "run" /\ runLive
    /\ bbResult' = [bbResult EXCEPT ![cur] = "paused"]
    /\ paused' = TRUE
    /\ pc' = "end"
    /\ UNCHANGED <<cfg, ctx, graphVars, completed, lateFailures, stepVars, aborted,
                   status, modelVars>>

(* A failed attempt under a cancelled context ends the attempts.             *)
FailCancelled ==
    /\ pc = "run" /\ ctx = "cancelled"
    /\ lateFailures' = IF runLive THEN lateFailures ELSE lateFailures \union {cur}
    /\ RecordFailure

(* The last attempt is not reflected on.                                     *)
FailExhausted ==
    /\ pc = "run" /\ ctx = "live" /\ attempt > MaxRetries
    /\ UNCHANGED lateFailures
    /\ RecordFailure

FailRetry ==
    /\ pc = "run" /\ ctx = "live" /\ attempt <= MaxRetries /\ ~cfg.reflector
    /\ NextAttempt
    /\ UNCHANGED <<cfg, ctx, graphVars, resultVars, wave, cur, flagVars, modelVars>>

FailReflect ==
    /\ pc = "run" /\ ctx = "live" /\ attempt <= MaxRetries /\ cfg.reflector
    /\ SwitchMidLoop("plan")
    /\ pc' = "reflect"
    /\ UNCHANGED <<cfg, ctx, graphVars, resultVars, stepVars, flagVars>>

(* Mutant: a failed replan retries without restoring the execution model.    *)
ReflectRetryNoRestore ==
    /\ pc = "reflect"
    /\ NextAttempt
    /\ UNCHANGED <<cfg, ctx, graphVars, resultVars, wave, cur, flagVars, modelVars>>

(* The reflection failed, suggests a retry, or suggests a replan that        *)
(* failed: back to the execution model for the next attempt.                 *)
ReflectRetry ==
    /\ pc = "reflect"
    /\ SwitchMidLoop("exec")
    /\ NextAttempt
    /\ UNCHANGED <<cfg, ctx, graphVars, resultVars, wave, cur, flagVars>>

ReflectAbort ==
    /\ pc = "reflect"
    /\ SwitchMidLoop("exec")
    /\ aborted' = TRUE
    /\ completed' = [completed EXCEPT ![cur] = "err"]
    /\ pc' = "end"
    /\ UNCHANGED <<cfg, ctx, graphVars, bbResult, lateFailures, stepVars, paused, status>>

ReflectReplan(p) ==
    /\ pc = "reflect"
    /\ SwitchMidLoop("exec")
    /\ replanPlan' = p
    /\ pc' = "replan"
    /\ UNCHANGED <<cfg, ctx, plan, bbPlan, carried, replans, resultVars, stepVars, flagVars>>

-----------------------------------------------------------------------------
(* runPlanned: a proposed plan ends the wave                                 *)

ReplanRefused ==
    /\ pc = "replan" /\ replans >= MaxReplans
    /\ pc' = "end"
    /\ UNCHANGED <<cfg, ctx, graphVars, resultVars, stepVars, flagVars, modelVars>>

(* Mutants: the budget is not counted; the budget is off by one.             *)
ReplanAdoptUncounted ==
    /\ pc = "replan" /\ replans < MaxReplans
    /\ plan' = replanPlan
    /\ carried' = Candidates(completed, bbPlan, replanPlan)
    /\ pc' = "carry"
    /\ UNCHANGED <<cfg, ctx, bbPlan, replanPlan, replans, resultVars, stepVars, flagVars,
                   modelVars>>

ReplanAdoptOverBudget ==
    /\ pc = "replan" /\ replans <= MaxReplans
    /\ replans' = replans + 1
    /\ plan' = replanPlan
    /\ carried' = Candidates(completed, bbPlan, replanPlan)
    /\ pc' = "carry"
    /\ UNCHANGED <<cfg, ctx, bbPlan, replanPlan, resultVars, stepVars, flagVars, modelVars>>

(* Adopt the plan: phase 1 of BuildCarryForward, against the old plan still  *)
(* on the blackboard ...                                                     *)
ReplanAdopt ==
    /\ pc = "replan" /\ replans < MaxReplans
    /\ replans' = replans + 1
    /\ plan' = replanPlan
    /\ carried' = Candidates(completed, bbPlan, replanPlan)
    /\ pc' = "carry"
    /\ UNCHANGED <<cfg, ctx, bbPlan, replanPlan, resultVars, stepVars, flagVars, modelVars>>

(* ... phase 2, one deletion ...                                             *)
CarryDelete(s) ==
    /\ pc = "carry" /\ s \in Stale(carried, plan)
    /\ carried' = carried \ {s}
    /\ UNCHANGED <<cfg, ctx, pc, plan, bbPlan, replanPlan, replans, resultVars, stepVars,
                   flagVars, modelVars>>

(* Mutant: phase 2 is left out.                                              *)
CarryDoneAtOnce ==
    /\ pc = "carry"
    /\ completed' = [s \in Steps |-> IF s \in carried THEN "ok" ELSE "none"]
    /\ bbPlan' = plan /\ replanPlan' = NoPlan
    /\ pc' = "loop"
    /\ UNCHANGED <<cfg, ctx, plan, carried, replans, bbResult, lateFailures, stepVars,
                   flagVars, modelVars>>

(* ... until nothing changes; then the carried steps are the completed ones  *)
(* and the new plan goes to the blackboard.                                  *)
CarryDone ==
    /\ pc = "carry" /\ Stale(carried, plan) = {}
    /\ completed' = [s \in Steps |-> IF s \in carried THEN "ok" ELSE "none"]
    /\ bbPlan' = plan /\ replanPlan' = NoPlan
    /\ pc' = "loop"
    /\ UNCHANGED <<cfg, ctx, plan, carried, replans, bbResult, lateFailures, stepVars,
                   flagVars, modelVars>>

(* Restore the planning model and derive the status.                         *)
Finish ==
    /\ pc = "end"
    /\ SwitchMidLoop("plan")
    /\ status' = PlanCompletionStatus(completed, plan, aborted, paused)
    /\ pc' = "done"
    /\ UNCHANGED <<cfg, ctx, graphVars, resultVars, stepVars, aborted, paused>>

Done == pc = "done" /\ UNCHANGED vars

RunNext ==
    \/ RunSuccess \/ RunPaused
    \/ FailCancelled \/ FailExhausted \/ FailRetry \/ FailReflect
    \/ ReflectRetry \/ ReflectAbort \/ (\E p \in Plans : ReflectReplan(p))

PlanNext ==
    \/ (\E p \in Plans : MakePlan(p)) \/ PlanFails
    \/ WaveStart \/ LoopEnd \/ (\E s \in Steps : StepStart(s)) \/ WaveEnd
    \/ ReplanRefused \/ ReplanAdopt \/ (\E s \in Steps : CarryDelete(s)) \/ CarryDone
    \/ Finish

Next == Cancel \/ PlanNext \/ RunNext \/ Done

Spec == Init /\ [][Next]_vars

(* The calls made here return: conductor.Run is bounded by its step limit    *)
(* and the LLM calls by their timeouts.  Nothing is assumed of Cancel.       *)
FairSpec == Spec /\ WF_vars(PlanNext \/ RunNext)

-----------------------------------------------------------------------------
(* Properties                                                                *)

(* A step runs only when all its dependencies in the current plan have       *)
(* succeeded, after any number of replans and carried-forward results        *)
(* (FindReadySteps, runPlanned).                                             *)
DependenciesDone ==
    pc \in {"run", "reflect"} => \A d \in plan[cur] : completed[d] = "ok"

(* A step counts as successful only while everything it depends on does:     *)
(* BuildCarryForward never keeps the output of a step below one that will be *)
(* executed again, and no later failure undermines a success.                *)
CompletedClosed ==
    pc \notin {"plan", "carry", "done"} =>
        \A s \in DOMAIN plan : completed[s] = "ok" => \A d \in plan[s] : completed[d] = "ok"

(* The successful steps of the old plan that can be kept: the largest set    *)
(* that holds the in-plan dependencies of each of its members.               *)
Keepable ==
    UNION {C \in SUBSET Candidates(completed, bbPlan, plan) :
              \A s \in C : plan[s] \intersect DOMAIN plan \subseteq C}

(* Replanning throws no work away needlessly: however BuildCarryForward's    *)
(* loop orders its deletions, it keeps every step that could be kept.        *)
CarriedMaximal == pc = "carry" => Keepable \subseteq carried

(* success is reported only if every step of the final plan succeeded and    *)
(* has its result on the blackboard.                                         *)
SuccessMeansAllDone ==
    status = "success" =>
        \A s \in DOMAIN plan : completed[s] = "ok" /\ bbResult[s] = "ok"

(* With both models configured and no failed switch, steps run on the        *)
(* execution model, reflection on the planning model, and the router is left *)
(* on the planning model, whichever way runStep was left.                    *)
ModelDiscipline ==
    Switching /\ ~switchFailed =>
        /\ pc = "run" => model = "exec"
        /\ pc = "reflect" => model = "plan"
        /\ pc = "done" /\ status # "error" => model = "plan"

(* Execution ends: retries and replans are bounded, so a step that fails     *)
(* deterministically cannot keep the loop alive.                             *)
Terminates == <>(pc = "done")

(* The comment of runPlanned's loop: its context check keeps a cancelled     *)
(* context from grinding "through every remaining ready step" and            *)
(* misreporting them as failures.                                            *)
CancelledNotMisreported == lateFailures = {}

(* Within the retry and replan budgets, completed work always fits the       *)
(* current plan: nothing runs before its dependencies, nothing is kept below *)
(* a step that will run again, and nothing that fits is thrown away          *)
(* (runPlanned, BuildCarryForward).                                          *)
PlanRespected ==
    /\ TypeOK
    /\ DependenciesDone
    /\ CompletedClosed
    /\ CarriedMaximal
=============================================================================
