-------------------------- MODULE PlanExecution_proofs --------------------------
(***************************************************************************)
(* Proofs about PlanExecution for every finite set of step IDs, every set    *)
(* of valid plans and every retry and replan budget.                         *)
(***************************************************************************)
EXTENDS PlanExecution, FiniteSetTheorems, TLAPS

Executing == pc \in {"loop", "wave", "run", "reflect", "replan", "carry", "end"}

(* The plans at hand are plans of the planner.                               *)
PlanInv ==
    /\ Executing => plan \in Plans /\ bbPlan \in Plans
    /\ pc \in {"replan", "carry"} => replanPlan \in Plans
    /\ pc = "reflect" => attempt <= MaxRetries
    /\ pc # "done" => status = "none"
    /\ pc = "plan" => \A s \in Steps : completed[s] = "none"

(* s could be returned by FindReadySteps now.                                *)
Ready(s) ==
    s \in DOMAIN plan /\ completed[s] = "none" /\ \A d \in plan[s] : completed[d] = "ok"

(* The wave was computed once, yet all of it stays ready while it is run.    *)
WaveInv ==
    /\ pc \in {"wave", "run", "reflect"} => \A s \in wave : Ready(s)
    /\ pc \in {"run", "reflect"} => Ready(cur) /\ cur \notin wave

(* What is completed belongs to the plan the blackboard holds, and a         *)
(* success has its result there.                                             *)
ResultInv ==
    Executing =>
        \A s \in Steps :
            /\ completed[s] # "none" => s \in DOMAIN bbPlan
            /\ completed[s] = "ok" => bbResult[s] = "ok"

(* Only an adopted plan that is not yet on the blackboard differs from it.   *)
AdoptInv == Executing /\ pc # "carry" => plan = bbPlan

CarryInv ==
    pc = "carry" => carried \subseteq Candidates(completed, bbPlan, plan)

IInv ==
    /\ TypeOK /\ PlanInv /\ WaveInv /\ ResultInv /\ AdoptInv /\ CarryInv
    /\ CompletedClosed /\ CarriedMaximal /\ SuccessMeansAllDone

(* A plan of the planner names only known steps, in its keys and its edges.  *)
LEMMA PlanFacts ==
    \A p \in Plans : /\ DOMAIN p \subseteq Steps
                     /\ \A s \in DOMAIN p : p[s] \subseteq DOMAIN p
  BY PlansAssumption DEF ValidPlan

(* Control: the attempt and replan counters stay within their budgets.        *)
LEMMA ControlStep ==
    ASSUME ControlType, PlanInv, [Next]_vars
    PROVE  ControlType'
<1> USE BudgetAssumption
<1>1. CASE Cancel
  BY <1>1
     DEF Cancel, ControlType, graphVars, resultVars, stepVars, flagVars, modelVars
<1>2. ASSUME NEW p \in Plans, MakePlan(p)
      PROVE  ControlType'
  BY <1>2
     DEF MakePlan, ControlType, graphVars, resultVars, stepVars, flagVars, modelVars
<1>3. CASE PlanFails
  BY <1>3
     DEF PlanFails, ControlType, graphVars, resultVars, stepVars, flagVars, modelVars
<1>4. CASE WaveStart
  BY <1>4
     DEF WaveStart, ControlType, graphVars, resultVars, stepVars, flagVars, modelVars
<1>5. CASE LoopEnd
  BY <1>5
     DEF LoopEnd, ControlType, graphVars, resultVars, stepVars, flagVars, modelVars
<1>6. ASSUME NEW s \in Steps, StepStart(s)
      PROVE  ControlType'
  BY <1>6
     DEF StepStart, ControlType, graphVars, resultVars, stepVars, flagVars, modelVars
<1>7. CASE WaveEnd
  BY <1>7
     DEF WaveEnd, ControlType, graphVars, resultVars, stepVars, flagVars, modelVars
<1>8. CASE ReplanRefused
  BY <1>8
     DEF ReplanRefused, ControlType, graphVars, resultVars, stepVars, flagVars, modelVars
<1>9. CASE ReplanAdopt
  BY <1>9
     DEF ReplanAdopt, ControlType, graphVars, resultVars, stepVars, flagVars, modelVars
<1>10. ASSUME NEW s \in Steps, CarryDelete(s)
      PROVE  ControlType'
  BY <1>10
     DEF CarryDelete, ControlType, graphVars, resultVars, stepVars, flagVars, modelVars
<1>11. CASE CarryDone
  BY <1>11
     DEF CarryDone, ControlType, graphVars, resultVars, stepVars, flagVars, modelVars
<1>12. CASE Finish
  BY <1>12
     DEF Finish, SwitchMidLoop, Switching, modelVars, PlanCompletionStatus, ControlType, graphVars, resultVars, stepVars, flagVars
<1>13. CASE RunSuccess
  BY <1>13
     DEF RunSuccess, ControlType, graphVars, resultVars, stepVars, flagVars, modelVars
<1>14. CASE RunPaused
  BY <1>14
     DEF RunPaused, ControlType, graphVars, resultVars, stepVars, flagVars, modelVars
<1>15. CASE FailCancelled
  BY <1>15
     DEF FailCancelled, RecordFailure, ControlType, graphVars, resultVars, stepVars, flagVars, modelVars
<1>16. CASE FailExhausted
  BY <1>16
     DEF FailExhausted, RecordFailure, ControlType, graphVars, resultVars, stepVars, flagVars, modelVars
<1>17. CASE FailRetry
  <2>1. attempt <= MaxRetries
    BY <1>17 DEF FailRetry, PlanInv
  <2> QED
    BY <1>17, <2>1 DEF FailRetry, NextAttempt, ControlType, flagVars, modelVars, graphVars
<1>18. CASE FailReflect
  BY <1>18
     DEF FailReflect, SwitchMidLoop, Switching, modelVars, ControlType, graphVars, resultVars, stepVars, flagVars
<1>19. CASE ReflectRetry
  <2>1. attempt <= MaxRetries
    BY <1>19 DEF ReflectRetry, PlanInv
  <2>2. model' \in {"default", "plan", "exec"} /\ switchFailed' \in BOOLEAN
    BY <1>19 DEF ReflectRetry, SwitchMidLoop, ControlType, modelVars
  <2> QED
    BY <1>19, <2>1, <2>2 DEF ReflectRetry, NextAttempt, ControlType, flagVars, graphVars
<1>20. CASE ReflectAbort
  BY <1>20
     DEF ReflectAbort, SwitchMidLoop, Switching, modelVars, ControlType, graphVars, resultVars, stepVars, flagVars
<1>21. ASSUME NEW p \in Plans, ReflectReplan(p)
      PROVE  ControlType'
  BY <1>21
     DEF ReflectReplan, SwitchMidLoop, Switching, modelVars, ControlType, graphVars, resultVars, stepVars, flagVars
<1>22. CASE UNCHANGED vars
  BY <1>22 DEF vars, ControlType
<1> QED
  BY <1>1, <1>2, <1>3, <1>4, <1>5, <1>6, <1>7, <1>8, <1>9, <1>10, <1>11, <1>12, <1>13, <1>14, <1>15, <1>16, <1>17, <1>18, <1>19, <1>20, <1>21, <1>22
     DEF Next, PlanNext, RunNext, Done

(* Data: results and waves are about known steps.                             *)
LEMMA DataStep ==
    ASSUME DataType, PlanInv, WaveInv, [Next]_vars
    PROVE  DataType'
<1> USE BudgetAssumption
<1>1. CASE Cancel
  BY <1>1
     DEF Cancel, DataType, NoPlan, graphVars, resultVars, stepVars, flagVars, modelVars
<1>2. ASSUME NEW p \in Plans, MakePlan(p)
      PROVE  DataType'
  BY <1>2
     DEF MakePlan, DataType, NoPlan, graphVars, resultVars, stepVars, flagVars, modelVars
<1>3. CASE PlanFails
  BY <1>3
     DEF PlanFails, DataType, NoPlan, graphVars, resultVars, stepVars, flagVars, modelVars
<1>4. CASE WaveStart
  <2>1. FindReadySteps(plan, completed) \subseteq Steps
    BY <1>4, PlanFacts DEF WaveStart, PlanInv, FindReadySteps, Executing
  <2> QED
    BY <1>4, <2>1 DEF WaveStart, DataType, NoPlan, graphVars, resultVars, stepVars
<1>5. CASE LoopEnd
  BY <1>5
     DEF LoopEnd, DataType, NoPlan, graphVars, resultVars, stepVars, flagVars, modelVars
<1>6. ASSUME NEW s \in Steps, StepStart(s)
      PROVE  DataType'
  BY <1>6
     DEF StepStart, DataType, NoPlan, graphVars, resultVars, stepVars, flagVars, modelVars
<1>7. CASE WaveEnd
  BY <1>7
     DEF WaveEnd, DataType, NoPlan, graphVars, resultVars, stepVars, flagVars, modelVars
<1>8. CASE ReplanRefused
  BY <1>8
     DEF ReplanRefused, DataType, NoPlan, graphVars, resultVars, stepVars, flagVars, modelVars
<1>9. CASE ReplanAdopt
  <2>1. replanPlan \in Plans /\ Candidates(completed, bbPlan, replanPlan) \subseteq Steps
    BY <1>9, PlanFacts DEF ReplanAdopt, PlanInv, Candidates, Executing
  <2> QED
    BY <1>9, <2>1 DEF ReplanAdopt, DataType, NoPlan, graphVars, resultVars, stepVars
<1>10. ASSUME NEW s \in Steps, CarryDelete(s)
      PROVE  DataType'
  BY <1>10
     DEF CarryDelete, DataType, NoPlan, graphVars, resultVars, stepVars, flagVars, modelVars
<1>11. CASE CarryDone
  BY <1>11
     DEF CarryDone, DataType, NoPlan, graphVars, resultVars, stepVars, flagVars, modelVars
<1>12. CASE Finish
  BY <1>12
     DEF Finish, SwitchMidLoop, Switching, modelVars, PlanCompletionStatus, DataType, NoPlan, graphVars, resultVars, stepVars, flagVars
<1>13. CASE RunSuccess
  <2>1. cur \in Steps
    BY <1>13, PlanFacts DEF RunSuccess, PlanInv, WaveInv, Ready, Executing
  <2> QED
    BY <1>13, <2>1 DEF RunSuccess, DataType, NoPlan, graphVars, resultVars, stepVars
<1>14. CASE RunPaused
  <2>1. cur \in Steps
    BY <1>14, PlanFacts DEF RunPaused, PlanInv, WaveInv, Ready, Executing
  <2> QED
    BY <1>14, <2>1 DEF RunPaused, DataType, NoPlan, graphVars, resultVars, stepVars
<1>15. CASE FailCancelled
  <2>1. cur \in Steps
    BY <1>15, PlanFacts DEF FailCancelled, PlanInv, WaveInv, Ready, Executing
  <2> QED
    BY <1>15, <2>1 DEF FailCancelled, RecordFailure, DataType, NoPlan, graphVars, resultVars, stepVars
<1>16. CASE FailExhausted
  <2>1. cur \in Steps
    BY <1>16, PlanFacts DEF FailExhausted, PlanInv, WaveInv, Ready, Executing
  <2> QED
    BY <1>16, <2>1 DEF FailExhausted, RecordFailure, DataType, NoPlan, graphVars, resultVars, stepVars
<1>17. CASE FailRetry
  BY <1>17
     DEF FailRetry, NextAttempt, DataType, NoPlan, graphVars, resultVars, stepVars, flagVars, modelVars
<1>18. CASE FailReflect
  BY <1>18
     DEF FailReflect, SwitchMidLoop, Switching, modelVars, DataType, NoPlan, graphVars, resultVars, stepVars, flagVars
<1>19. CASE ReflectRetry
  BY <1>19
     DEF ReflectRetry, NextAttempt, SwitchMidLoop, Switching, modelVars, DataType, NoPlan, graphVars, resultVars, stepVars, flagVars
<1>20. CASE ReflectAbort
  <2>1. cur \in Steps
    BY <1>20, PlanFacts DEF ReflectAbort, PlanInv, WaveInv, Ready, Executing
  <2> QED
    BY <1>20, <2>1 DEF ReflectAbort, DataType, NoPlan, graphVars, resultVars, stepVars
<1>21. ASSUME NEW p \in Plans, ReflectReplan(p)
      PROVE  DataType'
  BY <1>21
     DEF ReflectReplan, SwitchMidLoop, Switching, modelVars, DataType, NoPlan, graphVars, resultVars, stepVars, flagVars
<1>22. CASE UNCHANGED vars
  BY <1>22 DEF vars, DataType, NoPlan
<1> QED
  BY <1>1, <1>2, <1>3, <1>4, <1>5, <1>6, <1>7, <1>8, <1>9, <1>10, <1>11, <1>12, <1>13, <1>14, <1>15, <1>16, <1>17, <1>18, <1>19, <1>20, <1>21, <1>22
     DEF Next, PlanNext, RunNext, Done

(* Every step preserves the types.                                           *)
LEMMA TypeStep ==
    ASSUME TypeOK, PlanInv, WaveInv, [Next]_vars
    PROVE  TypeOK'
  BY ControlStep, DataStep DEF TypeOK


(* The plans at hand stay plans of the planner.                               *)
LEMMA PlanStep ==
    ASSUME TypeOK, PlanInv, [Next]_vars
    PROVE  PlanInv'
<1> USE BudgetAssumption
<1>1. CASE Cancel
  BY <1>1, PlanFacts
     DEF Cancel, TypeOK, ControlType, DataType, PlanInv, Executing, graphVars, resultVars, stepVars, flagVars, modelVars
<1>2. ASSUME NEW p \in Plans, MakePlan(p)
      PROVE  PlanInv'
  BY <1>2, PlanFacts
     DEF MakePlan, TypeOK, ControlType, DataType, PlanInv, Executing, graphVars, resultVars, stepVars, flagVars, modelVars
<1>3. CASE PlanFails
  BY <1>3, PlanFacts
     DEF PlanFails, TypeOK, ControlType, DataType, PlanInv, Executing, graphVars, resultVars, stepVars, flagVars, modelVars
<1>4. CASE WaveStart
  BY <1>4, PlanFacts
     DEF WaveStart, TypeOK, ControlType, DataType, PlanInv, Executing, graphVars, resultVars, stepVars, flagVars, modelVars
<1>5. CASE LoopEnd
  BY <1>5, PlanFacts
     DEF LoopEnd, TypeOK, ControlType, DataType, PlanInv, Executing, graphVars, resultVars, stepVars, flagVars, modelVars
<1>6. ASSUME NEW s \in Steps, StepStart(s)
      PROVE  PlanInv'
  BY <1>6, PlanFacts
     DEF StepStart, TypeOK, ControlType, DataType, PlanInv, Executing, graphVars, resultVars, stepVars, flagVars, modelVars
<1>7. CASE WaveEnd
  BY <1>7, PlanFacts
     DEF WaveEnd, TypeOK, ControlType, DataType, PlanInv, Executing, graphVars, resultVars, stepVars, flagVars, modelVars
<1>8. CASE ReplanRefused
  BY <1>8, PlanFacts
     DEF ReplanRefused, TypeOK, ControlType, DataType, PlanInv, Executing, graphVars, resultVars, stepVars, flagVars, modelVars
<1>9. CASE ReplanAdopt
  BY <1>9, PlanFacts
     DEF ReplanAdopt, TypeOK, ControlType, DataType, PlanInv, Executing, graphVars, resultVars, stepVars, flagVars, modelVars
<1>10. ASSUME NEW s \in Steps, CarryDelete(s)
      PROVE  PlanInv'
  BY <1>10, PlanFacts
     DEF CarryDelete, TypeOK, ControlType, DataType, PlanInv, Executing, graphVars, resultVars, stepVars, flagVars, modelVars
<1>11. CASE CarryDone
  BY <1>11, PlanFacts
     DEF CarryDone, TypeOK, ControlType, DataType, PlanInv, Executing, graphVars, resultVars, stepVars, flagVars, modelVars
<1>12. CASE Finish
  BY <1>12, PlanFacts
     DEF Finish, SwitchMidLoop, Switching, modelVars, PlanCompletionStatus, TypeOK, ControlType, DataType, PlanInv, Executing, graphVars, resultVars, stepVars, flagVars
<1>13. CASE RunSuccess
  BY <1>13, PlanFacts
     DEF RunSuccess, TypeOK, ControlType, DataType, PlanInv, Executing, graphVars, resultVars, stepVars, flagVars, modelVars
<1>14. CASE RunPaused
  BY <1>14, PlanFacts
     DEF RunPaused, TypeOK, ControlType, DataType, PlanInv, Executing, graphVars, resultVars, stepVars, flagVars, modelVars
<1>15. CASE FailCancelled
  BY <1>15, PlanFacts
     DEF FailCancelled, RecordFailure, TypeOK, ControlType, DataType, PlanInv, Executing, graphVars, resultVars, stepVars, flagVars, modelVars
<1>16. CASE FailExhausted
  BY <1>16, PlanFacts
     DEF FailExhausted, RecordFailure, TypeOK, ControlType, DataType, PlanInv, Executing, graphVars, resultVars, stepVars, flagVars, modelVars
<1>17. CASE FailRetry
  BY <1>17, PlanFacts
     DEF FailRetry, NextAttempt, TypeOK, ControlType, DataType, PlanInv, Executing, graphVars, resultVars, stepVars, flagVars, modelVars
<1>18. CASE FailReflect
  BY <1>18, PlanFacts
     DEF FailReflect, SwitchMidLoop, Switching, modelVars, TypeOK, ControlType, DataType, PlanInv, Executing, graphVars, resultVars, stepVars, flagVars
<1>19. CASE ReflectRetry
  BY <1>19, PlanFacts
     DEF ReflectRetry, NextAttempt, SwitchMidLoop, Switching, modelVars, TypeOK, ControlType, DataType, PlanInv, Executing, graphVars, resultVars, stepVars, flagVars
<1>20. CASE ReflectAbort
  BY <1>20, PlanFacts
     DEF ReflectAbort, SwitchMidLoop, Switching, modelVars, TypeOK, ControlType, DataType, PlanInv, Executing, graphVars, resultVars, stepVars, flagVars
<1>21. ASSUME NEW p \in Plans, ReflectReplan(p)
      PROVE  PlanInv'
  BY <1>21, PlanFacts
     DEF ReflectReplan, SwitchMidLoop, Switching, modelVars, TypeOK, ControlType, DataType, PlanInv, Executing, graphVars, resultVars, stepVars, flagVars
<1>22. CASE UNCHANGED vars
  BY <1>22 DEF vars, TypeOK, ControlType, DataType, PlanInv, Executing
<1> QED
  BY <1>1, <1>2, <1>3, <1>4, <1>5, <1>6, <1>7, <1>8, <1>9, <1>10, <1>11, <1>12, <1>13, <1>14, <1>15, <1>16, <1>17, <1>18, <1>19, <1>20, <1>21, <1>22
     DEF Next, PlanNext, RunNext, Done

(* Running one step of a wave leaves the others ready.                        *)
LEMMA WaveStep ==
    ASSUME TypeOK, PlanInv, WaveInv, [Next]_vars
    PROVE  WaveInv'
<1> USE BudgetAssumption
<1>1. CASE Cancel
  BY <1>1, PlanFacts
     DEF Cancel, TypeOK, ControlType, DataType, PlanInv, WaveInv, Ready, Executing, FindReadySteps, graphVars, resultVars, stepVars, flagVars, modelVars
<1>2. ASSUME NEW p \in Plans, MakePlan(p)
      PROVE  WaveInv'
  BY <1>2, PlanFacts
     DEF MakePlan, TypeOK, ControlType, DataType, PlanInv, WaveInv, Ready, Executing, FindReadySteps, graphVars, resultVars, stepVars, flagVars, modelVars
<1>3. CASE PlanFails
  BY <1>3, PlanFacts
     DEF PlanFails, TypeOK, ControlType, DataType, PlanInv, WaveInv, Ready, Executing, FindReadySteps, graphVars, resultVars, stepVars, flagVars, modelVars
<1>4. CASE WaveStart
  BY <1>4, PlanFacts
     DEF WaveStart, TypeOK, ControlType, DataType, PlanInv, WaveInv, Ready, Executing, FindReadySteps, graphVars, resultVars, stepVars, flagVars, modelVars
<1>5. CASE LoopEnd
  BY <1>5, PlanFacts
     DEF LoopEnd, TypeOK, ControlType, DataType, PlanInv, WaveInv, Ready, Executing, FindReadySteps, graphVars, resultVars, stepVars, flagVars, modelVars
<1>6. ASSUME NEW s \in Steps, StepStart(s)
      PROVE  WaveInv'
  BY <1>6, PlanFacts
     DEF StepStart, TypeOK, ControlType, DataType, PlanInv, WaveInv, Ready, Executing, FindReadySteps, graphVars, resultVars, stepVars, flagVars, modelVars
<1>7. CASE WaveEnd
  BY <1>7, PlanFacts
     DEF WaveEnd, TypeOK, ControlType, DataType, PlanInv, WaveInv, Ready, Executing, FindReadySteps, graphVars, resultVars, stepVars, flagVars, modelVars
<1>8. CASE ReplanRefused
  BY <1>8, PlanFacts
     DEF ReplanRefused, TypeOK, ControlType, DataType, PlanInv, WaveInv, Ready, Executing, FindReadySteps, graphVars, resultVars, stepVars, flagVars, modelVars
<1>9. CASE ReplanAdopt
  BY <1>9, PlanFacts
     DEF ReplanAdopt, TypeOK, ControlType, DataType, PlanInv, WaveInv, Ready, Executing, FindReadySteps, graphVars, resultVars, stepVars, flagVars, modelVars
<1>10. ASSUME NEW s \in Steps, CarryDelete(s)
      PROVE  WaveInv'
  BY <1>10, PlanFacts
     DEF CarryDelete, TypeOK, ControlType, DataType, PlanInv, WaveInv, Ready, Executing, FindReadySteps, graphVars, resultVars, stepVars, flagVars, modelVars
<1>11. CASE CarryDone
  BY <1>11, PlanFacts
     DEF CarryDone, TypeOK, ControlType, DataType, PlanInv, WaveInv, Ready, Executing, FindReadySteps, graphVars, resultVars, stepVars, flagVars, modelVars
<1>12. CASE Finish
  BY <1>12, PlanFacts
     DEF Finish, SwitchMidLoop, Switching, modelVars, PlanCompletionStatus, TypeOK, ControlType, DataType, PlanInv, WaveInv, Ready, Executing, FindReadySteps, graphVars, resultVars, stepVars, flagVars
<1>13. CASE RunSuccess
  BY <1>13, PlanFacts, ZenonT(60)
     DEF RunSuccess, TypeOK, ControlType, DataType, PlanInv, WaveInv, Ready, Executing, FindReadySteps, graphVars, resultVars, stepVars, flagVars, modelVars
<1>14. CASE RunPaused
  BY <1>14, PlanFacts
     DEF RunPaused, TypeOK, ControlType, DataType, PlanInv, WaveInv, Ready, Executing, FindReadySteps, graphVars, resultVars, stepVars, flagVars, modelVars
<1>15. CASE FailCancelled
  BY <1>15, PlanFacts, ZenonT(60)
     DEF FailCancelled, RecordFailure, TypeOK, ControlType, DataType, PlanInv, WaveInv, Ready, Executing, FindReadySteps, graphVars, resultVars, stepVars, flagVars, modelVars
<1>16. CASE FailExhausted
  BY <1>16, PlanFacts, ZenonT(60)
     DEF FailExhausted, RecordFailure, TypeOK, ControlType, DataType, PlanInv, WaveInv, Ready, Executing, FindReadySteps, graphVars, resultVars, stepVars, flagVars, modelVars
<1>17. CASE FailRetry
  BY <1>17, PlanFacts
     DEF FailRetry, NextAttempt, TypeOK, ControlType, DataType, PlanInv, WaveInv, Ready, Executing, FindReadySteps, graphVars, resultVars, stepVars, flagVars, modelVars
<1>18. CASE FailReflect
  BY <1>18, PlanFacts
     DEF FailReflect, SwitchMidLoop, Switching, modelVars, TypeOK, ControlType, DataType, PlanInv, WaveInv, Ready, Executing, FindReadySteps, graphVars, resultVars, stepVars, flagVars
<1>19. CASE ReflectRetry
  BY <1>19, PlanFacts
     DEF ReflectRetry, NextAttempt, SwitchMidLoop, Switching, modelVars, TypeOK, ControlType, DataType, PlanInv, WaveInv, Ready, Executing, FindReadySteps, graphVars, resultVars, stepVars, flagVars
<1>20. CASE ReflectAbort
  BY <1>20, PlanFacts
     DEF ReflectAbort, SwitchMidLoop, Switching, modelVars, TypeOK, ControlType, DataType, PlanInv, WaveInv, Ready, Executing, FindReadySteps, graphVars, resultVars, stepVars, flagVars
<1>21. ASSUME NEW p \in Plans, ReflectReplan(p)
      PROVE  WaveInv'
  BY <1>21, PlanFacts
     DEF ReflectReplan, SwitchMidLoop, Switching, modelVars, TypeOK, ControlType, DataType, PlanInv, WaveInv, Ready, Executing, FindReadySteps, graphVars, resultVars, stepVars, flagVars
<1>22. CASE UNCHANGED vars
  BY <1>22 DEF vars, TypeOK, ControlType, DataType, PlanInv, WaveInv, Ready, Executing, FindReadySteps
<1> QED
  BY <1>1, <1>2, <1>3, <1>4, <1>5, <1>6, <1>7, <1>8, <1>9, <1>10, <1>11, <1>12, <1>13, <1>14, <1>15, <1>16, <1>17, <1>18, <1>19, <1>20, <1>21, <1>22
     DEF Next, PlanNext, RunNext, Done

(* Results stay within the plan on the blackboard.                            *)
LEMMA ResultStep ==
    ASSUME TypeOK, PlanInv, WaveInv, ResultInv, AdoptInv, CarryInv, [Next]_vars
    PROVE  ResultInv' /\ AdoptInv'
<1> USE BudgetAssumption
<1>1. CASE Cancel
  BY <1>1, PlanFacts
     DEF Cancel, TypeOK, ControlType, DataType, PlanInv, WaveInv, Ready, ResultInv, AdoptInv, CarryInv, Candidates, Executing, graphVars, resultVars, stepVars, flagVars, modelVars
<1>2. ASSUME NEW p \in Plans, MakePlan(p)
      PROVE  ResultInv' /\ AdoptInv'
  BY <1>2, PlanFacts
     DEF MakePlan, TypeOK, ControlType, DataType, PlanInv, WaveInv, Ready, ResultInv, AdoptInv, CarryInv, Candidates, Executing, graphVars, resultVars, stepVars, flagVars, modelVars
<1>3. CASE PlanFails
  BY <1>3, PlanFacts
     DEF PlanFails, TypeOK, ControlType, DataType, PlanInv, WaveInv, Ready, ResultInv, AdoptInv, CarryInv, Candidates, Executing, graphVars, resultVars, stepVars, flagVars, modelVars
<1>4. CASE WaveStart
  BY <1>4, PlanFacts
     DEF WaveStart, TypeOK, ControlType, DataType, PlanInv, WaveInv, Ready, ResultInv, AdoptInv, CarryInv, Candidates, Executing, graphVars, resultVars, stepVars, flagVars, modelVars
<1>5. CASE LoopEnd
  BY <1>5, PlanFacts
     DEF LoopEnd, TypeOK, ControlType, DataType, PlanInv, WaveInv, Ready, ResultInv, AdoptInv, CarryInv, Candidates, Executing, graphVars, resultVars, stepVars, flagVars, modelVars
<1>6. ASSUME NEW s \in Steps, StepStart(s)
      PROVE  ResultInv' /\ AdoptInv'
  BY <1>6, PlanFacts
     DEF StepStart, TypeOK, ControlType, DataType, PlanInv, WaveInv, Ready, ResultInv, AdoptInv, CarryInv, Candidates, Executing, graphVars, resultVars, stepVars, flagVars, modelVars
<1>7. CASE WaveEnd
  BY <1>7, PlanFacts
     DEF WaveEnd, TypeOK, ControlType, DataType, PlanInv, WaveInv, Ready, ResultInv, AdoptInv, CarryInv, Candidates, Executing, graphVars, resultVars, stepVars, flagVars, modelVars
<1>8. CASE ReplanRefused
  BY <1>8, PlanFacts
     DEF ReplanRefused, TypeOK, ControlType, DataType, PlanInv, WaveInv, Ready, ResultInv, AdoptInv, CarryInv, Candidates, Executing, graphVars, resultVars, stepVars, flagVars, modelVars
<1>9. CASE ReplanAdopt
  BY <1>9, PlanFacts
     DEF ReplanAdopt, TypeOK, ControlType, DataType, PlanInv, WaveInv, Ready, ResultInv, AdoptInv, CarryInv, Candidates, Executing, graphVars, resultVars, stepVars, flagVars, modelVars
<1>10. ASSUME NEW s \in Steps, CarryDelete(s)
      PROVE  ResultInv' /\ AdoptInv'
  BY <1>10, PlanFacts
     DEF CarryDelete, TypeOK, ControlType, DataType, PlanInv, WaveInv, Ready, ResultInv, AdoptInv, CarryInv, Candidates, Executing, graphVars, resultVars, stepVars, flagVars, modelVars
<1>11. CASE CarryDone
  BY <1>11, PlanFacts
     DEF CarryDone, TypeOK, ControlType, DataType, PlanInv, WaveInv, Ready, ResultInv, AdoptInv, CarryInv, Candidates, Executing, graphVars, resultVars, stepVars, flagVars, modelVars
<1>12. CASE Finish
  BY <1>12, PlanFacts
     DEF Finish, SwitchMidLoop, Switching, modelVars, PlanCompletionStatus, TypeOK, ControlType, DataType, PlanInv, WaveInv, Ready, ResultInv, AdoptInv, CarryInv, Candidates, Executing, graphVars, resultVars, stepVars, flagVars
<1>13. CASE RunSuccess
  <2>1. cur \in DOMAIN bbPlan /\ cur \in Steps /\ completed[cur] = "none" /\ Executing
    BY <1>13, PlanFacts DEF RunSuccess, PlanInv, WaveInv, Ready, AdoptInv, Executing
  <2>2. AdoptInv'
    BY <1>13, <2>1 DEF RunSuccess, AdoptInv, Executing, graphVars
  <2>3. ResultInv'
    BY <1>13, <2>1 DEF RunSuccess, ResultInv, DataType, TypeOK, graphVars
  <2> QED
    BY <2>2, <2>3
<1>14. CASE RunPaused
  BY <1>14, PlanFacts
     DEF RunPaused, TypeOK, ControlType, DataType, PlanInv, WaveInv, Ready, ResultInv, AdoptInv, CarryInv, Candidates, Executing, graphVars, resultVars, stepVars, flagVars, modelVars
<1>15. CASE FailCancelled
  <2>1. cur \in DOMAIN bbPlan /\ cur \in Steps /\ completed[cur] = "none" /\ Executing
    BY <1>15, PlanFacts DEF FailCancelled, PlanInv, WaveInv, Ready, AdoptInv, Executing
  <2>2. AdoptInv'
    BY <1>15, <2>1 DEF FailCancelled, RecordFailure, AdoptInv, Executing, graphVars
  <2>3. ResultInv'
    BY <1>15, <2>1 DEF FailCancelled, RecordFailure, ResultInv, DataType, TypeOK, graphVars
  <2> QED
    BY <2>2, <2>3
<1>16. CASE FailExhausted
  <2>1. cur \in DOMAIN bbPlan /\ cur \in Steps /\ completed[cur] = "none" /\ Executing
    BY <1>16, PlanFacts DEF FailExhausted, PlanInv, WaveInv, Ready, AdoptInv, Executing
  <2>2. AdoptInv'
    BY <1>16, <2>1 DEF FailExhausted, RecordFailure, AdoptInv, Executing, graphVars
  <2>3. ResultInv'
    BY <1>16, <2>1 DEF FailExhausted, RecordFailure, ResultInv, DataType, TypeOK, graphVars
  <2> QED
    BY <2>2, <2>3
<1>17. CASE FailRetry
  BY <1>17, PlanFacts
     DEF FailRetry, NextAttempt, TypeOK, ControlType, DataType, PlanInv, WaveInv, Ready, ResultInv, AdoptInv, CarryInv, Candidates, Executing, graphVars, resultVars, stepVars, flagVars, modelVars
<1>18. CASE FailReflect
  BY <1>18, PlanFacts
     DEF FailReflect, SwitchMidLoop, Switching, modelVars, TypeOK, ControlType, DataType, PlanInv, WaveInv, Ready, ResultInv, AdoptInv, CarryInv, Candidates, Executing, graphVars, resultVars, stepVars, flagVars
<1>19. CASE ReflectRetry
  BY <1>19, PlanFacts
     DEF ReflectRetry, NextAttempt, SwitchMidLoop, Switching, modelVars, TypeOK, ControlType, DataType, PlanInv, WaveInv, Ready, ResultInv, AdoptInv, CarryInv, Candidates, Executing, graphVars, resultVars, stepVars, flagVars
<1>20. CASE ReflectAbort
  <2>1. cur \in DOMAIN bbPlan /\ cur \in Steps /\ completed[cur] = "none" /\ Executing
    BY <1>20, PlanFacts DEF ReflectAbort, PlanInv, WaveInv, Ready, AdoptInv, Executing
  <2>2. AdoptInv'
    BY <1>20, <2>1 DEF ReflectAbort, AdoptInv, Executing, graphVars
  <2>3. ResultInv'
    BY <1>20, <2>1 DEF ReflectAbort, ResultInv, DataType, TypeOK, graphVars
  <2> QED
    BY <2>2, <2>3
<1>21. ASSUME NEW p \in Plans, ReflectReplan(p)
      PROVE  ResultInv' /\ AdoptInv'
  BY <1>21, PlanFacts
     DEF ReflectReplan, SwitchMidLoop, Switching, modelVars, TypeOK, ControlType, DataType, PlanInv, WaveInv, Ready, ResultInv, AdoptInv, CarryInv, Candidates, Executing, graphVars, resultVars, stepVars, flagVars
<1>22. CASE UNCHANGED vars
  BY <1>22 DEF vars, TypeOK, ControlType, DataType, PlanInv, WaveInv, Ready, ResultInv, AdoptInv, CarryInv, Candidates, Executing
<1> QED
  BY <1>1, <1>2, <1>3, <1>4, <1>5, <1>6, <1>7, <1>8, <1>9, <1>10, <1>11, <1>12, <1>13, <1>14, <1>15, <1>16, <1>17, <1>18, <1>19, <1>20, <1>21, <1>22
     DEF Next, PlanNext, RunNext, Done

(* Phase 2 only deletes.                                                      *)
LEMMA CarryStep ==
    ASSUME TypeOK, PlanInv, AdoptInv, CarryInv, [Next]_vars
    PROVE  CarryInv'
<1> USE BudgetAssumption
<1>1. CASE Cancel
  BY <1>1, PlanFacts
     DEF Cancel, TypeOK, ControlType, DataType, PlanInv, AdoptInv, CarryInv, Candidates, Executing, graphVars, resultVars, stepVars, flagVars, modelVars
<1>2. ASSUME NEW p \in Plans, MakePlan(p)
      PROVE  CarryInv'
  BY <1>2, PlanFacts
     DEF MakePlan, TypeOK, ControlType, DataType, PlanInv, AdoptInv, CarryInv, Candidates, Executing, graphVars, resultVars, stepVars, flagVars, modelVars
<1>3. CASE PlanFails
  BY <1>3, PlanFacts
     DEF PlanFails, TypeOK, ControlType, DataType, PlanInv, AdoptInv, CarryInv, Candidates, Executing, graphVars, resultVars, stepVars, flagVars, modelVars
<1>4. CASE WaveStart
  BY <1>4, PlanFacts
     DEF WaveStart, TypeOK, ControlType, DataType, PlanInv, AdoptInv, CarryInv, Candidates, Executing, graphVars, resultVars, stepVars, flagVars, modelVars
<1>5. CASE LoopEnd
  BY <1>5, PlanFacts
     DEF LoopEnd, TypeOK, ControlType, DataType, PlanInv, AdoptInv, CarryInv, Candidates, Executing, graphVars, resultVars, stepVars, flagVars, modelVars
<1>6. ASSUME NEW s \in Steps, StepStart(s)
      PROVE  CarryInv'
  BY <1>6, PlanFacts
     DEF StepStart, TypeOK, ControlType, DataType, PlanInv, AdoptInv, CarryInv, Candidates, Executing, graphVars, resultVars, stepVars, flagVars, modelVars
<1>7. CASE WaveEnd
  BY <1>7, PlanFacts
     DEF WaveEnd, TypeOK, ControlType, DataType, PlanInv, AdoptInv, CarryInv, Candidates, Executing, graphVars, resultVars, stepVars, flagVars, modelVars
<1>8. CASE ReplanRefused
  BY <1>8, PlanFacts
     DEF ReplanRefused, TypeOK, ControlType, DataType, PlanInv, AdoptInv, CarryInv, Candidates, Executing, graphVars, resultVars, stepVars, flagVars, modelVars
<1>9. CASE ReplanAdopt
  BY <1>9, PlanFacts
     DEF ReplanAdopt, TypeOK, ControlType, DataType, PlanInv, AdoptInv, CarryInv, Candidates, Executing, graphVars, resultVars, stepVars, flagVars, modelVars
<1>10. ASSUME NEW s \in Steps, CarryDelete(s)
      PROVE  CarryInv'
  BY <1>10, PlanFacts
     DEF CarryDelete, TypeOK, ControlType, DataType, PlanInv, AdoptInv, CarryInv, Candidates, Executing, graphVars, resultVars, stepVars, flagVars, modelVars
<1>11. CASE CarryDone
  BY <1>11, PlanFacts
     DEF CarryDone, TypeOK, ControlType, DataType, PlanInv, AdoptInv, CarryInv, Candidates, Executing, graphVars, resultVars, stepVars, flagVars, modelVars
<1>12. CASE Finish
  BY <1>12, PlanFacts
     DEF Finish, SwitchMidLoop, Switching, modelVars, PlanCompletionStatus, TypeOK, ControlType, DataType, PlanInv, AdoptInv, CarryInv, Candidates, Executing, graphVars, resultVars, stepVars, flagVars
<1>13. CASE RunSuccess
  BY <1>13, PlanFacts
     DEF RunSuccess, TypeOK, ControlType, DataType, PlanInv, AdoptInv, CarryInv, Candidates, Executing, graphVars, resultVars, stepVars, flagVars, modelVars
<1>14. CASE RunPaused
  BY <1>14, PlanFacts
     DEF RunPaused, TypeOK, ControlType, DataType, PlanInv, AdoptInv, CarryInv, Candidates, Executing, graphVars, resultVars, stepVars, flagVars, modelVars
<1>15. CASE FailCancelled
  BY <1>15, PlanFacts
     DEF FailCancelled, RecordFailure, TypeOK, ControlType, DataType, PlanInv, AdoptInv, CarryInv, Candidates, Executing, graphVars, resultVars, stepVars, flagVars, modelVars
<1>16. CASE FailExhausted
  BY <1>16, PlanFacts
     DEF FailExhausted, RecordFailure, TypeOK, ControlType, DataType, PlanInv, AdoptInv, CarryInv, Candidates, Executing, graphVars, resultVars, stepVars, flagVars, modelVars
<1>17. CASE FailRetry
  BY <1>17, PlanFacts
     DEF FailRetry, NextAttempt, TypeOK, ControlType, DataType, PlanInv, AdoptInv, CarryInv, Candidates, Executing, graphVars, resultVars, stepVars, flagVars, modelVars
<1>18. CASE FailReflect
  BY <1>18, PlanFacts
     DEF FailReflect, SwitchMidLoop, Switching, modelVars, TypeOK, ControlType, DataType, PlanInv, AdoptInv, CarryInv, Candidates, Executing, graphVars, resultVars, stepVars, flagVars
<1>19. CASE ReflectRetry
  BY <1>19, PlanFacts
     DEF ReflectRetry, NextAttempt, SwitchMidLoop, Switching, modelVars, TypeOK, ControlType, DataType, PlanInv, AdoptInv, CarryInv, Candidates, Executing, graphVars, resultVars, stepVars, flagVars
<1>20. CASE ReflectAbort
  BY <1>20, PlanFacts
     DEF ReflectAbort, SwitchMidLoop, Switching, modelVars, TypeOK, ControlType, DataType, PlanInv, AdoptInv, CarryInv, Candidates, Executing, graphVars, resultVars, stepVars, flagVars
<1>21. ASSUME NEW p \in Plans, ReflectReplan(p)
      PROVE  CarryInv'
  BY <1>21, PlanFacts
     DEF ReflectReplan, SwitchMidLoop, Switching, modelVars, TypeOK, ControlType, DataType, PlanInv, AdoptInv, CarryInv, Candidates, Executing, graphVars, resultVars, stepVars, flagVars
<1>22. CASE UNCHANGED vars
  BY <1>22 DEF vars, TypeOK, ControlType, DataType, PlanInv, AdoptInv, CarryInv, Candidates, Executing
<1> QED
  BY <1>1, <1>2, <1>3, <1>4, <1>5, <1>6, <1>7, <1>8, <1>9, <1>10, <1>11, <1>12, <1>13, <1>14, <1>15, <1>16, <1>17, <1>18, <1>19, <1>20, <1>21, <1>22
     DEF Next, PlanNext, RunNext, Done

(* Success stays closed under dependencies.                                   *)
LEMMA ClosedStep ==
    ASSUME TypeOK, PlanInv, WaveInv, AdoptInv, CarryInv, CompletedClosed, [Next]_vars
    PROVE  CompletedClosed'
<1> USE BudgetAssumption
<1>1. CASE Cancel
  BY <1>1, PlanFacts
     DEF Cancel, TypeOK, ControlType, DataType, PlanInv, WaveInv, Ready, AdoptInv, CarryInv, CompletedClosed, Candidates, Stale, Executing, graphVars, resultVars, stepVars, flagVars, modelVars
<1>2. ASSUME NEW p \in Plans, MakePlan(p)
      PROVE  CompletedClosed'
  BY <1>2, PlanFacts
     DEF MakePlan, TypeOK, ControlType, DataType, PlanInv, WaveInv, Ready, AdoptInv, CarryInv, CompletedClosed, Candidates, Stale, Executing, graphVars, resultVars, stepVars, flagVars, modelVars
<1>3. CASE PlanFails
  BY <1>3, PlanFacts
     DEF PlanFails, TypeOK, ControlType, DataType, PlanInv, WaveInv, Ready, AdoptInv, CarryInv, CompletedClosed, Candidates, Stale, Executing, graphVars, resultVars, stepVars, flagVars, modelVars
<1>4. CASE WaveStart
  BY <1>4, PlanFacts
     DEF WaveStart, TypeOK, ControlType, DataType, PlanInv, WaveInv, Ready, AdoptInv, CarryInv, CompletedClosed, Candidates, Stale, Executing, graphVars, resultVars, stepVars, flagVars, modelVars
<1>5. CASE LoopEnd
  BY <1>5, PlanFacts
     DEF LoopEnd, TypeOK, ControlType, DataType, PlanInv, WaveInv, Ready, AdoptInv, CarryInv, CompletedClosed, Candidates, Stale, Executing, graphVars, resultVars, stepVars, flagVars, modelVars
<1>6. ASSUME NEW s \in Steps, StepStart(s)
      PROVE  CompletedClosed'
  BY <1>6, PlanFacts
     DEF StepStart, TypeOK, ControlType, DataType, PlanInv, WaveInv, Ready, AdoptInv, CarryInv, CompletedClosed, Candidates, Stale, Executing, graphVars, resultVars, stepVars, flagVars, modelVars
<1>7. CASE WaveEnd
  BY <1>7, PlanFacts
     DEF WaveEnd, TypeOK, ControlType, DataType, PlanInv, WaveInv, Ready, AdoptInv, CarryInv, CompletedClosed, Candidates, Stale, Executing, graphVars, resultVars, stepVars, flagVars, modelVars
<1>8. CASE ReplanRefused
  BY <1>8, PlanFacts
     DEF ReplanRefused, TypeOK, ControlType, DataType, PlanInv, WaveInv, Ready, AdoptInv, CarryInv, CompletedClosed, Candidates, Stale, Executing, graphVars, resultVars, stepVars, flagVars, modelVars
<1>9. CASE ReplanAdopt
  BY <1>9, PlanFacts
     DEF ReplanAdopt, TypeOK, ControlType, DataType, PlanInv, WaveInv, Ready, AdoptInv, CarryInv, CompletedClosed, Candidates, Stale, Executing, graphVars, resultVars, stepVars, flagVars, modelVars
<1>10. ASSUME NEW s \in Steps, CarryDelete(s)
      PROVE  CompletedClosed'
  BY <1>10, PlanFacts
     DEF CarryDelete, TypeOK, ControlType, DataType, PlanInv, WaveInv, Ready, AdoptInv, CarryInv, CompletedClosed, Candidates, Stale, Executing, graphVars, resultVars, stepVars, flagVars, modelVars
<1>11. CASE CarryDone
  BY <1>11, PlanFacts
     DEF CarryDone, TypeOK, ControlType, DataType, PlanInv, WaveInv, Ready, AdoptInv, CarryInv, CompletedClosed, Candidates, Stale, Executing, graphVars, resultVars, stepVars, flagVars, modelVars
<1>12. CASE Finish
  BY <1>12, PlanFacts
     DEF Finish, SwitchMidLoop, Switching, modelVars, PlanCompletionStatus, TypeOK, ControlType, DataType, PlanInv, WaveInv, Ready, AdoptInv, CarryInv, CompletedClosed, Candidates, Stale, Executing, graphVars, resultVars, stepVars, flagVars
<1>13. CASE RunSuccess
  BY <1>13, PlanFacts
     DEF RunSuccess, TypeOK, ControlType, DataType, PlanInv, WaveInv, Ready, AdoptInv, CarryInv, CompletedClosed, Candidates, Stale, Executing, graphVars, resultVars, stepVars, flagVars, modelVars
<1>14. CASE RunPaused
  BY <1>14, PlanFacts
     DEF RunPaused, TypeOK, ControlType, DataType, PlanInv, WaveInv, Ready, AdoptInv, CarryInv, CompletedClosed, Candidates, Stale, Executing, graphVars, resultVars, stepVars, flagVars, modelVars
<1>15. CASE FailCancelled
  BY <1>15, PlanFacts
     DEF FailCancelled, RecordFailure, TypeOK, ControlType, DataType, PlanInv, WaveInv, Ready, AdoptInv, CarryInv, CompletedClosed, Candidates, Stale, Executing, graphVars, resultVars, stepVars, flagVars, modelVars
<1>16. CASE FailExhausted
  BY <1>16, PlanFacts
     DEF FailExhausted, RecordFailure, TypeOK, ControlType, DataType, PlanInv, WaveInv, Ready, AdoptInv, CarryInv, CompletedClosed, Candidates, Stale, Executing, graphVars, resultVars, stepVars, flagVars, modelVars
<1>17. CASE FailRetry
  BY <1>17, PlanFacts
     DEF FailRetry, NextAttempt, TypeOK, ControlType, DataType, PlanInv, WaveInv, Ready, AdoptInv, CarryInv, CompletedClosed, Candidates, Stale, Executing, graphVars, resultVars, stepVars, flagVars, modelVars
<1>18. CASE FailReflect
  BY <1>18, PlanFacts
     DEF FailReflect, SwitchMidLoop, Switching, modelVars, TypeOK, ControlType, DataType, PlanInv, WaveInv, Ready, AdoptInv, CarryInv, CompletedClosed, Candidates, Stale, Executing, graphVars, resultVars, stepVars, flagVars
<1>19. CASE ReflectRetry
  BY <1>19, PlanFacts
     DEF ReflectRetry, NextAttempt, SwitchMidLoop, Switching, modelVars, TypeOK, ControlType, DataType, PlanInv, WaveInv, Ready, AdoptInv, CarryInv, CompletedClosed, Candidates, Stale, Executing, graphVars, resultVars, stepVars, flagVars
<1>20. CASE ReflectAbort
  BY <1>20, PlanFacts
     DEF ReflectAbort, SwitchMidLoop, Switching, modelVars, TypeOK, ControlType, DataType, PlanInv, WaveInv, Ready, AdoptInv, CarryInv, CompletedClosed, Candidates, Stale, Executing, graphVars, resultVars, stepVars, flagVars
<1>21. ASSUME NEW p \in Plans, ReflectReplan(p)
      PROVE  CompletedClosed'
  BY <1>21, PlanFacts
     DEF ReflectReplan, SwitchMidLoop, Switching, modelVars, TypeOK, ControlType, DataType, PlanInv, WaveInv, Ready, AdoptInv, CarryInv, CompletedClosed, Candidates, Stale, Executing, graphVars, resultVars, stepVars, flagVars
<1>22. CASE UNCHANGED vars
  BY <1>22 DEF vars, TypeOK, ControlType, DataType, PlanInv, WaveInv, Ready, AdoptInv, CarryInv, CompletedClosed, Candidates, Stale, Executing
<1> QED
  BY <1>1, <1>2, <1>3, <1>4, <1>5, <1>6, <1>7, <1>8, <1>9, <1>10, <1>11, <1>12, <1>13, <1>14, <1>15, <1>16, <1>17, <1>18, <1>19, <1>20, <1>21, <1>22
     DEF Next, PlanNext, RunNext, Done

(* The deletions of phase 2 never reach a step that could be kept.           *)
LEMMA KeepStep ==
    ASSUME TypeOK, PlanInv, AdoptInv, CarryInv, CarriedMaximal, [Next]_vars
    PROVE  CarriedMaximal'
<1> SUFFICES ASSUME pc' = "carry" PROVE Keepable' \subseteq carried'
  BY DEF CarriedMaximal
<1>1. CASE ReplanAdopt
  BY <1>1 DEF ReplanAdopt, Keepable, Candidates, resultVars
<1>2. ASSUME NEW s \in Steps, CarryDelete(s)
      PROVE  Keepable' \subseteq carried'
  <2>1. Keepable' = Keepable
    BY <1>2 DEF CarryDelete, Keepable, Candidates, resultVars
  <2>2. Keepable \subseteq carried
    BY <1>2 DEF CarryDelete, CarriedMaximal
  <2>3. ASSUME s \in Keepable PROVE FALSE
    <3>1. PICK C \in SUBSET Candidates(completed, bbPlan, plan) :
             /\ \A t \in C : plan[t] \intersect DOMAIN plan \subseteq C
             /\ s \in C
      BY <2>3 DEF Keepable
    <3>2. C \subseteq carried
      BY <2>2, <3>1 DEF Keepable
    <3>3. PICK d \in plan[s] : d \in DOMAIN plan /\ d \notin carried
      BY <1>2 DEF CarryDelete, Stale
    <3> QED
      BY <3>1, <3>2, <3>3
  <2> QED
    BY <1>2, <2>1, <2>2, <2>3 DEF CarryDelete
<1>3. CASE Cancel \/ UNCHANGED vars \/ Done
  BY <1>3 DEF Cancel, Done, vars, CarriedMaximal, Keepable, Candidates, graphVars, resultVars
<1> QED
  BY <1>1, <1>2, <1>3
     DEF Next, PlanNext, RunNext, MakePlan, PlanFails, WaveStart, LoopEnd, StepStart, WaveEnd,
         ReplanRefused, CarryDone, Finish, RunSuccess, RunPaused, FailCancelled,
         FailExhausted, RecordFailure, FailRetry, FailReflect, ReflectRetry, NextAttempt,
         ReflectAbort, ReflectReplan

(* The status is computed once, at the end, from a count of completed steps. *)
LEMMA StatusStep ==
    ASSUME TypeOK, PlanInv, ResultInv, AdoptInv, SuccessMeansAllDone, [Next]_vars,
           status' = "success"
    PROVE  \A s \in DOMAIN plan' : completed'[s] = "ok" /\ bbResult'[s] = "ok"
<1>1. CASE Finish
  <2> DEFINE D == {s \in Steps : completed[s] # "none"}
  <2>1. plan \in Plans /\ plan = bbPlan /\ DOMAIN plan \subseteq Steps
    BY <1>1, PlanFacts DEF Finish, PlanInv, AdoptInv, Executing
  <2>2. /\ \A s \in Steps : completed[s] # "err"
        /\ ~(Cardinality(D) < Cardinality(DOMAIN plan))
    BY <1>1 DEF Finish, PlanCompletionStatus
  <2>3. D \subseteq DOMAIN plan
    BY <1>1, <2>1 DEF Finish, ResultInv, Executing
  <2>4. IsFiniteSet(DOMAIN plan) /\ IsFiniteSet(D)
    BY <2>1, <2>3, StepsAssumption, FS_Subset
  <2>5. Cardinality(D) \in Nat /\ Cardinality(DOMAIN plan) \in Nat
    BY <2>4, FS_CardinalityType
  <2>6. D = DOMAIN plan
    <3>1. D # DOMAIN plan => Cardinality(D) < Cardinality(DOMAIN plan)
      <4>1. D \in SUBSET DOMAIN plan
        BY <2>3
      <4>2. /\ Cardinality(D) <= Cardinality(DOMAIN plan)
            /\ Cardinality(DOMAIN plan) = Cardinality(D) => DOMAIN plan = D
        BY <2>4, <4>1, FS_Subset
      <4> QED
        BY <2>5, <4>2
    <3> QED
      BY <2>2, <3>1
  <2>7. \A s \in DOMAIN plan : completed[s] = "ok" /\ bbResult[s] = "ok"
    BY <1>1, <2>1, <2>2, <2>6 DEF Finish, TypeOK, DataType, ResultInv, Executing
  <2> QED
    BY <1>1, <2>7 DEF Finish, graphVars, resultVars
<1>2. CASE UNCHANGED vars \/ Done
  BY <1>2 DEF Done, vars, SuccessMeansAllDone
<1> QED
  BY <1>1, <1>2
     DEF Next, PlanNext, RunNext, PlanInv, Cancel, MakePlan, PlanFails, WaveStart, LoopEnd,
         StepStart, WaveEnd, ReplanRefused, ReplanAdopt, CarryDelete, CarryDone, RunSuccess,
         RunPaused, FailCancelled, FailExhausted, RecordFailure, FailRetry, FailReflect,
         ReflectRetry, ReflectAbort, ReflectReplan, flagVars

(* The initial states satisfy the inductive invariant.                       *)
LEMMA IInvInit == Init => IInv
<1> SUFFICES ASSUME Init PROVE IInv
  OBVIOUS
<1>1. ControlType
  <2>1. attempt \in 0 .. MaxRetries + 1 /\ replans \in 0 .. MaxReplans
    <3>1. attempt = 0 /\ replans = 0
      BY DEF Init
    <3> QED
      BY <3>1, BudgetAssumption
  <2> QED
    BY <2>1 DEF Init, ControlType
<1>2. DataType
  BY DEF Init, DataType, NoPlan
<1>3. PlanInv /\ WaveInv /\ ResultInv /\ AdoptInv /\ CarryInv
  BY DEF Init, PlanInv, WaveInv, ResultInv, AdoptInv, CarryInv, Executing
<1>4. CompletedClosed /\ CarriedMaximal /\ SuccessMeansAllDone
  BY DEF Init, CompletedClosed, CarriedMaximal, SuccessMeansAllDone
<1> QED
  BY <1>1, <1>2, <1>3, <1>4 DEF IInv, TypeOK

(* Every step preserves it.                                                  *)
LEMMA IInvStep == IInv /\ [Next]_vars => IInv'
<1> SUFFICES ASSUME IInv, [Next]_vars PROVE IInv'
  OBVIOUS
<1> USE DEF IInv
<1>1. TypeOK' /\ PlanInv' /\ WaveInv'
  BY TypeStep, PlanStep, WaveStep
<1>2. ResultInv' /\ AdoptInv' /\ CarryInv'
  BY ResultStep, CarryStep
<1>3. CompletedClosed' /\ CarriedMaximal'
  BY ClosedStep, KeepStep
<1>4. SuccessMeansAllDone'
  BY StatusStep DEF SuccessMeansAllDone
<1> QED
  BY <1>1, <1>2, <1>3, <1>4

(* IInv is an inductive invariant of the specification.                      *)
THEOREM Invariance == Spec => []IInv
  BY IInvInit, IInvStep, PTL DEF Spec

(* Types are kept: in particular no step is attempted more than              *)
(* maxRetries + 1 times and no more than maxReplans plans are adopted.       *)
THEOREM TypeCorrect == Spec => []TypeOK
<1>1. IInv => TypeOK
  BY DEF IInv
<1> QED
  BY Invariance, <1>1, PTL

(* No step is run before all its dependencies in the current plan succeeded. *)
THEOREM DependencyCorrect == Spec => []DependenciesDone
<1>1. IInv => DependenciesDone
  BY DEF IInv, WaveInv, Ready, DependenciesDone
<1> QED
  BY Invariance, <1>1, PTL

(* Successes stay closed under dependencies through failures, replans and    *)
(* carried-forward work.                                                     *)
THEOREM ClosedCorrect == Spec => []CompletedClosed
<1>1. IInv => CompletedClosed
  BY DEF IInv
<1> QED
  BY Invariance, <1>1, PTL

(* BuildCarryForward keeps every step that can be kept.                      *)
THEOREM CarryCorrect == Spec => []CarriedMaximal
<1>1. IInv => CarriedMaximal
  BY DEF IInv
<1> QED
  BY Invariance, <1>1, PTL

(* A task reported successful has every step of its final plan done, and the *)
(* results on the blackboard, although planCompletionStatus only counts.     *)
THEOREM SuccessCorrect == Spec => []SuccessMeansAllDone
<1>1. IInv => SuccessMeansAllDone
  BY DEF IInv
<1> QED
  BY Invariance, <1>1, PTL

(* Completed work fits the current plan within the budgets: dependencies     *)
(* first, closed and maximal through every replan of runPlanned.             *)
THEOREM PlanCorrect == Spec => []PlanRespected
<1>1. TypeOK /\ DependenciesDone /\ CompletedClosed /\ CarriedMaximal => PlanRespected
  BY DEF PlanRespected
<1> QED
  BY TypeCorrect, DependencyCorrect, ClosedCorrect, CarryCorrect, <1>1, PTL

-----------------------------------------------------------------------------
(* The router's model                                                        *)

(* Between the calls of runStep and runPlanned the execution model is set,   *)
(* also where ModelDiscipline leaves it open: there the next switch starts.  *)
ModelInv ==
    Switching /\ ~switchFailed =>
        /\ pc \in {"loop", "wave", "run", "replan", "carry", "end"} => model = "exec"
        /\ pc = "reflect" => model = "plan"
        /\ pc = "done" /\ status # "error" => model = "plan"

(* A switch that does not fail sets its model; a failed one stays recorded.  *)
LEMMA SwitchSets ==
    ASSUME NEW m, SwitchMidLoop(m), cfg' = cfg
    PROVE  /\ Switching' = Switching
           /\ Switching /\ ~switchFailed' => model' = m /\ ~switchFailed
  BY DEF SwitchMidLoop, Switching, modelVars

(* Every action leaves the model as its program point demands.               *)
LEMMA ModelStep ==
    ASSUME ModelInv, [Next]_vars
    PROVE  ModelInv'
<1>1. ASSUME NEW p \in Plans, MakePlan(p)
      PROVE  ModelInv'
  BY <1>1 DEF MakePlan, ModelInv, Switching, flagVars
<1>2. CASE PlanFails
  BY <1>2 DEF PlanFails, ModelInv
<1>3. CASE Cancel \/ WaveStart \/ LoopEnd \/ WaveEnd \/ ReplanRefused \/ ReplanAdopt \/ CarryDone
  BY <1>3 DEF Cancel, WaveStart, LoopEnd, WaveEnd, ReplanRefused, ReplanAdopt, CarryDone,
              ModelInv, Switching, modelVars, flagVars
<1>4. ASSUME NEW s \in Steps, StepStart(s) \/ CarryDelete(s)
      PROVE  ModelInv'
  BY <1>4 DEF StepStart, CarryDelete, ModelInv, Switching, modelVars, flagVars
<1>5. CASE RunSuccess \/ RunPaused \/ FailCancelled \/ FailExhausted \/ FailRetry
  BY <1>5 DEF RunSuccess, RunPaused, FailCancelled, FailExhausted, FailRetry, RecordFailure,
              NextAttempt, ModelInv, Switching, modelVars, flagVars
<1>6. CASE FailReflect
  BY <1>6, SwitchSets DEF FailReflect, ModelInv
<1>7. CASE ReflectRetry
  BY <1>7, SwitchSets DEF ReflectRetry, NextAttempt, ModelInv
<1>8. CASE ReflectAbort
  BY <1>8, SwitchSets DEF ReflectAbort, ModelInv
<1>9. ASSUME NEW p \in Plans, ReflectReplan(p)
      PROVE  ModelInv'
  BY <1>9, SwitchSets DEF ReflectReplan, ModelInv
<1>10. CASE Finish
  BY <1>10, SwitchSets DEF Finish, ModelInv
<1>11. CASE UNCHANGED vars \/ Done
  BY <1>11 DEF Done, vars, ModelInv, Switching
<1> QED
  BY <1>1, <1>2, <1>3, <1>4, <1>5, <1>6, <1>7, <1>8, <1>9, <1>10, <1>11
     DEF Next, PlanNext, RunNext

(* As long as no switch failed, every step is attempted on the execution     *)
(* model and reflected on with the planning model, and the router is left on *)
(* the planning model, through retries, replans, aborts, pauses and          *)
(* cancellation (runStep, switchModelMidLoop).                               *)
THEOREM ModelCorrect == Spec => []ModelDiscipline
<1>1. Init => ModelInv
  BY DEF Init, ModelInv
<1>2. ModelInv /\ [Next]_vars => ModelInv'
  BY ModelStep
<1>3. ModelInv => ModelDiscipline
  BY DEF ModelInv, ModelDiscipline
<1> QED
  BY <1>1, <1>2, <1>3, PTL DEF Spec
=============================================================================
