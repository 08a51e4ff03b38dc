---------------------------- MODULE MCPlanExecution ----------------------------
(* Small instances of PlanExecution: five plans over three step IDs.         *)
EXTENDS PlanExecution, TLC

Chain == ("a" :> {}) @@ ("b" :> {"a"}) @@ ("c" :> {"b"})
Join == ("a" :> {}) @@ ("b" :> {}) @@ ("c" :> {"a", "b"})
Fork == ("a" :> {}) @@ ("b" :> {"a"}) @@ ("c" :> {"a"})
Reversed == ("b" :> {}) @@ ("a" :> {"b"})
Single == ("a" :> {})
TypicalPlans == {Chain, Join, Fork, Reversed, Single}

AllConfigs == [reflector : BOOLEAN, planModel : BOOLEAN, execModel : BOOLEAN]
=============================================================================
