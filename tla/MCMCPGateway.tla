---------------------------- MODULE MCMCPGateway ----------------------------
EXTENDS MCPGateway, TLC

MCCoreTools == {[kind |-> "core", conn |-> 0, policy |-> "allow", judger |-> TRUE, untrusted |-> FALSE]}
MCHostSettings == {[validate |-> TRUE, confirm |-> TRUE], [validate |-> FALSE, confirm |-> FALSE]}
MCOffers == {ToolNames}
(* A server that stays, changes its transport and bounds, or gives way.      *)
A1 == [id |-> "a1", transport |-> "none", dir |-> "none", timeout |-> 0, call |-> 0, group |-> "none"]
A2 == [id |-> "a1", transport |-> "http", dir |-> "none", timeout |-> 2, call |-> 1, group |-> "system"]
(* An entry no transport fits.                                               *)
B0 == [A1 EXCEPT !.transport = "pipe"]
MCConfigurations == {("b" :> B0), ("a" :> A2), ("a" :> A1) @@ ("b" :> A1)}
(* The two default directories are interchangeable; nothing checked here is  *)
(* a liveness property.                                                      *)
DirSymmetry == Permutations(Dirs)
=============================================================================
