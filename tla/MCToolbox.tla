----------------------------- MODULE MCToolbox -----------------------------
(* Toolbox for TLC; the cfg gives the constants. *)
EXTENDS Toolbox

(* Two step ids with the same base share a dump file. *)
SharedDump == [s \in {"s1", "x/s1"} |-> "s1"]

(* The second content has the time and size of the first.                   *)
MCSigOf == [v \in 0..4 |-> IF v = 2 THEN 1 ELSE v]

(* Sessions are interchangeable, and so are executors; the run checks        *)
(* invariants only.                                                          *)
Interchangeable == Permutations(Sessions) \cup Permutations(Executors)
=============================================================================
