------------------------------- MODULE MCExecutor -------------------------------
(* Small instances of Executor.                                              *)
EXTENDS Executor

Plain == [verify |-> FALSE, mutation |-> FALSE, checklist |-> FALSE,
          suppress |-> FALSE, hasTools |-> TRUE]

(* No gate, and no tools beside finish in one of them.                       *)
NoGates == {Plain, [Plain EXCEPT !.hasTools = FALSE]}

PlainOnly == {Plain}

(* Every gate, with and without plan-step execution.                         *)
AllGates == {[Plain EXCEPT !.verify = TRUE, !.mutation = m, !.checklist = m, !.suppress = s] :
             m \in BOOLEAN, s \in BOOLEAN}
=============================================================================
