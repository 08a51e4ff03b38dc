------------------------------- MODULE Cases -------------------------------
(***************************************************************************)
(* Shared by the parts of the Toolbox run.  Every behaviour of that run    *)
(* exercises one part; a part that is a pure function of its input takes   *)
(* one step, which picks the input the part's properties speak about.      *)
(***************************************************************************)
EXTENDS Sequences

VARIABLES part,  \* the part this behaviour exercises
          case   \* <<>>, or <<c>> once the input c has been picked

Pick(p, inputs) ==
    /\ part = p /\ case = <<>>
    /\ \E c \in inputs : case' = <<c>>
    /\ UNCHANGED part

Picked(p) == part = p /\ case # <<>>
=============================================================================
