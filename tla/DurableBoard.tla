------------------------------ MODULE DurableBoard ------------------------------
(***************************************************************************)
(* What a checkpointed blackboard promises about its checkpoint, whatever   *)
(* its queue, worker, timeouts and shutdown do: a save never goes back and   *)
(* never runs ahead.  Each field of the checkpoint moves only forward, to a  *)
(* content the board has had since the previous save.                        *)
(***************************************************************************)
EXTENDS Naturals

CONSTANT Fields

VARIABLES board, saved

Init ==
    /\ board = [f \in Fields |-> 0]
    /\ saved = [f \in Fields |-> 0]

(* One field of the board gets a newer content.                              *)
Write(f) ==
    /\ board'[f] > board[f]
    /\ board' = [board EXCEPT ![f] = board'[f]]
    /\ UNCHANGED saved

(* The checkpoint is replaced by one that is nowhere older, nowhere newer    *)
(* than the board.                                                           *)
Save ==
    /\ \A f \in Fields : saved[f] <= saved'[f] /\ saved'[f] <= board[f]
    /\ UNCHANGED board

Next == (\E f \in Fields : Write(f)) \/ Save

Spec == Init /\ [][Next]_<<board, saved>>
=============================================================================
