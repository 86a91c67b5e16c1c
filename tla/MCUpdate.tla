------------------------------ MODULE MCUpdate ------------------------------
(* The foundation at version 1, which works; what is published after it does   *)
(* not.  The operator updates, and tries again.                               *)
EXTENDS Update
=============================================================================
