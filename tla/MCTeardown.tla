----------------------------- MODULE MCTeardown -----------------------------
(* The runtime, a tool it started, the tool's child, and a pid that is free.   *)
EXTENDS Teardown
=============================================================================
