---------------------------- MODULE MCComponents ----------------------------
(***************************************************************************)
(* The components on small instances: values for the constants that a       *)
(* configuration file cannot write down.                                     *)
(***************************************************************************)
EXTENDS Components

MCCallerOf == [m \in InfMsg |-> "caller"]
MCClassOf == [m \in Modal |-> "unknown"]
MCCwdOf == [t \in Thread |-> "peer"]
=============================================================================
