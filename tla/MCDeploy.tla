------------------------------ MODULE MCDeploy ------------------------------
(* Deploy with one specialist and two skills, one of them scenario-scoped. *)
EXTENDS Deploy, TLC
=============================================================================
