------------------------------ MODULE MCDeploy ------------------------------
(* Deploy for TLC. *)
EXTENDS Deploy
=============================================================================
