-------------------------- MODULE MCBackendRunner --------------------------
(***************************************************************************)
(* Instances of BackendRunner for TLC.                                     *)
(***************************************************************************)
EXTENDS BackendRunner, TLC

CONSTANTS leader, helper, stdout, stderr
=============================================================================
