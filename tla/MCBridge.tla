------------------------------ MODULE MCBridge ------------------------------
(***************************************************************************)
(* Instances of Bridge for TLC; the bounds are in the cfg files.           *)
(***************************************************************************)
EXTENDS Bridge
=============================================================================
