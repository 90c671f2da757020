---------------------------- MODULE MCNodeClient ----------------------------
(***************************************************************************)
(* Instances of NodeClient for TLC; the bounds are in the cfg files.       *)
(***************************************************************************)
EXTENDS NodeClient
=============================================================================
