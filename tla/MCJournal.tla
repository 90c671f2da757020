------------------------------ MODULE MCJournal -----------------------------
(***************************************************************************)
(* Instances of Journal for TLC; the bounds are in the cfg files.          *)
(***************************************************************************)
EXTENDS Journal
=============================================================================
