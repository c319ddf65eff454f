---------------------------- MODULE MCDataChannel ----------------------------
(***************************************************************************)
(* Instance of DataChannel for TLC, and its mutants.                       *)
(***************************************************************************)
EXTENDS DataChannel
=============================================================================
