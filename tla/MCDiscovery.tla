---------------------------- MODULE MCDiscovery ----------------------------
(***************************************************************************)
(* Instance of Discovery for TLC.                                          *)
(***************************************************************************)
EXTENDS Discovery
=============================================================================
