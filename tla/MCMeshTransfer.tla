--------------------------- MODULE MCMeshTransfer ---------------------------
(***************************************************************************)
(* Instance of MeshTransfer for TLC: two versions of the file, the second  *)
(* longer by a chunk.                                                      *)
(***************************************************************************)
EXTENDS MeshTransfer

Growing == <<1, 2>>
=============================================================================
