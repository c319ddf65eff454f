--------------------------- MODULE MCControlChannel ---------------------------
(* ControlHost, and ControlChannel under it, for TLC: two channels of one  *)
(* session, each of which may take the other's token away.                 *)
EXTENDS ControlHost
=============================================================================
