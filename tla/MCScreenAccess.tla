--------------------------- MODULE MCScreenAccess ---------------------------
(* Instances of ScreenAccess for TLC.                                      *)
EXTENDS ScreenAccess, TLC

ThreadSymmetry == Permutations(Threads)
=============================================================================
