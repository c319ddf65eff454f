-------------------------- MODULE MCCaptureLifecycle --------------------------
(* Instances of CaptureLifecycle for TLC.                                  *)
EXTENDS CaptureLifecycle, TLC

CONSTANT c
=============================================================================
