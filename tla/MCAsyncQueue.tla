---------------------------- MODULE MCAsyncQueue ----------------------------
(* Instances of AsyncQueue for TLC.                                        *)
EXTENDS AsyncQueue, TLC

CONSTANTS f, g, r1, r2, k1, k2, q1, q2

(* One checking thread for each receiver.                                  *)
PeerOf == (k1 :> r1) @@ (k2 :> r2)
=============================================================================
