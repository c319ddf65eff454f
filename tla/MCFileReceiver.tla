--------------------------- MODULE MCFileReceiver ---------------------------
(* Instances of FileReceiver for TLC.                                      *)
EXTENDS FileReceiver, TLC

CONSTANTS a, b

(* Both senders send a file of the same name, and b another in hashed mode.*)
TwoBatches ==
  (a :> <<[name |-> "x", mode |-> "normal"], [name |-> "y", mode |-> "secret"]>>) @@
  (b :> <<[name |-> "x", mode |-> "hashed"], [name |-> "y", mode |-> "hashed"]>>)
=============================================================================
