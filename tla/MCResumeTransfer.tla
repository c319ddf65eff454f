-------------------------- MODULE MCResumeTransfer --------------------------
(* Instances of FileConsent, and of ResumeTransfer under it, for TLC.      *)
EXTENDS FileConsent

(* A version that shrinks and one that is empty.                           *)
ShrinkingSize == <<3, 2, 0>>

(* The sender is unknown, or trusted and let in without a question.        *)
KnownOrNot == {<<Nobody, FALSE>>, <<[d \in Devices |-> "peer"], TRUE>>}
=============================================================================
