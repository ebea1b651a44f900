---------------------------- MODULE MCSubmitter ----------------------------
(***************************************************************************)
(* Instances of Submitter for TLC.                                         *)
(***************************************************************************)
EXTENDS Submitter

CONSTANTS b1, b2, b3, r1, r2

TwoBatches == {b1, b2}
ThreeBatches == {b1, b2, b3}
OneRetrier == {r1}
TwoRetriers == {r1, r2}
NoRetriers == {}
Symmetric == Permutations(Batches) \cup Permutations(Retriers)
=============================================================================
