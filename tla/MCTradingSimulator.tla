------------------------ MODULE MCTradingSimulator ------------------------
(***************************************************************************)
(* Instances of TradingSimulator for TLC.                                  *)
(***************************************************************************)
EXTENDS TradingSimulator, TLC

CONSTANTS s1, s2

TwoSlots == {s1, s2}
Symmetric == Permutations(Slots)
=============================================================================
