----------------------------- MODULE MCOrderForm -----------------------------
(***************************************************************************)
(* An instance of OrderForm for TLC.                                       *)
(***************************************************************************)
EXTENDS OrderForm

\* A price that is refused and one that is not; one quantity of each kind too.
FewPrices == {0, 2}
FewQuantities == {0, 3}
=============================================================================
