---------------------------- MODULE MCMarketData ----------------------------
(***************************************************************************)
(* Instances of MarketData for TLC.                                        *)
(***************************************************************************)
EXTENDS MarketData

CONSTANTS o1, o2, o3, o4

FourOrders == {o1, o2, o3, o4}
Symmetric == Permutations(OrderIds)

\* Two low prices and a high one, so that the average lies off the middle, and
\* amounts for fills of different sizes.
SpreadTerms ==
    {[price |-> p, timestamp |-> 1, makeAmount |-> m, takeAmount |-> k] :
        <<p, m, k>> \in {<<1, 4, 1>>, <<2, 3, 5>>, <<4, 2, 2>>}}
=============================================================================
