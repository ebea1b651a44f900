----------------------------- MODULE MCPipeline -----------------------------
(***************************************************************************)
(* Instances of Pipeline for TLC.                                          *)
(***************************************************************************)
EXTENDS Pipeline, TLC

CONSTANTS o1, o2, o3

ThreeOrders == {o1, o2, o3}
Symmetric == Permutations(OrderIds)

\* Whichever order is the bid and whichever the ask, a fill uses up one of its
\* two orders and leaves some of the other for the next round.
CrossingTerms ==
    {[price |-> p, timestamp |-> 1, makeAmount |-> m, takeAmount |-> k] :
        <<p, m, k>> \in {<<1, 2, 4>>, <<2, 4, 3>>}}
=============================================================================
