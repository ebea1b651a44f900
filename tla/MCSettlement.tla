---------------------------- MODULE MCSettlement ----------------------------
(***************************************************************************)
(* Instances of Settlement for TLC: a batch in priority order, one out of  *)
(* order, one of two equal orders, and one whose root the matcher made.    *)
(***************************************************************************)
EXTENDS Settlement

CONSTANTS ordered, misordered, uniform, matched

high == [price |-> 2, timestamp |-> 1]
low == [price |-> 1, timestamp |-> 1]
late == [price |-> 2, timestamp |-> 2]

AllRoots == {ordered, misordered, uniform, matched}
\* computeMerkleRoot hashes fills with sha256, dispute hashes orders with
\* keccak256, so the root of a matcher's batch has no order for a leaf.
RootsOfOrders == {ordered, misordered, uniform}
AllOrders == {high, low, late}
Contents == [root \in AllRoots |->
                CASE root = misordered -> <<high, late, high>>
                  [] root = uniform -> <<low, low>>
                  [] OTHER -> <<high, low>>]
Lengths == {31, 32}
=============================================================================
