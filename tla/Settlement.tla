----------------------------- MODULE Settlement -----------------------------
(***************************************************************************)
(* The two contracts on chain, BatchSettlement.sol and DisputeGame.sol.    *)
(*                                                                         *)
(* The chain runs one call at a time, so a call is one step: it either     *)
(* succeeds, or reverts and leaves nothing behind, no event either.  What  *)
(* remains of the last call is its receipt.                                *)
(*                                                                         *)
(* A batch root stands for the tree it commits to.  Hashes do not collide, *)
(* so MerkleProof.verify succeeds for just the orders whose leaves are in  *)
(* the tree; whoever disputes has a proof for each of those.               *)
(***************************************************************************)
EXTENDS Integers, Sequences, FiniteSets

CONSTANTS
    Roots,        \* the batch roots
    Orders,       \* orders as disputes show them: a price and a timestamp
    Leaves,       \* per root: the orders of its batch, in the batch's order
    OrderLeaves,  \* the roots of trees whose leaves are _hashOrder of orders
    MaxBlock,     \* bounds block.number
    MaxIndex,     \* bounds the indices a dispute names
    SigLengths    \* lengths of the aggregate signatures submitted

\* The first block a contract can be called in is not block 0.
ASSUME BlockAssumption == MaxBlock \in Nat \ {0}
ASSUME IndexAssumption == MaxIndex \in Nat
ASSUME OrderAssumption == Orders \subseteq [price : Nat, timestamp : Nat]
ASSUME LeavesAssumption == Leaves \in [Roots -> Seq(Orders)] /\ OrderLeaves \subseteq Roots
ASSUME LengthAssumption == SigLengths \subseteq Nat

VARIABLES
    blockNumber,            \* block.number
    batchRoots,             \* BatchSettlement: the block a root came in, or 0
    totalBatchesSubmitted,  \* BatchSettlement
    disputedRoots,          \* DisputeGame: those mapped to true
    totalDisputes,          \* DisputeGame
    log,                    \* the events the chain keeps
    receipt                 \* what the last call returned

settlementVars == <<batchRoots, totalBatchesSubmitted>>
disputeVars == <<disputedRoots, totalDisputes>>
vars == <<blockNumber, settlementVars, disputeVars, log, receipt>>

NoCall == [call |-> "none"]

-----------------------------------------------------------------------------
(* What the contracts compute. *)

\* The mock of the quorum check looks at the length alone.
VerifyBLSQuorum(aggSig) == aggSig >= 32

IsBatchSubmitted(root) == batchRoots[root] # 0

\* _isCorrectlyOrdered
CorrectlyOrdered(orderA, orderB) ==
    \/ orderA.price > orderB.price
    \/ orderA.price = orderB.price /\ orderA.timestamp <= orderB.timestamp

MerkleVerify(root, order) ==
    root \in OrderLeaves /\ order \in {Leaves[root][k] : k \in DOMAIN Leaves[root]}

\* A slip: a root that is there already is stored once more.
SubmitErrorNoDuplicates(root, fillsLength, aggSig) ==
    IF fillsLength = 0 THEN "EmptyFillsData"
    ELSE IF ~VerifyBLSQuorum(aggSig) THEN "InvalidBLSSignature"
    ELSE "none"
\* The checks of submitBatch, in their order.
SubmitError(root, fillsLength, aggSig) ==
    IF fillsLength = 0 THEN "EmptyFillsData"
    ELSE IF batchRoots[root] # 0 THEN "DuplicateBatchRoot"
    ELSE IF ~VerifyBLSQuorum(aggSig) THEN "InvalidBLSSignature"
    ELSE "none"

\* A slip: a root may be disputed again.
DisputeErrorRepeats(root, idxA, idxB, orderA, orderB) ==
    IF idxA >= idxB THEN "InvalidOrderIndices"
    ELSE IF ~IsBatchSubmitted(root) THEN "BatchRootNotFound"
    ELSE IF ~MerkleVerify(root, orderA) \/ ~MerkleVerify(root, orderB)
         THEN "InvalidMerkleProof"
    ELSE IF CorrectlyOrdered(orderA, orderB) THEN "OrdersCorrectlyOrdered"
    ELSE "none"
\* A slip: the order of the two orders is not checked.
DisputeErrorUnordered(root, idxA, idxB, orderA, orderB) ==
    IF idxA >= idxB THEN "InvalidOrderIndices"
    ELSE IF root \in disputedRoots THEN "RootAlreadyDisputed"
    ELSE IF ~IsBatchSubmitted(root) THEN "BatchRootNotFound"
    ELSE IF ~MerkleVerify(root, orderA) \/ ~MerkleVerify(root, orderB)
         THEN "InvalidMerkleProof"
    ELSE "none"
\* The checks of dispute, in their order.
DisputeError(root, idxA, idxB, orderA, orderB) ==
    IF idxA >= idxB THEN "InvalidOrderIndices"
    ELSE IF root \in disputedRoots THEN "RootAlreadyDisputed"
    ELSE IF ~IsBatchSubmitted(root) THEN "BatchRootNotFound"
    ELSE IF ~MerkleVerify(root, orderA) \/ ~MerkleVerify(root, orderB)
         THEN "InvalidMerkleProof"
    ELSE IF CorrectlyOrdered(orderA, orderB) THEN "OrdersCorrectlyOrdered"
    ELSE "none"

-----------------------------------------------------------------------------
Init ==
    /\ blockNumber = 1
    /\ batchRoots = [root \in Roots |-> 0]
    /\ totalBatchesSubmitted = 0
    /\ disputedRoots = {}
    /\ totalDisputes = 0
    /\ log = <<>>
    /\ receipt = NoCall

NextBlock ==
    /\ blockNumber < MaxBlock
    /\ blockNumber' = blockNumber + 1
    /\ UNCHANGED <<settlementVars, disputeVars, log, receipt>>

\* A slip: the root is recorded for the block after this one.
SubmitBatchAhead(root, fillsLength, aggSig) ==
    /\ SubmitError(root, fillsLength, aggSig) = "none"
    /\ batchRoots' = [batchRoots EXCEPT ![root] = blockNumber + 1]
    /\ totalBatchesSubmitted' = totalBatchesSubmitted + 1
    /\ log' = Append(log, [event |-> "BatchSubmitted", root |-> root,
                           blockNumber |-> blockNumber,
                           batchId |-> totalBatchesSubmitted + 1])
    /\ receipt' = [call |-> "submitBatch", root |-> root, error |-> "none"]
    /\ UNCHANGED <<blockNumber, disputeVars>>
\* submitBatch.  Its fills are looked at for their length alone.
SubmitBatch(root, fillsLength, aggSig) ==
    /\ SubmitError(root, fillsLength, aggSig) = "none"
    /\ batchRoots' = [batchRoots EXCEPT ![root] = blockNumber]
    /\ totalBatchesSubmitted' = totalBatchesSubmitted + 1
    /\ log' = Append(log, [event |-> "BatchSubmitted", root |-> root,
                           blockNumber |-> blockNumber,
                           batchId |-> totalBatchesSubmitted + 1])
    /\ receipt' = [call |-> "submitBatch", root |-> root, error |-> "none"]
    /\ UNCHANGED <<blockNumber, disputeVars>>

\* BatchSubmissionFailed is emitted just before the revert that takes it back,
\* and so is DisputeFailed below.
SubmitBatchReverts(root, fillsLength, aggSig) ==
    /\ SubmitError(root, fillsLength, aggSig) # "none"
    /\ receipt' = [call |-> "submitBatch", root |-> root,
                   error |-> SubmitError(root, fillsLength, aggSig)]
    /\ UNCHANGED <<blockNumber, settlementVars, disputeVars, log>>

\* dispute.  _slashAllOperators is a placeholder that changes nothing and
\* returns 1; the indices are compared and put in the event, nothing more.
Dispute(root, idxA, idxB, orderA, orderB) ==
    /\ DisputeError(root, idxA, idxB, orderA, orderB) = "none"
    /\ disputedRoots' = disputedRoots \cup {root}
    /\ totalDisputes' = totalDisputes + 1
    /\ log' = Append(log, [event |-> "Disputed", root |-> root,
                           orderAIdx |-> idxA, orderBIdx |-> idxB,
                           slashedOperators |-> 1])
    /\ receipt' = [call |-> "dispute", root |-> root, error |-> "none"]
    /\ UNCHANGED <<blockNumber, settlementVars>>

DisputeReverts(root, idxA, idxB, orderA, orderB) ==
    /\ DisputeError(root, idxA, idxB, orderA, orderB) # "none"
    /\ receipt' = [call |-> "dispute", root |-> root,
                   error |-> DisputeError(root, idxA, idxB, orderA, orderB)]
    /\ UNCHANGED <<blockNumber, settlementVars, disputeVars, log>>

Submission ==
    \E root \in Roots, fillsLength \in {0, 1}, aggSig \in SigLengths :
        \/ SubmitBatch(root, fillsLength, aggSig)
        \/ SubmitBatchReverts(root, fillsLength, aggSig)

Challenge ==
    \E root \in Roots, idxA, idxB \in 0 .. MaxIndex, orderA, orderB \in Orders :
        \/ Dispute(root, idxA, idxB, orderA, orderB)
        \/ DisputeReverts(root, idxA, idxB, orderA, orderB)

Next == NextBlock \/ Submission \/ Challenge

Spec == Init /\ [][Next]_vars

-----------------------------------------------------------------------------
(* Properties. *)

Errors == {"none", "EmptyFillsData", "DuplicateBatchRoot", "InvalidBLSSignature",
           "InvalidOrderIndices", "RootAlreadyDisputed", "BatchRootNotFound",
           "InvalidMerkleProof", "OrdersCorrectlyOrdered"}
BatchSubmitted == [event : {"BatchSubmitted"}, root : Roots,
                   blockNumber : Nat, batchId : Nat]
Disputed == [event : {"Disputed"}, root : Roots, orderAIdx : Nat, orderBIdx : Nat,
             slashedOperators : {1}]
SubmitReceipt == [call : {"submitBatch"}, root : Roots, error : Errors]
DisputeReceipt == [call : {"dispute"}, root : Roots, error : Errors]

TypeOK ==
    /\ blockNumber \in 1 .. MaxBlock
    /\ batchRoots \in [Roots -> 0 .. MaxBlock]
    /\ totalBatchesSubmitted \in Nat
    /\ disputedRoots \subseteq Roots
    /\ totalDisputes \in Nat
    /\ log \in Seq(BatchSubmitted \cup Disputed)
    /\ receipt \in {NoCall} \cup SubmitReceipt \cup DisputeReceipt

IsSubmission(k) == k \in DOMAIN log /\ log[k].event = "BatchSubmitted"
IsDispute(k) == k \in DOMAIN log /\ log[k].event = "Disputed"

\* BatchSettlement.sol:86-109.  Whoever reads the log knows the state: the
\* roots submitted are those of its submission events, at their blocks, each
\* once, numbered 1, 2, ... up to the counter in the order of their blocks.
LogTellsBatches ==
    /\ \A root \in Roots : IsBatchSubmitted(root) =>
          \E k \in DOMAIN log : IsSubmission(k) /\ log[k].root = root
    /\ \A k \in DOMAIN log : IsSubmission(k) =>
          /\ batchRoots[log[k].root] = log[k].blockNumber
          /\ log[k].batchId \in 1 .. totalBatchesSubmitted
    /\ \A n \in 1 .. totalBatchesSubmitted :
          \E k \in DOMAIN log : IsSubmission(k) /\ log[k].batchId = n
    /\ \A k, l \in DOMAIN log : IsSubmission(k) /\ IsSubmission(l) /\ k < l =>
          /\ log[k].root # log[l].root
          /\ log[k].batchId < log[l].batchId
          /\ log[k].blockNumber <= log[l].blockNumber

\* DisputeGame.sol:117-170.  A root is disputed once, after it was submitted,
\* and the counter counts the roots disputed.
DisputesFollowBatches ==
    /\ totalDisputes = Cardinality(disputedRoots)
    /\ \A root \in disputedRoots : \E k, l \in DOMAIN log :
          /\ k < l /\ IsSubmission(k) /\ IsDispute(l)
          /\ log[k].root = root /\ log[l].root = root
    /\ \A k, l \in DOMAIN log : IsDispute(k) /\ IsDispute(l) /\ k # l =>
          log[k].root # log[l].root

\* DisputeGame.sol:231-245.  A batch whose orders all have one price and one
\* timestamp cannot be disputed, whatever is shown of it.
UniformBatchesSafe ==
    \A root \in disputedRoots : \E x, y \in DOMAIN Leaves[root] :
        ~CorrectlyOrdered(Leaves[root][x], Leaves[root][y])

\* BatchSettlement.sol:86-109.  No later call changes when a root was
\* submitted, and none takes a dispute back.
RecordsFinal ==
    [][/\ \A root \in Roots : IsBatchSubmitted(root) => batchRoots'[root] = batchRoots[root]
       /\ disputedRoots \subseteq disputedRoots']_vars

\* DisputeGame.sol:12, "Verifies merkle proofs of mis-ordered entries": a batch
\* that was disputed has two orders out of order in it.
DisputedBatchesMisordered ==
    \A root \in disputedRoots : \E x, y \in DOMAIN Leaves[root] :
        x < y /\ ~CorrectlyOrdered(Leaves[root][x], Leaves[root][y])
=============================================================================
