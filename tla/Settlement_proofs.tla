------------------------- MODULE Settlement_proofs -------------------------
(***************************************************************************)
(* Proofs about the two contracts for any roots, any trees, any callers.   *)
(***************************************************************************)
EXTENDS Settlement, FiniteSetTheorems, SequenceTheorems, TLAPS

\* The blocks of the events lie in the past, and every dispute event is
\* about a root that is marked.
PastInv ==
    /\ \A k \in DOMAIN log : IsSubmission(k) => log[k].blockNumber \in 1 .. blockNumber
    /\ \A k \in DOMAIN log : IsDispute(k) => log[k].root \in disputedRoots
    /\ IsFiniteSet(disputedRoots)

IInv == TypeOK /\ LogTellsBatches /\ DisputesFollowBatches /\ PastInv

LEMMA InitInv == Init => IInv
<1> SUFFICES ASSUME Init PROVE IInv
  OBVIOUS
<1> USE DEF Init
<1>1. TypeOK
  BY BlockAssumption DEF TypeOK
<1>2. LogTellsBatches
  BY DEF LogTellsBatches, IsSubmission, IsBatchSubmitted
<1>3. DisputesFollowBatches /\ PastInv
  BY FS_EmptySet DEF DisputesFollowBatches, PastInv, IsDispute, IsSubmission
<1> QED  BY <1>1, <1>2, <1>3 DEF IInv

\* Appending an event leaves the ones before it where they were.
LEMMA Appended ==
    ASSUME log \in Seq(BatchSubmitted \cup Disputed),
           NEW e \in BatchSubmitted \cup Disputed, log' = Append(log, e)
    PROVE  /\ log' \in Seq(BatchSubmitted \cup Disputed)
           /\ Len(log) \in Nat
           /\ DOMAIN log = 1 .. Len(log)
           /\ DOMAIN log' = 1 .. Len(log) + 1
           /\ \A k \in DOMAIN log : log'[k] = log[k]
           /\ log'[Len(log) + 1] = e
           /\ \A k \in DOMAIN log' : k \in DOMAIN log \/ k = Len(log) + 1
<1>1. /\ log' \in Seq(BatchSubmitted \cup Disputed)
      /\ Len(log') = Len(log) + 1
      /\ \A k \in 1 .. Len(log) : log'[k] = log[k]
      /\ log'[Len(log) + 1] = e
  BY AppendProperties
<1>2. Len(log) \in Nat /\ DOMAIN log = 1 .. Len(log) /\ DOMAIN log' = 1 .. Len(log')
  BY <1>1
<1> QED  BY <1>1, <1>2

\* A receipt, or the next block, changes nothing the invariant speaks of but
\* the receipt and the block.
LEMMA QuietInv ==
    ASSUME IInv, UNCHANGED <<settlementVars, disputeVars, log>>,
           blockNumber' \in blockNumber .. MaxBlock,
           receipt' \in {NoCall} \cup SubmitReceipt \cup DisputeReceipt
    PROVE  IInv'
<1> USE DEF settlementVars, disputeVars
<1>1. blockNumber \in 1 .. MaxBlock /\ MaxBlock \in Nat
  BY BlockAssumption DEF IInv, TypeOK
<1>2. TypeOK'
  BY <1>1 DEF IInv, TypeOK
<1>3. LogTellsBatches'
  BY DEF IInv, LogTellsBatches, IsSubmission, IsBatchSubmitted
<1>4. DisputesFollowBatches'
  BY DEF IInv, DisputesFollowBatches, IsSubmission, IsDispute
<1>5. PastInv'
  <2>1. \A k \in DOMAIN log : IsSubmission(k) => log[k].blockNumber \in 1 .. blockNumber'
    BY <1>1 DEF IInv, PastInv
  <2> QED  BY <2>1 DEF IInv, PastInv, IsSubmission, IsDispute
<1> QED  BY <1>2, <1>3, <1>4, <1>5 DEF IInv

LEMMA SubmitInv ==
    ASSUME IInv, NEW root \in Roots, NEW fillsLength \in {0, 1}, NEW aggSig \in SigLengths,
           SubmitBatch(root, fillsLength, aggSig)
    PROVE  IInv'
<1> DEFINE e == [event |-> "BatchSubmitted", root |-> root,
                 blockNumber |-> blockNumber, batchId |-> totalBatchesSubmitted + 1]
<1>1. /\ batchRoots[root] = 0
      /\ batchRoots' = [batchRoots EXCEPT ![root] = blockNumber]
      /\ totalBatchesSubmitted' = totalBatchesSubmitted + 1
      /\ log' = Append(log, e)
      /\ receipt' = [call |-> "submitBatch", root |-> root, error |-> "none"]
      /\ UNCHANGED <<blockNumber, disputedRoots, totalDisputes>>
  BY DEF SubmitBatch, SubmitError, disputeVars
<1>2. /\ blockNumber \in 1 .. MaxBlock /\ MaxBlock \in Nat
      /\ batchRoots \in [Roots -> 0 .. MaxBlock]
      /\ totalBatchesSubmitted \in Nat
      /\ log \in Seq(BatchSubmitted \cup Disputed)
  BY BlockAssumption DEF IInv, TypeOK
<1>3. PICK f \in BatchSubmitted : f = e
  <2>1. blockNumber \in Nat /\ totalBatchesSubmitted + 1 \in Nat
    BY <1>2
  <2>2. e \in BatchSubmitted
    BY <2>1 DEF BatchSubmitted
  <2> QED  BY <2>2
<1>4. /\ f.event = "BatchSubmitted" /\ f.root = root /\ f.blockNumber = blockNumber
      /\ f.batchId = totalBatchesSubmitted + 1
  BY <1>3
<1> PICK n \in Nat : n = Len(log) + 1
  BY <1>2
<1>5. /\ log' \in Seq(BatchSubmitted \cup Disputed)
      /\ Len(log) \in Nat /\ DOMAIN log = 1 .. Len(log) /\ DOMAIN log' = 1 .. n
      /\ \A k \in DOMAIN log : log'[k] = log[k] /\ k < n /\ k \in Nat
      /\ log'[n] = f
      /\ \A k \in DOMAIN log' : k \in DOMAIN log \/ k = n
      /\ n \in DOMAIN log' /\ DOMAIN log \subseteq DOMAIN log' /\ n \notin DOMAIN log
  <2>1. log' = Append(log, f)
    BY <1>1, <1>3
  <2> QED  BY <1>2, <2>1, Appended
<1> HIDE DEF e
<1>6. \A k \in DOMAIN log : (IsSubmission(k)' <=> IsSubmission(k))
                         /\ (IsDispute(k)' <=> IsDispute(k))
  BY <1>5 DEF IsSubmission, IsDispute
<1>7. \A k \in DOMAIN log' : k = n => log'[k].event = "BatchSubmitted"
  BY <1>4, <1>5
<1>8. \A r \in Roots : batchRoots'[r] = IF r = root THEN blockNumber ELSE batchRoots[r]
  BY <1>1, <1>2
<1>9. \A k \in DOMAIN log : IsSubmission(k) => log[k].root # root /\ log[k].root \in Roots
  <2> SUFFICES ASSUME NEW k \in DOMAIN log, IsSubmission(k)
               PROVE  log[k].root # root /\ log[k].root \in Roots
    OBVIOUS
  <2>1. batchRoots[log[k].root] = log[k].blockNumber /\ log[k].blockNumber > 0
    BY <1>2 DEF IInv, LogTellsBatches, PastInv
  <2>2. log[k] \in BatchSubmitted \cup Disputed
    BY <1>2
  <2> QED  BY <1>1, <2>1, <2>2 DEF BatchSubmitted, Disputed
<1>10. TypeOK'
  <2>1. batchRoots' \in [Roots -> 0 .. MaxBlock] /\ totalBatchesSubmitted' \in Nat
    BY <1>1, <1>2
  <2>2. receipt' \in SubmitReceipt
    BY <1>1 DEF SubmitReceipt, Errors
  <2> QED  BY <1>1, <1>5, <2>1, <2>2 DEF IInv, TypeOK
<1>11. LogTellsBatches'
  <2>1. \A r \in Roots : batchRoots'[r] # 0 =>
            \E k \in DOMAIN log' : IsSubmission(k)' /\ log'[k].root = r
    <3> SUFFICES ASSUME NEW r \in Roots, batchRoots'[r] # 0
                 PROVE  \E k \in DOMAIN log' : IsSubmission(k)' /\ log'[k].root = r
      OBVIOUS
    <3>1. CASE r = root
      <4>1. IsSubmission(n)' /\ log'[n].root = r
        BY <1>4, <1>5, <3>1 DEF IsSubmission
      <4> QED  BY <1>5, <4>1
    <3>2. CASE r # root
      <4>1. PICK k \in DOMAIN log : IsSubmission(k) /\ log[k].root = r
        BY <1>8, <3>2 DEF IInv, LogTellsBatches, IsBatchSubmitted
      <4> QED  BY <1>5, <1>6, <4>1
    <3> QED  BY <3>1, <3>2
  <2>2. \A k \in DOMAIN log' : IsSubmission(k)' =>
            /\ batchRoots'[log'[k].root] = log'[k].blockNumber
            /\ log'[k].batchId \in 1 .. totalBatchesSubmitted'
    <3> SUFFICES ASSUME NEW k \in DOMAIN log', IsSubmission(k)'
                 PROVE  /\ batchRoots'[log'[k].root] = log'[k].blockNumber
                        /\ log'[k].batchId \in 1 .. totalBatchesSubmitted'
      OBVIOUS
    <3>1. CASE k \in DOMAIN log
      BY <1>1, <1>2, <1>5, <1>6, <1>8, <1>9, <3>1 DEF IInv, LogTellsBatches
    <3>2. CASE k = n
      BY <1>1, <1>2, <1>4, <1>5, <1>8, <3>2
    <3> QED  BY <1>5, <3>1, <3>2
  <2>3. \A m \in 1 .. totalBatchesSubmitted' :
            \E k \in DOMAIN log' : IsSubmission(k)' /\ log'[k].batchId = m
    <3> SUFFICES ASSUME NEW m \in 1 .. totalBatchesSubmitted'
                 PROVE  \E k \in DOMAIN log' : IsSubmission(k)' /\ log'[k].batchId = m
      OBVIOUS
    <3>1. CASE m = totalBatchesSubmitted + 1
      <4>1. IsSubmission(n)' /\ log'[n].batchId = m
        BY <1>4, <1>5, <3>1 DEF IsSubmission
      <4> QED  BY <1>5, <4>1
    <3>2. CASE m \in 1 .. totalBatchesSubmitted
      <4>1. PICK k \in DOMAIN log : IsSubmission(k) /\ log[k].batchId = m
        BY <3>2 DEF IInv, LogTellsBatches
      <4> QED  BY <1>5, <1>6, <4>1
    <3> QED  BY <1>1, <1>2, <3>1, <3>2
  <2>4. \A k, l \in DOMAIN log' : IsSubmission(k)' /\ IsSubmission(l)' /\ k < l =>
            /\ log'[k].root # log'[l].root
            /\ log'[k].batchId < log'[l].batchId
            /\ log'[k].blockNumber <= log'[l].blockNumber
    <3> SUFFICES ASSUME NEW k \in DOMAIN log', NEW l \in DOMAIN log',
                        IsSubmission(k)', IsSubmission(l)', k < l
                 PROVE  /\ log'[k].root # log'[l].root
                        /\ log'[k].batchId < log'[l].batchId
                        /\ log'[k].blockNumber <= log'[l].blockNumber
      OBVIOUS
    <3>1. k \in DOMAIN log
      BY <1>5
    <3>2. CASE l \in DOMAIN log
      BY <1>5, <1>6, <3>1, <3>2 DEF IInv, LogTellsBatches
    <3>3. CASE l = n
      <4>1. /\ log[k].root # root
            /\ log[k].batchId \in 1 .. totalBatchesSubmitted
            /\ log[k].blockNumber \in 1 .. blockNumber
        BY <1>6, <1>9, <3>1 DEF IInv, LogTellsBatches, PastInv
      <4> QED  BY <1>2, <1>4, <1>5, <3>1, <3>3, <4>1
    <3> QED  BY <1>5, <3>2, <3>3
  <2> QED  BY <2>1, <2>2, <2>3, <2>4 DEF LogTellsBatches, IsBatchSubmitted
<1>12. DisputesFollowBatches'
  <2>1. \A r \in disputedRoots : \E k, l \in DOMAIN log' :
            /\ k < l /\ IsSubmission(k)' /\ IsDispute(l)'
            /\ log'[k].root = r /\ log'[l].root = r
    BY <1>5, <1>6 DEF IInv, DisputesFollowBatches
  <2>2. \A k \in DOMAIN log' : IsDispute(k)' => k \in DOMAIN log
    BY <1>5, <1>7 DEF IsDispute
  <2>3. \A k, l \in DOMAIN log' : IsDispute(k)' /\ IsDispute(l)' /\ k # l =>
            log'[k].root # log'[l].root
    BY <1>5, <1>6, <2>2 DEF IInv, DisputesFollowBatches
  <2> QED  BY <1>1, <2>1, <2>3 DEF IInv, DisputesFollowBatches
<1>13. PastInv'
  <2>1. \A k \in DOMAIN log' : IsSubmission(k)' => log'[k].blockNumber \in 1 .. blockNumber
    BY <1>2, <1>4, <1>5, <1>6 DEF IInv, PastInv
  <2>2. \A k \in DOMAIN log' : IsDispute(k)' => log'[k].root \in disputedRoots
    BY <1>5, <1>6, <1>7 DEF IInv, PastInv, IsDispute
  <2> QED  BY <1>1, <2>1, <2>2 DEF IInv, PastInv
<1> QED  BY <1>10, <1>11, <1>12, <1>13 DEF IInv

LEMMA DisputeInv ==
    ASSUME IInv, NEW root \in Roots, NEW idxA \in 0 .. MaxIndex, NEW idxB \in 0 .. MaxIndex,
           NEW orderA \in Orders, NEW orderB \in Orders,
           Dispute(root, idxA, idxB, orderA, orderB)
    PROVE  IInv'
<1> DEFINE e == [event |-> "Disputed", root |-> root, orderAIdx |-> idxA,
                 orderBIdx |-> idxB, slashedOperators |-> 1]
<1>1. /\ root \notin disputedRoots /\ IsBatchSubmitted(root)
      /\ disputedRoots' = disputedRoots \cup {root}
      /\ totalDisputes' = totalDisputes + 1
      /\ log' = Append(log, e)
      /\ receipt' = [call |-> "dispute", root |-> root, error |-> "none"]
      /\ UNCHANGED <<blockNumber, batchRoots, totalBatchesSubmitted>>
  BY DEF Dispute, DisputeError, settlementVars
<1>2. log \in Seq(BatchSubmitted \cup Disputed) /\ totalDisputes \in Nat
  BY DEF IInv, TypeOK
<1>3. PICK f \in Disputed : f = e
  <2>1. idxA \in Nat /\ idxB \in Nat
    BY IndexAssumption
  <2>2. e \in Disputed
    BY <2>1 DEF Disputed
  <2> QED  BY <2>2
<1>4. f.event = "Disputed" /\ f.root = root
  BY <1>3
<1> PICK n \in Nat : n = Len(log) + 1
  BY <1>2
<1>5. /\ log' \in Seq(BatchSubmitted \cup Disputed)
      /\ Len(log) \in Nat /\ DOMAIN log = 1 .. Len(log) /\ DOMAIN log' = 1 .. n
      /\ \A k \in DOMAIN log : log'[k] = log[k] /\ k < n /\ k \in Nat
      /\ log'[n] = f
      /\ \A k \in DOMAIN log' : k \in DOMAIN log \/ k = n
      /\ n \in DOMAIN log' /\ DOMAIN log \subseteq DOMAIN log' /\ n \notin DOMAIN log
  <2>1. log' = Append(log, f)
    BY <1>1, <1>3
  <2> QED  BY <1>2, <2>1, Appended
<1> HIDE DEF e
<1>6. \A k \in DOMAIN log : (IsSubmission(k)' <=> IsSubmission(k))
                         /\ (IsDispute(k)' <=> IsDispute(k))
  BY <1>5 DEF IsSubmission, IsDispute
<1>7. \A k \in DOMAIN log' : IsSubmission(k)' => k \in DOMAIN log
  BY <1>4, <1>5 DEF IsSubmission
<1>8. TypeOK'
  <2>1. receipt' \in DisputeReceipt
    BY <1>1 DEF DisputeReceipt, Errors
  <2> QED  BY <1>1, <1>2, <1>5, <2>1 DEF IInv, TypeOK
<1>9. LogTellsBatches'
  <2>1. \A r \in Roots : batchRoots[r] # 0 =>
            \E k \in DOMAIN log' : IsSubmission(k)' /\ log'[k].root = r
    BY <1>5, <1>6 DEF IInv, LogTellsBatches, IsBatchSubmitted
  <2>2. \A k \in DOMAIN log' : IsSubmission(k)' =>
            /\ batchRoots[log'[k].root] = log'[k].blockNumber
            /\ log'[k].batchId \in 1 .. totalBatchesSubmitted
    BY <1>5, <1>6, <1>7 DEF IInv, LogTellsBatches
  <2>3. \A m \in 1 .. totalBatchesSubmitted :
            \E k \in DOMAIN log' : IsSubmission(k)' /\ log'[k].batchId = m
    BY <1>5, <1>6 DEF IInv, LogTellsBatches
  <2>4. \A k, l \in DOMAIN log' : IsSubmission(k)' /\ IsSubmission(l)' /\ k < l =>
            /\ log'[k].root # log'[l].root
            /\ log'[k].batchId < log'[l].batchId
            /\ log'[k].blockNumber <= log'[l].blockNumber
    BY <1>5, <1>6, <1>7 DEF IInv, LogTellsBatches
  <2> QED  BY <1>1, <2>1, <2>2, <2>3, <2>4 DEF LogTellsBatches, IsBatchSubmitted
<1>10. DisputesFollowBatches'
  <2>1. totalDisputes' = Cardinality(disputedRoots')
    BY <1>1, FS_AddElement DEF IInv, DisputesFollowBatches, PastInv
  <2>2. \A r \in disputedRoots' : \E k, l \in DOMAIN log' :
            /\ k < l /\ IsSubmission(k)' /\ IsDispute(l)'
            /\ log'[k].root = r /\ log'[l].root = r
    <3> SUFFICES ASSUME NEW r \in disputedRoots'
                 PROVE  \E k, l \in DOMAIN log' :
                          /\ k < l /\ IsSubmission(k)' /\ IsDispute(l)'
                          /\ log'[k].root = r /\ log'[l].root = r
      OBVIOUS
    <3>1. CASE r = root
      <4>1. PICK k \in DOMAIN log : IsSubmission(k) /\ log[k].root = root
        BY <1>1 DEF IInv, LogTellsBatches
      <4>2. IsDispute(n)' /\ log'[n].root = root
        BY <1>4, <1>5 DEF IsDispute
      <4> QED  BY <1>5, <1>6, <3>1, <4>1, <4>2
    <3>2. CASE r \in disputedRoots
      BY <1>5, <1>6, <3>2 DEF IInv, DisputesFollowBatches
    <3> QED  BY <1>1, <3>1, <3>2
  <2>3. \A k \in DOMAIN log : IsDispute(k) => log[k].root # root
    BY <1>1 DEF IInv, PastInv
  <2>4. \A k, l \in DOMAIN log' : IsDispute(k)' /\ IsDispute(l)' /\ k # l =>
            log'[k].root # log'[l].root
    <3> SUFFICES ASSUME NEW k \in DOMAIN log', NEW l \in DOMAIN log',
                        IsDispute(k)', IsDispute(l)', k # l
                 PROVE  log'[k].root # log'[l].root
      OBVIOUS
    <3>1. CASE k \in DOMAIN log /\ l \in DOMAIN log
      BY <1>5, <1>6, <3>1 DEF IInv, DisputesFollowBatches
    <3>2. CASE k = n /\ l \in DOMAIN log
      BY <1>4, <1>5, <1>6, <2>3, <3>2
    <3>3. CASE k \in DOMAIN log /\ l = n
      BY <1>4, <1>5, <1>6, <2>3, <3>3
    <3> QED  BY <1>5, <3>1, <3>2, <3>3
  <2> QED  BY <2>1, <2>2, <2>4 DEF DisputesFollowBatches
<1>11. PastInv'
  <2>1. \A k \in DOMAIN log' : IsSubmission(k)' => log'[k].blockNumber \in 1 .. blockNumber
    BY <1>5, <1>6, <1>7 DEF IInv, PastInv
  <2>2. \A k \in DOMAIN log' : IsDispute(k)' => log'[k].root \in disputedRoots'
    BY <1>1, <1>4, <1>5, <1>6 DEF IInv, PastInv
  <2>3. IsFiniteSet(disputedRoots')
    BY <1>1, FS_AddElement DEF IInv, PastInv
  <2> QED  BY <1>1, <2>1, <2>2, <2>3 DEF PastInv
<1> QED  BY <1>8, <1>9, <1>10, <1>11 DEF IInv

LEMMA NextInv == IInv /\ [Next]_vars => IInv'
<1> SUFFICES ASSUME IInv, [Next]_vars PROVE IInv'
  OBVIOUS
<1>1. blockNumber \in 1 .. MaxBlock /\ MaxBlock \in Nat
      /\ receipt \in {NoCall} \cup SubmitReceipt \cup DisputeReceipt
  BY BlockAssumption DEF IInv, TypeOK
<1>2. CASE NextBlock
  BY <1>1, <1>2, QuietInv DEF NextBlock
<1>3. ASSUME NEW root \in Roots, NEW fillsLength \in {0, 1}, NEW aggSig \in SigLengths,
             SubmitBatch(root, fillsLength, aggSig)
      PROVE  IInv'
  BY <1>3, SubmitInv
<1>4. ASSUME NEW root \in Roots, NEW fillsLength \in {0, 1}, NEW aggSig \in SigLengths,
             SubmitBatchReverts(root, fillsLength, aggSig)
      PROVE  IInv'
  <2>1. SubmitError(root, fillsLength, aggSig) \in Errors
    BY DEF SubmitError, Errors
  <2>2. receipt' \in SubmitReceipt
    BY <1>4, <2>1 DEF SubmitBatchReverts, SubmitReceipt
  <2> QED  BY <1>1, <1>4, <2>2, QuietInv DEF SubmitBatchReverts
<1>5. ASSUME NEW root \in Roots, NEW idxA \in 0 .. MaxIndex, NEW idxB \in 0 .. MaxIndex,
             NEW orderA \in Orders, NEW orderB \in Orders,
             Dispute(root, idxA, idxB, orderA, orderB)
      PROVE  IInv'
  BY <1>5, DisputeInv
<1>6. ASSUME NEW root \in Roots, NEW idxA \in 0 .. MaxIndex, NEW idxB \in 0 .. MaxIndex,
             NEW orderA \in Orders, NEW orderB \in Orders,
             DisputeReverts(root, idxA, idxB, orderA, orderB)
      PROVE  IInv'
  <2>1. DisputeError(root, idxA, idxB, orderA, orderB) \in Errors
    BY DEF DisputeError, Errors
  <2>2. receipt' \in DisputeReceipt
    BY <1>6, <2>1 DEF DisputeReverts, DisputeReceipt
  <2> QED  BY <1>1, <1>6, <2>2, QuietInv DEF DisputeReverts
<1>7. CASE UNCHANGED vars
  BY <1>1, <1>7, QuietInv DEF vars
<1> QED  BY <1>2, <1>3, <1>4, <1>5, <1>6, <1>7 DEF Next, Submission, Challenge

LEMMA Inductive == Spec => []IInv
  BY InitInv, NextInv, PTL DEF Spec

-----------------------------------------------------------------------------
\* Every variable keeps its type, whatever is called.
THEOREM TypeCorrect == Spec => []TypeOK
<1>1. IInv => TypeOK
  BY DEF IInv
<1> QED  BY <1>1, Inductive, PTL

\* BatchSettlement.sol:86-109: the submission events and the state say the same,
\* however many roots are submitted, by whomever and in whatever order.
THEOREM LogIsFaithful == Spec => []LogTellsBatches
<1>1. IInv => LogTellsBatches
  BY DEF IInv
<1> QED  BY <1>1, Inductive, PTL

\* DisputeGame.sol:117-170: a root is disputed once at most and only after its
\* submission, and the counter is the number of disputed roots.
THEOREM DisputesCounted == Spec => []DisputesFollowBatches
<1>1. IInv => DisputesFollowBatches
  BY DEF IInv
<1> QED  BY <1>1, Inductive, PTL

\* BatchSettlement.sol:92: no call changes the block a root was stored with.
THEOREM RecordsAreFinal == Spec => RecordsFinal
<1>1. IInv /\ [Next]_vars =>
        [/\ \A root \in Roots : IsBatchSubmitted(root) => batchRoots'[root] = batchRoots[root]
         /\ disputedRoots \subseteq disputedRoots']_vars
  <2> SUFFICES ASSUME IInv, Next
               PROVE  /\ \A root \in Roots : IsBatchSubmitted(root) =>
                           batchRoots'[root] = batchRoots[root]
                      /\ disputedRoots \subseteq disputedRoots'
    OBVIOUS
  <2> USE DEF settlementVars, disputeVars
  <2>1. CASE NextBlock
    BY <2>1 DEF NextBlock
  <2>2. CASE Submission
    <3>1. ASSUME NEW r \in Roots, NEW fillsLength \in {0, 1}, NEW aggSig \in SigLengths,
                 SubmitBatch(r, fillsLength, aggSig)
          PROVE  /\ \A root \in Roots : IsBatchSubmitted(root) =>
                      batchRoots'[root] = batchRoots[root]
                 /\ disputedRoots \subseteq disputedRoots'
      <4>1. batchRoots[r] = 0 /\ batchRoots' = [batchRoots EXCEPT ![r] = blockNumber]
            /\ disputedRoots' = disputedRoots
        BY <3>1 DEF SubmitBatch, SubmitError
      <4>2. batchRoots \in [Roots -> 0 .. MaxBlock]
        BY DEF IInv, TypeOK
      <4> QED  BY <4>1, <4>2 DEF IsBatchSubmitted
    <3> QED  BY <2>2, <3>1 DEF Submission, SubmitBatchReverts
  <2>3. CASE Challenge
    BY <2>3 DEF Challenge, Dispute, DisputeReverts
  <2> QED  BY <2>1, <2>2, <2>3 DEF Next
<1> QED  BY <1>1, Inductive, PTL DEF Spec, RecordsFinal

\* DisputeGame.sol:231-245: whatever its leaves are, a disputed batch has two of
\* them that are not in order.  The orders the call shows are such a pair, as
\* both have been verified to be leaves.
THEOREM BatchesSafe == Spec => []UniformBatchesSafe
<1> USE DEF settlementVars, disputeVars
<1>1. Init => UniformBatchesSafe
  BY DEF Init, UniformBatchesSafe
<1>2. UniformBatchesSafe /\ [Next]_vars => UniformBatchesSafe'
  <2> SUFFICES ASSUME UniformBatchesSafe, [Next]_vars
               PROVE  UniformBatchesSafe'
    OBVIOUS
  <2>1. ASSUME NEW root \in Roots, NEW idxA, NEW idxB, NEW orderA, NEW orderB,
               Dispute(root, idxA, idxB, orderA, orderB)
        PROVE  UniformBatchesSafe'
    <3>1. /\ MerkleVerify(root, orderA) /\ MerkleVerify(root, orderB)
          /\ ~CorrectlyOrdered(orderA, orderB)
      BY <2>1 DEF Dispute, DisputeError
    <3>2. PICK x \in DOMAIN Leaves[root] : Leaves[root][x] = orderA
      BY <3>1 DEF MerkleVerify
    <3>3. PICK y \in DOMAIN Leaves[root] : Leaves[root][y] = orderB
      BY <3>1 DEF MerkleVerify
    <3>4. disputedRoots' = disputedRoots \cup {root}
      BY <2>1 DEF Dispute
    <3> QED  BY <3>1, <3>2, <3>3, <3>4 DEF UniformBatchesSafe
  <2>2. CASE Challenge
    BY <2>1, <2>2 DEF Challenge, DisputeReverts, UniformBatchesSafe
  <2>3. CASE UNCHANGED disputedRoots
    BY <2>3 DEF UniformBatchesSafe
  <2> QED  BY <2>2, <2>3 DEF Next, NextBlock, Submission, SubmitBatch,
                             SubmitBatchReverts, vars
<1> QED  BY <1>1, <1>2, PTL DEF Spec
=============================================================================
