------------------------------ MODULE Pipeline ------------------------------
(***************************************************************************)
(* The whole of POST /orders: a handler of Matcher, the BLS signature of   *)
(* its batch (AggregateBLS of cmd/matcher/matcher.go), and the call of     *)
(* SubmitBatch that Submitter models, down to the contract of Settlement.  *)
(*                                                                         *)
(* The handler that ran a round submits its batch itself, after it has     *)
(* left mu and before it replies.  The server calls neither                *)
(* RetryFailedBatches nor ClearFailedBatches.  A batch is named by its     *)
(* handler; its root is its list of fills.                                 *)
(***************************************************************************)
EXTENDS Matcher

CONSTANTS
    Keys,        \* how many of BLS_KEYS were loaded
    MaxRetries   \* MAX_RETRIES of the submitter

ASSUME KeysAssumption == Keys \in Nat
ASSUME RetriesAssumption == MaxRetries \in Nat \ {0}

VARIABLES
    aggSig,      \* per handler: the length of its batch's signature, 0 before
    worker, attempt, nonce, failedBatches, toRetry, index, successful,
    nextNonce, mempool, receipts, cleared

Sub == INSTANCE Submitter WITH
    Batches <- OrderIds, Retriers <- {}, pc <- worker,
    Replaces <- FALSE, Drops <- FALSE, Clears <- FALSE, Crashes <- FALSE

submitterVars == <<worker, attempt, nonce, failedBatches, toRetry, index, successful,
                   nextNonce, mempool, receipts, cleared>>
pipelineVars == <<vars, aggSig, submitterVars>>

\* "mock_bls_signature_" and sixteen characters of the root, or a point on BN254.
MockLength == 35
PointLength == 64
SignatureLength == IF Keys = 0 THEN MockLength ELSE PointLength

\* By now init has loaded the keys: it passes over those that do not decode, and
\* without BLS_KEYS there are none.
PipelineInit ==
    /\ Init
    /\ aggSig = [o \in OrderIds |-> 0]
    /\ Sub!Init

-----------------------------------------------------------------------------
HandlerStep(o) == (Post(o) \/ Handler(o)) /\ UNCHANGED <<aggSig, submitterVars>>

\* AggregateBLS returns a signature, and SubmitBatch starts.  Keys that fail to
\* sign are passed over while one of them signs.
AggregateBLS(o) ==
    /\ pc[o] = "matched" /\ aggSig[o] = 0
    /\ aggSig' = [aggSig EXCEPT ![o] = SignatureLength]
    /\ Sub!Submit(o)
    /\ UNCHANGED vars

\* No key signs, or the signatures do not add up: the handler logs the error
\* and replies as always.
AggregateFails(o) ==
    /\ pc[o] = "matched" /\ aggSig[o] = 0
    /\ Keys > 0
    /\ pc' = [pc EXCEPT ![o] = "replied"]
    /\ UNCHANGED <<posted, orderBook, mu, roundVars, batch, volumeVars, aggSig, submitterVars>>

\* A step of SubmitBatch in the handler.
SubmitStep(o) == Sub!SubmitWorker(o) /\ UNCHANGED <<vars, aggSig>>

\* SubmitBatch has returned; whatever it says, the handler reports success.
Reply(o) ==
    /\ pc[o] = "matched" /\ worker[o] \in {"ok", "failed"}
    /\ pc' = [pc EXCEPT ![o] = "replied"]
    /\ UNCHANGED <<posted, orderBook, mu, roundVars, batch, volumeVars, aggSig, submitterVars>>

Mine == Sub!Mine /\ UNCHANGED <<vars, aggSig>>

PipelineNext ==
    \/ \E o \in OrderIds :
          \/ HandlerStep(o)
          \/ AggregateBLS(o)
          \/ AggregateFails(o)
          \/ SubmitStep(o)
          \/ Reply(o)
    \/ Mine

PipelineSpec == PipelineInit /\ [][PipelineNext]_pipelineVars

-----------------------------------------------------------------------------
(* Properties. *)

FillsOf(o) == {batch[o][k] : k \in DOMAIN batch[o]}

\* main.go:236-265, submitter.go:138-179.  The book forgets a fill before its
\* batch is submitted; from there on the batch is in the hands of its handler,
\* or of the submitter or the node, or in the queue, or settled, unless it could
\* not be signed.
FillsDelivered ==
    \A o \in OrderIds : pc[o] \in {"matched", "replied"} /\ batch[o] # <<>> =>
        \/ pc[o] = "matched" /\ worker[o] \in {"idle"} \cup Sub!Underway \cup {"exhausted"}
        \/ Sub!Pending(o) \/ Sub!InQueue(o) \/ o \in Sub!Settled
        \/ Keys > 0 /\ aggSig[o] = 0

\* matcher.go:287-335, submitter.go:144-159.  No fill is settled twice, neither
\* in one batch nor in two, though batches are sent again after lost answers.
FillsSettledOnce ==
    \A r, s \in receipts : r.status = 1 /\ s.status = 1 /\ r # s =>
        FillsOf(r.root) \cap FillsOf(s.root) = {}

-----------------------------------------------------------------------------
(* What the node does with the batches is what the contract of Settlement  *)
(* does: every transaction mined is a call of submitBatch, in one block.   *)

SettledReceipts == {r \in receipts : r.status = 1}
Nth(S, k) == CHOOSE r \in S : Cardinality({s \in S : s.nonce < r.nonce}) = k - 1

\* The state of the contract, as the receipts tell it.
ChainRoots == [o \in OrderIds |-> IF o \in Sub!Settled THEN 1 ELSE 0]
ChainLog == [k \in 1 .. Cardinality(SettledReceipts) |->
                [event |-> "BatchSubmitted", root |-> Nth(SettledReceipts, k).root,
                 blockNumber |-> 1, batchId |-> k]]
ChainReceipt ==
    IF receipts = {} THEN [call |-> "none"]
    ELSE LET last == Nth(receipts, Cardinality(receipts))
         IN  [call |-> "submitBatch", root |-> last.root,
              error |-> IF last.status = 1 THEN "none" ELSE "DuplicateBatchRoot"]

Chain == INSTANCE Settlement WITH
    Roots <- OrderIds, Orders <- {}, Leaves <- [o \in OrderIds |-> <<>>],
    OrderLeaves <- {}, MaxBlock <- 1, MaxIndex <- 0,
    SigLengths <- {SignatureLength},
    blockNumber <- 1, batchRoots <- ChainRoots,
    totalBatchesSubmitted <- Cardinality(SettledReceipts),
    disputedRoots <- {}, totalDisputes <- 0,
    log <- ChainLog, receipt <- ChainReceipt

\* submitter.go:222-258 with BatchSettlement.sol:80-110.  Whatever the handlers
\* send, the contract's log, counter and mapping follow from the transactions
\* mined, step by step.
ChainFollowsSettlement == Chain!Spec
=============================================================================
