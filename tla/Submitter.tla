----------------------------- MODULE Submitter -----------------------------
(***************************************************************************)
(* The submitter (cmd/submitter/submitter.go) and the node it talks to.    *)
(*                                                                         *)
(* Every batch is submitted by a goroutine of its own, the handler whose   *)
(* round made it.  Others may call RetryFailedBatches and                  *)
(* ClearFailedBatches, which the package exports.  All of them send from   *)
(* one account, and nothing keeps them apart but the mutex of the queue of *)
(* failed batches.                                                         *)
(*                                                                         *)
(* The node is not part of the repository: its mempool holds at most one   *)
(* transaction per nonce and mines them in the order of their nonces; any  *)
(* call to it may fail.  A batch stands for its root.                      *)
(***************************************************************************)
EXTENDS Integers, SequencesExt

CONSTANTS
    Batches,     \* the batches; each is also the worker that submits it
    Retriers,    \* calls of RetryFailedBatches, one each
    MaxRetries,  \* MAX_RETRIES, the attempts of a submission
    Replaces,    \* may a transaction replace one of the same nonce?
    Drops,       \* may the node forget a transaction?
    Clears,      \* may ClearFailedBatches be called?
    Crashes      \* may the process end?

ASSUME WorkersAssumption == Batches \cap Retriers = {}
ASSUME RetriesAssumption == MaxRetries \in Nat \ {0}
ASSUME NodeAssumption == {Replaces, Drops, Clears, Crashes} \subseteq BOOLEAN

VARIABLES
    pc,             \* per worker: where it is
    attempt,        \* per worker: the attempt under way
    nonce,          \* per worker: the pending nonce it was told
    failedBatches,  \* the queue
    toRetry,        \* per retrier: its copy of the queue
    index,          \* per retrier: the entry of the copy it is at
    successful,     \* per retrier: successfulIndices
    nextNonce,      \* the node: transactions of the account mined
    mempool,        \* the node: the transactions it holds
    receipts,       \* the chain: what was mined, with its status
    cleared         \* the batches thrown away on request

retryVars == <<toRetry, index, successful>>
nodeVars == <<nextNonce, mempool, receipts>>
vars == <<pc, attempt, nonce, failedBatches, retryVars, nodeVars, cleared>>

Workers == Batches \cup Retriers
Underway == {"attempt", "estimate", "send", "wait"}

\* The batch a worker is submitting.
Root(w) == IF w \in Batches THEN w ELSE toRetry[w][index[w]]

Settled == {r.root : r \in {r \in receipts : r.status = 1}}
Pending(b) == \E tx \in mempool : tx.root = b
InQueue(b) == \E k \in DOMAIN failedBatches : failedBatches[k] = b

\* What the node answers to PendingNonceAt: the next nonce that continues the
\* transactions mined and held.
IsPendingNonce(n) ==
    /\ \A tx \in mempool : tx.nonce # n
    /\ \A m \in nextNonce .. n - 1 : \E tx \in mempool : tx.nonce = m

Init ==
    /\ pc = [w \in Workers |-> "idle"]
    /\ attempt = [w \in Workers |-> 1]
    /\ nonce = [w \in Workers |-> 0]
    /\ failedBatches = <<>>
    /\ toRetry = [r \in Retriers |-> <<>>]
    /\ index = [r \in Retriers |-> 1]
    /\ successful = [r \in Retriers |-> <<>>]
    /\ nextNonce = 0
    /\ mempool = {}
    /\ receipts = {}
    /\ cleared = {}

Goto(w, label) == pc' = [pc EXCEPT ![w] = label]

-----------------------------------------------------------------------------
(* The end of an attempt, in SubmitBatch and in RetryFailedBatches. *)

\* A slip: a batch that has run out of attempts is not queued.
AttemptForgotten(w) ==
    /\ IF attempt[w] < MaxRetries
       THEN attempt' = [attempt EXCEPT ![w] = @ + 1] /\ Goto(w, "attempt")
       ELSE Goto(w, IF w \in Batches THEN "failed" ELSE "next") /\ UNCHANGED attempt
    /\ UNCHANGED <<failedBatches, retryVars, cleared>>
\* A slip: the attempts are not counted.
AttemptForever(w) ==
    /\ Goto(w, "attempt")
    /\ UNCHANGED <<attempt, failedBatches, retryVars, cleared>>

\* A slip: one attempt too many.
AttemptOnceMore(w) ==
    /\ IF attempt[w] <= MaxRetries
       THEN attempt' = [attempt EXCEPT ![w] = @ + 1] /\ Goto(w, "attempt")
       ELSE Goto(w, IF w \in Batches THEN "exhausted" ELSE "next") /\ UNCHANGED attempt
    /\ UNCHANGED <<failedBatches, retryVars, cleared>>
\* A slip: RetryFailedBatches calls SubmitBatch, which queues what failed.
RetrySubmits(w) ==
    /\ IF attempt[w] < MaxRetries
       THEN attempt' = [attempt EXCEPT ![w] = @ + 1] /\ Goto(w, "attempt")
       ELSE Goto(w, IF w \in Batches THEN "exhausted" ELSE "next") /\ UNCHANGED attempt
    /\ failedBatches' = IF w \in Retriers /\ attempt[w] = MaxRetries
                        THEN Append(failedBatches, Root(w)) ELSE failedBatches
    /\ UNCHANGED <<retryVars, cleared>>

\* It failed: sleep and try again, or give up.
AttemptFails(w) ==
    /\ IF attempt[w] < MaxRetries
       THEN attempt' = [attempt EXCEPT ![w] = @ + 1] /\ Goto(w, "attempt")
       ELSE Goto(w, IF w \in Batches THEN "exhausted" ELSE "next") /\ UNCHANGED attempt
    /\ UNCHANGED <<failedBatches, retryVars, cleared>>

\* A slip: the index of the next batch is taken down.
AttemptSucceedsNext(w) ==
    /\ Goto(w, IF w \in Batches THEN "ok" ELSE "next")
    /\ IF w \in Retriers
       THEN successful' = [successful EXCEPT ![w] = Append(@, index[w] + 1)]
       ELSE UNCHANGED successful
    /\ UNCHANGED <<attempt, failedBatches, toRetry, index, cleared>>
\* It succeeded, as far as the worker knows.
AttemptSucceeds(w) ==
    /\ Goto(w, IF w \in Batches THEN "ok" ELSE "next")
    /\ IF w \in Retriers
       THEN successful' = [successful EXCEPT ![w] = Append(@, index[w])]
       ELSE UNCHANGED successful
    /\ UNCHANGED <<attempt, failedBatches, toRetry, index, cleared>>

-----------------------------------------------------------------------------
(* attemptSubmitBatch. *)

\* Any of the calls to the node before the transaction is sent may fail.
NodeFails(w) ==
    /\ pc[w] \in {"attempt", "estimate", "send"}
    /\ AttemptFails(w)
    /\ UNCHANGED <<nonce, nodeVars>>

\* A slip: a later attempt counts on from the nonce of the one before.
ReadNonceOnce(w) ==
    /\ pc[w] = "attempt"
    /\ \E n \in nextNonce .. nextNonce + Cardinality(mempool) :
          /\ IsPendingNonce(n)
          /\ nonce' = [nonce EXCEPT ![w] = IF attempt[w] = 1 THEN n ELSE @ + 1]
    /\ Goto(w, "estimate")
    /\ UNCHANGED <<attempt, failedBatches, retryVars, nodeVars, cleared>>
ReadNonce(w) ==
    /\ pc[w] = "attempt"
    /\ \E n \in nextNonce .. nextNonce + Cardinality(mempool) :
          IsPendingNonce(n) /\ nonce' = [nonce EXCEPT ![w] = n]
    /\ Goto(w, "estimate")
    /\ UNCHANGED <<attempt, failedBatches, retryVars, nodeVars, cleared>>

\* EstimateGas runs the call on the chain as it is: submitBatch reverts if the
\* root is there already.
EstimateGas(w) ==
    /\ pc[w] = "estimate"
    /\ Root(w) \notin Settled
    /\ Goto(w, "send")
    /\ UNCHANGED <<attempt, nonce, failedBatches, retryVars, nodeVars, cleared>>

EstimateReverts(w) ==
    /\ pc[w] = "estimate"
    /\ Root(w) \in Settled
    /\ AttemptFails(w)
    /\ UNCHANGED <<nonce, nodeVars>>

\* The transactions of a nonce, and what the node does with one more: it
\* refuses a nonce that was mined or, unless the price is better, one in use.
SameNonce(n) == {tx \in mempool : tx.nonce = n}
Accepts(n) == n >= nextNonce /\ (SameNonce(n) # {} => Replaces)
Held(w) == (mempool \ SameNonce(nonce[w])) \cup {[nonce |-> nonce[w], root |-> Root(w)]}

Send(w) ==
    /\ pc[w] = "send"
    /\ Accepts(nonce[w])
    /\ mempool' = Held(w)
    /\ Goto(w, "wait")
    /\ UNCHANGED <<attempt, nonce, failedBatches, retryVars, nextNonce, receipts, cleared>>

\* The node takes the transaction, but its answer does not come back.
SendUnanswered(w) ==
    /\ pc[w] = "send"
    /\ Accepts(nonce[w])
    /\ mempool' = Held(w)
    /\ AttemptFails(w)
    /\ UNCHANGED <<nonce, nextNonce, receipts>>

ReceiptOf(w) == {r \in receipts : r.nonce = nonce[w] /\ r.root = Root(w)}

\* WaitMined returns a receipt; status 0 is an error.
Mined(w) ==
    /\ pc[w] = "wait"
    /\ \E r \in ReceiptOf(w) :
          IF r.status = 0 THEN AttemptFails(w) ELSE AttemptSucceeds(w)
    /\ UNCHANGED <<nonce, nodeVars>>

\* WaitMined runs out of the two minutes of the attempt; the hash is returned
\* without an error.
WaitTimesOut(w) ==
    /\ pc[w] = "wait"
    /\ AttemptSucceeds(w)
    /\ UNCHANGED <<nonce, nodeVars>>

Attempt(w) ==
    \/ NodeFails(w)
    \/ ReadNonce(w)
    \/ EstimateGas(w)
    \/ EstimateReverts(w)
    \/ Send(w)
    \/ SendUnanswered(w)
    \/ Mined(w)
    \/ WaitTimesOut(w)

-----------------------------------------------------------------------------
(* SubmitBatch and the queue. *)

Submit(b) ==
    /\ pc[b] = "idle"
    /\ Goto(b, "attempt")
    /\ UNCHANGED <<attempt, nonce, failedBatches, retryVars, nodeVars, cleared>>

\* All attempts failed: the batch joins the queue and the call returns an error.
Enqueue(b) ==
    /\ pc[b] = "exhausted"
    /\ failedBatches' = Append(failedBatches, b)
    /\ Goto(b, "failed")
    /\ UNCHANGED <<attempt, nonce, retryVars, nodeVars, cleared>>

\* RetryFailedBatches copies the queue under the mutex and works on the copy.
StartRetry(r) ==
    /\ pc[r] = "idle"
    /\ failedBatches # <<>>
    /\ toRetry' = [toRetry EXCEPT ![r] = failedBatches]
    /\ Goto(r, "attempt")
    /\ UNCHANGED <<attempt, nonce, failedBatches, index, successful, nodeVars, cleared>>

NextBatch(r) ==
    /\ pc[r] = "next"
    /\ index[r] < Len(toRetry[r])
    /\ index' = [index EXCEPT ![r] = @ + 1]
    /\ attempt' = [attempt EXCEPT ![r] = 1]
    /\ Goto(r, "attempt")
    /\ UNCHANGED <<nonce, failedBatches, toRetry, successful, nodeVars, cleared>>

\* The entries at the indices, the last one first, leave the queue as it is by
\* now.
RemoveBackward(indices, queue) ==
    FoldRight(LAMBDA k, q : IF k <= Len(q) THEN RemoveAt(q, k) ELSE q, indices, queue)

FinishRetry(r) ==
    /\ pc[r] = "next"
    /\ index[r] = Len(toRetry[r])
    /\ failedBatches' = RemoveBackward(successful[r], failedBatches)
    /\ Goto(r, "done")
    /\ UNCHANGED <<attempt, nonce, retryVars, nodeVars, cleared>>

ClearFailedBatches ==
    /\ Clears
    /\ failedBatches # <<>>
    /\ failedBatches' = <<>>
    /\ cleared' = cleared \cup {failedBatches[k] : k \in DOMAIN failedBatches}
    /\ UNCHANGED <<pc, attempt, nonce, retryVars, nodeVars>>

\* The process ends; the queue is in its memory.
Crash ==
    /\ Crashes
    /\ \E w \in Workers : pc[w] \notin {"idle", "dead"}
    /\ pc' = [w \in Workers |-> IF pc[w] = "idle" THEN "idle" ELSE "dead"]
    /\ failedBatches' = <<>>
    /\ UNCHANGED <<attempt, nonce, retryVars, nodeVars, cleared>>

-----------------------------------------------------------------------------
(* The node. *)

\* A slip of the contract: a root may be stored twice.
StatusUnchecked(root) == 1
\* submitBatch on chain: DuplicateBatchRoot reverts.
Status(root) == IF root \in Settled THEN 0 ELSE 1

Mine ==
    /\ \E tx \in mempool :
         /\ tx.nonce = nextNonce
         /\ mempool' = mempool \ {tx}
         /\ receipts' = receipts \cup {[nonce |-> tx.nonce, root |-> tx.root,
                                        status |-> Status(tx.root)]}
    /\ nextNonce' = nextNonce + 1
    /\ UNCHANGED <<pc, attempt, nonce, failedBatches, retryVars, cleared>>

Drop ==
    /\ Drops
    /\ \E tx \in mempool : mempool' = mempool \ {tx}
    /\ UNCHANGED <<pc, attempt, nonce, failedBatches, retryVars, nextNonce, receipts, cleared>>

-----------------------------------------------------------------------------
SubmitWorker(b) == Attempt(b) \/ Enqueue(b)
RetryWorker(r) == Attempt(r) \/ NextBatch(r) \/ FinishRetry(r)

Next ==
    \/ \E b \in Batches : Submit(b) \/ SubmitWorker(b)
    \/ \E r \in Retriers : StartRetry(r) \/ RetryWorker(r)
    \/ ClearFailedBatches
    \/ Crash
    \/ Mine
    \/ Drop

Spec == Init /\ [][Next]_vars

\* A call under way goes on: its goroutine runs, and its context ends after two
\* minutes whatever the node does.  Nobody has to call.
Fairness ==
    /\ \A b \in Batches : WF_vars(SubmitWorker(b))
    /\ \A r \in Retriers : WF_vars(RetryWorker(r))
FairSpec == Spec /\ Fairness

\* As long as the node mines.
LiveSpec == FairSpec /\ WF_vars(Mine)

-----------------------------------------------------------------------------
(* Properties. *)

Labels == Underway \cup {"idle", "ok", "exhausted", "failed", "next", "done", "dead"}

TypeOK ==
    /\ pc \in [Workers -> Labels]
    /\ attempt \in [Workers -> 1 .. MaxRetries]
    /\ nonce \in [Workers -> Nat]
    /\ failedBatches \in Seq(Batches)
    /\ toRetry \in [Retriers -> Seq(Batches)]
    /\ index \in [Retriers -> Nat \ {0}]
    /\ successful \in [Retriers -> Seq(Nat \ {0})]
    /\ nextNonce \in Nat
    /\ mempool \subseteq [nonce : Nat, root : Batches]
    /\ receipts \subseteq [nonce : Nat, root : Batches, status : {0, 1}]
    /\ cleared \subseteq Batches

\* submitter.go:138-179, 318-328; cmd/README.md:147, "This ensures no batches
\* are lost": a batch handed over is being submitted, or queued, or with the
\* node, or settled, until someone throws it away.
NoBatchLost ==
    \A b \in Batches : pc[b] # "idle" =>
        \/ pc[b] \in Underway \cup {"exhausted"}
        \/ InQueue(b) \/ Pending(b) \/ b \in Settled
        \/ b \in cleared

\* submitter.go:197-252.  Two workers may be told the same nonce, yet as long as
\* the node keeps what it takes, its transactions are numbered without a gap
\* and each has a nonce of its own, so it can mine them all.
NoNonceGap ==
    /\ \A tx \in mempool : tx.nonce >= nextNonce
    /\ \A tx \in mempool : \A n \in nextNonce .. tx.nonce :
          \E other \in mempool : other.nonce = n
    /\ \A tx, other \in mempool : tx.nonce = other.nonce => tx = other

\* submitter.go:144-159 with BatchSettlement.sol:92.  However often a batch is
\* sent, by whichever workers, it is settled once.
SettledOnce ==
    \A r, s \in receipts : r.status = 1 /\ s.status = 1 /\ r.root = s.root => r = s

\* submitter.go:288-328.  The queue never holds a batch twice.
QueuedOnce ==
    \A k, l \in DOMAIN failedBatches : failedBatches[k] = failedBatches[l] => k = l

\* submitter.go:140-179.  Every call returns, with or without an answer from
\* the node.
CallsReturn ==
    \A w \in Workers : pc[w] = "attempt" ~> pc[w] \in {"ok", "failed", "done", "dead"}

-----------------------------------------------------------------------------
(* What of this implements Delivery. *)

Handed == {b \in Batches : pc[b] # "idle"}
InHand == {b \in Batches : pc[b] \in Underway \cup {"exhausted"}}
Queue == {b \in Batches : InQueue(b)}
Sent == {b \in Batches : Pending(b)} \cup Settled

Promise == INSTANCE Delivery WITH
    handed <- Handed, held <- InHand, queued <- Queue, sent <- Sent, settled <- Settled

\* submitter.go:138-179, 262-328.  With a node that keeps what it takes and mines
\* it, and no more than one retry call, the submitter keeps the promise: a batch leaves
\* neither its call nor the queue before the node has it, calls return, and what
\* the node has gets settled.  So a batch handed over ends up on chain or in the
\* queue.
DeliveryKept == Promise!Spec
=============================================================================
