------------------------------ MODULE Delivery ------------------------------
(***************************************************************************)
(* What the submitter promises of each batch, without nonces, attempts,    *)
(* copies or indices: it keeps hold of the batch until it has handed it    *)
(* to the node or put it in the queue, and what is in the queue stays      *)
(* there until it has been handed to the node.  Submitter.tla implements   *)
(* this, under conditions that it names.                                   *)
(***************************************************************************)
CONSTANT Batches

VARIABLES
    handed,   \* the batches SubmitBatch was called with
    held,     \* those whose call has not returned
    queued,   \* those that are kept to be retried
    sent,     \* those the node has been given
    settled   \* those on chain

vars == <<handed, held, queued, sent, settled>>

Init ==
    /\ handed = {}
    /\ held = {}
    /\ queued = {}
    /\ sent = {}
    /\ settled = {}

HandOver(b) ==
    /\ b \notin handed
    /\ handed' = handed \cup {b}
    /\ held' = held \cup {b}
    /\ UNCHANGED <<queued, sent, settled>>

\* By its call, or by a retry.
Send(b) ==
    /\ b \in held \cup queued
    /\ b \notin sent
    /\ sent' = sent \cup {b}
    /\ UNCHANGED <<handed, held, queued, settled>>

Settle(b) ==
    /\ b \in sent \ settled
    /\ settled' = settled \cup {b}
    /\ UNCHANGED <<handed, held, queued, sent>>

\* The call returns.  A batch may be queued though it was sent, as its answer
\* may have been lost.
Return(b) ==
    /\ b \in held
    /\ held' = held \ {b}
    /\ \/ b \in sent /\ UNCHANGED queued
       \/ queued' = queued \cup {b}
    /\ UNCHANGED <<handed, sent, settled>>

Dequeue ==
    /\ \E done \in SUBSET (queued \cap sent) : queued' = queued \ done
    /\ UNCHANGED <<handed, held, sent, settled>>

Next ==
    \/ \E b \in Batches : HandOver(b) \/ Send(b) \/ Settle(b) \/ Return(b)
    \/ Dequeue

\* Calls return, and what the node has been given it settles.
Spec ==
    /\ Init /\ [][Next]_vars
    /\ \A b \in Batches : WF_vars(Return(b)) /\ WF_vars(Settle(b))

\* cmd/README.md:147, "This ensures no batches are lost".  What the promise is
\* for: a batch handed over is with its call, in the queue, or with the node.
NothingLost == handed \subseteq held \cup queued \cup sent
=============================================================================
